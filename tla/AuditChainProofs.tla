--------------------------- MODULE AuditChainProofs ---------------------------
(***************************************************************************)
(* The chain of every merchant verifies at every moment, for any number of *)
(* writers, processes and merchants and any APPEND_RETRIES.                *)
(***************************************************************************)
EXTENDS AuditChain, SequenceTheorems, FiniteSetTheorems, TLAPS

\* What makes ChainIntact inductive: the head a writer is about to extend is
\* a record of its merchant's chain, however long ago it was read.
HeadRead ==
  \A w \in Writer : pc[w] = "write" =>
    \E r \in RowsOf(MerchantOf[w]) : r.seq = head[w].seq /\ r.hash = head[w].hash

USE ChainAssumption

-----------------------------------------------------------------------------
LEMMA RecordType ==
  ASSUME NEW m \in Merchant, NEW n \in Nat, NEW c \in Content, NEW h \in Hashes
  PROVE  Record(m, n, c, h) \in Rows
<1>1. hashRecord(h, c) \in Hashes
  BY DEF hashRecord, Hashes
<1>2. QED
  BY <1>1 DEF Record, Rows

LEMMA RowTypes ==
  ASSUME TypeOK, NEW w \in Writer
  PROVE  /\ Genesis(w) \in Rows /\ Genesis(w).merchant = MerchantOf[w]
         /\ Entry(w) \in Rows /\ Entry(w).merchant = MerchantOf[w]
<1>1. GENESIS_HASH \in Hashes
  BY DEF GENESIS_HASH, Hashes
<1>2. head[w].seq + 1 \in Nat /\ head[w].hash \in Hashes
  BY DEF TypeOK
<1>3. MerchantOf[w] \in Merchant /\ w \in Content /\ "GENESIS" \in Content
  BY DEF Content
<1>4. Genesis(w) \in Rows
  BY <1>1, <1>3, RecordType DEF Genesis
<1>5. Entry(w) \in Rows
  BY <1>2, <1>3, RecordType DEF Entry
<1>6. Genesis(w).merchant = MerchantOf[w] /\ Entry(w).merchant = MerchantOf[w]
  BY DEF Genesis, Entry, Record
<1>7. QED
  BY <1>4, <1>5, <1>6

\* A record that takes the next free place after a record of the chain, and
\* carries its hash, or starts an empty chain, leaves the chain intact.
LEMMA ChainGrows ==
  ASSUME TypeOK, ChainIntact, NEW n \in Rows,
         Taken(n) = {}, table' = table \cup {n},
         n.hash = hashRecord(n.prevHash, n.content),
         \/ n.seq = 0 /\ n.prevHash = GENESIS_HASH
         \/ \E q \in RowsOf(n.merchant) : n.seq = q.seq + 1 /\ n.prevHash = q.hash
  PROVE  ChainIntact'
<1> DEFINE R(m) == {r \in table' : r.merchant = m}
<1>1. table \subseteq Rows /\ n.seq \in Nat /\ n.merchant \in Merchant
  BY DEF TypeOK, Rows
<1>2. \A m : R(m) = IF n.merchant = m THEN RowsOf(m) \cup {n} ELSE RowsOf(m)
  BY DEF RowsOf
<1>3. \A q \in RowsOf(n.merchant) : q.seq # n.seq /\ q.seq \in Nat
  BY <1>1 DEF Taken, RowsOf, Rows
\* Places are filled from 0 on, so a place after a free one is not taken.
<1>4. \A q \in RowsOf(n.merchant) : q.seq < n.seq
  <2> SUFFICES ASSUME NEW q \in RowsOf(n.merchant), ~(q.seq < n.seq) PROVE FALSE
    OBVIOUS
  <2>1. n.seq \in 0..q.seq
    BY <1>1, <1>3
  <2>2. PICK p \in RowsOf(n.merchant) : p.seq = n.seq
    BY <2>1, <1>1 DEF ChainIntact
  <2>3. QED
    BY <2>2, <1>3
<1>5. ASSUME NEW k \in 0..n.seq PROVE \E q \in R(n.merchant) : q.seq = k
  <2>1. CASE k = n.seq
    BY <2>1, <1>2
  <2>2. CASE k # n.seq /\ n.seq = 0
    BY <2>2
  <2>3. CASE k # n.seq /\ n.seq # 0
    <3>1. PICK q \in RowsOf(n.merchant) : n.seq = q.seq + 1
      BY <2>3
    <3>2. k \in 0..q.seq
      BY <3>1, <2>3, <1>1, <1>3
    <3>3. \E p \in RowsOf(n.merchant) : p.seq = k
      BY <3>1, <3>2, <1>1 DEF ChainIntact
    <3>4. QED
      BY <3>3, <1>2
  <2>4. QED
    BY <2>1, <2>2, <2>3
<1>6. ASSUME NEW q \in RowsOf(n.merchant), q.seq + 1 = n.seq PROVE n.prevHash = q.hash
  <2>1. PICK p \in RowsOf(n.merchant) : n.seq = p.seq + 1 /\ n.prevHash = p.hash
    BY <1>6, <1>1, <1>3
  <2>2. p.seq = q.seq
    BY <2>1, <1>6, <1>3
  <2>3. p = q
    BY <2>2, <1>1 DEF ChainIntact
  <2>4. QED
    BY <2>1, <2>3
<1>7. ASSUME NEW m \in Merchant, NEW r \in R(m)
      PROVE  /\ r.hash = hashRecord(r.prevHash, r.content)
             /\ r.seq = 0 => r.prevHash = GENESIS_HASH
             /\ \A k \in 0..r.seq : \E q \in R(m) : q.seq = k
             /\ \A q \in R(m) :
                  /\ q.seq = r.seq => q = r
                  /\ q.seq + 1 = r.seq => r.prevHash = q.hash
  <2>1. CASE r = n
    <3>1. m = n.merchant
      BY <2>1, <1>7
    <3>2. r.seq = 0 => r.prevHash = GENESIS_HASH
      BY <2>1, <1>3
    <3>3. ASSUME NEW q \in R(m)
          PROVE (q.seq = r.seq => q = r) /\ (q.seq + 1 = r.seq => r.prevHash = q.hash)
      BY <2>1, <3>1, <1>1, <1>2, <1>3, <1>6
    <3>4. QED
      BY <2>1, <3>1, <3>2, <3>3, <1>5
  <2>2. CASE r # n
    <3>1. r \in RowsOf(m)
      BY <2>2, <1>2
    <3>2. \A k \in 0..r.seq : \E q \in R(m) : q.seq = k
      BY <3>1, <1>2 DEF ChainIntact
    <3>3. ASSUME NEW q \in R(m)
          PROVE (q.seq = r.seq => q = r) /\ (q.seq + 1 = r.seq => r.prevHash = q.hash)
      <4>1. CASE q \in RowsOf(m)
        BY <3>1, <4>1 DEF ChainIntact
      <4>2. CASE q = n
        <5>1. r.seq < n.seq /\ r.seq \in Nat
          BY <3>1, <4>2, <3>3, <1>3, <1>4
        <5>2. QED
          BY <5>1, <4>2, <1>1
      <4>3. QED
        BY <4>1, <4>2, <1>2
    <3>4. QED
      BY <3>1, <3>2, <3>3 DEF ChainIntact
  <2>3. QED
    BY <2>1, <2>2
<1>8. QED
  BY <1>7 DEF ChainIntact, RowsOf

LEMMA ChainStays == ChainIntact /\ UNCHANGED table => ChainIntact'
BY DEF ChainIntact, RowsOf

\* Records are never taken away, so a head that was read stays a record.
LEMMA HeadStays ==
  ASSUME HeadRead, table \subseteq table',
         \A w \in Writer : pc'[w] = "write" =>
           pc[w] = "write" /\ head'[w] = head[w]
  PROVE  HeadRead'
BY DEF HeadRead, RowsOf

-----------------------------------------------------------------------------
\* An insert, whichever row it is of.
LEMMA InsertTypes ==
  ASSUME TypeOK, NEW w \in Writer, NEW n \in Rows, NEW l \in PC,
         pc[w] \in Working, attempt[w] < APPEND_RETRIES,
         Win(w, n, l) \/ Lose(w, n)
  PROVE  TypeOK'
<1>1. Taken(n) \subseteq Rows
  BY DEF Taken, RowsOf, TypeOK
<1>2. CASE Win(w, n, l)
  BY <1>2 DEF Win, Goto, TypeOK
<1>3. CASE Lose(w, n)
  <2>1. pc' \in [Writer -> PC]
    BY <1>3 DEF Lose, Goto, TypeOK, PC, Working
  <2>2. head' \in [Writer -> [seq : Nat, hash : Hashes]]
    BY <1>3 DEF Lose, TypeOK, NoHead, Hashes
  <2>3. attempt' \in [Writer -> 0..APPEND_RETRIES]
    BY <1>3 DEF Lose, TypeOK
  <2>4. lostTo' \in [Writer -> SUBSET Rows]
    BY <1>1, <1>3 DEF Lose, TypeOK
  <2>5. QED
    BY <1>3, <2>1, <2>2, <2>3, <2>4 DEF Lose, TypeOK
<1>4. QED
  BY <1>2, <1>3

\* A writer that has used up its attempts has given up.
AttemptsLeft == \A w \in Writer : pc[w] \in Working => attempt[w] < APPEND_RETRIES

\* attempt starts at 0 for a call that has not begun.
FirstAttempt == \A w \in Writer : pc[w] = "idle" => attempt[w] = 0

Counted == AttemptsLeft /\ FirstAttempt

LEMMA InsertCounts ==
  ASSUME TypeOK, Counted, NEW w \in Writer, NEW n, NEW l \in PC, l # "idle",
         pc[w] \in Working,
         Win(w, n, l) \/ Lose(w, n)
  PROVE  Counted'
<1>1. \A v \in Writer \ {w} : pc'[v] = pc[v] /\ attempt'[v] = attempt[v]
  BY DEF Win, Lose, Goto, TypeOK
<1>2. CASE Win(w, n, l)
  BY <1>1, <1>2 DEF Win, Goto, TypeOK, Counted, AttemptsLeft, FirstAttempt
<1>3. CASE Lose(w, n)
  <2>1. attempt'[w] = attempt[w] + 1 /\ attempt[w] \in Nat /\ attempt[w] < APPEND_RETRIES
    BY <1>3 DEF Lose, TypeOK, Counted, AttemptsLeft
  <2>2. pc'[w] = IF attempt[w] + 1 = APPEND_RETRIES THEN "failed" ELSE "head"
    BY <1>3 DEF Lose, Goto, TypeOK
  <2>3. pc'[w] \in Working => attempt'[w] < APPEND_RETRIES
    BY <2>1, <2>2 DEF Working
  <2>4. pc'[w] # "idle"
    BY <2>2
  <2>5. QED
    BY <1>1, <2>3, <2>4 DEF Counted, AttemptsLeft, FirstAttempt
<1>4. QED
  BY <1>2, <1>3

LEMMA TakeHeadTypes ==
  ASSUME TypeOK, NEW w \in Writer, NEW r \in Heads(MerchantOf[w]), TakeHead(w, r)
  PROVE  /\ pc' \in [Writer -> PC]
         /\ head' \in [Writer -> [seq : Nat, hash : Hashes]]
         /\ pc'[w] = "write" /\ head'[w].seq = r.seq /\ head'[w].hash = r.hash
         /\ \A v \in Writer \ {w} : pc'[v] = pc[v] /\ head'[v] = head[v]
<1>1. r \in Rows
  BY DEF Heads, RowsOf, TypeOK
<1>2. QED
  BY <1>1 DEF TakeHead, Goto, TypeOK, PC, Working, Rows

\* The types hold and attempts are counted, together.
THEOREM TypeCorrect == Spec => [](TypeOK /\ Counted)
<1>1. Init => TypeOK /\ Counted
  BY DEF Init, TypeOK, Counted, AttemptsLeft, FirstAttempt, PC, Working, NoHead,
         Hashes
<1>2. TypeOK /\ Counted /\ [Next]_vars => (TypeOK /\ Counted)'
  <2> SUFFICES ASSUME TypeOK, Counted, [Next]_vars PROVE TypeOK' /\ Counted'
    OBVIOUS
  <2> USE DEF Counted, AttemptsLeft, FirstAttempt
  <2>1. CASE UNCHANGED vars
    BY <2>1 DEF vars, TypeOK
  <2>2. ASSUME NEW w \in Writer, Start(w) PROVE TypeOK' /\ Counted'
    BY <2>2 DEF Start, Goto, TypeOK, PC, Working
  <2>3. ASSUME NEW w \in Writer, ReadHead(w) PROVE TypeOK' /\ Counted'
    <3>1. CASE RowsOf(MerchantOf[w]) = {} /\ Goto(w, "genesis") /\ UNCHANGED head
      <4>1. pc' \in [Writer -> PC] /\ pc[w] \in Working
        BY <2>3, <3>1 DEF ReadHead, Goto, TypeOK, PC, Working
      <4>2. \A v \in Writer : pc'[v] = pc[v] \/ v = w
        BY <3>1 DEF Goto, TypeOK
      <4>3. pc'[w] = "genesis" /\ UNCHANGED <<host, table, head, attempt, lostTo, faults>>
        BY <2>3, <3>1 DEF ReadHead, Goto, TypeOK
      <4>4. Counted'
        BY <4>1, <4>2, <4>3
      <4>5. QED
        BY <4>1, <4>3, <4>4 DEF TypeOK
    <3>2. ASSUME NEW r \in Heads(MerchantOf[w]), TakeHead(w, r) PROVE TypeOK' /\ Counted'
      BY <2>3, <3>2, TakeHeadTypes DEF ReadHead, TypeOK, Working
    <3>3. QED
      BY <2>3, <3>1, <3>2 DEF ReadHead
  <2>4. ASSUME NEW w \in Writer, ReadBack(w) PROVE TypeOK' /\ Counted'
    <3>1. PICK r \in Heads(MerchantOf[w]) : TakeHead(w, r)
      BY <2>4 DEF ReadBack
    <3>2. QED
      BY <2>4, <3>1, TakeHeadTypes DEF ReadBack, TypeOK, Working
  <2>5. ASSUME NEW w \in Writer, WriteGenesis(w) PROVE TypeOK' /\ Counted'
    <3>1. pc[w] \in Working /\ "reread" \in PC
      BY <2>5 DEF WriteGenesis, Working, PC
    <3>2. TypeOK'
      BY <2>5, <3>1, RowTypes, InsertTypes DEF WriteGenesis
    <3>3. Counted'
      BY <2>5, <3>1, InsertCounts DEF WriteGenesis
    <3>4. QED
      BY <3>2, <3>3
  <2>6. ASSUME NEW w \in Writer, WriteRecord(w) PROVE TypeOK' /\ Counted'
    <3>1. pc[w] \in Working /\ "written" \in PC
      BY <2>6 DEF WriteRecord, Working, PC
    <3>2. TypeOK'
      BY <2>6, <3>1, RowTypes, InsertTypes DEF WriteRecord
    <3>3. Counted'
      BY <2>6, <3>1, InsertCounts DEF WriteRecord
    <3>4. QED
      BY <3>2, <3>3
  <2>7. ASSUME NEW w \in Writer, Return(w) PROVE TypeOK' /\ Counted'
    BY <2>7 DEF Return, Goto, TypeOK, PC, Working
  <2>8. ASSUME NEW w \in Writer, Break(w) PROVE TypeOK' /\ Counted'
    BY <2>8 DEF Break, Fault, Goto, TypeOK, PC, Working
  <2>9. ASSUME NEW p \in Process, Crash(p) PROVE TypeOK' /\ Counted'
    BY <2>9 DEF Crash, Fault, TypeOK, PC, Working
  <2>10. QED
    BY <2>1, <2>2, <2>3, <2>4, <2>5, <2>6, <2>7, <2>8, <2>9 DEF Next, Work
<1>3. QED
  BY <1>1, <1>2, PTL DEF Spec

-----------------------------------------------------------------------------
\* The invariant, whole.
LEMMA ChainSafe == Spec => [](ChainIntact /\ HeadRead)
<1>1. Init => ChainIntact /\ HeadRead
  BY DEF Init, ChainIntact, HeadRead, RowsOf
<1>2. TypeOK /\ ChainIntact /\ HeadRead /\ [Next]_vars => (ChainIntact /\ HeadRead)'
  <2> SUFFICES ASSUME TypeOK, ChainIntact, HeadRead, [Next]_vars
               PROVE  ChainIntact' /\ HeadRead'
    OBVIOUS
  <2>1. CASE UNCHANGED vars
    BY <2>1, ChainStays, HeadStays DEF vars
  <2>2. ASSUME NEW w \in Writer, Start(w) \/ Return(w) \/ Break(w)
        PROVE  ChainIntact' /\ HeadRead'
    <3>1. UNCHANGED table
      BY <2>2 DEF Start, Return, Break
    <3>2. \A v \in Writer : pc'[v] = "write" => pc[v] = "write" /\ head'[v] = head[v]
      BY <2>2 DEF Start, Return, Break, Goto, TypeOK
    <3>3. QED
      BY <3>1, <3>2, ChainStays, HeadStays
  <2>3. ASSUME NEW p \in Process, Crash(p) PROVE ChainIntact' /\ HeadRead'
    <3>1. \A v \in Writer : pc'[v] = "write" => pc[v] = "write" /\ head'[v] = head[v]
      BY <2>3 DEF Crash, TypeOK
    <3>2. QED
      BY <2>3, <3>1, ChainStays, HeadStays DEF Crash
  <2>4. ASSUME NEW w \in Writer, ReadHead(w) \/ ReadBack(w)
        PROVE  ChainIntact' /\ HeadRead'
    <3>1. UNCHANGED table
      BY <2>4 DEF ReadHead, ReadBack
    <3>2. CASE Goto(w, "genesis") /\ UNCHANGED head
      <4>1. \A v \in Writer : pc'[v] = "write" => pc[v] = "write" /\ head'[v] = head[v]
        BY <3>2 DEF Goto, TypeOK
      <4>2. QED
        BY <3>1, <4>1, ChainStays, HeadStays
    <3>3. ASSUME NEW r \in Heads(MerchantOf[w]), TakeHead(w, r)
          PROVE  HeadRead'
      <4>1. r \in RowsOf(MerchantOf[w])
        BY DEF Heads
      <4>2. QED
        BY <3>1, <3>3, <4>1, TakeHeadTypes DEF HeadRead, RowsOf
    <3>4. QED
      BY <2>4, <3>1, <3>2, <3>3, ChainStays DEF ReadHead, ReadBack
  <2>5. ASSUME NEW w \in Writer, NEW n, Lose(w, n) PROVE ChainIntact' /\ HeadRead'
    <3>1. \A v \in Writer : pc'[v] = "write" => pc[v] = "write" /\ head'[v] = head[v]
      BY <2>5 DEF Lose, Goto, TypeOK
    <3>2. QED
      BY <2>5, <3>1, ChainStays, HeadStays DEF Lose
  <2>6. ASSUME NEW w \in Writer, NEW n, NEW l \in {"reread", "written"}, Win(w, n, l)
        PROVE  HeadRead'
    <3>1. \A v \in Writer : pc'[v] = "write" => pc[v] = "write" /\ head'[v] = head[v]
      BY <2>6 DEF Win, Goto, TypeOK
    <3>2. QED
      BY <2>6, <3>1, HeadStays DEF Win
  <2>7. ASSUME NEW w \in Writer, WriteGenesis(w) PROVE ChainIntact' /\ HeadRead'
    <3>1. CASE Win(w, Genesis(w), "reread")
      <4>1. /\ Genesis(w).hash = hashRecord(Genesis(w).prevHash, Genesis(w).content)
            /\ Genesis(w).seq = 0 /\ Genesis(w).prevHash = GENESIS_HASH
        BY DEF Genesis, Record
      <4>2. ChainIntact'
        BY <3>1, <4>1, RowTypes, ChainGrows DEF Win
      <4>3. QED
        BY <3>1, <4>2, <2>6
    <3>2. QED
      BY <2>7, <3>1, <2>5 DEF WriteGenesis
  <2>8. ASSUME NEW w \in Writer, WriteRecord(w) PROVE ChainIntact' /\ HeadRead'
    <3>1. CASE Win(w, Entry(w), "written")
      <4>1. /\ Entry(w).hash = hashRecord(Entry(w).prevHash, Entry(w).content)
            /\ Entry(w).seq = head[w].seq + 1 /\ Entry(w).prevHash = head[w].hash
        BY DEF Entry, Record
      <4>2. \E q \in RowsOf(Entry(w).merchant) :
              Entry(w).seq = q.seq + 1 /\ Entry(w).prevHash = q.hash
        BY <2>8, <4>1, RowTypes DEF WriteRecord, HeadRead
      <4>3. ChainIntact'
        BY <3>1, <4>1, <4>2, RowTypes, ChainGrows DEF Win
      <4>4. QED
        BY <3>1, <4>3, <2>6
    <3>2. QED
      BY <2>8, <3>1, <2>5 DEF WriteRecord
  <2>9. QED
    BY <2>1, <2>2, <2>3, <2>4, <2>7, <2>8 DEF Next, Work
<1>3. QED
  BY <1>1, <1>2, TypeCorrect, PTL DEF Spec

\* The chain verifies at every moment: writers in any number of processes,
\* each with a head of any age, start it once, fill its places one by one
\* and link every record to the one before.
THEOREM ChainIsIntact == Spec => []ChainIntact
  BY ChainSafe, PTL

-----------------------------------------------------------------------------
(* Who is lost to *)

\* The KeyedMutex does its work: of the calls in a process for a merchant
\* one is past its beginning and short of its end.
Exclusive ==
  \A v, w \in Writer :
    v # w /\ host[v] = host[w] /\ MerchantOf[v] = MerchantOf[w] =>
      ~(pc[v] \in Working /\ pc[w] \in Working)

\* A row that another process may have inserted.
Rival(w, r) ==
  \E v \in Writer :
    /\ r.content \in {v, "GENESIS"}
    /\ host[v] # host[w] /\ MerchantOf[v] = MerchantOf[w] /\ pc[v] # "idle"

\* The rows that came into the chain after w read its head.
SinceRead(w) == {r \in RowsOf(MerchantOf[w]) : pc[w] = "genesis" \/ r.seq > head[w].seq}

\* Every lost attempt has a row of its own to show, and the rows that can
\* make the next attempt fail are new ones and not of w's process.
Excused(w) ==
  /\ IsFiniteSet(lostTo[w]) /\ attempt[w] <= Cardinality(lostTo[w])
  /\ lostTo[w] \subseteq RowsOf(MerchantOf[w])
  /\ \A r \in lostTo[w] : Rival(w, r)
  /\ pc[w] \in {"genesis", "write"} =>
       \A r \in SinceRead(w) : Rival(w, r) /\ r \notin lostTo[w]

\* No call goes back to its beginning.
Begun == \A v \in Writer : pc[v] # "idle" => pc'[v] # "idle"

LEMMA RivalStays ==
  ASSUME Begun, UNCHANGED host, NEW w \in Writer, NEW r, Rival(w, r)
  PROVE  Rival(w, r)'
BY DEF Begun, Rival

LEMMA ExclusiveStays ==
  ASSUME Exclusive, UNCHANGED host,
         \A v \in Writer : pc'[v] \in Working => pc[v] \in Working
  PROVE  Exclusive'
BY DEF Exclusive

\* Steps that leave the chain and what w has lost alone.
LEMMA ExcuseStays ==
  ASSUME Begun, NEW w \in Writer, Excused(w), UNCHANGED <<host, table>>,
         lostTo'[w] = lostTo[w], attempt'[w] = attempt[w],
         pc'[w] \in {"genesis", "write"} => pc'[w] = pc[w] /\ head'[w] = head[w]
  PROVE  Excused(w)'
<1>1. \A r : Rival(w, r) => Rival(w, r)'
  BY RivalStays
<1>2. pc'[w] \in {"genesis", "write"} => SinceRead(w)' = SinceRead(w)
  BY DEF SinceRead, RowsOf
<1>3. QED
  BY <1>1, <1>2 DEF Excused, RowsOf

\* A reading of the head leaves nothing that came after it.
LEMMA ExcuseRead ==
  ASSUME TypeOK, Begun, NEW w \in Writer, Excused(w),
         UNCHANGED <<host, table, lostTo, attempt>>,
         \/ RowsOf(MerchantOf[w]) = {}
         \/ /\ pc'[w] = "write"
            /\ \E r \in Heads(MerchantOf[w]) : head'[w].seq = r.seq
  PROVE  Excused(w)'
<1>1. \A r : Rival(w, r) => Rival(w, r)'
  BY RivalStays
<1>2. RowsOf(MerchantOf[w])' = RowsOf(MerchantOf[w])
  BY DEF RowsOf
<1>3. SinceRead(w)' = {}
  <2>1. CASE RowsOf(MerchantOf[w]) = {}
    BY <1>2, <2>1 DEF SinceRead
  <2>2. CASE pc'[w] = "write" /\ \E r \in Heads(MerchantOf[w]) : head'[w].seq = r.seq
    <3>1. PICK r \in Heads(MerchantOf[w]) : head'[w].seq = r.seq
      BY <2>2
    <3>2. \A q \in RowsOf(MerchantOf[w]) : q.seq <= r.seq /\ q.seq \in Nat /\ r.seq \in Nat
      BY DEF Heads, RowsOf, TypeOK, Rows
    <3>3. \A q \in RowsOf(MerchantOf[w]) : ~(q.seq > head'[w].seq)
      BY <3>1, <3>2
    <3>4. QED
      BY <1>2, <2>2, <3>3 DEF SinceRead
  <2>3. QED
    BY <2>1, <2>2
<1>4. QED
  BY <1>1, <1>2, <1>3 DEF Excused

\* The insert of w is refused: by one row, which w has not met before.
LEMMA ExcuseLose ==
  ASSUME TypeOK, ChainIntact, Begun, NEW w \in Writer, Excused(w), NEW n \in Rows,
         n.merchant = MerchantOf[w], Lose(w, n),
         \/ pc[w] = "genesis"
         \/ pc[w] = "write" /\ n.seq = head[w].seq + 1
  PROVE  Excused(w)'
<1>1. PICK q \in Taken(n) : TRUE
  BY DEF Lose
<1>2. q \in RowsOf(MerchantOf[w]) /\ q.seq = n.seq
  BY <1>1 DEF Taken
<1>3. Taken(n) = {q}
  <2>1. \A p \in Taken(n) : p \in RowsOf(MerchantOf[w]) /\ p.seq = q.seq
    BY <1>2 DEF Taken
  <2>2. \A p \in Taken(n) : p = q
    BY <1>2, <2>1 DEF ChainIntact
  <2>3. QED
    BY <1>1, <2>2
<1>4. q \in SinceRead(w)
  BY <1>2 DEF SinceRead, TypeOK
<1>5. Rival(w, q) /\ q \notin lostTo[w]
  BY <1>4 DEF Excused, Lose
<1>6. /\ lostTo'[w] = lostTo[w] \cup {q} /\ attempt'[w] = attempt[w] + 1
      /\ attempt[w] \in Nat /\ pc'[w] \notin {"genesis", "write"}
      /\ UNCHANGED <<host, table>>
  BY <1>3 DEF Lose, Goto, TypeOK
<1>7. /\ IsFiniteSet(lostTo[w]) /\ Cardinality(lostTo[w]) \in Nat
      /\ attempt[w] <= Cardinality(lostTo[w])
  BY FS_CardinalityType DEF Excused
<1>8. IsFiniteSet(lostTo[w] \cup {q})
      /\ Cardinality(lostTo[w] \cup {q}) = Cardinality(lostTo[w]) + 1
  BY <1>5, <1>7, FS_AddElement
<1>9. IsFiniteSet(lostTo'[w]) /\ attempt'[w] <= Cardinality(lostTo'[w])
  BY <1>6, <1>7, <1>8
<1>10. lostTo'[w] \subseteq RowsOf(MerchantOf[w])'
  BY <1>2, <1>6 DEF Excused, RowsOf
<1>11. \A r \in lostTo'[w] : Rival(w, r)'
  BY <1>5, <1>6, RivalStays DEF Excused
<1>12. QED
  BY <1>6, <1>9, <1>10, <1>11 DEF Excused

\* The insert of w goes through: a new row for those who have read already,
\* none of whom is in w's process.
LEMMA ExcuseWin ==
  ASSUME TypeOK, Exclusive, Begun,
         NEW w \in Writer, NEW n \in Rows, NEW l \in {"reread", "written"},
         n.merchant = MerchantOf[w], n.content \in {w, "GENESIS"}, pc[w] \in Working,
         Win(w, n, l), NEW u \in Writer, Excused(u)
  PROVE  Excused(u)'
<1>1. /\ UNCHANGED <<host, head, attempt, lostTo>> /\ table' = table \cup {n}
      /\ pc' = [pc EXCEPT ![w] = l] /\ n \notin table
  BY DEF Win, Goto, Taken, RowsOf
<1>2. \A r : Rival(u, r) => Rival(u, r)'
  BY <1>1, RivalStays
<1>3. lostTo[u] \subseteq RowsOf(MerchantOf[u])' /\ n \notin lostTo[u]
  BY <1>1 DEF Excused, RowsOf
<1>4. ASSUME pc'[u] \in {"genesis", "write"}, NEW r \in SinceRead(u)'
      PROVE  Rival(u, r)' /\ r \notin lostTo[u]
  <2>1. u # w /\ pc'[u] = pc[u]
    BY <1>1, <1>4 DEF TypeOK
  <2>2. CASE r = n
    <3>1. MerchantOf[w] = MerchantOf[u]
      BY <1>4, <2>2 DEF SinceRead, RowsOf
    <3>2. host[w] # host[u]
      BY <1>4, <2>1, <3>1 DEF Exclusive, Working
    <3>3. pc'[w] # "idle"
      BY <1>1 DEF TypeOK
    <3>4. Rival(u, n)'
      BY <1>1, <3>1, <3>2, <3>3 DEF Rival
    <3>5. QED
      BY <1>3, <2>2, <3>4
  <2>3. CASE r # n
    <3>1. r \in SinceRead(u)
      BY <1>1, <1>4, <2>1, <2>3 DEF SinceRead, RowsOf
    <3>2. QED
      BY <1>2, <1>4, <2>1, <3>1 DEF Excused
  <2>4. QED
    BY <2>2, <2>3
<1>5. QED
  BY <1>1, <1>2, <1>3, <1>4 DEF Excused

LEMMA ExcusedStep ==
  ASSUME TypeOK, ChainIntact, Exclusive, \A u \in Writer : Excused(u), [Next]_vars
  PROVE  Exclusive' /\ \A u \in Writer : Excused(u)'
<1>1. Begun
  <2>1. CASE UNCHANGED vars
    BY <2>1 DEF vars, Begun
  <2>2. ASSUME NEW w \in Writer, NEW l, l # "idle", Goto(w, l) PROVE Begun
    BY <2>2 DEF Goto, Begun, TypeOK
  <2>3. ASSUME NEW p \in Process, Crash(p) PROVE Begun
    BY <2>3 DEF Crash, Begun
  <2>4. ASSUME NEW w \in Writer, Work(w) \/ Break(w) PROVE \E l : l # "idle" /\ Goto(w, l)
    <3>1. CASE Start(w) \/ Return(w) \/ Break(w)
      BY <3>1 DEF Start, Return, Break
    <3>2. CASE ReadHead(w) \/ ReadBack(w)
      BY <3>2 DEF ReadHead, ReadBack, TakeHead
    <3>3. CASE WriteGenesis(w) \/ WriteRecord(w)
      BY <3>3 DEF WriteGenesis, WriteRecord, Win, Lose
    <3>4. QED
      BY <2>4, <3>1, <3>2, <3>3 DEF Work
  <2>5. QED
    BY <2>1, <2>2, <2>3, <2>4 DEF Next
<1>2. CASE UNCHANGED vars
  BY <1>1, <1>2, ExclusiveStays, ExcuseStays DEF vars
<1>3. ASSUME NEW w \in Writer, Start(w) PROVE Exclusive' /\ \A u \in Writer : Excused(u)'
  <2>1. /\ UNCHANGED <<host, table, head, attempt, lostTo>> /\ Free(w)
        /\ pc' = [pc EXCEPT ![w] = "head"]
    BY <1>3 DEF Start, Goto
  <2>2. Exclusive'
    BY <2>1 DEF Exclusive, Free, TypeOK
  <2>3. \A u \in Writer : pc'[u] \in {"genesis", "write"} => pc'[u] = pc[u]
    BY <2>1 DEF TypeOK
  <2>4. QED
    BY <1>1, <2>1, <2>2, <2>3, ExcuseStays
<1>4. ASSUME NEW w \in Writer, Return(w) \/ Break(w)
      PROVE  Exclusive' /\ \A u \in Writer : Excused(u)'
  <2>1. UNCHANGED <<host, table, head, attempt, lostTo>>
    BY <1>4 DEF Return, Break
  <2>2. \A u \in Writer : pc'[u] = pc[u] \/ pc'[u] \in {"done", "failed"}
    BY <1>4 DEF Return, Break, Goto, TypeOK
  <2>3. Exclusive'
    BY <2>1, <2>2, ExclusiveStays DEF Working
  <2>4. QED
    BY <1>1, <2>1, <2>2, <2>3, ExcuseStays
<1>5. ASSUME NEW p \in Process, Crash(p)
      PROVE  Exclusive' /\ \A u \in Writer : Excused(u)'
  <2>1. UNCHANGED <<host, table, head, attempt, lostTo>>
    BY <1>5 DEF Crash
  <2>2. \A u \in Writer : pc'[u] = pc[u] \/ pc'[u] = "failed"
    BY <1>5 DEF Crash
  <2>3. Exclusive'
    BY <2>1, <2>2, ExclusiveStays DEF Working
  <2>4. QED
    BY <1>1, <2>1, <2>2, <2>3, ExcuseStays
<1>6. ASSUME NEW w \in Writer, ReadHead(w) \/ ReadBack(w)
      PROVE  Exclusive' /\ \A u \in Writer : Excused(u)'
  <2>1. /\ UNCHANGED <<host, table, attempt, lostTo>> /\ pc[w] \in Working
        /\ \/ RowsOf(MerchantOf[w]) = {}
           \/ /\ pc'[w] = "write"
              /\ \E r \in Heads(MerchantOf[w]) : head'[w].seq = r.seq
        /\ \A u \in Writer \ {w} : pc'[u] = pc[u] /\ head'[u] = head[u]
    BY <1>6 DEF ReadHead, ReadBack, TakeHead, Goto, TypeOK, Working
  <2>2. Exclusive'
    BY <2>1, ExclusiveStays
  <2>3. Excused(w)'
    BY <1>1, <2>1, ExcuseRead
  <2>4. \A u \in Writer \ {w} : Excused(u)'
    BY <1>1, <2>1, ExcuseStays
  <2>5. QED
    BY <2>2, <2>3, <2>4
<1>7. ASSUME NEW w \in Writer, NEW n \in Rows, Lose(w, n), pc[w] \in Working,
             n.merchant = MerchantOf[w],
             \/ pc[w] = "genesis"
             \/ pc[w] = "write" /\ n.seq = head[w].seq + 1
      PROVE  Exclusive' /\ \A u \in Writer : Excused(u)'
  <2>1. /\ UNCHANGED <<host, table>>
        /\ \A u \in Writer \ {w} : /\ pc'[u] = pc[u] /\ head'[u] = head[u]
                                   /\ lostTo'[u] = lostTo[u] /\ attempt'[u] = attempt[u]
    BY <1>7 DEF Lose, Goto, TypeOK
  <2>2. Exclusive'
    BY <1>7, <2>1, ExclusiveStays
  <2>3. Excused(w)'
    BY <1>1, <1>7, ExcuseLose
  <2>4. \A u \in Writer \ {w} : Excused(u)'
    BY <1>1, <2>1, ExcuseStays
  <2>5. QED
    BY <2>2, <2>3, <2>4
<1>8. ASSUME NEW w \in Writer, NEW n \in Rows, NEW l \in {"reread", "written"}, Win(w, n, l),
             pc[w] \in Working, n.merchant = MerchantOf[w], n.content \in {w, "GENESIS"}
      PROVE  Exclusive' /\ \A u \in Writer : Excused(u)'
  <2>1. UNCHANGED host /\ \A u \in Writer \ {w} : pc'[u] = pc[u]
    BY <1>8 DEF Win, Goto, TypeOK
  <2>2. Exclusive'
    BY <1>8, <2>1, ExclusiveStays
  <2>3. QED
    BY <1>1, <1>8, <2>2, ExcuseWin
<1>9. ASSUME NEW w \in Writer, WriteGenesis(w)
      PROVE  Exclusive' /\ \A u \in Writer : Excused(u)'
  <2>1. pc[w] = "genesis" /\ pc[w] \in Working
    BY <1>9 DEF WriteGenesis, Working
  <2>2. Genesis(w).content = "GENESIS"
    BY DEF Genesis, Record
  <2>3. QED
    BY <1>7, <1>8, <1>9, <2>1, <2>2, RowTypes DEF WriteGenesis
<1>10. ASSUME NEW w \in Writer, WriteRecord(w)
       PROVE  Exclusive' /\ \A u \in Writer : Excused(u)'
  <2>1. pc[w] = "write" /\ pc[w] \in Working
    BY <1>10 DEF WriteRecord, Working
  <2>2. Entry(w).content = w /\ Entry(w).seq = head[w].seq + 1
    BY DEF Entry, Record
  <2>3. QED
    BY <1>7, <1>8, <1>10, <2>1, <2>2, RowTypes DEF WriteRecord
<1>11. QED
  BY <1>2, <1>3, <1>4, <1>5, <1>6, <1>9, <1>10 DEF Next, Work

\* A call loses its place only to an insert of another process, and to a new
\* one every time: within a process the mutex leaves nothing to lose to, and
\* the head is read again before the next attempt.
THEOREM LosersAreExcused == Spec => []LosesToOthers
<1> DEFINE Excuses == \A u \in Writer : Excused(u)
<1>1. Init => Exclusive /\ Excuses
  <2> SUFFICES ASSUME Init PROVE Exclusive /\ Excuses
    OBVIOUS
  <2>1. \A w \in Writer : pc[w] = "idle" /\ attempt[w] = 0 /\ lostTo[w] = {}
    BY DEF Init
  <2>2. Cardinality({}) = 0 /\ IsFiniteSet({})
    BY FS_EmptySet
  <2>3. QED
    BY <2>1, <2>2 DEF Exclusive, Excused, Working
<1>2. TypeOK /\ ChainIntact /\ Exclusive /\ Excuses /\ [Next]_vars => (Exclusive /\ Excuses)'
  BY ExcusedStep
<1>3. Excuses => LosesToOthers
  BY DEF Excused, Rival, LosesToOthers
<1>4. QED
  BY <1>1, <1>2, <1>3, TypeCorrect, ChainIsIntact, PTL DEF Spec

-----------------------------------------------------------------------------
(* The chain implements the log *)

\* What the log of a merchant is read from: the chain has one head, and a
\* record besides, or is empty.
LogRead ==
  \A m \in Merchant :
    /\ RowsOf(m) = {} => LogOf(m) = << >>
    /\ \A r \in Heads(m) : RowsOf(m) # {} /\ LogOf(m) = Tail(r.hash)

\* A chain that is not empty has a head.
HasHead == \A m \in Merchant : RowsOf(m) # {} => Heads(m) # {}

\* Every record is hashed with its content behind what came before it.
HashesExtend == \A r \in table : r.prevHash \in Hashes /\ r.hash = Append(r.prevHash, r.content)

LEMMA LogIsRead == TypeOK /\ ChainIntact => LogRead /\ HashesExtend
<1> SUFFICES ASSUME TypeOK, ChainIntact PROVE LogRead /\ HashesExtend
  OBVIOUS
<1>1. ASSUME NEW m \in Merchant, NEW r \in Heads(m)
      PROVE  RowsOf(m) # {} /\ LogOf(m) = Tail(r.hash)
  <2>1. ASSUME NEW q \in Heads(m) PROVE q = r
    <3>1. q.seq <= r.seq /\ r.seq <= q.seq /\ q.seq \in Nat /\ r.seq \in Nat
      BY DEF Heads, RowsOf, TypeOK, Rows
    <3>2. QED
      BY <3>1 DEF ChainIntact, Heads
  <2>2. (CHOOSE q \in Heads(m) : TRUE) = r
    BY <2>1
  <2>3. RowsOf(m) # {}
    BY DEF Heads
  <2>4. QED
    BY <2>2, <2>3 DEF LogOf
<1>2. HashesExtend
  BY DEF TypeOK, Rows, ChainIntact, RowsOf, hashRecord, HashesExtend
<1>3. QED
  BY <1>1, <1>2 DEF LogRead, LogOf

\* The row that goes in last is the head.
LEMMA NewHead ==
  ASSUME TypeOK, ChainIntact, NEW n \in Rows, Taken(n) = {}, table' = table \cup {n}
  PROVE  n \in Heads(n.merchant)'
<1>1. table \subseteq Rows /\ n.seq \in Nat /\ n.merchant \in Merchant
  BY DEF TypeOK, Rows
<1>2. ASSUME NEW q \in RowsOf(n.merchant) PROVE q.seq <= n.seq
  <2> SUFFICES ASSUME ~(q.seq <= n.seq) PROVE FALSE
    OBVIOUS
  <2>1. q.seq \in Nat /\ n.seq \in 0..q.seq
    BY <1>1 DEF RowsOf, Rows
  <2>2. \E p \in RowsOf(n.merchant) : p.seq = n.seq
    BY <1>1, <2>1 DEF ChainIntact
  <2>3. QED
    BY <2>2 DEF Taken
<1>3. RowsOf(n.merchant)' = RowsOf(n.merchant) \cup {n}
  BY DEF RowsOf
<1>4. QED
  BY <1>1, <1>2, <1>3 DEF Heads

LEMMA HasHeadStep ==
  ASSUME TypeOK, ChainIntact, HasHead, [Next]_vars
  PROVE  HasHead'
<1>1. ASSUME UNCHANGED table PROVE HasHead'
  BY <1>1 DEF HasHead, Heads, RowsOf
<1>2. ASSUME NEW w \in Writer, NEW n \in Rows, NEW l, Win(w, n, l) PROVE HasHead'
  <2>1. Taken(n) = {} /\ table' = table \cup {n}
    BY <1>2 DEF Win
  <2>2. n \in Heads(n.merchant)'
    BY <2>1, NewHead
  <2>3. ASSUME NEW m \in Merchant, m # n.merchant, RowsOf(m)' # {} PROVE Heads(m)' # {}
    <3>1. RowsOf(m)' = RowsOf(m)
      BY <2>1, <2>3 DEF RowsOf
    <3>2. Heads(m)' = Heads(m)
      BY <3>1 DEF Heads
    <3>3. QED
      BY <2>3, <3>1, <3>2 DEF HasHead
  <2>4. QED
    BY <2>2, <2>3 DEF HasHead
<1>3. ASSUME NEW w \in Writer, WriteGenesis(w) \/ WriteRecord(w) PROVE HasHead'
  BY <1>1, <1>2, <1>3, RowTypes DEF WriteGenesis, WriteRecord, Lose
<1>4. ASSUME NEW w \in Writer, Start(w) \/ ReadHead(w) \/ ReadBack(w) \/ Return(w) \/ Break(w)
      PROVE  UNCHANGED table
  BY <1>4 DEF Start, ReadHead, ReadBack, Return, Break
<1>5. QED
  BY <1>1, <1>3, <1>4 DEF Next, Work, Crash, vars

\* A chain that stays as it is has the log it had.
LEMMA LogStays ==
  ASSUME HasHead, LogRead, LogRead', NEW m \in Merchant, RowsOf(m)' = RowsOf(m)
  PROVE  LogOf(m)' = LogOf(m)
<1>1. CASE RowsOf(m) = {}
  BY <1>1 DEF LogRead
<1>2. CASE RowsOf(m) # {}
  <2>1. PICK r \in Heads(m) : TRUE
    BY <1>2 DEF HasHead
  <2>2. r \in Heads(m)'
    BY <2>1 DEF Heads
  <2>3. QED
    BY <2>1, <2>2 DEF LogRead
<1>3. QED
  BY <1>1, <1>2

LEMMA LogsStay ==
  ASSUME HasHead, LogRead, LogRead', UNCHANGED table
  PROVE  [m \in Merchant |-> LogOf(m)]' = [m \in Merchant |-> LogOf(m)]
<1>1. ASSUME NEW m \in Merchant PROVE RowsOf(m)' = RowsOf(m)
  BY DEF RowsOf
<1>2. ASSUME NEW m \in Merchant PROVE LogOf(m)' = LogOf(m)
  BY <1>1, LogStays
<1>3. QED
  BY <1>2

\* The genesis record puts nothing into the log, and finds it empty.
LEMMA GenesisStutters ==
  ASSUME TypeOK, ChainIntact, HasHead, LogRead, LogRead', NEW w \in Writer,
         Taken(Genesis(w)) = {}, table' = table \cup {Genesis(w)}
  PROVE  [m \in Merchant |-> LogOf(m)]' = [m \in Merchant |-> LogOf(m)]
<1> DEFINE n == Genesis(w)
<1>1. /\ n \in Rows /\ n.merchant = MerchantOf[w] /\ n.merchant \in Merchant
      /\ n.seq = 0 /\ n.hash = Append(<< >>, "GENESIS")
  BY RowTypes DEF Genesis, Record, hashRecord, GENESIS_HASH
<1>2. n \in Heads(n.merchant)'
  BY <1>1, NewHead
<1>3. RowsOf(n.merchant) = {}
  <2> SUFFICES ASSUME NEW q \in RowsOf(n.merchant) PROVE FALSE
    OBVIOUS
  <2>1. q.seq \in Nat
    BY DEF RowsOf, TypeOK, Rows
  <2>2. \E p \in RowsOf(n.merchant) : p.seq = 0
    BY <1>1, <2>1 DEF ChainIntact
  <2>3. QED
    BY <1>1, <2>2 DEF Taken
<1>4. LogOf(n.merchant)' = LogOf(n.merchant)
  <2>1. Tail(n.hash) = << >>
    BY <1>1
  <2>2. QED
    BY <1>1, <1>2, <1>3, <2>1 DEF LogRead
<1>5. ASSUME NEW m \in Merchant, m # n.merchant PROVE LogOf(m)' = LogOf(m)
  <2>1. RowsOf(m)' = RowsOf(m)
    BY <1>5 DEF RowsOf
  <2>2. QED
    BY <2>1, LogStays
<1>6. QED
  BY <1>4, <1>5

\* A record puts its entry at the end of the log.
LEMMA RecordAppends ==
  ASSUME TypeOK, ChainIntact, HeadRead, HasHead, HashesExtend, LogRead, LogRead',
         NEW w \in Writer, pc[w] = "write",
         Taken(Entry(w)) = {}, table' = table \cup {Entry(w)}
  PROVE  [m \in Merchant |-> LogOf(m)]' =
           [[m \in Merchant |-> LogOf(m)] EXCEPT ![MerchantOf[w]] = Append(@, w)]
<1> DEFINE n == Entry(w)
           k == MerchantOf[w]
<1>1. /\ n \in Rows /\ n.merchant = k /\ k \in Merchant
      /\ n.seq = head[w].seq + 1 /\ n.hash = Append(head[w].hash, w)
  BY RowTypes DEF Entry, Record, hashRecord
<1>2. n \in Heads(k)'
  BY <1>1, NewHead
<1>3. PICK q \in RowsOf(k) : q.seq = head[w].seq /\ q.hash = head[w].hash
  BY DEF HeadRead
<1>4. q \in Heads(k)
  <2>1. q.seq \in Nat /\ n.seq = q.seq + 1
    BY <1>1, <1>3 DEF RowsOf, TypeOK, Rows
  <2>2. ASSUME NEW p \in RowsOf(k), ~(p.seq <= q.seq) PROVE FALSE
    <3>1. p.seq \in Nat /\ n.seq \in 0..p.seq
      BY <2>1, <2>2 DEF RowsOf, TypeOK, Rows
    <3>2. \E o \in RowsOf(k) : o.seq = n.seq
      BY <1>1, <3>1 DEF ChainIntact
    <3>3. QED
      BY <1>1, <3>2 DEF Taken
  <2>3. QED
    BY <2>2 DEF Heads
<1>5. q.prevHash \in Hashes /\ q.hash = Append(q.prevHash, q.content) /\ q.content \in Content
  BY DEF HashesExtend, RowsOf, TypeOK, Rows
<1>6. Tail(Append(q.hash, w)) = Append(Tail(q.hash), w)
  <2>1. q.hash \in Seq(Content) /\ q.hash # << >> /\ w \in Content
    BY <1>5 DEF Hashes, Content
  <2>2. QED
    BY <2>1
<1>7. LogOf(k)' = Append(LogOf(k), w)
  BY <1>1, <1>2, <1>3, <1>4, <1>6 DEF LogRead
<1>8. ASSUME NEW m \in Merchant, m # k PROVE LogOf(m)' = LogOf(m)
  <2>1. RowsOf(m)' = RowsOf(m)
    BY <1>1, <1>8 DEF RowsOf
  <2>2. QED
    BY <2>1, LogStays
<1>9. QED
  BY <1>1, <1>7, <1>8

\* A call that goes on within a stage of its own, or to another.
LEMMA CallMoves ==
  ASSUME TypeOK, NEW w \in Writer, NEW l, Goto(w, l), NEW s,
         s = IF l \in {"head", "genesis", "reread", "write"} THEN "pending"
             ELSE IF l = "written" THEN "appended" ELSE l
  PROVE  [v \in Writer |-> CallOf(v)]' = [[v \in Writer |-> CallOf(v)] EXCEPT ![w] = s]
<1>1. \A v \in Writer : pc'[v] = IF v = w THEN l ELSE pc[v]
  BY DEF Goto, TypeOK
<1>2. CallOf(w)' = s /\ \A v \in Writer \ {w} : CallOf(v)' = CallOf(v)
  BY <1>1 DEF CallOf
<1>3. QED
  BY <1>2

\* Every step of the writers is a step of the log, or none: the genesis
\* record, a reading and a lost place change nothing, the insert of a record
\* is the append, and what breaks, gives up or dies fails.
THEOREM LogIsImplemented == Spec => ImplementsLog
<1> DEFINE logs == [m \in Merchant |-> LogOf(m)]
           calls == [w \in Writer |-> CallOf(w)]
           Sound == TypeOK /\ ChainIntact /\ HeadRead /\ HasHead
<1>1. Init => Log!Init
  BY DEF Init, Log!Init, LogOf, CallOf, RowsOf
<1>2. Sound /\ LogRead /\ HashesExtend /\ LogRead' /\ [Next]_vars => [Log!Next]_<<logs, calls>>
  <2> SUFFICES ASSUME Sound, LogRead, HashesExtend, LogRead', [Next]_vars
               PROVE  Log!Next \/ UNCHANGED <<logs, calls>>
    OBVIOUS
  <2> USE DEF Log!Next, Log!Becomes
  <2>1. UNCHANGED table => UNCHANGED logs
    BY LogsStay
  <2> HIDE DEF logs
  \* A call fails, alone.
  <2>2. ASSUME NEW w \in Writer, Goto(w, "failed"), pc[w] \in Working, UNCHANGED table
        PROVE  Log!Fail({w})
    <3>1. CallOf(w) \in {"pending", "appended"}
      BY <2>2 DEF CallOf, Working
    <3>2. calls' = [calls EXCEPT ![w] = "failed"]
      BY <2>2, CallMoves
    <3>3. calls' = [v \in Writer |-> IF v \in {w} THEN "failed" ELSE calls[v]]
      BY <3>2
    <3>4. QED
      BY <2>1, <2>2, <3>1, <3>3 DEF Log!Fail, logs
  <2>3. ASSUME NEW w \in Writer, Start(w) PROVE Log!Start(w)
    <3>1. calls' = [calls EXCEPT ![w] = "pending"] /\ calls[w] = "idle"
      BY <2>3, CallMoves DEF Start, CallOf
    <3>2. QED
      BY <2>1, <2>3, <3>1 DEF Start, Log!Start, logs
  <2>4. ASSUME NEW w \in Writer, NEW l \in {"head", "genesis", "reread", "write"}, Goto(w, l),
               pc[w] \in {"head", "genesis", "reread", "write"}
        PROVE  UNCHANGED calls
    <3>1. calls' = [calls EXCEPT ![w] = "pending"] /\ calls[w] = "pending"
      BY <2>4, CallMoves DEF CallOf
    <3>2. QED
      BY <3>1
  <2>5. ASSUME NEW w \in Writer, ReadHead(w) \/ ReadBack(w)
        PROVE  UNCHANGED <<logs, calls>>
    BY <2>1, <2>4, <2>5 DEF ReadHead, ReadBack, TakeHead
  <2>6. ASSUME NEW w \in Writer, NEW n, Lose(w, n), pc[w] \in {"genesis", "write"}
        PROVE  Log!Fail({w}) \/ UNCHANGED <<logs, calls>>
    <3>1. UNCHANGED table /\ (Goto(w, "failed") \/ Goto(w, "head"))
      BY <2>6 DEF Lose
    <3>2. QED
      BY <2>1, <2>2, <2>4, <2>6, <3>1 DEF Working
  <2>7. ASSUME NEW w \in Writer, WriteGenesis(w)
        PROVE  Log!Fail({w}) \/ UNCHANGED <<logs, calls>>
    <3>1. CASE Win(w, Genesis(w), "reread")
      <4>1. UNCHANGED logs
        BY <3>1, GenesisStutters DEF Win, logs
      <4>2. UNCHANGED calls
        BY <2>4, <2>7, <3>1 DEF WriteGenesis, Win
      <4>3. QED
        BY <4>1, <4>2
    <3>2. QED
      BY <2>6, <2>7, <3>1 DEF WriteGenesis
  <2>8. ASSUME NEW w \in Writer, WriteRecord(w)
        PROVE  Log!Fail({w}) \/ Log!Append1(w) \/ UNCHANGED <<logs, calls>>
    <3>1. CASE Win(w, Entry(w), "written")
      <4>1. logs' = [logs EXCEPT ![MerchantOf[w]] = Append(@, w)]
        BY <2>8, <3>1, RecordAppends DEF Win, WriteRecord, logs
      <4>2. calls' = [calls EXCEPT ![w] = "appended"] /\ calls[w] = "pending"
        BY <2>8, <3>1, CallMoves DEF Win, WriteRecord, CallOf
      <4>3. QED
        BY <4>1, <4>2 DEF Log!Append1, logs
    <3>2. QED
      BY <2>6, <2>8, <3>1 DEF WriteRecord
  <2>9. ASSUME NEW w \in Writer, Return(w) PROVE Log!Answer(w)
    <3>1. calls' = [calls EXCEPT ![w] = "done"] /\ calls[w] = "appended"
      BY <2>9, CallMoves DEF Return, CallOf
    <3>2. QED
      BY <2>1, <2>9, <3>1 DEF Return, Log!Answer, logs
  <2>10. ASSUME NEW w \in Writer, Break(w) PROVE Log!Fail({w})
    BY <2>2, <2>10 DEF Break
  <2>11. ASSUME NEW p \in Process, Crash(p) PROVE \E W \in SUBSET Writer : Log!Fail(W)
    <3> DEFINE W == {w \in Writer : host[w] = p /\ pc[w] \in Working}
    <3>1. W # {} /\ W \subseteq Writer /\ \A w \in W : calls[w] \in {"pending", "appended"}
      BY <2>11 DEF Crash, CallOf, Working
    <3>2. calls' = [w \in Writer |-> IF w \in W THEN "failed" ELSE calls[w]]
      BY <2>11 DEF Crash, CallOf
    <3>3. Log!Fail(W)
      BY <2>1, <2>11, <3>1, <3>2 DEF Crash, Log!Fail, logs
    <3>4. QED
      BY <3>1, <3>3
  <2>12. CASE UNCHANGED vars
    BY <2>1, <2>12 DEF vars, CallOf
  <2>13. QED
    BY <2>3, <2>5, <2>7, <2>8, <2>9, <2>10, <2>11, <2>12 DEF Next, Work
<1>3. Init => HasHead
  BY DEF Init, HasHead, RowsOf
<1>4. TypeOK /\ ChainIntact /\ HasHead /\ [Next]_vars => HasHead'
  BY HasHeadStep
<1>5. QED
  BY <1>1, <1>2, <1>3, <1>4, TypeCorrect, ChainSafe, LogIsRead, PTL
  DEF Spec, ImplementsLog, Log!Spec

=============================================================================
