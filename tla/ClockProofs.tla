------------------------------ MODULE ClockProofs ------------------------------
EXTENDS VirtualClock, SequenceTheorems, WellFoundedInduction, TLAPS

-----------------------------------------------------------------------------
(* Places in a heap, and the order of its entries *)

LEMMA Halves ==
  ASSUME NEW k \in Nat
  PROVE  /\ k \div 2 \in Nat /\ (k = 2 * (k \div 2) \/ k = 2 * (k \div 2) + 1)
         /\ k >= 2 => k \div 2 >= 1 /\ k \div 2 < k
OBVIOUS

LEMMA Doubles ==
  ASSUME NEW k \in Nat
  PROVE  (2 * k) \div 2 = k /\ (2 * k + 1) \div 2 = k
OBVIOUS

\* A set of numbers has a least.
LEMMA NatHasLeast ==
  ASSUME NEW Nums \in SUBSET Nat, Nums # {}
  PROVE  \E n \in Nums : \A m \in Nums : n <= m
<1>1. PICK n \in Nums : \A m \in Nums : <<m, n>> \notin OpToRel(<, Nat)
  BY NatLessThanWellFounded, WFMin
<1>2. \A m \in Nums : ~(m < n) BY <1>1, Zenon DEF OpToRel
<1> QED BY <1>2

\* Not after.
Leq(a, b) == ~precedes(b, a)

LEMMA EntryIs ==
  \A a \in Entries : a.at \in Instants /\ a.at \in Int /\ a.seq \in Nat /\ a.work \in Works
<1>1. Instants \subseteq Int BY ClockAssumption
<1> QED BY <1>1 DEF Entries

LEMMA LeqOrders ==
  ASSUME NEW a \in Entries, NEW b \in Entries, NEW c \in Entries
  PROVE  /\ Leq(a, a) /\ (Leq(a, b) \/ Leq(b, a))
         /\ Leq(a, b) /\ Leq(b, c) => Leq(a, c)
         /\ precedes(a, b) => Leq(a, b)
         /\ Leq(a, b) => a.at <= b.at
         /\ Leq(a, b) /\ a.seq # b.seq => precedes(a, b)
<1>1. /\ a.at \in Int /\ b.at \in Int /\ c.at \in Int
      /\ a.seq \in Int /\ b.seq \in Int /\ c.seq \in Int
  BY EntryIs
<1> QED BY <1>1 DEF Leq, precedes

\* Each entry after its parent; but for the one at h, or for the children of h,
\* which then come after the parent of h.
Ordered(s) == \A k \in 2..Len(s) : Leq(s[k \div 2], s[k])

Skipping(s, h) ==
  /\ h \in 1..Len(s)
  /\ \A k \in 2..Len(s) : h >= 2 /\ k \div 2 = h => Leq(s[h \div 2], s[k])

RisingAt(s, h) == Skipping(s, h) /\ \A k \in 2..Len(s) : k # h => Leq(s[k \div 2], s[k])

SinkingAt(s, h) == Skipping(s, h) /\ \A k \in 2..Len(s) : k \div 2 # h => Leq(s[k \div 2], s[k])

Elements(s) == {s[j] : j \in DOMAIN s}

Distinct(s) == \A j, k \in DOMAIN s : s[j].seq = s[k].seq => j = k

LEMMA HeapIs ==
  ASSUME NEW s \in Seq(Entries)
  PROVE  /\ Len(s) \in Nat /\ DOMAIN s = 1..Len(s) /\ \A k \in 1..Len(s) : s[k] \in Entries
         /\ \A k \in 2..Len(s) : k \div 2 \in 1..Len(s) /\ k \div 2 < k
                                 /\ s[k] \in Entries /\ s[k \div 2] \in Entries
OBVIOUS

\* Two entries have changed places.
IsSwap(s, t, j, k) ==
  /\ t \in Seq(Entries) /\ Len(t) = Len(s) /\ t[j] = s[k] /\ t[k] = s[j]
  /\ \A m \in 1..Len(s) : m # j /\ m # k => t[m] = s[m]

LEMMA SwapIs ==
  ASSUME NEW s \in Seq(Entries), NEW j \in 1..Len(s), NEW k \in 1..Len(s), j # k,
         NEW t, IsSwap(s, t, j, k)
  PROVE  /\ Elements(t) = Elements(s)
         /\ Distinct(s) => Distinct(t)
<1>1. /\ t \in Seq(Entries) /\ Len(t) = Len(s) /\ DOMAIN t = 1..Len(s) /\ DOMAIN s = 1..Len(s)
      /\ t[j] = s[k] /\ t[k] = s[j] /\ \A m \in 1..Len(s) : m # j /\ m # k => t[m] = s[m]
  BY HeapIs DEF IsSwap
<1>2. Elements(t) = Elements(s)
  <2>1. \A m \in 1..Len(s) : t[m] \in Elements(s) BY <1>1 DEF Elements
  <2>2. \A m \in 1..Len(s) : s[m] \in Elements(t) BY <1>1 DEF Elements
  <2>3. Elements(t) \subseteq Elements(s)
    <3>1. \A e \in Elements(t) : \E m \in 1..Len(s) : e = t[m] BY <1>1 DEF Elements
    <3> QED BY <2>1, <3>1
  <2>4. Elements(s) \subseteq Elements(t)
    <3>1. \A e \in Elements(s) : \E m \in 1..Len(s) : e = s[m] BY <1>1 DEF Elements
    <3> QED BY <2>2, <3>1
  <2> QED BY <2>3, <2>4
<1>3. Distinct(s) => Distinct(t)
  <2> DEFINE of(m) == IF m = j THEN k ELSE IF m = k THEN j ELSE m
  <2>1. \A m \in 1..Len(s) : of(m) \in 1..Len(s) /\ t[m] = s[of(m)] BY <1>1
  <2>2. \A m, n \in 1..Len(s) : of(m) = of(n) => m = n OBVIOUS
  <2> HIDE DEF of
  <2>3. ASSUME Distinct(s), NEW m \in DOMAIN t, NEW n \in DOMAIN t, t[m].seq = t[n].seq PROVE m = n
    <3>1. /\ of(m) \in 1..Len(s) /\ of(n) \in 1..Len(s) /\ t[m] = s[of(m)] /\ t[n] = s[of(n)]
          /\ of(m) = of(n) => m = n
      BY <1>1, <2>1, <2>2
    <3>2. s[of(m)].seq = s[of(n)].seq BY <2>3, <3>1, Zenon
    <3>3. of(m) = of(n) BY <1>1, <2>3, <3>1, <3>2, Zenon DEF Distinct
    <3> QED BY <3>1, <3>3
  <2> QED BY <2>3 DEF Distinct
<1> QED BY <1>2, <1>3

LEMMA RiseSteps ==
  ASSUME NEW s \in Seq(Entries), NEW h, RisingAt(s, h), h > 1, precedes(s[h], s[h \div 2]),
         NEW t, IsSwap(s, t, h, h \div 2)
  PROVE  RisingAt(t, h \div 2)
<1> DEFINE p == h \div 2
<1>1. /\ h \in 2..Len(s) /\ p \in 1..Len(s) /\ p < h /\ Len(s) \in Nat
      /\ \A k \in 2..Len(s) : h >= 2 /\ k \div 2 = h => Leq(s[p], s[k])
      /\ \A k \in 2..Len(s) : k # h => Leq(s[k \div 2], s[k])
  BY HeapIs DEF RisingAt, Skipping
<1>2. /\ t \in Seq(Entries) /\ Len(t) = Len(s) /\ t[h] = s[p] /\ t[p] = s[h]
      /\ \A m \in 1..Len(s) : m # h /\ m # p => t[m] = s[m]
  BY <1>1 DEF IsSwap
<1>3. s[h] \in Entries /\ s[p] \in Entries /\ Leq(s[h], s[p]) BY <1>1, LeqOrders, HeapIs
<1> HIDE DEF p
<1>4. ASSUME NEW k \in 2..Len(s), k \div 2 = p, k # h PROVE Leq(s[p], s[k]) /\ Leq(s[h], s[k])
  <2>1. Leq(s[p], s[k]) /\ s[k] \in Entries BY <1>1, <1>4, HeapIs
  <2> QED BY <1>3, <2>1, LeqOrders
<1>5. ASSUME NEW k \in 2..Len(t), k # p PROVE Leq(t[k \div 2], t[k])
  <2>1. k \in 2..Len(s) /\ k \div 2 \in 1..Len(s) /\ k \div 2 < k BY <1>2, HeapIs
  <2>2. CASE k = h BY <1>2, <1>3, <2>2 DEF p
  <2>3. CASE k # h /\ k \div 2 = p
    <3>1. t[k] = s[k] BY <1>2, <1>5, <2>1, <2>3
    <3> QED BY <1>2, <1>4, <2>1, <2>3, <3>1
  <2>4. CASE k # h /\ k \div 2 = h
    <3>1. t[k] = s[k] BY <1>2, <1>5, <2>1, <2>4
    <3> QED BY <1>1, <1>2, <2>1, <2>4, <3>1
  <2>5. CASE k # h /\ k \div 2 # p /\ k \div 2 # h
    <3>1. t[k] = s[k] /\ t[k \div 2] = s[k \div 2] BY <1>2, <1>5, <2>1, <2>5
    <3> QED BY <1>1, <2>1, <2>5, <3>1
  <2> QED BY <2>2, <2>3, <2>4, <2>5
<1>6. ASSUME NEW k \in 2..Len(t), p >= 2, k \div 2 = p PROVE Leq(t[p \div 2], t[k])
  <2>1. k \in 2..Len(s) /\ p \in 2..Len(s) /\ p \div 2 \in 1..Len(s) /\ p \div 2 < p
        /\ s[p \div 2] \in Entries /\ s[k] \in Entries
    BY <1>1, <1>2, <1>6, HeapIs
  <2>2. t[p \div 2] = s[p \div 2] /\ Leq(s[p \div 2], s[p]) BY <1>1, <1>2, <2>1
  <2>3. CASE k = h BY <1>2, <2>2, <2>3
  <2>4. CASE k # h
    <3>1. t[k] = s[k] /\ Leq(s[p], s[k]) BY <1>2, <1>4, <1>6, <2>1, <2>4, HeapIs
    <3> QED BY <1>3, <2>1, <2>2, <3>1, LeqOrders
  <2> QED BY <2>3, <2>4
<1>7. p \in 1..Len(t) BY <1>1, <1>2
<1> QED BY <1>5, <1>6, <1>7 DEF RisingAt, Skipping, p

LEMMA RiseEnds ==
  ASSUME NEW s \in Seq(Entries), NEW h, RisingAt(s, h), ~(h > 1 /\ precedes(s[h], s[h \div 2]))
  PROVE  Ordered(s)
<1>1. h \in 1..Len(s) /\ Len(s) \in Nat /\ \A k \in 2..Len(s) : k # h => Leq(s[k \div 2], s[k])
  BY HeapIs DEF RisingAt, Skipping
<1>2. h > 1 => Leq(s[h \div 2], s[h]) BY DEF Leq
<1> QED BY <1>1, <1>2 DEF Ordered

LEMMA SinkSteps ==
  ASSUME NEW s \in Seq(Entries), NEW h, SinkingAt(s, h), NEW j \in {2 * h, 2 * h + 1},
         j <= Len(s), precedes(s[j], s[h]),
         4 * h + 1 - j <= Len(s) => ~precedes(s[4 * h + 1 - j], s[j]),
         NEW t, IsSwap(s, t, h, j)
  PROVE  SinkingAt(t, j)
<1>1. /\ h \in 1..Len(s) /\ j \in 2..Len(s) /\ h < j /\ Len(s) \in Nat
      /\ \A k \in 2..Len(s) : h >= 2 /\ k \div 2 = h => Leq(s[h \div 2], s[k])
      /\ \A k \in 2..Len(s) : k \div 2 # h => Leq(s[k \div 2], s[k])
  BY HeapIs DEF SinkingAt, Skipping
<1>2. /\ t \in Seq(Entries) /\ Len(t) = Len(s) /\ t[h] = s[j] /\ t[j] = s[h]
      /\ \A m \in 1..Len(s) : m # h /\ m # j => t[m] = s[m]
  BY DEF IsSwap
<1>3. h \in Nat /\ j \div 2 = h
  <2>1. h \in Nat BY <1>1
  <2> QED BY <2>1, Doubles
<1>4. s[h] \in Entries /\ s[j] \in Entries /\ Leq(s[j], s[h]) BY <1>1, LeqOrders, HeapIs
<1>5. ASSUME NEW k \in 2..Len(s), k \div 2 = h, k # j PROVE Leq(s[j], s[k])
  <2>1. k \in {2 * h, 2 * h + 1}
    <3>1. k \in Nat BY <1>1
    <3> QED BY <1>5, <3>1, Halves
  <2>2. k = 4 * h + 1 - j BY <1>3, <1>5, <2>1
  <2>3. k <= Len(s) BY <1>1
  <2> QED BY <2>2, <2>3 DEF Leq
<1>6. ASSUME NEW k \in 2..Len(t), k \div 2 # j PROVE Leq(t[k \div 2], t[k])
  <2>1. k \in 2..Len(s) /\ k \div 2 \in 1..Len(s) /\ k \div 2 < k BY <1>2, HeapIs
  <2>2. CASE k = j
    <3>1. t[k] = s[h] /\ t[k \div 2] = s[j] BY <1>2, <1>3, <2>2
    <3> QED BY <1>4, <3>1, Zenon
  <2>3. CASE k # j /\ k \div 2 = h
    <3>1. t[k] = s[k]
      <4>1. k # h /\ k \in 1..Len(s) BY <1>1, <2>1, <2>3
      <4> QED BY <1>2, <2>3, <4>1
    <3> QED BY <1>2, <1>5, <2>1, <2>3, <3>1
  <2>4. CASE k = h
    <3>1. t[k \div 2] = s[h \div 2] BY <1>1, <1>2, <1>6, <2>1, <2>4
    <3> QED BY <1>1, <1>2, <1>3, <2>1, <2>4, <3>1
  <2>5. CASE k # j /\ k # h /\ k \div 2 # h
    <3>1. t[k] = s[k] /\ t[k \div 2] = s[k \div 2] BY <1>2, <1>6, <2>1, <2>5
    <3> QED BY <1>1, <2>1, <2>5, <3>1
  <2> QED BY <2>2, <2>3, <2>4, <2>5
<1>7. ASSUME NEW k \in 2..Len(t), k \div 2 = j PROVE Leq(t[j \div 2], t[k])
  <2>1. k \in 2..Len(s) /\ k \div 2 < k BY <1>2, HeapIs
  <2>2. t[k] = s[k] /\ k \div 2 # h BY <1>1, <1>2, <1>7, <2>1
  <2> QED BY <1>1, <1>2, <1>3, <1>7, <2>1, <2>2
<1>8. j \in 1..Len(t) BY <1>1, <1>2
<1> QED BY <1>6, <1>7, <1>8 DEF SinkingAt, Skipping

LEMMA SinkEnds ==
  ASSUME NEW s \in Seq(Entries), NEW h, SinkingAt(s, h),
         \A j \in {2 * h, 2 * h + 1} :
           ~(/\ j <= Len(s) /\ precedes(s[j], s[h])
             /\ ~(4 * h + 1 - j <= Len(s) /\ precedes(s[4 * h + 1 - j], s[j])))
  PROVE  Ordered(s)
<1>1. /\ h \in 1..Len(s) /\ Len(s) \in Nat
      /\ \A k \in 2..Len(s) : k \div 2 # h => Leq(s[k \div 2], s[k])
  BY HeapIs DEF SinkingAt, Skipping
<1>2. ASSUME NEW k \in 2..Len(s), k \div 2 = h, precedes(s[k], s[h]) PROVE FALSE
  <2> DEFINE m == 4 * h + 1 - k
  <2>1. k \in {2 * h, 2 * h + 1} /\ h \in Nat
    <3>1. k \in Nat BY <1>1
    <3> QED BY <1>1, <1>2, <3>1, Halves
  <2>2. m \in {2 * h, 2 * h + 1} /\ 4 * h + 1 - m = k /\ k <= Len(s) BY <1>1, <2>1
  <2>3. m <= Len(s) /\ precedes(s[m], s[k]) BY <1>2, <2>1, <2>2
  <2>4. m \in 1..Len(s) /\ s[m] \in Entries /\ s[k] \in Entries /\ s[h] \in Entries
    <3>1. m >= 1 BY <1>1, <2>1, <2>2
    <3>2. m \in 1..Len(s) /\ k \in 1..Len(s) BY <1>1, <2>1, <2>2, <2>3, <3>1
    <3> HIDE DEF m
    <3> QED BY <1>1, <3>2, HeapIs
  <2>5. ~precedes(s[k], s[m]) BY <2>3, <2>4, LeqOrders DEF Leq
  <2>6. Leq(s[m], s[k]) /\ Leq(s[k], s[h]) BY <1>2, <2>3, <2>4, LeqOrders
  <2>7. Leq(s[m], s[h]) BY <2>4, <2>6, LeqOrders
  <2>8. precedes(s[m], s[h])
    <3> HIDE DEF m
    <3> DEFINE a == s[m]
               b == s[k]
               c == s[h]
    <3>1. a \in Entries /\ b \in Entries /\ c \in Entries /\ precedes(a, b) /\ precedes(b, c)
      BY <1>2, <2>3, <2>4
    <3> HIDE DEF a, b, c
    <3>2. /\ a.at \in Int /\ b.at \in Int /\ c.at \in Int
          /\ a.seq \in Int /\ b.seq \in Int /\ c.seq \in Int
      BY <3>1, EntryIs
    <3>3. precedes(a, c) BY <3>1, <3>2 DEF precedes
    <3> QED BY <3>3 DEF a, c
  <2> HIDE DEF m
  <2> QED BY <2>2, <2>3, <2>5, <2>8
<1>3. \A k \in 2..Len(s) : k \div 2 = h => Leq(s[h], s[k]) BY <1>2 DEF Leq
<1> QED BY <1>1, <1>3 DEF Ordered

\* The top is not after any other.
LEMMA TopIsFirst ==
  ASSUME NEW s \in Seq(Entries), Ordered(s), NEW k \in 1..Len(s)
  PROVE  Leq(s[1], s[k])
<1> DEFINE Bad == {n \in Nat : n \in 1..Len(s) /\ ~Leq(s[1], s[n])}
<1> SUFFICES ASSUME Bad # {} PROVE FALSE OBVIOUS
<1>1. PICK n \in Bad : \A m \in Bad : n <= m BY NatHasLeast
<1>2. n \in 1..Len(s) /\ ~Leq(s[1], s[n]) OBVIOUS
<1>3. s[1] \in Entries /\ s[n] \in Entries /\ 1 \in 1..Len(s) /\ Len(s) \in Nat BY <1>2, HeapIs
<1>4. n \in 2..Len(s) BY <1>2, <1>3, LeqOrders
<1>5. /\ n \div 2 \in 1..Len(s) /\ n \div 2 < n /\ s[n \div 2] \in Entries
      /\ Leq(s[n \div 2], s[n])
  BY <1>4, HeapIs DEF Ordered
<1>6. n \div 2 \notin Bad BY <1>1, <1>5
<1>7. Leq(s[1], s[n \div 2]) BY <1>5, <1>6
<1> QED BY <1>2, <1>3, <1>5, <1>7, LeqOrders

LEMMA ElementsAre ==
  ASSUME NEW s \in Seq(Entries)
  PROVE  /\ \A e : e \in Elements(s) <=> \E k \in 1..Len(s) : e = s[k]
         /\ Elements(s) \subseteq Entries
<1>1. DOMAIN s = 1..Len(s) /\ \A k \in 1..Len(s) : s[k] \in Entries BY HeapIs
<1>2. \A e : e \in Elements(s) <=> \E k \in 1..Len(s) : e = s[k] BY <1>1 DEF Elements
<1> QED BY <1>1, <1>2

LEMMA DistinctIs ==
  ASSUME NEW s \in Seq(Entries), Distinct(s), NEW j \in 1..Len(s), NEW k \in 1..Len(s), j # k
  PROVE  s[j].seq # s[k].seq /\ s[j] # s[k]
BY HeapIs DEF Distinct

LEMMA AppendIs ==
  ASSUME NEW s \in Seq(Entries), NEW e \in Entries, NEW t, t = Append(s, e)
  PROVE  /\ t \in Seq(Entries) /\ Len(t) = Len(s) + 1 /\ t[Len(s) + 1] = e
         /\ Elements(t) = Elements(s) \cup {e}
         /\ Ordered(s) => RisingAt(t, Len(s) + 1)
         /\ Distinct(s) /\ (\A f \in Elements(s) : f.seq # e.seq) => Distinct(t)
<1>1. /\ t \in Seq(Entries) /\ Len(t) = Len(s) + 1 /\ t[Len(s) + 1] = e /\ Len(s) \in Nat
      /\ \A k \in 1..Len(s) : t[k] = s[k]
  BY HeapIs
<1>2. \A k \in 1..Len(t) : k \in 1..Len(s) \/ k = Len(s) + 1 BY <1>1
<1>3. \A k \in 1..Len(s) : k \in 1..Len(t) BY <1>1
<1>4. Len(s) + 1 \in 1..Len(t) BY <1>1
<1>5. Elements(t) = Elements(s) \cup {e}
  <2>1. ASSUME NEW f PROVE f \in Elements(t) <=> f \in Elements(s) \cup {e}
    <3>1. f \in Elements(t) <=> \E k \in 1..Len(t) : f = t[k] BY <1>1, ElementsAre
    <3>2. f \in Elements(s) <=> \E k \in 1..Len(s) : f = s[k] BY ElementsAre
    <3>3. ASSUME f \in Elements(t) PROVE f \in Elements(s) \cup {e}
      <4>1. PICK k \in 1..Len(t) : f = t[k] BY <3>1, <3>3
      <4> QED BY <1>1, <1>2, <3>2, <4>1
    <3>4. ASSUME f \in Elements(s) PROVE f \in Elements(t)
      <4>1. PICK k \in 1..Len(s) : f = s[k] BY <3>2, <3>4
      <4> QED BY <1>1, <1>3, <3>1, <4>1
    <3>5. e \in Elements(t)
      <4>1. \E k \in 1..Len(t) : e = t[k] BY <1>1, <1>4
      <4> QED BY <1>1, <4>1, ElementsAre
    <3> QED BY <3>3, <3>4, <3>5
  <2> QED BY <2>1
<1>6. ASSUME Ordered(s) PROVE RisingAt(t, Len(s) + 1)
  <2>1. ASSUME NEW k \in 2..Len(t) PROVE k \div 2 # Len(s) + 1
    BY <1>1, HeapIs
  <2>2. ASSUME NEW k \in 2..Len(t), k # Len(s) + 1 PROVE Leq(t[k \div 2], t[k])
    <3>1. k \in 2..Len(s) /\ k \in 1..Len(s) /\ k \div 2 \in 1..Len(s) BY <1>1, <2>2, HeapIs
    <3>2. t[k] = s[k] /\ t[k \div 2] = s[k \div 2] BY <1>1, <3>1
    <3> QED BY <1>6, <3>1, <3>2 DEF Ordered
  <2> QED BY <1>4, <2>1, <2>2 DEF RisingAt, Skipping
<1>7. ASSUME Distinct(s), \A f \in Elements(s) : f.seq # e.seq PROVE Distinct(t)
  <2>1. \A k \in 1..Len(s) : s[k].seq # e.seq BY <1>7, ElementsAre
  <2>2. \A j, k \in 1..Len(s) : s[j].seq = s[k].seq => j = k BY <1>7, HeapIs DEF Distinct
  <2>3. ASSUME NEW j \in 1..Len(t), NEW k \in 1..Len(t), t[j].seq = t[k].seq PROVE j = k
    BY <1>1, <1>2, <2>1, <2>2, <2>3
  <2>4. DOMAIN t = 1..Len(t) BY <1>1, HeapIs
  <2> QED BY <2>3, <2>4 DEF Distinct
<1> QED BY <1>1, <1>5, <1>6, <1>7

LEMMA PopIs ==
  ASSUME NEW s \in Seq(Entries), Ordered(s), Distinct(s), Len(s) > 1,
         NEW t, t = [SubSeq(s, 1, Len(s) - 1) EXCEPT ![1] = s[Len(s)]]
  PROVE  /\ t \in Seq(Entries) /\ SinkingAt(t, 1) /\ Distinct(t)
         /\ Elements(t) = Elements(s) \ {s[1]}
<1> DEFINE n == Len(s)
           r == SubSeq(s, 1, n - 1)
<1>1. /\ n \in Nat /\ n - 1 \in 1..n /\ n \in 1..n /\ 1 \in 1..n /\ n # 1
      /\ DOMAIN s = 1..n /\ \A k \in 1..n : s[k] \in Entries
  BY HeapIs
<1>2. r \in Seq(Entries) /\ Len(r) = n - 1 /\ \A k \in 1..(n - 1) : r[k] = s[k]
  BY <1>1, SubSeqProperties
<1>3. /\ t \in Seq(Entries) /\ Len(t) = n - 1 /\ t[1] = s[n]
      /\ \A k \in 2..(n - 1) : t[k] = s[k]
  <2> HIDE DEF n, r
  <2>1. t = [r EXCEPT ![1] = s[n]] BY DEF n, r
  <2>2. s[n] \in Entries /\ 1 \in 1..Len(r) BY <1>1, <1>2
  <2> QED BY <1>1, <1>2, <2>1, <2>2
<1> HIDE DEF n, r
<1>4. SinkingAt(t, 1)
  <2>1. ASSUME NEW k \in 2..Len(t), k \div 2 # 1 PROVE Leq(t[k \div 2], t[k])
    <3>1. k \in 2..n /\ k \in 2..(n - 1) /\ k \div 2 \in 1..Len(t) /\ k \div 2 < k BY <1>1, <1>3, HeapIs
    <3>2. k \div 2 \in 2..(n - 1) BY <1>1, <2>1, <3>1, <1>3
    <3>3. t[k] = s[k] /\ t[k \div 2] = s[k \div 2] BY <1>3, <3>1, <3>2
    <3> QED BY <3>1, <3>3 DEF Ordered, n
  <2>2. 1 \in 1..Len(t) BY <1>1, <1>3
  <2> QED BY <2>1, <2>2 DEF SinkingAt, Skipping
<1> DEFINE of(k) == IF k = 1 THEN n ELSE k
<1>5. /\ \A k \in 1..(n - 1) : of(k) \in 2..n /\ of(k) \in 1..n /\ t[k] = s[of(k)]
      /\ \A j, k \in 1..(n - 1) : of(j) = of(k) => j = k
      /\ \A k \in 2..n : \E j \in 1..(n - 1) : of(j) = k
  <2>1. \A k \in 1..(n - 1) : of(k) \in 2..n /\ of(k) \in 1..n /\ t[k] = s[of(k)] BY <1>1, <1>3
  <2>2. \A j, k \in 1..(n - 1) : of(j) = of(k) => j = k BY <1>1
  <2>3. ASSUME NEW k \in 2..n PROVE \E j \in 1..(n - 1) : of(j) = k
    <3>1. of(IF k = n THEN 1 ELSE k) = k /\ (IF k = n THEN 1 ELSE k) \in 1..(n - 1) BY <1>1
    <3> QED BY <3>1
  <2> QED BY <2>1, <2>2, <2>3
<1> HIDE DEF of
<1>6. Distinct(t)
  <2>1. \A j, k \in 1..n : s[j].seq = s[k].seq => j = k BY <1>1 DEF Distinct
  <2>2. DOMAIN t = 1..(n - 1) BY <1>3, HeapIs
  <2>3. ASSUME NEW j \in DOMAIN t, NEW k \in DOMAIN t, t[j].seq = t[k].seq PROVE j = k
    <3>0. j \in 1..(n - 1) /\ k \in 1..(n - 1) BY <2>2
    <3>1. /\ of(j) \in 1..n /\ of(k) \in 1..n /\ t[j] = s[of(j)] /\ t[k] = s[of(k)]
          /\ of(j) = of(k) => j = k
      BY <1>5, <3>0
    <3>2. s[of(j)].seq = s[of(k)].seq BY <2>3, <3>1, Zenon
    <3>3. of(j) = of(k) BY <2>1, <3>1, <3>2, Zenon
    <3> QED BY <3>1, <3>3
  <2> QED BY <2>3 DEF Distinct
<1>7. ASSUME NEW f PROVE f \in Elements(t) <=> f \in Elements(s) /\ f # s[1]
  <2>1. f \in Elements(t) <=> \E k \in 1..(n - 1) : f = t[k]
    <3>1. f \in Elements(t) <=> \E k \in 1..Len(t) : f = t[k] BY <1>3, ElementsAre
    <3> QED BY <1>3, <3>1, Zenon
  <2>2. f \in Elements(s) <=> \E k \in 1..n : f = s[k] BY ElementsAre DEF n
  <2>3. ASSUME f \in Elements(t) PROVE f \in Elements(s) /\ f # s[1]
    <3>1. PICK k \in 1..(n - 1) : f = t[k] BY <2>1, <2>3
    <3>2. of(k) \in 2..n /\ of(k) \in 1..n /\ t[k] = s[of(k)] BY <1>5
    <3>3. of(k) # 1 BY <3>2
    <3>4. s[of(k)] # s[1] BY <1>1, <3>2, <3>3, DistinctIs DEF n
    <3> QED BY <2>2, <3>1, <3>2, <3>4, Zenon
  <2>4. ASSUME f \in Elements(s), f # s[1] PROVE f \in Elements(t)
    <3>1. PICK k \in 1..n : f = s[k] BY <2>2, <2>4
    <3>2. k \in 2..n BY <1>1, <2>4, <3>1
    <3>3. PICK j \in 1..(n - 1) : of(j) = k BY <1>5, <3>2
    <3> QED BY <1>5, <2>1, <3>1, <3>3
  <2> QED BY <2>3, <2>4
<1>8. Elements(t) = Elements(s) \ {s[1]} BY <1>7
<1> QED BY <1>3, <1>4, <1>6, <1>8

LEMMA LastPopIs ==
  ASSUME NEW s \in Seq(Entries), Len(s) = 1
  PROVE  /\ << >> \in Seq(Entries) /\ Ordered(<< >>) /\ Distinct(<< >>)
         /\ Elements(<< >>) = Elements(s) \ {s[1]}
<1>1. Elements(<< >>) = {} /\ Ordered(<< >>) /\ Distinct(<< >>) BY DEF Elements, Ordered, Distinct
<1>2. \A f \in Elements(s) : f = s[1] BY ElementsAre
<1> QED BY <1>1, <1>2

-----------------------------------------------------------------------------
(* What is true of the clock whatever it is at *)

ClockTyped ==
  /\ current \in Instants /\ items \in Seq(Entries) /\ nextSeq \in Nat /\ live \subseteq Entries
  /\ horizon \in Instants \cup {Forever, None} /\ top \in Entries \cup {None}
  /\ returning \in Seq(Instants)

\* What is popped by a drain is looked at before the next call.
Flow ==
  /\ top # None => pc \in {"down", "fire"} /\ horizon # None
  /\ pc = "fire" => top # None
  /\ pc = "drain" => horizon # None

\* Between the swaps of a sift only one entry is out of place.
Heaped ==
  /\ pc = "up" => RisingAt(items, i)
  /\ pc = "down" => SinkingAt(items, i)
  /\ pc \notin {"up", "down"} => Ordered(items)

\* A number is given once, and what is popped comes before all that is left.
Numbered ==
  /\ Distinct(items) /\ (\A e \in Elements(items) : e.seq < nextSeq)
  /\ \A n \in cancelled : n \in Nat /\ n < nextSeq
  /\ top # None => /\ top.seq < nextSeq
                   /\ \A e \in Elements(items) : e.seq # top.seq /\ Leq(top, e)
  /\ pc = "up" => /\ items[i].seq = nextSeq - 1 /\ items[i].seq \notin cancelled
                  /\ items[i].at >= current

ClockInv == ClockTyped /\ Flow /\ Heaped /\ Numbered /\ PendingIsQueued

LEMMA QueuedIs ==
  /\ Queued = Elements(items) \cup (IF top = None THEN {} ELSE {top})
  /\ Queued' = Elements(items') \cup (IF top' = None THEN {} ELSE {top'})
BY DEF Queued, Elements

LEMMA PendingIs ==
  /\ PendingIsQueued =>
       \A e : e \in live <=> e \in Queued /\ e.seq \notin cancelled /\ ~(pc = "up" /\ e = items[i])
  /\ /\ Distinct(items')
     /\ \A e : e \in live' <=> e \in Queued' /\ e.seq \notin cancelled' /\ ~(pc' = "up" /\ e = items'[i'])
     => PendingIsQueued'
<1>1. PendingIsQueued =>
       \A e : e \in live <=> e \in Queued /\ e.seq \notin cancelled /\ ~(pc = "up" /\ e = items[i])
  BY DEF PendingIsQueued
<1>2. ASSUME Distinct(items'),
             \A e : e \in live' <=> e \in Queued' /\ e.seq \notin cancelled' /\ ~(pc' = "up" /\ e = items'[i'])
      PROVE  PendingIsQueued'
  <2>1. live' = {e \in Queued' : e.seq \notin cancelled' /\ ~(pc' = "up" /\ e = items'[i'])}
    BY <1>2
  <2> QED BY <1>2, <2>1 DEF PendingIsQueued, Distinct
<1> QED BY <1>1, <1>2

LEMMA NoneIsNone ==
  /\ \A at \in Instants \cup {Forever} : at # None
  /\ None \notin Entries /\ Instants \subseteq Int
BY ClockAssumption DEF Entries

LEMMA InitKeeps == Init => ClockInv
<1> SUFFICES ASSUME Init PROVE ClockInv OBVIOUS
<1>1. items = << >> /\ Elements(items) = {} /\ live = {} BY DEF Init, Elements
<1>2. ClockTyped BY DEF Init, ClockTyped
<1>3. Flow /\ Heaped BY DEF Init, Flow, Heaped, Ordered
<1>4. Numbered BY <1>1 DEF Init, Numbered, Distinct
<1>5. PendingIsQueued BY <1>1, QueuedIs DEF Init, PendingIsQueued
<1> QED BY <1>1, <1>2, <1>3, <1>4, <1>5 DEF ClockInv

\* What neither touches the queue nor adds to it.
LEMMA QueueStays ==
  ASSUME ClockInv, pc # "up", pc' # "up", UNCHANGED <<items, nextSeq, live, cancelled, top>>
  PROVE  Numbered' /\ PendingIsQueued'
<1>1. Numbered' BY DEF ClockInv, Numbered
<1>2. Queued' = Queued BY QueuedIs
<1>3. Distinct(items') BY DEF ClockInv, Numbered
<1> QED BY <1>1, <1>2, <1>3, PendingIs DEF ClockInv

LEMMA ScheduleKeeps ==
  ASSUME ClockInv, NEW at \in Instants, NEW work \in Works, schedule(at, work)
  PROVE  ClockInv'
<1> DEFINE e == [at |-> at, seq |-> nextSeq, work |-> work]
<1>1. /\ pc = "ready" /\ at >= current /\ items' = Append(items, e) /\ nextSeq' = nextSeq + 1
      /\ pc' = "up" /\ i' = Len(items) + 1
      /\ UNCHANGED <<current, live, cancelled, horizon, fired, top, returning>>
  BY DEF schedule, MayCall, InTime, returns
<1>2. e \in Entries /\ e.at = at /\ e.seq = nextSeq BY DEF ClockInv, ClockTyped, Entries
<1> HIDE DEF e
<1>3. /\ items \in Seq(Entries) /\ nextSeq \in Nat /\ top = None /\ Ordered(items) /\ Distinct(items)
      /\ \A f \in Elements(items) : f.seq < nextSeq
      /\ \A n \in cancelled : n \in Nat /\ n < nextSeq
  BY <1>1 DEF ClockInv, ClockTyped, Flow, Heaped, Numbered
<1>4. Elements(items) \subseteq Entries BY <1>3, ElementsAre
<1>5. \A f \in Elements(items) : f.seq \in Nat /\ f.seq < nextSeq BY <1>3, <1>4, EntryIs
<1>6. \A f \in Elements(items) : f.seq # e.seq BY <1>2, <1>3, <1>5
<1>7. /\ items' \in Seq(Entries) /\ items'[i'] = e /\ Elements(items') = Elements(items) \cup {e}
      /\ RisingAt(items', i') /\ Distinct(items')
  BY <1>1, <1>2, <1>3, <1>6, AppendIs
<1>8. ClockTyped' BY <1>1, <1>3, <1>7 DEF ClockInv, ClockTyped
<1>9. Flow' BY <1>1, <1>3 DEF Flow
<1>10. Heaped' BY <1>1, <1>7 DEF Heaped
<1>11. Numbered'
  <2>1. \A f \in Elements(items') : f.seq < nextSeq' BY <1>1, <1>2, <1>3, <1>5, <1>7
  <2>2. \A n \in cancelled' : n \in Nat /\ n < nextSeq' BY <1>1, <1>3
  <2>3. /\ items'[i'].seq = nextSeq' - 1 /\ items'[i'].seq \notin cancelled'
        /\ items'[i'].at >= current'
    BY <1>1, <1>2, <1>3, <1>7
  <2> QED BY <1>1, <1>3, <1>7, <2>1, <2>2, <2>3 DEF Numbered
<1>12. PendingIsQueued'
  <2>1. Queued = Elements(items) /\ Queued' = Elements(items) \cup {e} BY <1>1, <1>3, <1>7, QueuedIs
  <2>2. \A f : f \in live <=> f \in Queued /\ f.seq \notin cancelled
    BY <1>1, PendingIs DEF ClockInv
  <2>3. \A f \in Elements(items) : f # e BY <1>6
  <2> QED BY <1>1, <1>7, <2>1, <2>2, <2>3, PendingIs
<1> QED BY <1>8, <1>9, <1>10, <1>11, <1>12 DEF ClockInv

LEMMA RiseKeeps ==
  ASSUME ClockInv, Rise
  PROVE  ClockInv'
<1> DEFINE p == i \div 2
<1>1. /\ pc = "up" /\ i > 1 /\ precedes(items[i], items[p]) /\ i' = p
      /\ items' = [items EXCEPT ![i] = items[p], ![p] = items[i]]
      /\ UNCHANGED <<current, nextSeq, live, cancelled, horizon, fired, pc, top, returning>>
  BY DEF Rise, Rises, Before, Swapped, returns
<1>2. items \in Seq(Entries) /\ RisingAt(items, i) /\ Distinct(items) /\ top = None
  BY <1>1 DEF ClockInv, ClockTyped, Flow, Heaped, Numbered
<1>3. i \in 1..Len(items) /\ p \in 1..Len(items) /\ i # p
  BY <1>1, <1>2, HeapIs DEF RisingAt, Skipping
<1>4. /\ RisingAt(items', p) /\ items' \in Seq(Entries) /\ items'[p] = items[i]
      /\ Elements(items') = Elements(items) /\ Distinct(items')
  <2>1. IsSwap(items, items', i, p) BY <1>1, <1>2, <1>3 DEF IsSwap
  <2>2. RisingAt(items', p) BY <1>1, <1>2, <2>1, RiseSteps
  <2> QED BY <1>2, <1>3, <2>1, <2>2, SwapIs DEF IsSwap
<1> HIDE DEF p
<1>6. ClockTyped' BY <1>1, <1>4 DEF ClockInv, ClockTyped
<1>7. Flow' BY <1>1, <1>2 DEF Flow
<1>8. Heaped' BY <1>1, <1>4 DEF Heaped
<1>5. RisingAt(items', i') /\ items'[i'] = items[i] BY <1>1, <1>4
<1>9. Numbered'
  <2>1. /\ \A e \in Elements(items) : e.seq < nextSeq
        /\ \A n \in cancelled : n \in Nat /\ n < nextSeq
        /\ items[i].seq = nextSeq - 1 /\ items[i].seq \notin cancelled /\ items[i].at >= current
    BY <1>1 DEF ClockInv, Numbered
  <2>2. items'[i'] = items[i] BY <1>5
  <2>3. /\ Distinct(items') /\ (\A e \in Elements(items') : e.seq < nextSeq') /\ top' = None
        /\ \A n \in cancelled' : n \in Nat /\ n < nextSeq'
    BY <1>1, <1>2, <1>4, <2>1
  <2>4. /\ items'[i'].seq = nextSeq' - 1 /\ items'[i'].seq \notin cancelled'
        /\ items'[i'].at >= current'
    BY <1>1, <2>1, <2>2
  <2> QED BY <2>3, <2>4 DEF Numbered
<1>10. PendingIsQueued'
  <2>1. Queued' = Queued BY <1>1, <1>4, QueuedIs
  <2> QED BY <1>1, <1>4, <1>5, <2>1, PendingIs DEF ClockInv
<1> QED BY <1>6, <1>7, <1>8, <1>9, <1>10 DEF ClockInv

LEMMA ScheduledKeeps ==
  ASSUME ClockInv, Scheduled
  PROVE  ClockInv'
<1>1. /\ pc = "up" /\ live' = live \cup {items[i]} /\ pc' = "ready"
      /\ ~(i > 1 /\ Before(i, i \div 2))
      /\ UNCHANGED <<current, items, nextSeq, cancelled, horizon, top, returning>>
  BY DEF Scheduled, Rises, returns
<1>2. /\ items \in Seq(Entries) /\ RisingAt(items, i) /\ Distinct(items) /\ top = None
      /\ items[i].seq \notin cancelled /\ items[i].at >= current
  BY <1>1 DEF ClockInv, ClockTyped, Flow, Heaped, Numbered
<1>3. i \in 1..Len(items) /\ i <= Len(items)
  BY <1>2, HeapIs DEF RisingAt, Skipping
<1>4. items[i] \in Entries /\ items[i] \in Elements(items) BY <1>2, <1>3, HeapIs, ElementsAre
<1>5. Ordered(items) BY <1>1, <1>2, <1>3, RiseEnds DEF Before
<1>6. ClockTyped' BY <1>1, <1>4 DEF ClockInv, ClockTyped
<1>7. Flow' BY <1>1, <1>2 DEF Flow
<1>8. Heaped' BY <1>1, <1>5 DEF Heaped
<1>9. Numbered' BY <1>1 DEF ClockInv, Numbered
<1>10. PendingIsQueued'
  <2>1. Queued' = Queued /\ items[i] \in Queued BY <1>1, <1>4, QueuedIs
  <2> QED BY <1>1, <1>2, <2>1, PendingIs DEF ClockInv
<1> QED BY <1>6, <1>7, <1>8, <1>9, <1>10 DEF ClockInv

LEMMA SinkKeeps ==
  ASSUME ClockInv, Sink
  PROVE  ClockInv'
<1>1. PICK j \in {2 * i, 2 * i + 1} : SinksTo(j) /\ items' = Swapped(i, j) /\ i' = j
  BY DEF Sink
<1>2. /\ pc = "down" /\ i' = j /\ items' = [items EXCEPT ![i] = items[j], ![j] = items[i]]
      /\ j <= Len(items) /\ precedes(items[j], items[i])
      /\ (4 * i + 1 - j <= Len(items) => ~precedes(items[4 * i + 1 - j], items[j]))
      /\ UNCHANGED <<current, nextSeq, live, cancelled, horizon, fired, pc, top, returning>>
  BY <1>1 DEF Sink, SinksTo, Before, Swapped, returns
<1>3. items \in Seq(Entries) /\ SinkingAt(items, i) /\ Distinct(items)
  BY <1>2 DEF ClockInv, ClockTyped, Heaped, Numbered
<1>4. i \in 1..Len(items) /\ j \in 1..Len(items) /\ i # j
  BY <1>1, <1>2, <1>3, HeapIs DEF SinkingAt, Skipping
<1>5. IsSwap(items, items', i, j) BY <1>2, <1>3, <1>4 DEF IsSwap
<1>6. SinkingAt(items', j) BY <1>1, <1>2, <1>3, <1>5, SinkSteps
<1>7. items' \in Seq(Entries) /\ Elements(items') = Elements(items) /\ Distinct(items')
  BY <1>3, <1>4, <1>5, SwapIs DEF IsSwap
<1>8. ClockTyped' BY <1>2, <1>7 DEF ClockInv, ClockTyped
<1>9. Flow' BY <1>2 DEF ClockInv, Flow
<1>10. Heaped' BY <1>2, <1>6 DEF Heaped
<1>11. Numbered' BY <1>2, <1>7 DEF ClockInv, Numbered
<1>12. PendingIsQueued'
  <2>1. Queued' = Queued BY <1>2, <1>7, QueuedIs
  <2> QED BY <1>2, <1>7, <2>1, PendingIs DEF ClockInv
<1> QED BY <1>8, <1>9, <1>10, <1>11, <1>12 DEF ClockInv

LEMMA SunkKeeps ==
  ASSUME ClockInv, Sunk
  PROVE  ClockInv'
<1>1. /\ pc = "down" /\ pc' = (IF top = None THEN "peek" ELSE "fire")
      /\ UNCHANGED <<current, items, nextSeq, live, cancelled, horizon, top, returning>>
  BY DEF Sunk, Returned, returns
<1>2. items \in Seq(Entries) /\ SinkingAt(items, i) BY <1>1 DEF ClockInv, ClockTyped, Heaped
<1>3. \A j \in {2 * i, 2 * i + 1} :
        ~(/\ j <= Len(items) /\ precedes(items[j], items[i])
          /\ ~(4 * i + 1 - j <= Len(items) /\ precedes(items[4 * i + 1 - j], items[j])))
  BY DEF Sunk, SinksTo, Before
<1>4. Ordered(items) BY <1>2, <1>3, SinkEnds
<1>5. ClockTyped' BY <1>1 DEF ClockInv, ClockTyped
<1>6. Flow' BY <1>1 DEF ClockInv, Flow
<1>7. Heaped' BY <1>1, <1>4 DEF Heaped
<1>8. Numbered' /\ PendingIsQueued' BY <1>1, QueueStays
<1> QED BY <1>5, <1>6, <1>7, <1>8 DEF ClockInv

LEMMA SameNumber ==
  ASSUME NEW s \in Seq(Entries), Distinct(s), NEW e \in Elements(s), NEW f \in Elements(s),
         e.seq = f.seq
  PROVE  e = f
<1>1. PICK j \in DOMAIN s : e = s[j] BY DEF Elements
<1>2. PICK k \in DOMAIN s : f = s[k] BY DEF Elements
<1> QED BY <1>1, <1>2 DEF Distinct

LEMMA CancelKeeps ==
  ASSUME ClockInv, NEW entry \in live, cancel(entry)
  PROVE  ClockInv'
<1>1. /\ pc = "ready" /\ cancelled' = cancelled \cup {entry.seq} /\ live' = live \ {entry}
      /\ UNCHANGED <<current, items, nextSeq, horizon, fired, pc, i, top, returning>>
  BY DEF cancel, MayCall, Without, returns
<1>2. /\ items \in Seq(Entries) /\ Distinct(items) /\ top = None
      /\ \A e \in Elements(items) : e.seq < nextSeq
      /\ \A n \in cancelled : n \in Nat /\ n < nextSeq
  BY <1>1 DEF ClockInv, ClockTyped, Flow, Numbered
<1>3. Queued = Elements(items) /\ Queued' = Elements(items) BY <1>1, <1>2, QueuedIs
<1>4. \A e : e \in live <=> e \in Elements(items) /\ e.seq \notin cancelled
  BY <1>1, <1>3, PendingIs DEF ClockInv
<1>5. entry \in Elements(items) /\ entry.seq \in Nat /\ entry.seq < nextSeq
  <2>1. entry \in Elements(items) /\ entry \in Entries BY <1>4 DEF ClockInv, ClockTyped
  <2> QED BY <1>2, <2>1, EntryIs
<1>6. ClockTyped' BY <1>1 DEF ClockInv, ClockTyped
<1>7. Flow' BY <1>1 DEF ClockInv, Flow
<1>8. Heaped' BY <1>1 DEF ClockInv, Heaped
<1>9. Numbered' BY <1>1, <1>2, <1>5 DEF Numbered
<1>10. PendingIsQueued'
  <2>1. \A e \in Elements(items) : e.seq = entry.seq => e = entry BY <1>2, <1>5, SameNumber
  <2>2. \A e : e \in live' <=> e \in Elements(items) /\ e.seq \notin cancelled'
    BY <1>1, <1>4, <2>1
  <2> QED BY <1>1, <1>2, <1>3, <2>2, PendingIs
<1> QED BY <1>6, <1>7, <1>8, <1>9, <1>10 DEF ClockInv

\* What a pop does to the heap, whoever pops.
LEMMA PopKeeps ==
  ASSUME ClockInv, pc \notin {"up", "down"}, items # << >>, NEW by, Pop(by)
  PROVE  /\ items' \in Seq(Entries) /\ Distinct(items') /\ Heaped'
         /\ Elements(items') = Elements(items) \ {items[1]}
         /\ pc' = "down" \/ pc' = (IF top' = None THEN "peek" ELSE "fire")
<1>1. items \in Seq(Entries) /\ Ordered(items) /\ Distinct(items) /\ Len(items) \in Nat /\ Len(items) # 0
  BY DEF ClockInv, ClockTyped, Heaped, Numbered
<1>2. CASE Len(items) = 1
  <2>1. items' = << >> /\ pc' = (IF top' = None THEN "peek" ELSE "fire")
    BY <1>2 DEF Pop, Returned
  <2>2. /\ items' \in Seq(Entries) /\ Distinct(items') /\ Ordered(items')
        /\ Elements(items') = Elements(items) \ {items[1]}
    BY <1>1, <1>2, <2>1, LastPopIs
  <2>3. pc' \notin {"up", "down"} BY <2>1
  <2> QED BY <2>1, <2>2, <2>3 DEF Heaped
<1>3. CASE Len(items) # 1
  <2>1. /\ items' = [SubSeq(items, 1, Len(items) - 1) EXCEPT ![1] = items[Len(items)]]
        /\ pc' = "down" /\ i' = 1
    BY <1>3 DEF Pop
  <2>2. Len(items) > 1 BY <1>1, <1>3
  <2>3. /\ items' \in Seq(Entries) /\ Distinct(items') /\ SinkingAt(items', 1)
        /\ Elements(items') = Elements(items) \ {items[1]}
    BY <1>1, <2>1, <2>2, PopIs
  <2> QED BY <2>1, <2>3 DEF Heaped
<1> QED BY <1>2, <1>3

LEMMA TopIs ==
  ASSUME ClockInv, pc \notin {"up", "down"}, items # << >>
  PROVE  /\ Head(items) = items[1] /\ items[1] \in Elements(items) /\ items[1] \in Entries
         /\ \A e \in Elements(items) : Leq(items[1], e)
<1>1. items \in Seq(Entries) /\ Ordered(items) /\ Len(items) \in Nat /\ Len(items) # 0
  BY DEF ClockInv, ClockTyped, Heaped
<1>2. 1 \in 1..Len(items) /\ Head(items) = items[1] BY <1>1
<1>3. items[1] \in Elements(items) /\ items[1] \in Entries BY <1>1, <1>2, HeapIs, ElementsAre
<1>4. \A k \in 1..Len(items) : Leq(items[1], items[k]) BY <1>1, TopIsFirst
<1>5. \A e \in Elements(items) : Leq(items[1], e)
  <2>1. \A e \in Elements(items) : \E k \in 1..Len(items) : e = items[k] BY <1>1, ElementsAre
  <2> QED BY <1>4, <2>1
<1> QED BY <1>2, <1>3, <1>5

LEMMA DroppedKeeps ==
  ASSUME ClockInv, Dropped
  PROVE  ClockInv'
<1>1. /\ pc = "peek" /\ items # << >> /\ Head(items).seq \in cancelled /\ Pop("peek") /\ top' = None
      /\ UNCHANGED <<current, nextSeq, live, cancelled, horizon, fired, returning>>
  BY DEF Dropped, Pop, returns
<1>2. top = None /\ items[1].seq \in cancelled BY <1>1, TopIs DEF ClockInv, Flow
<1>3. /\ items' \in Seq(Entries) /\ Distinct(items') /\ Heaped'
      /\ Elements(items') = Elements(items) \ {items[1]} /\ pc' \in {"down", "peek"}
  BY <1>1, PopKeeps
<1>4. ClockTyped' BY <1>1, <1>3 DEF ClockInv, ClockTyped
<1>5. Flow' BY <1>1, <1>3 DEF Flow
<1>6. Numbered' BY <1>1, <1>3 DEF ClockInv, Numbered
<1>7. PendingIsQueued'
  <2>1. Queued' = Queued \ {items[1]} BY <1>1, <1>2, <1>3, QueuedIs
  <2>2. \A e : e \in live <=> e \in Queued /\ e.seq \notin cancelled BY <1>1, PendingIs DEF ClockInv
  <2>3. \A e : e \in live' <=> e \in Queued' /\ e.seq \notin cancelled' BY <1>1, <1>2, <2>1, <2>2
  <2> QED BY <1>3, <2>3, PendingIs
<1> QED BY <1>3, <1>4, <1>5, <1>6, <1>7 DEF ClockInv

LEMMA PopNextKeeps ==
  ASSUME ClockInv, PopNext
  PROVE  ClockInv'
<1>1. /\ pc = "drain" /\ items # << >> /\ Pop("drain") /\ top' = Head(items)
      /\ UNCHANGED <<current, nextSeq, live, cancelled, horizon, fired, returning>>
  BY DEF PopNext, WithinHorizon, Pop, returns
<1>2. /\ top = None /\ horizon # None /\ items \in Seq(Entries) /\ Distinct(items)
      /\ \A e \in Elements(items) : e.seq < nextSeq
  BY <1>1 DEF ClockInv, Flow, ClockTyped, Numbered
<1>3. /\ top' = items[1] /\ items[1] \in Elements(items) /\ items[1] \in Entries /\ top' # None
      /\ \A e \in Elements(items) : Leq(items[1], e)
  BY <1>1, TopIs, NoneIsNone
<1>4. /\ items' \in Seq(Entries) /\ Distinct(items') /\ Heaped'
      /\ Elements(items') = Elements(items) \ {items[1]} /\ pc' \in {"down", "fire"}
  BY <1>1, <1>3, PopKeeps
<1>5. ClockTyped' BY <1>1, <1>3, <1>4 DEF ClockInv, ClockTyped
<1>6. Flow' BY <1>1, <1>2, <1>3, <1>4 DEF Flow
<1>7. Numbered'
  <2>1. \A e \in Elements(items') : e.seq < nextSeq' BY <1>1, <1>2, <1>4
  <2>2. \A n \in cancelled' : n \in Nat /\ n < nextSeq' BY <1>1 DEF ClockInv, Numbered
  <2>3. top'.seq < nextSeq' BY <1>1, <1>2, <1>3
  <2>4. \A e \in Elements(items') : e.seq # top'.seq BY <1>2, <1>3, <1>4, SameNumber
  <2>5. \A e \in Elements(items') : Leq(top', e) BY <1>3, <1>4
  <2> QED BY <1>4, <2>1, <2>2, <2>3, <2>4, <2>5 DEF Numbered
<1>8. PendingIsQueued'
  <2>1. Queued' = Queued BY <1>1, <1>2, <1>3, <1>4, QueuedIs
  <2> QED BY <1>1, <1>4, <2>1, PendingIs DEF ClockInv
<1> QED BY <1>4, <1>5, <1>6, <1>7, <1>8 DEF ClockInv

\* The calls and the steps that leave the queue alone.
LEMMA QuietKeeps ==
  ASSUME ClockInv, pc \notin {"up", "down"}, pc' \in {"ready", "peek", "drain"}, top = None,
         pc' = "drain" => horizon' # None,
         horizon' \in Instants \cup {Forever, None},
         UNCHANGED <<current, items, nextSeq, live, cancelled, top, returning>>
  PROVE  ClockInv'
<1>1. ClockTyped' BY DEF ClockInv, ClockTyped
<1>2. Flow' BY DEF Flow
<1>3. Heaped' BY DEF ClockInv, Heaped
<1>4. Numbered' /\ PendingIsQueued' BY QueueStays
<1> QED BY <1>1, <1>2, <1>3, <1>4 DEF ClockInv

LEMMA IdleIs ==
  ASSUME ClockInv, pc \in {"ready", "peek", "drain"}
  PROVE  /\ pc \notin {"up", "down"} /\ top = None
         /\ items \in Seq(Entries) /\ Ordered(items) /\ Queued = Elements(items)
         /\ horizon \in Instants \cup {Forever, None} /\ (pc = "drain" => horizon # None)
         /\ \A e : e \in live <=> e \in Elements(items) /\ e.seq \notin cancelled
<1>1. pc \notin {"up", "down"} /\ pc # "fire" OBVIOUS
<1>2. top = None BY <1>1 DEF ClockInv, Flow
<1>3. Queued = Elements(items) BY <1>2, QueuedIs
<1>4. \A e : e \in live <=> e \in Elements(items) /\ e.seq \notin cancelled
  BY <1>1, <1>3, PendingIs DEF ClockInv
<1> QED BY <1>1, <1>2, <1>3, <1>4 DEF ClockInv, ClockTyped, Flow, Heaped

LEMMA CallsKeep ==
  ASSUME ClockInv,
         \/ nextAt \/ Peeked \/ Settled \/ Thrown
         \/ \E target \in Instants \cup {Forever} : advanceTo(target)
  PROVE  ClockInv'
<1>1. CASE nextAt BY <1>1, IdleIs, QuietKeeps DEF nextAt, MayCall, returns
<1>2. CASE Peeked BY <1>2, IdleIs, QuietKeeps DEF Peeked, returns
<1>3. CASE Settled BY <1>3, IdleIs, QuietKeeps DEF Settled, returns
<1>4. CASE Thrown
  <2>1. pc = "ready" /\ pc' = "ready" /\ horizon' = None BY <1>4 DEF Thrown
  <2> QED BY <1>4, <2>1, IdleIs, QuietKeeps DEF Thrown, returns
<1>5. ASSUME NEW target \in Instants \cup {Forever}, advanceTo(target) PROVE ClockInv'
  <2>1. pc = "ready" /\ pc' = "drain" /\ horizon' = target /\ target # None
    BY <1>5, NoneIsNone DEF advanceTo, MayCall
  <2> QED BY <1>5, <2>1, IdleIs, QuietKeeps DEF advanceTo, returns
<1> QED BY <1>1, <1>2, <1>3, <1>4, <1>5

\* At the end of a drain all that is left is after its target.
LEMMA DrainedIs ==
  ASSUME ClockInv, Drained, horizon # Forever
  PROVE  horizon \in Instants /\ \A e \in live : e.at > horizon
<1>1. pc = "drain" /\ ~(items # << >> /\ ~(Head(items).at > horizon))
  BY DEF Drained, WithinHorizon, Beyond
<1>2. /\ horizon \in Instants /\ items \in Seq(Entries)
      /\ \A e \in live : e \in Elements(items) /\ e \in Entries
  BY <1>1, IdleIs DEF ClockInv, ClockTyped
<1>3. ASSUME NEW e \in live PROVE e.at > horizon
  <2>1. items # << >>
    <3>1. e \in Elements(items) BY <1>2
    <3> QED BY <3>1 DEF Elements
  <2>2. /\ Head(items) = items[1] /\ items[1] \in Entries /\ Leq(items[1], e)
    BY <1>1, <1>2, <2>1, TopIs
  <2>3. items[1].at > horizon BY <1>1, <2>1, <2>2
  <2>4. items[1].at <= e.at BY <1>2, <2>2, LeqOrders
  <2>5. items[1].at \in Int /\ e.at \in Int /\ horizon \in Int BY <1>2, <2>2, EntryIs, NoneIsNone
  <2> QED BY <2>3, <2>4, <2>5
<1> QED BY <1>2, <1>3

LEMMA DrainedKeeps ==
  ASSUME ClockInv, Drained
  PROVE  ClockInv'
<1>1. /\ pc = "drain" /\ horizon' = None /\ pc' = "ready"
      /\ returning' = (IF horizon = Forever THEN returning ELSE Append(returning, horizon))
      /\ UNCHANGED <<current, items, nextSeq, live, cancelled, top>>
  BY DEF Drained
<1>2. top = None BY <1>1, IdleIs
<1>3. ClockTyped'
  <2>1. returning' \in Seq(Instants) BY <1>1, DrainedIs DEF ClockInv, ClockTyped
  <2> QED BY <1>1, <2>1 DEF ClockInv, ClockTyped
<1>4. Flow' BY <1>1, <1>2 DEF Flow
<1>5. Heaped' BY <1>1 DEF ClockInv, Heaped
<1>6. Numbered' /\ PendingIsQueued' BY <1>1, QueueStays
<1> QED BY <1>3, <1>4, <1>5, <1>6 DEF ClockInv

\* What advanceTo does to the time when its drain is over.
LEMMA ArriveIs ==
  ASSUME ClockInv, Arrive
  PROVE  /\ pc = "ready" /\ pc' = "ready" /\ 1 \in DOMAIN returning
         /\ Head(returning) = returning[1] /\ returning[1] \in Instants
         /\ current' = (IF returning[1] > current THEN returning[1] ELSE current)
         /\ returning' \in Seq(Instants)
         /\ \A k \in DOMAIN returning' : k + 1 \in DOMAIN returning /\ returning'[k] = returning[k + 1]
         /\ UNCHANGED <<items, nextSeq, live, cancelled, horizon, top, early>>
<1>1. returning \in Seq(Instants) /\ returning # << >> BY DEF ClockInv, ClockTyped, Arrive
<1>2. 1 \in DOMAIN returning /\ Head(returning) = returning[1] /\ returning[1] \in Instants
  BY <1>1
<1>3. returning' = Tail(returning) BY DEF Arrive
<1>4. /\ returning' \in Seq(Instants)
      /\ \A k \in DOMAIN returning' : k + 1 \in DOMAIN returning /\ returning'[k] = returning[k + 1]
  BY <1>1, <1>3
<1> QED BY <1>2, <1>4 DEF Arrive

LEMMA ArriveKeeps ==
  ASSUME ClockInv, Arrive
  PROVE  ClockInv'
<1>1. top = None BY IdleIs, ArriveIs
<1>2. ClockTyped' BY ArriveIs DEF ClockInv, ClockTyped
<1>3. Flow' BY <1>1, ArriveIs DEF Flow
<1>4. Heaped' BY ArriveIs DEF ClockInv, Heaped
<1>5. Numbered' /\ PendingIsQueued' BY ArriveIs, QueueStays
<1> QED BY <1>2, <1>3, <1>4, <1>5 DEF ClockInv

LEMMA SkipKeeps ==
  ASSUME ClockInv, Skip
  PROVE  ClockInv'
<1>1. /\ pc = "fire" /\ top.seq \in cancelled /\ top' = None /\ pc' = "drain"
      /\ UNCHANGED <<current, items, nextSeq, live, cancelled, horizon, fired, i, returning>>
  BY DEF Skip, returns
<1>2. top # None /\ horizon # None BY <1>1 DEF ClockInv, Flow
<1>3. ClockTyped' BY <1>1 DEF ClockInv, ClockTyped
<1>4. Flow' BY <1>1, <1>2 DEF Flow
<1>5. Heaped' BY <1>1 DEF ClockInv, Heaped
<1>6. Numbered' BY <1>1 DEF ClockInv, Numbered
<1>7. PendingIsQueued'
  <2>1. Queued = Elements(items) \cup {top} /\ Queued' = Elements(items) BY <1>1, <1>2, QueuedIs
  <2>2. \A e : e \in live <=> e \in Queued /\ e.seq \notin cancelled BY <1>1, PendingIs DEF ClockInv
  <2>3. Distinct(items') BY <1>1 DEF ClockInv, Numbered
  <2> QED BY <1>1, <2>1, <2>2, <2>3, PendingIs
<1> QED BY <1>3, <1>4, <1>5, <1>6, <1>7 DEF ClockInv

\* A task that runs is alive, and comes before the others that are.
LEMMA FireIs ==
  ASSUME ClockInv, Fire
  PROVE  /\ top \in live /\ top \in Entries /\ live \ {top} \subseteq Elements(items)
         /\ \A e \in live \ {top} : e \in Entries /\ precedes(top, e) /\ top.at <= e.at
<1>1. pc = "fire" /\ top.seq \notin cancelled BY DEF Fire
<1>2. /\ top # None /\ top \in Entries
      /\ \A e \in Elements(items) : e.seq # top.seq /\ Leq(top, e)
  BY <1>1 DEF ClockInv, ClockTyped, Flow, Numbered
<1>3. Queued = Elements(items) \cup {top} BY <1>2, QueuedIs
<1>4. \A e : e \in live <=> e \in Queued /\ e.seq \notin cancelled BY <1>1, PendingIs DEF ClockInv
<1>5. live \ {top} \subseteq Elements(items) BY <1>3, <1>4
<1>6. \A e \in live \ {top} : e \in Entries /\ precedes(top, e) /\ top.at <= e.at
  <2>1. \A e \in live \ {top} : e \in Entries BY DEF ClockInv, ClockTyped
  <2> QED BY <1>2, <1>5, <2>1, LeqOrders
<1> QED BY <1>1, <1>2, <1>3, <1>4, <1>5, <1>6

LEMMA FireKeeps ==
  ASSUME ClockInv, Fire
  PROVE  ClockInv'
<1>1. /\ pc = "fire" /\ top.seq \notin cancelled /\ live' = live \ {top} /\ current' = top.at
      /\ top' = None /\ pc' = "ready" /\ (horizon' = None \/ horizon' = horizon)
      /\ UNCHANGED <<items, nextSeq, cancelled, i, returning>>
  BY DEF Fire, returns
<1>2. top # None /\ \A e \in Elements(items) : e.seq # top.seq
  BY <1>1 DEF ClockInv, Flow, Numbered
<1>3. ClockTyped' BY <1>1, FireIs, EntryIs DEF ClockInv, ClockTyped
<1>4. Flow' BY <1>1 DEF Flow
<1>5. Heaped' BY <1>1 DEF ClockInv, Heaped
<1>6. Numbered' BY <1>1 DEF ClockInv, Numbered
<1>7. PendingIsQueued'
  <2>1. Queued = Elements(items) \cup {top} /\ Queued' = Elements(items) BY <1>1, <1>2, QueuedIs
  <2>2. \A e : e \in live <=> e \in Queued /\ e.seq \notin cancelled BY <1>1, PendingIs DEF ClockInv
  <2>3. Distinct(items') BY <1>1 DEF ClockInv, Numbered
  <2>4. top \notin Elements(items) BY <1>2
  <2> QED BY <1>1, <2>1, <2>2, <2>3, <2>4, PendingIs
<1> QED BY <1>3, <1>4, <1>5, <1>6, <1>7 DEF ClockInv

LEMMA NextKeeps ==
  ASSUME ClockInv, [Next]_vars
  PROVE  ClockInv'
<1>1. CASE \E at \in Instants, work \in Works : schedule(at, work) BY <1>1, ScheduleKeeps
<1>2. CASE \E entry \in live : cancel(entry) BY <1>2, CancelKeeps
<1>3. CASE Rise BY <1>3, RiseKeeps
<1>4. CASE Scheduled BY <1>4, ScheduledKeeps
<1>5. CASE Sink BY <1>5, SinkKeeps
<1>6. CASE Sunk BY <1>6, SunkKeeps
<1>7. CASE Dropped BY <1>7, DroppedKeeps
<1>8. CASE PopNext BY <1>8, PopNextKeeps
<1>9. CASE Drained BY <1>9, DrainedKeeps
<1>10. CASE Skip BY <1>10, SkipKeeps
<1>11. CASE Fire BY <1>11, FireKeeps
<1>12. CASE Arrive BY <1>12, ArriveKeeps
<1>13. CASE \/ nextAt \/ Peeked \/ Settled \/ Thrown
            \/ \E target \in Instants \cup {Forever} : advanceTo(target)
  BY <1>13, CallsKeep
<1>14. CASE UNCHANGED vars
  <2>1. UNCHANGED <<current, items, nextSeq, live, cancelled, horizon, returning, pc, i, top>> BY <1>14 DEF vars, returns
  <2>2. ClockTyped' /\ Flow' /\ Heaped'
    BY <2>1 DEF ClockInv, ClockTyped, Flow, Heaped
  <2>3. Numbered' BY <2>1 DEF ClockInv, Numbered
  <2>4. PendingIsQueued' BY <2>1 DEF ClockInv, PendingIsQueued, Queued
  <2> QED BY <2>2, <2>3, <2>4 DEF ClockInv
<1> QED BY <1>1, <1>2, <1>3, <1>4, <1>5, <1>6, <1>7, <1>8, <1>9, <1>10, <1>11, <1>12, <1>13, <1>14 DEF Next

\* What is alive is in the heap, once and unmarked, whatever is scheduled and
\* cancelled while a drain goes on: "pending" of VirtualClock counts what is
\* still to run.
THEOREM PendingIsRight == Spec => []PendingIsQueued
<1>1. Init => ClockInv BY InitKeeps
<1>2. ClockInv /\ [Next]_vars => ClockInv' BY NextKeeps
<1>3. ClockInv => PendingIsQueued BY DEF ClockInv
<1> QED BY <1>1, <1>2, <1>3, PTL DEF Spec

-----------------------------------------------------------------------------
(* What the time may pass over *)

\* What is alive, or is about to be.
Coming == live \cup (IF pc = "up" THEN {items[i]} ELSE {})

\* What an advanceTo that is yet to return will pass over was scheduled early.
Noticed == \A e \in Coming : Awaited(e.at) => e \in early

EarlyInv == Noticed /\ NothingOverdue

\* A step that leaves the time and the returns alone, and adds no task.
LEMMA EarlyStays ==
  ASSUME EarlyInv, UNCHANGED <<current, returning>>, Coming' \subseteq Coming, live' \subseteq live,
         \A e \in Coming' : e \in early => e \in early'
  PROVE  EarlyInv'
<1>1. live' \subseteq Coming' BY DEF Coming
<1>2. Noticed' BY DEF EarlyInv, Noticed, Awaited
<1>3. NothingOverdue' BY <1>1 DEF EarlyInv, NothingOverdue
<1> QED BY <1>2, <1>3 DEF EarlyInv

LEMMA QuietIsEarly ==
  ASSUME ClockInv, EarlyInv,
         \/ Rise \/ Sink \/ Sunk \/ nextAt \/ Dropped \/ Peeked
         \/ PopNext \/ Skip \/ Settled \/ Thrown
         \/ \E target \in Instants \cup {Forever} : advanceTo(target)
         \/ UNCHANGED vars
  PROVE  EarlyInv'
<1>1. CASE Rise
  <2>1. /\ pc = "up" /\ i > 1 /\ i' = i \div 2 /\ UNCHANGED <<current, live, returning, early, pc>>
        /\ items' = [items EXCEPT ![i] = items[i \div 2], ![i \div 2] = items[i]]
    BY <1>1 DEF Rise, Rises, Swapped, returns
  <2>2. items \in Seq(Entries) /\ RisingAt(items, i) BY <2>1 DEF ClockInv, ClockTyped, Heaped
  <2>3. i \in 1..Len(items) /\ i \div 2 \in 1..Len(items) /\ i # i \div 2
    BY <2>1, <2>2, HeapIs DEF RisingAt, Skipping
  <2>4. items'[i'] = items[i] BY <2>1, <2>2, <2>3
  <2>5. Coming' = Coming BY <2>1, <2>4 DEF Coming
  <2> QED BY <2>1, <2>5, EarlyStays
<1>2. ASSUME pc # "up", pc' # "up", UNCHANGED <<current, live, returning, early>> PROVE EarlyInv'
  <2>1. Coming' = Coming BY <1>2 DEF Coming
  <2> QED BY <1>2, <2>1, EarlyStays
<1>3. CASE Sink \/ Sunk BY <1>2, <1>3 DEF Sink, Sunk, Returned, returns
<1>4. CASE nextAt \/ Peeked BY <1>2, <1>4 DEF nextAt, Peeked, MayCall, returns
<1>5. CASE Dropped BY <1>2, <1>5 DEF Dropped, Pop, Returned, returns
<1>6. CASE PopNext BY <1>2, <1>6 DEF PopNext, Pop, Returned, returns
<1>7. CASE Skip \/ Settled \/ Thrown BY <1>2, <1>7 DEF Skip, Settled, Thrown, returns
<1>8. CASE \E target \in Instants \cup {Forever} : advanceTo(target)
  BY <1>2, <1>8 DEF advanceTo, MayCall, returns
<1>9. CASE UNCHANGED vars
  <2>1. Coming' = Coming BY <1>9 DEF Coming, vars
  <2> QED BY <1>9, <2>1, EarlyStays DEF vars, returns
<1> QED BY <1>1, <1>3, <1>4, <1>5, <1>6, <1>7, <1>8, <1>9

LEMMA CallIsEarly ==
  ASSUME ClockInv, EarlyInv,
         \/ \E at \in Instants, work \in Works : schedule(at, work)
         \/ Scheduled
         \/ \E entry \in live : cancel(entry)
  PROVE  EarlyInv'
<1>1. ASSUME NEW at \in Instants, NEW work \in Works, schedule(at, work) PROVE EarlyInv'
  <2> DEFINE e == [at |-> at, seq |-> nextSeq, work |-> work]
  <2>1. /\ pc = "ready" /\ pc' = "up" /\ items' = Append(items, e) /\ i' = Len(items) + 1
        /\ early' = (IF Awaited(at) THEN early \cup {e} ELSE early)
        /\ UNCHANGED <<current, live, returning>>
    BY <1>1 DEF schedule, MayCall
  <2>2. items'[i'] = e /\ e.at = at
    <3>1. items \in Seq(Entries) BY DEF ClockInv, ClockTyped
    <3> QED BY <2>1, <3>1
  <2> HIDE DEF e
  <2>3. Coming = live /\ Coming' = live \cup {e} BY <2>1, <2>2 DEF Coming
  <2>4. \A t : Awaited(t)' <=> Awaited(t) BY <2>1 DEF Awaited
  <2>5. Noticed' BY <2>1, <2>2, <2>3, <2>4 DEF EarlyInv, Noticed
  <2>6. NothingOverdue' BY <2>1 DEF EarlyInv, NothingOverdue
  <2> QED BY <2>5, <2>6 DEF EarlyInv
<1>2. CASE Scheduled
  <2>1. /\ pc = "up" /\ pc' = "ready" /\ live' = live \cup {items[i]}
        /\ UNCHANGED <<current, returning, early>>
    BY <1>2 DEF Scheduled, returns
  <2>2. items[i].at >= current BY <2>1 DEF ClockInv, Numbered
  <2>3. Coming' = Coming BY <2>1 DEF Coming
  <2>4. Noticed' BY <2>1, <2>3 DEF EarlyInv, Noticed, Awaited
  <2>5. NothingOverdue' BY <2>1, <2>2 DEF EarlyInv, NothingOverdue
  <2> QED BY <2>4, <2>5 DEF EarlyInv
<1>3. ASSUME NEW entry \in live, cancel(entry) PROVE EarlyInv'
  <2>1. /\ pc = "ready" /\ pc' = "ready" /\ live' = live \ {entry} /\ early' = early \ {entry}
        /\ UNCHANGED <<current, returning>>
    BY <1>3 DEF cancel, MayCall, Without
  <2>2. Coming' = live \ {entry} /\ Coming = live BY <2>1 DEF Coming
  <2> QED BY <2>1, <2>2, EarlyStays
<1> QED BY <1>1, <1>2, <1>3

LEMMA FireIsEarly ==
  ASSUME ClockInv, EarlyInv, Fire
  PROVE  EarlyInv' /\ (current' >= current \/ top \in early)
<1>1. /\ pc' = "ready" /\ live' = live \ {top} /\ early' = early \ {top} /\ current' = top.at
      /\ UNCHANGED returning
  BY DEF Fire
<1>2. Coming' = live \ {top} /\ live \subseteq Coming BY <1>1 DEF Coming
<1>3. Noticed'
  <2>1. \A t : Awaited(t)' <=> Awaited(t) BY <1>1 DEF Awaited
  <2> QED BY <1>1, <1>2, <2>1 DEF EarlyInv, Noticed
<1>4. NothingOverdue'
  <2>1. \A e \in live \ {top} : e.at \in Int /\ top.at \in Int /\ top.at <= e.at BY FireIs, EntryIs
  <2> QED BY <1>1, <2>1 DEF NothingOverdue
<1>5. current' >= current \/ top \in early BY <1>1, FireIs DEF EarlyInv, NothingOverdue
<1> QED BY <1>3, <1>4, <1>5 DEF EarlyInv

\* The tasks that are left when a drain is over are beyond its target.
LEMMA DrainedIsEarly ==
  ASSUME ClockInv, EarlyInv, Drained
  PROVE  EarlyInv'
<1>1. /\ pc = "drain" /\ pc' = "ready" /\ UNCHANGED <<current, live, early>>
      /\ returning' = (IF horizon = Forever THEN returning ELSE Append(returning, horizon))
  BY DEF Drained
<1>2. Coming' = live /\ Coming = live BY <1>1 DEF Coming
<1>3. CASE horizon = Forever
  BY <1>1, <1>2, <1>3, EarlyStays
<1>4. CASE horizon # Forever
  <2>1. horizon \in Instants /\ \A e \in live : e.at > horizon BY <1>4, DrainedIs
  <2>2. returning \in Seq(Instants) /\ returning' = Append(returning, horizon)
    BY <1>1, <1>4 DEF ClockInv, ClockTyped
  <2>3. \A k \in DOMAIN returning' :
          returning'[k] = horizon \/ (k \in DOMAIN returning /\ returning'[k] = returning[k])
    BY <2>1, <2>2
  <2>4. ASSUME NEW e \in live, Awaited(e.at)' PROVE e \in early
    <3>1. PICK k \in DOMAIN returning' : e.at <= returning'[k] BY <1>1, <2>4 DEF Awaited
    <3>2. e.at \in Int /\ horizon \in Int
      BY <2>1, EntryIs, NoneIsNone DEF ClockInv, ClockTyped
    <3>3. returning'[k] # horizon BY <2>1, <3>1, <3>2
    <3>4. Awaited(e.at) BY <2>3, <3>1, <3>3 DEF Awaited
    <3> QED BY <1>2, <3>4 DEF EarlyInv, Noticed
  <2>5. Noticed' BY <1>1, <1>2, <2>4 DEF Noticed
  <2>6. NothingOverdue' BY <1>1 DEF EarlyInv, NothingOverdue
  <2> QED BY <2>5, <2>6 DEF EarlyInv
<1> QED BY <1>3, <1>4

\* The time passes over nothing but what was scheduled early.
LEMMA ArriveIsEarly ==
  ASSUME ClockInv, EarlyInv, Arrive
  PROVE  /\ EarlyInv' /\ current' >= current
         /\ current' # current => PassesOver
<1>1. current \in Int /\ returning[1] \in Int /\ live \subseteq Entries
  BY ArriveIs, NoneIsNone DEF ClockInv, ClockTyped
<1>2. Coming' = live /\ Coming = live BY ArriveIs DEF Coming
<1>3. ASSUME NEW e \in live, e.at <= returning[1] PROVE e \in early
  <2>1. Awaited(e.at) BY <1>3, ArriveIs DEF Awaited
  <2> QED BY <1>2, <2>1 DEF EarlyInv, Noticed
<1>4. \A e \in live : e.at \in Int BY <1>1, EntryIs
<1>5. Noticed'
  <2>1. ASSUME NEW e \in live, Awaited(e.at)' PROVE e \in early
    <3>1. PICK k \in DOMAIN returning' : e.at <= returning'[k] BY <2>1, ArriveIs DEF Awaited
    <3>2. Awaited(e.at) BY <3>1, ArriveIs DEF Awaited
    <3> QED BY <1>2, <3>2 DEF EarlyInv, Noticed
  <2> QED BY <1>2, <2>1, ArriveIs DEF Noticed
<1>6. NothingOverdue' BY <1>1, <1>3, <1>4, ArriveIs DEF EarlyInv, NothingOverdue
<1>7. current' >= current BY <1>1, ArriveIs
<1>8. ASSUME current' # current PROVE PassesOver
  <2>1. current' = returning[1] BY <1>8, ArriveIs
  <2> QED BY <1>1, <1>3, <1>4, <2>1 DEF PassesOver
<1> QED BY <1>5, <1>6, <1>7, <1>8 DEF EarlyInv

LEMMA NextIsEarly ==
  ASSUME ClockInv, EarlyInv, [Next]_vars
  PROVE  EarlyInv' /\ (current' >= current \/ (Fire /\ top \in early))
<1>1. CASE Fire BY <1>1, FireIsEarly
<1>2. CASE Arrive BY <1>2, ArriveIsEarly
<1>3. CASE ~Fire /\ ~Arrive
  <2>1. current' = current
    BY <1>3 DEF Next, schedule, cancel, advanceTo, Rise, Scheduled, Sink, Sunk, nextAt,
       Dropped, Peeked, PopNext, Pop, Drained, Skip, Settled, Thrown, vars
  <2>2. current' >= current
    <3>1. current \in Int BY NoneIsNone DEF ClockInv, ClockTyped
    <3> QED BY <2>1, <3>1
  <2>3. EarlyInv' BY <1>3, QuietIsEarly, CallIsEarly, DrainedIsEarly DEF Next
  <2> QED BY <2>2, <2>3
<1> QED BY <1>1, <1>2, <1>3

LEMMA InitIsEarly == Init => EarlyInv
BY DEF Init, EarlyInv, Noticed, NothingOverdue, Coming

\* Neither a drain nor the return of advanceTo sets the clock back, unless a
\* task was scheduled between the end of a drain and the return of its advanceTo,
\* for no later than its target; and then only to run that task.
THEOREM TimeGoesForward == Spec => OnlyForward
<1>1. Init => ClockInv /\ EarlyInv BY InitKeeps, InitIsEarly
<1>2. ClockInv /\ EarlyInv /\ [Next]_vars
        => ClockInv' /\ EarlyInv' /\ [current' >= current \/ (Fire /\ top \in early)]_vars
  BY NextKeeps, NextIsEarly
<1> QED BY <1>1, <1>2, PTL DEF Spec, OnlyForward

-----------------------------------------------------------------------------
(* The heap keeps the agenda, step by step *)

Noted(e) == [at |-> e.at, turn |-> e.seq, work |-> e.work]

Notes(L) == {Noted(e) : e \in L}

Turn == IF pc = "up" THEN nextSeq - 1 ELSE nextSeq

LEMMA NotesAre ==
  ASSUME NEW L \in SUBSET Entries, NEW e \in Entries
  PROVE  /\ Notes(L \cup {e}) = Notes(L) \cup {Noted(e)}
         /\ Notes(L \ {e}) = Notes(L) \ {Noted(e)}
         /\ e \in L => Noted(e) \in Notes(L)
<1>1. \A f \in L : Noted(f) = Noted(e) => f = e
  <2> SUFFICES ASSUME NEW f \in L, Noted(f) = Noted(e) PROVE f = e OBVIOUS
  <2>1. f.at = e.at /\ f.seq = e.seq /\ f.work = e.work
    <3>1. Noted(f).at = Noted(e).at /\ Noted(f).turn = Noted(e).turn /\ Noted(f).work = Noted(e).work
      OBVIOUS
    <3> QED BY <3>1 DEF Noted
  <2>2. f \in Entries OBVIOUS
  <2> QED BY <2>1, <2>2 DEF Entries
<1>2. Notes(L \cup {e}) = Notes(L) \cup {Noted(e)} BY DEF Notes
<1>3. Notes(L \ {e}) = Notes(L) \ {Noted(e)} BY <1>1 DEF Notes
<1>4. e \in L => Noted(e) \in Notes(L) BY DEF Notes
<1> QED BY <1>2, <1>3, <1>4

LEMMA AgendaIs ==
  /\ {[at |-> e.at, turn |-> e.seq, work |-> e.work] : e \in live} = Notes(live)
  /\ {[at |-> e.at, turn |-> e.seq, work |-> e.work] : e \in live}' = Notes(live')
  /\ Turn = (IF pc = "up" THEN nextSeq - 1 ELSE nextSeq)
  /\ Turn' = (IF pc' = "up" THEN nextSeq' - 1 ELSE nextSeq')
BY DEF Notes, Noted, Turn

LEMMA ScheduledNotes ==
  ASSUME ClockInv, Scheduled
  PROVE  Agenda!Next
<1>1. /\ pc = "up" /\ live' = live \cup {items[i]} /\ pc' = "ready"
      /\ UNCHANGED <<current, nextSeq>>
  BY DEF Scheduled
<1>2. /\ items \in Seq(Entries) /\ RisingAt(items, i)
      /\ items[i].seq = nextSeq - 1 /\ items[i].at >= current
  BY <1>1 DEF ClockInv, ClockTyped, Heaped, Numbered
<1>3. PICK e \in Entries : e = items[i] BY <1>2, HeapIs DEF RisingAt, Skipping
<1>4. e.at \in Instants /\ e.work \in Works BY EntryIs
<1>5. Notes(live') = Notes(live) \cup {Noted(e)} BY <1>1, <1>3, NotesAre DEF ClockInv, ClockTyped
<1>6. Turn = e.seq /\ Turn' = Turn + 1 BY <1>1, <1>2, <1>3 DEF Turn, ClockInv, ClockTyped
<1>7. Noted(e) = [at |-> e.at, turn |-> Turn, work |-> e.work] BY <1>6 DEF Noted
<1>8. Agenda!Schedule(e.at, e.work)
  <2>1. e.at >= current /\ current' = current BY <1>1, <1>2, <1>3
  <2>2. /\ (IF pc = "up" THEN nextSeq - 1 ELSE nextSeq) = Turn
        /\ (IF pc = "up" THEN nextSeq - 1 ELSE nextSeq)' = Turn + 1
    BY <1>6, AgendaIs
  <2>3. {[at |-> f.at, turn |-> f.seq, work |-> f.work] : f \in live}'
          = {[at |-> f.at, turn |-> f.seq, work |-> f.work] : f \in live}
            \cup {[at |-> e.at, turn |-> Turn, work |-> e.work]}
    BY <1>5, <1>7, AgendaIs, Zenon
  <2> QED BY <2>1, <2>2, <2>3, Zenon DEF Agenda!Schedule, Agenda!Task
<1> QED BY <1>4, <1>8 DEF Agenda!Next

LEMMA CancelNotes ==
  ASSUME ClockInv, NEW entry \in live, cancel(entry)
  PROVE  Agenda!Next
<1>1. pc = "ready" /\ pc' = "ready" /\ live' = live \ {entry} /\ UNCHANGED <<current, nextSeq>>
  BY DEF cancel, MayCall, Without
<1>2. live \in SUBSET Entries /\ entry \in Entries BY DEF ClockInv, ClockTyped
<1>3. Notes(live') = Notes(live) \ {Noted(entry)} /\ Noted(entry) \in Notes(live)
  BY <1>1, <1>2, NotesAre
<1>4. Turn' = Turn BY <1>1 DEF Turn
<1>5. Agenda!Cancel(Noted(entry)) BY <1>1, <1>3, <1>4, AgendaIs DEF Agenda!Cancel
<1> QED BY <1>3, <1>5, AgendaIs DEF Agenda!Next

LEMMA FireNotes ==
  ASSUME ClockInv, Fire
  PROVE  Agenda!Next
<1>1. /\ pc = "fire" /\ pc' = "ready" /\ live' = live \ {top} /\ current' = top.at
      /\ nextSeq' = nextSeq
  BY DEF Fire
<1>2. PICK e \in Entries : e = top BY FireIs
<1>3. live \in SUBSET Entries /\ e \in live BY <1>2, FireIs DEF ClockInv, ClockTyped
<1>4. Notes(live') = Notes(live) \ {Noted(e)} /\ Noted(e) \in Notes(live)
  BY <1>1, <1>2, <1>3, NotesAre
<1>5. ASSUME NEW other \in Notes(live) \ {Noted(e)} PROVE Agenda!Precedes(Noted(e), other)
  <2>1. PICK f \in live \ {e} : other = Noted(f) BY <1>5 DEF Notes
  <2>2. precedes(e, f) BY <1>2, FireIs
  <2> QED BY <2>1, <2>2 DEF Noted, precedes, Agenda!Precedes
<1>6. Agenda!Run(Noted(e))
  <2>1. \A other \in {[at |-> f.at, turn |-> f.seq, work |-> f.work] : f \in live} \ {Noted(e)} :
          Agenda!Precedes(Noted(e), other)
    BY <1>5, AgendaIs, Zenon
  <2>2. {[at |-> f.at, turn |-> f.seq, work |-> f.work] : f \in live}'
          = {[at |-> f.at, turn |-> f.seq, work |-> f.work] : f \in live} \ {Noted(e)}
    BY <1>4, AgendaIs, Zenon
  <2>3. (IF pc = "up" THEN nextSeq - 1 ELSE nextSeq)' = (IF pc = "up" THEN nextSeq - 1 ELSE nextSeq)
    BY <1>1
  <2>4. current' = Noted(e).at BY <1>1, <1>2 DEF Noted
  <2> QED BY <2>1, <2>2, <2>3, <2>4, Zenon DEF Agenda!Run
<1> QED BY <1>4, <1>6, AgendaIs DEF Agenda!Next

LEMMA ArriveNotes ==
  ASSUME ClockInv, EarlyInv, Arrive
  PROVE  PassesOver \/ UNCHANGED <<current, live, Turn>>
<1>1. CASE current' # current BY <1>1, ArriveIsEarly
<1>2. CASE current' = current BY <1>2, ArriveIs DEF Turn
<1> QED BY <1>1, <1>2

\* What moves the heap about, or only looks at it.
LEMMA StepStutters ==
  ASSUME ClockInv,
         \/ \E at \in Instants, work \in Works : schedule(at, work)
         \/ \E target \in Instants \cup {Forever} : advanceTo(target)
         \/ Rise \/ Sink \/ Sunk \/ nextAt \/ Dropped \/ Peeked
         \/ PopNext \/ Skip \/ Settled \/ Thrown
         \/ Drained \/ UNCHANGED vars
  PROVE  UNCHANGED <<current, live, Turn>>
<1>1. CASE \E at \in Instants, work \in Works : schedule(at, work)
  BY <1>1 DEF schedule, MayCall, Turn, ClockInv, ClockTyped
<1>2. CASE \E target \in Instants \cup {Forever} : advanceTo(target)
  BY <1>2 DEF advanceTo, MayCall, Turn
<1>3. CASE Rise \/ Sink BY <1>3 DEF Rise, Sink, Turn
<1>4. CASE Sunk BY <1>4 DEF Sunk, Returned, Turn
<1>5. CASE nextAt \/ Peeked BY <1>5 DEF nextAt, Peeked, MayCall, Turn
<1>6. CASE Dropped BY <1>6 DEF Dropped, Pop, Returned, Turn
<1>7. CASE PopNext BY <1>7 DEF PopNext, Pop, Returned, Turn
<1>8. CASE Skip \/ Settled \/ Thrown BY <1>8 DEF Skip, Settled, Thrown, Turn
<1>9. CASE Drained BY <1>9 DEF Drained, Turn
<1>10. CASE UNCHANGED vars BY <1>10 DEF vars, Turn
<1> QED BY <1>1, <1>2, <1>3, <1>4, <1>5, <1>6, <1>7, <1>8, <1>9, <1>10

\* The clock keeps the agenda of Agenda, which Scenario runs on: the tasks that
\* are alive run in the order of their instants, and of their numbers at one
\* instant, and time passes over none of them, however "push", "pop" and
\* "cancel" move and mark the entries of the heap; but for a task that was
\* scheduled while an advanceTo whose drain was over had yet to return.
THEOREM ClockKeepsAgenda == Spec => ImplementsAgenda
<1> DEFINE Seen == <<current, {[at |-> e.at, turn |-> e.seq, work |-> e.work] : e \in live},
                     IF pc = "up" THEN nextSeq - 1 ELSE nextSeq>>
<1>1. Init => ClockInv /\ EarlyInv BY InitKeeps, InitIsEarly
<1>2. ClockInv /\ EarlyInv /\ [Next]_vars => ClockInv' /\ EarlyInv' BY NextKeeps, NextIsEarly
<1>3. Init => Agenda!Init BY DEF Init, Agenda!Init
<1>4. ClockInv /\ EarlyInv /\ [Next]_vars => [Agenda!Next \/ PassesOver]_Seen
  <2> SUFFICES ASSUME ClockInv, EarlyInv, [Next]_vars
               PROVE  Agenda!Next \/ PassesOver \/ UNCHANGED Seen
    OBVIOUS
  <2>1. CASE Scheduled BY <2>1, ScheduledNotes
  <2>2. CASE \E entry \in live : cancel(entry) BY <2>2, CancelNotes
  <2>3. CASE Fire BY <2>3, FireNotes
  <2>4. ASSUME UNCHANGED <<current, live, Turn>> PROVE UNCHANGED Seen BY <2>4, AgendaIs
  <2>5. CASE Arrive BY <2>4, <2>5, ArriveNotes
  <2>6. CASE \/ \E at \in Instants, work \in Works : schedule(at, work)
             \/ \E target \in Instants \cup {Forever} : advanceTo(target)
             \/ Rise \/ Sink \/ Sunk \/ nextAt \/ Dropped \/ Peeked
             \/ PopNext \/ Skip \/ Settled \/ Thrown
             \/ Drained \/ UNCHANGED vars
    BY <2>4, <2>6, StepStutters
  <2> QED BY <2>1, <2>2, <2>3, <2>5, <2>6 DEF Next
<1> QED BY <1>1, <1>2, <1>3, <1>4, PTL DEF Spec, ImplementsAgenda, Agenda!vars

=============================================================================
