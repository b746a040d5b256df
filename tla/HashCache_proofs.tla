-------------------------- MODULE HashCache_proofs --------------------------
(***************************************************************************)
(* Proofs about HashCache: for a table of any size and any slots, more     *)
(* than the table can hold included, the open-addressed table finds what   *)
(* the flash index holds, across cluster repair, except what it refused,   *)
(* and a directory listing misses no file.                                 *)
(***************************************************************************)
EXTENDS HashCache, WellFoundedInduction, TLAPS

Entry == [slot : Slots \cup {0}, head : Heads \cup {0}]

\* A bucket with an entry of the namespace: the bucket that remove_bucket_at
\* is about to refill is not one.
Holds(b) == table[b].slot # 0 /\ ~(pc = "repair" /\ b = hole)

\* Bucket c lies before bucket b on the probe path of slot s.
Before(s, c, b) == ProbeDistance(Home(s), c) < ProbeDistance(Home(s), b)

\* Every live slot but the refused ones has exactly one bucket, which holds its
\* head; during a removal the bucket being refilled does not count.
Placed ==
  /\ \A s \in CachedSlots : \E b \in Buckets : Holds(b) /\ table[b].slot = s
  /\ \A b \in Buckets : Holds(b) => /\ table[b].head # 0 /\ live[table[b].slot] = table[b].head
                                    /\ table[b].slot \notin refused
  /\ \A b, c \in Buckets : Holds(b) /\ Holds(c) /\ table[b].slot = table[c].slot => b = c

\* No empty bucket interrupts the probe path from an entry's home to it.
Reached ==
  \A b \in Buckets : Holds(b) =>
    \A c \in Buckets : Before(table[b].slot, c, b) => table[c].slot # 0

Full == \A b \in Buckets : table[b].slot # 0

\* remove_bucket_at: from the hole up to the bucket it examines there is no
\* empty bucket and no entry that would be reached through the hole.  In a
\* full table the loop goes round without an end, and nothing is promised.
Repairing ==
  pc = "repair" =>
    /\ table[hole].slot # 0
    /\ \/ Full
       \/ /\ hole # idx
          /\ \A c \in Buckets : ProbeDistance(hole, c) < ProbeDistance(hole, idx) =>
                /\ table[c].slot # 0
                /\ c # hole => ~Before(table[c].slot, hole, c)

\* What an open iterator still has to report lies at or behind its position.
Ahead ==
  \A s \in due : \E b \in Buckets : b >= pos /\ table[b].slot = s

\* The inductive invariant.
IInv ==
  /\ TypeOK /\ Placed /\ Reached /\ Repairing /\ Ahead
  /\ pc = "repair" => due = {}
-----------------------------------------------------------------------------
(* Arithmetic on the circle of buckets. *)

\* The table has a bucket.
LEMMA TableSizeType == TableSize \in Nat \ {0}
BY TableSizeAssumption, Zenon

\* bucket_for gives a bucket of the table.
LEMMA HomeType ==
  ASSUME NEW s \in Slots
  PROVE  Home(s) \in Buckets
<1>1. s \in Nat
  BY SlotsAssumption
<1> QED  BY <1>1, TableSizeType DEF Home, Buckets

\* probe_distance without the wrap-around.
LEMMA DistanceIs ==
  ASSUME NEW a \in Buckets, NEW b \in Buckets
  PROVE  /\ ProbeDistance(a, b) = IF a <= b THEN b - a ELSE b - a + TableSize
         /\ ProbeDistance(a, b) \in Buckets
<1>1. CASE a <= b
  <2>1. b - a \in 0..(TableSize - 1)
    BY <1>1, TableSizeType DEF Buckets
  <2>2. (b - a) % TableSize = b - a
    BY <2>1, TableSizeType
  <2> QED  BY <1>1, <2>1, <2>2 DEF ProbeDistance, Buckets
<1>2. CASE ~(a <= b)
  <2>1. b - a \in (-TableSize)..(-1) /\ b - a + TableSize \in 0..(TableSize - 1)
    BY <1>2, TableSizeType DEF Buckets
  <2>2. (b - a) % TableSize = b - a + TableSize
    BY <2>1, TableSizeType
  <2> QED  BY <1>2, <2>1, <2>2 DEF ProbeDistance, Buckets
<1> QED  BY <1>1, <1>2

\* The k-th probe of a slot without the wrap-around.
LEMMA BucketIs ==
  ASSUME NEW s \in Slots, NEW k \in Buckets
  PROVE  /\ Bucket(s, k) = IF Home(s) + k < TableSize THEN Home(s) + k ELSE Home(s) + k - TableSize
         /\ Bucket(s, k) \in Buckets
<1> DEFINE a == Home(s)
<1>1. a \in Buckets
  BY HomeType
<1> HIDE DEF a
<1>2. (a + k) % TableSize = IF a + k < TableSize THEN a + k ELSE a + k - TableSize
  BY <1>1, TableSizeType DEF Buckets
<1>3. Bucket(s, k) = (a + k) % TableSize
  BY DEF Bucket, a
<1>4. Bucket(s, k) \in Buckets
  BY <1>1, <1>2, <1>3, TableSizeType DEF Buckets
<1> QED  BY <1>2, <1>3, <1>4 DEF a

\* A bucket and its distance from the home of a slot determine each other.
LEMMA BucketAtDistance ==
  ASSUME NEW s \in Slots
  PROVE  /\ \A k \in Buckets : ProbeDistance(Home(s), Bucket(s, k)) = k
         /\ \A b \in Buckets : Bucket(s, ProbeDistance(Home(s), b)) = b
<1>1. Home(s) \in Buckets
  BY HomeType
<1>2. ASSUME NEW k \in Buckets
      PROVE  ProbeDistance(Home(s), Bucket(s, k)) = k
  <2>1. Bucket(s, k) \in Buckets
    BY BucketIs
  <2>2. Bucket(s, k) = IF Home(s) + k < TableSize THEN Home(s) + k ELSE Home(s) + k - TableSize
    BY BucketIs
  <2>3. ProbeDistance(Home(s), Bucket(s, k)) =
          IF Home(s) <= Bucket(s, k) THEN Bucket(s, k) - Home(s) ELSE Bucket(s, k) - Home(s) + TableSize
    BY <1>1, <2>1, DistanceIs
  <2> QED  BY <1>1, <2>2, <2>3, TableSizeType DEF Buckets
<1>3. ASSUME NEW b \in Buckets
      PROVE  Bucket(s, ProbeDistance(Home(s), b)) = b
  <2>1. ProbeDistance(Home(s), b) \in Buckets
    BY <1>1, DistanceIs
  <2> DEFINE d == ProbeDistance(Home(s), b)
  <2>2. d = IF Home(s) <= b THEN b - Home(s) ELSE b - Home(s) + TableSize
    BY <1>1, DistanceIs
  <2>3. Bucket(s, d) = IF Home(s) + d < TableSize THEN Home(s) + d ELSE Home(s) + d - TableSize
    BY <2>1, BucketIs
  <2> HIDE DEF d
  <2>4. Bucket(s, d) = b
    BY <1>1, <2>2, <2>3, TableSizeType DEF Buckets
  <2> QED  BY <2>4 DEF d
<1> QED  BY <1>2, <1>3

\* Distances on the circle: they separate buckets and add up along a path.
LEMMA DistanceFacts ==
  ASSUME NEW a \in Buckets, NEW b \in Buckets, NEW c \in Buckets
  PROVE  /\ ProbeDistance(a, a) = 0
         /\ ProbeDistance(a, b) = ProbeDistance(a, c) => b = c
         /\ ProbeDistance(a, b) < ProbeDistance(a, c) =>
              ProbeDistance(a, c) = ProbeDistance(a, b) + ProbeDistance(b, c)
         /\ ProbeDistance(a, b) + ProbeDistance(b, c) < TableSize =>
              ProbeDistance(a, c) = ProbeDistance(a, b) + ProbeDistance(b, c)
<1> DEFINE d(x, y) == IF x <= y THEN y - x ELSE y - x + TableSize
<1>1. /\ ProbeDistance(a, a) = d(a, a) /\ ProbeDistance(a, b) = d(a, b)
      /\ ProbeDistance(a, c) = d(a, c) /\ ProbeDistance(b, c) = d(b, c)
  BY DistanceIs
<1> QED  BY <1>1, TableSizeType DEF Buckets

\* The position of a bucket on the probe path of a slot.
LEMMA PathDistance ==
  ASSUME NEW s \in Slots, NEW b \in Buckets
  PROVE  ProbeDistance(Home(s), b) \in Nat /\ ProbeDistance(Home(s), b) \in Buckets
<1>1. ProbeDistance(Home(s), b) \in Buckets
  BY HomeType, DistanceIs
<1> QED  BY <1>1 DEF Buckets

\* The bucket after b, (b + 1) & mask.
LEMMA NextBucket ==
  ASSUME NEW a \in Buckets, NEW b \in Buckets
  PROVE  LET n == (b + 1) % TableSize
         IN  /\ n \in Buckets
             /\ n # a => ProbeDistance(a, n) = ProbeDistance(a, b) + 1
             /\ n = a => ProbeDistance(a, b) = TableSize - 1
<1>1. (b + 1) % TableSize = IF b + 1 < TableSize THEN b + 1 ELSE 0
  BY TableSizeType DEF Buckets
<1>2. (b + 1) % TableSize \in Buckets
  BY <1>1, TableSizeType DEF Buckets
<1> DEFINE n == (b + 1) % TableSize
           d(x, y) == IF x <= y THEN y - x ELSE y - x + TableSize
<1>3. ProbeDistance(a, b) = d(a, b) /\ ProbeDistance(a, n) = d(a, n)
  BY <1>2, DistanceIs
<1>4. n = IF b + 1 < TableSize THEN b + 1 ELSE 0
  BY <1>1
<1> HIDE DEF n
<1>5. /\ n # a => ProbeDistance(a, n) = ProbeDistance(a, b) + 1
      /\ n = a => ProbeDistance(a, b) = TableSize - 1
  BY <1>3, <1>4, TableSizeType DEF Buckets
<1> QED  BY <1>2, <1>5 DEF n

\* Every nonempty set of natural numbers has a least element.
LEMMA LeastElement ==
  ASSUME NEW S \in SUBSET Nat, S # {}
  PROVE  \E m \in S : \A n \in S : m <= n
<1> DEFINE R == {ss \in Nat \X Nat : ss[1] < ss[2]}
<1>1. IsWellFoundedOn(R, Nat)
  BY NatLessThanWellFounded DEF OpToRel
<1> HIDE DEF R
<1>2. PICK m \in S : \A n \in S : ~(<<n, m>> \in R)
  BY <1>1, WFMin, Zenon
<1>3. \A n \in S : ~(n < m)
  BY <1>2, Zenon DEF R
<1> QED  BY <1>3

\* What find_slot_bucket returns: the first bucket on the probe path of s that
\* is empty or holds s.
LEMMA FindBucketIs ==
  ASSUME NEW t \in [Buckets -> Entry], NEW s \in Slots
  PROVE  /\ Stops(t, s) = {} <=> \A b \in Buckets : t[b].slot \notin {0, s}
         /\ Stops(t, s) # {} =>
              /\ FindBucket(t, s) \in Buckets
              /\ t[FindBucket(t, s)].slot \in {0, s}
              /\ \A c \in Buckets : Before(s, c, FindBucket(t, s)) => t[c].slot \notin {0, s}
<1>1. Stops(t, s) = {} <=> \A b \in Buckets : t[b].slot \notin {0, s}
  <2>1. \A b \in Buckets : ProbeDistance(Home(s), b) \in Buckets
    BY HomeType, DistanceIs
  <2> QED  BY <2>1, BucketIs, BucketAtDistance DEF Stops
<1>2. ASSUME Stops(t, s) # {}
      PROVE  /\ FindBucket(t, s) \in Buckets
             /\ t[FindBucket(t, s)].slot \in {0, s}
             /\ \A c \in Buckets : Before(s, c, FindBucket(t, s)) => t[c].slot \notin {0, s}
  <2> DEFINE m == CHOOSE k \in Stops(t, s) : \A j \in Stops(t, s) : k <= j
  <2>1. Stops(t, s) \in SUBSET Nat
    BY DEF Stops, Buckets
  <2>2. m \in Stops(t, s) /\ \A j \in Stops(t, s) : m <= j
    BY <1>2, <2>1, LeastElement
  <2>3. FindBucket(t, s) = Bucket(s, m)
    BY DEF FindBucket
  <2> HIDE DEF m
  <2>4. m \in Buckets /\ t[Bucket(s, m)].slot \in {0, s}
    BY <2>2 DEF Stops
  <2>5. Bucket(s, m) \in Buckets /\ ProbeDistance(Home(s), Bucket(s, m)) = m
    BY <2>4, BucketIs, BucketAtDistance
  <2>6. ASSUME NEW c \in Buckets, ProbeDistance(Home(s), c) < m
        PROVE  t[c].slot \notin {0, s}
    <3> DEFINE k == ProbeDistance(Home(s), c)
    <3>1. k \in Buckets /\ Bucket(s, k) = c
      BY HomeType, DistanceIs, BucketAtDistance
    <3>2. k \notin Stops(t, s)
      BY <2>2, <2>4, <2>6, <3>1 DEF Buckets
    <3> QED  BY <3>1, <3>2 DEF Stops
  <2> QED  BY <2>3, <2>4, <2>5, <2>6 DEF Before
<1> QED  BY <1>1, <1>2
-----------------------------------------------------------------------------
(* The steps. *)

\* No entry has slot 0, and slots are numbers.
LEMMA EntryFacts ==
  ASSUME TypeOK
  PROVE  /\ table \in [Buckets -> Entry]
         /\ \A b \in Buckets : table[b].slot \in Slots \cup {0} /\ table[b].head \in Heads \cup {0}
         /\ 0 \notin Slots /\ 0 \notin Heads
         /\ CachedSlots \subseteq Slots
BY SlotsAssumption, HeadsAssumption DEF TypeOK, Entry, CachedSlots

\* Between calls find_slot_bucket finds a live slot in its bucket, and for any
\* other slot it finds an empty one or none.
LEMMA Found ==
  ASSUME IInv, pc = "idle", NEW s \in Slots
  PROVE  /\ s \in CachedSlots => Stops(table, s) # {} /\ table[FindBucket(table, s)].slot = s
         /\ s \notin CachedSlots /\ Stops(table, s) # {} => table[FindBucket(table, s)].slot = 0
<1> DEFINE f == FindBucket(table, s)
<1>1. \A b \in Buckets : Holds(b) <=> table[b].slot # 0
  BY DEF Holds
<1>2. table \in [Buckets -> Entry] /\ 0 \notin Slots
  BY EntryFacts DEF IInv
<1>3. CASE s \in CachedSlots
  <2>1. PICK b \in Buckets : table[b].slot = s
    BY <1>3 DEF IInv, Placed
  <2>2. Stops(table, s) # {}
    BY <1>2, <2>1, FindBucketIs
  <2>3. /\ f \in Buckets /\ table[f].slot \in {0, s}
        /\ \A c \in Buckets : Before(s, c, f) => table[c].slot \notin {0, s}
    BY <1>2, <2>2, FindBucketIs
  <2>4. ~Before(s, b, f)
    BY <2>1, <2>3
  <2>5. ~Before(s, f, b) \/ table[f].slot # 0
    BY <1>1, <1>2, <2>1, <2>3 DEF IInv, Reached
  <2>6. CASE ~Before(s, f, b)
    <3>1. ProbeDistance(Home(s), b) = ProbeDistance(Home(s), f)
      <4>1. ProbeDistance(Home(s), b) \in Buckets /\ ProbeDistance(Home(s), f) \in Buckets
        BY <2>3, HomeType, DistanceIs
      <4> QED  BY <2>4, <2>6, <4>1, TableSizeType DEF Before, Buckets
    <3>2. b = f
      BY <2>3, <3>1, HomeType, DistanceFacts
    <3> QED  BY <1>3, <2>1, <2>2, <3>2
  <2> QED  BY <1>3, <2>2, <2>3, <2>5, <2>6
<1>4. CASE s \notin CachedSlots /\ Stops(table, s) # {}
  <2>1. f \in Buckets /\ table[f].slot \in {0, s}
    BY <1>2, <1>4, FindBucketIs
  <2>2. table[f].slot # s
    BY <1>1, <1>2, <1>4, <2>1 DEF IInv, Placed, CachedSlots
  <2> QED  BY <1>4, <2>1, <2>2
<1> QED  BY <1>3, <1>4

\* The invariant holds at mount, when the table is empty.
LEMMA InitInv == Init => IInv
<1> SUFFICES ASSUME Init PROVE IInv
  OBVIOUS
<1>1. \A b \in Buckets : table[b] = Empty /\ table[b].slot = 0
  BY DEF Init, Empty
<1>2. TypeOK
  BY TableSizeType DEF Init, TypeOK, Empty, Buckets
<1>3. Placed /\ Reached
  BY <1>1 DEF Init, Placed, Reached, Holds, CachedSlots
<1>4. Repairing /\ Ahead
  BY DEF Init, Repairing, Ahead
<1> QED  BY <1>2, <1>3, <1>4 DEF IInv, Init
\* fffs_index_insert writes the first bucket on the probe path of s that is
\* empty or already its own.
LEMMA InsertInv ==
  ASSUME IInv, NEW s \in Slots, NEW h \in Heads, Insert(s, h), Stops(table, s) # {}
  PROVE  IInv'
<1> DEFINE f == FindBucket(table, s)
           e == [slot |-> s, head |-> h]
<1>1. TypeOK /\ pc = "idle" /\ UNCHANGED <<pc, hole, idx, pos, due>>
      /\ live' = [live EXCEPT ![s] = h]
  BY DEF Insert, IInv
<1>2. Stops(table, s) # {}
  OBVIOUS
<1>3. table' = [table EXCEPT ![f] = e] /\ refused' = refused \ {s}
  BY <1>2 DEF Insert
<1>4. table \in [Buckets -> Entry] /\ 0 \notin Slots /\ 0 \notin Heads /\ e \in Entry
  BY <1>1, EntryFacts DEF Entry
<1>5. /\ f \in Buckets /\ table[f].slot \in {0, s}
      /\ \A c \in Buckets : Before(s, c, f) => table[c].slot \notin {0, s}
  BY <1>2, <1>4, FindBucketIs
<1>6. s \in CachedSlots => table[f].slot = s
  BY <1>1, Found
<1> HIDE DEF f
<1>7. \A b \in Buckets : table'[b] = IF b = f THEN e ELSE table[b]
  BY <1>3, <1>4, <1>5
<1>8. \A r \in Slots : live'[r] = IF r = s THEN h ELSE live[r]
  BY <1>1 DEF TypeOK
<1>9. \A b \in Buckets : /\ Holds(b) <=> table[b].slot # 0
                         /\ Holds(b)' <=> table'[b].slot # 0
  BY <1>1 DEF Holds
<1>10. TypeOK'
  <2>1. table' \in [Buckets -> Entry]
    BY <1>3, <1>4, <1>5
  <2>2. live' \in [Slots -> Heads \cup {0}]
    BY <1>1 DEF TypeOK
  <2> QED  BY <1>1, <1>3, <2>1, <2>2 DEF TypeOK, Entry
<1>11. \A b \in Buckets : b # f => table[b].slot # s
  <2> SUFFICES ASSUME NEW b \in Buckets, b # f, table[b].slot = s
               PROVE  FALSE
    OBVIOUS
  <2>1. Holds(b) /\ live[s] # 0
    BY <1>4, <1>9 DEF IInv, Placed
  <2>2. table[f].slot = s /\ Holds(f)
    BY <1>4, <1>5, <1>6, <1>9, <2>1 DEF IInv, Placed, CachedSlots
  <2> QED  BY <1>5, <2>1, <2>2 DEF IInv, Placed
<1>12. Placed'
  <2>1. ASSUME NEW r \in CachedSlots'
        PROVE  \E b \in Buckets : Holds(b)' /\ table'[b].slot = r
    <3>1. CASE r = s
      BY <1>4, <1>5, <1>7, <1>9, <3>1
    <3>2. CASE r # s
      <4>1. r \in CachedSlots
        BY <1>3, <1>8, <3>2 DEF CachedSlots
      <4>2. PICK b \in Buckets : Holds(b) /\ table[b].slot = r
        BY <4>1 DEF IInv, Placed
      <4> QED  BY <1>4, <1>5, <1>7, <1>9, <3>2, <4>2
    <3> QED  BY <3>1, <3>2
  <2>2. ASSUME NEW b \in Buckets, Holds(b)'
        PROVE  /\ table'[b].head # 0 /\ live'[table'[b].slot] = table'[b].head
               /\ table'[b].slot \notin refused'
    <3>1. CASE b = f
      BY <1>3, <1>4, <1>7, <1>8, <3>1
    <3>2. CASE b # f
      <4>1. table'[b] = table[b] /\ Holds(b)
        BY <1>7, <1>9, <2>2, <3>2
      <4>2. table[b].slot \in Slots /\ table[b].slot # s
        BY <1>4, <1>9, <1>11, <3>2, <4>1 DEF Entry
      <4>3. table[b].head # 0 /\ live[table[b].slot] = table[b].head /\ table[b].slot \notin refused
        BY <4>1 DEF IInv, Placed
      <4> QED  BY <1>3, <1>8, <4>1, <4>2, <4>3
    <3> QED  BY <3>1, <3>2
  <2>3. ASSUME NEW b \in Buckets, NEW c \in Buckets, Holds(b)', Holds(c)',
               table'[b].slot = table'[c].slot
        PROVE  b = c
    BY <1>7, <1>9, <1>11, <2>3 DEF IInv, Placed
  <2> QED  BY <2>1, <2>2, <2>3 DEF Placed
<1>13. Reached'
  <2> SUFFICES ASSUME NEW b \in Buckets, Holds(b)',
                      NEW c \in Buckets, Before(table'[b].slot, c, b)
               PROVE  table'[c].slot # 0
    BY DEF Reached, Before
  <2>1. CASE c = f
    BY <1>4, <1>7, <2>1
  <2>2. CASE c # f /\ b = f
    BY <1>5, <1>7, <2>2
  <2>3. CASE c # f /\ b # f
    BY <1>7, <1>9, <2>3 DEF IInv, Reached
  <2> QED  BY <2>1, <2>2, <2>3
<1>14. Ahead'
  <2> SUFFICES ASSUME NEW r \in due
               PROVE  \E b \in Buckets : b >= pos /\ table'[b].slot = r
    BY <1>1 DEF Ahead
  <2>1. PICK b \in Buckets : b >= pos /\ table[b].slot = r
    BY DEF IInv, Ahead
  <2>2. r \in Slots
    BY <1>1 DEF TypeOK
  <2> QED  BY <1>4, <1>5, <1>7, <2>1, <2>2
<1> QED  BY <1>1, <1>10, <1>12, <1>13, <1>14 DEF IInv, Repairing

\* fffs_index_insert finds neither s nor an empty bucket and leaves the table
\* alone: s had no bucket, and has none now that its record is on flash.
LEMMA RefusedInv ==
  ASSUME IInv, NEW s \in Slots, NEW h \in Heads, Insert(s, h), Stops(table, s) = {}
  PROVE  IInv'
<1>1. /\ TypeOK /\ pc = "idle" /\ live' = [live EXCEPT ![s] = h]
      /\ refused' = refused \cup {s} /\ UNCHANGED <<table, pc, hole, idx, pos, due>>
  BY DEF Insert, IInv
<1>2. \A b \in Buckets : table[b].slot \notin {0, s}
  BY <1>1, EntryFacts, FindBucketIs
<1>3. \A r \in Slots : live'[r] = IF r = s THEN h ELSE live[r]
  BY <1>1 DEF TypeOK
<1>4. \A b \in Buckets : Holds(b)' <=> Holds(b)
  BY <1>1 DEF Holds
<1>5. TypeOK'
  BY <1>1 DEF TypeOK
<1>6. Placed'
  <2>1. ASSUME NEW r \in CachedSlots'
        PROVE  \E b \in Buckets : Holds(b)' /\ table'[b].slot = r
    <3>1. r \in CachedSlots
      BY <1>1, <1>3 DEF CachedSlots
    <3> QED  BY <1>1, <1>4, <3>1 DEF IInv, Placed
  <2>2. ASSUME NEW b \in Buckets, Holds(b)'
        PROVE  /\ table'[b].head # 0 /\ live'[table'[b].slot] = table'[b].head
               /\ table'[b].slot \notin refused'
    <3>1. Holds(b) /\ table[b].slot \in Slots /\ table[b].slot # s
      BY <1>1, <1>2, <1>4, <2>2, EntryFacts
    <3> QED  BY <1>1, <1>3, <3>1 DEF IInv, Placed
  <2>3. ASSUME NEW b \in Buckets, NEW c \in Buckets, Holds(b)', Holds(c)',
               table'[b].slot = table'[c].slot
        PROVE  b = c
    BY <1>1, <1>4, <2>3 DEF IInv, Placed
  <2> QED  BY <2>1, <2>2, <2>3 DEF Placed
<1>7. Reached' /\ Ahead' /\ Repairing'
  BY <1>1, <1>4 DEF IInv, Reached, Ahead, Repairing, Before
<1> QED  BY <1>1, <1>5, <1>6, <1>7 DEF IInv

\* fffs_index_remove: the bucket of s becomes the hole.
LEMMA RemoveBeginInv ==
  ASSUME IInv, NEW s \in Slots, RemoveBegin(s)
  PROVE  IInv'
<1> DEFINE f == FindBucket(table, s)
           n == (f + 1) % TableSize
<1>1. TypeOK /\ pc = "idle" /\ HeadForSlot(table, s) # 0
      /\ live' = [live EXCEPT ![s] = 0] /\ hole' = f /\ idx' = n
      /\ pc' = "repair" /\ due' = {} /\ UNCHANGED <<table, refused, pos>>
  BY DEF RemoveBegin, IInv
<1>2. Stops(table, s) # {} /\ table[f].slot = s
  BY <1>1 DEF HeadForSlot
<1>3. table \in [Buckets -> Entry] /\ 0 \notin Slots
  BY <1>1, EntryFacts
<1>4. f \in Buckets
  BY <1>2, <1>3, FindBucketIs
<1>5. n \in Buckets /\ (n # f => ProbeDistance(f, n) = 1) /\ (n = f => TableSize = 1)
  <2>1. /\ n \in Buckets /\ (n # f => ProbeDistance(f, n) = ProbeDistance(f, f) + 1)
        /\ (n = f => ProbeDistance(f, f) = TableSize - 1)
    BY <1>4, NextBucket
  <2>2. ProbeDistance(f, f) = 0
    BY <1>4, DistanceFacts
  <2> QED  BY <2>1, <2>2, TableSizeType
<1> HIDE DEF f, n
<1>6. \A b \in Buckets : /\ Holds(b) <=> table[b].slot # 0
                         /\ Holds(b)' <=> table[b].slot # 0 /\ b # f
  BY <1>1 DEF Holds
<1>7. \A r \in Slots : live'[r] = IF r = s THEN 0 ELSE live[r]
  BY <1>1 DEF TypeOK
<1>8. TypeOK'
  BY <1>1, <1>4, <1>5 DEF TypeOK
<1>9. Placed'
  <2>1. ASSUME NEW r \in CachedSlots'
        PROVE  \E b \in Buckets : Holds(b)' /\ table'[b].slot = r
    <3>1. r \in CachedSlots /\ r # s
      BY <1>1, <1>7, ZenonT(30) DEF CachedSlots
    <3>2. PICK b \in Buckets : Holds(b) /\ table[b].slot = r
      BY <3>1 DEF IInv, Placed
    <3> QED  BY <1>1, <1>2, <1>6, <3>1, <3>2
  <2>2. ASSUME NEW b \in Buckets, Holds(b)'
        PROVE  /\ table'[b].head # 0 /\ live'[table'[b].slot] = table'[b].head
               /\ table'[b].slot \notin refused'
    <3>1. table[b].slot \in Slots /\ Holds(b) /\ b # f
      BY <1>3, <1>6, <2>2 DEF Entry
    <3>2. table[b].slot # s
      BY <1>2, <1>3, <1>4, <1>6, <3>1 DEF IInv, Placed
    <3> QED  BY <1>1, <1>7, <3>1, <3>2 DEF IInv, Placed
  <2>3. ASSUME NEW b \in Buckets, NEW c \in Buckets, Holds(b)', Holds(c)',
               table'[b].slot = table'[c].slot
        PROVE  b = c
    BY <1>1, <1>6, <2>3 DEF IInv, Placed
  <2> QED  BY <2>1, <2>2, <2>3 DEF Placed
<1>10. Reached'
  BY <1>1, <1>6 DEF IInv, Reached, Before
<1>11. Repairing'
  <2>1. table[f].slot # 0
    BY <1>2, <1>3
  <2>2. CASE n = f
    <3>1. Full'
      BY <1>1, <1>4, <1>5, <2>1, <2>2 DEF Full, Buckets
    <3> QED  BY <1>1, <2>1, <3>1 DEF Repairing
  <2>3. CASE n # f
    <3>1. ASSUME NEW c \in Buckets, ProbeDistance(f, c) < ProbeDistance(f, n)
          PROVE  c = f
      <4>1. ProbeDistance(f, c) \in Nat
        BY <1>4, DistanceIs DEF Buckets
      <4>2. ProbeDistance(f, c) = ProbeDistance(f, f)
        BY <1>4, <1>5, <2>3, <3>1, <4>1, DistanceFacts
      <4> QED  BY <1>4, <4>2, DistanceFacts
    <3> QED  BY <1>1, <2>1, <2>3, <3>1 DEF Repairing
  <2> QED  BY <2>2, <2>3
<1> QED  BY <1>1, <1>8, <1>9, <1>10, <1>11 DEF IInv, Ahead

\* remove_bucket_at moves the entry it examines into the hole: the entry comes
\* nearer to its home and its old bucket is the new hole.
LEMMA MoveInv ==
  ASSUME IInv, RepairStep, Moves(Home(table[idx].slot), hole, idx)
  PROVE  IInv'
<1> DEFINE s == table[idx].slot
           n == (idx + 1) % TableSize
<1>1. TypeOK /\ pc = "repair" /\ s # 0 /\ table' = [table EXCEPT ![hole] = table[idx]]
      /\ hole' = idx /\ idx' = n /\ due = {} /\ UNCHANGED <<live, refused, pc, pos, due>>
  BY DEF RepairStep, IInv
<1>2. /\ table \in [Buckets -> Entry] /\ 0 \notin Slots /\ hole \in Buckets /\ idx \in Buckets
      /\ s \in Slots
  BY <1>1, EntryFacts DEF TypeOK, Entry
<1>3. Before(s, hole, idx) /\ hole # idx
  <2>1. Before(s, hole, idx)
    BY DEF Moves, Before
  <2>2. ProbeDistance(Home(s), idx) \in Nat
    BY <1>2, PathDistance
  <2> QED  BY <2>1, <2>2 DEF Before
<1>4. n \in Buckets /\ (n # idx => ProbeDistance(idx, n) = 1) /\ n # idx
  <2>1. /\ n \in Buckets /\ (n # idx => ProbeDistance(idx, n) = ProbeDistance(idx, idx) + 1)
        /\ (n = idx => ProbeDistance(idx, idx) = TableSize - 1)
    BY <1>2, NextBucket
  <2>2. ProbeDistance(idx, idx) = 0
    BY <1>2, DistanceFacts
  <2>3. TableSize # 1
    BY <1>2, <1>3 DEF Buckets
  <2> QED  BY <2>1, <2>2, <2>3, TableSizeType
<1> HIDE DEF n
<1>5. \A b \in Buckets : table'[b] = IF b = hole THEN table[idx] ELSE table[b]
  BY <1>1, <1>2
<1>6. \A b \in Buckets : /\ Holds(b) <=> table[b].slot # 0 /\ b # hole
                         /\ Holds(b)' <=> table'[b].slot # 0 /\ b # idx
  BY <1>1 DEF Holds
<1>7. Holds(idx)
  BY <1>1, <1>2, <1>3, <1>6
<1>8. TypeOK'
  <2>1. table' \in [Buckets -> Entry]
    BY <1>1, <1>2
  <2> QED  BY <1>1, <1>2, <1>4, <2>1 DEF TypeOK, Entry
<1>9. Placed'
  <2>1. ASSUME NEW r \in CachedSlots'
        PROVE  \E b \in Buckets : Holds(b)' /\ table'[b].slot = r
    <3>1. r \in CachedSlots
      BY <1>1 DEF CachedSlots
    <3>2. PICK b \in Buckets : Holds(b) /\ table[b].slot = r
      BY <3>1 DEF IInv, Placed
    <3>3. CASE b = idx
      BY <1>1, <1>2, <1>3, <1>5, <1>6, <3>2, <3>3
    <3>4. CASE b # idx
      BY <1>5, <1>6, <3>2, <3>4
    <3> QED  BY <3>3, <3>4
  <2>2. ASSUME NEW b \in Buckets, Holds(b)'
        PROVE  /\ table'[b].head # 0 /\ live'[table'[b].slot] = table'[b].head
               /\ table'[b].slot \notin refused'
    BY <1>1, <1>2, <1>5, <1>6, <1>7, <2>2 DEF IInv, Placed
  <2>3. ASSUME NEW b \in Buckets, NEW c \in Buckets, Holds(b)', Holds(c)',
               table'[b].slot = table'[c].slot
        PROVE  b = c
    BY <1>1, <1>2, <1>5, <1>6, <1>7, <2>3 DEF IInv, Placed
  <2> QED  BY <2>1, <2>2, <2>3 DEF Placed
<1>10. \A b \in Buckets : table[b].slot # 0 => table'[b].slot # 0
  BY <1>1, <1>5
<1>11. Reached'
  <2> SUFFICES ASSUME NEW b \in Buckets, Holds(b)',
                      NEW c \in Buckets, Before(table'[b].slot, c, b)
               PROVE  table'[c].slot # 0
    BY DEF Reached, Before
  <2>1. CASE b = hole
    <3>1. Before(s, c, hole)
      BY <1>2, <1>5, <2>1
    <3>2. Before(s, c, idx)
      <4>1. /\ ProbeDistance(Home(s), c) \in Nat /\ ProbeDistance(Home(s), hole) \in Nat
            /\ ProbeDistance(Home(s), idx) \in Nat
        BY <1>2, PathDistance
      <4> QED  BY <1>3, <3>1, <4>1 DEF Before
    <3>3. table[c].slot # 0
      BY <1>2, <1>7, <3>2 DEF IInv, Reached
    <3> QED  BY <1>10, <3>3
  <2>2. CASE b # hole
    BY <1>5, <1>6, <1>10, <2>2 DEF IInv, Reached
  <2> QED  BY <2>1, <2>2
<1>12. Repairing'
  <2>1. table'[idx].slot # 0
    BY <1>1, <1>2, <1>10
  <2>2. ASSUME NEW c \in Buckets, ProbeDistance(idx, c) < ProbeDistance(idx, n)
        PROVE  c = idx
    <3>1. ProbeDistance(idx, c) \in Nat
      BY <1>2, DistanceIs DEF Buckets
    <3>2. ProbeDistance(idx, c) = ProbeDistance(idx, idx)
      BY <1>2, <1>4, <2>2, <3>1, DistanceFacts
    <3> QED  BY <1>2, <3>2, DistanceFacts
  <2> QED  BY <1>1, <1>4, <2>1, <2>2 DEF Repairing
<1> QED  BY <1>1, <1>8, <1>9, <1>11, <1>12 DEF IInv, Ahead
\* remove_bucket_at leaves the entry it examines: it is not reached through the
\* hole.
LEMMA StayInv ==
  ASSUME IInv, RepairStep, ~Moves(Home(table[idx].slot), hole, idx)
  PROVE  IInv'
<1> DEFINE s == table[idx].slot
           n == (idx + 1) % TableSize
<1>1. TypeOK /\ pc = "repair" /\ s # 0 /\ idx' = n /\ due = {}
      /\ UNCHANGED <<table, live, refused, pc, hole, pos, due>>
  BY DEF RepairStep, IInv
<1>2. hole \in Buckets /\ idx \in Buckets /\ s \in Slots /\ table[hole].slot # 0
  BY <1>1, EntryFacts DEF TypeOK, Entry, IInv, Repairing
<1>3. ~Before(s, hole, idx)
  BY DEF Moves, Before
<1>4. /\ n \in Buckets
      /\ n # hole => ProbeDistance(hole, n) = ProbeDistance(hole, idx) + 1
      /\ n = hole => ProbeDistance(hole, idx) = TableSize - 1
  BY <1>2, NextBucket
<1> HIDE DEF n
<1>5. TypeOK'
  BY <1>1, <1>4 DEF TypeOK
<1>6. Placed' /\ Reached'
  BY <1>1 DEF IInv, Placed, Reached, CachedSlots, Holds, Before
<1>7. Repairing'
  <2>1. CASE Full
    BY <1>1, <1>2, <2>1 DEF Repairing, Full
  <2>2. CASE ~Full
    <3>1. \A c \in Buckets : ProbeDistance(hole, c) < ProbeDistance(hole, idx) =>
             table[c].slot # 0 /\ (c # hole => ~Before(table[c].slot, hole, c))
      BY <1>1, <2>2 DEF IInv, Repairing
    <3>2. ASSUME NEW c \in Buckets, ProbeDistance(hole, c) <= ProbeDistance(hole, idx)
          PROVE  table[c].slot # 0 /\ (c # hole => ~Before(table[c].slot, hole, c))
      <4>1. ProbeDistance(hole, c) \in Nat /\ ProbeDistance(hole, idx) \in Nat
        BY <1>2, DistanceIs DEF Buckets
      <4>2. CASE ProbeDistance(hole, c) = ProbeDistance(hole, idx)
        <5>1. c = idx
          BY <1>2, <4>2, DistanceFacts
        <5> QED  BY <1>1, <1>3, <5>1
      <4> QED  BY <3>1, <3>2, <4>1, <4>2
    <3>3. n # hole
      <4> SUFFICES ASSUME n = hole
                   PROVE  FALSE
        OBVIOUS
      <4>1. \A c \in Buckets : ProbeDistance(hole, c) \in Nat /\ ProbeDistance(hole, c) <= TableSize - 1
        <5>1. \A c \in Buckets : ProbeDistance(hole, c) \in Buckets
          BY <1>2, DistanceIs, ZenonT(30)
        <5> QED  BY <5>1, TableSizeType DEF Buckets
      <4>2. \A c \in Buckets : table[c].slot # 0
        BY <1>4, <3>2, <4>1
      <4> QED  BY <2>2, <4>2 DEF Full
    <3>4. ASSUME NEW c \in Buckets, ProbeDistance(hole, c) < ProbeDistance(hole, n)
          PROVE  ProbeDistance(hole, c) <= ProbeDistance(hole, idx)
      <4>1. ProbeDistance(hole, c) \in Nat /\ ProbeDistance(hole, idx) \in Nat
        BY <1>2, DistanceIs DEF Buckets
      <4> QED  BY <1>4, <3>3, <3>4, <4>1
    <3> QED  BY <1>1, <1>2, <3>2, <3>3, <3>4 DEF Repairing, Before
  <2> QED  BY <2>1, <2>2
<1>8. due' = {} /\ Ahead'
  BY <1>1 DEF Ahead
<1> QED  BY <1>5, <1>6, <1>7, <1>8 DEF IInv

\* remove_bucket_at ends at an empty bucket: an entry reached through the hole
\* would lie beyond that bucket, so clearing the hole loses none.
LEMMA RepairEndInv ==
  ASSUME IInv, RepairEnd
  PROVE  IInv'
<1>1. TypeOK /\ pc = "repair" /\ table[idx].slot = 0 /\ table' = [table EXCEPT ![hole] = Empty]
      /\ pc' = "idle" /\ due = {} /\ UNCHANGED <<live, refused, hole, idx, pos, due>>
  BY DEF RepairEnd, IInv
<1>2. /\ table \in [Buckets -> Entry] /\ hole \in Buckets /\ idx \in Buckets
      /\ Empty \in Entry /\ Empty.slot = 0
  BY <1>1, EntryFacts DEF TypeOK, Entry, Empty
<1>3. \A b \in Buckets : table'[b] = IF b = hole THEN Empty ELSE table[b]
  BY <1>1, <1>2
<1>4. \A b \in Buckets : /\ Holds(b) <=> table[b].slot # 0 /\ b # hole
                         /\ Holds(b)' <=> table'[b].slot # 0
  BY <1>1 DEF Holds
<1>5. \A b \in Buckets : Holds(b)' <=> Holds(b)
  BY <1>2, <1>3, <1>4
<1>6. TypeOK'
  <2>1. table' \in [Buckets -> Entry]
    BY <1>1, <1>2
  <2> QED  BY <1>1, <2>1 DEF TypeOK, Entry
<1>7. \A b \in Buckets : Holds(b) => table'[b] = table[b]
  BY <1>3, <1>4
<1>8. Placed'
  BY <1>1, <1>5, <1>7 DEF IInv, Placed, CachedSlots
<1>9. Reached'
  <2> SUFFICES ASSUME NEW b \in Buckets, Holds(b),
                      NEW c \in Buckets, Before(table[b].slot, c, b)
               PROVE  c # hole /\ table[c].slot # 0
    BY <1>3, <1>5, <1>7 DEF Reached, Before
  <2> DEFINE s == table[b].slot
  <2>1. s \in Slots /\ table[c].slot # 0
    BY <1>1, <1>4, EntryFacts DEF IInv, Reached
  <2>2. ASSUME c = hole
        PROVE  FALSE
    <3> DEFINE a == Home(s)
    <3>1. a \in Buckets
      BY <2>1, HomeType
    <3>2. ProbeDistance(a, hole) < ProbeDistance(a, b)
      BY <2>2 DEF Before
    <3>3. b # idx /\ b # hole
      BY <1>1, <1>4
    <3>4. /\ hole # idx
          /\ \A d \in Buckets : ProbeDistance(hole, d) < ProbeDistance(hole, idx) =>
                (d # hole => ~Before(table[d].slot, hole, d))
      BY <1>1, <1>2 DEF IInv, Repairing, Full
    <3>5. ~(ProbeDistance(hole, b) < ProbeDistance(hole, idx))
      BY <2>2, <3>3, <3>4
    <3> HIDE DEF a
    <3>6. /\ ProbeDistance(a, hole) \in Nat /\ ProbeDistance(a, b) \in Nat
          /\ ProbeDistance(a, b) < TableSize
          /\ ProbeDistance(hole, b) \in Nat /\ ProbeDistance(hole, idx) \in Nat
      <4>1. /\ ProbeDistance(a, hole) \in Buckets /\ ProbeDistance(a, b) \in Buckets
            /\ ProbeDistance(hole, b) \in Buckets /\ ProbeDistance(hole, idx) \in Buckets
        BY <1>2, <3>1, DistanceIs
      <4> QED  BY <4>1, TableSizeType DEF Buckets
    <3>7. ProbeDistance(hole, b) # ProbeDistance(hole, idx)
      BY <1>2, <3>3, DistanceFacts
    <3>8. ProbeDistance(a, b) = ProbeDistance(a, hole) + ProbeDistance(hole, b)
      BY <1>2, <3>1, <3>2, DistanceFacts
    <3>9. ProbeDistance(a, hole) + ProbeDistance(hole, idx) < ProbeDistance(a, b)
      BY <3>5, <3>6, <3>7, <3>8
    <3>10. ProbeDistance(a, idx) = ProbeDistance(a, hole) + ProbeDistance(hole, idx)
      <4>1. ProbeDistance(a, hole) + ProbeDistance(hole, idx) < TableSize
        BY <3>6, <3>9, TableSizeType
      <4> QED  BY <1>2, <3>1, <4>1, DistanceFacts
    <3>11. Before(s, idx, b)
      BY <3>9, <3>10 DEF Before, a
    <3> QED  BY <1>1, <1>2, <3>11 DEF IInv, Reached
  <2> QED  BY <2>1, <2>2
<1>10. due' = {} /\ Ahead'
  BY <1>1 DEF Ahead
<1> QED  BY <1>1, <1>6, <1>8, <1>9, <1>10 DEF IInv, Repairing

\* fffs_dir_open starts at bucket 0 with every file to report.
LEMMA DirOpenInv ==
  ASSUME IInv, DirOpen
  PROVE  IInv'
<1>1. TypeOK /\ pc = "idle" /\ pos' = 0 /\ due' = CachedSlots /\ UNCHANGED <<table, live, refused, pc, hole, idx>>
  BY DEF DirOpen, IInv
<1>2. TypeOK'
  BY <1>1, TableSizeType DEF TypeOK, CachedSlots
<1>3. Placed' /\ Reached' /\ Repairing'
  BY <1>1 DEF IInv, Placed, Reached, Repairing, CachedSlots, Holds, Before, Full
<1>4. Ahead'
  <2>1. \A b \in Buckets : b >= 0
    BY DEF Buckets
  <2> QED  BY <1>1, <2>1 DEF IInv, Placed, Ahead
<1> QED  BY <1>1, <1>2, <1>3, <1>4 DEF IInv

\* fffs_index_dir_read reports the bucket at its position and goes on.
LEMMA DirReadInv ==
  ASSUME IInv, DirRead
  PROVE  IInv'
<1>1. TypeOK /\ pc = "idle" /\ pos < TableSize /\ pos' = pos + 1 /\ due' = due \ {table[pos].slot}
      /\ UNCHANGED <<table, live, refused, pc, hole, idx>>
  BY DEF DirRead, IInv
<1>2. TypeOK'
  BY <1>1, TableSizeType DEF TypeOK
<1>3. Placed' /\ Reached' /\ Repairing'
  BY <1>1 DEF IInv, Placed, Reached, Repairing, CachedSlots, Holds, Before, Full
<1>4. Ahead'
  <2> SUFFICES ASSUME NEW r \in due, r # table[pos].slot
               PROVE  \E b \in Buckets : b >= pos + 1 /\ table[b].slot = r
    BY <1>1 DEF Ahead
  <2>1. PICK b \in Buckets : b >= pos /\ table[b].slot = r
    BY DEF IInv, Ahead
  <2>2. b # pos /\ b \in Nat /\ pos \in Nat
    BY <1>1, <2>1 DEF TypeOK, Buckets
  <2> QED  BY <2>1, <2>2
<1> QED  BY <1>1, <1>2, <1>3, <1>4 DEF IInv

\* Every step preserves the invariant.
LEMMA NextInv == IInv /\ [Next]_vars => IInv'
<1> SUFFICES ASSUME IInv, [Next]_vars
             PROVE  IInv'
  OBVIOUS
<1>1. ASSUME NEW s \in Slots, RemoveBegin(s)
      PROVE  IInv'
  BY <1>1, RemoveBeginInv
<1>2. ASSUME NEW s \in Slots, NEW h \in Heads, Insert(s, h)
      PROVE  IInv'
  BY <1>2, InsertInv, RefusedInv
<1>3. CASE RepairStep
  BY <1>3, MoveInv, StayInv
<1>4. CASE RepairEnd
  BY <1>4, RepairEndInv
<1>5. CASE DirOpen
  BY <1>5, DirOpenInv
<1>6. CASE DirRead
  BY <1>6, DirReadInv
<1>7. CASE UNCHANGED vars
  BY <1>7 DEF vars, IInv, TypeOK, Placed, Reached, Repairing, Ahead, CachedSlots, Holds, Before, Full
<1> QED  BY <1>1, <1>2, <1>3, <1>4, <1>5, <1>6, <1>7 DEF Next

-----------------------------------------------------------------------------
\* fffs_index_head_for_slot answers what the flash index holds, for every slot
\* the cache has not refused, and nothing for a refused one, between any two
\* calls of any history of inserts, overwrites and removals.
THEOREM LookupCorrect == Spec => []LookupAgrees
<1>1. IInv => LookupAgrees
  <2> SUFFICES ASSUME IInv, pc = "idle", NEW s \in Slots
               PROVE  HeadForSlot(table, s) = IF s \in refused THEN 0 ELSE live[s]
    BY DEF LookupAgrees
  <2> DEFINE f == FindBucket(table, s)
  <2>1. table \in [Buckets -> Entry] /\ 0 \notin Slots
    BY EntryFacts DEF IInv
  <2>2. CASE s \in CachedSlots
    <3>1. Stops(table, s) # {} /\ table[f].slot = s
      BY <2>2, Found
    <3>2. f \in Buckets
      BY <2>1, <3>1, FindBucketIs
    <3>3. table[f].head = live[s]
      BY <2>1, <3>1, <3>2 DEF IInv, Placed, Holds
    <3> QED  BY <2>2, <3>1, <3>3 DEF HeadForSlot, CachedSlots
  <2>3. CASE s \notin CachedSlots
    <3>1. Stops(table, s) = {} \/ table[f].slot = 0
      BY <2>3, Found
    <3>2. s \in refused \/ live[s] = 0
      BY <2>3 DEF CachedSlots
    <3> QED  BY <2>1, <3>1, <3>2 DEF HeadForSlot
  <2> QED  BY <2>2, <2>3
<1> QED  BY <1>1, InitInv, NextInv, PTL DEF Spec

\* At every step, those inside a removal included, each live slot but the refused
\* ones has exactly one bucket, with its head, and no other slot has one: cluster
\* repair neither loses an entry nor leaves it twice.
THEOREM EntriesKept == Spec => []Placed
<1>1. IInv => Placed
  BY DEF IInv
<1> QED  BY <1>1, InitInv, NextInv, PTL DEF Spec

\* A directory listing that reaches the end of the table has answered for every
\* file the cache held when it started, whatever was created or overwritten in
\* between, unless something was deleted.
THEOREM ListingIsComplete == Spec => []ListingComplete
<1>1. IInv => ListingComplete
  <2> SUFFICES ASSUME IInv, pos = TableSize, NEW s \in due
               PROVE  FALSE
    BY DEF ListingComplete
  <2>1. PICK b \in Buckets : b >= pos
    BY DEF IInv, Ahead
  <2> QED  BY <2>1, TableSizeType DEF Buckets
<1> QED  BY <1>1, InitInv, NextInv, PTL DEF Spec
=============================================================================
