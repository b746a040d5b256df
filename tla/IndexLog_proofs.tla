-------------------------- MODULE IndexLog_proofs ---------------------------
(***************************************************************************)
(* Proofs about IndexLog and NoCacheIndex: for any number and size of      *)
(* index sectors, any word width, slots and data sectors, with power lost  *)
(* at any point of an append, a rotation, a compaction or a mount, the     *)
(* index never forgets what it acknowledged, mount never rejects it, the   *)
(* scans of the build without a RAM cache find the same, and the index     *)
(* implements Namespace.                                                   *)
(***************************************************************************)
EXTENDS NoCacheIndex, WellFoundedInduction, TLAPS

\* Index areas that fit: at least one sector, no sector overflows.
Logs == {l \in Seq(Seq(Records)) :
           Len(l) >= 1 /\ \A k \in 1..Len(l) : Len(l[k]) <= RecordsPerSector}

\* A record of a slot's history, or a clobbered one.
Proper == {Zero} \cup [slot : Slots, head : DataSectors \cup {Free}]

\* Replay applies record j of sector k to slot s.
Has(l, rt, s, k, j) ==
  /\ k \in 1..Len(l) /\ j \in 1..Len(l[k])
  /\ l[k][j].slot = s
  /\ ~(k = Len(l) /\ j = Len(l[k]) /\ BadTail(l, rt))

\* It is the last one that replay applies to s.
Newest(l, rt, s, k, j) ==
  /\ Has(l, rt, s, k, j)
  /\ \A m, n \in Nat : Has(l, rt, s, m, n) => m < k \/ (m = k /\ n <= j)

\* Only the terminal record may be improper, and then replay does not apply it.
ShapeOf(l, rt) ==
  \A k \in 1..Len(l) : \A j \in 1..Len(l[k]) :
    l[k][j] \in Proper \/ (k = Len(l) /\ j = Len(l[k]) /\ BadTail(l, rt))
-----------------------------------------------------------------------------
(* What replay finds, in terms of the records it applies. *)

\* Every nonempty bounded set of natural numbers has a greatest element.
LEMMA GreatestElement ==
  ASSUME NEW S \in SUBSET Nat, S # {}, NEW b \in Nat, \A n \in S : n <= b
  PROVE  \E m \in S : \A n \in S : n <= m
<1> DEFINE R == {ss \in Nat \X Nat : ss[1] < ss[2]}
           D == {b - n : n \in S}
<1>1. IsWellFoundedOn(R, Nat)
  BY NatLessThanWellFounded, ZenonT(30) DEF OpToRel
<1>2. D \subseteq Nat /\ D # {}
  <2>1. \A n \in S : b - n \in Nat
    OBVIOUS
  <2>2. PICK n \in S : TRUE
    BY ZenonT(30)
  <2>3. b - n \in D
    OBVIOUS
  <2>4. D \subseteq Nat
    BY <2>1
  <2> QED  BY <2>3, <2>4, ZenonT(30)
<1> HIDE DEF R, D
<1>3. PICK d \in D : \A e \in D : ~(<<e, d>> \in R)
  BY <1>1, <1>2, WFMin, ZenonT(30)
<1>4. \A e \in D : ~(e < d)
  <2> SUFFICES ASSUME NEW e \in D, e < d
               PROVE  FALSE
    OBVIOUS
  <2>1. e \in Nat /\ d \in Nat
    BY <1>2
  <2>2. <<e, d>> \in R
    BY <2>1, ZenonT(30) DEF R
  <2> QED  BY <1>3, <2>2
<1>5. PICK m \in S : d = b - m
  BY DEF D
<1>6. ASSUME NEW n \in S
      PROVE  n <= m
  <2>1. b - n \in D
    BY DEF D
  <2> QED  BY <1>4, <1>5, <2>1
<1> QED  BY <1>6

\* The positions in a sector: numbers of records up to those that fit, and the next.
LEMMA CountFits ==
  ASSUME NEW a \in Nat, NEW b \in Nat, a <= b, b <= RecordsPerSector
  PROVE  /\ a <= RecordsPerSector /\ a + 1 \in 1..(RecordsPerSector + 1)
         /\ b + 1 \in 1..(RecordsPerSector + 1)
BY RecordsPerSectorAssumption

\* A record goes behind n others exactly where there are fewer than fit.
LEMMA OneMoreFits ==
  ASSUME NEW n \in Nat
  PROVE  n + 1 <= RecordsPerSector <=> n < RecordsPerSector
BY RecordsPerSectorAssumption

\* A number of sectors of the index area, and one more.
LEMMA SectorCount ==
  ASSUME NEW n \in Nat
  PROVE  /\ n \in 1..IndexSectors => n <= IndexSectors
         /\ n < IndexSectors => n + 1 <= IndexSectors
BY IndexSectorsAssumption

\* An index area, and a sector of one.
LEMMA LogTypes ==
  ASSUME NEW l \in Logs
  PROVE  /\ Len(l) \in Nat /\ Len(l) >= 1 /\ Len(l) \in 1..Len(l)
         /\ \A k \in 1..Len(l) : Len(l[k]) \in Nat /\ Len(l[k]) <= RecordsPerSector
         /\ LastOf(l) = l[Len(l)] /\ Len(LastOf(l)) \in Nat
         /\ TailOf(l) = l[Len(l)][Len(l[Len(l)])]
BY DEF Logs, LastOf, TailOf

\* The positions of applied records.
LEMMA AppliesIs ==
  ASSUME NEW l \in Logs, NEW rt, NEW s
  PROVE  /\ \A p \in Applies(l, rt) : p[1] \in Nat /\ p[2] \in Nat
         /\ \A p \in Applies(l, rt) : l[p[1]][p[2]].slot = s <=> Has(l, rt, s, p[1], p[2])
         /\ \A k, j \in Nat : Has(l, rt, s, k, j) => <<k, j>> \in Applies(l, rt)
<1> USE LogTypes, RecordsPerSectorAssumption
<1>1. ASSUME NEW p \in Applies(l, rt)
      PROVE  /\ p[1] \in 1..Len(l) /\ p[2] \in 1..Len(l[p[1]])
             /\ ~(p[1] = Len(l) /\ p[2] = Len(l[p[1]]) /\ BadTail(l, rt))
  <2>1. /\ p \in (1..Len(l)) \X (1..RecordsPerSector) /\ p[2] <= Len(l[p[1]])
        /\ ~(p = <<Len(l), Len(LastOf(l))>> /\ BadTail(l, rt))
    BY DEF Applies
  <2>2. p = <<p[1], p[2]>> /\ p[1] \in 1..Len(l) /\ p[2] \in 1..RecordsPerSector
    BY <2>1
  <2> QED  BY <2>1, <2>2
<1>2. ASSUME NEW k \in Nat, NEW j \in Nat, Has(l, rt, s, k, j)
      PROVE  <<k, j>> \in Applies(l, rt)
  <2>1. k \in 1..Len(l) /\ j \in 1..RecordsPerSector /\ j <= Len(l[k])
    BY <1>2 DEF Has
  <2> QED  BY <1>2, <2>1 DEF Has, Applies
<1> QED  BY <1>1, <1>2 DEF Has

\* fffs_replay_index: the newest record of a slot decides, and a slot without
\* a record is free.
LEMMA RecoveredIs ==
  ASSUME NEW l \in Logs, NEW rt, NEW s \in Slots
  PROVE  /\ \A k, j \in Nat : Newest(l, rt, s, k, j) => Recovered(l, rt)[s] = l[k][j].head
         /\ (\A k, j \in Nat : ~Newest(l, rt, s, k, j)) => Recovered(l, rt)[s] = Free
<1> USE AppliesIs
<1>1. ASSUME NEW k \in Nat, NEW j \in Nat
      PROVE  LastFor(l, rt, s, <<k, j>>) <=> Newest(l, rt, s, k, j)
  <2>1. ASSUME LastFor(l, rt, s, <<k, j>>)
        PROVE  Newest(l, rt, s, k, j)
    <3>1. Has(l, rt, s, k, j)
      BY <2>1 DEF LastFor
    <3>2. ASSUME NEW m \in Nat, NEW n \in Nat, Has(l, rt, s, m, n)
          PROVE  m < k \/ (m = k /\ n <= j)
      <4>1. <<m, n>> \in Applies(l, rt) /\ l[m][n].slot = s
        BY <3>2, ZenonT(30) DEF Has
      <4>2. NotAfter(<<m, n>>, <<k, j>>)
        BY <2>1, <4>1 DEF LastFor
      <4> QED  BY <4>2 DEF NotAfter
    <3> QED  BY <3>1, <3>2 DEF Newest
  <2>2. ASSUME Newest(l, rt, s, k, j)
        PROVE  LastFor(l, rt, s, <<k, j>>)
    <3>1. <<k, j>> \in Applies(l, rt) /\ l[k][j].slot = s
      BY <2>2, ZenonT(30) DEF Newest, Has
    <3>2. ASSUME NEW q \in Applies(l, rt), l[q[1]][q[2]].slot = s
          PROVE  NotAfter(q, <<k, j>>)
      BY <2>2, <3>2 DEF Newest, NotAfter
    <3> QED  BY <3>1, <3>2 DEF LastFor
  <2> QED  BY <2>1, <2>2
<1>2. \A p \in Applies(l, rt) : p = <<p[1], p[2]>>
  BY DEF Applies
<1> DEFINE q == CHOOSE p \in Applies(l, rt) : LastFor(l, rt, s, p)
<1>3. Recovered(l, rt)[s] = IF \E p \in Applies(l, rt) : LastFor(l, rt, s, p)
                            THEN l[q[1]][q[2]].head ELSE Free
  BY DEF Recovered
<1>4. ASSUME NEW k \in Nat, NEW j \in Nat, Newest(l, rt, s, k, j)
      PROVE  Recovered(l, rt)[s] = l[k][j].head
  <2>1. <<k, j>> \in Applies(l, rt) /\ LastFor(l, rt, s, <<k, j>>)
    BY <1>1, <1>4 DEF Newest
  <2>2. q \in Applies(l, rt) /\ LastFor(l, rt, s, q)
    BY <2>1
  <2>3. Recovered(l, rt)[s] = l[q[1]][q[2]].head
    BY <1>3, <2>1
  <2> HIDE DEF q
  <2>4. q[1] \in Nat /\ q[2] \in Nat /\ q = <<q[1], q[2]>>
    BY <1>2, <2>2
  <2>5. Newest(l, rt, s, q[1], q[2])
    BY <1>1, <2>2, <2>4
  <2>6. q[1] = k /\ q[2] = j
    BY <1>4, <2>4, <2>5 DEF Newest
  <2> QED  BY <2>3, <2>6
<1>5. ASSUME \A k, j \in Nat : ~Newest(l, rt, s, k, j)
      PROVE  Recovered(l, rt)[s] = Free
  <2>1. ~\E p \in Applies(l, rt) : LastFor(l, rt, s, p)
    BY <1>1, <1>2, <1>5
  <2> QED  BY <1>3, <2>1
<1> QED  BY <1>4, <1>5

\* Of the records applied to a slot, one is the newest.
LEMMA NewestExists ==
  ASSUME NEW l \in Logs, NEW rt, NEW s, NEW k \in Nat, NEW j \in Nat, Has(l, rt, s, k, j)
  PROVE  \E m, n \in Nat : Newest(l, rt, s, m, n)
<1> USE LogTypes
<1> DEFINE K == {m \in Nat : \E n \in Nat : Has(l, rt, s, m, n)}
<1>1. PICK m \in K : \A x \in K : x <= m
  <2>1. k \in K /\ K \subseteq Nat /\ \A x \in K : x <= Len(l)
    BY DEF Has
  <2> HIDE DEF K
  <2> QED  BY <2>1, GreatestElement, ZenonT(30)
<1> DEFINE J == {n \in Nat : Has(l, rt, s, m, n)}
<1>2. PICK n \in J : \A y \in J : y <= n
  <2>1. J # {} /\ J \subseteq Nat
    OBVIOUS
  <2>2. \A y \in J : y <= Len(l[m]) /\ Len(l[m]) \in Nat
    BY DEF Has
  <2>3. Len(l[m]) \in Nat
    BY <2>1, <2>2
  <2> HIDE DEF J
  <2> QED  BY <2>1, <2>2, <2>3, GreatestElement, ZenonT(30)
<1>3. Newest(l, rt, s, m, n)
  <2>1. ASSUME NEW x \in Nat, NEW y \in Nat, Has(l, rt, s, x, y)
        PROVE  x < m \/ (x = m /\ y <= n)
    <3>1. x \in K /\ x <= m
      BY <1>1, <2>1
    <3>2. x = m => y \in J
      BY <2>1
    <3> QED  BY <1>2, <3>1, <3>2
  <2> QED  BY <1>2, <2>1 DEF Newest
<1> QED  BY <1>3

\* Replay applies the same records to slot s.
Alike(l1, r1, l2, r2, s) ==
  \A k, j \in Nat : /\ Has(l1, r1, s, k, j) <=> Has(l2, r2, s, k, j)
                    /\ Has(l1, r1, s, k, j) => l1[k][j].head = l2[k][j].head

\* Replay of two index areas gives a slot the same head when it applies the
\* same records to it.
LEMMA SameRecords ==
  ASSUME NEW l1 \in Logs, NEW r1, NEW l2 \in Logs, NEW r2, NEW s \in Slots,
         Alike(l1, r1, l2, r2, s)
  PROVE  Recovered(l1, r1)[s] = Recovered(l2, r2)[s]
<1>1. \A k, j \in Nat : Newest(l1, r1, s, k, j) <=> Newest(l2, r2, s, k, j)
  BY DEF Newest, Alike
<1>2. CASE \E k, j \in Nat : Newest(l1, r1, s, k, j)
  <2>1. PICK k \in Nat, j \in Nat : Newest(l1, r1, s, k, j)
    BY <1>2
  <2>2. l1[k][j].head = l2[k][j].head
    BY <2>1 DEF Newest, Alike
  <2> QED  BY <1>1, <2>1, <2>2, RecoveredIs
<1>3. CASE \A k, j \in Nat : ~Newest(l1, r1, s, k, j)
  BY <1>1, <1>3, RecoveredIs
<1> QED  BY <1>2, <1>3
-----------------------------------------------------------------------------
(* How the flash operations change what replay finds. *)

\* l1 and l2 hold the same records up to record n of the last sector.
SameBody(l1, l2, n) ==
  /\ Len(l2) = Len(l1) /\ \A k \in 1..(Len(l1) - 1) : l2[k] = l1[k]
  /\ n <= Len(LastOf(l1)) /\ n <= Len(LastOf(l2))
  /\ \A j \in 1..n : LastOf(l2)[j] = LastOf(l1)[j]

\* Nothing behind record n of the last sector is applied to a slot.
EndsAt(l, rt, n) ==
  \/ Len(LastOf(l)) = n /\ ~BadTail(l, rt)
  \/ Len(LastOf(l)) = n + 1 /\ (BadTail(l, rt) \/ TailOf(l).slot \notin Slots)

\* The records of a slot in an area whose settled records end at n.
LEMMA SettledRecords ==
  ASSUME NEW l \in Logs, NEW rt, NEW n \in Nat, EndsAt(l, rt, n), NEW s \in Slots,
         NEW k \in Nat, NEW j \in Nat
  PROVE  Has(l, rt, s, k, j) <=>
           /\ k \in 1..Len(l) /\ j \in 1..(IF k = Len(l) THEN n ELSE Len(l[k])) /\ l[k][j].slot = s
<1>1. /\ Len(l) \in Nat /\ Len(l) \in 1..Len(l) /\ Len(l[Len(l)]) \in Nat
      /\ LastOf(l) = l[Len(l)] /\ TailOf(l) = l[Len(l)][Len(l[Len(l)])]
  BY LogTypes
<1>2. CASE k # Len(l)
  BY <1>2 DEF Has
<1>3. CASE k = Len(l)
  BY <1>1, <1>3 DEF Has, EndsAt
<1> QED  BY <1>2, <1>3

\* The same, with the last sector by its number.
BodyFacts(l1, l2, n) ==
  /\ Len(l2) = Len(l1) /\ \A k \in 1..Len(l1) : k # Len(l1) => l2[k] = l1[k]
  /\ \A j \in 1..n : l2[Len(l1)][j] = l1[Len(l1)][j]

\* Two areas with the same body have the same number of sectors.
LEMMA SameBodyFacts ==
  ASSUME NEW l1 \in Logs, NEW l2 \in Logs, NEW n \in Nat, SameBody(l1, l2, n)
  PROVE  BodyFacts(l1, l2, n)
<1>1. /\ Len(l1) \in Nat /\ LastOf(l1) = l1[Len(l1)] /\ LastOf(l2) = l2[Len(l2)]
  BY LogTypes
<1> QED  BY <1>1, SMTT(30) DEF SameBody, BodyFacts

\* Areas with the same settled records are replayed alike: a torn or clobbered
\* terminal record changes nothing.
LEMMA SameBodySameNames ==
  ASSUME NEW l1 \in Logs, NEW r1, NEW l2 \in Logs, NEW r2, NEW n \in Nat,
         SameBody(l1, l2, n), EndsAt(l1, r1, n), EndsAt(l2, r2, n)
  PROVE  Recovered(l2, r2) = Recovered(l1, r1)
<1>1. ASSUME NEW s \in Slots
      PROVE  Recovered(l2, r2)[s] = Recovered(l1, r1)[s]
  <2>1. ASSUME NEW k \in Nat, NEW j \in Nat
        PROVE  /\ Has(l2, r2, s, k, j) <=> Has(l1, r1, s, k, j)
               /\ Has(l2, r2, s, k, j) => l2[k][j].head = l1[k][j].head
    <3>1. Has(l1, r1, s, k, j) <=>
            k \in 1..Len(l1) /\ j \in 1..(IF k = Len(l1) THEN n ELSE Len(l1[k])) /\ l1[k][j].slot = s
      BY SettledRecords
    <3>2. Has(l2, r2, s, k, j) <=>
            k \in 1..Len(l2) /\ j \in 1..(IF k = Len(l2) THEN n ELSE Len(l2[k])) /\ l2[k][j].slot = s
      BY SettledRecords
    <3>3. BodyFacts(l1, l2, n)
      BY SameBodyFacts
    <3>4. CASE k = Len(l1)
      BY <3>1, <3>2, <3>3, <3>4 DEF BodyFacts
    <3>5. CASE k # Len(l1) /\ k \in 1..Len(l1)
      <4>1. l2[k] = l1[k] /\ Len(l2) = Len(l1)
        BY <3>3, <3>5 DEF BodyFacts
      <4> QED  BY <3>1, <3>2, <3>5, <4>1
    <3>6. CASE k \notin 1..Len(l1)
      BY <3>1, <3>2, <3>3, <3>6 DEF BodyFacts
    <3> QED  BY <3>4, <3>5, <3>6
  <2>2. Alike(l2, r2, l1, r1, s)
    BY <2>1 DEF Alike
  <2> QED  BY <2>2, SameRecords
<1> QED  BY <1>1 DEF Recovered

\* l2 has the records of l1 up to the n-th of the last sector, where l1's stop
\* counting, and then a terminal record of a slot that replay takes.
TailTaken(l1, r1, l2, r2, n) ==
  /\ SameBody(l1, l2, n) /\ EndsAt(l1, r1, n)
  /\ Len(LastOf(l2)) = n + 1 /\ ~BadTail(l2, r2) /\ TailOf(l2).slot \in Slots

\* What replay finds in l2 is what it finds in l1, but for l2's terminal record.
TailWins(l1, r1, l2, r2) ==
  Recovered(l2, r2) = [Recovered(l1, r1) EXCEPT ![TailOf(l2).slot] = TailOf(l2).head]

\* A terminal record that replay accepts decides its slot and no other.
LEMMA TailDecides ==
  ASSUME NEW l1 \in Logs, NEW r1, NEW l2 \in Logs, NEW r2, NEW n \in Nat,
         TailTaken(l1, r1, l2, r2, n)
  PROVE  TailWins(l1, r1, l2, r2)
<1> USE DEF TailTaken, TailWins
<1> DEFINE t == TailOf(l2)
<1>0. /\ BodyFacts(l1, l2, n) /\ LastOf(l2) = l2[Len(l2)] /\ t = l2[Len(l2)][Len(l2[Len(l2)])]
      /\ Len(l2) \in Nat /\ Len(l2) \in 1..Len(l2)
  BY SameBodyFacts, LogTypes
<1>1. /\ Len(l2) \in 1..Len(l2) /\ Len(l1) = Len(l2) /\ Len(l1) \in Nat
      /\ l2[Len(l2)][n + 1] = t /\ Len(l2[Len(l2)]) = n + 1
  BY <1>0 DEF BodyFacts
<1>2. ASSUME NEW s \in Slots, s # t.slot
      PROVE  Recovered(l2, r2)[s] = Recovered(l1, r1)[s]
  <2>1. ASSUME NEW k \in Nat, NEW j \in Nat
        PROVE  /\ Has(l2, r2, s, k, j) <=> Has(l1, r1, s, k, j)
               /\ Has(l2, r2, s, k, j) => l2[k][j].head = l1[k][j].head
    <3>1. CASE k = Len(l1)
      <4>1. Has(l2, r2, s, k, j) <=> j \in 1..(n + 1) /\ l2[k][j].slot = s
        BY <1>1, <3>1 DEF Has
      <4>2. Has(l1, r1, s, k, j) <=> j \in 1..n /\ l1[k][j].slot = s
        BY <1>1, <3>1, SettledRecords
      <4>3. \A i \in 1..n : l2[k][i] = l1[k][i]
        BY <1>0, <3>1 DEF BodyFacts
      <4>4. l2[k][n + 1].slot # s
        BY <1>1, <1>2, <3>1
      <4>5. Has(l2, r2, s, k, j) <=> j \in 1..n /\ l2[k][j].slot = s
        BY <4>1, <4>4
      <4> QED  BY <4>2, <4>3, <4>5
    <3>2. CASE k # Len(l1) /\ k \in 1..Len(l1)
      <4>1. l2[k] = l1[k]
        BY <1>0, <3>2 DEF BodyFacts
      <4> QED  BY <1>1, <3>2, <4>1 DEF Has
    <3>3. CASE k \notin 1..Len(l1)
      BY <1>1, <3>3 DEF Has
    <3> QED  BY <3>1, <3>2, <3>3
  <2>2. Alike(l2, r2, l1, r1, s)
    BY <2>1 DEF Alike
  <2> QED  BY <2>2, SameRecords
<1>3. Recovered(l2, r2)[t.slot] = t.head
  <2>1. Newest(l2, r2, t.slot, Len(l2), n + 1)
    <3>1. Has(l2, r2, t.slot, Len(l2), n + 1)
      BY <1>1 DEF Has
    <3>2. ASSUME NEW k \in Nat, NEW j \in Nat, Has(l2, r2, t.slot, k, j)
          PROVE  k < Len(l2) \/ (k = Len(l2) /\ j <= n + 1)
      BY <1>1, <3>2, SMTT(30) DEF Has
    <3> QED  BY <3>1, <3>2 DEF Newest
  <2> QED  BY <1>1, <2>1, RecoveredIs
<1>4. DOMAIN Recovered(l1, r1) = Slots /\ Recovered(l2, r2) = [s \in Slots |-> Recovered(l2, r2)[s]]
      /\ Recovered(l1, r1) = [s \in Slots |-> Recovered(l1, r1)[s]]
  BY DEF Recovered
<1> HIDE DEF t
<1>5. Recovered(l2, r2) = [Recovered(l1, r1) EXCEPT ![t.slot] = t.head]
  BY <1>2, <1>3, <1>4
<1> QED  BY <1>5 DEF t

\* Roots matter only for the terminal record.
LEMMA RootsOfTail ==
  ASSUME NEW l \in Logs, NEW r1, NEW r2, ~BadTail(l, r1), ~BadTail(l, r2)
  PROVE  /\ Recovered(l, r1) = Recovered(l, r2)
         /\ \A s, k, j : Newest(l, r1, s, k, j) <=> Newest(l, r2, s, k, j)
<1>1. \A s, k, j : Has(l, r1, s, k, j) <=> Has(l, r2, s, k, j)
  BY DEF Has
<1>2. Applies(l, r1) = Applies(l, r2)
  BY DEF Applies
<1> QED  BY <1>1, <1>2 DEF Newest, Recovered, LastFor

\* index_compact_oldest_finish: without the oldest sector replay finds the
\* same, when what that sector says last is that a slot is free.
LEMMA OldestDropped ==
  ASSUME NEW l \in Logs, NEW rt, Len(l) >= 2,
         \A s \in Slots, j \in Nat : Newest(l, rt, s, 1, j) => l[1][j].head = Free
  PROVE  /\ Tail(l) \in Logs /\ Len(Tail(l)) = Len(l) - 1
         /\ LastOf(Tail(l)) = LastOf(l) /\ (BadTail(Tail(l), rt) <=> BadTail(l, rt))
         /\ Recovered(Tail(l), rt) = Recovered(l, rt)
         /\ \A k \in 1..(Len(l) - 1) : Tail(l)[k] = l[k + 1]
<1> DEFINE t == Tail(l)
<1>0. Len(l) \in Nat /\ \A k \in 1..Len(l) : Len(l[k]) <= RecordsPerSector
  BY LogTypes
<1>1. t \in Seq(Seq(Records)) /\ Len(t) = Len(l) - 1 /\ \A k \in 1..(Len(l) - 1) : t[k] = l[k + 1]
  BY DEF Logs
<1> HIDE DEF t
<1>2. t \in Logs
  <2>1. \A k \in 1..Len(t) : k + 1 \in 1..Len(l) /\ t[k] = l[k + 1]
    BY <1>0, <1>1
  <2>2. \A k \in 1..Len(t) : Len(t[k]) <= RecordsPerSector
    BY <1>0, <2>1
  <2> QED  BY <1>0, <1>1, <2>2 DEF Logs
<1>3. LastOf(t) = LastOf(l)
  BY <1>0, <1>1 DEF LastOf
<1>4. BadTail(t, rt) <=> BadTail(l, rt)
  BY <1>3 DEF BadTail, HasTail, TailOf
<1>5. ASSUME NEW s \in Slots, NEW k \in Nat, NEW j \in Nat, k >= 1
      PROVE  Has(t, rt, s, k, j) <=> Has(l, rt, s, k + 1, j)
  BY <1>1, <1>4, <1>5, SMTT(30) DEF Has
<1>6. ASSUME NEW s \in Slots
      PROVE  Recovered(t, rt)[s] = Recovered(l, rt)[s]
  <2>1. CASE \E k, j \in Nat : Newest(l, rt, s, k, j) /\ k >= 2
    <3>1. PICK k \in Nat, j \in Nat : Newest(l, rt, s, k, j) /\ k >= 2
      BY <2>1
    <3>2. Newest(t, rt, s, k - 1, j)
      <4>1. Has(t, rt, s, k - 1, j)
        BY <1>5, <3>1 DEF Newest
      <4>2. ASSUME NEW m \in Nat, NEW n \in Nat, Has(t, rt, s, m, n)
            PROVE  m < k - 1 \/ (m = k - 1 /\ n <= j)
        <5>1. m >= 1
          BY <4>2 DEF Has
        <5>2. Has(l, rt, s, m + 1, n)
          BY <1>5, <4>2, <5>1
        <5> QED  BY <3>1, <5>2 DEF Newest
      <4> QED  BY <4>1, <4>2 DEF Newest
    <3>3. t[k - 1][j] = l[k][j]
      <4>1. k - 1 \in 1..(Len(l) - 1) /\ (k - 1) + 1 = k
        BY <1>0, <3>1 DEF Newest, Has
      <4>2. t[k - 1] = l[(k - 1) + 1]
        BY <1>1, <4>1
      <4> QED  BY <4>1, <4>2
    <3> QED  BY <1>2, <3>1, <3>2, <3>3, RecoveredIs
  <2>2. CASE ~\E k, j \in Nat : Newest(l, rt, s, k, j) /\ k >= 2
    <3>1. Recovered(l, rt)[s] = Free
      <4>1. CASE \E k, j \in Nat : Newest(l, rt, s, k, j)
        <5>1. PICK k \in Nat, j \in Nat : Newest(l, rt, s, k, j)
          BY <4>1
        <5>2. k = 1
          BY <2>2, <5>1 DEF Newest, Has
        <5> QED  BY <5>1, <5>2, RecoveredIs
      <4>2. CASE ~\E k, j \in Nat : Newest(l, rt, s, k, j)
        BY <4>2, RecoveredIs
      <4> QED  BY <4>1, <4>2
    <3>2. ASSUME NEW k \in Nat, NEW j \in Nat, Newest(t, rt, s, k, j)
          PROVE  FALSE
      <4>0. k + 1 \in Nat /\ k >= 1
        BY <3>2 DEF Newest, Has
      <4>1. Has(l, rt, s, k + 1, j)
        BY <1>5, <3>2, <4>0 DEF Newest
      <4>2. PICK m \in Nat, n \in Nat : Newest(l, rt, s, m, n)
        BY <4>0, <4>1, NewestExists, ZenonT(30)
      <4>3. m >= 2
        BY <4>0, <4>1, <4>2, SMTT(30) DEF Newest
      <4> QED  BY <2>2, <4>2, <4>3
    <3> QED  BY <1>2, <3>1, <3>2, RecoveredIs
  <2> QED  BY <2>1, <2>2
<1>7. Recovered(t, rt) = Recovered(l, rt)
  BY <1>6, ZenonT(30) DEF Recovered
<1> QED  BY <1>1, <1>2, <1>3, <1>4, <1>7 DEF t

\* The records of sec say what replay of l finds, and their roots are live.
CurrentRecords(l, rt, sec) ==
  \A i \in 1..Len(sec) : /\ sec[i].slot \in Slots /\ sec[i].head \in DataSectors
                         /\ Recovered(l, rt)[sec[i].slot] = sec[i].head
                         /\ <<sec[i].slot, sec[i].head>> \in rt

\* l2 is l with the sector sec behind it, and replay finds the same in both.
GrownBy(l, l2, rt, sec) ==
  /\ l2 \in Logs /\ Len(l2) = Len(l) + 1
  /\ \A k \in 1..Len(l) : l2[k] = l[k]
  /\ l2[Len(l) + 1] = sec
  /\ ~BadTail(l2, rt)
  /\ Recovered(l2, rt) = Recovered(l, rt)
  /\ \A s \in Slots, j \in Nat : Newest(l2, rt, s, 1, j) =>
        Newest(l, rt, s, 1, j) /\ \A i \in 1..Len(sec) : sec[i].slot # s

\* rotate_index_commit: a sector of current records with live roots becomes
\* valid, and replay finds the same as before.
LEMMA SectorAppended ==
  ASSUME NEW l \in Logs, NEW rt, ~BadTail(l, rt),
         NEW sec \in Seq(Records), Len(sec) <= RecordsPerSector,
         CurrentRecords(l, rt, sec)
  PROVE  GrownBy(l, Append(l, sec), rt, sec)
<1> USE DEF CurrentRecords
<1> DEFINE l2 == Append(l, sec)
<1>1. Len(l) \in Nat /\ Len(l) >= 1 /\ \A k \in 1..Len(l) : Len(l[k]) \in Nat /\ Len(l[k]) <= RecordsPerSector
  BY LogTypes
<1>2. /\ l2 \in Seq(Seq(Records)) /\ Len(l2) = Len(l) + 1
      /\ \A k \in 1..Len(l) : l2[k] = l[k]
      /\ l2[Len(l) + 1] = sec
  BY DEF Logs
<1> HIDE DEF l2
<1>3. l2 \in Logs
  <2>1. ASSUME NEW k \in 1..Len(l2)
        PROVE  Len(l2[k]) <= RecordsPerSector
    <3>1. k \in 1..Len(l) \/ k = Len(l) + 1
      BY <1>1, <1>2
    <3> QED  BY <1>1, <1>2, <3>1, ZenonT(30)
  <2> QED  BY <1>1, <1>2, <2>1 DEF Logs
<1>4. ~BadTail(l2, rt)
  <2>1. LastOf(l2) = sec
    BY <1>2 DEF LastOf
  <2>2. CASE sec = <<>>
    BY <2>1, <2>2 DEF BadTail, HasTail
  <2>3. CASE sec # <<>>
    <3>1. Len(sec) \in 1..Len(sec)
      BY <2>3
    <3>2. TailOf(l2) = sec[Len(sec)]
      BY <2>1 DEF TailOf, LastOf
    <3>3. TailOk(sec[Len(sec)], rt)
      BY <3>1, SlotsAssumption, ZenonT(30) DEF TailOk, WellFormed
    <3> QED  BY <3>2, <3>3 DEF BadTail
  <2> QED  BY <2>2, <2>3
<1>5. ASSUME NEW s, NEW k \in Nat, NEW j \in Nat
      PROVE  Has(l2, rt, s, k, j) <=>
               Has(l, rt, s, k, j) \/ (k = Len(l) + 1 /\ j \in 1..Len(sec) /\ sec[j].slot = s)
  <2>1. CASE k \in 1..Len(l)
    BY <1>1, <1>2, <1>4, <2>1, SMTT(30) DEF Has
  <2>2. CASE k = Len(l) + 1
    BY <1>1, <1>2, <1>4, <2>2 DEF Has
  <2>3. CASE k \notin 1..(Len(l) + 1)
    BY <1>1, <1>2, <2>3 DEF Has
  <2> QED  BY <1>1, <2>1, <2>2, <2>3
<1>6. ASSUME NEW s \in Slots
      PROVE  Recovered(l2, rt)[s] = Recovered(l, rt)[s]
  <2>1. CASE \E i \in 1..Len(sec) : sec[i].slot = s
    <3>1. PICK i \in 1..Len(sec) : sec[i].slot = s
      BY <2>1
    <3>2. Has(l2, rt, s, Len(l) + 1, i) /\ Len(l) + 1 \in Nat /\ i \in Nat
      BY <1>1, <1>5, <3>1
    <3>3. PICK k \in Nat, j \in Nat : Newest(l2, rt, s, k, j)
      BY <1>3, <3>2, NewestExists, ZenonT(30)
    <3>4. Has(l2, rt, s, k, j) /\ (Len(l) + 1 < k \/ (Len(l) + 1 = k /\ i <= j))
      BY <3>2, <3>3 DEF Newest
    <3>5. k = Len(l) + 1 /\ j \in 1..Len(sec) /\ sec[j].slot = s
      <4>1. Has(l, rt, s, k, j) \/ (k = Len(l) + 1 /\ j \in 1..Len(sec) /\ sec[j].slot = s)
        BY <1>5, <3>4, ZenonT(30)
      <4>2. ~Has(l, rt, s, k, j)
        BY <1>1, <3>4 DEF Has
      <4> QED  BY <4>1, <4>2
    <3>6. Recovered(l2, rt)[s] = l2[k][j].head
      <4>1. \A m, n \in Nat : Newest(l2, rt, s, m, n) => Recovered(l2, rt)[s] = l2[m][n].head
        BY <1>3, RecoveredIs
      <4> QED  BY <3>3, <4>1, ZenonT(30)
    <3>7. l2[k][j].head = sec[j].head
      BY <1>2, <3>5, ZenonT(30)
    <3> QED  BY <3>5, <3>6, <3>7, ZenonT(30)
  <2>2. CASE ~\E i \in 1..Len(sec) : sec[i].slot = s
    <3>1. ASSUME NEW k \in Nat, NEW j \in Nat
          PROVE  /\ Has(l2, rt, s, k, j) <=> Has(l, rt, s, k, j)
                 /\ Has(l2, rt, s, k, j) => l2[k][j].head = l[k][j].head
      <4>1. Has(l2, rt, s, k, j) <=> Has(l, rt, s, k, j)
        BY <1>5, <2>2
      <4>2. Has(l, rt, s, k, j) => l2[k] = l[k]
        BY <1>2 DEF Has
      <4> QED  BY <4>1, <4>2, ZenonT(30)
    <3>2. Alike(l2, rt, l, rt, s)
      BY <3>1, SMTT(30) DEF Alike
    <3> QED  BY <1>3, <3>2, SameRecords, SMTT(30)
  <2> QED  BY <2>1, <2>2
<1>7. Recovered(l2, rt) = Recovered(l, rt)
  BY <1>6, ZenonT(30) DEF Recovered
<1>8. ASSUME NEW s \in Slots, NEW j \in Nat, Newest(l2, rt, s, 1, j)
      PROVE  Newest(l, rt, s, 1, j) /\ \A i \in 1..Len(sec) : sec[i].slot # s
  <2>1. \A i \in 1..Len(sec) : sec[i].slot # s
    <3> SUFFICES ASSUME NEW i \in 1..Len(sec), sec[i].slot = s
                 PROVE  FALSE
      OBVIOUS
    <3>1. Has(l2, rt, s, Len(l) + 1, i) /\ Len(l) + 1 \in Nat /\ i \in Nat
      BY <1>1, <1>5
    <3> QED  BY <1>1, <1>8, <3>1 DEF Newest
  <2>2. \A k, n \in Nat : Has(l2, rt, s, k, n) <=> Has(l, rt, s, k, n)
    BY <1>5, <2>1
  <2> QED  BY <1>8, <2>1, <2>2, ZenonT(30) DEF Newest
<1>9. GrownBy(l, l2, rt, sec)
  BY <1>2, <1>3, <1>4, <1>7, <1>8, ZenonT(30) DEF GrownBy
<1> QED  BY <1>9, ZenonT(30) DEF l2

\* l2 is l with r as record n + 1, the terminal one, of the last sector.
EndsWith(l, l2, n, r) ==
  /\ l2 \in Logs /\ SameBody(l, l2, n) /\ Len(LastOf(l2)) = n + 1
  /\ HasTail(l2) /\ TailOf(l2) = r
  /\ \A k \in 1..Len(l2) : \A j \in 1..Len(l2[k]) :
       \/ k = Len(l2) /\ j = Len(l2[k])
       \/ /\ k \in 1..Len(l) /\ j \in 1..Len(l[k]) /\ l2[k][j] = l[k][j]
          /\ k = Len(l) => j <= n

\* Programming a record behind the last one.
LEMMA RecordAppended ==
  ASSUME NEW l \in Logs, NEW r \in Records, r # [slot |-> SlotBits, head |-> HeadBits],
         Len(LastOf(l)) < RecordsPerSector
  PROVE  EndsWith(l, [l EXCEPT ![Len(l)] = Program(@, Len(LastOf(l)) + 1, r)], Len(LastOf(l)), r)
<1> DEFINE n == Len(LastOf(l))
           sec == Append(l[Len(l)], r)
           l2 == [l EXCEPT ![Len(l)] = sec]
<1>1. /\ Len(l) \in Nat /\ Len(l) \in 1..Len(l) /\ LastOf(l) = l[Len(l)] /\ n \in Nat
      /\ \A k \in 1..Len(l) : Len(l[k]) \in Nat /\ Len(l[k]) <= RecordsPerSector
  BY LogTypes
<1>2. l \in Seq(Seq(Records)) /\ l[Len(l)] \in Seq(Records) /\ n = Len(l[Len(l)])
  BY <1>1 DEF Logs
<1>3. [l EXCEPT ![Len(l)] = Program(@, n + 1, r)] = l2
  <2>1. ~(n + 1 <= Len(l[Len(l)]))
    BY <1>1, <1>2
  <2>2. Program(l[Len(l)], n + 1, r) = sec
    BY <2>1 DEF Program
  <2> QED  BY <2>2, ZenonT(30)
<1>4. /\ sec \in Seq(Records) /\ Len(sec) = n + 1 /\ sec[n + 1] = r /\ sec # <<>>
      /\ \A j \in 1..n : sec[j] = l[Len(l)][j]
  BY <1>2
<1> HIDE DEF sec
<1>5. /\ l2 \in Seq(Seq(Records)) /\ Len(l2) = Len(l) /\ l2[Len(l)] = sec
      /\ \A k \in 1..Len(l) : k # Len(l) => l2[k] = l[k]
  BY <1>1, <1>2, <1>4
<1> HIDE DEF l2, n
<1>6. l2 \in Logs
  <2>1. \A k \in 1..Len(l2) : Len(l2[k]) <= RecordsPerSector
    <3>1. n + 1 <= RecordsPerSector
      BY <1>1, OneMoreFits, ZenonT(30) DEF n
    <3> QED  BY <1>1, <1>4, <1>5, <3>1, ZenonT(30)
  <2> QED  BY <1>1, <1>5, <2>1 DEF Logs
<1>7. LastOf(l2) = sec /\ TailOf(l2) = r
  BY <1>4, <1>5 DEF LastOf, TailOf
<1>8. SameBody(l, l2, n)
  BY <1>1, <1>2, <1>4, <1>5, <1>7 DEF SameBody
<1>9. ASSUME NEW k \in 1..Len(l2), NEW j \in 1..Len(l2[k])
      PROVE  \/ k = Len(l2) /\ j = Len(l2[k])
             \/ /\ k \in 1..Len(l) /\ j \in 1..Len(l[k]) /\ l2[k][j] = l[k][j]
                /\ k = Len(l) => j <= n
  <2>1. CASE k = Len(l)
    BY <1>1, <1>2, <1>4, <1>5, <2>1, SMTT(30)
  <2>2. CASE k # Len(l)
    BY <1>5, <2>2, SMTT(30)
  <2> QED  BY <2>1, <2>2
<1>10. EndsWith(l, l2, n, r)
  BY <1>4, <1>6, <1>7, <1>8, <1>9, SMTT(30) DEF EndsWith, HasTail
<1> QED  BY <1>3, <1>10, ZenonT(30) DEF n

\* Programming over the terminal record: bits are only cleared.
LEMMA RecordProgrammed ==
  ASSUME NEW l \in Logs, HasTail(l), NEW r \in Records
  PROVE  /\ Len(LastOf(l)) - 1 \in Nat
         /\ EndsWith(l, [l EXCEPT ![Len(l)] = Program(@, Len(LastOf(l)), r)], Len(LastOf(l)) - 1,
                     [slot |-> TailOf(l).slot \cap r.slot, head |-> TailOf(l).head \cap r.head])
<1> DEFINE n == Len(LastOf(l)) - 1
           t == l[Len(l)][Len(l[Len(l)])]
           x == [slot |-> t.slot \cap r.slot, head |-> t.head \cap r.head]
           sec == [l[Len(l)] EXCEPT ![n + 1] = x]
           l2 == [l EXCEPT ![Len(l)] = sec]
<1>1. /\ Len(l) \in Nat /\ Len(l) \in 1..Len(l) /\ LastOf(l) = l[Len(l)] /\ Len(LastOf(l)) \in Nat
      /\ \A k \in 1..Len(l) : Len(l[k]) \in Nat /\ Len(l[k]) <= RecordsPerSector
      /\ TailOf(l) = t
  BY LogTypes
<1>2. /\ l \in Seq(Seq(Records)) /\ l[Len(l)] \in Seq(Records) /\ n + 1 = Len(l[Len(l)])
      /\ n \in Nat /\ l[Len(l)][n + 1] = t /\ t \in Records
  <2>1. l \in Seq(Seq(Records)) /\ l[Len(l)] \in Seq(Records) /\ l[Len(l)] # <<>>
    BY <1>1 DEF Logs, HasTail
  <2>2. n + 1 = Len(l[Len(l)]) /\ n \in Nat
    BY <1>1, <2>1
  <2>3. l[Len(l)][n + 1] = t /\ t \in Records
    BY <2>1, <2>2
  <2> QED  BY <2>1, <2>2, <2>3
<1>3. x \in Records
  BY <1>2 DEF Records, SlotWords, HeadWords
<1>4. [l EXCEPT ![Len(l)] = Program(@, Len(LastOf(l)), r)] = l2
  <2>1. Len(LastOf(l)) = n + 1 /\ Len(LastOf(l)) <= Len(l[Len(l)])
    BY <1>1, <1>2
  <2>2. Program(l[Len(l)], Len(LastOf(l)), r) = sec
    BY <1>2, <2>1, ZenonT(30) DEF Program
  <2> QED  BY <2>2
<1> HIDE DEF x, t, n
<1>5. /\ sec \in Seq(Records) /\ Len(sec) = n + 1 /\ sec[n + 1] = x /\ sec # <<>>
      /\ \A j \in 1..n : sec[j] = l[Len(l)][j]
  BY <1>2, <1>3
<1> HIDE DEF sec
<1>6. /\ l2 \in Seq(Seq(Records)) /\ Len(l2) = Len(l) /\ l2[Len(l)] = sec
      /\ \A k \in 1..Len(l) : k # Len(l) => l2[k] = l[k]
  BY <1>1, <1>2, <1>5
<1> HIDE DEF l2
<1>7. l2 \in Logs
  <2>1. \A k \in 1..Len(l2) : Len(l2[k]) <= RecordsPerSector
    BY <1>1, <1>2, <1>5, <1>6, ZenonT(30)
  <2> QED  BY <1>1, <1>6, <2>1 DEF Logs
<1>8. LastOf(l2) = sec /\ TailOf(l2) = x
  BY <1>5, <1>6 DEF LastOf, TailOf
<1>9. SameBody(l, l2, n)
  BY <1>1, <1>2, <1>5, <1>6, <1>8 DEF SameBody
<1>10. ASSUME NEW k \in 1..Len(l2), NEW j \in 1..Len(l2[k])
       PROVE  \/ k = Len(l2) /\ j = Len(l2[k])
              \/ /\ k \in 1..Len(l) /\ j \in 1..Len(l[k]) /\ l2[k][j] = l[k][j]
                 /\ k = Len(l) => j <= n
  <2>1. CASE k = Len(l)
    BY <1>1, <1>2, <1>5, <1>6, <2>1, SMTT(30)
  <2>2. CASE k # Len(l)
    BY <1>6, <2>2, ZenonT(30)
  <2> QED  BY <2>1, <2>2, SMTT(30)
<1>11. EndsWith(l, l2, n, x)
  BY <1>5, <1>7, <1>8, <1>9, <1>10, ZenonT(30) DEF EndsWith, HasTail
<1> QED  BY <1>1, <1>2, <1>4, <1>11, ZenonT(30) DEF n, x

\* A terminal record that replay accepts is what it finds for that slot.
LEMMA TailCurrent ==
  ASSUME NEW l \in Logs, NEW rt, HasTail(l), ~BadTail(l, rt), TailOf(l).slot \in Slots
  PROVE  Recovered(l, rt)[TailOf(l).slot] = TailOf(l).head
<1> DEFINE k == Len(l)
           j == Len(l[Len(l)])
<1>1. /\ k \in Nat /\ k \in 1..Len(l) /\ j \in Nat /\ TailOf(l) = l[k][j] /\ LastOf(l) = l[k]
  BY LogTypes
<1>2. l[k] \in Seq(Records) /\ l[k] # <<>>
  BY <1>1 DEF Logs, HasTail
<1>3. j \in 1..Len(l[k])
  BY <1>2
<1>4. Has(l, rt, TailOf(l).slot, k, j)
  BY <1>1, <1>3 DEF Has
<1>5. ASSUME NEW m \in Nat, NEW n \in Nat, Has(l, rt, TailOf(l).slot, m, n)
      PROVE  m < k \/ (m = k /\ n <= j)
  BY <1>1, <1>5 DEF Has
<1>6. Newest(l, rt, TailOf(l).slot, k, j)
  BY <1>4, <1>5, ZenonT(30) DEF Newest
<1>7. \A m, n \in Nat : Newest(l, rt, TailOf(l).slot, m, n) =>
                           Recovered(l, rt)[TailOf(l).slot] = l[m][n].head
  BY RecoveredIs
<1> QED  BY <1>1, <1>6, <1>7

\* A new terminal record leaves the shape, if it is proper or not applied.
LEMMA ShapeKept ==
  ASSUME NEW l \in Logs, NEW rt, ShapeOf(l, rt), NEW l2, NEW n \in Nat, NEW r, NEW rt2,
         EndsWith(l, l2, n, r),
         ~BadTail(l, rt) \/ n < Len(LastOf(l)),
         r \in Proper \/ BadTail(l2, rt2)
  PROVE  ShapeOf(l2, rt2)
<1>1. Len(l2) \in Nat /\ LastOf(l) = l[Len(l)] /\ TailOf(l2) = l2[Len(l2)][Len(l2[Len(l2)])]
      /\ TailOf(l2) = r /\ Len(LastOf(l)) \in Nat
  BY LogTypes, ZenonT(30) DEF EndsWith
<1> SUFFICES ASSUME NEW k \in 1..Len(l2), NEW j \in 1..Len(l2[k])
             PROVE  l2[k][j] \in Proper \/ (k = Len(l2) /\ j = Len(l2[k]) /\ BadTail(l2, rt2))
  BY DEF ShapeOf
<1>2. CASE k = Len(l2) /\ j = Len(l2[k])
  BY <1>1, <1>2, ZenonT(30)
<1>3. CASE ~(k = Len(l2) /\ j = Len(l2[k]))
  <2>1. /\ k \in 1..Len(l) /\ j \in 1..Len(l[k]) /\ l2[k][j] = l[k][j]
        /\ k = Len(l) => j <= n
    BY <1>3 DEF EndsWith
  <2>2. l[k][j] \in Proper \/ (k = Len(l) /\ j = Len(l[k]) /\ BadTail(l, rt))
    BY <2>1 DEF ShapeOf
  <2>3. ~(k = Len(l) /\ j = Len(l[k]) /\ BadTail(l, rt))
    BY <1>1, <2>1
  <2> QED  BY <2>1, <2>2, <2>3
<1> QED  BY <1>2, <1>3, ZenonT(30)

\* Without a bad terminal record every record is proper.
LEMMA AllProper ==
  ASSUME NEW l, NEW rt, ShapeOf(l, rt), ~BadTail(l, rt)
  PROVE  /\ \A k \in 1..Len(l) : \A j \in 1..Len(l[k]) : l[k][j] \in Proper
         /\ \A rt2 : ShapeOf(l, rt2)
BY DEF ShapeOf
-----------------------------------------------------------------------------
(* The scans of the build without a RAM cache. *)

\* The positions of an area without a bad terminal record, and "newer" among
\* them, are those of replay.
LEMMA PositionsAre ==
  ASSUME NEW l \in Logs, NEW rt, ~BadTail(l, rt), NEW s, NEW p \in Positions(l)
  PROVE  /\ p[1] \in Nat /\ p[2] \in Nat /\ p = <<p[1], p[2]>>
         /\ p[1] \in 1..Len(l) /\ p[2] \in 1..Len(l[p[1]])
         /\ At(l, p) = l[p[1]][p[2]]
         /\ At(l, p).slot = s /\ ~NewerRecord(l, p, s) => Newest(l, rt, s, p[1], p[2])
<1>1. Len(l) \in Nat /\ \A k \in 1..Len(l) : Len(l[k]) \in Nat /\ Len(l[k]) <= RecordsPerSector
  BY LogTypes
<1>2. p \in (1..Len(l)) \X (1..RecordsPerSector) /\ p[2] <= Len(l[p[1]])
  BY DEF Positions
<1>3. /\ p[1] \in Nat /\ p[2] \in Nat /\ p = <<p[1], p[2]>>
      /\ p[1] \in 1..Len(l) /\ p[2] \in 1..Len(l[p[1]])
  BY <1>1, <1>2, RecordsPerSectorAssumption
<1>4. At(l, p) = l[p[1]][p[2]]
  BY DEF At
<1>5. ASSUME At(l, p).slot = s, ~NewerRecord(l, p, s)
      PROVE  Newest(l, rt, s, p[1], p[2])
  <2>1. Has(l, rt, s, p[1], p[2])
    BY <1>3, <1>4, <1>5 DEF Has
  <2>2. ASSUME NEW m \in Nat, NEW n \in Nat, Has(l, rt, s, m, n)
        PROVE  m < p[1] \/ (m = p[1] /\ n <= p[2])
    <3>1. m \in 1..Len(l) /\ n \in 1..Len(l[m]) /\ l[m][n].slot = s
      BY <2>2 DEF Has
    <3>2. n \in 1..RecordsPerSector /\ n <= Len(l[m])
      BY <1>1, <3>1, RecordsPerSectorAssumption
    <3>3. <<m, n>> \in Positions(l) /\ At(l, <<m, n>>).slot = s
      BY <3>1, <3>2, ZenonT(30) DEF Positions, At
    <3>4. NotAfter(<<m, n>>, p)
      BY <1>5, <3>3 DEF NewerRecord
    <3> QED  BY <3>4 DEF NotAfter
  <2> QED  BY <2>1, <2>2 DEF Newest
<1> QED  BY <1>3, <1>4, <1>5

\* And the other way round.
LEMMA NewestIsCurrent ==
  ASSUME NEW l \in Logs, NEW rt, ~BadTail(l, rt), NEW s, NEW k \in Nat, NEW j \in Nat,
         Newest(l, rt, s, k, j)
  PROVE  /\ <<k, j>> \in Positions(l) /\ At(l, <<k, j>>) = l[k][j] /\ l[k][j].slot = s
         /\ ~NewerRecord(l, <<k, j>>, s)
<1>1. Len(l) \in Nat /\ \A m \in 1..Len(l) : Len(l[m]) \in Nat /\ Len(l[m]) <= RecordsPerSector
  BY LogTypes
<1>2. k \in 1..Len(l) /\ j \in 1..Len(l[k]) /\ l[k][j].slot = s
  BY DEF Newest, Has
<1>3. j \in 1..RecordsPerSector /\ j <= Len(l[k])
  BY <1>1, <1>2, RecordsPerSectorAssumption
<1>4. <<k, j>> \in Positions(l) /\ At(l, <<k, j>>) = l[k][j]
  BY <1>2, <1>3 DEF Positions, At
<1>5. ASSUME NEW p \in Positions(l), At(l, p).slot = s
      PROVE  NotAfter(p, <<k, j>>)
  <2>1. /\ p[1] \in Nat /\ p[2] \in Nat /\ p[1] \in 1..Len(l) /\ p[2] \in 1..Len(l[p[1]])
        /\ At(l, p) = l[p[1]][p[2]]
    BY PositionsAre, ZenonT(30)
  <2>2. Has(l, rt, s, p[1], p[2])
    BY <1>5, <2>1 DEF Has
  <2> QED  BY <2>1, <2>2 DEF Newest, NotAfter
<1> QED  BY <1>2, <1>4, <1>5 DEF NewerRecord

\* fffs_index_head_for_slot finds what replay would.
LEMMA HeadIs ==
  ASSUME NEW l \in Logs, NEW rt, ~BadTail(l, rt), NEW s \in Slots
  PROVE  HeadForSlot(l, s) = Recovered(l, rt)[s]
<1> DEFINE found == {n \in Positions(l) : At(l, n).slot = s /\ ~NewerRecord(l, n, s)}
           c == CHOOSE n \in found : TRUE
<1>1. HeadForSlot(l, s) = IF found = {} THEN Free ELSE At(l, c).head
  BY DEF HeadForSlot
<1>2. \A p \in found : p \in Positions(l) /\ At(l, p).slot = s /\ ~NewerRecord(l, p, s)
  OBVIOUS
<1>3. \A p \in Positions(l) : At(l, p).slot = s /\ ~NewerRecord(l, p, s) => p \in found
  OBVIOUS
<1>4. found # {} => c \in found
  OBVIOUS
<1> HIDE DEF found, c
<1>5. /\ \A k, j \in Nat : Newest(l, rt, s, k, j) => Recovered(l, rt)[s] = l[k][j].head
      /\ (\A k, j \in Nat : ~Newest(l, rt, s, k, j)) => Recovered(l, rt)[s] = Free
  BY RecoveredIs
<1>6. CASE found = {}
  <2>1. ASSUME NEW k \in Nat, NEW j \in Nat, Newest(l, rt, s, k, j)
        PROVE  FALSE
    <3>1. /\ <<k, j>> \in Positions(l) /\ At(l, <<k, j>>) = l[k][j] /\ l[k][j].slot = s
          /\ ~NewerRecord(l, <<k, j>>, s)
      BY <2>1, NewestIsCurrent, ZenonT(30)
    <3> QED  BY <1>3, <1>6, <3>1
  <2> QED  BY <1>1, <1>5, <1>6, <2>1, SMTT(30)
<1>7. CASE found # {}
  <2>1. c \in Positions(l) /\ At(l, c).slot = s /\ ~NewerRecord(l, c, s)
    BY <1>2, <1>4, <1>7, ZenonT(30)
  <2>2. c[1] \in Nat /\ c[2] \in Nat /\ At(l, c) = l[c[1]][c[2]] /\ Newest(l, rt, s, c[1], c[2])
    BY <2>1, PositionsAre
  <2> QED  BY <1>1, <1>5, <1>7, <2>2, SMTT(30)
<1> QED  BY <1>6, <1>7

-----------------------------------------------------------------------------
On == pc \notin {"off", "replay"}

\* Every file of the namespace n has a live root.
Rooted(n) == \A s \in Slots : n[s] # Free => <<s, n[s]>> \in roots

\* Where the append is: what next counts, which sector is active, which
\* operation is in progress and how many sectors are valid.
Phase ==
  /\ pc \in {"copy", "header"} => active = "fresh" /\ next = Len(fresh) + 1
  /\ pc \notin {"copy", "header"} => active = "log"
  /\ pc \in {"idle", "append", "finish", "rotated"} => next = Len(LastOf(log)) + 1
  /\ pc = "idle" => op = NoOp
  /\ On /\ pc # "idle" => op # NoOp
  /\ pc \notin {"off", "finish"} => Len(log) < IndexSectors
  /\ pc = "copy" => Len(log) + 1 = IndexSectors
  /\ pc = "finish" => Len(log) = IndexSectors
  /\ pc = "head" => /\ HasTail(log) /\ next = Len(LastOf(log))
                    /\ TailOf(log) = [slot |-> op.slot, head |-> HeadBits]

\* Outside a program operation no record is improper.
Shape ==
  /\ ShapeOf(log, roots)
  /\ On /\ pc # "head" => ~BadTail(log, roots)

\* Roots that the index names, or is about to name, are live.
Roots ==
  /\ On => Rooted(cache)
  /\ ~On => Rooted(before)
  /\ op # NoOp /\ op.head # Free => <<op.slot, op.head>> \in roots

\* Compaction copies current records only, and has copied every current
\* record of the oldest sector that it has passed.
Copied(n) ==
  \A j \in 1..n : CarriedForward(log[1][j]) => \E i \in 1..Len(fresh) : fresh[i] = log[1][j]

Copying ==
  /\ pc \in {"copy", "header"} =>
       \A i \in 1..Len(fresh) : /\ fresh[i].slot \in Slots /\ fresh[i].head # Free
                                /\ cache[fresh[i].slot] = fresh[i].head
  /\ pc = "copy" => /\ src <= Len(log[1]) + 1 /\ Len(fresh) < src
                    /\ Copied(src - 1)
  /\ pc = "header" /\ Len(log) + 1 = IndexSectors => Copied(Len(log[1]))

\* A full index area: nothing that the oldest sector says is news.
OldestDone ==
  Len(log) = IndexSectors =>
    \A s \in Slots, j \in Nat : Newest(log, roots, s, 1, j) => log[1][j].head = Free

\* While the file system is mounted the cache is what replay would find.
Agree == On => Recovered(log, roots) = cache

\* The inductive invariant.
IInv ==
  TypeOK /\ Phase /\ Shape /\ Roots /\ Copying /\ OldestDone /\ Agree /\ CrashAtomic
-----------------------------------------------------------------------------
(* Facts about the state that the action lemmas share. *)

\* The index area fits, and an operation in progress is a record.
LEMMA Typed ==
  ASSUME TypeOK
  PROVE  /\ log \in Logs
         /\ Len(log) \in Nat /\ Len(log) \in 1..Len(log)
         /\ LastOf(log) = log[Len(log)] /\ Len(LastOf(log)) \in Nat
         /\ Len(LastOf(log)) <= RecordsPerSector
         /\ op # NoOp => op \in [slot : Slots, head : DataSectors \cup {Free}]
<1>1. log \in Logs
  BY DEF TypeOK, Logs
<1>2. /\ Len(log) \in Nat /\ Len(log) \in 1..Len(log) /\ LastOf(log) = log[Len(log)]
      /\ \A k \in 1..Len(log) : Len(log[k]) \in Nat /\ Len(log[k]) <= RecordsPerSector
  BY <1>1, LogTypes
<1> QED  BY <1>1, <1>2 DEF TypeOK

\* And back: an area no longer than the old one is well typed.
LEMMA TypedLog ==
  ASSUME TypeOK, NEW l \in Logs, Len(l) <= IndexSectors
  PROVE  /\ l \in Seq(Seq(Records)) /\ Len(l) \in 1..IndexSectors
         /\ \A k \in 1..Len(l) : Len(l[k]) <= RecordsPerSector
<1>1. Len(l) \in Nat /\ Len(l) >= 1
  BY LogTypes
<1> QED  BY <1>1, IndexSectorsAssumption DEF Logs

\* What a namespace becomes by an operation, and that it stays rooted.
LEMMA AppliedFacts ==
  ASSUME TypeOK, Roots, ~On
  PROVE  LET n == Abstract!Applied(before, op)
         IN  n \in [Slots -> DataSectors \cup {Free}] /\ Rooted(n)
<1>1. CASE op = NoOp
  BY <1>1 DEF Abstract!Applied, TypeOK, Roots
<1>2. CASE op # NoOp
  <2>1. op \in [slot : Slots, head : DataSectors \cup {Free}]
    BY <1>2 DEF TypeOK
  <2>2. op.slot \in Slots /\ op.head \in DataSectors \cup {Free}
    BY <2>1
  <2>3. Abstract!Applied(before, op) = [before EXCEPT ![op.slot] = op.head]
    BY <1>2 DEF Abstract!Applied
  <2>4. before \in [Slots -> DataSectors \cup {Free}] /\ Rooted(before)
    BY DEF TypeOK, Roots
  <2>5. op.head # Free => <<op.slot, op.head>> \in roots
    BY <1>2 DEF Roots
  <2> QED  BY <2>2, <2>3, <2>4, <2>5 DEF Rooted
<1> QED  BY <1>1, <1>2
-----------------------------------------------------------------------------
(* Every step keeps the invariant. *)

\* A freshly formatted index.
LEMMA InitInv == Init => IInv
<1> SUFFICES ASSUME Init
             PROVE  IInv
  OBVIOUS
<1> USE IndexSectorsAssumption, RecordsPerSectorAssumption DEF Init
<1>1. Len(log) = 1 /\ log[1] = <<>> /\ LastOf(log) = <<>> /\ Len(LastOf(log)) = 0
  BY DEF LastOf
<1>2. TypeOK
  <2>1. log \in Seq(Seq(Records)) /\ fresh \in Seq(Records) /\ Len(fresh) = 0
    OBVIOUS
  <2>2. NoNames \in [Slots -> DataSectors \cup {Free}]
    BY DEF NoNames
  <2>3. \A k \in 1..Len(log) : Len(log[k]) <= RecordsPerSector
    BY <1>1
  <2> QED  BY <1>1, <2>1, <2>2, <2>3 DEF TypeOK
<1>3. ~BadTail(log, roots) /\ log \in Logs
  BY <1>1, <1>2, Typed, ZenonT(30) DEF BadTail, HasTail
<1>4. Recovered(log, roots) = NoNames
  <2>1. ASSUME NEW s \in Slots
        PROVE  Recovered(log, roots)[s] = Free
    <3>1. \A k, j \in Nat : ~Has(log, roots, s, k, j)
      BY <1>1 DEF Has
    <3>2. \A k, j \in Nat : ~Newest(log, roots, s, k, j)
      BY <3>1 DEF Newest
    <3> QED  BY <1>3, <3>2, RecoveredIs
  <2> QED  BY <2>1 DEF Recovered, NoNames
<1>5. Phase
  BY <1>1 DEF Phase, On
<1>6. Shape
  BY <1>1, <1>3 DEF Shape, ShapeOf, On
<1>7. Roots
  BY DEF Roots, On, Rooted, NoNames
<1>8. Copying
  BY DEF Copying
<1>9. OldestDone
  BY <1>1 DEF OldestDone
<1>10. Agree /\ CrashAtomic
  BY <1>4, SMTT(30) DEF Agree, CrashAtomic, On
<1> QED  BY <1>2, <1>5, <1>6, <1>7, <1>8, <1>9, <1>10 DEF IInv

\* The oldest sector of a full area may go: replay finds the same.
LEMMA DropOldest ==
  ASSUME IInv, Len(log) = IndexSectors
  PROVE  /\ Tail(log) \in Logs /\ Len(Tail(log)) = Len(log) - 1 /\ Len(log) \in Nat
         /\ LastOf(Tail(log)) = LastOf(log)
         /\ ShapeOf(Tail(log), roots)
         /\ BadTail(Tail(log), roots) <=> BadTail(log, roots)
         /\ Recovered(Tail(log), roots) = Recovered(log, roots)
<1>1. log \in Logs /\ Len(log) \in Nat /\ Len(log) >= 2
  BY Typed, IndexSectorsAssumption DEF IInv
<1>2. \A s \in Slots, j \in Nat : Newest(log, roots, s, 1, j) => log[1][j].head = Free
  BY SMTT(30) DEF IInv, OldestDone
<1>3. /\ Tail(log) \in Logs /\ Len(Tail(log)) = Len(log) - 1
      /\ LastOf(Tail(log)) = LastOf(log) /\ (BadTail(Tail(log), roots) <=> BadTail(log, roots))
      /\ Recovered(Tail(log), roots) = Recovered(log, roots)
      /\ \A k \in 1..(Len(log) - 1) : Tail(log)[k] = log[k + 1]
  BY <1>1, <1>2, OldestDropped, SMTT(30)
<1>4. ShapeOf(Tail(log), roots)
  <2> DEFINE t == Tail(log)
  <2> HIDE DEF t
  <2> SUFFICES ASSUME NEW k \in 1..Len(t), NEW j \in 1..Len(t[k])
               PROVE  t[k][j] \in Proper \/ (k = Len(t) /\ j = Len(t[k]) /\ BadTail(t, roots))
    BY DEF ShapeOf, t
  <2>1. t[k] = log[k + 1] /\ Len(t) = Len(log) - 1 /\ (BadTail(t, roots) <=> BadTail(log, roots))
    BY <1>3 DEF t
  <2>2. k + 1 \in 1..Len(log) /\ j \in 1..Len(log[k + 1])
    BY <1>1, <2>1
  <2>3. log[k + 1][j] \in Proper \/ (k + 1 = Len(log) /\ j = Len(log[k + 1]) /\ BadTail(log, roots))
    BY <2>2 DEF IInv, Shape, ShapeOf
  <2> QED  BY <1>1, <2>1, <2>2, <2>3, SMTT(30)
<1> QED  BY <1>1, <1>3, <1>4

\* fffs_index_finish_interrupted_compaction.
LEMMA FinishInterruptedInv == IInv /\ FinishInterrupted => IInv'
<1> SUFFICES ASSUME IInv, FinishInterrupted
             PROVE  IInv'
  OBVIOUS
<1>1. /\ log' \in Logs /\ Len(log') \in Nat /\ Len(log') < IndexSectors /\ ShapeOf(log', roots)
      /\ Recovered(log', roots) = Recovered(log, roots) /\ LastOf(log') = LastOf(log)
  <2>1. Len(log) \in 1..IndexSectors /\ log \in Logs
    BY Typed DEF IInv, TypeOK
  <2>2. CASE Len(log) = IndexSectors
    BY <2>1, <2>2, DropOldest DEF FinishInterrupted
  <2>3. CASE Len(log) # IndexSectors
    BY <2>1, <2>3, IndexSectorsAssumption DEF FinishInterrupted, IInv, Shape
  <2> QED  BY <2>2, <2>3, SMTT(30)
<1>2. pc = "off" /\ pc' = "replay"
      /\ UNCHANGED <<fresh, roots, active, next, cache, src, op, before, fails>>
  BY DEF FinishInterrupted
<1>3. TypeOK'
  <2>1. /\ log' \in Seq(Seq(Records)) /\ Len(log') \in 1..IndexSectors
        /\ \A k \in 1..Len(log') : Len(log'[k]) <= RecordsPerSector
    BY <1>1, TypedLog, IndexSectorsAssumption, SMTT(30) DEF IInv
  <2> QED  BY <1>2, <2>1 DEF IInv, TypeOK
<1>4. Phase'
  BY <1>1, <1>2 DEF IInv, Phase, On
<1>5. Shape'
  BY <1>1, <1>2, SMTT(30) DEF Shape, On
<1>6. Roots'
  BY <1>2 DEF IInv, Roots, Rooted, On
<1>7. Copying'
  BY <1>2 DEF Copying
<1>8. OldestDone'
  BY <1>1, IndexSectorsAssumption DEF OldestDone
<1>9. Agree'
  BY <1>2 DEF Agree, On
<1>10. CrashAtomic'
  BY <1>1, <1>2, ZenonT(30) DEF IInv, CrashAtomic, Abstract!Applied
<1> QED  BY <1>3, <1>4, <1>5, <1>6, <1>7, <1>8, <1>9, <1>10, ZenonT(30) DEF IInv

\* index_compact_oldest_finish.
LEMMA CompactFinishInv == IInv /\ CompactFinish => IInv'
<1> SUFFICES ASSUME IInv, CompactFinish
             PROVE  IInv'
  OBVIOUS
<1>1. pc = "finish" /\ pc' = "rotated" /\ log' = Tail(log)
      /\ UNCHANGED <<fresh, roots, active, next, cache, src, op, before, fails>>
  BY DEF CompactFinish
<1>2. /\ log' \in Logs /\ Len(log') \in Nat /\ Len(log') < IndexSectors /\ ShapeOf(log', roots)
      /\ Recovered(log', roots) = Recovered(log, roots) /\ LastOf(log') = LastOf(log)
      /\ ~BadTail(log', roots)
  <2>1. Len(log) = IndexSectors /\ ~BadTail(log, roots)
    BY <1>1 DEF IInv, Phase, Shape, On
  <2>2. /\ Tail(log) \in Logs /\ Len(Tail(log)) = Len(log) - 1 /\ Len(log) \in Nat
        /\ LastOf(Tail(log)) = LastOf(log)
        /\ ShapeOf(Tail(log), roots)
        /\ BadTail(Tail(log), roots) <=> BadTail(log, roots)
        /\ Recovered(Tail(log), roots) = Recovered(log, roots)
    BY <2>1, DropOldest
  <2>3. Len(Tail(log)) \in Nat
    BY <2>2, LogTypes, SMTT(30)
  <2> QED  BY <1>1, <2>1, <2>2, <2>3, SMTT(30)
<1>3. TypeOK'
  <2>1. /\ log' \in Seq(Seq(Records)) /\ Len(log') \in 1..IndexSectors
        /\ \A k \in 1..Len(log') : Len(log'[k]) <= RecordsPerSector
    BY <1>2, TypedLog, IndexSectorsAssumption, SMTT(30) DEF IInv
  <2> QED  BY <1>1, <2>1 DEF IInv, TypeOK
<1>4. Phase'
  BY <1>1, <1>2 DEF IInv, Phase, On
<1>5. Shape'
  BY <1>1, <1>2, SMTT(30) DEF Shape, On
<1>6. Roots'
  BY <1>1 DEF IInv, Roots, Rooted, On
<1>7. Copying'
  BY <1>1, SMTT(30) DEF Copying
<1>8. OldestDone'
  BY <1>2, IndexSectorsAssumption DEF OldestDone
<1>9. Agree'
  BY <1>1, <1>2 DEF IInv, Agree, On
<1>10. CrashAtomic'
  BY <1>1 DEF CrashAtomic
<1> QED  BY <1>3, <1>4, <1>5, <1>6, <1>7, <1>8, <1>9, <1>10 DEF IInv
\* What mount puts into the cache is a namespace whose files have roots.
LEMMA MountedNames ==
  ASSUME IInv, pc = "replay"
  PROVE  /\ Recovered(log, roots) \in [Slots -> DataSectors \cup {Free}]
         /\ Rooted(Recovered(log, roots))
<1>1. Recovered(log, roots) \in {before, Abstract!Applied(before, op)}
  BY DEF IInv, CrashAtomic
<1>2. before \in [Slots -> DataSectors \cup {Free}] /\ Rooted(before)
  BY DEF IInv, TypeOK, Roots, On
<1>3. /\ Abstract!Applied(before, op) \in [Slots -> DataSectors \cup {Free}]
      /\ Rooted(Abstract!Applied(before, op))
  BY AppliedFacts DEF IInv, On
<1> QED  BY <1>1, <1>2, <1>3

\* Mount with a terminal record that replay accepts.
LEMMA ReplayInv == IInv /\ Replay => IInv'
<1> SUFFICES ASSUME IInv, Replay
             PROVE  IInv'
  OBVIOUS
<1>1. /\ pc = "replay" /\ ~BadTail(log, roots) /\ cache' = Recovered(log, roots)
      /\ next' = Len(LastOf(log)) + 1 /\ active' = "log" /\ op' = NoOp /\ pc' = "idle"
      /\ UNCHANGED <<log, fresh, roots, src, before, fails>>
  BY DEF Replay, Mounted
<1>2. cache' \in [Slots -> DataSectors \cup {Free}] /\ Rooted(cache')
  BY <1>1, MountedNames, SMTT(30)
<1>3. TypeOK'
  <2>1. Len(LastOf(log)) \in Nat /\ Len(LastOf(log)) <= RecordsPerSector
    BY Typed, SMTT(30) DEF IInv
  <2> QED  BY <1>1, <1>2, <2>1, RecordsPerSectorAssumption DEF IInv, TypeOK
<1>4. Phase'
  BY <1>1 DEF IInv, Phase, On
<1>5. Shape'
  BY <1>1 DEF IInv, Shape
<1>6. Roots'
  BY <1>1, <1>2, SMTT(30) DEF Roots, Rooted, On
<1>7. Copying'
  BY <1>1, SMTT(30) DEF Copying
<1>8. OldestDone'
  BY <1>1 DEF IInv, OldestDone
<1>9. Agree' /\ CrashAtomic'
  BY <1>1, ZenonT(30) DEF Agree, CrashAtomic
<1> QED  BY <1>3, <1>4, <1>5, <1>6, <1>7, <1>8, <1>9, SMTT(30) DEF IInv

\* clobber_active_tail: the zeroed record says nothing of any slot.
LEMMA ReplayClobberInv == IInv /\ ReplayClobber => IInv'
<1> SUFFICES ASSUME IInv, ReplayClobber
             PROVE  IInv'
  OBVIOUS
<1> DEFINE n == Len(LastOf(log)) - 1
<1>1. /\ pc = "replay" /\ BadTail(log, roots) /\ cache' = Recovered(log, roots)
      /\ next' = Len(LastOf(log)) + 1 /\ active' = "log" /\ op' = NoOp /\ pc' = "idle"
      /\ log' = [log EXCEPT ![Len(log)] = Program(@, Len(@), Zero)]
      /\ UNCHANGED <<fresh, roots, src, before, fails>>
  BY DEF ReplayClobber, Mounted
<1>2. /\ log \in Logs /\ LastOf(log) = log[Len(log)] /\ Len(log) \in 1..Len(log)
      /\ Len(LastOf(log)) \in Nat /\ Len(LastOf(log)) <= RecordsPerSector
  BY Typed, SMTT(30) DEF IInv
<1>3. n \in Nat /\ EndsWith(log, log', n, Zero)
  <2>1. HasTail(log) /\ Zero \in Records
    BY <1>1 DEF BadTail, Zero, Records, SlotWords, HeadWords
  <2>2. log' = [log EXCEPT ![Len(log)] = Program(@, Len(LastOf(log)), Zero)]
    BY <1>1, <1>2
  <2>3. [slot |-> TailOf(log).slot \cap Zero.slot, head |-> TailOf(log).head \cap Zero.head] = Zero
    BY DEF Zero
  <2> QED  BY <1>2, <2>1, <2>2, <2>3, RecordProgrammed, ZenonT(30)
<1> HIDE DEF n
<1>4. /\ log' \in Logs /\ SameBody(log, log', n) /\ Len(LastOf(log')) = n + 1
      /\ TailOf(log') = Zero /\ Len(log') = Len(log) /\ Len(LastOf(log)) = n + 1
  BY <1>2, <1>3 DEF EndsWith, SameBody, n
<1>5. ~BadTail(log', roots)
  BY <1>4, DataSectorsAssumption DEF BadTail, TailOk, WellFormed, Zero
<1>6. Recovered(log', roots) = Recovered(log, roots)
  <2>1. EndsAt(log, roots, n)
    BY <1>1, <1>4 DEF EndsAt
  <2>2. EndsAt(log', roots, n)
    BY <1>4, SlotsAssumption DEF EndsAt, Zero
  <2> QED  BY <1>2, <1>3, <1>4, <2>1, <2>2, SameBodySameNames, ZenonT(30)
<1>7. cache' \in [Slots -> DataSectors \cup {Free}] /\ Rooted(cache')
  BY <1>1, MountedNames, SMTT(30)
<1>8. TypeOK'
  <2>1. /\ log' \in Seq(Seq(Records)) /\ Len(log') \in 1..IndexSectors
        /\ \A k \in 1..Len(log') : Len(log'[k]) <= RecordsPerSector
    <3>1. Len(log') <= IndexSectors
      BY <1>4, SMTT(30) DEF IInv, TypeOK
    <3> QED  BY <1>4, <3>1, TypedLog DEF IInv
  <2> QED  BY <1>1, <1>2, <1>7, <2>1, RecordsPerSectorAssumption, SMTT(30) DEF IInv, TypeOK
<1>9. Phase'
  BY <1>1, <1>4 DEF IInv, Phase, On
<1>10. Shape'
  <2>1. ShapeOf(log, roots) /\ Zero \in Proper /\ n < Len(LastOf(log))
    BY <1>3, <1>4 DEF IInv, Shape, Proper
  <2>2. ShapeOf(log', roots)
    BY <1>2, <1>3, <2>1, ShapeKept, ZenonT(30)
  <2> QED  BY <1>1, <1>5, <2>2 DEF Shape
<1>11. Roots'
  BY <1>1, <1>7, SMTT(30) DEF Roots, Rooted, On
<1>12. Copying'
  BY <1>1, ZenonT(30) DEF Copying
<1>13. OldestDone'
  BY <1>1, <1>2, <1>4, IndexSectorsAssumption, SMTT(30) DEF IInv, Phase, OldestDone
<1>14. Agree' /\ CrashAtomic'
  BY <1>1, <1>6, ZenonT(30) DEF Agree, CrashAtomic
<1> QED  BY <1>8, <1>9, <1>10, <1>11, <1>12, <1>13, <1>14 DEF IInv

\* Changing the roots between operations: replay finds the same as long as the
\* terminal record keeps its root.
LEMMA RootsChanged ==
  ASSUME IInv, pc = "idle", ~BadTail(log, roots'), UNCHANGED log
  PROVE  /\ ShapeOf(log', roots')
         /\ Recovered(log', roots') = Recovered(log, roots)
         /\ OldestDone'
<1>1. log \in Logs /\ ~BadTail(log, roots) /\ ShapeOf(log, roots) /\ Len(log) < IndexSectors
  BY Typed, ZenonT(30) DEF IInv, Shape, Phase, On
<1>2. ShapeOf(log, roots')
  BY <1>1, AllProper
<1>3. Recovered(log, roots') = Recovered(log, roots)
  BY <1>1, RootsOfTail
<1> QED  BY <1>1, <1>2, <1>3, IndexSectorsAssumption, Typed, SMTT(30) DEF OldestDone, IInv

\* fffs_close has made a root live.
LEMMA BeginCommitInv ==
  ASSUME NEW s \in Slots, NEW h \in DataSectors
  PROVE  IInv /\ BeginCommit(s, h) => IInv'
<1> SUFFICES ASSUME IInv, BeginCommit(s, h)
             PROVE  IInv'
  OBVIOUS
<1>1. /\ pc = "idle" /\ roots' = roots \cup {<<s, h>>} /\ op' = [slot |-> s, head |-> h]
      /\ pc' = "append" /\ UNCHANGED <<log, fresh, active, next, cache, src, before, fails>>
  BY SMTT(30) DEF BeginCommit
<1>2. ~BadTail(log, roots')
  BY <1>1, SMTT(30) DEF BadTail, TailOk, IInv, Shape, On
<1>3. /\ ShapeOf(log', roots') /\ OldestDone'
      /\ Recovered(log', roots') = Recovered(log, roots)
  BY <1>1, <1>2, RootsChanged, ZenonT(30)
<1>4. op' # NoOp /\ h # Free
  BY <1>1, SlotsAssumption, DataSectorsAssumption, ZenonT(30) DEF NoOp, Free
<1>5. TypeOK'
  BY <1>1, SMTT(30) DEF IInv, TypeOK
<1>6. Phase'
  BY <1>1, <1>4, SMTT(30) DEF IInv, Phase, On
<1>7. Shape'
  BY <1>1, <1>2, <1>3, SMTT(30) DEF Shape
<1>8. Roots'
  BY <1>1, <1>4, ZenonT(30) DEF IInv, Roots, Rooted, On
<1>9. Copying'
  BY <1>1, ZenonT(30) DEF Copying
<1>10. Agree' /\ CrashAtomic'
  BY <1>1, <1>3 DEF IInv, Agree, CrashAtomic, On
<1> QED  BY <1>3, <1>5, <1>6, <1>7, <1>8, <1>9, <1>10, ZenonT(30) DEF IInv

\* fffs_delete_file: no flash operation yet.
LEMMA BeginDeleteInv ==
  ASSUME NEW s \in Slots
  PROVE  IInv /\ BeginDelete(s) => IInv'
<1> SUFFICES ASSUME IInv, BeginDelete(s)
             PROVE  IInv'
  OBVIOUS
<1>1. /\ pc = "idle" /\ op' = [slot |-> s, head |-> Free]
      /\ pc' = "append" /\ UNCHANGED <<log, fresh, roots, active, next, cache, src, before, fails>>
  BY SMTT(30) DEF BeginDelete
<1>2. op' # NoOp
  BY <1>1, SlotsAssumption, ZenonT(30) DEF NoOp
<1>3. TypeOK'
  BY <1>1, ZenonT(30) DEF IInv, TypeOK
<1>4. Phase'
  BY <1>1, <1>2, SMTT(30) DEF IInv, Phase, On
<1>5. Shape' /\ OldestDone'
  BY <1>1, ZenonT(30) DEF IInv, Shape, OldestDone, On
<1>6. Roots'
  BY <1>1, SMTT(30) DEF IInv, Roots, Rooted, On
<1>7. Copying'
  BY <1>1, SMTT(30) DEF Copying
<1>8. Agree' /\ CrashAtomic'
  BY <1>1, ZenonT(30) DEF IInv, Agree, CrashAtomic, On
<1> QED  BY <1>3, <1>4, <1>5, <1>6, <1>7, <1>8 DEF IInv

\* fffs_invalidate_old_chain: a root the index does not name is not the
\* terminal record's.
LEMMA DropRootInv ==
  ASSUME NEW s \in Slots, NEW h \in DataSectors
  PROVE  IInv /\ DropRoot(s, h) => IInv'
<1> SUFFICES ASSUME IInv, DropRoot(s, h)
             PROVE  IInv'
  OBVIOUS
<1>1. /\ pc = "idle" /\ cache[s] # h /\ roots' = roots \ {<<s, h>>}
      /\ UNCHANGED <<log, fresh, active, next, cache, src, pc, op, before, fails>>
  BY DEF DropRoot
<1>2. ~BadTail(log, roots')
  <2> SUFFICES ASSUME HasTail(log)
               PROVE  TailOk(TailOf(log), roots')
    BY DEF BadTail
  <2>1. ~BadTail(log, roots) /\ TailOk(TailOf(log), roots) /\ ShapeOf(log, roots)
    BY <1>1 DEF IInv, Shape, On, BadTail
  <2>2. log \in Logs /\ Len(log) \in 1..Len(log)
    BY Typed, ZenonT(30) DEF IInv
  <2>3. TailOf(log) \in Proper
    <3>1. TailOf(log) = log[Len(log)][Len(log[Len(log)])] /\ LastOf(log) = log[Len(log)]
      BY <2>2, LogTypes, SMTT(30)
    <3>2. log[Len(log)] \in Seq(Records) /\ log[Len(log)] # <<>>
      BY <2>2, <3>1 DEF Logs, HasTail
    <3>3. Len(log[Len(log)]) \in 1..Len(log[Len(log)])
      BY <3>2, SMTT(30)
    <3> QED  BY <2>1, <2>2, <3>1, <3>3, AllProper, ZenonT(30)
  <2>4. CASE TailOf(log).head \in DataSectors
    <3>1. TailOf(log).slot \in Slots
      BY <2>3, <2>4, DataSectorsAssumption, SMTT(30) DEF Proper, Zero
    <3>2. cache[TailOf(log).slot] = TailOf(log).head
      BY <1>1, <2>1, <2>2, <3>1, TailCurrent, ZenonT(30) DEF IInv, Agree, On
    <3>3. <<TailOf(log).slot, TailOf(log).head>> # <<s, h>>
      BY <1>1, <3>2
    <3> QED  BY <1>1, <2>1, <3>3, SMTT(30) DEF TailOk
  <2>5. CASE TailOf(log).head \notin DataSectors
    BY <2>1, <2>5, SMTT(30) DEF TailOk
  <2> QED  BY <2>4, <2>5
<1>3. /\ ShapeOf(log', roots') /\ OldestDone'
      /\ Recovered(log', roots') = Recovered(log, roots)
  BY <1>1, <1>2, RootsChanged, ZenonT(30)
<1>4. TypeOK'
  BY <1>1, ZenonT(30) DEF IInv, TypeOK
<1>5. Phase'
  BY <1>1 DEF IInv, Phase, On
<1>6. Shape'
  BY <1>1, <1>2, <1>3, ZenonT(30) DEF Shape
<1>7. Roots'
  <2>1. Rooted(cache) /\ op = NoOp
    <3>1. Rooted(cache)
      BY <1>1, ZenonT(30) DEF IInv, Roots, On
    <3>2. op = NoOp
      BY <1>1, ZenonT(30) DEF IInv, Phase, On
    <3> QED  BY <3>1, <3>2, ZenonT(30)
  <2> QED  BY <1>1, <2>1, ZenonT(30) DEF Roots, Rooted, On
<1>8. Copying'
  BY <1>1, SMTT(30) DEF Copying
<1>9. Agree' /\ CrashAtomic'
  BY <1>1, <1>3 DEF IInv, Agree, CrashAtomic, On
<1> QED  BY <1>3, <1>4, <1>5, <1>6, <1>7, <1>8, <1>9, ZenonT(30) DEF IInv
\* rotate_index_begin: nothing valid on flash changes.
LEMMA RotateBeginInv == IInv /\ RotateBegin => IInv'
<1> SUFFICES ASSUME IInv, RotateBegin
             PROVE  IInv'
  OBVIOUS
<1>1. /\ pc = "append" /\ fresh' = <<>> /\ active' = "fresh" /\ next' = 1 /\ src' = 1
      /\ pc' = IF Len(log) + 1 = IndexSectors THEN "copy" ELSE "header"
      /\ UNCHANGED <<log, roots, cache, op, before, fails>>
  BY DEF RotateBegin
<1>2. Len(fresh') = 0 /\ fresh' \in Seq(Records)
  BY <1>1
<1>3. Len(log[1]) \in Nat /\ Len(log) \in Nat
  BY LogTypes, Typed, SMTT(30) DEF IInv
<1>4. TypeOK'
  BY <1>1, <1>2, RecordsPerSectorAssumption, SMTT(30) DEF IInv, TypeOK
<1>5. Phase'
  BY <1>1, <1>2, SMTT(30) DEF IInv, Phase, On
<1>6. Shape' /\ OldestDone'
  BY <1>1, SMTT(30) DEF IInv, Shape, OldestDone, On
<1>7. Roots'
  BY <1>1, SMTT(30) DEF IInv, Roots, Rooted, On
<1>8. Copying'
  <2>1. pc' = "header" => Len(log) + 1 # IndexSectors
    BY <1>1
  <2>2. Copied(src - 1)'
    BY <1>1, SMTT(30) DEF Copied
  <2> QED  BY <1>1, <1>2, <1>3, <2>1, <2>2, SMTT(30) DEF Copying
<1>9. Agree' /\ CrashAtomic'
  BY <1>1, ZenonT(30) DEF IInv, Agree, CrashAtomic, On
<1> QED  BY <1>4, <1>5, <1>6, <1>7, <1>8, <1>9, SMTT(30) DEF IInv

\* index_compact_oldest_copy: what is carried forward is current.
LEMMA CopyRecordInv == IInv /\ CopyRecord => IInv'
<1> SUFFICES ASSUME IInv, CopyRecord
             PROVE  IInv'
  OBVIOUS
<1>1. /\ pc = "copy" /\ src <= Len(log[1]) /\ src' = src + 1
      /\ UNCHANGED <<log, roots, active, cache, pc, op, before, fails>>
  BY DEF CopyRecord
<1>2. /\ log \in Logs /\ Len(log) \in Nat /\ 1 \in 1..Len(log) /\ Len(log[1]) \in Nat
      /\ Len(log[1]) <= RecordsPerSector
  BY LogTypes, Typed DEF IInv
<1>3. /\ src \in Nat /\ src \in 1..Len(log[1]) /\ fresh \in Seq(Records) /\ Len(fresh) \in Nat
      /\ next = Len(fresh) + 1 /\ Len(fresh) < src /\ src <= RecordsPerSector
  <2>1. src \in Nat /\ src >= 1 /\ fresh \in Seq(Records)
    BY RecordsPerSectorAssumption, SMTT(30) DEF IInv, TypeOK
  <2>2. next = Len(fresh) + 1 /\ Len(fresh) < src
    BY <1>1, ZenonT(30) DEF IInv, Phase, Copying
  <2> QED  BY <1>1, <1>2, <2>1, <2>2, RecordsPerSectorAssumption, SMTT(30)
<1>4. log[1][src] \in Proper /\ log[1][src] \in Records
  <2>1. ~BadTail(log, roots) /\ ShapeOf(log, roots)
    BY <1>1 DEF IInv, Shape, On
  <2>2. log[1] \in Seq(Records)
    BY <1>2, SMTT(30) DEF Logs
  <2> QED  BY <1>2, <1>3, <2>1, <2>2, AllProper, SMTT(30)
<1>5. /\ fresh' \in Seq(Records) /\ Len(fresh') \in Nat /\ Len(fresh') <= src /\ next' = Len(fresh') + 1
      /\ \A i \in 1..Len(fresh) : i \in 1..Len(fresh') /\ fresh'[i] = fresh[i]
      /\ CarriedForward(log[1][src]) => Len(fresh') \in 1..Len(fresh') /\ fresh'[Len(fresh')] = log[1][src]
      /\ \A i \in 1..Len(fresh') : i \in 1..Len(fresh) \/ (CarriedForward(log[1][src]) /\ fresh'[i] = log[1][src])
  <2>1. CASE CarriedForward(log[1][src])
    <3> DEFINE r == log[1][src]
    <3>1. fresh' = Append(fresh, r) /\ next' = next + 1 /\ r \in Records
      BY <1>4, <2>1, SMTT(30) DEF CopyRecord
    <3> HIDE DEF r
    <3>2. /\ fresh' \in Seq(Records) /\ Len(fresh') = Len(fresh) + 1
          /\ \A i \in 1..Len(fresh) : fresh'[i] = fresh[i]
          /\ fresh'[Len(fresh) + 1] = r
      BY <1>3, <3>1, SMTT(30)
    <3>3. \A i \in 1..Len(fresh') : i \in 1..Len(fresh) \/ i = Len(fresh) + 1
      BY <1>3, <3>2, SMTT(30)
    <3> QED  BY <1>3, <2>1, <3>1, <3>2, <3>3, SMTT(30) DEF r
  <2>2. CASE ~CarriedForward(log[1][src])
    BY <1>3, <2>2, SMTT(30) DEF CopyRecord
  <2> QED  BY <2>1, <2>2, ZenonT(30)
<1>6. TypeOK'
  <2>1. /\ Len(fresh') <= RecordsPerSector
        /\ next' \in 1..(RecordsPerSector + 1) /\ src' \in 1..(RecordsPerSector + 1)
    BY <1>1, <1>3, <1>5, CountFits, ZenonT(30)
  <2> QED  BY <1>1, <1>5, <2>1, ZenonT(30) DEF IInv, TypeOK
<1>7. Phase'
  BY <1>1, <1>5, ZenonT(30) DEF IInv, Phase, On
<1>8. Shape' /\ OldestDone'
  BY <1>1, SMTT(30) DEF IInv, Shape, OldestDone, On
<1>9. Roots'
  BY <1>1, ZenonT(30) DEF IInv, Roots, Rooted, On
<1>10. Copying'
  <2>1. ASSUME NEW i \in 1..Len(fresh')
        PROVE  /\ fresh'[i].slot \in Slots /\ fresh'[i].head # Free
               /\ cache[fresh'[i].slot] = fresh'[i].head
    <3>1. CASE i \in 1..Len(fresh)
      BY <1>1, <1>5, <3>1, ZenonT(30) DEF IInv, Copying
    <3>2. CASE CarriedForward(log[1][src]) /\ fresh'[i] = log[1][src]
      BY <1>4, <3>2 DEF Proper, CarriedForward, Zero, Free
    <3> QED  BY <1>5, <3>1, <3>2, ZenonT(30)
  <2>2. ASSUME NEW j \in 1..src, CarriedForward(log[1][j])
        PROVE  \E i \in 1..Len(fresh') : fresh'[i] = log[1][j]
    <3>1. CASE j = src
      BY <1>5, <2>2, <3>1, SMTT(30)
    <3>2. CASE j # src
      <4>1. j \in 1..(src - 1)
        BY <1>3, <3>2, SMTT(30)
      <4>2. PICK i \in 1..Len(fresh) : fresh[i] = log[1][j]
        BY <1>1, <2>2, <4>1, ZenonT(30) DEF IInv, Copying, Copied
      <4> QED  BY <1>5, <4>2, SMTT(30)
    <3> QED  BY <3>1, <3>2, ZenonT(30)
  <2>3. Copied(src - 1)'
    <3>1. \A j \in 1..(src' - 1) : CarriedForward(log[1][j]) =>
            \E i \in 1..Len(fresh') : fresh'[i] = log[1][j]
      <4>1. src' - 1 = src
        BY <1>1, <1>3, SMTT(30)
      <4> QED  BY <2>2, <4>1
    <3> QED  BY <1>1, <3>1, ZenonT(30) DEF Copied, CarriedForward
  <2> QED  BY <1>1, <1>3, <1>5, <2>1, <2>3, SMTT(30) DEF Copying
<1>11. Agree' /\ CrashAtomic'
  BY <1>1, ZenonT(30) DEF IInv, Agree, CrashAtomic, On
<1> QED  BY <1>6, <1>7, <1>8, <1>9, <1>10, <1>11 DEF IInv

\* The oldest sector has been passed.
LEMMA CopyEndInv == IInv /\ CopyEnd => IInv'
<1> SUFFICES ASSUME IInv, CopyEnd
             PROVE  IInv'
  OBVIOUS
<1>1. /\ pc = "copy" /\ src > Len(log[1]) /\ pc' = "header"
      /\ UNCHANGED <<log, fresh, roots, active, next, cache, src, op, before, fails>>
  BY SMTT(30) DEF CopyEnd
<1>2. TypeOK'
  BY <1>1, ZenonT(30) DEF IInv, TypeOK
<1>3. Phase'
  BY <1>1, SMTT(30) DEF IInv, Phase, On
<1>4. Shape' /\ OldestDone'
  BY <1>1, ZenonT(30) DEF IInv, Shape, OldestDone, On
<1>5. Roots'
  BY <1>1, ZenonT(30) DEF IInv, Roots, Rooted, On
<1>6. Copying'
  <2>1. Len(log[1]) \in Nat /\ src \in Nat
    <3>1. log \in Logs /\ src \in 1..(RecordsPerSector + 1)
      BY Typed, ZenonT(30) DEF IInv, TypeOK
    <3>2. 1 \in 1..Len(log) /\ src \in Nat
      BY <3>1, LogTypes
    <3> QED  BY <3>1, <3>2, LogTypes, ZenonT(30)
  <2>2. src - 1 = Len(log[1])
    BY <1>1, <2>1, SMTT(30) DEF IInv, Copying
  <2>3. Copied(Len(log[1]))
    BY <1>1, <2>2, ZenonT(30) DEF IInv, Copying
  <2>4. Copied(Len(log[1]))'
    BY <1>1, <2>3, SMTT(30) DEF Copied, CarriedForward
  <2> QED  BY <1>1, <2>4, ZenonT(30) DEF IInv, Copying
<1>7. Agree' /\ CrashAtomic'
  BY <1>1, ZenonT(30) DEF IInv, Agree, CrashAtomic, On
<1> QED  BY <1>2, <1>3, <1>4, <1>5, <1>6, <1>7 DEF IInv

\* rotate_index_commit: the copies repeat what replay finds anyway, and in a
\* full area the oldest sector has no news left.
LEMMA RotateCommitInv == IInv /\ RotateCommit => IInv'
<1> SUFFICES ASSUME IInv, RotateCommit
             PROVE  IInv'
  OBVIOUS
<1>1. /\ pc = "header" /\ log' = Append(log, fresh) /\ fresh' = <<>> /\ active' = "log"
      /\ pc' = IF Len(log) + 1 = IndexSectors THEN "finish" ELSE "rotated"
      /\ UNCHANGED <<roots, next, cache, src, op, before, fails>>
  BY ZenonT(30) DEF RotateCommit
<1>2. /\ log \in Logs /\ Len(log) \in Nat /\ 1 \in 1..Len(log) /\ Len(log) < IndexSectors
      /\ ~BadTail(log, roots) /\ ShapeOf(log, roots) /\ Recovered(log, roots) = cache
      /\ fresh \in Seq(Records) /\ Len(fresh) <= RecordsPerSector
  BY <1>1, Typed, SMTT(30) DEF IInv, TypeOK, Phase, Shape, Agree, On
<1>3. ASSUME NEW i \in 1..Len(fresh)
      PROVE  /\ fresh[i].slot \in Slots /\ fresh[i].head \in DataSectors
             /\ cache[fresh[i].slot] = fresh[i].head
             /\ <<fresh[i].slot, fresh[i].head>> \in roots /\ fresh[i] \in Proper
  <2>1. fresh[i].slot \in Slots /\ fresh[i].head # Free /\ cache[fresh[i].slot] = fresh[i].head
    BY <1>1, ZenonT(30) DEF IInv, Copying
  <2>2. cache[fresh[i].slot] \in DataSectors \cup {Free}
    BY <2>1, SMTT(30) DEF IInv, TypeOK
  <2>3. <<fresh[i].slot, fresh[i].head>> \in roots
    BY <1>1, <2>1, ZenonT(30) DEF IInv, Roots, Rooted, On
  <2>4. fresh[i] = [slot |-> fresh[i].slot, head |-> fresh[i].head]
    <3>1. fresh[i] \in Records
      BY <1>2, SMTT(30)
    <3> QED  BY <3>1, SMTT(30) DEF Records
  <2>5. fresh[i] \in Proper
    BY <2>1, <2>2, <2>4, ZenonT(30) DEF Proper
  <2> QED  BY <2>1, <2>2, <2>3, <2>5, ZenonT(30)
<1>4. /\ log' \in Logs /\ Len(log') = Len(log) + 1
      /\ \A k \in 1..Len(log) : log'[k] = log[k]
      /\ log'[Len(log) + 1] = fresh
      /\ ~BadTail(log', roots)
      /\ Recovered(log', roots) = cache
      /\ \A s \in Slots, j \in Nat : Newest(log', roots, s, 1, j) =>
            Newest(log, roots, s, 1, j) /\ \A i \in 1..Len(fresh) : fresh[i].slot # s
  <2>1. CurrentRecords(log, roots, fresh)
    BY <1>2, <1>3, ZenonT(30) DEF CurrentRecords
  <2>2. GrownBy(log, Append(log, fresh), roots, fresh)
    BY <1>2, <2>1, SectorAppended, ZenonT(30)
  <2>3. GrownBy(log, log', roots, fresh)
    BY <1>1, <2>2, ZenonT(30)
  <2> QED  BY <1>2, <2>3, ZenonT(30) DEF GrownBy
<1>5. LastOf(log') = fresh
  BY <1>4, ZenonT(30) DEF LastOf
<1>6. TypeOK'
  <2>1. Len(log') <= IndexSectors
    BY <1>2, <1>4, SectorCount, ZenonT(30)
  <2>2. /\ log' \in Seq(Seq(Records)) /\ Len(log') \in 1..IndexSectors
        /\ \A k \in 1..Len(log') : Len(log'[k]) <= RecordsPerSector
    BY <1>4, <2>1, TypedLog DEF IInv
  <2>3. fresh' \in Seq(Records) /\ Len(fresh') = 0
    BY <1>1
  <2>4. Len(fresh') <= RecordsPerSector
    BY <2>3, RecordsPerSectorAssumption
  <2>5. active' \in {"log", "fresh"} /\ pc' \in {"finish", "rotated"}
    BY <1>1, ZenonT(30)
  <2> QED  BY <1>1, <2>2, <2>3, <2>4, <2>5, ZenonT(30) DEF IInv, TypeOK
<1>7. Phase'
  <2>1. next' = Len(LastOf(log')) + 1 /\ op # NoOp
    BY <1>1, <1>5, ZenonT(30) DEF IInv, Phase, On
  <2>2. pc' # "finish" => Len(log') < IndexSectors
    <3>1. Len(log') = Len(log) + 1 /\ Len(log) \in Nat /\ Len(log) < IndexSectors
      BY <1>2, <1>4, ZenonT(30)
    <3>2. Len(log) + 1 = IndexSectors \/ Len(log) + 1 < IndexSectors
      BY <3>1, IndexSectorsAssumption
    <3> QED  BY <1>1, <3>1, <3>2, ZenonT(30)
  <2> QED  BY <1>1, <1>4, <2>1, <2>2, ZenonT(30) DEF Phase, On
<1>8. Shape'
  <2>1. ASSUME NEW k \in 1..Len(log'), NEW j \in 1..Len(log'[k])
        PROVE  log'[k][j] \in Proper
    <3>1. CASE k \in 1..Len(log)
      <4>1. log'[k] = log[k]
        BY <1>4, <3>1, ZenonT(30)
      <4>2. j \in 1..Len(log[k])
        BY <4>1, ZenonT(30)
      <4> QED  BY <1>2, <3>1, <4>1, <4>2, AllProper, ZenonT(30)
    <3>2. CASE k = Len(log) + 1
      BY <1>3, <1>4, <3>2, ZenonT(30)
    <3>3. Len(log') = Len(log) + 1 /\ Len(log) \in Nat
      BY <1>2, <1>4, ZenonT(30)
    <3>4. k \in 1..Len(log) \/ k = Len(log) + 1
      BY <3>3
    <3> QED  BY <3>1, <3>2, <3>4, ZenonT(30)
  <2> QED  BY <1>1, <1>4, <2>1, ZenonT(30) DEF Shape, ShapeOf
<1>9. Roots'
  BY <1>1, ZenonT(30) DEF IInv, Roots, Rooted, On
<1>10. Copying'
  BY <1>1, ZenonT(30) DEF Copying
<1>11. OldestDone'
  <2> SUFFICES ASSUME Len(log') = IndexSectors, NEW s \in Slots, NEW j \in Nat,
                      Newest(log', roots, s, 1, j), log'[1][j].head # Free
               PROVE  FALSE
    BY <1>1, ZenonT(30) DEF OldestDone
  <2>1. Newest(log, roots, s, 1, j) /\ \A i \in 1..Len(fresh) : fresh[i].slot # s
    BY <1>4, SMTT(30)
  <2>2. log'[1] = log[1] /\ j \in 1..Len(log[1]) /\ log[1][j].slot = s
    BY <1>2, <1>4, <2>1, ZenonT(30) DEF Newest, Has
  <2>3. cache[s] = log[1][j].head
    <3>1. \A k, n \in Nat : Newest(log, roots, s, k, n) => Recovered(log, roots)[s] = log[k][n].head
      BY <1>2, RecoveredIs, SMTT(30)
    <3> QED  BY <1>2, <2>1, <3>1, ZenonT(30)
  <2>4. CarriedForward(log[1][j])
    BY <2>2, <2>3, ZenonT(30) DEF CarriedForward
  <2>5. Copied(Len(log[1]))
    BY <1>1, <1>4, ZenonT(30) DEF IInv, Copying
  <2>6. PICK i \in 1..Len(fresh) : fresh[i] = log[1][j]
    BY <2>2, <2>4, <2>5, ZenonT(30) DEF Copied
  <2> QED  BY <2>1, <2>2, <2>6, ZenonT(30)
<1>12. Agree' /\ CrashAtomic'
  BY <1>1, <1>4, ZenonT(30) DEF Agree, CrashAtomic
<1> QED  BY <1>6, <1>7, <1>8, <1>9, <1>10, <1>11, <1>12 DEF IInv

\* FFFS_ERR_NO_SPACE.
LEMMA NoSpaceInv == IInv /\ NoSpace => IInv'
<1> SUFFICES ASSUME IInv, NoSpace
             PROVE  IInv'
  OBVIOUS
<1>1. /\ pc = "rotated" /\ op' = NoOp /\ pc' = "idle"
      /\ fails' = IF fails < IndexSectors THEN fails + 1 ELSE fails
      /\ UNCHANGED <<log, fresh, roots, active, next, cache, src, before>>
  BY ZenonT(30) DEF NoSpace
<1>2. TypeOK'
  BY <1>1, IndexSectorsAssumption, SMTT(30) DEF IInv, TypeOK
<1>3. Phase'
  BY <1>1, SMTT(30) DEF IInv, Phase, On
<1>4. Shape' /\ OldestDone'
  BY <1>1, ZenonT(30) DEF IInv, Shape, OldestDone, On
<1>5. Roots'
  BY <1>1, ZenonT(30) DEF IInv, Roots, Rooted, On
<1>6. Copying'
  BY <1>1, SMTT(30) DEF Copying
<1>7. Agree' /\ CrashAtomic'
  BY <1>1, SMTT(30) DEF IInv, Agree, CrashAtomic, On
<1> QED  BY <1>2, <1>3, <1>4, <1>5, <1>6, <1>7 DEF IInv

-----------------------------------------------------------------------------
\* A record whose head is still erased is not one that replay accepts.
LEMMA HalfRecord ==
  ASSUME NEW r, r.head = HeadBits, NEW rt
  PROVE  ~TailOk(r, rt)
BY DataSectorsAssumption, WordsAssumption, SMTT(30) DEF TailOk, WellFormed, Zero, Free

\* While the head of a record is being programmed, the record is the terminal
\* one and has no head yet.
LEMMA HeadPending ==
  ASSUME IInv, pc = "head"
  PROVE  /\ HasTail(log) /\ BadTail(log, roots) /\ next = Len(LastOf(log)) /\ active = "log"
         /\ TailOf(log) = [slot |-> op.slot, head |-> HeadBits]
         /\ op \in [slot : Slots, head : DataSectors \cup {Free}]
         /\ Len(log) < IndexSectors /\ Recovered(log, roots) = cache
<1>1. HasTail(log) /\ next = Len(LastOf(log)) /\ TailOf(log) = [slot |-> op.slot, head |-> HeadBits]
  BY SMTT(30) DEF IInv, Phase
<1>2. op \in [slot : Slots, head : DataSectors \cup {Free}]
  BY Typed, SMTT(30) DEF IInv, Phase, On
<1>3. BadTail(log, roots)
  BY <1>1, HalfRecord, ZenonT(30) DEF BadTail
<1> QED  BY <1>1, <1>2, <1>3, SMTT(30) DEF IInv, Phase, Agree, On

\* program_index_record_at, first half: the record has no head yet.
LEMMA ProgramSlotInv == IInv /\ ProgramSlot => IInv'
<1> SUFFICES ASSUME IInv, ProgramSlot
             PROVE  IInv'
  OBVIOUS
<1> DEFINE n == Len(LastOf(log))
           r == [slot |-> op.slot, head |-> HeadBits]
<1>1. /\ pc \in {"append", "rotated"} /\ next <= RecordsPerSector /\ pc' = "head"
      /\ UNCHANGED <<roots, active, next, cache, src, op, before, fails>>
  BY SMTT(30) DEF ProgramSlot
<1>2. /\ active = "log" /\ next = n + 1 /\ Len(log) < IndexSectors /\ ~BadTail(log, roots)
      /\ op # NoOp /\ Recovered(log, roots) = cache /\ ShapeOf(log, roots)
  BY <1>1, SMTT(30) DEF IInv, Phase, Shape, Agree, On
<1>3. /\ log \in Logs /\ n \in Nat /\ Len(log) \in Nat
      /\ op \in [slot : Slots, head : DataSectors \cup {Free}]
  BY <1>2, Typed, SMTT(30) DEF IInv
<1>4. log' = [log EXCEPT ![Len(log)] = Program(@, n + 1, r)] /\ UNCHANGED fresh
  BY <1>2, SMTT(30) DEF ProgramSlot, ProgramActive
<1>5. r \in Records /\ r # [slot |-> SlotBits, head |-> HeadBits] /\ op.slot \in Slots
  BY <1>3, SlotsAssumption, SMTT(30) DEF Records, HeadWords
<1>6. EndsWith(log, log', n, r)
  <2>1. n < RecordsPerSector
    BY <1>1, <1>2, <1>3, OneMoreFits, ZenonT(30)
  <2> HIDE DEF r
  <2> QED  BY <1>3, <1>4, <1>5, <2>1, RecordAppended, ZenonT(30)
<1> HIDE DEF n
<1>7. /\ log' \in Logs /\ SameBody(log, log', n) /\ Len(LastOf(log')) = n + 1 /\ HasTail(log')
      /\ TailOf(log') = r /\ Len(log') = Len(log)
  BY <1>6 DEF EndsWith, SameBody
<1>8. BadTail(log', roots)
  BY <1>7, HalfRecord DEF BadTail
<1>9. Recovered(log', roots) = cache
  <2>1. EndsAt(log, roots, n)
    BY <1>2, SMTT(30) DEF EndsAt, n
  <2>2. EndsAt(log', roots, n)
    BY <1>7, <1>8, SMTT(30) DEF EndsAt
  <2> QED  BY <1>2, <1>3, <1>7, <2>1, <2>2, SameBodySameNames, ZenonT(30)
<1>10. TypeOK'
  <2>1. /\ log' \in Seq(Seq(Records)) /\ Len(log') \in 1..IndexSectors
        /\ \A k \in 1..Len(log') : Len(log'[k]) <= RecordsPerSector
    <3>1. Len(log') <= IndexSectors
      BY <1>7, SMTT(30) DEF IInv, TypeOK
    <3> QED  BY <1>7, <3>1, TypedLog, ZenonT(30) DEF IInv
  <2> QED  BY <1>1, <1>4, <2>1, SMTT(30) DEF IInv, TypeOK
<1>11. Phase'
  BY <1>1, <1>2, <1>7, SMTT(30) DEF Phase, On
<1>12. Shape'
  <2>1. ShapeOf(log', roots)
    BY <1>2, <1>3, <1>6, <1>8, ShapeKept, ZenonT(30)
  <2> QED  BY <1>1, <2>1, SMTT(30) DEF Shape
<1>13. Roots'
  BY <1>1, SMTT(30) DEF IInv, Roots, Rooted, On
<1>14. Copying'
  BY <1>1, ZenonT(30) DEF Copying
<1>15. OldestDone'
  BY <1>2, <1>3, <1>7, IndexSectorsAssumption, SMTT(30) DEF OldestDone
<1>16. Agree' /\ CrashAtomic'
  BY <1>1, <1>9, SMTT(30) DEF Agree, CrashAtomic
<1> QED  BY <1>10, <1>11, <1>12, <1>13, <1>14, <1>15, <1>16 DEF IInv

\* Programming a head x over the erased one.
LEMMA HeadProgrammed ==
  ASSUME IInv, pc = "head", NEW x \in HeadWords, NEW l,
         l = [log EXCEPT ![Len(log)] = Program(@, next, [slot |-> op.slot, head |-> x])]
  PROVE  /\ Len(LastOf(log)) - 1 \in Nat
         /\ EndsWith(log, l, Len(LastOf(log)) - 1, [slot |-> op.slot, head |-> x])
<1> DEFINE r == [slot |-> op.slot, head |-> x]
<1>1. /\ HasTail(log) /\ TailOf(log) = [slot |-> op.slot, head |-> HeadBits]
      /\ next = Len(LastOf(log)) /\ op \in [slot : Slots, head : DataSectors \cup {Free}]
  BY HeadPending
<1>2. r \in Records
  BY <1>1, SlotsAssumption DEF Records
<1>3. [slot |-> TailOf(log).slot \cap r.slot, head |-> TailOf(log).head \cap r.head] = r
  <2>1. HeadBits \cap x = x
    BY SMTT(30) DEF HeadWords
  <2>2. op.slot \cap op.slot = op.slot
    BY SMTT(30)
  <2>3. TailOf(log).slot = op.slot /\ TailOf(log).head = HeadBits /\ r.slot = op.slot /\ r.head = x
    BY <1>1, SMTT(30)
  <2> QED  BY <2>1, <2>2, <2>3, ZenonT(30)
<1>4. log \in Logs
  BY Typed, SMTT(30) DEF IInv
<1> HIDE DEF r
<1>5. /\ Len(LastOf(log)) - 1 \in Nat
      /\ EndsWith(log, [log EXCEPT ![Len(log)] = Program(@, Len(LastOf(log)), r)], Len(LastOf(log)) - 1,
                  [slot |-> TailOf(log).slot \cap r.slot, head |-> TailOf(log).head \cap r.head])
  BY <1>1, <1>2, <1>4, RecordProgrammed, ZenonT(30)
<1>6. l = [log EXCEPT ![Len(log)] = Program(@, Len(LastOf(log)), r)]
  BY <1>1, ZenonT(30) DEF r
<1> QED  BY <1>3, <1>5, <1>6, ZenonT(30) DEF r

\* program_index_record_at, second half: the record decides its slot.
LEMMA ProgramHeadInv == IInv /\ ProgramHead => IInv'
<1> SUFFICES ASSUME IInv, ProgramHead
             PROVE  IInv'
  OBVIOUS
<1> DEFINE n == Len(LastOf(log)) - 1
<1>1. /\ pc = "head" /\ next' = next + 1 /\ cache' = [cache EXCEPT ![op.slot] = op.head]
      /\ op' = NoOp /\ pc' = "idle" /\ fails' = 0
      /\ UNCHANGED <<roots, active, src, before>>
  BY DEF ProgramHead
<1>2. /\ HasTail(log) /\ BadTail(log, roots) /\ next = Len(LastOf(log)) /\ active = "log"
      /\ op \in [slot : Slots, head : DataSectors \cup {Free}]
      /\ Len(log) < IndexSectors /\ Recovered(log, roots) = cache
  BY <1>1, HeadPending
<1>3. /\ log \in Logs /\ Len(log) \in Nat /\ Len(LastOf(log)) \in Nat /\ Len(LastOf(log)) <= RecordsPerSector
  BY Typed, ZenonT(30) DEF IInv
<1>4. /\ op = [slot |-> op.slot, head |-> op.head] /\ op.slot \in Slots
      /\ op.head \in DataSectors \cup {Free} /\ op.head \in HeadWords /\ op \in Proper /\ op # NoOp
  BY <1>2, SlotsAssumption, DataSectorsAssumption, SMTT(30) DEF Free, HeadWords, Proper, NoOp
<1>5. log' = [log EXCEPT ![Len(log)] = Program(@, next, op)] /\ UNCHANGED fresh
  BY <1>2, SMTT(30) DEF ProgramHead, ProgramActive
<1>6. n \in Nat /\ EndsWith(log, log', n, op)
  <2>1. log' = [log EXCEPT ![Len(log)] = Program(@, next, [slot |-> op.slot, head |-> op.head])]
    BY <1>4, <1>5, ZenonT(30)
  <2>2. n \in Nat /\ EndsWith(log, log', n, [slot |-> op.slot, head |-> op.head])
    BY <1>1, <1>4, <2>1, HeadProgrammed, ZenonT(30)
  <2> QED  BY <1>4, <2>2, SMTT(30)
<1> HIDE DEF n
<1>7. /\ log' \in Logs /\ SameBody(log, log', n) /\ Len(LastOf(log')) = n + 1 /\ HasTail(log')
      /\ TailOf(log') = op /\ Len(log') = Len(log) /\ Len(LastOf(log)) = n + 1
  BY <1>3, <1>6 DEF EndsWith, SameBody, n
<1>8. op.head \in DataSectors => <<op.slot, op.head>> \in roots
  BY <1>4, DataSectorsAssumption, SMTT(30) DEF IInv, Roots, Free
<1>9. ~BadTail(log', roots)
  BY <1>4, <1>7, <1>8, SlotsAssumption, ZenonT(30) DEF BadTail, TailOk, WellFormed
<1>10. Recovered(log', roots) = cache'
  <2>1. EndsAt(log, roots, n)
    BY <1>2, <1>7, SMTT(30) DEF EndsAt
  <2>2. Recovered(log', roots) = [Recovered(log, roots) EXCEPT ![TailOf(log').slot] = TailOf(log').head]
    <3>1. TailOf(log').slot \in Slots
      BY <1>4, <1>7, ZenonT(30)
    <3>2. TailTaken(log, roots, log', roots, n)
      BY <1>6, <1>7, <1>9, <2>1, <3>1, ZenonT(30) DEF TailTaken
    <3>3. TailWins(log, roots, log', roots)
      BY <1>3, <1>4, <1>6, <1>7, <3>2, TailDecides, ZenonT(30)
    <3> QED  BY <3>3, ZenonT(30) DEF TailWins
  <2> QED  BY <1>1, <1>2, <1>7, <2>2, ZenonT(30)
<1>11. TypeOK'
  <2>1. /\ log' \in Seq(Seq(Records)) /\ Len(log') \in 1..IndexSectors
        /\ \A k \in 1..Len(log') : Len(log'[k]) <= RecordsPerSector
    <3>1. Len(log') <= IndexSectors
      BY <1>7, SMTT(30) DEF IInv, TypeOK
    <3> QED  BY <1>7, <3>1, TypedLog, SMTT(30) DEF IInv
  <2>2. cache' \in [Slots -> DataSectors \cup {Free}]
    BY <1>1, <1>4, SMTT(30) DEF IInv, TypeOK
  <2>3. next' \in 1..(RecordsPerSector + 1)
    <3>1. Len(LastOf(log)) <= Len(LastOf(log))
      BY <1>3
    <3>2. Len(LastOf(log)) + 1 \in 1..(RecordsPerSector + 1)
      BY <1>3, <3>1, CountFits, ZenonT(30)
    <3> QED  BY <1>1, <1>2, <3>2, ZenonT(30)
  <2> QED  BY <1>1, <1>5, <2>1, <2>2, <2>3, IndexSectorsAssumption, SMTT(30) DEF IInv, TypeOK
<1>12. Phase'
  BY <1>1, <1>2, <1>7, SMTT(30) DEF Phase, On
<1>13. Shape'
  <2>1. n < Len(LastOf(log)) /\ ShapeOf(log, roots)
    BY <1>6, <1>7, SMTT(30) DEF IInv, Shape
  <2>2. ShapeOf(log', roots)
    BY <1>3, <1>4, <1>6, <2>1, ShapeKept, SMTT(30)
  <2> QED  BY <1>1, <1>9, <2>2, SMTT(30) DEF Shape
<1>14. Roots'
  <2>1. Rooted(cache) /\ cache \in [Slots -> DataSectors \cup {Free}]
    BY <1>1, SMTT(30) DEF IInv, Roots, On, TypeOK
  <2>2. op.head # Free => <<op.slot, op.head>> \in roots
    BY <1>4, <1>8, SMTT(30)
  <2> QED  BY <1>1, <1>4, <2>1, <2>2, ZenonT(30) DEF Roots, Rooted, On
<1>15. Copying'
  BY <1>1, ZenonT(30) DEF Copying
<1>16. OldestDone'
  BY <1>2, <1>3, <1>7, IndexSectorsAssumption DEF OldestDone
<1>17. Agree' /\ CrashAtomic'
  BY <1>1, <1>10, SMTT(30) DEF Agree, CrashAtomic
<1> QED  BY <1>11, <1>12, <1>13, <1>14, <1>15, <1>16, <1>17 DEF IInv
\* RAM is lost; what remains to be shown is about the flash.
LEMMA PowerOffInv ==
  ASSUME IInv, PowerOff, log' \in Logs, Len(log') <= IndexSectors,
         ShapeOf(log', roots), OldestDone',
         Recovered(log', roots) \in {before', Abstract!Applied(before', op)}
  PROVE  IInv'
<1>1. /\ pc' = "off" /\ cache' = NoNames /\ next' = 1 /\ src' = 1 /\ active' = "log" /\ fresh' = <<>>
      /\ before' = (IF pc \in {"off", "replay"} THEN before ELSE cache) /\ fails' = 0
      /\ UNCHANGED <<roots, op>>
  BY ZenonT(30) DEF PowerOff
<1>2. TypeOK'
  <2>1. /\ log' \in Seq(Seq(Records)) /\ Len(log') \in 1..IndexSectors
        /\ \A k \in 1..Len(log') : Len(log'[k]) <= RecordsPerSector
    BY TypedLog, SMTT(30) DEF IInv
  <2>2. fresh' \in Seq(Records) /\ Len(fresh') = 0 /\ NoNames \in [Slots -> DataSectors \cup {Free}]
    BY <1>1, SMTT(30) DEF NoNames
  <2>3. before' \in [Slots -> DataSectors \cup {Free}]
    BY <1>1, ZenonT(30) DEF IInv, TypeOK
  <2> QED  BY <1>1, <2>1, <2>2, <2>3, RecordsPerSectorAssumption, IndexSectorsAssumption, SMTT(30) DEF IInv, TypeOK
<1>3. Phase'
  BY <1>1, SMTT(30) DEF Phase, On
<1>4. Shape'
  BY <1>1, ZenonT(30) DEF Shape, On
<1>5. Roots'
  <2>1. Rooted(before')
    BY <1>1, SMTT(30) DEF IInv, Roots, On
  <2> QED  BY <1>1, <2>1, SMTT(30) DEF IInv, Roots, Rooted, On
<1>6. Copying'
  BY <1>1, SMTT(30) DEF Copying
<1>7. Agree'
  BY <1>1, SMTT(30) DEF Agree, On
<1>8. CrashAtomic'
  BY <1>1, SMTT(30) DEF CrashAtomic, Abstract!Applied
<1> QED  BY <1>2, <1>3, <1>4, <1>5, <1>6, <1>7, <1>8, ZenonT(30) DEF IInv

\* What replay finds now is the namespace before the power loss, with or
\* without the operation that is in doubt.
LEMMA FoundNow ==
  ASSUME IInv, PowerOff
  PROVE  /\ Recovered(log, roots) \in {before', Abstract!Applied(before', op)}
         /\ On => Recovered(log, roots) = before' /\ before' = cache
BY DEF IInv, PowerOff, Agree, CrashAtomic, On

\* Power is lost between flash operations.
LEMMA PowerLossInv == IInv /\ PowerLoss => IInv'
<1> SUFFICES ASSUME IInv, PowerLoss
             PROVE  IInv'
  OBVIOUS
<1>1. PowerOff /\ UNCHANGED <<log, roots>>
  BY SMTT(30) DEF PowerLoss, PowerOff
<1>2. log' \in Logs /\ Len(log') <= IndexSectors
  <2>1. log \in Logs /\ Len(log) \in Nat /\ Len(log) \in 1..IndexSectors
    BY Typed, ZenonT(30) DEF IInv, TypeOK
  <2> QED  BY <1>1, <2>1, SectorCount, ZenonT(30)
<1>3. ShapeOf(log', roots) /\ OldestDone'
  BY <1>1, SMTT(30) DEF IInv, Shape, OldestDone
<1>4. Recovered(log', roots) \in {before', Abstract!Applied(before', op)}
  BY <1>1, FoundNow, SMTT(30)
<1> QED  BY <1>1, <1>2, <1>3, <1>4, PowerOffInv, ZenonT(30)

\* A new terminal record in the last sector of an area that is not full.
LEMMA TailChanged ==
  ASSUME IInv, PowerOff, Len(log) < IndexSectors, NEW n \in Nat, NEW r, EndsWith(log, log', n, r),
         ~BadTail(log, roots) \/ n < Len(LastOf(log)),
         r \in Proper \/ BadTail(log', roots),
         Recovered(log', roots) \in {before', Abstract!Applied(before', op)}
  PROVE  IInv'
<1>1. log \in Logs /\ Len(log) \in Nat /\ ShapeOf(log, roots)
  BY Typed, ZenonT(30) DEF IInv, Shape
<1>2. log' \in Logs /\ Len(log') = Len(log)
  BY SMTT(30) DEF EndsWith, SameBody
<1>3. ShapeOf(log', roots)
  BY <1>1, ShapeKept, ZenonT(30)
<1>4. OldestDone' /\ Len(log') <= IndexSectors
  BY <1>1, <1>2, IndexSectorsAssumption DEF OldestDone
<1> QED  BY <1>2, <1>3, <1>4, PowerOffInv, ZenonT(30)

\* Power is lost while the slot word is programmed.
LEMMA PowerLossInSlotInv == IInv /\ PowerLossInSlot => IInv'
<1> SUFFICES ASSUME IInv, PowerLossInSlot
             PROVE  IInv'
  OBVIOUS
<1> DEFINE n == Len(LastOf(log))
<1>1. /\ pc \in {"append", "rotated"} /\ next <= RecordsPerSector /\ PowerOff
  BY SMTT(30) DEF PowerLossInSlot
<1>2. PICK x \in Torn(op.slot, SlotBits) :
        log' = [log EXCEPT ![Len(log)] = Program(@, next, [slot |-> x, head |-> HeadBits])]
  BY ZenonT(30) DEF PowerLossInSlot
<1> DEFINE r == [slot |-> x, head |-> HeadBits]
<1>3. /\ next = n + 1 /\ Len(log) < IndexSectors /\ ~BadTail(log, roots) /\ On
  BY <1>1 DEF IInv, Phase, Shape, On
<1>4. log \in Logs /\ n \in Nat /\ Len(log) \in 1..Len(log) /\ LastOf(log) = log[Len(log)]
  BY Typed DEF IInv
<1>5. Recovered(log, roots) = before'
  BY <1>1, <1>3, FoundNow
<1>6. CASE r = [slot |-> SlotBits, head |-> HeadBits]
  <2>1. Program(log[Len(log)], n + 1, r) = log[Len(log)]
    <3>1. ~(n + 1 <= Len(log[Len(log)]))
      BY <1>4
    <3> HIDE DEF r
    <3> QED  BY <1>6, <3>1, ZenonT(30) DEF Program
  <2>2. log' = log
    <3>1. log' = [log EXCEPT ![Len(log)] = log[Len(log)]]
      BY <1>2, <1>3, <2>1, ZenonT(30)
    <3>2. log \in Seq(Seq(Records))
      BY <1>4 DEF Logs
    <3> QED  BY <1>4, <3>1, <3>2, SMTT(30)
  <2>3. PowerLoss
    BY <1>1, <2>2 DEF PowerLoss
  <2> QED  BY <2>3, PowerLossInv
<1>7. CASE r # [slot |-> SlotBits, head |-> HeadBits]
  <2>1. r \in Records
    BY DEF Records, HeadWords, SlotWords, Torn
  <2>2. n < RecordsPerSector
    BY <1>1, <1>3, <1>4, RecordsPerSectorAssumption, SMTT(30)
  <2>3. r.head = HeadBits
    BY SMTT(30)
  <2> HIDE DEF r
  <2>4. log' = [log EXCEPT ![Len(log)] = Program(@, n + 1, r)]
    BY <1>2, <1>3, SMTT(30) DEF r
  <2>5. EndsWith(log, log', n, r)
    BY <1>4, <1>7, <2>1, <2>2, <2>4, RecordAppended, ZenonT(30)
  <2> HIDE DEF n
  <2>6. /\ log' \in Logs /\ SameBody(log, log', n) /\ Len(LastOf(log')) = n + 1
        /\ HasTail(log') /\ TailOf(log') = r
    BY <2>5 DEF EndsWith
  <2>7. BadTail(log', roots)
    BY <2>3, <2>6, HalfRecord, ZenonT(30) DEF BadTail
  <2>8. Recovered(log', roots) = Recovered(log, roots)
    <3>1. EndsAt(log, roots, n) /\ EndsAt(log', roots, n)
      BY <1>3, <2>6, <2>7, SMTT(30) DEF EndsAt, n
    <3> QED  BY <1>4, <2>6, <3>1, SameBodySameNames, ZenonT(30)
  <2> QED  BY <1>1, <1>3, <1>4, <1>5, <2>5, <2>7, <2>8, TailChanged, ZenonT(30)
<1> QED  BY <1>6, <1>7, SMTT(30)

\* Power is lost while the head word is programmed: the torn head is one that
\* replay does not accept, the new one, or the current one.
LEMMA PowerLossInHeadInv ==
  ASSUME Tears \subseteq {"old"}
  PROVE  IInv /\ PowerLossInHead => IInv'
<1> SUFFICES ASSUME IInv, PowerLossInHead
             PROVE  IInv'
  BY SMTT(30)
<1> DEFINE n == Len(LastOf(log)) - 1
<1>1. pc = "head" /\ PowerOff
  BY SMTT(30) DEF PowerLossInHead
<1>2. PICK x \in Torn(op.head, HeadBits) :
        /\ \/ <<op.slot, x>> \notin roots \/ x = op.head
           \/ (IF x = cache[op.slot] THEN "old" ELSE "orphan") \in Tears
        /\ log' = [log EXCEPT ![Len(log)] = Program(@, next, [slot |-> op.slot, head |-> x])]
  BY ZenonT(30) DEF PowerLossInHead
<1> DEFINE r == [slot |-> op.slot, head |-> x]
<1>3. /\ BadTail(log, roots) /\ op \in [slot : Slots, head : DataSectors \cup {Free}]
      /\ Len(log) < IndexSectors /\ Recovered(log, roots) = cache
  BY <1>1, HeadPending
<1>4. log \in Logs /\ Len(LastOf(log)) \in Nat
  BY Typed, ZenonT(30) DEF IInv
<1>5. /\ op.slot \in Slots /\ op.head \in DataSectors \cup {Free} /\ op # NoOp
      /\ op.slot \notin {{}, SlotBits}
  BY <1>3, SlotsAssumption DEF NoOp
<1>6. x \in HeadWords /\ x \subseteq HeadBits /\ HeadBits \cap op.head \subseteq x
  BY SMTT(30) DEF Torn, HeadWords
<1>7. n \in Nat /\ EndsWith(log, log', n, r)
  BY <1>1, <1>2, <1>6, HeadProgrammed, ZenonT(30)
<1> HIDE DEF n
<1>8. /\ log' \in Logs /\ SameBody(log, log', n) /\ Len(LastOf(log')) = n + 1
      /\ HasTail(log') /\ TailOf(log') = r /\ Len(LastOf(log)) = n + 1
  BY <1>4, <1>7 DEF EndsWith, n
<1>9. before' = cache /\ EndsAt(log, roots, n) /\ n < Len(LastOf(log))
  BY <1>1, <1>3, <1>7, <1>8, FoundNow, SMTT(30) DEF EndsAt, On
<1>10. CASE BadTail(log', roots)
  <2>1. EndsAt(log', roots, n)
    BY <1>8, <1>10, ZenonT(30) DEF EndsAt
  <2>2. Recovered(log', roots) = cache
    BY <1>3, <1>4, <1>7, <1>8, <1>9, <2>1, SameBodySameNames, SMTT(30)
  <2> QED  BY <1>1, <1>3, <1>7, <1>9, <1>10, <2>2, TailChanged, ZenonT(30)
<1>11. CASE ~BadTail(log', roots)
  <2>1. TailOk(r, roots)
    BY <1>8, <1>11, ZenonT(30) DEF BadTail
  <2>2. x \in DataSectors \cup {Free} /\ (x \in DataSectors => <<op.slot, x>> \in roots)
    <3>1. r.slot = op.slot /\ r.head = x /\ r # Zero
      BY <1>5, SMTT(30) DEF Zero
    <3> HIDE DEF r
    <3> QED  BY <2>1, <3>1, ZenonT(30) DEF TailOk, WellFormed
  <2>3. x = op.head \/ x = cache[op.slot]
    <3>1. CASE x \in DataSectors
      BY <1>2, <2>2, <3>1, ZenonT(30)
    <3>2. CASE x = Free
      <4>1. op.head \subseteq HeadBits
        BY <1>5, DataSectorsAssumption, SMTT(30) DEF Free, HeadWords
      <4> QED  BY <1>6, <3>2, <4>1, ZenonT(30) DEF Free
    <3> QED  BY <2>2, <3>1, <3>2, ZenonT(30)
  <2>4. Recovered(log', roots) = [cache EXCEPT ![op.slot] = x]
    <3>1. TailOf(log').slot = op.slot /\ TailOf(log').head = x
      BY <1>8, SMTT(30)
    <3>2. Recovered(log', roots) = [Recovered(log, roots) EXCEPT ![TailOf(log').slot] = TailOf(log').head]
      <4>1. TailOf(log').slot \in Slots
        BY <1>5, <3>1, ZenonT(30)
      <4>2. TailTaken(log, roots, log', roots, n)
        BY <1>8, <1>9, <1>11, <4>1, ZenonT(30) DEF TailTaken
      <4>3. TailWins(log, roots, log', roots)
        BY <1>4, <1>7, <1>8, <4>2, TailDecides, ZenonT(30)
      <4> QED  BY <4>3, ZenonT(30) DEF TailWins
    <3> QED  BY <1>3, <3>1, <3>2, ZenonT(30)
  <2>5. Recovered(log', roots) \in {before', Abstract!Applied(before', op)}
    <3>1. CASE x = op.head
      BY <1>5, <1>9, <2>4, <3>1, ZenonT(30) DEF Abstract!Applied
    <3>2. CASE x = cache[op.slot]
      <4>1. cache \in [Slots -> DataSectors \cup {Free}]
        BY SMTT(30) DEF IInv, TypeOK
      <4>2. [cache EXCEPT ![op.slot] = x] = cache
        BY <1>5, <3>2, <4>1, ZenonT(30)
      <4> QED  BY <1>9, <2>4, <4>2, ZenonT(30)
    <3> QED  BY <2>3, <3>1, <3>2, ZenonT(30)
  <2>6. r \in Proper
    BY <1>5, <2>2, ZenonT(30) DEF Proper
  <2> QED  BY <1>1, <1>3, <1>7, <1>9, <2>5, <2>6, TailChanged, ZenonT(30)
<1> QED  BY <1>10, <1>11, SMTT(30)

\* Power is lost while mount clobbers a bad terminal record.
LEMMA PowerLossInClobberInv ==
  ASSUME Tears \subseteq {"old"}
  PROVE  IInv /\ PowerLossInClobber => IInv'
<1> SUFFICES ASSUME IInv, PowerLossInClobber
             PROVE  IInv'
  OBVIOUS
<1> DEFINE n == Len(LastOf(log)) - 1
<1>1. pc = "replay" /\ PowerOff /\ BadTail(log, roots) /\ HasTail(log) /\ UNCHANGED op
  BY SMTT(30) DEF PowerLossInClobber, BadTail, PowerOff
<1>2. PICK x \in SUBSET TailOf(log).slot, y \in SUBSET TailOf(log).head :
        LET r == [slot |-> x, head |-> y] IN
        /\ "clobber" \in Tears \/ ~TailOk(r, roots) \/ r \in {Zero, op}
        /\ log' = [log EXCEPT ![Len(log)] = Program(@, Len(@), r)]
  BY ZenonT(30) DEF PowerLossInClobber
<1> DEFINE r == [slot |-> x, head |-> y]
<1>3. ~TailOk(r, roots) \/ r \in {Zero, op}
  BY <1>2, ZenonT(30)
<1>4. log \in Logs /\ Len(log) \in 1..Len(log) /\ LastOf(log) = log[Len(log)]
      /\ Len(LastOf(log)) \in Nat /\ Len(log) < IndexSectors
  BY <1>1, Typed, ZenonT(30) DEF IInv, Phase
<1>5. r \in Records
  <2>1. TailOf(log) \in Records
    <3>1. TailOf(log) = log[Len(log)][Len(log[Len(log)])]
      BY <1>4, LogTypes, ZenonT(30)
    <3>2. log[Len(log)] \in Seq(Records) /\ log[Len(log)] # <<>>
      BY <1>1, <1>4, SMTT(30) DEF Logs, HasTail
    <3>3. Len(log[Len(log)]) \in 1..Len(log[Len(log)])
      BY <3>2, SMTT(30)
    <3> QED  BY <3>1, <3>2, <3>3, SMTT(30)
  <2>2. TailOf(log).slot \subseteq SlotBits /\ TailOf(log).head \subseteq HeadBits
    BY <2>1, ZenonT(30) DEF Records, SlotWords, HeadWords
  <2> QED  BY <2>2, SMTT(30) DEF Records, SlotWords, HeadWords
<1>6. [slot |-> TailOf(log).slot \cap r.slot, head |-> TailOf(log).head \cap r.head] = r
  <2>1. TailOf(log).slot \cap x = x /\ TailOf(log).head \cap y = y
    BY ZenonT(30)
  <2> QED  BY <2>1, ZenonT(30)
<1>7. log' = [log EXCEPT ![Len(log)] = Program(@, Len(LastOf(log)), r)]
  BY <1>2, <1>4, SMTT(30)
<1> HIDE DEF r
<1>8. n \in Nat /\ EndsWith(log, log', n, r)
  BY <1>1, <1>4, <1>5, <1>6, <1>7, RecordProgrammed, ZenonT(30)
<1> HIDE DEF n
<1>9. /\ log' \in Logs /\ SameBody(log, log', n) /\ Len(LastOf(log')) = n + 1
      /\ HasTail(log') /\ TailOf(log') = r /\ Len(LastOf(log)) = n + 1
  BY <1>4, <1>8, SMTT(30) DEF EndsWith, n
<1>10. EndsAt(log, roots, n) /\ n < Len(LastOf(log))
  <2>1. Len(LastOf(log)) = n + 1 /\ n \in Nat
    BY <1>8, <1>9, ZenonT(30)
  <2>2. n < Len(LastOf(log))
    BY ONLY <2>1, SMTT(30)
  <2>3. EndsAt(log, roots, n)
    BY <1>1, <2>1, ZenonT(30) DEF EndsAt
  <2> QED  BY <2>2, <2>3, ZenonT(30)
<1>11. Recovered(log, roots) \in {before', Abstract!Applied(before', op)}
  BY <1>1, FoundNow, SMTT(30)
<1>12. CASE ~TailOk(r, roots)
  <2>1. BadTail(log', roots)
    BY <1>9, <1>12, ZenonT(30) DEF BadTail
  <2>2. EndsAt(log', roots, n)
    BY <1>9, <2>1, ZenonT(30) DEF EndsAt
  <2>3. Recovered(log', roots) = Recovered(log, roots)
    BY <1>4, <1>8, <1>9, <1>10, <2>2, SameBodySameNames, ZenonT(30)
  <2> QED  BY <1>1, <1>4, <1>8, <1>10, <1>11, <2>1, <2>3, TailChanged, ZenonT(30)
<1>13. CASE r = Zero
  <2>1. EndsAt(log', roots, n)
    BY <1>9, <1>13, SlotsAssumption, SMTT(30) DEF EndsAt, Zero
  <2>2. Recovered(log', roots) = Recovered(log, roots)
    BY <1>4, <1>8, <1>9, <1>10, <2>1, SameBodySameNames, ZenonT(30)
  <2>3. r \in Proper
    BY <1>13, SMTT(30) DEF Proper
  <2> QED  BY <1>1, <1>4, <1>8, <1>10, <1>11, <2>2, <2>3, TailChanged, ZenonT(30)
<1>14. CASE r = op /\ op # Zero /\ TailOk(r, roots)
  <2>1. op # NoOp /\ op \in [slot : Slots, head : DataSectors \cup {Free}]
    BY <1>14, Typed, SMTT(30) DEF IInv, Zero, NoOp
  <2>2. ~BadTail(log', roots) /\ r \in Proper /\ op.slot \in Slots
    BY <1>9, <1>14, <2>1, ZenonT(30) DEF BadTail, Proper
  <2>3. Recovered(log', roots) = [Recovered(log, roots) EXCEPT ![op.slot] = op.head]
    <3>1. TailOf(log').slot = op.slot /\ TailOf(log').head = op.head
      BY <1>9, <1>14, ZenonT(30)
    <3>2. Recovered(log', roots) = [Recovered(log, roots) EXCEPT ![TailOf(log').slot] = TailOf(log').head]
      <4>1. TailOf(log').slot \in Slots
        BY <2>2, <3>1, ZenonT(30)
      <4>2. TailTaken(log, roots, log', roots, n)
        BY <1>8, <1>9, <1>10, <2>2, <4>1, ZenonT(30) DEF TailTaken
      <4>3. TailWins(log, roots, log', roots)
        BY <1>4, <1>8, <1>9, <4>2, TailDecides, ZenonT(30)
      <4> QED  BY <4>3, ZenonT(30) DEF TailWins
    <3> QED  BY <3>1, <3>2
  <2>4. before' \in [Slots -> DataSectors \cup {Free}]
    BY <1>1, ZenonT(30) DEF PowerOff, IInv, TypeOK
  <2>5. Abstract!Applied(before', op) = [before' EXCEPT ![op.slot] = op.head]
    BY <2>1 DEF Abstract!Applied
  <2>6. Recovered(log', roots) = Abstract!Applied(before', op)
    BY <1>11, <2>2, <2>3, <2>4, <2>5, ZenonT(30)
  <2> QED  BY <1>1, <1>4, <1>8, <1>10, <2>2, <2>6, TailChanged, ZenonT(30)
<1> QED  BY <1>3, <1>12, <1>13, <1>14, ZenonT(30)
\* A step that changes nothing that the invariant is about.
LEMMA StutterInv == IInv /\ UNCHANGED vars => IInv'
<1> SUFFICES ASSUME IInv, UNCHANGED vars
             PROVE  IInv'
  OBVIOUS
<1>1. UNCHANGED <<log, fresh, roots, active, next, cache, src, pc, op, before, fails>>
  BY ZenonT(30) DEF vars
<1>2. TypeOK'
  BY <1>1, SMTT(30) DEF IInv, TypeOK
<1>3. Phase' /\ Shape' /\ OldestDone'
  BY <1>1, ZenonT(30) DEF IInv, Phase, Shape, OldestDone, On
<1>4. Roots'
  BY <1>1, ZenonT(30) DEF IInv, Roots, Rooted, On
<1>5. Copying'
  BY <1>1, SMTT(30) DEF IInv, Copying, Copied, CarriedForward
<1>6. Agree' /\ CrashAtomic'
  BY <1>1 DEF IInv, Agree, CrashAtomic, On, Abstract!Applied
<1> QED  BY <1>2, <1>3, <1>4, <1>5, <1>6, ZenonT(30) DEF IInv

\* The invariant is inductive.
LEMMA NextInv ==
  ASSUME Tears \subseteq {"old"}
  PROVE  IInv /\ [Next]_vars => IInv'
<1> SUFFICES ASSUME IInv, [Next]_vars
             PROVE  IInv'
  OBVIOUS
<1>1. CASE FinishInterrupted
  BY <1>1, FinishInterruptedInv
<1>2. CASE Replay
  BY <1>2, ReplayInv, ZenonT(30)
<1>3. CASE ReplayClobber
  BY <1>3, ReplayClobberInv
<1>4. ASSUME NEW s \in Slots, NEW h \in DataSectors, BeginCommit(s, h) \/ DropRoot(s, h)
      PROVE  IInv'
  BY <1>4, BeginCommitInv, DropRootInv, SMTT(30)
<1>5. ASSUME NEW s \in Slots, BeginDelete(s)
      PROVE  IInv'
  BY <1>5, BeginDeleteInv, ZenonT(30)
<1>6. CASE RotateBegin
  BY <1>6, RotateBeginInv
<1>7. CASE CopyRecord
  BY <1>7, CopyRecordInv
<1>8. CASE CopyEnd
  BY <1>8, CopyEndInv
<1>9. CASE RotateCommit
  BY <1>9, RotateCommitInv
<1>10. CASE CompactFinish
  BY <1>10, CompactFinishInv
<1>11. CASE NoSpace
  BY <1>11, NoSpaceInv
<1>12. CASE ProgramSlot
  BY <1>12, ProgramSlotInv
<1>13. CASE ProgramHead
  BY <1>13, ProgramHeadInv
<1>14. CASE PowerLoss
  BY <1>14, PowerLossInv
<1>15. CASE PowerLossInSlot
  BY <1>15, PowerLossInSlotInv
<1>16. CASE PowerLossInHead
  BY <1>16, PowerLossInHeadInv
<1>17. CASE PowerLossInClobber
  BY <1>17, PowerLossInClobberInv
<1>18. CASE UNCHANGED vars
  BY <1>18, StutterInv
<1> QED  BY ZenonT(30), <1>1, <1>2, <1>3, <1>4, <1>5, <1>6, <1>7, <1>8, <1>9, <1>10, <1>11, <1>12,
            <1>13, <1>14, <1>15, <1>16, <1>17, <1>18, ZenonT(30) DEF Next
-----------------------------------------------------------------------------
(* The theorems. *)

\* Every reachable state satisfies the inductive invariant.
THEOREM InvariantHolds ==
  ASSUME Tears \subseteq {"old"}
  PROVE  Spec => []IInv
<1>1. Init => IInv
  BY InitInv
<1>2. IInv /\ [Next]_vars => IInv'
  BY NextInv
<1> QED  BY <1>1, <1>2, PTL DEF Spec

\* No index sector overflows, the sequence of valid sectors never outgrows the
\* index area, and the cache maps slots to data sectors only.
THEOREM IndexTypeCorrect ==
  ASSUME Tears \subseteq {"old"}
  PROVE  Spec => []TypeOK
<1>1. IInv => TypeOK
  BY SMTT(30) DEF IInv
<1> QED  BY <1>1, InvariantHolds, PTL

\* fffs_append_index_record: between operations the cache in RAM is what a
\* mount would rebuild from the flash, after any history of appends,
\* rotations, compactions, crashes and interrupted mounts.
THEOREM IndexIsDurable ==
  ASSUME Tears \subseteq {"old"}
  PROVE  Spec => []Durable
<1>1. IInv => Durable
  BY ZenonT(30) DEF IInv, Durable, Agree, On
<1> QED  BY <1>1, InvariantHolds, PTL

\* fffs_replay_index never returns FFFS_ERR_CORRUPT for what power losses
\* leave: only the terminal record of the active sector can be malformed.
THEOREM MountIsNeverRejected ==
  ASSUME Tears \subseteq {"old"}
  PROVE  Spec => []MountSucceeds
<1>1. IInv => MountSucceeds
  <2> SUFFICES ASSUME IInv
               PROVE  MountSucceeds
    BY SMTT(30)
  <2>1. \A r \in Proper : WellFormed(r)
    BY SlotsAssumption DEF Proper, WellFormed
  <2>2. ShapeOf(log, roots)
    BY SMTT(30) DEF IInv, Shape
  <2> QED  BY <2>1, <2>2, SMTT(30) DEF ShapeOf, MountSucceeds, Replayable
<1> QED  BY <1>1, InvariantHolds, PTL

\* A power loss leaves the operation it interrupts done or not done, and every
\* other slot as it was, however often the mount is interrupted too.
THEOREM PowerLossIsAtomic ==
  ASSUME Tears \subseteq {"old"}
  PROVE  Spec => []CrashAtomic
<1>1. IInv => CrashAtomic
  BY DEF IInv
<1> QED  BY <1>1, InvariantHolds, PTL

\* Every step on the index is a step of Namespace or leaves it alone.
LEMMA StepRefines ==
  ASSUME IInv, [Next]_vars
  PROVE  [Abstract!Next]_(Abstract!vars)
<1>1. ASSUME UNCHANGED <<before, cache, op>>, pc \in {"off", "replay"} <=> pc' \in {"off", "replay"}
      PROVE  UNCHANGED Abstract!vars
  BY <1>1, SMTT(30) DEF Abstract!vars
<1>2. CASE FinishInterrupted
  BY <1>1, <1>2 DEF FinishInterrupted
<1>3. CASE Replay \/ ReplayClobber
  <2>1. /\ pc = "replay" /\ cache' = Recovered(log, roots) /\ op' = NoOp /\ pc' = "idle"
    BY <1>3, SMTT(30) DEF Replay, ReplayClobber, Mounted
  <2>2. Recovered(log, roots) \in {before, Abstract!Applied(before, op)}
    BY <2>1, SMTT(30) DEF IInv, CrashAtomic
  <2>3. Abstract!Mount
    BY <2>1, <2>2, ZenonT(30) DEF Abstract!Mount, Abstract!Applied
  <2> QED  BY <2>3, SMTT(30) DEF Abstract!Next
<1>4. ASSUME NEW s \in Slots, NEW h \in DataSectors, BeginCommit(s, h)
      PROVE  Abstract!Request
  BY <1>4, SMTT(30) DEF BeginCommit, Abstract!Request, Abstract!Ops, IInv, Phase
<1>5. ASSUME NEW s \in Slots, NEW h \in DataSectors, DropRoot(s, h)
      PROVE  UNCHANGED Abstract!vars
  BY <1>1, <1>5, ZenonT(30) DEF DropRoot
<1>6. ASSUME NEW s \in Slots, BeginDelete(s)
      PROVE  Abstract!Request
  BY <1>6, SMTT(30) DEF BeginDelete, Abstract!Request, Abstract!Ops, IInv, Phase
<1>7. CASE RotateBegin
  BY <1>1, <1>7, ZenonT(30) DEF RotateBegin
<1>8. CASE CopyRecord
  BY <1>1, <1>8, SMTT(30) DEF CopyRecord
<1>9. CASE CopyEnd
  BY <1>1, <1>9, SMTT(30) DEF CopyEnd
<1>10. CASE RotateCommit
  BY <1>1, <1>10, SMTT(30) DEF RotateCommit
<1>11. CASE CompactFinish
  BY <1>1, <1>11 DEF CompactFinish
<1>12. CASE NoSpace
  <2>1. pc = "rotated" /\ op # NoOp /\ op' = NoOp /\ pc' = "idle" /\ UNCHANGED <<cache, before>>
    BY <1>12, SMTT(30) DEF NoSpace, IInv, Phase, On
  <2>2. Abstract!Fail
    BY <2>1, SMTT(30) DEF Abstract!Fail
  <2> QED  BY <2>2, ZenonT(30) DEF Abstract!Next
<1>13. CASE ProgramSlot
  BY <1>1, <1>13 DEF ProgramSlot
<1>14. CASE ProgramHead
  <2>1. /\ pc = "head" /\ op # NoOp /\ op' = NoOp /\ pc' = "idle"
        /\ cache' = [cache EXCEPT ![op.slot] = op.head]
    BY <1>14, SMTT(30) DEF ProgramHead, IInv, Phase, On
  <2>2. Abstract!Succeed
    BY <2>1 DEF Abstract!Succeed, Abstract!Applied
  <2> QED  BY <2>2, ZenonT(30) DEF Abstract!Next
<1>15. ASSUME PowerOff
       PROVE  Abstract!PowerLoss \/ UNCHANGED Abstract!vars
  <2>1. /\ pc' = "off" /\ before' = (IF pc \in {"off", "replay"} THEN before ELSE cache)
        /\ UNCHANGED op
    BY <1>15, SMTT(30) DEF PowerOff
  <2>2. CASE pc \in {"off", "replay"}
    BY <2>1, <2>2, SMTT(30) DEF Abstract!vars
  <2>3. CASE pc \notin {"off", "replay"}
    BY <2>1, <2>3 DEF Abstract!PowerLoss
  <2> QED  BY <2>2, <2>3, SMTT(30)
<1>16. CASE PowerLoss \/ PowerLossInSlot \/ PowerLossInHead \/ PowerLossInClobber
  <2>1. PowerOff
    BY <1>16, ZenonT(30) DEF PowerLoss, PowerLossInSlot, PowerLossInHead, PowerLossInClobber
  <2> QED  BY <1>15, <2>1, SMTT(30) DEF Abstract!Next
<1>17. CASE UNCHANGED vars
  BY <1>1, <1>17 DEF vars
<1> QED  BY ZenonT(30), <1>2, <1>3, <1>4, <1>5, <1>6, <1>7, <1>8, <1>9, <1>10, <1>11, <1>12,
            <1>13, <1>14, <1>16, <1>17, ZenonT(30) DEF Next, Abstract!Next

\* The index implements Namespace: every append, rotation, compaction, mount
\* and power loss is one atomic step on a map from slots to root sectors, or
\* none.
THEOREM IndexImplementsNamespace ==
  ASSUME Tears \subseteq {"old"}
  PROVE  Spec => ImplementsNamespace
<1>1. Init => Abstract!Init
  BY DEF Init, Abstract!Init, NoNames
<1>2. IInv /\ [Next]_vars => [Abstract!Next]_(Abstract!vars)
  BY StepRefines
<1> QED  BY <1>1, <1>2, InvariantHolds, PTL DEF Spec, ImplementsNamespace, Abstract!Spec
-----------------------------------------------------------------------------
(* The build without a RAM cache. *)

\* The sectors the scans read, with or without the one a rotation is filling,
\* are replayed to what the cache holds.
LEMMA SequenceAgrees ==
  ASSUME IInv, pc \notin {"off", "replay", "head"}
  PROVE  /\ Sequence \in Logs /\ ~BadTail(Sequence, roots)
         /\ Recovered(Sequence, roots) = cache
<1>1. /\ log \in Logs /\ ~BadTail(log, roots) /\ Recovered(log, roots) = cache
  BY Typed, ZenonT(30) DEF IInv, Shape, Agree, On
<1>2. CASE pc \in {"copy", "header"}
  <2>1. Sequence = Append(log, fresh)
    BY <1>2 DEF IInv, Phase, Sequence
  <2>2. fresh \in Seq(Records) /\ Len(fresh) <= RecordsPerSector
    BY ZenonT(30) DEF IInv, TypeOK
  <2>3. ASSUME NEW i \in 1..Len(fresh)
        PROVE  /\ fresh[i].slot \in Slots /\ fresh[i].head \in DataSectors
               /\ Recovered(log, roots)[fresh[i].slot] = fresh[i].head
               /\ <<fresh[i].slot, fresh[i].head>> \in roots
    <3>1. fresh[i].slot \in Slots /\ fresh[i].head # Free /\ cache[fresh[i].slot] = fresh[i].head
      BY <1>2, ZenonT(30) DEF IInv, Copying
    <3>2. cache[fresh[i].slot] \in DataSectors \cup {Free}
      BY <3>1 DEF IInv, TypeOK
    <3>3. Rooted(cache)
      BY <1>2 DEF IInv, Roots, On
    <3> QED  BY <1>1, <3>1, <3>2, <3>3, ZenonT(30) DEF Rooted
  <2>4. CurrentRecords(log, roots, fresh)
    BY <2>3, ZenonT(30) DEF CurrentRecords
  <2>5. GrownBy(log, Append(log, fresh), roots, fresh)
    BY <1>1, <2>2, <2>4, SectorAppended, ZenonT(30)
  <2> QED  BY <1>1, <2>1, <2>5, ZenonT(30) DEF GrownBy
<1>3. CASE pc \notin {"copy", "header"}
  <2>1. Sequence = log
    BY <1>3, ZenonT(30) DEF IInv, Phase, Sequence
  <2> QED  BY <1>1, <2>1, ZenonT(30)
<1> QED  BY <1>2, <1>3

\* A record that is no delete and has no newer one names the current head of
\* a slot of some file.
LEMMA CurrentRecord ==
  ASSUME IInv, pc \in {"idle", "copy"}, NEW p \in Positions(log),
         At(log, p).head # Free, ~NewerRecord(log, p, At(log, p).slot)
  PROVE  /\ At(log, p).slot \in Slots /\ cache[At(log, p).slot] = At(log, p).head
         /\ Newest(log, roots, At(log, p).slot, p[1], p[2])
<1>1. /\ log \in Logs /\ ~BadTail(log, roots) /\ ShapeOf(log, roots) /\ Recovered(log, roots) = cache
  BY Typed, ZenonT(30) DEF IInv, Shape, Agree, On
<1>2. /\ p[1] \in Nat /\ p[2] \in Nat /\ p[1] \in 1..Len(log) /\ p[2] \in 1..Len(log[p[1]])
      /\ At(log, p) = log[p[1]][p[2]]
      /\ Newest(log, roots, At(log, p).slot, p[1], p[2])
  BY <1>1, PositionsAre, ZenonT(30)
<1>3. At(log, p) \in Proper
  BY <1>1, <1>2, AllProper, ZenonT(30)
<1>4. At(log, p).slot \in Slots
  BY <1>3 DEF Proper, Zero, Free
<1>5. \A s \in Slots : \A k, j \in Nat :
         Newest(log, roots, s, k, j) => Recovered(log, roots)[s] = log[k][j].head
  BY <1>1, RecoveredIs, ZenonT(30)
<1>6. Recovered(log, roots)[At(log, p).slot] = log[p[1]][p[2]].head
  BY <1>2, <1>4, <1>5, ZenonT(30)
<1> QED  BY <1>1, <1>2, <1>4, <1>6, ZenonT(30)

\* FFFS_INDEX_CACHE_NONE: in every reachable state, inside a rotation too, the
\* scans find what a RAM cache would hold, compaction passes over what is
\* superseded, and between calls a listing gives every file exactly once.
THEOREM ScansAgree ==
  ASSUME Tears \subseteq {"old"}
  PROVE  Spec => []ScanAgrees
<1>1. IInv => ScanAgrees
  <2> SUFFICES ASSUME IInv
               PROVE  ScanAgrees
    OBVIOUS
  <2>1. ASSUME pc \notin {"off", "replay", "head"}
        PROVE  /\ \A s \in Slots : HeadForSlot(Sequence, s) = cache[s]
               /\ Occupied(Sequence, Slots) = {s \in Slots : cache[s] # Free}
    <3>1. \A s \in Slots : HeadForSlot(Sequence, s) = cache[s]
      BY <2>1, SequenceAgrees, HeadIs, ZenonT(30)
    <3> QED  BY <3>1 DEF Occupied
  <2>2. ASSUME pc = "copy", NEW n \in 1..Len(log[1]), log[1][n].head # Free, RecordIsCurrent(n)
        PROVE  CarriedForward(log[1][n])
    <3>1. /\ Len(log) \in Nat /\ 1 \in 1..Len(log) /\ Len(log[1]) \in Nat
          /\ Len(log[1]) <= RecordsPerSector
      BY LogTypes, Typed DEF IInv
    <3>2. n \in 1..RecordsPerSector /\ n <= Len(log[1])
      BY <3>1, RecordsPerSectorAssumption
    <3>3. <<1, n>> \in Positions(log) /\ At(log, <<1, n>>) = log[1][n]
      BY <3>1, <3>2, ZenonT(30) DEF Positions, At
    <3>4. ~NewerRecord(log, <<1, n>>, log[1][n].slot)
      BY <2>2, ZenonT(30) DEF RecordIsCurrent
    <3>5. cache[log[1][n].slot] = log[1][n].head
      BY <2>2, <3>3, <3>4, CurrentRecord, ZenonT(30)
    <3> QED  BY <2>2, <3>5 DEF CarriedForward
  <2>3. ASSUME pc = "idle"
        PROVE  /\ {<<At(Sequence, p).slot, At(Sequence, p).head>> : p \in Entries(Sequence)}
                    = {<<s, cache[s]>> : s \in {t \in Slots : cache[t] # Free}}
               /\ \A p, r \in Entries(Sequence) : At(Sequence, p).slot = At(Sequence, r).slot => p = r
    <3>1. Sequence = log
      BY <2>3 DEF IInv, Phase, Sequence
    <3>2. /\ log \in Logs /\ ~BadTail(log, roots) /\ Recovered(log, roots) = cache
      BY <2>3, Typed, ZenonT(30) DEF IInv, Shape, Agree, On
    <3>3. ASSUME NEW p \in Entries(log)
          PROVE  /\ p \in Positions(log) /\ At(log, p).head # Free
                 /\ At(log, p).slot \in Slots /\ cache[At(log, p).slot] = At(log, p).head
                 /\ Newest(log, roots, At(log, p).slot, p[1], p[2])
      <4>1. p \in Positions(log) /\ At(log, p).head # Free /\ ~NewerRecord(log, p, At(log, p).slot)
        BY ZenonT(30) DEF Entries
      <4> QED  BY <2>3, <4>1, CurrentRecord, ZenonT(30)
    <3>4. ASSUME NEW s \in Slots, cache[s] # Free
          PROVE  \E p \in Entries(log) : At(log, p).slot = s /\ At(log, p).head = cache[s]
      <4>1. /\ \A k, j \in Nat : Newest(log, roots, s, k, j) => cache[s] = log[k][j].head
            /\ (\A k, j \in Nat : ~Newest(log, roots, s, k, j)) => cache[s] = Free
        BY <3>2, RecoveredIs, ZenonT(30)
      <4>2. PICK k \in Nat, j \in Nat : Newest(log, roots, s, k, j)
        BY <3>4, <4>1, ZenonT(30)
      <4>3. /\ <<k, j>> \in Positions(log) /\ At(log, <<k, j>>) = log[k][j] /\ log[k][j].slot = s
            /\ ~NewerRecord(log, <<k, j>>, s)
        BY <3>2, <4>2, NewestIsCurrent, ZenonT(30)
      <4>4. log[k][j].head = cache[s]
        BY <4>1, <4>2, ZenonT(30)
      <4>5. <<k, j>> \in Entries(log)
        BY <3>4, <4>3, <4>4, ZenonT(30) DEF Entries
      <4> QED  BY <4>3, <4>4, <4>5, ZenonT(30)
    <3>5. {<<At(log, p).slot, At(log, p).head>> : p \in Entries(log)}
            = {<<s, cache[s]>> : s \in {t \in Slots : cache[t] # Free}}
      <4>1. ASSUME NEW p \in Entries(log)
            PROVE  <<At(log, p).slot, At(log, p).head>> \in {<<s, cache[s]>> : s \in {t \in Slots : cache[t] # Free}}
        <5>1. At(log, p).slot \in {t \in Slots : cache[t] # Free} /\ cache[At(log, p).slot] = At(log, p).head
          BY <3>3, ZenonT(30)
        <5> QED  BY <5>1, ZenonT(30)
      <4>2. ASSUME NEW s \in {t \in Slots : cache[t] # Free}
            PROVE  <<s, cache[s]>> \in {<<At(log, p).slot, At(log, p).head>> : p \in Entries(log)}
        <5>1. PICK p \in Entries(log) : At(log, p).slot = s /\ At(log, p).head = cache[s]
          BY <3>4
        <5> QED  BY <5>1, ZenonT(30)
      <4> QED  BY <4>1, <4>2, ZenonT(30)
    <3>6. ASSUME NEW p \in Entries(log), NEW r \in Entries(log), At(log, p).slot = At(log, r).slot
          PROVE  p = r
      <4>1. /\ Newest(log, roots, At(log, p).slot, p[1], p[2])
            /\ Newest(log, roots, At(log, p).slot, r[1], r[2])
        BY <3>3, <3>6, ZenonT(30)
      <4>2. /\ p[1] \in Nat /\ p[2] \in Nat /\ p = <<p[1], p[2]>>
            /\ r[1] \in Nat /\ r[2] \in Nat /\ r = <<r[1], r[2]>>
        BY <3>2, <3>3, PositionsAre, ZenonT(30)
      <4>3. p[1] = r[1] /\ p[2] = r[2]
        BY <4>1, <4>2 DEF Newest
      <4> QED  BY <4>2, <4>3, ZenonT(30)
    <3> QED  BY <3>1, <3>5, <3>6, ZenonT(30)
  <2> QED  BY <2>1, <2>2, <2>3 DEF ScanAgrees
<1> QED  BY <1>1, InvariantHolds, PTL
=============================================================================
