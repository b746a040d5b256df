----------------------- MODULE AllocatorBounds_proofs -----------------------
(***************************************************************************)
(* Proofs about Allocator, continued: how many records, reserved sectors   *)
(* and sectors kept for compaction there are, and with it the types of     *)
(* every variable.                                                         *)
(***************************************************************************)
EXTENDS Allocator_proofs, FiniteSetTheorems, WellFoundedInduction

USE DEF Calls

-----------------------------------------------------------------------------
(* How many records, reserved sectors and sectors kept for compaction. *)

\* A sector never has more records than FFFS_ALLOC_MAX_MD_RECORDS_PER_SECTOR:
\* the one a writer is in has room for its record, and the root record of a file
\* that has gone on to other sectors is written but not yet committed.
Filled ==
  /\ \A s \in Sectors : sec[s].recs <= MaxRecs /\ sec[s].roots <= sec[s].recs
  /\ \A w \in Writers : writer[w].cur # 0 =>
        /\ sec[writer[w].cur].recs < MaxRecs
        /\ writer[w].cur # writer[w].head => sec[writer[w].head].roots < sec[writer[w].head].recs

\* No reservation and no compaction reserve is larger than configured.
Bounded ==
  /\ \A w \in Writers : writer[w].count <= ReserveMax
  /\ Cardinality(reserve) <= CompactMax

\* What use_alloc_window and its caller have done: k sectors are reserved.
Gave(w, s, f, base, k) ==
  /\ k = 0 \/ f.count + k <= ReserveMax
  /\ writer'[w].cur = s /\ writer'[w].head = (IF f.cur = 0 THEN s ELSE f.head)
  /\ writer'[w].count = f.count + k
  /\ \A v \in Writers : v # w => writer'[v] = writer[v]
  /\ sec' = IF f.cur = 0 THEN base ELSE [base EXCEPT ![f.cur] = Left(@, f.cur = f.head)]

\* The effect of use_alloc_window on the file and on the sectors.
LEMMA GiveEffect ==
  ASSUME Safe, NEW w \in Writers, NEW s, NEW f \in File, NEW bits, NEW base,
         Give(w, s, f, bits, base)
  PROVE  \E k \in Nat : Gave(w, s, f, base, k)
<1> DEFINE next == ReserveNext(f, s)
           old == f.cur
           into == IF old = 0 THEN [f EXCEPT !.head = s, !.cur = s, !.span = s]
                   ELSE [f EXCEPT !.cur = s, !.span = IF s = old + 1 THEN @ ELSE s,
                                  !.chain = @ \cup ({old} \ {f.head})]
<1>1. PICK k \in (IF base[s].blank THEN Growth(w, f, next, bits) ELSE {0}) :
          /\ writer' = [writer EXCEPT ![w] =
                [into EXCEPT !.first = IF f.count = 0 /\ k > 0 THEN next ELSE @, !.count = @ + k]]
          /\ sec' = IF old = 0 THEN base ELSE [base EXCEPT ![old] = Left(@, old = f.head)]
  BY Zenon DEF Give
<1>2. k \in Nat /\ (k = 0 \/ f.count + k <= ReserveMax)
  BY <1>1, SMTT(30) DEF Growth
<1>3. writer \in [Writers -> File]
  BY SafeTypes
<1>4. /\ writer'[w] = [into EXCEPT !.first = IF f.count = 0 /\ k > 0 THEN next ELSE @, !.count = @ + k]
      /\ \A v \in Writers : v # w => writer'[v] = writer[v]
  BY <1>1, <1>3
<1>5. /\ into.cur = s /\ into.head = (IF old = 0 THEN s ELSE f.head) /\ into.count = f.count
      /\ {"cur", "head", "first", "count"} \subseteq DOMAIN into
  BY DEF File
<1> HIDE DEF into, next
<1>6. writer'[w].cur = into.cur /\ writer'[w].head = into.head /\ writer'[w].count = into.count + k
  BY <1>4, <1>5
<1> QED  BY <1>1, <1>2, <1>4, <1>5, <1>6, Zenon DEF Gave

\* Room for one more record.
Room(x) == x.recs < MaxRecs /\ x.roots <= x.recs

\* base is the sectors on flash, where s may have been erased and has room.
Opened(base, s) ==
  base \in [Sectors -> Sec] /\ Room(base[s]) /\ \A t \in Sectors : t # s => base[t] = sec[t]

\* The counts of a record that a writer leaves.
LEMMA LeftCounts ==
  ASSUME NEW x \in Sec, NEW root \in BOOLEAN
  PROVE  Left(x, root).recs = x.recs + 1 /\ Left(x, root).roots = x.roots
BY DEF Left, Sec

\* use_alloc_window gives a sector with room to a file whose current sector has
\* room for its record.
LEMMA GiveFills ==
  ASSUME Safe, Filled, NEW w \in Writers, NEW s \in Sectors, NEW f \in File, NEW bits, NEW base,
         Opened(base, s), f.cur = writer[w].cur, f.head = writer[w].head, ~OpenForWriting(s),
         Give(w, s, f, bits, base)
  PROVE  Filled'
<1>1. PICK k \in Nat : Gave(w, s, f, base, k)
  BY GiveEffect, ZenonT(30)
<1>2. /\ writer \in [Writers -> File] /\ sec \in [Sectors -> Sec]
      /\ \A v \in Writers : writer[v].cur \in {0} \cup Sectors
      /\ \A v \in Writers : writer[v].cur # 0 => writer[v].head \in Sectors
  BY SafeTypes, SMTT(30) DEF Safe, Ranges
<1>3. 0 \notin Sectors /\ MaxRecs \in Nat
  BY AllocatorAssumption DEF Sectors
<1>4. \A v \in Writers : writer[v].cur # s /\ writer[v].head # s
  BY Zenon DEF OpenForWriting, Holds
<1>5. /\ base \in [Sectors -> Sec] /\ base[s].recs < MaxRecs /\ base[s].roots <= base[s].recs
      /\ \A t \in Sectors : t # s => base[t] = sec[t]
  BY Zenon DEF Opened, Room
<1>6. /\ \A t \in Sectors : t # s /\ t # f.cur => sec'[t] = sec[t]
      /\ sec'[s] = base[s]
      /\ f.cur # 0 => /\ sec'[f.cur].recs = sec[f.cur].recs + 1
                      /\ sec'[f.cur].roots = sec[f.cur].roots
  <2>1. CASE f.cur = 0
    BY <1>1, <1>5, <2>1, ZenonT(30) DEF Gave
  <2>2. CASE f.cur # 0
    <3>1. /\ f.cur \in Sectors /\ f.cur # s /\ base[f.cur] = sec[f.cur]
          /\ sec' = [base EXCEPT ![f.cur] = Left(base[f.cur], f.cur = f.head)]
      BY <1>1, <1>2, <1>4, <1>5, <2>2 DEF Gave
    <3>2. sec[f.cur] \in Sec /\ (f.cur = f.head) \in BOOLEAN
      BY <1>2, <3>1, SMTT(30)
    <3>3. sec'[f.cur] = Left(sec[f.cur], f.cur = f.head)
      BY <1>5, <3>1
    <3>4. sec'[f.cur].recs = sec[f.cur].recs + 1 /\ sec'[f.cur].roots = sec[f.cur].roots
      BY <3>2, <3>3, LeftCounts, Zenon
    <3> QED  BY <1>5, <3>1, <3>4, ZenonT(30)
  <2> QED  BY <2>1, <2>2, ZenonT(30)
<1>7. \A t \in Sectors : /\ sec[t].recs \in Nat /\ sec[t].roots \in Nat
                         /\ sec[t].recs <= MaxRecs /\ sec[t].roots <= sec[t].recs
  BY <1>2, SMTT(30) DEF Sec, Filled
<1>8. /\ base[s].recs \in Nat /\ base[s].roots \in Nat
  BY <1>5 DEF Sec
<1>9. ASSUME NEW t \in Sectors
      PROVE  sec'[t].recs <= MaxRecs /\ sec'[t].roots <= sec'[t].recs
  <2>1. CASE t = s
    BY <1>3, <1>5, <1>6, <1>8, <2>1, SMTT(30)
  <2>2. CASE t = f.cur
    <3>1. f.cur # 0 /\ sec[f.cur].recs < MaxRecs
      BY <1>3, <2>2, ZenonT(30) DEF Filled
    <3> QED  BY <1>3, <1>6, <1>7, <2>2, <3>1
  <2>3. CASE t # s /\ t # f.cur
    BY <1>6, <1>7, <2>3
  <2> QED  BY <2>1, <2>2, <2>3, ZenonT(30)
<1>10. ASSUME NEW v \in Writers, writer'[v].cur # 0
       PROVE  /\ sec'[writer'[v].cur].recs < MaxRecs
              /\ writer'[v].cur # writer'[v].head =>
                    sec'[writer'[v].head].roots < sec'[writer'[v].head].recs
  <2>1. CASE v # w
    <3>1. writer'[v] = writer[v] /\ writer[v].cur \in Sectors /\ writer[v].head \in Sectors
      BY <1>1, <1>2, <1>10, <2>1, ZenonT(30) DEF Gave
    <3>2. /\ f.cur # 0 => f.cur # writer[v].cur /\ f.cur # writer[v].head
      <4>1. f.cur # 0 => Given(w, f.cur) /\ f.cur \in Sectors
        BY <1>2, Zenon DEF Given, Holds
      <4>2. Given(v, writer[v].cur) /\ Given(v, writer[v].head)
        BY Zenon DEF Given, Holds
      <4> QED  BY <2>1, <3>1, <4>1, <4>2 DEF Safe, HandedApart
    <3>3. sec'[writer[v].cur] = sec[writer[v].cur] /\ sec'[writer[v].head] = sec[writer[v].head]
      BY <1>3, <1>4, <1>6, <3>1, <3>2, ZenonT(30)
    <3> QED  BY <1>10, <3>1, <3>3, ZenonT(30) DEF Filled
  <2>2. CASE v = w /\ f.cur = 0
    BY <1>1, <1>5, <1>6, <2>2 DEF Gave
  <2>3. CASE v = w /\ f.cur # 0
    <3>1. writer'[v].cur = s /\ writer'[v].head = f.head /\ f.cur \in Sectors /\ f.head \in Sectors
      BY <1>1, <1>2, <2>3 DEF Gave
    <3>2. sec'[f.head].roots < sec'[f.head].recs
      <4>1. CASE f.head = f.cur
        BY <1>6, <1>7, <2>3, <3>1, <4>1
      <4>2. CASE f.head # f.cur
        <5>1. sec'[f.head] = sec[f.head]
          BY <1>4, <1>6, <3>1, <4>2, Zenon
        <5> QED  BY <2>3, <4>2, <5>1, Zenon DEF Filled
      <4> QED  BY <4>1, <4>2, SMTT(30)
    <3> QED  BY <1>5, <1>6, <3>1, <3>2, ZenonT(30)
  <2> QED  BY <2>1, <2>2, <2>3, Zenon
<1> QED  BY <1>9, <1>10, Zenon DEF Filled

\* A step that gives no sector away and adds no record to a sector held open.
LEMMA StepFills ==
  ASSUME Filled,
         \A t \in Sectors : sec'[t].recs <= MaxRecs /\ sec'[t].roots <= sec'[t].recs,
         \A v \in Writers : writer'[v].cur # 0 =>
            /\ writer'[v].cur = writer[v].cur /\ writer'[v].head = writer[v].head
            /\ sec'[writer[v].cur].recs = sec[writer[v].cur].recs
            /\ writer[v].cur # writer[v].head /\ sec[writer[v].head].roots < sec[writer[v].head].recs =>
                  sec'[writer[v].head].roots < sec'[writer[v].head].recs
  PROVE  Filled'
BY Zenon DEF Filled

\* A sector that allocation finds a window in has room for a record.
LEMMA WindowRoom ==
  ASSUME Safe, Filled, NEW s \in Sectors, FreeWindow(s, FALSE) \/ FreeWindow(s, TRUE)
  PROVE  Room(sec[s]) /\ Opened(sec, s)
<1>1. sec \in [Sectors -> Sec] /\ sec[s].recs \in Nat
  BY SafeTypes DEF Sec
<1>2. sec[s].blank \/ sec[s].recs \in 1 .. (MaxRecs - 1)
  BY Zenon DEF FreeWindow
<1>3. sec[s].blank => sec[s].recs = 0
  BY SafeShapes, Zenon
<1>4. sec[s].recs < MaxRecs /\ sec[s].roots <= sec[s].recs
  BY <1>1, <1>2, <1>3, AllocatorAssumption DEF Filled
<1> QED  BY <1>1, <1>4 DEF Room, Opened

\* So does one that was just erased.
LEMMA ErasedRoom ==
  ASSUME Safe, NEW s \in Sectors
  PROVE  Opened([sec EXCEPT ![s] = ErasedSector], s)
<1>1. sec \in [Sectors -> Sec] /\ ErasedSector \in Sec
  BY SafeTypes DEF ErasedSector, Sec
<1>2. Room(ErasedSector)
  BY AllocatorAssumption DEF Room, ErasedSector
<1> QED  BY <1>1, <1>2, SMTT(30) DEF Opened

\* An erased sector is given away by collection or compaction.
LEMMA ErasedFills ==
  ASSUME Safe, Filled, NEW w \in Writers, NEW s \in Sectors, NEW bits, ~OpenForWriting(s),
         Give(w, s, writer[w], bits, [sec EXCEPT ![s] = ErasedSector])
  PROVE  Filled'
<1> DEFINE base == [sec EXCEPT ![s] = ErasedSector]
           f == writer[w]
<1>1. Opened(base, s)
  BY ErasedRoom, Zenon
<1>2. f \in File /\ f.cur = writer[w].cur /\ f.head = writer[w].head
  BY SafeTypes
<1>3. Give(w, s, f, bits, base)
  OBVIOUS
<1> HIDE DEF base, f
<1> QED  BY <1>1, <1>2, <1>3, GiveFills, Zenon

\* A sector with a window is given away as it is.
LEMMA WindowFills ==
  ASSUME Safe, Filled, NEW w \in Writers, NEW s \in Sectors, NEW f \in File, NEW bits,
         FreeWindow(s, TRUE), ~OpenForWriting(s),
         f.cur = writer[w].cur, f.head = writer[w].head, Give(w, s, f, bits, sec)
  PROVE  Filled'
<1>1. Opened(sec, s)
  BY WindowRoom, Zenon
<1> QED  BY <1>1, GiveFills, Zenon

\* A step that leaves the sectors alone and every file in its sectors.
LEMMA QuietFills ==
  ASSUME Filled, UNCHANGED sec,
         \A v \in Writers : writer'[v].cur = writer[v].cur /\ writer'[v].head = writer[v].head
  PROVE  Filled'
BY Zenon DEF Filled

\* try_reserved_sector.
LEMMA TryReservedFills ==
  ASSUME Safe, Filled, NEW w \in Writers, TryReservedSector(w)
  PROVE  Filled'
<1> DEFINE f == writer[w]
           s == f.first
           usable == ~OpenForWriting(s) /\ ~ReservedByOther(w, s) /\ sec[s].blank
           rest == IF f.count = 1 THEN Without(f) ELSE [f EXCEPT !.first = @ + 1, !.count = @ - 1]
<1>1. f \in File /\ f.count > 0 /\ f.count \in Nat /\ f.first \in Nat
  BY SafeTypes DEF TryReservedSector, File
<1>2. s \in Sectors
  BY <1>1, SafeTypes, SMTT(30) DEF Reserved
<1>3. CASE usable
  <2>1. Give(w, s, rest, used \ {s}, sec)
    BY <1>3 DEF TryReservedSector
  <2>2. rest \in File /\ rest.cur = f.cur /\ rest.head = f.head
    <3>1. PICK a \in Nat, b \in Nat : rest = [f EXCEPT !.first = a, !.count = b]
      <4>1. f.first + 1 \in Nat /\ f.count - 1 \in Nat
        BY <1>1, SMTT(30)
      <4> QED  BY <1>1, <4>1, Zenon DEF Without, File
    <3> HIDE DEF rest, f
    <3> QED  BY <1>1, <3>1, Zenon DEF File
  <2>3. FreeWindow(s, TRUE)
    BY <1>3 DEF FreeWindow
  <2>4. rest.cur = writer[w].cur /\ rest.head = writer[w].head
    BY <2>2
  <2> HIDE DEF rest, s
  <2> QED  BY <1>2, <1>3, <2>1, <2>2, <2>3, <2>4, WindowFills, Zenon
<1>4. CASE ~usable
  <2>1. writer' = [writer EXCEPT ![w] = Without(f)] /\ UNCHANGED sec
    BY <1>4 DEF TryReservedSector
  <2>2. Without(f).cur = f.cur /\ Without(f).head = f.head
    BY <1>1, SMTT(30) DEF File, Without
  <2>3. \A v \in Writers : writer'[v].cur = writer[v].cur /\ writer'[v].head = writer[v].head
    BY <2>1, <2>2, SafeTypes
  <2> QED  BY <2>1, <2>3, QuietFills, Zenon
<1> QED  BY <1>3, <1>4, Zenon

\* alloc_sector_once.
LEMMA AllocOnceFills ==
  ASSUME Safe, Filled, NEW w \in Writers, NEW old, AllocSectorOnce(w, old)
  PROVE  Filled'
<1>1. \/ \E s \in Acceptable(w, old) : \E bits : Give(w, s, writer[w], bits, sec)
      \/ (\E bits : HalveReservations(w, bits)) /\ UNCHANGED sec
      \/ UNCHANGED <<sec, writer>>
  BY ZenonT(30) DEF AllocSectorOnce, First
<1>2. ASSUME NEW s \in Acceptable(w, old), NEW bits, Give(w, s, writer[w], bits, sec)
      PROVE  Filled'
  <2>1. s \in Sectors /\ ~OpenForWriting(s) /\ FreeWindow(s, TRUE)
    BY <1>2, Zenon DEF Acceptable
  <2>2. writer[w] \in File
    BY SafeTypes
  <2> QED  BY <1>2, <2>1, <2>2, WindowFills, Zenon
<1>3. ASSUME NEW bits, HalveReservations(w, bits), UNCHANGED sec
      PROVE  Filled'
  <2>1. \A v \in Writers : writer'[v] = Halved(writer[v]) /\ writer[v] \in File
    BY <1>3, SafeTypes DEF HalveReservations
  <2>2. \A v \in Writers : writer'[v].cur = writer[v].cur /\ writer'[v].head = writer[v].head
    BY <2>1, HalvedFile, ZenonT(30)
  <2> QED  BY <1>3, <2>2, QuietFills, Zenon
<1>4. ASSUME UNCHANGED <<sec, writer>>
      PROVE  Filled'
  BY <1>4, QuietFills
<1> QED  BY <1>1, <1>2, <1>3, <1>4, Zenon

\* fffs_gc_until_erased and the end of gc_compact_root_only_sector.
LEMMA GcFills ==
  ASSUME Safe, Filled, GcUntilErased \/ CompactErase
  PROVE  Filled'
<1>1. CASE GcUntilErased
  <2>1. \/ \E s \in Garbage : \E bits :
              Give(call.w, s, writer[call.w], bits, [sec EXCEPT ![s] = ErasedSector])
        \/ UNCHANGED <<sec, writer>>
    BY <1>1, ZenonT(30) DEF GcUntilErased, First
  <2>2. call.w \in Writers
    BY <1>1 DEF GcUntilErased, Safe, CallShape
  <2>3. \A s \in Garbage : s \in Sectors /\ ~OpenForWriting(s)
    BY Zenon DEF Garbage, Scannable
  <2>4. CASE UNCHANGED <<sec, writer>>
    BY <2>4, QuietFills
  <2> QED  BY <2>1, <2>2, <2>3, <2>4, ErasedFills, Zenon
<1>2. CASE CompactErase
  <2>1. call.src \in Sectors /\ ~OpenForWriting(call.src) /\ call.w \in Writers
    BY <1>2, SafeTypes, SMTT(30) DEF CompactErase, Safe, CallShape
  <2>2. Give(call.w, call.src, writer[call.w], used \ {call.src}, [sec EXCEPT ![call.src] = ErasedSector])
    BY <1>2 DEF CompactErase
  <2> QED  BY <2>1, <2>2, ErasedFills, ZenonT(30)
<1> QED  BY <1>1, <1>2

\* try_compaction_reserve_for_alloc.
LEMMA TryCompactionReserveFills ==
  ASSUME Safe, Filled, NEW old, TryCompactionReserve(old)
  PROVE  Filled'
<1>1. \/ \E s \in reserve : \E bits : FreeWindow(s, TRUE) /\ Give(call.w, s, writer[call.w], bits, sec)
      \/ UNCHANGED <<sec, writer>>
  BY ZenonT(30) DEF TryCompactionReserve
<1>2. call.w \in Writers
  BY DEF TryCompactionReserve, Safe, CallShape
<1>3. \A s \in reserve : s \in Sectors /\ ~OpenForWriting(s)
  BY SafeTypes, SafeShapes, Zenon DEF Given, OpenForWriting
<1>4. CASE UNCHANGED <<sec, writer>>
  BY <1>4, QuietFills
<1>5. writer[call.w] \in File
  BY <1>2, SafeTypes
<1> QED  BY <1>1, <1>2, <1>3, <1>4, <1>5, WindowFills, Zenon

\* gc_copy_root_record: the destination has room and is held by no writer.
LEMMA CompactCopyFills ==
  ASSUME Safe, Filled, NEW d \in Sectors, NEW low \in BOOLEAN, CompactCopy(d, low),
         d # call.src, ~OpenForWriting(d), Room(sec[d])
  PROVE  Filled'
<1>1. /\ sec' = [sec EXCEPT ![call.src].roots = @ - 1, ![d] = Copied(@, low)]
      /\ sec[call.src].roots > 0 /\ UNCHANGED writer
      /\ call.src \in Sectors /\ ~OpenForWriting(call.src)
  BY SafeTypes, SMTT(30) DEF CompactCopy, Safe, CallShape
<1>2. sec \in [Sectors -> Sec] /\ MaxRecs \in Nat
  BY SafeTypes, AllocatorAssumption
<1>3. sec'[d].recs = sec[d].recs + 1 /\ sec'[d].roots = sec[d].roots + 1
  BY <1>1, <1>2 DEF Copied, Sec
<1>4. sec'[call.src].recs = sec[call.src].recs /\ sec'[call.src].roots = sec[call.src].roots - 1
  BY <1>1, <1>2 DEF Sec
<1>5. \A t \in Sectors : t # d /\ t # call.src => sec'[t] = sec[t]
  BY <1>1, <1>2
<1>6. \A t \in Sectors : sec[t].recs \in Nat /\ sec[t].roots \in Nat
  BY <1>2 DEF Sec
<1>7. ASSUME NEW t \in Sectors
      PROVE  sec'[t].recs <= MaxRecs /\ sec'[t].roots <= sec'[t].recs
  <2>1. sec[t].recs <= MaxRecs /\ sec[t].roots <= sec[t].recs
    BY SMTT(30) DEF Filled
  <2>2. CASE t = d
    BY <1>2, <1>3, <1>6, <2>2, SMTT(30) DEF Room
  <2>3. CASE t = call.src
    BY <1>2, <1>4, <1>6, <2>1, <2>3, SMTT(30)
  <2>4. CASE t # d /\ t # call.src
    BY <1>5, <2>1, <2>4, Zenon
  <2> QED  BY <2>2, <2>3, <2>4, Zenon
<1>8. ASSUME NEW v \in Writers, writer[v].cur # 0
      PROVE  sec'[writer[v].cur] = sec[writer[v].cur] /\ sec'[writer[v].head] = sec[writer[v].head]
  <2>1. writer[v].cur \in Sectors /\ writer[v].head \in Sectors
    BY <1>8 DEF Safe, Ranges
  <2>2. OpenForWriting(writer[v].cur) /\ OpenForWriting(writer[v].head)
    BY Zenon DEF OpenForWriting, Holds
  <2> QED  BY <1>1, <1>5, <2>1, <2>2, Zenon
<1> QED  BY <1>1, <1>7, <1>8, StepFills, ZenonT(30)

\* The counts after fffs_close has written the records of a file.
LEMMA CloseCounts ==
  ASSUME NEW x \in Sec, NEW low \in BOOLEAN
  PROVE  /\ RootRecord(x, low).recs = x.recs + 1 /\ RootRecord(x, low).roots = x.roots + 1
         /\ RootCommit(x).recs = x.recs /\ RootCommit(x).roots = x.roots + 1
         /\ EndRecord(x, low).recs = x.recs + 1 /\ EndRecord(x, low).roots = x.roots
<1>1. RootRecord(x, low).recs = x.recs + 1 /\ RootRecord(x, low).roots = x.roots + 1
  BY DEF RootRecord, Sec
<1>2. RootCommit(x).recs = x.recs /\ RootCommit(x).roots = x.roots + 1
  BY DEF RootCommit, Sec
<1>3. EndRecord(x, low).recs = x.recs + 1 /\ EndRecord(x, low).roots = x.roots
  BY DEF EndRecord, Left, Sec
<1> QED  BY <1>1, <1>2, <1>3

\* With them every sector still has at most MaxRecs records.
LEMMA LastCounts ==
  ASSUME Safe, Filled, NEW w \in Writers, writer[w].cur # 0, NEW low \in BOOLEAN, NEW t \in Sectors
  PROVE  /\ LastRecords(writer[w], low)[t].recs <= MaxRecs
         /\ LastRecords(writer[w], low)[t].roots <= LastRecords(writer[w], low)[t].recs
<1> DEFINE f == writer[w]
           last == LastRecords(f, low)
<1>1. f.cur \in Sectors /\ f.head \in Sectors /\ sec \in [Sectors -> Sec] /\ MaxRecs \in Nat
  BY SafeTypes, AllocatorAssumption, SMTT(30) DEF Safe, Ranges
<1>2. /\ sec[t].recs \in Nat /\ sec[t].roots \in Nat
      /\ sec[t].recs <= MaxRecs /\ sec[t].roots <= sec[t].recs
  BY <1>1 DEF Sec, Filled
<1>3. /\ t = f.cur => sec[t].recs < MaxRecs
      /\ t = f.head /\ f.cur # f.head => sec[t].roots < sec[t].recs
  BY ZenonT(30) DEF Filled
<1> HIDE DEF f
<1>4. sec[t] \in Sec
  BY <1>1, SMTT(30)
<1>5. CASE f.cur = f.head /\ t = f.cur
  <2>1. last[t] = RootRecord(sec[t], low)
    BY <1>1, <1>5 DEF LastRecords
  <2>2. last[t].recs = sec[t].recs + 1 /\ last[t].roots = sec[t].roots + 1
    BY <1>4, <2>1, CloseCounts, ZenonT(30)
  <2> HIDE DEF last
  <2>3. last[t].recs <= MaxRecs /\ last[t].roots <= last[t].recs
    BY <1>1, <1>2, <1>3, <1>5, <2>2, SMTT(30)
  <2> QED  BY <2>3 DEF last, f
<1>6. CASE f.cur # f.head /\ t = f.head
  <2>1. last[t] = RootCommit(sec[t])
    BY <1>1, <1>6 DEF LastRecords
  <2>2. last[t].recs = sec[t].recs /\ last[t].roots = sec[t].roots + 1
    BY <1>4, <2>1, CloseCounts, Zenon
  <2> HIDE DEF last
  <2>3. last[t].recs <= MaxRecs /\ last[t].roots <= last[t].recs
    BY <1>1, <1>2, <1>3, <1>6, <2>2, SMTT(30)
  <2> QED  BY <2>3, SMTT(30) DEF last, f
<1>7. CASE f.cur # f.head /\ t = f.cur
  <2>1. last[t] = EndRecord(sec[t], low)
    BY <1>1, <1>7 DEF LastRecords
  <2>2. last[t].recs = sec[t].recs + 1 /\ last[t].roots = sec[t].roots
    BY <1>4, <2>1, CloseCounts, ZenonT(30)
  <2> HIDE DEF last
  <2>3. last[t].recs <= MaxRecs /\ last[t].roots <= last[t].recs
    BY <1>1, <1>2, <1>3, <1>7, <2>2, SMTT(30)
  <2> QED  BY <2>3 DEF last, f
<1>8. CASE t # f.cur /\ t # f.head
  <2>1. last[t] = sec[t]
    BY <1>1, <1>8 DEF LastRecords
  <2>2. last[t].recs <= MaxRecs /\ last[t].roots <= last[t].recs
    BY <1>2, <2>1, Zenon
  <2> QED  BY <2>2 DEF last, f
<1> QED  BY <1>5, <1>6, <1>7, <1>8, ZenonT(30)

\* fffs_invalidate_old_chain takes a root away and leaves the records.
LEMMA InvalidatedCounts ==
  ASSUME NEW x \in [Sectors -> Sec], NEW r, NEW C, NEW t \in Sectors
  PROVE  /\ Invalidated(x, r, C)[t].recs = x[t].recs
         /\ Invalidated(x, r, C)[t].roots \in Int
         /\ Invalidated(x, r, C)[t].roots <= x[t].roots
<1>1. x[t] \in Sec /\ x[t].roots \in Nat
  BY DEF Sec
<1>2. Invalidated(x, r, C)[t].recs = x[t].recs
  BY <1>1, Zenon DEF Invalidated, Sec
<1>3. Invalidated(x, r, C)[t].roots = IF t = r THEN x[t].roots - 1 ELSE x[t].roots
  BY <1>1, Zenon DEF Invalidated, Sec
<1>4. Invalidated(x, r, C)[t].roots \in Int /\ Invalidated(x, r, C)[t].roots <= x[t].roots
  BY <1>1, <1>3
<1> QED  BY <1>2, <1>4

\* The counts of a sector, and what they may become when a chain is killed.
Fits(x) == x.recs <= MaxRecs /\ x.roots <= x.recs
Shrunk(y, x) == y.recs = x.recs /\ Fits(y) /\ (x.roots < x.recs => y.roots < y.recs)

\* Killing a chain keeps the counts within their limits.
LEMMA InvalidatedFits ==
  ASSUME NEW x \in [Sectors -> Sec], NEW r, NEW C, NEW t \in Sectors, Fits(x[t])
  PROVE  Shrunk(Invalidated(x, r, C)[t], x[t])
<1>1. PICK m \in Nat, n \in Nat : m = x[t].recs /\ n = x[t].roots /\ m <= MaxRecs /\ n <= m
  BY DEF Sec, Fits
<1>2. PICK b \in Int : b = Invalidated(x, r, C)[t].roots /\ b <= n
  <2>1. PICK c \in Int : c = Invalidated(x, r, C)[t].roots /\ c <= x[t].roots
    BY InvalidatedCounts, Zenon
  <2> QED  BY <1>1, <2>1, Zenon
<1>3. Invalidated(x, r, C)[t].recs = m
  <2>1. Invalidated(x, r, C)[t].recs = x[t].recs
    BY InvalidatedCounts, SMTT(30)
  <2> QED  BY <1>1, <2>1, SMTT(30)
<1>4. b <= m /\ (n < m => b < m)
  BY <1>1, <1>2
<1> QED  BY <1>1, <1>2, <1>3, <1>4, Zenon DEF Shrunk, Fits

\* fffs_close: the record fits in the last sector, and the root record that is
\* committed was written when the file went on to its second sector.
LEMMA CloseFills ==
  ASSUME Safe, Filled, NEW w \in Writers, NEW low \in BOOLEAN, NEW r, NEW C, Close(w, low, r, C)
  PROVE  Filled'
<1> DEFINE f == writer[w]
           last == LastRecords(f, low)
<1>1. f.cur # 0 /\ sec' = Invalidated(last, r, C) /\ writer' = [writer EXCEPT ![w] = Closed]
  BY Zenon DEF Close
<1>2. /\ last \in [Sectors -> Sec]
      /\ \A t \in Sectors : t # f.cur /\ t # f.head => last[t] = sec[t]
  BY <1>1, LastSector, ZenonT(30)
<1>3. \A t \in Sectors : last[t].recs <= MaxRecs /\ last[t].roots <= last[t].recs
  BY <1>1, LastCounts, ZenonT(30)
<1>4. f.cur \in Sectors /\ f.head \in Sectors /\ Given(w, f.cur) /\ Given(w, f.head)
  BY <1>1 DEF Safe, Ranges, Given, Holds
<1> HIDE DEF last, f
<1>5. \A t \in Sectors : /\ sec'[t].recs <= MaxRecs /\ sec'[t].roots <= sec'[t].recs
                         /\ sec'[t].recs = last[t].recs
                         /\ last[t].roots < last[t].recs => sec'[t].roots < sec'[t].recs
  <2> SUFFICES ASSUME NEW t \in Sectors
               PROVE  Shrunk(sec'[t], last[t])
    BY Zenon DEF Shrunk, Fits
  <2>1. Fits(last[t])
    BY <1>3, Zenon DEF Fits
  <2> QED  BY <1>1, <1>2, <2>1, InvalidatedFits, Zenon
<1>6. ASSUME NEW v \in Writers, writer'[v].cur # 0
      PROVE  /\ writer'[v].cur = writer[v].cur /\ writer'[v].head = writer[v].head
             /\ sec'[writer[v].cur].recs = sec[writer[v].cur].recs
             /\ writer[v].cur # writer[v].head /\ sec[writer[v].head].roots < sec[writer[v].head].recs =>
                   sec'[writer[v].head].roots < sec'[writer[v].head].recs
  <2>1. v # w /\ writer'[v] = writer[v]
    BY <1>1, <1>6, SafeTypes, Zenon DEF Closed
  <2>2. writer[v].cur \in Sectors /\ writer[v].head \in Sectors
    BY <1>6, <2>1 DEF Safe, Ranges
  <2>3. Given(v, writer[v].cur) /\ Given(v, writer[v].head)
    BY Zenon DEF Given, Holds
  <2>4. last[writer[v].cur] = sec[writer[v].cur] /\ last[writer[v].head] = sec[writer[v].head]
    BY <1>2, <1>4, <2>1, <2>2, <2>3, Zenon DEF Safe, HandedApart
  <2> QED  BY <1>5, <2>1, <2>2, <2>4, ZenonT(30)
<1> QED  BY <1>5, <1>6, StepFills, Zenon

\* The steps that add no record.
LEMMA OtherStepsFill ==
  ASSUME Safe, Filled,
         \/ \E w \in Writers : Write(w)
         \/ \E r \in Roots, C \in SUBSET Conts : Delete(r, C)
         \/ GcStep
         \/ \E c \in Sectors : Restart(c)
         \/ UNCHANGED <<sec, writer>>
  PROVE  Filled'
<1>1. sec \in [Sectors -> Sec] /\ MaxRecs \in Nat
  BY SafeTypes, AllocatorAssumption, SMTT(30)
<1>2. \A t \in Sectors : sec[t].recs <= MaxRecs /\ sec[t].roots <= sec[t].recs
  BY DEF Filled
<1>3. \A v \in Writers : writer[v].cur # 0 => writer[v].cur \in Sectors /\ writer[v].head \in Sectors
  BY SMTT(30) DEF Safe, Ranges
<1>4. ASSUME NEW w \in Writers, Write(w)
      PROVE  Filled'
  <2>1. /\ sec' = [sec EXCEPT ![writer[w].cur].blank = FALSE, ![writer[w].cur].fit = "none"]
        /\ UNCHANGED writer
    BY <1>4 DEF Write
  <2>2. \A t \in Sectors : sec'[t].recs = sec[t].recs /\ sec'[t].roots = sec[t].roots
    BY <1>1, <2>1 DEF Sec
  <2> QED  BY <1>2, <1>3, <2>1, <2>2, StepFills, ZenonT(30)
<1>5. ASSUME NEW r \in Roots, NEW C \in SUBSET Conts, Delete(r, C)
      PROVE  Filled'
  <2>1. sec' = Invalidated(sec, r, C) /\ UNCHANGED writer
    BY <1>5 DEF Delete
  <2>2. \A t \in Sectors : /\ sec'[t].recs <= MaxRecs /\ sec'[t].roots <= sec'[t].recs
                           /\ sec'[t].recs = sec[t].recs
                           /\ sec[t].roots < sec[t].recs => sec'[t].roots < sec'[t].recs
    <3> SUFFICES ASSUME NEW t \in Sectors
                 PROVE  Shrunk(sec'[t], sec[t])
      BY Zenon DEF Shrunk, Fits
    <3>1. Fits(sec[t])
      BY <1>2, Zenon DEF Fits
    <3> QED  BY <1>1, <2>1, <3>1, InvalidatedFits, Zenon
  <2> QED  BY <1>3, <2>1, <2>2, StepFills, Zenon
<1>6. ASSUME GcStep
      PROVE  Filled'
  <2>1. (sec' = sec \/ (gcCursor \in Garbage /\ sec' = [sec EXCEPT ![gcCursor] = ErasedSector]))
        /\ UNCHANGED writer
    BY <1>6 DEF GcStep
  <2>2. CASE sec' = sec
    BY <2>1, <2>2, QuietFills
  <2>3. CASE gcCursor \in Garbage /\ sec' = [sec EXCEPT ![gcCursor] = ErasedSector]
    <3>1. gcCursor \in Sectors /\ ~OpenForWriting(gcCursor)
      BY <2>3 DEF Garbage, Scannable
    <3>2. \A t \in Sectors : t # gcCursor => sec'[t] = sec[t]
      BY <1>1, <2>3
    <3>3. sec'[gcCursor].recs = 0 /\ sec'[gcCursor].roots = 0
      BY <1>1, <2>3, <3>1 DEF ErasedSector
    <3>4. \A t \in Sectors : sec'[t].recs <= MaxRecs /\ sec'[t].roots <= sec'[t].recs
      BY <1>1, <1>2, <3>2, <3>3
    <3>5. \A v \in Writers : writer[v].cur # gcCursor /\ writer[v].head # gcCursor
      BY <3>1, Zenon DEF OpenForWriting, Holds
    <3> QED  BY <1>3, <2>1, <3>2, <3>4, <3>5, StepFills, ZenonT(30)
  <2> QED  BY <2>1, <2>2, <2>3, Zenon
<1>7. ASSUME NEW c \in Sectors, Restart(c)
      PROVE  Filled'
  <2>1. \A v \in Writers : writer'[v].cur = 0
    BY <1>7, ZenonT(30) DEF Restart, Closed
  <2>2. \A t \in Sectors : sec'[t].recs = sec[t].recs /\ sec'[t].roots = sec[t].roots
    BY <1>1, <1>7, Zenon DEF Restart, Sec
  <2> QED  BY <1>2, <2>1, <2>2, StepFills, SMTT(30)
<1>8. ASSUME UNCHANGED <<sec, writer>>
      PROVE  Filled'
  BY <1>8, QuietFills
<1> QED  BY <1>4, <1>5, <1>6, <1>7, <1>8, ZenonT(30)

\* Every step keeps the records of every sector within their limit.
LEMMA NextFills == Safe /\ Filled /\ [Next]_vars => Filled'
<1> SUFFICES ASSUME Safe, Filled, [Next]_vars
             PROVE  Filled'
  OBVIOUS
<1>1. CASE \E w \in Writers : TryReservedSector(w)
  BY <1>1, TryReservedFills, Zenon
<1>2. CASE \E w \in Writers, old \in {0} \cup Roots : AllocSectorOnce(w, old)
  BY <1>2, AllocOnceFills, Zenon
<1>3. CASE GcUntilErased \/ CompactErase
  BY <1>3, GcFills, Zenon
<1>4. CASE \E old \in {0} \cup Roots : TryCompactionReserve(old)
  BY <1>4, TryCompactionReserveFills, Zenon
<1>5. CASE (\E s \in call.cands : CompactPick(s)) \/ CompactFail \/ NoSpace \/ UNCHANGED vars
  <2>1. UNCHANGED <<sec, writer>>
    BY <1>5, Zenon DEF CompactPick, CompactFail, NoSpace, vars
  <2> QED  BY <2>1, OtherStepsFill, ZenonT(30)
<1>6. CASE \E small \in SUBSET {s \in Sectors : ~sec[s].blank /\ FreeWindow(s, FALSE)} :
              \E d \in Destinations(small), low \in BOOLEAN : CompactCopy(d, low)
  <2>1. PICK small \in SUBSET {s \in Sectors : ~sec[s].blank /\ FreeWindow(s, FALSE)} :
              \E d \in Destinations(small), low \in BOOLEAN : CompactCopy(d, low)
    BY <1>6, Zenon
  <2>2. PICK d \in Destinations(small), low \in BOOLEAN : CompactCopy(d, low)
    BY <2>1, Zenon
  <2>3. call.src \notin reserve
    BY <2>2 DEF CompactCopy, Safe, CallShape
  <2>4. \A s \in reserve : s \in Sectors /\ ~OpenForWriting(s)
    BY SafeTypes, SafeShapes, ZenonT(30) DEF Given, OpenForWriting
  <2>5. /\ d \in Sectors /\ d # call.src /\ ~OpenForWriting(d)
        /\ FreeWindow(d, FALSE) \/ FreeWindow(d, TRUE)
    BY <2>3, <2>4, Zenon DEF Destinations, First
  <2>6. Room(sec[d])
    BY <2>5, WindowRoom, Zenon
  <2> QED  BY <2>2, <2>5, <2>6, CompactCopyFills, ZenonT(30)
<1>7. CASE \E w \in Writers, low \in BOOLEAN : Close(w, low, 0, {})
  BY <1>7, CloseFills, Zenon
<1>8. CASE \E w \in Writers, low \in BOOLEAN, r \in Roots, C \in SUBSET Conts : Close(w, low, r, C)
  BY <1>8, CloseFills, Zenon
<1>9. CASE \/ \E w \in Writers : Write(w)
           \/ \E r \in Roots, C \in SUBSET Conts : Delete(r, C)
           \/ GcStep
           \/ \E c \in Sectors : Restart(c)
  BY <1>9, OtherStepsFill, Zenon
<1> QED
  BY <1>1, <1>2, <1>3, <1>4, <1>5, <1>6, <1>7, <1>8, <1>9, ZenonT(30) DEF Next

\* How far a scan that starts at s goes before it meets t.
LEMMA OffsetValue ==
  ASSUME NEW s \in Sectors, NEW t \in Sectors
  PROVE  /\ Offset(s, t) \in 0 .. (N - 1)
         /\ Offset(s, t) = (IF s <= t THEN t - s ELSE t + N - s)
<1>1. N \in Int /\ s \in Int /\ t \in Int /\ 1 <= s /\ s <= N /\ 1 <= t /\ t <= N
  BY AllocatorAssumption DEF Sectors
<1>2. PICK x \in Int : x = t + N - s /\ 0 <= x /\ x < N + N
  BY <1>1
<1>3. Offset(s, t) = x % N
  BY <1>2 DEF Offset
<1>4. CASE s <= t
  <2>1. N <= x
    BY <1>1, <1>2, <1>4
  <2>2. x % N = x - N
    BY <1>1, <1>2, <2>1
  <2> QED  BY <1>1, <1>2, <1>3, <1>4, <2>2
<1>5. CASE ~(s <= t)
  <2>1. x < N
    BY <1>1, <1>2, <1>5
  <2>2. x % N = x
    BY <1>1, <1>2, <2>1
  <2> QED  BY <1>1, <1>2, <1>3, <1>5, <2>2
<1> QED  BY <1>4, <1>5

\* The scan meets different sectors at different times.
LEMMA OffsetInjective ==
  ASSUME NEW s \in Sectors, NEW t \in Sectors, NEW u \in Sectors, t # u
  PROVE  Offset(s, t) # Offset(s, u)
<1>1. N \in Int /\ s \in Int /\ t \in 1 .. N /\ u \in 1 .. N
  BY AllocatorAssumption DEF Sectors
<1>2. /\ Offset(s, t) = (IF s <= t THEN t - s ELSE t + N - s)
      /\ Offset(s, u) = (IF s <= u THEN u - s ELSE u + N - s)
  BY OffsetValue
<1> QED  BY <1>1, <1>2

\* One of the sectors S is the last that the scan meets.
LEMMA LastMet ==
  ASSUME NEW s \in Sectors, NEW S \in SUBSET Sectors, S # {}
  PROVE  \E m \in S : \A t \in S : t # m => Offset(s, t) < Offset(s, m)
<1> DEFINE R == OpToRel(<, Nat)
           T == {N - Offset(s, t) : t \in S}
<1>1. IsWellFoundedOn(R, Nat)
  BY NatLessThanWellFounded, Zenon
<1>2. \A t \in S : Offset(s, t) \in 0 .. (N - 1)
  BY OffsetValue, Zenon
<1>3. T \subseteq Nat /\ T # {}
  BY <1>2, AllocatorAssumption
<1> HIDE DEF R, T
<1>4. PICK x \in T : \A y \in T : ~(<<y, x>> \in R)
  BY <1>1, <1>3, WFMin, Zenon
<1>5. \A y \in T : ~(y < x)
  BY <1>3, <1>4, Zenon DEF R, OpToRel
<1>6. PICK m \in S : x = N - Offset(s, m)
  BY <1>4, Zenon DEF T
<1>7. ASSUME NEW t \in S, t # m
      PROVE  Offset(s, t) < Offset(s, m)
  <2>1. ~(N - Offset(s, t) < N - Offset(s, m))
    BY <1>5, <1>6, Zenon DEF T
  <2>2. Offset(s, t) # Offset(s, m)
    BY <1>7, OffsetInjective, Zenon
  <2>3. Offset(s, t) \in 0 .. (N - 1) /\ Offset(s, m) \in 0 .. (N - 1) /\ N \in Nat
    BY <1>2, AllocatorAssumption
  <2> QED  BY <2>1, <2>2, <2>3
<1> QED  BY <1>7, Zenon

\* Sets of sectors are finite.
LEMMA SectorSets ==
  ASSUME NEW S \in SUBSET Sectors
  PROVE  IsFiniteSet(S) /\ Cardinality(S) \in Nat
<1>1. IsFiniteSet(1 .. N)
  BY AllocatorAssumption, FS_Interval
<1>2. IsFiniteSet(S)
  BY <1>1, FS_Subset, Zenon DEF Sectors
<1> QED  BY <1>2, FS_CardinalityType, Zenon

\* A scan that keeps a sector only while those before it and those already kept
\* are fewer than CompactMax keeps no more than CompactMax.
LEMMA KeptBound ==
  ASSUME NEW c \in Sectors, NEW found \in SUBSET Sectors, NEW R \in SUBSET Sectors,
         Cardinality(R) <= CompactMax, NEW kept \in SUBSET found,
         \A s \in kept : Cardinality({t \in found : Offset(c, t) < Offset(c, s)}) + Cardinality(R)
                            < CompactMax
  PROVE  Cardinality(R \cup kept) <= CompactMax
<1>0. kept \in SUBSET Sectors /\ CompactMax \in Nat
  BY AllocatorAssumption
<1>1. CASE kept = {}
  <2>1. R \cup kept = R
    BY <1>1
  <2> QED  BY <2>1
<1>2. CASE kept # {}
  <2>1. PICK m \in kept : \A t \in kept : t # m => Offset(c, t) < Offset(c, m)
    BY <1>0, <1>2, LastMet, Zenon
  <2> DEFINE before == {t \in found : Offset(c, t) < Offset(c, m)}
             rest == kept \ {m}
  <2>2. rest \in SUBSET before /\ before \in SUBSET Sectors /\ rest \in SUBSET Sectors
    BY <1>0, <2>1
  <2>3. Cardinality(before) + Cardinality(R) < CompactMax
    BY <2>1
  <2> HIDE DEF before
  <2>4. Cardinality(rest) <= Cardinality(before)
    BY <2>2, SectorSets, FS_Subset, Zenon
  <2>5. IsFiniteSet(rest) /\ kept = rest \cup {m} /\ m \notin rest
    BY <2>1, <2>2, SectorSets
  <2> HIDE DEF rest
  <2>6. Cardinality(kept) = Cardinality(rest) + 1
    BY <2>5, FS_AddElement, Zenon
  <2>7. IsFiniteSet(R) /\ IsFiniteSet(kept) /\ R \cap kept \in SUBSET Sectors
    BY <1>0, SectorSets
  <2>8. Cardinality(R \cup kept) = Cardinality(R) + Cardinality(kept) - Cardinality(R \cap kept)
    BY <2>7, FS_Union, Zenon
  <2>9. /\ Cardinality(R) \in Nat /\ Cardinality(kept) \in Nat /\ Cardinality(R \cap kept) \in Nat
        /\ Cardinality(rest) \in Nat /\ Cardinality(before) \in Nat
    BY <1>0, <2>2, <2>7, SectorSets, Zenon
  <2> QED  BY <1>0, <2>3, <2>4, <2>6, <2>8, <2>9, SMTT(30)
<1> QED  BY <1>1, <1>2, SMTT(30)

\* A step that adds nothing to the compaction reserve and to no reservation.
LEMMA StepBounded ==
  ASSUME Safe, Bounded, reserve' \subseteq reserve,
         \A v \in Writers : writer'[v].count <= ReserveMax
  PROVE  Bounded'
<1>1. reserve \in SUBSET Sectors /\ reserve' \in SUBSET reserve /\ reserve' \in SUBSET Sectors
  BY SafeTypes
<1>2. IsFiniteSet(reserve) /\ Cardinality(reserve) \in Nat /\ Cardinality(reserve') \in Nat
  BY <1>1, SectorSets, Zenon
<1>3. Cardinality(reserve') <= Cardinality(reserve)
  BY <1>1, <1>2, FS_Subset, Zenon
<1>4. Cardinality(reserve') <= CompactMax
  BY <1>2, <1>3, AllocatorAssumption DEF Bounded
<1> QED  BY <1>4, SMTT(30) DEF Bounded

\* use_alloc_window stops reserving at FFFS_ALLOC_RESERVE_SECTORS.
LEMMA GiveBounded ==
  ASSUME Safe, Bounded, NEW w \in Writers, NEW s, NEW f \in File, f.count <= ReserveMax,
         NEW bits, NEW base, Give(w, s, f, bits, base)
  PROVE  \A v \in Writers : writer'[v].count <= ReserveMax
<1>1. PICK k \in Nat : Gave(w, s, f, base, k)
  BY GiveEffect, Zenon
<1>2. /\ writer'[w].count = f.count + k /\ (k = 0 \/ f.count + k <= ReserveMax)
      /\ \A v \in Writers : v # w => writer'[v] = writer[v]
  BY <1>1, ZenonT(30) DEF Gave
<1>3. writer'[w].count <= ReserveMax
  BY <1>2, SMTT(30) DEF File
<1>4. \A v \in Writers : writer[v].count <= ReserveMax
  BY DEF Bounded
<1> QED  BY <1>2, <1>3, <1>4, Zenon

\* The same for a file as it is.
LEMMA GiveAsIsBounded ==
  ASSUME Safe, Bounded, NEW w \in Writers, NEW s, NEW bits, NEW base,
         Give(w, s, writer[w], bits, base)
  PROVE  \A v \in Writers : writer'[v].count <= ReserveMax
<1>1. writer[w] \in File /\ writer[w].count <= ReserveMax
  BY SafeTypes, SMTT(30) DEF Bounded
<1> QED  BY <1>1, GiveBounded, Zenon

\* try_reserved_sector shortens the reservation before it grows again.
LEMMA TryReservedBounded ==
  ASSUME Safe, Bounded, NEW w \in Writers, TryReservedSector(w)
  PROVE  Bounded'
<1> DEFINE f == writer[w]
           s == f.first
           rest == IF f.count = 1 THEN Without(f) ELSE [f EXCEPT !.first = @ + 1, !.count = @ - 1]
<1>1. /\ f \in File /\ f.count > 0 /\ f.count \in Nat /\ f.first \in Nat
      /\ f.count <= ReserveMax /\ ReserveMax \in Nat
  BY SafeTypes, AllocatorAssumption DEF TryReservedSector, File, Bounded
<1>2. UNCHANGED reserve
  BY DEF TryReservedSector
<1>3. rest \in File /\ rest.count <= ReserveMax
  <2>1. PICK a \in Nat, b \in Nat : rest = [f EXCEPT !.first = a, !.count = b] /\ b <= ReserveMax
    <3>1. f.first + 1 \in Nat /\ f.count - 1 \in Nat /\ f.count - 1 <= ReserveMax /\ 0 <= ReserveMax
      BY <1>1
    <3> QED  BY <1>1, <3>1, Zenon DEF Without, File
  <2> HIDE DEF rest, f
  <2>2. rest \in File /\ rest.count = b
    BY <1>1, <2>1, Zenon DEF File
  <2> QED  BY <2>1, <2>2, Zenon
<1>4. Give(w, s, rest, used \ {s}, sec) \/ writer' = [writer EXCEPT ![w] = Without(f)]
  BY SMTT(30) DEF TryReservedSector
<1>5. ASSUME writer' = [writer EXCEPT ![w] = Without(f)]
      PROVE  \A v \in Writers : writer'[v].count <= ReserveMax
  <2>1. Without(f).count = 0
    BY <1>1 DEF Without, File
  <2> QED  BY <1>1, <1>5, <2>1, SafeTypes DEF Bounded
<1> HIDE DEF rest, s
<1>6. \A v \in Writers : writer'[v].count <= ReserveMax
  BY <1>3, <1>4, <1>5, GiveBounded, Zenon
<1> QED  BY <1>2, <1>6, StepBounded

\* alloc_sector_once fills the compaction reserve no further than
\* FFFS_COMPACTION_RESERVE_SECTORS.
LEMMA AllocOnceBounded ==
  ASSUME Safe, Bounded, NEW w \in Writers, NEW old, AllocSectorOnce(w, old)
  PROVE  Bounded'
<1> DEFINE found == Acceptable(w, old)
           before(s) == {t \in found : Offset(cursor, t) < Offset(cursor, s)}
           kept == {s \in found : /\ writer[w].cur = 0
                                  /\ Cardinality(before(s)) + Cardinality(reserve) < CompactMax}
<1>1. reserve' = reserve \cup kept
  BY SMTT(30) DEF AllocSectorOnce
<1>2. /\ cursor \in Sectors /\ found \in SUBSET Sectors /\ reserve \in SUBSET Sectors
      /\ kept \in SUBSET found
  BY SafeTypes, ZenonT(30) DEF Acceptable
<1>3. \A s \in kept : Cardinality({t \in found : Offset(cursor, t) < Offset(cursor, s)}) + Cardinality(reserve)
                        < CompactMax
  OBVIOUS
<1>4. Cardinality(reserve) <= CompactMax
  BY DEF Bounded
<1> HIDE DEF found, kept
<1>5. Cardinality(reserve \cup kept) <= CompactMax
  BY <1>2, <1>3, <1>4, KeptBound, Zenon
<1>6. \/ \E s, bits, base : Give(w, s, writer[w], bits, base)
      \/ \E bits : HalveReservations(w, bits)
      \/ UNCHANGED writer
  BY ZenonT(30) DEF AllocSectorOnce
<1>7. ASSUME NEW bits, HalveReservations(w, bits)
      PROVE  \A v \in Writers : writer'[v].count <= ReserveMax
  <2>1. \A v \in Writers : writer'[v] = Halved(writer[v]) /\ writer[v] \in File
    BY <1>7, SafeTypes DEF HalveReservations
  <2>2. \A v \in Writers : writer'[v].count <= writer[v].count /\ writer'[v] \in File
    BY <2>1, HalvedFile, Zenon
  <2> QED  BY <2>1, <2>2, AllocatorAssumption DEF Bounded, File
<1>8. ASSUME UNCHANGED writer
      PROVE  \A v \in Writers : writer'[v].count <= ReserveMax
  BY <1>8 DEF Bounded
<1>9. \A v \in Writers : writer'[v].count <= ReserveMax
  BY <1>6, <1>7, <1>8, GiveAsIsBounded, Zenon
<1> QED  BY <1>1, <1>5, <1>9 DEF Bounded

\* Every step keeps the bounds.
LEMMA NextBounded == Safe /\ Bounded /\ [Next]_vars => Bounded'
<1> SUFFICES ASSUME Safe, Bounded, [Next]_vars
             PROVE  Bounded'
  OBVIOUS
<1>1. ASSUME UNCHANGED writer
      PROVE  \A v \in Writers : writer'[v].count <= ReserveMax
  BY <1>1, Zenon DEF Bounded
<1>2. CASE \E w \in Writers : TryReservedSector(w)
  BY <1>2, TryReservedBounded, Zenon
<1>3. CASE \E w \in Writers, old \in {0} \cup Roots : AllocSectorOnce(w, old)
  BY <1>3, AllocOnceBounded, Zenon
<1>4. CASE GcUntilErased \/ CompactErase \/ \E old \in {0} \cup Roots : TryCompactionReserve(old)
  <2>1. call.w \in Writers
    <3>1. call.step \in {"gc", "compact"} \/ call.src # 0
      BY <1>4, Zenon DEF GcUntilErased, CompactErase, TryCompactionReserve
    <3>2. call.step # "idle"
      BY <3>1 DEF Safe, CallShape
    <3> QED  BY <3>2 DEF Safe, CallShape
  <2>2. reserve' \subseteq reserve
    BY <1>4, Zenon DEF GcUntilErased, CompactErase, TryCompactionReserve
  <2>3. (\E s, bits, base : Give(call.w, s, writer[call.w], bits, base)) \/ UNCHANGED writer
    <3>1. ASSUME GcUntilErased
          PROVE  (\E s, bits, base : Give(call.w, s, writer[call.w], bits, base)) \/ UNCHANGED writer
      BY <3>1, ZenonT(30) DEF GcUntilErased
    <3>2. ASSUME CompactErase
          PROVE  (\E s, bits, base : Give(call.w, s, writer[call.w], bits, base)) \/ UNCHANGED writer
      BY <3>2, ZenonT(30) DEF CompactErase
    <3>3. ASSUME NEW old, TryCompactionReserve(old)
          PROVE  (\E s, bits, base : Give(call.w, s, writer[call.w], bits, base)) \/ UNCHANGED writer
      BY <3>3, ZenonT(30) DEF TryCompactionReserve
    <3> QED  BY <1>4, <3>1, <3>2, <3>3, Zenon
  <2>4. \A v \in Writers : writer'[v].count <= ReserveMax
    BY <1>1, <2>1, <2>3, GiveAsIsBounded, Zenon
  <2> QED  BY <2>2, <2>4, StepBounded, Zenon
<1>5. CASE \E w \in Writers, low \in BOOLEAN : \E r, C : Close(w, low, r, C)
  <2>1. \A v \in Writers : writer'[v] = Closed \/ writer'[v] = writer[v]
    BY <1>5, SafeTypes, SMTT(30) DEF Close
  <2>2. Closed.count = 0 /\ ReserveMax \in Nat
    BY AllocatorAssumption DEF Closed
  <2>3. \A v \in Writers : writer'[v].count <= ReserveMax
    BY <2>1, <2>2, SMTT(30) DEF Bounded
  <2>4. reserve' = reserve
    BY <1>5 DEF Close
  <2> QED  BY <2>3, <2>4, StepBounded, SMTT(30)
<1>6. CASE \E c \in Sectors : Restart(c)
  <2>1. \A v \in Writers : writer'[v].count <= ReserveMax
    <3>1. \A v \in Writers : writer'[v] = Closed
      BY <1>6, ZenonT(30) DEF Restart
    <3> QED  BY <3>1, AllocatorAssumption DEF Closed
  <2>2. reserve' \subseteq reserve
    BY <1>6, Zenon DEF Restart
  <2> QED  BY <2>1, <2>2, StepBounded, ZenonT(30)
<1>7. CASE /\ reserve' \subseteq reserve
           /\ UNCHANGED writer
  BY <1>1, <1>7, StepBounded, Zenon
<1>8. ASSUME NEW d, NEW low, CompactCopy(d, low)
      PROVE  reserve' \subseteq reserve /\ UNCHANGED writer
  BY <1>8, Zenon DEF CompactCopy
<1>9. ASSUME \/ \E s \in call.cands : CompactPick(s)
             \/ CompactFail \/ NoSpace \/ GcStep \/ UNCHANGED vars
             \/ \E w \in Writers : Write(w)
             \/ \E r \in Roots, C \in SUBSET Conts : Delete(r, C)
      PROVE  reserve' \subseteq reserve /\ UNCHANGED writer
  BY <1>9, Zenon DEF CompactPick, CompactFail, NoSpace, GcStep, Write, Delete, vars
<1> QED
  BY <1>2, <1>3, <1>4, <1>5, <1>6, <1>7, <1>8, <1>9, ZenonT(30) DEF Next

\* The allocator never writes more records in a sector than its limit, keeps its
\* cursors on data sectors, and neither a reservation nor the compaction
\* reserve outgrows its configured size.
THEOREM TypeCorrect == Spec => []TypeOK
<1>1. Init => Filled /\ Bounded
  <2> SUFFICES ASSUME Init
               PROVE  Filled /\ Bounded
    BY SMTT(30)
  <2>1. /\ \A s \in Sectors : sec[s].recs = 0 /\ sec[s].roots = 0
        /\ \A w \in Writers : writer[w].cur = 0 /\ writer[w].count = 0
    BY DEF Init, ErasedSector, Closed
  <2>2. Cardinality(reserve) = 0
    BY FS_EmptySet, SMTT(30) DEF Init
  <2> QED  BY <2>1, <2>2, AllocatorAssumption DEF Filled, Bounded
<1>2. Safe /\ Filled /\ Bounded => TypeOK
  <2> SUFFICES ASSUME Safe, Filled, Bounded
               PROVE  TypeOK
    OBVIOUS
  <2>1. ASSUME NEW s \in Sectors
        PROVE  sec[s] \in [blank : BOOLEAN, recs : 0 .. MaxRecs, roots : 0 .. MaxRecs,
                           cont : BOOLEAN, fit : {"normal", "relaxed", "none"}]
    <3>1. sec[s] \in Sec /\ sec[s].recs <= MaxRecs /\ sec[s].roots <= sec[s].recs
      BY SafeTypes DEF Filled
    <3>2. sec[s].recs \in 0 .. MaxRecs /\ sec[s].roots \in 0 .. MaxRecs
      BY <3>1, AllocatorAssumption DEF Sec
    <3> QED  BY <3>1, <3>2, Zenon DEF Sec
  <2>2. sec \in [Sectors -> [blank : BOOLEAN, recs : 0 .. MaxRecs, roots : 0 .. MaxRecs,
                             cont : BOOLEAN, fit : {"normal", "relaxed", "none"}]]
    BY <2>1, SafeTypes
  <2> QED  BY <2>2, SafeTypes DEF TypeOK, Bounded
<1> QED
  BY InitSafe, NextSafe, NextFills, NextBounded, <1>1, <1>2, PTL DEF Spec

=============================================================================
