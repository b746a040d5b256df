-------------------------- MODULE FileStore_proofs --------------------------
(***************************************************************************)
(* Proofs about FileStore for any number of sectors, slots, records per    *)
(* sector, names and handles, with power losses at any place and calls on  *)
(* names that are open: two writers never write in the same sector, and    *)
(* the variables keep their types.                                         *)
(***************************************************************************)
EXTENDS FileStore, WellFoundedInduction, TLAPS

-----------------------------------------------------------------------------
(* The inductive invariant.                                                *)

SectorType ==
  [foot : {"erased", "live", "dead"}, full : BOOLEAN, tail : {"clean", "junk", "torn"},
   recs : Seq(RecordType)]

(* A sector s as the program leaves it: it takes no more records than fit,   *)
(* an erased one has none, and no span runs past the end of the flash.      *)
Sound(s, sec) ==
  /\ sec \in SectorType
  /\ Len(sec.recs) <= MaxRecords
  /\ sec.foot = "erased" => sec.recs = <<>>
  /\ \A k \in DOMAIN sec.recs : s + sec.recs[k].span <= N + 1

WriterType ==
  [mode : {"opening", "write"}, slot : Slots, name : Names, ver : Versions,
   ext : 0..(MaxExtents-1), head : 0..N, cur : 0..N, span : 0..N, old : 0..N, oldNext : 0..N]

ReaderType ==
  [mode : {"read"}, slot : Slots, name : Names, ver : Versions \cup {0}, ext : 0..MaxExtents,
   cur : 0..N, link : 0..N, size : 0..MaxExtents]

Writing(h) == file[h].mode = "write"

(* The sectors a writer keeps from everyone else.                           *)
Held(f) == {f.head, f.cur} \cup (f.span..f.cur)

Filed ==
  /\ file \in [Handles -> WriterType \cup ReaderType \cup {Closed}]
  /\ \A h \in Handles : Writing(h) =>
       file[h].head \in Sectors /\ file[h].span \in Sectors /\ file[h].span <= file[h].cur
  /\ \A g, h \in Handles : Writing(g) /\ Writing(h) /\ g # h =>
       Held(file[g]) \cap Held(file[h]) = {}

Allocating == {"alloc", "reclaim", "compact", "publish", "retract"}
Extending == {"extend", "link"}
Closing == {"commit", "root", "append"}

(* Whose call runs, and what it has been given.                             *)
Called ==
  /\ pc \in Places
  /\ me \in Handles \cup {0}
  /\ pc = "idle" => me = 0
  /\ \A h \in Handles : file[h].mode = "opening" => h = me /\ pc \in Allocating
  /\ pc \in Allocating \cup Extending \cup Closing => me \in Handles
  /\ pc \in Allocating =>
       file[me].mode = "opening" \/ (Writing(me) /\ file[me].ext + 1 < MaxExtents)
  /\ pc \in Extending =>
       /\ Writing(me) /\ file[me].ext + 1 < MaxExtents
       /\ got \in Sectors /\ ~OpenForWriting(got)
  /\ pc \in Closing => Writing(me)
  /\ pc = "root" => file[me].span # file[me].head
  /\ pc = "invalidate" /\ me \in Handles => Writing(me)

(* The sector a writer works in takes its next record.                      *)
Room ==
  /\ \A h \in Handles : Writing(h) =>
       \/ h = me /\ pc \in {"link", "invalidate"} \cup Closing
       \/ Len(flash[file[h].cur].recs) < MaxRecords
  /\ pc \in Extending => Len(flash[got].recs) < MaxRecords

HasOpen(sec, slot) ==
  \E k \in DOMAIN sec.recs : sec.recs[k].slot = slot /\ sec.recs[k].st = "open"

(* The records that a later step of the writer will finish are there: the   *)
(* head of the span under way, and a root that is left uncommitted.         *)
SpanOpen(h) ==
  \/ file[h].span # file[h].cur /\ ~(h = me /\ pc \in {"root", "append", "invalidate"})
  \/ h = me /\ pc \in {"link", "commit"}

HeadOpen(h) ==
  file[h].head # file[h].span /\ ~(h = me /\ pc \in {"append", "invalidate"})

Pending ==
  \A h \in Handles : Writing(h) =>
    /\ SpanOpen(h) => HasOpen(flash[file[h].span], file[h].slot)
    /\ HeadOpen(h) => HasOpen(flash[file[h].head], file[h].slot)

CompType ==
  [src : 0..N, entry : Nat \ {0}, copied : Nat, dest : 0..N, cands : SUBSET Sectors,
   tried : SUBSET Sectors, relaxed : BOOLEAN]

(* Nobody writes in the sectors that compaction may erase.                   *)
Compacting ==
  /\ comp \in CompType
  /\ \A s \in comp.cands : ~OpenForWriting(s)
  /\ pc \in {"compact", "publish", "retract"} => comp.src \in comp.cands
  /\ pc \notin Allocating => comp = NoComp

Ranges ==
  /\ index \in [Slots -> 0..N]
  /\ gc \in [at : 0..N, pos : 0..MaxRecords, live : BOOLEAN]
  /\ got \in 0..N /\ left \in 0..(N+1)
  /\ losses \in 0..PowerLosses

Flashed == flash \in [Sectors -> SectorType] /\ \A s \in Sectors : Sound(s, flash[s])

IInv == Flashed /\ Filed /\ Called /\ Room /\ Pending /\ Compacting /\ Ranges

-----------------------------------------------------------------------------
(* Helpers.                                                                *)

(* The numbers of a configuration, and the sectors among them.               *)
LEMMA Numbers ==
  /\ N \in Nat /\ 0 \in 0..N /\ 0 \in 0..MaxExtents /\ 0 \in 0..MaxRecords /\ 0 \notin Handles
  /\ MaxRecords \in Nat \ {0} /\ MaxExtents \in Nat \ {0}
  /\ \A s \in Sectors : s \in Nat /\ s \in 0..N /\ s + 0 <= N + 1 /\ s + 1 <= N + 1
BY FileStoreAssumption DEF Sectors

(* One more of what is below a bound.                                        *)
LEMMA OneMore ==
  ASSUME NEW a \in Nat, NEW b \in Nat
  PROVE  /\ a < b => a + 1 \in 0..b
         /\ a \in 0..(b - 1) => a + 1 \in 0..b
OBVIOUS

(* The spans and links that stay in the flash.                               *)
LEMMA SpanFits ==
  ASSUME NEW a \in Sectors, NEW b \in Sectors
  PROVE  /\ a <= b => b - a + 1 \in 0..N /\ a + (b - a + 1) <= N + 1
         /\ \A n \in 0..N : n > 1 /\ a + n <= N + 1 => a + 1 \in 0..N
BY FileStoreAssumption DEF Sectors

(* The record a walk looks at next is one of those the sector has.           *)
LEMMA WalkFits ==
  ASSUME NEW a \in Nat, NEW b \in Nat, ~(a >= b), b <= MaxRecords
  PROVE  a + 1 \in 0..MaxRecords
BY FileStoreAssumption

(* A sector of the type of the invariant is one of the type of TypeOK.       *)
LEMMA SectorIsOK ==
  ASSUME NEW sec \in SectorType, Len(sec.recs) <= MaxRecords
  PROVE  SectorOK(sec)
BY DEF SectorOK, SectorType

(* A handle that reads has the fields of a reader.                           *)
LEMMA ReaderIs ==
  ASSUME NEW f \in WriterType \cup ReaderType \cup {Closed}, f.mode = "read"
  PROVE  f \in ReaderType
BY DEF WriterType, Closed

(* A set of naturals has a least one.                                       *)
LEMMA LeastOf ==
  ASSUME NEW S \in SUBSET Nat, S # {}
  PROVE  \E k \in S : \A j \in S : k <= j
<1> DEFINE R == OpToRel(<, Nat)
<1>1. IsWellFoundedOn(R, Nat)
  BY NatLessThanWellFounded, Zenon
<1> HIDE DEF R
<1>2. PICK k \in S : \A j \in S : ~(<<j, k>> \in R)
  BY <1>1, WFMin, Zenon
<1>3. \A j \in S : ~(j < k)
  <2> SUFFICES ASSUME NEW j \in S, j < k
               PROVE  FALSE
    BY Zenon
  <2>1. <<j, k>> \in R
    BY Zenon DEF R, OpToRel
  <2> QED  BY <1>2, <2>1, Zenon
<1> QED  BY <1>3

(* The walk of a sector's records finds the first of those it looks for.    *)
LEMMA FirstIn ==
  ASSUME NEW S \in SUBSET Nat, S # {}
  PROVE  First(S) \in S
BY LeastOf, Zenon DEF First

(* fffs_index_resolve returns one of the slots it may choose from.          *)
LEMMA FirstProbedIn ==
  ASSUME NEW n \in Names, NEW S \in SUBSET Slots, S # {}
  PROVE  FirstProbed(n, S) \in S
<1> DEFINE D == {ProbeDistance(n, t) : t \in S}
<1>1. \A t \in S : ProbeDistance(n, t) \in Nat
  <2> SUFFICES ASSUME NEW t \in S
               PROVE  ProbeDistance(n, t) \in Nat
    OBVIOUS
  <2>1. HomeSlot[n] \in 1..SlotCount /\ t \in 1..SlotCount /\ SlotCount \in Nat \ {0}
    BY FileStoreAssumption DEF Slots
  <2> QED  BY <2>1 DEF ProbeDistance
<1>2. D \in SUBSET Nat /\ D # {}
  BY <1>1
<1> HIDE DEF D
<1>3. PICK d \in D : \A e \in D : d <= e
  BY <1>2, LeastOf, Zenon
<1>4. PICK slot \in S : d = ProbeDistance(n, slot)
  BY <1>3, Zenon DEF D
<1>5. \A t \in S : ProbeDistance(n, slot) <= ProbeDistance(n, t)
  BY <1>3, <1>4, Zenon DEF D
<1> QED  BY <1>5, Zenon DEF FirstProbed

(* A record the walk finds is one of the sector's, of the slot and in the    *)
(* state looked for.                                                         *)
LEMMA Found ==
  ASSUME Flashed, NEW s \in Sectors, NEW slot, NEW st, Positions(s, slot, st) # {}
  PROVE  LET k == First(Positions(s, slot, st)) IN
         /\ k \in DOMAIN flash[s].recs /\ k \in 1..Len(flash[s].recs)
         /\ flash[s].recs[k].slot = slot /\ flash[s].recs[k].st = st
         /\ flash[s].recs[k] \in RecordType /\ s + flash[s].recs[k].span <= N + 1
<1>1. flash[s].recs \in Seq(RecordType) /\ Sound(s, flash[s])
  BY DEF Flashed, SectorType
<1>2. DOMAIN flash[s].recs = 1..Len(flash[s].recs) /\ Len(flash[s].recs) \in Nat
  BY <1>1
<1>3. Positions(s, slot, st) \in SUBSET Nat
  BY <1>2 DEF Positions
<1>4. First(Positions(s, slot, st)) \in Positions(s, slot, st)
  BY <1>3, FirstIn, Zenon
<1> DEFINE k == First(Positions(s, slot, st))
<1>5. k \in DOMAIN flash[s].recs /\ flash[s].recs[k].slot = slot /\ flash[s].recs[k].st = st
  BY <1>4, Zenon DEF Positions
<1> HIDE DEF k
<1>6. k \in 1..Len(flash[s].recs) /\ flash[s].recs[k] \in RecordType
  BY <1>1, <1>2, <1>5
<1>7. s + flash[s].recs[k].span <= N + 1
  BY <1>1, <1>5 DEF Sound
<1> QED  BY <1>5, <1>6, <1>7 DEF k

(* What a read of a slot's metadata in a sector returns, and where it leads. *)
LEMMA LiveFound ==
  ASSUME Flashed, NEW s, NEW slot, HasLive(s, slot)
  PROVE  /\ s \in Sectors /\ ReadMd(s, slot) \in RecordType
         /\ s + ReadMd(s, slot).span <= N + 1
         /\ NextSector(s, slot) \in 0..N
<1>1. s \in Sectors /\ Positions(s, slot, "live") # {}
  BY DEF HasLive
<1>2. ReadMd(s, slot) \in RecordType /\ s + ReadMd(s, slot).span <= N + 1
  BY <1>1, Found DEF ReadMd
<1>3. ReadMd(s, slot).next \in 0..N /\ ReadMd(s, slot).span \in 0..N /\ N \in Nat /\ s \in 1..N
  BY <1>1, <1>2, FileStoreAssumption DEF RecordType, Sectors
<1>4. NextSector(s, slot) = IF ReadMd(s, slot).span > 1 THEN s + 1 ELSE ReadMd(s, slot).next
  BY DEF NextSector
<1> QED  BY <1>1, <1>2, <1>3, <1>4

-----------------------------------------------------------------------------
(* What the programs and erases of one sector leave.                        *)

(* As many records as before, and the uncommitted ones untouched.            *)
Kept(old, new) ==
  /\ Len(new.recs) = Len(old.recs)
  /\ \A k \in DOMAIN old.recs : old.recs[k].st = "open" => new.recs[k] = old.recs[k]

(* An erased sector is sound.                                               *)
LEMMA BlankSound ==
  ASSUME NEW s
  PROVE  Sound(s, Blank) /\ Blank.recs = <<>>
<1>1. Blank.recs = <<>> /\ Blank \in SectorType
  BY DEF Blank, SectorType
<1> QED  BY <1>1, FileStoreAssumption DEF Sound, Blank

(* Programming a record at the end of a sector that has room for it.        *)
LEMMA RecordAdded ==
  ASSUME NEW s \in Sectors, NEW sec, Sound(s, sec), Len(sec.recs) < MaxRecords,
         NEW r \in RecordType, s + r.span <= N + 1
  PROVE  /\ Sound(s, WithRecord(sec, r)) /\ WithRecord(sec, r).recs = Append(sec.recs, r)
         /\ WithRecord(sec, r).foot = "live"
<1> DEFINE new == WithRecord(sec, r)
<1>1. sec \in SectorType /\ sec.recs \in Seq(RecordType) /\ Len(sec.recs) \in Nat
  BY DEF Sound, SectorType
<1>2. PICK b \in BOOLEAN : new = [sec EXCEPT !.foot = "live", !.tail = "clean",
                                         !.recs = Append(sec.recs, r), !.full = b]
  BY Zenon DEF WithRecord
<1> HIDE DEF new
<1>8. new.foot = "live" /\ new.recs = Append(sec.recs, r)
  BY <1>1, <1>2 DEF SectorType
<1>3. new.recs \in Seq(RecordType) /\ Len(new.recs) = Len(sec.recs) + 1
  BY <1>1, <1>8
<1>4. new \in SectorType
  <2>1. Append(sec.recs, r) \in Seq(RecordType)
    BY <1>1
  <2> QED  BY <1>1, <1>2, <2>1, Zenon DEF SectorType
<1>5. Len(new.recs) <= MaxRecords
  BY <1>1, <1>3, FileStoreAssumption
<1>6. ASSUME NEW k \in DOMAIN new.recs
      PROVE  s + new.recs[k].span <= N + 1
  <2>1. k \in 1..(Len(sec.recs) + 1)
    BY <1>3, <1>6
  <2>2. CASE k = Len(sec.recs) + 1
    BY <2>2, <1>1, <1>8
  <2>3. CASE k \in 1..Len(sec.recs)
    <3>1. new.recs[k] = sec.recs[k] /\ k \in DOMAIN sec.recs
      BY <2>3, <1>1, <1>8
    <3> QED  BY <3>1 DEF Sound
  <2> QED  BY <2>1, <2>2, <2>3, <1>1
<1>7. Sound(s, new)
  BY <1>8, <1>4, <1>5, <1>6 DEF Sound
<1> QED  BY <1>8, <1>7 DEF new

(* The same where nothing but the record reached the flash.                  *)
LEMMA RecordLeft ==
  ASSUME NEW s \in Sectors, NEW sec, Sound(s, sec), Len(sec.recs) < MaxRecords,
         NEW r \in RecordType, s + r.span <= N + 1, sec.foot = "live",
         NEW new, new = [sec EXCEPT !.recs = Append(sec.recs, r)]
  PROVE  Sound(s, new)
<1>1. sec \in SectorType /\ sec.recs \in Seq(RecordType) /\ Len(sec.recs) \in Nat
  BY DEF Sound, SectorType
<1>2. Append(sec.recs, r) \in Seq(RecordType)
  BY <1>1
<1>3. new \in SectorType /\ new.recs = Append(sec.recs, r) /\ new.foot = "live"
  BY <1>1, <1>2, Zenon DEF SectorType
<1>4. /\ WithRecord(sec, r).recs = new.recs
      /\ Sound(s, WithRecord(sec, r))
  BY <1>3, RecordAdded
<1> QED  BY <1>3, <1>4 DEF Sound

(* Rewriting one record of a sector in place.                               *)
LEMMA RecordChanged ==
  ASSUME NEW s \in Sectors, NEW sec, Sound(s, sec), NEW k \in DOMAIN sec.recs,
         NEW r \in RecordType, s + r.span <= N + 1
  PROVE  LET new == [sec EXCEPT !.recs[k] = r] IN
         /\ Sound(s, new) /\ Len(new.recs) = Len(sec.recs) /\ new.recs[k] = r
         /\ new.foot = sec.foot
         /\ \A j \in DOMAIN sec.recs : j # k => new.recs[j] = sec.recs[j]
<1> DEFINE new == [sec EXCEPT !.recs[k] = r]
<1>1. sec \in SectorType /\ sec.recs \in Seq(RecordType) /\ Len(sec.recs) \in Nat
  BY DEF Sound, SectorType
<1>2. /\ new.foot = sec.foot /\ new.tail = sec.tail /\ new.recs = [sec.recs EXCEPT ![k] = r]
      /\ new.full = sec.full
      /\ new = [foot |-> new.foot, full |-> new.full, tail |-> new.tail, recs |-> new.recs]
  <2>1. sec = [foot |-> sec.foot, full |-> sec.full, tail |-> sec.tail, recs |-> sec.recs]
    BY <1>1 DEF SectorType
  <2>2. new = [foot |-> sec.foot, full |-> sec.full, tail |-> sec.tail, recs |-> [sec.recs EXCEPT ![k] = r]]
    BY <2>1
  <2> HIDE DEF new
  <2> QED  BY <2>2
<1> HIDE DEF new
<1>3. new.recs \in Seq(RecordType) /\ Len(new.recs) = Len(sec.recs)
  BY <1>1, <1>2
<1>4. new.recs[k] = r /\ \A j \in DOMAIN sec.recs : j # k => new.recs[j] = sec.recs[j]
  BY <1>1, <1>2
<1>5. new \in SectorType
  BY <1>1, <1>2, <1>3 DEF SectorType
<1>6. \A j \in DOMAIN new.recs : s + new.recs[j].span <= N + 1
  BY <1>1, <1>2, <1>4 DEF Sound
<1>7. sec.recs # <<>>
  BY <1>1
<1>8. Sound(s, new)
  BY <1>2, <1>3, <1>5, <1>6, <1>7 DEF Sound
<1> QED  BY <1>2, <1>3, <1>4, <1>8 DEF new

(* What is left of a tombstoned record.                                      *)
LEMMA TombstoneTyped ==
  ASSUME NEW r \in RecordType
  PROVE  Tombstoned(r) \in RecordType /\ Tombstoned(r).span = 0
<1>1. 0 \in 0..N /\ 0 \in 0..(MaxExtents-1) /\ 0 \in 0..MaxExtents
  BY FileStoreAssumption
<1> QED  BY <1>1, Zenon DEF Tombstoned, RecordType

(* fffs_invalidate_old_chain, the collector and a failed compaction tombstone *)
(* a live record of a slot: no uncommitted record changes.                   *)
LEMMA TombstoneKeeps ==
  ASSUME Flashed, NEW s \in Sectors, NEW slot
  PROVE  Sound(s, WithTombstone(s, slot)) /\ Kept(flash[s], WithTombstone(s, slot))
<1>1. Sound(s, flash[s]) /\ flash[s].recs \in Seq(RecordType)
  BY DEF Flashed, SectorType
<1>2. CASE ~HasLive(s, slot)
  BY <1>1, <1>2 DEF WithTombstone, Kept
<1>3. CASE HasLive(s, slot)
  <2> DEFINE k == First(Positions(s, slot, "live"))
             r == Tombstoned(flash[s].recs[k])
  <2>1. Positions(s, slot, "live") # {}
    BY <1>3 DEF HasLive
  <2>2. /\ k \in DOMAIN flash[s].recs /\ flash[s].recs[k] \in RecordType
        /\ flash[s].recs[k].st = "live"
    BY <2>1, Found
  <2>3. WithTombstone(s, slot) = [flash[s] EXCEPT !.recs[k] = r]
    BY <1>3 DEF WithTombstone
  <2>4. r \in RecordType /\ r.span = 0
    BY <2>2, TombstoneTyped
  <2> HIDE DEF k, r
  <2>5. s + r.span <= N + 1
    BY <2>4, FileStoreAssumption DEF Sectors
  <2> DEFINE new == [flash[s] EXCEPT !.recs[k] = r]
  <2>6. /\ Sound(s, new) /\ Len(new.recs) = Len(flash[s].recs)
        /\ \A j \in DOMAIN flash[s].recs : j # k => new.recs[j] = flash[s].recs[j]
    BY <1>1, <2>2, <2>4, <2>5, RecordChanged
  <2> HIDE DEF new
  <2>7. Kept(flash[s], new)
    BY <2>2, <2>6 DEF Kept
  <2> QED  BY <2>3, <2>6, <2>7 DEF new
<1> QED  BY <1>2, <1>3

(* A record looked for is found exactly when the sector has one.             *)
LEMMA OpenFound ==
  ASSUME NEW s, NEW slot
  PROVE  HasOpen(flash[s], slot) <=> Positions(s, slot, "open") # {}
BY DEF HasOpen, Positions

(* Where the uncommitted records are untouched, one looked for stays.        *)
LEMMA KeptOpen ==
  ASSUME NEW old, NEW new, old.recs \in Seq(RecordType), new.recs \in Seq(RecordType),
         Kept(old, new), NEW slot, HasOpen(old, slot)
  PROVE  HasOpen(new, slot)
<1>1. PICK k \in DOMAIN old.recs : old.recs[k].slot = slot /\ old.recs[k].st = "open"
  BY DEF HasOpen
<1>2. k \in DOMAIN new.recs /\ new.recs[k] = old.recs[k]
  BY <1>1 DEF Kept
<1> QED  BY <1>1, <1>2 DEF HasOpen

(* A record programmed at the end hides none, and is found if uncommitted.   *)
LEMMA AddedOpen ==
  ASSUME NEW old, NEW new, old.recs \in Seq(RecordType), NEW r \in RecordType,
         new.recs = Append(old.recs, r), NEW slot,
         HasOpen(old, slot) \/ (r.slot = slot /\ r.st = "open")
  PROVE  HasOpen(new, slot)
<1>1. CASE HasOpen(old, slot)
  <2>1. PICK k \in DOMAIN old.recs : old.recs[k].slot = slot /\ old.recs[k].st = "open"
    BY <1>1 DEF HasOpen
  <2>2. k \in DOMAIN new.recs /\ new.recs[k] = old.recs[k]
    BY <2>1
  <2> QED  BY <2>1, <2>2 DEF HasOpen
<1>2. CASE r.slot = slot /\ r.st = "open"
  <2>1. Len(old.recs) + 1 \in DOMAIN new.recs /\ new.recs[Len(old.recs) + 1] = r
    OBVIOUS
  <2> QED  BY <1>2, <2>1 DEF HasOpen
<1> QED  BY <1>1, <1>2

(* A step that programs or erases one sector leaves the others.              *)
LEMMA OneSector ==
  ASSUME Flashed, NEW x \in Sectors, NEW sec, Sound(x, sec),
         flash' = [flash EXCEPT ![x] = sec]
  PROVE  Flashed' /\ flash'[x] = sec /\ \A s \in Sectors : s # x => flash'[s] = flash[s]
<1>1. sec \in SectorType /\ flash \in [Sectors -> SectorType]
  BY DEF Sound, Flashed
<1>2. flash' \in [Sectors -> SectorType]
  BY <1>1
<1>3. flash'[x] = sec /\ \A s \in Sectors : s # x => flash'[s] = flash[s]
  BY <1>1
<1>4. \A s \in Sectors : Sound(s, flash'[s])
  BY <1>3 DEF Flashed
<1> QED  BY <1>2, <1>3, <1>4 DEF Flashed

(* sec is sector s after the lifecycle and link of a record are programmed.   *)
FinishedAs(sec, s, f, next, span, st, size) ==
  /\ Finish(s, f, next, span, st, size) = [flash EXCEPT ![s] = sec]
  /\ Sound(s, sec) /\ Len(sec.recs) = Len(flash[s].recs)
  /\ st = "open" => HasOpen(sec, f.slot)

(* Link and lifecycle of the uncommitted record of a slot are programmed.     *)
LEMMA FinishKeeps ==
  ASSUME Flashed, NEW s \in Sectors, NEW f, HasOpen(flash[s], f.slot),
         NEW next \in 0..N, NEW span \in 0..N, s + span <= N + 1,
         NEW st \in {"open", "live"}, NEW size \in 0..MaxExtents
  PROVE  \E sec : FinishedAs(sec, s, f, next, span, st, size)
<1> DEFINE k == First(Positions(s, f.slot, "open"))
           r == [flash[s].recs[k] EXCEPT !.next = next, !.span = span, !.st = st, !.size = size]
           sec == [flash[s] EXCEPT !.recs[k] = r]
<1>1. Sound(s, flash[s]) /\ flash[s].recs \in Seq(RecordType) /\ flash \in [Sectors -> SectorType]
  BY DEF Flashed, SectorType
<1>2. Positions(s, f.slot, "open") # {}
  BY OpenFound
<1>3. /\ k \in DOMAIN flash[s].recs /\ flash[s].recs[k] \in RecordType
      /\ flash[s].recs[k].slot = f.slot
  BY <1>2, Found
<1>4. Finish(s, f, next, span, st, size) = [flash EXCEPT ![s] = sec]
  BY <1>1 DEF Finish
<1> HIDE DEF k
<1>5. r \in RecordType /\ r.span = span /\ r.slot = f.slot /\ r.st = st
  BY <1>3, FileStoreAssumption, Zenon DEF RecordType
<1> HIDE DEF r
<1>6. s + r.span <= N + 1
  BY <1>5
<1>7. /\ Sound(s, sec) /\ Len(sec.recs) = Len(flash[s].recs) /\ sec.recs[k] = r
  BY <1>1, <1>3, <1>5, <1>6, RecordChanged
<1> HIDE DEF sec
<1>8. k \in DOMAIN sec.recs
  <2>1. sec.recs \in Seq(RecordType)
    BY <1>7 DEF Sound, SectorType
  <2> QED  BY <1>1, <1>3, <1>7, <2>1
<1>9. st = "open" => HasOpen(sec, f.slot)
  BY <1>5, <1>7, <1>8 DEF HasOpen
<1> QED  BY <1>4, <1>7, <1>9, Zenon DEF FinishedAs

-----------------------------------------------------------------------------
(* Frames: what steps that leave the writers alone preserve.                 *)

(* A sector is open for writing when one of the writers holds it.            *)
LEMMA HeldIsOpen ==
  ASSUME Filed, NEW s
  PROVE  OpenForWriting(s) <=> \E h \in Handles : Writing(h) /\ s \in Held(file[h])
<1>1. \A h \in Handles : Writing(h) => file[h].span # 0
  BY FileStoreAssumption DEF Filed, Sectors
<1> QED  BY <1>1, Zenon DEF OpenForWriting, Writing, Held

(* A writer and the types of its fields.                                    *)
LEMMA WriterTyped ==
  ASSUME Filed, NEW h \in Handles, file[h].mode \in {"opening", "write"}
  PROVE  file[h] \in WriterType
<1>1. file[h] \in WriterType \cup ReaderType \cup {Closed}
  BY DEF Filed
<1>2. file[h] \notin ReaderType /\ file[h] # Closed
  BY DEF ReaderType, Closed
<1> QED  BY <1>1, <1>2

(* The sectors of a writer are data sectors.                                *)
LEMMA WriterSectors ==
  ASSUME Filed, NEW h \in Handles, Writing(h)
  PROVE  /\ file[h].head \in Sectors /\ file[h].span \in Sectors /\ file[h].cur \in Sectors
         /\ file[h].span <= file[h].cur /\ Held(file[h]) \subseteq Sectors
         /\ file[h] \in WriterType
<1>1. file[h] \in WriterType
  BY WriterTyped DEF Writing
<1>2. file[h].head \in Sectors /\ file[h].span \in Sectors /\ file[h].span <= file[h].cur
  BY DEF Filed
<1>3. file[h].cur \in Nat /\ file[h].cur <= N /\ N \in Nat
  BY <1>1, FileStoreAssumption DEF WriterType
<1>4. file[h].cur \in Sectors
  BY <1>2, <1>3 DEF Sectors
<1>5. Held(file[h]) \subseteq Sectors
  BY <1>2, <1>3, <1>4 DEF Held, Sectors
<1> QED  BY <1>1, <1>2, <1>4, <1>5

Busy(h) == h = me /\ pc \notin Allocating \cup {"idle"}

(* The step does not change how far the call of a writer is.                 *)
SameDuty(h) ==
  \/ ~Busy(h) /\ ~Busy(h)'
  \/ me' = me /\ pc' = pc
  \/ me' = me /\ pc = "append" /\ pc' = "invalidate"

WritersKept ==
  \A h \in Handles : Writing(h)' => Writing(h) /\ file'[h] = file[h]

(* No new sector is open for writing when no writer is new.                  *)
LEMMA NoNewOpen ==
  ASSUME WritersKept, NEW s, OpenForWriting(s)'
  PROVE  OpenForWriting(s)
<1>1. PICK h \in Handles : /\ file'[h].mode = "write"
                           /\ \/ s = file'[h].head
                              \/ s = file'[h].cur
                              \/ file'[h].span # 0 /\ s \in file'[h].span..file'[h].cur
  BY DEF OpenForWriting
<1>2. file'[h] = file[h]
  BY <1>1 DEF WritersKept, Writing
<1> QED  BY <1>1, <1>2, Zenon DEF OpenForWriting

(* Nor do writers come to share a sector.                                    *)
LEMMA FiledFrame ==
  ASSUME Filed, WritersKept, file' \in [Handles -> WriterType \cup ReaderType \cup {Closed}]
  PROVE  Filed'
<1>1. ASSUME NEW h \in Handles, Writing(h)'
      PROVE  file'[h].head \in Sectors /\ file'[h].span \in Sectors /\ file'[h].span <= file'[h].cur
  BY <1>1, Zenon DEF WritersKept, Filed
<1>2. ASSUME NEW g \in Handles, NEW h \in Handles, Writing(g)', Writing(h)', g # h
      PROVE  Held(file'[g]) \cap Held(file'[h]) = {}
  BY <1>2, Zenon DEF WritersKept, Filed
<1> QED  BY <1>1, <1>2 DEF Filed, Writing

(* The steps of other calls, and of collection and compaction, touch neither *)
(* the room nor the uncommitted records of a writer.                         *)
LEMMA Frame ==
  ASSUME Filed, Room, Pending, Flashed, Flashed', WritersKept, pc' \notin Extending,
         \A h \in Handles : Writing(h)' => SameDuty(h),
         \A s \in Sectors : OpenForWriting(s) => Kept(flash[s], flash'[s])
  PROVE  Room' /\ Pending'
<1>1. ASSUME NEW h \in Handles, Writing(h)'
      PROVE  /\ Writing(h) /\ file'[h] = file[h] /\ SameDuty(h)
             /\ \A s \in Held(file[h]) : s \in Sectors /\ Kept(flash[s], flash'[s])
  <2>1. Writing(h) /\ file'[h] = file[h] /\ SameDuty(h)
    BY <1>1 DEF WritersKept
  <2>2. \A s \in Held(file[h]) : s \in Sectors /\ OpenForWriting(s)
    BY <2>1, HeldIsOpen, WriterSectors
  <2> QED  BY <2>1, <2>2
<1>2. \A s \in Sectors : flash[s].recs \in Seq(RecordType) /\ flash'[s].recs \in Seq(RecordType)
  BY DEF Flashed, SectorType
<1>3. ASSUME NEW h \in Handles, Writing(h)'
      PROVE  \/ h = me' /\ pc' \in {"link", "invalidate"} \cup Closing
             \/ Len(flash'[file'[h].cur].recs) < MaxRecords
  <2>1. file[h].cur \in Held(file[h])
    BY DEF Held
  <2>2. Len(flash'[file'[h].cur].recs) = Len(flash[file[h].cur].recs)
    BY <1>1, <1>3, <2>1 DEF Kept
  <2>3. CASE Len(flash[file[h].cur].recs) < MaxRecords
    BY <2>2, <2>3
  <2>4. CASE h = me /\ pc \in {"link", "invalidate"} \cup Closing
    <3>1. Busy(h)
      BY <2>4 DEF Busy, Allocating, Closing
    <3>2. me' = me /\ (pc' = pc \/ (pc = "append" /\ pc' = "invalidate"))
      BY <1>1, <1>3, <3>1 DEF SameDuty
    <3> QED  BY <2>4, <3>2
  <2> QED  BY <1>1, <1>3, <2>3, <2>4 DEF Room
<1>4. ASSUME NEW h \in Handles, Writing(h)', NEW s \in Held(file[h]),
             HasOpen(flash[s], file[h].slot)
      PROVE  HasOpen(flash'[s], file'[h].slot)
  BY <1>1, <1>2, <1>4, KeptOpen
<1>5. ASSUME NEW h \in Handles, Writing(h)'
      PROVE  (SpanOpen(h)' => SpanOpen(h)) /\ (HeadOpen(h)' => HeadOpen(h))
  <2>1. file'[h] = file[h] /\ SameDuty(h)
    BY <1>1, <1>5
  <2> QED  BY <2>1, Zenon DEF SpanOpen, HeadOpen, SameDuty, Busy, Allocating
<1>6. ASSUME NEW h \in Handles, Writing(h)'
      PROVE  /\ SpanOpen(h)' => HasOpen(flash'[file'[h].span], file'[h].slot)
             /\ HeadOpen(h)' => HasOpen(flash'[file'[h].head], file'[h].slot)
  <2>1. file[h].span \in Held(file[h]) /\ file[h].head \in Held(file[h])
    BY <1>1, <1>6, WriterSectors DEF Held, Sectors
  <2>2. Writing(h) /\ file'[h] = file[h]
    BY <1>1, <1>6
  <2>3. SpanOpen(h)' => HasOpen(flash[file[h].span], file[h].slot)
    BY <1>5, <1>6, <2>2, Zenon DEF Pending
  <2>4. HeadOpen(h)' => HasOpen(flash[file[h].head], file[h].slot)
    BY <1>5, <1>6, <2>2 DEF Pending
  <2> QED  BY <1>4, <1>6, <2>1, <2>2, <2>3, <2>4, Zenon
<1>7. Room'
  BY <1>3, Zenon DEF Room, Writing
<1> QED  BY <1>6, <1>7 DEF Pending, Writing

-----------------------------------------------------------------------------
(* Steps that give a writer a sector, or program one it holds.               *)

(* What such a step leaves to the other writers: their sectors, and so the   *)
(* room and the records they have there.                                     *)
LEMMA OtherWriters ==
  ASSUME Filed, Room, Pending, NEW w \in Handles, NEW x \in Sectors,
         \A s \in Sectors : s # x => flash'[s] = flash[s],
         NEW h \in Handles, h # w, Writing(h), x \notin Held(file[h]), file'[h] = file[h],
         h = me => pc \in Allocating \cup {"idle"}, 
         h = me' => pc' \in Allocating \cup {"idle"}
  PROVE  /\ Len(flash'[file'[h].cur].recs) < MaxRecords
         /\ SpanOpen(h)' => HasOpen(flash'[file'[h].span], file'[h].slot)
         /\ HeadOpen(h)' => HasOpen(flash'[file'[h].head], file'[h].slot)
<1>1. \A s \in Held(file[h]) : flash'[s] = flash[s]
  BY WriterSectors
<1>2. /\ file[h].cur \in Held(file[h]) /\ file[h].span \in Held(file[h])
      /\ file[h].head \in Held(file[h])
  BY WriterSectors DEF Held, Sectors
<1>3. ~(h = me /\ pc \in {"link", "invalidate"} \cup Closing)
  BY DEF Allocating, Closing
<1>4. Len(flash[file[h].cur].recs) < MaxRecords
  BY <1>3 DEF Room
<1>5. (SpanOpen(h)' => SpanOpen(h)) /\ (HeadOpen(h)' => HeadOpen(h))
  BY Zenon DEF SpanOpen, HeadOpen, Allocating
<1> QED  BY <1>1, <1>2, <1>4, <1>5 DEF Pending

(* A writer that takes or keeps sectors nobody else holds stays apart.       *)
LEMMA FiledStep ==
  ASSUME Filed, NEW w \in Handles, NEW f \in WriterType, f.mode = "write",
         f.head \in Sectors, f.span \in Sectors, f.span <= f.cur,
         file' = [file EXCEPT ![w] = f],
         \A h \in Handles : h # w /\ Writing(h) => Held(file[h]) \cap Held(f) = {}
  PROVE  Filed'
<1>1. file' \in [Handles -> WriterType \cup ReaderType \cup {Closed}]
  BY DEF Filed
<1>2. file'[w] = f /\ \A h \in Handles : h # w => file'[h] = file[h]
  BY DEF Filed
<1>3. ASSUME NEW h \in Handles, Writing(h)'
      PROVE  file'[h].head \in Sectors /\ file'[h].span \in Sectors /\ file'[h].span <= file'[h].cur
  BY <1>2, <1>3 DEF Writing, Filed
<1>4. ASSUME NEW g \in Handles, NEW h \in Handles, Writing(g)', Writing(h)', g # h
      PROVE  Held(file'[g]) \cap Held(file'[h]) = {}
  <2>1. CASE g = w
    BY <2>1, <1>2, <1>4, Zenon DEF Writing
  <2>2. CASE h = w
    <3>1. Held(file[g]) \cap Held(f) = {}
      BY <2>2, <1>2, <1>4, Zenon DEF Writing
    <3> QED  BY <2>2, <1>2, <1>4, <3>1, Zenon
  <2>3. CASE g # w /\ h # w
    BY <2>3, <1>2, <1>4, Zenon DEF Writing, Filed
  <2> QED  BY <2>1, <2>2, <2>3
<1> QED  BY <1>1, <1>3, <1>4 DEF Filed, Writing

(* Room and Pending, writer by writer.                                       *)
LEMMA RoomStep ==
  ASSUME NEW w \in Handles, 
         \A h \in Handles : h # w /\ Writing(h)' => 
            /\ Len(flash'[file'[h].cur].recs) < MaxRecords
            /\ SpanOpen(h)' => HasOpen(flash'[file'[h].span], file'[h].slot)
            /\ HeadOpen(h)' => HasOpen(flash'[file'[h].head], file'[h].slot),
         Writing(w)' =>
            /\ \/ w = me' /\ pc' \in {"link", "invalidate"} \cup Closing
               \/ Len(flash'[file'[w].cur].recs) < MaxRecords
            /\ SpanOpen(w)' => HasOpen(flash'[file'[w].span], file'[w].slot)
            /\ HeadOpen(w)' => HasOpen(flash'[file'[w].head], file'[w].slot),
         pc' \in Extending => Len(flash'[got'].recs) < MaxRecords
  PROVE  Room' /\ Pending'
<1>1. Room'
  BY Zenon DEF Room
<1>2. Pending'
  BY Zenon DEF Pending
<1> QED  BY <1>1, <1>2

(* g is the writer f at another place.                                       *)
Relocated(g, f, head, cur, span, ext) ==
  /\ g = [f EXCEPT !.mode = "write", !.head = head, !.cur = cur, !.span = span, !.ext = ext]
  /\ g.mode = "write" /\ g.head = head /\ g.cur = cur /\ g.span = span
  /\ g.slot = f.slot

(* A writer whose place moves is a writer.                                   *)
LEMMA WriterMoved ==
  ASSUME NEW f \in WriterType, NEW head \in 0..N, NEW cur \in 0..N, NEW span \in 0..N,
         NEW ext \in 0..(MaxExtents-1)
  PROVE  \E g \in WriterType : Relocated(g, f, head, cur, span, ext)
<1>1. PICK a \in WriterType : a = [f EXCEPT !.mode = "write"]
  BY Zenon DEF WriterType
<1>2. PICK b \in WriterType : b = [a EXCEPT !.head = head]
  BY Zenon DEF WriterType
<1>3. PICK c \in WriterType : c = [b EXCEPT !.cur = cur]
  BY Zenon DEF WriterType
<1>4. PICK d \in WriterType : d = [c EXCEPT !.span = span]
  BY Zenon DEF WriterType
<1>5. PICK g \in WriterType : g = [d EXCEPT !.ext = ext]
  BY Zenon DEF WriterType
<1>6. g = [f EXCEPT !.mode = "write", !.head = head, !.cur = cur, !.span = span, !.ext = ext]
  BY <1>1, <1>2, <1>3, <1>4, <1>5
<1>7. /\ g.mode = "write" /\ g.head = head /\ g.cur = cur /\ g.span = span /\ g.slot = f.slot
  BY <1>6 DEF WriterType
<1> QED  BY <1>6, <1>7, Zenon DEF Relocated

(* Compaction is over once the call has its sector.                          *)
LEMMA NoCompacting ==
  ASSUME comp' = NoComp, pc' \notin {"compact", "publish", "retract"}
  PROVE  Compacting'
<1>1. NoComp \in CompType
  BY FileStoreAssumption DEF CompType, NoComp
<1>2. NoComp.cands = {}
  BY DEF NoComp
<1> QED  BY <1>1, <1>2 DEF Compacting

(* The call gets sector s: fffs_open starts the file there, fffs_write goes  *)
(* on to leave the extent it has filled.                                     *)
LEMMA TakeKeeps ==
  ASSUME IInv, NEW s \in Sectors, pc \in Allocating, ~OpenForWriting(s), Take(s),
         Flashed', Len(flash'[s].recs) < MaxRecords,
         \A t \in Sectors : t # s => flash'[t] = flash[t]
  PROVE  Filed' /\ Called' /\ Room' /\ Pending' /\ Compacting' /\ got' \in 0..N /\ left' \in 0..(N+1)
<1>1. /\ Filed /\ Called /\ Room /\ Pending /\ Flashed
      /\ me \in Handles /\ N \in Nat
  BY FileStoreAssumption DEF IInv, Called
<1>2. left' = 0 /\ comp' = NoComp /\ left' \in 0..(N+1)
  BY <1>1 DEF Take
<1>3. \A h \in Handles : Writing(h) => s \notin Held(file[h])
  BY <1>1, HeldIsOpen
<1>4. Compacting'
  <2>1. pc' \in {"idle", "extend"}
    BY DEF Take
  <2> QED  BY <1>2, <2>1, NoCompacting
<1>5. file[me] \in WriterType
  BY <1>1, WriterTyped DEF Called, Writing
<1>6. CASE file[me].mode = "opening"
  <2>0. PICK w \in Handles : w = me
    BY <1>1
  <2>10. PICK f \in WriterType : Relocated(f, file[w], s, s, s, file[w].ext)
    <3>1. s \in 0..N /\ file[w].ext \in 0..(MaxExtents-1)
      BY <1>5, <2>0, FileStoreAssumption DEF WriterType, Sectors
    <3>2. file[w] \in WriterType
      BY <1>5, <2>0
    <3> QED  BY <3>1, <3>2, WriterMoved
  <2>1. /\ file' = [file EXCEPT ![w] = f] /\ pc' = "idle" /\ me' = 0 /\ got' = 0
    <3>1. f = [file[w] EXCEPT !.mode = "write", !.head = s, !.cur = s, !.span = s]
      BY <1>5, <2>0, <2>10, Zenon DEF WriterType, Relocated
    <3> QED  BY <1>1, <1>6, <2>0, <3>1, Zenon DEF Take, Filed
  <2>2. /\ f \in WriterType /\ f.mode = "write" /\ f.head = s /\ f.span = s /\ f.cur = s
    BY <2>10 DEF Relocated
  <2>3. Held(f) = {s}
    BY <2>2 DEF Held, Sectors
  <2>4. Filed'
    <3>1. \A h \in Handles : h # w /\ Writing(h) => Held(file[h]) \cap Held(f) = {}
      BY <1>3, <2>3
    <3>2. f.head \in Sectors /\ f.span \in Sectors /\ f.span <= f.cur
      BY <2>2 DEF Sectors
    <3> QED  BY <1>1, <2>1, <2>2, <3>1, <3>2, FiledStep, Zenon
  <2>5. file'[w] = f /\ \A h \in Handles : h # w => file'[h] = file[h]
    BY <1>1, <2>1 DEF Filed
  <2>6. Called'
    <3>1. \A h \in Handles : file'[h].mode # "opening"
      BY <1>1, <2>0, <2>2, <2>5, Zenon DEF Called
    <3> QED  BY <2>1, <3>1 DEF Called, Places, Allocating, Extending, Closing
  <2>7. ASSUME NEW h \in Handles, h # w, Writing(h)'
        PROVE  /\ Len(flash'[file'[h].cur].recs) < MaxRecords
               /\ SpanOpen(h)' => HasOpen(flash'[file'[h].span], file'[h].slot)
               /\ HeadOpen(h)' => HasOpen(flash'[file'[h].head], file'[h].slot)
    <3>1. Writing(h) /\ file'[h] = file[h] /\ s \notin Held(file[h])
      BY <1>3, <2>5, <2>7 DEF Writing
    <3> QED  BY <1>1, <2>0, <2>1, <2>7, <3>1, OtherWriters, ZenonT(30)
  <2>8. ~SpanOpen(w)' /\ ~HeadOpen(w)'
    BY <2>1, <2>2, <2>5, FileStoreAssumption, ZenonT(30) DEF SpanOpen, HeadOpen
  <2>9. Room' /\ Pending'
    BY <1>1, <2>1, <2>2, <2>5, <2>7, <2>8, RoomStep DEF Extending
  <2> QED  BY <1>2, <1>4, <2>1, <2>4, <2>6, <2>9, Numbers, Zenon
<1>7. CASE file[me].mode # "opening"
  <2>1. pc' = "extend" /\ got' = s /\ file' = file /\ me' = me
    BY <1>7, Zenon DEF Take
  <2>2. Filed'
    BY <1>1, <2>1, ZenonT(30) DEF Filed, Writing
  <2>3. ~OpenForWriting(s)'
    BY <2>1, Zenon DEF OpenForWriting
  <2>4. Called'
    BY <1>1, <1>7, <2>1, <2>3 DEF Called, Places, Allocating, Extending, Closing, Writing
  <2>5. \A h \in Handles : Writing(h)' <=> Writing(h)
    BY <2>1 DEF Writing
  <2>6. \A h \in Handles : (SpanOpen(h)' => SpanOpen(h)) /\ (HeadOpen(h)' => HeadOpen(h))
    BY <2>1 DEF SpanOpen, HeadOpen, Allocating
  <2>7. \A h \in Handles : Writing(h) => \A t \in Held(file[h]) : flash'[t] = flash[t]
    BY <1>1, <1>3, WriterSectors, ZenonT(30)
  <2>8. \A h \in Handles : Writing(h) =>
           file[h].cur \in Held(file[h]) /\ file[h].span \in Held(file[h]) /\ file[h].head \in Held(file[h])
    BY <1>1, WriterSectors DEF Held, Sectors
  <2>9. Room'
    <3>1. \A h \in Handles : Writing(h) => Len(flash[file[h].cur].recs) < MaxRecords
      BY <1>1, Zenon DEF Room, Allocating, Closing
    <3> QED  BY <2>1, <2>5, <2>7, <2>8, <3>1 DEF Room
  <2>10. Pending'
    BY <1>1, <2>1, <2>5, <2>6, <2>7, <2>8, ZenonT(30) DEF Pending
  <2> QED  BY <1>1, <1>2, <1>4, <2>1, <2>2, <2>4, <2>9, <2>10 DEF Sectors
<1> QED  BY <1>6, <1>7

(* The record of an extent has the fields of its writer.                     *)
LEMMA ExtentTyped ==
  ASSUME NEW f \in WriterType, NEW st \in {"open", "live"}, NEW next \in 0..N, NEW span \in {0, 1}
  PROVE  LET r == ExtentRecord(f, st, next, span) IN
         r \in RecordType /\ r.slot = f.slot /\ r.st = st /\ r.span = span
BY FileStoreAssumption DEF ExtentRecord, Record, RecordType, WriterType

(* fffs_append_extent_metadata in the sector a writer leaves.                *)
LEMMA ExtentLeft ==
  ASSUME Flashed, Filed, NEW w \in Handles, Writing(w), Len(flash[file[w].cur].recs) < MaxRecords,
         NEW next \in 0..N,
         flash' = [flash EXCEPT ![file[w].cur] = WithRecord(@,
            IF file[w].cur = file[w].span THEN ExtentRecord(file[w], "open", 0, 0)
                                          ELSE ExtentRecord(file[w], "live", next, 1))]
  PROVE  /\ Flashed'
         /\ \A s \in Sectors : s # file[w].cur => flash'[s] = flash[s]
         /\ file[w].cur = file[w].span => HasOpen(flash'[file[w].span], file[w].slot)
         /\ \A s \in Sectors : HasOpen(flash[s], file[w].slot) => HasOpen(flash'[s], file[w].slot)
<1> DEFINE f == file[w]
           x == f.cur
           r == IF f.cur = f.span THEN ExtentRecord(f, "open", 0, 0)
                                  ELSE ExtentRecord(f, "live", next, 1)
           sec == WithRecord(flash[x], r)
<1>1. f \in WriterType /\ x \in Sectors /\ f.span \in Sectors
  BY WriterSectors
<1>2. 0 \in 0..N /\ N \in Nat
  BY Numbers, Zenon
<1>3. /\ r \in RecordType /\ r.slot = f.slot /\ r.span \in {0, 1}
      /\ f.cur = f.span => r.st = "open"
  <2>1. CASE f.cur = f.span
    BY <2>1, <1>1, <1>2, ExtentTyped, Zenon
  <2>2. CASE f.cur # f.span
    BY <2>2, <1>1, <1>2, ExtentTyped, ZenonT(30)
  <2> QED  BY <2>1, <2>2, Zenon
<1>4. flash' = [flash EXCEPT ![x] = sec] /\ flash \in [Sectors -> SectorType]
  BY DEF Flashed
<1>5. Sound(x, flash[x]) /\ flash[x].recs \in Seq(RecordType) /\ Len(flash[x].recs) < MaxRecords
  BY <1>1 DEF Flashed, SectorType
<1> HIDE DEF r
<1>6. x + r.span <= N + 1
  BY <1>1, <1>3, Numbers, Zenon
<1>7. Sound(x, sec) /\ sec.recs = Append(flash[x].recs, r)
  BY <1>1, <1>3, <1>5, <1>6, RecordAdded, Zenon
<1> HIDE DEF sec, x
<1>8. Flashed' /\ flash'[x] = sec /\ \A s \in Sectors : s # x => flash'[s] = flash[s]
  BY <1>1, <1>4, <1>7, OneSector, Zenon
<1>9. f.cur = f.span => HasOpen(flash'[x], f.slot)
  <2> SUFFICES ASSUME f.cur = f.span  PROVE HasOpen(sec, f.slot)
    BY <1>8, Zenon
  <2>1. HasOpen(flash[x], f.slot) \/ (r.slot = f.slot /\ r.st = "open")
    BY <1>3
  <2> QED  BY <1>3, <1>5, <1>7, <2>1, AddedOpen, Zenon
<1>10. ASSUME NEW s \in Sectors, HasOpen(flash[s], f.slot)
       PROVE  HasOpen(flash'[s], f.slot)
  <2>1. CASE s # x
    BY <2>1, <1>8, <1>10, ZenonT(30)
  <2>2. CASE s = x
    <3>1. HasOpen(flash[x], f.slot) \/ (r.slot = f.slot /\ r.st = "open")
      BY <2>2, <1>10, Zenon
    <3>2. HasOpen(sec, f.slot)
      BY <1>3, <1>5, <1>7, <3>1, AddedOpen, Zenon
    <3> QED  BY <2>2, <1>8, <3>2
  <2> QED  BY <2>1, <2>2, Zenon
<1> QED  BY <1>8, <1>9, <1>10, Zenon DEF x

(* The sectors of another writer are not the one a writer holds.             *)
LEMMA HeldApart ==
  ASSUME Filed, NEW w \in Handles, Writing(w), NEW x \in Held(file[w]),
         NEW h \in Handles, h # w, Writing(h)
  PROVE  x \notin Held(file[h])
BY DEF Filed

(* start_next_extent keeps the invariant.                                    *)
LEMMA ExtendKeeps ==
  ASSUME IInv, Extend
  PROVE  Flashed' /\ Filed' /\ Called' /\ Room' /\ Pending' /\ got' \in 0..N
<1> DEFINE f == file[me]
<1>1. /\ Flashed /\ Filed /\ Called /\ Room /\ Pending
      /\ pc = "extend" /\ me \in Handles /\ Writing(me) /\ f.ext + 1 < MaxExtents
      /\ got \in Sectors /\ ~OpenForWriting(got) /\ got \in 0..N /\ N \in Nat
  BY FileStoreAssumption DEF IInv, Extend, Called, Extending, Ranges
<1>2. Len(flash[f.cur].recs) < MaxRecords /\ Len(flash[got].recs) < MaxRecords
  BY <1>1 DEF Room, Extending, Closing
<1>3. /\ f \in WriterType /\ f.head \in Sectors /\ f.span \in Sectors /\ f.cur \in Sectors
      /\ f.span <= f.cur
  BY <1>1, WriterSectors
<1>4. /\ Flashed'
      /\ \A s \in Sectors : s # f.cur => flash'[s] = flash[s]
      /\ f.cur = f.span => HasOpen(flash'[f.span], f.slot)
      /\ \A s \in Sectors : HasOpen(flash[s], f.slot) => HasOpen(flash'[s], f.slot)
  BY <1>1, <1>2, ExtentLeft, Zenon DEF Extend
<1>5. \A h \in Handles : Writing(h) => got \notin Held(file[h])
  BY <1>1, HeldIsOpen
<1>6. f.cur \in Held(f) /\ got # f.cur
  BY <1>1, <1>5 DEF Held
<1>7. \A h \in Handles : h # me /\ Writing(h) => f.cur \notin Held(file[h])
  BY <1>1, <1>6, HeldApart
<1>8. HasOpen(flash'[f.span], f.slot) 
  <2>1. CASE f.cur = f.span
    BY <2>1, <1>4, Zenon
  <2>2. CASE f.cur # f.span
    <3>1. SpanOpen(me)
      BY <2>2, <1>1 DEF SpanOpen
    <3> QED  BY <1>1, <1>3, <1>4, <3>1, ZenonT(30) DEF Pending
  <2> QED  BY <2>1, <2>2
<1>9. f.head # f.span => HasOpen(flash'[f.head], f.slot)
  BY <1>1, <1>3, <1>4, Zenon DEF Pending, HeadOpen
<1>10. flash'[got] = flash[got]
  BY <1>1, <1>4, <1>6, Zenon
<1>11. CASE got = f.cur + 1
  <2>0. PICK f2 \in WriterType : Relocated(f2, f, f.head, got, f.span, f.ext + 1)
    <3>1. f.head \in 0..N /\ f.span \in 0..N /\ f.ext + 1 \in 0..(MaxExtents-1)
      BY <1>1, <1>3, FileStoreAssumption DEF WriterType
    <3> QED  BY <1>1, <1>3, <3>1, WriterMoved, ZenonT(30)
  <2>1. file' = [file EXCEPT ![me] = f2] /\ pc' = "idle" /\ me' = 0 /\ got' = 0
    <3>1. f2 = [f EXCEPT !.cur = got, !.ext = @ + 1]
      BY <1>1, <1>3, <2>0, Zenon DEF WriterType, Writing, Relocated
    <3> QED  BY <1>1, <1>11, <3>1, Zenon DEF Extend, Filed
  <2>2. /\ f2 \in WriterType /\ f2.mode = "write" /\ f2.head = f.head /\ f2.span = f.span
        /\ f2.cur = got /\ f2.slot = f.slot
    BY <2>0, Zenon DEF Relocated
  <2>3. Held(f2) \subseteq Held(f) \cup {got}
    BY <1>3, <1>11, <2>2 DEF Held, Sectors
  <2>4. Filed'
    <3>1. \A h \in Handles : h # me /\ Writing(h) => Held(file[h]) \cap Held(f) = {}
      BY <1>1 DEF Filed
    <3>2. \A h \in Handles : h # me /\ Writing(h) => Held(file[h]) \cap Held(f2) = {}
      BY <1>5, <2>3, <3>1
    <3>3. f2.span <= f2.cur
      BY <1>3, <1>11, <2>2 DEF Sectors
    <3> QED  BY <1>1, <1>3, <2>1, <2>2, <3>2, <3>3, FiledStep, ZenonT(30)
  <2>5. file'[me] = f2 /\ \A h \in Handles : h # me => file'[h] = file[h]
    BY <1>1, <2>1 DEF Filed
  <2>6. Called'
    <3>1. \A h \in Handles : file'[h].mode # "opening"
      BY <1>1, <2>2, <2>5, Zenon DEF Called, Allocating
    <3> QED  BY <2>1, <3>1, Zenon DEF Called, Places, Allocating, Extending, Closing
  <2>7. ASSUME NEW h \in Handles, h # me, Writing(h)'
        PROVE  /\ Len(flash'[file'[h].cur].recs) < MaxRecords
               /\ SpanOpen(h)' => HasOpen(flash'[file'[h].span], file'[h].slot)
               /\ HeadOpen(h)' => HasOpen(flash'[file'[h].head], file'[h].slot)
    <3>1. Writing(h) /\ file'[h] = file[h] /\ f.cur \notin Held(file[h])
      BY <1>7, <2>5, <2>7 DEF Writing
    <3> QED  BY <1>1, <1>3, <1>4, <2>1, <2>7, <3>1, OtherWriters, ZenonT(30)
  <2>8. Room' /\ Pending'
    BY <1>1, <1>2, <1>8, <1>9, <1>10, <2>1, <2>2, <2>5, <2>7, RoomStep, ZenonT(30) DEF Extending, HeadOpen
  <2> QED  BY <1>4, <2>1, <2>4, <2>6, <2>8, Numbers, ZenonT(30)
<1>12. CASE got # f.cur + 1
  <2>1. pc' = "link" /\ file' = file /\ me' = me /\ got' = got
    BY <1>12, Zenon DEF Extend
  <2>2. Filed'
    BY <1>1, <2>1, Zenon DEF Filed, Writing
  <2>3. ~OpenForWriting(got)'
    BY <1>1, <2>1, Zenon DEF OpenForWriting
  <2>4. Called'
    BY <1>1, <2>1, <2>3, Zenon DEF Called, Places, Allocating, Extending, Closing, Writing
  <2>7. ASSUME NEW h \in Handles, h # me, Writing(h)'
        PROVE  /\ Len(flash'[file'[h].cur].recs) < MaxRecords
               /\ SpanOpen(h)' => HasOpen(flash'[file'[h].span], file'[h].slot)
               /\ HeadOpen(h)' => HasOpen(flash'[file'[h].head], file'[h].slot)
    <3>1. Writing(h) /\ file'[h] = file[h] /\ f.cur \notin Held(file[h])
      BY <1>7, <2>1, <2>7, Zenon DEF Writing
    <3> QED  BY <1>1, <1>3, <1>4, <2>1, <2>7, <3>1, OtherWriters, ZenonT(30)
  <2>8. Room' /\ Pending'
    BY <1>1, <1>2, <1>8, <1>9, <1>10, <2>1, <2>7, RoomStep, ZenonT(30) DEF HeadOpen
  <2> QED  BY <1>1, <1>4, <2>1, <2>2, <2>4, <2>8, ZenonT(30)
<1> QED  BY <1>11, <1>12

(* flush_pending_span_head when the next extent lies elsewhere.              *)
LEMMA LinkSpanKeeps ==
  ASSUME IInv, LinkSpan
  PROVE  Flashed' /\ Filed' /\ Called' /\ Room' /\ Pending' /\ got' \in 0..N
<1> DEFINE f == file[me]
           st == IF f.span = f.head THEN "open" ELSE "live"
<1>1. /\ Flashed /\ Filed /\ Called /\ Room /\ Pending
      /\ pc = "link" /\ me \in Handles /\ Writing(me) /\ f.ext + 1 < MaxExtents
      /\ got \in Sectors /\ ~OpenForWriting(got) /\ got \in 0..N /\ N \in Nat
  BY FileStoreAssumption DEF IInv, LinkSpan, Called, Extending, Ranges
<1>2. Len(flash[got].recs) < MaxRecords
  BY <1>1 DEF Room, Extending
<1>3. /\ f \in WriterType /\ f.head \in Sectors /\ f.span \in Sectors /\ f.cur \in Sectors
      /\ f.span <= f.cur
  BY <1>1, WriterSectors, Zenon
<1>4. HasOpen(flash[f.span], f.slot)
  BY <1>1 DEF Pending, SpanOpen
<1>5. PendingSpan(f) \in 0..N /\ f.span + PendingSpan(f) <= N + 1
  BY <1>3, SpanFits, Zenon DEF PendingSpan
<1>6. st \in {"open", "live"} /\ 0 \in 0..MaxExtents
  BY Numbers, Zenon
<1> HIDE DEF st
<1>27. PICK sec : FinishedAs(sec, f.span, f, got, PendingSpan(f), st, 0)
  <2> HIDE DEF f
  <2> QED  BY <1>1, <1>3, <1>4, <1>5, <1>6, FinishKeeps, ZenonT(30)
<1>7. /\ Finish(f.span, f, got, PendingSpan(f), st, 0) = [flash EXCEPT ![f.span] = sec]
      /\ Sound(f.span, sec) /\ Len(sec.recs) = Len(flash[f.span].recs)
      /\ st = "open" => HasOpen(sec, f.slot)
  BY <1>27 DEF FinishedAs
<1> DEFINE new == [sec EXCEPT !.full = TRUE]
<1>8. flash' = [flash EXCEPT ![f.span] = new]
  <2>1. flash' = [Finish(f.span, f, got, PendingSpan(f), st, 0) EXCEPT ![f.span].full = TRUE]
    BY DEF LinkSpan, st
  <2>2. flash \in [Sectors -> SectorType]
    BY <1>1 DEF Flashed
  <2> QED  BY <1>3, <1>7, <2>1, <2>2, ZenonT(30)
<1>9. Sound(f.span, new) /\ new.recs = sec.recs
  <2>1. sec \in SectorType
    BY <1>7 DEF Sound
  <2>2. new \in SectorType /\ new.recs = sec.recs /\ new.foot = sec.foot
    BY <2>1, Zenon DEF SectorType
  <2> QED  BY <1>7, <2>2, Zenon DEF Sound
<1>10. st = "open" => HasOpen(new, f.slot)
  BY <1>7, <1>9 DEF HasOpen
<1> HIDE DEF new
<1>11. /\ Flashed' /\ flash'[f.span] = new
       /\ \A s \in Sectors : s # f.span => flash'[s] = flash[s]
  BY <1>1, <1>3, <1>8, <1>9, OneSector, Zenon
<1>12. \A h \in Handles : Writing(h) => got \notin Held(file[h])
  BY <1>1, HeldIsOpen, Zenon
<1>13. f.span \in Held(f) /\ f.head \in Held(f) /\ got # f.span /\ got # f.head
  BY <1>1, <1>3, <1>12 DEF Held, Sectors
<1>14. \A h \in Handles : h # me /\ Writing(h) => f.span \notin Held(file[h])
  BY <1>1, <1>13, HeldApart, Zenon
<1>15. HasOpen(flash'[f.head], f.slot)
  <2>1. CASE f.span = f.head
    BY <2>1, <1>10, <1>11, Zenon DEF st
  <2>2. CASE f.span # f.head
    <3>1. HasOpen(flash[f.head], f.slot)
      BY <2>2, <1>1 DEF Pending, HeadOpen
    <3> QED  BY <2>2, <3>1, <1>3, <1>11, ZenonT(30)
  <2> QED  BY <2>1, <2>2
<1>16. flash'[got] = flash[got]
  BY <1>1, <1>11, <1>13, Zenon
<1>26. PICK f2 \in WriterType : Relocated(f2, f, f.head, got, got, f.ext + 1)
  <2>1. f.head \in 0..N /\ f.ext + 1 \in 0..(MaxExtents-1)
    BY <1>1, <1>3, FileStoreAssumption DEF WriterType
  <2> QED  BY <1>1, <1>3, <2>1, WriterMoved, ZenonT(30)
<1>17. file' = [file EXCEPT ![me] = f2] /\ pc' = "idle" /\ me' = 0 /\ got' = 0
  <2>1. f2 = [f EXCEPT !.cur = got, !.span = got, !.ext = @ + 1]
    BY <1>1, <1>3, <1>26, Zenon DEF WriterType, Writing, Relocated
  <2> QED  BY <1>1, <2>1, Zenon DEF LinkSpan, Filed
<1>18. /\ f2 \in WriterType /\ f2.mode = "write" /\ f2.head = f.head /\ f2.span = got
       /\ f2.cur = got /\ f2.slot = f.slot
  BY <1>26, Zenon DEF Relocated
<1>19. Held(f2) \subseteq Held(f) \cup {got}
  BY <1>1, <1>3, <1>18 DEF Held, Sectors
<1>20. Filed'
  <2>1. \A h \in Handles : h # me /\ Writing(h) => Held(file[h]) \cap Held(f) = {}
    BY <1>1, Zenon DEF Filed
  <2>2. \A h \in Handles : h # me /\ Writing(h) => Held(file[h]) \cap Held(f2) = {}
    BY <1>12, <1>19, <2>1
  <2>3. f2.span <= f2.cur
    BY <1>1, <1>18 DEF Sectors
  <2> QED  BY <1>1, <1>3, <1>17, <1>18, <2>2, <2>3, FiledStep, Zenon
<1>21. file'[me] = f2 /\ \A h \in Handles : h # me => file'[h] = file[h]
  BY <1>1, <1>17, Zenon DEF Filed
<1>22. Called'
  <2>1. \A h \in Handles : file'[h].mode # "opening"
    BY <1>1, <1>18, <1>21, Zenon DEF Called, Allocating
  <2> QED  BY <1>17, <2>1 DEF Called, Places, Allocating, Extending, Closing
<1>23. ASSUME NEW h \in Handles, h # me, Writing(h)'
       PROVE  /\ Len(flash'[file'[h].cur].recs) < MaxRecords
              /\ SpanOpen(h)' => HasOpen(flash'[file'[h].span], file'[h].slot)
              /\ HeadOpen(h)' => HasOpen(flash'[file'[h].head], file'[h].slot)
  <2>1. Writing(h) /\ file'[h] = file[h] /\ f.span \notin Held(file[h])
    BY <1>14, <1>21, <1>23, Zenon DEF Writing
  <2> QED  BY <1>1, <1>3, <1>11, <1>17, <1>23, <2>1, OtherWriters, ZenonT(30)
<1>28. PICK w \in Handles : w = me
  BY <1>1
<1>24. ~SpanOpen(w)'
  BY <1>17, <1>18, <1>21, <1>28, FileStoreAssumption, ZenonT(30) DEF SpanOpen
<1>25. Room' /\ Pending'
  BY <1>1, <1>2, <1>15, <1>16, <1>17, <1>18, <1>21, <1>23, <1>24, <1>28, RoomStep DEF Extending
<1> QED  BY <1>11, <1>17, <1>20, <1>22, <1>25, Numbers, ZenonT(30)

(* The first step of fffs_close for a writer.                                *)
LEMMA CloseKeeps ==
  ASSUME IInv, NEW w \in Handles, Close(w)
  PROVE  Flashed' /\ Filed' /\ Called' /\ Room' /\ Pending'
<1> DEFINE f == file[w]
<1>1. /\ Flashed /\ Filed /\ Called /\ Room /\ Pending /\ index \in [Slots -> 0..N]
      /\ pc = "idle" /\ Writing(w) /\ N \in Nat /\ 0 \in 0..N
      /\ pc' = "commit" /\ me' = w /\ got' = got /\ me = 0 /\ me # w
  BY FileStoreAssumption DEF IInv, Close, Called, Writing, Ranges
<1>2. Len(flash[f.cur].recs) < MaxRecords
  BY <1>1, Zenon DEF Room
<1>3. /\ f \in WriterType /\ f.head \in Sectors /\ f.span \in Sectors /\ f.cur \in Sectors
      /\ f.span <= f.cur
  BY <1>1, WriterSectors, Zenon
<1>4. /\ Flashed'
      /\ \A s \in Sectors : s # f.cur => flash'[s] = flash[s]
      /\ f.cur = f.span => HasOpen(flash'[f.span], f.slot)
      /\ \A s \in Sectors : HasOpen(flash[s], f.slot) => HasOpen(flash'[s], f.slot)
  BY <1>1, <1>2, ExtentLeft, Zenon DEF Close
<1>5. PICK o \in 0..N, n \in 0..N : file' = [file EXCEPT ![w] = [f EXCEPT !.old = o, !.oldNext = n]]
  <2> DEFINE fresh == index[f.slot]
             next == IF fresh = 0 THEN 0 ELSE ReadMd(fresh, f.slot).next
  <2>1. f.old \in 0..N /\ f.oldNext \in 0..N /\ fresh \in 0..N
    BY <1>1, <1>3, Zenon DEF WriterType
  <2>2. CASE f.old = f.head /\ (fresh = 0 \/ RootReadable(f.slot))
    <3>1. next \in 0..N
      <4>1. CASE fresh = 0
        BY <4>1, <1>1, Zenon
      <4>2. CASE fresh # 0
        <5>1. HasLive(fresh, f.slot)
          BY <2>2, <4>2 DEF RootReadable
        <5>2. ReadMd(fresh, f.slot) \in RecordType
          BY <1>1, <5>1, LiveFound, Zenon
        <5> QED  BY <4>2, <5>2, Zenon DEF RecordType
      <4> QED  BY <4>1, <4>2
    <3>2. file' = [file EXCEPT ![w].old = fresh, ![w].oldNext = next]
      BY <2>2 DEF Close
    <3> HIDE DEF fresh, next
    <3>3. file' = [file EXCEPT ![w] = [f EXCEPT !.old = fresh, !.oldNext = next]]
      BY <1>1, <1>3, <3>2, Zenon DEF Filed
    <3> QED  BY <2>1, <3>1, <3>3, ZenonT(30)
  <2>3. CASE ~(f.old = f.head /\ (fresh = 0 \/ RootReadable(f.slot)))
    <3>1. file' = file
      BY <2>3 DEF Close
    <3>2. f = [f EXCEPT !.old = f.old, !.oldNext = f.oldNext]
      BY <1>3, Zenon DEF WriterType
    <3>3. file' = [file EXCEPT ![w] = [f EXCEPT !.old = f.old, !.oldNext = f.oldNext]]
      BY <1>1, <3>1, <3>2 DEF Filed
    <3> QED  BY <2>1, <3>3, ZenonT(30)
  <2> QED  BY <2>2, <2>3, Zenon
<1> DEFINE f2 == [f EXCEPT !.old = o, !.oldNext = n]
<1>6. /\ f2 \in WriterType /\ f2.mode = "write" /\ f2.head = f.head /\ f2.span = f.span
      /\ f2.cur = f.cur /\ f2.slot = f.slot /\ file' = [file EXCEPT ![w] = f2]
  BY <1>1, <1>3, <1>5, Zenon DEF WriterType, Writing
<1> HIDE DEF f2
<1>7. Held(f2) = Held(f)
  BY <1>6 DEF Held
<1>8. Filed'
  <2>1. \A h \in Handles : h # w /\ Writing(h) => Held(file[h]) \cap Held(f2) = {}
    BY <1>1, <1>7 DEF Filed
  <2> QED  BY <1>1, <1>3, <1>6, <2>1, FiledStep, ZenonT(30)
<1>9. file'[w] = f2 /\ \A h \in Handles : h # w => file'[h] = file[h]
  BY <1>1, <1>6, Zenon DEF Filed
<1>10. Called'
  <2>1. \A h \in Handles : file'[h].mode # "opening"
    BY <1>1, <1>6, <1>9 DEF Called, Allocating
  <2> QED  BY <1>1, <1>6, <1>9, <2>1, ZenonT(30) DEF Called, Places, Allocating, Extending, Closing, Writing
<1>11. f.cur \in Held(f)
  BY Zenon DEF Held
<1>12. ASSUME NEW h \in Handles, h # w, Writing(h)'
       PROVE  /\ Len(flash'[file'[h].cur].recs) < MaxRecords
              /\ SpanOpen(h)' => HasOpen(flash'[file'[h].span], file'[h].slot)
              /\ HeadOpen(h)' => HasOpen(flash'[file'[h].head], file'[h].slot)
  <2>1. Writing(h) /\ file'[h] = file[h]
    BY <1>9, <1>12, Zenon DEF Writing
  <2>2. f.cur \notin Held(file[h])
    BY <1>1, <1>11, <1>12, <2>1, HeldApart, Zenon
  <2> QED  BY <1>1, <1>3, <1>4, <1>12, <2>1, <2>2, OtherWriters, ZenonT(30)
<1>13. HasOpen(flash'[f.span], f.slot)
  <2>1. CASE f.cur = f.span
    BY <2>1, <1>4, Zenon
  <2>2. CASE f.cur # f.span
    <3>1. SpanOpen(w)
      BY <2>2, <1>1, Zenon DEF SpanOpen
    <3> QED  BY <1>1, <1>3, <1>4, <3>1, Zenon DEF Pending
  <2> QED  BY <2>1, <2>2, Zenon
<1>14. f.head # f.span => HasOpen(flash'[f.head], f.slot)
  BY <1>1, <1>3, <1>4, Zenon DEF Pending, HeadOpen
<1>15. Room' /\ Pending'
  BY <1>1, <1>6, <1>9, <1>12, <1>13, <1>14, RoomStep, Zenon DEF Extending, Closing, HeadOpen
<1> QED  BY <1>4, <1>8, <1>10, <1>15, ZenonT(30)

(* A step that makes the uncommitted record of a writer's sector live.       *)
LEMMA FinishedKeeps ==
  ASSUME IInv, pc \in {"commit", "root"}, NEW x, x \in {file[me].span, file[me].head},
         NEW next \in 0..N, NEW span \in 0..N, x + span <= N + 1,
         HasOpen(flash[x], file[me].slot),
         flash' = Finish(x, file[me], next, span, "live", file[me].ext + 1),
         file' = file, me' = me, got' = got, pc' \in {"root", "append"},
         pc' = "root" => file[me].head # x /\ pc = "commit"
  PROVE  Flashed' /\ Filed' /\ Called' /\ Room' /\ Pending'
<1> DEFINE f == file[me]
<1>1. /\ Flashed /\ Filed /\ Called /\ Room /\ Pending /\ me \in Handles /\ Writing(me)
  BY Zenon DEF IInv, Called, Closing
<1>2. /\ f \in WriterType /\ f.head \in Sectors /\ f.span \in Sectors /\ f.cur \in Sectors
      /\ f.span <= f.cur
  BY <1>1, WriterSectors, ZenonT(30)
<1>3. x \in Sectors /\ x \in Held(f)
  BY <1>2 DEF Held, Sectors
<1>4. f.ext + 1 \in 0..MaxExtents
  <2>1. f.ext \in 0..(MaxExtents - 1)
    BY <1>2, Zenon DEF WriterType
  <2>2. MaxExtents \in Nat /\ f.ext \in Nat
    BY <2>1, Numbers
  <2> QED  BY <2>1, <2>2, OneMore, Zenon
<1>13. PICK sec : FinishedAs(sec, x, f, next, span, "live", f.ext + 1)
  <2>1. HasOpen(flash[x], f.slot) /\ "live" \in {"open", "live"}
    BY Zenon
  <2> HIDE DEF f
  <2> QED  BY <1>1, <1>3, <1>4, <2>1, FinishKeeps, Zenon
<1>5. flash' = [flash EXCEPT ![x] = sec] /\ Sound(x, sec)
  BY <1>13, Zenon DEF FinishedAs
<1>6. Flashed' /\ \A s \in Sectors : s # x => flash'[s] = flash[s]
  BY <1>1, <1>3, <1>5, OneSector, Zenon
<1>7. Filed'
  BY <1>1, Zenon DEF Filed, Writing
<1>8. Called'
  <2>1. pc' = "root" => f.span # f.head
    BY Zenon
  <2> QED  BY <1>1, <2>1, Zenon DEF Called, Places, Allocating, Extending, Closing, Writing
<1>9. ASSUME NEW h \in Handles, h # me, Writing(h)'
      PROVE  /\ Len(flash'[file'[h].cur].recs) < MaxRecords
             /\ SpanOpen(h)' => HasOpen(flash'[file'[h].span], file'[h].slot)
             /\ HeadOpen(h)' => HasOpen(flash'[file'[h].head], file'[h].slot)
  <2>1. Writing(h) /\ file'[h] = file[h]
    BY <1>9, Zenon DEF Writing
  <2>2. x \notin Held(file[h])
    BY <1>1, <1>3, <1>9, <2>1, HeldApart, Zenon
  <2> QED  BY <1>1, <1>3, <1>6, <1>9, <2>1, <2>2, OtherWriters, Zenon
<1>10. ~SpanOpen(me)'
  BY Zenon DEF SpanOpen
<1>11. HeadOpen(me)' => HasOpen(flash'[file'[me].head], file'[me].slot)
  <2>1. SUFFICES ASSUME HeadOpen(me)'
                 PROVE  HasOpen(flash'[f.head], f.slot)
    BY Zenon
  <2>2. pc' = "root" /\ f.head # f.span /\ f.head # x /\ pc = "commit"
    BY <2>1, Zenon DEF HeadOpen
  <2>3. HasOpen(flash[f.head], f.slot)
    BY <1>1, <2>2, Zenon DEF Pending, HeadOpen
  <2> QED  BY <1>2, <1>6, <2>2, <2>3, Zenon
<1>12. Room' /\ Pending'
  BY <1>1, <1>9, <1>10, <1>11, RoomStep, Zenon DEF Extending, Closing
<1> QED  BY <1>6, <1>7, <1>8, <1>12, Zenon

(* flush_pending_span_head in fffs_close.                                    *)
LEMMA CommitSpanKeeps ==
  ASSUME IInv, CommitSpan
  PROVE  Flashed' /\ Filed' /\ Called' /\ Room' /\ Pending'
<1> DEFINE f == file[me]
<1>1. /\ Filed /\ Called /\ Pending /\ me \in Handles /\ Writing(me) /\ N \in Nat /\ 0 \in 0..N
      /\ pc = "commit"
  BY FileStoreAssumption DEF IInv, Called, Closing, CommitSpan
<1>2. f.span \in Sectors /\ f.cur \in Sectors /\ f.span <= f.cur
  BY <1>1, WriterSectors, Zenon
<1>3. HasOpen(flash[f.span], f.slot)
  BY <1>1, Zenon DEF Pending, SpanOpen
<1>4. PendingSpan(f) \in 0..N /\ f.span + PendingSpan(f) <= N + 1
  BY <1>2, SpanFits, ZenonT(30) DEF PendingSpan
<1>5. /\ flash' = Finish(f.span, f, 0, PendingSpan(f), "live", f.ext + 1)
      /\ pc' = IF f.span = f.head THEN "append" ELSE "root"
      /\ file' = file /\ me' = me /\ got' = got
  BY DEF CommitSpan
<1>6. pc' \in {"root", "append"} /\ (pc' = "root" => f.head # f.span)
  BY <1>5
<1> HIDE DEF f
<1>7. f.span \in {f.span, f.head}
  BY Zenon
<1> QED  BY <1>1, <1>3, <1>4, <1>5, <1>6, <1>7, FinishedKeeps, ZenonT(30) DEF f

(* fffs_finish_deferred_root_metadata in fffs_close.                         *)
LEMMA CommitRootKeeps ==
  ASSUME IInv, CommitRoot
  PROVE  Flashed' /\ Filed' /\ Called' /\ Room' /\ Pending'
<1> DEFINE f == file[me]
           r == flash[f.head].recs[First(Positions(f.head, f.slot, "open"))]
<1>1. /\ Flashed /\ Filed /\ Called /\ me \in Handles /\ Writing(me) /\ pc = "root"
  BY Zenon DEF IInv, Called, Closing, CommitRoot
<1>2. f.head \in Sectors
  BY <1>1, WriterSectors, Zenon
<1>3. /\ Positions(f.head, f.slot, "open") # {}
      /\ flash' = Finish(f.head, f, r.next, r.span, "live", f.ext + 1)
      /\ file' = file /\ me' = me /\ got' = got /\ pc' = "append"
  BY Zenon DEF CommitRoot
<1>4. r \in RecordType /\ f.head + r.span <= N + 1
  BY <1>1, <1>2, <1>3, Found, Zenon
<1>5. r.next \in 0..N /\ r.span \in 0..N
  BY <1>4, Zenon DEF RecordType
<1>6. HasOpen(flash[f.head], f.slot)
  BY <1>3, OpenFound, Zenon
<1> HIDE DEF r
<1> QED  BY <1>1, <1>3, <1>4, <1>5, <1>6, FinishedKeeps, Zenon

-----------------------------------------------------------------------------
(* The other steps.                                                          *)

(* A step that programs and erases nothing.                                  *)
LEMMA QuietFrame ==
  ASSUME IInv, flash' = flash, WritersKept, pc' \notin Extending,
         \A h \in Handles : Writing(h)' => SameDuty(h)
  PROVE  Flashed' /\ Room' /\ Pending'
<1>1. Flashed'
  BY DEF IInv, Flashed
<1>2. \A s \in Sectors : Kept(flash[s], flash'[s])
  BY DEF Kept
<1> QED  BY <1>1, <1>2, Frame DEF IInv

(* The steps of a compaction and collection within an allocation.           *)
LEMMA CompactingFrame ==
  ASSUME Compacting, WritersKept, comp' \in CompType, pc' \in Allocating,
         \A s \in comp'.cands : s \in comp.cands \/ ~OpenForWriting(s),
         pc' \in {"compact", "publish", "retract"} => comp'.src \in comp'.cands
  PROVE  Compacting'
<1>1. \A s \in comp'.cands : ~OpenForWriting(s)'
  BY NoNewOpen, Zenon DEF Compacting
<1> QED  BY <1>1, Zenon DEF Compacting

(* A slot that fffs_index_resolve finds for a name, and its root.            *)
LEMMA MatchFound ==
  ASSUME Flashed, NEW n \in Names, Matches(n) # {}
  PROVE  LET slot == FirstProbed(n, Matches(n)) IN
         /\ slot \in Slots /\ HasLive(index[slot], slot) /\ index[slot] \in Sectors
         /\ ReadMd(index[slot], slot) \in RecordType
         /\ NextSector(index[slot], slot) \in 0..N
<1>1. Matches(n) \in SUBSET Slots
  BY DEF Matches
<1>2. FirstProbed(n, Matches(n)) \in Matches(n)
  BY <1>1, FirstProbedIn, Zenon
<1> DEFINE slot == FirstProbed(n, Matches(n))
<1>3. slot \in Slots /\ HasLive(index[slot], slot)
  BY <1>2 DEF Matches, RootReadable
<1> HIDE DEF slot
<1>4. /\ index[slot] \in Sectors /\ ReadMd(index[slot], slot) \in RecordType
      /\ NextSector(index[slot], slot) \in 0..N
  BY <1>3, LiveFound, Zenon
<1> QED  BY <1>3, <1>4 DEF slot

(* A handle that is not writing before nor after leaves the writers alone.   *)
LEMMA OtherHandle ==
  ASSUME Filed, NEW h \in Handles, NEW x \in WriterType \cup ReaderType \cup {Closed},
         x.mode # "write", file' = [file EXCEPT ![h] = x]
  PROVE  WritersKept /\ Filed' /\ file'[h] = x /\ \A g \in Handles : g # h => file'[g] = file[g]
<1>1. file'[h] = x /\ \A g \in Handles : g # h => file'[g] = file[g]
  BY DEF Filed
<1>2. file' \in [Handles -> WriterType \cup ReaderType \cup {Closed}]
  BY DEF Filed
<1>3. WritersKept
  BY <1>1 DEF WritersKept, Writing
<1> QED  BY <1>1, <1>2, <1>3, FiledFrame, Zenon

(* A step that leaves the handles and goes on with the same part of a call.  *)
LEMMA Steady ==
  ASSUME IInv, file' = file, me' = me, pc \notin Extending,
         pc' = pc \/ (pc \in Allocating /\ pc' \in Allocating)
  PROVE  /\ WritersKept /\ Filed' /\ Called' /\ pc' \notin Extending
         /\ \A h \in Handles : SameDuty(h)
<1>1. Filed /\ Called
  BY DEF IInv
<1>2. WritersKept
  BY DEF WritersKept, Writing
<1>3. file' \in [Handles -> WriterType \cup ReaderType \cup {Closed}]
  BY <1>1 DEF Filed
<1>4. Filed'
  BY <1>1, <1>2, <1>3, FiledFrame, ZenonT(30)
<1>5. pc' \notin Extending /\ pc' \in Places
  BY <1>1 DEF Called, Allocating, Extending, Places
<1>6. \A h \in Handles : SameDuty(h)
  BY DEF SameDuty, Busy, Allocating
<1>7. \A h \in Handles : Writing(h)' <=> Writing(h)
  BY DEF Writing
<1>8. Called'
  <2>1. CASE pc' = pc
    BY <1>1, <1>5, <1>7, <2>1, Zenon DEF Called, Writing
  <2>2. CASE pc \in Allocating /\ pc' \in Allocating
    <3>1. pc' # "idle" /\ pc' # "root" /\ pc' \notin Closing /\ pc' # "invalidate"
      BY <2>2 DEF Allocating, Closing
    <3> QED  BY <1>1, <1>5, <1>7, <2>2, <3>1, ZenonT(30) DEF Called, Writing
  <2> QED  BY <2>1, <2>2, Zenon
<1> QED  BY <1>2, <1>4, <1>5, <1>6, <1>8

(* Such a step that programs and erases nothing.                             *)
LEMMA SteadyQuiet ==
  ASSUME IInv, file' = file, me' = me, pc \notin Extending,
         pc' = pc \/ (pc \in Allocating /\ pc' \in Allocating), flash' = flash
  PROVE  WritersKept /\ Flashed' /\ Filed' /\ Called' /\ Room' /\ Pending'
BY Steady, QuietFrame, Zenon

(* Such a step that programs or erases one sector.                           *)
LEMMA SteadyFlash ==
  ASSUME IInv, file' = file, me' = me, pc \notin Extending,
         pc' = pc \/ (pc \in Allocating /\ pc' \in Allocating),
         NEW x \in Sectors, NEW sec, Sound(x, sec), flash' = [flash EXCEPT ![x] = sec],
         OpenForWriting(x) => Kept(flash[x], sec)
  PROVE  WritersKept /\ Flashed' /\ Filed' /\ Called' /\ Room' /\ Pending'
<1>1. /\ WritersKept /\ Filed' /\ Called' /\ pc' \notin Extending
      /\ \A h \in Handles : SameDuty(h)
  BY Steady, Zenon
<1>2. Flashed /\ Filed /\ Room /\ Pending
  BY DEF IInv
<1>3. Flashed' /\ flash'[x] = sec /\ \A s \in Sectors : s # x => flash'[s] = flash[s]
  BY <1>2, OneSector, Zenon
<1>4. ASSUME NEW s \in Sectors, OpenForWriting(s)
      PROVE  Kept(flash[s], flash'[s])
  <2>1. CASE s = x
    BY <2>1, <1>3, <1>4, ZenonT(30)
  <2>2. CASE s # x
    <3>1. flash'[s] = flash[s]
      BY <2>2, <1>3
    <3> QED  BY <3>1 DEF Kept
  <2> QED  BY <2>1, <2>2
<1>5. Room' /\ Pending'
  BY <1>1, <1>2, <1>3, <1>4, Frame, ZenonT(30)
<1> QED  BY <1>1, <1>3, <1>5

(* A sector that the checks of fffs_alloc accept has room for a record.      *)
LEMMA WindowRoom ==
  ASSUME Flashed, NEW s \in Sectors, NEW slot, NEW c, NEW relaxed,
         FreeWindow(s, slot, c, relaxed)
  PROVE  Len(flash[s].recs) < MaxRecords
<1>1. CASE flash[s].foot = "erased"
  <2>1. flash[s].recs = <<>>
    BY <1>1, Zenon DEF Flashed, Sound
  <2> QED  BY <2>1, FileStoreAssumption
<1>2. CASE flash[s].foot # "erased"
  BY <1>2, Zenon DEF FreeWindow
<1> QED  BY <1>1, <1>2

(* fffs_open for writing, up to its allocation.                              *)
LEMMA OpenWriteKeeps ==
  ASSUME IInv, NEW h \in Handles, NEW n \in Names, OpenWrite(h, n)
  PROVE  IInv'
<1>1. /\ Flashed /\ Filed /\ Called /\ Compacting /\ Ranges /\ pc = "idle" /\ me = 0
      /\ pc' = "alloc" /\ me' = h /\ index \in [Slots -> 0..N] /\ N \in Nat /\ 0 \in 0..N
      /\ UNCHANGED <<flash, index, gc, got, left, comp, losses>>
  <2>1. /\ Flashed /\ Filed /\ Called /\ Compacting /\ Ranges
        /\ index \in [Slots -> 0..N]
    BY Zenon DEF IInv, Ranges
  <2>2. /\ pc = "idle" /\ pc' = "alloc" /\ me' = h
        /\ UNCHANGED <<flash, index, gc, got, left, comp, losses>>
    BY Zenon DEF OpenWrite
  <2>3. me = 0
    BY <2>1, <2>2, Zenon DEF Called
  <2> QED  BY <2>1, <2>2, <2>3, Numbers, Zenon
<1>2. PICK slot \in IF Matches(n) # {} THEN {FirstProbed(n, Matches(n))}
                    ELSE IF FreeSlots # {} THEN {FirstProbed(n, FreeSlots)} ELSE {} :
        /\ Versions \ VersionsOf(slot) # {}
        /\ file' = [file EXCEPT ![h] =
             [mode |-> "opening", slot |-> slot, name |-> n,
              ver |-> First(Versions \ VersionsOf(slot)),
              ext |-> 0, head |-> 0, cur |-> 0, span |-> 0, old |-> index[slot],
              oldNext |-> IF index[slot] = 0 THEN 0 ELSE ReadMd(index[slot], slot).next]]
  BY Zenon DEF OpenWrite
<1> DEFINE v == First(Versions \ VersionsOf(slot))
           o == IF index[slot] = 0 THEN 0 ELSE ReadMd(index[slot], slot).next
           x == [mode |-> "opening", slot |-> slot, name |-> n, ver |-> v, ext |-> 0,
                 head |-> 0, cur |-> 0, span |-> 0, old |-> index[slot], oldNext |-> o]
<1>3. slot \in Slots /\ o \in 0..N
  <2>1. CASE Matches(n) # {}
    <3>1. slot = FirstProbed(n, Matches(n))
      BY <1>2, <2>1
    <3>2. slot \in Slots /\ ReadMd(index[slot], slot) \in RecordType
      BY <1>1, <2>1, <3>1, MatchFound, Zenon
    <3> QED  BY <1>1, <3>2, Zenon DEF RecordType
  <2>2. CASE Matches(n) = {}
    <3>1. FreeSlots # {} /\ slot = FirstProbed(n, FreeSlots)
      BY <1>2, <2>2
    <3>2. FreeSlots \in SUBSET Slots
      BY DEF FreeSlots
    <3>3. slot \in FreeSlots
      BY <3>1, <3>2, FirstProbedIn, Zenon
    <3>4. slot \in Slots /\ index[slot] = 0
      BY <3>3, Zenon DEF FreeSlots
    <3> QED  BY <1>1, <3>4, ZenonT(30)
  <2> QED  BY <2>1, <2>2
<1>4. v \in Versions
  <2>1. (Versions \ VersionsOf(slot)) \in SUBSET Nat
    BY FileStoreAssumption, Zenon
  <2> QED  BY <1>2, <2>1, FirstIn, Zenon
<1>5. file' = [file EXCEPT ![h] = x]
  BY <1>2, Zenon
<1> HIDE DEF v, o
<1>6. x \in WriterType /\ x.mode = "opening"
  BY <1>1, <1>3, <1>4, FileStoreAssumption DEF WriterType
<1> HIDE DEF x
<1>7. WritersKept /\ Filed' /\ file'[h] = x /\ \A g \in Handles : g # h => file'[g] = file[g]
  BY <1>1, <1>5, <1>6, OtherHandle, ZenonT(30)
<1>8. Called'
  <2>1. \A g \in Handles : file'[g].mode = "opening" => g = h
    BY <1>1, <1>7, Zenon DEF Called, Allocating
  <2> QED  BY <1>1, <1>6, <1>7, <2>1 DEF Called, Places, Allocating, Extending, Closing
<1>9. \A g \in Handles : SameDuty(g)
  BY <1>1, ZenonT(30) DEF SameDuty, Busy, Allocating
<1>10. Flashed' /\ Room' /\ Pending'
  BY <1>1, <1>7, <1>9, QuietFrame DEF Extending
<1>11. Compacting'
  BY <1>1, NoCompacting, Zenon DEF Compacting, Allocating
<1>12. Ranges'
  BY <1>1 DEF Ranges
<1> QED  BY <1>7, <1>8, <1>10, <1>11, <1>12, Zenon DEF IInv

(* fffs_write that runs out of its extent.                                   *)
LEMMA WriteOverflowKeeps ==
  ASSUME IInv, NEW h \in Handles, WriteOverflow(h)
  PROVE  IInv'
<1>1. /\ Filed /\ Called /\ Compacting /\ Ranges /\ pc = "idle" /\ me = 0
      /\ Writing(h) /\ file[h].ext + 1 < MaxExtents
      /\ pc' = "alloc" /\ me' = h /\ file' = file
      /\ UNCHANGED <<flash, index, gc, got, left, comp, losses>>
  BY Zenon DEF IInv, WriteOverflow, Called, Writing
<1>2. WritersKept
  BY <1>1, Zenon DEF WritersKept, Writing
<1>3. Filed'
  BY <1>1, <1>2, FiledFrame, ZenonT(30) DEF Filed
<1>4. Called'
  BY <1>1 DEF Called, Places, Allocating, Extending, Closing, Writing
<1>5. \A g \in Handles : SameDuty(g)
  BY <1>1, Zenon DEF SameDuty, Busy, Allocating
<1>6. Flashed' /\ Room' /\ Pending'
  BY <1>1, <1>2, <1>5, QuietFrame, Zenon DEF Extending
<1>7. Compacting'
  BY <1>1, NoCompacting, Zenon DEF Compacting, Allocating
<1>8. Ranges'
  BY <1>1 DEF Ranges
<1> QED  BY <1>3, <1>4, <1>6, <1>7, <1>8, Zenon DEF IInv

(* No sector is being walked.                                                *)
LEMMA NoGcTyped == NoGc \in [at : 0..N, pos : 0..MaxRecords, live : BOOLEAN]
<1>1. 0 \in 0..N /\ 0 \in 0..MaxRecords
  BY Numbers, Zenon
<1> QED  BY <1>1, Zenon DEF NoGc

(* A step that takes a sector, whatever else it leaves.                      *)
LEMMA TakenKeeps ==
  ASSUME IInv, NEW s \in Sectors, pc \in Allocating, ~OpenForWriting(s), Take(s),
         Flashed', Len(flash'[s].recs) < MaxRecords,
         \A t \in Sectors : t # s => flash'[t] = flash[t],
         index' = index, gc' \in {gc, NoGc}, losses' = losses
  PROVE  IInv'
<1>1. /\ Filed' /\ Called' /\ Room' /\ Pending' /\ Compacting'
      /\ got' \in 0..N /\ left' \in 0..(N+1)
  BY TakeKeeps, Zenon
<1>2. Ranges'
  <2>1. gc' \in [at : 0..N, pos : 0..MaxRecords, live : BOOLEAN]
    BY NoGcTyped, Zenon DEF IInv, Ranges
  <2>2. index' \in [Slots -> 0..N] /\ losses' \in 0..PowerLosses
    BY Zenon DEF IInv, Ranges
  <2> QED  BY <1>1, <2>1, <2>2, Zenon DEF Ranges
<1> QED  BY <1>1, <1>2 DEF IInv

(* fffs_alloc_next_sector finds a sector, and gives up the reserve for one.  *)
LEMMA AllocateKeeps ==
  ASSUME IInv, NEW s \in Sectors, Allocate(s) \/ GiveUpReserve(s)
  PROVE  IInv'
<1>1. /\ pc \in Allocating /\ CanAllocate(s, file[me]) /\ Take(s)
      /\ UNCHANGED <<flash, index, gc, losses>>
  BY Zenon DEF Allocate, GiveUpReserve, Allocating
<1>2. ~OpenForWriting(s) /\ FreeWindow(s, file[me].slot, file[me].cur # 0, FALSE)
  BY <1>1, Zenon DEF CanAllocate
<1>3. Flashed /\ Flashed'
  BY <1>1, Zenon DEF IInv, Flashed
<1>4. Len(flash[s].recs) < MaxRecords
  BY <1>2, <1>3, WindowRoom, Zenon
<1>5. Len(flash'[s].recs) < MaxRecords /\ \A t \in Sectors : t # s => flash'[t] = flash[t]
  BY <1>1, <1>4
<1> QED  BY <1>1, <1>2, <1>3, <1>5, TakenKeeps, Zenon

(* The search of fffs_alloc_next_sector comes up empty.                      *)
LEMMA ReclaimKeeps ==
  ASSUME IInv, Reclaim
  PROVE  IInv'
<1>1. /\ pc = "alloc" /\ pc' = "reclaim" /\ left' = 1 /\ gc' \in {gc, NoGc}
      /\ UNCHANGED <<flash, index, file, me, got, comp, losses>>
      /\ Compacting /\ Ranges
  BY DEF Reclaim, IInv
<1>2. pc \notin Extending /\ pc \in Allocating /\ pc' \in Allocating
  BY <1>1 DEF Extending, Allocating
<1>3. WritersKept /\ Flashed' /\ Filed' /\ Called' /\ Room' /\ Pending'
  BY <1>1, <1>2, SteadyQuiet, Zenon
<1>4. Compacting'
  BY <1>1, <1>2, <1>3, CompactingFrame, Zenon DEF Compacting
<1>5. Ranges'
  <2>1. gc' \in [at : 0..N, pos : 0..MaxRecords, live : BOOLEAN]
    BY <1>1, NoGcTyped DEF Ranges
  <2>2. left' \in 0..(N+1)
    BY <1>1, FileStoreAssumption
  <2> QED  BY <1>1, <2>1, <2>2, Zenon DEF Ranges
<1> QED  BY <1>3, <1>4, <1>5 DEF IInv

(* A call that ends closes at most a handle that is opening or its own.      *)
LEMMA ReturnKeeps ==
  ASSUME IInv, flash' = flash, pc \notin Extending, pc' = "idle", me' = 0,
         \/ file' = file /\ \A h \in Handles : ~Busy(h) /\ file[h].mode # "opening"
         \/ me \in Handles /\ file' = [file EXCEPT ![me] = Closed],
         comp' = NoComp, gc' \in [at : 0..N, pos : 0..MaxRecords, live : BOOLEAN],
         UNCHANGED <<index, got, losses>>, left' \in 0..(N+1)
  PROVE  IInv'
<1>1. Filed /\ Called /\ Ranges
  BY DEF IInv
<1>2. /\ WritersKept /\ Filed'
      /\ \A h \in Handles : file'[h].mode # "opening"
      /\ \A h \in Handles : Writing(h)' => SameDuty(h)
  <2>0. \A h \in Handles : ~Busy(h)'
    BY DEF Busy
  <2>1. CASE file' = file /\ \A h \in Handles : ~Busy(h) /\ file[h].mode # "opening"
    <3>1. WritersKept
      BY <2>1, Zenon DEF WritersKept, Writing
    <3>2. Filed'
      BY <1>1, <2>1, <3>1, FiledFrame, Zenon DEF Filed
    <3> QED  BY <2>0, <2>1, <3>1, <3>2, Zenon DEF SameDuty
  <2>2. CASE me \in Handles /\ file' = [file EXCEPT ![me] = Closed]
    <3>1. Closed.mode = "closed" /\ Closed \in WriterType \cup ReaderType \cup {Closed}
      BY DEF Closed
    <3>2. /\ WritersKept /\ Filed' /\ file'[me] = Closed
          /\ \A g \in Handles : g # me => file'[g] = file[g]
      BY <1>1, <2>2, <3>1, OtherHandle, ZenonT(30)
    <3>3. \A h \in Handles : file'[h].mode # "opening"
      BY <1>1, <3>1, <3>2 DEF Called
    <3>4. \A h \in Handles : Writing(h)' => SameDuty(h)
      BY <2>0, <3>1, <3>2, ZenonT(30) DEF SameDuty, Busy, Writing
    <3> QED  BY <3>2, <3>3, <3>4, Zenon
  <2> QED  BY <2>1, <2>2, Zenon
<1>3. Called'
  BY <1>2 DEF Called, Places, Allocating, Extending, Closing
<1>4. Flashed' /\ Room' /\ Pending'
  BY <1>2, QuietFrame DEF Extending
<1>5. Compacting'
  BY NoCompacting, Zenon
<1>6. Ranges'
  BY <1>1 DEF Ranges
<1> QED  BY <1>2, <1>3, <1>4, <1>5, <1>6, ZenonT(30) DEF IInv

(* An allocation fails: the call returns, and closes a handle it was opening. *)
LEMMA AllocationFailsKeeps ==
  ASSUME IInv, pc = "reclaim", AllocationFails, flash' = flash,
         gc' \in [at : 0..N, pos : 0..MaxRecords, live : BOOLEAN],
         UNCHANGED <<index, got, losses>>
  PROVE  IInv'
<1>1. /\ Called /\ pc' = "idle" /\ me' = 0 /\ left' = 0 /\ comp' = NoComp
      /\ file' = IF file[me].mode = "opening" THEN [file EXCEPT ![me] = Closed] ELSE file
  BY Zenon DEF AllocationFails, IInv
<1>2. pc \notin Extending /\ pc \in Allocating /\ me \in Handles
  BY <1>1, Zenon DEF Extending, Allocating, Called
<1>3. left' \in 0..(N+1)
  BY <1>1, FileStoreAssumption
<1>4. CASE file[me].mode = "opening"
  BY <1>1, <1>2, <1>3, <1>4, ReturnKeeps, Zenon
<1>5. CASE file[me].mode # "opening"
  <2>1. \A h \in Handles : ~Busy(h) /\ file[h].mode # "opening"
    BY <1>1, <1>2, <1>5, Zenon DEF Busy, Called
  <2>2. file' = file
    BY <1>1, <1>5
  <2> QED  BY <1>1, <1>2, <1>3, <2>1, <2>2, ReturnKeeps, Zenon
<1> QED  BY <1>4, <1>5, Zenon

(* FFFS_ERR_NO_SPACE.                                                        *)
LEMMA NoSpaceKeeps ==
  ASSUME IInv, NoSpace
  PROVE  IInv'
<1>1. /\ pc = "reclaim" /\ AllocationFails /\ Ranges
      /\ UNCHANGED <<flash, index, gc, got, losses>>
  BY Zenon DEF NoSpace, IInv
<1>2. gc' \in [at : 0..N, pos : 0..MaxRecords, live : BOOLEAN]
  BY <1>1, Zenon DEF Ranges
<1> QED  BY <1>1, <1>2, AllocationFailsKeeps, Zenon

(* fffs_invalidate_old_chain comes to the end of the chain.                  *)
LEMMA InvalidateEndKeeps ==
  ASSUME IInv, InvalidateEnd
  PROVE  IInv'
<1>1. /\ pc = "invalidate" /\ Called /\ Ranges /\ Compacting /\ pc' = "idle" /\ me' = 0
      /\ UNCHANGED <<flash, index, gc, got, left, comp, losses>>
      /\ file' = IF me = 0 THEN file ELSE [file EXCEPT ![me] = Closed]
  BY Zenon DEF InvalidateEnd, IInv
<1>2. /\ pc \notin Extending /\ comp' = NoComp /\ left' \in 0..(N+1) /\ me \in Handles \cup {0}
      /\ gc' \in [at : 0..N, pos : 0..MaxRecords, live : BOOLEAN]
  BY <1>1 DEF Extending, Allocating, Compacting, Ranges, Called
<1>3. CASE me # 0
  BY <1>1, <1>2, <1>3, ReturnKeeps, Zenon
<1>4. CASE me = 0
  <2>1. \A h \in Handles : ~Busy(h) /\ file[h].mode # "opening"
    BY <1>1, <1>4, FileStoreAssumption, Zenon DEF Busy, Called
  <2> QED  BY <1>1, <1>2, <1>4, <2>1, ReturnKeeps, Zenon
<1> QED  BY <1>3, <1>4, Zenon

(* The index append of fffs_close.                                           *)
LEMMA AppendIndexKeeps ==
  ASSUME IInv, AppendIndex
  PROVE  IInv'
<1> DEFINE f == file[me]
<1>1. /\ Flashed /\ Filed /\ Called /\ Room /\ Pending /\ Compacting /\ Ranges
      /\ pc = "append" /\ pc' = "invalidate" /\ me \in Handles /\ Writing(me)
      /\ UNCHANGED <<file, gc, me, got, left, comp, losses>>
      /\ index' = [index EXCEPT ![f.slot] = f.head]
      /\ flash' = [flash EXCEPT ![f.head].full = @ \/ f.ext > 0]
  BY DEF AppendIndex, IInv, Called, Closing
<1>2. f.head \in Sectors /\ f.head \in 0..N
  BY <1>1, WriterSectors, FileStoreAssumption DEF Sectors
<1>3. PICK b \in BOOLEAN : flash' = [flash EXCEPT ![f.head] = [flash[f.head] EXCEPT !.full = b]]
  <2>1. flash \in [Sectors -> SectorType]
    BY <1>1 DEF Flashed
  <2> DEFINE b == flash[f.head].full \/ f.ext > 0
  <2>2. flash' = [flash EXCEPT ![f.head] = [flash[f.head] EXCEPT !.full = b]]
    BY <1>1, <1>2, <2>1, ZenonT(30)
  <2> QED  BY <2>2, Zenon
<1> DEFINE sec == [flash[f.head] EXCEPT !.full = b]
<1>4. Sound(f.head, sec) /\ sec.recs = flash[f.head].recs
  <2>1. flash[f.head] \in SectorType /\ Sound(f.head, flash[f.head])
    BY <1>1, <1>2 DEF Flashed
  <2>2. sec \in SectorType /\ sec.recs = flash[f.head].recs /\ sec.foot = flash[f.head].foot
    BY <2>1 DEF SectorType
  <2> QED  BY <2>1, <2>2 DEF Sound
<1>5. flash' = [flash EXCEPT ![f.head] = sec]
  BY <1>3, Zenon
<1> HIDE DEF sec
<1>6. /\ Flashed' /\ flash'[f.head] = sec
      /\ \A s \in Sectors : s # f.head => flash'[s] = flash[s]
  BY <1>1, <1>2, <1>4, <1>5, OneSector, ZenonT(30)
<1>7. \A s \in Sectors : flash'[s].recs = flash[s].recs
  BY <1>4, <1>6
<1>8. \A s \in Sectors : Kept(flash[s], flash'[s])
  BY <1>7 DEF Kept
<1>9. WritersKept
  BY <1>1 DEF WritersKept, Writing
<1>10. Filed'
  BY <1>1, <1>9, FiledFrame, Zenon DEF Filed
<1>11. Called'
  BY <1>1 DEF Called, Places, Allocating, Extending, Closing, Writing
<1>12. \A h \in Handles : SameDuty(h)
  BY <1>1, Zenon DEF SameDuty
<1>13. Room' /\ Pending'
  BY <1>1, <1>6, <1>8, <1>9, <1>12, Frame, ZenonT(30) DEF Extending
<1>14. Compacting'
  BY <1>1, NoCompacting DEF Compacting, Allocating
<1>15. Ranges'
  BY <1>1, <1>2, ZenonT(30) DEF Ranges
<1> QED  BY <1>6, <1>10, <1>11, <1>13, <1>14, <1>15, ZenonT(30) DEF IInv

(* fffs_delete_file up to its index append.                                  *)
LEMMA DeleteKeeps ==
  ASSUME IInv, NEW n \in Names, Delete(n)
  PROVE  IInv'
<1>1. /\ Filed /\ Called /\ Compacting /\ Ranges /\ pc = "idle" /\ me = 0
      /\ pc' = "invalidate" /\ UNCHANGED <<flash, file, gc, me, got, left, comp, losses>>
  BY DEF Delete, IInv, Called
<1>2. PICK slot : index' = [index EXCEPT ![slot] = 0]
  BY Zenon DEF Delete
<1>3. WritersKept
  BY <1>1, Zenon DEF WritersKept, Writing
<1>4. Filed'
  BY <1>1, <1>3, FiledFrame DEF Filed
<1>5. 0 \notin Handles
  BY FileStoreAssumption, Zenon
<1>6. Called'
  BY <1>1, <1>5, Zenon DEF Called, Places, Allocating, Extending, Closing
<1>7. \A h \in Handles : SameDuty(h)
  BY <1>1, <1>5 DEF SameDuty, Busy
<1>8. Flashed' /\ Room' /\ Pending'
  BY <1>1, <1>3, <1>7, QuietFrame, Zenon DEF Extending
<1>9. Compacting'
  BY <1>1, NoCompacting, Zenon DEF Compacting, Allocating
<1>10. Ranges'
  <2>1. 0 \in 0..N
    BY FileStoreAssumption
  <2>2. index' \in [Slots -> 0..N]
    BY <1>1, <1>2, <2>1, Zenon DEF Ranges
  <2> QED  BY <1>1, <2>2 DEF Ranges
<1> QED  BY <1>4, <1>6, <1>8, <1>9, <1>10, Zenon DEF IInv

(* A step that moves only the walk of fffs_invalidate_old_chain.             *)
LEMMA WalkKeeps ==
  ASSUME IInv, pc = "invalidate",
         UNCHANGED <<flash, index, file, gc, pc, me, got, left, comp, losses>>
  PROVE  IInv'
<1>1. pc \notin Extending /\ Compacting /\ Ranges
  BY DEF Extending, IInv
<1>2. Flashed' /\ Filed' /\ Called' /\ Room' /\ Pending'
  BY <1>1, SteadyQuiet
<1>3. Compacting'
  BY <1>1, NoCompacting, Zenon DEF Compacting, Allocating
<1>4. Ranges'
  BY <1>1 DEF Ranges
<1> QED  BY <1>2, <1>3, <1>4, Zenon DEF IInv

(* fffs_invalidate_old_chain tombstones a sector of the replaced chain.      *)
LEMMA InvalidateSectorKeeps ==
  ASSUME IInv, InvalidateSector
  PROVE  IInv'
<1> DEFINE x == walk.cur + walk.i
<1>1. /\ pc = "invalidate" /\ Flashed /\ Compacting /\ Ranges
      /\ flash' = [flash EXCEPT ![x] = WithTombstone(x, WalkSlot)]
      /\ UNCHANGED <<index, file, gc, pc, me, got, left, comp, losses>>
  BY DEF InvalidateSector, IInv
<1> HIDE DEF x
<1>2. CASE x \notin Sectors
  <2>1. flash' = flash
    BY <1>1, <1>2 DEF Flashed
  <2> QED  BY <1>1, <2>1, WalkKeeps, ZenonT(30)
<1>3. CASE x \in Sectors
  <2>1. pc \notin Extending
    BY <1>1 DEF Extending
  <2>2. Sound(x, WithTombstone(x, WalkSlot)) /\ Kept(flash[x], WithTombstone(x, WalkSlot))
    BY <1>1, <1>3, TombstoneKeeps, Zenon
  <2>3. Flashed' /\ Filed' /\ Called' /\ Room' /\ Pending'
    BY <1>1, <1>3, <2>1, <2>2, SteadyFlash, Zenon
  <2>4. Compacting'
    BY <1>1, NoCompacting, Zenon DEF Compacting, Allocating
  <2>5. Ranges'
    BY <1>1, Zenon DEF Ranges
  <2> QED  BY <2>3, <2>4, <2>5 DEF IInv
<1> QED  BY <1>2, <1>3

(* A reader's step between calls: it changes its own handle only.            *)
LEMMA ReaderKeeps ==
  ASSUME IInv, pc = "idle", NEW h \in Handles, NEW x \in ReaderType \cup {Closed},
         file' = [file EXCEPT ![h] = x],
         UNCHANGED <<flash, index, gc, pc, me, got, left, comp, losses>>
  PROVE  IInv'
<1>1. Filed /\ Called /\ Compacting /\ Ranges /\ me = 0
  BY Zenon DEF IInv, Called
<1>2. x \in WriterType \cup ReaderType \cup {Closed} /\ x.mode \in {"read", "closed"}
  BY DEF ReaderType, Closed
<1>3. WritersKept /\ Filed' /\ file'[h] = x /\ \A g \in Handles : g # h => file'[g] = file[g]
  BY <1>1, <1>2, OtherHandle, Zenon
<1>4. Called'
  <2>1. \A g \in Handles : file'[g].mode # "opening"
    BY <1>1, <1>2, <1>3, Zenon DEF Called, Allocating
  <2> QED  BY <1>1, <2>1, Zenon DEF Called, Places, Allocating, Extending, Closing
<1>5. \A g \in Handles : SameDuty(g)
  BY DEF SameDuty
<1>6. Flashed' /\ Room' /\ Pending'
  BY <1>3, <1>5, QuietFrame, Zenon DEF Extending
<1>7. Compacting'
  BY <1>1, NoCompacting, Zenon DEF Compacting, Allocating
<1>8. Ranges'
  BY <1>1 DEF Ranges
<1> QED  BY <1>3, <1>4, <1>6, <1>7, <1>8, Zenon DEF IInv

(* fffs_open for reading.                                                    *)
LEMMA OpenReadKeeps ==
  ASSUME IInv, NEW h \in Handles, NEW n \in Names, OpenRead(h, n)
  PROVE  IInv'
<1> DEFINE slot == FirstProbed(n, Matches(n))
           root == ReadMd(index[slot], slot)
           x == [mode |-> "read", slot |-> slot, name |-> n, ver |-> root.ver, ext |-> 0,
                 cur |-> index[slot], link |-> NextSector(index[slot], slot), size |-> root.size]
<1>1. /\ Flashed /\ pc = "idle" /\ Matches(n) # {} /\ file' = [file EXCEPT ![h] = x]
      /\ UNCHANGED <<flash, index, gc, pc, me, got, left, comp, losses>>
  BY DEF IInv, OpenRead
<1>2. /\ slot \in Slots /\ index[slot] \in Sectors /\ root \in RecordType
      /\ NextSector(index[slot], slot) \in 0..N
  BY <1>1, MatchFound, Zenon
<1> HIDE DEF slot, root
<1>3. x \in ReaderType
  <2>1. root.ver \in Versions \cup {0} /\ root.size \in 0..MaxExtents
    BY <1>2 DEF RecordType
  <2>2. 0 \in 0..MaxExtents /\ index[slot] \in 0..N
    BY <1>2, Numbers, Zenon
  <2> QED  BY <1>2, <2>1, <2>2, Zenon DEF ReaderType
<1> HIDE DEF x
<1> QED  BY <1>1, <1>3, ReaderKeeps, ZenonT(30)

(* fffs_read goes on to the next extent.                                     *)
LEMMA ReadKeeps ==
  ASSUME IInv, NEW h \in Handles, Read(h)
  PROVE  IInv'
<1> DEFINE s == file[h].link
           x == [file[h] EXCEPT !.cur = s, !.ext = @ + 1, !.link = NextSector(s, file[h].slot)]
<1>1. /\ Flashed /\ Filed /\ pc = "idle" /\ file[h].mode = "read"
      /\ file[h].ext + 1 < file[h].size /\ HasLive(s, file[h].slot)
      /\ UNCHANGED <<flash, index, gc, pc, me, got, left, comp, losses>>
  BY Zenon DEF Read, IInv
<1>2. file[h] \in ReaderType
  <2>1. file[h] \in WriterType \cup ReaderType \cup {Closed}
    BY <1>1, Zenon DEF Filed
  <2> QED  BY <1>1, <2>1, ReaderIs, Zenon
<1>3. s \in 0..N /\ NextSector(s, file[h].slot) \in 0..N
  BY <1>1, <1>2, LiveFound, ZenonT(30) DEF ReaderType
<1>4. file[h].ext + 1 \in 0..MaxExtents
  BY <1>1, <1>2, FileStoreAssumption DEF ReaderType
<1>5. file' = [file EXCEPT ![h] = x]
  BY <1>1, <1>2, Zenon DEF Read, Filed
<1>6. x \in ReaderType
  BY <1>2, <1>3, <1>4, Zenon DEF ReaderType
<1> HIDE DEF x
<1> QED  BY <1>1, <1>5, <1>6, ReaderKeeps, Zenon

(* fffs_close of a reader.                                                   *)
LEMMA CloseReadKeeps ==
  ASSUME IInv, NEW h \in Handles, CloseRead(h)
  PROVE  IInv'
<1>1. /\ pc = "idle" /\ file' = [file EXCEPT ![h] = Closed]
      /\ UNCHANGED <<flash, index, gc, pc, me, got, left, comp, losses>>
  BY DEF CloseRead
<1>2. Closed \in ReaderType \cup {Closed}
  OBVIOUS
<1> QED  BY <1>1, <1>2, ReaderKeeps, Zenon

-----------------------------------------------------------------------------
(* Collection.                                                               *)

(* Where the collector and the compaction run: no writer is in the middle of *)
(* a step, and outside an allocation there is no compaction.                 *)
LEMMA VisitPlace ==
  ASSUME IInv, NEW s, Visits(s)
  PROVE  pc \notin Extending /\ (pc = "idle" \/ pc = "reclaim") /\ (pc = "idle" => comp = NoComp)
<1>1. pc = "idle" \/ pc = "reclaim"
  BY DEF Visits
<1> QED  BY <1>1 DEF IInv, Compacting, Extending, Allocating

(* The candidates change while the call stays where it is.                   *)
LEMMA GcCompacting ==
  ASSUME IInv, pc = "idle" \/ pc = "reclaim", pc' = pc, WritersKept, NEW s \in Sectors,
         comp' = comp \/ (pc = "reclaim" /\ ~OpenForWriting(s)
                          /\ comp' = [comp EXCEPT !.cands = @ \cup {s}])
  PROVE  Compacting'
<1>1. Compacting
  BY DEF IInv
<1>2. CASE pc = "idle"
  BY <1>1, <1>2, NoCompacting DEF Compacting, Allocating
<1>3. CASE pc = "reclaim"
  <2>1. comp' \in CompType /\ \A t \in comp'.cands : t \in comp.cands \/ t = s
    BY <1>1, <1>3 DEF Compacting, CompType
  <2>2. \A t \in comp'.cands : t \in comp.cands \/ ~OpenForWriting(t)
    BY <1>1, <1>3, <2>1, Zenon DEF Compacting
  <2> QED  BY <1>1, <1>3, <2>1, <2>2, CompactingFrame, Zenon DEF Allocating
<1> QED  BY <1>2, <1>3

(* gc_step leaves a sector it may not collect, or one with live records.     *)
LEMMA GcLeaveKeeps ==
  ASSUME IInv, NEW s \in Sectors, GcSkip(s) \/ GcKeep(s)
  PROVE  IInv'
<1>1. /\ Visits(s) /\ gc' = NoGc /\ left' = (IF pc = "reclaim" THEN s + 1 ELSE left)
      /\ UNCHANGED <<flash, index, file, pc, me, got, losses>>
      /\ comp' = comp \/ (pc = "reclaim" /\ ~OpenForWriting(s)
                          /\ comp' = [comp EXCEPT !.cands = @ \cup {s}])
  BY Zenon DEF GcSkip, GcKeep, GcLeave, Walks
<1>2. pc \notin Extending /\ (pc = "idle" \/ pc = "reclaim")
  BY <1>1, VisitPlace
<1>3. WritersKept /\ Flashed' /\ Filed' /\ Called' /\ Room' /\ Pending'
  BY <1>1, <1>2, SteadyQuiet
<1>4. Compacting'
  BY <1>1, <1>2, <1>3, GcCompacting, Zenon
<1>5. Ranges'
  <2>1. gc' \in [at : 0..N, pos : 0..MaxRecords, live : BOOLEAN]
    BY <1>1, FileStoreAssumption DEF NoGc
  <2>2. left' \in 0..(N+1)
    BY <1>1, FileStoreAssumption DEF IInv, Ranges, Sectors
  <2> QED  BY <1>1, <2>1, <2>2 DEF Ranges, IInv
<1> QED  BY <1>3, <1>4, <1>5 DEF IInv

(* A step of the collector on a sector no writer has open.                   *)
LEMMA GcFlash ==
  ASSUME IInv, NEW s \in Sectors, Visits(s), ~OpenForWriting(s), NEW sec, Sound(s, sec),
         flash' = [flash EXCEPT ![s] = sec],
         gc' \in [at : 0..N, pos : 0..MaxRecords, live : BOOLEAN],
         UNCHANGED <<index, file, pc, me, got, left, comp, losses>>
  PROVE  IInv'
<1>1. pc \notin Extending /\ (pc = "idle" \/ pc = "reclaim")
  BY VisitPlace, Zenon
<1>2. WritersKept /\ Flashed' /\ Filed' /\ Called' /\ Room' /\ Pending'
  BY <1>1, SteadyFlash, Zenon
<1>3. Compacting'
  BY <1>1, <1>2, GcCompacting, ZenonT(30)
<1>4. Ranges'
  BY DEF Ranges, IInv
<1> QED  BY <1>2, <1>3, <1>4, Zenon DEF IInv

(* gc_step erases a sector; in an allocation the call takes it.              *)
LEMMA GcEraseKeeps ==
  ASSUME IInv, NEW s \in Sectors, GcErase(s)
  PROVE  IInv'
<1>1. /\ Visits(s) /\ ~OpenForWriting(s) /\ flash' = [flash EXCEPT ![s] = Blank] /\ gc' = NoGc
      /\ index' = index /\ losses' = losses /\ Flashed
      /\ pc = "reclaim" => Take(s)
      /\ pc # "reclaim" => UNCHANGED <<file, pc, me, got, left, comp>>
  BY DEF GcErase, IInv
<1>2. Sound(s, Blank) /\ Blank.recs = <<>>
  BY BlankSound, Zenon
<1>3. Flashed' /\ flash'[s] = Blank /\ \A t \in Sectors : t # s => flash'[t] = flash[t]
  BY <1>1, <1>2, OneSector, Zenon
<1>4. CASE pc = "reclaim"
  <2>1. Len(flash'[s].recs) < MaxRecords
    BY <1>2, <1>3, FileStoreAssumption
  <2>2. pc \in Allocating /\ gc' \in {gc, NoGc}
    BY <1>1, <1>4, Zenon DEF Allocating
  <2> QED  BY <1>1, <1>3, <1>4, <2>1, <2>2, TakenKeeps, ZenonT(30)
<1>5. CASE pc # "reclaim"
  <2>1. gc' \in [at : 0..N, pos : 0..MaxRecords, live : BOOLEAN]
    BY <1>1, FileStoreAssumption DEF NoGc
  <2> QED  BY <1>1, <1>2, <1>5, <2>1, GcFlash, ZenonT(30)
<1> QED  BY <1>4, <1>5, Zenon

(* gc_classify_record classifies the next record, and tombstones a lost one.  *)
LEMMA GcClassified ==
  ASSUME IInv, NEW s \in Sectors, Walks(s), ~WalkDone(s), NEW slot, NEW b \in BOOLEAN,
         gc' = [at |-> s, pos |-> gc.pos + 1, live |-> b],
         flash' = [flash EXCEPT ![s] = WithTombstone(s, slot)] \/ flash' = flash,
         UNCHANGED <<index, file, pc, me, got, left, comp, losses>>
  PROVE  IInv'
<1>1. /\ Visits(s) /\ ~OpenForWriting(s) /\ Flashed /\ Ranges
      /\ ~(gc.pos >= Len(flash[s].recs))
  BY Zenon DEF Walks, WalkDone, IInv
<1>2. gc' \in [at : 0..N, pos : 0..MaxRecords, live : BOOLEAN]
  <2>2. gc.pos + 1 \in 0..MaxRecords
    <3>1. Len(flash[s].recs) \in Nat /\ Len(flash[s].recs) <= MaxRecords
      BY <1>1 DEF Flashed, Sound, SectorType
    <3>2. gc.pos \in Nat
      BY <1>1 DEF Ranges
    <3> QED  BY <1>1, <3>1, <3>2, WalkFits, ZenonT(30)
  <2>3. s \in 0..N
    BY Numbers, Zenon
  <2> QED  BY <2>2, <2>3
<1>3. Sound(s, flash[s]) /\ flash = [flash EXCEPT ![s] = flash[s]]
  BY <1>1, Zenon DEF Flashed
<1>4. Sound(s, WithTombstone(s, slot))
  BY <1>1, TombstoneKeeps, Zenon
<1>5. \/ flash' = [flash EXCEPT ![s] = WithTombstone(s, slot)]
      \/ flash' = [flash EXCEPT ![s] = flash[s]]
  BY <1>3
<1>6. CASE flash' = [flash EXCEPT ![s] = WithTombstone(s, slot)]
  BY <1>1, <1>2, <1>4, <1>6, GcFlash, Zenon
<1>7. CASE flash' = [flash EXCEPT ![s] = flash[s]]
  BY <1>1, <1>2, <1>3, <1>7, GcFlash, Zenon
<1> QED  BY <1>5, <1>6, <1>7

(* The walk of a broken chain fails: the collector gives up, and so does an   *)
(* allocation that it runs in.                                               *)
LEMMA GcGivesUp ==
  ASSUME IInv, NEW s \in Sectors, Walks(s), gc' = NoGc, flash' = flash,
         IF pc = "reclaim" THEN AllocationFails ELSE UNCHANGED <<file, pc, me, left, comp>>,
         UNCHANGED <<index, got, losses>>
  PROVE  IInv'
<1>1. Visits(s) /\ ~OpenForWriting(s) /\ Flashed
  BY Zenon DEF Walks, IInv
<1>2. gc' \in [at : 0..N, pos : 0..MaxRecords, live : BOOLEAN]
  BY FileStoreAssumption DEF NoGc
<1>3. CASE pc = "reclaim"
  BY <1>2, <1>3, AllocationFailsKeeps, Zenon
<1>4. CASE pc # "reclaim"
  <2>1. Sound(s, flash[s]) /\ flash' = [flash EXCEPT ![s] = flash[s]]
    BY <1>1, Zenon DEF Flashed
  <2>2. UNCHANGED <<index, file, pc, me, got, left, comp, losses>>
    BY <1>4, Zenon
  <2> QED  BY <1>1, <1>2, <2>1, <2>2, GcFlash, Zenon
<1> QED  BY <1>3, <1>4, Zenon

(* gc_classify_record.                                                       *)
LEMMA GcClassifyKeeps ==
  ASSUME IInv, NEW s \in Sectors, GcClassify(s)
  PROVE  IInv'
<1> DEFINE r == flash[s].recs[gc.pos + 1]
           lost == r.st = "live" /\ ~RecordIsLive(s, r) /\ index[r.slot] # 0
<1>1. Walks(s) /\ ~WalkDone(s) /\ UNCHANGED <<index, got, losses>>
  BY Zenon DEF GcClassify
<1>2. CASE lost /\ ChainBroken(r.slot, index[r.slot])
  <2>1. /\ gc' = NoGc /\ flash' = flash
        /\ IF pc = "reclaim" THEN AllocationFails ELSE UNCHANGED <<file, pc, me, left, comp>>
    BY <1>2, Zenon DEF GcClassify
  <2> QED  BY <1>1, <2>1, GcGivesUp, Zenon
<1>3. CASE ~(lost /\ ChainBroken(r.slot, index[r.slot]))
  <2>1. PICK b \in BOOLEAN : gc' = [at |-> s, pos |-> gc.pos + 1, live |-> b]
    BY <1>3, Zenon DEF GcClassify
  <2>2. /\ flash' = [flash EXCEPT ![s] = WithTombstone(s, r.slot)] \/ flash' = flash
        /\ UNCHANGED <<file, pc, me, left, comp>>
    BY <1>3, Zenon DEF GcClassify
  <2> HIDE DEF r
  <2> QED  BY <1>1, <2>1, <2>2, GcClassified, Zenon
<1> QED  BY <1>2, <1>3, Zenon

(* gc_step tombstones the footer of a sector without live records.           *)
LEMMA GcTombstoneKeeps ==
  ASSUME IInv, NEW s \in Sectors, GcTombstone(s)
  PROVE  IInv'
<1> DEFINE sec == [flash[s] EXCEPT !.foot = "dead"]
<1>1. /\ Visits(s) /\ ~OpenForWriting(s) /\ Flashed
      /\ flash' = [flash EXCEPT ![s].foot = "dead"] /\ gc' = [NoGc EXCEPT !.at = s]
      /\ UNCHANGED <<index, file, pc, me, got, left, comp, losses>>
  BY DEF GcTombstone, Walks, IInv
<1>2. flash' = [flash EXCEPT ![s] = sec]
  BY <1>1 DEF Flashed
<1>3. Sound(s, sec)
  <2>1. flash[s] \in SectorType /\ Sound(s, flash[s])
    BY <1>1 DEF Flashed
  <2>2. sec \in SectorType /\ sec.recs = flash[s].recs /\ sec.foot = "dead"
    BY <2>1 DEF SectorType
  <2> QED  BY <2>1, <2>2 DEF Sound
<1>4. gc' \in [at : 0..N, pos : 0..MaxRecords, live : BOOLEAN]
  <2>1. s \in 0..N
    BY Numbers, Zenon
  <2> QED  BY <1>1, <2>1, NoGcTyped, Zenon
<1> HIDE DEF sec
<1> QED  BY <1>1, <1>2, <1>3, <1>4, GcFlash, Zenon

-----------------------------------------------------------------------------
(* Compaction.                                                               *)

(* The part of the invariant a step of the compaction keeps when it changes  *)
(* no sector a writer has open.                                              *)
LEMMA CompactStep ==
  ASSUME IInv, pc \in Allocating, pc' \in Allocating, file' = file, me' = me, got' = got,
         UNCHANGED <<gc, losses>>, left' \in 0..(N+1), index' \in [Slots -> 0..N],
         comp' \in CompType, comp'.cands = comp.cands,
         pc' \in {"compact", "publish", "retract"} => comp'.src \in comp.cands,
         \/ flash' = flash
         \/ \E x \in Sectors : \E sec : /\ Sound(x, sec) /\ ~OpenForWriting(x)
                                        /\ flash' = [flash EXCEPT ![x] = sec]
  PROVE  IInv'
<1>1. pc \notin Extending /\ Compacting /\ Ranges
  BY Zenon DEF Extending, Allocating, IInv
<1>2. WritersKept /\ Flashed' /\ Filed' /\ Called' /\ Room' /\ Pending'
  <2>1. CASE flash' = flash
    BY <1>1, <2>1, SteadyQuiet, Zenon
  <2>2. CASE \E x \in Sectors : \E sec : /\ Sound(x, sec) /\ ~OpenForWriting(x)
                                         /\ flash' = [flash EXCEPT ![x] = sec]
    <3>1. PICK x \in Sectors : \E sec : /\ Sound(x, sec) /\ ~OpenForWriting(x)
                                        /\ flash' = [flash EXCEPT ![x] = sec]
      BY <2>2, Zenon
    <3>2. PICK sec : /\ Sound(x, sec) /\ ~OpenForWriting(x)
                     /\ flash' = [flash EXCEPT ![x] = sec]
      BY <3>1, Zenon
    <3> QED  BY <1>1, <3>2, SteadyFlash, Zenon
  <2> QED  BY <2>1, <2>2, Zenon
<1>3. Compacting'
  BY <1>1, <1>2, CompactingFrame, ZenonT(30)
<1>4. Ranges'
  BY <1>1 DEF Ranges
<1> QED  BY <1>2, <1>3, <1>4, Zenon DEF IInv

(* gc_compact picks a source, or starts the relaxed pass.                    *)
LEMMA CompactPickKeeps ==
  ASSUME IInv, (\E s \in Sectors : CompactPick(s)) \/ CompactRelax
  PROVE  IInv'
<1>1. /\ Compacting /\ Ranges /\ comp \in CompType /\ pc \in Allocating
      /\ index' \in [Slots -> 0..N] /\ left' = N + 1
      /\ UNCHANGED <<flash, file, gc, me, got, losses>>
  BY Zenon DEF CompactPick, CompactRelax, IInv, Compacting, Ranges, Allocating
<1>2. left' \in 0..(N+1)
  BY <1>1, FileStoreAssumption
<1>3. CASE CompactRelax
  <2>1. pc' = pc /\ pc = "reclaim" /\ comp' = [comp EXCEPT !.tried = {}, !.relaxed = TRUE]
    BY <1>3 DEF CompactRelax
  <2>2. comp' \in CompType /\ comp'.cands = comp.cands
    BY <1>1, <2>1, Zenon DEF CompType
  <2> QED  BY <1>1, <1>2, <2>1, <2>2, CompactStep, ZenonT(30)
<1>4. CASE \E s \in Sectors : CompactPick(s)
  <2>1. PICK s \in Sectors : CompactPick(s)
    BY <1>4
  <2>2. /\ pc' = "compact" /\ s \in comp.cands
        /\ comp' = [comp EXCEPT !.src = s, !.tried = @ \cup {s}]
    BY <2>1, Zenon DEF CompactPick
  <2>3. s \in 0..N
    BY FileStoreAssumption DEF Sectors
  <2>4. comp' \in CompType /\ comp'.cands = comp.cands /\ comp'.src = s
    BY <1>1, <2>2, <2>3, Zenon DEF CompType
  <2>5. pc' \in Allocating
    BY <2>2, Zenon DEF Allocating
  <2> QED  BY <1>1, <1>2, <2>2, <2>4, <2>5, CompactStep, ZenonT(30)
<1> QED  BY <1>3, <1>4, Zenon

(* The source of a compaction, and the root it comes to.                     *)
LEMMA SourceFound ==
  ASSUME IInv, pc \in {"compact", "publish", "retract"}
  PROVE  /\ comp.src \in Sectors /\ ~OpenForWriting(comp.src) /\ pc \in Allocating
         /\ comp \in CompType /\ comp.src \in comp.cands
         /\ ToCopy # {} => /\ First(ToCopy) \in Nat \ {0} /\ NextRoot \in RecordType
                           /\ comp.src + NextRoot.span <= N + 1
<1>1. Compacting /\ Flashed
  BY Zenon DEF IInv
<1>2. /\ comp \in CompType /\ comp.src \in comp.cands /\ ~OpenForWriting(comp.src)
      /\ pc \in Allocating
  BY <1>1 DEF Compacting, Allocating
<1>3. comp.src \in Sectors
  BY <1>2 DEF CompType
<1>4. ASSUME ToCopy # {}
      PROVE  /\ First(ToCopy) \in Nat \ {0} /\ NextRoot \in RecordType
             /\ comp.src + NextRoot.span <= N + 1
  <2>1. flash[comp.src].recs \in Seq(RecordType) /\ Sound(comp.src, flash[comp.src])
    BY <1>1, <1>3, Zenon DEF Flashed, SectorType
  <2>2. DOMAIN flash[comp.src].recs \in SUBSET (Nat \ {0})
    BY <2>1
  <2>3. ToCopy \in SUBSET Nat /\ ToCopy \subseteq DOMAIN flash[comp.src].recs
    BY <2>2, Zenon DEF ToCopy
  <2>4. First(ToCopy) \in ToCopy
    BY <1>4, <2>3, FirstIn, Zenon
  <2>5. First(ToCopy) \in DOMAIN flash[comp.src].recs
    BY <2>3, <2>4, Zenon
  <2>6. NextRoot = flash[comp.src].recs[First(ToCopy)]
    BY DEF NextRoot
  <2> DEFINE k == First(ToCopy)
  <2> HIDE DEF k
  <2>7. k \in DOMAIN flash[comp.src].recs /\ NextRoot = flash[comp.src].recs[k]
    BY <2>5, <2>6, ZenonT(30) DEF k
  <2>8. NextRoot \in RecordType /\ comp.src + NextRoot.span <= N + 1
    BY <2>1, <2>7 DEF Sound
  <2>9. k \in Nat \ {0}
    BY <2>2, <2>7
  <2> QED  BY <2>8, <2>9, Zenon DEF k
<1> QED  BY <1>2, <1>3, <1>4

(* gc_copy_root_record programs the root at its destination.                 *)
LEMMA CompactCopyKeeps ==
  ASSUME IInv, NEW d \in Sectors, CompactCopy(d)
  PROVE  IInv'
<1> DEFINE n == IF NextRoot.span > 1 THEN comp.src + 1 ELSE NextRoot.next
           r == [NextRoot EXCEPT !.span = 1, !.next = n]
           sec == WithRecord(flash[d], r)
<1>1. /\ pc = "compact" /\ ToCopy # {} /\ pc' = "publish" /\ Flashed /\ Ranges
      /\ ~OpenForWriting(d) /\ FreeWindow(d, NextRoot.slot, FALSE, comp.relaxed)
      /\ flash' = [flash EXCEPT ![d] = sec]
      /\ comp' = [comp EXCEPT !.entry = First(ToCopy), !.dest = d]
      /\ UNCHANGED <<index, file, gc, me, got, left, losses>>
  BY Zenon DEF CompactCopy, IInv, Destinations, Flashed
<1>2. /\ comp.src \in Sectors /\ pc \in Allocating /\ comp \in CompType
      /\ comp.src \in comp.cands
      /\ First(ToCopy) \in Nat \ {0} /\ NextRoot \in RecordType
      /\ comp.src + NextRoot.span <= N + 1
  BY <1>1, SourceFound, Zenon
<1>3. N \in Nat \ {0} /\ d \in 1..N /\ comp.src \in 1..N
  BY <1>2, FileStoreAssumption, Zenon DEF Sectors
<1>4. n \in 0..N
  <2>1. NextRoot.span \in 0..N /\ NextRoot.next \in 0..N
    BY <1>2 DEF RecordType
  <2> QED  BY <1>2, <2>1, SpanFits, Zenon
<1> HIDE DEF n
<1>5. r \in RecordType /\ r.span = 1
  <2>1. 1 \in 0..N
    BY <1>3
  <2>2. PICK a \in RecordType : a = [NextRoot EXCEPT !.span = 1]
    BY <1>2, <2>1, Zenon DEF RecordType
  <2>3. PICK b \in RecordType : b = [a EXCEPT !.next = n]
    BY <1>4, <2>2, Zenon DEF RecordType
  <2>4. r = b
    BY <2>2, <2>3
  <2> QED  BY <1>2, <2>3, <2>4, Zenon DEF RecordType
<1> HIDE DEF r
<1>6. d + r.span <= N + 1
  BY <1>3, <1>5
<1>7. Len(flash[d].recs) < MaxRecords /\ Sound(d, flash[d])
  BY <1>1, WindowRoom, ZenonT(30) DEF Flashed
<1>8. Sound(d, sec)
  BY <1>5, <1>6, <1>7, RecordAdded
<1> HIDE DEF sec
<1>9. comp' \in CompType /\ comp'.cands = comp.cands /\ comp'.src = comp.src
  <2> DEFINE e == First(ToCopy)
  <2> HIDE DEF e
  <2>1. comp' = [comp EXCEPT !.entry = e, !.dest = d] /\ e \in Nat \ {0} /\ d \in 0..N
    BY <1>1, <1>2, <1>3 DEF e
  <2> QED  BY <1>2, <2>1, Zenon DEF CompType
<1>10. index' \in [Slots -> 0..N] /\ left' \in 0..(N+1) /\ pc' \in Allocating
  BY <1>1 DEF Ranges, Allocating
<1> QED  BY <1>1, <1>2, <1>8, <1>9, <1>10, CompactStep, ZenonT(30)

(* The index append of a moved root.                                         *)
LEMMA CompactPublishKeeps ==
  ASSUME IInv, CompactPublish
  PROVE  IInv'
<1>1. /\ pc = "publish" /\ pc' = "compact" /\ Ranges
      /\ comp' = [comp EXCEPT !.copied = comp.entry, !.entry = @ + 1, !.dest = 0]
      /\ UNCHANGED <<flash, file, gc, me, got, left, losses>>
  BY DEF CompactPublish, IInv
<1>2. /\ comp.src \in Sectors /\ pc \in Allocating /\ comp \in CompType
      /\ comp.src \in comp.cands
  BY <1>1, SourceFound, Zenon
<1>3. PICK slot : index' = [index EXCEPT ![slot] = comp.dest]
  BY Zenon DEF CompactPublish
<1>4. index' \in [Slots -> 0..N]
  <2>1. comp.dest \in 0..N
    BY <1>2 DEF CompType
  <2> QED  BY <1>1, <1>3, <2>1, Zenon DEF Ranges
<1>5. comp' \in CompType /\ comp'.cands = comp.cands /\ comp'.src = comp.src
  <2>1. comp.entry \in Nat /\ comp.entry + 1 \in Nat \ {0} /\ 0 \in 0..N
    BY <1>2, FileStoreAssumption DEF CompType
  <2>2. PICK a \in CompType : a = [comp EXCEPT !.copied = comp.entry]
    BY <1>2, <2>1, Zenon DEF CompType
  <2>3. PICK b \in CompType : b = [a EXCEPT !.entry = comp.entry + 1]
    BY <2>1, <2>2, Zenon DEF CompType
  <2>4. PICK c \in CompType : c = [b EXCEPT !.dest = 0]
    BY <2>1, <2>3, Zenon DEF CompType
  <2>5. comp' = c
    BY <1>1, <1>2, <2>2, <2>3, <2>4, ZenonT(30)
  <2> QED  BY <1>1, <1>2, <2>4, <2>5, ZenonT(30) DEF CompType
<1>6. left' \in 0..(N+1) /\ pc' \in Allocating
  BY <1>1, Zenon DEF Ranges, Allocating
<1> QED  BY <1>1, <1>2, <1>4, <1>5, <1>6, CompactStep, ZenonT(30)

(* The erase of a source all of whose roots have moved.                      *)
LEMMA CompactEraseKeeps ==
  ASSUME IInv, CompactErase
  PROVE  IInv'
<1> DEFINE s == comp.src
<1>1. /\ pc = "compact" /\ flash' = [flash EXCEPT ![s] = Blank] /\ Take(s) /\ Flashed
      /\ index' = index /\ gc' \in {gc, NoGc} /\ losses' = losses
  BY Zenon DEF CompactErase, IInv
<1>2. s \in Sectors /\ ~OpenForWriting(s) /\ pc \in Allocating
  BY <1>1, SourceFound, Zenon
<1> HIDE DEF s
<1>3. Sound(s, Blank) /\ Blank.recs = <<>>
  BY BlankSound, Zenon
<1>4. Flashed' /\ flash'[s] = Blank /\ \A t \in Sectors : t # s => flash'[t] = flash[t]
  BY <1>1, <1>2, <1>3, OneSector, ZenonT(30)
<1>5. Len(flash'[s].recs) < MaxRecords
  BY <1>3, <1>4, FileStoreAssumption
<1> QED  BY <1>1, <1>2, <1>4, <1>5, TakenKeeps, ZenonT(30)

(* A failed compaction goes on to the next candidate.                        *)
LEMMA NextCandidateTyped ==
  ASSUME comp \in CompType, NextCandidate
  PROVE  /\ pc' \in Allocating /\ pc' \notin {"compact", "publish", "retract"}
         /\ comp' \in CompType /\ comp'.cands = comp.cands
<1>1. pc' = "reclaim" /\ comp' = [comp EXCEPT !.src = 0, !.entry = 1, !.copied = 0]
  BY DEF NextCandidate
<1>2. 0 \in 0..N /\ 1 \in Nat \ {0} /\ 0 \in Nat
  BY FileStoreAssumption
<1>3. PICK a \in CompType : a = [comp EXCEPT !.src = 0]
  BY <1>2, Zenon DEF CompType
<1>4. PICK b \in CompType : b = [a EXCEPT !.entry = 1]
  BY <1>2, <1>3, Zenon DEF CompType
<1>5. PICK c \in CompType : c = [b EXCEPT !.copied = 0]
  BY <1>2, <1>4, Zenon DEF CompType
<1>6. comp' = c
  BY <1>1, <1>3, <1>4, <1>5
<1>7. comp'.cands = comp.cands
  BY <1>1, Zenon DEF CompType
<1> QED  BY <1>1, <1>5, <1>6, <1>7, ZenonT(30) DEF Allocating

(* A root that cannot move, and the tombstones of those that have.           *)
LEMMA CompactFailKeeps ==
  ASSUME IInv, CompactFail \/ CompactRetract
  PROVE  IInv'
<1>1. /\ pc \in {"compact", "retract"} /\ Flashed /\ Ranges
      /\ UNCHANGED <<index, file, gc, me, got, left, losses>>
      /\ NextCandidate \/ (comp' = comp /\ pc' = "retract")
  BY Zenon DEF CompactFail, CompactRetract, IInv
<1>2. /\ comp.src \in Sectors /\ ~OpenForWriting(comp.src) /\ pc \in Allocating
      /\ comp \in CompType /\ comp.src \in comp.cands
  BY <1>1, SourceFound, Zenon
<1>3. /\ pc' \in Allocating /\ comp' \in CompType /\ comp'.cands = comp.cands
      /\ pc' \in {"compact", "publish", "retract"} => comp'.src \in comp.cands
  BY <1>1, <1>2, NextCandidateTyped, Zenon DEF Allocating
<1>4. \/ flash' = flash
      \/ \E x \in Sectors : \E sec : /\ Sound(x, sec) /\ ~OpenForWriting(x)
                                     /\ flash' = [flash EXCEPT ![x] = sec]
  <2>1. CASE CompactFail
    BY <2>1, Zenon DEF CompactFail
  <2>2. CASE CompactRetract
    <3>1. PICK slot : flash' = [flash EXCEPT ![comp.src] = WithTombstone(comp.src, slot)]
      BY <2>2, Zenon DEF CompactRetract
    <3>2. Sound(comp.src, WithTombstone(comp.src, slot))
      BY <1>1, <1>2, TombstoneKeeps, Zenon
    <3> QED  BY <1>2, <3>1, <3>2, Zenon
  <2> QED  BY <2>1, <2>2, Zenon
<1>5. index' \in [Slots -> 0..N] /\ left' \in 0..(N+1)
  BY <1>1 DEF Ranges
<1> QED  BY <1>1, <1>2, <1>3, <1>4, <1>5, CompactStep, ZenonT(30)

-----------------------------------------------------------------------------
(* Power loss.                                                               *)

(* What a power loss may leave of a sector.                                  *)
LEMMA TailSound ==
  ASSUME NEW s, NEW sec, Sound(s, sec), NEW t \in {"junk", "torn"}
  PROVE  Sound(s, [sec EXCEPT !.tail = t])
<1> DEFINE new == [sec EXCEPT !.tail = t]
<1>1. sec \in SectorType
  BY DEF Sound
<1>2. new \in SectorType /\ new.recs = sec.recs /\ new.foot = sec.foot
  BY <1>1, Zenon DEF SectorType
<1> HIDE DEF new
<1>3. Sound(s, new)
  BY <1>2 DEF Sound
<1> QED  BY <1>3 DEF new

(* An erase that power interrupts leaves a dead sector without records.      *)
LEMMA DeadSound ==
  ASSUME NEW s
  PROVE  Sound(s, TornErase) /\ TornErase = [Blank EXCEPT !.foot = "dead", !.tail = "junk"]
<1>1. TornErase \in SectorType /\ TornErase.recs = <<>> /\ TornErase.foot = "dead"
  <2>1. Blank \in SectorType /\ Blank.recs = <<>>
    BY BlankSound DEF Sound
  <2>2. PICK a \in SectorType : a = [Blank EXCEPT !.foot = "dead"]
    BY <2>1, Zenon DEF SectorType
  <2>3. PICK b \in SectorType : b = [a EXCEPT !.tail = "junk"]
    BY <2>2, Zenon DEF SectorType
  <2>4. TornErase = b
    BY <2>2, <2>3, Zenon DEF TornErase
  <2> QED  BY <2>1, <2>2, <2>3, <2>4, Zenon DEF SectorType
<1>2. Sound(s, TornErase)
  BY <1>1, FileStoreAssumption DEF Sound
<1> QED  BY <1>2 DEF TornErase

(* What an interrupted program leaves of a record is a record without a span. *)
LEMMA OrphanTyped ==
  ASSUME NEW r \in RecordType, NEW slot \in Slots
  PROVE  Orphan(r, slot) \in RecordType /\ Orphan(r, slot).span = 0
<1>1. 0 \in 0..N /\ 0 \in 0..MaxExtents
  BY Numbers, Zenon
<1>2. PICK a \in RecordType : a = [r EXCEPT !.slot = slot]
  BY Zenon DEF RecordType
<1>3. PICK b \in RecordType : b = [a EXCEPT !.st = "open"]
  BY Zenon DEF RecordType
<1>4. PICK c \in RecordType : c = [b EXCEPT !.next = 0]
  BY <1>1, Zenon DEF RecordType
<1>5. PICK d \in RecordType : d = [c EXCEPT !.span = 0]
  BY <1>1, Zenon DEF RecordType
<1>6. PICK e \in RecordType : e = [d EXCEPT !.size = 0]
  BY <1>1, Zenon DEF RecordType
<1>7. Orphan(r, slot) = e
  BY <1>2, <1>3, <1>4, <1>5, <1>6, Zenon DEF Orphan
<1>8. d.span = 0 /\ e.span = d.span
  BY <1>5, <1>6, Zenon DEF RecordType
<1> QED  BY <1>6, <1>7, <1>8, Zenon

(* A record that power interrupts ends the walk, stays as an orphan, or      *)
(* spoils a fresh footer.                                                    *)
LEMMA TornRecordSound ==
  ASSUME NEW s \in Sectors, NEW sec, Sound(s, sec), Len(sec.recs) < MaxRecords,
         NEW r \in RecordType, NEW new \in TornRecord(sec, r)
  PROVE  Sound(s, new)
<1>1. CASE new = TornErase
  BY <1>1, DeadSound, Zenon
<1>2. CASE \E t \in {"junk", "torn"} : new = [sec EXCEPT !.tail = t]
  <2>1. PICK t \in {"junk", "torn"} : new = [sec EXCEPT !.tail = t]
    BY <1>2, Zenon
  <2>2. Sound(s, [sec EXCEPT !.tail = t])
    BY TailSound, Zenon
  <2> QED  BY <2>1, <2>2, Zenon
<1>3. CASE sec.foot = "live" /\ \E slot \in Slots : new = [sec EXCEPT !.recs = Append(@, Orphan(r, slot))]
  <2>1. PICK slot \in Slots : new = [sec EXCEPT !.recs = Append(@, Orphan(r, slot))]
    BY <1>3, Zenon
  <2> DEFINE o == Orphan(r, slot)
  <2>2. o \in RecordType /\ s + o.span <= N + 1
    BY OrphanTyped, Numbers
  <2>3. new = [sec EXCEPT !.recs = Append(sec.recs, o)]
    BY <2>1, Zenon
  <2> HIDE DEF o
  <2> QED  BY <1>3, <2>2, <2>3, RecordLeft, Zenon
<1> QED  BY <1>1, <1>2, <1>3, Zenon DEF TornRecord

(* A lifecycle program that power interrupts hides the record from the walk. *)
LEMMA TornLifecycleSound ==
  ASSUME Flashed, NEW s \in Sectors, NEW slot, HasOpen(flash[s], slot)
  PROVE  Sound(s, TornLifecycle(s, slot))
<1> DEFINE k == First(Positions(s, slot, "open"))
           old == flash[s].recs
           recs == SubSeq(old, 1, k - 1)
           new == [flash[s] EXCEPT !.recs = recs, !.tail = "torn"]
<1>1. Positions(s, slot, "open") # {}
  BY OpenFound, ZenonT(30)
<1>2. k \in DOMAIN old /\ k \in 1..Len(old) /\ old[k].st = "open"
  BY <1>1, Found
<1>3. flash[s] \in SectorType /\ Sound(s, flash[s]) /\ old \in Seq(RecordType)
  BY Zenon DEF Flashed, SectorType
<1>4. TornLifecycle(s, slot) = new
  BY ZenonT(30) DEF TornLifecycle
<1> HIDE DEF k
<1>5. /\ recs \in Seq(RecordType) /\ Len(recs) = k - 1 /\ Len(recs) <= Len(old)
      /\ \A j \in DOMAIN recs : j \in DOMAIN old /\ recs[j] = old[j]
  BY <1>2, <1>3
<1>6. /\ Len(old) <= MaxRecords /\ \A j \in DOMAIN old : s + old[j].span <= N + 1
      /\ flash[s].foot # "erased"
  BY <1>2, <1>3 DEF Sound
<1> HIDE DEF recs, old
<1>7. new \in SectorType /\ new.recs = recs /\ new.foot = flash[s].foot
  BY <1>3, <1>5, Zenon DEF SectorType
<1> HIDE DEF new
<1>8. Len(old) \in Nat
  BY <1>3
<1>9. Len(new.recs) <= MaxRecords
  BY <1>2, <1>5, <1>6, <1>7, <1>8, FileStoreAssumption
<1>10. \A j \in DOMAIN new.recs : s + new.recs[j].span <= N + 1
  BY <1>5, <1>6, <1>7, Zenon
<1>11. Sound(s, new)
  BY <1>6, <1>7, <1>9, <1>10, ZenonT(30) DEF Sound
<1> QED  BY <1>4, <1>11

(* A torn program or erase changes one data sector, or none.                 *)
LEMMA TornSector ==
  ASSUME Flashed, NEW s, NEW sec, s \in Sectors => Sound(s, sec),
         flash' = [flash EXCEPT ![s] = sec]
  PROVE  Flashed'
<1>1. CASE s \in Sectors
  BY <1>1, OneSector, Zenon
<1>2. CASE s \notin Sectors
  <2>1. flash' = flash
    BY <1>2 DEF Flashed
  <2> QED  BY <2>1, Zenon DEF Flashed
<1> QED  BY <1>1, <1>2, Zenon

(* A record under way goes to a sector that has room for it.                 *)
LEMMA ProgrammingFits ==
  ASSUME IInv, NEW p \in Programming
  PROVE  p[1] \in Sectors /\ Len(flash[p[1]].recs) < MaxRecords /\ p[2] \in RecordType
<1>1. Flashed /\ Filed /\ Called /\ Room
  BY DEF IInv
<1>2. CASE pc \in {"idle", "extend"} /\ \E h \in Handles : Writing(h)
             /\ p = <<file[h].cur, ExtentRecord(file[h], "open", 0, 0)>>
  <2>1. PICK h \in Handles : Writing(h) /\ p = <<file[h].cur, ExtentRecord(file[h], "open", 0, 0)>>
    BY <1>2, Zenon
  <2>2. file[h] \in WriterType /\ file[h].cur \in Sectors
    BY <1>1, <2>1, WriterSectors, Zenon
  <2>3. ExtentRecord(file[h], "open", 0, 0) \in RecordType
    <3>1. 0 \in 0..N
      BY Numbers, Zenon
    <3> QED  BY <2>2, <3>1, ExtentTyped, Zenon
  <2>4. Len(flash[file[h].cur].recs) < MaxRecords
    BY <1>1, <1>2, <2>1 DEF Room, Closing
  <2> QED  BY <2>1, <2>2, <2>3, <2>4
<1>3. CASE pc \notin {"idle", "extend"} /\ \E d \in CopyTargets : p = <<d, NextRoot>>
  <2>1. PICK d \in CopyTargets : p = <<d, NextRoot>>
    BY <1>3, Zenon
  <2>2. pc = "compact" /\ ToCopy # {} /\ d \in Destinations
    BY <2>1, Zenon DEF CopyTargets
  <2>3. d \in Sectors /\ FreeWindow(d, NextRoot.slot, FALSE, comp.relaxed)
    BY <2>2, Zenon DEF Destinations
  <2>4. NextRoot \in RecordType
    BY <2>2, SourceFound, Zenon
  <2>5. Len(flash[d].recs) < MaxRecords
    BY <1>1, <2>3, WindowRoom, Zenon
  <2> QED  BY <2>1, <2>3, <2>4, <2>5
<1>4. CASE pc = "idle"
  <2>1. \E h \in Handles : Writing(h) /\ p = <<file[h].cur, ExtentRecord(file[h], "open", 0, 0)>>
    BY <1>4, Zenon DEF Programming, Writing
  <2> QED  BY <1>2, <1>4, <2>1
<1>5. CASE pc = "extend"
  <2>1. p = <<file[me].cur, ExtentRecord(file[me], "open", 0, 0)>>
    BY <1>5 DEF Programming
  <2>2. me \in Handles /\ Writing(me)
    BY <1>1, <1>5 DEF Called, Extending
  <2> QED  BY <1>2, <1>5, <2>1, <2>2
<1>6. CASE pc \notin {"idle", "extend"}
  <2>1. \E d \in CopyTargets : p = <<d, NextRoot>>
    BY <1>6, Zenon DEF Programming
  <2> QED  BY <1>3, <1>6, <2>1
<1> QED  BY <1>4, <1>5, <1>6

(* Whatever the device leaves of the program or erase under way is sound.    *)
LEMMA TornFlashSound ==
  ASSUME IInv, flash' \in TornFlash
  PROVE  Flashed'
<1>1. Flashed /\ Filed /\ Called /\ Pending
  BY DEF IInv
<1>2. flash \in [Sectors -> SectorType] /\ \A s \in Sectors : Sound(s, flash[s])
  BY <1>1 DEF Flashed
<1>3. CASE flash' \in InFlight
  <2>1. PICK S : flash' = [s \in Sectors |-> IF s \in S THEN [flash[s] EXCEPT !.tail = "junk"]
                                                         ELSE flash[s]]
    BY <1>3, Zenon DEF InFlight
  <2>2. ASSUME NEW s \in Sectors
        PROVE  Sound(s, flash'[s])
    <3>1. CASE s \in S
      BY <3>1, <1>2, <2>1, TailSound, Zenon
    <3>2. CASE s \notin S
      BY <3>2, <1>2, <2>1
    <3> QED  BY <3>1, <3>2
  <2>3. DOMAIN flash' = Sectors /\ \A s \in Sectors : flash'[s] \in SectorType
    BY <2>1, <2>2 DEF Sound
  <2>4. flash' = [s \in Sectors |-> flash'[s]]
    BY <2>1, Zenon
  <2>5. flash' \in [Sectors -> SectorType]
    BY <2>3, <2>4
  <2> QED  BY <2>2, <2>5 DEF Flashed
<1>4. CASE \E d \in CopyTargets : flash' = [flash EXCEPT ![d].tail = "junk"]
  <2>1. PICK d \in CopyTargets : flash' = [flash EXCEPT ![d].tail = "junk"]
    BY <1>4, Zenon
  <2>2. flash' = [flash EXCEPT ![d] = [flash[d] EXCEPT !.tail = "junk"]]
    BY <2>1, Zenon
  <2>3. d \in Sectors => Sound(d, [flash[d] EXCEPT !.tail = "junk"])
    BY <1>2, TailSound, Zenon
  <2> QED  BY <1>1, <2>2, <2>3, TornSector, Zenon
<1>5. CASE \E p \in Programming : \E sec \in TornRecord(flash[p[1]], p[2]) :
             flash' = [flash EXCEPT ![p[1]] = sec]
  <2>1. PICK p \in Programming : \E sec \in TornRecord(flash[p[1]], p[2]) :
             flash' = [flash EXCEPT ![p[1]] = sec]
    BY <1>5, Zenon
  <2>2. PICK sec \in TornRecord(flash[p[1]], p[2]) : flash' = [flash EXCEPT ![p[1]] = sec]
    BY <2>1, Zenon
  <2>3. p[1] \in Sectors /\ Len(flash[p[1]].recs) < MaxRecords /\ p[2] \in RecordType
    BY ProgrammingFits, Zenon
  <2>4. Sound(p[1], sec)
    BY <1>2, <2>2, <2>3, TornRecordSound, Zenon
  <2> QED  BY <1>1, <2>2, <2>4, TornSector, Zenon
<1>6. CASE \E s : /\ (pc = "commit" /\ s = file[me].span) \/ (pc = "root" /\ s = file[me].head)
                  /\ flash' = [flash EXCEPT ![s] = TornLifecycle(s, file[me].slot)]
  <2>1. PICK s : /\ (pc = "commit" /\ s = file[me].span) \/ (pc = "root" /\ s = file[me].head)
                 /\ flash' = [flash EXCEPT ![s] = TornLifecycle(s, file[me].slot)]
    BY <1>6, ZenonT(30)
  <2>2. me \in Handles /\ Writing(me) /\ (pc = "root" => file[me].span # file[me].head)
    BY <1>1, <2>1 DEF Called, Closing
  <2>3. HasOpen(flash[s], file[me].slot)
    BY <1>1, <2>1, <2>2, Zenon DEF Pending, SpanOpen, HeadOpen
  <2>4. s \in Sectors
    BY <1>1, <2>1, <2>2, WriterSectors, Zenon
  <2>5. Sound(s, TornLifecycle(s, file[me].slot))
    BY <1>1, <2>3, <2>4, TornLifecycleSound, Zenon
  <2> QED  BY <1>1, <2>1, <2>5, TornSector, Zenon
<1>7. CASE \E s : flash' = [flash EXCEPT ![s] = TornErase]
  BY <1>1, <1>7, DeadSound, TornSector, ZenonT(30)
<1>8. ASSUME flash' \in TornRecords
      PROVE  \E p \in Programming : \E sec \in TornRecord(flash[p[1]], p[2]) :
               flash' = [flash EXCEPT ![p[1]] = sec]
  <2> DEFINE Left(p) == {[flash EXCEPT ![p[1]] = sec] : sec \in TornRecord(flash[p[1]], p[2])}
  <2>1. PICK p \in Programming : flash' \in Left(p)
    BY <1>8, Zenon DEF TornRecords
  <2> QED  BY <2>1, Zenon
<1>9. ASSUME flash' \in TornLifecycles
      PROVE  \E s : /\ (pc = "commit" /\ s = file[me].span) \/ (pc = "root" /\ s = file[me].head)
                    /\ flash' = [flash EXCEPT ![s] = TornLifecycle(s, file[me].slot)]
  BY <1>9, ZenonT(30) DEF TornLifecycles
<1>10. ASSUME flash' \in TornErases
       PROVE  \E s : flash' = [flash EXCEPT ![s] = TornErase]
  BY <1>10, Zenon DEF TornErases
<1>11. CASE flash' \in TornCopies
  BY <1>4, <1>11, Zenon DEF TornCopies
<1>12. \/ flash' \in InFlight \/ flash' \in TornCopies \/ flash' \in TornRecords
       \/ flash' \in TornLifecycles \/ flash' \in TornErases
  BY Zenon DEF TornFlash
<1>13. flash' \in TornRecords => Flashed'
  BY <1>5, <1>8, Zenon
<1>14. flash' \in TornLifecycles => Flashed'
  BY <1>6, <1>9, Zenon
<1>15. flash' \in TornErases => Flashed'
  BY <1>7, <1>10, Zenon
<1> QED  BY <1>3, <1>11, <1>12, <1>13, <1>14, <1>15, Zenon

(* Power fails anywhere: RAM is gone, and the flash is sound.                *)
LEMMA PowerLossKeeps ==
  ASSUME IInv, PowerLoss
  PROVE  IInv'
<1>1. /\ losses < PowerLosses /\ losses' = losses + 1 /\ flash' \in TornFlash
      /\ file' = [h \in Handles |-> Closed] /\ gc' = NoGc /\ pc' = "idle" /\ me' = 0
      /\ got' = 0 /\ left' = 0 /\ comp' = NoComp /\ index' = index /\ Ranges
  BY DEF PowerLoss, IInv
<1>2. Flashed'
  BY <1>1, TornFlashSound
<1>3. \A h \in Handles : file'[h] = Closed /\ file'[h].mode = "closed"
  BY <1>1, Zenon DEF Closed
<1>4. Filed'
  BY <1>1, <1>3, Zenon DEF Filed, Writing
<1>5. Called'
  BY <1>1, <1>3, Zenon DEF Called, Places, Allocating, Extending, Closing
<1>6. Room' /\ Pending'
  BY <1>1, <1>3, Zenon DEF Room, Pending, Writing, Extending
<1>7. Compacting'
  BY <1>1, NoCompacting, ZenonT(30)
<1>8. Ranges'
  BY <1>1, FileStoreAssumption DEF Ranges, NoGc
<1> QED  BY <1>2, <1>4, <1>5, <1>6, <1>7, <1>8, ZenonT(30) DEF IInv

-----------------------------------------------------------------------------
(* A blank flash.                                                            *)
LEMMA InitHolds ==
  ASSUME Init
  PROVE  IInv
<1>1. \A h \in Handles : file[h] = Closed /\ file[h].mode = "closed"
  BY DEF Init, Closed
<1>2. Flashed
  <2>1. \A s \in Sectors : flash[s] = Blank
    BY Zenon DEF Init
  <2>2. Blank \in SectorType
    BY BlankSound, Zenon DEF Sound
  <2>3. \A s \in Sectors : Sound(s, flash[s])
    BY <2>1, BlankSound, Zenon
  <2> QED  BY <2>2, <2>3 DEF Flashed, Init
<1>3. Filed
  BY <1>1, Zenon DEF Filed, Writing, Init
<1>4. Called
  BY <1>1, Zenon DEF Called, Places, Allocating, Extending, Closing, Init
<1>5. Room /\ Pending
  BY <1>1, Zenon DEF Room, Pending, Writing, Extending, Init
<1>6. Compacting
  <2>1. NoComp \in CompType /\ NoComp.cands = {}
    BY FileStoreAssumption DEF NoComp, CompType
  <2> QED  BY <2>1, ZenonT(30) DEF Compacting, Init
<1>7. Ranges
  BY FileStoreAssumption DEF Ranges, NoGc, Init
<1> QED  BY <1>2, <1>3, <1>4, <1>5, <1>6, <1>7, ZenonT(30) DEF IInv

(* The writer's steps of start_next_extent and fffs_close leave the rest.    *)
LEMMA WriterStepKeeps ==
  ASSUME IInv, Extend \/ LinkSpan \/ CommitSpan \/ CommitRoot \/ (\E h \in Handles : Close(h))
  PROVE  IInv'
<1>1. Compacting /\ Ranges
  BY Zenon DEF IInv
<1>2. /\ UNCHANGED <<index, gc, left, comp, losses>>
      /\ pc \notin Allocating /\ pc' \notin Allocating
  BY Zenon DEF Extend, LinkSpan, CommitSpan, CommitRoot, Close, Allocating
<1>3. Flashed' /\ Filed' /\ Called' /\ Room' /\ Pending' /\ got' \in 0..N
  <2>1. CASE Extend \/ LinkSpan
    BY <2>1, ExtendKeeps, LinkSpanKeeps, Zenon
  <2>2. CASE CommitSpan \/ CommitRoot \/ (\E h \in Handles : Close(h))
    <3>1. got' \in 0..N
      BY <1>1, <2>2, Zenon DEF Ranges, CommitSpan, CommitRoot, Close
    <3> QED  BY <2>2, <3>1, CommitSpanKeeps, CommitRootKeeps, CloseKeeps, ZenonT(30)
  <2> QED  BY <2>1, <2>2, Zenon
<1>4. Compacting'
  BY <1>1, <1>2, NoCompacting, ZenonT(30) DEF Compacting, Allocating
<1>5. Ranges'
  BY <1>1, <1>2, <1>3 DEF Ranges
<1> QED  BY <1>3, <1>4, <1>5 DEF IInv

(* Every step of a call, of the collector and of the device.                 *)
LEMMA NextKeeps ==
  ASSUME IInv, [Next]_vars
  PROVE  IInv'
<1>1. CASE UNCHANGED vars
  <2>1. UNCHANGED <<flash, index, file, gc, pc, me, got, left, comp, losses>>
    BY <1>1 DEF vars
  <2>2. Flashed' /\ Ranges'
    BY <2>1, Zenon DEF IInv, Flashed, Ranges
  <2>3. Filed' /\ Compacting'
    BY <2>1, ZenonT(30) DEF IInv, Filed, Compacting, Writing, OpenForWriting
  <2>4. Called'
    BY <2>1, ZenonT(30) DEF IInv, Called, Writing, OpenForWriting
  <2>5. Room' /\ Pending'
    BY <2>1, Zenon DEF IInv, Room, Pending, Writing, SpanOpen, HeadOpen
  <2> QED  BY <2>2, <2>3, <2>4, <2>5, ZenonT(30) DEF IInv
<1>2. CASE \E h \in Handles, n \in Names : OpenRead(h, n) \/ OpenWrite(h, n)
  BY <1>2, OpenReadKeeps, OpenWriteKeeps, Zenon
<1>3. CASE \E h \in Handles : WriteOverflow(h) \/ Close(h) \/ Read(h) \/ CloseRead(h)
  BY <1>3, WriteOverflowKeeps, WriterStepKeeps, ReadKeeps, CloseReadKeeps, ZenonT(30)
<1>4. CASE \E n \in Names : Delete(n)
  BY <1>4, DeleteKeeps, Zenon
<1>5. CASE Running
  <2>1. CASE \E s \in Sectors : Allocate(s) \/ GiveUpReserve(s) \/ CompactPick(s) \/ CompactCopy(s)
    BY <2>1, AllocateKeeps, CompactPickKeeps, CompactCopyKeeps, ZenonT(30)
  <2>2. CASE CompactRelax \/ Reclaim \/ NoSpace
    BY <2>2, CompactPickKeeps, ReclaimKeeps, NoSpaceKeeps, ZenonT(30)
  <2>3. CASE Extend \/ LinkSpan \/ CommitSpan \/ CommitRoot
    BY <2>3, WriterStepKeeps, Zenon
  <2>4. CASE AppendIndex \/ InvalidateSector \/ InvalidateEnd
    BY <2>4, AppendIndexKeeps, InvalidateSectorKeeps, InvalidateEndKeeps, ZenonT(30)
  <2>5. CASE InvalidateSpan
    BY <2>5, WalkKeeps DEF InvalidateSpan
  <2>6. CASE CompactPublish \/ CompactErase \/ CompactFail \/ CompactRetract
    BY <2>6, CompactPublishKeeps, CompactEraseKeeps, CompactFailKeeps, ZenonT(30)
  <2> QED  BY <1>5, <2>1, <2>2, <2>3, <2>4, <2>5, <2>6, ZenonT(30) DEF Running
<1>6. CASE Gc
  BY <1>6, GcLeaveKeeps, GcEraseKeeps, GcClassifyKeeps, GcTombstoneKeeps, ZenonT(30) DEF Gc
<1>7. CASE PowerLoss
  BY <1>7, PowerLossKeeps
<1> QED  BY <1>1, <1>2, <1>3, <1>4, <1>5, <1>6, <1>7, ZenonT(30) DEF Next

(* The invariant holds in every reachable state: the records a writer left   *)
(* uncommitted are where fffs_close looks for them, the sectors it writes in *)
(* have room for its records, no sector it has open is given to another      *)
(* writer, collected or compacted, and no span runs past the flash.          *)
THEOREM Invariance == Spec => []IInv
<1>1. Init => IInv
  BY InitHolds
<1>2. IInv /\ [Next]_vars => IInv'
  BY NextKeeps
<1> QED  BY <1>1, <1>2, PTL DEF Spec

(* Two open writers never write in the same sector: fffs_alloc_next_sector   *)
(* gives out no sector that fffs_sector_is_open_for_writing reports, and     *)
(* what it reports covers every sector of the span under way.                *)
THEOREM WritersStayApart == Spec => []WritersApart
<1>1. IInv => WritersApart
  BY DEF IInv, Filed, Writing, Held, WritersApart
<1> QED  BY <1>1, Invariance, PTL

(* The variables keep their types: no sector takes more records than         *)
(* FFFS_ALLOC_MAX_MD_RECORDS_PER_SECTOR, and index, collector and allocator  *)
(* name data sectors only.                                                   *)
THEOREM TypeCorrect == Spec => []TypeOK
<1>1. ASSUME IInv
      PROVE  TypeOK
  <2>1. \A s \in Sectors : SectorOK(flash[s])
    <3> SUFFICES ASSUME NEW s \in Sectors
                 PROVE  SectorOK(flash[s])
      OBVIOUS
    <3>1. flash[s] \in SectorType /\ Len(flash[s].recs) <= MaxRecords
      BY <1>1, Zenon DEF IInv, Flashed, Sound
    <3> QED  BY <3>1, SectorIsOK, Zenon
  <2> QED  BY <1>1, <2>1, ZenonT(30) DEF IInv, Called, Ranges, TypeOK
<1> QED  BY <1>1, Invariance, PTL

=============================================================================
