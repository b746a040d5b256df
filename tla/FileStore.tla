----------------------------- MODULE FileStore -----------------------------
(***************************************************************************)
(* Data sectors: open, write, read, close and delete of files, the eager    *)
(* invalidation of replaced chains, garbage collection of sectors and the   *)
(* root-only compaction that runs when an allocation finds no room          *)
(* (fffs_file.c, fffs_file_md.c, fffs_gc.c and the policy-free part of      *)
(* fffs_alloc.c).                                                           *)
(*                                                                          *)
(* The library runs one API call at a time, so calls interleave only at     *)
(* their ends: pc is "idle" between calls.  A call that programs flash      *)
(* several times takes several steps, and power may fail between them.      *)
(*                                                                          *)
(* The index is one atomic step per append; module IndexLog shows that the  *)
(* log gives exactly that.  Which sector the cursors and the allocation map *)
(* would try first is left open: any sector the flash checks accept may be  *)
(* taken.                                                                   *)
(***************************************************************************)
EXTENDS Naturals, FiniteSets, Sequences

CONSTANTS
  N,              \* data sectors, numbered 1..N; 0 is "no sector"
  MaxRecords,     \* FFFS_ALLOC_MAX_MD_RECORDS_PER_SECTOR
  MaxExtents,     \* bound: extents of one file
  SlotCount,      \* slots of the index, numbered 1..SlotCount
  Names,          \* file names
  HomeSlot,       \* HomeSlot[n]: normalised hash of the name
  Handles,        \* struct fffs_file objects of the application
  Versions,       \* ghost: identities of file contents
  RootsFit,       \* a root fits in every sector that takes another record
  IdleGc,         \* the application calls fffs_gc_step between other calls
  PowerLosses,    \* bound: power losses in one behaviour
  CrashAt,        \* places in a call where power may fail
  Overlap         \* calls the application makes on a name it has open:
                  \* a subset of {"delete", "write"}

ASSUME FileStoreAssumption ==
  /\ N \in Nat \ {0}
  /\ MaxRecords \in Nat \ {0}
  /\ MaxExtents \in Nat \ {0}
  /\ SlotCount \in Nat \ {0}
  /\ HomeSlot \in [Names -> 1..SlotCount]
  /\ Versions \subseteq Nat
  /\ RootsFit \in BOOLEAN /\ IdleGc \in BOOLEAN
  /\ PowerLosses \in Nat
  /\ Overlap \subseteq {"delete", "write"}
  /\ 0 \notin Handles    \* me = 0: a call without a handle

Places == {"idle", "alloc", "reclaim", "extend", "link", "commit", "root",
           "append", "invalidate", "compact", "publish", "retract"}

ASSUME CrashAtAssumption == CrashAt \subseteq Places

VARIABLES
  flash,   \* flash[s]: footer state, full hint, what lies past the last
           \* record, and the metadata records in walk order
  index,   \* index[slot]: head sector of the slot's file, 0 when it has none
  file,    \* file[h]: the open file, or Closed
  gc,      \* the sector being walked (0: none), position and live_seen
  pc,      \* where the running API call is
  me,      \* handle of the running call, 0 for delete
  got,     \* sector the allocator returned to the running write
  left,    \* fffs_gc_until_erased may still come to sectors from here on
  comp,    \* compaction: source, entry, entries copied, destination,
           \* candidates, those tried, and whether this is the relaxed pass
  walk,    \* fffs_invalidate_old_chain: span, sector within it, next span
  losses   \* power losses so far

vars == <<flash, index, file, gc, pc, me, got, left, comp, walk, losses>>

Sectors == 1..N
Slots == 1..SlotCount
Closed == [mode |-> "closed"]
NoGc == [at |-> 0, pos |-> 0, live |-> FALSE]
NoComp == [src |-> 0, entry |-> 1, copied |-> 0, dest |-> 0, cands |-> {}, tried |-> {},
           relaxed |-> FALSE]
NoWalk == [cur |-> 0, i |-> 0, span |-> 0, next |-> 0, hint |-> 0,
           first |-> FALSE, slot |-> 0]

NoName == "none"

Blank == [foot |-> "erased", full |-> FALSE, tail |-> "clean", recs |-> <<>>]

-----------------------------------------------------------------------------
(* Metadata records.  A record carries its slot, type, lifecycle state,     *)
(* span link, and, for the properties, which extent of which version its    *)
(* data is.  Only root records carry the name and the file size.            *)

Record(slot, type, st, next, span, ver, ext, name, size) ==
  [slot |-> slot, type |-> type, st |-> st, next |-> next, span |-> span,
   ver |-> ver, ext |-> ext, name |-> name, size |-> size]

Positions(s, slot, st) ==
  {k \in DOMAIN flash[s].recs :
     flash[s].recs[k].slot = slot /\ flash[s].recs[k].st = st}

First(S) == CHOOSE k \in S : \A j \in S : k <= j

HasLive(s, slot) ==
  s \in Sectors /\ flash[s].foot = "live" /\ Positions(s, slot, "live") # {}

ReadMd(s, slot) == flash[s].recs[First(Positions(s, slot, "live"))]

(* Successor of a sector when a file is read: the next sector of the span,  *)
(* or the span's link.                                                      *)
NextSector(s, slot) ==
  LET r == ReadMd(s, slot) IN IF r.span > 1 THEN s + 1 ELSE r.next

(* Heads of the spans of a chain, as the collector walks it: up to its end,  *)
(* or up to and with the first sector that cannot be read.                   *)
SpanAt(slot, head) ==
  LET step[k \in 0..N] ==
        IF k = 0 THEN head
        ELSE LET p == step[k-1] IN IF HasLive(p, slot) THEN ReadMd(p, slot).next ELSE 0
  IN  step
SpanHeads(slot, head) == {SpanAt(slot, head)[k] : k \in 0..N} \ {0}

(* The walk meets such a sector, or comes to no end.                         *)
ChainBroken(slot, head) ==
  SpanAt(slot, head)[N] # 0 \/ \E c \in SpanHeads(slot, head) : ~HasLive(c, slot)

\* Mutant: only the head of a span counts as reached.
ReachableFromChainHeadsOnly(slot, head, s) ==
  \E c \in SpanHeads(slot, head) : HasLive(c, slot) /\ s = c

ReachableFromChain(slot, head, s) ==
  \E c \in SpanHeads(slot, head) :
     HasLive(c, slot) /\ s \in c..(c + ReadMd(c, slot).span - 1)

-----------------------------------------------------------------------------
(* Open files.                                                              *)

Registered(h) == file[h].mode \in {"read", "write"}

OpenedBy(modes, n) == \E h \in Handles : file[h].mode \in modes /\ file[h].name = n

\* Mutant: readers do not pin their slot.
SlotIsPinnedWriters(slot) ==
  \E h \in Handles : file[h].mode = "write" /\ file[h].slot = slot

SlotIsPinned(slot) == \E h \in Handles : Registered(h) /\ file[h].slot = slot

\* Mutant: the uncommitted root's sector is not protected.
OpenForWritingNoHead(s) ==
  \E h \in Handles :
     /\ file[h].mode = "write"
     /\ s = file[h].cur \/ (file[h].span # 0 /\ s \in file[h].span..file[h].cur)

OpenForWriting(s) ==
  \E h \in Handles :
     /\ file[h].mode = "write"
     /\ \/ s = file[h].head
        \/ s = file[h].cur
        \/ file[h].span # 0 /\ s \in file[h].span..file[h].cur

(* fffs_index_resolve: the probe sequence visits every slot once, so a name  *)
(* in the index is found wherever it is, and a new one gets the first slot   *)
(* that is neither in the index nor pinned.  A root that cannot be read      *)
(* before the match makes it fail.                                           *)
ProbeDistance(n, slot) == (slot + SlotCount - HomeSlot[n]) % SlotCount

RootReadable(slot) ==
  HasLive(index[slot], slot) /\ ReadMd(index[slot], slot).type = "root"
NameAt(slot) == ReadMd(index[slot], slot).name

\* Mutant: the search ends after the home slot.
MatchesHomeOnly(n) ==
  {slot \in {HomeSlot[n]} : RootReadable(slot) /\ NameAt(slot) = n}

Matches(n) == {slot \in Slots : RootReadable(slot) /\ NameAt(slot) = n}
\* Mutant: a slot that an open handle pins counts as free.
FreeSlotsPinnedToo == {slot \in Slots : index[slot] = 0}

FreeSlots == {slot \in Slots : index[slot] = 0 /\ ~SlotIsPinned(slot)}
FirstProbed(n, S) ==
  CHOOSE slot \in S : \A t \in S : ProbeDistance(n, slot) <= ProbeDistance(n, t)

Resolves(n) ==
  \A u \in Slots : index[u] = 0 \/ RootReadable(u)
     \/ \E m \in Matches(n) : ProbeDistance(n, m) < ProbeDistance(n, u)

-----------------------------------------------------------------------------
(* Room for a new record, and programming one.                              *)

\* Mutant: a sector with a live record of the slot is accepted.
FreeWindowSameSlot(s, slot, continuation, relaxed) ==
  /\ flash[s].tail = "clean"
  /\ \/ flash[s].foot = "erased"
     \/ /\ ~continuation /\ flash[s].foot = "live" /\ ~flash[s].full
        /\ Len(flash[s].recs) < MaxRecords

(* Sizes are left out.  So is the full mark that the check itself sets on a  *)
(* sector with a continuation, too many records or too little room: the      *)
(* first two refuse a sector for good without it, and of the third it makes  *)
(* the next search come up empty sooner, as any search here may.             *)
FreeWindow(s, slot, continuation, relaxed) ==
  /\ flash[s].tail = "clean"
  /\ \/ flash[s].foot = "erased"
     \/ /\ ~continuation
        /\ flash[s].foot = "live"
        /\ Len(flash[s].recs) < MaxRecords
        /\ Positions(s, slot, "live") = {}
        /\ relaxed \/ (~flash[s].full /\ \A k \in DOMAIN flash[s].recs :
                                            flash[s].recs[k].type = "root")

\* Mutant: sectors of open writers are not skipped.
CanAllocateInUse(s, f) == FreeWindow(s, f.slot, f.cur # 0, FALSE)

CanAllocate(s, f) ==
  /\ ~OpenForWriting(s)
  /\ FreeWindow(s, f.slot, f.cur # 0, FALSE)

WithRecord(sec, r) ==
  [sec EXCEPT !.foot = "live", !.tail = "clean", !.recs = Append(@, r),
              !.full = @ \/ r.type = "cont"]

(* Nothing reads the other fields of a tombstoned record again.             *)
Tombstoned(r) == [r EXCEPT !.st = "tomb", !.next = 0, !.span = 0, !.ver = 0, !.ext = 0,
                           !.size = 0, !.slot = 0, !.name = NoName]

WithTombstone(s, slot) ==
  IF HasLive(s, slot)
  THEN [flash[s] EXCEPT !.recs[First(Positions(s, slot, "live"))] = Tombstoned(@)]
  ELSE flash[s]

-----------------------------------------------------------------------------
Init ==
  /\ flash = [s \in Sectors |-> Blank]
  /\ index = [slot \in Slots |-> 0]
  /\ file = [h \in Handles |-> Closed]
  /\ gc = NoGc
  /\ pc = "idle" /\ me = 0 /\ got = 0 /\ left = 0
  /\ comp = NoComp /\ walk = NoWalk
  /\ losses = 0

(* A write gets a version that no other record or file of the slot has.     *)
VersionsOf(slot) ==
  UNION {{flash[s].recs[k].ver : k \in {j \in DOMAIN flash[s].recs :
                                         flash[s].recs[j].slot = slot}} : s \in Sectors}
  \cup {file[h].ver : h \in {g \in Handles : file[g] # Closed /\ file[g].slot = slot}}

(* fffs_open for reading.                                                   *)
OpenRead(h, n) ==
  /\ pc = "idle" /\ file[h] = Closed /\ Resolves(n) /\ Matches(n) # {}
  /\ OpenedBy({"write"}, n) => "write" \in Overlap
  /\ LET slot == FirstProbed(n, Matches(n))
         root == ReadMd(index[slot], slot)
     IN  file' = [file EXCEPT ![h] =
           [mode |-> "read", slot |-> slot, name |-> n, ver |-> root.ver, ext |-> 0,
            cur |-> index[slot], link |-> NextSector(index[slot], slot),
            size |-> root.size]]
  /\ UNCHANGED <<flash, index, gc, pc, me, got, left, comp, walk, losses>>

(* fffs_open for writing, up to the allocation of the first sector.  The    *)
(* handle is registered only when the allocation has succeeded.             *)
OpenWrite(h, n) ==
  /\ pc = "idle" /\ file[h] = Closed /\ Resolves(n)
  /\ OpenedBy({"read", "write"}, n) => "write" \in Overlap
  /\ \E slot \in IF Matches(n) # {} THEN {FirstProbed(n, Matches(n))}
                 ELSE IF FreeSlots # {} THEN {FirstProbed(n, FreeSlots)} ELSE {} :
       LET unused == Versions \ VersionsOf(slot) IN
       /\ unused # {}
       /\ file' = [file EXCEPT ![h] =
            [mode |-> "opening", slot |-> slot, name |-> n, ver |-> First(unused),
             ext |-> 0, head |-> 0, cur |-> 0, span |-> 0, old |-> index[slot],
             oldNext |-> IF index[slot] = 0 THEN 0 ELSE ReadMd(index[slot], slot).next]]
  /\ pc' = "alloc" /\ me' = h
  /\ UNCHANGED <<flash, index, gc, got, left, comp, walk, losses>>

(* fffs_write runs out of the extent and allocates the next one.  The data   *)
(* it programs shows only after a power loss (see InFlight).                 *)
WriteOverflow(h) ==
  /\ pc = "idle" /\ file[h].mode = "write" /\ file[h].ext + 1 < MaxExtents
  /\ pc' = "alloc" /\ me' = h
  /\ UNCHANGED <<flash, index, file, gc, got, left, comp, walk, losses>>

(* What the call does with the sector it is given: open starts the file and *)
(* returns, write goes on to the metadata of the extent it leaves.          *)
Take(s) ==
  /\ IF file[me].mode = "opening"
     THEN /\ file' = [file EXCEPT ![me].mode = "write", ![me].head = s,
                                  ![me].cur = s, ![me].span = s]
          /\ pc' = "idle" /\ me' = 0 /\ got' = 0
     ELSE pc' = "extend" /\ got' = s /\ UNCHANGED <<file, me>>
  /\ left' = 0 /\ comp' = NoComp

(* fffs_alloc_next_sector: take a sector the flash checks accept; when the   *)
(* cursor, map and reservations offer none, visit every sector with the      *)
(* collector, then compact.  They are hints that may hide any sector, so the *)
(* search may come up empty at any time.                                     *)
Allocate(s) ==
  /\ pc = "alloc" /\ CanAllocate(s, file[me])
  /\ Take(s)
  /\ UNCHANGED <<flash, index, gc, walk, losses>>

Reclaim ==
  /\ pc = "alloc"
  /\ pc' = "reclaim" /\ left' = 1
  /\ gc' \in {gc, NoGc}
  /\ UNCHANGED <<flash, index, file, me, got, comp, walk, losses>>

(* try_compaction_reserve_for_alloc: the sector kept back for compaction is   *)
(* given up after the strict pass of compaction.  alloc_sector_once keeps    *)
(* back no sector that a writer has open.                                    *)
GiveUpReserve(s) ==
  /\ pc = "reclaim" /\ gc.at = 0 /\ ~comp.relaxed /\ CanAllocate(s, file[me])
  /\ Take(s)
  /\ UNCHANGED <<flash, index, gc, walk, losses>>

(* No sector for the call: open fails, write fails with the file still open. *)
AllocationFails ==
  /\ file' = IF file[me].mode = "opening" THEN [file EXCEPT ![me] = Closed] ELSE file
  /\ pc' = "idle" /\ me' = 0 /\ left' = 0 /\ comp' = NoComp

(* Neither pass of compaction erased a sector (fsinfo may rule out every     *)
(* candidate).                                                               *)
NoSpace ==
  /\ pc = "reclaim" /\ gc.at = 0 /\ comp.relaxed
  /\ AllocationFails
  /\ UNCHANGED <<flash, index, gc, got, walk, losses>>

(* Link and lifecycle bytes of the uncommitted record of the handle's slot.  *)
(* The lookup is by slot: the first uncommitted record of it in the sector.  *)
Finish(s, f, next, span, st, size) ==
  LET k == First(Positions(s, f.slot, "open")) IN
  [flash EXCEPT ![s].recs[k] =
     [@ EXCEPT !.next = next, !.span = span, !.st = st, !.size = size]]

PendingSpan(f) == f.cur - f.span + 1

ExtentRecord(f, st, next, span) ==
  Record(f.slot, IF f.cur = f.head THEN "root" ELSE "cont", st, next, span,
         f.ver, f.ext, f.name, 0)

(* start_next_extent after the allocation.  The head of a span gets an       *)
(* uncommitted record, a sector inside one a live record.  A sector next to  *)
(* the current one extends the span.                                         *)
Extend ==
  /\ pc = "extend"
  /\ LET f == file[me] IN
     /\ flash' = [flash EXCEPT ![f.cur] = WithRecord(@,
          IF f.cur = f.span THEN ExtentRecord(f, "open", 0, 0)
                            ELSE ExtentRecord(f, "live", got, 1))]
     /\ IF got = f.cur + 1
        THEN /\ file' = [file EXCEPT ![me].cur = got, ![me].ext = @ + 1]
             /\ pc' = "idle" /\ me' = 0 /\ got' = 0
        ELSE pc' = "link" /\ UNCHANGED <<file, me, got>>
  /\ UNCHANGED <<index, gc, left, comp, walk, losses>>

(* flush_pending_span_head(next_sector, false): a root stays uncommitted, a  *)
(* continuation becomes live.                                                *)
LinkSpan ==
  /\ pc = "link"
  /\ LET f == file[me] IN
     /\ Positions(f.span, f.slot, "open") # {}
     /\ flash' = [Finish(f.span, f, got, PendingSpan(f),
                         IF f.span = f.head THEN "open" ELSE "live", 0)
                  EXCEPT ![f.span].full = TRUE]
     /\ file' = [file EXCEPT ![me].cur = got, ![me].span = got, ![me].ext = @ + 1]
  /\ pc' = "idle" /\ me' = 0 /\ got' = 0
  /\ UNCHANGED <<index, gc, left, comp, walk, losses>>

\* Mutant: the replaced file is not looked up again.
CloseNoRefresh(h) ==
  /\ pc = "idle" /\ file[h].mode = "write"
  /\ flash' = [flash EXCEPT ![file[h].cur] = WithRecord(@,
       IF file[h].cur = file[h].span THEN ExtentRecord(file[h], "open", 0, 0)
                                     ELSE ExtentRecord(file[h], "live", 0, 1))]
  /\ pc' = "commit" /\ me' = h
  /\ UNCHANGED <<index, file, gc, got, left, comp, walk, losses>>

(* fffs_close of a writer: the last extent's record, and a fresh look at the *)
(* replaced file when its head sector became this file's head.               *)
Close(h) ==
  /\ pc = "idle" /\ file[h].mode = "write"
  /\ LET f == file[h]
         fresh == index[f.slot]
     IN
     /\ flash' = [flash EXCEPT ![f.cur] = WithRecord(@,
          IF f.cur = f.span THEN ExtentRecord(f, "open", 0, 0)
                            ELSE ExtentRecord(f, "live", 0, 1))]
     /\ file' = IF f.old = f.head /\ (fresh = 0 \/ RootReadable(f.slot))
                THEN [file EXCEPT
                        ![h].old = fresh,
                        ![h].oldNext = IF fresh = 0 THEN 0 ELSE ReadMd(fresh, f.slot).next]
                ELSE file
  /\ pc' = "commit" /\ me' = h
  /\ UNCHANGED <<index, gc, got, left, comp, walk, losses>>

\* Mutant: the deferred root is never made live.
CommitSpanSkipsRoot ==
  /\ pc = "commit" /\ Positions(file[me].span, file[me].slot, "open") # {}
  /\ flash' = Finish(file[me].span, file[me], 0, PendingSpan(file[me]), "live", file[me].ext + 1)
  /\ pc' = "append"
  /\ UNCHANGED <<index, file, gc, me, got, left, comp, walk, losses>>

(* flush_pending_span_head(0, true), and fffs_finish_deferred_root_metadata  *)
(* when the root was left uncommitted by an earlier extent.                  *)
CommitSpan ==
  /\ pc = "commit"
  /\ LET f == file[me] IN
     /\ Positions(f.span, f.slot, "open") # {}
     /\ flash' = Finish(f.span, f, 0, PendingSpan(f), "live", f.ext + 1)
     /\ pc' = IF f.span = f.head THEN "append" ELSE "root"
  /\ UNCHANGED <<index, file, gc, me, got, left, comp, walk, losses>>

CommitRoot ==
  /\ pc = "root"
  /\ LET f == file[me] IN
     /\ Positions(f.head, f.slot, "open") # {}
     /\ LET r == flash[f.head].recs[First(Positions(f.head, f.slot, "open"))]
        IN  flash' = Finish(f.head, f, r.next, r.span, "live", f.ext + 1)
  /\ pc' = "append"
  /\ UNCHANGED <<index, file, gc, me, got, left, comp, walk, losses>>

(* The index append makes the file current; a root with more extents marks   *)
(* its sector full; then the replaced chain is invalidated.                  *)
AppendIndex ==
  /\ pc = "append"
  /\ LET f == file[me] IN
     /\ index' = [index EXCEPT ![f.slot] = f.head]
     /\ flash' = [flash EXCEPT ![f.head].full = @ \/ f.ext > 0]
     /\ walk' = [NoWalk EXCEPT !.next = f.old, !.hint = f.oldNext, !.first = TRUE]
  /\ pc' = "invalidate"
  /\ UNCHANGED <<file, gc, me, got, left, comp, losses>>

(* fffs_delete_file up to its index append.                                  *)
Delete(n) ==
  /\ pc = "idle" /\ Resolves(n) /\ Matches(n) # {}
  /\ LET slot == FirstProbed(n, Matches(n)) IN
     /\ SlotIsPinned(slot) => "delete" \in Overlap
     /\ index' = [index EXCEPT ![slot] = 0]
     /\ walk' = [NoWalk EXCEPT !.next = index[slot], !.first = TRUE, !.slot = slot,
                               !.hint = ReadMd(index[slot], slot).next]
  /\ pc' = "invalidate"
  /\ UNCHANGED <<flash, file, gc, me, got, left, comp, losses>>

(* fffs_invalidate_old_chain, one tombstone per step.  The first link comes  *)
(* from the caller, the others from the records.                             *)
WalkSlot == IF me = 0 THEN walk.slot ELSE file[me].slot

InvalidateSpan ==
  /\ pc = "invalidate" /\ walk.i = walk.span /\ HasLive(walk.next, WalkSlot)
  /\ LET r == ReadMd(walk.next, WalkSlot) IN
     walk' = [walk EXCEPT !.cur = walk.next, !.i = 0, !.span = r.span, !.first = FALSE,
                          !.next = IF walk.first THEN walk.hint ELSE r.next]
  /\ UNCHANGED <<flash, index, file, gc, pc, me, got, left, comp, losses>>

(* fffs_tombstone_metadata_for_slot gives up at a bad end of the records.    *)
(* (And at a spoiled footer, which no sector of a readable chain has.)       *)
TombstoneFails(s, slot) ==
  s \in Sectors /\ flash[s].foot = "live" /\ flash[s].tail = "torn" /\ ~HasLive(s, slot)

InvalidateSector ==
  /\ pc = "invalidate" /\ walk.i < walk.span
  /\ ~TombstoneFails(walk.cur + walk.i, WalkSlot)
  /\ flash' = [flash EXCEPT ![walk.cur + walk.i] =
                 WithTombstone(walk.cur + walk.i, WalkSlot)]
  /\ walk' = [walk EXCEPT !.i = @ + 1]
  /\ UNCHANGED <<index, file, gc, pc, me, got, left, comp, losses>>

(* The chain ends, or a sector of it cannot be read or tombstoned: the call  *)
(* returns.                                                                  *)
InvalidateEnd ==
  /\ pc = "invalidate"
  /\ IF walk.i < walk.span THEN TombstoneFails(walk.cur + walk.i, WalkSlot)
                           ELSE ~HasLive(walk.next, WalkSlot)
  /\ file' = IF me = 0 THEN file ELSE [file EXCEPT ![me] = Closed]
  /\ pc' = "idle" /\ me' = 0 /\ walk' = NoWalk
  /\ UNCHANGED <<flash, index, gc, got, left, comp, losses>>

(* fffs_read past the end of an extent, and fffs_close of a reader.          *)
Read(h) ==
  /\ pc = "idle" /\ file[h].mode = "read" /\ file[h].ext + 1 < file[h].size
  /\ LET s == file[h].link IN
     /\ HasLive(s, file[h].slot)
     /\ file' = [file EXCEPT ![h].cur = s, ![h].ext = @ + 1,
                             ![h].link = NextSector(s, file[h].slot)]
  /\ UNCHANGED <<flash, index, gc, pc, me, got, left, comp, walk, losses>>

CloseRead(h) ==
  /\ pc = "idle" /\ file[h].mode = "read"
  /\ file' = [file EXCEPT ![h] = Closed]
  /\ UNCHANGED <<flash, index, gc, pc, me, got, left, comp, walk, losses>>

-----------------------------------------------------------------------------
(* gc_step.  It runs from fffs_gc_step between calls and, in an allocation,  *)
(* from fffs_gc_until_erased, which takes the first sector it erases.  The   *)
(* allocation map and the compaction reserve may hide any sector from it, so *)
(* which sector it comes to next is left open.  In one allocation it comes   *)
(* to each at most once; where it starts makes no difference, as a visit     *)
(* that erases nothing changes no other sector's classification.             *)
Visits(s) ==
  /\ gc.at \in {0, s}
  /\ (pc = "idle" /\ IdleGc) \/ (pc = "reclaim" /\ s >= left)

GcLeave(s) ==
  /\ gc' = NoGc
  /\ left' = IF pc = "reclaim" THEN s + 1 ELSE left
  /\ UNCHANGED <<flash, index, file, pc, me, got, walk, losses>>

(* Since a walk began between calls, a writer has opened the sector or the   *)
(* map hides it.                                                             *)
GcSkip(s) ==
  /\ gc.at = s /\ Visits(s)
  /\ pc = "idle" \/ OpenForWriting(s)
  /\ GcLeave(s)
  /\ UNCHANGED comp

(* Dead, foreign or dirty sectors are erased, one erase per step.            *)
GcErase(s) ==
  /\ Visits(s) /\ ~OpenForWriting(s) /\ flash[s].foot # "live"
  /\ flash' = [flash EXCEPT ![s] = Blank]
  /\ gc' = NoGc
  /\ IF pc = "reclaim" THEN Take(s) ELSE UNCHANGED <<file, pc, me, got, left, comp>>
  /\ UNCHANGED <<index, walk, losses>>

Walks(s) == Visits(s) /\ ~OpenForWriting(s) /\ flash[s].foot = "live"
WalkDone(s) == gc.pos >= Len(flash[s].recs)

RecordIsLive(s, r) ==
  /\ r.st = "live"
  /\ \/ SlotIsPinned(r.slot)
     \/ (index[r.slot] # 0 /\ ReachableFromChain(r.slot, index[r.slot], s))

(* gc_classify_record.  A live record that its file's chain no longer        *)
(* reaches is tombstoned; a record whose slot is not in the index is only    *)
(* counted as dead.  A chain that cannot be followed to its end stops the    *)
(* collection, and the allocation it runs for.                               *)
GcClassify(s) ==
  /\ Walks(s) /\ ~WalkDone(s)
  /\ LET r == flash[s].recs[gc.pos + 1]
         live == RecordIsLive(s, r)
         lost == r.st = "live" /\ ~live /\ index[r.slot] # 0
     IN
     IF lost /\ ChainBroken(r.slot, index[r.slot])
     THEN /\ gc' = NoGc /\ flash' = flash
          /\ IF pc = "reclaim" THEN AllocationFails ELSE UNCHANGED <<file, pc, me, left, comp>>
     ELSE /\ gc' = [at |-> s, pos |-> gc.pos + 1, live |-> gc.live \/ live]
          /\ flash' = IF lost THEN [flash EXCEPT ![s] = WithTombstone(s, r.slot)] ELSE flash
          /\ UNCHANGED <<file, pc, me, left, comp>>
  /\ UNCHANGED <<index, got, walk, losses>>

(* A kept sector whose live records are all roots of unpinned slots is a     *)
(* candidate for compaction.                                                 *)
Candidate(s) ==
  \A k \in DOMAIN flash[s].recs :
    RecordIsLive(s, flash[s].recs[k]) =>
      flash[s].recs[k].type = "root" /\ ~SlotIsPinned(flash[s].recs[k].slot)

GcKeep(s) ==
  /\ Walks(s) /\ WalkDone(s) /\ gc.live
  /\ GcLeave(s)
  /\ comp' = IF pc = "reclaim" /\ Candidate(s)
             THEN [comp EXCEPT !.cands = @ \cup {s}] ELSE comp

\* Mutant: the sector's tombstone is not programmed.
GcTombstoneForgets(s) ==
  /\ Walks(s) /\ WalkDone(s) /\ ~gc.live
  /\ gc' = [NoGc EXCEPT !.at = s]
  /\ UNCHANGED <<flash, index, file, pc, me, got, left, comp, walk, losses>>

GcTombstone(s) ==
  /\ Walks(s) /\ WalkDone(s) /\ ~gc.live
  /\ flash' = [flash EXCEPT ![s].foot = "dead"]
  /\ gc' = [NoGc EXCEPT !.at = s]
  /\ UNCHANGED <<index, file, pc, me, got, left, comp, walk, losses>>

Gc == \E s \in Sectors :
        GcSkip(s) \/ GcErase(s) \/ GcClassify(s) \/ GcKeep(s) \/ GcTombstone(s)

-----------------------------------------------------------------------------
(* Root-only compaction of the candidates of the collection just made.       *)
CompactPick(s) ==
  /\ pc = "reclaim" /\ gc.at = 0 /\ s \in comp.cands \ comp.tried
  /\ comp' = [comp EXCEPT !.src = s, !.tried = @ \cup {s}]
  /\ pc' = "compact" /\ left' = N + 1
  /\ UNCHANGED <<flash, index, file, gc, me, got, walk, losses>>

(* The relaxed pass tries the same candidates again.                         *)
CompactRelax ==
  /\ pc = "reclaim" /\ gc.at = 0 /\ ~comp.relaxed
  /\ comp' = [comp EXCEPT !.tried = {}, !.relaxed = TRUE]
  /\ left' = N + 1
  /\ UNCHANGED <<flash, index, file, gc, pc, me, got, walk, losses>>

ToCopy == {k \in DOMAIN flash[comp.src].recs :
             k >= comp.entry /\ flash[comp.src].recs[k].st = "live"}
NextRoot == flash[comp.src].recs[First(ToCopy)]

Movable == NextRoot.type = "root" /\ ~SlotIsPinned(NextRoot.slot)

Destinations ==
  {d \in Sectors \ {comp.src} :
     ~OpenForWriting(d) /\ FreeWindow(d, NextRoot.slot, FALSE, comp.relaxed)}

\* Mutant: the moved root is not appended to the index.
CompactCopyNoPublish(d) ==
  /\ pc = "compact" /\ ToCopy # {} /\ Movable /\ d \in Destinations
  /\ flash' = [flash EXCEPT ![d] = WithRecord(@, [NextRoot EXCEPT !.span = 1])]
  /\ comp' = [comp EXCEPT !.copied = First(ToCopy), !.entry = First(ToCopy) + 1]
  /\ UNCHANGED <<index, file, gc, pc, me, got, left, walk, losses>>

(* gc_copy_root_record: data, then a live root record at the destination,    *)
(* then the index.  Every live-looking root is copied.                       *)
CompactCopy(d) ==
  /\ pc = "compact" /\ ToCopy # {} /\ Movable /\ d \in Destinations
  /\ LET r == NextRoot IN
     flash' = [flash EXCEPT ![d] = WithRecord(@,
       [r EXCEPT !.span = 1, !.next = IF r.span > 1 THEN comp.src + 1 ELSE r.next])]
  /\ comp' = [comp EXCEPT !.entry = First(ToCopy), !.dest = d]
  /\ pc' = "publish"
  /\ UNCHANGED <<index, file, gc, me, got, left, walk, losses>>

CompactPublish ==
  /\ pc = "publish"
  /\ index' = [index EXCEPT ![flash[comp.src].recs[comp.entry].slot] = comp.dest]
  /\ comp' = [comp EXCEPT !.copied = comp.entry, !.entry = @ + 1, !.dest = 0]
  /\ pc' = "compact"
  /\ UNCHANGED <<flash, file, gc, me, got, left, walk, losses>>

CompactErase ==
  /\ pc = "compact" /\ ToCopy = {} /\ flash[comp.src].tail # "torn"
  /\ flash' = [flash EXCEPT ![comp.src] = Blank]
  /\ Take(comp.src)
  /\ UNCHANGED <<index, gc, walk, losses>>

Copied == {k \in 1..comp.copied : flash[comp.src].recs[k].st = "live"
                                  /\ flash[comp.src].recs[k].type = "root"}

NextCandidate == pc' = "reclaim" /\ comp' = [comp EXCEPT !.src = 0, !.entry = 1, !.copied = 0]

(* A record that may not move or fits nowhere, or an unreadable tail: the    *)
(* copied roots are tombstoned in the source and the next candidate is       *)
(* tried.  Sizes are not modelled: a root fits in any erased sector, and in  *)
(* others when RootsFit.                                                     *)
CompactFail ==
  /\ pc = "compact"
  /\ IF ToCopy = {} THEN flash[comp.src].tail = "torn"
     ELSE ~Movable \/ \A d \in Destinations : flash[d].foot = "live" /\ ~RootsFit
  /\ IF Copied = {} THEN NextCandidate ELSE pc' = "retract" /\ UNCHANGED comp
  /\ UNCHANGED <<flash, index, file, gc, me, got, left, walk, losses>>

CompactRetract ==
  /\ pc = "retract"
  /\ flash' = [flash EXCEPT ![comp.src] =
                  WithTombstone(comp.src, @.recs[First(Copied)].slot)]
  /\ IF Cardinality(Copied) = 1 THEN NextCandidate ELSE UNCHANGED <<pc, comp>>
  /\ UNCHANGED <<index, file, gc, me, got, left, walk, losses>>

-----------------------------------------------------------------------------
(* Power loss, possibly in the middle of a program or erase.  A torn record  *)
(* leaves bytes without a type, a tail the metadata walk stops at, or one    *)
(* that decodes as an uncommitted record of some slot; the footer after it,  *)
(* when there is one, is bad.  Torn lifecycle bytes make the record itself   *)
(* such a tail; a torn erase leaves no valid footer.                         *)
TornErase == [Blank EXCEPT !.foot = "dead", !.tail = "junk"]
Orphan(r, slot) ==
  [r EXCEPT !.slot = slot, !.st = "open", !.next = 0, !.span = 0, !.size = 0]
TornRecord(sec, r) ==
  IF sec.foot # "live" THEN {TornErase}
  ELSE {[sec EXCEPT !.tail = t] : t \in {"junk", "torn"}}
       \cup {[sec EXCEPT !.recs = Append(@, Orphan(r, slot))] : slot \in Slots}
TornLifecycle(s, slot) ==
  LET k == First(Positions(s, slot, "open"))
  IN  [flash[s] EXCEPT !.recs = SubSeq(@, 1, k - 1), !.tail = "torn"]

(* Data the write caches of the open files have programmed by now.           *)
InFlight ==
  {[s \in Sectors |-> IF s \in S THEN [flash[s] EXCEPT !.tail = "junk"] ELSE flash[s]] :
     S \in SUBSET {file[h].cur : h \in {g \in Handles : file[g].mode = "write"}}}

CopyTargets == IF pc = "compact" /\ ToCopy # {} /\ Movable THEN Destinations ELSE {}

(* The records that may be under way, and where.                             *)
Programming ==
  CASE pc = "idle" -> {<<file[h].cur, ExtentRecord(file[h], "open", 0, 0)>> :
                         h \in {g \in Handles : file[g].mode = "write"}}
    [] pc = "extend" -> {<<file[me].cur, ExtentRecord(file[me], "open", 0, 0)>>}
    [] OTHER -> {<<d, NextRoot>> : d \in CopyTargets}

TornCopies == {[flash EXCEPT ![d].tail = "junk"] : d \in CopyTargets}

TornRecords ==
  UNION {{[flash EXCEPT ![p[1]] = sec] : sec \in TornRecord(flash[p[1]], p[2])} :
           p \in Programming}

TornLifecycles ==
  {[flash EXCEPT ![s] = TornLifecycle(s, file[me].slot)] : s \in
     CASE pc = "commit" -> {file[me].span}
       [] pc = "root" -> {file[me].head}
       [] OTHER -> {}}

TornErases ==
  {[flash EXCEPT ![s] = TornErase] : s \in
     IF pc = "compact" /\ ToCopy = {} THEN {comp.src}
     ELSE {s \in Sectors : Visits(s) /\ ~OpenForWriting(s) /\ flash[s].foot = "dead"}}

TornFlash == InFlight \cup TornCopies \cup TornRecords \cup TornLifecycles \cup TornErases

PowerLoss ==
  /\ losses < PowerLosses /\ pc \in CrashAt
  /\ losses' = losses + 1
  /\ flash' \in TornFlash
  /\ file' = [h \in Handles |-> Closed]
  /\ gc' = NoGc
  /\ pc' = "idle" /\ me' = 0 /\ got' = 0 /\ left' = 0
  /\ comp' = NoComp /\ walk' = NoWalk
  /\ UNCHANGED index

-----------------------------------------------------------------------------
(* The steps of a call that has begun.                                       *)
Running ==
  \/ \E s \in Sectors : Allocate(s) \/ GiveUpReserve(s) \/ CompactPick(s) \/ CompactCopy(s)
  \/ CompactRelax \/ Reclaim \/ NoSpace \/ Extend \/ LinkSpan
  \/ CommitSpan \/ CommitRoot \/ AppendIndex
  \/ InvalidateSpan \/ InvalidateSector \/ InvalidateEnd
  \/ CompactPublish \/ CompactErase \/ CompactFail \/ CompactRetract

Next ==
  \/ \E h \in Handles, n \in Names : OpenRead(h, n) \/ OpenWrite(h, n)
  \/ \E h \in Handles : WriteOverflow(h) \/ Close(h) \/ Read(h) \/ CloseRead(h)
  \/ \E n \in Names : Delete(n)
  \/ Running
  \/ Gc
  \/ PowerLoss

(* A call runs to its end: nothing else runs on the device meanwhile.        *)
Spec == Init /\ [][Next]_vars /\ WF_vars(Running \/ (pc # "idle" /\ Gc))

-----------------------------------------------------------------------------
RecordType ==
  [slot : Slots \cup {0}, type : {"root", "cont"}, st : {"open", "live", "tomb"}, next : 0..N,
   span : 0..N, ver : Versions \cup {0},
   ext : 0..(MaxExtents-1), name : Names \cup {NoName}, size : 0..MaxExtents]

SectorOK(sec) ==
  /\ sec.foot \in {"erased", "live", "dead"} /\ sec.full \in BOOLEAN
  /\ sec.tail \in {"clean", "junk", "torn"}
  /\ Len(sec.recs) <= MaxRecords
  /\ \A k \in DOMAIN sec.recs : sec.recs[k] \in RecordType

(* Every sector holds at most MaxRecords well-formed records, the index       *)
(* names data sectors, and the running call is in a known state.             *)
TypeOK ==
  /\ \A s \in Sectors : SectorOK(flash[s])
  /\ index \in [Slots -> 0..N]
  /\ gc \in [at : 0..N, pos : 0..MaxRecords, live : BOOLEAN]
  /\ pc \in Places
  /\ me \in Handles \cup {0} /\ got \in 0..N /\ left \in 0..(N+1)
  /\ losses \in 0..PowerLosses

(* Extent k of the slot's file, followed as fffs_read does.                  *)
ExtentAt(slot) ==
  LET e[k \in 0..MaxExtents] ==
        IF k = 0 THEN index[slot]
        ELSE LET p == e[k-1] IN IF HasLive(p, slot) THEN NextSector(p, slot) ELSE 0
  IN  e

FileIsWhole(slot) ==
  /\ HasLive(index[slot], slot)
  /\ LET root == ReadMd(index[slot], slot)
         extent == ExtentAt(slot)
     IN
     /\ root.type = "root" /\ root.size > 0
     /\ \A k \in 0..(root.size - 1) :
          LET s == extent[k] IN
          /\ HasLive(s, slot)
          /\ ReadMd(s, slot).ver = root.ver /\ ReadMd(s, slot).ext = k

(* Every file in the index can be read to its end, and every extent of it is *)
(* the one its writer wrote at that offset: no close, delete, collection,    *)
(* compaction or power loss breaks a committed chain, except where a root    *)
(* shares its sector with an uncommitted record that a power loss left of    *)
(* its slot, or open moves the root it replaces.                             *)
Readable == \A slot \in Slots : index[slot] # 0 => FileIsWhole(slot)

(* What the index shows for a slot: the name and version of its root.        *)
Shown(slot) ==
  IF RootReadable(slot)
  THEN LET r == ReadMd(index[slot], slot) IN <<r.name, r.ver>>
  ELSE <<>>

(* What a slot shows changes only in the index append of a close or a delete *)
(* on it, and a close makes it the name and version that were written.       *)
(* Invalidation, collection and compaction change nothing.  A close does not *)
(* keep to this when a power loss has left an uncommitted record of the slot *)
(* in the sector of the new root: it makes that record live.                 *)
OnlyCommitsShow ==
  [][\A slot \in Slots : Shown(slot)' # Shown(slot) =>
       \/ pc = "idle" /\ pc' = "invalidate" /\ walk'.slot = slot /\ index'[slot] = 0
       \/ pc = "append" /\ file[me].slot = slot
          /\ Shown(slot)' = <<file[me].name, file[me].ver>>]_vars

(* No two slots of the index hold a file of the same name: fffs_index_resolve *)
(* finds the slot of a name before it grants a new one.                      *)
NamesUnique ==
  \A s, t \in Slots : Shown(s) # <<>> /\ Shown(t) # <<>> /\ NameAt(s) = NameAt(t) => s = t

(* Compaction moves roots, it never changes what the index shows: a file     *)
(* that was deleted, or never committed, does not appear because its sector  *)
(* is compacted.                                                             *)
CompactionKeepsNames ==
  [][pc = "publish" => \A slot \in Slots : Shown(slot)' = Shown(slot)]_vars

(* The extent a reader goes on to is the next one of the version it opened:  *)
(* no collection, compaction or allocation for another file replaces it.     *)
(* Holds when no name is deleted or opened for writing while it is open.     *)
ReaderSeesFile ==
  \A h \in Handles :
     file[h].mode = "read" /\ file[h].ext + 1 < file[h].size =>
       LET s == file[h].link IN
       /\ HasLive(s, file[h].slot)
       /\ ReadMd(s, file[h].slot).ver = file[h].ver
       /\ ReadMd(s, file[h].slot).ext = file[h].ext + 1

(* The weaker promise for a file that is overwritten while it is read: when  *)
(* the next sector can still be read, it is not another version's.           *)
ReadsOneVersion ==
  \A h \in Handles :
     file[h].mode = "read" /\ file[h].ext + 1 < file[h].size
       /\ HasLive(file[h].link, file[h].slot) =>
         ReadMd(file[h].link, file[h].slot).ver = file[h].ver

(* The sector under a reader is not erased before the reader closes.  Holds  *)
(* when no name is deleted while it is open: a deleted file is reclaimed     *)
(* under its reader.                                                         *)
ReclaimDeferred ==
  \A h \in Handles : file[h].mode = "read" => flash[file[h].cur].foot = "live"

(* What an open writer has written stays on flash until it closes: every     *)
(* extent it left has its record, live or uncommitted.                       *)
WrittenExtentsKept ==
  \A h \in Handles : file[h].mode = "write" =>
     \A e \in 0..(file[h].ext - 1) :
       \E s \in Sectors : flash[s].foot = "live" /\ \E k \in DOMAIN flash[s].recs :
          LET r == flash[s].recs[k] IN
          r.slot = file[h].slot /\ r.ver = file[h].ver /\ r.ext = e /\ r.st # "tomb"

(* Two open writers never write in the same sector.                          *)
WritersApart ==
  \A g, h \in Handles :
     file[g].mode = "write" /\ file[h].mode = "write" /\ g # h =>
       (file[g].span..file[g].cur) \cap (file[h].span..file[h].cur) = {}

(* A close never takes over the slot of another name, even when its own file *)
(* was deleted while it was open.                                            *)
SlotKeepsName ==
  [][\A slot \in Slots : Shown(slot) # <<>> /\ Shown(slot)' # <<>> =>
        Shown(slot)'[1] = Shown(slot)[1]]_vars

(* Every call returns: collection, compaction and chain walks all end.       *)
CallReturns == pc # "idle" ~> pc = "idle"
=============================================================================
