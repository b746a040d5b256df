----------------------------- MODULE Allocator -----------------------------
(***************************************************************************)
(* The sector allocator: fffs_alloc.c with the allocation map, and the     *)
(* parts of fffs_gc.c it calls when it finds no room.  FileStore takes any *)
(* acceptable sector; here the cursor, the map bits, the reservations of   *)
(* the writers and the compaction reserve decide.  A sector is reduced to  *)
(* what allocation looks at: whether it is erased, how many records it     *)
(* has, which of them are live, and whether another record fits.           *)
(***************************************************************************)
EXTENDS Naturals, FiniteSets, Functions

CONSTANTS
    N,              \* data sectors, numbered 1 .. N; 0 is no sector
    Writers,        \* handles that can be open for writing
    ReserveMax,     \* FFFS_ALLOC_RESERVE_SECTORS
    CompactMax,     \* FFFS_COMPACTION_RESERVE_SECTORS
    MaxRecs,        \* FFFS_ALLOC_MAX_MD_RECORDS_PER_SECTOR
    Density,        \* FFFS_ALLOC_TARGET_DENSITY
    MaxFiles        \* bound: committed files

ASSUME AllocatorAssumption ==
    /\ N \in Nat \ {0} /\ ReserveMax \in Nat /\ CompactMax \in Nat
    /\ MaxRecs \in Nat \ {0} /\ Density \in Nat /\ MaxFiles \in Nat

VARIABLES
    sec,        \* the data sectors, on flash
    used,       \* the sectors whose bit is set in the allocation map
    cursor,     \* alloc_cursor
    gcCursor,   \* gc_cursor
    reserve,    \* compaction_reserve_sectors, as a set
    writer,     \* the files open for writing
    call        \* the call of fffs_alloc_next_sector under way

vars == <<sec, used, cursor, gcCursor, reserve, writer, call>>

Sectors == 1 .. N

\* blank: every byte erased; recs: records, dead or alive; roots: live roots;
\* cont: a live continuation; fit: whether another record fits, and if so
\* whether the full hint keeps normal allocations out ("relaxed").
ErasedSector == [blank |-> TRUE, recs |-> 0, roots |-> 0, cont |-> FALSE, fit |-> "normal"]

\* head, cur, span: head, current and span_head; first, count: the reservation;
\* chain: continuation sectors already left, pinned until the close.
Closed == [head |-> 0, cur |-> 0, span |-> 0, first |-> 0, count |-> 0, chain |-> {}]

\* w: the file; skip: skip_sector; src: the sector being compacted; cands: compaction_candidates; tried: those tried.
Idle == [step |-> "idle", w |-> 0,
         skip |-> 0, src |-> 0, cands |-> {}, tried |-> {}]

\* fffs_alloc_map_mount_init and fffs_format: no bit of a data sector is set.
Init ==
    /\ sec = [s \in Sectors |-> ErasedSector]
    /\ used = {} /\ cursor = 1 /\ gcCursor = 1
    /\ reserve = {}
    /\ writer = [w \in Writers |-> Closed]
    /\ call = Idle

-----------------------------------------------------------------------------
\* Mutant: the cursor does not wrap.
NextDataSectorNoWrap(s) == s + 1
NextDataSector(s) == IF s = N THEN 1 ELSE s + 1

\* How far a scan that starts at s goes before it meets t, and the one of the
\* sectors S that it meets first, if any.
Offset(s, t) == (t + N - s) % N
First(s, S) == {t \in S : \A u \in S : Offset(s, t) <= Offset(s, u)}

Reserved(w) == writer[w].first .. (writer[w].first + writer[w].count - 1)
ReservedByOther(w, s) == \E v \in Writers \ {w} : s \in Reserved(v)

\* fffs_sector_is_open_for_writing, for one writer and for all.
Holds(w, s) ==
    \/ writer[w].head = s
    \/ writer[w].cur = s
    \/ writer[w].span # 0 /\ s \in writer[w].span .. writer[w].cur
OpenForWriting(s) == \E w \in Writers : Holds(w, s)

\* Mutant: only roots keep a sector.
LiveRootsOnly(s) == sec[s].roots > 0
\* gc_classify_record: a root is in the index; a continuation is
\* in the chain of a file, or its slot is pinned by the writer that has left it.
Live(s) == sec[s].roots > 0 \/ sec[s].cont

\* fffs_find_sector_free_window: an erased sector, or room after the records.
FreeWindow(s, normal) ==
    \/ sec[s].blank
    \/ /\ sec[s].recs \in 1 .. (MaxRecs - 1)
       /\ sec[s].fit \in (IF normal THEN {"normal"} ELSE {"normal", "relaxed"})

CanBeReserved(w, s, bits) ==
    s \in Sectors /\ s \notin bits /\ ~OpenForWriting(s) /\ ~ReservedByOther(w, s)

\* reserve_after: from next on the reservation of w can grow by k sectors.
ReserveNext(f, s) == IF f.count # 0 THEN f.first + f.count ELSE s + 1
Growth(w, f, next, bits) ==
    {k \in 0 .. ReserveMax :
        /\ k = 0 \/ f.count + k <= ReserveMax
        /\ \A i \in 0 .. (k - 1) : CanBeReserved(w, next + i, bits)
        /\ f.count + k >= ReserveMax \/ ~CanBeReserved(w, next + k, bits)}

Without(f) == [f EXCEPT !.first = 0, !.count = 0]

\* The metadata fffs_begin_extent_metadata or fffs_write_extent_metadata puts in
\* a sector that start_next_extent leaves; the root stays uncommitted.
Left(x, root) == [x EXCEPT !.blank = FALSE, !.recs = @ + 1, !.fit = "none", !.cont = @ \/ ~root]

(***************************************************************************)
(* use_alloc_window, and what the caller does with the sector s: fffs_open *)
(* makes it the root, start_next_extent writes the record of the sector it *)
(* leaves and goes on in s, in the same span when s is the next one.  f is *)
(* the file, bits the map and base the sectors as the call has left them.  *)
(***************************************************************************)
Give(w, s, f, bits, base) ==
    LET next == ReserveNext(f, s)
        old == f.cur
        into == IF old = 0 THEN [f EXCEPT !.head = s, !.cur = s, !.span = s]
                ELSE [f EXCEPT !.cur = s, !.span = IF s = old + 1 THEN @ ELSE s,
                               !.chain = @ \cup ({old} \ {f.head})]
    IN  \E k \in (IF base[s].blank THEN Growth(w, f, next, bits) ELSE {0}) :
          /\ writer' = [writer EXCEPT ![w] =
                [into EXCEPT !.first = IF f.count = 0 /\ k > 0 THEN next ELSE @, !.count = @ + k]]
          /\ used' = (bits \cup (next .. (next + k - 1))) \cup ({old} \ {0})
          /\ sec' = IF old = 0 THEN base ELSE [base EXCEPT ![old] = Left(@, old = f.head)]
          /\ call' = Idle

-----------------------------------------------------------------------------
\* Mutant: the reserved sector is taken without asking whether it is open.
TryReservedUnchecked(w) ==
    LET f == writer[w]
        s == f.first
        usable == sec[s].blank
        rest == IF f.count = 1 THEN Without(f) ELSE [f EXCEPT !.first = @ + 1, !.count = @ - 1]
    IN  /\ call.step = "idle" /\ f.count > 0
        /\ IF usable
           THEN Give(w, s, rest, used \ {s}, sec)
           ELSE /\ writer' = [writer EXCEPT ![w] = Without(f)]
                /\ used' = used \ Reserved(w)
                /\ call' = [Idle EXCEPT !.step = "once", !.w = w, !.skip = s]
                /\ UNCHANGED sec
        /\ UNCHANGED <<cursor, gcCursor, reserve>>

\* fffs_open for writing or start_next_extent calls fffs_alloc_next_sector of a
\* file with a reservation.  try_reserved_sector: the first sector reserved if
\* it is still erased and free, else the whole reservation is given back.
TryReservedSector(w) ==
    LET f == writer[w]
        s == f.first
        usable == ~OpenForWriting(s) /\ ~ReservedByOther(w, s) /\ sec[s].blank
        rest == IF f.count = 1 THEN Without(f) ELSE [f EXCEPT !.first = @ + 1, !.count = @ - 1]
    IN  /\ call.step = "idle" /\ f.count > 0
        /\ IF usable
           THEN Give(w, s, rest, used \ {s}, sec)
           ELSE /\ writer' = [writer EXCEPT ![w] = Without(f)]
                /\ used' = used \ Reserved(w)
                /\ call' = [Idle EXCEPT !.step = "once", !.w = w, !.skip = s]
                /\ UNCHANGED sec
        /\ UNCHANGED <<cursor, gcCursor, reserve>>

\* The sectors alloc_sector_once finds a window in; one with a live record of
\* the file's own slot, old, is rejected.
Acceptable(w, old) ==
    {s \in Sectors \ {call.skip} :
        /\ ~OpenForWriting(s) /\ ~ReservedByOther(w, s)
        /\ s \notin reserve /\ s \notin used
        /\ FreeWindow(s, TRUE) /\ s # old
        /\ writer[w].cur # 0 => sec[s].blank}

Halved(f) == IF f.count < 2 THEN Without(f) ELSE [f EXCEPT !.count = @ \div 2]
\* Mutant: halving forgets to clear the bit of the last sector released.
ReleasedButLast(f) == (f.first + (f.count \div 2)) .. (f.first + f.count - 2)
Released(f) == (f.first + (f.count \div 2)) .. (f.first + f.count - 1)

\* halve_reservations after the first scan of a call for w failed, with a second
\* scan when it released anything; bits is the map the scan left.
HalveReservations(w, bits) ==
    /\ writer' = [v \in Writers |-> Halved(writer[v])]
    /\ used' = bits \ UNION {Released(writer[v]) : v \in Writers}
    /\ call' = [call EXCEPT !.w = w,
                            !.step = IF \E v \in Writers : writer[v].count > 0 THEN "again" ELSE "gc"]

\* alloc_sector_once, first in a call for a file without a reservation: a root
\* allocation fills the compaction reserve before it takes a sector.
AllocSectorOnce(w, old) ==
    LET found == Acceptable(w, old)
        before(s) == {t \in found : Offset(cursor, t) < Offset(cursor, s)}
        kept == {s \in found : /\ writer[w].cur = 0
                               /\ Cardinality(before(s)) + Cardinality(reserve) < CompactMax}
        bits == used \cup kept
    IN  /\ \/ call.step = "idle" /\ writer[w].count = 0
           \/ call.step \in {"once", "again"} /\ call.w = w
        /\ reserve' = reserve \cup kept
        /\ IF found # kept
           THEN \E s \in First(cursor, found \ kept) :
                /\ Give(w, s, writer[w], bits, sec)
                /\ cursor' = IF sec[s].recs >= Density THEN NextDataSector(s) ELSE cursor
           ELSE /\ IF call.step # "again" THEN HalveReservations(w, bits)
                   ELSE /\ used' = bits
                        /\ call' = [call EXCEPT !.step = "gc"]
                        /\ UNCHANGED writer
                /\ UNCHANGED <<sec, cursor>>
        /\ UNCHANGED gcCursor

-----------------------------------------------------------------------------
\* What gc_step looks at past its cheap skips, and what it can give back: an
\* erased sector, junk without records, or records none of which is live.
\* Mutant: collection does not pass over the compaction reserve.
ScannableReserve == {s \in Sectors : ~OpenForWriting(s)}
Scannable == {s \in Sectors : s \notin reserve /\ ~OpenForWriting(s)}
Garbage == {s \in Scannable : sec[s].blank \/ ~Live(s)}
\* Live sectors that gc_step marks as used.
NormalAllocFull(s) == Live(s) /\ (sec[s].cont \/ sec[s].roots >= MaxRecs \/ sec[s].fit = "none")

\* Mutant: only the pass that trusts the map.
GcTrustingMap ==
    LET trusted == Garbage \ used
    IN  /\ call.step = "gc"
        /\ IF trusted # {}
           THEN \E s \in First(gcCursor, trusted) :
                /\ Give(call.w, s, writer[call.w], used, [sec EXCEPT ![s] = ErasedSector])
                /\ gcCursor' = NextDataSector(s)
           ELSE /\ call' = [call EXCEPT !.step = "compact"]
                /\ UNCHANGED <<sec, used, gcCursor, writer>>
        /\ UNCHANGED <<cursor, reserve>>

\* fffs_gc_until_erased: one pass that trusts the map, then one that does not.
GcUntilErased ==
    LET trusted == Garbage \ used
        seen(s, S) == {t \in S : NormalAllocFull(t) /\ Offset(gcCursor, t) < Offset(gcCursor, s)}
        full0 == {t \in Scannable \ used : NormalAllocFull(t)}
        give(S, scanned, marked) ==
            \E s \in First(gcCursor, S) :
              /\ Give(call.w, s, writer[call.w], (used \cup marked \cup seen(s, scanned)) \ {s},
                      [sec EXCEPT ![s] = ErasedSector])
              /\ gcCursor' = NextDataSector(s)
    IN  /\ call.step = "gc"
        /\ IF trusted # {} THEN give(trusted, Scannable \ used, {})
           ELSE IF Garbage # {} THEN give(Garbage, Scannable, full0)
           ELSE /\ used' = used \cup {t \in Scannable : NormalAllocFull(t)}
                /\ call' = [call EXCEPT !.step = "compact",
                              !.cands = {t \in Scannable : sec[t].roots > 0 /\ ~sec[t].cont}]
                /\ UNCHANGED <<sec, gcCursor, writer>>
        /\ UNCHANGED <<cursor, reserve>>

\* fffs_gc_compact_until_erased: the next candidate.  Which candidates are kept,
\* their order and gc_fsinfo_allows_compaction are left open.
CompactPick(s) ==
    /\ call.step \in {"compact", "relaxed"} /\ call.src = 0
    /\ s \in call.cands \ call.tried
    /\ call' = [call EXCEPT !.src = s, !.tried = @ \cup {s}]
    /\ UNCHANGED <<sec, used, cursor, gcCursor, reserve, writer>>

\* fffs_alloc_find_compaction_root_window: where the next live root of the
\* source can go; the sectors in small have a window too small for it.  Which
\* sector of the reserve depends on FFFS_COMPACTION_RESERVE_BEST_FIT.
Destinations(small) ==
    LET kept == {s \in reserve \ small : FreeWindow(s, TRUE)}
        open == {s \in Sectors \ (small \cup {call.src}) : ~OpenForWriting(s)}
        strict == {s \in open \ used : FreeWindow(s, TRUE)}
        relaxed == {s \in open : call.step = "relaxed" /\ FreeWindow(s, FALSE)}
    IN  IF kept # {} THEN kept
        ELSE IF strict # {} THEN First(cursor, strict) ELSE First(cursor, relaxed)

\* gc_copy_root_record: the copy is written and the index now points to it; low:
\* fffs_program_extent_metadata finds the sector left with little room.  The map
\* bit of the source is cleared with the first copy already: the erase of the
\* source or gc_tombstone_copied_roots clears it before anyone looks at it.
Copied(x, low) == [x EXCEPT !.blank = FALSE, !.recs = @ + 1, !.roots = @ + 1,
                            !.fit = IF low THEN "none" ELSE @]
CompactCopy(d, low) ==
    LET left == used \ ({call.src} \cup (reserve \cap {d})) IN
    /\ call.src # 0 /\ sec[call.src].roots > 0
    /\ sec' = [sec EXCEPT ![call.src].roots = @ - 1,
                 ![d] = Copied(@, low)]
    /\ used' = IF low THEN left \cup {d} ELSE left
    /\ reserve' = reserve \ {d}
    /\ cursor' = IF d \in reserve THEN cursor
                 ELSE IF sec[d].recs >= Density THEN NextDataSector(d) ELSE d
    /\ UNCHANGED <<gcCursor, writer, call>>

\* No destination: gc_tombstone_copied_roots.  The roots already copied stay
\* where they are, dead in the source, whose map bit they have cleared.
CompactFail ==
    /\ call.src # 0 /\ sec[call.src].roots > 0
    /\ call' = [call EXCEPT !.src = 0]
    /\ UNCHANGED <<sec, used, cursor, gcCursor, reserve, writer>>

\* gc_compact_root_only_sector: every live root copied, the source is erased.
CompactErase ==
    /\ call.src # 0 /\ sec[call.src].roots = 0
    /\ Give(call.w, call.src, writer[call.w], used \ {call.src},
            [sec EXCEPT ![call.src] = ErasedSector])
    /\ UNCHANGED <<cursor, gcCursor, reserve>>

\* Compaction gave nothing: try_compaction_reserve_for_alloc, then compaction
\* with relaxed constraints.
TryCompactionReserve(old) ==
    LET w == call.w
        kept == {s \in reserve \ {old} : FreeWindow(s, TRUE) /\ (writer[w].cur # 0 => sec[s].blank)}
    IN  /\ call.step = "compact" /\ call.src = 0
        /\ IF kept # {}
           THEN \E s \in kept :
                /\ Give(w, s, writer[w], used \ {s}, sec)
                /\ reserve' = reserve \ {s} /\ cursor' = s
           ELSE /\ call' = [call EXCEPT !.step = "relaxed", !.tried = {}]
                /\ UNCHANGED <<sec, used, writer, reserve, cursor>>
        /\ UNCHANGED gcCursor

\* FFFS_ERR_NO_SPACE goes back to the caller.
NoSpace ==
    /\ call.step = "relaxed" /\ call.src = 0
    /\ call' = Idle
    /\ UNCHANGED <<sec, used, cursor, gcCursor, reserve, writer>>

-----------------------------------------------------------------------------
\* flush_write_cache programs data in the current sector.
Write(w) ==
    /\ call.step = "idle" /\ writer[w].cur # 0
    /\ sec[writer[w].cur].blank
    /\ sec' = [sec EXCEPT ![writer[w].cur].blank = FALSE, ![writer[w].cur].fit = "none"]
    /\ UNCHANGED <<used, cursor, gcCursor, reserve, writer, call>>

\* The committed files there can be: a root, and continuations no writer pins.
Roots == {s \in Sectors : sec[s].roots > 0}
Files == FoldFunctionOnSet(LAMBDA x, n : x.roots + n, 0, sec, Sectors)
Conts == {s \in Sectors : sec[s].cont /\ \A w \in Writers : s \notin writer[w].chain}

\* fffs_invalidate_old_chain: its records are dead, its map bits cleared.
Invalidated(x, r, C) ==
    [s \in Sectors |-> [x[s] EXCEPT !.roots = IF s = r THEN @ - 1 ELSE @,
                                    !.cont = @ /\ s \notin C]]

\* fffs_close writes the last record of f and commits its root; low: the last
\* sector has little room left.
RootRecord(x, low) == [x EXCEPT !.blank = FALSE, !.recs = @ + 1, !.roots = @ + 1,
                                !.fit = IF low THEN "none" ELSE "normal"]
RootCommit(x) == [x EXCEPT !.blank = FALSE, !.roots = @ + 1]
EndRecord(x, low) == [Left(x, FALSE) EXCEPT !.fit = IF low THEN "none" ELSE "relaxed"]
LastRecords(f, low) ==
    IF f.cur = f.head THEN [sec EXCEPT ![f.cur] = RootRecord(@, low)]
    ELSE [sec EXCEPT ![f.head] = RootCommit(@), ![f.cur] = EndRecord(@, low)]

\* Then the old chain (root in r, if any, continuations in C) dies and the
\* reservation is released.
Close(w, low, r, C) ==
    LET f == writer[w]
        marked == IF f.cur # f.head THEN used \cup {f.head, f.cur}
                  ELSE IF low THEN used \cup {f.cur} ELSE used
    IN  /\ call.step = "idle" /\ f.cur # 0
        /\ sec' = Invalidated(LastRecords(f, low), r, C)
        /\ used' = (marked \ ({r} \cup C)) \ Reserved(w)
        /\ writer' = [writer EXCEPT ![w] = Closed]
        /\ UNCHANGED <<cursor, gcCursor, reserve, call>>

\* fffs_delete of a committed file.
Delete(r, C) ==
    /\ call.step = "idle"
    /\ sec' = Invalidated(sec, r, C)
    /\ used' = used \ ({r} \cup C)
    /\ UNCHANGED <<cursor, gcCursor, reserve, writer, call>>

\* gc_step for fffs_gc: one sector, and the map is trusted.
GcStep ==
    LET s == gcCursor
        look == s \notin used /\ s \in Scannable
    IN  /\ call.step = "idle"
        /\ gcCursor' = NextDataSector(s)
        /\ sec' = IF look /\ s \in Garbage THEN [sec EXCEPT ![s] = ErasedSector] ELSE sec
        /\ used' = IF look /\ NormalAllocFull(s) THEN used \cup {s} ELSE used
        /\ UNCHANGED <<cursor, reserve, writer, call>>

\* Power loss and mount: what the open files had written is unreachable, the
\* map, the reserve and the reservations start empty, recover_allocator_hint
\* sets the cursor from the head the index names last.
Restart(c) ==
    /\ call.step = "idle"
    /\ sec' = [s \in Sectors |->
                  [sec[s] EXCEPT !.cont = @ /\ \A w \in Writers : s \notin writer[w].chain,
                                 !.fit = IF ~sec[s].blank /\ OpenForWriting(s) THEN "none" ELSE @]]
    /\ used' = {} /\ reserve' = {}
    /\ cursor' = c /\ gcCursor' = 1
    /\ writer' = [w \in Writers |-> Closed]
    /\ UNCHANGED call

Next ==
    \/ \E w \in Writers : TryReservedSector(w)
    \/ \E w \in Writers, old \in {0} \cup Roots : AllocSectorOnce(w, old)
    \/ GcUntilErased
    \/ \E old \in {0} \cup Roots : TryCompactionReserve(old)
    \/ \E s \in call.cands : CompactPick(s)
    \/ /\ call.src # 0
       /\ \E small \in SUBSET {s \in Sectors : ~sec[s].blank /\ FreeWindow(s, FALSE)} :
            \/ \E d \in Destinations(small), low \in BOOLEAN : CompactCopy(d, low)
            \/ Destinations(small) = {} /\ CompactFail
    \/ CompactErase \/ NoSpace
    \/ \E w \in Writers : Write(w)
    \/ /\ call.step = "idle" /\ Files < MaxFiles
       /\ \E w \in Writers, low \in BOOLEAN : Close(w, low, 0, {})
    \/ \E w \in Writers, low \in BOOLEAN, r \in Roots, C \in SUBSET Conts : Close(w, low, r, C)
    \/ \E r \in Roots, C \in SUBSET Conts : Delete(r, C)
    \/ GcStep
    \/ \E c \in Sectors : Restart(c)

Spec == Init /\ [][Next]_vars

-----------------------------------------------------------------------------
\* A sector of w's file: held open, or already left and pinned.
Given(w, s) == Holds(w, s) \/ s \in writer[w].chain

\* Types of the variables.
TypeOK ==
    /\ sec \in [Sectors -> [blank : BOOLEAN, recs : 0 .. MaxRecs, roots : 0 .. MaxRecs,
                            cont : BOOLEAN, fit : {"normal", "relaxed", "none"}]]
    /\ used \subseteq Sectors
    /\ cursor \in Sectors /\ gcCursor \in Sectors
    /\ reserve \subseteq Sectors /\ Cardinality(reserve) <= CompactMax
    /\ \A w \in Writers : Reserved(w) \subseteq Sectors /\ writer[w].count <= ReserveMax

\* fffs_alloc_next_sector never gives two open files the same sector, whatever
\* mix of reservations, collection and compaction it came from ("Multiple open
\* writable files should not end up being allocated the same sectors").
HandedApart == \A s \in Sectors : \A v, w \in Writers : Given(v, s) /\ Given(w, s) => v = w

\* A sector kept for compaction is never one a writer is using, even when its
\* map bit was cleared by a delete and a reservation has grown over it.
ReserveApart == \A s \in reserve : \A w \in Writers : ~Given(w, s)

\* An erased sector whose map bit is set is in a reservation or the compaction
\* reserve: releasing, halving and consuming reservations leak no bit, so the
\* first scan of an allocation sees every erased sector that is free.
NoLeakedBit ==
    \A s \in used : sec[s].blank => s \in reserve \/ \E w \in Writers : s \in Reserved(w)

\* A continuation is the only record of its sector unless relaxed compaction
\* has added roots behind it, and no live continuation loses its sector to an
\* erase: a sector a writer has left still holds its record.
LeftKept == \A w \in Writers : \A s \in writer[w].chain : sec[s].cont /\ sec[s].recs > 0

\* FFFS_ERR_NO_SPACE means that collection had nothing left to give: outside
\* the compaction reserve every sector is in use by a writer or has live records.
NoSpaceJustified ==
    call.step = "relaxed" /\ call.src = 0 =>
        \A s \in Sectors : s \in reserve \/ Live(s) \/ \E w \in Writers : Given(w, s)
=============================================================================
