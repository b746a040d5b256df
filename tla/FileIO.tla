------------------------------- MODULE FileIO -------------------------------
(***************************************************************************)
(* One file handle at the level of bytes (src/fffs_file.c): the write      *)
(* cache, extents and spans of a file being written, and the cursor, the   *)
(* read cache, seek and the hunt through a span of a file being read.      *)
(* Where sectors come from is Allocator's subject, power loss FileStore's. *)
(***************************************************************************)
EXTENDS Integers, Sequences, FiniteSetsExt

CONSTANTS
    N,              \* data sectors, numbered 1 .. N; 0 is no sector
    Window,         \* bytes for data in an erased sector
    RootWindows,    \* <<data_off, record_off>> a root can be given
    CacheSize,      \* FFFS_FILE_CACHE_SIZE
    Granule,        \* program_granule
    MaxName,        \* FFFS_MAX_NAME
    NameLen,        \* length of the file's name
    MaxSize,        \* bound: bytes in the file
    WriteSizes,     \* bytes passed to fffs_write
    ReadSizes       \* bytes asked of fffs_read

ASSUME FileIOAssumption ==
    /\ {N, Window, CacheSize, Granule, MaxSize} \subseteq Nat \ {0}
    /\ NameLen \in 1 .. MaxName
    /\ Granule <= CacheSize                             \* fffs_valid_backend
    /\ RootWindows \subseteq Nat \X Nat
    /\ \A x \in RootWindows : x[1] + NameLen + 2 <= x[2] /\ x[2] <= Window
    /\ WriteSizes \subseteq Nat \ {0} /\ ReadSizes \subseteq Nat \ {0}

VARIABLES
    mode,       \* "none", "write", "shut", "read"
    size,       \* file->size
    pos,        \* file->pos
    out,        \* what the last step of a read copied to the caller
    flash,      \* data bytes and extent records of the sectors
    f,          \* the other fields of struct fffs_file
    pc,         \* the call under way
    todo        \* its loop variables

vars == <<mode, size, pos, out, flash, f, pc, todo>>

Sectors == 1 .. N
SectorCount == N + 2                    \* with two index sectors
Prefix == NameLen + 2                   \* root_payload_offset
Erased == 0                             \* byte i of the file is i
NameByte == MaxSize + 1
Foreign == MaxSize + 2                  \* another file's byte

NoRec == [st |-> "none"]
NoFile == [head |-> 0, cur |-> 0, data |-> 0, at |-> 0, md |-> 0, len |-> 0, off |-> 0,
           dpos |-> 0, span |-> 0, next |-> 0, cache |-> <<>>, cpos |-> 0]
Idle == [left |-> 0, low |-> 0, high |-> 0, depth |-> 0]

Init ==
    /\ mode = "none" /\ size = 0 /\ pos = 0 /\ out = <<>>
    /\ flash = [s \in Sectors |-> [cell |-> [i \in 0 .. (Window - 1) |-> Erased], rec |-> NoRec]]
    /\ f = NoFile /\ pc = "idle" /\ todo = Idle

Rest(s, n) == SubSeq(s, n + 1, Len(s))

\* A build whose file->cache has room for a name and for whole granules.  No
\* code asks for either: stage_root_prefix copies any valid name, and
\* fffs_valid_backend looks at Granule <= CacheSize only.
CacheFits == Prefix <= CacheSize /\ CacheSize % Granule = 0

-----------------------------------------------------------------------------
\* fffs_flash_program_aligned: NOR cells, padding leaves them alone; a byte
\* programmed twice is garbage, shown as another file's.
Programmed(cell, at, bytes) ==
    [i \in DOMAIN cell |->
        IF i \notin at .. (at + Len(bytes) - 1) THEN cell[i]
        ELSE IF cell[i] = Erased THEN bytes[i - at + 1] ELSE Foreign]

\* flush_write_cache: how many bytes it programs.  The last flush of an extent
\* fills the cache up with 0xff to a whole granule.
Padded(n) == Granule * ((n + Granule - 1) \div Granule)
Flushed(n, final) == IF final THEN Padded(n) ELSE n - (n % Granule)

\* current_extent_capacity.
Capacity(g) == Max({0, g.md - g.data - (IF g.cur = g.head THEN Prefix ELSE 0)})

\* flush_write_cache of g on flash x; 0xff changes no cell.
FlushFile(g, final) ==
    LET n == Flushed(Len(g.cache), final)
    IN  [g EXCEPT !.at = @ + n, !.cache = Rest(@, n)]
FlushFlash(x, g, final) ==
    LET n == Min({Flushed(Len(g.cache), final), Len(g.cache)})
    IN  [x EXCEPT ![g.cur].cell = Programmed(@, g.at, SubSeq(g.cache, 1, n))]

\* fffs_open for writing: the sector and window fffs_alloc_next_sector gave,
\* stage_root_prefix.  Another root may be in the sector already.
OpenWrite(s, win) ==
    /\ mode = "none" /\ mode' = "write"
    /\ f' = [NoFile EXCEPT !.head = s, !.cur = s, !.span = s, !.data = win[1], !.at = win[1],
                           !.md = win[2], !.cache = [i \in 1 .. Prefix |-> NameByte]]
    /\ flash' = [flash EXCEPT ![s].cell = [i \in DOMAIN @ |-> IF i < win[1] THEN Foreign ELSE Erased]]
    /\ UNCHANGED <<size, pos, out, pc, todo>>

Write(n) ==
    /\ mode = "write" /\ pc = "idle" /\ size + n <= MaxSize
    /\ pc' = "write" /\ todo' = [Idle EXCEPT !.left = n]
    /\ UNCHANGED <<mode, size, pos, out, flash, f>>

\* One round of the loop of fffs_write in an extent with room.
\* Mutant: the room left in the cache is not looked at.
WriteCopyOverrun ==
    LET n == Min({todo.left, Capacity(f) - f.len})
        g == [f EXCEPT !.cache = @ \o [i \in 1 .. n |-> size + i], !.len = @ + n]
    IN  /\ pc = "write" /\ f.len < Capacity(f)
        /\ size' = size + n /\ f' = g
        /\ todo' = [todo EXCEPT !.left = @ - n]
        /\ pc' = IF todo.left = n THEN "idle" ELSE "write"
        /\ UNCHANGED <<mode, pos, out, flash>>
WriteCopy ==
    LET n == Min({todo.left, Capacity(f) - f.len, CacheSize - Len(f.cache)})
        g == [f EXCEPT !.cache = @ \o [i \in 1 .. n |-> size + i], !.len = @ + n]
        full == Len(g.cache) = CacheSize
    IN  /\ pc = "write" /\ f.len < Capacity(f)
        /\ size' = size + n
        /\ f' = IF full THEN FlushFile(g, FALSE) ELSE g
        /\ flash' = IF full THEN FlushFlash(flash, g, FALSE) ELSE flash
        /\ todo' = [todo EXCEPT !.left = @ - n]
        /\ pc' = IF todo.left = n THEN "idle" ELSE "write"
        /\ UNCHANGED <<mode, pos, out>>

\* The record of extent g: fffs_begin_extent_metadata leaves it open.
ExtentRecord(g, st, span, next) ==
    [st |-> st, root |-> g.cur = g.head, data |-> g.data,
     len |-> g.len + (IF g.cur = g.head THEN Prefix ELSE 0),
     off |-> IF g.cur = g.head THEN 0 ELSE g.off, span |-> span, next |-> next]

WithExtent(x, g, next) ==
    [x EXCEPT ![g.cur].rec = IF g.cur = g.span THEN ExtentRecord(g, "open", 0, 0)
                             ELSE ExtentRecord(g, "live", 1, next)]

\* flush_pending_span_head: fffs_finish_extent_metadata of the record of the
\* span's first extent; a root stays open until the close.
FlushSpan(x, g, next, final) ==
    [x EXCEPT ![g.span].rec = [@ EXCEPT !.next = next, !.span = g.cur - g.span + 1,
                                        !.st = IF g.span = g.head /\ ~final THEN "open" ELSE "live"]]

Unused == {s \in Sectors : flash[s].rec = NoRec /\ s # f.cur}

\* start_next_extent in the loop of fffs_write; s is what the allocator gives.
StartNextExtent(s) ==
    LET g == FlushFile(f, TRUE)
        x == WithExtent(FlushFlash(flash, f, TRUE), g, s)
        extends == s = f.cur + 1
    IN  /\ pc = "write" /\ f.len >= Capacity(f)
        /\ flash' = IF extends THEN x ELSE FlushSpan(x, g, s, FALSE)
        /\ f' = [g EXCEPT !.cur = s, !.data = 0, !.at = 0, !.md = Window, !.len = 0,
                          !.off = @ + g.len, !.span = IF extends THEN @ ELSE s]
        /\ UNCHANGED <<mode, size, pos, out, pc, todo>>

\* The allocator has no sector: the write returns with what it has accepted.
WriteNoSpace ==
    /\ pc = "write" /\ f.len >= Capacity(f)
    /\ f' = FlushFile(f, TRUE) /\ flash' = FlushFlash(flash, f, TRUE)
    /\ pc' = "idle" /\ todo' = Idle
    /\ UNCHANGED <<mode, size, pos, out>>

\* An error programming the record of the extent left, after use_alloc_window
\* has set the window of the next one.
StartNextExtentFails ==
    /\ pc = "write" /\ f.len >= Capacity(f)
    /\ f' = [FlushFile(f, TRUE) EXCEPT !.data = 0, !.at = 0, !.md = Window]
    /\ flash' = FlushFlash(flash, f, TRUE)
    /\ pc' = "idle" /\ todo' = Idle
    /\ UNCHANGED <<mode, size, pos, out>>

\* fffs_close of a writer: last extent, last span, root.
Close ==
    LET x == WithExtent(FlushFlash(flash, f, TRUE), FlushFile(f, TRUE), 0)
        y == FlushSpan(x, f, 0, TRUE)
    IN  /\ mode = "write" /\ pc = "idle" /\ mode' = "shut"
        /\ flash' = [y EXCEPT ![f.head].rec.st = "live"]
        /\ f' = [NoFile EXCEPT !.head = f.head]
        /\ UNCHANGED <<size, pos, out, pc, todo>>

-----------------------------------------------------------------------------
\* The bytes at dpos of the extent of g.
DataAt(g, dpos, n) == [i \in 1 .. n |-> flash[g.cur].cell[g.data + dpos + i - 1]]

\* fffs_read_file_root_md and read_root_prefix: the cursor on the root.
AtRoot(g) ==
    LET r == flash[g.head].rec
    IN  [g EXCEPT !.cur = g.head, !.data = r.data + Prefix, !.len = r.len - Prefix, !.off = 0,
                  !.dpos = 0, !.span = r.span, !.next = r.next, !.cache = <<>>, !.cpos = 0]

\* fffs_open for reading: the name was read through the file's cache, which
\* keeps the data behind it.
\* Mutant: the name is not shifted out of the cache.
OpenReadUnshifted ==
    LET g == AtRoot(f)
        nread == Min({g.len + Prefix, CacheSize})
    IN  /\ mode = "shut" /\ mode' = "read"
        /\ f' = [g EXCEPT !.cache = DataAt([g EXCEPT !.data = @ - Prefix], 0, nread - Prefix)]
        /\ pos' = 0 /\ out' = <<>>
        /\ UNCHANGED <<size, flash, pc, todo>>
OpenRead ==
    LET g == AtRoot(f)
        nread == Min({g.len + Prefix, CacheSize})
    IN  /\ mode = "shut" /\ mode' = "read"
        /\ f' = [g EXCEPT !.cache = IF CacheSize >= MaxName + 2 THEN DataAt(g, 0, nread - Prefix)
                                    ELSE <<>>]
        /\ pos' = 0 /\ out' = <<>>
        /\ UNCHANGED <<size, flash, pc, todo>>

\* The cursor on extent s.
AtExtent(g, s, off) ==
    LET r == flash[s].rec
    IN  [g EXCEPT !.cur = s, !.data = r.data, !.len = r.len, !.span = r.span, !.next = r.next,
                  !.dpos = 0, !.off = off, !.cache = <<>>]
NextExtent(g) == IF g.span > 1 THEN g.cur + 1 ELSE g.next
\* Mutant: the read cache survives the step to the next extent.
AdvancedKeepsCache(g) ==
    [AtExtent(g, NextExtent(g), g.off + g.len) EXCEPT !.cache = g.cache]
Advanced(g) == AtExtent(g, NextExtent(g), g.off + g.len)

Corrupt == pc' = "corrupt" /\ UNCHANGED <<mode, size, pos, flash, f, todo>> /\ out' = <<>>

Read(n) ==
    /\ mode = "read" /\ pc = "idle" /\ pos < size
    /\ pc' = "read" /\ todo' = [Idle EXCEPT !.left = Min({n, size - pos})]
    /\ out' = <<>>
    /\ UNCHANGED <<mode, size, pos, flash, f>>

\* read_cache_has_remaining.
Cached(g) == g.cache # <<>> /\ g.dpos \in g.cpos .. (g.cpos + Len(g.cache) - 1)

\* One round of the loop of fffs_read: from the cache, through the cache, or
\* past it.
ReadChunk(g) ==
    LET inData == g.len - g.dpos
        n == Min({todo.left, inData})
        skip == g.dpos - g.cpos
        filled == Min({inData, CacheSize})
        copied == IF Cached(g) THEN SubSeq(g.cache, skip + 1, Min({Len(g.cache), skip + n}))
                  ELSE IF n < CacheSize THEN DataAt(g, g.dpos, Min({todo.left, filled}))
                  ELSE DataAt(g, g.dpos, n)
        h == IF Cached(g) THEN g
             ELSE IF n < CacheSize THEN [g EXCEPT !.cache = DataAt(g, g.dpos, filled), !.cpos = g.dpos]
             ELSE [g EXCEPT !.cache = <<>>]
    IN  /\ out' = copied
        /\ pos' = pos + Len(copied)
        /\ f' = [h EXCEPT !.dpos = @ + Len(copied)]
        /\ todo' = [todo EXCEPT !.left = @ - Len(copied)]
        /\ pc' = IF todo.left = Len(copied) THEN "idle" ELSE "read"

ReadStep ==
    /\ pc = "read"
    /\ IF f.dpos >= f.len /\ NextExtent(f) = 0 THEN Corrupt
       ELSE /\ ReadChunk(IF f.dpos >= f.len THEN Advanced(f) ELSE f)
            /\ UNCHANGED <<mode, size, flash>>

\* fffs_seek to a target in the file; seek_read_position starts again at the
\* root for a target before the current extent.
Seek(p) ==
    /\ mode = "read" /\ pc = "idle" /\ p <= size
    /\ pc' = "seek" /\ todo' = [Idle EXCEPT !.left = p]
    /\ f' = IF p < f.off THEN AtRoot(f) ELSE f
    /\ out' = <<>>
    /\ UNCHANGED <<mode, size, pos, flash>>

Arrived(g, p) ==
    /\ f' = [g EXCEPT !.dpos = p - g.off] /\ pos' = p
    /\ pc' = "idle" /\ todo' = Idle /\ UNCHANGED <<mode, size, flash, out>>

\* seek_from_current_position steps to the next extent.
SeekAdvance ==
    IF NextExtent(f) = 0 \/ todo.depth + 1 >= SectorCount THEN Corrupt
    ELSE /\ f' = Advanced(f)
         /\ todo' = [todo EXCEPT !.depth = @ + 1] /\ pc' = "seek"
         /\ UNCHANGED <<mode, size, pos, flash, out>>

\* One round of seek_from_current_position, up to the hunt.
SeekStep ==
    /\ pc = "seek"
    /\ IF todo.left <= f.off + f.len THEN Arrived(f, todo.left)
       ELSE IF f.span <= 1 THEN SeekAdvance
       ELSE /\ pc' = "hunt" /\ todo' = [todo EXCEPT !.low = 1, !.high = f.span - 1]
            /\ UNCHANGED <<mode, size, pos, flash, f, out>>

\* hunt_current_span: which extent of the span is looked at next.
Estimate == Max({1, Window - (Window % Granule)})       \* fffs_max_file_data_size
Guess == Min({todo.high, Max({todo.low, (todo.left - f.off) \div Estimate})})

\* Mutant: an extent below the target stays in the interval.
HuntStepStuck ==
    LET s == f.cur + Guess
        r == flash[s].rec
        off == IF r.root THEN 0 ELSE r.off
    IN  /\ pc = "hunt"
        /\ IF todo.low > todo.high THEN SeekAdvance
           ELSE IF todo.left \in off .. (off + r.len) THEN Arrived(AtExtent(f, s, off), todo.left)
           ELSE /\ todo' = IF todo.left < off THEN [todo EXCEPT !.high = Guess - 1]
                           ELSE [todo EXCEPT !.low = Guess]
                /\ UNCHANGED <<mode, size, pos, out, flash, f, pc>>
HuntStep ==
    LET s == f.cur + Guess
        r == flash[s].rec
        off == IF r.root THEN 0 ELSE r.off
    IN  /\ pc = "hunt"
        /\ IF todo.low > todo.high THEN SeekAdvance
           ELSE IF todo.left \in off .. (off + r.len) THEN Arrived(AtExtent(f, s, off), todo.left)
           ELSE /\ todo' = IF todo.left < off THEN [todo EXCEPT !.high = Guess - 1]
                           ELSE [todo EXCEPT !.low = Guess + 1]
                /\ UNCHANGED <<mode, size, pos, out, flash, f, pc>>

CloseRead ==
    /\ mode = "read" /\ pc = "idle" /\ mode' = "shut"
    /\ f' = [NoFile EXCEPT !.head = f.head]
    /\ pos' = 0 /\ out' = <<>>
    /\ UNCHANGED <<size, flash, pc, todo>>

Running ==
    \/ WriteCopy \/ (\E s \in Unused : StartNextExtent(s)) \/ WriteNoSpace
    \/ ReadStep \/ SeekStep \/ HuntStep

Next ==
    \/ \E s \in Sectors, win \in RootWindows : OpenWrite(s, win)
    \/ \E n \in WriteSizes : Write(n)
    \/ Close \/ OpenRead
    \/ \E n \in ReadSizes : Read(n)
    \/ \E p \in 0 .. size : Seek(p)
    \/ CloseRead \/ Running

Spec == Init /\ [][Next]_vars /\ WF_vars(Running)

\* The same with a metadata program that fails, see the README.
SpecIo == Init /\ [][Next \/ StartNextExtentFails]_vars /\ WF_vars(Running)

-----------------------------------------------------------------------------
\* The fields keep their ranges; in particular file->cache, an array of fixed
\* size, is never overrun by a write, a read, the name of a root or the padding
\* of the last flush of an extent, in a build with CacheFits.
TypeOK ==
    /\ mode \in {"none", "write", "shut", "read"} /\ size \in 0 .. MaxSize /\ pos \in 0 .. size
    /\ pc \in {"idle", "write", "read", "seek", "hunt", "corrupt"}
    /\ f.head \in 0 .. N /\ f.cur \in 0 .. N /\ f.span \in 0 .. N /\ f.next \in 0 .. N
    /\ Len(f.cache) <= CacheSize /\ (mode = "write" => Padded(Len(f.cache)) <= CacheSize)
    /\ f.at < Window + Granule /\ f.data + f.dpos <= Window
    /\ \A s \in Sectors : flash[s].rec # NoRec => flash[s].rec.st \in {"open", "live"}

\* A file handle is a stream of bytes: whatever the sizes of the writes that
\* made the file, the extents and spans they fell into, and the reads and seeks
\* before, every read gives the bytes at the position, in order.
Stream == INSTANCE ByteStream
ImplementsStream == Stream!SSpec

\* What the read cache holds is what flash has in the extent under the cursor.
ReaderAgrees ==
    mode = "read" /\ f.cache # <<>> =>
        f.cpos + Len(f.cache) <= f.len /\ f.cache = DataAt(f, f.cpos, Len(f.cache))

\* The bytes of an extent with its name, as they should be.
Expected(root, off, len) ==
    [i \in 1 .. (IF root THEN Prefix ELSE 0) |-> NameByte] \o Stream!Bytes(off, len)

\* Flash and write cache together hold the bytes accepted so far, at the places
\* the records give or will give.
WriterKeeps ==
    mode = "write" =>
        /\ f.off + f.len = size
        /\ LET all == f.len + (IF f.cur = f.head THEN Prefix ELSE 0)
           IN  [i \in 1 .. Min({f.at - f.data, all}) |-> flash[f.cur].cell[f.data + i - 1]] \o f.cache
                   = Expected(f.cur = f.head, f.off, f.len)
        /\ \A s \in Sectors \ {f.cur} :
              LET r == flash[s].rec
                  skip == IF r.root THEN Prefix ELSE 0
              IN  r # NoRec =>
                    [i \in 1 .. r.len |-> flash[s].cell[r.data + i - 1]]
                        = Expected(r.root, r.off, r.len - skip)

\* The cache of a handle and flash agree.  For a writer no byte is lost at the
\* end of an extent, none is programmed twice, and none falls on the next
\* record or on the root that was in the sector already; for a reader no read,
\* seek, hunt or step to another extent leaves stale bytes behind (cache_len).
CacheAgrees == ReaderAgrees /\ WriterKeeps

\* The loops of fffs_write, fffs_read, fffs_seek and hunt_current_span end, and
\* not with FFFS_ERR_CORRUPT: spans and next pointers written extent by extent
\* lead from the root to every byte, however the sectors given lie.
CallReturns == (pc \in {"write", "read", "seek", "hunt"}) ~> (pc = "idle")

=============================================================================
