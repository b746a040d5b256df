---------------------------- MODULE VerifyFlash ----------------------------
(***************************************************************************)
(* The NOR flash emulator of src/verify_flash.c, on which the tests and    *)
(* the crash sweeps run the file system.  A device is a value, since the   *)
(* emulator clones devices; a call is the set of its outcomes, since the   *)
(* random choices of injected and sampled faults may fall any way.  A byte *)
(* is one bit, and an image is the set of the bytes that read as erased:   *)
(* programming takes bytes out of it, and only an erase or a corruption    *)
(* puts bytes back.                                                        *)
(***************************************************************************)
EXTENDS Integers, FiniteSets, Sequences

CONSTANTS
    SectorCount,    \* sectors of the device
    SectorSize,     \* bytes of a sector
    Granule,        \* program granule, in bytes
    PageSize,       \* program page: what a torn program reaches at most
    EraseCycles,    \* erases a sector stands, 0 if they are not counted
    MaxLog,         \* max_log_entries
    Files,          \* numbers of the files of the client
    MaxBits         \* bits a sampled fault may leave unprogrammed, 0 for any

ASSUME GeometryAssumption ==
    /\ SectorCount \in Nat \ {0} /\ SectorSize \in Nat \ {0}
    /\ Granule \in Nat \ {0} /\ SectorSize % Granule = 0
    /\ PageSize \in Nat \ {0}
    /\ IsFiniteSet(Files) /\ Files = 1 .. Cardinality(Files)
    /\ 2 * Cardinality(Files) <= SectorSize /\ SectorCount > 1
    /\ EraseCycles \in Nat /\ MaxLog \in Nat /\ MaxBits \in Nat

TotalSize == SectorCount * SectorSize
Bytes == 0 .. TotalSize - 1
SectorIds == 0 .. SectorCount - 1
Span(off, n) == off .. off + n - 1
SectorBytes(s) == Span(s * SectorSize, SectorSize)
Least(a, b) == IF a < b THEN a ELSE b
RoundDown(n, unit) == n - (n % unit)

OpTypes == {"read", "blank", "program", "erase", "stage", "commit", "drop", "corrupt"}
Results == {"ok", "range", "alignment", "busy", "not_blank", "no_staged", "injected", "io"}

NoFailure == [ops |-> {}, sequence |-> 0, phase |-> "before", partial |-> 0, mode |-> "prefix"]
NoSampler == [ops |-> {}, allowed |-> {}]
NoStaged == [active |-> FALSE, off |-> 0, n |-> 0, ones |-> {}]

(***************************************************************************)
(* struct ffsv_flash.  sector_counts is reduced to the sectors it was      *)
(* indexed with; call counts, fake time and the image cache, which every   *)
(* access refreshes, are left out.                                         *)
(***************************************************************************)
NewDevice == [image   |-> Bytes,
              wear    |-> [s \in SectorIds |-> 0],
              seq     |-> 0,
              log     |-> << >>,
              counted |-> {},
              failure |-> NoFailure,
              sampler |-> NoSampler,
              staged  |-> NoStaged]

\* A branch or a clone: the blocks and the sequence, with an empty log and
\* neither failure, sampler nor staged program.
Branch(d) == [d EXCEPT !.log = << >>, !.failure = NoFailure,
                       !.sampler = NoSampler, !.staged = NoStaged]

\* ffsv_flash_snapshot_create and ffsv_flash_reopen_from_snapshot.
Snapshot(d) == [image |-> d.image, wear |-> d.wear, seq |-> d.seq]
Reopen(s) == [NewDevice EXCEPT !.image = s.image, !.wear = s.wear, !.seq = s.seq]

CheckRange(off, n) == off <= TotalSize /\ n <= TotalSize - off
CheckAlignment(off, n, unit) == off % unit = 0 /\ n % unit = 0

\* The answer to the arguments of a call, the range checked first.
Checked(off, n, unit) ==
    IF ~CheckRange(off, n) THEN "range"
    ELSE IF ~CheckAlignment(off, n, unit) THEN "alignment" ELSE "ok"

\* The sectors add_sector_counts counts a call in.
CountedSectors(off, n) ==
    IF n = 0 \/ off >= TotalSize THEN {}
    ELSE (off \div SectorSize) .. ((off + n - 1) \div SectorSize)

\* op_matches, asked before the call takes its sequence number.
Matches(d, type) == type \in d.failure.ops /\ d.failure.sequence = d.seq

\* begin_op and finish_op: a call takes a sequence number and, while the log
\* has room, leaves a record there.
Done(d, type, off, n, result, committed, image) ==
    [dev |-> [d EXCEPT !.image = image,
                       !.seq = @ + 1,
                       !.counted = @ \cup CountedSectors(off, n),
                       !.log = IF Len(@) >= MaxLog THEN @
                               ELSE Append(@, [sequence |-> d.seq, type |-> type,
                                               off |-> off, n |-> n, result |-> result,
                                               injected |-> Matches(d, type),
                                               committed |-> committed])],
     result |-> result, committed |-> committed]

\* The bytes a MIDDLE failure commits of n.
InjectedPartial(f, n, unit) ==
    LET asked == RoundDown(IF f.partial # 0 THEN f.partial ELSE n \div 2, unit)
    IN  Least(n, IF asked = 0 /\ n >= unit THEN unit ELSE asked)

InjectedProgramPartial(f, off, n) ==
    LET prefix == InjectedPartial(f, n, Granule)
    IN  IF f.mode = "prefix" THEN prefix
        ELSE RoundDown(Least(prefix, PageSize - (off % PageSize)), Granule)

\* lfs_emubd_prog: the bits of ones stay.
Programmed(image, off, n, ones) == image \ (Span(off, n) \ ones)

\* lfs_emubd_prog_random_clear: of the bits to clear, at most bits (any number
\* if 0) are drawn, and each of those may stay.
RandomClear(image, off, n, ones, bits) ==
    LET candidates == (image \cap Span(off, n)) \ ones
    IN  {image \ (candidates \ kept) :
            kept \in {k \in SUBSET candidates : bits = 0 \/ Cardinality(k) <= bits}}

\* Mutant: a random failure is not cut to the bytes it reports.
InjectedMiddleWhole(d, off, n, ones) ==
    LET commit == InjectedProgramPartial(d.failure, off, n)
    IN  IF d.failure.mode = "prefix" THEN {Programmed(d.image, off, commit, ones)}
        ELSE RandomClear(d.image, off, n, ones, 0)

InjectedMiddle(d, off, n, ones) ==
    LET commit == InjectedProgramPartial(d.failure, off, n)
    IN  IF d.failure.mode = "prefix" THEN {Programmed(d.image, off, commit, ones)}
        ELSE RandomClear(d.image, off, commit, ones, 0)

\* Mutant: a torn program may run into the next sector.
FaultSizePage(off, n) == RoundDown(Least(n, PageSize - (off % PageSize)), Granule)

\* The branches the sampler draws: a torn program reaches neither past its
\* page nor past its sector, a torn erase leaves anything in its sectors.
FaultSize(off, n) ==
    RoundDown(Least(n, Least(PageSize - (off % PageSize), SectorSize - (off % SectorSize))), Granule)

ProgramBranches(image, off, n, ones) == RandomClear(image, off, FaultSize(off, n), ones, MaxBits)

EraseBranches(image, off, n) == {(image \ Span(off, n)) \cup left : left \in SUBSET Span(off, n)}

(***************************************************************************)
(* The file system on the device, as far as the verify callback looks at   *)
(* it: sector 0 is an index with one granule of two bytes for each file,   *)
(* the first programmed when the file is committed and the second when it  *)
(* is deleted; the contents are two bytes of sector 1.  View is what a     *)
(* mount shows, and the sampler carries the views its callback accepts.    *)
(***************************************************************************)
LiveByte(k) == 2 * (k - 1)
DeadByte(k) == LiveByte(k) + 1
DataBytes(k) == Span(SectorSize + LiveByte(k), 2)
View(image) == {<<k, image \cap DataBytes(k)>> :
                    k \in {f \in Files : LiveByte(f) \notin image /\ DeadByte(f) \in image}}

\* The verdicts the sampler can reach before an operation of n bytes; an empty
\* commit is not sampled.
Verdicts(d, type, n, branches) ==
    IF type \notin d.sampler.ops \/ (type = "commit" /\ n = 0) THEN {TRUE}
    ELSE {(View(b) \in d.sampler.allowed) : b \in branches}

\* The common part of a program and of a commit, once its arguments are good.
ProgramOutcomes(d, type, off, n, ones) ==
    LET full == Programmed(d.image, off, n, ones)
        phase == IF Matches(d, type) THEN d.failure.phase ELSE "none"
    IN  CASE phase = "before" -> {Done(d, type, off, n, "injected", 0, d.image)}
          [] phase = "middle" -> {Done(d, type, off, n, "injected",
                                       InjectedProgramPartial(d.failure, off, n), i) :
                                    i \in InjectedMiddle(d, off, n, ones)}
          [] phase = "after"  -> {Done(d, type, off, n, "injected", n, full)}
          [] phase = "none"   -> {IF ok THEN Done(d, type, off, n, "ok", n, full)
                                        ELSE Done(d, type, off, n, "io", 0, d.image) :
                                    ok \in Verdicts(d, type, n, ProgramBranches(d.image, off, n, ones))}

FlashRead(d, off, n) ==
    LET result == IF ~CheckRange(off, n) THEN "range"
                  ELSE IF Matches(d, "read") THEN "injected" ELSE "ok"
    IN  {Done(d, "read", off, n, result, 0, d.image)}

FlashBlankCheck(d, off, n) ==
    LET hit == Matches(d, "blank")
        result == IF ~CheckRange(off, n) THEN "range"
                  ELSE IF hit /\ d.failure.phase = "before" THEN "injected"
                  ELSE IF ~(Span(off, n) \subseteq d.image) THEN "not_blank"
                  ELSE IF hit THEN "injected" ELSE "ok"
    IN  {Done(d, "blank", off, n, result, 0, d.image)}

\* A call refused because a program is staged takes no sequence number.
Busy(d) == [dev |-> d, result |-> "busy", committed |-> 0]

FlashProgram(d, off, n, ones) ==
    LET checked == Checked(off, n, Granule)
    IN  IF d.staged.active THEN {Busy(d)}
        ELSE IF checked # "ok" THEN {Done(d, "program", off, n, checked, 0, d.image)}
        ELSE ProgramOutcomes(d, "program", off, n, ones)

\* lfs_emubd_erase over whole sectors: the first worn one stops it, and the
\* call then reports no byte as committed.
EraseSectors(d, off, n, result) ==
    LET sectors == {s \in SectorIds : SectorBytes(s) \subseteq Span(off, n)}
        worn == {s \in sectors : EraseCycles # 0 /\ d.wear[s] >= EraseCycles}
        done == {s \in sectors : \A w \in worn : s < w}
        erased == UNION {SectorBytes(s) : s \in done}
        out == Done(d, "erase", off, n, IF worn = {} THEN result ELSE "io",
                    IF worn = {} THEN n ELSE 0, d.image \cup erased)
    IN  [out EXCEPT !.dev.wear = [s \in SectorIds |->
            IF s \in done /\ EraseCycles # 0 THEN @[s] + 1 ELSE @[s]]]

FlashErase(d, off, n) ==
    LET checked == Checked(off, n, SectorSize)
        phase == IF Matches(d, "erase") THEN d.failure.phase ELSE "none"
        partial == InjectedPartial(d.failure, n, SectorSize)
    IN  CASE checked # "ok" -> {Done(d, "erase", off, n, checked, 0, d.image)}
          [] checked = "ok" /\ phase = "before" ->
                {Done(d, "erase", off, n, "injected", 0, d.image)}
          [] checked = "ok" /\ phase = "middle" /\ partial < n ->
                {Done(d, "erase", off, n, "injected", partial, d.image \cup Span(off, partial))}
          [] checked = "ok" /\ (phase = "after" \/ (phase = "middle" /\ partial = n)) ->
                {EraseSectors(d, off, n, "injected")}
          [] checked = "ok" /\ phase = "none" ->
                {IF ok THEN EraseSectors(d, off, n, "ok")
                       ELSE Done(d, "erase", off, n, "io", 0, d.image) :
                    ok \in Verdicts(d, "erase", n, EraseBranches(d.image, off, n))}

FlashStageProgram(d, off, n, ones) ==
    LET checked == Checked(off, n, Granule)
        hit == Matches(d, "stage")
        out == Done(d, "stage", off, n, IF hit THEN "injected" ELSE "ok", 0, d.image)
    IN  IF d.staged.active THEN {Busy(d)}
        ELSE IF checked # "ok" THEN {Done(d, "stage", off, n, checked, 0, d.image)}
        ELSE IF hit /\ d.failure.phase = "before" THEN {out}
        ELSE {[out EXCEPT !.dev.staged = [active |-> TRUE, off |-> off, n |-> n, ones |-> ones]]}

\* Mutant: a commit clears the staged program whatever happened.
FlashCommitForgets(d) ==
    LET s == d.staged
    IN  IF ~s.active THEN {Done(d, "commit", s.off, s.n, "no_staged", 0, d.image)}
        ELSE {[o EXCEPT !.dev.staged = NoStaged] :
                o \in ProgramOutcomes(d, "commit", s.off, s.n, s.ones)}

\* A commit that did nothing leaves the program staged: an injected failure
\* before it, or a branch the callback refused.
FlashCommitStaged(d) ==
    LET s == d.staged
        Keeps(o) == o.result = "io" \/ (o.result = "injected" /\ d.failure.phase = "before")
    IN  IF ~s.active THEN {Done(d, "commit", s.off, s.n, "no_staged", 0, d.image)}
        ELSE {IF Keeps(o) THEN o ELSE [o EXCEPT !.dev.staged = NoStaged] :
                o \in ProgramOutcomes(d, "commit", s.off, s.n, s.ones)}

FlashDropStaged(d) ==
    LET s == d.staged
        hit == Matches(d, "drop")
        out == Done(d, "drop", s.off, s.n, IF hit THEN "injected" ELSE "ok", 0, d.image)
    IN  IF ~s.active THEN {Done(d, "drop", s.off, s.n, "no_staged", 0, d.image)}
        ELSE IF hit /\ d.failure.phase = "before" THEN {out}
        ELSE {[out EXCEPT !.dev.staged = NoStaged]}

\* raw_corrupt on the first n bytes: ones replaces them, or is xor-ed in.
Corrupted(image, off, n, ones, xor) ==
    LET hit == ones \cap Span(off, n)
        kept == image \ Span(off, n)
        old == image \cap Span(off, n)
    IN  kept \cup (IF xor THEN (old \ hit) \cup (hit \ old) ELSE hit)

FlashCorrupt(d, off, n, ones, xor) ==
    LET phase == IF Matches(d, "corrupt") THEN d.failure.phase ELSE "none"
        commit == CASE phase = "before" -> 0
                    [] phase = "middle" -> InjectedPartial(d.failure, n, 1)
                    [] OTHER -> n
    IN  IF ~CheckRange(off, n) THEN {Done(d, "corrupt", off, n, "range", 0, d.image)}
        ELSE {Done(d, "corrupt", off, n, IF phase = "none" THEN "ok" ELSE "injected",
                   commit, Corrupted(d.image, off, commit, ones, xor))}
=============================================================================
