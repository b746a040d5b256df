------------------------------ MODULE IndexLog ------------------------------
(***************************************************************************)
(* The index log: appending (slot, head) records, rotating to the next     *)
(* index sector with compaction of the oldest one, and what mount rebuilds *)
(* from the flash after a power loss at any point.                         *)
(*                                                                         *)
(* Words are sets of 1-bits.  Erased flash is the full set; programming v  *)
(* over w leaves w \cap v; programming that loses power leaves any word    *)
(* between w \cap v and w.  The module Discovery shows that mount finds    *)
(* the sequence of valid index sectors, so here that sequence is the       *)
(* variable log, oldest sector first, each with its programmed records.    *)
(* The sector a rotation is filling joins log when its header is valid.    *)
(***************************************************************************)
EXTENDS Integers, Sequences, FiniteSets

CONSTANTS
  IndexSectors,      \* fs->index_sectors
  RecordsPerSector,  \* records that fit behind the header of an index sector
  SlotBits,          \* bit numbers of a slot word
  HeadBits,          \* bit numbers of a head word
  Slots,             \* slots the file layer uses
  DataSectors,       \* heads in index_sectors .. sector_count - 1
  Tears              \* which misleading torn words are considered

ASSUME IndexSectorsAssumption == IndexSectors \in 2..9

ASSUME RecordsPerSectorAssumption == RecordsPerSector \in Nat \ {0}

\* An erased word is not a zero word.
ASSUME WordsAssumption == SlotBits # {} /\ HeadBits # {}

SlotWords == SUBSET SlotBits

HeadWords == SUBSET HeadBits

\* 0 and 0xffff are never slots (fffs_normalize_slot_base).
ASSUME SlotsAssumption == Slots \subseteq SlotWords \ {{}, SlotBits}

\* Sector 0 holds the index and 0xffff is beyond every device.
ASSUME DataSectorsAssumption == DataSectors \subseteq HeadWords \ {{}, HeadBits}

ASSUME TearsAssumption == Tears \subseteq {"old", "orphan", "clobber"}

VARIABLES
  log,     \* the valid index sectors, oldest first
  fresh,   \* records of the index sector a rotation is filling
  roots,   \* <<slot, head>> with a live root record in data sector head
  active,  \* fs->active_index_sector: the last of "log", or "fresh"
  next,    \* fs->next_index_offset, counted in records from 1
  cache,   \* the index cache: head of every slot, {} when it has none
  src,     \* compaction: the next record of the oldest sector
  pc,      \* the next flash operation
  op,      \* the record being appended, or in doubt after a power loss
  before,  \* history: the cache when power was lost
  fails    \* history: operations in a row that returned FFFS_ERR_NO_SPACE

vars == <<log, fresh, roots, active, next, cache, src, pc, op, before, fails>>

Free == {}  \* a head of 0 is a delete record

NoOp == [slot |-> {}, head |-> {}]

Zero == [slot |-> {}, head |-> {}]  \* a clobbered record

NoNames == [s \in Slots |-> Free]

-----------------------------------------------------------------------------
(* What replay makes of the flash. *)

LastOf(s) == s[Len(s)]

\* The last record of the active sector, when it has one: only it is
\* "terminal" (active_index_record_is_terminal).
HasTail(l) == LastOf(l) # <<>>

TailOf(l) == LastOf(LastOf(l))

\* A record replay takes in: clobbered, a delete, or a head in range.
WellFormed(r) ==
  \/ r = Zero
  \/ /\ r.slot \notin {{}, SlotBits}
     /\ r.head \in DataSectors \cup {Free}

\* Mutant: the terminal record is taken in without looking at its root.
TailOkNoRoot(r, rt) == WellFormed(r)

\* The terminal record must also have a live root behind it
\* (fffs_read_file_root_md).
TailOk(r, rt) ==
  /\ WellFormed(r)
  /\ r.head \in DataSectors => <<r.slot, r.head>> \in rt

BadTail(l, rt) == HasTail(l) /\ ~TailOk(TailOf(l), rt)

\* Positions of the records replay applies: all but a bad tail.
Applies(l, rt) ==
  {p \in (1..Len(l)) \X (1..RecordsPerSector) :
     /\ p[2] <= Len(l[p[1]])
     /\ ~(p = <<Len(l), Len(LastOf(l))>> /\ BadTail(l, rt))}

NotAfter(p, q) == p[1] < q[1] \/ (p[1] = q[1] /\ p[2] <= q[2])

\* fffs_replay_index: the last record of a slot wins.
LastFor(l, rt, s, p) ==
  /\ p \in Applies(l, rt) /\ l[p[1]][p[2]].slot = s
  /\ \A q \in Applies(l, rt) : l[q[1]][q[2]].slot = s => NotAfter(q, p)

Recovered(l, rt) ==
  [s \in Slots |->
     IF \E p \in Applies(l, rt) : LastFor(l, rt, s, p)
     THEN LET p == CHOOSE p \in Applies(l, rt) : LastFor(l, rt, s, p)
          IN  l[p[1]][p[2]].head
     ELSE Free]

\* Only the terminal record of the active sector may be malformed; replay
\* returns FFFS_ERR_CORRUPT for any other.
Replayable(l) ==
  \A k \in 1..Len(l) : \A j \in 1..Len(l[k]) :
    WellFormed(l[k][j]) \/ (k = Len(l) /\ j = Len(l[k]))

-----------------------------------------------------------------------------
(* Programming a record. *)

\* Programming the words of r over record n of sector sec.
Program(sec, n, r) ==
  IF n <= Len(sec)
  THEN [sec EXCEPT ![n] = [slot |-> @.slot \cap r.slot,
                           head |-> @.head \cap r.head]]
  ELSE IF r = [slot |-> SlotBits, head |-> HeadBits] THEN sec
  ELSE Append(sec, r)

ProgramActive(r) ==
  IF active = "log"
  THEN /\ log' = [log EXCEPT ![Len(log)] = Program(@, next, r)]
       /\ UNCHANGED fresh
  ELSE /\ fresh' = Program(fresh, next, r)
       /\ UNCHANGED log

Init ==
  /\ log = <<<<>>>> /\ fresh = <<>> /\ roots = {}
  /\ active = "log" /\ next = 1 /\ cache = NoNames /\ src = 1
  /\ pc = "off" /\ op = NoOp
  /\ before = NoNames /\ fails = 0

-----------------------------------------------------------------------------
(* Mount. *)

\* fffs_find_index_sequence and fffs_index_finish_interrupted_compaction: a
\* full sequence means the oldest sector was copied but not tombstoned.
FinishInterrupted ==
  /\ pc = "off"
  /\ log' = IF Len(log) = IndexSectors THEN Tail(log) ELSE log
  /\ pc' = "replay"
  /\ UNCHANGED <<fresh, roots, active, next, cache, src, op, before, fails>>

Mounted ==
  /\ cache' = Recovered(log, roots)
  /\ next' = Len(LastOf(log)) + 1
  /\ active' = "log"
  /\ op' = NoOp
  /\ pc' = "idle"
  /\ UNCHANGED <<fresh, roots, src, before, fails>>

Replay ==
  /\ pc = "replay"
  /\ Replayable(log)
  /\ ~BadTail(log, roots)
  /\ Mounted
  /\ UNCHANGED log

\* Mutant: the bad record is stepped over and stays on flash.
ReplayStepsOver ==
  /\ pc = "replay"
  /\ Replayable(log)
  /\ BadTail(log, roots)
  /\ Mounted
  /\ UNCHANGED log

\* clobber_active_tail: a bad terminal record is overwritten with zeros.
ReplayClobber ==
  /\ pc = "replay"
  /\ Replayable(log)
  /\ BadTail(log, roots)
  /\ Mounted
  /\ log' = [log EXCEPT ![Len(log)] = Program(@, Len(@), Zero)]

-----------------------------------------------------------------------------
(* Operations of the file layer that end in fffs_append_index_record. *)

\* fffs_close (or a GC root move) has made the root record of slot s in
\* sector h live.  The allocator rejects a sector with a live root of s.
BeginCommit(s, h) ==
  /\ pc = "idle"
  /\ <<s, h>> \notin roots
  /\ roots' = roots \cup {<<s, h>>}
  /\ op' = [slot |-> s, head |-> h]
  /\ pc' = "append"
  /\ UNCHANGED <<log, fresh, active, next, cache, src, before, fails>>

\* fffs_delete_file of a file that exists.
BeginDelete(s) ==
  /\ pc = "idle"
  /\ cache[s] # Free
  /\ op' = [slot |-> s, head |-> Free]
  /\ pc' = "append"
  /\ UNCHANGED <<log, fresh, roots, active, next, cache, src, before, fails>>

\* fffs_invalidate_old_chain after a commit or delete, or GC later: the root
\* records it tombstones are those the index does not name.
DropRoot(s, h) ==
  /\ pc = "idle"
  /\ <<s, h>> \in roots /\ cache[s] # h
  /\ roots' = roots \ {<<s, h>>}
  /\ UNCHANGED <<log, fresh, active, next, cache, src, pc, op, before, fails>>

-----------------------------------------------------------------------------
(* fffs_append_index_record. *)

\* rotate_index_begin: the next sector is erased and becomes active.
RotateBegin ==
  /\ pc = "append"
  /\ next > RecordsPerSector
  /\ active = "log"
  /\ fresh' = <<>>
  /\ active' = "fresh"
  /\ next' = 1
  /\ src' = 1
  /\ pc' = IF Len(log) + 1 = IndexSectors THEN "copy" ELSE "header"
  /\ UNCHANGED <<log, roots, cache, op, before, fails>>

\* Mutant: every record of a slot that still has a file is carried forward.
CarriedForwardStale(r) == r.head # Free /\ cache[r.slot] # Free

\* Neither clobbered records nor deletes nor records that are no longer
\* current (fffs_index_record_is_current).
CarriedForward(r) == r.head # Free /\ cache[r.slot] = r.head

\* index_compact_oldest_copy, one record of the oldest sector.
CopyRecord ==
  /\ pc = "copy"
  /\ src <= Len(log[1])
  /\ src' = src + 1
  /\ IF CarriedForward(log[1][src])
     THEN fresh' = Append(fresh, log[1][src]) /\ next' = next + 1
     ELSE UNCHANGED <<fresh, next>>
  /\ UNCHANGED <<log, roots, active, cache, pc, op, before, fails>>

CopyEnd ==
  /\ pc = "copy"
  /\ src > Len(log[1])
  /\ pc' = "header"
  /\ UNCHANGED <<log, fresh, roots, active, next, cache, src, op, before, fails>>

\* rotate_index_commit: the VALID flag of the header goes in last.
RotateCommit ==
  /\ pc = "header"
  /\ log' = Append(log, fresh)
  /\ fresh' = <<>>
  /\ active' = "log"
  /\ pc' = IF Len(log) + 1 = IndexSectors THEN "finish" ELSE "rotated"
  /\ UNCHANGED <<roots, next, cache, src, op, before, fails>>

\* index_compact_oldest_finish.
CompactFinish ==
  /\ pc = "finish"
  /\ log' = Tail(log)
  /\ pc' = "rotated"
  /\ UNCHANGED <<fresh, roots, active, next, cache, src, op, before, fails>>

\* Rotation left no room: every record of the oldest sector was current.
NoSpace ==
  /\ pc = "rotated"
  /\ next > RecordsPerSector
  /\ op' = NoOp
  /\ pc' = "idle"
  /\ fails' = IF fails < IndexSectors THEN fails + 1 ELSE fails
  /\ UNCHANGED <<log, fresh, roots, active, next, cache, src, before>>

\* program_index_record_at, first half.
ProgramSlot ==
  /\ pc \in {"append", "rotated"}
  /\ next <= RecordsPerSector
  /\ ProgramActive([slot |-> op.slot, head |-> HeadBits])
  /\ pc' = "head"
  /\ UNCHANGED <<roots, active, next, cache, src, op, before, fails>>

\* Mutant: the head is programmed but the cache keeps the old one.
ProgramHeadSkipsCache ==
  /\ pc = "head"
  /\ ProgramActive(op)
  /\ next' = next + 1
  /\ op' = NoOp
  /\ pc' = "idle"
  /\ fails' = 0
  /\ UNCHANGED <<roots, active, cache, src, before>>

\* program_index_record_at, second half, then fffs_index_set.
ProgramHead ==
  /\ pc = "head"
  /\ ProgramActive(op)
  /\ next' = next + 1
  /\ cache' = [cache EXCEPT ![op.slot] = op.head]
  /\ op' = NoOp
  /\ pc' = "idle"
  /\ fails' = 0
  /\ UNCHANGED <<roots, active, src, before>>

-----------------------------------------------------------------------------
(* Power loss. *)

PowerOff ==
  /\ pc' = "off"
  /\ cache' = NoNames /\ next' = 1 /\ src' = 1
  /\ active' = "log" /\ fresh' = <<>>
  /\ before' = IF pc \in {"off", "replay"} THEN before ELSE cache
  /\ fails' = 0
  /\ UNCHANGED <<roots, op>>

PowerLoss ==
  /\ pc # "off"
  /\ PowerOff
  /\ UNCHANGED log

\* Words that programming v over w may leave when power is lost.
Torn(v, w) == {x \in SUBSET w : w \cap v \subseteq x}

PowerLossInSlot ==
  /\ pc \in {"append", "rotated"}
  /\ next <= RecordsPerSector
  /\ PowerOff
  /\ \E x \in Torn(op.slot, SlotBits) :
       log' = [log EXCEPT ![Len(log)] =
                 Program(@, next, [slot |-> x, head |-> HeadBits])]

\* A torn head may happen to name a live root of the same slot: the current
\* one ("old" in Tears) or one the index never named or no longer names
\* ("orphan" in Tears).
PowerLossInHead ==
  /\ pc = "head"
  /\ PowerOff
  /\ \E x \in Torn(op.head, HeadBits) :
       /\ \/ <<op.slot, x>> \notin roots \/ x = op.head
          \/ (IF x = cache[op.slot] THEN "old" ELSE "orphan") \in Tears
       /\ log' = [log EXCEPT ![Len(log)] =
                    Program(@, next, [slot |-> op.slot, head |-> x])]

\* A torn clobber may happen to leave a record that replay accepts: only when
\* "clobber" is in Tears, unless it is the record in doubt itself.
PowerLossInClobber ==
  /\ pc = "replay"
  /\ BadTail(log, roots)
  /\ PowerOff
  /\ \E x \in SUBSET TailOf(log).slot, y \in SUBSET TailOf(log).head :
       LET r == [slot |-> x, head |-> y] IN
       /\ "clobber" \in Tears \/ ~TailOk(r, roots) \/ r \in {Zero, op}
       /\ log' = [log EXCEPT ![Len(log)] = Program(@, Len(@), r)]

-----------------------------------------------------------------------------
Next ==
  \/ FinishInterrupted \/ Replay \/ ReplayClobber
  \/ \E s \in Slots, h \in DataSectors : BeginCommit(s, h) \/ DropRoot(s, h)
  \/ \E s \in Slots : BeginDelete(s)
  \/ RotateBegin \/ CopyRecord \/ CopyEnd \/ RotateCommit \/ CompactFinish
  \/ NoSpace \/ ProgramSlot \/ ProgramHead
  \/ PowerLoss \/ PowerLossInSlot \/ PowerLossInHead \/ PowerLossInClobber

Spec == Init /\ [][Next]_vars

\* A backend operation of fffs_append_index_record fails without effect; the
\* error is returned with the RAM state as the steps before it left it.  (A
\* second rotation after a failed one is not modelled.)
IoError ==
  /\ pc \in {"append", "copy", "header", "finish", "rotated", "head"}
  /\ op' = NoOp
  /\ pc' = "idle"
  /\ UNCHANGED <<log, fresh, roots, active, next, cache, src, before, fails>>

SpecIo == Init /\ [][Next \/ IoError]_vars

-----------------------------------------------------------------------------
Records == [slot : SlotWords, head : HeadWords]

\* No sector overflows, the sequence never outgrows the index area, and the
\* cache maps slots to data sectors only.
TypeOK ==
  /\ log \in Seq(Seq(Records)) /\ Len(log) \in 1..IndexSectors
  /\ \A k \in 1..Len(log) : Len(log[k]) <= RecordsPerSector
  /\ fresh \in Seq(Records) /\ Len(fresh) <= RecordsPerSector
  /\ roots \subseteq Slots \X DataSectors
  /\ active \in {"log", "fresh"}
  /\ next \in 1..(RecordsPerSector + 1) /\ src \in 1..(RecordsPerSector + 1)
  /\ cache \in [Slots -> DataSectors \cup {Free}]
  /\ pc \in {"off", "replay", "idle", "append", "copy", "header", "finish",
             "rotated", "head"}
  /\ op \in {NoOp} \cup [slot : Slots, head : DataSectors \cup {Free}]
  /\ before \in [Slots -> DataSectors \cup {Free}]
  /\ fails \in 0..IndexSectors

\* Between operations the RAM index is exactly what a mount would rebuild
\* from the flash at that moment: what an operation acknowledged is what a
\* crash preserves.
Durable == pc = "idle" => Recovered(log, roots) = cache

\* fffs_mount never rejects an index for what power losses did to it: at
\* most the terminal record of the active sector is malformed.
MountSucceeds == pc \in {"off", "replay"} => Replayable(log)

\* FFFS_ERR_NO_SPACE from the index is not final while it has room: rotation
\* makes progress, so after at most IndexSectors - 1 refusals in a row an
\* operation succeeds unless the live entries fill all but the spare sector.
RetrySucceeds ==
  pc = "idle" /\ fails >= IndexSectors - 1 =>
    Cardinality({s \in Slots : cache[s] # Free})
      >= (IndexSectors - 1) * RecordsPerSector

Abstract == INSTANCE Namespace WITH
  Heads <- DataSectors,
  names <- IF pc \in {"off", "replay"} THEN before ELSE cache,
  power <- IF pc \in {"off", "replay"} THEN "off" ELSE "on"

\* A power loss anywhere leaves the operation it interrupts done or not done,
\* and leaves every other slot as it was: that is what the mount after it
\* finds, however often the mount itself is interrupted.
CrashAtomic ==
  pc \in {"off", "replay"} =>
    Recovered(log, roots) \in {before, Abstract!Applied(before, op)}

\* Every operation on the index is atomic: success means it is in the
\* namespace for good, failure that it is not, and a power loss anywhere in
\* append, rotation, compaction, mount or recovery leaves it done or not done
\* with no other slot affected.
ImplementsNamespace == Abstract!Spec
=============================================================================
