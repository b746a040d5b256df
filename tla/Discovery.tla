------------------------------ MODULE Discovery ------------------------------
(***************************************************************************)
(* The headers of the circular index area: how rotation writes them, what  *)
(* a power loss leaves of them, and how mount finds the active sector, the *)
(* oldest sector and the length of the sequence again.                     *)
(*                                                                         *)
(* Only headers are modelled here (IndexLog models the records).  A header *)
(* is "none" (erased, or its VALID flag not yet programmed), "valid",      *)
(* "dead" (its TOMBSTONED flag programmed) or "other" (valid, but for      *)
(* another number of index sectors), with a 4-bit serial.  VALID and       *)
(* TOMBSTONED are one bit each, so programming them is atomic.             *)
(*                                                                         *)
(* newest and length are history variables: the last sector whose header   *)
(* was committed and the number of sectors the sequence really has.        *)
(***************************************************************************)
EXTENDS Integers

CONSTANTS
  IndexSectors,     \* fs->index_sectors, 2..15 by fffs_format
  TornEraseSerials  \* serials an interrupted erase may leave besides its own

ASSUME IndexSectorsAssumption == IndexSectors \in 2..15

ASSUME TornEraseSerialsAssumption == TornEraseSerials \subseteq 0..15

VARIABLES
  hdr,          \* header state of every index sector
  serial,       \* serial nibble of every index sector
  pc,           \* the next flash operation or scan step
  i,            \* scan position of the discovery loop
  active,       \* best_active, then fs->active_index_sector
  activeSerial, \* best_serial, then fs->active_index_serial
  oldest,       \* current of the backward walk, then fs->oldest_index_sector
  count,        \* n of the backward walk, then fs->index_sequence_count
  newest,       \* history: the sector whose header was committed last
  length        \* history: the number of sectors of the sequence

vars == <<hdr, serial, pc, i, active, activeSerial, oldest, count,
          newest, length>>

media == <<hdr, serial, newest, length>>

ram == <<i, active, activeSerial, oldest, count>>

Sectors == 0..(IndexSectors - 1)

NoSector == IndexSectors  \* !*found

Serials == 0..15

\* Mutant: the serial is not masked to four bits.
NextSerialNoMask(s) == s + 1

NextSerial(s) == IF s = 15 THEN 0 ELSE s + 1

PrevSerial(s) == IF s = 0 THEN 15 ELSE s - 1

NextSector(s) == IF s + 1 >= IndexSectors THEN 0 ELSE s + 1

PrevSector(s) == IF s = 0 THEN IndexSectors - 1 ELSE s - 1

\* Mutant: plain comparison, without 4-bit wraparound.
SerialNewerNoWrap(a, b) == a > b

\* index_serial_newer: a difference below 8 in 4-bit arithmetic is "newer".
SerialNewer(a, b) == a # b /\ (IF a >= b THEN a - b ELSE a - b + 16) < 8

Init ==
  /\ hdr = [s \in Sectors |-> IF s = 0 THEN "valid" ELSE "none"]
  /\ serial = [s \in Sectors |-> IF s = 0 THEN 0 ELSE 15]
  /\ pc = "off"
  /\ i = 0
  /\ active = NoSector /\ activeSerial = 0 /\ oldest = 0 /\ count = 0
  /\ newest = 0 /\ length = 1

-----------------------------------------------------------------------------
(* Rotation, with the file system mounted. *)

\* Mutant: the oldest sector is tombstoned before its copy is committed.
RotateBeginTombstonesFirst ==
  /\ pc = "up"
  /\ hdr' = [s \in Sectors |->
               IF s = NextSector(active) THEN "none"
               ELSE IF s = oldest /\ count + 1 = IndexSectors THEN "dead"
               ELSE hdr[s]]
  /\ serial' = [serial EXCEPT ![NextSector(active)] = 15]
  /\ active' = NextSector(active)
  /\ activeSerial' = NextSerial(activeSerial)
  /\ count' = IF count < IndexSectors THEN count + 1 ELSE count
  /\ pc' = "commit"
  /\ UNCHANGED <<i, oldest, newest, length>>

\* rotate_index_begin: the erase of the next sector, then the RAM update.
RotateBegin ==
  /\ pc = "up"
  /\ hdr' = [hdr EXCEPT ![NextSector(active)] = "none"]
  /\ serial' = [serial EXCEPT ![NextSector(active)] = 15]
  /\ active' = NextSector(active)
  /\ activeSerial' = NextSerial(activeSerial)
  /\ count' = IF count < IndexSectors THEN count + 1 ELSE count
  /\ pc' = "commit"
  /\ UNCHANGED <<i, oldest, newest, length>>

\* rotate_index_commit: the header goes in last, with the VALID flag last.
RotateCommit ==
  /\ pc = "commit"
  /\ hdr' = [hdr EXCEPT ![active] = "valid"]
  /\ serial' = [serial EXCEPT ![active] = activeSerial]
  /\ newest' = active
  /\ length' = length + 1
  /\ pc' = IF count = IndexSectors THEN "finish" ELSE "up"
  /\ UNCHANGED ram

\* index_compact_oldest_finish, from a rotation or from mount
\* (fffs_index_finish_interrupted_compaction).
CompactFinish ==
  /\ pc = "finish"
  /\ hdr' = [hdr EXCEPT ![oldest] = "dead"]
  /\ oldest' = NextSector(oldest)
  /\ count' = count - 1
  /\ length' = length - 1
  /\ pc' = "up"
  /\ UNCHANGED <<serial, i, active, activeSerial, newest>>

-----------------------------------------------------------------------------
(* Power loss: RAM is gone, the headers stay. *)

PowerOff ==
  /\ pc' = "off"
  /\ i' = 0
  /\ active' = NoSector /\ activeSerial' = 0 /\ oldest' = 0 /\ count' = 0

PowerLoss ==
  /\ pc # "off"
  /\ PowerOff
  /\ UNCHANGED media

BitsOf(x) == {b \in 0..3 : (x \div 2^b) % 2 = 1}

\* The erase of the spare is interrupted.  Erasing sets bits, so a dead
\* header may read as valid again, with its old serial or with one that has
\* more bits set, or with more bits set in the number of index sectors.  The
\* sector shift is taken to keep its value.  (An erase that got past the
\* header is PowerLoss at pc "commit".)
PowerLossInErase ==
  /\ pc = "up"
  /\ hdr[NextSector(active)] = "dead"
  /\ PowerOff
  /\ \/ /\ hdr' = [hdr EXCEPT ![NextSector(active)] = "valid"]
        /\ LET old == serial[NextSector(active)] IN
           \E x \in {old} \cup {y \in TornEraseSerials : BitsOf(old) \subseteq BitsOf(y)} :
             /\ serial' = [serial EXCEPT ![NextSector(active)] = x]
             /\ length' = IF x = old THEN length + 1 ELSE length
     \/ /\ IndexSectors # 15
        /\ hdr' = [hdr EXCEPT ![NextSector(active)] = "other"]
        /\ UNCHANGED <<serial, length>>
  /\ UNCHANGED newest

-----------------------------------------------------------------------------
(* fffs_find_index_sequence. *)

\* A valid header in sector 0 or 1 starts the scan of the index area.
Probe ==
  /\ pc = "off"
  /\ hdr[0] = "valid" \/ hdr[1] = "valid"
  /\ pc' = "scan"
  /\ UNCHANGED <<media, ram>>

\* consider_index_header for sector i.  A header for another number of sectors
\* is a conflict, whichever of the two the probe has taken its own number from,
\* and so for the second probe: FFFS_ERR_CORRUPT.
ScanStep ==
  /\ pc = "scan"
  /\ i < IndexSectors
  /\ i' = i + 1
  /\ pc' = IF hdr[i] = "other" THEN "corrupt" ELSE "scan"
  /\ IF hdr[i] = "valid" /\
        (active = NoSector \/ SerialNewer(serial[i], activeSerial))
     THEN active' = i /\ activeSerial' = serial[i]
     ELSE UNCHANGED <<active, activeSerial>>
  /\ UNCHANGED <<media, oldest, count>>

\* find_oldest_index_sector starts at the sector found.
ScanEnd ==
  /\ pc = "scan"
  /\ i = IndexSectors
  /\ active # NoSector
  /\ oldest' = active
  /\ count' = 1
  /\ pc' = "walk"
  /\ UNCHANGED <<media, i, active, activeSerial>>

Continues ==
  /\ count < IndexSectors
  /\ hdr[PrevSector(oldest)] = "valid"
  /\ serial[PrevSector(oldest)] = PrevSerial(serial[oldest])

WalkStep ==
  /\ pc = "walk"
  /\ Continues
  /\ oldest' = PrevSector(oldest)
  /\ count' = count + 1
  /\ UNCHANGED <<media, pc, i, active, activeSerial>>

WalkEnd ==
  /\ pc = "walk"
  /\ ~Continues
  /\ pc' = IF count < IndexSectors THEN "up" ELSE "finish"
  /\ i' = 0
  /\ UNCHANGED <<media, active, activeSerial, oldest, count>>

Next ==
  \/ RotateBegin \/ RotateCommit \/ CompactFinish
  \/ PowerLoss \/ PowerLossInErase
  \/ Probe \/ ScanStep \/ ScanEnd \/ WalkStep \/ WalkEnd

Spec == Init /\ [][Next]_vars

-----------------------------------------------------------------------------
\* Sector numbers, 4-bit serials and counts stay in their ranges.
TypeOK ==
  /\ hdr \in [Sectors -> {"none", "valid", "dead", "other"}]
  /\ serial \in [Sectors -> Serials]
  /\ pc \in {"off", "scan", "walk", "up", "commit", "finish", "corrupt"}
  /\ i \in 0..IndexSectors
  /\ active \in Sectors \cup {NoSector} /\ activeSerial \in Serials
  /\ oldest \in Sectors /\ count \in 0..IndexSectors
  /\ newest \in Sectors /\ length \in 1..IndexSectors

\* Age of sector s when the log has moved on to sector a.
Age(s, a) == IF s <= a THEN a - s ELSE a - s + IndexSectors

SerialBack(s, k) == IF s >= k THEN s - k ELSE s - k + 16

\* fffs_find_index_sequence: whatever rotations, power losses and torn erases
\* came before, a mount that succeeds (and every rotation after it) works on the
\* sector whose header was committed last and on exactly the sectors of its
\* sequence.
\* A wrong choice makes mount replay an old index and drop newer commits.
SequenceFound ==
  pc \in {"up", "finish"} =>
    /\ active = newest
    /\ activeSerial = serial[newest]
    /\ count = length
    /\ Age(oldest, newest) = length - 1

\* Mount only probes sectors 0 and 1 (the loop "sector < 2"): at every moment
\* power may fail, one of them carries a valid header.
AlwaysDiscoverable ==
  hdr[0] = "valid" \/ hdr[1] = "valid"
=============================================================================
