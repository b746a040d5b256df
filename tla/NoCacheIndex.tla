---------------------------- MODULE NoCacheIndex ----------------------------
(***************************************************************************)
(* The index without a RAM cache (FFFS_INDEX_CACHE_NONE): every question   *)
(* is answered by scanning the index sectors.  The scans are functions of  *)
(* the flash of IndexLog; there the cache says what they should find.      *)
(* The window the scans read through holds what flash holds within a call; *)
(* the README says what happens to it between two fffs_dir_read.           *)
(***************************************************************************)
EXTENDS IndexLog

\* The sectors in order of logical_sector; the one a rotation is filling is
\* counted as soon as it is erased (index_sequence_count).
Sequence == IF active = "fresh" THEN Append(log, fresh) ELSE log

Positions(q) == {p \in (1..Len(q)) \X (1..RecordsPerSector) : p[2] <= Len(q[p[1]])}

At(q, p) == q[p[1]][p[2]]

\* newer_record_for_slot; a clobbered record has a slot of no file.
NewerRecord(q, p, s) ==
  \E n \in Positions(q) : ~NotAfter(n, p) /\ At(q, n).slot = s

\* fffs_index_head_for_slot, from the newest record to the oldest.
\* Mutant: a delete record is stepped over.
HeadBehindDelete(q, s) ==
  LET live == {n \in Positions(q) : At(q, n).slot = s /\ At(q, n).head # Free}
  IN  IF live = {} THEN Free
      ELSE At(q, CHOOSE n \in live : \A m \in live : NotAfter(m, n)).head
HeadForSlot(q, s) ==
  LET found == {n \in Positions(q) : At(q, n).slot = s /\ ~NewerRecord(q, n, s)}
  IN  IF found = {} THEN Free ELSE At(q, CHOOSE n \in found : TRUE).head

\* The candidate slots fffs_index_resolve finds taken: the newest record of
\* each decides, a delete as much as a commit.
Occupied(q, candidates) == {s \in candidates : HeadForSlot(q, s) # Free}

\* current_index_entry_read from the start to the end: what fffs_index_dir_read
\* and fffs_index_iter_read give, as positions.
Entries(q) == {p \in Positions(q) : At(q, p).head # Free /\ ~NewerRecord(q, p, At(q, p).slot)}

\* fffs_index_record_is_current for record n of the oldest sector.  The code
\* scans the sector being filled too; in this build the copies in it were
\* current themselves, so none of them is of the slot of a later record.
RecordIsCurrent(n) == ~NewerRecord(log, <<1, n>>, log[1][n].slot)

-----------------------------------------------------------------------------
\* From mount on, between calls and inside an append, a rotation or a
\* compaction, the scans find what a RAM cache would hold for every slot: no
\* torn, clobbered, superseded or copied record misleads them, and compaction
\* takes no record that is superseded.  Between calls a listing by scan gives
\* every file exactly once, with its current head, and nothing else.
ScanAgrees ==
  /\ pc \notin {"off", "replay", "head"} =>
       /\ \A s \in Slots : HeadForSlot(Sequence, s) = cache[s]
       /\ Occupied(Sequence, Slots) = {s \in Slots : cache[s] # Free}
  /\ pc = "copy" =>
       \A n \in 1..Len(log[1]) :
         log[1][n].head # Free /\ RecordIsCurrent(n) => CarriedForward(log[1][n])
  /\ pc = "idle" =>
       /\ {<<At(Sequence, p).slot, At(Sequence, p).head>> : p \in Entries(Sequence)}
            = {<<s, cache[s]>> : s \in {t \in Slots : cache[t] # Free}}
       /\ \A p, r \in Entries(Sequence) : At(Sequence, p).slot = At(Sequence, r).slot => p = r
=============================================================================
