------------------------------ MODULE Inspect ------------------------------
(***************************************************************************)
(* fffs_inspect_check and fffs_inspect_live_map: what the host tools say   *)
(* of an image (src/fffs_inspect.c), as functions of the flash and the     *)
(* index of FileStore.  An image can be taken at any moment, also in the   *)
(* middle of a call.  The inspection has code of its own for the footers,  *)
(* records and chains that the library also reads.                         *)
(*                                                                         *)
(* inspect_index replays the active index sector only: the index here is   *)
(* one that has not been rotated.                                          *)
(***************************************************************************)
EXTENDS FileStore

\* valid_footer: also a tombstoned sector is looked into; a torn one is not.
ValidFooter(s) == flash[s].foot = "live" \/ (flash[s].foot = "dead" /\ flash[s].recs # <<>>)

\* read_decoded_md: the first valid record of the slot.
Decodes(s, slot) == s \in Sectors /\ ValidFooter(s) /\ Positions(s, slot, "live") # {}

\* mark_live_chains, one slot: the heads of its spans, with the first sector
\* that has no record of the slot.
ChainOf(slot) ==
  LET at[k \in 0..N] ==
        IF k = 0 THEN index[slot]
        ELSE LET last == at[k-1] IN IF Decodes(last, slot) THEN ReadMd(last, slot).next ELSE 0
  IN  IF index[slot] = 0 THEN {} ELSE {at[k] : k \in 0..N} \ {0}

SpanOf(c, slot) == c..(c + ReadMd(c, slot).span - 1)

CorruptEntry(slot) ==
  \E c \in ChainOf(slot) : ~Decodes(c, slot) \/ ~(SpanOf(c, slot) \subseteq Sectors)

\* Mutant: only the first sector of a span is marked.
OwnedByHeadsOnly(slot) == {c \in ChainOf(slot) : Decodes(c, slot)}
OwnedBy(slot) == UNION {SpanOf(c, slot) : c \in {d \in ChainOf(slot) : Decodes(d, slot)}}

\* record_reachable_for_slot of a record that is neither tombstoned nor
\* uncommitted.
\* Mutant: the sector counts as reached for any slot.
ReachedByAny(s, r) == r.st = "live" /\ \E slot \in Slots : s \in OwnedBy(slot)
Reached(s, r) == r.st = "live" /\ s \in OwnedBy(r.slot)

\* inspect_data_sectors: the sectors it counts as owned.
Owned == {s \in Sectors : flash[s].foot = "live"}

\* fffs_inspect_live_map: records of a slot whose pages are shown as live data.
LiveData(slot) ==
  {p \in Owned \X (1..MaxRecords) :
     /\ p[2] \in DOMAIN flash[p[1]].recs /\ flash[p[1]].recs[p[2]].slot = slot
     /\ Reached(p[1], flash[p[1]].recs[p[2]])}

-----------------------------------------------------------------------------
(* Whenever the image is taken, its check reports no file as corrupt and       *)
(* finds all sectors of the files in use, and its live map shows exactly the *)
(* data of the files in the index: one record for each extent of the current *)
(* version, and none of a replaced version, of a root that compaction has    *)
(* copied but not published, or of a file that is not committed.             *)
LiveMapExact ==
  \A slot \in Slots :
    LET shown == LiveData(slot)
        Extents == {flash[p[1]].recs[p[2]].ext : p \in shown}
    IN  IF index[slot] = 0 THEN shown = {}
        ELSE /\ ~CorruptEntry(slot) /\ OwnedBy(slot) \subseteq Owned
             /\ \A p \in shown : flash[p[1]].recs[p[2]].ver = ReadMd(index[slot], slot).ver
             /\ Cardinality(shown) = Cardinality(Extents)
             /\ Extents = 0..(ReadMd(index[slot], slot).size - 1)
=============================================================================
