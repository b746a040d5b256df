----------------------------- MODULE HashCache ------------------------------
(***************************************************************************)
(* The default index cache: an open-addressed table of (slot, head) with   *)
(* linear probing and deletion by cluster repair, and the directory        *)
(* iterator that walks its buckets.                                        *)
(*                                                                         *)
(* live is the namespace the flash index holds: fffs_append_index_record   *)
(* programs the record before it updates the table.                        *)
(***************************************************************************)
EXTENDS Integers

CONSTANTS
  TableSize,  \* fs->index_hash_table_size, a power of two
  Slots,      \* index keys in use, none of them 0; more than buckets, perhaps
  Heads       \* root sectors, none of them 0

ASSUME TableSizeAssumption ==
  TableSize \in Nat \ {0} /\ \E k \in 0..14 : TableSize = 2^k

\* A slot is a uint16_t.
ASSUME SlotsAssumption == Slots \subseteq Nat \ {0}

ASSUME HeadsAssumption == Heads \subseteq Nat \ {0}

VARIABLES
  table,    \* bucket -> [slot, head]
  live,     \* slot -> head on flash, 0 for none
  refused,  \* history: live slots whose insertion the full table refused
  pc,       \* "idle", or "repair" inside remove_bucket_at
  hole,     \* remove_bucket_at: the bucket to refill
  idx,      \* remove_bucket_at: the bucket examined
  pos,      \* dir->pos of an open iterator
  due       \* history: slots the open iterator still has to answer for

vars == <<table, live, refused, pc, hole, idx, pos, due>>

Buckets == 0..(TableSize - 1)

Empty == [slot |-> 0, head |-> 0]

Home(s) == s % TableSize

ProbeDistance(from, to) == (to - from) % TableSize

Bucket(s, k) == (Home(s) + k) % TableSize

\* find_slot_bucket: probes at which the search for s stops.
Stops(t, s) == {k \in Buckets : t[Bucket(s, k)].slot \in {0, s}}

FindBucket(t, s) ==
  Bucket(s, CHOOSE k \in Stops(t, s) : \A j \in Stops(t, s) : k <= j)

\* fffs_index_head_for_slot.
HeadForSlot(t, s) ==
  IF Stops(t, s) = {} \/ t[FindBucket(t, s)].slot # s THEN 0
  ELSE t[FindBucket(t, s)].head

\* The slots that have a bucket.
CachedSlots == {s \in Slots : live[s] # 0} \ refused

Init ==
  /\ table = [b \in Buckets |-> Empty]
  /\ live = [s \in Slots |-> 0] /\ refused = {}
  /\ pc = "idle" /\ hole = 0 /\ idx = 0
  /\ pos = TableSize /\ due = {}

\* fffs_index_insert, the record (s, h) being on flash already.  In a full
\* table it returns FFFS_ERR_NO_SPACE and leaves the table alone.
Insert(s, h) ==
  /\ pc = "idle"
  /\ live' = [live EXCEPT ![s] = h]
  /\ IF Stops(table, s) = {}
     THEN refused' = refused \cup {s} /\ UNCHANGED table
     ELSE /\ table' = [table EXCEPT ![FindBucket(table, s)] =
                         [slot |-> s, head |-> h]]
          /\ refused' = refused \ {s}
  /\ UNCHANGED <<pc, hole, idx, pos, due>>

\* fffs_index_remove of a slot that has a bucket.  A listing in progress
\* promises nothing once entries move.
RemoveBegin(s) ==
  /\ pc = "idle"
  /\ HeadForSlot(table, s) # 0
  /\ live' = [live EXCEPT ![s] = 0]
  /\ hole' = FindBucket(table, s)
  /\ idx' = (FindBucket(table, s) + 1) % TableSize
  /\ pc' = "repair"
  /\ due' = {}
  /\ UNCHANGED <<table, refused, pos>>

\* Mutant: every entry of the cluster moves back.
MovesAlways(from, to, cur) == TRUE

\* An entry moves into the hole when the hole is nearer to its home.
Moves(from, to, cur) == ProbeDistance(from, to) < ProbeDistance(from, cur)

\* remove_bucket_at, one turn of the loop.
RepairStep ==
  /\ pc = "repair"
  /\ table[idx].slot # 0
  /\ IF Moves(Home(table[idx].slot), hole, idx)
     THEN table' = [table EXCEPT ![hole] = table[idx]] /\ hole' = idx
     ELSE UNCHANGED <<table, hole>>
  /\ idx' = (idx + 1) % TableSize
  /\ UNCHANGED <<live, refused, pc, pos, due>>

\* Mutant: the loop does not stop at an empty bucket.
RepairEndNever ==
  /\ pc = "repair"
  /\ table[idx].slot = 0
  /\ idx' = (idx + 1) % TableSize
  /\ UNCHANGED <<table, live, refused, pc, hole, pos, due>>

RepairEnd ==
  /\ pc = "repair"
  /\ table[idx].slot = 0
  /\ table' = [table EXCEPT ![hole] = Empty]
  /\ pc' = "idle"
  /\ UNCHANGED <<live, refused, hole, idx, pos, due>>

\* fffs_dir_open.
DirOpen ==
  /\ pc = "idle"
  /\ pos = TableSize
  /\ pos' = 0
  /\ due' = CachedSlots
  /\ UNCHANGED <<table, live, refused, pc, hole, idx>>

\* Mutant: an empty bucket ends the listing.
DirReadStopsEarly ==
  /\ pc = "idle"
  /\ pos < TableSize
  /\ pos' = IF table[pos].slot = 0 THEN TableSize ELSE pos + 1
  /\ due' = due \ {table[pos].slot}
  /\ UNCHANGED <<table, live, refused, pc, hole, idx>>

\* fffs_index_dir_read, one bucket; the caller may change files in between.  A
\* root that cannot be read is answered with its error in dir->status: the
\* position has moved on, and the next call goes on behind it.
DirRead ==
  /\ pc = "idle"
  /\ pos < TableSize
  /\ pos' = pos + 1
  /\ due' = due \ {table[pos].slot}
  /\ UNCHANGED <<table, live, refused, pc, hole, idx>>

Next ==
  \/ \E s \in Slots : RemoveBegin(s) \/ \E h \in Heads : Insert(s, h)
  \/ RepairStep \/ RepairEnd
  \/ DirOpen \/ DirRead

\* The loop of remove_bucket_at runs on without waiting for anything.
Spec == Init /\ [][Next]_vars /\ WF_vars(RepairStep \/ RepairEnd)

-----------------------------------------------------------------------------
\* Buckets hold slots with heads, and every index stays inside the table.
TypeOK ==
  /\ table \in [Buckets -> [slot : Slots \cup {0}, head : Heads \cup {0}]]
  /\ live \in [Slots -> Heads \cup {0}] /\ refused \subseteq Slots
  /\ pc \in {"idle", "repair"}
  /\ hole \in Buckets /\ idx \in Buckets
  /\ pos \in 0..TableSize /\ due \subseteq Slots

\* The cache is a faithful image of the flash namespace: after any history of
\* inserts, overwrites and cluster repairs, full tables included, every slot is
\* found with its head and no removed slot is found; missing are exactly the
\* slots whose last insertion a full table refused after the record was on flash.
LookupAgrees ==
  pc = "idle" => \A s \in Slots :
    HeadForSlot(table, s) = IF s \in refused THEN 0 ELSE live[s]

\* A listing answers for every file the cache held when it started, with its
\* entry or with the error of its root, whatever is created or overwritten
\* meanwhile, as long as nothing is deleted.
ListingComplete == pos = TableSize => due = {}

\* fffs_index_remove returns if the table has an empty bucket.  In a full one
\* the loop of remove_bucket_at meets no end.
RemoveReturns ==
  (pc = "repair" /\ \E b \in Buckets : table[b].slot = 0) ~> pc = "idle"
=============================================================================
