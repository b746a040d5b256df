-------------------------- MODULE Allocator_proofs --------------------------
(***************************************************************************)
(* Proofs about Allocator: for any number of sectors, writers and reserve  *)
(* sizes, no two open files are given the same sector, no sector kept for  *)
(* compaction is in use by a writer, what a writer has left stays, no bit  *)
(* of the allocation map leaks, and no space is reported only when nothing *)
(* is left to collect.                                                     *)
(***************************************************************************)
EXTENDS Allocator, TLAPS

Calls == [step : {"idle", "once", "again", "gc", "compact", "relaxed"}, w : Writers \cup {0},
          skip : Nat, src : Nat, cands : SUBSET Sectors, tried : SUBSET Sectors]
File == [head : Nat, cur : Nat, span : Nat, first : Nat, count : Nat, chain : SUBSET Sectors]

\* What the variables range over; how many records fit does not matter here.
Ranges ==
  /\ sec \in [Sectors -> [blank : BOOLEAN, recs : Nat, roots : Nat, cont : BOOLEAN,
                          fit : {"normal", "relaxed", "none"}]]
  /\ used \subseteq Sectors /\ reserve \subseteq Sectors
  /\ cursor \in Sectors /\ gcCursor \in Sectors
  /\ writer \in [Writers -> File]
  /\ call \in Calls
  /\ \A w \in Writers : /\ writer[w].cur \in {0} \cup Sectors
                        /\ writer[w].cur # 0 => writer[w].head \in Sectors
                        /\ writer[w].cur = 0 => writer[w].head = 0 /\ writer[w].span = 0
                        /\ Reserved(w) \subseteq Sectors

\* The call under way: its file has no reservation while it scans, and what it
\* compacts is no writer's and not in the compaction reserve.
CallShape ==
  /\ call.step # "idle" => call.w \in Writers
  /\ call.step \in {"once", "again"} => writer[call.w].count = 0
  /\ \A s \in call.cands : s \notin reserve /\ ~OpenForWriting(s) /\ ~sec[s].cont
  /\ call.src # 0 => call.src \in call.cands
  /\ call.step \notin {"compact", "relaxed"} => call.cands = {}

\* An erased sector holds no record; one in the compaction reserve has its map
\* bit set and is in no reservation.
BlankShape ==
  /\ \A s \in Sectors : sec[s].blank => sec[s].recs = 0 /\ sec[s].roots = 0 /\ ~sec[s].cont
  /\ \A s \in reserve : sec[s].blank => s \in used /\ \A w \in Writers : s \notin Reserved(w)

\* A sector that a writer has left holds a live continuation and is closed to
\* further allocation.
ChainShape ==
  \A w \in Writers : \A s \in writer[w].chain :
     sec[s].cont /\ sec[s].recs > 0 /\ ~sec[s].blank /\ sec[s].fit = "none"

\* The inductive invariant.
Safe == Ranges /\ CallShape /\ BlankShape /\ ChainShape /\ HandedApart /\ ReserveApart

-----------------------------------------------------------------------------
USE DEF Calls

\* Where use_alloc_window goes on reserving: after what the file has reserved.
LEMMA ReserveGoesOn ==
  ASSUME NEW f \in File, NEW s \in Sectors
  PROVE  \E n \in Nat : n = ReserveNext(f, s) /\ (f.count # 0 => n = f.first + f.count)
<1>1. f.first \in Nat /\ f.count \in Nat
  BY DEF File
<1>2. s \in Nat
  BY AllocatorAssumption DEF Sectors
<1> QED  BY <1>1, <1>2 DEF ReserveNext

\* A reservation of c sectors from a, extended by k sectors from n, starts at first.
Grown(a, c, k, n, first) ==
  first = (IF c = 0 /\ k > 0 THEN n ELSE a) /\ (c # 0 => n = a + c)

\* It is one interval.
LEMMA GrownInterval ==
  ASSUME NEW a \in Nat, NEW c \in Nat, NEW k \in Nat, NEW n \in Nat, NEW t \in Nat,
         NEW first \in Nat, Grown(a, c, k, n, first),
         t \in a .. (a + c - 1) \/ t \in n .. (n + k - 1)
  PROVE  t \in first .. (first + (c + k) - 1)
BY DEF Grown

\* Sec is what a sector can be.
Sec == [blank : BOOLEAN, recs : Nat, roots : Nat, cont : BOOLEAN, fit : {"normal", "relaxed", "none"}]

\* The record of a sector that a writer leaves: it is no longer erased nor open
\* to allocation, and a continuation is live.
LEMMA LeftSector ==
  ASSUME NEW x \in Sec, NEW root \in BOOLEAN
  PROVE  /\ Left(x, root) \in Sec
         /\ ~Left(x, root).blank /\ Left(x, root).recs > 0 /\ Left(x, root).fit = "none"
         /\ x.cont => Left(x, root).cont
         /\ ~root => Left(x, root).cont
<1>1. (x.cont \/ ~root) \in BOOLEAN
  OBVIOUS
<1>2. PICK c \in BOOLEAN : c = (x.cont \/ ~root)
  BY <1>1, Zenon
<1>3. Left(x, root) = [x EXCEPT !.blank = FALSE, !.recs = @ + 1, !.fit = "none", !.cont = c]
  BY <1>2 DEF Left
<1>4. Left(x, root) = [blank |-> FALSE, recs |-> x.recs + 1, roots |-> x.roots, cont |-> c, fit |-> "none"]
  BY <1>3, Zenon DEF Sec
<1>5. x.recs + 1 \in Nat /\ x.recs + 1 > 0 /\ x.roots \in Nat
  BY DEF Sec
<1>6. Left(x, root) \in Sec
  BY <1>4, <1>5 DEF Sec
<1>7. Left(x, root).cont = c
  BY <1>4
<1>8. (x.cont => Left(x, root).cont) /\ (~root => Left(x, root).cont)
  BY <1>2, <1>7, Zenon
<1>9. ~Left(x, root).blank /\ Left(x, root).recs > 0 /\ Left(x, root).fit = "none"
  BY <1>4, <1>5
<1> QED
  BY <1>6, <1>8, <1>9

\* Sector records that differ in a few fields.
LEMMA StartedFields ==
  ASSUME NEW x \in Sec, NEW fit \in {"normal", "relaxed", "none"}
  PROVE  /\ [x EXCEPT !.blank = FALSE, !.fit = fit] \in Sec
         /\ ~[x EXCEPT !.blank = FALSE, !.fit = fit].blank
BY ZenonT(30) DEF Sec
\* The same for a committed root.
LEMMA CommittedFields ==
  ASSUME NEW x \in Sec, NEW n \in Nat
  PROVE  /\ [x EXCEPT !.blank = FALSE, !.roots = n] \in Sec
         /\ ~[x EXCEPT !.blank = FALSE, !.roots = n].blank
         /\ [x EXCEPT !.blank = FALSE, !.roots = n].roots = n
BY ZenonT(30) DEF Sec
\* The same for a sector that is full.
LEMMA FitFields ==
  ASSUME NEW x \in Sec, NEW fit \in {"normal", "relaxed", "none"}
  PROVE  /\ [x EXCEPT !.fit = fit] \in Sec
         /\ ~x.blank => ~[x EXCEPT !.fit = fit].blank
         /\ [x EXCEPT !.fit = fit].roots = x.roots
BY DEF Sec

\* Giving a sector that no writer has, and that is not kept for compaction, to
\* a file preserves the invariant, whichever step of fffs_alloc_next_sector
\* found it.  f is the file with its reservation kept or shortened, bits the
\* map, base the sectors with s possibly erased.
LEMMA GiveKeepsSafe ==
  ASSUME Safe,
         NEW w \in Writers, NEW s \in Sectors, NEW f \in File, NEW bits \in SUBSET Sectors,
         NEW base \in [Sectors -> Sec],
         f.cur = writer[w].cur, f.head = writer[w].head, f.span = writer[w].span,
         f.chain = writer[w].chain,
         f.first .. (f.first + f.count - 1) \subseteq Reserved(w),
         \A t \in Sectors : t # s => base[t] = sec[t],
         base[s].blank => base[s].recs = 0 /\ base[s].roots = 0 /\ ~base[s].cont,
         ~OpenForWriting(s), \A v \in Writers : s \notin writer[v].chain,
         reserve' \subseteq Sectors, s \notin reserve',
         cursor' \in Sectors, gcCursor' \in Sectors,
         \A t \in reserve' : \A v \in Writers : ~Given(v, t),
         \A t \in reserve' : sec[t].blank => t \in bits /\ \A v \in Writers : t \notin Reserved(v),
         Give(w, s, f, bits, base)
  PROVE  Safe'
<1> DEFINE next == ReserveNext(f, s)
           old == f.cur
           into == IF old = 0 THEN [f EXCEPT !.head = s, !.cur = s, !.span = s]
                   ELSE [f EXCEPT !.cur = s, !.span = IF s = old + 1 THEN @ ELSE s,
                                  !.chain = @ \cup ({old} \ {f.head})]
<1>1. PICK k \in (IF base[s].blank THEN Growth(w, f, next, bits) ELSE {0}) :
          /\ writer' = [writer EXCEPT ![w] =
                [into EXCEPT !.first = IF f.count = 0 /\ k > 0 THEN next ELSE @, !.count = @ + k]]
          /\ used' = (bits \cup (next .. (next + k - 1))) \cup ({old} \ {0})
          /\ sec' = IF old = 0 THEN base ELSE [base EXCEPT ![old] = Left(@, old = f.head)]
          /\ call' = Idle
  BY Zenon DEF Give
<1>2. k \in Nat /\ \A i \in 0 .. (k - 1) : CanBeReserved(w, next + i, bits)
  BY <1>1 DEF Growth
<1>3. next \in Nat /\ s \in Nat /\ s # 0 /\ N \in Nat
  BY AllocatorAssumption, SMTT(30) DEF ReserveNext, File, Sectors
<1>4. \A t \in next .. (next + k - 1) : CanBeReserved(w, t, bits)
  <2> SUFFICES ASSUME NEW t \in next .. (next + k - 1)
               PROVE  CanBeReserved(w, t, bits)
    OBVIOUS
  <2>1. t - next \in 0 .. (k - 1) /\ next + (t - next) = t
    BY <1>2, <1>3
  <2> QED  BY <2>1, <1>2
<1>5. old \in {0} \cup Sectors /\ old # s /\ (old # 0 => f.head \in Sectors)
  BY DEF Safe, Ranges, OpenForWriting, Holds, Sectors
<1> DEFINE g == writer'[w]
<1>6. /\ g \in File /\ g.cur = s
      /\ g.head = (IF old = 0 THEN s ELSE f.head)
      /\ g.span = (IF old # 0 /\ s = old + 1 THEN f.span ELSE s)
      /\ g.chain = (IF old = 0 THEN f.chain ELSE f.chain \cup ({old} \ {f.head}))
      /\ g.count = f.count + k
      /\ g.first = (IF f.count = 0 /\ k > 0 THEN next ELSE f.first)
  <2>1. g = [into EXCEPT !.first = IF f.count = 0 /\ k > 0 THEN next ELSE @, !.count = @ + k]
    BY <1>1 DEF Safe, Ranges
  <2>2. into \in File /\ into.first = f.first /\ into.count = f.count
    BY <1>3, <1>5, Zenon DEF File, Sectors
  <2>3. /\ into.cur = s
        /\ into.head = (IF old = 0 THEN s ELSE f.head)
        /\ into.span = (IF old # 0 /\ s = old + 1 THEN f.span ELSE s)
        /\ into.chain = (IF old = 0 THEN f.chain ELSE f.chain \cup ({old} \ {f.head}))
    BY DEF File
  <2>4. PICK first \in Nat : first = IF f.count = 0 /\ k > 0 THEN next ELSE f.first
    BY <1>3 DEF File
  <2>5. g = [into EXCEPT !.first = first, !.count = f.count + k]
    BY <2>1, <2>2, <2>4 DEF File
  <2>6. f.count + k \in Nat
    BY <1>2 DEF File
  <2> HIDE DEF into, g, next, old
  <2> QED  BY <2>2, <2>3, <2>4, <2>5, <2>6, Zenon DEF File
<1>7. writer' \in [Writers -> File] /\ \A v \in Writers : v # w => writer'[v] = writer[v]
  BY <1>1, <1>6 DEF Safe, Ranges
<1> HIDE DEF g
<1>8. Reserved(w)' \subseteq Reserved(w) \cup (next .. (next + k - 1))
  <2>1. Reserved(w)' = g.first .. (g.first + g.count - 1)
    BY DEF Reserved, g
  <2>2. ASSUME NEW t \in g.first .. (g.first + g.count - 1)
        PROVE  t \in f.first .. (f.first + f.count - 1) \/ t \in next .. (next + k - 1)
    BY <1>2, <1>3, <1>6 DEF File, ReserveNext
  <2> QED  BY <2>1, <2>2
<1>9. /\ sec' \in [Sectors -> Sec]
      /\ \A t \in Sectors : t # s /\ t # old => sec'[t] = sec[t]
      /\ sec'[s] = base[s]
      /\ old # 0 => sec'[old] = Left(sec[old], old = f.head)
  <2>1. sec \in [Sectors -> Sec]
    BY DEF Safe, Ranges, Sec
  <2>2. old # 0 => Left(sec[old], old = f.head) \in Sec
    BY <2>1, <1>5, LeftSector, Zenon
  <2>3. CASE old = 0
    BY <2>3, <1>1
  <2>4. CASE old # 0
    BY <2>4, <1>1, <1>5, <2>2
  <2> QED  BY <2>3, <2>4
<1>10. ASSUME old # 0
       PROVE  /\ ~sec'[old].blank /\ sec'[old].recs > 0 /\ sec'[old].fit = "none"
              /\ (sec[old].cont => sec'[old].cont)
              /\ (old # f.head => sec'[old].cont)
  <2>1. sec[old] \in Sec
    BY <1>5, <1>10 DEF Safe, Ranges, Sec
  <2>2. sec'[old] = Left(sec[old], old = f.head) /\ (old = f.head) \in BOOLEAN
    BY <1>9, <1>10
  <2> QED  BY <2>1, <2>2, LeftSector, ZenonT(30)
<1>11. \A v \in Writers, t \in Sectors : Given(v, t)' => Given(v, t) \/ (v = w /\ t = s)
  <2> SUFFICES ASSUME NEW v \in Writers, NEW t \in Sectors, Given(v, t)'
               PROVE  Given(v, t) \/ (v = w /\ t = s)
    OBVIOUS
  <2>1. CASE v # w
    BY <2>1, <1>7 DEF Given, Holds
  <2>2. CASE v = w
    <3>1. g.head = t \/ g.cur = t \/ (g.span # 0 /\ t \in g.span .. g.cur) \/ t \in g.chain
      BY <2>2 DEF Given, Holds, g
    <3>2. t \in Nat
      BY DEF Sectors
    <3>3. CASE old = 0
      BY <3>1, <3>2, <3>3, <1>3, <1>6, <2>2, SMTT(30) DEF Given, Holds
    <3>4. CASE old # 0
      <4>1. CASE g.span # 0 /\ t \in g.span .. g.cur /\ t # s
        <5>1. PICK a \in Nat, o \in Nat : a = f.span /\ o = old
          BY <1>5, SMTT(30) DEF File, Sectors
        <5>2. s = o + 1 /\ g.span = a /\ g.cur = s
          BY <1>3, <1>6, <3>2, <4>1, <5>1, SMTT(30)
        <5>3. a # 0 /\ t \in a .. o
          BY <1>3, <3>2, <4>1, <5>1, <5>2, SMTT(30)
        <5> QED  BY <2>2, <5>1, <5>3, Zenon DEF Given, Holds
      <4>2. CASE t = s \/ g.head = t \/ t \in g.chain
        BY <4>2, <3>4, <1>6, <2>2 DEF Given, Holds
      <4> QED  BY <3>1, <4>1, <4>2, <1>6, SMTT(30)
    <3> QED  BY <3>3, <3>4
  <2> QED  BY <2>1, <2>2
<1>12. Ranges'
  <2>1. used' \subseteq Sectors
    <3>1. next .. (next + k - 1) \subseteq Sectors
      BY <1>4 DEF CanBeReserved
    <3> QED  BY <3>1, <1>1, <1>5
  <2>2. call' \in Calls
    BY <1>1 DEF Idle
  <2>3. Reserved(w)' \subseteq Sectors
    BY <1>4, <1>8, SMTT(30) DEF CanBeReserved, Safe, Ranges
  <2>4. \A v \in Writers : v # w => Reserved(v)' = Reserved(v)
    BY <1>7, SMTT(30) DEF Reserved
  <2>5. ASSUME NEW v \in Writers
        PROVE  /\ writer'[v].cur \in {0} \cup Sectors
               /\ writer'[v].cur # 0 => writer'[v].head \in Sectors
               /\ writer'[v].cur = 0 => writer'[v].head = 0 /\ writer'[v].span = 0
    BY <1>3, <1>5, <1>6, <1>7, SMTT(30) DEF Safe, Ranges, g
  <2>6. \A v \in Writers : Reserved(v)' \subseteq Sectors
    BY <2>3, <2>4 DEF Safe, Ranges
  <2> QED  BY <2>1, <2>2, <2>5, <2>6, <1>7, <1>9 DEF Ranges, Sec
<1>13. CallShape'
  BY <1>1, SMTT(30) DEF CallShape, Idle
<1>14. BlankShape'
  <2>1. \A t \in Sectors : sec'[t].blank => sec'[t].recs = 0 /\ sec'[t].roots = 0 /\ ~sec'[t].cont
    <3> TAKE t \in Sectors
    <3>1. CASE t = s
      BY <3>1, <1>9, SMTT(30)
    <3>2. CASE t = old
      BY <3>2, <1>10, SMTT(30) DEF Sectors
    <3>3. CASE t # s /\ t # old
      BY <3>3, <1>9 DEF Safe, BlankShape
    <3> QED  BY <3>1, <3>2, <3>3
  <2>2. ASSUME NEW t \in reserve', sec'[t].blank
        PROVE  t \in used' /\ \A v \in Writers : t \notin Reserved(v)'
    <3>1. t # s /\ t # old /\ t \in Sectors
      <4>1. t \in Sectors /\ t # 0 /\ t # s
        BY <2>2, SMTT(30) DEF Sectors
      <4>2. CASE old = 0
        BY <4>1, <4>2, SMTT(30)
      <4>3. CASE old # 0
        BY <4>1, <4>3, <1>10, <2>2, SMTT(30)
      <4> QED  BY <4>1, <4>2, <4>3, SMTT(30)
    <3>2. t \in bits /\ \A v \in Writers : t \notin Reserved(v)
      BY <3>1, <2>2, <1>9, SMTT(30)
    <3>3. t \notin next .. (next + k - 1)
      BY <3>2, <1>4, SMTT(30) DEF CanBeReserved
    <3>4. \A v \in Writers : v # w => Reserved(v)' = Reserved(v)
      BY <1>7, SMTT(30) DEF Reserved
    <3> QED  BY <3>2, <3>3, <3>4, <1>1, <1>8, SMTT(30)
  <2> QED  BY <2>1, <2>2, SMTT(30) DEF BlankShape
<1>15. ChainShape'
  <2> SUFFICES ASSUME NEW v \in Writers, NEW t \in writer'[v].chain
               PROVE  sec'[t].cont /\ sec'[t].recs > 0 /\ ~sec'[t].blank /\ sec'[t].fit = "none"
    BY SMTT(30) DEF ChainShape
  <2>1. t \in writer[v].chain \/ (v = w /\ old # 0 /\ t = old /\ t # f.head)
    BY <1>6, <1>7, SMTT(30) DEF g
  <2>2. CASE t \in writer[v].chain
    <3>1. t # s /\ t \in Sectors
      BY <2>2, SMTT(30) DEF Safe, Ranges, File
    <3>2. sec[t].cont /\ sec[t].recs > 0 /\ ~sec[t].blank /\ sec[t].fit = "none"
      BY <2>2, SMTT(30) DEF Safe, ChainShape
    <3>3. CASE t = old
      BY <3>1, <3>2, <3>3, <1>10, SMTT(30) DEF Sectors
    <3>4. CASE t # old
      BY <3>1, <3>2, <3>4, <1>9, SMTT(30)
    <3> QED  BY <3>3, <3>4
  <2>3. CASE v = w /\ old # 0 /\ t = old /\ t # f.head
    BY <2>3, <1>10, SMTT(30)
  <2> QED  BY <2>1, <2>2, <2>3, SMTT(30)
<1>16. HandedApart'
  <2>1. \A v \in Writers : ~Given(v, s)
    BY SMTT(30) DEF Given, OpenForWriting
  <2> QED  BY <2>1, <1>11, SMTT(30) DEF HandedApart, Safe
<1>17. ReserveApart'
  BY <1>11 DEF ReserveApart
<1> QED
  BY <1>12, <1>13, <1>14, <1>15, <1>16, <1>17 DEF Safe

\* Initially nothing is held, reserved or kept.
LEMMA InitSafe == Init => Safe
<1> SUFFICES ASSUME Init
             PROVE  Safe
  OBVIOUS
<1> USE AllocatorAssumption DEF Init
<1>1. \A w \in Writers : writer[w] = Closed
  OBVIOUS
<1>2. Closed \in File
  BY DEF Closed, File
<1>3. \A w \in Writers : Reserved(w) = {}
  BY <1>1 DEF Reserved, Closed
<1>4. \A w \in Writers, s \in Sectors : ~Given(w, s)
  BY <1>1, SMTT(30) DEF Given, Holds, Closed, Sectors
<1>5. Ranges
  <2>1. sec \in [Sectors -> Sec] /\ cursor \in Sectors /\ gcCursor \in Sectors
    BY DEF ErasedSector, Sec, Sectors
  <2>2. writer \in [Writers -> File]
    BY <1>2
  <2> QED  BY <1>1, <1>3, <2>1, <2>2 DEF Ranges, Sec, Idle, Closed
<1>6. CallShape
  BY DEF CallShape, Idle
<1>7. BlankShape
  BY DEF BlankShape, ErasedSector
<1>8. ChainShape
  BY <1>1 DEF ChainShape, Closed
<1>9. HandedApart /\ ReserveApart
  BY <1>4, SMTT(30) DEF HandedApart, ReserveApart
<1> QED
  BY <1>5, <1>6, <1>7, <1>8, <1>9 DEF Safe

\* A step that leaves the sectors of every open file as they are, gives no
\* sector and grows no reservation keeps the invariant, if what it adds to
\* the compaction reserve is nobody's.
LEMMA StepKeepsSafe ==
  ASSUME Safe, CallShape',
         sec' \in [Sectors -> Sec], writer' \in [Writers -> File],
         used' \subseteq Sectors, reserve' \subseteq Sectors,
         cursor' \in Sectors, gcCursor' \in Sectors,
         call' \in Calls,
         \A v \in Writers : /\ Reserved(v)' \subseteq Reserved(v)
                            /\ \/ writer'[v] = Closed
                               \/ /\ writer'[v].head = writer[v].head /\ writer'[v].cur = writer[v].cur
                                  /\ writer'[v].span = writer[v].span /\ writer'[v].chain = writer[v].chain,
         \A t \in Sectors : sec'[t].blank => sec'[t].recs = 0 /\ sec'[t].roots = 0 /\ ~sec'[t].cont,
         \A t \in reserve' : \A v \in Writers : ~Given(v, t),
         \A t \in reserve' : sec'[t].blank => t \in used' /\ \A v \in Writers : t \notin Reserved(v),
         \A v \in Writers : \A t \in writer'[v].chain :
            sec'[t].cont /\ sec'[t].recs > 0 /\ ~sec'[t].blank /\ sec'[t].fit = "none"
  PROVE  Safe'
<1>1. \A v \in Writers, t \in Sectors : Given(v, t)' => Given(v, t)
  BY SMTT(30) DEF Given, Holds, Closed, Sectors
<1>2. Ranges'
  <2>1. \A v \in Writers : Reserved(v)' \subseteq Sectors
    BY SMTT(30) DEF Safe, Ranges
  <2>2. \A v \in Writers : /\ writer'[v].cur \in {0} \cup Sectors
                           /\ writer'[v].cur # 0 => writer'[v].head \in Sectors
                           /\ writer'[v].cur = 0 => writer'[v].head = 0 /\ writer'[v].span = 0
    BY SMTT(30) DEF Safe, Ranges, Closed
  <2> QED  BY <2>1, <2>2, SMTT(30) DEF Ranges, Sec
<1>3. BlankShape' /\ ChainShape'
  BY SMTT(30) DEF BlankShape, ChainShape
<1>4. HandedApart' /\ ReserveApart'
  BY <1>1 DEF HandedApart, ReserveApart, Safe
<1> QED
  BY <1>2, <1>3, <1>4, SMTT(30) DEF Safe

\* What the invariant says of the variables, in the form the steps use.
LEMMA SafeTypes ==
  ASSUME Safe
  PROVE  /\ sec \in [Sectors -> Sec] /\ writer \in [Writers -> File]
         /\ used \subseteq Sectors /\ reserve \subseteq Sectors
         /\ cursor \in Sectors /\ gcCursor \in Sectors
         /\ call \in Calls
         /\ \A w \in Writers : Reserved(w) \subseteq Sectors /\ writer[w].chain \subseteq Sectors
<1>1. \A w \in Writers : writer[w].chain \subseteq Sectors
  BY SMTT(30) DEF Safe, Ranges, File
<1> QED
  BY <1>1 DEF Safe, Ranges, Sec

\* And what it says of erased sectors, of the compaction reserve and of the
\* sectors left by writers.
LEMMA SafeShapes ==
  ASSUME Safe
  PROVE  /\ \A t \in Sectors : sec[t].blank => sec[t].recs = 0 /\ sec[t].roots = 0 /\ ~sec[t].cont
         /\ \A t \in reserve : \A v \in Writers : ~Given(v, t)
         /\ \A t \in reserve : sec[t].blank => t \in used /\ \A v \in Writers : t \notin Reserved(v)
         /\ \A v \in Writers : \A t \in writer[v].chain :
               sec[t].cont /\ sec[t].recs > 0 /\ ~sec[t].blank /\ sec[t].fit = "none"
BY DEF Safe, Ranges, BlankShape, ChainShape, ReserveApart

\* halve_reservations keeps the first half of a reservation.
LEMMA HalvedFile ==
  ASSUME NEW f \in File
  PROVE  /\ Halved(f) \in File
         /\ Halved(f).head = f.head /\ Halved(f).cur = f.cur
         /\ Halved(f).span = f.span /\ Halved(f).chain = f.chain
         /\ Halved(f).count <= f.count
         /\ Halved(f).count = 0 \/ Halved(f).first = f.first
<1>1. f.first \in Nat /\ f.count \in Nat /\ f.count \div 2 \in Nat /\ f.count \div 2 <= f.count
  BY DEF File
<1>2. CASE f.count < 2
  <2>1. PICK z \in Nat : z = 0 /\ Halved(f) = [f EXCEPT !.first = z, !.count = z]
    BY <1>2, Zenon DEF Halved, Without
  <2>2. /\ Halved(f) \in File /\ Halved(f).count = z
        /\ Halved(f).head = f.head /\ Halved(f).cur = f.cur
        /\ Halved(f).span = f.span /\ Halved(f).chain = f.chain
    BY <2>1, Zenon DEF File
  <2> QED  BY <1>1, <2>1, <2>2
<1>3. CASE ~(f.count < 2)
  <2>1. PICK b \in Nat : b = f.count \div 2 /\ b <= f.count
    BY <1>1
  <2>2. Halved(f) = [f EXCEPT !.count = b]
    BY <1>3, <2>1 DEF Halved
  <2> QED  BY <2>1, <2>2 DEF File
<1> QED
  BY <1>2, <1>3

\* The cursor stays on a data sector.
LEMMA NextSector ==
  ASSUME NEW s \in Sectors
  PROVE  NextDataSector(s) \in Sectors
BY AllocatorAssumption, SMTT(30) DEF NextDataSector, Sectors

\* try_reserved_sector.
LEMMA TryReservedSafe ==
  ASSUME Safe, NEW w \in Writers, TryReservedSector(w)
  PROVE  Safe'
<1> DEFINE f == writer[w]
           s == f.first
           usable == ~OpenForWriting(s) /\ ~ReservedByOther(w, s) /\ sec[s].blank
           rest == IF f.count = 1 THEN Without(f) ELSE [f EXCEPT !.first = @ + 1, !.count = @ - 1]
<1> USE SafeTypes
<1>1. f \in File /\ f.count > 0 /\ f.count \in Nat /\ f.first \in Nat /\ call.step = "idle"
  BY DEF TryReservedSector, File
<1>2. s \in Reserved(w) /\ s \in Sectors
  BY <1>1, SMTT(30) DEF Reserved
<1>3. CASE usable
  <2>1. Give(w, s, rest, used \ {s}, sec) /\ UNCHANGED <<cursor, gcCursor, reserve>>
    BY <1>3 DEF TryReservedSector
  <2>2. rest \in File /\ rest.cur = f.cur /\ rest.head = f.head /\ rest.span = f.span /\ rest.chain = f.chain
    <3>1. PICK a \in Nat, b \in Nat : rest = [f EXCEPT !.first = a, !.count = b]
      <4>1. f.first + 1 \in Nat /\ f.count - 1 \in Nat
        BY <1>1
      <4> QED  BY <1>1, <4>1, Zenon DEF Without, File
    <3> HIDE DEF rest, f
    <3> QED  BY <1>1, <3>1, Zenon DEF File
  <2>3. rest.first .. (rest.first + rest.count - 1) \subseteq Reserved(w)
    BY <1>1, SMTT(30) DEF File, Without, Reserved
  <2>4. s \notin reserve
    BY <1>2, <1>3, SafeShapes, SMTT(30)
  <2>5. \A t \in reserve : sec[t].blank => t \in used \ {s} /\ \A v \in Writers : t \notin Reserved(v)
    BY <2>4, SafeShapes, SMTT(30)
  <2>6. \A v \in Writers : s \notin writer[v].chain
    BY <1>3, SafeShapes
  <2> HIDE DEF rest
  <2> QED  BY <1>2, <1>3, <2>1, <2>2, <2>3, <2>4, <2>5, <2>6, GiveKeepsSafe, SafeShapes, Zenon
<1>4. CASE ~usable
  <2>1. /\ writer' = [writer EXCEPT ![w] = Without(f)]
        /\ used' = used \ Reserved(w)
        /\ call' = [Idle EXCEPT !.step = "once", !.w = w, !.skip = s]
        /\ UNCHANGED <<sec, cursor, gcCursor, reserve>>
    BY <1>4 DEF TryReservedSector
  <2>2. /\ Without(f) \in File /\ Without(f).cur = f.cur /\ Without(f).head = f.head
        /\ Without(f).span = f.span /\ Without(f).chain = f.chain
        /\ Without(f).first = 0 /\ Without(f).count = 0
    BY <1>1, Zenon DEF File, Without
  <2>3. call' = [step |-> "once", w |-> w, skip |-> s, src |-> 0, cands |-> {}, tried |-> {}]
    BY <2>1, Zenon DEF Idle
  <2>4. \A v \in Writers : writer'[v] = (IF v = w THEN Without(f) ELSE writer[v])
    BY <2>1, SMTT(30)
  <2>5. CallShape'
    BY <2>2, <2>3, <2>4, SMTT(30) DEF CallShape
  <2>6. \A v \in Writers : Reserved(v)' \subseteq Reserved(v)
    BY <2>2, <2>4 DEF Reserved
  <2>7. writer' \in [Writers -> File]
    BY <2>1, <2>2, SMTT(30)
  <2> HIDE DEF f
  <2>8. \A v \in Writers : /\ writer'[v].head = writer[v].head /\ writer'[v].cur = writer[v].cur
                           /\ writer'[v].span = writer[v].span /\ writer'[v].chain = writer[v].chain
    BY <2>2, <2>4 DEF f
  <2>9. call' \in Calls
    BY <2>3, <1>1
  <2>10. \A t \in reserve : sec[t].blank => t \in used'
    BY <2>1, SafeShapes, SMTT(30)
  <2> QED  BY <2>1, <2>5, <2>6, <2>7, <2>8, <2>9, <2>10, StepKeepsSafe, SafeShapes
<1> QED
  BY <1>3, <1>4

\* alloc_sector_once with halve_reservations.
LEMMA AllocOnceSafe ==
  ASSUME Safe, NEW w \in Writers, NEW old \in {0} \cup Sectors, AllocSectorOnce(w, old)
  PROVE  Safe'
<1> DEFINE found == Acceptable(w, old)
           before(s) == {t \in found : Offset(cursor, t) < Offset(cursor, s)}
           kept == {s \in found : /\ writer[w].cur = 0
                                  /\ Cardinality(before(s)) + Cardinality(reserve) < CompactMax}
           bits == used \cup kept
<1> USE SafeTypes
<1>1. /\ writer[w].count = 0 /\ writer[w] \in File
      /\ call.step # "idle" => call.w = w
  BY DEF AllocSectorOnce, Safe, CallShape
<1>2. \A v \in Writers : Reserved(w) = {}
  BY <1>1, SMTT(30) DEF Reserved, File
<1>3. ASSUME NEW s \in found
      PROVE  /\ s \in Sectors /\ s \notin reserve /\ s \notin used /\ ~OpenForWriting(s)
             /\ \A v \in Writers : s \notin Reserved(v) /\ s \notin writer[v].chain
  <2>1. s \in Sectors /\ s \notin reserve /\ s \notin used /\ ~OpenForWriting(s) /\ ~ReservedByOther(w, s)
    BY <1>3 DEF Acceptable
  <2>2. sec[s].blank \/ sec[s].fit = "normal"
    BY <1>3 DEF Acceptable, FreeWindow
  <2> QED  BY <1>2, <2>1, <2>2, SafeShapes, SMTT(30) DEF ReservedByOther
<1>4. /\ reserve' = reserve \cup kept /\ kept \subseteq found /\ kept \subseteq Sectors
      /\ UNCHANGED gcCursor
  BY <1>3, SMTT(30) DEF AllocSectorOnce
<1>5. \A t \in reserve' : \A v \in Writers : ~Given(v, t)
  BY <1>3, <1>4, SafeShapes, SMTT(30) DEF Given, OpenForWriting
<1>6. \A t \in reserve' : sec[t].blank => t \in bits /\ \A v \in Writers : t \notin Reserved(v)
  BY <1>3, <1>4, SafeShapes, SMTT(30)
<1>7. CASE found # kept
  <2>1. PICK s \in First(cursor, found \ kept) :
           /\ Give(w, s, writer[w], bits, sec)
           /\ cursor' = IF sec[s].recs >= Density THEN NextDataSector(s) ELSE cursor
    BY <1>7, ZenonT(30) DEF AllocSectorOnce
  <2>2. s \in found /\ s \notin kept
    BY SMTT(30) DEF First
  <2>3. cursor' \in Sectors
    BY <2>1, <2>2, <1>3, NextSector, SMTT(30)
  <2>4. s \notin reserve' /\ reserve' \subseteq Sectors /\ bits \subseteq Sectors
    BY <2>2, <1>3, <1>4, SMTT(30)
  <2>5. writer[w].first .. (writer[w].first + writer[w].count - 1) \subseteq Reserved(w)
    BY SMTT(30) DEF Reserved
  <2> HIDE DEF found, kept, bits
  <2> QED  BY <1>1, <1>3, <1>4, <1>5, <1>6, <2>1, <2>2, <2>3, <2>4, <2>5, GiveKeepsSafe, SafeShapes
<1>8. CASE found = kept /\ call.step # "again"
  <2>1. HalveReservations(w, bits) /\ UNCHANGED <<sec, cursor>>
    BY <1>8, SMTT(30) DEF AllocSectorOnce
  <2>2. \A v \in Writers : writer'[v] = Halved(writer[v]) /\ writer[v] \in File
    BY <2>1 DEF HalveReservations
  <2>3. \A v \in Writers : /\ writer'[v] \in File
                           /\ writer'[v].head = writer[v].head /\ writer'[v].cur = writer[v].cur
                           /\ writer'[v].span = writer[v].span /\ writer'[v].chain = writer[v].chain
                           /\ writer'[v].count <= writer[v].count
                           /\ writer'[v].count = 0 \/ writer'[v].first = writer[v].first
    BY <2>2, HalvedFile, SMTT(30)
  <2>4. \A v \in Writers : Reserved(v)' \subseteq Reserved(v)
    BY <2>2, <2>3 DEF File, Reserved
  <2>5. \A v \in Writers : Released(writer[v]) \subseteq Reserved(v)
    BY <2>2 DEF Released, Reserved, File
  <2>6. writer' \in [Writers -> File]
    BY <2>1, <2>3 DEF HalveReservations
  <2>7. /\ call'.step \in {"again", "gc"} /\ call'.w = w
        /\ call'.cands = call.cands /\ call'.src = call.src
        /\ call' \in Calls
    BY <2>1, Zenon DEF HalveReservations
  <2>8. call.step \in {"idle", "once", "again"} /\ call.cands = {} /\ call.src = 0
    BY SMTT(30) DEF AllocSectorOnce, Safe, CallShape
  <2>9. writer'[w].count = 0
    BY <1>1, <2>3 DEF File
  <2>10. CallShape'
    BY <2>7, <2>8, <2>9 DEF CallShape
  <2>11. used' \subseteq Sectors /\ \A t \in reserve' : sec[t].blank => t \in used'
    BY <1>4, <1>6, <2>1, <2>5, SafeShapes DEF HalveReservations
  <2> HIDE DEF found, kept, bits
  <2> QED  BY <1>4, <1>5, <1>6, <2>1, <2>3, <2>4, <2>6, <2>7, <2>10, <2>11, StepKeepsSafe, SafeShapes, SMTT(30)
<1>9. CASE found = kept /\ call.step = "again"
  <2>1. /\ used' = bits /\ call' = [call EXCEPT !.step = "gc"]
        /\ UNCHANGED <<sec, cursor, writer>>
    BY <1>9, Zenon DEF AllocSectorOnce
  <2>2. call.cands = {} /\ call.src = 0 /\ call.w = w
    BY <1>1, <1>9 DEF Safe, CallShape
  <2>3. CallShape' /\ call' \in Calls
    BY <2>1, <2>2 DEF CallShape
  <2>4. \A v \in Writers : Reserved(v)' = Reserved(v)
    BY <2>1, Zenon DEF Reserved
  <2> HIDE DEF found, kept
  <2> QED  BY <1>4, <1>5, <1>6, <2>1, <2>3, <2>4, StepKeepsSafe, SafeShapes
<1> QED
  BY <1>7, <1>8, <1>9

\* An erased sector can be given: it holds no record.
LEMMA ErasedGiven ==
  ASSUME Safe, NEW w \in Writers, NEW s \in Sectors, NEW bits \in SUBSET Sectors,
         s \notin reserve, ~OpenForWriting(s), \A v \in Writers : s \notin writer[v].chain,
         \A t \in reserve : t \in used => t \in bits,
         cursor' \in Sectors, gcCursor' \in Sectors, UNCHANGED reserve,
         Give(w, s, writer[w], bits, [sec EXCEPT ![s] = ErasedSector])
  PROVE  Safe'
<1> DEFINE base == [sec EXCEPT ![s] = ErasedSector]
<1> USE SafeTypes
<1>1. base \in [Sectors -> Sec] /\ base[s] = ErasedSector /\ \A t \in Sectors : t # s => base[t] = sec[t]
  BY SMTT(30) DEF ErasedSector, Sec
<1>2. base[s].recs = 0 /\ base[s].roots = 0 /\ ~base[s].cont
  BY <1>1, SMTT(30) DEF ErasedSector
<1>3. writer[w].first .. (writer[w].first + writer[w].count - 1) \subseteq Reserved(w)
  BY SMTT(30) DEF Reserved
<1> HIDE DEF base
<1>4. Give(w, s, writer[w], bits, base)
  BY DEF base
<1>5. /\ writer[w] \in File /\ reserve' \subseteq Sectors /\ s \notin reserve'
      /\ \A t \in reserve' : \A v \in Writers : ~Given(v, t)
      /\ \A t \in reserve' : sec[t].blank => t \in bits /\ \A v \in Writers : t \notin Reserved(v)
  BY SafeShapes, Zenon
<1> QED
  BY <1>1, <1>2, <1>3, <1>4, <1>5, GiveKeepsSafe, SMTT(30)

\* fffs_gc_until_erased.
LEMMA GcUntilErasedSafe ==
  ASSUME Safe, GcUntilErased
  PROVE  Safe'
<1> DEFINE seen(s, S) == {t \in S : NormalAllocFull(t) /\ Offset(gcCursor, t) < Offset(gcCursor, s)}
           full0 == {t \in Scannable \ used : NormalAllocFull(t)}
<1> USE SafeTypes
<1>1. call.step = "gc" /\ call.w \in Writers /\ UNCHANGED <<cursor, reserve>>
  BY DEF GcUntilErased, Safe, CallShape
<1>2. ASSUME NEW S \in {Garbage \ used, Garbage}, NEW scanned \in SUBSET Sectors,
             NEW marked \in SUBSET Sectors,
             NEW s \in First(gcCursor, S),
             Give(call.w, s, writer[call.w], (used \cup marked \cup seen(s, scanned)) \ {s},
                  [sec EXCEPT ![s] = ErasedSector]),
             gcCursor' = NextDataSector(s)
      PROVE  Safe'
  <2>1. s \in Garbage
    BY SMTT(30) DEF First
  <2>2. s \in Sectors /\ s \notin reserve /\ ~OpenForWriting(s) /\ (sec[s].blank \/ ~Live(s))
    BY <2>1, SMTT(30) DEF Garbage, Scannable
  <2>3. \A v \in Writers : s \notin writer[v].chain
    BY <2>2, SafeShapes, SMTT(30) DEF Live
  <2>4. gcCursor' \in Sectors
    BY <1>2, <2>2, NextSector, SMTT(30)
  <2>5. seen(s, scanned) \subseteq Sectors
    BY SMTT(30)
  <2> DEFINE bits == (used \cup marked \cup seen(s, scanned)) \ {s}
  <2>6. bits \subseteq Sectors /\ \A t \in reserve : t \in used => t \in bits
    BY <2>2, <2>5, SMTT(30)
  <2>7. Give(call.w, s, writer[call.w], bits, [sec EXCEPT ![s] = ErasedSector])
    BY <1>2
  <2> HIDE DEF bits
  <2> QED  BY <1>1, <2>2, <2>3, <2>4, <2>6, <2>7, ErasedGiven, Zenon
<1>3. CASE Garbage \ used # {}
  <2>1. PICK s \in First(gcCursor, Garbage \ used) :
          /\ Give(call.w, s, writer[call.w], (used \cup {} \cup seen(s, Scannable \ used)) \ {s},
                  [sec EXCEPT ![s] = ErasedSector])
          /\ gcCursor' = NextDataSector(s)
    BY <1>3, Zenon DEF GcUntilErased
  <2>2. Scannable \ used \subseteq Sectors
    BY DEF Scannable
  <2> HIDE DEF seen
  <2> QED  BY <1>2, <2>1, <2>2, Zenon
<1>4. CASE Garbage \ used = {} /\ Garbage # {}
  <2>1. PICK s \in First(gcCursor, Garbage) :
          /\ Give(call.w, s, writer[call.w], (used \cup full0 \cup seen(s, Scannable)) \ {s},
                  [sec EXCEPT ![s] = ErasedSector])
          /\ gcCursor' = NextDataSector(s)
    BY <1>4, Zenon DEF GcUntilErased
  <2>2. Scannable \subseteq Sectors /\ full0 \subseteq Sectors
    BY DEF Scannable
  <2> HIDE DEF seen, full0
  <2> QED  BY <1>2, <2>1, <2>2, Zenon
<1>5. CASE Garbage \ used = {} /\ Garbage = {}
  <2> DEFINE cands == {t \in Scannable : sec[t].roots > 0 /\ ~sec[t].cont}
  <2>1. /\ used' = used \cup {t \in Scannable : NormalAllocFull(t)}
        /\ call' = [call EXCEPT !.step = "compact", !.cands = cands]
        /\ UNCHANGED <<sec, gcCursor, writer>>
    BY <1>5 DEF GcUntilErased
  <2>2. cands \subseteq Sectors /\ used' \subseteq Sectors /\ used \subseteq used'
    BY <2>1, SMTT(30) DEF Scannable
  <2>3. \A s \in cands : s \notin reserve /\ ~OpenForWriting(s) /\ ~sec[s].cont
    BY SMTT(30) DEF Scannable
  <2>4. call.src = 0
    BY <1>1 DEF Safe, CallShape
  <2> HIDE DEF cands
  <2>5. /\ call' \in Calls
        /\ call'.step = "compact" /\ call'.cands = cands /\ call'.src = 0 /\ call'.w = call.w
    BY <2>1, <2>2, <2>4, Zenon
  <2>6. \A s \in Sectors : OpenForWriting(s)' <=> OpenForWriting(s)
    BY <2>1 DEF OpenForWriting, Holds
  <2>7. CallShape'
    BY <1>1, <2>1, <2>2, <2>3, <2>5, <2>6 DEF CallShape
  <2>8. \A v \in Writers : Reserved(v)' = Reserved(v)
    BY <2>1, SMTT(30) DEF Reserved
  <2> QED  BY <1>1, <2>1, <2>2, <2>5, <2>7, <2>8, StepKeepsSafe, SafeShapes
<1> QED
  BY <1>3, <1>4, <1>5

\* Steps that change the call only: the next candidate, a failed compaction,
\* FFFS_ERR_NO_SPACE.
LEMMA CallSafe ==
  ASSUME Safe, CallShape', UNCHANGED <<sec, used, cursor, gcCursor, reserve, writer>>,
         call' \in Calls
  PROVE  Safe'
<1> USE SafeTypes
<1>1. \A v \in Writers : Reserved(v)' = Reserved(v)
  BY DEF Reserved
<1> QED
  BY <1>1, StepKeepsSafe, SafeShapes, SMTT(30)

\* fffs_gc_compact_until_erased takes a candidate up.
LEMMA CompactPickSafe ==
  ASSUME Safe, NEW s \in call.cands, CompactPick(s)
  PROVE  Safe'
<1>1. /\ call' = [call EXCEPT !.src = s, !.tried = @ \cup {s}]
      /\ UNCHANGED <<sec, used, cursor, gcCursor, reserve, writer>>
      /\ call.step \in {"compact", "relaxed"}
  BY DEF CompactPick
<1>2. s \in Nat /\ s \in Sectors /\ call.tried \cup {s} \in SUBSET Sectors
  BY SafeTypes DEF Sectors
<1>3. /\ call' \in Calls
      /\ call'.step = call.step /\ call'.w = call.w /\ call'.cands = call.cands /\ call'.src = s
  BY <1>1, <1>2, SafeTypes, Zenon
<1>4. \A t \in Sectors : OpenForWriting(t)' <=> OpenForWriting(t)
  BY <1>1 DEF OpenForWriting, Holds
<1>5. CallShape'
  BY <1>1, <1>3, <1>4, SafeTypes DEF CallShape, Safe
<1> QED
  BY <1>1, <1>3, <1>5, CallSafe

\* Compaction of a candidate finds no destination.
LEMMA CompactFailSafe ==
  ASSUME Safe, CompactFail
  PROVE  Safe'
<1>1. /\ call' = [call EXCEPT !.src = 0] /\ call.src # 0
      /\ UNCHANGED <<sec, used, cursor, gcCursor, reserve, writer>>
  BY DEF CompactFail
<1>2. /\ call' \in Calls
      /\ call'.step = call.step /\ call'.w = call.w /\ call'.cands = call.cands /\ call'.src = 0
  BY <1>1, SafeTypes
<1>3. \A t \in Sectors : OpenForWriting(t)' <=> OpenForWriting(t)
  BY <1>1 DEF OpenForWriting, Holds
<1>4. CallShape'
  BY <1>1, <1>2, <1>3, SafeTypes, SMTT(30) DEF CallShape, Safe
<1> QED
  BY <1>1, <1>2, <1>4, CallSafe

\* FFFS_ERR_NO_SPACE.
LEMMA NoSpaceSafe ==
  ASSUME Safe, NoSpace
  PROVE  Safe'
<1>1. call' \in Calls
      /\ call'.step = "idle" /\ call'.cands = {} /\ call'.src = 0
  BY DEF NoSpace, Idle
<1>2. CallShape'
  BY <1>1 DEF CallShape
<1> QED
  BY <1>1, <1>2, CallSafe, SMTT(30) DEF NoSpace

\* The record a compaction copies is a root record.
LEMMA CopiedSector ==
  ASSUME NEW x \in Sec, NEW low \in BOOLEAN
  PROVE  Copied(x, low) \in Sec /\ ~Copied(x, low).blank /\ Copied(x, low).cont = x.cont
<1>1. PICK fit \in {"normal", "relaxed", "none"} : fit = IF low THEN "none" ELSE x.fit
  BY DEF Sec
<1>2. PICK m \in Nat, n \in Nat : m = x.recs + 1 /\ n = x.roots + 1
  BY DEF Sec
<1>3. Copied(x, low) = [x EXCEPT !.blank = FALSE, !.recs = m, !.roots = n, !.fit = fit]
  BY <1>1, <1>2 DEF Copied, Sec
<1>4. /\ [x EXCEPT !.blank = FALSE, !.recs = m, !.roots = n, !.fit = fit] \in Sec
      /\ ~[x EXCEPT !.blank = FALSE, !.recs = m, !.roots = n, !.fit = fit].blank
      /\ [x EXCEPT !.blank = FALSE, !.recs = m, !.roots = n, !.fit = fit].cont = x.cont
  BY ZenonT(30) DEF Sec
<1> QED
  BY <1>3, <1>4

\* gc_copy_root_record.
LEMMA CompactCopySafe ==
  ASSUME Safe, NEW small \in SUBSET Sectors, NEW d \in Destinations(small), NEW low \in BOOLEAN,
         CompactCopy(d, low)
  PROVE  Safe'
<1> DEFINE src == call.src
           moved == [sec[src] EXCEPT !.roots = @ - 1]
           copy == Copied(sec[d], low)
<1> USE SafeTypes
<1>1. src \in Sectors /\ src \notin reserve /\ sec[src] \in Sec /\ sec[src].roots > 0
  BY SMTT(30) DEF CompactCopy, Safe, CallShape
<1>2. d \in Sectors /\ d # src /\ FreeWindow(d, FALSE)
  BY <1>1, SMTT(30) DEF Destinations, First, FreeWindow
<1>3. \A v \in Writers : d \notin writer[v].chain
  BY <1>2, SafeShapes DEF FreeWindow
<1>4. /\ sec' = [sec EXCEPT ![src].roots = @ - 1, ![d] = Copied(@, low)]
      /\ sec'[d] = copy /\ sec'[src] = moved
      /\ \A t \in Sectors : t # src /\ t # d => sec'[t] = sec[t]
  BY <1>1, <1>2 DEF CompactCopy
<1>5. moved \in Sec /\ moved.blank = sec[src].blank /\ moved.recs = sec[src].recs
        /\ moved.cont = sec[src].cont /\ moved.fit = sec[src].fit
  <2>1. PICK n \in Nat : n = sec[src].roots - 1
    BY <1>1 DEF Sec
  <2>2. moved = [sec[src] EXCEPT !.roots = n]
    BY <2>1, SMTT(30)
  <2> QED  BY <1>1, <2>2, SMTT(30) DEF Sec
<1>6. copy \in Sec /\ ~copy.blank /\ copy.cont = sec[d].cont
  BY <1>1, <1>2, CopiedSector
<1> HIDE DEF moved, copy, src
<1>7. /\ sec' \in [Sectors -> Sec] /\ sec'[src] = moved /\ sec'[d] = copy
      /\ \A t \in Sectors : t # src /\ t # d => sec'[t] = sec[t]
  <2>1. \A t \in Sectors : sec'[t] \in Sec
    BY <1>4, <1>5, <1>6
  <2>2. DOMAIN sec' = Sectors /\ sec' = [t \in Sectors |-> sec'[t]]
    BY <1>4, Zenon
  <2> QED  BY <1>4, <2>1, <2>2, Zenon
<1>8. /\ reserve' = reserve \ {d} /\ used' \subseteq Sectors /\ used \ {d, src} \subseteq used'
      /\ UNCHANGED <<gcCursor, writer, call>>
  BY <1>1, <1>2 DEF CompactCopy, src
<1>9. cursor' \in Sectors
  BY <1>2, NextSector, SMTT(30) DEF CompactCopy
<1>10. \A t \in Sectors : sec'[t].blank => sec'[t].recs = 0 /\ sec'[t].roots = 0 /\ ~sec'[t].cont
  <2> TAKE t \in Sectors
  <2>1. CASE t = src
    <3>1. ~sec[src].blank
      BY <1>1, SafeShapes, SMTT(30)
    <3> QED  BY <2>1, <3>1, <1>5, <1>7, SMTT(30)
  <2>2. CASE t = d
    BY <2>2, <1>6, <1>7, SMTT(30)
  <2>3. CASE t # src /\ t # d
    BY <2>3, <1>7, SafeShapes, SMTT(30)
  <2> QED  BY <2>1, <2>2, <2>3, SMTT(30)
<1>11. \A t \in reserve' : sec'[t].blank => t \in used' /\ \A v \in Writers : t \notin Reserved(v)
  BY <1>1, <1>7, <1>8, SafeShapes, SMTT(30)
<1>12. \A v \in Writers : \A t \in writer[v].chain :
         sec'[t].cont /\ sec'[t].recs > 0 /\ ~sec'[t].blank /\ sec'[t].fit = "none"
  BY <1>3, <1>5, <1>7, SafeShapes, SMTT(30)
<1>13. \A t \in Sectors : sec'[t].cont = sec[t].cont
  BY <1>5, <1>6, <1>7, SMTT(30)
<1>14. \A t \in Sectors : OpenForWriting(t)' <=> OpenForWriting(t)
  BY <1>8, Zenon DEF OpenForWriting, Holds
<1>15. CallShape'
  BY <1>8, <1>13, <1>14, SMTT(30) DEF CallShape, Safe
<1>16. \A v \in Writers : Reserved(v)' = Reserved(v)
  BY <1>8 DEF Reserved
<1> QED
  BY <1>7, <1>8, <1>9, <1>10, <1>11, <1>12, <1>15, <1>16, StepKeepsSafe, SafeShapes, SMTT(30)

\* gc_compact_root_only_sector, at its end.
LEMMA CompactEraseSafe ==
  ASSUME Safe, CompactErase
  PROVE  Safe'
<1> USE SafeTypes
<1>1. /\ call.src \in Sectors /\ call.src \notin reserve /\ ~OpenForWriting(call.src)
      /\ ~sec[call.src].cont /\ call.w \in Writers
  BY Zenon DEF CompactErase, Safe, CallShape
<1>2. \A v \in Writers : call.src \notin writer[v].chain
  BY <1>1, SafeShapes, SMTT(30)
<1>3. /\ Give(call.w, call.src, writer[call.w], used \ {call.src}, [sec EXCEPT ![call.src] = ErasedSector])
      /\ UNCHANGED <<cursor, gcCursor, reserve>>
  BY DEF CompactErase
<1>4. used \ {call.src} \subseteq Sectors /\ \A t \in reserve : t \in used => t \in used \ {call.src}
  BY <1>1
<1> DEFINE s == call.src
           bits == used \ {s}
<1> HIDE DEF s, bits
<1>5. Give(call.w, s, writer[call.w], bits, [sec EXCEPT ![s] = ErasedSector])
  BY <1>3 DEF s, bits
<1>6. /\ s \in Sectors /\ s \notin reserve /\ ~OpenForWriting(s) /\ bits \subseteq Sectors
      /\ \A v \in Writers : s \notin writer[v].chain
      /\ \A t \in reserve : t \in used => t \in bits
  BY <1>1, <1>2, <1>4 DEF s, bits
<1> QED
  BY <1>1, <1>3, <1>5, <1>6, ErasedGiven, ZenonT(30)

\* try_compaction_reserve_for_alloc.
LEMMA TryCompactionReserveSafe ==
  ASSUME Safe, NEW old \in {0} \cup Sectors, TryCompactionReserve(old)
  PROVE  Safe'
<1> DEFINE w == call.w
           kept == {s \in reserve \ {old} : FreeWindow(s, TRUE) /\ (writer[w].cur # 0 => sec[s].blank)}
<1> USE SafeTypes
<1>1. call.step = "compact" /\ call.src = 0 /\ w \in Writers /\ UNCHANGED gcCursor
  BY SMTT(30) DEF TryCompactionReserve, Safe, CallShape
<1>2. CASE kept # {}
  <2>1. PICK s \in kept : /\ Give(w, s, writer[w], used \ {s}, sec)
                         /\ reserve' = reserve \ {s} /\ cursor' = s
    BY <1>2, ZenonT(30) DEF TryCompactionReserve
  <2>2. s \in Sectors /\ s \in reserve
    BY SMTT(30)
  <2>3. ~OpenForWriting(s) /\ \A v \in Writers : s \notin writer[v].chain
    BY <2>2, SafeShapes, SMTT(30) DEF Given, OpenForWriting
  <2>4. writer[w].first .. (writer[w].first + writer[w].count - 1) \subseteq Reserved(w)
    BY DEF Reserved
  <2> HIDE DEF w, kept
  <2> QED  BY <1>1, <2>1, <2>2, <2>3, <2>4, GiveKeepsSafe, SafeShapes
<1>3. CASE kept = {}
  <2>1. /\ call' = [call EXCEPT !.step = "relaxed", !.tried = {}]
        /\ UNCHANGED <<sec, used, writer, reserve, cursor, gcCursor>>
    BY <1>3, Zenon DEF TryCompactionReserve
  <2>2. /\ call' \in Calls
        /\ call'.step = "relaxed" /\ call'.w = call.w /\ call'.cands = call.cands /\ call'.src = call.src
    BY <2>1, Zenon
  <2>3. \A t \in Sectors : OpenForWriting(t)' <=> OpenForWriting(t)
    BY <2>1 DEF OpenForWriting, Holds
  <2>4. CallShape'
    BY <1>1, <2>1, <2>2, <2>3, SMTT(30) DEF CallShape, Safe
  <2> QED  BY <2>1, <2>2, <2>4, CallSafe
<1> QED
  BY <1>2, <1>3, Zenon

-----------------------------------------------------------------------------
\* A step outside fffs_alloc_next_sector leaves no call half done.
LEMMA IdleCall ==
  ASSUME Safe, call.step = "idle", UNCHANGED call
  PROVE  CallShape'
BY SMTT(30) DEF Safe, CallShape

\* flush_write_cache: the first bytes in an erased sector.
LEMMA WriteSafe ==
  ASSUME Safe, NEW w \in Writers, Write(w)
  PROVE  Safe'
<1> DEFINE s == writer[w].cur
           x == [sec[s] EXCEPT !.blank = FALSE, !.fit = "none"]
<1> USE SafeTypes
<1>1. /\ call.step = "idle" /\ s # 0 /\ sec[s].blank
      /\ UNCHANGED <<used, cursor, gcCursor, reserve, writer, call>>
  BY SMTT(30) DEF Write
<1>2. s \in Sectors
  BY <1>1 DEF Safe, Ranges
<1>3. sec' = [sec EXCEPT ![s] = x]
  BY <1>1, <1>2, ZenonT(30) DEF Write, Sec
<1>4. x \in Sec /\ ~x.blank
  <2>1. sec[s] \in Sec
    BY <1>2, SMTT(30)
  <2> QED  BY <2>1, StartedFields, Zenon
<1> HIDE DEF x, s
<1>5. sec' \in [Sectors -> Sec] /\ ~sec'[s].blank /\ \A t \in Sectors : t # s => sec'[t] = sec[t]
  BY <1>2, <1>3, <1>4, SMTT(30)
<1>6. \A v \in Writers : Reserved(v)' = Reserved(v)
  BY <1>1, SMTT(30) DEF Reserved
<1>7. \A v \in Writers : s \notin writer[v].chain
  BY <1>1, SafeShapes, SMTT(30)
<1> QED
  BY <1>1, <1>5, <1>6, <1>7, IdleCall, StepKeepsSafe, SafeShapes

\* fffs_invalidate_old_chain takes live records away and touches nothing else
\* of a sector.
LEMMA InvalidatedSector ==
  ASSUME NEW x \in [Sectors -> Sec], NEW r, NEW C, NEW s \in Sectors,
         s = r => x[s].roots > 0
  PROVE  LET y == Invalidated(x, r, C)[s] IN
         /\ y \in Sec
         /\ y.blank = x[s].blank /\ y.recs = x[s].recs /\ y.fit = x[s].fit
         /\ s # r => y.roots = x[s].roots
         /\ y.cont => x[s].cont
         /\ s \notin C => y.cont = x[s].cont
<1> DEFINE y == Invalidated(x, r, C)[s]
<1>1. PICK n \in Nat : n = IF s = r THEN x[s].roots - 1 ELSE x[s].roots
  BY DEF Sec
<1>2. (x[s].cont /\ s \notin C) \in BOOLEAN
  OBVIOUS
<1>3. PICK c \in BOOLEAN : c = (x[s].cont /\ s \notin C)
  BY <1>2, Zenon
<1>4. y = [x[s] EXCEPT !.roots = n, !.cont = c]
  BY <1>1, <1>3 DEF Invalidated
<1>5. x[s] \in Sec
  OBVIOUS
<1> HIDE DEF y
<1>6. /\ y \in Sec /\ y.blank = x[s].blank /\ y.recs = x[s].recs /\ y.fit = x[s].fit
      /\ y.roots = n /\ y.cont = c
  BY <1>4, <1>5, Zenon DEF Sec
<1>7. (c => x[s].cont) /\ (s \notin C => c = x[s].cont)
  <2>1. x[s].cont \in BOOLEAN
    BY <1>5 DEF Sec
  <2> QED  BY <1>3, <2>1, Zenon
<1> QED
  BY <1>1, <1>6, <1>7 DEF y

\* fffs_delete.
LEMMA DeleteSafe ==
  ASSUME Safe, NEW r \in Roots, NEW C \in SUBSET Conts, Delete(r, C)
  PROVE  Safe'
<1> USE SafeTypes
<1>1. /\ call.step = "idle" /\ sec' = Invalidated(sec, r, C) /\ used' = used \ ({r} \cup C)
      /\ UNCHANGED <<cursor, gcCursor, reserve, writer, call>>
  BY SMTT(30) DEF Delete
<1>2. r \in Sectors /\ sec[r].roots > 0
  BY SMTT(30) DEF Roots
<1>3. \A t \in Sectors : /\ sec'[t] \in Sec
                         /\ sec'[t].blank = sec[t].blank /\ sec'[t].recs = sec[t].recs
                         /\ sec'[t].fit = sec[t].fit
                         /\ t # r => sec'[t].roots = sec[t].roots
                         /\ sec'[t].cont => sec[t].cont
                         /\ t \notin C => sec'[t].cont = sec[t].cont
  BY <1>1, <1>2, InvalidatedSector, SMTT(30)
<1>4. sec' \in [Sectors -> Sec]
  <2>1. sec' = [t \in Sectors |-> sec'[t]]
    BY <1>1, ZenonT(30) DEF Invalidated
  <2> QED  BY <1>3, <2>1
<1>5. \A v \in Writers : Reserved(v)' = Reserved(v)
  BY <1>1, SMTT(30) DEF Reserved
<1>6. \A t \in Sectors : sec'[t].blank => t # r /\ t \notin C
  BY <1>2, <1>3, SafeShapes, SMTT(30) DEF Conts
<1>7. \A v \in Writers : \A t \in writer[v].chain : t \in Sectors /\ t \notin C
  BY SMTT(30) DEF Conts
<1>8. \A t \in Sectors : sec'[t].blank => sec'[t].recs = 0 /\ sec'[t].roots = 0 /\ ~sec'[t].cont
  BY <1>3, <1>6, SafeShapes, SMTT(30)
<1>9. \A t \in reserve' : sec'[t].blank => t \in used' /\ \A v \in Writers : t \notin Reserved(v)
  BY <1>1, <1>3, <1>6, SafeShapes, Zenon
<1>10. \A v \in Writers : \A t \in writer'[v].chain :
         sec'[t].cont /\ sec'[t].recs > 0 /\ ~sec'[t].blank /\ sec'[t].fit = "none"
  BY <1>1, <1>3, <1>7, SafeShapes, SMTT(30)
<1> QED
  BY <1>1, <1>4, <1>5, <1>8, <1>9, <1>10, IdleCall, StepKeepsSafe, ZenonT(30), SafeShapes

\* gc_step erases a sector without live records or marks a full one.
LEMMA GcStepSafe ==
  ASSUME Safe, GcStep
  PROVE  Safe'
<1> DEFINE s == gcCursor
           look == s \notin used /\ s \in Scannable
<1> USE SafeTypes
<1>1. /\ call.step = "idle" /\ gcCursor' = NextDataSector(s)
      /\ sec' = IF look /\ s \in Garbage THEN [sec EXCEPT ![s] = ErasedSector] ELSE sec
      /\ used' \subseteq Sectors /\ used \subseteq used'
      /\ UNCHANGED <<cursor, reserve, writer, call>>
  BY SMTT(30) DEF GcStep
<1>2. gcCursor' \in Sectors
  BY <1>1, NextSector, SMTT(30)
<1>3. \A v \in Writers : Reserved(v)' = Reserved(v)
  BY <1>1, SMTT(30) DEF Reserved
<1>4. CASE look /\ s \in Garbage
  <2>1. s \notin reserve /\ (sec[s].blank \/ ~sec[s].cont)
    BY <1>4 DEF Garbage, Scannable, Live
  <2>2. \A v \in Writers : s \notin writer[v].chain
    BY <2>1, SafeShapes
  <2>3. /\ ErasedSector \in Sec
        /\ ErasedSector.recs = 0 /\ ErasedSector.roots = 0 /\ ~ErasedSector.cont
    BY DEF ErasedSector, Sec
  <2>4. sec' \in [Sectors -> Sec] /\ sec'[s] = ErasedSector /\ \A t \in Sectors : t # s => sec'[t] = sec[t]
    BY <1>1, <1>4, <2>3, SMTT(30)
  <2> HIDE DEF s
  <2> QED  BY <1>1, <1>2, <1>3, <2>1, <2>2, <2>3, <2>4, IdleCall, StepKeepsSafe, SafeShapes, ZenonT(30)
<1>5. CASE ~(look /\ s \in Garbage)
  <2>1. UNCHANGED sec
    BY <1>1, <1>5, SMTT(30)
  <2>2. CallShape'
    BY <1>1, IdleCall
  <2>3. \A t \in Sectors : sec'[t].blank => sec'[t].recs = 0 /\ sec'[t].roots = 0 /\ ~sec'[t].cont
    BY <2>1, SafeShapes, Zenon
  <2>4. \A t \in reserve' : \A v \in Writers : ~Given(v, t)
    BY <1>1, SafeShapes, Zenon
  <2>5. \A t \in reserve' : sec'[t].blank => t \in used' /\ \A v \in Writers : t \notin Reserved(v)
    BY <1>1, <2>1, SafeShapes, Zenon
  <2>6. \A v \in Writers : \A t \in writer'[v].chain :
           sec'[t].cont /\ sec'[t].recs > 0 /\ ~sec'[t].blank /\ sec'[t].fit = "none"
    BY <1>1, <2>1, SafeShapes, Zenon
  <2>7. \A v \in Writers : /\ Reserved(v)' \subseteq Reserved(v)
                           /\ writer'[v].head = writer[v].head /\ writer'[v].cur = writer[v].cur
                           /\ writer'[v].span = writer[v].span /\ writer'[v].chain = writer[v].chain
    BY <1>1, <1>3, Zenon
  <2> QED  BY <1>1, <1>2, <2>1, <2>2, <2>3, <2>4, <2>5, <2>6, <2>7, StepKeepsSafe, ZenonT(30)
<1> QED
  BY <1>4, <1>5, Zenon

\* The records fffs_close writes.
LEMMA CloseRecords ==
  ASSUME NEW x \in Sec, NEW low \in BOOLEAN
  PROVE  /\ RootRecord(x, low) \in Sec /\ ~RootRecord(x, low).blank /\ RootRecord(x, low).roots > 0
         /\ RootCommit(x) \in Sec /\ ~RootCommit(x).blank /\ RootCommit(x).roots > 0
         /\ EndRecord(x, low) \in Sec /\ ~EndRecord(x, low).blank
         /\ EndRecord(x, low).roots = x.roots
<1>1. PICK fit \in {"normal", "relaxed", "none"} : fit = IF low THEN "none" ELSE "normal"
  OBVIOUS
<1>2. PICK end \in {"normal", "relaxed", "none"} : end = IF low THEN "none" ELSE "relaxed"
  OBVIOUS
<1>3. PICK m \in Nat, n \in Nat : m = x.recs + 1 /\ n = x.roots + 1 /\ n > 0
  BY DEF Sec
<1>4. RootRecord(x, low) = [x EXCEPT !.blank = FALSE, !.recs = m, !.roots = n, !.fit = fit]
  BY <1>1, <1>3 DEF RootRecord, Sec
<1>5. RootRecord(x, low) = [blank |-> FALSE, recs |-> m, roots |-> n, cont |-> x.cont, fit |-> fit]
  BY <1>4, Zenon DEF Sec
<1>6. RootCommit(x) = [x EXCEPT !.blank = FALSE, !.roots = n]
  BY <1>3 DEF RootCommit, Sec
<1>7. /\ Left(x, FALSE) \in Sec /\ ~Left(x, FALSE).blank
  BY LeftSector, Zenon
<1>8. Left(x, FALSE).roots = x.roots
  BY DEF Left, Sec
<1>9. EndRecord(x, low) = [Left(x, FALSE) EXCEPT !.fit = end]
  BY <1>2 DEF EndRecord
<1>12. EndRecord(x, low) \in Sec /\ ~EndRecord(x, low).blank /\ EndRecord(x, low).roots = x.roots
  <2>1. PICK z \in Sec : z = Left(x, FALSE) /\ ~z.blank /\ z.roots = x.roots
    BY <1>7, <1>8, Zenon
  <2>2. EndRecord(x, low) = [z EXCEPT !.fit = end]
    BY <1>9, <2>1
  <2>3. [z EXCEPT !.fit = end] \in Sec /\ ~[z EXCEPT !.fit = end].blank /\ [z EXCEPT !.fit = end].roots = z.roots
    BY <2>1, FitFields, Zenon
  <2> QED  BY <2>1, <2>2, <2>3, Zenon
<1>13. RootRecord(x, low) \in Sec /\ ~RootRecord(x, low).blank /\ RootRecord(x, low).roots > 0
  BY <1>1, <1>3, <1>5 DEF Sec
<1>14. RootCommit(x) \in Sec /\ ~RootCommit(x).blank /\ RootCommit(x).roots > 0
  <2>1. /\ [x EXCEPT !.blank = FALSE, !.roots = n] \in Sec
        /\ ~[x EXCEPT !.blank = FALSE, !.roots = n].blank
        /\ [x EXCEPT !.blank = FALSE, !.roots = n].roots = n
    BY CommittedFields, ZenonT(30)
  <2> QED  BY <1>3, <1>6, <2>1
<1> QED  BY <1>12, <1>13, <1>14

\* With those records only the file's own root and last sector
\* change, and neither is erased any more.
LEMMA LastSector ==
  ASSUME Safe, NEW w \in Writers, writer[w].cur # 0, NEW low \in BOOLEAN
  PROVE  LET last == LastRecords(writer[w], low) IN
         /\ last \in [Sectors -> Sec]
         /\ ~last[writer[w].cur].blank /\ ~last[writer[w].head].blank
         /\ \A t \in Sectors : t # writer[w].cur /\ t # writer[w].head => last[t] = sec[t]
         /\ \A t \in Sectors : sec[t].roots > 0 => last[t].roots > 0
<1> DEFINE f == writer[w]
           last == LastRecords(f, low)
<1> USE SafeTypes
<1>1. f.cur \in Sectors /\ f.head \in Sectors
  BY SMTT(30) DEF Safe, Ranges
<1>2. CASE f.cur = f.head
  <2>1. last = [sec EXCEPT ![f.cur] = RootRecord(sec[f.cur], low)]
    BY <1>1, <1>2 DEF LastRecords
  <2>2. /\ RootRecord(sec[f.cur], low) \in Sec /\ ~RootRecord(sec[f.cur], low).blank
        /\ RootRecord(sec[f.cur], low).roots > 0
    BY <1>1, CloseRecords, ZenonT(30)
  <2> DEFINE x == RootRecord(sec[f.cur], low)
  <2> HIDE DEF x
  <2>3. last = [sec EXCEPT ![f.cur] = x] /\ x \in Sec /\ ~x.blank /\ x.roots > 0
    BY <2>1, <2>2, SMTT(30) DEF x
  <2> HIDE DEF last
  <2>4. last \in [Sectors -> Sec] /\ last[f.cur] = x /\ \A t \in Sectors : t # f.cur => last[t] = sec[t]
    BY <1>1, <2>3, SMTT(30)
  <2> QED  BY <1>1, <1>2, <2>3, <2>4, SMTT(30) DEF last
<1>3. CASE f.cur # f.head
  <2>1. last = [sec EXCEPT ![f.head] = RootCommit(sec[f.head]), ![f.cur] = EndRecord(sec[f.cur], low)]
    BY <1>1, <1>3 DEF LastRecords
  <2>2. /\ last[f.head] = RootCommit(sec[f.head]) /\ last[f.cur] = EndRecord(sec[f.cur], low)
        /\ \A t \in Sectors : t # f.cur /\ t # f.head => last[t] = sec[t]
        /\ last = [t \in Sectors |-> last[t]]
    BY <1>1, <1>3, <2>1, ZenonT(30)
  <2>3. /\ RootCommit(sec[f.head]) \in Sec /\ EndRecord(sec[f.cur], low) \in Sec
        /\ ~RootCommit(sec[f.head]).blank /\ ~EndRecord(sec[f.cur], low).blank
        /\ RootCommit(sec[f.head]).roots > 0
        /\ EndRecord(sec[f.cur], low).roots = sec[f.cur].roots
    BY <1>1, CloseRecords, Zenon
  <2> HIDE DEF last
  <2>4. \A t \in Sectors : last[t] \in Sec
    BY <2>2, <2>3
  <2>5. last \in [Sectors -> Sec]
    BY <2>2, <2>4, SMTT(30)
  <2>6. \A t \in Sectors : sec[t].roots > 0 => last[t].roots > 0
    BY <2>2, <2>3
  <2> QED  BY <2>2, <2>3, <2>5, <2>6, SMTT(30) DEF last
<1> QED
  BY <1>2, <1>3, SMTT(30)

\* fffs_close.
LEMMA CloseSafe ==
  ASSUME Safe, NEW w \in Writers, NEW low \in BOOLEAN, NEW r \in {0} \cup Roots,
         NEW C \in SUBSET Conts, Close(w, low, r, C)
  PROVE  Safe'
<1> DEFINE f == writer[w]
           last == LastRecords(f, low)
           marked == IF f.cur # f.head THEN used \cup {f.head, f.cur}
                     ELSE IF low THEN used \cup {f.cur} ELSE used
<1> USE SafeTypes
<1>1. /\ call.step = "idle" /\ f.cur # 0 /\ sec' = Invalidated(last, r, C)
      /\ used' = (marked \ ({r} \cup C)) \ Reserved(w)
      /\ writer' = [writer EXCEPT ![w] = Closed]
      /\ UNCHANGED <<cursor, gcCursor, reserve, call>>
  BY Zenon DEF Close
<1>2. f.cur \in Sectors /\ f.head \in Sectors
  BY <1>1, ZenonT(30) DEF Safe, Ranges
<1>3. /\ last \in [Sectors -> Sec] /\ ~last[f.cur].blank /\ ~last[f.head].blank
      /\ \A t \in Sectors : t # f.cur /\ t # f.head => last[t] = sec[t]
      /\ \A t \in Sectors : sec[t].roots > 0 => last[t].roots > 0
  BY <1>1, LastSector, ZenonT(30)
<1>4. r # 0 => r \in Sectors /\ sec[r].roots > 0
  BY Zenon DEF Roots
<1>5. \A t \in Sectors : t = r => last[t].roots > 0
  BY <1>3, <1>4, SMTT(30) DEF Sectors
<1> HIDE DEF last
<1>6. \A t \in Sectors : /\ sec'[t] \in Sec
                         /\ sec'[t].blank = last[t].blank /\ sec'[t].recs = last[t].recs
                         /\ sec'[t].fit = last[t].fit
                         /\ t # r => sec'[t].roots = last[t].roots
                         /\ sec'[t].cont => last[t].cont
                         /\ t \notin C => sec'[t].cont = last[t].cont
  <2> SUFFICES ASSUME NEW t \in Sectors
               PROVE  /\ sec'[t] \in Sec
                      /\ sec'[t].blank = last[t].blank /\ sec'[t].recs = last[t].recs
                      /\ sec'[t].fit = last[t].fit
                      /\ t # r => sec'[t].roots = last[t].roots
                      /\ sec'[t].cont => last[t].cont
                      /\ t \notin C => sec'[t].cont = last[t].cont
    BY SMTT(30)
  <2>1. last \in [Sectors -> Sec] /\ (t = r => last[t].roots > 0) /\ sec' = Invalidated(last, r, C)
    BY <1>1, <1>3, <1>5, SMTT(30)
  <2> QED  BY <2>1, InvalidatedSector, SMTT(30)
<1>7. sec' \in [Sectors -> Sec]
  <2>1. sec' = [t \in Sectors |-> sec'[t]]
    BY <1>1, ZenonT(30) DEF Invalidated
  <2> QED  BY <1>6, <2>1
<1>8. used \subseteq marked /\ marked \subseteq Sectors
  BY <1>2
<1>9. used' \subseteq Sectors /\ \A t \in used : t # r /\ t \notin C /\ t \notin Reserved(w) => t \in used'
  BY <1>1, <1>8, ZenonT(30)
<1>10. \A t \in Sectors : sec'[t].blank => t # f.cur /\ t # f.head /\ sec[t].blank /\ t # r /\ t \notin C
  <2> SUFFICES ASSUME NEW t \in Sectors, sec'[t].blank
               PROVE  t # f.cur /\ t # f.head /\ sec[t].blank /\ t # r /\ t \notin C
    BY Zenon
  <2>1. t # f.cur /\ t # f.head /\ last[t] = sec[t]
    BY <1>3, <1>6, Zenon
  <2>2. sec[t].blank
    BY <1>6, <2>1, Zenon
  <2>3. sec[t].roots = 0 /\ ~sec[t].cont
    BY <2>2, SafeShapes, SMTT(30)
  <2>4. t \notin C
    BY <2>3, SMTT(30) DEF Conts
  <2>5. t # r
    BY <1>4, <2>3, SMTT(30) DEF Sectors
  <2> QED  BY <2>1, <2>2, <2>4, <2>5, Zenon
<1>11. \A t \in Sectors : sec'[t].blank => sec'[t].recs = 0 /\ sec'[t].roots = 0 /\ ~sec'[t].cont
  BY <1>3, <1>6, <1>10, SafeShapes
<1>12. \A t \in reserve' : sec'[t].blank => t \in used' /\ \A v \in Writers : t \notin Reserved(v)
  BY <1>1, <1>9, <1>10, ZenonT(30), SafeShapes
<1>13. \A v \in Writers : \/ writer'[v] = Closed
                          \/ v # w /\ writer'[v] = writer[v]
  BY <1>1
<1>14. writer' \in [Writers -> File]
  BY <1>1, ZenonT(30) DEF Closed, File
<1>15. \A v \in Writers : Reserved(v)' \subseteq Reserved(v)
  BY <1>13, <1>14, SMTT(30) DEF Reserved, Closed
<1>16. \A v \in Writers : \A t \in writer'[v].chain :
         sec'[t].cont /\ sec'[t].recs > 0 /\ ~sec'[t].blank /\ sec'[t].fit = "none"
  <2> SUFFICES ASSUME NEW v \in Writers, NEW t \in writer'[v].chain
               PROVE  sec'[t].cont /\ sec'[t].recs > 0 /\ ~sec'[t].blank /\ sec'[t].fit = "none"
    BY Zenon
  <2>1. v # w /\ t \in writer[v].chain
    BY <1>13, SMTT(30) DEF Closed
  <2>2. t \in Sectors
    BY <2>1
  <2>3. t # f.cur /\ t # f.head
    BY <2>1, <2>2, <1>2, ZenonT(30) DEF Safe, HandedApart, Given, Holds
  <2>4. t \notin C
    BY <2>1, SMTT(30) DEF Conts
  <2>5. last[t] = sec[t]
    BY <1>3, <2>2, <2>3, Zenon
  <2>6. /\ sec'[t].blank = sec[t].blank /\ sec'[t].recs = sec[t].recs
        /\ sec'[t].fit = sec[t].fit /\ sec'[t].cont = sec[t].cont
    BY <1>6, <2>2, <2>4, <2>5, Zenon
  <2>7. sec[t].cont /\ sec[t].recs > 0 /\ ~sec[t].blank /\ sec[t].fit = "none"
    BY <2>1, SafeShapes, SMTT(30)
  <2> QED  BY <2>6, <2>7, SMTT(30)
<1> QED
  BY <1>1, <1>7, <1>9, <1>11, <1>12, <1>13, <1>14, <1>15, <1>16, IdleCall, StepKeepsSafe, Zenon, SafeShapes

\* Power loss and mount: nothing is open any more.
LEMMA RestartSafe ==
  ASSUME Safe, NEW c \in Sectors, Restart(c)
  PROVE  Safe'
<1> USE SafeTypes
<1>1. /\ call.step = "idle" /\ used' = {} /\ reserve' = {} /\ cursor' = c /\ gcCursor' = 1
      /\ writer' = [w \in Writers |-> Closed] /\ UNCHANGED call
  BY Zenon DEF Restart
<1>2. ASSUME NEW s \in Sectors
      PROVE  /\ sec'[s] \in Sec /\ sec'[s].blank = sec[s].blank /\ sec'[s].recs = sec[s].recs
             /\ sec'[s].roots = sec[s].roots /\ (sec'[s].cont => sec[s].cont)
  <2> DEFINE keep == \A w \in Writers : s \notin writer[w].chain
             open == ~sec[s].blank /\ OpenForWriting(s)
  <2>1. sec'[s] = [sec[s] EXCEPT !.cont = @ /\ keep, !.fit = IF open THEN "none" ELSE @]
    BY ZenonT(30) DEF Restart
  <2>2. sec[s] \in Sec
    OBVIOUS
  <2>3. (sec[s].cont /\ keep) \in BOOLEAN
    OBVIOUS
  <2>4. PICK k \in BOOLEAN : k = (sec[s].cont /\ keep)
    BY <2>3, ZenonT(30)
  <2>5. PICK fit \in {"normal", "relaxed", "none"} : fit = IF open THEN "none" ELSE sec[s].fit
    BY <2>2 DEF Sec
  <2>6. sec'[s] = [sec[s] EXCEPT !.cont = k, !.fit = fit]
    BY <2>1, <2>4, <2>5
  <2>7. k => sec[s].cont
    BY <2>4, Zenon
  <2> HIDE DEF keep, open
  <2> QED  BY <2>2, <2>6, <2>7, ZenonT(30) DEF Sec
<1>3. sec' \in [Sectors -> Sec]
  <2>1. sec' = [t \in Sectors |-> sec'[t]]
    BY Zenon DEF Restart
  <2> QED  BY <1>2, <2>1
<1>4. gcCursor' \in Sectors
  BY <1>1, AllocatorAssumption, SMTT(30) DEF Sectors
<1>5. /\ writer' \in [Writers -> File] /\ \A v \in Writers : writer'[v] = Closed
      /\ \A v \in Writers : writer'[v].chain = {} /\ Reserved(v)' = {}
  BY <1>1 DEF Closed, File, Reserved
<1>6. CallShape'
  BY <1>1, IdleCall
<1>7. \A t \in Sectors : sec'[t].blank => sec'[t].recs = 0 /\ sec'[t].roots = 0 /\ ~sec'[t].cont
  BY <1>2, SafeShapes, Zenon
<1>8. \A v \in Writers : Reserved(v)' \subseteq Reserved(v)
  BY <1>5, Zenon
<1>9. used' \subseteq Sectors /\ reserve' \subseteq Sectors /\ cursor' \in Sectors /\ call' \in Calls
  BY <1>1, Zenon
<1> QED
  BY <1>1, <1>3, <1>4, <1>5, <1>6, <1>7, <1>8, <1>9, StepKeepsSafe, ZenonT(30)

-----------------------------------------------------------------------------
\* Every step preserves the invariant.
LEMMA NextSafe == Safe /\ [Next]_vars => Safe'
<1> SUFFICES ASSUME Safe, [Next]_vars
             PROVE  Safe'
  OBVIOUS
<1>1. {0} \cup Roots \subseteq {0} \cup Sectors
  BY DEF Roots
<1>2. CASE \E w \in Writers : TryReservedSector(w)
  BY <1>2, TryReservedSafe
<1>3. CASE \E w \in Writers, old \in {0} \cup Roots : AllocSectorOnce(w, old)
  BY <1>1, <1>3, AllocOnceSafe
<1>4. CASE GcUntilErased
  BY <1>4, GcUntilErasedSafe
<1>5. CASE \E old \in {0} \cup Roots : TryCompactionReserve(old)
  BY <1>1, <1>5, TryCompactionReserveSafe
<1>6. CASE \E s \in call.cands : CompactPick(s)
  BY <1>6, CompactPickSafe
<1>7. CASE /\ call.src # 0
           /\ \E small \in SUBSET {s \in Sectors : ~sec[s].blank /\ FreeWindow(s, FALSE)} :
                \/ \E d \in Destinations(small), low \in BOOLEAN : CompactCopy(d, low)
                \/ Destinations(small) = {} /\ CompactFail
  <2>1. PICK small \in SUBSET {s \in Sectors : ~sec[s].blank /\ FreeWindow(s, FALSE)} :
                \/ \E d \in Destinations(small), low \in BOOLEAN : CompactCopy(d, low)
                \/ Destinations(small) = {} /\ CompactFail
    BY <1>7, Zenon
  <2> QED  BY <1>7, <2>1, CompactCopySafe, CompactFailSafe, Zenon
<1>8. CASE CompactErase
  BY <1>8, CompactEraseSafe
<1>9. CASE NoSpace
  BY <1>9, NoSpaceSafe
<1>10. CASE \E w \in Writers : Write(w)
  BY <1>10, WriteSafe
<1>11. CASE \E w \in Writers, low \in BOOLEAN : Close(w, low, 0, {})
  <2>1. {} \in SUBSET Conts /\ 0 \in {0} \cup Roots
    OBVIOUS
  <2> QED  BY <1>11, <2>1, CloseSafe
<1>12. CASE \E w \in Writers, low \in BOOLEAN, r \in Roots, C \in SUBSET Conts : Close(w, low, r, C)
  BY <1>12, CloseSafe, Zenon
<1>13. CASE \E r \in Roots, C \in SUBSET Conts : Delete(r, C)
  BY <1>13, DeleteSafe
<1>14. CASE GcStep
  BY <1>14, GcStepSafe
<1>15. CASE \E c \in Sectors : Restart(c)
  BY <1>15, RestartSafe
<1>16. CASE UNCHANGED vars
  <2>1. UNCHANGED <<sec, used, cursor, gcCursor, reserve, writer>> /\ UNCHANGED call
    BY <1>16 DEF vars
  <2>2. \A t \in Sectors : OpenForWriting(t)' <=> OpenForWriting(t)
    BY <2>1, SMTT(30) DEF OpenForWriting, Holds
  <2>3. call' \in Calls
    BY <2>1, SafeTypes, Zenon
  <2>4. CallShape'
    BY <2>1, <2>2, <2>3 DEF Safe, CallShape
  <2> QED  BY <2>1, <2>3, <2>4, CallSafe
<1> QED
  BY <1>2, <1>3, <1>4, <1>5, <1>6, <1>7, <1>8, <1>9, <1>10, <1>11, <1>12, <1>13, <1>14, <1>15, <1>16, Zenon
  DEF Next

\* For any number of sectors and writers, fffs_alloc_next_sector never gives two
\* open files the same sector.
THEOREM SectorsHandedApart == Spec => []HandedApart
<1>1. Safe => HandedApart
  BY DEF Safe
<1> QED
  BY InitSafe, NextSafe, <1>1, PTL DEF Spec

\* No writer ever uses a sector kept for compaction.
THEOREM CompactionReserveApart == Spec => []ReserveApart
<1>1. Safe => ReserveApart
  BY SMTT(30) DEF Safe
<1> QED
  BY InitSafe, NextSafe, <1>1, PTL DEF Spec

\* Neither collection nor compaction ever erases a sector that a writer has left.
THEOREM ContinuationsKept == Spec => []LeftKept
<1>1. Safe => LeftKept
  BY DEF Safe, ChainShape, LeftKept
<1> QED
  BY InitSafe, NextSafe, <1>1, PTL DEF Spec

-----------------------------------------------------------------------------
(* The bits of the allocation map. *)

\* Every bit of an erased sector is accounted for: bits is the map, base the
\* sectors and f the file of w as the step has left them.
Accounted(w, f, bits, base) ==
  \A t \in bits : base[t].blank =>
     \/ t \in reserve' \/ t \in f.first .. (f.first + f.count - 1)
     \/ \E v \in Writers : v # w /\ t \in Reserved(v)

\* use_alloc_window sets the bits of the sectors it reserves and of the sector
\* the file leaves, so it leaks none if the map it starts from leaks none.
LEMMA GiveLeaksNothing ==
  ASSUME Safe, NEW w \in Writers, NEW s \in Sectors, NEW f \in File, NEW bits \in SUBSET Sectors,
         NEW base \in [Sectors -> Sec], f.cur = writer[w].cur,
         Accounted(w, f, bits, base),
         Give(w, s, f, bits, base)
  PROVE  NoLeakedBit'
<1> DEFINE next == ReserveNext(f, s)
           old == f.cur
           into == IF old = 0 THEN [f EXCEPT !.head = s, !.cur = s, !.span = s]
                   ELSE [f EXCEPT !.cur = s, !.span = IF s = old + 1 THEN @ ELSE s,
                                  !.chain = @ \cup ({old} \ {f.head})]
<1>1. PICK k \in (IF base[s].blank THEN Growth(w, f, next, bits) ELSE {0}) :
          /\ writer' = [writer EXCEPT ![w] =
                [into EXCEPT !.first = IF f.count = 0 /\ k > 0 THEN next ELSE @, !.count = @ + k]]
          /\ used' = (bits \cup (next .. (next + k - 1))) \cup ({old} \ {0})
          /\ sec' = IF old = 0 THEN base ELSE [base EXCEPT ![old] = Left(@, old = f.head)]
          /\ call' = Idle
  BY Zenon DEF Give
<1>2. k \in Nat
  BY <1>1, SMTT(30) DEF Growth
<1>3. /\ writer \in [Writers -> File] /\ f.first \in Nat /\ f.count \in Nat
      /\ old \in {0} \cup Sectors
  BY SafeTypes DEF Safe, Ranges, File
<1>5. PICK n \in Nat : n = next /\ (f.count # 0 => n = f.first + f.count)
  BY ReserveGoesOn, Zenon
<1>6. /\ writer'[w].count = f.count + k
      /\ writer'[w].first = (IF f.count = 0 /\ k > 0 THEN n ELSE f.first)
      /\ \A v \in Writers : v # w => writer'[v] = writer[v]
  <2>1. writer'[w] = [into EXCEPT !.first = IF f.count = 0 /\ k > 0 THEN next ELSE @, !.count = @ + k]
    BY <1>1, <1>3
  <2>2. into.first = f.first /\ into.count = f.count /\ {"first", "count"} \subseteq DOMAIN into
    BY DEF File
  <2>3. \A v \in Writers : v # w => writer'[v] = writer[v]
    BY <1>1, <1>3
  <2> HIDE DEF into, next
  <2>4. /\ writer'[w].count = into.count + k
        /\ writer'[w].first = (IF f.count = 0 /\ k > 0 THEN next ELSE into.first)
    BY <2>1, <2>2, SMTT(30)
  <2> QED  BY <1>5, <2>2, <2>3, <2>4, Zenon
<1>7. ASSUME NEW t \in Nat, t \in f.first .. (f.first + f.count - 1) \/ t \in next .. (next + k - 1)
      PROVE  t \in Reserved(w)'
  <2>1. Reserved(w)' = writer'[w].first .. (writer'[w].first + writer'[w].count - 1)
    BY Zenon DEF Reserved
  <2>2. t \in f.first .. (f.first + f.count - 1) \/ t \in n .. (n + k - 1)
    BY <1>5, <1>7, Zenon
  <2>3. PICK x \in Nat : x = IF f.count = 0 /\ k > 0 THEN n ELSE f.first
    BY <1>3, Zenon
  <2>4. t \in x .. (x + (f.count + k) - 1)
    <3>1. Grown(f.first, f.count, k, n, x)
      BY <1>5, <2>3, Zenon DEF Grown
    <3> QED  BY <1>2, <1>3, <2>2, <3>1, GrownInterval, Zenon
  <2>5. writer'[w].first = x /\ writer'[w].count = f.count + k
    BY <1>6, <2>3, Zenon
  <2> QED  BY <2>1, <2>4, <2>5, Zenon
<1>8. \A v \in Writers : v # w => Reserved(v)' = Reserved(v)
  BY <1>6 DEF Reserved
<1>9. ASSUME NEW t \in used', sec'[t].blank
      PROVE  t \in reserve' \/ \E v \in Writers : t \in Reserved(v)'
  <2>1. t \in bits \/ t \in next .. (next + k - 1) \/ (t = old /\ old # 0)
    BY <1>1, <1>9, Zenon
  <2>2. ~(t = old /\ old # 0)
    <3> SUFFICES ASSUME t = old, old # 0
                 PROVE  FALSE
      OBVIOUS
    <3>1. base[old] \in Sec /\ (old = f.head) \in BOOLEAN
      BY <1>3
    <3>2. sec'[old] = Left(base[old], old = f.head)
      BY <1>1, <1>3
    <3> QED  BY <1>9, <3>1, <3>2, LeftSector, Zenon
  <2>3. CASE t \in next .. (next + k - 1)
    <3>1. t \in Nat
      BY <1>2, <1>5, <2>3
    <3> QED  BY <1>7, <2>3, <3>1, Zenon
  <2>4. CASE t \in bits
    <3>1. t \in Sectors /\ t \in Nat
      BY <2>4 DEF Sectors
    <3>2. base[t].blank
      <4>1. sec'[t] = base[t]
        BY <1>1, <1>3, <2>2, <3>1
      <4> QED  BY <1>9, <4>1, Zenon
    <3>3. \/ t \in reserve' \/ t \in f.first .. (f.first + f.count - 1)
          \/ \E v \in Writers : v # w /\ t \in Reserved(v)
      BY <2>4, <3>2, Zenon DEF Accounted
    <3> QED  BY <1>7, <1>8, <3>1, <3>3, Zenon
  <2> QED  BY <2>1, <2>2, <2>3, <2>4, Zenon
<1> QED  BY <1>9, Zenon DEF NoLeakedBit

\* A step that sets bits only for sectors that are not erased and keeps the
\* reservations of the sectors whose bit stays set leaks none.
LEMMA StepLeaksNothing ==
  ASSUME NoLeakedBit,
         \A t \in used' : sec'[t].blank =>
            /\ t \in used /\ sec[t].blank /\ (t \in reserve => t \in reserve')
            /\ \A v \in Writers : t \in Reserved(v) => t \in Reserved(v)'
  PROVE  NoLeakedBit'
BY Zenon DEF NoLeakedBit

\* The same for a sector that was just erased and is given away.
LEMMA ErasedLeaksNothing ==
  ASSUME Safe, NoLeakedBit, NEW w \in Writers, NEW s \in Sectors, NEW bits \in SUBSET Sectors,
         s \notin bits, \A t \in bits : sec[t].blank => t \in used, UNCHANGED reserve,
         Give(w, s, writer[w], bits, [sec EXCEPT ![s] = ErasedSector])
  PROVE  NoLeakedBit'
<1> DEFINE base == [sec EXCEPT ![s] = ErasedSector]
           f == writer[w]
<1>1. base \in [Sectors -> Sec] /\ \A t \in Sectors : t # s => base[t] = sec[t]
  BY SafeTypes, SMTT(30) DEF ErasedSector, Sec
<1>2. f \in File /\ f.first .. (f.first + f.count - 1) = Reserved(w)
  BY SafeTypes DEF Reserved
<1>3. Give(w, s, f, bits, base)
  OBVIOUS
<1> HIDE DEF base, f
<1>4. ASSUME NEW t \in bits, base[t].blank
      PROVE  \/ t \in reserve' \/ t \in f.first .. (f.first + f.count - 1)
             \/ \E v \in Writers : v # w /\ t \in Reserved(v)
  <2>1. sec[t].blank /\ t \in used
    BY <1>1, <1>4, Zenon
  <2>2. t \in reserve \/ \E v \in Writers : t \in Reserved(v)
    BY <2>1, Zenon DEF NoLeakedBit
  <2> QED  BY <1>2, <2>2, Zenon
<1>5. f.cur = writer[w].cur
  BY DEF f
<1>6. Accounted(w, f, bits, base)
  BY <1>4 DEF Accounted
<1> QED  BY <1>1, <1>2, <1>3, <1>5, <1>6, GiveLeaksNothing, Zenon

\* try_reserved_sector: the bit of the sector it uses, or those of the whole
\* reservation it gives back, are cleared.
LEMMA TryReservedLeaks ==
  ASSUME Safe, NoLeakedBit, NEW w \in Writers, TryReservedSector(w)
  PROVE  NoLeakedBit'
<1> DEFINE f == writer[w]
           s == f.first
           usable == ~OpenForWriting(s) /\ ~ReservedByOther(w, s) /\ sec[s].blank
           rest == IF f.count = 1 THEN Without(f) ELSE [f EXCEPT !.first = @ + 1, !.count = @ - 1]
<1>1. f \in File /\ f.count > 0 /\ f.count \in Nat /\ f.first \in Nat /\ UNCHANGED reserve
  BY SafeTypes DEF TryReservedSector, File
<1>2. s \in Sectors
  BY <1>1, SafeTypes, SMTT(30) DEF Reserved
<1>3. CASE usable
  <2>1. Give(w, s, rest, used \ {s}, sec)
    BY <1>3 DEF TryReservedSector
  <2>2. /\ rest \in File /\ rest.cur = f.cur
        /\ \A t \in Reserved(w) : t # s => t \in rest.first .. (rest.first + rest.count - 1)
    <3>1. PICK a \in Nat, b \in Nat :
            /\ rest = [f EXCEPT !.first = a, !.count = b]
            /\ IF f.count = 1 THEN a = 0 /\ b = 0 ELSE a = f.first + 1 /\ b = f.count - 1
      <4>1. f.first + 1 \in Nat /\ f.count - 1 \in Nat
        BY <1>1
      <4> QED  BY <1>1, <4>1, Zenon DEF Without, File
    <3>2. \A t \in Reserved(w) : t # s => t \in a .. (a + b - 1)
      BY <1>1, <3>1 DEF Reserved
    <3> HIDE DEF rest, f
    <3>3. rest \in File /\ rest.cur = f.cur /\ rest.first = a /\ rest.count = b
      BY <1>1, <3>1, Zenon DEF File
    <3> QED  BY <3>2, <3>3, Zenon
  <2>3. \A t \in used \ {s} : sec[t].blank =>
           \/ t \in reserve' \/ t \in rest.first .. (rest.first + rest.count - 1)
           \/ \E v \in Writers : v # w /\ t \in Reserved(v)
    BY <1>1, <2>2, Zenon DEF NoLeakedBit
  <2>4. sec \in [Sectors -> Sec] /\ used \ {s} \in SUBSET Sectors
    BY SafeTypes
  <2>5. rest.cur = writer[w].cur
    BY <2>2
  <2> DEFINE bits == used \ {s}
  <2>6. Give(w, s, rest, bits, sec) /\ bits \in SUBSET Sectors
    BY <2>1, <2>4
  <2>7. Accounted(w, rest, bits, sec)
    BY <2>3 DEF Accounted
  <2> HIDE DEF rest, bits, s
  <2> QED  BY <1>2, <2>2, <2>4, <2>5, <2>6, <2>7, GiveLeaksNothing, Zenon
<1>4. CASE ~usable
  <2>1. writer' = [writer EXCEPT ![w] = Without(f)] /\ used' = used \ Reserved(w) /\ UNCHANGED sec
    BY <1>4 DEF TryReservedSector
  <2>2. \A v \in Writers : v # w => Reserved(v)' = Reserved(v)
    BY <2>1, SafeTypes DEF Reserved
  <2> QED  BY <1>1, <2>1, <2>2, StepLeaksNothing, Zenon
<1> QED  BY <1>3, <1>4, Zenon

\* What halve_reservations takes from a reservation is what it releases.
LEMMA HalvedRest ==
  ASSUME NEW f \in File, NEW t \in f.first .. (f.first + f.count - 1), t \notin Released(f)
  PROVE  t \in Halved(f).first .. (Halved(f).first + Halved(f).count - 1)
<1>1. f.first \in Nat /\ f.count \in Nat
  BY DEF File
<1>2. PICK h \in Nat : h = f.count \div 2 /\ (f.count < 2 => h = 0)
  BY <1>1
<1>3. t \notin (f.first + h) .. (f.first + f.count - 1)
  BY <1>2 DEF Released
<1>4. t \in f.first .. (f.first + h - 1)
  BY <1>1, <1>2, <1>3
<1>5. f.count >= 2
  BY <1>1, <1>2, <1>3
<1>6. Halved(f) = [f EXCEPT !.count = h]
  BY <1>1, <1>2, <1>5 DEF Halved
<1>7. Halved(f).first = f.first /\ Halved(f).count = h
  BY <1>6 DEF File
<1> QED  BY <1>4, <1>7, Zenon

\* alloc_sector_once: the bits it sets are those of the compaction reserve, and
\* halving clears what it takes from the reservations.
LEMMA AllocOnceLeaks ==
  ASSUME Safe, NoLeakedBit, NEW w \in Writers, NEW old \in {0} \cup Sectors, AllocSectorOnce(w, old)
  PROVE  NoLeakedBit'
<1> DEFINE found == Acceptable(w, old)
           before(s) == {t \in found : Offset(cursor, t) < Offset(cursor, s)}
           kept == {s \in found : /\ writer[w].cur = 0
                                  /\ Cardinality(before(s)) + Cardinality(reserve) < CompactMax}
           bits == used \cup kept
<1>1. reserve' = reserve \cup kept /\ kept \subseteq found /\ found \subseteq Sectors
  BY Zenon DEF AllocSectorOnce, Acceptable
<1>2. \A t \in bits : sec[t].blank => t \in reserve' \/ \E v \in Writers : t \in Reserved(v)
  BY <1>1, Zenon DEF NoLeakedBit
<1>3. CASE found # kept
  <2>1. PICK s \in First(cursor, found \ kept) : Give(w, s, writer[w], bits, sec)
    BY <1>3, ZenonT(30) DEF AllocSectorOnce
  <2>2. s \in Sectors
    BY <1>1, Zenon DEF First
  <2>3. writer[w].first .. (writer[w].first + writer[w].count - 1) = Reserved(w)
    BY DEF Reserved
  <2>4. \A t \in bits : sec[t].blank =>
           \/ t \in reserve' \/ t \in writer[w].first .. (writer[w].first + writer[w].count - 1)
           \/ \E v \in Writers : v # w /\ t \in Reserved(v)
    BY <1>2, <2>3, Zenon
  <2>5. writer[w] \in File /\ sec \in [Sectors -> Sec] /\ bits \in SUBSET Sectors
    BY <1>1, SafeTypes
  <2> DEFINE f == writer[w]
  <2> HIDE DEF bits, kept, found, f
  <2>6. f \in File /\ f.cur = writer[w].cur /\ Give(w, s, f, bits, sec)
    BY <2>1, <2>5, SMTT(30) DEF f
  <2>7. Accounted(w, f, bits, sec)
    BY <2>4 DEF f, Accounted
  <2> QED  BY <2>2, <2>5, <2>6, <2>7, GiveLeaksNothing, Zenon
<1>4. CASE found = kept /\ call.step # "again"
  <2>1. HalveReservations(w, bits) /\ UNCHANGED sec
    BY <1>4, SMTT(30) DEF AllocSectorOnce
  <2> HIDE DEF bits, kept
  <2>2. /\ used' = bits \ UNION {Released(writer[v]) : v \in Writers}
        /\ \A v \in Writers : writer'[v] = Halved(writer[v]) /\ writer[v] \in File
    BY <2>1, SafeTypes DEF HalveReservations
  <2>3. ASSUME NEW t \in used', sec'[t].blank
        PROVE  t \in reserve' \/ \E v \in Writers : t \in Reserved(v)'
    <3>1. t \in bits /\ sec[t].blank /\ \A v \in Writers : t \notin Released(writer[v])
      BY <2>1, <2>2, <2>3, Zenon
    <3>2. CASE t \in reserve'
      BY <3>2
    <3>3. CASE \E v \in Writers : t \in Reserved(v)
      <4>1. PICK v \in Writers : t \in Reserved(v)
        BY <3>3
      <4>2. t \in writer[v].first .. (writer[v].first + writer[v].count - 1)
        BY <4>1 DEF Reserved
      <4>3. t \in Halved(writer[v]).first .. (Halved(writer[v]).first + Halved(writer[v]).count - 1)
        BY <2>2, <3>1, <4>2, HalvedRest, Zenon
      <4>4. t \in Reserved(v)'
        BY <2>2, <4>3 DEF Reserved
      <4> QED  BY <4>4
    <3> QED  BY <1>2, <3>1, <3>2, <3>3, Zenon
  <2> QED  BY <2>3, Zenon DEF NoLeakedBit
<1>5. CASE found = kept /\ call.step = "again"
  <2>1. used' = bits /\ UNCHANGED <<sec, writer>>
    BY <1>5, Zenon DEF AllocSectorOnce
  <2>2. \A v \in Writers : Reserved(v)' = Reserved(v)
    BY <2>1 DEF Reserved
  <2> HIDE DEF bits, kept
  <2> QED  BY <1>2, <2>1, <2>2, Zenon DEF NoLeakedBit
<1> QED  BY <1>3, <1>4, <1>5, Zenon

\* A sector with live records is not erased.
LEMMA LiveNotBlank ==
  ASSUME Safe, NEW t \in Sectors, Live(t)
  PROVE  ~sec[t].blank
<1>1. sec[t].roots \in Nat
  BY SafeTypes DEF Sec
<1>2. sec[t].blank => sec[t].roots = 0 /\ ~sec[t].cont
  BY SafeShapes, Zenon
<1> QED  BY <1>1, <1>2 DEF Live

\* fffs_gc_until_erased marks sectors with live records only.
LEMMA GcUntilErasedLeaks ==
  ASSUME Safe, NoLeakedBit, GcUntilErased
  PROVE  NoLeakedBit'
<1> DEFINE seen(s, S) == {t \in S : NormalAllocFull(t) /\ Offset(gcCursor, t) < Offset(gcCursor, s)}
           full0 == {t \in Scannable \ used : NormalAllocFull(t)}
<1>1. call.w \in Writers /\ UNCHANGED reserve
  BY DEF GcUntilErased, Safe, CallShape
<1>2. \A t \in Sectors : NormalAllocFull(t) => ~sec[t].blank
  BY LiveNotBlank, Zenon DEF NormalAllocFull
<1>3. used \subseteq Sectors /\ Scannable \subseteq Sectors /\ Garbage \subseteq Sectors
  BY SafeTypes DEF Scannable, Garbage
<1>4. ASSUME NEW S \in SUBSET Sectors, NEW scanned \in SUBSET Sectors,
             NEW marked \in SUBSET Sectors, \A t \in marked : NormalAllocFull(t),
             NEW s \in First(gcCursor, S),
             Give(call.w, s, writer[call.w], (used \cup marked \cup seen(s, scanned)) \ {s},
                  [sec EXCEPT ![s] = ErasedSector])
      PROVE  NoLeakedBit'
  <2> DEFINE bits == (used \cup marked \cup seen(s, scanned)) \ {s}
  <2>1. s \in Sectors /\ bits \in SUBSET Sectors /\ s \notin bits
    BY <1>3, Zenon DEF First
  <2>2. \A t \in bits : sec[t].blank => t \in used
    BY <1>2, <1>4, Zenon
  <2>3. Give(call.w, s, writer[call.w], bits, [sec EXCEPT ![s] = ErasedSector])
    BY <1>4
  <2> HIDE DEF bits
  <2> QED  BY <1>1, <2>1, <2>2, <2>3, ErasedLeaksNothing, Zenon
<1>5. CASE Garbage \ used # {}
  <2>1. PICK s \in First(gcCursor, Garbage \ used) :
          Give(call.w, s, writer[call.w], (used \cup {} \cup seen(s, Scannable \ used)) \ {s},
               [sec EXCEPT ![s] = ErasedSector])
    BY <1>5, Zenon DEF GcUntilErased
  <2>2. Garbage \ used \in SUBSET Sectors /\ Scannable \ used \in SUBSET Sectors
    BY <1>3
  <2> HIDE DEF seen
  <2> QED  BY <1>4, <2>1, <2>2, Zenon
<1>6. CASE Garbage \ used = {} /\ Garbage # {}
  <2>1. PICK s \in First(gcCursor, Garbage) :
          Give(call.w, s, writer[call.w], (used \cup full0 \cup seen(s, Scannable)) \ {s},
               [sec EXCEPT ![s] = ErasedSector])
    BY <1>6, Zenon DEF GcUntilErased
  <2>2. /\ Garbage \in SUBSET Sectors /\ Scannable \in SUBSET Sectors /\ full0 \in SUBSET Sectors
        /\ \A t \in full0 : NormalAllocFull(t)
    BY <1>3
  <2> HIDE DEF seen, full0
  <2> QED  BY <1>4, <2>1, <2>2, Zenon
<1>7. CASE Garbage \ used = {} /\ Garbage = {}
  <2>1. /\ used' = used \cup {t \in Scannable : NormalAllocFull(t)}
        /\ UNCHANGED <<sec, writer>>
    BY <1>7 DEF GcUntilErased
  <2>2. \A v \in Writers : Reserved(v)' = Reserved(v)
    BY <2>1 DEF Reserved
  <2>3. \A t \in used' : sec'[t].blank => t \in used /\ sec[t].blank
    BY <1>2, <1>3, <2>1, Zenon
  <2> QED  BY <1>1, <2>2, <2>3, StepLeaksNothing, Zenon
<1> QED  BY <1>5, <1>6, <1>7, Zenon

\* gc_copy_root_record: the destination is erased no longer.
LEMMA CompactCopyLeaks ==
  ASSUME Safe, NoLeakedBit, NEW d \in Sectors, NEW low \in BOOLEAN, CompactCopy(d, low)
  PROVE  NoLeakedBit'
<1>1. /\ sec' = [sec EXCEPT ![call.src].roots = @ - 1, ![d] = Copied(@, low)]
      /\ reserve' = reserve \ {d} /\ used' \subseteq used \cup {d} /\ UNCHANGED writer
      /\ call.src \in Sectors
  BY SafeTypes, SMTT(30) DEF CompactCopy, Safe, CallShape
<1>2. sec \in [Sectors -> Sec] /\ used \subseteq Sectors
  BY SafeTypes
<1>3. ~sec'[d].blank
  BY <1>1, <1>2 DEF Copied, Sec
<1>4. \A t \in Sectors : t # d => sec'[t].blank = sec[t].blank
  BY <1>1, <1>2 DEF Sec
<1>5. \A v \in Writers : Reserved(v)' = Reserved(v)
  BY <1>1 DEF Reserved
<1>6. \A t \in used' : sec'[t].blank =>
         t \in used /\ sec[t].blank /\ (t \in reserve => t \in reserve')
  BY <1>1, <1>2, <1>3, <1>4, Zenon
<1> QED  BY <1>5, <1>6, StepLeaksNothing, Zenon

\* gc_compact_root_only_sector erases the source and clears its bit.
LEMMA CompactEraseLeaks ==
  ASSUME Safe, NoLeakedBit, CompactErase
  PROVE  NoLeakedBit'
<1>1. call.src \in Sectors /\ call.w \in Writers /\ UNCHANGED reserve
  BY SafeTypes, Zenon DEF CompactErase, Safe, CallShape
<1> DEFINE s == call.src
           bits == used \ {s}
<1>2. Give(call.w, s, writer[call.w], bits, [sec EXCEPT ![s] = ErasedSector])
  BY DEF CompactErase
<1>3. /\ s \in Sectors /\ bits \in SUBSET Sectors /\ s \notin bits
      /\ \A t \in bits : sec[t].blank => t \in used
  BY <1>1, SafeTypes
<1> HIDE DEF s, bits
<1> QED  BY <1>1, <1>2, <1>3, ErasedLeaksNothing, ZenonT(30)

\* try_compaction_reserve_for_alloc clears the bit of the sector it takes.
LEMMA TryCompactionReserveLeaks ==
  ASSUME Safe, NoLeakedBit, NEW old \in {0} \cup Sectors, TryCompactionReserve(old)
  PROVE  NoLeakedBit'
<1> DEFINE w == call.w
           f == writer[w]
           kept == {s \in reserve \ {old} : FreeWindow(s, TRUE) /\ (writer[w].cur # 0 => sec[s].blank)}
<1>1. w \in Writers
  BY SMTT(30) DEF TryCompactionReserve, Safe, CallShape
<1>2. CASE kept # {}
  <2>1. PICK s \in kept : Give(w, s, writer[w], used \ {s}, sec) /\ reserve' = reserve \ {s}
    BY <1>2, ZenonT(30) DEF TryCompactionReserve
  <2> DEFINE bits == used \ {s}
  <2>2. /\ s \in Sectors /\ bits \in SUBSET Sectors /\ f \in File /\ sec \in [Sectors -> Sec]
        /\ f.cur = writer[w].cur
    BY <1>1, SafeTypes, SMTT(30)
  <2>3. f.first .. (f.first + f.count - 1) = Reserved(w)
    BY DEF Reserved
  <2>4. Accounted(w, f, bits, sec)
    <3> HIDE DEF f
    <3> QED  BY <2>1, <2>3, Zenon DEF Accounted, NoLeakedBit
  <2>5. Give(w, s, f, bits, sec)
    BY <2>1
  <2> HIDE DEF w, f, bits, kept
  <2> QED  BY <1>1, <2>2, <2>4, <2>5, GiveLeaksNothing, Zenon
<1>3. CASE kept = {}
  <2>1. UNCHANGED <<sec, used, writer, reserve>>
    BY <1>3, Zenon DEF TryCompactionReserve
  <2>2. \A v \in Writers : Reserved(v)' = Reserved(v)
    BY <2>1 DEF Reserved
  <2> QED  BY <2>1, <2>2, StepLeaksNothing, Zenon
<1> QED  BY <1>2, <1>3, Zenon

\* flush_write_cache, fffs_delete, gc_step, power loss and the steps that only
\* move the call on: no bit is set of an erased sector.
LEMMA OtherStepsLeak ==
  ASSUME Safe, NoLeakedBit,
         \/ \E w \in Writers : Write(w)
         \/ \E r \in Roots, C \in SUBSET Conts : Delete(r, C)
         \/ GcStep
         \/ \E c \in Sectors : Restart(c)
         \/ UNCHANGED <<sec, used, reserve, writer>>
  PROVE  NoLeakedBit'
<1>1. sec \in [Sectors -> Sec] /\ used \subseteq Sectors
  BY SafeTypes
<1>2. ASSUME NEW w \in Writers, Write(w)
      PROVE  NoLeakedBit'
  <2>1. /\ sec' = [sec EXCEPT ![writer[w].cur].blank = FALSE, ![writer[w].cur].fit = "none"]
        /\ UNCHANGED <<used, reserve, writer>>
    BY <1>2 DEF Write
  <2>2. \A t \in Sectors : sec'[t].blank => sec[t].blank
    BY <1>1, <2>1 DEF Sec
  <2>3. \A v \in Writers : Reserved(v)' = Reserved(v)
    BY <2>1 DEF Reserved
  <2> QED  BY <1>1, <2>1, <2>2, <2>3, StepLeaksNothing, ZenonT(30)
<1>3. ASSUME NEW r \in Roots, NEW C \in SUBSET Conts, Delete(r, C)
      PROVE  NoLeakedBit'
  <2>1. /\ sec' = Invalidated(sec, r, C) /\ used' = used \ ({r} \cup C)
        /\ UNCHANGED <<reserve, writer>>
    BY <1>3, Zenon DEF Delete
  <2>2. \A t \in Sectors : sec'[t].blank = sec[t].blank
    BY <1>1, <2>1, Zenon DEF Invalidated, Sec
  <2>3. \A v \in Writers : Reserved(v)' = Reserved(v)
    BY <2>1 DEF Reserved
  <2> QED  BY <1>1, <2>1, <2>2, <2>3, StepLeaksNothing, Zenon
<1>4. ASSUME GcStep
      PROVE  NoLeakedBit'
  <2> DEFINE s == gcCursor
  <2>1. /\ s \in used \/ s \notin Garbage => sec' = sec
        /\ s \notin used /\ s \in Garbage => sec' = [sec EXCEPT ![s] = ErasedSector]
        /\ used' = used \/ (used' = used \cup {s} /\ NormalAllocFull(s))
        /\ UNCHANGED <<reserve, writer>>
    BY <1>4, Zenon DEF GcStep, Garbage
  <2>2. \A v \in Writers : Reserved(v)' = Reserved(v)
    BY <2>1 DEF Reserved
  <2>3. s \in Sectors /\ (NormalAllocFull(s) => s \notin Garbage /\ ~sec[s].blank)
    <3>1. s \in Sectors
      BY SafeTypes
    <3> QED  BY <3>1, LiveNotBlank, Zenon DEF NormalAllocFull, Garbage
  <2>4. \A t \in used' : sec'[t].blank => t \in used /\ sec[t].blank
    <3> HIDE DEF s
    <3> SUFFICES ASSUME NEW t \in used', sec'[t].blank
                 PROVE  t \in used /\ sec[t].blank
      OBVIOUS
    <3>1. CASE s \in used \/ s \notin Garbage
      BY <2>1, <2>3, <3>1, Zenon
    <3>2. CASE s \notin used /\ s \in Garbage
      <4>0. used' = used
        BY <2>1, <2>3, <3>2, Zenon
      <4>1. used' = used /\ t # s
        BY <3>2, <4>0
      <4>2. sec'[t] = sec[t]
        BY <1>1, <2>1, <3>2, <4>1, Zenon
      <4> QED  BY <4>1, <4>2
    <3> QED  BY <3>1, <3>2, Zenon
  <2> QED  BY <2>1, <2>2, <2>4, StepLeaksNothing, Zenon
<1>5. ASSUME NEW c \in Sectors, Restart(c)
      PROVE  NoLeakedBit'
  BY <1>5, Zenon DEF Restart, NoLeakedBit
<1>6. ASSUME UNCHANGED <<sec, used, reserve, writer>>
      PROVE  NoLeakedBit'
  <2>1. \A v \in Writers : Reserved(v)' = Reserved(v)
    BY <1>6 DEF Reserved
  <2> QED  BY <1>6, <2>1, StepLeaksNothing, Zenon
<1> QED  BY <1>2, <1>3, <1>4, <1>5, <1>6, Zenon

\* fffs_close marks sectors it has programmed and clears its reservation.
LEMMA CloseLeaks ==
  ASSUME Safe, NoLeakedBit, NEW w \in Writers, NEW low \in BOOLEAN, NEW r, NEW C, Close(w, low, r, C)
  PROVE  NoLeakedBit'
<1> DEFINE f == writer[w]
           last == LastRecords(f, low)
           marked == IF f.cur # f.head THEN used \cup {f.head, f.cur}
                     ELSE IF low THEN used \cup {f.cur} ELSE used
<1>1. /\ f.cur # 0 /\ sec' = Invalidated(last, r, C)
      /\ used' = (marked \ ({r} \cup C)) \ Reserved(w)
      /\ writer' = [writer EXCEPT ![w] = Closed] /\ UNCHANGED reserve
  BY Zenon DEF Close
<1>2. /\ last \in [Sectors -> Sec] /\ ~last[f.cur].blank /\ ~last[f.head].blank
      /\ \A t \in Sectors : t # f.cur /\ t # f.head => last[t] = sec[t]
  BY <1>1, LastSector, ZenonT(30)
<1>3. f.cur \in Sectors /\ f.head \in Sectors /\ used \subseteq Sectors
  BY <1>1, SafeTypes DEF Safe, Ranges
<1>4. \A t \in used' : (t \in used \/ t = f.cur \/ t = f.head) /\ t \notin Reserved(w)
  BY <1>1, ZenonT(30)
<1> HIDE DEF last, f
<1>5. \A t \in Sectors : sec'[t].blank = last[t].blank
  BY <1>1, <1>2, ZenonT(30) DEF Invalidated, Sec
<1>6. \A v \in Writers : v # w => Reserved(v)' = Reserved(v)
  BY <1>1, SafeTypes DEF Reserved
<1>7. \A t \in used' : sec'[t].blank => t \in used /\ sec[t].blank
  <2> SUFFICES ASSUME NEW t \in used', sec'[t].blank
               PROVE  t \in used /\ sec[t].blank
    OBVIOUS
  <2>1. t \in Sectors
    BY <1>3, <1>4, Zenon
  <2>2. last[t].blank
    BY <1>5, <2>1
  <2> QED  BY <1>2, <1>4, <2>1, <2>2, Zenon
<1> QED  BY <1>1, <1>4, <1>6, <1>7, StepLeaksNothing, Zenon

\* Every step leaks no bit.
LEMMA NextLeaksNothing == Safe /\ NoLeakedBit /\ [Next]_vars => NoLeakedBit'
<1> SUFFICES ASSUME Safe, NoLeakedBit, [Next]_vars
             PROVE  NoLeakedBit'
  OBVIOUS
<1>1. {0} \cup Roots \subseteq {0} \cup Sectors
  BY DEF Roots
<1>2. CASE \E w \in Writers : TryReservedSector(w)
  BY <1>2, TryReservedLeaks, Zenon
<1>3. CASE \E w \in Writers, old \in {0} \cup Roots : AllocSectorOnce(w, old)
  BY <1>1, <1>3, AllocOnceLeaks, Zenon
<1>4. CASE GcUntilErased
  BY <1>4, GcUntilErasedLeaks, Zenon
<1>5. CASE \E old \in {0} \cup Roots : TryCompactionReserve(old)
  BY <1>1, <1>5, TryCompactionReserveLeaks, Zenon
<1>6. CASE (\E s \in call.cands : CompactPick(s)) \/ CompactFail \/ NoSpace \/ UNCHANGED vars
  <2>1. UNCHANGED <<sec, used, reserve, writer>>
    BY <1>6, Zenon DEF CompactPick, CompactFail, NoSpace, vars
  <2> QED  BY <2>1, OtherStepsLeak, ZenonT(30)
<1>7. CASE \E small \in SUBSET {s \in Sectors : ~sec[s].blank /\ FreeWindow(s, FALSE)} :
              \E d \in Destinations(small), low \in BOOLEAN : CompactCopy(d, low)
  <2>1. PICK small \in SUBSET {s \in Sectors : ~sec[s].blank /\ FreeWindow(s, FALSE)} :
              \E d \in Destinations(small), low \in BOOLEAN : CompactCopy(d, low)
    BY <1>7, Zenon
  <2>2. Destinations(small) \subseteq Sectors
    BY SafeTypes, Zenon DEF Destinations, First
  <2> QED  BY <2>1, <2>2, CompactCopyLeaks, Zenon
<1>8. CASE CompactErase
  BY <1>8, CompactEraseLeaks, Zenon
<1>9. CASE \E w \in Writers, low \in BOOLEAN : Close(w, low, 0, {})
  BY <1>9, CloseLeaks, Zenon
<1>10. CASE \E w \in Writers, low \in BOOLEAN, r \in Roots, C \in SUBSET Conts : Close(w, low, r, C)
  BY <1>10, CloseLeaks, Zenon
<1>11. CASE \/ \E w \in Writers : Write(w)
            \/ \E r \in Roots, C \in SUBSET Conts : Delete(r, C)
            \/ GcStep
            \/ \E c \in Sectors : Restart(c)
  BY <1>11, OtherStepsLeak, Zenon
<1> QED
  BY <1>2, <1>3, <1>4, <1>5, <1>6, <1>7, <1>8, <1>9, <1>10, <1>11, Zenon DEF Next

\* Releasing, halving and consuming reservations, collection and compaction
\* never leave the map bit of an erased sector set with nobody to clear it.
THEOREM NoBitLeaks == Spec => []NoLeakedBit
<1>1. Init => NoLeakedBit
  BY DEF Init, NoLeakedBit
<1> QED
  BY InitSafe, NextSafe, NextLeaksNothing, <1>1, PTL DEF Spec

-----------------------------------------------------------------------------
(* FFFS_ERR_NO_SPACE. *)

\* While compaction is tried nothing is left to collect: a sector outside the
\* compaction reserve that is not being compacted has live records or a writer.
Exhausted ==
  call.step \in {"compact", "relaxed"} =>
     \A s \in Sectors : s \in reserve \/ s = call.src \/ Live(s) \/ \E w \in Writers : Given(w, s)

\* A step at whose end no compaction is under way.
LEMMA NotCompacting ==
  ASSUME call'.step \notin {"compact", "relaxed"}
  PROVE  Exhausted'
BY DEF Exhausted

\* A sector that is given ends the call.
LEMMA GiveEnds ==
  ASSUME NEW w, NEW s, NEW f, NEW bits, NEW base, Give(w, s, f, bits, base)
  PROVE  Exhausted'
<1>1. call' = Idle
  BY Zenon DEF Give
<1> QED  BY <1>1, NotCompacting DEF Idle

\* fffs_gc_until_erased goes on to compaction when it found nothing to collect.
LEMMA GcUntilErasedExhausts ==
  ASSUME Safe, GcUntilErased
  PROVE  Exhausted'
<1>1. CASE Garbage \ used # {} \/ Garbage # {}
  <2>1. \E s, bits, base : Give(call.w, s, writer[call.w], bits, base)
    BY <1>1, Zenon DEF GcUntilErased
  <2> QED  BY <2>1, GiveEnds, Zenon
<1>2. CASE Garbage \ used = {} /\ Garbage = {}
  <2>1. UNCHANGED <<sec, writer, reserve>>
    BY <1>2 DEF GcUntilErased
  <2>2. ASSUME NEW s \in Sectors
        PROVE  s \in reserve \/ Live(s) \/ \E w \in Writers : Given(w, s)
    BY <1>2, Zenon DEF Garbage, Scannable, OpenForWriting, Given
  <2>3. \A s \in Sectors : (Live(s)' <=> Live(s)) /\ \A w \in Writers : Given(w, s)' <=> Given(w, s)
    BY <2>1 DEF Live, Given, Holds
  <2> QED  BY <2>1, <2>2, <2>3, Zenon DEF Exhausted
<1> QED  BY <1>1, <1>2, Zenon

\* A candidate is taken up, or given up with a root still in it, or the reserve
\* has nothing for the caller: the sectors and the files stay as they are.
LEMMA CallStepExhausts ==
  ASSUME Safe, Exhausted, UNCHANGED <<sec, writer, reserve>>,
         call'.step \in {"compact", "relaxed"} => call.step \in {"compact", "relaxed"},
         call.src \in Sectors /\ call'.src # call.src => Live(call.src)
  PROVE  Exhausted'
<1>1. \A s \in Sectors : (Live(s)' <=> Live(s)) /\ \A w \in Writers : Given(w, s)' <=> Given(w, s)
  BY DEF Live, Given, Holds
<1> QED  BY <1>1, Zenon DEF Exhausted

\* gc_copy_root_record: the destination has a live root now.
LEMMA CompactCopyExhausts ==
  ASSUME Safe, Exhausted, NEW d \in Sectors, NEW low \in BOOLEAN, CompactCopy(d, low), d # call.src
  PROVE  Exhausted'
<1>1. /\ sec' = [sec EXCEPT ![call.src].roots = @ - 1, ![d] = Copied(@, low)]
      /\ reserve' = reserve \ {d} /\ UNCHANGED <<writer, call>>
  BY SMTT(30) DEF CompactCopy
<1>2. sec \in [Sectors -> Sec]
  BY SafeTypes, SMTT(30)
<1>3. Live(d)'
  <2>1. sec'[d].roots = sec[d].roots + 1
    BY <1>1, <1>2 DEF Copied, Sec
  <2> QED  BY <1>2, <2>1 DEF Live, Sec
<1>4. \A s \in Sectors : s # d /\ s # call.src => (Live(s)' <=> Live(s))
  BY <1>1, <1>2 DEF Live
<1>5. \A s \in Sectors, w \in Writers : Given(w, s)' <=> Given(w, s)
  BY <1>1 DEF Given, Holds
<1> QED  BY <1>1, <1>3, <1>4, <1>5, Zenon DEF Exhausted

\* Every step keeps it.
LEMMA NextExhausts == Safe /\ Exhausted /\ [Next]_vars => Exhausted'
<1> SUFFICES ASSUME Safe, Exhausted, [Next]_vars
             PROVE  Exhausted'
  OBVIOUS
<1>1. CASE \E w \in Writers : TryReservedSector(w)
  <2>1. (\E w, s, f, bits, base : Give(w, s, f, bits, base)) \/ call'.step = "once"
    BY <1>1, Zenon DEF TryReservedSector, Idle
  <2> QED  BY <2>1, GiveEnds, NotCompacting
<1>2. CASE \E w \in Writers, old \in {0} \cup Roots : AllocSectorOnce(w, old)
  <2>1. \/ \E w, s, f, bits, base : Give(w, s, f, bits, base)
        \/ \E w, bits : HalveReservations(w, bits)
        \/ call' = [call EXCEPT !.step = "gc"]
    BY <1>2, ZenonT(30) DEF AllocSectorOnce
  <2>2. ASSUME NEW w, NEW bits, HalveReservations(w, bits)
        PROVE  call'.step \in {"again", "gc"}
    BY <2>2, SafeTypes DEF HalveReservations
  <2>3. ASSUME call' = [call EXCEPT !.step = "gc"]
        PROVE  call'.step = "gc"
    BY <2>3, SafeTypes
  <2> QED  BY <2>1, <2>2, <2>3, GiveEnds, NotCompacting
<1>3. CASE GcUntilErased
  BY <1>3, GcUntilErasedExhausts, Zenon
<1>4. CASE \E old \in {0} \cup Roots : TryCompactionReserve(old)
  <2>1. \/ \E w, s, f, bits, base : Give(w, s, f, bits, base)
        \/ /\ call' = [call EXCEPT !.step = "relaxed", !.tried = {}]
           /\ call.step = "compact" /\ UNCHANGED <<sec, writer, reserve>>
    BY <1>4, ZenonT(30) DEF TryCompactionReserve
  <2>2. ASSUME call' = [call EXCEPT !.step = "relaxed", !.tried = {}]
        PROVE  call'.src = call.src
    BY <2>2, SafeTypes
  <2> QED  BY <2>1, <2>2, GiveEnds, CallStepExhausts
<1>5. CASE \E s \in call.cands : CompactPick(s)
  <2>1. PICK s \in call.cands : CompactPick(s)
    BY <1>5
  <2>2. /\ call.step \in {"compact", "relaxed"} /\ call.src = 0
        /\ UNCHANGED <<sec, reserve, writer>>
    BY <2>1 DEF CompactPick
  <2>3. call.src \notin Sectors
    BY <2>2 DEF Sectors
  <2> QED  BY <2>2, <2>3, CallStepExhausts, Zenon
<1>6. CASE CompactFail
  <2>1. /\ call' = [call EXCEPT !.src = 0] /\ sec[call.src].roots > 0
        /\ UNCHANGED <<sec, reserve, writer>>
    BY <1>6 DEF CompactFail
  <2>2. Live(call.src) /\ call'.step = call.step
    BY <2>1, SafeTypes DEF Live
  <2> QED  BY <2>1, <2>2, CallStepExhausts
<1>7. CASE \E small \in SUBSET {s \in Sectors : ~sec[s].blank /\ FreeWindow(s, FALSE)} :
              \E d \in Destinations(small), low \in BOOLEAN : CompactCopy(d, low)
  <2>0. PICK small \in SUBSET {s \in Sectors : ~sec[s].blank /\ FreeWindow(s, FALSE)} :
               \E d \in Destinations(small), low \in BOOLEAN : CompactCopy(d, low)
    BY <1>7, Zenon
  <2>1. PICK d \in Destinations(small), low \in BOOLEAN : CompactCopy(d, low)
    BY <2>0, Zenon
  <2>2. call.src \notin reserve
    BY <2>1, Zenon DEF CompactCopy, Safe, CallShape
  <2>3. d \in Sectors /\ d # call.src
    BY <2>2, SafeTypes, Zenon DEF Destinations, First
  <2> QED  BY <2>1, <2>3, CompactCopyExhausts, Zenon
<1>8. CASE CompactErase
  BY <1>8, GiveEnds, Zenon DEF CompactErase
<1>9. CASE NoSpace
  BY <1>9, NotCompacting DEF NoSpace, Idle
<1>10. CASE call.step = "idle" /\ UNCHANGED call
  BY <1>10, NotCompacting
<1>11. CASE UNCHANGED vars
  BY <1>11, CallStepExhausts DEF vars
<1> QED
  BY <1>1, <1>2, <1>3, <1>4, <1>5, <1>6, <1>7, <1>8, <1>9, <1>10, <1>11, ZenonT(30)
  DEF Next, Write, Close, Delete, GcStep, Restart

\* fffs_alloc_next_sector returns FFFS_ERR_NO_SPACE only when every sector
\* outside the compaction reserve is in use by a writer or has live records.
THEOREM NoSpaceOnlyWhenFull == Spec => []NoSpaceJustified
<1>1. Init => Exhausted
  BY DEF Init, Exhausted, Idle
<1>2. Exhausted => NoSpaceJustified
  BY DEF Exhausted, NoSpaceJustified, Sectors
<1> QED
  BY InitSafe, NextSafe, NextExhausts, <1>1, <1>2, PTL DEF Spec

=============================================================================
