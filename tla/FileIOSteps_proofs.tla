-------------------------- MODULE FileIOSteps_proofs --------------------------
(***************************************************************************)
(* Proofs about FileIO, first part: the inductive invariant, what the      *)
(* flush of the write cache does to it, and the steps of a reader.         *)
(***************************************************************************)
EXTENDS FileIO, SequenceTheorems, TLAPS

Cells == 0 .. (Window - 1)
ExtentRecords == [st : {"open", "live"}, root : BOOLEAN, data : Nat, len : Nat, off : Nat,
                  span : Nat, next : 0 .. N]
SectorsOf == [cell : [Cells -> Nat], rec : {NoRec} \cup ExtentRecords]
HandlesOf == [head : 0 .. N, cur : 0 .. N, data : Nat, at : Nat, md : Nat, len : Nat, off : Nat,
              dpos : Nat, span : 0 .. N, next : 0 .. N, cache : Seq(Nat), cpos : Nat]

\* What the variables range over, and which calls belong to which mode.
Ranges ==
    /\ mode \in {"none", "write", "shut", "read"}
    /\ pc \in {"idle", "write", "read", "seek", "hunt", "corrupt"}
    /\ pc = "write" => mode = "write"
    /\ pc \in {"read", "seek", "hunt", "corrupt"} => mode = "read"
    /\ size \in Nat /\ pos \in Nat
    /\ flash \in [Sectors -> SectorsOf]
    /\ f \in HandlesOf
    /\ todo \in [left : Nat, low : Nat, high : Nat, depth : Nat]
    /\ Len(f.cache) <= CacheSize

\* How many bytes of a recorded extent, or of the one a handle is in, are the
\* name and not data.
Skip(r) == IF r.root THEN Prefix ELSE 0
Lead(g) == IF g.cur = g.head THEN Prefix ELSE 0

\* Byte i of an extent with such a lead whose data starts at byte off of the file.
Byte(lead, off, i) == IF i < lead THEN NameByte ELSE off + i - lead + 1

Used(s) == flash[s].rec # NoRec
Rec(s) == flash[s].rec
EndOf(s) == Rec(s).off + Rec(s).len - Skip(Rec(s))
Succ(s) == IF Rec(s).span > 1 THEN s + 1 ELSE Rec(s).next

\* Extent t, or the one being written, begins where extent s ends.
Linked(s, t) ==
    /\ t \in Sectors /\ t # f.head
    /\ IF mode = "write" /\ t = f.cur THEN EndOf(s) = f.off
       ELSE Used(t) /\ Rec(t).off = EndOf(s)

\* An extent whose record has its link and its span.
Finished(s) ==
    /\ Rec(s).span >= 1
    /\ IF Succ(s) = 0 THEN mode # "write" /\ EndOf(s) = size ELSE Linked(s, Succ(s))
    /\ \A k \in 1 .. (Rec(s).span - 1) : s + k \in Sectors /\ s + k # f.head /\ Used(s + k)

\* Every record tells where its bytes are, and they are the file's.
ExtentKept(s) ==
    /\ Rec(s).data + Rec(s).len <= Window
    /\ Rec(s).root <=> s = f.head
    /\ Rec(s).root => Rec(s).off = 0 /\ Rec(s).len >= Prefix
    /\ \A i \in 0 .. (Rec(s).len - 1) :
          flash[s].cell[Rec(s).data + i] = Byte(Skip(Rec(s)), Rec(s).off, i)
Extents == \A s \in Sectors : Used(s) => ExtentKept(s)

\* Of an extent being written, whose bytes start in cell data, the cells up to at
\* are programmed, the rest of the bytes are in the cache, and there is room for
\* them in cells that are still erased, below the record at md.
Held(cell, cache, lead, off, len, data, at, md) ==
    /\ data <= at /\ data + lead + len <= md /\ md <= Window
    /\ at - data + Len(cache) = lead + len
    /\ \A i \in 0 .. (at - data - 1) : cell[data + i] = Byte(lead, off, i)
    /\ \A j \in 1 .. Len(cache) : cache[j] = Byte(lead, off, at - data + j - 1)
    /\ \A i \in at .. (md - 1) : cell[i] = Erased

\* The cell behind the bytes of the extent of g that are programmed.  The handle
\* goes on there, except when its last flush has padded a granule.
Reached(g) == g.data + Lead(g) + g.len - Len(g.cache)
Ahead(g) ==
    g.at = Reached(g) \/ (Len(g.cache) = 0 /\ Reached(g) <= g.at /\ g.at < Reached(g) + Granule)

\* The handle g is writing in flash x, sz bytes into the file.
Pending(x, g, sz) ==
    /\ Held(x[g.cur].cell, g.cache, Lead(g), g.off, g.len, g.data, Reached(g), g.md)
    /\ Ahead(g)
    /\ g.cur = g.head => g.off = 0
    /\ g.off + g.len = sz

\* The extents left: those of the span being written are there up to the
\* current sector, the others are finished.
Chain ==
    /\ f.head \in Sectors /\ f.cur \in Sectors /\ f.span \in Sectors /\ f.span <= f.cur
    /\ ~Used(f.cur) /\ (f.head # f.cur => Used(f.head))
    /\ \A s \in f.span .. (f.cur - 1) : Used(s) /\ Linked(s, s + 1)
    /\ \A s \in Sectors : Used(s) /\ s # f.span => Finished(s)

Writing ==
    /\ mode = "none" => /\ f = NoFile /\ \A s \in Sectors : ~Used(s)
    /\ mode \in {"none", "write"} =>
         \A s \in Sectors : ~Used(s) /\ s # f.cur => \A i \in Cells : flash[s].cell[i] = Erased
    /\ mode = "write" => Pending(flash, f, size) /\ Chain
    /\ \* Nothing more is written to an extent whose last flush was padded.
       mode = "write" /\ f.len < Capacity(f) => f.at = Reached(f)
    /\ mode # "read" => pos = 0
    /\ mode = "none" => size = 0
    /\ size <= MaxSize
    /\ pc = "write" => size + todo.left <= MaxSize

Closed ==
    mode \in {"shut", "read"} =>
        /\ f.head \in Sectors /\ Used(f.head)
        /\ \A s \in Sectors : Used(s) => Finished(s)

\* The sequence c is the bytes of the file behind byte number p.
Run(c, p) == \A i \in 1 .. Len(c) : c[i] = p + i

\* The cursor g of a reader of flash x is on an extent, and its cache is part of it.
On(x, g) ==
    /\ g.cur \in Sectors /\ x[g.cur].rec # NoRec
    /\ g.data = x[g.cur].rec.data + Skip(x[g.cur].rec)
    /\ g.len = x[g.cur].rec.len - Skip(x[g.cur].rec)
    /\ g.off = x[g.cur].rec.off /\ g.span = x[g.cur].rec.span /\ g.next = x[g.cur].rec.next
    /\ g.dpos <= g.len
    /\ g.cache # <<>> => g.cpos + Len(g.cache) <= g.len /\ Run(g.cache, g.off + g.cpos)

Reading ==
    mode = "read" =>
        /\ On(flash, f)
        /\ pos <= size
        /\ pc \in {"idle", "read"} => pos = f.off + f.dpos
        /\ pc = "read" => pos + todo.left <= size
        /\ pc \in {"seek", "hunt"} => f.off <= todo.left /\ todo.left <= size
        /\ pc = "hunt" => /\ f.off + f.len < todo.left
                          /\ 1 <= todo.low /\ todo.high < f.span

\* The fields of a handle that its mode does not use.
Fields ==
    /\ mode # "write" => f.at = 0
    /\ mode # "read" => f.dpos = 0
    /\ mode \in {"none", "shut"} => f.data = 0

\* The inductive invariant.
IInv == Ranges /\ Extents /\ Writing /\ Closed /\ Reading /\ Fields
-----------------------------------------------------------------------------
(* Sizes, minima and sequences. *)

\* The sizes of a build are positive.
LEMMA Sizes ==
  /\ N \in Nat \ {0} /\ Window \in Nat \ {0} /\ CacheSize \in Nat \ {0} /\ Granule \in Nat \ {0}
  /\ MaxSize \in Nat \ {0} /\ NameLen \in Nat \ {0} /\ Prefix \in Nat \ {0}
  /\ NameByte \in Nat /\ Foreign \in Nat /\ Erased = 0
BY FileIOAssumption DEF Prefix, NameByte, Foreign, Erased

\* The least of two numbers, and the greatest.
LEMMA MinOfTwo ==
  ASSUME NEW a \in Int, NEW b \in Int
  PROVE  /\ Min({a, b}) = IF a <= b THEN a ELSE b
         /\ Max({a, b}) = IF a >= b THEN a ELSE b
<1>1. PICK m \in {a, b} : \A y \in {a, b} : m <= y
  OBVIOUS
<1>2. Min({a, b}) \in {a, b} /\ \A y \in {a, b} : Min({a, b}) <= y
  BY <1>1 DEF Min
<1>3. PICK k \in {a, b} : \A y \in {a, b} : k >= y
  OBVIOUS
<1>4. Max({a, b}) \in {a, b} /\ \A y \in {a, b} : Max({a, b}) >= y
  BY <1>3 DEF Max
<1> QED  BY <1>2, <1>4

\* The least of three.
LEMMA MinOfThree ==
  ASSUME NEW a \in Int, NEW b \in Int, NEW c \in Int
  PROVE  /\ Min({a, b, c}) \in {a, b, c}
         /\ Min({a, b, c}) <= a /\ Min({a, b, c}) <= b /\ Min({a, b, c}) <= c
<1>1. PICK m \in {a, b, c} : \A y \in {a, b, c} : m <= y
  OBVIOUS
<1>2. Min({a, b, c}) \in {a, b, c} /\ \A y \in {a, b, c} : Min({a, b, c}) <= y
  BY <1>1 DEF Min
<1> QED  BY <1>2

\* A function on 1 .. n is a sequence of length n.
LEMMA FunctionIsSeq ==
  ASSUME NEW S, NEW n \in Nat, NEW s \in [1 .. n -> S]
  PROVE  s \in Seq(S) /\ Len(s) = n
OBVIOUS

\* Two sequences with the same elements are equal.
LEMMA SameSeq ==
  ASSUME NEW S, NEW s \in Seq(S), NEW t \in Seq(S), Len(s) = Len(t),
         \A i \in 1 .. Len(s) : s[i] = t[i]
  PROVE  s = t
OBVIOUS

\* What flush_write_cache programs and what it leaves in the cache.
LEMMA CacheSplit ==
  ASSUME NEW c \in Seq(Nat), NEW n \in 0 .. Len(c)
  PROVE  /\ SubSeq(c, 1, n) \in Seq(Nat) /\ Len(SubSeq(c, 1, n)) = n
         /\ \A i \in 1 .. n : SubSeq(c, 1, n)[i] = c[i]
         /\ Rest(c, n) \in Seq(Nat) /\ Len(Rest(c, n)) = Len(c) - n
         /\ \A i \in 1 .. (Len(c) - n) : Rest(c, n)[i] = c[n + i]
<1>1. /\ n \in Int /\ n + 1 \in Int /\ Len(c) \in Int
      /\ \A i \in 1 .. n : c[i] \in Nat
      /\ \A i \in (n + 1) .. Len(c) : c[i] \in Nat
  OBVIOUS
<1>2. /\ SubSeq(c, 1, n) \in Seq(Nat)
      /\ Len(SubSeq(c, 1, n)) = IF 1 <= n THEN n - 1 + 1 ELSE 0
      /\ \A i \in 1 .. (n - 1 + 1) : SubSeq(c, 1, n)[i] = c[1 + i - 1]
  BY <1>1, SubSeqProperties
<1>3. /\ Rest(c, n) \in Seq(Nat)
      /\ Len(Rest(c, n)) = IF n + 1 <= Len(c) THEN Len(c) - (n + 1) + 1 ELSE 0
      /\ \A i \in 1 .. (Len(c) - (n + 1) + 1) : Rest(c, n)[i] = c[n + 1 + i - 1]
  BY <1>1, SubSeqProperties DEF Rest
<1>4. Len(SubSeq(c, 1, n)) = n /\ Len(Rest(c, n)) = Len(c) - n
  BY <1>2, <1>3
<1>5. \A i \in 1 .. n : SubSeq(c, 1, n)[i] = c[i]
  BY <1>2
<1>6. \A i \in 1 .. (Len(c) - n) : Rest(c, n)[i] = c[n + i]
  BY <1>3
<1> QED  BY <1>2, <1>3, <1>4, <1>5, <1>6

\* Cells that are erased take the bytes programmed, the others keep theirs.
LEMMA ProgrammedCells ==
  ASSUME NEW cell \in [Cells -> Nat], NEW at \in Nat, NEW bytes \in Seq(Nat)
  PROVE  /\ Programmed(cell, at, bytes) \in [Cells -> Nat]
         /\ \A i \in Cells : i \notin at .. (at + Len(bytes) - 1) =>
               Programmed(cell, at, bytes)[i] = cell[i]
         /\ \A j \in 1 .. Len(bytes) : at + j - 1 \in Cells /\ cell[at + j - 1] = Erased =>
               Programmed(cell, at, bytes)[at + j - 1] = bytes[j]
<1>1. DOMAIN cell = Cells
  OBVIOUS
<1>2. \A i \in Cells : i \in at .. (at + Len(bytes) - 1) => i - at + 1 \in 1 .. Len(bytes)
  BY Sizes DEF Cells
<1>3. \A i \in Cells : i \in at .. (at + Len(bytes) - 1) => bytes[i - at + 1] \in Nat
  BY <1>2
<1>4. Programmed(cell, at, bytes) \in [Cells -> Nat]
  BY <1>1, <1>3, Sizes DEF Programmed
<1>5. ASSUME NEW j \in 1 .. Len(bytes), at + j - 1 \in Cells, cell[at + j - 1] = Erased
      PROVE  Programmed(cell, at, bytes)[at + j - 1] = bytes[j]
  <2>1. at + j - 1 \in at .. (at + Len(bytes) - 1) /\ at + j - 1 - at + 1 = j
    OBVIOUS
  <2> QED  BY <1>1, <1>5, <2>1 DEF Programmed
<1> QED  BY <1>1, <1>4, <1>5 DEF Programmed

-----------------------------------------------------------------------------
(* Writing. *)

\* The remainder of a number in granules.
LEMMA Granules ==
  ASSUME NEW n \in Nat
  PROVE  /\ n % Granule \in 0 .. (Granule - 1) /\ n \div Granule \in Nat
         /\ n = Granule * (n \div Granule) + (n % Granule)
         /\ Granule * (n \div Granule) \in Nat
<1>1. n % Granule \in 0 .. (Granule - 1) /\ n \div Granule \in Nat
  BY Sizes
<1>2. n = Granule * (n \div Granule) + (n % Granule)
  BY Sizes
<1>3. Granule * (n \div Granule) \in Nat
  BY <1>1, Sizes
<1> QED  BY <1>1, <1>2, <1>3

\* The padding of a cache is less than a granule.
LEMMA PaddedRange ==
  ASSUME NEW n \in Nat
  PROVE  Padded(n) \in Nat /\ n <= Padded(n) /\ Padded(n) < n + Granule
<1>1. PICK a \in Nat : a = n + Granule - 1
  BY Sizes
<1>2. PICK k \in Nat, r \in Nat : k = Granule * (a \div Granule) /\ a = k + r /\ r < Granule
  BY Granules, Sizes
<1>3. Padded(n) = k
  BY <1>1, <1>2, Zenon DEF Padded
<1>4. n <= k /\ k < n + Granule
  BY <1>1, <1>2, Sizes
<1> QED  BY <1>3, <1>4

\* A cache of whole granules has room for the padding.
LEMMA PaddingFits ==
  ASSUME CacheFits, NEW n \in Nat, n <= CacheSize
  PROVE  Padded(n) <= CacheSize
<1>1. PICK g \in Nat, c \in Nat : g = Granule /\ c = CacheSize /\ g > 0
  BY Sizes
<1>2. PICK k \in Nat : c = g * k
  <2>1. /\ c = g * (c \div g) + (c % g) /\ c \div g \in Nat /\ c % g = 0
        /\ g * (c \div g) \in Nat
    BY <1>1, Granules, Zenon DEF CacheFits
  <2>2. c = g * (c \div g)
    BY <2>1
  <2> QED  BY <2>1, <2>2, Zenon
<1>3. PICK a \in Nat : a = n + g - 1
  BY <1>1
<1>4. PICK q \in Nat : q = a \div g /\ g * q <= a
  <2>1. a % g \in Nat /\ a \div g \in Nat /\ a = g * (a \div g) + (a % g) /\ g * (a \div g) \in Nat
    BY <1>1, Granules
  <2>2. g * (a \div g) <= a
    BY <2>1
  <2> QED  BY <2>1, <2>2, Zenon
<1>5. Padded(n) = g * q
  BY <1>1, <1>3, <1>4, Zenon DEF Padded
<1>6. g * q < g * k + g
  BY <1>1, <1>2, <1>3, <1>4
<1>7. q <= k
  <2> SUFFICES ASSUME q > k
               PROVE  FALSE
    OBVIOUS
  <2>1. PICK d \in Nat : q = k + 1 + d
    OBVIOUS
  <2>2. g * q = g * k + g + g * d
    BY <2>1
  <2>3. g * d \in Nat
    OBVIOUS
  <2> QED  BY <1>6, <2>2, <2>3
<1>8. PICK d \in Nat : k = q + d
  BY <1>7
<1>9. g * k = g * q + g * d /\ g * d \in Nat /\ g * q \in Nat
  BY <1>8
<1>10. g * q <= g * k
  BY <1>9
<1> QED  BY <1>1, <1>2, <1>5, <1>10, Zenon

\* How much flush_write_cache programs: whole granules of what there is, or all
\* of it and padding.
LEMMA FlushedRange ==
  ASSUME NEW n \in Nat, NEW final \in BOOLEAN
  PROVE  /\ Flushed(n, final) \in Nat
         /\ ~final => Flushed(n, final) <= n
         /\ final => n <= Flushed(n, final) /\ Flushed(n, final) < n + Granule
<1>1. CASE final
  <2>1. Flushed(n, final) = Padded(n)
    BY <1>1 DEF Flushed
  <2> QED  BY <1>1, <2>1, PaddedRange, Zenon
<1>2. CASE ~final
  <2>1. Flushed(n, final) = n - (n % Granule)
    BY <1>2 DEF Flushed
  <2>2. PICK k \in Nat, r \in Nat : r = n % Granule /\ n = k + r
    BY Granules, Sizes
  <2> QED  BY <1>2, <2>1, <2>2
<1> QED  BY <1>1, <1>2

\* An empty cache has nothing to program.
LEMMA FlushedNone ==
  ASSUME NEW final \in BOOLEAN
  PROVE  Flushed(0, final) = 0
<1>1. CASE final
  <2>1. PICK a \in Nat : a = 0 + Granule - 1 /\ a < Granule
    BY Sizes
  <2>2. a \div Granule = 0
    <3>1. /\ a \div Granule \in Nat /\ a = Granule * (a \div Granule) + (a % Granule)
          /\ a % Granule \in Nat
      BY Granules, Sizes
    <3>2. PICK k \in Nat : k = a \div Granule /\ Granule * k <= a
      BY <3>1, Sizes
    <3>3. k = 0 \/ \E d \in Nat : k = d + 1
      OBVIOUS
    <3>4. ASSUME NEW d \in Nat, k = d + 1
          PROVE  FALSE
      <4>1. Granule * k = Granule * d + Granule /\ Granule * d \in Nat
        BY <3>4, Sizes
      <4> QED  BY <2>1, <3>2, <4>1, Sizes
    <3> QED  BY <3>2, <3>3, <3>4, Zenon
  <2>3. Granule * 0 = 0
    BY Sizes
  <2> QED  BY <1>1, <2>1, <2>2, <2>3, Zenon DEF Flushed, Padded
<1>2. CASE ~final
  <2>1. PICK k \in Nat, r \in Nat : r = 0 % Granule /\ 0 = k + r
    BY Granules, Sizes
  <2>2. 0 - (0 % Granule) = 0
    BY <2>1
  <2> QED  BY <1>2, <2>2, Zenon DEF Flushed
<1> QED  BY <1>1, <1>2

\* The length of the name or nothing.
LEMMA LeadIsNat ==
  ASSUME NEW g
  PROVE  Lead(g) \in Nat
<1>1. Prefix \in Nat /\ 0 \in Nat
  BY Sizes
<1> QED  BY <1>1, Zenon DEF Lead

\* Programming the first n bytes of the cache loses none.
LEMMA HeldProgrammed ==
  ASSUME NEW cell \in [Cells -> Nat], NEW cache \in Seq(Nat), NEW lead \in Nat, NEW off \in Nat,
         NEW len \in Nat, NEW data \in Nat, NEW at \in Nat, NEW md \in Nat,
         Held(cell, cache, lead, off, len, data, at, md), NEW n \in Nat, n <= Len(cache)
  PROVE  /\ Held(Programmed(cell, at, SubSeq(cache, 1, n)), Rest(cache, n),
                 lead, off, len, data, at + n, md)
         /\ at + n <= md
<1>1. PICK L \in Nat : L = Len(cache)
  OBVIOUS
<1>2. /\ data <= at /\ data + lead + len <= md /\ md <= Window
      /\ at - data + L = lead + len /\ n <= L
  BY <1>1 DEF Held
<1>3. at + n <= md
  BY <1>2
<1> DEFINE b == SubSeq(cache, 1, n)
           r == Rest(cache, n)
           q == Programmed(cell, at, b)
<1>0. n \in 0 .. Len(cache)
  BY <1>1, <1>2
<1>4. /\ b \in Seq(Nat) /\ Len(b) = n /\ \A i \in 1 .. n : b[i] = cache[i]
      /\ r \in Seq(Nat) /\ \A i \in 1 .. (Len(cache) - n) : r[i] = cache[n + i]
      /\ Len(r) = Len(cache) - n
  BY <1>0, CacheSplit, Zenon
<1> HIDE DEF b, r
<1>5. Len(r) = L - n
  BY <1>1, <1>4
<1>6. /\ \A i \in Cells : i \notin at .. (at + n - 1) => q[i] = cell[i]
      /\ \A j \in 1 .. n : at + j - 1 \in Cells /\ cell[at + j - 1] = Erased =>
             q[at + j - 1] = b[j]
  <2>1. /\ \A i \in Cells : i \notin at .. (at + Len(b) - 1) => q[i] = cell[i]
        /\ \A j \in 1 .. Len(b) : at + j - 1 \in Cells /\ cell[at + j - 1] = Erased =>
               q[at + j - 1] = b[j]
    BY <1>4, ProgrammedCells, ZenonT(40)
  <2> QED  BY <1>4, <2>1, Zenon
<1> HIDE DEF q
<1>7. ASSUME NEW i \in 0 .. (at + n - data - 1)
      PROVE  q[data + i] = Byte(lead, off, i)
  <2>1. data + i \in Cells
    BY <1>2, <1>3, Sizes DEF Cells
  <2>2. CASE i < at - data
    <3>1. i \in 0 .. (at - data - 1) /\ data + i \notin at .. (at + n - 1)
      BY <2>2
    <3>2. cell[data + i] = Byte(lead, off, i)
      BY <3>1 DEF Held
    <3> QED  BY <1>6, <2>1, <3>1, <3>2
  <2>3. CASE i >= at - data
    <3>1. PICK j \in 1 .. n : j = i - (at - data) + 1
      BY <1>2, <2>3
    <3>2. at + j - 1 = data + i /\ j \in 1 .. Len(cache)
          /\ at - data + j - 1 = i /\ data + i \in at .. (md - 1)
      BY <1>1, <1>2, <1>3, <2>3, <3>1
    <3>3. cell[data + i] = Erased
      BY <3>2 DEF Held
    <3>4. cache[j] = Byte(lead, off, i)
      BY <3>2 DEF Held
    <3>5. q[data + i] = b[j]
      BY <1>6, <2>1, <3>2, <3>3
    <3> QED  BY <1>4, <3>4, <3>5
  <2> QED  BY <1>2, <2>2, <2>3
<1>8. ASSUME NEW j \in 1 .. Len(r)
      PROVE  r[j] = Byte(lead, off, at + n - data + j - 1)
  <2>1. n + j \in 1 .. Len(cache) /\ j \in 1 .. (L - n)
        /\ at - data + (n + j) - 1 = at + n - data + j - 1
    BY <1>1, <1>2, <1>5
  <2>2. cache[n + j] = Byte(lead, off, at - data + (n + j) - 1)
    BY <2>1 DEF Held
  <2> QED  BY <1>4, <2>1, <2>2
<1>9. ASSUME NEW i \in (at + n) .. (md - 1)
      PROVE  q[i] = Erased
  <2>1. i \in at .. (md - 1) /\ i \in Cells /\ i \notin at .. (at + n - 1)
    BY <1>2, Sizes DEF Cells
  <2>2. cell[i] = Erased
    BY <2>1 DEF Held
  <2> QED  BY <1>6, <2>1, <2>2
<1>10. data <= at + n /\ at + n - data + Len(r) = lead + len
  BY <1>2, <1>5
<1>11. Held(q, r, lead, off, len, data, at + n, md)
  BY <1>2, <1>7, <1>8, <1>9, <1>10 DEF Held
<1> QED  BY <1>3, <1>11 DEF q, r, b

\* The n bytes a file of sz bytes gets next.
Fresh(sz, n) == [i \in 1 .. n |-> sz + i]

\* They are held as well.
FreshHeld(cell, cache, lead, off, len, data, at, md, n, sz) ==
    /\ cache \o Fresh(sz, n) \in Seq(Nat)
    /\ Len(cache \o Fresh(sz, n)) = Len(cache) + n
    /\ Held(cell, cache \o Fresh(sz, n), lead, off, len + n, data, at, md)

\* Bytes that fit in the extent can be put in the cache.
LEMMA HeldAppended ==
  ASSUME NEW cell \in [Cells -> Nat], NEW cache \in Seq(Nat), NEW lead \in Nat, NEW off \in Nat,
         NEW len \in Nat, NEW data \in Nat, NEW at \in Nat, NEW md \in Nat,
         Held(cell, cache, lead, off, len, data, at, md), NEW n \in Nat,
         data + lead + len + n <= md, NEW sz \in Nat, sz = off + len
  PROVE  FreshHeld(cell, cache, lead, off, len, data, at, md, n, sz)
<1> DEFINE b == Fresh(sz, n)
           r == cache \o b
<1>1. PICK L \in Nat : L = Len(cache)
  OBVIOUS
<1>2. /\ data <= at /\ data + lead + len <= md /\ md <= Window
      /\ at - data + L = lead + len
  BY <1>1 DEF Held
<1>3. b \in [1 .. n -> Nat] /\ \A i \in 1 .. n : b[i] = sz + i
  BY DEF Fresh
<1> HIDE DEF b
<1>4. b \in Seq(Nat) /\ Len(b) = n
  BY <1>3, FunctionIsSeq
<1>5. /\ r \in Seq(Nat) /\ Len(r) = L + n
      /\ \A j \in 1 .. (L + n) : r[j] = IF j <= L THEN cache[j] ELSE b[j - L]
  BY <1>1, <1>4, ConcatProperties
<1> HIDE DEF r
<1>6. ASSUME NEW j \in 1 .. Len(r)
      PROVE  r[j] = Byte(lead, off, at - data + j - 1)
  <2>1. CASE j <= L
    <3>1. cache[j] = Byte(lead, off, at - data + j - 1)
      BY <1>1, <2>1 DEF Held
    <3> QED  BY <1>5, <2>1, <3>1
  <2>2. CASE j > L
    <3>1. j - L \in 1 .. n
      BY <1>5, <2>2
    <3>2. r[j] = sz + (j - L)
      BY <1>3, <1>5, <2>2, <3>1
    <3>3. ~(at - data + j - 1 < lead) /\ off + (at - data + j - 1) - lead + 1 = sz + (j - L)
      BY <1>2, <2>2
    <3> QED  BY <3>2, <3>3 DEF Byte
  <2> QED  BY <2>1, <2>2
<1>7. data + lead + (len + n) <= md /\ at - data + Len(r) = lead + (len + n)
  BY <1>2, <1>5
<1>8. Held(cell, r, lead, off, len + n, data, at, md)
  BY <1>2, <1>6, <1>7 DEF Held
<1> QED  BY <1>1, <1>5, <1>8, Zenon DEF r, b, FreshHeld

\* A handle after a flush, and the sectors after cells of one were programmed.
FileAfter(g, a, k) == [g EXCEPT !.at = a, !.cache = k]
FlashAfter(x, s, q) == [x EXCEPT ![s].cell = q]

\* The fields of such a handle h.
FileAfterIs(h, g, a, k) ==
    /\ h \in HandlesOf /\ h.at = a /\ h.cache = k
    /\ h.head = g.head /\ h.cur = g.cur /\ h.data = g.data /\ h.md = g.md /\ h.len = g.len
    /\ h.off = g.off /\ h.dpos = g.dpos /\ h.span = g.span /\ h.next = g.next
    /\ h.cpos = g.cpos

\* A flush changes no other field.
LEMMA FileAfterFields ==
  ASSUME NEW g \in HandlesOf, NEW a \in Nat, NEW k \in Seq(Nat)
  PROVE  FileAfterIs(FileAfter(g, a, k), g, a, k)
BY ZenonT(30) DEF HandlesOf, FileAfter, FileAfterIs

\* The sectors when cells of one have been programmed.
LEMMA ProgrammedFields ==
  ASSUME NEW x \in [Sectors -> SectorsOf], NEW s \in Sectors, NEW q \in [Cells -> Nat], NEW y,
         y = FlashAfter(x, s, q)
  PROVE  /\ y \in [Sectors -> SectorsOf] /\ y[s].cell = q
         /\ \A t \in Sectors : y[t].rec = x[t].rec /\ (t # s => y[t] = x[t])
BY DEF SectorsOf, FlashAfter

\* The handle h and the sectors y after a flush of the cache of g in the sectors x.
FlushedTo(x, g, sz, y, h) ==
    /\ h \in HandlesOf /\ y \in [Sectors -> SectorsOf] /\ Pending(y, h, sz)
    /\ Len(h.cache) <= Len(g.cache)
    /\ h.head = g.head /\ h.cur = g.cur /\ h.data = g.data /\ h.md = g.md /\ h.len = g.len
    /\ h.off = g.off /\ h.dpos = g.dpos /\ h.span = g.span /\ h.next = g.next
    /\ h.cpos = g.cpos
    /\ \A s \in Sectors : y[s].rec = x[s].rec /\ (s # g.cur => y[s] = x[s])

\* Programming nothing changes no cell.
LEMMA NothingProgrammed ==
  ASSUME NEW cell \in [Cells -> Nat], NEW at \in Nat, NEW c \in Seq(Nat), Len(c) = 0
  PROVE  Programmed(cell, at, c) = cell
<1>1. Programmed(cell, at, c) \in [Cells -> Nat]
  BY ProgrammedCells, Zenon
<1>2. \A i \in Cells : i \notin at .. (at + Len(c) - 1)
  OBVIOUS
<1>3. \A i \in Cells : i \notin at .. (at + Len(c) - 1) => Programmed(cell, at, c)[i] = cell[i]
  BY ProgrammedCells, Zenon
<1>4. \A i \in Cells : Programmed(cell, at, c)[i] = cell[i]
  BY <1>2, <1>3, Zenon
<1> QED  BY <1>1, <1>4

\* What is left in the cache when it is programmed to its end and padded.
LEMMA RestOfAll ==
  ASSUME NEW c \in Seq(Nat), NEW n \in Nat, Len(c) <= n
  PROVE  Rest(c, n) = Rest(c, Len(c))
<1>1. Rest(c, n) = <<>> /\ Rest(c, Len(c)) = <<>>
  BY DEF Rest
<1> QED  BY <1>1

\* flush_write_cache, of the whole cache or of whole granules: the handle goes on
\* with what is not programmed, and only cells of its sector change.
LEMMA FlushKeeps ==
  ASSUME NEW x \in [Sectors -> SectorsOf], NEW g \in HandlesOf, g.cur \in Sectors,
         NEW sz \in Nat, Pending(x, g, sz), NEW final \in BOOLEAN
  PROVE  /\ FlushedTo(x, g, sz, FlushFlash(x, g, final), FlushFile(g, final))
         /\ final => Len(FlushFile(g, final).cache) = 0
         /\ ~final /\ g.at = Reached(g) => FlushFile(g, final).at = Reached(FlushFile(g, final))
<1> DEFINE h == FlushFile(g, final)
           y == FlushFlash(x, g, final)
<1> DEFINE cell == x[g.cur].cell
<1>1. g.cache \in Seq(Nat) /\ Len(g.cache) \in Nat
  BY DEF HandlesOf
<1>2. /\ g.off \in Nat /\ g.len \in Nat /\ g.data \in Nat /\ g.at \in Nat /\ g.md \in Nat
      /\ Lead(g) \in Nat /\ cell \in [Cells -> Nat]
  BY Sizes, SMTT(30) DEF HandlesOf, SectorsOf, Lead
<1>3. PICK L \in Nat, n \in Nat : L = Len(g.cache) /\ n = Flushed(L, final)
  BY <1>1, FlushedRange, Zenon
<1>4. /\ ~final => n <= L
      /\ final => L <= n /\ n < L + Granule
      /\ L = 0 => n = 0
  BY <1>3, FlushedRange, FlushedNone, ZenonT(30)
<1>5. PICK m \in Nat : m = Min({n, L}) /\ m = IF n <= L THEN n ELSE L
  <2>1. Min({n, L}) = IF n <= L THEN n ELSE L
    BY MinOfTwo
  <2> QED  BY <2>1
<1>6. /\ m <= L /\ (final => m = L) /\ (~final => m = n)
  BY <1>4, <1>5
<1>7. PICK e \in Nat : /\ e = Reached(g) /\ e = g.data + Lead(g) + g.len - L
                       /\ g.at = e \/ (L = 0 /\ e <= g.at /\ g.at < e + Granule)
  <2>1. Held(cell, g.cache, Lead(g), g.off, g.len, g.data, Reached(g), g.md) /\ Ahead(g)
    BY Zenon DEF Pending
  <2>2. PICK d \in Nat, l \in Nat, k \in Nat : d = g.data /\ l = Lead(g) /\ k = g.len
    BY <1>2, Zenon
  <2>3. PICK e \in Int : e = d + l + k - L
    OBVIOUS
  <2>4. Reached(g) = e
    BY <1>3, <2>2, <2>3, Zenon DEF Reached
  <2>5. d <= e
    BY <2>1, <2>2, <2>4, Zenon DEF Held
  <2>6. e \in Nat
    BY <2>5
  <2>7. g.at = e \/ (L = 0 /\ e <= g.at /\ g.at < e + Granule)
    BY <1>3, <2>1, <2>4, Zenon DEF Ahead
  <2> QED  BY <2>2, <2>3, <2>4, <2>6, <2>7, Zenon
<1> DEFINE r == Rest(g.cache, m)
           q == Programmed(cell, e, SubSeq(g.cache, 1, m))
<1>8. /\ SubSeq(g.cache, 1, m) \in Seq(Nat) /\ Len(SubSeq(g.cache, 1, m)) = m
      /\ r \in Seq(Nat) /\ Len(r) = L - m
  <2>1. m \in 0 .. Len(g.cache)
    BY <1>3, <1>6
  <2> QED  BY <1>1, <1>3, <2>1, CacheSplit, Zenon
<1>9. q \in [Cells -> Nat]
  BY <1>2, <1>8, ProgrammedCells, Zenon
<1>10. Held(q, r, Lead(g), g.off, g.len, g.data, e + m, g.md)
  <2>1. Held(cell, g.cache, Lead(g), g.off, g.len, g.data, e, g.md)
    BY <1>7, Zenon DEF Pending
  <2>2. m <= Len(g.cache)
    BY <1>3, <1>6, Zenon
  <2> HIDE DEF cell
  <2> QED  BY <1>1, <1>2, <2>1, <2>2, HeldProgrammed, Zenon
<1>11. Programmed(cell, g.at, SubSeq(g.cache, 1, m)) = q
  <2>1. CASE g.at = e
    BY <2>1, Zenon
  <2>2. CASE L = 0
    <3>1. m = 0
      BY <1>6, <2>2
    <3>2. Len(SubSeq(g.cache, 1, m)) = 0
      BY <1>8, <3>1, Zenon
    <3> HIDE DEF cell
    <3>3. Programmed(cell, g.at, SubSeq(g.cache, 1, m)) = cell /\ q = cell
      BY <1>2, <1>8, <3>2, NothingProgrammed, Zenon
    <3> QED  BY <3>3, Zenon
  <2> QED  BY <1>7, <2>1, <2>2, Zenon
<1>12. Rest(g.cache, n) = r
  <2>1. CASE final
    <3>1. Len(g.cache) <= n /\ m = Len(g.cache)
      BY <1>3, <1>4, <1>6, <2>1, Zenon
    <3> QED  BY <1>1, <3>1, RestOfAll, Zenon
  <2>2. CASE ~final
    BY <1>6, <2>2, Zenon
  <2> QED  BY <2>1, <2>2, Zenon
<1>13. h = FileAfter(g, g.at + n, r) /\ y = FlashAfter(x, g.cur, q)
  <2>1. h = FileAfter(g, g.at + n, Rest(g.cache, n))
    BY <1>3, Zenon DEF FlushFile, FileAfter
  <2>2. y = FlashAfter(x, g.cur, Programmed(cell, g.at, SubSeq(g.cache, 1, m)))
    BY <1>3, <1>5, Zenon DEF FlushFlash, FlashAfter
  <2> HIDE DEF r, q, cell, h, y
  <2> QED  BY <1>11, <1>12, <2>1, <2>2, Zenon
<1> HIDE DEF r, q, cell, h, y
<1>14. PICK a \in Nat : a = g.at + n
  BY <1>2
<1>15. /\ h \in HandlesOf /\ h.at = a /\ h.cache = r
       /\ h.head = g.head /\ h.cur = g.cur /\ h.data = g.data /\ h.md = g.md /\ h.len = g.len
       /\ h.off = g.off /\ h.dpos = g.dpos /\ h.span = g.span /\ h.next = g.next
       /\ h.cpos = g.cpos
  <2>1. h = FileAfter(g, a, r)
    BY <1>13, <1>14, Zenon
  <2>2. r \in Seq(Nat)
    BY <1>8, Zenon
  <2>3. FileAfterIs(FileAfter(g, a, r), g, a, r)
    BY <2>2, FileAfterFields, Zenon
  <2> QED  BY <2>1, <2>3, Zenon DEF FileAfterIs
<1>16. /\ y \in [Sectors -> SectorsOf] /\ y[g.cur].cell = q
       /\ \A t \in Sectors : y[t].rec = x[t].rec /\ (t # g.cur => y[t] = x[t])
  BY <1>9, <1>13, ProgrammedFields
<1>17. Len(h.cache) = L - m /\ Len(h.cache) <= Len(g.cache) /\ (m = L => Len(h.cache) = 0)
  BY <1>3, <1>6, <1>8, <1>15
<1>18. Lead(h) = Lead(g)
  BY <1>15, Zenon DEF Lead
<1>19. Reached(h) = e + m
  <2>1. Reached(h) = g.data + Lead(g) + g.len - (L - m)
    BY <1>15, <1>17, <1>18, Zenon DEF Reached
  <2> QED  BY <1>2, <1>7, <2>1
<1>20. ~final /\ g.at = e => h.at = e + m
  BY <1>6, <1>14, <1>15, Zenon
<1>21. Ahead(h)
  <2>1. h.at = e + m \/ (Len(h.cache) = 0 /\ e + m <= h.at /\ h.at < e + m + Granule)
    <3>1. CASE g.at = e /\ ~final
      BY <1>20, <3>1
    <3>2. CASE g.at = e /\ final
      <4>1. e + L <= e + n /\ e + n < e + L + Granule /\ m = L
        BY <1>4, <1>6, <3>2, Sizes
      <4> QED  BY <1>14, <1>15, <1>17, <3>2, <4>1, Zenon
    <3>3. CASE L = 0 /\ e <= g.at /\ g.at < e + Granule
      <4>1. n = 0 /\ m = 0
        BY <1>4, <1>6, <3>3
      <4>2. a = g.at /\ e + m = e /\ Len(h.cache) = 0
        BY <1>2, <1>14, <1>17, <3>3, <4>1
      <4> QED  BY <1>15, <3>3, <4>2, Zenon
    <3> QED  BY <1>7, <3>1, <3>2, <3>3, Zenon
  <2> QED  BY <1>19, <2>1, Zenon DEF Ahead
<1>22. Pending(y, h, sz)
  <2>1. Held(y[h.cur].cell, h.cache, Lead(h), h.off, h.len, h.data, Reached(h), h.md)
    BY <1>10, <1>15, <1>16, <1>18, <1>19, Zenon
  <2>2. (g.cur = g.head => g.off = 0) /\ g.off + g.len = sz
    BY Zenon DEF Pending
  <2> QED  BY <1>15, <1>21, <2>1, <2>2, Zenon DEF Pending
<1>23. FlushedTo(x, g, sz, y, h)
  BY <1>15, <1>16, <1>17, <1>22, Zenon DEF FlushedTo
<1> QED  BY <1>6, <1>7, <1>17, <1>19, <1>20, <1>23, Zenon DEF h, y

-----------------------------------------------------------------------------
(* The cursor of a reader. *)

\* The fields of a record of an extent.
LEMMA RecordTyped ==
  ASSUME Ranges, NEW s \in Sectors, Used(s)
  PROVE  /\ Rec(s) \in ExtentRecords
         /\ Rec(s).data \in Nat /\ Rec(s).len \in Nat /\ Rec(s).off \in Nat
         /\ Rec(s).span \in Nat /\ Rec(s).next \in 0 .. N /\ Rec(s).root \in BOOLEAN
         /\ flash[s].cell \in [Cells -> Nat]
         /\ Skip(Rec(s)) \in Nat /\ Skip(Rec(s)) = (IF Rec(s).root THEN Prefix ELSE 0)
<1>1. /\ Rec(s) \in ExtentRecords /\ flash[s].cell \in [Cells -> Nat]
  BY DEF Ranges, Used, Rec, SectorsOf
<1>2. /\ Rec(s).data \in Nat /\ Rec(s).len \in Nat /\ Rec(s).off \in Nat
      /\ Rec(s).span \in Nat /\ Rec(s).next \in 0 .. N /\ Rec(s).root \in BOOLEAN
  BY <1>1 DEF ExtentRecords
<1>3. Skip(Rec(s)) \in Nat /\ Skip(Rec(s)) = (IF Rec(s).root THEN Prefix ELSE 0)
  BY Sizes DEF Skip
<1> QED  BY <1>1, <1>2, <1>3, Zenon

\* What the record of an extent of a closed file says.
LEMMA ClosedExtent ==
  ASSUME IInv, mode \in {"shut", "read"}, NEW s \in Sectors, Used(s)
  PROVE  /\ Rec(s).span \in 1 .. N
         /\ Skip(Rec(s)) <= Rec(s).len /\ Rec(s).data + Rec(s).len <= Window
         /\ Rec(s).root <=> s = f.head
         /\ Succ(s) = 0 => EndOf(s) = size
         /\ Succ(s) # 0 => /\ Succ(s) \in Sectors /\ Succ(s) # f.head /\ Used(Succ(s))
                           /\ Rec(Succ(s)).off = EndOf(s)
         /\ \A k \in 1 .. (Rec(s).span - 1) : s + k \in Sectors /\ s + k # f.head /\ Used(s + k)
<1>1. /\ Rec(s).data \in Nat /\ Rec(s).len \in Nat /\ Rec(s).off \in Nat
      /\ Rec(s).span \in Nat /\ Rec(s).root \in BOOLEAN
      /\ Skip(Rec(s)) = (IF Rec(s).root THEN Prefix ELSE 0)
  BY RecordTyped DEF IInv
<1>2. Finished(s) /\ ExtentKept(s)
  BY Zenon DEF IInv, Closed, Extents
<1>3. \A k \in 1 .. (Rec(s).span - 1) : s + k \in Sectors /\ s + k # f.head /\ Used(s + k)
  BY <1>2, Zenon DEF Finished
<1>4. Rec(s).span >= 1
  BY <1>2, Zenon DEF Finished
<1>5. Rec(s).span \in 1 .. N
  <2>1. PICK m \in Nat : m = Rec(s).span
    BY <1>1, Zenon
  <2>2. m >= 1
    BY <1>4, <2>1
  <2>3. CASE m = 1
    BY <2>1, <2>3, Sizes
  <2>4. CASE m > 1
    <3>1. m - 1 \in 1 .. (m - 1)
      BY <2>4
    <3>2. s + (m - 1) \in Sectors
      BY <1>3, <2>1, <3>1
    <3> QED  BY <2>1, <2>2, <3>2, Sizes DEF Sectors
  <2> QED  BY <2>2, <2>3, <2>4
<1>6. /\ Rec(s).data + Rec(s).len <= Window
      /\ Rec(s).root <=> s = f.head
      /\ Rec(s).root => Rec(s).len >= Prefix
  BY <1>2, Zenon DEF ExtentKept
<1>7. Skip(Rec(s)) <= Rec(s).len
  BY <1>1, <1>6
<1>8. /\ Succ(s) = 0 => EndOf(s) = size
      /\ Succ(s) # 0 => Linked(s, Succ(s))
  BY <1>2, Zenon DEF Finished
<1>9. mode # "write"
  BY Zenon
<1>10. Succ(s) # 0 => /\ Succ(s) \in Sectors /\ Succ(s) # f.head /\ Used(Succ(s))
                      /\ Rec(Succ(s)).off = EndOf(s)
  BY <1>8, <1>9, Zenon DEF Linked
<1> QED  BY <1>3, <1>5, <1>6, <1>7, <1>8, <1>10, Zenon

\* The data bytes of an extent are the file's at its offset.
LEMMA DataBytes ==
  ASSUME IInv, mode \in {"shut", "read"}, NEW g \in HandlesOf, On(flash, g),
         NEW d \in Nat, NEW n \in Nat, d + n <= g.len
  PROVE  /\ DataAt(g, d, n) \in Seq(Nat) /\ Len(DataAt(g, d, n)) = n
         /\ Run(DataAt(g, d, n), g.off + d)
<1> DEFINE s == g.cur
           r == Rec(s)
<1>1. s \in Sectors /\ Used(s)
  BY Zenon DEF On, Used
<1>2. /\ g.data = r.data + Skip(r) /\ g.len = r.len - Skip(r) /\ g.off = r.off
  BY Zenon DEF On, Rec
<1>3. ExtentKept(s) /\ Ranges
  BY <1>1, Zenon DEF IInv, Extents
<1>4. /\ r.data \in Nat /\ r.len \in Nat /\ r.off \in Nat /\ Skip(r) \in Nat
  BY <1>1, <1>3, RecordTyped, Zenon
<1>5. \A i \in 0 .. (r.len - 1) : flash[s].cell[r.data + i] = Byte(Skip(r), r.off, i)
  BY <1>3, Zenon DEF ExtentKept
<1>6. PICK D \in Nat, L \in Nat, O \in Nat, K \in Nat :
        D = r.data /\ L = r.len /\ O = r.off /\ K = Skip(r)
  BY <1>4, Zenon
<1>7. \A i \in 0 .. (L - 1) : flash[s].cell[D + i] = Byte(K, O, i)
  BY <1>5, <1>6, Zenon
<1>8. g.data = D + K /\ g.len = L - K /\ g.off = O
  BY <1>2, <1>6, Zenon
<1> HIDE DEF s, r
<1>9. ASSUME NEW i \in 1 .. n
      PROVE  flash[s].cell[g.data + d + i - 1] = g.off + d + i
  <2>1. PICK j \in Nat : j = K + d + i - 1
    OBVIOUS
  <2>2. j \in 0 .. (L - 1) /\ g.data + d + i - 1 = D + j
    BY <1>8, <2>1
  <2>3. flash[s].cell[D + j] = Byte(K, O, j)
    BY <1>7, <2>2
  <2>4. Byte(K, O, j) = O + d + i
    BY <2>1 DEF Byte
  <2> QED  BY <1>8, <2>2, <2>3, <2>4
<1>10. DataAt(g, d, n) = [i \in 1 .. n |-> g.off + d + i]
  BY <1>9 DEF DataAt, s
<1>11. [i \in 1 .. n |-> g.off + d + i] \in [1 .. n -> Nat]
  BY <1>8
<1>12. DataAt(g, d, n) \in Seq(Nat) /\ Len(DataAt(g, d, n)) = n
  BY <1>10, <1>11, FunctionIsSeq
<1>13. \A i \in 1 .. n : DataAt(g, d, n)[i] = g.off + d + i
  BY <1>10, Zenon
<1> QED  BY <1>12, <1>13, Zenon DEF Run

\* The cursor put at the start of the data of extent s, with nothing cached.
Placed(s, cpos) ==
    [f EXCEPT !.cur = s, !.data = Rec(s).data + Skip(Rec(s)), !.len = Rec(s).len - Skip(Rec(s)),
              !.off = Rec(s).off, !.dpos = 0, !.span = Rec(s).span, !.next = Rec(s).next,
              !.cache = <<>>, !.cpos = cpos]

\* The handle h is at the start of extent s.
StartOf(h, s) ==
    /\ h \in HandlesOf /\ On(flash, h) /\ h.head = f.head /\ h.at = f.at
    /\ h.cur = s /\ h.off = Rec(s).off /\ h.len = Rec(s).len - Skip(Rec(s))
    /\ h.dpos = 0 /\ h.cache = <<>>

\* A cursor put there in a closed file is on the extent.
LEMMA PlacedOn ==
  ASSUME IInv, mode \in {"shut", "read"}, NEW s \in Sectors, Used(s), NEW cpos \in Nat
  PROVE  StartOf(Placed(s, cpos), s)
<1>1. /\ Rec(s).data \in Nat /\ Rec(s).len \in Nat /\ Rec(s).off \in Nat
      /\ Rec(s).next \in 0 .. N /\ Skip(Rec(s)) \in Nat
  BY RecordTyped DEF IInv
<1>2. Rec(s).span \in 1 .. N /\ Skip(Rec(s)) <= Rec(s).len
  BY ClosedExtent, Zenon
<1>3. PICK data \in Nat, len \in Nat, off \in Nat :
        /\ data = Rec(s).data + Skip(Rec(s)) /\ len = Rec(s).len - Skip(Rec(s))
        /\ off = Rec(s).off
  BY <1>1, <1>2
<1>4. PICK span \in 0 .. N, next \in 0 .. N : span = Rec(s).span /\ next = Rec(s).next
  BY <1>1, <1>2
<1>5. s \in 0 .. N
  BY Sizes DEF Sectors
<1>6. f \in HandlesOf
  BY Zenon DEF IInv, Ranges
<1>7. PICK k \in Seq(Nat) : k = <<>>
  BY EmptySeq, ZenonT(30)
<1>8. PICK h : h = [f EXCEPT !.cur = s, !.data = data, !.len = len, !.off = off, !.dpos = 0,
                             !.span = span, !.next = next, !.cache = k, !.cpos = cpos]
  OBVIOUS
<1>9. h = Placed(s, cpos)
  BY <1>3, <1>4, <1>7, <1>8, Zenon DEF Placed
<1>10. h \in HandlesOf
  BY <1>5, <1>6, <1>8 DEF HandlesOf
<1>11. /\ h.head = f.head /\ h.at = f.at
       /\ h.cur = s /\ h.data = data /\ h.len = len /\ h.off = off /\ h.dpos = 0
       /\ h.span = span /\ h.next = next /\ h.cache = k
  BY <1>6, <1>8 DEF HandlesOf
<1>12. h.dpos <= h.len
  BY <1>11
<1>13. /\ h.data = Rec(s).data + Skip(Rec(s)) /\ h.len = Rec(s).len - Skip(Rec(s))
       /\ h.off = Rec(s).off /\ h.span = Rec(s).span /\ h.next = Rec(s).next /\ h.cache = <<>>
  BY <1>3, <1>4, <1>7, <1>11, Zenon
<1>14. On(flash, h)
  BY <1>11, <1>12, <1>13, Zenon DEF On, Used, Rec
<1> QED  BY <1>9, <1>10, <1>11, <1>13, <1>14, Zenon DEF StartOf

\* fffs_read_file_root_md: the cursor is on the root.
LEMMA AtRootOn ==
  ASSUME IInv, mode \in {"shut", "read"}
  PROVE  StartOf(AtRoot(f), f.head) /\ AtRoot(f).off = 0 /\ AtRoot(f).cpos = 0
<1>1. f.head \in Sectors /\ Used(f.head)
  BY Zenon DEF IInv, Closed
<1>2. Rec(f.head).root /\ Rec(f.head).off = 0 /\ Skip(Rec(f.head)) = Prefix
  BY <1>1, Zenon DEF IInv, Extents, ExtentKept, Skip
<1>3. AtRoot(f) = Placed(f.head, 0)
  BY <1>2, Zenon DEF AtRoot, Placed, Rec
<1>4. 0 \in Nat
  OBVIOUS
<1>5. StartOf(Placed(f.head, 0), f.head)
  BY <1>1, <1>4, PlacedOn, Zenon
<1>6. AtRoot(f).cpos = 0
  BY DEF IInv, Ranges, HandlesOf, AtRoot
<1> QED  BY <1>2, <1>3, <1>5, <1>6, Zenon DEF StartOf

\* The cursor on another extent than the root.
LEMMA AtExtentOn ==
  ASSUME IInv, mode = "read", NEW s \in Sectors, Used(s), s # f.head
  PROVE  StartOf(AtExtent(f, s, Rec(s).off), s) /\ AtExtent(f, s, Rec(s).off).len = Rec(s).len
<1>1. f \in HandlesOf
  BY Zenon DEF IInv, Ranges
<1>2. f.cpos \in Nat
  BY <1>1 DEF HandlesOf
<1>3. ~Rec(s).root /\ Skip(Rec(s)) = 0
  BY Zenon DEF IInv, Extents, ExtentKept, Skip
<1>4. Rec(s).data \in Nat /\ Rec(s).len \in Nat
  BY RecordTyped DEF IInv
<1>5. Rec(s).data + Skip(Rec(s)) = Rec(s).data /\ Rec(s).len - Skip(Rec(s)) = Rec(s).len
  BY <1>3, <1>4
<1>6. AtExtent(f, s, Rec(s).off) = Placed(s, f.cpos)
  <2>1. PICK data, len, off, span, next : data = Rec(s).data /\ len = Rec(s).len
                                     /\ off = Rec(s).off /\ span = Rec(s).span /\ next = Rec(s).next
    OBVIOUS
  <2>2. PICK c \in Nat : c = f.cpos
    BY <1>2, Zenon
  <2>3. [f EXCEPT !.cur = s, !.data = data, !.len = len, !.span = span, !.next = next,
                  !.dpos = 0, !.off = off, !.cache = <<>>]
        = [f EXCEPT !.cur = s, !.data = data, !.len = len, !.off = off, !.dpos = 0,
                    !.span = span, !.next = next, !.cache = <<>>, !.cpos = c]
    BY <1>1, <2>2, ZenonT(30) DEF HandlesOf
  <2> QED  BY <1>5, <2>1, <2>2, <2>3, Zenon DEF AtExtent, Placed, Rec
<1>7. StartOf(Placed(s, f.cpos), s)
  BY <1>2, PlacedOn, Zenon
<1> QED  BY <1>5, <1>6, <1>7, Zenon DEF StartOf

\* The end of an extent under the cursor is the end of the file, or the next
\* extent begins there.
LEMMA AdvancedOn ==
  ASSUME IInv, mode = "read"
  PROVE  /\ NextExtent(f) = 0 => f.off + f.len = size
         /\ NextExtent(f) # 0 => /\ StartOf(Advanced(f), NextExtent(f))
                                /\ Advanced(f).off = f.off + f.len
<1>1. On(flash, f)
  BY Zenon DEF IInv, Reading
<1> DEFINE s == f.cur
<1>2. s \in Sectors /\ Used(s)
  BY <1>1, Zenon DEF On, Used
<1>3. /\ f.len = Rec(s).len - Skip(Rec(s)) /\ f.off = Rec(s).off
      /\ f.span = Rec(s).span /\ f.next = Rec(s).next
  BY <1>1, Zenon DEF On, Rec
<1>4. NextExtent(f) = Succ(s)
  BY <1>3, Zenon DEF NextExtent, Succ
<1>5. Rec(s).len \in Nat /\ Rec(s).off \in Nat /\ Skip(Rec(s)) \in Nat
  BY <1>2, RecordTyped DEF IInv
<1>6. EndOf(s) = f.off + f.len
  BY <1>3, <1>5 DEF EndOf
<1>7. /\ Succ(s) = 0 => EndOf(s) = size
      /\ Succ(s) # 0 => /\ Succ(s) \in Sectors /\ Succ(s) # f.head /\ Used(Succ(s))
                        /\ Rec(Succ(s)).off = EndOf(s)
  BY <1>2, ClosedExtent, Zenon
<1>8. NextExtent(f) = 0 => f.off + f.len = size
  BY <1>4, <1>6, <1>7, Zenon
<1>9. ASSUME NextExtent(f) # 0
      PROVE  StartOf(Advanced(f), NextExtent(f)) /\ Advanced(f).off = f.off + f.len
  <2>1. PICK t \in Sectors : t = Succ(s) /\ t # f.head /\ Used(t) /\ Rec(t).off = EndOf(s)
    BY <1>4, <1>7, <1>9, Zenon
  <2>2. Advanced(f) = AtExtent(f, t, Rec(t).off) /\ Rec(t).off = f.off + f.len
    BY <1>4, <1>6, <2>1, Zenon DEF Advanced
  <2>3. StartOf(AtExtent(f, t, Rec(t).off), t)
    BY <2>1, AtExtentOn, Zenon
  <2> QED  BY <1>4, <2>1, <2>2, <2>3, Zenon DEF StartOf
<1> QED  BY <1>8, <1>9, Zenon

\* The cursor g at another place of its extent, or with another cache.
Cursor(g, c, cp, d) == [g EXCEPT !.cache = c, !.cpos = cp, !.dpos = d]

\* Such a handle h.
CursorOf(h, g, c, d) ==
    /\ h \in HandlesOf /\ On(flash, h) /\ h.head = g.head /\ h.at = g.at
    /\ h.off = g.off /\ h.len = g.len /\ h.dpos = d /\ h.cache = c

\* A cache c of bytes of the extent at cp, as the cursor g reads it.
CacheOf(g, c, cp) ==
    c # <<>> => cp + Len(c) <= g.len /\ Run(c, g.off + cp)

\* It is on the extent.
LEMMA CursorOn ==
  ASSUME NEW g \in HandlesOf, On(flash, g), NEW c \in Seq(Nat), NEW cp \in Nat, NEW d \in Nat,
         d <= g.len, CacheOf(g, c, cp)
  PROVE  CursorOf(Cursor(g, c, cp, d), g, c, d)
<1>1. PICK h : h = Cursor(g, c, cp, d)
  OBVIOUS
<1>2. /\ h \in HandlesOf /\ h.head = g.head /\ h.at = g.at /\ h.cur = g.cur
      /\ h.data = g.data /\ h.len = g.len /\ h.off = g.off /\ h.span = g.span /\ h.next = g.next
      /\ h.dpos = d /\ h.cache = c /\ h.cpos = cp
  BY <1>1, ZenonT(30) DEF Cursor, HandlesOf
<1>3. On(flash, h)
  BY <1>2, Zenon DEF On, CacheOf
<1> QED  BY <1>1, <1>2, <1>3, Zenon DEF CursorOf

\* A cursor that keeps its cache.
LEMMA CursorMoved ==
  ASSUME NEW g \in HandlesOf, On(flash, g), NEW d \in Nat, d <= g.len
  PROVE  CursorOf([g EXCEPT !.dpos = d], g, g.cache, d)
<1>1. g.cache \in Seq(Nat) /\ g.cpos \in Nat
  BY DEF HandlesOf
<1>2. CacheOf(g, g.cache, g.cpos)
  BY Zenon DEF On, CacheOf
<1>3. [g EXCEPT !.dpos = d] = Cursor(g, g.cache, g.cpos, d)
  <2>1. PICK k \in Seq(Nat), m \in Nat : k = g.cache /\ m = g.cpos
    BY <1>1, Zenon
  <2>2. [g EXCEPT !.dpos = d] = Cursor(g, k, m, d)
    BY <2>1, ZenonT(30) DEF Cursor, HandlesOf
  <2> QED  BY <2>1, <2>2, Zenon
<1>4. CursorOf(Cursor(g, g.cache, g.cpos, d), g, g.cache, d)
  BY <1>1, <1>2, CursorOn, Zenon
<1> QED  BY <1>3, <1>4, Zenon

\* What one round of the loop of fffs_read does: m bytes of the file at the
\* position are copied and the cursor is behind them.
ChunkDone(g, m) ==
    /\ m \in Nat /\ m <= todo.left
    /\ out' \in Seq(Nat) /\ Len(out') = m /\ Run(out', pos)
    /\ pos' = pos + m /\ todo' = [todo EXCEPT !.left = todo.left - m]
    /\ pc' \in {"idle", "read"}
    /\ f' \in HandlesOf /\ On(flash, f') /\ f'.head = g.head /\ f'.at = g.at
    /\ Len(f'.cache) <= CacheSize
    /\ pos' = f'.off + f'.dpos

\* The bytes copied from a cache that has some left.
LEMMA CachedBytes ==
  ASSUME NEW c \in Seq(Nat), NEW off \in Nat, NEW cp \in Nat, NEW d \in Nat, NEW n \in Nat,
         Run(c, off + cp), cp <= d, d < cp + Len(c)
  PROVE  LET b == SubSeq(c, d - cp + 1, Min({Len(c), d - cp + n}))
         IN  /\ b \in Seq(Nat) /\ Len(b) \in Nat /\ Len(b) <= n /\ d + Len(b) <= cp + Len(c)
             /\ Run(b, off + d)
<1> DEFINE b == SubSeq(c, d - cp + 1, Min({Len(c), d - cp + n}))
<1>1. PICK L \in Nat : L = Len(c)
  OBVIOUS
<1>2. PICK k \in Nat : k = d - cp /\ k < L
  BY <1>1
<1>3. PICK e \in Nat : e = Min({L, k + n}) /\ e <= L /\ e <= k + n /\ e >= k
  <2>1. Min({L, k + n}) = IF L <= k + n THEN L ELSE k + n
    BY MinOfTwo
  <2> QED  BY <1>2, <2>1
<1>4. b = SubSeq(c, k + 1, e)
  BY <1>1, <1>2, <1>3, Zenon
<1> HIDE DEF b
<1>5. /\ k + 1 \in Int /\ e \in Int /\ \A i \in (k + 1) .. e : c[i] \in Nat
  <2>1. \A i \in 1 .. Len(c) : c[i] \in Nat
    OBVIOUS
  <2>2. \A i \in (k + 1) .. e : i \in 1 .. L
    BY <1>3
  <2>3. k + 1 \in Int /\ e \in Int
    OBVIOUS
  <2> QED  BY <1>1, <2>1, <2>2, <2>3, Zenon
<1>6. /\ b \in Seq(Nat)
      /\ Len(b) = IF k + 1 <= e THEN e - (k + 1) + 1 ELSE 0
      /\ \A i \in 1 .. (e - (k + 1) + 1) : b[i] = c[k + 1 + i - 1]
  BY <1>4, <1>5, SubSeqProperties, SMTT(30)
<1>7. Len(b) = e - k
  BY <1>3, <1>6, SMTT(30)
<1>8. ASSUME NEW i \in 1 .. Len(b)
      PROVE  b[i] = off + d + i
  <2>1. i \in 1 .. (e - k)
    BY <1>7, Zenon
  <2>2. i \in 1 .. (e - (k + 1) + 1) /\ k + 1 + i - 1 = k + i
    BY <2>1
  <2>3. k + i \in 1 .. L
    BY <1>3, <2>1
  <2>4. b[i] = c[k + i]
    BY <1>6, <2>2, Zenon
  <2>5. c[k + i] = off + cp + (k + i)
    BY <1>1, <2>3, Zenon DEF Run
  <2>6. off + cp + (k + i) = off + d + i
    BY <1>2, <2>1
  <2> QED  BY <2>4, <2>5, <2>6, Zenon
<1>9. Run(b, off + d)
  BY <1>8, Zenon DEF Run
<1>10. Len(b) \in Nat /\ Len(b) <= n /\ d + Len(b) <= cp + Len(c)
  BY <1>1, <1>2, <1>3, <1>7
<1> QED  BY <1>6, <1>9, <1>10, ZenonT(30) DEF b

\* One round of the loop of fffs_read, whichever way the bytes are copied.
LEMMA ChunkKeeps ==
  ASSUME IInv, mode = "read", NEW g \in HandlesOf, On(flash, g), Len(g.cache) <= CacheSize,
         pos = g.off + g.dpos, ReadChunk(g)
  PROVE  \E m \in Nat : ChunkDone(g, m)
<1>1. /\ g.len \in Nat /\ g.dpos \in Nat /\ g.cpos \in Nat /\ g.off \in Nat
      /\ g.cache \in Seq(Nat) /\ Len(g.cache) \in Nat /\ todo.left \in Nat
  BY DEF HandlesOf, IInv, Ranges
<1>2. g.dpos <= g.len
  BY Zenon DEF On
<1>3. PICK len \in Nat, d \in Nat, left \in Nat :
        len = g.len /\ d = g.dpos /\ left = todo.left /\ d <= len
  BY <1>1, <1>2, Zenon
<1>4. PICK n \in Nat : n = Min({todo.left, g.len - g.dpos}) /\ n <= left /\ n <= len - d
  <2>1. Min({left, len - d}) = IF left <= len - d THEN left ELSE len - d
    BY MinOfTwo
  <2>2. PICK m \in Nat : m = (IF left <= len - d THEN left ELSE len - d)
    BY <1>3
  <2>3. m <= left /\ m <= len - d
    BY <1>3, <2>2
  <2> QED  BY <1>3, <2>1, <2>2, <2>3, Zenon
\* Enough to know: what was copied, and that the cursor has moved behind it.
<1>5. ASSUME NEW b, b \in Seq(Nat), Len(b) \in Nat, Len(b) <= n, Run(b, g.off + g.dpos),
             NEW c \in Seq(Nat), NEW cp \in Nat, CacheOf(g, c, cp), Len(c) <= CacheSize,
             out' = b, pos' = pos + Len(b), f' = Cursor(g, c, cp, g.dpos + Len(b)),
             todo' = [todo EXCEPT !.left = todo.left - Len(b)], pc' \in {"idle", "read"}
      PROVE  \E m \in Nat : ChunkDone(g, m)
  <2>1. PICK m \in Nat : m = Len(b)
    BY <1>5, Zenon
  <2>2. m <= left /\ d + m <= len /\ d + m \in Nat
    <3>1. m <= n
      BY <1>5, <2>1, Zenon
    <3>2. n <= left /\ n <= len - d
      BY <1>4, Zenon
    <3> QED  BY <3>1, <3>2
  <2>3. m <= todo.left /\ g.dpos + m \in Nat /\ g.dpos + m <= g.len
    BY <1>3, <2>2, Zenon
  <2>4. CursorOf(Cursor(g, c, cp, g.dpos + m), g, c, g.dpos + m)
    BY <1>5, <2>3, CursorOn, Zenon
  <2>5. /\ f' \in HandlesOf /\ On(flash, f') /\ f'.head = g.head /\ f'.at = g.at
        /\ f'.cache = c /\ f'.off = g.off /\ f'.dpos = g.dpos + m
    BY <1>5, <2>1, <2>4, Zenon DEF CursorOf
  <2>6. pos + m = f'.off + f'.dpos
    BY <1>1, <2>5
  <2>7. ChunkDone(g, m)
    BY <1>5, <2>1, <2>3, <2>5, <2>6, Zenon DEF ChunkDone
  <2> QED  BY <2>7, Zenon
<1>6. CASE Cached(g)
  <2> DEFINE b == SubSeq(g.cache, g.dpos - g.cpos + 1, Min({Len(g.cache), g.dpos - g.cpos + n}))
  <2>1. /\ out' = b /\ pos' = pos + Len(b) /\ f' = [g EXCEPT !.dpos = g.dpos + Len(b)]
        /\ todo' = [todo EXCEPT !.left = todo.left - Len(b)] /\ pc' \in {"idle", "read"}
    BY <1>4, <1>6, Zenon DEF ReadChunk
  <2>2. g.cpos + Len(g.cache) <= g.len /\ Run(g.cache, g.off + g.cpos)
    BY <1>6, Zenon DEF Cached, On
  <2>3. g.cpos <= g.dpos /\ g.dpos < g.cpos + Len(g.cache)
    BY <1>1, <1>6, SMTT(30) DEF Cached
  <2>4. b \in Seq(Nat) /\ Len(b) \in Nat /\ Len(b) <= n /\ Run(b, g.off + g.dpos)
    BY <1>1, <2>2, <2>3, CachedBytes, Zenon
  <2> HIDE DEF b
  <2>5. [g EXCEPT !.dpos = g.dpos + Len(b)] = Cursor(g, g.cache, g.cpos, g.dpos + Len(b))
    <3>1. PICK k \in Seq(Nat), m \in Nat, e \in Nat :
             k = g.cache /\ m = g.cpos /\ e = g.dpos + Len(b)
      BY <1>1, <2>4
    <3>2. [g EXCEPT !.dpos = e] = Cursor(g, k, m, e)
      BY <3>1, ZenonT(30) DEF Cursor, HandlesOf
    <3> QED  BY <3>1, <3>2, Zenon
  <2>6. CacheOf(g, g.cache, g.cpos)
    BY <2>2, Zenon DEF CacheOf
  <2> QED  BY <1>1, <1>5, <2>1, <2>4, <2>5, <2>6, Zenon
<1>7. CASE ~Cached(g) /\ n < CacheSize
  <2> DEFINE fill == Min({g.len - g.dpos, CacheSize})
             m == Min({todo.left, fill})
             b == DataAt(g, g.dpos, m)
             c == DataAt(g, g.dpos, fill)
  <2>1. /\ out' = b /\ pos' = pos + Len(b)
        /\ f' = [[g EXCEPT !.cache = c, !.cpos = g.dpos] EXCEPT !.dpos = @ + Len(b)]
        /\ todo' = [todo EXCEPT !.left = todo.left - Len(b)] /\ pc' \in {"idle", "read"}
    BY <1>4, <1>7, Zenon DEF ReadChunk
  <2>2. fill \in Nat /\ fill <= CacheSize /\ fill <= len - d
    <3>1. Min({len - d, CacheSize}) = IF len - d <= CacheSize THEN len - d ELSE CacheSize
      BY Sizes, MinOfTwo
    <3>2. Min({len - d, CacheSize}) \in Nat /\ Min({len - d, CacheSize}) <= CacheSize
          /\ Min({len - d, CacheSize}) <= len - d
      BY <1>3, <3>1, Sizes, SMTT(30)
    <3> QED  BY <1>3, <3>2, Zenon
  <2> HIDE DEF fill
  <2>3. m \in Nat /\ m <= left /\ m <= fill
    <3>1. Min({left, fill}) = IF left <= fill THEN left ELSE fill
      BY <2>2, MinOfTwo
    <3>2. Min({left, fill}) \in Nat /\ Min({left, fill}) <= left /\ Min({left, fill}) <= fill
      BY <2>2, <3>1
    <3> QED  BY <1>3, <3>2, Zenon
  <2> HIDE DEF m
  <2>4. d + fill <= len /\ d + m <= len /\ m <= n
    <3>1. n = IF left <= len - d THEN left ELSE len - d
      <4>1. Min({left, len - d}) = IF left <= len - d THEN left ELSE len - d
        BY MinOfTwo
      <4> QED  BY <1>3, <1>4, <4>1, Zenon
    <3> QED  BY <1>3, <2>2, <2>3, <3>1, SMTT(30)
  <2>5. g.dpos + fill <= g.len /\ g.dpos + m <= g.len
    BY <1>3, <2>4, Zenon
  <2>6. /\ b \in Seq(Nat) /\ Len(b) = m /\ Run(b, g.off + g.dpos)
        /\ c \in Seq(Nat) /\ Len(c) = fill /\ Run(c, g.off + g.dpos)
    BY <1>1, <2>2, <2>3, <2>5, DataBytes, Zenon
  <2> HIDE DEF b, c
  <2>7. CacheOf(g, c, g.dpos)
    BY <2>5, <2>6, Zenon DEF CacheOf
  <2>8. f' = Cursor(g, c, g.dpos, g.dpos + Len(b))
    <3>1. PICK k \in Seq(Nat), e \in Nat : k = c /\ e = Len(b)
      BY <2>3, <2>6, Zenon
    <3>2. [[g EXCEPT !.cache = k, !.cpos = g.dpos] EXCEPT !.dpos = @ + e]
             = Cursor(g, k, g.dpos, g.dpos + e)
      BY DEF Cursor, HandlesOf
    <3> QED  BY <2>1, <3>1, <3>2, Zenon
  <2> QED  BY <1>1, <1>5, <2>1, <2>2, <2>3, <2>4, <2>6, <2>7, <2>8, Zenon
<1>8. CASE ~Cached(g) /\ ~(n < CacheSize)
  <2> DEFINE b == DataAt(g, g.dpos, n)
  <2>1. /\ out' = b /\ pos' = pos + Len(b)
        /\ f' = [[g EXCEPT !.cache = <<>>] EXCEPT !.dpos = @ + Len(b)]
        /\ todo' = [todo EXCEPT !.left = todo.left - Len(b)] /\ pc' \in {"idle", "read"}
    BY <1>4, <1>8, Zenon DEF ReadChunk
  <2>2. d + n <= len
    BY <1>3, <1>4
  <2>3. g.dpos + n <= g.len /\ n <= n
    BY <1>3, <2>2
  <2>4. b \in Seq(Nat) /\ Len(b) = n /\ Run(b, g.off + g.dpos)
    BY <1>1, <2>3, DataBytes, Zenon
  <2> HIDE DEF b
  <2>5. f' = Cursor(g, <<>>, g.cpos, g.dpos + Len(b))
    <3>1. PICK e \in Nat : e = Len(b)
      BY <2>4, Zenon
    <3>2. [[g EXCEPT !.cache = <<>>] EXCEPT !.dpos = @ + e] = Cursor(g, <<>>, g.cpos, g.dpos + e)
      BY ZenonT(30) DEF Cursor, HandlesOf
    <3> QED  BY <2>1, <3>1, <3>2, Zenon
  <2>6. <<>> \in Seq(Nat) /\ Len(<<>>) <= CacheSize /\ CacheOf(g, <<>>, g.cpos)
    BY Sizes, EmptySeq DEF CacheOf
  <2> QED  BY <1>1, <1>5, <2>1, <2>3, <2>4, <2>5, <2>6, Zenon
<1> QED  BY <1>6, <1>7, <1>8, Zenon

-----------------------------------------------------------------------------
(* The steps of a closed file and of a reader. *)

Todos == [left : Nat, low : Nat, high : Nat, depth : Nat]

\* A step that leaves the sectors and the size of a closed file alone: only the
\* cursor and the call under way have to be looked at.
LEMMA ReadFrame ==
  ASSUME IInv, mode \in {"shut", "read"}, mode' \in {"shut", "read"}, size' = size, flash' = flash,
         f' \in HandlesOf, f'.head = f.head, f'.at = 0, Len(f'.cache) <= CacheSize,
         mode' = "shut" => pos' = 0 /\ f'.dpos = 0 /\ f'.data = 0,
         pos' \in Nat, todo' \in Todos,
         pc' \in {"idle", "read", "seek", "hunt", "corrupt"},
         pc' # "idle" => mode' = "read", Reading'
  PROVE  IInv'
<1>1. Ranges'
  BY DEF IInv, Ranges, Todos
<1>2. Extents'
  <2> SUFFICES ASSUME NEW s \in Sectors, Used(s)'
               PROVE  ExtentKept(s)'
    BY DEF Extents
  <2>1. Used(s) /\ ExtentKept(s)
    BY DEF Used, IInv, Extents
  <2> QED  BY <2>1 DEF ExtentKept, Rec, Skip
<1>3. Writing'
  <2>1. size <= MaxSize
    BY DEF IInv, Writing
  <2> QED  BY <2>1 DEF Writing
<1>4. Closed'
  <2>1. f.head \in Sectors /\ Used(f.head)
    BY DEF IInv, Closed
  <2>2. ASSUME NEW s \in Sectors, Used(s)'
        PROVE  Finished(s)'
    <3>1. Used(s) /\ Finished(s)
      BY <2>2 DEF Used, IInv, Closed
    <3>2. Rec(s)' = Rec(s) /\ Succ(s)' = Succ(s) /\ EndOf(s)' = EndOf(s)
      BY DEF Rec, Succ, EndOf, Skip
    <3>3. Linked(s, Succ(s)) => Linked(s, Succ(s))'
      BY <3>2 DEF Linked, Used, Rec
    <3>4. Rec(s).span >= 1 /\ \A k \in 1 .. (Rec(s).span - 1) : s + k \in Sectors /\ s + k # f.head /\ Used(s + k)
      BY <3>1, Zenon DEF Finished
    <3>5. IF Succ(s) = 0 THEN EndOf(s) = size ELSE Linked(s, Succ(s))
      BY <3>1, Zenon DEF Finished
    <3>6. IF Succ(s)' = 0 THEN mode' # "write" /\ EndOf(s)' = size' ELSE Linked(s, Succ(s))'
      BY <3>2, <3>3, <3>5
    <3>7. \A k \in 1 .. (Rec(s)'.span - 1) : s + k \in Sectors /\ s + k # f'.head /\ Used(s + k)'
      BY <3>2, <3>4 DEF Used
    <3> QED  BY <3>2, <3>4, <3>6, <3>7, SMTT(30) DEF Finished
  <2> QED  BY <2>1, <2>2 DEF Closed, Used
<1>5. Fields'
  BY DEF Fields
<1> QED  BY <1>1, <1>2, <1>3, <1>4, <1>5 DEF IInv

\* fffs_open for reading, also when the name is longer than the cache.
LEMMA OpenReadKeeps ==
  ASSUME CacheFits, IInv, OpenRead
  PROVE  IInv'
<1> DEFINE g == AtRoot(f)
           nread == Min({g.len + Prefix, CacheSize})
           c == IF CacheSize >= MaxName + 2 THEN DataAt(g, 0, nread - Prefix) ELSE <<>>
<1>1. /\ mode = "shut" /\ mode' = "read" /\ f' = [g EXCEPT !.cache = c] /\ pos' = 0
      /\ size' = size /\ flash' = flash /\ pc' = pc /\ todo' = todo
  BY Zenon DEF OpenRead
<1>2. StartOf(g, f.head) /\ g.off = 0 /\ g.cpos = 0
  BY <1>1, AtRootOn, Zenon
<1>3. /\ g \in HandlesOf /\ On(flash, g) /\ g.head = f.head /\ g.at = f.at /\ g.dpos = 0
  BY <1>2, Zenon DEF StartOf
<1> HIDE DEF g
<1>4. PICK len \in Nat : len = g.len
  BY <1>3 DEF HandlesOf
<1>5. PICK n \in Nat : n = nread - Prefix /\ n <= len /\ n <= CacheSize
  <2>1. Min({len + Prefix, CacheSize})
          = IF len + Prefix <= CacheSize THEN len + Prefix ELSE CacheSize
    BY Sizes, MinOfTwo
  <2>2. PICK m \in Nat : m = (IF len + Prefix <= CacheSize THEN len + Prefix ELSE CacheSize) - Prefix
    BY Sizes DEF CacheFits
  <2>3. m <= len /\ m <= CacheSize
    BY <2>2, Sizes
  <2> QED  BY <1>4, <2>1, <2>2, <2>3, Zenon
<1>6. 0 \in Nat /\ 0 + n <= len /\ 0 <= len
  BY <1>5
<1>7. c \in Seq(Nat) /\ Len(c) <= CacheSize /\ CacheOf(g, c, 0)
  <2>1. CASE CacheSize >= MaxName + 2
    <3>1. /\ DataAt(g, 0, n) \in Seq(Nat) /\ Len(DataAt(g, 0, n)) = n
          /\ Run(DataAt(g, 0, n), g.off + 0)
      BY <1>1, <1>3, <1>4, <1>6, DataBytes, Zenon
    <3>2. c = DataAt(g, 0, n)
      BY <1>5, <2>1, Zenon
    <3> QED  BY <1>4, <1>5, <1>6, <3>1, <3>2, Zenon DEF CacheOf
  <2>2. CASE ~(CacheSize >= MaxName + 2)
    <3>1. c = <<>>
      BY <2>2, Zenon
    <3>2. <<>> \in Seq(Nat) /\ Len(<<>>) <= CacheSize /\ CacheOf(g, <<>>, 0)
      BY EmptySeq, Sizes DEF CacheOf
    <3> QED  BY <3>1, <3>2, Zenon
  <2> QED  BY <2>1, <2>2, Zenon
<1> HIDE DEF c
<1>8. f' = Cursor(g, c, 0, 0)
  BY <1>1, <1>2, <1>3, <1>7, ZenonT(30) DEF Cursor, HandlesOf
<1>9. CursorOf(f', g, c, 0)
  BY <1>3, <1>4, <1>6, <1>7, <1>8, CursorOn, Zenon
<1>10. /\ f' \in HandlesOf /\ On(flash, f') /\ f'.head = f.head /\ f'.at = f.at
       /\ f'.off = 0 /\ f'.dpos = 0 /\ f'.cache = c
  BY <1>2, <1>3, <1>9, Zenon DEF CursorOf
<1>11. pc = "idle" /\ f.at = 0 /\ todo \in Todos /\ size \in Nat
  BY <1>1 DEF IInv, Ranges, Fields, Todos
<1>12. On(flash', f')
  BY <1>1, <1>10, Zenon
<1>13. Reading'
  BY <1>1, <1>10, <1>11, <1>12 DEF Reading
<1> QED  BY <1>1, <1>6, <1>7, <1>10, <1>11, <1>13, ReadFrame

\* fffs_close of a reader.
LEMMA CloseReadKeeps ==
  ASSUME IInv, CloseRead
  PROVE  IInv'
<1>1. /\ mode = "read" /\ pc = "idle" /\ mode' = "shut" /\ f' = [NoFile EXCEPT !.head = f.head]
      /\ pos' = 0 /\ size' = size /\ flash' = flash /\ pc' = pc /\ todo' = todo
  BY Zenon DEF CloseRead
<1>2. f.head \in 0 .. N /\ todo \in Todos
  BY DEF IInv, Ranges, HandlesOf, Todos
<1>3. <<>> \in Seq(Nat) /\ Len(<<>>) <= CacheSize /\ 0 \in 0 .. N
  BY EmptySeq, Sizes
<1>4. PICK k \in Seq(Nat) : k = <<>>
  BY <1>3, Zenon
<1>5. f' = [head |-> f.head, cur |-> 0, data |-> 0, at |-> 0, md |-> 0, len |-> 0, off |-> 0,
            dpos |-> 0, span |-> 0, next |-> 0, cache |-> k, cpos |-> 0]
  BY <1>1, <1>4 DEF NoFile
<1>6. /\ f' \in HandlesOf /\ f'.head = f.head /\ f'.at = 0 /\ f'.dpos = 0 /\ f'.data = 0
      /\ f'.cache = k
  BY <1>2, <1>3, <1>5 DEF HandlesOf
<1>7. Reading' /\ Len(f'.cache) <= CacheSize /\ 0 \in Nat
  BY <1>1, <1>3, <1>4, <1>6 DEF Reading
<1> QED  BY <1>1, <1>2, <1>6, <1>7, ReadFrame, Zenon

\* A step of a call of a reader: the cursor stays on an extent of the file.
LEMMA ReaderStep ==
  ASSUME IInv, mode = "read", mode' = mode, size' = size, flash' = flash,
         f' \in HandlesOf, On(flash, f'), f'.head = f.head, f'.at = f.at,
         Len(f'.cache) <= CacheSize, pos' \in Nat, pos' <= size, todo' \in Todos,
         pc' \in {"idle", "read", "seek", "hunt", "corrupt"},
         pc' \in {"idle", "read"} => pos' = f'.off + f'.dpos,
         pc' = "read" => pos' + todo'.left <= size,
         pc' \in {"seek", "hunt"} => f'.off <= todo'.left /\ todo'.left <= size,
         pc' = "hunt" => f'.off + f'.len < todo'.left /\ 1 <= todo'.low /\ todo'.high < f'.span
  PROVE  IInv'
<1>1. f'.at = 0
  BY Zenon DEF IInv, Fields
<1>2. On(flash', f')
  BY Zenon
<1>3. Reading'
  BY <1>2, Zenon DEF Reading
<1>4. mode' # "shut"
  BY Zenon
<1> QED  BY <1>1, <1>3, <1>4, ReadFrame, Zenon

\* FFFS_ERR_CORRUPT changes nothing.
LEMMA CorruptKeeps ==
  ASSUME IInv, mode = "read", Corrupt
  PROVE  IInv'
<1>1. /\ pc' = "corrupt" /\ mode' = mode /\ size' = size /\ pos' = pos /\ flash' = flash
      /\ f' = f /\ todo' = todo
  BY Zenon DEF Corrupt
<1>2. f \in HandlesOf /\ Len(f.cache) <= CacheSize /\ pos \in Nat /\ todo \in Todos
  BY Zenon DEF IInv, Ranges, Todos
<1>3. On(flash, f) /\ pos <= size
  BY Zenon DEF IInv, Reading
<1>4. pc' \notin {"idle", "read", "seek", "hunt"} /\ pc' \in {"idle", "read", "seek", "hunt", "corrupt"}
  BY <1>1
<1> QED  BY <1>1, <1>2, <1>3, <1>4, ReaderStep, Zenon

\* What is known of a reader before a step.
LEMMA ReaderFacts ==
  ASSUME IInv, mode = "read"
  PROVE  /\ f \in HandlesOf /\ On(flash, f) /\ Len(f.cache) <= CacheSize
         /\ pos \in Nat /\ size \in Nat /\ pos <= size /\ todo \in Todos /\ todo.left \in Nat
         /\ f.off \in Nat /\ f.len \in Nat /\ f.dpos \in Nat /\ f.dpos <= f.len /\ f.span \in Nat
<1>1. f \in HandlesOf /\ Len(f.cache) <= CacheSize /\ pos \in Nat /\ size \in Nat /\ todo \in Todos
  BY Zenon DEF IInv, Ranges, Todos
<1>2. On(flash, f) /\ pos <= size
  BY Zenon DEF IInv, Reading
<1>3. f.dpos <= f.len
  BY <1>2, Zenon DEF On
<1>4. f.off \in Nat /\ f.len \in Nat /\ f.dpos \in Nat /\ f.span \in Nat
  BY <1>1, Sizes DEF HandlesOf
<1>5. todo.left \in Nat
  BY <1>1 DEF Todos
<1> QED  BY <1>1, <1>2, <1>3, <1>4, <1>5, Zenon

\* fffs_read starts.
LEMMA ReadKeeps ==
  ASSUME IInv, NEW n \in ReadSizes, Read(n)
  PROVE  IInv'
<1>1. /\ mode = "read" /\ pc = "idle" /\ pos < size /\ pc' = "read"
      /\ todo' = [Idle EXCEPT !.left = Min({n, size - pos})]
      /\ mode' = mode /\ size' = size /\ pos' = pos /\ flash' = flash /\ f' = f
  BY Zenon DEF Read
<1>2. /\ f \in HandlesOf /\ On(flash, f) /\ Len(f.cache) <= CacheSize
      /\ pos \in Nat /\ size \in Nat /\ pos <= size
  BY <1>1, ReaderFacts, Zenon
<1>3. n \in Nat
  BY FileIOAssumption
<1>4. PICK m \in Nat : m = Min({n, size - pos}) /\ pos + m <= size
  <2>1. PICK r \in Nat : r = size - pos
    BY <1>2
  <2>2. PICK k \in Nat : k = n
    BY <1>3, Zenon
  <2>3. Min({k, r}) = IF k <= r THEN k ELSE r
    BY MinOfTwo
  <2>4. PICK m \in Nat : m = (IF k <= r THEN k ELSE r)
    OBVIOUS
  <2>5. pos + m <= size
    BY <1>2, <2>1, <2>4
  <2> QED  BY <2>1, <2>2, <2>3, <2>4, <2>5, Zenon
<1>5. todo' = [Idle EXCEPT !.left = m]
  BY <1>1, <1>4, Zenon
<1>6. todo' \in Todos /\ todo'.left = m
  BY <1>5 DEF Idle, Todos
<1>7. pos = f.off + f.dpos
  BY <1>1, Zenon DEF IInv, Reading
<1>8. pc' \notin {"seek", "hunt"} /\ pc' \in {"idle", "read", "seek", "hunt", "corrupt"}
  BY <1>1
<1> QED  BY <1>1, <1>2, <1>4, <1>6, <1>7, <1>8, ReaderStep, Zenon

\* The cursor fffs_read goes on with when there is more of the file.
LEMMA ReadGoesOn ==
  ASSUME IInv, mode = "read", pc = "read", ~(f.dpos >= f.len /\ NextExtent(f) = 0)
  PROVE  LET g == IF f.dpos >= f.len THEN Advanced(f) ELSE f
         IN  /\ g \in HandlesOf /\ On(flash, g) /\ Len(g.cache) <= CacheSize
             /\ g.head = f.head /\ g.at = f.at /\ pos = g.off + g.dpos
<1>1. /\ f \in HandlesOf /\ On(flash, f) /\ Len(f.cache) <= CacheSize
      /\ f.off \in Nat /\ f.len \in Nat /\ f.dpos \in Nat /\ f.dpos <= f.len
  BY ReaderFacts, Zenon
<1>2. pos = f.off + f.dpos
  BY Zenon DEF IInv, Reading
<1>3. CASE ~(f.dpos >= f.len)
  BY <1>1, <1>2, <1>3, Zenon
<1>4. CASE f.dpos >= f.len
  <2>1. NextExtent(f) # 0
    BY <1>4, Zenon
  <2>2. StartOf(Advanced(f), NextExtent(f)) /\ Advanced(f).off = f.off + f.len
    BY <2>1, AdvancedOn, Zenon
  <2>3. PICK h : h = Advanced(f)
    OBVIOUS
  <2>4. /\ h \in HandlesOf /\ On(flash, h) /\ h.head = f.head /\ h.at = f.at
        /\ h.off = f.off + f.len /\ h.dpos = 0 /\ h.cache = <<>>
    BY <2>2, <2>3, Zenon DEF StartOf
  <2>5. Len(<<>>) <= CacheSize
    BY EmptySeq, Sizes
  <2>6. pos = h.off + h.dpos
    BY <1>1, <1>2, <1>4, <2>4
  <2> QED  BY <1>4, <2>3, <2>4, <2>5, <2>6, Zenon
<1> QED  BY <1>3, <1>4, Zenon

\* A round of the loop of fffs_read, after the step to the next extent if one is
\* needed.
LEMMA ReadStepKeeps ==
  ASSUME IInv, ReadStep
  PROVE  IInv'
<1>1. pc = "read" /\ mode = "read"
  BY Zenon DEF ReadStep, IInv, Ranges
<1>2. CASE f.dpos >= f.len /\ NextExtent(f) = 0
  <2>1. Corrupt
    BY <1>2, Zenon DEF ReadStep
  <2> QED  BY <1>1, <2>1, CorruptKeeps, Zenon
<1>3. CASE ~(f.dpos >= f.len /\ NextExtent(f) = 0)
  <2> DEFINE g == IF f.dpos >= f.len THEN Advanced(f) ELSE f
  <2>1. ReadChunk(g) /\ mode' = mode /\ size' = size /\ flash' = flash
    BY <1>3, Zenon DEF ReadStep
  <2>2. /\ g \in HandlesOf /\ On(flash, g) /\ Len(g.cache) <= CacheSize
        /\ g.head = f.head /\ g.at = f.at /\ pos = g.off + g.dpos
    BY <1>1, <1>3, ReadGoesOn, Zenon
  <2> HIDE DEF g
  <2>3. PICK m \in Nat : ChunkDone(g, m)
    BY <1>1, <2>1, <2>2, ChunkKeeps, Zenon
  <2>4. /\ m <= todo.left /\ pos' = pos + m /\ todo' = [todo EXCEPT !.left = todo.left - m]
        /\ pc' \in {"idle", "read"}
        /\ f' \in HandlesOf /\ On(flash, f') /\ f'.head = f.head /\ f'.at = f.at
        /\ Len(f'.cache) <= CacheSize /\ pos' = f'.off + f'.dpos
    BY <2>2, <2>3, Zenon DEF ChunkDone
  <2>5. pos + todo.left <= size
    BY <1>1, Zenon DEF IInv, Reading
  <2>6. todo \in Todos /\ pos \in Nat /\ size \in Nat /\ todo.left \in Nat
    BY <1>1, ReaderFacts, Zenon
  <2>7. PICK k \in Nat : k = todo.left - m
    BY <2>4, <2>6
  <2>8. todo' \in Todos /\ todo'.left = k
    BY <2>4, <2>6, <2>7 DEF Todos
  <2>9. pos' \in Nat /\ pos' <= size /\ pos' + todo'.left <= size
    BY <2>4, <2>5, <2>6, <2>7, <2>8, SMTT(30)
  <2>10. pc' \notin {"seek", "hunt"} /\ pc' \in {"idle", "read", "seek", "hunt", "corrupt"}
    BY <2>4
  <2> QED  BY <1>1, <2>1, <2>4, <2>8, <2>9, <2>10, ReaderStep, Zenon
<1> QED  BY <1>2, <1>3, Zenon

\* fffs_seek starts.
LEMMA SeekKeeps ==
  ASSUME IInv, NEW p \in 0 .. size, Seek(p)
  PROVE  IInv'
<1>1. /\ mode = "read" /\ pc = "idle" /\ pc' = "seek" /\ todo' = [Idle EXCEPT !.left = p]
      /\ f' = (IF p < f.off THEN AtRoot(f) ELSE f)
      /\ mode' = mode /\ size' = size /\ pos' = pos /\ flash' = flash
  BY Zenon DEF Seek
<1>2. /\ f \in HandlesOf /\ On(flash, f) /\ Len(f.cache) <= CacheSize
      /\ pos \in Nat /\ size \in Nat /\ pos <= size /\ f.off \in Nat
  BY <1>1, ReaderFacts, Zenon
<1>3. p \in Nat /\ p <= size
  BY <1>2
<1>4. todo' \in Todos /\ todo'.left = p
  BY <1>1, <1>3 DEF Idle, Todos
<1>5. /\ f' \in HandlesOf /\ On(flash, f') /\ f'.head = f.head /\ f'.at = f.at
      /\ Len(f'.cache) <= CacheSize /\ f'.off <= p
  <2>1. CASE p < f.off
    <3>1. StartOf(AtRoot(f), f.head) /\ AtRoot(f).off = 0 /\ f' = AtRoot(f)
      BY <1>1, <2>1, AtRootOn, Zenon
    <3>2. /\ f' \in HandlesOf /\ On(flash, f') /\ f'.head = f.head /\ f'.at = f.at
          /\ f'.cache = <<>> /\ f'.off = 0
      BY <3>1, Zenon DEF StartOf
    <3>3. Len(<<>>) <= CacheSize /\ 0 <= p
      BY <1>3, EmptySeq, Sizes
    <3> QED  BY <3>2, <3>3, Zenon
  <2>2. CASE ~(p < f.off)
    <3>1. f' = f
      BY <1>1, <2>2, Zenon
    <3>2. f.off <= p
      BY <1>2, <1>3, <2>2
    <3> QED  BY <1>2, <3>1, <3>2, Zenon
  <2> QED  BY <2>1, <2>2, Zenon
<1>6. pc' \notin {"idle", "read", "hunt"} /\ pc' \in {"idle", "read", "seek", "hunt", "corrupt"}
  BY <1>1
<1> QED  BY <1>1, <1>2, <1>3, <1>4, <1>5, <1>6, ReaderStep, Zenon

\* A seek ends in the extent of its target.
LEMMA ArrivedKeeps ==
  ASSUME IInv, mode = "read", NEW g \in HandlesOf, On(flash, g), g.head = f.head, g.at = f.at,
         Len(g.cache) <= CacheSize, NEW p \in Nat, p <= size, g.off <= p, p <= g.off + g.len,
         Arrived(g, p)
  PROVE  IInv'
<1>1. /\ f' = [g EXCEPT !.dpos = p - g.off] /\ pos' = p /\ pc' = "idle" /\ todo' = Idle
      /\ mode' = mode /\ size' = size /\ flash' = flash
  BY Zenon DEF Arrived
<1>2. PICK off \in Nat, len \in Nat : off = g.off /\ len = g.len
  BY DEF HandlesOf
<1>3. PICK d \in Nat : d = p - off /\ d <= len /\ p = off + d
  BY <1>2, SMTT(30)
<1>4. d <= g.len /\ f' = [g EXCEPT !.dpos = d]
  BY <1>1, <1>2, <1>3, Zenon
<1>5. CursorOf([g EXCEPT !.dpos = d], g, g.cache, d)
  BY <1>4, CursorMoved, Zenon
<1>6. /\ f' \in HandlesOf /\ On(flash, f') /\ f'.head = f.head /\ f'.at = f.at
      /\ f'.off = g.off /\ f'.dpos = d /\ f'.cache = g.cache
  BY <1>4, <1>5, Zenon DEF CursorOf
<1>7. pos' = f'.off + f'.dpos
  BY <1>1, <1>2, <1>3, <1>6, Zenon
<1>8. todo' \in Todos
  BY <1>1 DEF Idle, Todos
<1>9. pc' \notin {"read", "seek", "hunt"} /\ pc' \in {"idle", "read", "seek", "hunt", "corrupt"}
  BY <1>1
<1> QED  BY <1>1, <1>6, <1>7, <1>8, <1>9, ReaderStep, Zenon

\* seek_from_current_position steps over an extent that ends before the target.
LEMMA SeekAdvanceKeeps ==
  ASSUME IInv, pc \in {"seek", "hunt"}, f.off + f.len < todo.left, SeekAdvance
  PROVE  IInv'
<1>1. mode = "read"
  BY DEF IInv, Ranges
<1>2. CASE NextExtent(f) = 0 \/ todo.depth + 1 >= SectorCount
  <2>1. Corrupt
    BY <1>2, Zenon DEF SeekAdvance
  <2> QED  BY <1>1, <2>1, CorruptKeeps, Zenon
<1>3. CASE ~(NextExtent(f) = 0 \/ todo.depth + 1 >= SectorCount)
  <2>1. /\ f' = Advanced(f) /\ todo' = [todo EXCEPT !.depth = todo.depth + 1] /\ pc' = "seek"
        /\ mode' = mode /\ size' = size /\ pos' = pos /\ flash' = flash
    BY <1>3, Zenon DEF SeekAdvance
  <2>2. NextExtent(f) # 0
    BY <1>3, Zenon
  <2>3. StartOf(Advanced(f), NextExtent(f)) /\ Advanced(f).off = f.off + f.len
    BY <1>1, <2>2, AdvancedOn, Zenon
  <2>4. /\ f' \in HandlesOf /\ On(flash, f') /\ f'.head = f.head /\ f'.at = f.at
        /\ f'.cache = <<>> /\ f'.off = f.off + f.len
    BY <2>1, <2>3, Zenon DEF StartOf
  <2>5. /\ pos \in Nat /\ size \in Nat /\ pos <= size /\ todo \in Todos /\ todo.left \in Nat
        /\ f.off \in Nat /\ f.len \in Nat
    BY <1>1, ReaderFacts, Zenon
  <2>6. todo' \in Todos /\ todo'.left = todo.left
    BY <2>1, <2>5 DEF Todos
  <2>7. Len(<<>>) <= CacheSize
    BY EmptySeq, Sizes
  <2>8. f'.off <= todo'.left
    BY <2>4, <2>5, <2>6
  <2>9. todo.left <= size
    BY <1>1, Zenon DEF IInv, Reading
  <2>10. pc' \notin {"idle", "read", "hunt"} /\ pc' \in {"idle", "read", "seek", "hunt", "corrupt"}
    BY <2>1
  <2> QED  BY <1>1, <2>1, <2>4, <2>5, <2>6, <2>7, <2>8, <2>9, <2>10, ReaderStep, Zenon
<1> QED  BY <1>2, <1>3, Zenon

\* A round of seek_from_current_position.
LEMMA SeekStepKeeps ==
  ASSUME IInv, SeekStep
  PROVE  IInv'
<1>1. pc = "seek" /\ mode = "read"
  BY Zenon DEF SeekStep, IInv, Ranges
<1>2. /\ f \in HandlesOf /\ On(flash, f) /\ Len(f.cache) <= CacheSize
      /\ pos \in Nat /\ size \in Nat /\ pos <= size /\ todo \in Todos /\ todo.left \in Nat
      /\ f.off \in Nat /\ f.len \in Nat /\ f.span \in Nat
  BY <1>1, ReaderFacts, Zenon
<1>3. f.off <= todo.left /\ todo.left <= size
  BY <1>1, Zenon DEF IInv, Reading
<1>4. CASE todo.left <= f.off + f.len
  <2>1. Arrived(f, todo.left)
    BY <1>4, Zenon DEF SeekStep
  <2> QED  BY <1>1, <1>2, <1>3, <1>4, <2>1, ArrivedKeeps, Zenon
<1>5. CASE ~(todo.left <= f.off + f.len) /\ f.span <= 1
  <2>1. SeekAdvance
    BY <1>5, Zenon DEF SeekStep
  <2>2. f.off + f.len < todo.left
    BY <1>2, <1>5
  <2> QED  BY <1>1, <2>1, <2>2, SeekAdvanceKeeps, Zenon
<1>6. CASE ~(todo.left <= f.off + f.len) /\ ~(f.span <= 1)
  <2>1. /\ pc' = "hunt" /\ todo' = [todo EXCEPT !.low = 1, !.high = f.span - 1]
        /\ mode' = mode /\ size' = size /\ pos' = pos /\ flash' = flash /\ f' = f
    BY <1>6, Zenon DEF SeekStep
  <2>2. f.off + f.len < todo.left
    BY <1>2, <1>6
  <2>3. PICK h \in Nat : h = f.span - 1 /\ h < f.span
    BY <1>2, <1>6
  <2>4. todo' \in Todos /\ todo'.left = todo.left /\ todo'.low = 1 /\ todo'.high = h
    BY <1>2, <2>1, <2>3, ZenonT(30) DEF Todos
  <2>5. pc' \notin {"idle", "read"} /\ pc' \in {"idle", "read", "seek", "hunt", "corrupt"} /\ 1 <= 1
    BY <2>1
  <2> QED  BY <1>1, <1>2, <1>3, <2>1, <2>2, <2>3, <2>4, <2>5, ReaderStep, Zenon
<1> QED  BY <1>4, <1>5, <1>6, Zenon

\* hunt_current_span looks only at extents of the span.
LEMMA GuessRange ==
  ASSUME IInv, pc = "hunt", todo.low <= todo.high
  PROVE  Guess \in Nat /\ todo.low <= Guess /\ Guess <= todo.high
<1>1. mode = "read"
  BY DEF IInv, Ranges
<1>2. PICK low \in Nat, high \in Nat : low = todo.low /\ high = todo.high /\ low <= high
  BY DEF IInv, Ranges
<1>3. PICK d \in Nat : d = todo.left - f.off
  <2>1. f.off \in Nat /\ todo.left \in Nat
    BY <1>1, ReaderFacts, Zenon
  <2>2. f.off <= todo.left
    BY <1>1, Zenon DEF IInv, Reading
  <2> QED  BY <2>1, <2>2
<1>4. PICK e \in Nat \ {0} : e = Estimate
  <2>0. Window % Granule \in Nat
    BY Sizes
  <2>1. PICK w \in Int : w = Window - (Window % Granule)
    BY <2>0, Sizes
  <2>2. Max({1, w}) = IF 1 >= w THEN 1 ELSE w
    BY MinOfTwo
  <2>3. (IF 1 >= w THEN 1 ELSE w) \in Nat \ {0}
    OBVIOUS
  <2> QED  BY <2>1, <2>2, <2>3, Zenon DEF Estimate
<1>5. PICK q \in Nat : q = d \div e
  OBVIOUS
<1>6. PICK a \in Nat : a = Max({low, q}) /\ a >= low
  <2>1. Max({low, q}) = IF low >= q THEN low ELSE q
    BY MinOfTwo
  <2>2. PICK m \in Nat : m = (IF low >= q THEN low ELSE q) /\ m >= low
    OBVIOUS
  <2> QED  BY <2>1, <2>2, Zenon
<1>7. PICK b \in Nat : b = Min({high, a}) /\ low <= b /\ b <= high
  <2>1. Min({high, a}) = IF high <= a THEN high ELSE a
    BY MinOfTwo
  <2>2. PICK m \in Nat : m = IF high <= a THEN high ELSE a
    OBVIOUS
  <2>3. low <= m /\ m <= high
    BY <1>2, <1>6, <2>2
  <2> QED  BY <2>1, <2>2, <2>3, Zenon
<1>8. Guess = b
  BY <1>2, <1>3, <1>4, <1>5, <1>6, <1>7, Zenon DEF Guess
<1> QED  BY <1>2, <1>7, <1>8, Zenon

\* A round of hunt_current_span.
LEMMA HuntStepKeeps ==
  ASSUME IInv, HuntStep
  PROVE  IInv'
<1> DEFINE s == f.cur + Guess
           off == IF flash[s].rec.root THEN 0 ELSE flash[s].rec.off
<1>1. pc = "hunt" /\ mode = "read"
  BY Zenon DEF HuntStep, IInv, Ranges
<1>2. /\ f \in HandlesOf /\ On(flash, f) /\ Len(f.cache) <= CacheSize
      /\ pos \in Nat /\ size \in Nat /\ pos <= size /\ todo \in Todos /\ todo.left \in Nat
      /\ f.off \in Nat /\ f.len \in Nat /\ f.span \in Nat
  BY <1>1, ReaderFacts, Zenon
<1>3. /\ f.off <= todo.left /\ todo.left <= size /\ f.off + f.len < todo.left
      /\ 1 <= todo.low /\ todo.high < f.span
  BY <1>1, Zenon DEF IInv, Reading
<1>4. todo.low \in Nat /\ todo.high \in Nat
  BY <1>2 DEF Todos
<1>5. CASE todo.low > todo.high
  <2>1. SeekAdvance
    BY <1>5, Zenon DEF HuntStep
  <2> QED  BY <1>1, <1>3, <2>1, SeekAdvanceKeeps, Zenon
<1>6. CASE ~(todo.low > todo.high)
  <2>1. todo.low <= todo.high
    BY <1>4, <1>6
  <2>2. PICK k \in Nat : k = Guess /\ todo.low <= k /\ k <= todo.high
    BY <1>1, <2>1, GuessRange, Zenon
  <2>3. f.cur \in Sectors /\ Used(f.cur) /\ f.span = Rec(f.cur).span
    BY <1>2, Zenon DEF On, Used, Rec
  <2>4. k \in 1 .. (f.span - 1)
    BY <1>2, <1>3, <1>4, <2>2
  <2>5. f.cur + k \in Sectors /\ f.cur + k # f.head /\ Used(f.cur + k)
    BY <1>1, <2>3, <2>4, ClosedExtent, Zenon
  <2>6. s = f.cur + k
    BY <2>2, Zenon
  <2> HIDE DEF s
  <2>7. s \in Sectors /\ s # f.head /\ Used(s)
    BY <2>5, <2>6, Zenon
  <2>8. off = Rec(s).off
    BY <2>7, Zenon DEF IInv, Extents, ExtentKept, Rec
  <2>9. Rec(s).off \in Nat /\ Rec(s).len \in Nat
    BY <2>7, RecordTyped DEF IInv
  <2>10. CASE todo.left \in off .. (off + flash[s].rec.len)
    <3>1. Arrived(AtExtent(f, s, off), todo.left)
      BY <1>6, <2>10, Zenon DEF HuntStep, s
    <3>2. PICK g : g = AtExtent(f, s, off)
      OBVIOUS
    <3>3. StartOf(g, s) /\ g.len = Rec(s).len
      BY <1>1, <2>7, <2>8, <3>2, AtExtentOn, Zenon
    <3>4. /\ g \in HandlesOf /\ On(flash, g) /\ g.head = f.head /\ g.at = f.at
          /\ g.off = Rec(s).off /\ g.cache = <<>>
      BY <3>3, Zenon DEF StartOf
    <3>5. Len(<<>>) <= CacheSize
      BY EmptySeq, Sizes
    <3>6. Rec(s).off <= todo.left /\ todo.left <= Rec(s).off + Rec(s).len
      <4>1. todo.left \in Rec(s).off .. (Rec(s).off + Rec(s).len)
        BY <2>8, <2>10, Zenon DEF Rec
      <4> QED  BY <2>9, <4>1
    <3> QED  BY <1>1, <1>2, <1>3, <3>1, <3>2, <3>3, <3>4, <3>5, <3>6, ArrivedKeeps, Zenon
  <2>11. CASE ~(todo.left \in off .. (off + flash[s].rec.len))
    <3>1. /\ todo' = (IF todo.left < off THEN [todo EXCEPT !.high = Guess - 1]
                      ELSE [todo EXCEPT !.low = Guess + 1])
          /\ mode' = mode /\ size' = size /\ pos' = pos /\ flash' = flash /\ f' = f /\ pc' = pc
      BY <1>6, <2>11, Zenon DEF HuntStep, s
    <3>2. PICK a \in Nat, b \in Nat : a = k - 1 /\ b = k + 1 /\ a < f.span /\ 1 <= b
      BY <1>2, <2>4
    <3>3. todo' = [todo EXCEPT !.high = a] \/ todo' = [todo EXCEPT !.low = b]
      BY <2>2, <3>1, <3>2, Zenon
    <3>4. /\ todo' \in Todos /\ todo'.left = todo.left
          /\ todo'.low \in {todo.low, b} /\ todo'.high \in {todo.high, a}
      <4>1. todo \in Todos /\ a \in Int /\ b \in Int
        BY <1>2, <3>2
      <4>2. CASE todo' = [todo EXCEPT !.high = a]
        BY <3>2, <4>1, <4>2, SMTT(30) DEF Todos
      <4>3. CASE todo' = [todo EXCEPT !.low = b]
        BY <3>2, <4>1, <4>3, SMTT(30) DEF Todos
      <4> QED  BY <3>3, <4>2, <4>3, Zenon
    <3>5. 1 <= todo'.low /\ todo'.high < f.span
      BY <1>3, <3>2, <3>4, Zenon
    <3>6. pc' \notin {"idle", "read"} /\ pc' \in {"idle", "read", "seek", "hunt", "corrupt"}
      BY <1>1, <3>1
    <3> QED  BY <1>1, <1>2, <1>3, <3>1, <3>4, <3>5, <3>6, ReaderStep, Zenon
  <2> QED  BY <2>10, <2>11, Zenon
<1> QED  BY <1>5, <1>6, Zenon

=============================================================================
