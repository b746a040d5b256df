---------------------------- MODULE FileIO_proofs ----------------------------
(***************************************************************************)
(* Proofs about FileIO: for any sector, cache and granule sizes, any sizes *)
(* of the writes and reads and any sectors the allocator gives, the caches *)
(* of a handle agree with flash and a handle is a stream of bytes.  The    *)
(* invariant and the steps of a reader are in FileIOSteps_proofs.          *)
(***************************************************************************)
EXTENDS FileIOSteps_proofs

-----------------------------------------------------------------------------
(* The steps of a writer. *)

\* current_extent_capacity.
LEMMA CapacityIs ==
  ASSUME NEW g \in HandlesOf
  PROVE  /\ Capacity(g) \in Nat
         /\ Capacity(g) > 0 => Capacity(g) = g.md - g.data - Lead(g)
<1>1. PICK md \in Nat, data \in Nat, lead \in Nat : md = g.md /\ data = g.data /\ lead = Lead(g)
  BY Sizes DEF HandlesOf, Lead
<1>2. PICK w \in Int : w = md - data - lead
  OBVIOUS
<1>3. Max({0, w}) = IF 0 >= w THEN 0 ELSE w
  BY MinOfTwo
<1>4. PICK c \in Nat : c = (IF 0 >= w THEN 0 ELSE w) /\ (c > 0 => c = w)
  OBVIOUS
<1>5. Capacity(g) = Max({0, w})
  BY <1>1, <1>2, Zenon DEF Capacity, Lead
<1> QED  BY <1>1, <1>2, <1>3, <1>4, <1>5, Zenon

\* A writer goes on in its extent: only cells of its sector, its cache and the
\* length of the extent change.
LEMMA WriteFrame ==
  ASSUME IInv, mode = "write", mode' = mode, pos' = pos,
         flash' \in [Sectors -> SectorsOf], f' \in HandlesOf, Len(f'.cache) <= CacheSize,
         f'.head = f.head, f'.cur = f.cur, f'.off = f.off, f'.span = f.span, f'.dpos = f.dpos,
         \A s \in Sectors : flash'[s].rec = flash[s].rec /\ (s # f.cur => flash'[s] = flash[s]),
         size' \in Nat, size' <= MaxSize, todo' \in Todos, pc' \in {"idle", "write"},
         pc' = "write" => size' + todo'.left <= MaxSize, Pending(flash', f', size'),
         Capacity(f') <= f'.len \/ f'.at = Reached(f')
  PROVE  IInv'
<1>1. \A s \in Sectors : Rec(s)' = Rec(s) /\ (Used(s)' <=> Used(s))
  BY DEF Rec, Used
<1>2. Chain /\ (\A s \in Sectors : ~Used(s) /\ s # f.cur => \A i \in Cells : flash[s].cell[i] = Erased)
  BY DEF IInv, Writing
<1>3. Ranges'
  BY DEF IInv, Ranges, Todos
<1>4. Extents'
  <2> SUFFICES ASSUME NEW s \in Sectors, Used(s)'
               PROVE  ExtentKept(s)'
    BY DEF Extents
  <2>1. Used(s) /\ ExtentKept(s)
    BY <1>1 DEF IInv, Extents
  <2>2. s # f.cur
    BY <1>2, <2>1, Zenon DEF Chain
  <2>3. flash'[s] = flash[s]
    BY <2>2, Zenon
  <2> QED  BY <2>1, <2>3 DEF ExtentKept, Rec, Skip
<1>5. \A s \in Sectors : EndOf(s)' = EndOf(s) /\ Succ(s)' = Succ(s)
  BY <1>1, Zenon DEF EndOf, Succ
<1>6. \A s \in Sectors : \A t : Linked(s, t) => Linked(s, t)'
  <2> SUFFICES ASSUME NEW s \in Sectors, NEW t, Linked(s, t)
               PROVE  Linked(s, t)'
    BY Zenon
  <2>1. t \in Sectors /\ t # f.head
    BY Zenon DEF Linked
  <2>2. IF mode = "write" /\ t = f.cur THEN EndOf(s) = f.off
        ELSE Used(t) /\ Rec(t).off = EndOf(s)
    BY Zenon DEF Linked
  <2>3. IF mode' = "write" /\ t = f'.cur THEN EndOf(s)' = f'.off
        ELSE Used(t)' /\ Rec(t)'.off = EndOf(s)'
    BY <1>1, <1>5, <2>1, <2>2
  <2> QED  BY <2>1, <2>3, Zenon DEF Linked
<1>7. \A s \in Sectors : Finished(s) => Finished(s)'
  <2> SUFFICES ASSUME NEW s \in Sectors, Finished(s)
               PROVE  Finished(s)'
    BY Zenon
  <2>1. Rec(s).span >= 1 /\ Succ(s) # 0 /\ Linked(s, Succ(s))
    BY Zenon DEF Finished
  <2>2. \A k \in 1 .. (Rec(s).span - 1) : s + k \in Sectors /\ s + k # f.head /\ Used(s + k)
    BY Zenon DEF Finished
  <2>3. Linked(s, Succ(s))'
    BY <1>5, <1>6, <2>1, Zenon
  <2>4. \A k \in 1 .. (Rec(s)'.span - 1) : s + k \in Sectors /\ s + k # f'.head /\ Used(s + k)'
    BY <1>1, <2>2
  <2> QED  BY <1>1, <1>5, <2>1, <2>3, <2>4, Zenon DEF Finished
<1>8. Chain'
  <2>1. /\ f.head \in Sectors /\ f.cur \in Sectors /\ f.span \in Sectors /\ f.span <= f.cur
        /\ ~Used(f.cur) /\ (f.head # f.cur => Used(f.head))
        /\ \A s \in f.span .. (f.cur - 1) : Used(s) /\ Linked(s, s + 1)
        /\ \A s \in Sectors : Used(s) /\ s # f.span => Finished(s)
    BY <1>2, Zenon DEF Chain
  <2>2. \A s \in f.span .. (f.cur - 1) : s \in Sectors
    BY <2>1, Sizes, SMTT(30) DEF Sectors
  <2>3. \A s \in f.span .. (f.cur - 1) : Used(s)' /\ Linked(s, s + 1)'
    BY <1>1, <1>6, <2>1, <2>2, Zenon
  <2>4. \A s \in Sectors : Used(s)' /\ s # f.span => Finished(s)'
    BY <1>1, <1>7, <2>1, Zenon
  <2>5. ~(flash'[f'.cur].rec # NoRec) /\ (f.head # f.cur => flash'[f'.head].rec # NoRec)
    BY <2>1 DEF Used
  <2> QED  BY <2>1, <2>3, <2>4, <2>5 DEF Chain, Used
<1>9. Writing'
  <2>1. \A s \in Sectors : ~Used(s)' /\ s # f'.cur => \A i \in Cells : flash'[s].cell[i] = Erased
    BY <1>1, <1>2
  <2>2. pos = 0
    BY DEF IInv, Writing
  <2>3. f'.len < Capacity(f') => f'.at = Reached(f')
    <3>1. PICK len \in Nat, cap \in Nat : len = f'.len /\ cap = Capacity(f')
      BY CapacityIs DEF HandlesOf
    <3>2. ~(cap <= len /\ len < cap)
      OBVIOUS
    <3> QED  BY <3>1, <3>2, Zenon
  <2> QED  BY <1>8, <2>1, <2>2, <2>3 DEF Writing
<1>10. Closed' /\ Reading'
  BY DEF Closed, Reading
<1>11. Fields'
  BY DEF Fields, IInv
<1> QED  BY <1>3, <1>4, <1>9, <1>10, <1>11 DEF IInv

\* What is known of a writer before a step.
LEMMA WriterFacts ==
  ASSUME IInv, mode = "write"
  PROVE  /\ flash \in [Sectors -> SectorsOf] /\ f \in HandlesOf /\ Len(f.cache) <= CacheSize
         /\ pos = 0 /\ size \in Nat /\ size <= MaxSize /\ todo \in Todos /\ todo.left \in Nat
         /\ Pending(flash, f, size) /\ Chain /\ f.cur \in Sectors /\ f.dpos = 0
         /\ Capacity(f) <= f.len \/ f.at = Reached(f)
<1>1. /\ flash \in [Sectors -> SectorsOf] /\ f \in HandlesOf /\ Len(f.cache) <= CacheSize
      /\ size \in Nat /\ todo \in Todos
  BY Zenon DEF IInv, Ranges, Todos
<1>2. pos = 0 /\ size <= MaxSize /\ Pending(flash, f, size) /\ Chain
  BY DEF IInv, Writing
<1>3. f.cur \in Sectors
  BY <1>2, Zenon DEF Chain
<1>4. todo.left \in Nat
  BY <1>1 DEF Todos
<1>5. f.dpos = 0
  BY DEF IInv, Fields
<1>6. Capacity(f) <= f.len \/ f.at = Reached(f)
  <2>1. PICK len \in Nat, cap \in Nat : len = f.len /\ cap = Capacity(f)
    BY <1>1, CapacityIs DEF HandlesOf
  <2>2. cap <= len \/ len < cap
    OBVIOUS
  <2>3. f.len < Capacity(f) => f.at = Reached(f)
    BY Zenon DEF IInv, Writing
  <2> QED  BY <2>1, <2>2, <2>3, Zenon
<1> QED  BY <1>1, <1>2, <1>3, <1>4, <1>5, <1>6, Zenon

\* fffs_write starts.
LEMMA WriteKeeps ==
  ASSUME IInv, NEW n \in WriteSizes, Write(n)
  PROVE  IInv'
<1>1. /\ mode = "write" /\ size + n <= MaxSize /\ pc' = "write" /\ todo' = [Idle EXCEPT !.left = n]
      /\ mode' = mode /\ size' = size /\ pos' = pos /\ flash' = flash /\ f' = f
  BY Zenon DEF Write
<1>2. /\ flash \in [Sectors -> SectorsOf] /\ f \in HandlesOf /\ Len(f.cache) <= CacheSize
      /\ size \in Nat /\ size <= MaxSize /\ Pending(flash, f, size)
      /\ Capacity(f) <= f.len \/ f.at = Reached(f)
  BY <1>1, WriterFacts, Zenon
<1>3. n \in Nat
  BY FileIOAssumption
<1>4. todo' \in Todos /\ todo'.left = n
  BY <1>1, <1>3 DEF Idle, Todos
<1>5. Pending(flash', f', size') /\ (Capacity(f') <= f'.len \/ f'.at = Reached(f'))
  BY <1>1, <1>2, Zenon
<1> QED  BY <1>1, <1>2, <1>4, <1>5, WriteFrame, Zenon

\* The allocator has no sector: what is in the cache is programmed.
LEMMA WriteNoSpaceKeeps ==
  ASSUME IInv, WriteNoSpace
  PROVE  IInv'
<1>1. pc = "write" /\ mode = "write"
  BY Zenon DEF WriteNoSpace, IInv, Ranges
<1>2. /\ f' = FlushFile(f, TRUE) /\ flash' = FlushFlash(flash, f, TRUE) /\ pc' = "idle"
      /\ todo' = Idle /\ mode' = mode /\ size' = size /\ pos' = pos
  BY Zenon DEF WriteNoSpace
<1>3. /\ flash \in [Sectors -> SectorsOf] /\ f \in HandlesOf /\ Len(f.cache) <= CacheSize
      /\ size \in Nat /\ size <= MaxSize /\ Pending(flash, f, size) /\ f.cur \in Sectors
  BY <1>1, WriterFacts, Zenon
<1>4. TRUE \in BOOLEAN
  OBVIOUS
<1>5. /\ f' \in HandlesOf /\ flash' \in [Sectors -> SectorsOf] /\ Pending(flash', f', size)
      /\ Len(f'.cache) <= Len(f.cache)
      /\ f'.head = f.head /\ f'.cur = f.cur /\ f'.off = f.off /\ f'.dpos = f.dpos
      /\ f'.span = f.span /\ f'.data = f.data /\ f'.md = f.md /\ f'.len = f.len
      /\ \A s \in Sectors : flash'[s].rec = flash[s].rec /\ (s # f.cur => flash'[s] = flash[s])
  <2>1. FlushedTo(flash, f, size, FlushFlash(flash, f, TRUE), FlushFile(f, TRUE))
    BY <1>3, <1>4, FlushKeeps, Zenon
  <2>2. FlushedTo(flash, f, size, flash', f')
    BY <1>2, <2>1, Zenon
  <2> QED  BY <2>2, Zenon DEF FlushedTo
<1>6. Len(f'.cache) <= CacheSize
  <2>1. PICK a \in Nat, b \in Nat : a = Len(f.cache) /\ b = Len(f'.cache)
    BY <1>3, <1>5 DEF HandlesOf
  <2>2. a <= CacheSize /\ b <= a
    BY <1>3, <1>5, <2>1, Zenon
  <2>3. b <= CacheSize
    BY <2>2, Sizes
  <2> QED  BY <2>1, <2>3, Zenon
<1>7. todo' \in Todos
  BY <1>2 DEF Idle, Todos
<1>8. pc' # "write" /\ pc' \in {"idle", "write"}
  BY <1>2
<1>9. Pending(flash', f', size')
  BY <1>2, <1>5, Zenon
<1>10. Capacity(f') <= f'.len
  <2>1. Capacity(f') = Capacity(f)
    BY <1>5, Zenon DEF Capacity
  <2>2. f.len >= Capacity(f)
    BY Zenon DEF WriteNoSpace
  <2>3. PICK len \in Nat, cap \in Nat : len = f.len /\ cap = Capacity(f)
    BY <1>3, CapacityIs DEF HandlesOf
  <2>4. len >= cap => cap <= len
    OBVIOUS
  <2> QED  BY <1>5, <2>1, <2>2, <2>3, <2>4, Zenon
<1> QED  BY <1>1, <1>2, <1>3, <1>5, <1>6, <1>7, <1>8, <1>9, <1>10, WriteFrame, Zenon

\* A handle with n bytes of the file, which has sz, put in its cache.
Appended(g, n, sz) == [g EXCEPT !.cache = g.cache \o Fresh(sz, n), !.len = g.len + n]

\* The handle h after that.
AppendedTo(g, n, sz, h) ==
    /\ h \in HandlesOf /\ Pending(flash, h, sz + n) /\ Len(h.cache) = Len(g.cache) + n
    /\ h.head = g.head /\ h.cur = g.cur /\ h.off = g.off /\ h.span = g.span
    /\ h.dpos = g.dpos /\ h.at = Reached(h)

\* Bytes that fit in the extent and in the cache can be put there.
LEMMA AppendKeeps ==
  ASSUME NEW g \in HandlesOf, g.cur \in Sectors, flash \in [Sectors -> SectorsOf],
         NEW sz \in Nat, Pending(flash, g, sz), NEW n \in Nat, g.at = Reached(g),
         g.data + Lead(g) + g.len + n <= g.md
  PROVE  AppendedTo(g, n, sz, Appended(g, n, sz))
<1> DEFINE cell == flash[g.cur].cell
           c == g.cache \o Fresh(sz, n)
           h == Appended(g, n, sz)
<1>1. /\ g.off \in Nat /\ g.len \in Nat /\ g.data \in Nat /\ g.at \in Nat /\ g.md \in Nat
      /\ g.cache \in Seq(Nat) /\ Lead(g) \in Nat /\ cell \in [Cells -> Nat]
  <2>1. /\ g.off \in Nat /\ g.len \in Nat /\ g.data \in Nat /\ g.at \in Nat /\ g.md \in Nat
        /\ g.cache \in Seq(Nat)
    BY DEF HandlesOf
  <2>2. Lead(g) \in Nat
    BY LeadIsNat, Zenon
  <2>3. cell \in [Cells -> Nat]
    BY DEF SectorsOf
  <2> QED  BY <2>1, <2>2, <2>3, Zenon
<1>2. /\ Held(cell, g.cache, Lead(g), g.off, g.len, g.data, g.at, g.md)
      /\ (g.cur = g.head => g.off = 0) /\ sz = g.off + g.len
  BY Zenon DEF Pending
<1>3. /\ c \in Seq(Nat) /\ Len(c) = Len(g.cache) + n
      /\ Held(cell, c, Lead(g), g.off, g.len + n, g.data, g.at, g.md)
  <2> HIDE DEF cell
  <2>1. PICK lead \in Nat, off \in Nat, len \in Nat, data \in Nat, at \in Nat, md \in Nat :
          /\ lead = Lead(g) /\ off = g.off /\ len = g.len /\ data = g.data /\ at = g.at
          /\ md = g.md
    BY <1>1, Zenon
  <2>2. PICK cache \in Seq(Nat), q \in [Cells -> Nat] : cache = g.cache /\ q = cell
    BY <1>1, Zenon
  <2>5. Held(q, cache, lead, off, len, data, at, md) /\ sz = off + len
    BY <1>2, <2>1, <2>2, Zenon
  <2>3. data + lead + len + n <= md
    BY <2>1, Zenon
  <2>4. FreshHeld(q, cache, lead, off, len, data, at, md, n, sz)
    BY <2>3, <2>5, HeldAppended, Zenon
  <2> QED  BY <2>1, <2>2, <2>4, Zenon DEF FreshHeld
<1> HIDE DEF c
<1>4. PICK k \in Seq(Nat), m \in Nat : k = c /\ m = g.len + n
  BY <1>1, <1>3
<1>5. h = [g EXCEPT !.cache = k, !.len = m]
  BY <1>4, Zenon DEF Appended, c
<1> HIDE DEF h
<1>6. /\ h \in HandlesOf /\ h.cache = k /\ h.len = m /\ h.head = g.head /\ h.cur = g.cur
      /\ h.off = g.off /\ h.span = g.span /\ h.dpos = g.dpos /\ h.data = g.data /\ h.at = g.at
      /\ h.md = g.md
  BY <1>5 DEF HandlesOf
<1>7. Lead(h) = Lead(g)
  BY <1>6, Zenon DEF Lead
<1>8. h.off + h.len = sz + n
  <2>1. PICK a \in Nat, b \in Nat : a = g.off /\ b = g.len
    BY <1>1, Zenon
  <2>2. a + (b + n) = (a + b) + n
    OBVIOUS
  <2> QED  BY <1>2, <1>4, <1>6, <2>1, <2>2, Zenon
<1>11. h.at = Reached(h)
  <2>1. PICK d \in Nat, l \in Nat, b \in Nat, L \in Nat :
          d = g.data /\ l = Lead(g) /\ b = g.len /\ L = Len(g.cache)
    BY <1>1
  <2>2. Reached(h) = d + l + (b + n) - (L + n)
    BY <1>3, <1>4, <1>6, <1>7, <2>1, Zenon DEF Reached
  <2>3. Reached(g) = d + l + b - L
    BY <2>1, Zenon DEF Reached
  <2>4. d + l + (b + n) - (L + n) = d + l + b - L
    OBVIOUS
  <2> QED  BY <1>6, <2>2, <2>3, <2>4, Zenon
<1>9. Held(flash[h.cur].cell, h.cache, Lead(h), h.off, h.len, h.data, Reached(h), h.md)
  BY <1>3, <1>4, <1>6, <1>7, <1>11, Zenon
<1>10. Pending(flash, h, sz + n)
  BY <1>2, <1>6, <1>8, <1>9, <1>11, Zenon DEF Pending, Ahead
<1> QED  BY <1>3, <1>4, <1>6, <1>10, <1>11, Zenon DEF AppendedTo, h

\* A round of the loop of fffs_write, with the flush of a full cache.
LEMMA WriteCopyKeeps ==
  ASSUME IInv, WriteCopy
  PROVE  /\ IInv'
         /\ mode = "write" /\ mode' = mode /\ pos' = pos /\ out' = out
         /\ \E n \in Nat : size' = size + n
<1> DEFINE n == Min({todo.left, Capacity(f) - f.len, CacheSize - Len(f.cache)})
           g == Appended(f, n, size)
           full == Len(g.cache) = CacheSize
<1>1. pc = "write" /\ mode = "write"
  BY Zenon DEF WriteCopy, IInv, Ranges
<1>2. /\ f.len < Capacity(f) /\ size' = size + n /\ mode' = mode /\ pos' = pos /\ out' = out
      /\ f' = (IF full THEN FlushFile(g, FALSE) ELSE g)
      /\ flash' = (IF full THEN FlushFlash(flash, g, FALSE) ELSE flash)
      /\ todo' = [todo EXCEPT !.left = todo.left - n]
      /\ pc' = (IF todo.left = n THEN "idle" ELSE "write")
  BY Zenon DEF WriteCopy, Appended, Fresh
<1>3. /\ flash \in [Sectors -> SectorsOf] /\ f \in HandlesOf /\ Len(f.cache) <= CacheSize
      /\ size \in Nat /\ size <= MaxSize /\ Pending(flash, f, size) /\ f.cur \in Sectors
      /\ todo \in Todos /\ todo.left \in Nat
  BY <1>1, WriterFacts, Zenon
<1>4. PICK md \in Nat, data \in Nat, lead \in Nat, len \in Nat, L \in Nat, left \in Nat :
        /\ md = f.md /\ data = f.data /\ lead = Lead(f) /\ len = f.len /\ L = Len(f.cache)
        /\ left = todo.left
  <2>1. f.md \in Nat /\ f.data \in Nat /\ f.len \in Nat /\ Len(f.cache) \in Nat
    BY <1>3 DEF HandlesOf
  <2>2. Lead(f) \in Nat
    BY Sizes DEF Lead
  <2> QED  BY <1>3, <2>1, <2>2, Zenon
<1>5. PICK cap \in Nat : cap = Capacity(f) /\ (cap > 0 => cap = md - data - lead)
  BY <1>3, <1>4, CapacityIs, Zenon
<1>6. len < cap /\ L <= CacheSize
  BY <1>2, <1>3, <1>4, <1>5, Zenon
<1>7. PICK m \in Nat : m = n /\ m <= left /\ m <= cap - len /\ m <= CacheSize - L
  <2>1. n = Min({left, cap - len, CacheSize - L})
    BY <1>4, <1>5, Zenon
  <2>2. PICK a \in Nat, b \in Nat : a = cap - len /\ b = CacheSize - L
    BY <1>6, Sizes
  <2>3. /\ Min({left, a, b}) \in {left, a, b} /\ Min({left, a, b}) <= left
        /\ Min({left, a, b}) <= a /\ Min({left, a, b}) <= b
    <3>1. left \in Int /\ a \in Int /\ b \in Int
      OBVIOUS
    <3> QED  BY <3>1, MinOfThree, Zenon
  <2>4. Min({left, a, b}) \in Nat
    BY <2>3, Zenon
  <2> QED  BY <2>1, <2>2, <2>3, <2>4, Zenon
<1>8. data + lead + len + m <= md /\ L + m <= CacheSize
  BY <1>5, <1>6, <1>7, Sizes
<1>9. f.data + Lead(f) + f.len + m <= f.md /\ f.at = Reached(f)
  <2>1. ~(cap <= len)
    BY <1>6
  <2> QED  BY <1>1, <1>4, <1>5, <1>8, <2>1, WriterFacts, Zenon
<1>10. g = Appended(f, m, size)
  BY <1>7, Zenon
<1> HIDE DEF g
<1>11. /\ g \in HandlesOf /\ Pending(flash, g, size + m) /\ Len(g.cache) = Len(f.cache) + m
       /\ g.head = f.head /\ g.cur = f.cur /\ g.off = f.off /\ g.span = f.span
       /\ g.dpos = f.dpos /\ g.at = Reached(g)
  <2>1. AppendedTo(f, m, size, Appended(f, m, size))
    BY <1>3, <1>9, AppendKeeps, Zenon
  <2> QED  BY <1>10, <2>1, Zenon DEF AppendedTo
<1>12. Len(g.cache) <= CacheSize /\ size + m \in Nat
  BY <1>3, <1>4, <1>8, <1>11
<1>13. /\ f' \in HandlesOf /\ flash' \in [Sectors -> SectorsOf] /\ Pending(flash', f', size + m)
       /\ Len(f'.cache) <= CacheSize
       /\ f'.head = f.head /\ f'.cur = f.cur /\ f'.off = f.off /\ f'.dpos = f.dpos
       /\ f'.span = f.span /\ f'.at = Reached(f')
       /\ \A s \in Sectors : flash'[s].rec = flash[s].rec /\ (s # f.cur => flash'[s] = flash[s])
  <2>1. CASE full
    <3>1. f' = FlushFile(g, FALSE) /\ flash' = FlushFlash(flash, g, FALSE)
      BY <1>2, <2>1, Zenon
    <3>2. FALSE \in BOOLEAN /\ g.cur \in Sectors
      BY <1>3, <1>11
    <3>3. /\ f' \in HandlesOf /\ flash' \in [Sectors -> SectorsOf] /\ Pending(flash', f', size + m)
          /\ Len(f'.cache) <= Len(g.cache)
          /\ f'.head = g.head /\ f'.cur = g.cur /\ f'.off = g.off /\ f'.dpos = g.dpos
          /\ f'.span = g.span
          /\ \A s \in Sectors : flash'[s].rec = flash[s].rec /\ (s # g.cur => flash'[s] = flash[s])
      <4>1. FlushedTo(flash, g, size + m, FlushFlash(flash, g, FALSE), FlushFile(g, FALSE))
        BY <1>3, <1>11, <1>12, <3>2, FlushKeeps, Zenon
      <4>2. FlushedTo(flash, g, size + m, flash', f')
        BY <3>1, <4>1, Zenon
      <4> QED  BY <4>2, Zenon DEF FlushedTo
    <3>4. Len(f'.cache) <= CacheSize
      <4>1. PICK b \in Nat : b = Len(f'.cache)
        BY <3>3 DEF HandlesOf
      <4>2. b <= CacheSize
        BY <2>1, <3>3, <4>1, Zenon
      <4> QED  BY <4>1, <4>2, Zenon
    <3>5. f'.at = Reached(f')
      <4>1. ~FALSE /\ g.at = Reached(g)
        BY <1>11
      <4>2. FlushFile(g, FALSE).at = Reached(FlushFile(g, FALSE))
        BY <1>3, <1>11, <1>12, <3>2, <4>1, FlushKeeps, Zenon
      <4> QED  BY <3>1, <4>2, Zenon
    <3> QED  BY <1>11, <3>3, <3>4, <3>5, Zenon
  <2>2. CASE ~full
    BY <1>2, <1>3, <1>11, <1>12, <2>2, Zenon
  <2> QED  BY <2>1, <2>2, Zenon
<1>14. PICK r \in Nat : r = left - m
  BY <1>7
<1>15. todo' = [todo EXCEPT !.left = r]
  BY <1>2, <1>4, <1>7, <1>14, Zenon
<1>16. todo' \in Todos /\ todo'.left = r
  BY <1>3, <1>15, SMTT(30) DEF Todos
<1>17. size + left <= MaxSize
  BY <1>1, <1>4, Zenon DEF IInv, Writing
<1>18. size + m <= MaxSize /\ size + m + r <= MaxSize
  BY <1>3, <1>7, <1>14, <1>17, Sizes
<1>19. pc' \in {"idle", "write"}
  BY <1>2, Zenon
<1>20. size' = size + m
  BY <1>2, <1>7, Zenon
<1>21. /\ size' \in Nat /\ size' <= MaxSize /\ size' + todo'.left <= MaxSize
       /\ Pending(flash', f', size')
  BY <1>12, <1>13, <1>16, <1>18, <1>20, Zenon
<1>22. IInv'
  BY <1>1, <1>2, <1>13, <1>16, <1>19, <1>21, WriteFrame, Zenon
<1> QED  BY <1>1, <1>2, <1>20, <1>22, Zenon

\* A mounted volume with no handle open.
LEMMA InitInv ==
  ASSUME Init
  PROVE  IInv
<1>1. /\ mode = "none" /\ size = 0 /\ pos = 0 /\ pc = "idle" /\ f = NoFile /\ todo = Idle
      /\ flash = [s \in Sectors |-> [cell |-> [i \in Cells |-> Erased], rec |-> NoRec]]
  BY DEF Init, Cells
<1>2. PICK k \in Seq(Nat) : k = <<>> /\ Len(k) = 0
  BY EmptySeq
<1>3. f = [head |-> 0, cur |-> 0, data |-> 0, at |-> 0, md |-> 0, len |-> 0, off |-> 0,
           dpos |-> 0, span |-> 0, next |-> 0, cache |-> k, cpos |-> 0]
  BY <1>1, <1>2, Zenon DEF NoFile
<1>4. f \in HandlesOf /\ f.cache = k /\ f.at = 0 /\ f.dpos = 0 /\ f.data = 0
  BY <1>3, Sizes DEF HandlesOf
<1>5. flash \in [Sectors -> SectorsOf]
  BY <1>1, Sizes DEF SectorsOf
<1>6. \A s \in Sectors : ~Used(s) /\ \A i \in Cells : flash[s].cell[i] = Erased
  BY <1>1 DEF Used
<1>7. todo \in [left : Nat, low : Nat, high : Nat, depth : Nat]
  BY <1>1 DEF Idle
<1>8. Ranges
  BY <1>1, <1>2, <1>4, <1>5, <1>7, Sizes, SMTT(30) DEF Ranges
<1>9. Extents
  BY <1>6, Zenon DEF Extents
<1>10. Writing
  BY <1>1, <1>6, Sizes DEF Writing
<1>11. Closed /\ Reading
  BY <1>1 DEF Closed, Reading
<1>12. Fields
  BY <1>1, <1>4 DEF Fields
<1> QED  BY <1>8, <1>9, <1>10, <1>11, <1>12 DEF IInv

\* The name of a root in the cache, behind what another file has in the sector.
LEMMA NameHeld ==
  ASSUME NEW cell \in [Cells -> Nat], NEW c, c = [i \in 1 .. Prefix |-> NameByte],
         NEW data \in Nat, NEW md \in Nat, data + Prefix <= md, md <= Window,
         \A i \in Cells : i >= data => cell[i] = Erased
  PROVE  /\ c \in Seq(Nat) /\ Len(c) = Prefix
         /\ Held(cell, c, Prefix, 0, 0, data, data, md)
<1>1. PICK P \in Nat \ {0} : P = Prefix
  BY Sizes
<1>2. c \in [1 .. P -> Nat] /\ \A j \in 1 .. P : c[j] = NameByte
  BY <1>1, Sizes
<1>3. c \in Seq(Nat) /\ Len(c) = P
  BY <1>2, FunctionIsSeq, Zenon
<1>4. ASSUME NEW j \in 1 .. Len(c)
      PROVE  c[j] = Byte(Prefix, 0, data - data + j - 1)
  <2>1. j \in 1 .. P
    BY <1>3, Zenon
  <2>2. data - data + j - 1 < P
    BY <2>1
  <2> QED  BY <1>1, <1>2, <2>1, <2>2, Zenon DEF Byte
<1>5. ASSUME NEW i \in data .. (md - 1)
      PROVE  cell[i] = Erased
  <2>1. i \in Cells /\ i >= data
    BY Sizes DEF Cells
  <2> QED  BY <2>1, Zenon
<1>6. /\ data <= data /\ data + Prefix + 0 <= md
      /\ data - data + Len(c) = Prefix + 0
  BY <1>1, <1>3
<1>7. \A i \in 0 .. (data - data - 1) : cell[data + i] = Byte(Prefix, 0, i)
  OBVIOUS
<1>8. Held(cell, c, Prefix, 0, 0, data, data, md)
  BY <1>4, <1>5, <1>6, <1>7, Zenon DEF Held
<1> QED  BY <1>1, <1>3, <1>8, Zenon

\* fffs_open for writing.
LEMMA OpenWriteKeeps ==
  ASSUME CacheFits, IInv, NEW s \in Sectors, NEW win \in RootWindows, OpenWrite(s, win)
  PROVE  IInv'
<1>1. /\ mode = "none" /\ mode' = "write" /\ size' = size /\ pos' = pos /\ pc' = pc /\ todo' = todo
      /\ f' = [NoFile EXCEPT !.head = s, !.cur = s, !.span = s, !.data = win[1], !.at = win[1],
                             !.md = win[2], !.cache = [i \in 1 .. Prefix |-> NameByte]]
      /\ flash' = [flash EXCEPT ![s].cell = [i \in DOMAIN flash[s].cell |->
                                               IF i < win[1] THEN Foreign ELSE Erased]]
  BY Zenon DEF OpenWrite
<1>2. PICK data \in Nat, md \in Nat : /\ data = win[1] /\ md = win[2]
                                      /\ data + Prefix <= md /\ md <= Window
  <2>1. win[1] \in Nat /\ win[2] \in Nat /\ win[1] + NameLen + 2 <= win[2] /\ win[2] <= Window
    BY FileIOAssumption
  <2>2. PICK data \in Nat, md \in Nat : data = win[1] /\ md = win[2]
    BY <2>1, Zenon
  <2>3. data + NameLen + 2 <= md /\ md <= Window
    BY <2>1, <2>2, Zenon
  <2>4. data + Prefix <= md
    BY <2>3, Sizes DEF Prefix
  <2> QED  BY <2>2, <2>3, <2>4, Zenon
<1>3. /\ flash \in [Sectors -> SectorsOf] /\ size = 0 /\ pos = 0 /\ pc = "idle"
      /\ todo \in [left : Nat, low : Nat, high : Nat, depth : Nat]
      /\ \A t \in Sectors : ~Used(t)
  BY <1>1 DEF IInv, Ranges, Writing
<1>4. \A t \in Sectors : t # f.cur => \A i \in Cells : flash[t].cell[i] = Erased
  BY <1>1, <1>3 DEF IInv, Writing
<1>5. f.cur = 0
  BY <1>1 DEF IInv, Writing, NoFile
<1>6. \A t \in Sectors : \A i \in Cells : flash[t].cell[i] = Erased
  BY <1>4, <1>5, Sizes DEF Sectors
<1> DEFINE q == [i \in Cells |-> IF i < data THEN Foreign ELSE Erased]
           c == [i \in 1 .. Prefix |-> NameByte]
<1>7. q \in [Cells -> Nat] /\ \A i \in Cells : i >= data => q[i] = Erased
  BY Sizes DEF Cells
<1>8. DOMAIN flash[s].cell = Cells
  BY <1>3 DEF SectorsOf
<1>9. flash' = FlashAfter(flash, s, q)
  BY <1>1, <1>2, <1>8, Zenon DEF FlashAfter
<1>10. c \in Seq(Nat) /\ Len(c) = Prefix /\ Held(q, c, Prefix, 0, 0, data, data, md)
  BY <1>2, <1>7, NameHeld
<1> HIDE DEF q, c
<1>11. /\ flash' \in [Sectors -> SectorsOf] /\ flash'[s].cell = q
       /\ \A t \in Sectors : flash'[t].rec = flash[t].rec /\ (t # s => flash'[t] = flash[t])
  BY <1>3, <1>7, <1>9, ProgrammedFields, SMTT(30)
<1>12. f' = [head |-> s, cur |-> s, data |-> data, at |-> data, md |-> md, len |-> 0, off |-> 0,
             dpos |-> 0, span |-> s, next |-> 0, cache |-> c, cpos |-> 0]
  BY <1>1, <1>2 DEF NoFile, c
<1>13. s \in 0 .. N
  BY Sizes DEF Sectors
<1>14. f' \in HandlesOf
  BY <1>10, <1>12, <1>13, Sizes DEF HandlesOf
<1>15. /\ f'.head = s /\ f'.cur = s /\ f'.data = data /\ f'.at = data /\ f'.md = md
       /\ f'.len = 0 /\ f'.off = 0 /\ f'.dpos = 0 /\ f'.span = s /\ f'.cache = c
  BY <1>12
<1>16. Pending(flash', f', size') /\ f'.at = Reached(f')
  <2>1. Lead(f') = Prefix
    BY <1>15, Zenon DEF Lead
  <2>4. Reached(f') = data + Prefix + 0 - Prefix
    BY <1>10, <1>15, <2>1, Zenon DEF Reached
  <2>5. Reached(f') = f'.at
    BY <1>15, <2>4, Sizes
  <2>2. Held(flash'[f'.cur].cell, f'.cache, Lead(f'), f'.off, f'.len, f'.data, Reached(f'), f'.md)
    BY <1>10, <1>11, <1>15, <2>1, <2>5, Zenon
  <2>3. f'.off + f'.len = size'
    BY <1>1, <1>3, <1>15
  <2> QED  BY <1>15, <2>2, <2>3, <2>5, Zenon DEF Pending, Ahead
<1>17. \A t \in Sectors : ~Used(t)'
  BY <1>3, <1>11 DEF Used
<1>18. Chain'
  <2>1. \A t \in f'.span .. (f'.cur - 1) : FALSE
    BY <1>15, <1>13
  <2>2. f'.head \in Sectors /\ f'.cur \in Sectors /\ f'.span \in Sectors /\ f'.span <= f'.cur
    BY <1>15, <1>13
  <2>3. ~(flash'[f'.cur].rec # NoRec) /\ f'.head = f'.cur
    BY <1>15, <1>17 DEF Used
  <2> QED  BY <1>17, <2>1, <2>2, <2>3 DEF Chain, Used
<1>19. Ranges'
  <2>1. Len(f'.cache) <= CacheSize
    BY <1>10, <1>15, Zenon DEF CacheFits
  <2> QED  BY <1>1, <1>3, <1>11, <1>14, <2>1, Sizes, SMTT(30) DEF Ranges
<1>20. Extents'
  BY <1>17, Zenon DEF Extents
<1>21. Writing'
  <2>1. \A t \in Sectors : t # f'.cur => \A i \in Cells : flash'[t].cell[i] = Erased
    BY <1>6, <1>11, <1>15
  <2> QED  BY <1>1, <1>3, <1>16, <1>18, <2>1, Sizes, SMTT(30) DEF Writing
<1>22. Closed' /\ Reading'
  BY <1>1 DEF Closed, Reading
<1>23. Fields'
  BY <1>1, <1>15 DEF Fields
<1> QED  BY <1>19, <1>20, <1>21, <1>22, <1>23, SMTT(30) DEF IInv

-----------------------------------------------------------------------------
(* The end of an extent: its record, and that of the head of its span. *)

\* In the sectors y the extent f is writing has its record; the others have
\* theirs, and only the head of the span may have another span and link.
Sealed(y) ==
    /\ y \in [Sectors -> SectorsOf] /\ y[f.cur].rec # NoRec
    /\ y[f.cur].rec.data = f.data /\ y[f.cur].rec.len = f.len + Lead(f)
    /\ y[f.cur].rec.off = f.off /\ (y[f.cur].rec.root <=> f.cur = f.head)
    /\ \A i \in 0 .. ((f.len + Lead(f)) - 1) : y[f.cur].cell[f.data + i] = Byte(Lead(f), f.off, i)
    /\ \A t \in Sectors : t # f.cur =>
         /\ y[t].cell = flash[t].cell /\ (y[t].rec # NoRec <=> Used(t))
         /\ Used(t) => /\ y[t].rec.data = Rec(t).data /\ y[t].rec.len = Rec(t).len
                       /\ y[t].rec.off = Rec(t).off /\ (y[t].rec.root <=> Rec(t).root)
         /\ Used(t) /\ t # f.span => /\ y[t].rec.span = Rec(t).span
                                     /\ y[t].rec.next = Rec(t).next

\* A record that is not blank.
LEMMA RecordIsNot ==
  ASSUME NEW r \in ExtentRecords
  PROVE  r # NoRec
BY DEF ExtentRecords, NoRec

\* The sectors after one record was programmed.
RecordAfter(x, s, r) == [x EXCEPT ![s].rec = r]

\* Such sectors y.
Recorded(x, s, r, y) ==
    /\ y \in [Sectors -> SectorsOf] /\ y[s].rec = r /\ y[s].cell = x[s].cell
    /\ \A t \in Sectors : t # s => y[t] = x[t]

\* A record changes nothing else.
LEMMA RecordedFields ==
  ASSUME NEW x \in [Sectors -> SectorsOf], NEW s \in Sectors, NEW r \in ExtentRecords
  PROVE  Recorded(x, s, r, RecordAfter(x, s, r))
BY DEF SectorsOf, RecordAfter, Recorded

\* The whole cache is programmed and the extent recorded.
LEMMA WithExtentSeals ==
  ASSUME IInv, mode = "write", NEW next \in 0 .. N, NEW x,
         x = WithExtent(FlushFlash(flash, f, TRUE), FlushFile(f, TRUE), next)
  PROVE  /\ Sealed(x)
         /\ f.cur # f.span => x[f.cur].rec.span = 1 /\ x[f.cur].rec.next = next
<1> DEFINE g == FlushFile(f, TRUE)
           y == FlushFlash(flash, f, TRUE)
           s == f.cur
<1>1. /\ flash \in [Sectors -> SectorsOf] /\ f \in HandlesOf /\ size \in Nat
      /\ Pending(flash, f, size) /\ f.cur \in Sectors
  BY WriterFacts, Zenon
<1>2. FlushedTo(flash, f, size, y, g) /\ Len(g.cache) = 0
  <2>1. TRUE \in BOOLEAN /\ TRUE
    OBVIOUS
  <2> QED  BY <1>1, <2>1, FlushKeeps, Zenon
<1>3. /\ g \in HandlesOf /\ y \in [Sectors -> SectorsOf] /\ Pending(y, g, size)
      /\ g.head = f.head /\ g.cur = f.cur /\ g.data = f.data /\ g.len = f.len /\ g.off = f.off
      /\ g.span = f.span
      /\ \A t \in Sectors : y[t].rec = flash[t].rec /\ (t # f.cur => y[t] = flash[t])
  BY <1>2, Zenon DEF FlushedTo
<1> DEFINE st == IF g.cur = g.span THEN "open" ELSE "live"
           sp == IF g.cur = g.span THEN 0 ELSE 1
           nx == IF g.cur = g.span THEN 0 ELSE next
           R == ExtentRecord(g, st, sp, nx)
<1>4. x = RecordAfter(y, s, R)
  <2>1. x = [y EXCEPT ![g.cur].rec = IF g.cur = g.span THEN ExtentRecord(g, "open", 0, 0)
                                     ELSE ExtentRecord(g, "live", 1, next)]
    BY Zenon DEF WithExtent
  <2>2. R = (IF g.cur = g.span THEN ExtentRecord(g, "open", 0, 0)
             ELSE ExtentRecord(g, "live", 1, next))
    BY Zenon
  <2> HIDE DEF R, y, g
  <2> QED  BY <1>3, <2>1, <2>2, Zenon DEF RecordAfter
<1>5. st \in {"open", "live"} /\ sp \in Nat /\ nx \in 0 .. N
  <2>1. 0 \in Nat /\ 1 \in Nat /\ 0 \in 0 .. N
    BY Sizes
  <2> QED  BY <2>1, Zenon
<1>6. f.cur # f.span => sp = 1 /\ nx = next
  BY <1>3, Zenon
<1> HIDE DEF st, sp, nx, g, y
<1>7. /\ f.off \in Nat /\ f.len \in Nat /\ f.data \in Nat /\ Lead(f) \in Nat
  BY <1>1, Sizes DEF HandlesOf, Lead
<1>8. f.cur = f.head => f.off = 0
  BY <1>1, Zenon DEF Pending
<1>9. PICK len \in Nat, off \in Nat, data \in Nat :
         /\ len = f.len + Lead(f) /\ off = f.off /\ data = f.data
  BY <1>7
<1>10. PICK root \in BOOLEAN : root <=> f.cur = f.head
  OBVIOUS
<1>11. /\ g.len + (IF g.cur = g.head THEN Prefix ELSE 0) = len
       /\ (IF g.cur = g.head THEN 0 ELSE g.off) = off /\ g.data = data
       /\ (g.cur = g.head) = root
  <2>1. g.len + (IF g.cur = g.head THEN Prefix ELSE 0) = len
    BY <1>3, <1>9, Zenon DEF Lead
  <2>2. (IF g.cur = g.head THEN 0 ELSE g.off) = off /\ g.data = data
    BY <1>3, <1>8, <1>9, Zenon
  <2>3. (g.cur = g.head) = root
    BY <1>3, <1>10, SMTT(30)
  <2> QED  BY <2>1, <2>2, <2>3, Zenon
<1>12. R = [st |-> st, root |-> root, data |-> data, len |-> len, off |-> off,
            span |-> sp, next |-> nx]
  BY <1>11 DEF ExtentRecord
<1> HIDE DEF R
<1>13. /\ R \in ExtentRecords /\ R.data = data /\ R.len = len /\ R.off = off /\ R.root = root
       /\ R.span = sp /\ R.next = nx
  BY <1>5, <1>12 DEF ExtentRecords
<1>14. R # NoRec
  BY <1>13, RecordIsNot, Zenon
<1>15. /\ x \in [Sectors -> SectorsOf] /\ x[s].rec = R /\ x[s].cell = y[s].cell
       /\ \A t \in Sectors : t # s => x[t] = y[t]
  <2>1. Recorded(y, s, R, RecordAfter(y, s, R))
    BY <1>1, <1>3, <1>13, RecordedFields, Zenon
  <2> QED  BY <1>4, <2>1, Zenon DEF Recorded
<1>16. \A i \in 0 .. (len - 1) : y[s].cell[data + i] = Byte(Lead(f), off, i)
  <2>1. Held(y[g.cur].cell, g.cache, Lead(g), g.off, g.len, g.data, Reached(g), g.md)
    BY <1>3, Zenon DEF Pending
  <2>2. Lead(g) = Lead(f)
    BY <1>3, Zenon DEF Lead
  <2>3. Held(y[s].cell, g.cache, Lead(f), off, f.len, data, Reached(g), g.md)
    BY <1>3, <1>9, <2>1, <2>2, Zenon
  <2>4. \A i \in 0 .. (Reached(g) - data - 1) : y[s].cell[data + i] = Byte(Lead(f), off, i)
    BY <2>3, Zenon DEF Held
  <2>5. Reached(g) = data + Lead(f) + f.len - 0
    BY <1>2, <1>3, <1>9, <2>2, Zenon DEF Reached
  <2>6. Reached(g) - data = len
    BY <1>7, <1>9, <2>5, SMTT(30)
  <2> QED  BY <2>4, <2>6, Zenon
<1>17. ASSUME NEW t \in Sectors, t # f.cur
       PROVE  x[t] = flash[t]
  BY <1>3, <1>15, <1>17, Zenon
<1>18. Sealed(x)
  <2>1. /\ x[f.cur].rec # NoRec
        /\ x[f.cur].rec.data = f.data /\ x[f.cur].rec.len = f.len + Lead(f)
        /\ x[f.cur].rec.off = f.off
    BY <1>9, <1>13, <1>14, <1>15, Zenon
  <2>2. x[f.cur].rec.root <=> f.cur = f.head
    BY <1>10, <1>13, <1>15
  <2>3. \A i \in 0 .. ((f.len + Lead(f)) - 1) : x[f.cur].cell[f.data + i] = Byte(Lead(f), f.off, i)
    <3> SUFFICES ASSUME NEW i \in 0 .. ((f.len + Lead(f)) - 1)
                 PROVE  x[f.cur].cell[f.data + i] = Byte(Lead(f), f.off, i)
      BY Zenon
    <3>1. i \in 0 .. (len - 1)
      BY <1>9, Zenon
    <3>2. y[s].cell[data + i] = Byte(Lead(f), off, i)
      BY <1>16, <3>1, Zenon
    <3> QED  BY <1>9, <1>15, <3>2, Zenon
  <2> QED  BY <1>15, <1>17, <2>1, <2>2, <2>3, Zenon DEF Sealed, Used, Rec
<1>19. f.cur # f.span => x[f.cur].rec.span = 1 /\ x[f.cur].rec.next = next
  BY <1>6, <1>13, <1>15, Zenon
<1> QED  BY <1>18, <1>19, Zenon

\* Programming another record of an extent keeps what is sealed, when it is that of
\* the head of the span or keeps its span and link.
LEMMA RevisedSealed ==
  ASSUME IInv, mode = "write", NEW x, Sealed(x), NEW s \in Sectors, x[s].rec # NoRec,
         NEW q \in ExtentRecords, q.data = x[s].rec.data, q.len = x[s].rec.len,
         q.off = x[s].rec.off, q.root = x[s].rec.root,
         s # f.span => q.span = x[s].rec.span /\ q.next = x[s].rec.next
  PROVE  Sealed(RecordAfter(x, s, q)) /\ Recorded(x, s, q, RecordAfter(x, s, q))
<1>1. PICK y : y = RecordAfter(x, s, q)
  OBVIOUS
<1>2. x \in [Sectors -> SectorsOf]
  BY Zenon DEF Sealed
<1>3. Recorded(x, s, q, y)
  BY <1>1, <1>2, RecordedFields, Zenon
<1>4. /\ y \in [Sectors -> SectorsOf] /\ y[s].rec = q /\ y[s].cell = x[s].cell
      /\ \A t \in Sectors : t # s => y[t] = x[t]
  BY <1>3, Zenon DEF Recorded
<1>5. q # NoRec
  BY RecordIsNot, Zenon
<1>6. \A t \in Sectors : /\ y[t].cell = x[t].cell /\ (y[t].rec # NoRec <=> x[t].rec # NoRec)
                         /\ y[t].rec.data = x[t].rec.data /\ y[t].rec.len = x[t].rec.len
                         /\ y[t].rec.off = x[t].rec.off /\ y[t].rec.root = x[t].rec.root
                         /\ t # f.span => /\ y[t].rec.span = x[t].rec.span
                                          /\ y[t].rec.next = x[t].rec.next
  BY <1>4, <1>5, Zenon
<1>7. f.cur \in Sectors
  BY WriterFacts, Zenon
<1>8. /\ y[f.cur].rec # NoRec
      /\ y[f.cur].rec.data = f.data /\ y[f.cur].rec.len = f.len + Lead(f)
      /\ y[f.cur].rec.off = f.off /\ (y[f.cur].rec.root <=> f.cur = f.head)
      /\ \A i \in 0 .. ((f.len + Lead(f)) - 1) : y[f.cur].cell[f.data + i] = Byte(Lead(f), f.off, i)
  <2>1. /\ x[f.cur].rec # NoRec
        /\ x[f.cur].rec.data = f.data /\ x[f.cur].rec.len = f.len + Lead(f)
        /\ x[f.cur].rec.off = f.off /\ (x[f.cur].rec.root <=> f.cur = f.head)
        /\ \A i \in 0 .. ((f.len + Lead(f)) - 1) : x[f.cur].cell[f.data + i] = Byte(Lead(f), f.off, i)
    BY Zenon DEF Sealed
  <2>2. /\ y[f.cur].cell = x[f.cur].cell /\ (y[f.cur].rec # NoRec <=> x[f.cur].rec # NoRec)
        /\ y[f.cur].rec.data = x[f.cur].rec.data /\ y[f.cur].rec.len = x[f.cur].rec.len
        /\ y[f.cur].rec.off = x[f.cur].rec.off /\ y[f.cur].rec.root = x[f.cur].rec.root
    BY <1>6, <1>7, Zenon
  <2> QED  BY <2>1, <2>2, Zenon
<1>9. ASSUME NEW t \in Sectors, t # f.cur
      PROVE  /\ y[t].cell = flash[t].cell /\ (y[t].rec # NoRec <=> Used(t))
             /\ Used(t) => /\ y[t].rec.data = Rec(t).data /\ y[t].rec.len = Rec(t).len
                           /\ y[t].rec.off = Rec(t).off /\ (y[t].rec.root <=> Rec(t).root)
             /\ Used(t) /\ t # f.span => /\ y[t].rec.span = Rec(t).span
                                         /\ y[t].rec.next = Rec(t).next
  <2>1. /\ x[t].cell = flash[t].cell /\ (x[t].rec # NoRec <=> Used(t))
        /\ Used(t) => /\ x[t].rec.data = Rec(t).data /\ x[t].rec.len = Rec(t).len
                      /\ x[t].rec.off = Rec(t).off /\ (x[t].rec.root <=> Rec(t).root)
        /\ Used(t) /\ t # f.span => /\ x[t].rec.span = Rec(t).span
                                    /\ x[t].rec.next = Rec(t).next
    BY <1>9, Zenon DEF Sealed
  <2> QED  BY <1>6, <2>1, Zenon
<1>10. Sealed(y)
  BY <1>4, <1>8, <1>9, Zenon DEF Sealed
<1> QED  BY <1>1, <1>3, <1>10, Zenon

\* The records of sealed sectors are records.
LEMMA SealedRecords ==
  ASSUME NEW x, Sealed(x), NEW s \in Sectors, x[s].rec # NoRec
  PROVE  x[s].rec \in ExtentRecords
<1>1. x \in [Sectors -> SectorsOf]
  BY Zenon DEF Sealed
<1> QED  BY <1>1 DEF SectorsOf

\* The sectors y after the record of the head of the span got them.
SpanClosed(x, next, y) ==
    /\ Sealed(y)
    /\ y[f.span].rec.span = f.cur - f.span + 1 /\ y[f.span].rec.next = next
    /\ \A t \in Sectors : t # f.span => y[t] = x[t]

\* flush_pending_span_head: the head of the span gets its length and its link.
LEMMA FlushSpanSeals ==
  ASSUME IInv, mode = "write", NEW x, Sealed(x), NEW g, g.cur = f.cur, g.span = f.span,
         NEW next \in 0 .. N, NEW final \in BOOLEAN
  PROVE  SpanClosed(x, next, FlushSpan(x, g, next, final))
<1> DEFINE st == IF g.span = g.head /\ ~final THEN "open" ELSE "live"
           s == f.span
           r == x[s].rec
           q == [r EXCEPT !.next = next, !.span = f.cur - s + 1, !.st = st]
<1>1. Chain
  BY WriterFacts, Zenon
<1>2. s \in Sectors /\ f.cur \in Sectors /\ s <= f.cur
      /\ \A t \in s .. (f.cur - 1) : Used(t)
  BY <1>1, Zenon DEF Chain
<1>3. PICK n \in Nat : n = f.cur - s + 1
  BY <1>2, Sizes DEF Sectors
<1>4. r # NoRec
  <2>1. CASE s = f.cur
    BY <2>1, Zenon DEF Sealed
  <2>2. CASE s # f.cur
    <3>1. s \in s .. (f.cur - 1)
      BY <1>2, <2>2, Sizes DEF Sectors
    <3>2. Used(s)
      BY <1>2, <3>1, Zenon
    <3> QED  BY <1>2, <2>2, <3>2, Zenon DEF Sealed
  <2> QED  BY <2>1, <2>2, Zenon
<1>5. r \in ExtentRecords
  BY <1>2, <1>4, SealedRecords, Zenon
<1>6. st \in {"open", "live"}
  BY Zenon
<1>7. q = [r EXCEPT !.next = next, !.span = n, !.st = st]
  BY <1>3, Zenon
<1>8. FlushSpan(x, g, next, final) = RecordAfter(x, s, q)
  BY Zenon DEF FlushSpan, RecordAfter
<1> HIDE DEF st, q, r
<1>9. /\ q \in ExtentRecords /\ q.data = r.data /\ q.len = r.len /\ q.off = r.off
      /\ q.root = r.root /\ q.span = n /\ q.next = next
  BY <1>5, <1>6, <1>7 DEF ExtentRecords
<1>10. Sealed(RecordAfter(x, s, q)) /\ Recorded(x, s, q, RecordAfter(x, s, q))
  BY <1>2, <1>4, <1>9, RevisedSealed, Zenon DEF r
<1>11. /\ RecordAfter(x, s, q)[s].rec = q
       /\ \A t \in Sectors : t # s => RecordAfter(x, s, q)[t] = x[t]
  BY <1>10, Zenon DEF Recorded
<1> QED  BY <1>3, <1>8, <1>9, <1>10, <1>11, Zenon DEF SpanClosed

\* The extent left is there with its bytes, like those before it.
LEMMA SealedExtents ==
  ASSUME IInv, mode = "write", Sealed(flash'), f'.head = f.head
  PROVE  Extents'
<1> SUFFICES ASSUME NEW s \in Sectors, Used(s)'
             PROVE  ExtentKept(s)'
  BY Zenon DEF Extents
<1> DEFINE y == flash'
<1>1. CASE s = f.cur
  <2>1. Pending(flash, f, size)
    BY WriterFacts, Zenon
  <2>2. /\ Rec(s)'.data = f.data /\ Rec(s)'.len = f.len + Lead(f)
        /\ Rec(s)'.off = f.off /\ (Rec(s)'.root <=> f.cur = f.head)
        /\ \A i \in 0 .. ((f.len + Lead(f)) - 1) : y[s].cell[f.data + i] = Byte(Lead(f), f.off, i)
    BY <1>1, Zenon DEF Sealed, Rec
  <2>3. Skip(Rec(s)') = Lead(f)
    BY <2>2, Zenon DEF Skip, Lead
  <2>4. f.data \in Nat /\ f.len \in Nat /\ f.at \in Nat /\ f.md \in Nat
    BY DEF IInv, Ranges, HandlesOf
  <2>5. f.data + Lead(f) + f.len <= f.md /\ f.md <= Window
    BY <2>1, Zenon DEF Pending, Held
  <2>6. Lead(f) \in Nat /\ (f.cur = f.head => Lead(f) = Prefix)
    BY Sizes DEF Lead
  <2>7. f.data + (f.len + Lead(f)) <= Window
    BY <2>4, <2>5, <2>6, Sizes, SMTT(30)
  <2>8. f.cur = f.head => f.off = 0 /\ f.len + Lead(f) >= Prefix
    <3>1. f.cur = f.head => f.off = 0
      BY <2>1, Zenon DEF Pending
    <3> QED  BY <3>1, <2>4, <2>6, Sizes
  <2> QED  BY <1>1, <2>2, <2>3, <2>7, <2>8, Zenon DEF ExtentKept
<1>2. CASE s # f.cur
  <2>1. /\ flash'[s].cell = flash[s].cell /\ Used(s)
        /\ Rec(s)'.data = Rec(s).data /\ Rec(s)'.len = Rec(s).len
        /\ Rec(s)'.off = Rec(s).off /\ (Rec(s)'.root <=> Rec(s).root)
    BY <1>2, Zenon DEF Sealed, Used, Rec
  <2>2. ExtentKept(s)
    BY <2>1, Zenon DEF IInv, Extents
  <2>3. Skip(Rec(s)') = Skip(Rec(s))
    BY <2>1, Zenon DEF Skip
  <2> QED  BY <2>1, <2>2, <2>3, Zenon DEF ExtentKept
<1> QED  BY <1>1, <1>2, Zenon

\* Where the extents end and begin, when extent c is left.
LEMMA SealedEnds ==
  ASSUME IInv, mode = "write", Sealed(flash'), NEW c, c = f.cur
  PROVE  /\ c \in Sectors /\ Used(c)' /\ EndOf(c)' = size /\ Rec(c)'.off = f.off
         /\ \A t \in Sectors : Used(t) => Used(t)'
         /\ \A t \in Sectors : Used(t) /\ t # c => EndOf(t)' = EndOf(t) /\ Rec(t)'.off = Rec(t).off
<1>1. c \in Sectors
  BY WriterFacts, Zenon
<1>2. /\ Used(c)' /\ Rec(c)'.len = f.len + Lead(f)
      /\ Rec(c)'.off = f.off /\ (Rec(c)'.root <=> f.cur = f.head)
  BY Zenon DEF Sealed, Rec, Used
<1>3. EndOf(c)' = size
  <2>1. Skip(Rec(c)') = Lead(f)
    BY <1>2, Zenon DEF Skip, Lead
  <2>2. EndOf(c)' = Rec(c)'.off + Rec(c)'.len - Skip(Rec(c)')
    BY Zenon DEF EndOf
  <2>3. f.len \in Nat /\ f.off \in Nat
    BY DEF IInv, Ranges, HandlesOf
  <2>4. Lead(f) \in Nat
    BY Sizes DEF Lead
  <2>5. f.off + f.len = size
    BY WriterFacts, Zenon DEF Pending
  <2>6. f.off + (f.len + Lead(f)) - Lead(f) = f.off + f.len
    BY <2>3, <2>4
  <2> QED  BY <1>2, <2>1, <2>2, <2>5, <2>6, Zenon
<1>4. ASSUME NEW t \in Sectors, Used(t), t # c
      PROVE  EndOf(t)' = EndOf(t) /\ Rec(t)'.off = Rec(t).off /\ Used(t)'
  <2>1. /\ Rec(t)'.len = Rec(t).len /\ Used(t)'
        /\ Rec(t)'.off = Rec(t).off /\ (Rec(t)'.root <=> Rec(t).root)
    BY <1>4, Zenon DEF Sealed, Used, Rec
  <2>2. Skip(Rec(t)') = Skip(Rec(t))
    BY <2>1, Zenon DEF Skip
  <2> QED  BY <2>1, <2>2, Zenon DEF EndOf
<1> QED  BY <1>1, <1>2, <1>3, <1>4, Zenon

\* The writer is done, or goes on in a sector without a record.
Onwards(c) == f'.head = f.head /\ (mode' # "write" \/ (f'.cur # c /\ flash[f'.cur].rec = NoRec))

\* The extents linked stay linked.
LEMMA SealedLinks ==
  ASSUME IInv, mode = "write", Sealed(flash'), NEW c, c = f.cur, Onwards(c),
         NEW t \in Sectors, Used(t), t # c, NEW u, Linked(t, u)
  PROVE  Linked(t, u)' /\ Used(u)'
<1>1. /\ c \in Sectors /\ Used(c)' /\ Rec(c)'.off = f.off
      /\ (u \in Sectors /\ Used(u) => Used(u)')
      /\ (u \in Sectors /\ Used(u) /\ u # c => Rec(u)'.off = Rec(u).off)
      /\ EndOf(t)' = EndOf(t)
  BY SealedEnds, Zenon
<1>2. u \in Sectors /\ u # f.head /\ u # f'.head
  BY Zenon DEF Linked, Onwards
<1>3. CASE u = c
  <2>1. EndOf(t) = f.off
    BY <1>3, Zenon DEF Linked
  <2>2. ~(mode' = "write" /\ u = f'.cur)
    BY <1>3, Zenon DEF Onwards
  <2> QED  BY <1>1, <1>2, <1>3, <2>1, <2>2, Zenon DEF Linked
<1>4. CASE u # c
  <2>1. Used(u) /\ Rec(u).off = EndOf(t)
    BY <1>4, Zenon DEF Linked
  <2>2. ~(mode' = "write" /\ u = f'.cur)
    BY <2>1, Zenon DEF Onwards, Used
  <2> QED  BY <1>1, <1>2, <1>4, <2>1, <2>2, Zenon DEF Linked
<1> QED  BY <1>3, <1>4, Zenon

\* The extents finished before stay finished.
LEMMA SealedFinished ==
  ASSUME IInv, mode = "write", Sealed(flash'), NEW c, c = f.cur, Onwards(c),
         NEW t \in Sectors, Used(t), t # c, t # f.span
  PROVE  Finished(t)'
<1>1. Finished(t)
  BY WriterFacts, Zenon DEF Chain
<1>2. Rec(t)'.span = Rec(t).span /\ Rec(t)'.next = Rec(t).next
  BY Zenon DEF Sealed, Used, Rec
<1>3. Succ(t)' = Succ(t)
  BY <1>2, Zenon DEF Succ
<1>4. Succ(t) # 0 /\ Linked(t, Succ(t)) /\ Rec(t).span >= 1
  BY <1>1, Zenon DEF Finished
<1>5. PICK u : u = Succ(t)
  OBVIOUS
<1>6. Linked(t, u)'
  BY <1>4, <1>5, SealedLinks, Zenon
<1>7. ASSUME NEW k \in 1 .. (Rec(t).span - 1)
      PROVE  t + k \in Sectors /\ t + k # f'.head /\ Used(t + k)'
  <2>1. t + k \in Sectors /\ t + k # f.head /\ Used(t + k)
    BY <1>1, Zenon DEF Finished
  <2> QED  BY <2>1, SealedEnds, Zenon DEF Onwards
<1>8. Succ(t)' = u /\ u # 0
  BY <1>3, <1>4, <1>5, Zenon
<1> QED  BY <1>2, <1>4, <1>6, <1>7, <1>8, Zenon DEF Finished

\* The head of a span of several extents is finished by its length.
LEMMA SpanFinished ==
  ASSUME IInv, mode = "write", Sealed(flash'), NEW c, c = f.cur, Onwards(c),
         NEW b, b = f.span, b # c, Rec(b)'.span = c - b + 1
  PROVE  Finished(b)'
<1>1. b \in Sectors /\ c \in Sectors /\ b <= c
      /\ \A t \in b .. (c - 1) : Used(t) /\ Linked(t, t + 1)
  BY WriterFacts, Zenon DEF Chain
<1>2. b \in Nat /\ c \in Nat /\ b < c /\ b > 0
  BY <1>1, Sizes DEF Sectors
<1>3. ASSUME NEW t \in b .. (c - 1)
      PROVE  /\ Linked(t, t + 1)' /\ Used(t + 1)' /\ t + 1 \in Sectors /\ t + 1 # f'.head
             /\ t \in Nat
  <2>1. t \in Sectors /\ t # c /\ t \in Nat
    BY <1>1, <1>2, Sizes DEF Sectors
  <2>2. Used(t) /\ Linked(t, t + 1)
    BY <1>1, Zenon
  <2>3. PICK u : u = t + 1
    OBVIOUS
  <2>4. Linked(t, u)
    BY <2>2, <2>3, Zenon
  <2>5. Linked(t, u)' /\ Used(u)'
    BY <2>1, <2>2, <2>4, SealedLinks, Zenon
  <2>6. u \in Sectors /\ u # f'.head
    BY <2>5, Zenon DEF Linked
  <2> QED  BY <2>1, <2>3, <2>5, <2>6, Zenon
<1>4. Rec(b)'.span > 1 /\ Rec(b)'.span >= 1
  BY <1>2
<1>5. Succ(b)' = b + 1
  BY <1>4, Zenon DEF Succ
<1>6. b \in b .. (c - 1) /\ b + 1 # 0
  BY <1>2
<1>7. Linked(b, b + 1)'
  BY <1>3, <1>6, Zenon
<1>8. ASSUME NEW k \in 1 .. (Rec(b)'.span - 1)
      PROVE  b + k \in Sectors /\ b + k # f'.head /\ Used(b + k)'
  <2>1. PICK t \in b .. (c - 1) : t + 1 = b + k
    <3>1. k \in 1 .. (c - b)
      BY <1>2
    <3>2. (b + k) - 1 \in b .. (c - 1) /\ ((b + k) - 1) + 1 = b + k
      BY <1>2, <3>1
    <3> QED  BY <3>2
  <2>2. Used(t + 1)' /\ t + 1 \in Sectors /\ t + 1 # f'.head
    BY <1>3, Zenon
  <2> QED  BY <2>1, <2>2, Zenon
<1> QED  BY <1>4, <1>5, <1>6, <1>7, <1>8, Zenon DEF Finished

\* The extent left is finished when it is a span of its own with its link.
LEMMA LastFinished ==
  ASSUME IInv, mode = "write", Sealed(flash'), NEW c, c = f.cur,
         Rec(c)'.span = 1, NEW next, Rec(c)'.next = next,
         \/ next = 0 /\ mode' # "write" /\ size' = size
         \/ next # 0 /\ Linked(c, next)'
  PROVE  Finished(c)'
<1>1. EndOf(c)' = size
  BY SealedEnds, Zenon
<1>2. Succ(c)' = next
  <2>1. ~(Rec(c)'.span > 1)
    OBVIOUS
  <2> QED  BY <2>1, Zenon DEF Succ
<1>3. Rec(c)'.span >= 1 /\ 1 .. (Rec(c)'.span - 1) = {}
  OBVIOUS
<1> QED  BY <1>1, <1>2, <1>3, Zenon DEF Finished

\* All extents but the head of the span are finished once the one left is linked.
LEMMA OthersFinished ==
  ASSUME IInv, mode = "write", Sealed(flash'), NEW c, c = f.cur, Onwards(c), NEW next,
         \/ next = 0 /\ mode' # "write" /\ size' = size
         \/ next # 0 /\ Linked(c, next)',
         c # f.span => Rec(c)'.span = 1 /\ Rec(c)'.next = next,
         NEW t \in Sectors, Used(t)', t # f.span
  PROVE  Finished(t)'
<1>1. CASE t = c
  BY <1>1, LastFinished, Zenon
<1>2. CASE t # c
  <2>1. Used(t)
    BY <1>2, Zenon DEF Sealed, Used
  <2> QED  BY <1>2, <2>1, SealedFinished, Zenon
<1> QED  BY <1>1, <1>2, Zenon

\* The head of the span is finished by its length and its link.
LEMMA HeadFinished ==
  ASSUME IInv, mode = "write", Sealed(flash'), NEW c, c = f.cur, Onwards(c), NEW next,
         \/ next = 0 /\ mode' # "write" /\ size' = size
         \/ next # 0 /\ Linked(c, next)',
         NEW b, b = f.span, Rec(b)'.span = c - b + 1, Rec(b)'.next = next
  PROVE  Finished(b)'
<1>1. CASE b = c
  <2>1. c \in Nat
    <3>1. c \in Sectors
      BY WriterFacts, Zenon
    <3> QED  BY <3>1, Sizes DEF Sectors
  <2>2. c - c + 1 = 1
    BY <2>1
  <2>3. Rec(c)'.span = 1
    BY <1>1, <2>2, Zenon
  <2> QED  BY <1>1, <2>3, LastFinished, Zenon
<1>2. CASE b # c
  BY <1>2, SpanFinished, Zenon
<1> QED  BY <1>1, <1>2, Zenon

\* A fresh extent: nothing is cached and its cells are erased.
LEMMA FreshExtent ==
  ASSUME NEW cell, NEW cache, Len(cache) = 0, NEW off, \A i \in Cells : cell[i] = Erased
  PROVE  Held(cell, cache, 0, off, 0, 0, 0, Window)
BY Sizes DEF Held, Cells

\* start_next_extent, for any unused sector the allocator gives.
LEMMA StartNextExtentKeeps ==
  ASSUME IInv, NEW s \in Unused, StartNextExtent(s)
  PROVE  IInv'
<1>1. pc = "write" /\ mode = "write"
  BY Zenon DEF StartNextExtent, IInv, Ranges
<1>2. /\ mode' = mode /\ size' = size /\ pos' = pos /\ pc' = pc /\ todo' = todo
  BY Zenon DEF StartNextExtent
<1> DEFINE g == FlushFile(f, TRUE)
           x == WithExtent(FlushFlash(flash, f, TRUE), g, s)
<1>3. /\ flash \in [Sectors -> SectorsOf] /\ f \in HandlesOf /\ Len(f.cache) <= CacheSize
      /\ pos = 0 /\ size \in Nat /\ size <= MaxSize /\ todo \in Todos
      /\ Pending(flash, f, size) /\ Chain /\ f.cur \in Sectors /\ f.dpos = 0
  BY <1>1, WriterFacts, Zenon
<1>4. s \in Sectors /\ ~Used(s) /\ s # f.cur
  BY Zenon DEF Unused, Used
<1>5. PICK c \in Sectors, b \in Sectors : c = f.cur /\ b = f.span
  BY <1>3, Zenon DEF Chain
<1>6. s \in Nat /\ c \in Nat /\ b \in Nat /\ s # 0 /\ s \in 0 .. N /\ b \in 0 .. N
  BY <1>4, <1>5, Sizes DEF Sectors
<1>7. FlushedTo(flash, f, size, FlushFlash(flash, f, TRUE), g) /\ Len(g.cache) = 0
  <2>1. TRUE \in BOOLEAN /\ TRUE
    OBVIOUS
  <2> QED  BY <1>3, <2>1, FlushKeeps, Zenon
<1>8. /\ g \in HandlesOf /\ g.head = f.head /\ g.cur = c /\ g.len = f.len /\ g.off = f.off
      /\ g.span = b /\ g.dpos = 0
  BY <1>3, <1>5, <1>7, Zenon DEF FlushedTo
<1>9. Sealed(x) /\ (c # b => x[c].rec.span = 1 /\ x[c].rec.next = s)
  BY <1>1, <1>5, <1>6, WithExtentSeals, Zenon
<1>10. /\ flash' = (IF s = f.cur + 1 THEN x ELSE FlushSpan(x, g, s, FALSE))
       /\ f' = [g EXCEPT !.cur = s, !.data = 0, !.at = 0, !.md = Window, !.len = 0,
                         !.off = g.off + g.len, !.span = IF s = f.cur + 1 THEN g.span ELSE s]
  BY Zenon DEF StartNextExtent
<1> HIDE DEF g, x
<1>11. PICK span \in 0 .. N : span = IF s = c + 1 THEN b ELSE s
  BY <1>6
<1>12. g.off \in Nat /\ g.len \in Nat /\ g.off + g.len = size
  <2>1. g.off \in Nat /\ g.len \in Nat
    BY <1>8, SMTT(30) DEF HandlesOf
  <2> QED  BY <1>3, <1>8, <2>1, Zenon DEF Pending
<1>13. f' = [g EXCEPT !.cur = s, !.data = 0, !.at = 0, !.md = Window, !.len = 0,
                      !.off = size, !.span = span]
  BY <1>5, <1>8, <1>10, <1>11, <1>12, Zenon
<1>14. /\ f' \in HandlesOf /\ f'.head = g.head /\ f'.cur = s /\ f'.data = 0 /\ f'.at = 0
       /\ f'.md = Window /\ f'.len = 0 /\ f'.off = size /\ f'.span = span
       /\ f'.dpos = g.dpos /\ f'.cache = g.cache
  BY <1>3, <1>6, <1>8, <1>11, <1>13, Sizes DEF HandlesOf
<1>15. f'.head = f.head /\ f'.dpos = 0 /\ Len(f'.cache) = 0
  BY <1>7, <1>8, <1>14, Zenon
<1>16. /\ Sealed(flash') /\ (c # b => Rec(c)'.span = 1 /\ Rec(c)'.next = s)
       /\ s # c + 1 => Rec(b)'.span = c - b + 1 /\ Rec(b)'.next = s
  <2>1. CASE s = c + 1
    <3>1. flash' = x
      BY <1>5, <1>10, <2>1, Zenon
    <3> QED  BY <1>9, <2>1, <3>1, Zenon DEF Rec
  <2>2. CASE s # c + 1
    <3>1. flash' = FlushSpan(x, g, s, FALSE)
      BY <1>5, <1>10, <2>2, Zenon
    <3>2. g.cur = f.cur /\ g.span = f.span /\ FALSE \in BOOLEAN
      BY <1>5, <1>8
    <3>3. SpanClosed(x, s, FlushSpan(x, g, s, FALSE))
      BY <1>1, <1>6, <1>9, <3>2, FlushSpanSeals, Zenon
    <3>4. /\ Sealed(flash') /\ flash'[b].rec.span = c - b + 1 /\ flash'[b].rec.next = s
          /\ \A t \in Sectors : t # b => flash'[t] = x[t]
      BY <1>5, <3>1, <3>3, Zenon DEF SpanClosed
    <3> QED  BY <1>9, <3>4, Zenon DEF Rec
  <2> QED  BY <2>1, <2>2, Zenon
<1>17. Onwards(c)
  BY <1>4, <1>5, <1>14, <1>15, Zenon DEF Onwards, Used
<1>18. /\ Used(c)' /\ EndOf(c)' = size /\ ~Used(s)'
       /\ flash'[s].cell = flash[s].cell
  <2>1. Used(c)' /\ EndOf(c)' = size
    BY <1>1, <1>5, <1>16, SealedEnds, Zenon
  <2> QED  BY <1>4, <1>16, <2>1, Zenon DEF Sealed, Used
<1>19. s # f.head
  BY <1>3, <1>4, Zenon DEF Chain
<1>20. Linked(c, s)'
  BY <1>1, <1>2, <1>4, <1>14, <1>15, <1>18, <1>19, ZenonT(30) DEF Linked
<1>21. Pending(flash', f', size') /\ f'.at = Reached(f')
  <2>1. \A i \in Cells : flash'[s].cell[i] = Erased
    <3>1. \A i \in Cells : flash[s].cell[i] = Erased
      BY <1>1, <1>4, Zenon DEF IInv, Writing
    <3> QED  BY <1>18, <3>1, Zenon
  <2>2. Held(flash'[s].cell, f'.cache, 0, size, 0, 0, 0, Window)
    BY <1>15, <2>1, FreshExtent, Zenon
  <2>3. Lead(f') = 0 /\ f'.cur # f'.head
    BY <1>14, <1>15, <1>19, ZenonT(30) DEF Lead
  <2>4. f'.off + f'.len = size'
    BY <1>2, <1>3, <1>14, SMTT(30)
  <2>5. Reached(f') = 0 + 0 + 0 - 0
    BY <1>14, <1>15, <2>3, Zenon DEF Reached
  <2>6. Reached(f') = 0
    BY <2>5
  <2> QED  BY <1>14, <2>2, <2>3, <2>4, <2>6, Zenon DEF Pending, Ahead
<1>22. Chain'
  <2>1. f'.head \in Sectors /\ (f'.head # f'.cur => Used(f.head)')
    <3>1. PICK h \in Sectors : h = f.head
      BY <1>3, Zenon DEF Chain
    <3>2. Used(h)'
      <4>1. CASE h = c
        BY <1>18, <4>1, Zenon
      <4>2. CASE h # c
        <5>1. Used(h)
          BY <1>3, <1>5, <3>1, <4>2, Zenon DEF Chain
        <5> QED  BY <1>1, <1>5, <1>16, <5>1, SealedEnds, Zenon
      <4> QED  BY <4>1, <4>2, Zenon
    <3>3. f'.head = h
      BY <1>15, <3>1, Zenon
    <3> QED  BY <3>2, <3>3, Zenon DEF Used
  <2>2. CASE s = c + 1
    <3>1. f'.span = b /\ f'.cur = s /\ b <= c
      <4>1. b <= c
        BY <1>3, <1>5, Zenon DEF Chain
      <4> QED  BY <1>11, <1>14, <2>2, <4>1, Zenon
    <3>2. b <= s /\ (\A t : t \in b .. (s - 1) => t = c \/ t \in b .. (c - 1))
      BY <1>6, <2>2, <3>1, SMTT(30)
    <3>3. ASSUME NEW t \in b .. (s - 1)
          PROVE  Used(t)' /\ Linked(t, t + 1)'
      <4>1. CASE t = c
        BY <1>18, <1>20, <2>2, <4>1, Zenon
      <4>2. CASE t # c
        <5>1. t \in b .. (c - 1)
          BY <3>2, <4>2, Zenon
        <5>2. t \in Sectors
          BY <1>5, <1>6, <5>1, Sizes, SMTT(30) DEF Sectors
        <5>3. Used(t) /\ Linked(t, t + 1)
          BY <1>3, <1>5, <5>1, Zenon DEF Chain
        <5>4. PICK u : u = t + 1
          OBVIOUS
        <5>5. Linked(t, u)
          BY <5>3, <5>4, Zenon
        <5>6. Linked(t, u)'
          BY <1>1, <1>5, <1>16, <1>17, <4>2, <5>2, <5>3, <5>5, SealedLinks, ZenonT(30)
        <5>7. Used(t)'
          BY <1>1, <1>5, <1>16, <5>2, <5>3, SealedEnds, ZenonT(30)
        <5> QED  BY <5>4, <5>6, <5>7, Zenon
      <4> QED  BY <4>1, <4>2, Zenon
    <3>4. ASSUME NEW t \in Sectors, Used(t)', t # b
          PROVE  Finished(t)'
      <4>1. t # f.span /\ (c # f.span => Rec(c)'.span = 1 /\ Rec(c)'.next = s)
        BY <1>5, <1>16, <3>4, Zenon
      <4> QED  BY <1>1, <1>5, <1>6, <1>16, <1>17, <1>20, <3>4, <4>1, OthersFinished, ZenonT(30)
    <3>5. f'.cur \in Sectors /\ f'.span \in Sectors /\ f'.span <= f'.cur /\ ~Used(f.cur)'
      BY <1>4, <1>5, <1>18, <3>1, <3>2, Zenon DEF Used
    <3>6. \A t \in f'.span .. (f'.cur - 1) : Used(t)' /\ Linked(t, t + 1)'
      BY <3>1, <3>3, Zenon
    <3>7. \A t \in Sectors : Used(t)' /\ t # f'.span => Finished(t)'
      BY <3>1, <3>4, Zenon
    <3> QED  BY <2>1, <3>5, <3>6, <3>7, Zenon DEF Chain
  <2>3. CASE s # c + 1
    <3>1. f'.span = s /\ f'.cur = s
      BY <1>11, <1>14, <2>3, Zenon
    <3>2. s <= s /\ (\A t : t \notin s .. (s - 1))
      BY <1>6
    <3>3. ASSUME NEW t \in Sectors, Used(t)'
          PROVE  Finished(t)'
      <4>1. CASE t = b
        <5>1. Finished(b)'
          BY <1>1, <1>5, <1>6, <1>16, <1>17, <1>20, <2>3, HeadFinished, ZenonT(30)
        <5> QED  BY <4>1, <5>1, Zenon
      <4>2. CASE t # b
        <5>1. t # f.span /\ (c # f.span => Rec(c)'.span = 1 /\ Rec(c)'.next = s)
          BY <1>5, <1>16, <4>2, Zenon
        <5> QED  BY <1>1, <1>5, <1>6, <1>16, <1>17, <1>20, <3>3, <5>1, OthersFinished, ZenonT(30)
      <4> QED  BY <4>1, <4>2, Zenon
    <3>4. f'.cur \in Sectors /\ f'.span \in Sectors /\ f'.span <= f'.cur /\ ~Used(f.cur)'
      BY <1>4, <1>18, <3>1, <3>2, Zenon DEF Used
    <3>5. \A t \in f'.span .. (f'.cur - 1) : Used(t)' /\ Linked(t, t + 1)'
      BY <3>1, <3>2, Zenon
    <3> QED  BY <2>1, <3>3, <3>4, <3>5, Zenon DEF Chain
  <2> QED  BY <2>2, <2>3, Zenon
<1>23. Ranges'
  <2>1. flash' \in [Sectors -> SectorsOf]
    BY <1>16, Zenon DEF Sealed
  <2>2. Len(f'.cache) <= CacheSize
    BY <1>15, Sizes
  <2> QED  BY <1>1, <1>2, <1>3, <1>14, <2>1, <2>2, SMTT(30) DEF Ranges, Todos
<1>24. Extents'
  BY <1>1, <1>15, <1>16, SealedExtents, Zenon
<1>25. Writing'
  <2>1. ASSUME NEW t \in Sectors, ~Used(t)', t # f'.cur
        PROVE  \A i \in Cells : flash'[t].cell[i] = Erased
    <3>1. t # c
      BY <1>18, <2>1, Zenon
    <3>2. ~Used(t) /\ flash'[t].cell = flash[t].cell
      BY <1>5, <1>16, <2>1, <3>1, Zenon DEF Sealed, Used
    <3>3. \A i \in Cells : flash[t].cell[i] = Erased
      BY <1>1, <1>5, <3>1, <3>2, Zenon DEF IInv, Writing
    <3> QED  BY <3>2, <3>3, Zenon
  <2>2. mode' = "write" /\ pos' = 0 /\ size' <= MaxSize
    BY <1>1, <1>2, <1>3, Zenon
  <2>3. mode' # "none" /\ mode' # "read"
    BY <2>2
  <2>4. size' + todo'.left <= MaxSize
    BY <1>1, <1>2, ZenonT(30) DEF IInv, Writing
  <2> QED  BY <1>21, <1>22, <2>1, <2>2, <2>3, <2>4, Zenon DEF Writing
<1>26. Closed' /\ Reading' /\ Fields'
  BY <1>1, <1>2, <1>15, SMTT(30) DEF Closed, Reading, Fields
<1> QED  BY <1>23, <1>24, <1>25, <1>26, Zenon DEF IInv

\* fffs_close of a writer: every extent is finished, and they lead to the last
\* byte accepted.
LEMMA CloseKeeps ==
  ASSUME IInv, Close
  PROVE  IInv'
<1>1. mode = "write" /\ pc = "idle" /\ mode' = "shut"
  BY Zenon DEF Close
<1>2. size' = size /\ pos' = pos /\ pc' = pc /\ todo' = todo
  BY Zenon DEF Close
<1> DEFINE x == WithExtent(FlushFlash(flash, f, TRUE), FlushFile(f, TRUE), 0)
           y == FlushSpan(x, f, 0, TRUE)
<1>3. /\ flash \in [Sectors -> SectorsOf] /\ f \in HandlesOf
      /\ pos = 0 /\ size \in Nat /\ size <= MaxSize /\ todo \in Todos
      /\ Chain /\ f.cur \in Sectors
  BY <1>1, WriterFacts, Zenon
<1>4. PICK c \in Sectors, b \in Sectors, h \in Sectors : c = f.cur /\ b = f.span /\ h = f.head
  BY <1>3, Zenon DEF Chain
<1>5. 0 \in 0 .. N /\ TRUE \in BOOLEAN
  BY Sizes
<1>6. Sealed(x) /\ (c # b => x[c].rec.span = 1 /\ x[c].rec.next = 0)
  BY <1>1, <1>4, <1>5, WithExtentSeals, Zenon
<1>7. flash' = [y EXCEPT ![h].rec.st = "live"] /\ f' = [NoFile EXCEPT !.head = h]
  BY <1>4, Zenon DEF Close
<1> HIDE DEF x
<1>8. SpanClosed(x, 0, y)
  BY <1>1, <1>5, <1>6, FlushSpanSeals, Zenon
<1> HIDE DEF y
<1>9. /\ Sealed(y) /\ y[b].rec.span = c - b + 1 /\ y[b].rec.next = 0
      /\ (c # b => y[c].rec.span = 1 /\ y[c].rec.next = 0)
  BY <1>4, <1>6, <1>8, Zenon DEF SpanClosed
<1>10. h # c => Used(h)
  BY <1>3, <1>4, Zenon DEF Chain
<1>11. y[h].rec # NoRec
  BY <1>4, <1>9, <1>10, Zenon DEF Sealed
<1> DEFINE r == y[h].rec
           q == [r EXCEPT !.st = "live"]
<1>12. flash' = RecordAfter(y, h, q)
  BY <1>7, Zenon DEF RecordAfter
<1>13. r \in ExtentRecords
  BY <1>9, <1>11, SealedRecords, Zenon
<1> HIDE DEF r
<1>14. /\ q \in ExtentRecords /\ q.data = r.data /\ q.len = r.len /\ q.off = r.off
       /\ q.root = r.root /\ q.span = r.span /\ q.next = r.next
  BY <1>13 DEF ExtentRecords
<1> HIDE DEF q
<1>15. Sealed(RecordAfter(y, h, q)) /\ Recorded(y, h, q, RecordAfter(y, h, q))
  BY <1>1, <1>9, <1>11, <1>14, RevisedSealed, Zenon DEF r
<1>16. Sealed(flash') /\ Recorded(y, h, q, flash')
  BY <1>12, <1>15, Zenon
<1>17. \A t \in Sectors : Rec(t)'.span = y[t].rec.span /\ Rec(t)'.next = y[t].rec.next
  BY <1>14, <1>16, Zenon DEF Recorded, Rec, r
<1>18. /\ f'.head = h /\ f'.cur = 0 /\ f'.at = 0 /\ f'.dpos = 0 /\ f'.data = 0 /\ f'.cache = <<>>
  BY <1>7, SMTT(30) DEF NoFile
<1>19. f' \in HandlesOf
  <2>1. h \in 0 .. N
    BY Sizes DEF Sectors
  <2>2. PICK k \in Seq(Nat) : k = <<>>
    BY EmptySeq
  <2>3. f' = [head |-> h, cur |-> 0, data |-> 0, at |-> 0, md |-> 0, len |-> 0, off |-> 0,
              dpos |-> 0, span |-> 0, next |-> 0, cache |-> <<>>, cpos |-> 0]
    BY <1>7 DEF NoFile
  <2>4. f' = [head |-> h, cur |-> 0, data |-> 0, at |-> 0, md |-> 0, len |-> 0, off |-> 0,
              dpos |-> 0, span |-> 0, next |-> 0, cache |-> k, cpos |-> 0]
    BY <2>2, <2>3, Zenon
  <2> QED  BY <1>5, <2>1, <2>4 DEF HandlesOf
<1>20. mode' # "write"
  BY <1>1
<1>21. Onwards(c)
  BY <1>4, <1>18, <1>20, Zenon DEF Onwards
<1>22. Used(h)'
  BY <1>1, <1>4, <1>10, <1>16, SealedEnds, Zenon
<1>23. ASSUME NEW t \in Sectors, Used(t)'
       PROVE  Finished(t)'
  <2>1. c # f.span => Rec(c)'.span = 1 /\ Rec(c)'.next = 0
    BY <1>4, <1>9, <1>17, Zenon
  <2>2. Rec(b)'.span = c - b + 1 /\ Rec(b)'.next = 0
    BY <1>9, <1>17, Zenon
  <2>3. CASE t = b
    <3>1. Finished(b)'
      BY <1>1, <1>2, <1>4, <1>16, <1>20, <1>21, <2>2, HeadFinished, ZenonT(30)
    <3> QED  BY <2>3, <3>1, Zenon
  <2>4. CASE t # b
    <3>1. t # f.span
      BY <1>4, <2>4, Zenon
    <3> QED  BY <1>1, <1>2, <1>4, <1>16, <1>20, <1>21, <1>23, <2>1, <3>1, OthersFinished, ZenonT(30)
  <2> QED  BY <2>3, <2>4, Zenon
<1>24. Ranges'
  <2>1. flash' \in [Sectors -> SectorsOf]
    BY <1>16, Zenon DEF Sealed
  <2>2. Len(f'.cache) <= CacheSize
    BY <1>18, Sizes
  <2> QED  BY <1>1, <1>2, <1>3, <1>19, <2>1, <2>2, SMTT(30) DEF Ranges, Todos
<1>25. Extents'
  <2>1. f'.head = f.head
    BY <1>4, <1>18, ZenonT(30)
  <2> QED  BY <1>1, <1>16, <2>1, SealedExtents, Zenon
<1>26. Writing' /\ Reading' /\ Fields'
  BY <1>1, <1>2, <1>3, <1>18, SMTT(30) DEF Writing, Reading, Fields
<1>27. Closed'
  <2>1. f'.head \in Sectors /\ Used(f.head)'
    BY <1>18, <1>22, Zenon DEF Used
  <2> QED  BY <1>23, <2>1, Zenon DEF Closed
<1> QED  BY <1>24, <1>25, <1>26, <1>27, Zenon DEF IInv

-----------------------------------------------------------------------------
(* The invariant. *)

\* Every step of a handle keeps it.
LEMMA NextInv ==
  ASSUME CacheFits, IInv, [Next]_vars
  PROVE  IInv'
<1>1. ASSUME NEW s \in Sectors, NEW win \in RootWindows, OpenWrite(s, win)
      PROVE  IInv'
  BY <1>1, OpenWriteKeeps, Zenon
<1>2. ASSUME NEW n \in WriteSizes, Write(n)
      PROVE  IInv'
  BY <1>2, WriteKeeps, Zenon
<1>3. CASE Close
  BY <1>3, CloseKeeps, Zenon
<1>4. CASE OpenRead
  BY <1>4, OpenReadKeeps, Zenon
<1>5. ASSUME NEW n \in ReadSizes, Read(n)
      PROVE  IInv'
  BY <1>5, ReadKeeps, Zenon
<1>6. ASSUME NEW p \in 0 .. size, Seek(p)
      PROVE  IInv'
  BY <1>6, SeekKeeps, Zenon
<1>7. CASE CloseRead
  BY <1>7, CloseReadKeeps, Zenon
<1>8. CASE WriteCopy
  BY <1>8, WriteCopyKeeps, Zenon
<1>9. ASSUME NEW s \in Unused, StartNextExtent(s)
      PROVE  IInv'
  BY <1>9, StartNextExtentKeeps, ZenonT(30)
<1>10. CASE WriteNoSpace
  BY <1>10, WriteNoSpaceKeeps, Zenon
<1>11. CASE ReadStep
  BY <1>11, ReadStepKeeps, Zenon
<1>12. CASE SeekStep
  BY <1>12, SeekStepKeeps, Zenon
<1>13. CASE HuntStep
  BY <1>13, HuntStepKeeps, Zenon
<1>14. CASE UNCHANGED vars
  <2>1. /\ mode' = mode /\ size' = size /\ pos' = pos /\ out' = out /\ flash' = flash /\ f' = f
        /\ pc' = pc /\ todo' = todo
    BY <1>14, Zenon DEF vars
  <2>2. Ranges' /\ Extents' /\ Fields'
    BY <2>1, Zenon DEF IInv, Ranges, Extents, ExtentKept, Used, Rec, Fields
  <2>3. \A s, t : Linked(s, t)' <=> Linked(s, t)
    BY <2>1, Zenon DEF Linked, Used, Rec, EndOf
  <2>4. \A s : Finished(s)' <=> Finished(s)
    BY <2>1, <2>3, Zenon DEF Finished, Succ, Used, Rec, EndOf
  <2>5. Chain' <=> Chain
    BY <2>1, <2>3, <2>4, Zenon DEF Chain, Used
  <2>6. Writing' /\ Closed'
    BY <2>1, <2>4, <2>5, Zenon DEF IInv, Writing, Closed, Used
  <2>7. Reading'
    BY <2>1, Zenon DEF IInv, Reading
  <2> QED  BY <2>2, <2>6, <2>7, Zenon DEF IInv
<1> QED
  BY ZenonT(30), <1>1, <1>2, <1>3, <1>4, <1>5, <1>6, <1>7, <1>8, <1>9, <1>10, <1>11, <1>12, <1>13, <1>14,
     Zenon DEF Next, Running

\* So it holds in every state, in a build whose cache takes the name and whole
\* granules.
THEOREM Invariance ==
  ASSUME CacheFits
  PROVE  Spec => []IInv
<1>1. Init => IInv
  BY InitInv
<1>2. IInv /\ [Next]_vars => IInv'
  BY NextInv
<1> QED  BY <1>1, <1>2, PTL DEF Spec

\* file->cache is never overrun, and the window of an extent never left.
LEMMA RangesHold ==
  ASSUME CacheFits, IInv
  PROVE  TypeOK
<1>1. /\ mode \in {"none", "write", "shut", "read"} /\ size \in 0 .. MaxSize
      /\ pc \in {"idle", "write", "read", "seek", "hunt", "corrupt"}
  BY Sizes, SMTT(30) DEF IInv, Ranges, Writing
<1>2. pos \in 0 .. size
  BY DEF IInv, Ranges, Writing, Reading
<1>3. f \in HandlesOf /\ Len(f.cache) <= CacheSize
  BY Zenon DEF IInv, Ranges
<1>4. f.head \in 0 .. N /\ f.cur \in 0 .. N /\ f.span \in 0 .. N /\ f.next \in 0 .. N
  BY <1>3 DEF HandlesOf
<1>5. f.at \in Nat /\ f.data \in Nat /\ f.dpos \in Nat /\ f.md \in Nat /\ f.len \in Nat
  BY <1>3 DEF HandlesOf
<1>6. f.at < Window + Granule /\ f.data + f.dpos <= Window
  <2>1. CASE mode = "write"
    <3>1. Pending(flash, f, size) /\ f.dpos = 0
      BY <2>1, WriterFacts, Zenon
    <3>2. PICK k \in Nat, lead \in Nat : k = Len(f.cache) /\ lead = Lead(f)
      BY <1>3, Sizes DEF HandlesOf, Lead
    <3>3. /\ f.data + lead + f.len <= f.md /\ f.md <= Window
          /\ f.at = Reached(f) \/ f.at < Reached(f) + Granule
      BY <3>1, <3>2, Zenon DEF Pending, Held, Ahead
    <3>4. Reached(f) = f.data + lead + f.len - k
      BY <3>2, Zenon DEF Reached
    <3> QED  BY <1>5, <3>1, <3>3, <3>4, Sizes, SMTT(30)
  <2>2. CASE mode = "read"
    <3>1. On(flash, f) /\ f.at = 0 /\ f.dpos <= f.len
      BY <2>2, ReaderFacts, SMTT(30) DEF IInv, Fields
    <3>2. PICK s \in Sectors : s = f.cur /\ Used(s)
      BY <3>1, Zenon DEF On, Used
    <3>3. /\ Rec(s).data \in Nat /\ Rec(s).len \in Nat /\ Skip(Rec(s)) \in Nat
      BY <3>2, RecordTyped, Zenon DEF IInv
    <3>4. f.data = Rec(s).data + Skip(Rec(s)) /\ f.len = Rec(s).len - Skip(Rec(s))
      BY <3>1, <3>2, Zenon DEF On, Rec
    <3>5. Rec(s).data + Rec(s).len <= Window
      BY <3>2, Zenon DEF IInv, Extents, ExtentKept
    <3> QED  BY <1>5, <3>1, <3>3, <3>4, <3>5, Sizes, SMTT(30)
  <2>3. CASE mode \in {"none", "shut"}
    BY <2>3, Sizes, SMTT(30) DEF IInv, Fields
  <2> QED  BY <1>1, <2>1, <2>2, <2>3, SMTT(30)
<1>7. ASSUME NEW s \in Sectors, flash[s].rec # NoRec
      PROVE  flash[s].rec.st \in {"open", "live"}
  <2>1. flash[s].rec \in ExtentRecords
    BY <1>7 DEF IInv, Ranges, SectorsOf
  <2> QED  BY <2>1 DEF ExtentRecords
<1>8. Padded(Len(f.cache)) <= CacheSize
  <2>1. Len(f.cache) \in Nat
    BY <1>3 DEF HandlesOf
  <2> QED  BY <1>3, <2>1, PaddingFits, Zenon
<1> QED  BY <1>1, <1>2, <1>3, <1>4, <1>6, <1>7, <1>8, ZenonT(30) DEF TypeOK

\* The fields of a handle keep their ranges.  In a build whose file->cache takes
\* the name and a whole number of granules (CacheFits, which no code checks),
\* whatever the other sizes, the sectors and the calls, the name staged by
\* fffs_open, the bytes of fffs_write and fffs_read and the padding of
\* flush_write_cache stay in file->cache and in the sector's window.
THEOREM TypeCorrect ==
  ASSUME CacheFits
  PROVE  Spec => []TypeOK
<1>1. IInv => TypeOK
  BY RangesHold
<1> QED  BY <1>1, Invariance, PTL

-----------------------------------------------------------------------------
(* The caches agree with flash. *)

\* The sequence e is n bytes of an extent with such a lead.
Spelled(e, lead, off, n) ==
    /\ e \in Seq(Nat) /\ Len(e) = n
    /\ \A j \in 1 .. n : e[j] = Byte(lead, off, j - 1)

\* There is only one.
LEMMA SpelledOnce ==
  ASSUME NEW e, NEW x, NEW lead, NEW off, NEW n, Spelled(e, lead, off, n), Spelled(x, lead, off, n)
  PROVE  e = x
<1>1. e \in Seq(Nat) /\ x \in Seq(Nat) /\ Len(e) = n /\ Len(x) = n
  BY Zenon DEF Spelled
<1>2. \A j \in 1 .. Len(e) : e[j] = x[j]
  BY Zenon DEF Spelled
<1> QED  BY <1>1, <1>2, SameSeq, Zenon

\* How many bytes of an extent are the name.
NameOf(root) == IF root THEN Prefix ELSE 0

\* The bytes an extent should have, one by one.
LEMMA ExpectedBytes ==
  ASSUME NEW root \in BOOLEAN, NEW off \in Nat, NEW len \in Nat
  PROVE  Spelled(Expected(root, off, len), NameOf(root), off, NameOf(root) + len)
<1>0. PICK lead \in Nat : lead = NameOf(root)
  BY Sizes DEF NameOf
<1> DEFINE a == [i \in 1 .. lead |-> NameByte]
           b == Stream!Bytes(off, len)
<1>1. a \in [1 .. lead -> Nat] /\ \A i \in 1 .. lead : a[i] = NameByte
  BY Sizes
<1>2. b \in [1 .. len -> Nat] /\ \A i \in 1 .. len : b[i] = off + i
  BY DEF Stream!Bytes
<1>3. Expected(root, off, len) = a \o b
  BY <1>0, Zenon DEF Expected, NameOf
<1> HIDE DEF a, b
<1>4. a \in Seq(Nat) /\ Len(a) = lead /\ b \in Seq(Nat) /\ Len(b) = len
  BY <1>1, <1>2, FunctionIsSeq, SMTT(30)
<1>5. PICK e : e = a \o b
  OBVIOUS
<1>6. /\ e \in Seq(Nat) /\ Len(e) = lead + len
      /\ \A j \in 1 .. (lead + len) : e[j] = IF j <= lead THEN a[j] ELSE b[j - lead]
  <2>1. /\ e \in Seq(Nat) /\ Len(e) = Len(a) + Len(b)
        /\ \A j \in 1 .. (Len(a) + Len(b)) : e[j] = IF j <= Len(a) THEN a[j] ELSE b[j - Len(a)]
    BY <1>4, <1>5, ConcatProperties, Zenon
  <2> QED  BY <1>4, <2>1, Zenon
<1>7. ASSUME NEW j \in 1 .. (lead + len)
      PROVE  e[j] = Byte(lead, off, j - 1)
  <2>1. e[j] = IF j <= lead THEN a[j] ELSE b[j - lead]
    BY <1>6, Zenon
  <2>2. CASE j <= lead
    <3>1. j \in 1 .. lead /\ j - 1 < lead
      BY <2>2
    <3> QED  BY <1>1, <2>1, <2>2, <3>1, Zenon DEF Byte
  <2>3. CASE ~(j <= lead)
    <3>1. j - lead \in 1 .. len /\ ~(j - 1 < lead) /\ off + (j - lead) = off + (j - 1) - lead + 1
      BY <2>3
    <3> QED  BY <1>2, <2>1, <2>3, <3>1, Zenon DEF Byte
  <2> QED  BY <2>2, <2>3, Zenon
<1> QED  BY <1>0, <1>3, <1>5, <1>6, <1>7, ZenonT(30) DEF Spelled

\* The cells programmed of an extent, and the cache behind them.
BothOf(cell, cache, data, at) == [i \in 1 .. (at - data) |-> cell[data + i - 1]] \o cache

\* The cells programmed and the cache, one after the other.
LEMMA HeldBytes ==
  ASSUME NEW cell \in [Cells -> Nat], NEW cache \in Seq(Nat), NEW lead \in Nat, NEW off \in Nat,
         NEW len \in Nat, NEW data \in Nat, NEW at \in Nat, NEW md \in Nat,
         Held(cell, cache, lead, off, len, data, at, md)
  PROVE  Spelled(BothOf(cell, cache, data, at), lead, off, lead + len)
<1>0. PICK e : e = BothOf(cell, cache, data, at)
  OBVIOUS
<1> DEFINE a == [i \in 1 .. (at - data) |-> cell[data + i - 1]]
<1>1. /\ data <= at /\ data + lead + len <= md /\ md <= Window
      /\ at - data + Len(cache) = lead + len
      /\ \A i \in 0 .. (at - data - 1) : cell[data + i] = Byte(lead, off, i)
      /\ \A j \in 1 .. Len(cache) : cache[j] = Byte(lead, off, at - data + j - 1)
  BY Zenon DEF Held
<1>2. PICK n \in Nat, k \in Nat : n = at - data /\ k = Len(cache) /\ n + k = lead + len
  BY <1>1, SMTT(30)
<1>3. \A i \in 1 .. n : data + (i - 1) \in Cells
  BY <1>1, <1>2, Sizes, SMTT(30) DEF Cells
<1>4. a \in [1 .. n -> Nat] /\ \A i \in 1 .. n : a[i] = cell[data + (i - 1)]
  BY <1>2, <1>3
<1> HIDE DEF a
<1>5. a \in Seq(Nat) /\ Len(a) = n
  BY <1>4, FunctionIsSeq
<1>6. e = a \o cache
  BY <1>0, Zenon DEF a, BothOf
<1>7. /\ e \in Seq(Nat) /\ Len(e) = n + k
      /\ \A j \in 1 .. (n + k) : e[j] = IF j <= n THEN a[j] ELSE cache[j - n]
  <2>1. /\ a \o cache \in Seq(Nat) /\ Len(a \o cache) = Len(a) + Len(cache)
        /\ \A j \in 1 .. (Len(a) + Len(cache)) :
              (a \o cache)[j] = IF j <= Len(a) THEN a[j] ELSE cache[j - Len(a)]
    BY <1>5, ConcatProperties, Zenon
  <2> QED  BY <1>2, <1>5, <1>6, <2>1, Zenon
<1>8. ASSUME NEW j \in 1 .. (n + k)
      PROVE  e[j] = Byte(lead, off, j - 1)
  <2>1. CASE j <= n
    <3>1. j \in 1 .. n /\ j - 1 \in 0 .. (n - 1)
      BY <2>1
    <3>2. cell[data + (j - 1)] = Byte(lead, off, j - 1)
      BY <1>1, <1>2, <3>1, Zenon
    <3> QED  BY <1>4, <1>7, <2>1, <3>1, <3>2, ZenonT(30)
  <2>2. CASE ~(j <= n)
    <3>1. j - n \in 1 .. k /\ n + (j - n) - 1 = j - 1
      BY <2>2
    <3>2. cache[j - n] = Byte(lead, off, n + (j - n) - 1)
      BY <1>1, <1>2, <3>1, Zenon
    <3> QED  BY <1>7, <2>2, <3>1, <3>2, ZenonT(30)
  <2> QED  BY <2>1, <2>2, Zenon
<1> QED  BY <1>0, <1>2, <1>7, <1>8, ZenonT(30) DEF Spelled

\* The read cache is what flash has under the cursor.
LEMMA ReaderAgreed ==
  ASSUME IInv
  PROVE  ReaderAgrees
<1> SUFFICES ASSUME mode = "read", f.cache # <<>>
             PROVE  f.cpos + Len(f.cache) <= f.len /\ f.cache = DataAt(f, f.cpos, Len(f.cache))
  BY Zenon DEF ReaderAgrees
<1>1. f \in HandlesOf /\ On(flash, f)
  BY ReaderFacts, Zenon
<1>2. f.cpos + Len(f.cache) <= f.len /\ Run(f.cache, f.off + f.cpos)
  BY <1>1, Zenon DEF On
<1>3. PICK c \in Seq(Nat), d \in Nat, n \in Nat : c = f.cache /\ d = f.cpos /\ n = Len(c)
  BY <1>1, SMTT(30) DEF HandlesOf
<1>4. d + n <= f.len
  BY <1>2, <1>3, Zenon
<1>5. mode \in {"shut", "read"}
  OBVIOUS
<1>6. PICK e : e = DataAt(f, d, n)
  OBVIOUS
<1>7. e \in Seq(Nat) /\ Len(e) = n /\ Run(e, f.off + d)
  BY <1>1, <1>4, <1>5, <1>6, DataBytes, Zenon
<1>8. Run(c, f.off + d)
  BY <1>2, <1>3, Zenon
<1>9. \A i \in 1 .. n : c[i] = e[i]
  BY <1>3, <1>7, <1>8, Zenon DEF Run
<1>10. c = e
  BY <1>3, <1>7, <1>9, SameSeq, Zenon
<1> QED  BY <1>2, <1>3, <1>6, <1>10, Zenon

\* How many bytes of the extent of a writer are programmed.
LEMMA StoredBytes ==
  ASSUME NEW x, NEW g \in HandlesOf, NEW sz, Pending(x, g, sz)
  PROVE  \E at \in Nat : /\ at = Reached(g)
                         /\ at - g.data = Min({g.at - g.data, g.len + Lead(g)})
<1>1. PICK d \in Nat, l \in Nat, k \in Nat, a \in Nat, L \in Nat :
        d = g.data /\ l = Lead(g) /\ k = g.len /\ a = g.at /\ L = Len(g.cache)
  <2>1. g.data \in Nat /\ g.len \in Nat /\ g.at \in Nat /\ g.cache \in Seq(Nat)
    BY DEF HandlesOf
  <2>2. Lead(g) \in Nat
    BY LeadIsNat, Zenon
  <2>3. Len(g.cache) \in Nat
    BY <2>1
  <2> QED  BY <2>1, <2>2, <2>3, Zenon
<1>2. PICK e \in Int : e = d + l + k - L
  OBVIOUS
<1>3. Reached(g) = e
  BY <1>1, <1>2, Zenon DEF Reached
<1>4. d <= e /\ (a = e \/ (L = 0 /\ e <= a))
  BY <1>1, <1>3, Zenon DEF Pending, Held, Ahead
<1>5. Min({a - d, k + l}) = IF a - d <= k + l THEN a - d ELSE k + l
  BY MinOfTwo
<1>6. e \in Nat /\ e - d = IF a - d <= k + l THEN a - d ELSE k + l
  BY <1>2, <1>4
<1> QED  BY <1>1, <1>3, <1>5, <1>6, Zenon

\* Flash and the write cache hold what was accepted.
LEMMA WriterKept ==
  ASSUME IInv
  PROVE  WriterKeeps
<1> SUFFICES ASSUME mode = "write"
             PROVE  /\ f.off + f.len = size
                    /\ [i \in 1 .. Min({f.at - f.data, f.len + (IF f.cur = f.head THEN Prefix ELSE 0)})
                           |-> flash[f.cur].cell[f.data + i - 1]] \o f.cache
                           = Expected(f.cur = f.head, f.off, f.len)
                    /\ \A s \in Sectors \ {f.cur} :
                          LET r == flash[s].rec
                              skip == IF r.root THEN Prefix ELSE 0
                          IN  r # NoRec =>
                                [i \in 1 .. r.len |-> flash[s].cell[r.data + i - 1]]
                                    = Expected(r.root, r.off, r.len - skip)
  BY Zenon DEF WriterKeeps
<1>1. /\ flash \in [Sectors -> SectorsOf] /\ f \in HandlesOf /\ Pending(flash, f, size)
      /\ f.cur \in Sectors
  BY WriterFacts, Zenon
<1>2. f.off + f.len = size
  BY <1>1, Zenon DEF Pending
<1>3. [i \in 1 .. Min({f.at - f.data, f.len + (IF f.cur = f.head THEN Prefix ELSE 0)})
         |-> flash[f.cur].cell[f.data + i - 1]] \o f.cache
         = Expected(f.cur = f.head, f.off, f.len)
  <2>0. PICK at \in Nat : /\ at = Reached(f)
                          /\ at - f.data = Min({f.at - f.data, f.len + Lead(f)})
    BY <1>1, StoredBytes, Zenon
  <2>1. PICK off \in Nat, len \in Nat, data \in Nat, md \in Nat, cache \in Seq(Nat) :
          /\ off = f.off /\ len = f.len /\ data = f.data /\ md = f.md
          /\ cache = f.cache
    BY <1>1 DEF HandlesOf
  <2>2. PICK cell \in [Cells -> Nat] : cell = flash[f.cur].cell
    BY <1>1 DEF SectorsOf
  <2>3. PICK root \in BOOLEAN, lead \in Nat :
          root = (f.cur = f.head) /\ lead = Lead(f) /\ lead = NameOf(root)
    BY Sizes DEF Lead, NameOf
  <2>4. Held(cell, cache, lead, off, len, data, at, md)
    BY <1>1, <2>0, <2>1, <2>2, <2>3, Zenon DEF Pending
  <2>5. Spelled(BothOf(cell, cache, data, at), lead, off, lead + len)
    BY <2>4, HeldBytes, Zenon
  <2>6. Spelled(Expected(root, off, len), lead, off, lead + len)
    BY <2>3, ExpectedBytes, ZenonT(30)
  <2>7. BothOf(cell, cache, data, at) = Expected(root, off, len)
    BY <2>5, <2>6, SpelledOnce, Zenon
  <2>8. at - data = Min({f.at - f.data, f.len + (IF f.cur = f.head THEN Prefix ELSE 0)})
    BY <2>0, <2>1, Zenon DEF Lead
  <2> QED  BY <2>1, <2>2, <2>3, <2>7, <2>8, Zenon DEF BothOf
<1>4. ASSUME NEW s \in Sectors, s # f.cur, flash[s].rec # NoRec
      PROVE  LET r == flash[s].rec
                 skip == IF r.root THEN Prefix ELSE 0
             IN  [i \in 1 .. r.len |-> flash[s].cell[r.data + i - 1]]
                     = Expected(r.root, r.off, r.len - skip)
  <2>1. Used(s) /\ ExtentKept(s)
    BY <1>4, Zenon DEF IInv, Extents, Used
  <2>2. flash[s].rec \in ExtentRecords
    BY <1>1, <1>4, SMTT(30) DEF SectorsOf
  <2>3. PICK root \in BOOLEAN, off \in Nat, len \in Nat, data \in Nat :
          /\ root = flash[s].rec.root /\ off = flash[s].rec.off /\ len = flash[s].rec.len
          /\ data = flash[s].rec.data
    BY <2>2 DEF ExtentRecords
  <2>4. PICK lead \in Nat : lead = NameOf(root)
    BY Sizes DEF NameOf
  <2>5. Skip(Rec(s)) = lead
    BY <2>3, <2>4, Zenon DEF Skip, Rec, NameOf
  <2>6. PICK cell \in [Cells -> Nat] : cell = flash[s].cell
    BY <1>1 DEF SectorsOf
  <2>7. /\ data + len <= Window /\ (root => len >= Prefix)
        /\ \A i \in 0 .. (len - 1) : cell[data + i] = Byte(lead, off, i)
    BY <2>1, <2>3, <2>5, <2>6, Zenon DEF ExtentKept, Rec
  <2>8. PICK n \in Nat : n = len - lead /\ lead + n = len
    <3>1. CASE root
      <4>1. len >= Prefix /\ lead = Prefix
        BY <2>4, <2>7, <3>1, Zenon DEF NameOf
      <4> QED  BY <4>1
    <3>2. CASE ~root
      <4>1. lead = 0
        BY <2>4, <3>2, Zenon DEF NameOf
      <4> QED  BY <4>1
    <3> QED  BY <3>1, <3>2
  <2> DEFINE e == [i \in 1 .. len |-> cell[data + i - 1]]
  <2>9. \A i \in 1 .. len : data + (i - 1) \in Cells /\ i - 1 \in 0 .. (len - 1)
    BY <2>7, Sizes, SMTT(30) DEF Cells
  <2>10. e \in [1 .. len -> Nat] /\ \A i \in 1 .. len : e[i] = cell[data + (i - 1)]
    BY <2>9
  <2>11. PICK y : y = e
    OBVIOUS
  <2>12. y \in Seq(Nat) /\ Len(y) = len
    BY <2>10, <2>11, FunctionIsSeq
  <2>13. \A i \in 1 .. len : y[i] = Byte(lead, off, i - 1)
    BY <2>7, <2>9, <2>10, <2>11, ZenonT(30)
  <2>14. Spelled(y, lead, off, lead + n)
    BY <2>8, <2>12, <2>13, Zenon DEF Spelled
  <2>15. Spelled(Expected(root, off, n), lead, off, lead + n)
    BY <2>4, ExpectedBytes, Zenon
  <2>16. y = Expected(root, off, n)
    BY <2>14, <2>15, SpelledOnce, Zenon
  <2>17. (IF flash[s].rec.root THEN Prefix ELSE 0) = lead
    BY <2>3, <2>4, Zenon DEF NameOf
  <2> QED  BY <2>3, <2>6, <2>8, <2>11, <2>16, <2>17, ZenonT(30)
<1> QED  BY <1>2, <1>3, <1>4, Zenon

\* The cache of a handle and flash agree, whatever the sizes, the calls and the
\* sectors given: flush_write_cache, start_next_extent and fffs_close lose no byte
\* and program none twice, and fffs_read, fffs_seek and the hunt in a span leave no
\* stale cache_len behind.
THEOREM CacheCorrect ==
  ASSUME CacheFits
  PROVE  Spec => []CacheAgrees
<1>1. IInv => CacheAgrees
  BY ReaderAgreed, WriterKept, Zenon DEF CacheAgrees
<1> QED  BY <1>1, Invariance, PTL

-----------------------------------------------------------------------------
(* A handle is a stream of bytes. *)

\* While fffs_seek runs nothing was delivered since it started.
Quiet == pc \in {"seek", "hunt"} => out = <<>>

\* That is so in every state.
LEMMA StaysQuiet ==
  ASSUME Quiet, [Next]_vars
  PROVE  Quiet'
<1>1. ASSUME NEW s \in Sectors, NEW win \in RootWindows, OpenWrite(s, win)
      PROVE  Quiet'
  BY <1>1, Zenon DEF OpenWrite, Quiet
<1>2. ASSUME NEW n \in WriteSizes, Write(n)
      PROVE  Quiet'
  <2>1. pc' = "write"
    BY <1>2, Zenon DEF Write
  <2> QED  BY <2>1 DEF Quiet
<1>3. CASE Close
  BY <1>3, Zenon DEF Close, Quiet
<1>4. CASE OpenRead \/ CloseRead \/ (\E n \in ReadSizes : Read(n)) \/ (\E p \in 0 .. size : Seek(p))
  <2>1. out' = <<>>
    BY <1>4, Zenon DEF OpenRead, CloseRead, Read, Seek
  <2> QED  BY <2>1, Zenon DEF Quiet
<1>5. CASE WriteCopy
  <2>1. pc' = "idle" \/ pc' = "write"
    BY <1>5, Zenon DEF WriteCopy
  <2> QED  BY <2>1 DEF Quiet
<1>6. ASSUME NEW s \in Unused, StartNextExtent(s)
      PROVE  Quiet'
  BY <1>6, Zenon DEF StartNextExtent, Quiet
<1>7. CASE WriteNoSpace
  <2>1. pc' = "idle"
    BY <1>7, Zenon DEF WriteNoSpace
  <2> QED  BY <2>1 DEF Quiet
<1>8. CASE ReadStep
  <2>1. pc' = "idle" \/ pc' = "read" \/ pc' = "corrupt"
    BY <1>8, Zenon DEF ReadStep, ReadChunk, Corrupt
  <2> QED  BY <2>1 DEF Quiet
<1>9. CASE SeekStep \/ HuntStep
  <2>1. pc \in {"seek", "hunt"}
    BY <1>9, Zenon DEF SeekStep, HuntStep
  <2>2. out' = <<>>
    BY <1>9, <2>1, Zenon DEF SeekStep, HuntStep, SeekAdvance, Arrived, Corrupt, Quiet
  <2> QED  BY <2>2, Zenon DEF Quiet
<1>10. CASE UNCHANGED vars
  BY <1>10, Zenon DEF vars, Quiet
<1> QED
  BY <1>1, <1>2, <1>3, <1>4, <1>5, <1>6, <1>7, <1>8, <1>9, <1>10, ZenonT(30) DEF Next, Running

\* A step of a read delivers the bytes at the position.
LEMMA ReadDelivers ==
  ASSUME IInv, ReadStep
  PROVE  Stream!SNext
<1>1. pc = "read" /\ mode = "read"
  BY Zenon DEF ReadStep, IInv, Ranges
<1>2. pos \in Nat /\ size \in Nat /\ pos <= size /\ todo.left \in Nat
  BY <1>1, ReaderFacts, Zenon
<1>3. CASE f.dpos >= f.len /\ NextExtent(f) = 0
  <2>1. mode' = mode /\ size' = size /\ pos' = pos /\ out' = <<>>
    BY <1>3, Zenon DEF ReadStep, Corrupt
  <2>2. pos \in 0 .. size
    BY <1>2
  <2>3. Stream!Move(pos)
    BY <1>1, <2>1, Zenon DEF Stream!Move
  <2> QED  BY <2>2, <2>3, Zenon DEF Stream!SNext
<1>4. CASE ~(f.dpos >= f.len /\ NextExtent(f) = 0)
  <2> DEFINE g == IF f.dpos >= f.len THEN Advanced(f) ELSE f
  <2>1. ReadChunk(g) /\ mode' = mode /\ size' = size /\ flash' = flash
    BY <1>4, Zenon DEF ReadStep
  <2>2. /\ g \in HandlesOf /\ On(flash, g) /\ Len(g.cache) <= CacheSize
        /\ g.head = f.head /\ g.at = f.at /\ pos = g.off + g.dpos
    BY <1>1, <1>4, ReadGoesOn, Zenon
  <2> HIDE DEF g
  <2>3. PICK m \in Nat : ChunkDone(g, m)
    BY <1>1, <2>1, <2>2, ChunkKeeps, Zenon
  <2>4. /\ m <= todo.left /\ pos' = pos + m
        /\ out' \in Seq(Nat) /\ Len(out') = m /\ Run(out', pos)
    BY <2>3, Zenon DEF ChunkDone
  <2>5. pos + todo.left <= size
    BY <1>1, Zenon DEF IInv, Reading
  <2>6. pos + m <= size /\ m \in 0 .. size
    BY <1>2, <2>4, <2>5, SMTT(30)
  <2>7. out' = Stream!Bytes(pos, m)
    <3>1. PICK e \in [1 .. m -> Nat] : e = Stream!Bytes(pos, m) /\ \A i \in 1 .. m : e[i] = pos + i
      <4>1. [i \in 1 .. m |-> pos + i] \in [1 .. m -> Nat]
        BY <1>2
      <4> QED  BY <4>1 DEF Stream!Bytes
    <3>2. e \in Seq(Nat) /\ Len(e) = m
      BY FunctionIsSeq
    <3>3. PICK o \in Seq(Nat) : o = out'
      BY <2>4, Zenon
    <3>4. Len(o) = Len(e) /\ \A i \in 1 .. Len(o) : o[i] = e[i]
      BY <2>4, <3>1, <3>2, <3>3, Zenon DEF Run
    <3>5. o = e
      BY <3>2, <3>4, SameSeq, Zenon
    <3> QED  BY <3>1, <3>3, <3>5, Zenon
  <2>8. Stream!Deliver(m)
    BY <1>1, <2>1, <2>4, <2>6, <2>7, Zenon DEF Stream!Deliver
  <2> QED  BY <2>6, <2>8, Zenon DEF Stream!SNext
<1> QED  BY <1>3, <1>4, Zenon

\* A step of a seek moves the position to a place in the file, or nothing.
LEMMA SeekMoves ==
  ASSUME IInv, Quiet, SeekStep \/ HuntStep
  PROVE  Stream!SNext \/ UNCHANGED Stream!svars
<1>1. pc \in {"seek", "hunt"} /\ mode = "read"
  BY Zenon DEF SeekStep, HuntStep, IInv, Ranges
<1>2. pos \in Nat /\ size \in Nat /\ pos <= size /\ todo.left \in Nat
  BY <1>1, ReaderFacts, Zenon
<1>3. todo.left <= size
  BY <1>1, Zenon DEF IInv, Reading
<1>4. out = <<>>
  BY <1>1, Zenon DEF Quiet
<1>5. mode' = mode /\ size' = size /\ out' = <<>> /\ (pos' = pos \/ pos' = todo.left)
  BY <1>4, Zenon DEF SeekStep, HuntStep, SeekAdvance, Arrived, Corrupt
<1>6. PICK p \in 0 .. size : pos' = p
  BY <1>2, <1>3, <1>5
<1>7. Stream!Move(p)
  BY <1>1, <1>5, <1>6, Zenon DEF Stream!Move
<1> QED  BY <1>7, Zenon DEF Stream!SNext

\* Every step of a handle is a step of the stream or none.
LEMMA StreamStep ==
  ASSUME IInv, Quiet, [Next]_vars, IInv'
  PROVE  Stream!SNext \/ UNCHANGED Stream!svars
<1>1. ASSUME NEW s \in Sectors, NEW win \in RootWindows, OpenWrite(s, win)
      PROVE  Stream!SNext
  <2>1. Stream!Create
    BY <1>1, Zenon DEF OpenWrite, Stream!Create
  <2> QED  BY <2>1, Zenon DEF Stream!SNext
<1>2. ASSUME NEW n \in WriteSizes, Write(n)
      PROVE  UNCHANGED Stream!svars
  BY <1>2, Zenon DEF Write, Stream!svars
<1>3. CASE Close
  <2>1. Stream!Commit
    BY <1>3, Zenon DEF Close, Stream!Commit
  <2> QED  BY <2>1, Zenon DEF Stream!SNext
<1>4. CASE OpenRead
  <2>1. Stream!Open
    BY <1>4, Zenon DEF OpenRead, Stream!Open
  <2> QED  BY <2>1, Zenon DEF Stream!SNext
<1>5. CASE (\E n \in ReadSizes : Read(n)) \/ (\E p \in 0 .. size : Seek(p))
  <2>1. mode = "read" /\ mode' = mode /\ size' = size /\ pos' = pos /\ out' = <<>>
    BY <1>5, Zenon DEF Read, Seek
  <2>2. pos \in Nat /\ size \in Nat /\ pos <= size
    BY <2>1, ReaderFacts, Zenon
  <2>3. pos \in 0 .. size
    BY <2>2
  <2>4. Stream!Move(pos)
    BY <2>1, Zenon DEF Stream!Move
  <2> QED  BY <2>3, <2>4, Zenon DEF Stream!SNext
<1>6. CASE CloseRead
  <2>1. Stream!Shut
    BY <1>6, Zenon DEF CloseRead, Stream!Shut
  <2> QED  BY <2>1, Zenon DEF Stream!SNext
<1>7. CASE WriteCopy
  <2>1. /\ mode = "write" /\ mode' = mode /\ pos' = pos /\ out' = out
        /\ \E n \in Nat : size' = size + n
    BY <1>7, WriteCopyKeeps, Zenon
  <2>2. PICK n \in Nat : size' = size + n
    BY <2>1, Zenon
  <2>3. size \in Nat /\ size' <= MaxSize
    BY Zenon DEF IInv, Ranges, Writing
  <2>4. n = 0 \/ n \in 1 .. MaxSize
    BY <2>2, <2>3, Sizes, SMTT(30)
  <2>5. CASE n = 0
    <3>1. size' = size
      BY <2>2, <2>3, <2>5, SMTT(30)
    <3> QED  BY <2>1, <3>1, Zenon DEF Stream!svars
  <2>6. CASE n \in 1 .. MaxSize
    <3>1. Stream!Accept(n)
      BY <2>1, <2>2, Zenon DEF Stream!Accept
    <3> QED  BY <2>6, <3>1, Zenon DEF Stream!SNext
  <2> QED  BY <2>4, <2>5, <2>6, Zenon
<1>8. CASE (\E s \in Unused : StartNextExtent(s)) \/ WriteNoSpace \/ UNCHANGED vars
  BY <1>8, Zenon DEF StartNextExtent, WriteNoSpace, vars, Stream!svars
<1>9. CASE ReadStep
  BY <1>9, ReadDelivers, Zenon
<1>10. CASE SeekStep \/ HuntStep
  BY <1>10, SeekMoves, Zenon
<1> QED
  BY <1>1, <1>2, <1>3, <1>4, <1>5, <1>6, <1>7, <1>8, <1>9, <1>10, ZenonT(30) DEF Next, Running

\* A file handle implements the stream of bytes of ByteStream, whatever the sizes
\* of the writes, the extents and spans they fell into and the reads and seeks
\* before: every step of fffs_read gives the bytes at the position, in order, and
\* fffs_write, fffs_close, fffs_open and fffs_seek change the size and the position
\* as the stream does.
THEOREM Refinement ==
  ASSUME CacheFits
  PROVE  Spec => ImplementsStream
<1>1. Init => Quiet /\ Stream!SInit
  BY Zenon DEF Init, Quiet, Stream!SInit
<1>2. Quiet /\ [Next]_vars => Quiet'
  BY StaysQuiet
<1>3. IInv /\ IInv' /\ Quiet /\ [Next]_vars => [Stream!SNext]_(Stream!svars)
  BY StreamStep, Zenon
<1> QED  BY <1>1, <1>2, <1>3, Invariance, PTL DEF Spec, ImplementsStream, Stream!SSpec

-----------------------------------------------------------------------------
(* The chain of extents leads to every byte. *)

\* The loop of fffs_read goes on as long as bytes are wanted.
Wanting == pc = "read" => todo.left > 0

\* A read that wants bytes beyond the extent, and a seek to a byte beyond it, find
\* another extent in the chain: a file that was written and closed never makes
\* them return FFFS_ERR_CORRUPT because the spans and links end too early.
LinksReach ==
    /\ pc = "read" /\ f.dpos >= f.len => NextExtent(f) # 0
    /\ pc \in {"seek", "hunt"} /\ f.off + f.len < todo.left => NextExtent(f) # 0

\* Bytes are wanted in every round.
LEMMA StaysWanting ==
  ASSUME IInv, Wanting, [Next]_vars
  PROVE  Wanting'
<1>1. ASSUME NEW n \in ReadSizes, Read(n)
      PROVE  Wanting'
  <2>1. /\ mode = "read" /\ pos < size /\ todo' = [Idle EXCEPT !.left = Min({n, size - pos})]
    BY <1>1, Zenon DEF Read
  <2>2. todo'.left = Min({n, size - pos})
    BY <2>1 DEF Idle
  <2>3. PICK k \in Nat, r \in Nat : k = n /\ k > 0 /\ r = size - pos /\ r > 0
    <3>1. n \in Nat /\ n > 0
      BY FileIOAssumption
    <3>2. pos \in Nat /\ size \in Nat
      BY <2>1, ReaderFacts, Zenon
    <3>3. size - pos \in Nat /\ size - pos > 0
      BY <2>1, <3>2
    <3> QED  BY <3>1, <3>3, Zenon
  <2>4. Min({k, r}) = IF k <= r THEN k ELSE r
    BY MinOfTwo
  <2>5. (IF k <= r THEN k ELSE r) > 0
    BY <2>3
  <2> QED  BY <2>2, <2>3, <2>4, <2>5, Zenon DEF Wanting
<1>2. CASE ReadStep
  <2>1. pc = "read" /\ mode = "read"
    BY <1>2, Zenon DEF ReadStep, IInv, Ranges
  <2>2. CASE f.dpos >= f.len /\ NextExtent(f) = 0
    <3>1. pc' = "corrupt"
      BY <1>2, <2>2, Zenon DEF ReadStep, Corrupt
    <3> QED  BY <3>1 DEF Wanting
  <2>3. CASE ~(f.dpos >= f.len /\ NextExtent(f) = 0)
    <3> DEFINE g == IF f.dpos >= f.len THEN Advanced(f) ELSE f
    <3>1. ReadChunk(g)
      BY <1>2, <2>3, Zenon DEF ReadStep
    <3>2. /\ g \in HandlesOf /\ On(flash, g) /\ Len(g.cache) <= CacheSize
          /\ g.head = f.head /\ g.at = f.at /\ pos = g.off + g.dpos
      BY <2>1, <2>3, ReadGoesOn, Zenon
    <3> HIDE DEF g
    <3>3. PICK m \in Nat : ChunkDone(g, m)
      BY <2>1, <3>1, <3>2, ChunkKeeps, ZenonT(30)
    <3>4. m <= todo.left /\ todo' = [todo EXCEPT !.left = todo.left - m] /\ Len(out') = m
      BY <3>3, Zenon DEF ChunkDone
    <3>5. pc' = IF todo.left = Len(out') THEN "idle" ELSE "read"
      BY <3>1, Zenon DEF ReadChunk
    <3>6. todo \in Todos /\ todo.left \in Nat
      BY <2>1, ReaderFacts, Zenon
    <3>7. todo'.left = todo.left - m
      BY <3>4, <3>6 DEF Todos
    <3>8. CASE todo.left = m
      <4>1. pc' = "idle"
        BY <3>4, <3>5, <3>8, Zenon
      <4> QED  BY <4>1 DEF Wanting
    <3>9. CASE todo.left # m
      <4>1. todo.left - m > 0
        BY <3>4, <3>6, <3>9, SMTT(30)
      <4> QED  BY <3>7, <4>1, Zenon DEF Wanting
    <3> QED  BY <3>8, <3>9, Zenon
  <2> QED  BY <2>2, <2>3, Zenon
<1>3. ASSUME pc' = pc, todo' = todo
      PROVE  Wanting'
  BY <1>3, Zenon DEF Wanting
<1>4. ASSUME pc' # "read"
      PROVE  Wanting'
  BY <1>4, Zenon DEF Wanting
<1>5. ASSUME \/ \E n \in WriteSizes : Write(n)
             \/ \E p \in 0 .. size : Seek(p)
             \/ WriteCopy \/ WriteNoSpace \/ SeekStep \/ HuntStep
      PROVE  pc' # "read"
  <2>1. \/ pc' \in {"write", "idle", "seek", "hunt", "corrupt"}
        \/ pc = "hunt" /\ pc' = pc
    BY <1>5, Zenon DEF Write, Seek, WriteCopy, WriteNoSpace, SeekStep, HuntStep, SeekAdvance,
       Arrived, Corrupt
  <2> QED  BY <2>1
<1>6. ASSUME \/ \E s \in Sectors, win \in RootWindows : OpenWrite(s, win)
             \/ Close \/ OpenRead \/ CloseRead \/ UNCHANGED vars
             \/ \E s \in Unused : StartNextExtent(s)
      PROVE  pc' = pc /\ todo' = todo
  BY <1>6, Zenon DEF OpenWrite, Close, OpenRead, CloseRead, StartNextExtent, vars
<1> QED  BY <1>1, <1>2, <1>3, <1>4, <1>5, <1>6, ZenonT(30) DEF Next, Running

\* A written and closed file is read to its last byte, whatever the sectors the
\* allocator gave for its extents.
THEOREM ReadsReach ==
  ASSUME CacheFits
  PROVE  Spec => []LinksReach
<1>1. Init => Wanting
  <2>1. Init => pc = "idle"
    BY Zenon DEF Init
  <2> QED  BY <2>1 DEF Wanting
<1>2. IInv /\ Wanting /\ [Next]_vars => Wanting'
  BY StaysWanting
<1>3. IInv /\ Wanting => LinksReach
  <2> SUFFICES ASSUME IInv, Wanting, mode = "read"
               PROVE  LinksReach
    BY DEF IInv, Ranges, LinksReach
  <2>1. NextExtent(f) = 0 => f.off + f.len = size
    BY AdvancedOn, Zenon
  <2>2. /\ pos \in Nat /\ size \in Nat /\ todo.left \in Nat
        /\ f.off \in Nat /\ f.len \in Nat /\ f.dpos \in Nat
    BY ReaderFacts, Zenon
  <2>3. ASSUME pc = "read", f.dpos >= f.len
        PROVE  NextExtent(f) # 0
    <3>1. pos = f.off + f.dpos /\ pos + todo.left <= size
      BY <2>3, Zenon DEF IInv, Reading
    <3>2. todo.left > 0
      BY <2>3, Zenon DEF Wanting
    <3>3. f.off + f.len # size
      BY <2>2, <2>3, <3>1, <3>2, SMTT(30)
    <3> QED  BY <2>1, <3>3, Zenon
  <2>4. ASSUME pc \in {"seek", "hunt"}, f.off + f.len < todo.left
        PROVE  NextExtent(f) # 0
    <3>1. todo.left <= size
      BY <2>4, Zenon DEF IInv, Reading
    <3>2. f.off + f.len # size
      BY <2>2, <2>4, <3>1
    <3> QED  BY <2>1, <3>2, Zenon
  <2> QED  BY <2>3, <2>4, Zenon DEF LinksReach
<1> QED  BY <1>1, <1>2, <1>3, Invariance, PTL DEF Spec

=============================================================================
