------------------------- MODULE VtableMemoryProofs -------------------------
(***************************************************************************)
(* Proofs about VtableMemory for any sizes of words and pages, any page    *)
(* tables, functions, entries and number of objects: a write copies what   *)
(* one memcpy would copy, hooking leaves all memory as it was but for the  *)
(* words that it hooks and saves, the private vtable has all of the class's*)
(* vtable, and no word is torn.                                            *)
(***************************************************************************)
EXTENDS VtableMemory, SetInduction

-----------------------------------------------------------------------------
(***************************************************************************)
(* Pages.                                                                  *)
(***************************************************************************)

\* Division by the size of a page.
LEMMA DivMod ==
  ASSUME NEW p \in Nat \ {0}, NEW a \in Nat
  PROVE  /\ a \div p \in Nat /\ a % p \in 0..p - 1
         /\ a = (a \div p) * p + (a % p)
OBVIOUS

LEMMA DivModUnique ==
  ASSUME NEW p \in Nat \ {0}, NEW q \in Nat, NEW r \in 0..p - 1,
         NEW s \in Nat, NEW t \in 0..p - 1, q * p + r = s * p + t
  PROVE  q = s /\ r = t
<1>1. ~(q < s)
  <2> SUFFICES ASSUME q < s PROVE FALSE
    OBVIOUS
  <2>1. PICK d \in Nat : s = q + 1 + d
    <3>1. s - q - 1 \in Nat /\ s = q + 1 + (s - q - 1)
      OBVIOUS
    <3> QED
      BY <3>1
  <2>2. s * p = q * p + p + d * p
    BY <2>1
  <2>3. d * p >= 0 /\ q * p \in Nat /\ d * p \in Nat
    OBVIOUS
  <2> QED
    BY <2>2, <2>3
<1>2. ~(s < q)
  <2> SUFFICES ASSUME s < q PROVE FALSE
    OBVIOUS
  <2>1. PICK d \in Nat : q = s + 1 + d
    <3>1. q - s - 1 \in Nat /\ q = s + 1 + (q - s - 1)
      OBVIOUS
    <3> QED
      BY <3>1
  <2>2. q * p = s * p + p + d * p
    BY <2>1
  <2>3. d * p >= 0 /\ s * p \in Nat /\ d * p \in Nat
    OBVIOUS
  <2> QED
    BY <2>2, <2>3
<1>3. q = s
  BY <1>1, <1>2
<1> QED
  BY <1>3

\* Addresses of one page are mapped together and to one frame.
LEMMA PhysInPage ==
  ASSUME pageTable \in PageTables, NEW a \in Nat, Mapped(a),
         NEW i \in Nat, i < InPage(DldVirtToPhys(a))
  PROVE  /\ DldVirtToPhys(a) \in Nat
         /\ InPage(DldVirtToPhys(a)) \in 1..PageSize
         /\ InPage(DldVirtToPhys(a)) = PageSize - (a % PageSize)
         /\ Mapped(a + i)
         /\ DldVirtToPhys(a + i) = DldVirtToPhys(a) + i
<1> DEFINE q == a \div PageSize
           r == a % PageSize
           f == pageTable[q]
<1>1. /\ PageSize \in Nat \ {0}
      /\ \A p \in DOMAIN pageTable : pageTable[p] \in Nat
  BY MemoryAssumption
<1>2. q \in Nat /\ r \in 0..PageSize - 1 /\ a = q * PageSize + r
  BY <1>1, DivMod
<1>3. q \in DOMAIN pageTable /\ f # 0 /\ DldVirtToPhys(a) = f * PageSize + r
  BY DEF Mapped, DldVirtToPhys
<1>4. f \in Nat \ {0}
  BY <1>1, <1>3
<1> HIDE DEF q, r, f
<1>5. f * PageSize \in Nat /\ f * PageSize > 0
  BY <1>1, <1>4
<1>6. DldVirtToPhys(a) \in Nat
  BY <1>2, <1>3, <1>5
<1>7. DldVirtToPhys(a) % PageSize = r
  <2> DEFINE b == DldVirtToPhys(a)
  <2>1. b \div PageSize \in Nat /\ b % PageSize \in 0..PageSize - 1
        /\ b = (b \div PageSize) * PageSize + (b % PageSize)
    BY <1>1, <1>6, DivMod
  <2> HIDE DEF b
  <2>2. b = f * PageSize + r
    BY <1>3 DEF b
  <2> DEFINE u == b \div PageSize
             v == b % PageSize
  <2>3. u \in Nat /\ v \in 0..PageSize - 1 /\ u * PageSize + v = f * PageSize + r
    BY <2>1, <2>2
  <2> HIDE DEF u, v
  <2>4. v = r
    BY <1>1, <1>2, <1>4, <2>3, DivModUnique
  <2> QED
    BY <2>4 DEF b, v
<1>8. InPage(DldVirtToPhys(a)) = PageSize - r /\ PageSize - r \in 1..PageSize
  BY <1>1, <1>2, <1>7 DEF InPage
<1>9. r + i \in 0..PageSize - 1
  BY <1>1, <1>2, <1>8
<1>10. (a + i) \div PageSize = q /\ (a + i) % PageSize = r + i
  <2> DEFINE b == a + i
  <2>1. b \in Nat /\ b = q * PageSize + (r + i)
    BY <1>1, <1>2
  <2> HIDE DEF b
  <2>2. b \div PageSize \in Nat /\ b % PageSize \in 0..PageSize - 1
        /\ b = (b \div PageSize) * PageSize + (b % PageSize)
    BY <1>1, <2>1, DivMod
  <2>3. b \div PageSize = q /\ b % PageSize = r + i
    BY <1>1, <1>2, <1>9, <2>1, <2>2, DivModUnique
  <2> QED
    BY <2>3 DEF b
<1>11. DldVirtToPhys(a + i) = f * PageSize + (r + i)
  BY <1>3, <1>10 DEF DldVirtToPhys, f
<1>12. DldVirtToPhys(a + i) = DldVirtToPhys(a) + i /\ DldVirtToPhys(a + i) # 0
  BY <1>2, <1>3, <1>5, <1>11
<1> QED
  BY <1>6, <1>8, <1>12 DEF Mapped, r

\* An address is mapped where its page has a frame.
LEMMA MappedByTable ==
  ASSUME pageTable \in PageTables, NEW a \in Nat,
         a \div PageSize \in DOMAIN pageTable, pageTable[a \div PageSize] # 0
  PROVE  Mapped(a)
<1> DEFINE f == pageTable[a \div PageSize]
           r == a % PageSize
<1>1. PageSize \in Nat \ {0} /\ f \in Nat \ {0} /\ r \in Nat
  BY MemoryAssumption
<1>2. DldVirtToPhys(a) = f * PageSize + r
  BY DEF DldVirtToPhys
<1> HIDE DEF f, r
<1>3. f * PageSize > 0
  BY <1>1
<1>4. f * PageSize + r # 0
  BY <1>1, <1>3
<1> QED
  BY <1>2, <1>4 DEF Mapped

\* No frame has two pages.
LEMMA PhysInjective ==
  ASSUME pageTable \in PageTables, NEW a \in Nat, Mapped(a),
         NEW b \in Nat, DldVirtToPhys(a) = DldVirtToPhys(b)
  PROVE  a = b
<1> DEFINE q == a \div PageSize
           r == a % PageSize
           s == b \div PageSize
           t == b % PageSize
<1>1. /\ PageSize \in Nat \ {0}
      /\ \A p \in DOMAIN pageTable : pageTable[p] \in Nat
      /\ \A m, n \in DOMAIN pageTable :
           pageTable[m] = pageTable[n] => m = n \/ pageTable[m] = 0
  BY MemoryAssumption
<1>2. /\ q \in Nat /\ r \in 0..PageSize - 1 /\ a = q * PageSize + r
      /\ s \in Nat /\ t \in 0..PageSize - 1 /\ b = s * PageSize + t
  BY <1>1, DivMod
<1>3. /\ q \in DOMAIN pageTable /\ pageTable[q] # 0
      /\ DldVirtToPhys(a) = pageTable[q] * PageSize + r
      /\ s \in DOMAIN pageTable /\ pageTable[s] # 0
      /\ DldVirtToPhys(b) = pageTable[s] * PageSize + t
  BY DEF Mapped, DldVirtToPhys
<1> HIDE DEF q, r, s, t
<1>4. pageTable[q] = pageTable[s] /\ r = t
  BY <1>1, <1>2, <1>3, DivModUnique
<1> QED
  BY <1>1, <1>2, <1>3, <1>4

-----------------------------------------------------------------------------
(***************************************************************************)
(* Copies, byte by byte.                                                   *)
(***************************************************************************)
Offsets(n) == 0..n - 1

\* The first n bytes at an address are in the memory m.
Reachable(m, a, n) ==
  \A i \in Offsets(n) : Mapped(a + i) /\ DldVirtToPhys(a + i) \in DOMAIN m

\* Two ranges of n bytes have none in common.
Apart(src, dst, n) == \A i, j \in Offsets(n) : src + i # dst + j

\* w is m with the first n bytes at src copied to dst.
IsCopy(w, m, dst, src, n) ==
  /\ w = [p \in DOMAIN m |-> w[p]]
  /\ \A i \in Offsets(n) : w[DldVirtToPhys(dst + i)] = m[DldVirtToPhys(src + i)]
  /\ \A p \in DOMAIN m :
       (\A i \in Offsets(n) : DldVirtToPhys(dst + i) # p) => w[p] = m[p]

LEMMA CopyUnique ==
  ASSUME NEW m, NEW w, NEW v, NEW dst, NEW src, NEW n,
         IsCopy(w, m, dst, src, n), IsCopy(v, m, dst, src, n)
  PROVE  w = v
<1>1. \A p \in DOMAIN m : w[p] = v[p]
  BY DEF IsCopy
<1>2. w = [p \in DOMAIN m |-> w[p]] /\ v = [p \in DOMAIN m |-> v[p]]
  BY DEF IsCopy
<1> QED
  BY <1>1, <1>2

\* What is written at the offset i of a target is the byte for i.
LEMMA memcpyCopies ==
  ASSUME pageTable \in PageTables, NEW m, NEW dst \in Nat, NEW src \in Nat,
         NEW n \in Nat, Reachable(m, dst, n)
  PROVE  IsCopy(memcpy(m, dst, src, n), m, dst, src, n)
<1> DEFINE T == {DldVirtToPhys(dst + i) : i \in Offsets(n)}
           At(p) == CHOOSE i \in Offsets(n) : DldVirtToPhys(dst + i) = p
           target == [p \in T |-> At(p)]
           w == memcpy(m, dst, src, n)
<1>1. w = [p \in DOMAIN m |-> IF p \in DOMAIN target
                              THEN m[DldVirtToPhys(src + target[p])] ELSE m[p]]
  BY DEF memcpy, Store, Offsets
<1>2. \A p \in T : At(p) \in Offsets(n) /\ DldVirtToPhys(dst + At(p)) = p
  OBVIOUS
<1>3. ASSUME NEW i \in Offsets(n) PROVE At(DldVirtToPhys(dst + i)) = i
  <2> DEFINE j == At(DldVirtToPhys(dst + i))
  <2>1. j \in Offsets(n) /\ DldVirtToPhys(dst + j) = DldVirtToPhys(dst + i)
    BY <1>2
  <2> HIDE DEF j
  <2>2. dst + i \in Nat /\ dst + j \in Nat /\ Mapped(dst + i)
    BY <2>1 DEF Reachable, Offsets
  <2>3. dst + i = dst + j
    BY <2>1, <2>2, PhysInjective
  <2>4. j = i
    BY <2>1, <2>3 DEF Offsets
  <2> QED
    BY <2>4 DEF j
<1>4. \A p \in T : target[p] = At(p)
  OBVIOUS
<1>5. DOMAIN target = T
  OBVIOUS
<1> HIDE DEF target, At, w
<1>6. \A i \in Offsets(n) :
        /\ DldVirtToPhys(dst + i) \in DOMAIN m \cap T
        /\ w[DldVirtToPhys(dst + i)] = m[DldVirtToPhys(src + i)]
  BY <1>1, <1>3, <1>4, <1>5 DEF Reachable
<1>7. \A p \in DOMAIN m : p \notin T => w[p] = m[p]
  BY <1>1, <1>5
<1>8. w = [p \in DOMAIN m |-> w[p]]
  BY <1>1
<1>9. IsCopy(w, m, dst, src, n)
  BY <1>6, <1>7, <1>8 DEF IsCopy
<1> QED
  BY <1>9 DEF w

\* Nothing is copied by an empty copy.
LEMMA CopyNothing ==
  ASSUME NEW m, NEW dst, NEW src, m = [p \in DOMAIN m |-> m[p]]
  PROVE  IsCopy(m, m, dst, src, 0)
BY DEF IsCopy, Offsets

\* A chunk: what is left of a page at the source and at the target.
LEMMA ChunkInPages ==
  ASSUME pageTable \in PageTables, NEW src \in Nat, NEW dst \in Nat,
         Mapped(src), Mapped(dst), NEW resid \in Nat \ {0},
         NEW cnt, cnt = ChunkSize(DldVirtToPhys(src), DldVirtToPhys(dst), resid)
  PROVE  /\ cnt \in 1..resid
         /\ \A i \in Offsets(cnt) :
              /\ Mapped(src + i) /\ DldVirtToPhys(src + i) = DldVirtToPhys(src) + i
              /\ Mapped(dst + i) /\ DldVirtToPhys(dst + i) = DldVirtToPhys(dst) + i
<1> DEFINE a == InPage(DldVirtToPhys(src))
           b == InPage(DldVirtToPhys(dst))
<1>1. PageSize \in Nat \ {0}
  BY MemoryAssumption
<1>2. a \in 1..PageSize /\ b \in 1..PageSize
  <2> DEFINE v == DldVirtToPhys(src)
             w == DldVirtToPhys(dst)
  <2>1. \A x \in Int : x % PageSize \in 0..PageSize - 1
    BY <1>1
  <2>2. \A page \in DOMAIN pageTable : pageTable[page] \in Nat
    BY MemoryAssumption
  <2>3. v \in Int /\ w \in Int
    BY <1>1, <2>2 DEF DldVirtToPhys
  <2> HIDE DEF v, w
  <2>4. PageSize - (v % PageSize) \in 1..PageSize
        /\ PageSize - (w % PageSize) \in 1..PageSize
    BY <1>1, <2>1, <2>3
  <2> QED
    BY <2>4 DEF InPage, v, w
<1>3. cnt = Min({a, b, resid})
  BY DEF ChunkSize
<1> HIDE DEF a, b
<1>4. cnt \in {a, b, resid} /\ cnt <= a /\ cnt <= b /\ cnt <= resid
  <2>1. \E x \in {a, b, resid} : \A y \in {a, b, resid} : x <= y
    BY <1>1, <1>2
  <2> QED
    BY <1>3, <2>1 DEF Min
<1>5. cnt \in 1..resid
  BY <1>1, <1>2, <1>4
<1>6. \A i \in Offsets(cnt) : i \in Nat /\ i < a /\ i < b
  BY <1>1, <1>2, <1>4, <1>5 DEF Offsets
<1> QED
  BY <1>5, <1>6, PhysInPage DEF a, b

\* A copy of which the next chunk is made is a copy of more.
LEMMA ChunkCopies ==
  ASSUME pageTable \in PageTables, NEW m, NEW w,
         NEW src \in Nat, NEW dst \in Nat, NEW done \in Nat, NEW cnt \in Nat,
         IsCopy(w, m, dst, src, done),
         Reachable(m, dst, done + cnt), Reachable(m, src, done + cnt),
         Apart(src, dst, done + cnt),
         \A i \in Offsets(cnt) :
           /\ DldVirtToPhys(src + done + i) = DldVirtToPhys(src + done) + i
           /\ DldVirtToPhys(dst + done + i) = DldVirtToPhys(dst + done) + i,
         DldVirtToPhys(src + done) \in Nat, DldVirtToPhys(dst + done) \in Nat
  PROVE  IsCopy(bcopy_phys(w, DldVirtToPhys(src + done),
                           DldVirtToPhys(dst + done), cnt),
                m, dst, src, done + cnt)
<1> DEFINE S(i) == DldVirtToPhys(src + i)
           D(i) == DldVirtToPhys(dst + i)
           s == S(done)
           d == D(done)
           v == bcopy_phys(w, s, d, cnt)
<1>0. \A i \in Offsets(cnt) : done + i \in Offsets(done + cnt)
                              /\ S(done + i) = s + i /\ D(done + i) = d + i
  <2> SUFFICES ASSUME NEW i \in Offsets(cnt)
               PROVE  done + i \in Offsets(done + cnt)
                      /\ S(done + i) = s + i /\ D(done + i) = d + i
    OBVIOUS
  <2>1. i \in Nat /\ i < cnt
    BY DEF Offsets
  <2>2. src + (done + i) = src + done + i /\ dst + (done + i) = dst + done + i
    BY <2>1
  <2> QED
    BY <2>1, <2>2 DEF Offsets
<1>1. \A i \in Offsets(done + cnt) :
        S(i) \in DOMAIN m /\ D(i) \in DOMAIN m
  BY DEF Reachable
<1>2. \A i, j \in Offsets(done + cnt) : S(i) # D(j)
  <2> SUFFICES ASSUME NEW i \in Offsets(done + cnt), NEW j \in Offsets(done + cnt),
                      S(i) = D(j)
               PROVE  FALSE
    OBVIOUS
  <2>1. src + i \in Nat /\ dst + j \in Nat /\ Mapped(src + i)
    BY DEF Reachable, Offsets
  <2>2. src + i = dst + j
    BY <2>1, PhysInjective
  <2> QED
    BY <2>2 DEF Apart
<1>3. \A i, j \in Offsets(done + cnt) : D(i) = D(j) => i = j
  <2> SUFFICES ASSUME NEW i \in Offsets(done + cnt), NEW j \in Offsets(done + cnt),
                      D(i) = D(j)
               PROVE  i = j
    OBVIOUS
  <2>1. dst + i \in Nat /\ dst + j \in Nat /\ Mapped(dst + i) /\ i \in Nat /\ j \in Nat
    BY DEF Reachable, Offsets
  <2>2. dst + i = dst + j
    BY <2>1, PhysInjective
  <2> QED
    BY <2>1, <2>2
<1>4. /\ w = [p \in DOMAIN m |-> w[p]] /\ DOMAIN w = DOMAIN m
      /\ \A i \in Offsets(done) : w[D(i)] = m[S(i)]
      /\ \A p \in DOMAIN m : (\A i \in Offsets(done) : D(i) # p) => w[p] = m[p]
  BY DEF IsCopy
<1>5. s \in Nat /\ d \in Nat
  OBVIOUS
<1>6. \A i \in Offsets(done + cnt) :
        i \in Nat /\ (i \in Offsets(done) \/ i - done \in Offsets(cnt))
  BY DEF Offsets
<1>7. \A i \in Offsets(done) : i \in Offsets(done + cnt)
  BY DEF Offsets
<1>8. \A p \in d..d + cnt - 1 : p - d \in Offsets(cnt) /\ d + (p - d) = p
  BY <1>5 DEF Offsets
<1> HIDE DEF S, D, s, d
<1>9. /\ v = [p \in DOMAIN m |-> v[p]]
      /\ \A p \in DOMAIN m :
           v[p] = IF p \in d..d + cnt - 1 THEN w[s + (p - d)] ELSE w[p]
  BY <1>4 DEF bcopy_phys
<1> HIDE DEF v
<1>10. ASSUME NEW i \in Offsets(done + cnt) PROVE v[D(i)] = m[S(i)]
  <2>1. CASE i \in Offsets(done)
    <3>1. D(i) \notin d..d + cnt - 1
      <4> SUFFICES ASSUME D(i) \in d..d + cnt - 1 PROVE FALSE
        OBVIOUS
      <4>1. PICK k \in Offsets(cnt) : D(i) = d + k
        BY <1>8
      <4>2. D(i) = D(done + k) /\ done + k \in Offsets(done + cnt)
        BY <1>0, <4>1
      <4>3. i = done + k
        BY <1>3, <4>2
      <4> QED
        BY <2>1, <4>3 DEF Offsets
    <3> QED
      BY <1>1, <1>4, <1>9, <2>1, <3>1
  <2>2. CASE i - done \in Offsets(cnt)
    <3> DEFINE k == i - done
    <3>1. k \in Offsets(cnt) /\ i = done + k /\ k \in Nat /\ k < cnt
      BY <1>6, <2>2 DEF Offsets
    <3> HIDE DEF k
    <3>2. D(i) = d + k /\ S(i) = s + k
      BY <1>0, <3>1
    <3>3. D(i) \in d..d + cnt - 1 /\ D(i) - d = k
      BY <1>5, <3>1, <3>2
    <3>4. v[D(i)] = w[S(i)]
      BY <1>1, <1>9, <3>2, <3>3
    <3>5. w[S(i)] = m[S(i)]
      BY <1>1, <1>2, <1>4, <1>7
    <3> QED
      BY <3>4, <3>5
  <2> QED
    BY <1>6, <2>1, <2>2
<1>11. ASSUME NEW p \in DOMAIN m, \A i \in Offsets(done + cnt) : D(i) # p
       PROVE  v[p] = m[p]
  <2>1. p \notin d..d + cnt - 1
    <3> SUFFICES ASSUME p \in d..d + cnt - 1 PROVE FALSE
      OBVIOUS
    <3>1. PICK k \in Offsets(cnt) : p = d + k
      BY <1>8
    <3> QED
      BY <1>0, <1>11, <3>1
  <2> QED
    BY <1>4, <1>7, <1>9, <1>11, <2>1
<1>12. IsCopy(v, m, dst, src, done + cnt)
  BY <1>9, <1>10, <1>11 DEF IsCopy, S, D
<1> QED
  BY <1>12 DEF v, s, d, S, D

-----------------------------------------------------------------------------
(***************************************************************************)
(* The loop of DldWriteWiredSrcToWiredDst.                                 *)
(***************************************************************************)
WritePath(after, m, src, dst, len, turns) ==
  after = [n \in 0..turns |->
             IF n = 0 THEN [memory |-> m, bytes |-> 0]
             ELSE NextChunk(after[n - 1], src, dst, len)]

LEMMA WritePathExists ==
  ASSUME NEW m, NEW src, NEW dst, NEW len \in Nat
  PROVE  \E after :
           /\ WritePath(after, m, src, dst, len, len)
           /\ DldWriteWiredSrcToWiredDst(m, src, dst, len) = after[len]
<1> DEFINE Step(f, n) == IF n = 0 THEN [memory |-> m, bytes |-> 0]
                         ELSE NextChunk(f[n - 1], src, dst, len)
           Good == {k \in Nat : \E g : g = [n \in 0..k |-> Step(g, n)]}
<1>1. 0 \in Good
  <2> DEFINE g == [n \in 0..0 |-> [memory |-> m, bytes |-> 0]]
  <2>1. g = [n \in 0..0 |-> Step(g, n)]
    OBVIOUS
  <2> HIDE DEF g, Step
  <2> QED
    BY <2>1
<1>2. ASSUME NEW k \in Nat, k \in Good PROVE k + 1 \in Good
  <2>1. PICK g : g = [n \in 0..k |-> Step(g, n)]
    BY <1>2
  <2> DEFINE h == [n \in 0..k + 1 |-> Step(g, n)]
  <2>2. \A n \in 0..k : h[n] = g[n]
    <3> HIDE DEF Step
    <3> QED
      BY <2>1
  <2>3. \A n \in 0..k + 1 : Step(g, n) = Step(h, n)
    <3> SUFFICES ASSUME NEW n \in 0..k + 1, n # 0 PROVE g[n - 1] = h[n - 1]
      OBVIOUS
    <3>1. n - 1 \in 0..k
      OBVIOUS
    <3> HIDE DEF h
    <3> QED
      BY <2>2, <3>1
  <2>4. h = [n \in 0..k + 1 |-> Step(h, n)]
    <3> HIDE DEF Step
    <3> QED
      BY <2>3
  <2> HIDE DEF h, Step
  <2> QED
    BY <2>4
<1>3. len \in Good
  <2> HIDE DEF Good
  <2> QED
    BY <1>1, <1>2, InductionOnSet
<1> DEFINE after == CHOOSE g : WritePath(g, m, src, dst, len, len)
<1>4. WritePath(after, m, src, dst, len, len)
  BY <1>3 DEF WritePath
<1>5. DldWriteWiredSrcToWiredDst(m, src, dst, len) = after[len]
  BY DEF DldWriteWiredSrcToWiredDst, WritePath
<1> HIDE DEF after
<1> QED
  BY <1>4, <1>5

\* How many bytes are mapped at both ends before the first that is not.
BothMapped(src, dst, n) ==
  \A i \in Offsets(n) : Mapped(src + i) /\ Mapped(dst + i)
MappedBytes(src, dst, len) ==
  Max({n \in 0..len : \A i \in 0..n - 1 : Mapped(src + i) /\ Mapped(dst + i)})

LEMMA MappedPrefix ==
  ASSUME NEW src, NEW dst, NEW len \in Nat, NEW n,
         n = MappedBytes(src, dst, len)
  PROVE  /\ n \in 0..len /\ BothMapped(src, dst, n)
         /\ \A k \in 0..len : BothMapped(src, dst, k) => k <= n
<1> DEFINE S == {k \in 0..len : BothMapped(src, dst, k)}
           Short == {k \in Nat : len - k \in S}
<1>1. PICK x \in Short : \A y \in Short : x <= y
  <2>1. 0 \in S
    BY DEF BothMapped, Offsets
  <2>2. len \in Short
    BY <2>1
  <2> HIDE DEF S
  <2> QED
    BY <2>2, SmallestMember
<1>2. len - x \in S /\ \A y \in S : len - x >= y
  <2>1. ASSUME NEW y \in S PROVE len - x >= y
    <3>1. len - y \in Nat /\ len - (len - y) = y
      OBVIOUS
    <3>2. len - y \in Short
      BY <3>1
    <3>3. x <= len - y /\ x \in Nat /\ y \in Nat
      BY <1>1, <3>2
    <3> QED
      BY <3>3
  <2> QED
    BY <2>1
<1>3. n = Max(S)
  BY DEF MappedBytes, BothMapped, Offsets
<1> HIDE DEF S
<1>4. n \in S /\ \A y \in S : n >= y
  BY <1>2, <1>3 DEF Max
<1> QED
  BY <1>4 DEF S

\* Memory is whole: every mapped address has its byte.
Whole(m) ==
  /\ m = [p \in DOMAIN m |-> m[p]]
  /\ \A a \in Nat : Mapped(a) => DldVirtToPhys(a) \in DOMAIN m

\* What is written after some turns of the loop: a copy of so many bytes, with
\* at least one byte a turn, of those that are mapped at both ends.
Writing(written, m, src, dst, len, turns) ==
  /\ written = [memory |-> written.memory, bytes |-> written.bytes]
  /\ written.bytes \in 0..MappedBytes(src, dst, len)
  /\ written.bytes >= turns \/ written.bytes = MappedBytes(src, dst, len)
  /\ IsCopy(written.memory, m, dst, src, written.bytes)

LEMMA ChunkWritten ==
  ASSUME pageTable \in PageTables, NEW m, Whole(m),
         NEW src \in Nat, NEW dst \in Nat, NEW len \in Nat,
         Apart(src, dst, len), NEW turns \in Nat,
         NEW written, Writing(written, m, src, dst, len, turns)
  PROVE  Writing(NextChunk(written, src, dst, len), m, src, dst, len, turns + 1)
<1> DEFINE n == MappedBytes(src, dst, len)
           done == written.bytes
           s == DldVirtToPhys(src + done)
           d == DldVirtToPhys(dst + done)
           cnt == ChunkSize(s, d, len - done)
           more == [memory |-> bcopy_phys(written.memory, s, d, cnt),
                    bytes  |-> done + cnt]
<1>1. NextChunk(written, src, dst, len) =
        IF done = len \/ s = 0 \/ d = 0 THEN written ELSE more
  BY DEF NextChunk
<1>2. /\ n \in 0..len /\ BothMapped(src, dst, n)
      /\ \A k \in 0..len : BothMapped(src, dst, k) => k <= n
  BY MappedPrefix
<1>3. /\ written = [memory |-> written.memory, bytes |-> done]
      /\ done \in 0..n
      /\ done >= turns \/ done = n
      /\ IsCopy(written.memory, m, dst, src, done)
  BY DEF Writing
<1> HIDE DEF n, done
<1>4. done \in Nat /\ done <= n /\ n <= len /\ n \in Nat
      /\ src + done \in Nat /\ dst + done \in Nat
  BY <1>2, <1>3
<1>5. CASE done = len \/ s = 0 \/ d = 0
  <2>1. done = n
    <3>1. ASSUME done < n PROVE FALSE
      <4>1. done \in Offsets(n) /\ done # len
        BY <1>4, <3>1 DEF Offsets
      <4>2. Mapped(src + done) /\ Mapped(dst + done)
        BY <1>2, <4>1 DEF BothMapped
      <4> QED
        BY <1>5, <4>1, <4>2 DEF Mapped
    <3> QED
      BY <1>4, <3>1
  <2>2. NextChunk(written, src, dst, len) = written
    BY <1>1, <1>5
  <2> QED
    BY <1>3, <2>1, <2>2 DEF Writing, n, done
<1>6. CASE ~(done = len \/ s = 0 \/ d = 0)
  <2>1. Mapped(src + done) /\ Mapped(dst + done) /\ len - done \in Nat \ {0}
    BY <1>4, <1>6 DEF Mapped
  <2>2. /\ cnt \in 1..len - done
        /\ \A i \in Offsets(cnt) :
             /\ Mapped(src + done + i) /\ DldVirtToPhys(src + done + i) = s + i
             /\ Mapped(dst + done + i) /\ DldVirtToPhys(dst + done + i) = d + i
    <3> HIDE DEF cnt
    <3>1. cnt = ChunkSize(DldVirtToPhys(src + done), DldVirtToPhys(dst + done),
                          len - done)
      BY DEF cnt
    <3> QED
      BY <1>4, <2>1, <3>1, ChunkInPages
  <2>3. s \in Nat /\ d \in Nat
    <3>1. PageSize \in Nat \ {0}
      BY MemoryAssumption
    <3>2. \A page \in DOMAIN pageTable : pageTable[page] \in Nat
      BY MemoryAssumption
    <3>3. \A a \in Nat : DldVirtToPhys(a) \in Nat
      BY <3>1, <3>2 DEF DldVirtToPhys
    <3> QED
      BY <1>4, <3>3
  <2> HIDE DEF cnt, s, d
  <2>4. cnt \in Nat /\ cnt > 0 /\ done + cnt \in 0..len
    BY <1>4, <2>2
  <2>5. BothMapped(src, dst, done + cnt)
    <3> SUFFICES ASSUME NEW i \in Offsets(done + cnt)
                 PROVE  Mapped(src + i) /\ Mapped(dst + i)
      BY DEF BothMapped
    <3>1. CASE i < done
      <4>1. i \in Offsets(n)
        BY <1>4, <3>1 DEF Offsets
      <4> QED
        BY <1>2, <4>1 DEF BothMapped
    <3>2. CASE ~(i < done)
      <4> DEFINE j == i - done
      <4>1. j \in Offsets(cnt) /\ src + done + j = src + i /\ dst + done + j = dst + i
        BY <1>4, <2>4, <3>2 DEF Offsets
      <4> HIDE DEF j
      <4> QED
        BY <2>2, <4>1
    <3> QED
      BY <3>1, <3>2
  <2>6. done + cnt <= n
    BY <1>2, <2>4, <2>5
  <2>7. Reachable(m, src, done + cnt) /\ Reachable(m, dst, done + cnt)
    <3> SUFFICES ASSUME NEW i \in Offsets(done + cnt)
                 PROVE  /\ Mapped(src + i) /\ DldVirtToPhys(src + i) \in DOMAIN m
                        /\ Mapped(dst + i) /\ DldVirtToPhys(dst + i) \in DOMAIN m
      BY DEF Reachable
    <3>1. src + i \in Nat /\ dst + i \in Nat
      BY DEF Offsets
    <3> QED
      BY <2>5, <3>1 DEF BothMapped, Whole
  <2>8. Apart(src, dst, done + cnt)
    BY <1>4, <2>4 DEF Apart, Offsets
  <2>9. IsCopy(bcopy_phys(written.memory, s, d, cnt), m, dst, src, done + cnt)
    BY <1>3, <1>4, <2>2, <2>3, <2>4, <2>7, <2>8, ChunkCopies DEF s, d
  <2>10. NextChunk(written, src, dst, len) = more
    BY <1>1, <1>6 DEF s, d, cnt
  <2>11. more.memory = bcopy_phys(written.memory, s, d, cnt)
         /\ more.bytes = done + cnt
         /\ more = [memory |-> more.memory, bytes |-> more.bytes]
    BY DEF s, d, cnt
  <2> HIDE DEF more
  <2>12. more.bytes \in 0..n /\ (more.bytes >= turns + 1 \/ more.bytes = n)
    BY <1>3, <1>4, <2>4, <2>6, <2>11
  <2> QED
    BY <2>9, <2>10, <2>11, <2>12 DEF Writing, n
<1> QED
  BY <1>5, <1>6

\* DldWriteWiredSrcToWiredDst makes one copy of the bytes that are mapped at
\* both ends, wherever the two ranges cross pages, and tells how many.
LEMMA WriteIsCopy ==
  ASSUME pageTable \in PageTables, NEW m, Whole(m),
         NEW src \in Nat, NEW dst \in Nat, NEW len \in Nat, Apart(src, dst, len)
  PROVE  LET written == DldWriteWiredSrcToWiredDst(m, src, dst, len) IN
         /\ written.bytes = MappedBytes(src, dst, len)
         /\ IsCopy(written.memory, m, dst, src, MappedBytes(src, dst, len))
<1> DEFINE n == MappedBytes(src, dst, len)
<1>1. PICK after : /\ WritePath(after, m, src, dst, len, len)
                   /\ DldWriteWiredSrcToWiredDst(m, src, dst, len) = after[len]
  BY WritePathExists
<1> DEFINE Step(k) == IF k = 0 THEN [memory |-> m, bytes |-> 0]
                      ELSE NextChunk(after[k - 1], src, dst, len)
<1>2. \A k \in 0..len : after[k] = Step(k)
  <2>1. after = [k \in 0..len |-> Step(k)]
    BY <1>1 DEF WritePath
  <2> HIDE DEF Step
  <2> QED
    BY <2>1
<1>3. n \in 0..len
  BY MappedPrefix
<1> DEFINE Good == {k \in Nat : k <= len => Writing(after[k], m, src, dst, len, k)}
<1>4. 0 \in Good
  <2>1. after[0] = [memory |-> m, bytes |-> 0]
    BY <1>2
  <2>2. Writing([memory |-> m, bytes |-> 0], m, src, dst, len, 0)
    BY <1>3, CopyNothing DEF Writing, Whole
  <2> QED
    BY <2>1, <2>2
<1>5. ASSUME NEW k \in Nat, k \in Good PROVE k + 1 \in Good
  <2> SUFFICES ASSUME k + 1 <= len
               PROVE  Writing(after[k + 1], m, src, dst, len, k + 1)
    OBVIOUS
  <2>1. Writing(after[k], m, src, dst, len, k)
    BY <1>5
  <2>2. after[k + 1] = NextChunk(after[k], src, dst, len)
    <3>1. k + 1 \in 0..len /\ k + 1 # 0 /\ (k + 1) - 1 = k
      OBVIOUS
    <3> QED
      BY <1>2, <3>1
  <2> QED
    BY <2>1, <2>2, ChunkWritten
<1>6. len \in Good
  <2> HIDE DEF Good
  <2> QED
    BY <1>4, <1>5, InductionOnSet
<1>7. Writing(after[len], m, src, dst, len, len)
  BY <1>6
<1>8. after[len].bytes = n
  BY <1>3, <1>7 DEF Writing
<1> QED
  BY <1>1, <1>7, <1>8 DEF Writing

-----------------------------------------------------------------------------
(***************************************************************************)
(* The loops over the entries of HookedFunctonsInfo.                       *)
(***************************************************************************)

\* All hooks are written, one after the other.
HookTurns(after, m, k, from, to) ==
  /\ after[0] = m
  /\ \A i \in 1..Len(Hooked[k]) :
       after[i] = HookEntry(after[i - 1], k, i, from, to)
  /\ after[Len(Hooked[k])] = DldHookVtableFunctions(m, k, from, to)

LEMMA HookPath ==
  ASSUME NEW m, NEW k, NEW from, NEW to, Len(Hooked[k]) \in Nat
  PROVE  \E after : HookTurns(after, m, k, from, to)
<1> DEFINE len == Len(Hooked[k])
           Step(f, i) == IF i = 0 THEN m ELSE HookEntry(f[i - 1], k, i, from, to)
           Good == {c \in Nat : \E g : g = [i \in 0..c |-> Step(g, i)]}
<1>1. 0 \in Good
  <2> DEFINE g == [i \in 0..0 |-> m]
  <2>1. g = [i \in 0..0 |-> Step(g, i)]
    OBVIOUS
  <2> HIDE DEF g, Step
  <2> QED
    BY <2>1
<1>2. ASSUME NEW c \in Nat, c \in Good PROVE c + 1 \in Good
  <2>1. PICK g : g = [i \in 0..c |-> Step(g, i)]
    BY <1>2
  <2> DEFINE h == [i \in 0..c + 1 |-> Step(g, i)]
  <2>2. \A i \in 0..c : h[i] = g[i]
    <3> HIDE DEF Step
    <3> QED
      BY <2>1
  <2>3. \A i \in 0..c + 1 : Step(g, i) = Step(h, i)
    <3> SUFFICES ASSUME NEW i \in 0..c + 1, i # 0 PROVE g[i - 1] = h[i - 1]
      OBVIOUS
    <3>1. i - 1 \in 0..c
      OBVIOUS
    <3> HIDE DEF h
    <3> QED
      BY <2>2, <3>1
  <2>4. h = [i \in 0..c + 1 |-> Step(h, i)]
    <3> HIDE DEF Step
    <3> QED
      BY <2>3
  <2> HIDE DEF h, Step
  <2> QED
    BY <2>4
<1>3. len \in Good
  <2> HIDE DEF Good
  <2> QED
    BY <1>1, <1>2, InductionOnSet
<1> DEFINE after == CHOOSE g : g = [i \in 0..len |-> Step(g, i)]
<1>4. after = [i \in 0..len |-> Step(after, i)]
  BY <1>3
<1>5. DldHookVtableFunctions(m, k, from, to) = after[len]
  BY DEF DldHookVtableFunctions
<1>6. \A i \in 0..len : after[i] = Step(after, i)
  <2> HIDE DEF after, Step
  <2> QED
    BY <1>4
<1> HIDE DEF after
<1>7. after[0] = m /\ \A i \in 1..len : after[i] =
         HookEntry(after[i - 1], k, i, from, to)
  BY <1>6
<1>8. HookTurns(after, m, k, from, to)
  BY <1>5, <1>7 DEF HookTurns
<1> QED
  BY <1>8

\* All functions are restored, one after the other.
RestoreTurns(after, m, k, vtable) ==
  /\ after[0] = m
  /\ \A i \in 1..Len(Hooked[k]) :
       after[i] = RestoreEntry(after[i - 1], k, i, vtable)
  /\ after[Len(Hooked[k])] = DldUnHookVtableFunctions(m, k, vtable)

LEMMA RestorePath ==
  ASSUME NEW m, NEW k, NEW vtable, Len(Hooked[k]) \in Nat
  PROVE  \E after : RestoreTurns(after, m, k, vtable)
<1> DEFINE len == Len(Hooked[k])
           Step(f, i) == IF i = 0 THEN m ELSE RestoreEntry(f[i - 1], k, i, vtable)
           Good == {c \in Nat : \E g : g = [i \in 0..c |-> Step(g, i)]}
<1>1. 0 \in Good
  <2> DEFINE g == [i \in 0..0 |-> m]
  <2>1. g = [i \in 0..0 |-> Step(g, i)]
    OBVIOUS
  <2> HIDE DEF g, Step
  <2> QED
    BY <2>1
<1>2. ASSUME NEW c \in Nat, c \in Good PROVE c + 1 \in Good
  <2>1. PICK g : g = [i \in 0..c |-> Step(g, i)]
    BY <1>2
  <2> DEFINE h == [i \in 0..c + 1 |-> Step(g, i)]
  <2>2. \A i \in 0..c : h[i] = g[i]
    <3> HIDE DEF Step
    <3> QED
      BY <2>1
  <2>3. \A i \in 0..c + 1 : Step(g, i) = Step(h, i)
    <3> SUFFICES ASSUME NEW i \in 0..c + 1, i # 0 PROVE g[i - 1] = h[i - 1]
      OBVIOUS
    <3>1. i - 1 \in 0..c
      OBVIOUS
    <3> HIDE DEF h
    <3> QED
      BY <2>2, <3>1
  <2>4. h = [i \in 0..c + 1 |-> Step(h, i)]
    <3> HIDE DEF Step
    <3> QED
      BY <2>3
  <2> HIDE DEF h, Step
  <2> QED
    BY <2>4
<1>3. len \in Good
  <2> HIDE DEF Good
  <2> QED
    BY <1>1, <1>2, InductionOnSet
<1> DEFINE after == CHOOSE g : g = [i \in 0..len |-> Step(g, i)]
<1>4. after = [i \in 0..len |-> Step(after, i)]
  BY <1>3
<1>5. DldUnHookVtableFunctions(m, k, vtable) = after[len]
  BY DEF DldUnHookVtableFunctions
<1>6. \A i \in 0..len : after[i] = Step(after, i)
  <2> HIDE DEF after, Step
  <2> QED
    BY <1>4
<1> HIDE DEF after
<1>7. after[0] = m /\ \A i \in 1..len : after[i] =
         RestoreEntry(after[i - 1], k, i, vtable)
  BY <1>6
<1>8. RestoreTurns(after, m, k, vtable)
  BY <1>5, <1>7 DEF RestoreTurns
<1> QED
  BY <1>8

\* All originals are forgotten, one after the other.
ForgetTurns(after, m, k) ==
  /\ after[0] = m
  /\ \A i \in 1..Len(Hooked[k]) :
       after[i] = bzero(after[i - 1], OriginalAt(k, i), WordSize)
  /\ after[Len(Hooked[k])] = Forget(m, k)

LEMMA ForgetPath ==
  ASSUME NEW m, NEW k, Len(Hooked[k]) \in Nat
  PROVE  \E after : ForgetTurns(after, m, k)
<1> DEFINE len == Len(Hooked[k])
           Step(f, i) == IF i = 0 THEN m
                         ELSE bzero(f[i - 1], OriginalAt(k, i), WordSize)
           Good == {c \in Nat : \E g : g = [i \in 0..c |-> Step(g, i)]}
<1>1. 0 \in Good
  <2> DEFINE g == [i \in 0..0 |-> m]
  <2>1. g = [i \in 0..0 |-> Step(g, i)]
    OBVIOUS
  <2> HIDE DEF g, Step
  <2> QED
    BY <2>1
<1>2. ASSUME NEW c \in Nat, c \in Good PROVE c + 1 \in Good
  <2>1. PICK g : g = [i \in 0..c |-> Step(g, i)]
    BY <1>2
  <2> DEFINE h == [i \in 0..c + 1 |-> Step(g, i)]
  <2>2. \A i \in 0..c : h[i] = g[i]
    <3> HIDE DEF Step
    <3> QED
      BY <2>1
  <2>3. \A i \in 0..c + 1 : Step(g, i) = Step(h, i)
    <3> SUFFICES ASSUME NEW i \in 0..c + 1, i # 0 PROVE g[i - 1] = h[i - 1]
      OBVIOUS
    <3>1. i - 1 \in 0..c
      OBVIOUS
    <3> HIDE DEF h
    <3> QED
      BY <2>2, <3>1
  <2>4. h = [i \in 0..c + 1 |-> Step(h, i)]
    <3> HIDE DEF Step
    <3> QED
      BY <2>3
  <2> HIDE DEF h, Step
  <2> QED
    BY <2>4
<1>3. len \in Good
  <2> HIDE DEF Good
  <2> QED
    BY <1>1, <1>2, InductionOnSet
<1> DEFINE after == CHOOSE g : g = [i \in 0..len |-> Step(g, i)]
<1>4. after = [i \in 0..len |-> Step(after, i)]
  BY <1>3
<1>5. Forget(m, k) = after[len]
  BY DEF Forget
<1>6. \A i \in 0..len : after[i] = Step(after, i)
  <2> HIDE DEF after, Step
  <2> QED
    BY <1>4
<1> HIDE DEF after
<1>7. after[0] = m /\ \A i \in 1..len : after[i] =
         bzero(after[i - 1], OriginalAt(k, i), WordSize)
  BY <1>6
<1>8. ForgetTurns(after, m, k)
  BY <1>5, <1>7 DEF ForgetTurns
<1> QED
  BY <1>8

-----------------------------------------------------------------------------
(***************************************************************************)
(* No operation makes memory come or go.                                   *)
(***************************************************************************)
SameDomain(w, m) == w = [p \in DOMAIN m |-> w[p]]

LEMMA WholeKept ==
  ASSUME NEW m, NEW w, Whole(m), SameDomain(w, m)
  PROVE  Whole(w)
<1>1. DOMAIN w = DOMAIN m
  BY DEF SameDomain
<1> QED
  BY <1>1 DEF Whole, SameDomain

LEMMA SameDomainTransitive ==
  ASSUME NEW u, NEW v, NEW w, SameDomain(v, u), SameDomain(w, v)
  PROVE  SameDomain(w, u)
BY DEF SameDomain

LEMMA memcpyDomain ==
  ASSUME NEW m, NEW dst, NEW src, NEW len
  PROVE  SameDomain(memcpy(m, dst, src, len), m)
BY DEF memcpy, Store, SameDomain

LEMMA bzeroDomain ==
  ASSUME NEW m, NEW dst, NEW len
  PROVE  SameDomain(bzero(m, dst, len), m)
BY DEF bzero, Store, SameDomain

LEMMA LostDomain ==
  ASSUME NEW m, NEW dst, NEW len
  PROVE  SameDomain(Lost(m, dst, len), m)
BY DEF Lost, Store, SameDomain

LEMMA WriteDomain ==
  ASSUME NEW m, SameDomain(m, m), NEW src, NEW dst, NEW len \in Nat
  PROVE  SameDomain(DldWriteWiredSrcToWiredDst(m, src, dst, len).memory, m)
<1>1. PICK after : /\ WritePath(after, m, src, dst, len, len)
                   /\ DldWriteWiredSrcToWiredDst(m, src, dst, len) = after[len]
  BY WritePathExists
<1> DEFINE Step(k) == IF k = 0 THEN [memory |-> m, bytes |-> 0]
                      ELSE NextChunk(after[k - 1], src, dst, len)
           Good == {k \in Nat : k <= len => SameDomain(after[k].memory, m)}
<1>2. \A k \in 0..len : after[k] = Step(k)
  <2>1. after = [k \in 0..len |-> Step(k)]
    BY <1>1 DEF WritePath
  <2> HIDE DEF Step
  <2> QED
    BY <2>1
<1>3. 0 \in Good
  BY <1>2
<1>4. ASSUME NEW k \in Nat, k \in Good PROVE k + 1 \in Good
  <2> SUFFICES ASSUME k + 1 <= len PROVE SameDomain(after[k + 1].memory, m)
    OBVIOUS
  <2>1. SameDomain(after[k].memory, m)
    BY <1>4
  <2>2. k + 1 \in 0..len /\ k + 1 # 0 /\ (k + 1) - 1 = k
    OBVIOUS
  <2>3. after[k + 1] = NextChunk(after[k], src, dst, len)
    BY <1>2, <2>2
  <2>4. \A s, d, cnt : SameDomain(bcopy_phys(after[k].memory, s, d, cnt),
                                  after[k].memory)
    BY DEF SameDomain, bcopy_phys
  <2>5. SameDomain(NextChunk(after[k], src, dst, len).memory, after[k].memory)
        \/ NextChunk(after[k], src, dst, len) = after[k]
    BY <2>4 DEF NextChunk
  <2> QED
    BY <2>1, <2>3, <2>5, SameDomainTransitive
<1>5. len \in Good
  <2> HIDE DEF Good
  <2> QED
    BY <1>3, <1>4, InductionOnSet
<1> QED
  BY <1>1, <1>5

LEMMA HookEntryDomain ==
  ASSUME NEW m, SameDomain(m, m), NEW k, NEW i, NEW from, NEW to
  PROVE  SameDomain(HookEntry(m, k, i, from, to), m)
<1> DEFINE saved == memcpy(m, OriginalAt(k, i), SlotAt(from, Hooked[k][i]),
                           WordSize)
<1>1. SameDomain(saved, m)
  BY memcpyDomain
<1> HIDE DEF saved
<1>2. SameDomain(saved, saved)
  BY <1>1 DEF SameDomain
<1>3. WordSize \in Nat
  BY MemoryAssumption
<1>4. SameDomain(DldWriteWiredSrcToWiredDst(saved, HookingAt(k, i),
                   SlotAt(to, Hooked[k][i]), WordSize).memory, saved)
  BY <1>2, <1>3, WriteDomain
<1> QED
  BY <1>1, <1>4, SameDomainTransitive DEF HookEntry, saved

\* A loop whose turns keep the domain keeps it.
LEMMA LoopDomain ==
  ASSUME NEW n \in Nat, NEW after, NEW m, after[0] = m, SameDomain(m, m),
         \A i \in 1..n : SameDomain(after[i - 1], after[i - 1]) =>
                           SameDomain(after[i], after[i - 1])
  PROVE  SameDomain(after[n], m)
<1> DEFINE Good == {i \in Nat : i <= n => SameDomain(after[i], m)}
<1>1. 0 \in Good
  OBVIOUS
<1>2. ASSUME NEW i \in Nat, i \in Good PROVE i + 1 \in Good
  <2> SUFFICES ASSUME i + 1 <= n PROVE SameDomain(after[i + 1], m)
    OBVIOUS
  <2>1. SameDomain(after[i], m)
    BY <1>2
  <2>2. SameDomain(after[i], after[i])
    BY <2>1 DEF SameDomain
  <2>3. SameDomain(after[i + 1], after[i])
    <3>1. i + 1 \in 1..n /\ (i + 1) - 1 = i
      OBVIOUS
    <3> QED
      BY <2>2, <3>1
  <2> QED
    BY <2>1, <2>3, SameDomainTransitive
<1>3. n \in Good
  <2> HIDE DEF Good
  <2> QED
    BY <1>1, <1>2, InductionOnSet
<1> QED
  BY <1>3

LEMMA LoopsDomain ==
  ASSUME NEW m, SameDomain(m, m), NEW k \in Kinds
  PROVE  /\ \A from, to : SameDomain(DldHookVtableFunctions(m, k, from, to), m)
         /\ \A vtable : SameDomain(DldUnHookVtableFunctions(m, k, vtable), m)
         /\ SameDomain(Forget(m, k), m)
<1>1. Len(Hooked[k]) \in Nat
  BY MemoryAssumption
<1>2. ASSUME NEW from, NEW to
      PROVE  SameDomain(DldHookVtableFunctions(m, k, from, to), m)
  <2>1. PICK after : HookTurns(after, m, k, from, to)
    BY <1>1, HookPath
  <2> QED
    BY <1>1, <2>1, HookEntryDomain, LoopDomain DEF HookTurns
<1>3. ASSUME NEW vtable
      PROVE  SameDomain(DldUnHookVtableFunctions(m, k, vtable), m)
  <2>1. PICK after : RestoreTurns(after, m, k, vtable)
    BY <1>1, RestorePath
  <2>2. WordSize \in Nat
    BY MemoryAssumption
  <2>3. \A i \in 1..Len(Hooked[k]) : SameDomain(after[i - 1], after[i - 1]) =>
                                       SameDomain(after[i], after[i - 1])
    BY <2>1, <2>2, WriteDomain DEF RestoreEntry, RestoreTurns
  <2> QED
    BY <1>1, <2>1, <2>3, LoopDomain DEF RestoreTurns
<1>4. SameDomain(Forget(m, k), m)
  <2>1. PICK after : ForgetTurns(after, m, k)
    BY <1>1, ForgetPath
  <2> QED
    BY <1>1, <2>1, bzeroDomain, LoopDomain DEF ForgetTurns
<1> QED
  BY <1>2, <1>3, <1>4

LEMMA CopyVtableDomain ==
  ASSUME NEW m, NEW vtable, NEW size
  PROVE  SameDomain(CopyVtable(m, vtable, size), m)
BY memcpyDomain, bzeroDomain, SameDomainTransitive DEF CopyVtable

LEMMA MappedAddresses ==
  ASSUME pageTable \in PageTables
  PROVE  Addresses = {a \in Nat : Mapped(a)}
<1>1. PageSize \in Nat \ {0} /\ DOMAIN pageTable \subseteq Nat
  BY MemoryAssumption
<1>2. ASSUME NEW a \in Nat, Mapped(a) PROVE a \in Addresses
  <2> DEFINE q == a \div PageSize
             r == a % PageSize
  <2>1. q \in Nat /\ r \in 0..PageSize - 1 /\ a = q * PageSize + r
    BY <1>1, DivMod
  <2>2. q \in DOMAIN pageTable /\ pageTable[q] # 0
    BY <1>2 DEF Mapped, DldVirtToPhys
  <2> HIDE DEF q, r
  <2>3. (q + 1) * PageSize = q * PageSize + PageSize /\ q * PageSize \in Nat
    BY <1>1, <2>1
  <2>4. a \in q * PageSize..(q + 1) * PageSize - 1
    BY <1>1, <2>1, <2>3
  <2> QED
    BY <2>2, <2>4 DEF Addresses
<1>3. ASSUME NEW a \in Addresses PROVE a \in Nat /\ Mapped(a)
  <2>1. PICK q \in DOMAIN pageTable :
          pageTable[q] # 0 /\ a \in q * PageSize..(q + 1) * PageSize - 1
    BY DEF Addresses
  <2>2. q \in Nat /\ pageTable[q] \in Nat \ {0}
    BY <1>1, <2>1, MemoryAssumption
  <2>3. (q + 1) * PageSize = q * PageSize + PageSize /\ q * PageSize \in Nat
    BY <1>1, <2>2
  <2> DEFINE r == a - q * PageSize
             u == a \div PageSize
             v == a % PageSize
  <2>4. a \in Nat /\ r \in 0..PageSize - 1
    BY <1>1, <2>1, <2>3
  <2>5. u \in Nat /\ v \in 0..PageSize - 1 /\ a = u * PageSize + v
    BY <1>1, <2>4, DivMod
  <2>6. a = q * PageSize + r
    BY <2>3, <2>4
  <2> HIDE DEF r, u, v
  <2>7. u = q
    BY <1>1, <2>2, <2>4, <2>5, <2>6, DivModUnique
  <2>8. DldVirtToPhys(a) = pageTable[q] * PageSize + v
    BY <2>1, <2>7 DEF DldVirtToPhys, u, v
  <2>9. pageTable[q] * PageSize \in Nat \ {0}
    BY <1>1, <2>2
  <2> QED
    BY <2>4, <2>5, <2>8, <2>9 DEF Mapped
<1> QED
  BY <1>2, <1>3

\* The page table is one of those considered, every mapped address is in
\* memory.
WholeInv == pageTable \in PageTables /\ Whole(memory)

LEMMA WholeInit == MemoryInit => WholeInv
<1> SUFFICES ASSUME MemoryInit PROVE WholeInv
  OBVIOUS
<1>1. pageTable \in PageTables
  BY DEF MemoryInit
<1>2. ASSUME NEW a \in Nat, Mapped(a) PROVE DldVirtToPhys(a) \in DOMAIN memory
  BY <1>1, <1>2, MappedAddresses DEF MemoryInit
<1>3. memory = [p \in DOMAIN memory |-> memory[p]]
  BY DEF MemoryInit
<1> QED
  BY <1>1, <1>2, <1>3 DEF WholeInv, Whole

LEMMA WholeStep ==
  ASSUME WholeInv, [MemoryNext]_memoryVars
  PROVE  WholeInv'
<1>1. /\ pageTable' = pageTable /\ SameDomain(memory, memory)
      /\ "direct" \in Kinds /\ "object" \in Kinds
  BY DEF WholeInv, Whole, SameDomain, Kinds, MemoryNext, memoryVars, HookVtable,
         UnHookVtable, ScanFaults, HookObjectRefused, CopyAndHook, HookObject,
         UnHookObject
<1>2. SameDomain(memory', memory)
  <2>1. CASE HookVtable
    BY <1>1, <2>1, LoopsDomain DEF HookVtable
  <2>2. CASE UnHookVtable
    <3>1. LET m == DldUnHookVtableFunctions(memory, "direct", VtableAt) IN
          SameDomain(m, memory) /\ SameDomain(m, m)
      BY <1>1, LoopsDomain DEF SameDomain
    <3> QED
      BY <1>1, <2>2, <3>1, LoopsDomain, SameDomainTransitive DEF UnHookVtable
  <2>3. CASE CopyAndHook
    <3>1. LET m == CopyVtable(memory, NewVtableAt, CopySize) IN
          SameDomain(m, memory) /\ SameDomain(m, m)
      BY <1>1, CopyVtableDomain DEF SameDomain
    <3> QED
      BY <1>1, <2>3, <3>1, LoopsDomain, SameDomainTransitive DEF CopyAndHook
  <2>4. CASE UnHookObject
    <3>1. LET m == Lost(memory, buffer.at, buffer.size) IN
          SameDomain(m, memory) /\ SameDomain(m, m)
      BY <1>1, LostDomain DEF SameDomain
    <3> QED
      BY <1>1, <2>4, <3>1, LoopsDomain, SameDomainTransitive DEF UnHookObject
  <2>5. CASE ScanFaults \/ HookObjectRefused \/ HookObject \/ UNCHANGED memoryVars
    BY <1>1, <2>5 DEF ScanFaults, HookObjectRefused, HookObject, memoryVars
  <2> QED
    BY <2>1, <2>2, <2>3, <2>4, <2>5 DEF MemoryNext
<1>3. Whole(memory')
  BY <1>2, WholeKept DEF WholeInv
<1> QED
  BY <1>1, <1>3 DEF WholeInv, Whole, Mapped, DldVirtToPhys

LEMMA WholeInvariant == MemorySpec => []WholeInv
<1> QED
  BY WholeInit, WholeStep, PTL DEF MemorySpec

\* The ranges that WritesPrefix writes to and from have no byte in common.
RangesApart ==
  \/ VtableAt + 2 * PageSize + WordSize <= HeapAt
  \/ HeapAt + 2 * PageSize + WordSize <= VtableAt

\* For any size of words and pages, any page tables and wherever the ranges
\* begin in their pages: DldWriteWiredSrcToWiredDst copies the bytes up to the
\* first that is not mapped at the source or at the target, as one memcpy
\* would, and tells how many.
THEOREM WritesCopyPrefix == RangesApart => (MemorySpec => []WritesPrefix)
<1> SUFFICES ASSUME RangesApart PROVE MemorySpec => []WritesPrefix
  OBVIOUS
<1>1. WholeInv => WritesPrefix
  <2> SUFFICES ASSUME WholeInv,
                      NEW ends \in {<<VtableAt, HeapAt>>, <<HeapAt, VtableAt>>},
                      NEW i1 \in 0..PageSize, NEW i2 \in 0..PageSize,
                      NEW len \in {WordSize, PageSize, PageSize + WordSize}
               PROVE  LET src == ends[1] + i1
                          dst == ends[2] + i2
                          written == DldWriteWiredSrcToWiredDst(memory, src, dst, len)
                          n == MappedBytes(src, dst, len)
                      IN /\ written.bytes = n
                         /\ written.memory = memcpy(memory, dst, src, n)
    BY DEF WritesPrefix, MappedBytes
  <2> DEFINE src == ends[1] + i1
             dst == ends[2] + i2
             n == MappedBytes(src, dst, len)
             written == DldWriteWiredSrcToWiredDst(memory, src, dst, len)
  <2>1. /\ PageSize \in Nat \ {0} /\ WordSize \in Nat \ {0}
        /\ VtableAt \in Nat /\ HeapAt \in Nat
    BY MemoryAssumption
  <2>2. /\ ends[1] \in {VtableAt, HeapAt} /\ ends[2] \in {VtableAt, HeapAt}
        /\ ends[1] = VtableAt <=> ends[2] = HeapAt
    BY <2>1 DEF RangesApart
  <2>3. src \in Nat /\ dst \in Nat /\ len \in Nat /\ len <= PageSize + WordSize
    BY <2>1, <2>2
  <2>4. Apart(src, dst, len)
    BY <2>1, <2>2, <2>3 DEF Apart, Offsets, RangesApart
  <2> HIDE DEF src, dst
  <2>5. written.bytes = n /\ IsCopy(written.memory, memory, dst, src, n)
    BY <2>3, <2>4, WriteIsCopy DEF WholeInv
  <2>6. n \in Nat /\ BothMapped(src, dst, n)
    BY <2>3, MappedPrefix
  <2> HIDE DEF n, written
  <2>7. Reachable(memory, dst, n)
    BY <2>3, <2>6 DEF WholeInv, Whole, BothMapped, Reachable, Offsets
  <2>8. IsCopy(memcpy(memory, dst, src, n), memory, dst, src, n)
    BY <2>3, <2>6, <2>7, memcpyCopies DEF WholeInv
  <2>9. written.memory = memcpy(memory, dst, src, n)
    BY <2>5, <2>8, CopyUnique
  <2> QED
    BY <2>5, <2>9 DEF written, n, src, dst
<1> QED
  BY <1>1, WholeInvariant, PTL

-----------------------------------------------------------------------------
(***************************************************************************)
(* Words.                                                                  *)
(***************************************************************************)
Aligned(x) == \E q \in Nat : x = q * WordSize

BytesOf(a, n) == {b \in Nat : a <= b /\ b < a + n}

LEMMA AlignedIf ==
  ASSUME NEW x \in Nat, x % WordSize = 0
  PROVE  Aligned(x)
<1>1. WordSize \in Nat \ {0}
  BY MemoryAssumption
<1>2. x \div WordSize \in Nat /\ x = (x \div WordSize) * WordSize + (x % WordSize)
  BY <1>1, DivMod
<1>3. (x \div WordSize) * WordSize \in Nat
  BY <1>1, <1>2
<1>4. x = (x \div WordSize) * WordSize
  BY <1>2, <1>3
<1> QED
  BY <1>2, <1>4 DEF Aligned

LEMMA AlignedPlus ==
  ASSUME NEW x, Aligned(x), NEW n \in Nat
  PROVE  Aligned(x + n * WordSize) /\ x \in Nat
<1>1. WordSize \in Nat \ {0}
  BY MemoryAssumption
<1>2. PICK q \in Nat : x = q * WordSize
  BY DEF Aligned
<1>3. x + n * WordSize = (q + n) * WordSize /\ q + n \in Nat
  BY <1>1, <1>2
<1> QED
  BY <1>1, <1>2, <1>3 DEF Aligned

\* The word that a byte is in.
LEMMA ByteInWord ==
  ASSUME NEW x, Aligned(x), NEW a \in BytesOf(x, WordSize)
  PROVE  WordOf(a) = x /\ a % WordSize = a - x /\ a - x \in 0..WordSize - 1
<1>1. WordSize \in Nat \ {0}
  BY MemoryAssumption
<1>2. PICK q \in Nat : x = q * WordSize
  BY DEF Aligned
<1>3. x \in Nat /\ a \in Nat /\ a - x \in 0..WordSize - 1
  BY <1>1, <1>2 DEF BytesOf
<1> DEFINE r == a - x
           u == a \div WordSize
           v == a % WordSize
<1>4. u \in Nat /\ v \in 0..WordSize - 1 /\ u * WordSize + v = q * WordSize + r
  <2>1. a = u * WordSize + v /\ u \in Nat /\ v \in 0..WordSize - 1
    BY <1>1, <1>3, DivMod
  <2> HIDE DEF u, v
  <2> QED
    BY <1>2, <1>3, <2>1
<1>5. r \in 0..WordSize - 1
  BY <1>3
<1> HIDE DEF u, v, r
<1>6. v = r
  BY <1>1, <1>4, <1>5, DivModUnique
<1> QED
  BY <1>3, <1>6 DEF v, r, WordOf

LEMMA WordOfByte ==
  ASSUME NEW a \in Nat
  PROVE  Aligned(WordOf(a)) /\ a \in BytesOf(WordOf(a), WordSize)
<1>1. WordSize \in Nat \ {0}
  BY MemoryAssumption
<1> DEFINE u == a \div WordSize
           v == a % WordSize
<1>2. u \in Nat /\ v \in 0..WordSize - 1 /\ a = u * WordSize + v
  BY <1>1, DivMod
<1>3. WordOf(a) = a - v
  BY DEF WordOf
<1> HIDE DEF u, v
<1>4. u * WordSize \in Nat /\ WordOf(a) = u * WordSize
  BY <1>1, <1>2, <1>3
<1> QED
  BY <1>1, <1>2, <1>4 DEF Aligned, BytesOf

\* Different words have no byte in common.
LEMMA WordsApart ==
  ASSUME NEW x, NEW y, Aligned(x), Aligned(y), x # y
  PROVE  /\ BytesOf(x, WordSize) \cap BytesOf(y, WordSize) = {}
         /\ Apart(x, y, WordSize)
<1>1. WordSize \in Nat \ {0}
  BY MemoryAssumption
<1>2. BytesOf(x, WordSize) \cap BytesOf(y, WordSize) = {}
  BY ByteInWord
<1>3. x \in Nat /\ y \in Nat
  BY <1>1 DEF Aligned
<1>4. ASSUME NEW i \in Offsets(WordSize), NEW j \in Offsets(WordSize), x + i = y + j
      PROVE  FALSE
  <2>1. x + i \in BytesOf(x, WordSize) /\ y + j \in BytesOf(y, WordSize)
    BY <1>1, <1>3 DEF Offsets, BytesOf
  <2> QED
    BY <1>2, <1>4, <2>1
<1> QED
  BY <1>2, <1>4 DEF Apart

\* No word lies across the end of a page.
LEMMA WordInPage ==
  ASSUME pageTable \in PageTables, NEW x, Aligned(x), Mapped(x),
         NEW a \in BytesOf(x, WordSize)
  PROVE  Mapped(a)
<1>1. /\ WordSize \in Nat \ {0} /\ PageSize \in Nat \ {0}
      /\ PageSize % WordSize = 0
  BY MemoryAssumption
<1>2. PICK q \in Nat : x = q * WordSize
  BY DEF Aligned
<1>3. PICK c \in Nat : PageSize = c * WordSize
  BY <1>1, AlignedIf DEF Aligned
<1>4. x \in Nat
  BY <1>1, <1>2
<1> DEFINE u == x \div PageSize
           v == x % PageSize
<1>5. u \in Nat /\ v \in 0..PageSize - 1 /\ x = u * PageSize + v
  BY <1>1, <1>4, DivMod
<1> HIDE DEF u, v
<1>6. v = (q - u * c) * WordSize
  <2>1. u * PageSize = (u * c) * WordSize
    BY <1>1, <1>3, <1>5
  <2>2. u * c \in Nat
    BY <1>3, <1>5
  <2> DEFINE e == u * c
  <2> HIDE DEF e
  <2>3. q * WordSize = e * WordSize + v /\ e \in Nat
    BY <1>2, <1>5, <2>1, <2>2 DEF e
  <2>4. (q - e) * WordSize = q * WordSize - e * WordSize
    BY <1>1, <2>3
  <2>5. v = (q - e) * WordSize
    BY <1>1, <1>5, <2>3, <2>4
  <2> QED
    BY <2>5 DEF e
<1>7. v + WordSize <= PageSize
  <2> DEFINE d == q - u * c
  <2>1. d \in Int /\ v = d * WordSize
    <3>1. u * c \in Nat
      BY <1>3, <1>5
    <3> QED
      BY <1>6, <3>1
  <2> HIDE DEF d
  <2>2. d < c
    <3> SUFFICES ASSUME d >= c PROVE FALSE
      BY <2>1
    <3>1. PICK n \in Nat : d = c + n
      <4>1. d - c \in Nat /\ d = c + (d - c)
        BY <2>1
      <4> QED
        BY <4>1
    <3>2. v = c * WordSize + n * WordSize /\ n * WordSize \in Nat
      BY <1>1, <2>1, <3>1
    <3> QED
      BY <1>1, <1>3, <1>5, <3>2
  <2>3. PICK n \in Nat : c = d + 1 + n
    <3>1. c - d - 1 \in Nat /\ c = d + 1 + (c - d - 1)
      BY <2>1, <2>2
    <3> QED
      BY <3>1
  <2>4. PageSize = d * WordSize + WordSize + n * WordSize /\ n * WordSize \in Nat
    BY <1>1, <1>3, <2>1, <2>3
  <2> QED
    BY <1>1, <1>5, <2>1, <2>4
<1> DEFINE i == a - x
<1>8. i \in Nat /\ i < WordSize /\ a = x + i
  BY <1>1, <1>4 DEF BytesOf
<1> HIDE DEF i
<1>9. InPage(DldVirtToPhys(x)) = PageSize - v
  <2>1. 0 \in Nat /\ PageSize \in Nat
    BY <1>1
  <2>2. InPage(DldVirtToPhys(x)) > 0
    <3>1. \A p \in Int : p % PageSize \in 0..PageSize - 1
      BY <1>1
    <3>2. \A page \in DOMAIN pageTable : pageTable[page] \in Nat
      BY MemoryAssumption
    <3> DEFINE p == DldVirtToPhys(x)
    <3>3. p \in Int
      BY <1>1, <1>4, <3>2 DEF DldVirtToPhys
    <3> HIDE DEF p
    <3>4. PageSize - (p % PageSize) > 0
      BY <1>1, <3>1, <3>3
    <3> QED
      BY <3>4 DEF InPage, p
  <2>3. InPage(DldVirtToPhys(x)) = PageSize - (x % PageSize)
    BY <1>4, <2>2, PhysInPage
  <2> QED
    BY <2>3 DEF v
<1>10. i < InPage(DldVirtToPhys(x))
  BY <1>1, <1>5, <1>7, <1>8, <1>9
<1> QED
  BY <1>4, <1>8, <1>10, PhysInPage

-----------------------------------------------------------------------------
(***************************************************************************)
(* Memory as it is seen through virtual addresses.                         *)
(***************************************************************************)
Byte(m, a) == m[DldVirtToPhys(a)]

\* w is m but for the addresses in R.
Outside(w, m, R) ==
  /\ SameDomain(w, m)
  /\ \A a \in Nat : Mapped(a) /\ a \notin R => Byte(w, a) = Byte(m, a)

LEMMA OutsideMore ==
  ASSUME NEW m, NEW w, NEW R, NEW S, Outside(w, m, R), R \subseteq S
  PROVE  Outside(w, m, S)
BY DEF Outside

LEMMA OutsideThen ==
  ASSUME NEW u, NEW v, NEW w, NEW R, Outside(v, u, R), Outside(w, v, R)
  PROVE  Outside(w, u, R)
BY SameDomainTransitive DEF Outside

LEMMA OutsideWhole ==
  ASSUME NEW m, NEW w, NEW R, Whole(m), Outside(w, m, R)
  PROVE  Whole(w) /\ DOMAIN w = DOMAIN m
BY WholeKept DEF Outside, SameDomain

\* at[p] is the offset in a range of the byte with the physical address p.
OffsetsOf(at, dst, n) ==
  at = [p \in {DldVirtToPhys(dst + i) : i \in 0..n - 1} |->
          CHOOSE i \in 0..n - 1 : DldVirtToPhys(dst + i) = p]

Stores(w, m, at, val) ==
  w = [p \in DOMAIN m |-> IF p \in DOMAIN at THEN val[at[p]] ELSE m[p]]

\* val has the bytes of a range, all else is as before.
Stored(w, m, dst, n, val) ==
  /\ Outside(w, m, BytesOf(dst, n))
  /\ \A a \in BytesOf(dst, n) : Mapped(a) => Byte(w, a) = val[a - dst]

\* A write of bytes to a range, whichever they are.
LEMMA StoreFacts ==
  ASSUME pageTable \in PageTables, NEW m, Whole(m), NEW w, NEW val,
         NEW dst \in Nat, NEW n \in Nat, NEW at,
         OffsetsOf(at, dst, n), Stores(w, m, at, val)
  PROVE  Stored(w, m, dst, n, val)
<1> DEFINE T == {DldVirtToPhys(dst + i) : i \in 0..n - 1}
           At(p) == CHOOSE i \in 0..n - 1 : DldVirtToPhys(dst + i) = p
<1>1. DOMAIN at = T /\ \A p \in T : at[p] = At(p)
  BY DEF OffsetsOf
<1>2. \A p \in T : At(p) \in 0..n - 1 /\ DldVirtToPhys(dst + At(p)) = p
  OBVIOUS
<1> HIDE DEF At
<1>3. ASSUME NEW a \in Nat, Mapped(a), DldVirtToPhys(a) \in T
      PROVE  a = dst + At(DldVirtToPhys(a)) /\ a \in BytesOf(dst, n)
  <2> DEFINE i == At(DldVirtToPhys(a))
  <2>1. i \in 0..n - 1 /\ DldVirtToPhys(dst + i) = DldVirtToPhys(a)
    BY <1>2, <1>3
  <2> HIDE DEF i
  <2>2. a = dst + i
    BY <1>3, <2>1, PhysInjective
  <2>3. a \in BytesOf(dst, n)
    BY <2>1, <2>2 DEF BytesOf
  <2> QED
    BY <2>2, <2>3 DEF i
<1>4. ASSUME NEW a \in Nat, Mapped(a), a \notin BytesOf(dst, n)
      PROVE  Byte(w, a) = Byte(m, a)
  BY <1>1, <1>3, <1>4 DEF Byte, Whole, Stores
<1>5. ASSUME NEW a \in BytesOf(dst, n), Mapped(a)
      PROVE  Byte(w, a) = val[a - dst]
  <2>1. a - dst \in 0..n - 1 /\ dst + (a - dst) = a /\ a \in Nat
    BY DEF BytesOf
  <2>2. DldVirtToPhys(a) \in T
    BY <2>1
  <2>3. a = dst + At(DldVirtToPhys(a)) /\ At(DldVirtToPhys(a)) \in 0..n - 1
    BY <1>2, <1>3, <1>5, <2>1, <2>2
  <2>4. At(DldVirtToPhys(a)) = a - dst
    BY <2>1, <2>3
  <2> QED
    BY <1>1, <1>5, <2>1, <2>2, <2>4 DEF Byte, Whole, Stores
<1>6. SameDomain(w, m)
  BY DEF SameDomain, Stores
<1> QED
  BY <1>4, <1>5, <1>6 DEF Outside, Stored

LEMMA memcpyBytes ==
  ASSUME pageTable \in PageTables, NEW m, Whole(m),
         NEW dst \in Nat, NEW src, NEW n \in Nat
  PROVE  /\ Outside(memcpy(m, dst, src, n), m, BytesOf(dst, n))
         /\ \A a \in BytesOf(dst, n) : Mapped(a) =>
              Byte(memcpy(m, dst, src, n), a) = Byte(m, src + (a - dst))
<1> DEFINE at == [p \in {DldVirtToPhys(dst + i) : i \in 0..n - 1} |->
                    CHOOSE i \in 0..n - 1 : DldVirtToPhys(dst + i) = p]
           val == [i \in 0..n - 1 |-> m[DldVirtToPhys(src + i)]]
           w == memcpy(m, dst, src, n)
<1>1. w = [p \in DOMAIN m |-> IF p \in DOMAIN at
                              THEN m[DldVirtToPhys(src + at[p])] ELSE m[p]]
  BY DEF memcpy, Store
<1>2. \A p \in DOMAIN at : at[p] \in 0..n - 1
  OBVIOUS
<1>3. OffsetsOf(at, dst, n)
  BY DEF OffsetsOf
<1> HIDE DEF at, w
<1>4. \A i \in 0..n - 1 : val[i] = m[DldVirtToPhys(src + i)]
  OBVIOUS
<1> HIDE DEF val
<1>5. Stores(w, m, at, val)
  BY <1>1, <1>2, <1>4 DEF Stores
<1>6. Stored(w, m, dst, n, val)
  BY <1>3, <1>5, StoreFacts
<1>7. \A a \in BytesOf(dst, n) : a - dst \in 0..n - 1
  BY DEF BytesOf
<1>8. \A a \in BytesOf(dst, n) : val[a - dst] = Byte(m, src + (a - dst))
  BY <1>4, <1>7 DEF Byte
<1> QED
  BY <1>6, <1>8 DEF w, Stored

LEMMA bzeroBytes ==
  ASSUME pageTable \in PageTables, NEW m, Whole(m), NEW dst \in Nat, NEW n \in Nat
  PROVE  /\ Outside(bzero(m, dst, n), m, BytesOf(dst, n))
         /\ \A a \in BytesOf(dst, n) : Mapped(a) =>
              Byte(bzero(m, dst, n), a) = Null
<1> DEFINE at == [p \in {DldVirtToPhys(dst + i) : i \in 0..n - 1} |->
                    CHOOSE i \in 0..n - 1 : DldVirtToPhys(dst + i) = p]
           val == [i \in 0..n - 1 |-> Null]
           w == bzero(m, dst, n)
<1>1. w = [p \in DOMAIN m |-> IF p \in DOMAIN at THEN Null ELSE m[p]]
  BY DEF bzero, Store
<1>2. \A p \in DOMAIN at : at[p] \in 0..n - 1
  OBVIOUS
<1>3. OffsetsOf(at, dst, n)
  BY DEF OffsetsOf
<1> HIDE DEF at, w
<1>4. \A i \in 0..n - 1 : val[i] = Null
  OBVIOUS
<1> HIDE DEF val
<1>5. Stores(w, m, at, val)
  BY <1>1, <1>2, <1>4 DEF Stores
<1>6. Stored(w, m, dst, n, val)
  BY <1>3, <1>5, StoreFacts
<1>7. \A a \in BytesOf(dst, n) : val[a - dst] = Null
  BY <1>4 DEF BytesOf
<1> QED
  BY <1>6, <1>7 DEF w, Stored

LEMMA LostBytes ==
  ASSUME pageTable \in PageTables, NEW m, Whole(m), NEW dst \in Nat, NEW n \in Nat
  PROVE  /\ Outside(Lost(m, dst, n), m, BytesOf(dst, n))
         /\ \A a \in BytesOf(dst, n) : Mapped(a) =>
              Byte(Lost(m, dst, n), a) = Junk
<1> DEFINE at == [p \in {DldVirtToPhys(dst + i) : i \in 0..n - 1} |->
                    CHOOSE i \in 0..n - 1 : DldVirtToPhys(dst + i) = p]
           val == [i \in 0..n - 1 |-> Junk]
           w == Lost(m, dst, n)
<1>1. w = [p \in DOMAIN m |-> IF p \in DOMAIN at THEN Junk ELSE m[p]]
  BY DEF Lost, Store
<1>2. \A p \in DOMAIN at : at[p] \in 0..n - 1
  OBVIOUS
<1>3. OffsetsOf(at, dst, n)
  BY DEF OffsetsOf
<1> HIDE DEF at, w
<1>4. \A i \in 0..n - 1 : val[i] = Junk
  OBVIOUS
<1> HIDE DEF val
<1>5. Stores(w, m, at, val)
  BY <1>1, <1>2, <1>4 DEF Stores
<1>6. Stored(w, m, dst, n, val)
  BY <1>3, <1>5, StoreFacts
<1>7. \A a \in BytesOf(dst, n) : val[a - dst] = Junk
  BY <1>4 DEF BytesOf
<1> QED
  BY <1>6, <1>7 DEF w, Stored

\* The write of a pointer: only its word changes, and if both words are mapped
\* it is written.
LEMMA PointerWritten ==
  ASSUME pageTable \in PageTables, NEW m, Whole(m),
         NEW src, NEW dst, Aligned(src), Aligned(dst), src # dst
  PROVE  LET w == DldWriteWiredSrcToWiredDst(m, src, dst, WordSize).memory IN
         /\ Outside(w, m, BytesOf(dst, WordSize))
         /\ Mapped(src) /\ Mapped(dst) =>
              \A a \in BytesOf(dst, WordSize) :
                Byte(w, a) = Byte(m, src + (a - dst))
<1> DEFINE w == DldWriteWiredSrcToWiredDst(m, src, dst, WordSize).memory
           n == MappedBytes(src, dst, WordSize)
<1>1. WordSize \in Nat \ {0} /\ src \in Nat /\ dst \in Nat
  BY MemoryAssumption DEF Aligned
<1>2. IsCopy(w, m, dst, src, n)
  BY <1>1, WordsApart, WriteIsCopy
<1>3. /\ n \in 0..WordSize
      /\ \A k \in 0..WordSize : BothMapped(src, dst, k) => k <= n
  BY <1>1, MappedPrefix
<1> HIDE DEF w, n
<1>4. ASSUME NEW a \in Nat, Mapped(a), a \notin BytesOf(dst, WordSize)
      PROVE  Byte(w, a) = Byte(m, a)
  <2>1. ASSUME NEW i \in Offsets(n) PROVE DldVirtToPhys(dst + i) # DldVirtToPhys(a)
    <3>1. i \in Nat /\ i < WordSize /\ dst + i \in Nat
      BY <1>1, <1>3 DEF Offsets
    <3>2. dst + i # a
      BY <1>1, <1>4, <3>1 DEF BytesOf
    <3> QED
      BY <1>4, <3>1, <3>2, PhysInjective
  <2>2. DldVirtToPhys(a) \in DOMAIN m
    BY <1>4 DEF Whole
  <2> QED
    BY <1>2, <2>1, <2>2 DEF IsCopy, Byte
<1>5. ASSUME Mapped(src), Mapped(dst), NEW a \in BytesOf(dst, WordSize)
      PROVE  Byte(w, a) = Byte(m, src + (a - dst))
  <2>1. BothMapped(src, dst, WordSize)
    <3> SUFFICES ASSUME NEW i \in Offsets(WordSize)
                 PROVE  Mapped(src + i) /\ Mapped(dst + i)
      BY DEF BothMapped
    <3>1. src + i \in BytesOf(src, WordSize) /\ dst + i \in BytesOf(dst, WordSize)
      BY <1>1 DEF BytesOf, Offsets
    <3> QED
      BY <1>5, <3>1, WordInPage
  <2>2. n = WordSize
    BY <1>1, <1>3, <2>1
  <2>3. a - dst \in Offsets(n) /\ dst + (a - dst) = a
    BY <1>1, <2>2 DEF BytesOf, Offsets
  <2> QED
    BY <1>2, <2>3 DEF IsCopy, Byte
<1>6. SameDomain(w, m)
  BY <1>2 DEF IsCopy, SameDomain
<1> QED
  BY <1>4, <1>5, <1>6 DEF Outside, w

-----------------------------------------------------------------------------
(***************************************************************************)
(* The places of the entries and of the functions that they hook.          *)
(***************************************************************************)
InfoOf(k) == 1..Len(Hooked[k])

LEMMA EntryPlaces ==
  ASSUME pageTable \in PageTables, NEW k \in Kinds, NEW i \in InfoOf(k)
  PROVE  /\ Len(Hooked[k]) \in Nat /\ DOMAIN Hooked[k] = InfoOf(k)
         /\ Hooked[k][i] \in 1..Parent
         /\ Aligned(OriginalAt(k, i)) /\ Aligned(HookingAt(k, i))
         /\ Mapped(OriginalAt(k, i)) /\ Mapped(HookingAt(k, i))
         /\ OriginalAt(k, i) + WordSize <= HeapAt
         /\ HookingAt(k, i) + WordSize <= HeapAt
<1>1. /\ WordSize \in Nat \ {0} /\ PageSize \in Nat \ {0}
      /\ Hooked[k] \in Seq(Nat \ {0})
  BY MemoryAssumption
<1>2. Len(Hooked[k]) \in Nat /\ DOMAIN Hooked[k] = InfoOf(k)
  BY <1>1 DEF InfoOf
<1>3. Hooked[k][i] \in 1..Parent
  <2>1. Hooked[k][i] \in Nat \ {0}
    BY <1>1, <1>2
  <2>2. Hooked[k][i] <= Parent /\ Parent \in Nat
    BY <1>2, MemoryLayout, MemoryAssumption
  <2> QED
    BY <2>1, <2>2
<1>4. Aligned(InfoAt[k]) /\ InfoAt[k] \in Nat
  BY MemoryLayout, AlignedIf
<1>5. i \in Nat /\ i >= 1
  BY <1>2 DEF InfoOf
<1>6. /\ OriginalAt(k, i) = InfoAt[k] + (2 * (i - 1)) * WordSize
      /\ HookingAt(k, i) = InfoAt[k] + (2 * (i - 1) + 1) * WordSize
      /\ 2 * (i - 1) \in Nat /\ 2 * (i - 1) + 1 \in Nat
  BY <1>1, <1>4, <1>5 DEF OriginalAt, HookingAt
<1>7. Aligned(OriginalAt(k, i)) /\ Aligned(HookingAt(k, i))
  BY <1>4, <1>6, AlignedPlus
<1>8. /\ OriginalAt(k, i) \in Entries("direct") \cup Entries("object")
      /\ HookingAt(k, i) \in Entries("direct") \cup Entries("object")
  BY <1>2 DEF Entries, Kinds
<1>9. ASSUME NEW a \in {OriginalAt(k, i), HookingAt(k, i)}
      PROVE  Mapped(a) /\ a + WordSize <= HeapAt
  <2>1. /\ a \div PageSize \in DOMAIN pageTable
        /\ pageTable[a \div PageSize] # 0 /\ a + WordSize <= HeapAt
    BY <1>8, MemoryLayout
  <2>2. a \in Nat
    BY <1>1, <1>7 DEF Aligned
  <2> QED
    BY <2>1, <2>2, MappedByTable
<1> QED
  BY <1>2, <1>3, <1>7, <1>9

\* The entries are different words.
LEMMA EntriesApart ==
  ASSUME pageTable \in PageTables, NEW k \in Kinds, NEW i \in InfoOf(k),
         NEW l \in Kinds, NEW j \in InfoOf(l)
  PROVE  /\ OriginalAt(k, i) = OriginalAt(l, j) => k = l /\ i = j
         /\ OriginalAt(k, i) # HookingAt(l, j)
<1>1. WordSize \in Nat \ {0} /\ InfoAt[k] \in Nat
  BY MemoryAssumption, MemoryLayout
<1>2. i \in Nat /\ j \in Nat
  BY EntryPlaces DEF InfoOf
<1>3. CASE k = l
  <2> DEFINE x == 2 * (i - 1)
             y == 2 * (j - 1)
  <2>1. x \in Int /\ y \in Int /\ (x = y => i = j) /\ x # y + 1
    BY <1>2
  <2>2. OriginalAt(k, i) = InfoAt[k] + x * WordSize
        /\ OriginalAt(k, j) = InfoAt[k] + y * WordSize
        /\ HookingAt(k, j) = InfoAt[k] + (y + 1) * WordSize
    BY <1>1, <1>2 DEF OriginalAt, HookingAt
  <2> HIDE DEF x, y
  <2>3. \A a, b \in Int : a * WordSize = b * WordSize => a = b
    <3> SUFFICES ASSUME NEW a \in Int, NEW b \in Int,
                        a * WordSize = b * WordSize, a # b
                 PROVE  FALSE
      OBVIOUS
    <3>1. (a - b) * WordSize = 0
      BY <1>1
    <3> QED
      BY <1>1, <3>1
  <2>4. /\ x * WordSize \in Int /\ y * WordSize \in Int
        /\ (y + 1) * WordSize \in Int /\ y + 1 \in Int
    BY <1>1, <2>1
  <2>5. x * WordSize = y * WordSize => i = j
    BY <2>1, <2>3
  <2>6. x * WordSize # (y + 1) * WordSize
    BY <2>1, <2>3, <2>4
  <2> QED
    BY <1>1, <1>3, <2>2, <2>4, <2>5, <2>6
<1>4. CASE k # l
  <2>1. OriginalAt(k, i) \in Entries(k) /\ OriginalAt(l, j) \in Entries(l)
        /\ HookingAt(l, j) \in Entries(l)
    BY EntryPlaces DEF Entries
  <2>2. Entries(k) \cap Entries(l) = {}
    BY <1>4, MemoryLayout DEF Kinds
  <2> QED
    BY <1>4, <2>1, <2>2
<1> QED
  BY <1>3, <1>4

\* The functions of the vtable are other words.
LEMMA SlotPlaces ==
  ASSUME pageTable \in PageTables, NEW f \in Functions, NEW n \in 1..f
  PROVE  /\ SlotAt(VtableAt, n) \in Nat /\ Aligned(SlotAt(VtableAt, n))
         /\ SlotAt(VtableAt, n) + WordSize <= HeapAt
         /\ \A n1 \in 1..f : SlotAt(VtableAt, n1) = SlotAt(VtableAt, n) => n1 = n
         /\ \A k \in Kinds : \A i \in InfoOf(k) :
              /\ SlotAt(VtableAt, n) # OriginalAt(k, i)
              /\ SlotAt(VtableAt, n) # HookingAt(k, i)
<1>1. /\ WordSize \in Nat \ {0} /\ VtableAt \in Nat /\ f \in Nat
      /\ VtableAt % WordSize = 0 /\ HeapAt \in Nat
  BY MemoryAssumption
<1>2. n \in Nat /\ n - 1 \in Nat /\ n <= f
  BY <1>1
<1>3. Aligned(SlotAt(VtableAt, n)) /\ SlotAt(VtableAt, n) \in Nat
  <2>1. Aligned(VtableAt)
    BY <1>1, AlignedIf
  <2>2. Aligned(VtableAt + (n - 1) * WordSize)
    BY <1>2, <2>1, AlignedPlus
  <2> QED
    BY <1>1, <1>2, <2>2 DEF SlotAt, Aligned
<1> DEFINE last == VtableAt + f * WordSize
           slot == SlotAt(VtableAt, n)
<1>4. slot + WordSize <= last /\ VtableAt <= slot /\ last \in Nat
  <2>1. f * WordSize = (n - 1) * WordSize + WordSize + (f - n) * WordSize
    BY <1>1, <1>2
  <2>2. (f - n) * WordSize >= 0 /\ (n - 1) * WordSize >= 0 /\ f * WordSize >= 0
    BY <1>1, <1>2
  <2>3. /\ (f - n) * WordSize \in Int /\ (n - 1) * WordSize \in Int
        /\ f * WordSize \in Int
    BY <1>1, <1>2
  <2> QED
    BY <1>1, <2>1, <2>2, <2>3 DEF SlotAt
<1>5. last <= HeapAt
  BY MemoryLayout
<1>6. ASSUME NEW n1 \in 1..f, SlotAt(VtableAt, n1) = slot PROVE n1 = n
  <2>1. (n1 - n) * WordSize = 0
    BY <1>1, <1>2, <1>6 DEF SlotAt
  <2> QED
    BY <1>1, <1>2, <2>1
<1>7. ASSUME NEW k \in Kinds, NEW i \in InfoOf(k),
             NEW a \in {OriginalAt(k, i), HookingAt(k, i)}
      PROVE  slot # a
  <2>1. a \in Entries("direct") \cup Entries("object")
    BY EntryPlaces DEF Entries, Kinds
  <2>2. a >= last \/ a + WordSize <= VtableAt
    BY <2>1, MemoryLayout
  <2> HIDE DEF last, slot
  <2>3. a = slot => FALSE
    BY <1>1, <1>3, <1>4, <2>2 DEF slot
  <2> QED
    BY <2>3
<1> HIDE DEF last
<1>8. slot + WordSize <= HeapAt
  BY <1>1, <1>3, <1>4, <1>5
<1> QED
  BY <1>3, <1>6, <1>7, <1>8

-----------------------------------------------------------------------------
(***************************************************************************)
(* What the loops over the entries do to memory.                           *)
(***************************************************************************)

\* The bytes of the saved originals and of the hooked functions of a vtable,
\* of the entries up to the i-th.
OriginalBytes(k, i) ==
  {a \in Nat : \E j \in 1..i : a \in BytesOf(OriginalAt(k, j), WordSize)}
SlotBytes(k, vtable, i) ==
  {a \in Nat : \E j \in 1..i :
                 a \in BytesOf(SlotAt(vtable, Hooked[k][j]), WordSize)}

\* A vtable whose functions are words that are no entries.
PlacedFor(k, vtable) ==
  \A i \in InfoOf(k) :
    /\ Aligned(SlotAt(vtable, Hooked[k][i]))
    /\ \A j \in InfoOf(k) :
         /\ SlotAt(vtable, Hooked[k][i]) # OriginalAt(k, j)
         /\ SlotAt(vtable, Hooked[k][i]) # HookingAt(k, j)

\* The word at dst is what the word at src was.
WordFrom(w, dst, m, src) ==
  \A a \in BytesOf(dst, WordSize) : Byte(w, a) = Byte(m, src + (a - dst))

LEMMA WordKept ==
  ASSUME pageTable \in PageTables, NEW m, NEW v, NEW w, NEW R, NEW dst, NEW src,
         Outside(w, v, R), Aligned(dst), Mapped(dst),
         BytesOf(dst, WordSize) \cap R = {}, WordFrom(v, dst, m, src)
  PROVE  WordFrom(w, dst, m, src)
<1>1. \A a \in BytesOf(dst, WordSize) : a \in Nat /\ Mapped(a) /\ a \notin R
  BY WordInPage DEF BytesOf
<1> QED
  BY <1>1 DEF WordFrom, Outside

LEMMA WordThrough ==
  ASSUME pageTable \in PageTables, NEW m, NEW v, NEW w, NEW R, NEW dst, NEW src,
         Outside(v, m, R), Aligned(src), Mapped(src), Aligned(dst),
         BytesOf(src, WordSize) \cap R = {}, WordFrom(w, dst, v, src)
  PROVE  WordFrom(w, dst, m, src)
<1>1. WordSize \in Nat \ {0} /\ src \in Nat /\ dst \in Nat
  BY MemoryAssumption DEF Aligned
<1>2. \A a \in BytesOf(src, WordSize) : Byte(v, a) = Byte(m, a)
  <2>1. \A a \in BytesOf(src, WordSize) : a \in Nat /\ Mapped(a) /\ a \notin R
    BY WordInPage DEF BytesOf
  <2> QED
    BY <2>1 DEF Outside
<1>3. \A a \in BytesOf(dst, WordSize) : src + (a - dst) \in BytesOf(src, WordSize)
  BY <1>1 DEF BytesOf
<1> QED
  BY <1>2, <1>3 DEF WordFrom

\* One entry hooked: its original is the function, which has the hook then.
LEMMA EntryHooked ==
  ASSUME pageTable \in PageTables, NEW m, Whole(m), NEW k \in Kinds,
         NEW i \in InfoOf(k), NEW from, NEW to, PlacedFor(k, to),
         NEW w, w = HookEntry(m, k, i, from, to)
  PROVE  /\ Outside(w, m, BytesOf(OriginalAt(k, i), WordSize) \cup
                          BytesOf(SlotAt(to, Hooked[k][i]), WordSize))
         /\ WordFrom(w, OriginalAt(k, i), m, SlotAt(from, Hooked[k][i]))
         /\ Mapped(SlotAt(to, Hooked[k][i])) =>
              WordFrom(w, SlotAt(to, Hooked[k][i]), m, HookingAt(k, i))
<1> DEFINE o == OriginalAt(k, i)
           h == HookingAt(k, i)
           d == SlotAt(to, Hooked[k][i])
           s == SlotAt(from, Hooked[k][i])
           v == memcpy(m, o, s, WordSize)
           R == BytesOf(o, WordSize) \cup BytesOf(d, WordSize)
<1>1. /\ WordSize \in Nat \ {0} /\ Aligned(o) /\ Aligned(h) /\ Aligned(d)
      /\ Mapped(o) /\ o \in Nat /\ d # h /\ d # o /\ Mapped(h) /\ h # o
  <2>1. Aligned(o) /\ Aligned(h) /\ Mapped(o) /\ Mapped(h) /\ h # o
    BY EntryPlaces, EntriesApart
  <2>2. Aligned(d) /\ d # h /\ d # o
    BY DEF PlacedFor
  <2> HIDE DEF o, h, d
  <2>3. WordSize \in Nat \ {0}
    BY MemoryAssumption
  <2>4. o \in Nat
    BY <2>1, <2>3 DEF Aligned
  <2> QED
    BY <2>1, <2>2, <2>3, <2>4
<1>2. w = DldWriteWiredSrcToWiredDst(v, h, d, WordSize).memory
  BY DEF HookEntry
<1> HIDE DEF o, h, d, s
<1>3. /\ Outside(v, m, BytesOf(o, WordSize))
      /\ \A a \in BytesOf(o, WordSize) : Mapped(a) =>
           Byte(v, a) = Byte(m, s + (a - o))
  BY <1>1, memcpyBytes
<1> HIDE DEF v
<1>4. Whole(v)
  BY <1>3, OutsideWhole
<1>5. Outside(w, v, BytesOf(d, WordSize))
  BY <1>1, <1>2, <1>4, PointerWritten
<1>6. Outside(w, m, R)
  <2>1. Outside(v, m, R) /\ Outside(w, v, R)
    BY <1>3, <1>5, OutsideMore
  <2> HIDE DEF R
  <2> QED
    BY <2>1, OutsideThen
<1>7. WordFrom(v, o, m, s)
  BY <1>1, <1>3, WordInPage DEF WordFrom
<1>8. BytesOf(o, WordSize) \cap BytesOf(d, WordSize) = {}
  BY <1>1, WordsApart
<1>9. WordFrom(w, o, m, s)
  BY <1>1, <1>5, <1>7, <1>8, WordKept
<1>10. ASSUME Mapped(d) PROVE WordFrom(w, d, m, h)
  <2>1. WordFrom(w, d, v, h)
    BY <1>1, <1>2, <1>4, <1>10, PointerWritten DEF WordFrom
  <2>2. BytesOf(h, WordSize) \cap BytesOf(o, WordSize) = {}
    BY <1>1, WordsApart
  <2> QED
    BY <1>1, <1>3, <2>1, <2>2, WordThrough
<1> QED
  BY <1>6, <1>9, <1>10 DEF o, d, s, h

\* All entries hooked, where the functions that are saved are not those that
\* were hooked before.
LEMMA TableHooked ==
  ASSUME pageTable \in PageTables, NEW m, Whole(m), NEW k \in Kinds,
         NEW from, NEW to, PlacedFor(k, from), PlacedFor(k, to),
         \A i \in InfoOf(k) : Mapped(SlotAt(from, Hooked[k][i])),
         \A i, j \in InfoOf(k) :
           j < i => SlotAt(from, Hooked[k][i]) # SlotAt(to, Hooked[k][j]),
         \A i, j \in InfoOf(k) :
           j # i => SlotAt(to, Hooked[k][i]) # SlotAt(to, Hooked[k][j]),
         NEW w, w = DldHookVtableFunctions(m, k, from, to)
  PROVE  /\ Outside(w, m, OriginalBytes(k, Len(Hooked[k])) \cup
                          SlotBytes(k, to, Len(Hooked[k])))
         /\ \A i \in InfoOf(k) :
              /\ WordFrom(w, OriginalAt(k, i), m, SlotAt(from, Hooked[k][i]))
              /\ Mapped(SlotAt(to, Hooked[k][i])) =>
                   WordFrom(w, SlotAt(to, Hooked[k][i]), m, HookingAt(k, i))
<1> DEFINE n == Len(Hooked[k])
           R(i) == OriginalBytes(k, i) \cup SlotBytes(k, to, i)
<1>1. n \in Nat
  BY MemoryAssumption
<1>2. PICK after : HookTurns(after, m, k, from, to)
  BY <1>1, HookPath
<1>3. after[n] = w /\ after[0] = m
  BY <1>2 DEF HookTurns
<1> DEFINE Claim(i) == /\ Outside(after[i], m, R(i))
                       /\ \A j \in 1..i :
                            /\ WordFrom(after[i], OriginalAt(k, j), m,
                                        SlotAt(from, Hooked[k][j]))
                            /\ Mapped(SlotAt(to, Hooked[k][j])) =>
                                 WordFrom(after[i], SlotAt(to, Hooked[k][j]), m,
                                          HookingAt(k, j))
           Good == {i \in Nat : i <= n => Claim(i)}
<1>4. 0 \in Good
  BY <1>3 DEF Outside, SameDomain, Whole
<1>5. ASSUME NEW c \in Nat, c \in Good PROVE c + 1 \in Good
  <2> DEFINE i == c + 1
             u == after[c]
             v == after[i]
             o == OriginalAt(k, i)
             d == SlotAt(to, Hooked[k][i])
             s == SlotAt(from, Hooked[k][i])
             h == HookingAt(k, i)
  <2> SUFFICES ASSUME i <= n PROVE Claim(i)
    OBVIOUS
  <2>1. i \in InfoOf(k) /\ i \in 1..n /\ i - 1 = c /\ c <= n /\ i \in Nat
    BY <1>1 DEF InfoOf
  <2>2. Claim(c)
    BY <1>5, <2>1
  <2>3. v = HookEntry(u, k, i, from, to)
    BY <1>2, <2>1 DEF HookTurns
  <2>4. Whole(u)
    BY <2>2, OutsideWhole
  <2> HIDE DEF i, u, v
  <2>5. /\ Outside(v, u, BytesOf(o, WordSize) \cup BytesOf(d, WordSize))
        /\ WordFrom(v, o, u, s)
        /\ Mapped(d) => WordFrom(v, d, u, h)
    BY <2>1, <2>3, <2>4, EntryHooked
  <2>6. /\ \A a : a \in BytesOf(o, WordSize) => a \in OriginalBytes(k, i)
        /\ \A a : a \in BytesOf(d, WordSize) => a \in SlotBytes(k, to, i)
        /\ R(c) \subseteq R(i)
    <3>1. 1..c \subseteq 1..i /\ i \in 1..i
      BY <2>1 DEF i
    <3> QED
      BY <3>1 DEF OriginalBytes, SlotBytes, BytesOf
  <2>7. Outside(v, m, R(i))
    <3>1. Outside(u, m, R(i))
      BY <2>2, <2>6, OutsideMore DEF u
    <3>2. Outside(v, u, R(i))
      <4>1. BytesOf(o, WordSize) \cup BytesOf(d, WordSize) \subseteq R(i)
        BY <2>6
      <4> HIDE DEF R, o, d
      <4> QED
        BY <2>5, <4>1, OutsideMore
    <3> HIDE DEF R
    <3> QED
      BY <3>1, <3>2, OutsideThen
  <2>8. WordFrom(v, o, m, s)
    <3>1. Aligned(s) /\ Aligned(o) /\ Mapped(s)
      BY <2>1, EntryPlaces DEF PlacedFor
    <3>2. BytesOf(s, WordSize) \cap R(c) = {}
      <4>1. ASSUME NEW j \in 1..c
            PROVE  /\ BytesOf(s, WordSize) \cap BytesOf(OriginalAt(k, j), WordSize) = {}
                   /\ BytesOf(s, WordSize) \cap
                        BytesOf(SlotAt(to, Hooked[k][j]), WordSize) = {}
        <5>1. j \in InfoOf(k) /\ j < i
          BY <2>1 DEF InfoOf
        <5>2. s # OriginalAt(k, j) /\ s # SlotAt(to, Hooked[k][j])
          BY <2>1, <5>1 DEF PlacedFor
        <5>3. Aligned(OriginalAt(k, j)) /\ Aligned(SlotAt(to, Hooked[k][j]))
          BY <5>1, EntryPlaces DEF PlacedFor
        <5> QED
          BY <3>1, <5>2, <5>3, WordsApart
      <4> HIDE DEF s
      <4> QED
        BY <4>1 DEF OriginalBytes, SlotBytes
    <3>3. Outside(u, m, R(c))
      BY <2>2 DEF u
    <3> HIDE DEF R, s, o
    <3> QED
      BY <2>5, <3>1, <3>2, <3>3, WordThrough
  <2>9. ASSUME Mapped(d) PROVE WordFrom(v, d, m, h)
    <3>1. Aligned(h) /\ Aligned(d) /\ Mapped(h)
      BY <2>1, EntryPlaces DEF PlacedFor
    <3>2. BytesOf(h, WordSize) \cap R(c) = {}
      <4>1. ASSUME NEW j \in 1..c
            PROVE  /\ BytesOf(h, WordSize) \cap
                        BytesOf(OriginalAt(k, j), WordSize) = {}
                   /\ BytesOf(h, WordSize) \cap
                        BytesOf(SlotAt(to, Hooked[k][j]), WordSize) = {}
        <5>1. j \in InfoOf(k)
          BY <2>1 DEF InfoOf
        <5>2. h # OriginalAt(k, j) /\ h # SlotAt(to, Hooked[k][j])
          BY <2>1, <5>1, EntriesApart DEF PlacedFor
        <5>3. Aligned(OriginalAt(k, j)) /\ Aligned(SlotAt(to, Hooked[k][j]))
          BY <5>1, EntryPlaces DEF PlacedFor
        <5> QED
          BY <3>1, <5>2, <5>3, WordsApart
      <4> HIDE DEF h
      <4> QED
        BY <4>1 DEF OriginalBytes, SlotBytes
    <3>3. Outside(u, m, R(c))
      BY <2>2 DEF u
    <3> HIDE DEF R, h, d
    <3> QED
      BY <2>5, <2>9, <3>1, <3>2, <3>3, WordThrough
  <2>10. ASSUME NEW j \in 1..c
        PROVE  /\ WordFrom(v, OriginalAt(k, j), m, SlotAt(from, Hooked[k][j]))
               /\ Mapped(SlotAt(to, Hooked[k][j])) =>
                    WordFrom(v, SlotAt(to, Hooked[k][j]), m, HookingAt(k, j))
    <3>1. j \in InfoOf(k) /\ j # i
      BY <2>1 DEF InfoOf
    <3>2. /\ WordFrom(u, OriginalAt(k, j), m, SlotAt(from, Hooked[k][j]))
          /\ Mapped(SlotAt(to, Hooked[k][j])) =>
               WordFrom(u, SlotAt(to, Hooked[k][j]), m, HookingAt(k, j))
      BY <2>2 DEF u
    <3>6. /\ Aligned(SlotAt(to, Hooked[k][j])) /\ SlotAt(to, Hooked[k][j]) # o
          /\ SlotAt(to, Hooked[k][j]) # d
      BY <2>1, <3>1 DEF PlacedFor
    <3>3. /\ Aligned(OriginalAt(k, j)) /\ Mapped(OriginalAt(k, j))
          /\ Aligned(o) /\ Aligned(d) /\ OriginalAt(k, j) # o
          /\ OriginalAt(k, j) # d
      BY <2>1, <3>1, EntryPlaces, EntriesApart DEF PlacedFor
    <3> DEFINE S == BytesOf(o, WordSize) \cup BytesOf(d, WordSize)
    <3>4. BytesOf(OriginalAt(k, j), WordSize) \cap S = {}
      BY <3>3, WordsApart
    <3>5. Outside(v, u, S)
      BY <2>5
    <3>7. BytesOf(SlotAt(to, Hooked[k][j]), WordSize) \cap S = {}
      BY <3>3, <3>6, WordsApart
    <3> HIDE DEF S
    <3> QED
      BY <3>2, <3>3, <3>4, <3>5, <3>6, <3>7, WordKept
  <2>11. \A j \in 1..i : j = i \/ j \in 1..c
    BY <2>1 DEF i
  <2> HIDE DEF R
  <2> QED
    BY <2>7, <2>8, <2>10, <2>11, <2>9 DEF v
<1>6. n \in Good
  <2> HIDE DEF Good
  <2> QED
    BY <1>1, <1>4, <1>5, InductionOnSet
<1>7. Claim(n)
  <2> HIDE DEF Claim
  <2> QED
    BY <1>1, <1>6
<1> QED
  BY <1>3, <1>7 DEF InfoOf

\* All entries restored: the functions are the saved originals again.
LEMMA TableRestored ==
  ASSUME pageTable \in PageTables, NEW m, Whole(m), NEW k \in Kinds,
         NEW vtable, PlacedFor(k, vtable),
         \A i \in InfoOf(k) : Mapped(SlotAt(vtable, Hooked[k][i])),
         \A i, j \in InfoOf(k) :
           j # i => SlotAt(vtable, Hooked[k][i]) # SlotAt(vtable, Hooked[k][j]),
         NEW w, w = DldUnHookVtableFunctions(m, k, vtable)
  PROVE  /\ Outside(w, m, SlotBytes(k, vtable, Len(Hooked[k])))
         /\ \A i \in InfoOf(k) :
              WordFrom(w, SlotAt(vtable, Hooked[k][i]), m, OriginalAt(k, i))
<1> DEFINE n == Len(Hooked[k])
           R(i) == SlotBytes(k, vtable, i)
           D(i) == SlotAt(vtable, Hooked[k][i])
<1>1. n \in Nat
  BY MemoryAssumption
<1>2. PICK after : RestoreTurns(after, m, k, vtable)
  BY <1>1, RestorePath
<1>3. after[n] = w /\ after[0] = m
  BY <1>2 DEF RestoreTurns
<1> DEFINE Claim(i) == /\ Outside(after[i], m, R(i))
                       /\ \A j \in 1..i :
                            WordFrom(after[i], D(j), m, OriginalAt(k, j))
           Good == {i \in Nat : i <= n => Claim(i)}
<1>4. 0 \in Good
  BY <1>3 DEF Outside, SameDomain, Whole
<1>5. ASSUME NEW c \in Nat, c \in Good PROVE c + 1 \in Good
  <2> DEFINE i == c + 1
             u == after[c]
             v == after[i]
             o == OriginalAt(k, i)
             d == D(i)
  <2> SUFFICES ASSUME i <= n PROVE Claim(i)
    OBVIOUS
  <2>1. i \in InfoOf(k) /\ i \in 1..n /\ i - 1 = c /\ c <= n /\ i \in Nat
    BY <1>1 DEF InfoOf
  <2>2. Claim(c)
    BY <1>5, <2>1
  <2>3. v = RestoreEntry(u, k, i, vtable)
    BY <1>2, <2>1 DEF RestoreTurns
  <2>4. Whole(u)
    BY <2>2, OutsideWhole
  <2>5. 1..c \subseteq 1..i /\ i \in 1..i /\ \A j \in 1..i : j = i \/ j \in 1..c
    OBVIOUS
  <2> HIDE DEF i, u, v
  <2>6. Aligned(o) /\ Aligned(d) /\ Mapped(o) /\ Mapped(d) /\ o # d
    <3>1. Aligned(o) /\ Mapped(o)
      BY <2>1, EntryPlaces
    <3> QED
      BY <2>1, <3>1 DEF PlacedFor
  <2>7. Outside(v, u, BytesOf(d, WordSize)) /\ WordFrom(v, d, u, o)
    <3>1. v = DldWriteWiredSrcToWiredDst(u, o, d, WordSize).memory
      BY <2>3 DEF RestoreEntry
    <3> HIDE DEF o, d
    <3> QED
      BY <2>4, <2>6, <3>1, PointerWritten DEF WordFrom
  <2>8. Outside(v, m, R(i))
    <3>1. BytesOf(d, WordSize) \subseteq R(i) /\ R(c) \subseteq R(i)
      BY <2>5 DEF SlotBytes, BytesOf
    <3>2. Outside(u, m, R(c))
      BY <2>2 DEF u
    <3> HIDE DEF R, d
    <3>3. Outside(u, m, R(i)) /\ Outside(v, u, R(i))
      BY <2>7, <3>1, <3>2, OutsideMore
    <3> QED
      BY <3>3, OutsideThen
  <2>9. WordFrom(v, d, m, o)
    <3>1. BytesOf(o, WordSize) \cap R(c) = {}
      <4>1. ASSUME NEW j \in 1..c
            PROVE  BytesOf(o, WordSize) \cap BytesOf(D(j), WordSize) = {}
        <5>1. j \in InfoOf(k)
          BY <2>1 DEF InfoOf
        <5>2. D(j) # o /\ Aligned(D(j))
          BY <2>1, <5>1 DEF PlacedFor
        <5> QED
          BY <2>6, <5>2, WordsApart
      <4> HIDE DEF o
      <4> QED
        BY <4>1 DEF SlotBytes
    <3>2. Outside(u, m, R(c))
      BY <2>2 DEF u
    <3> HIDE DEF R, d, o
    <3> QED
      BY <2>6, <2>7, <3>1, <3>2, WordThrough
  <2>10. ASSUME NEW j \in 1..c PROVE WordFrom(v, D(j), m, OriginalAt(k, j))
    <3>1. j \in InfoOf(k) /\ j # i
      BY <2>1 DEF InfoOf
    <3>2. WordFrom(u, D(j), m, OriginalAt(k, j))
      BY <2>2 DEF u
    <3>3. Aligned(D(j)) /\ Mapped(D(j)) /\ D(j) # d
      BY <2>1, <3>1 DEF PlacedFor
    <3>4. BytesOf(D(j), WordSize) \cap BytesOf(d, WordSize) = {}
      BY <2>6, <3>3, WordsApart
    <3> HIDE DEF D, d
    <3> QED
      BY <2>7, <3>2, <3>3, <3>4, WordKept
  <2> HIDE DEF R, D
  <2> QED
    BY <2>5, <2>8, <2>9, <2>10 DEF v, d
<1>6. n \in Good
  <2> HIDE DEF Good
  <2> QED
    BY <1>1, <1>4, <1>5, InductionOnSet
<1>7. Claim(n)
  <2> HIDE DEF Claim
  <2> QED
    BY <1>1, <1>6
<1> QED
  BY <1>3, <1>7 DEF InfoOf

\* All originals forgotten.
LEMMA TableForgotten ==
  ASSUME pageTable \in PageTables, NEW m, Whole(m), NEW k \in Kinds,
         NEW w, w = Forget(m, k)
  PROVE  /\ Outside(w, m, OriginalBytes(k, Len(Hooked[k])))
         /\ \A a \in OriginalBytes(k, Len(Hooked[k])) : Byte(w, a) = Null
<1> DEFINE n == Len(Hooked[k])
           R(i) == OriginalBytes(k, i)
<1>1. n \in Nat /\ WordSize \in Nat \ {0}
  BY MemoryAssumption
<1>2. PICK after : ForgetTurns(after, m, k)
  BY <1>1, ForgetPath
<1>3. after[n] = w /\ after[0] = m
  BY <1>2 DEF ForgetTurns
<1> DEFINE Claim(i) == /\ Outside(after[i], m, R(i))
                       /\ \A a \in R(i) : Byte(after[i], a) = Null
           Good == {i \in Nat : i <= n => Claim(i)}
<1>4. 0 \in Good
  <2>1. R(0) = {}
    BY DEF OriginalBytes
  <2>2. Outside(after[0], m, R(0))
    BY <1>3 DEF Outside, SameDomain, Whole
  <2> QED
    BY <2>1, <2>2
<1>5. ASSUME NEW c \in Nat, c \in Good PROVE c + 1 \in Good
  <2> DEFINE i == c + 1
             u == after[c]
             v == after[i]
             o == OriginalAt(k, i)
  <2> SUFFICES ASSUME i <= n PROVE Claim(i)
    OBVIOUS
  <2>1. i \in InfoOf(k) /\ i \in 1..n /\ i - 1 = c /\ c <= n /\ i \in Nat
    BY <1>1 DEF InfoOf
  <2>2. Claim(c)
    BY <1>5, <2>1
  <2>3. v = bzero(u, o, WordSize)
    BY <1>2, <2>1 DEF ForgetTurns
  <2>4. Whole(u)
    BY <2>2, OutsideWhole
  <2>5. 1..c \subseteq 1..i /\ i \in 1..i /\ \A j \in 1..i : j = i \/ j \in 1..c
    OBVIOUS
  <2> HIDE DEF i, u, v
  <2>6. Aligned(o) /\ Mapped(o)
    BY <2>1, EntryPlaces
  <2>7. o \in Nat
    BY <1>1, <2>6 DEF Aligned
  <2>8. /\ Outside(v, u, BytesOf(o, WordSize))
        /\ \A a \in BytesOf(o, WordSize) : Byte(v, a) = Null
    <3>1. \A a \in BytesOf(o, WordSize) : Mapped(a)
      BY <2>6, WordInPage
    <3> HIDE DEF o
    <3> QED
      BY <1>1, <2>3, <2>4, <2>7, <3>1, bzeroBytes
  <2>9. /\ BytesOf(o, WordSize) \subseteq R(i) /\ R(c) \subseteq R(i)
        /\ R(i) \subseteq R(c) \cup BytesOf(o, WordSize)
    BY <2>5 DEF OriginalBytes, BytesOf
  <2>10. Outside(v, m, R(i))
    <3>1. Outside(u, m, R(c))
      BY <2>2 DEF u
    <3> HIDE DEF R, o
    <3>2. Outside(u, m, R(i)) /\ Outside(v, u, R(i))
      BY <2>8, <2>9, <3>1, OutsideMore
    <3> QED
      BY <3>2, OutsideThen
  <2>11. ASSUME NEW a \in R(i) PROVE Byte(v, a) = Null
    <3>1. CASE a \in BytesOf(o, WordSize)
      BY <2>8, <3>1
    <3>2. CASE a \notin BytesOf(o, WordSize)
      <4>1. a \in R(c)
        BY <2>9, <3>2
      <4>2. Byte(u, a) = Null
        BY <2>2, <4>1 DEF u
      <4>3. a \in Nat /\ Mapped(a)
        <5>1. PICK j \in 1..c : a \in BytesOf(OriginalAt(k, j), WordSize)
          BY <4>1 DEF OriginalBytes
        <5>2. j \in InfoOf(k)
          BY <2>1, <5>1 DEF InfoOf
        <5> QED
          BY <5>1, <5>2, EntryPlaces, WordInPage DEF BytesOf
      <4> QED
        BY <2>8, <3>2, <4>2, <4>3 DEF Outside
    <3> QED
      BY <3>1, <3>2
  <2> HIDE DEF R
  <2> QED
    BY <2>10, <2>11 DEF v
<1>6. n \in Good
  <2> HIDE DEF Good
  <2> QED
    BY <1>1, <1>4, <1>5, InductionOnSet
<1>7. Claim(n)
  <2> HIDE DEF Claim
  <2> QED
    BY <1>1, <1>6
<1> QED
  BY <1>3, <1>7

-----------------------------------------------------------------------------
(***************************************************************************)
(* The private vtable.                                                     *)
(***************************************************************************)

\* The scan ends.
LEMMA ScanEnds ==
  /\ VirtualsAdded \in 0..MaxAdded
  /\ ReadsUnmapped(VirtualsAdded) \/ ~Continues(VirtualsAdded)
  /\ \A j \in 0..VirtualsAdded - 1 : ~ReadsUnmapped(j) /\ Continues(j)
<1> DEFINE Ends(n) == ReadsUnmapped(n) \/ ~Continues(n)
           S == {n \in 0..MaxAdded : Ends(n)}
           First(n) == /\ ReadsUnmapped(n) \/ ~Continues(n)
                       /\ \A j \in 0..n - 1 : ~ReadsUnmapped(j) /\ Continues(j)
<1>1. MaxAdded \in Nat
  BY MemoryAssumption
<1>2. MaxAdded \in S
  BY <1>1 DEF Continues
<1> HIDE DEF Ends
<1>3. PICK x \in S : \A y \in S : x <= y
  <2>1. S \subseteq Nat
    BY <1>1
  <2> HIDE DEF S
  <2> QED
    BY <1>2, <2>1, SmallestMember
<1>4. x \in 0..MaxAdded /\ Ends(x) /\ \A j \in 0..x - 1 : ~Ends(j)
  BY <1>1, <1>3
<1>5. x \in 0..MaxAdded /\ First(x)
  BY <1>4 DEF Ends
<1> HIDE DEF S
<1>6. VirtualsAdded = CHOOSE n \in 0..MaxAdded : First(n)
  BY DEF VirtualsAdded
<1> HIDE DEF First
<1>7. VirtualsAdded \in 0..MaxAdded /\ First(VirtualsAdded)
  BY <1>5, <1>6
<1> QED
  BY <1>7 DEF First

\* The copy is as long as the known functions and those that the scan found.
LEMMA Sizes ==
  /\ CopySize = (Parent + VirtualsAdded) * WordSize
  /\ CopySize \in Nat /\ BufferSize \in Nat
  /\ BufferSize = CopySize + (Padding * WordSize) + (Padding * WordSize)
  /\ Padding * WordSize \in Nat /\ Padding * WordSize >= 2 * WordSize
<1>1. /\ WordSize \in Nat \ {0} /\ Parent \in Nat \ {0}
      /\ Padding \in Nat /\ Padding >= 2 /\ VirtualsAdded \in Nat
  BY MemoryAssumption, ScanEnds
<1>2. fHookedClassVtaleSize = WordSize * Parent
  <2> DEFINE b == Parent * WordSize
             u == b \div WordSize
             v == b % WordSize
  <2>1. b \in Nat
    BY <1>1
  <2>2. u \in Nat /\ v \in 0..WordSize - 1 /\ b = u * WordSize + v
    <3> HIDE DEF b
    <3> QED
      BY <1>1, <2>1, DivMod
  <2> HIDE DEF u, v
  <2>3. u * WordSize + v = Parent * WordSize + 0 /\ 0 \in 0..WordSize - 1
    BY <1>1, <2>2
  <2>4. u = Parent
    BY <1>1, <2>2, <2>3, DivModUnique
  <2>5. (1 + Parent * WordSize) - 1 = b
    BY <2>1
  <2>6. DldConvertFunctionToVtableIndex(MemberPointer(Parent)) = Parent + 1
    BY <2>4, <2>5 DEF DldConvertFunctionToVtableIndex, MemberPointer, u
  <2> QED
    BY <1>1, <2>6 DEF fHookedClassVtaleSize
<1>3. CopySize = (Parent + VirtualsAdded) * WordSize
  BY <1>1, <1>2 DEF CopySize
<1>4. CopySize \in Nat
  BY <1>1, <1>3
<1>5. Padding * WordSize \in Nat /\ Padding * WordSize >= 2 * WordSize
  <2>1. PICK n \in Nat : Padding = 2 + n
    <3>1. Padding - 2 \in Nat /\ Padding = 2 + (Padding - 2)
      BY <1>1
    <3> QED
      BY <3>1
  <2>2. Padding * WordSize = 2 * WordSize + n * WordSize /\ n * WordSize \in Nat
    BY <1>1, <2>1
  <2> QED
    BY <1>1, <2>2
<1>6. BufferSize = CopySize + (Padding * WordSize) + (Padding * WordSize)
  <2>1. 2 * Padding * WordSize = (Padding * WordSize) + (Padding * WordSize)
    BY <1>1
  <2> QED
    BY <1>4, <1>5, <2>1 DEF BufferSize
<1> QED
  BY <1>3, <1>4, <1>5, <1>6

\* The copy is made in the buffer, the header and the table byte by byte.
LEMMA CopyInBuffer ==
  ASSUME pageTable \in PageTables, NEW m, Whole(m)
  PROVE  LET w == CopyVtable(m, NewVtableAt, CopySize) IN
         /\ Outside(w, m, BytesOf(HeapAt, BufferSize))
         /\ \A a \in BytesOf(NewVtableAt - 2 * WordSize, 2 * WordSize + CopySize) :
              LET from == VtableAt + (a - NewVtableAt) IN
              Mapped(a) /\ Mapped(from) /\ from < HeapAt =>
                Byte(w, a) = Byte(m, from)
         /\ \A a \in BytesOf(HeapAt, BufferSize) \
                       BytesOf(NewVtableAt - 2 * WordSize, 2 * WordSize + CopySize) :
              Mapped(a) => Byte(w, a) = Null
<1> DEFINE pad == Padding * WordSize
           size == CopySize
           v == NewVtableAt
           front == bzero(m, v - pad, pad)
           padded == bzero(front, v + size, pad)
           src == VtableAt - 2 * WordSize
           header == memcpy(padded, v - 2 * WordSize, src, 2 * WordSize)
           copy == memcpy(header, v, VtableAt, size)
           R == BytesOf(HeapAt, BufferSize)
<1>1. CopyVtable(m, v, size) = copy
  BY DEF CopyVtable
<1>2. /\ size \in Nat /\ pad \in Nat /\ pad >= 2 * WordSize
      /\ BufferSize = size + pad + pad /\ v = HeapAt + pad
      /\ WordSize \in Nat \ {0} /\ HeapAt \in Nat /\ VtableAt \in Nat
      /\ VtableAt >= 2 * WordSize
  BY Sizes, MemoryAssumption, CopyLayout DEF NewVtableAt
<1> DEFINE BufferLen == BufferSize
           two == 2 * WordSize
<1>3. /\ v - pad \in Nat /\ v + size \in Nat /\ v - two \in Nat /\ v \in Nat
      /\ two \in Nat
  BY <1>2
<1>4. /\ BytesOf(v - pad, pad) \subseteq R
      /\ BytesOf(v + size, pad) \subseteq R
      /\ BytesOf(v - two, two) \subseteq R
      /\ BytesOf(v, size) \subseteq R
      /\ \A a \in R \ BytesOf(v - two, two + size) :
           /\ a \notin BytesOf(v - two, two) /\ a \notin BytesOf(v, size)
           /\ \/ a \in BytesOf(v + size, pad)
              \/ a \in BytesOf(v - pad, pad) /\ a \notin BytesOf(v + size, pad)
  <2>1. BufferLen = size + pad + pad
    BY <1>2
  <2> HIDE DEF BufferLen, size, v, pad, two
  <2> QED
    BY <1>2, <1>3, <2>1 DEF BytesOf, two, BufferLen
<1> HIDE DEF R, size, v, pad, two
<1>5. /\ Outside(front, m, R) /\ Whole(front)
      /\ \A a \in BytesOf(v - pad, pad) : Mapped(a) => Byte(front, a) = Null
  BY <1>2, <1>3, <1>4, bzeroBytes, OutsideMore, OutsideWhole
<1> HIDE DEF front
<1>6. /\ Outside(padded, m, R) /\ Whole(padded)
      /\ Outside(padded, front, BytesOf(v + size, pad))
      /\ \A a \in BytesOf(v + size, pad) : Mapped(a) => Byte(padded, a) = Null
  <2>1. /\ Outside(padded, front, BytesOf(v + size, pad))
        /\ Outside(padded, front, R)
        /\ \A a \in BytesOf(v + size, pad) : Mapped(a) => Byte(padded, a) = Null
    BY <1>2, <1>3, <1>4, <1>5, bzeroBytes, OutsideMore
  <2> HIDE DEF padded
  <2> QED
    BY <1>5, <2>1, OutsideThen, OutsideWhole
<1> HIDE DEF padded
<1>7. /\ Outside(header, m, R) /\ Whole(header)
      /\ Outside(header, padded, BytesOf(v - two, two))
      /\ \A a \in BytesOf(v - two, two) : Mapped(a) =>
           Byte(header, a) = Byte(padded, src + (a - (v - two)))
  <2>1. /\ Outside(header, padded, BytesOf(v - two, two))
        /\ Outside(header, padded, R)
        /\ \A a \in BytesOf(v - two, two) : Mapped(a) =>
             Byte(header, a) = Byte(padded, src + (a - (v - two)))
    <3>1. header = memcpy(padded, v - two, src, two)
      BY DEF two
    <3> HIDE DEF header, src
    <3> QED
      BY <1>2, <1>3, <1>4, <1>6, <3>1, memcpyBytes, OutsideMore
  <2> HIDE DEF header
  <2> QED
    BY <1>6, <2>1, OutsideThen, OutsideWhole
<1> HIDE DEF header
<1>8. /\ Outside(copy, header, BytesOf(v, size)) /\ Outside(copy, m, R)
      /\ \A a \in BytesOf(v, size) : Mapped(a) =>
           Byte(copy, a) = Byte(header, VtableAt + (a - v))
  <2>1. /\ Outside(copy, header, BytesOf(v, size)) /\ Outside(copy, header, R)
        /\ \A a \in BytesOf(v, size) : Mapped(a) =>
             Byte(copy, a) = Byte(header, VtableAt + (a - v))
    BY <1>2, <1>3, <1>4, <1>7, memcpyBytes, OutsideMore
  <2> HIDE DEF copy
  <2> QED
    BY <1>7, <2>1, OutsideThen
<1> HIDE DEF copy
<1>9. ASSUME NEW a \in BytesOf(v - two, two + size), NEW from,
             from = VtableAt + (a - v), Mapped(a), Mapped(from), from < HeapAt
      PROVE  Byte(copy, a) = Byte(m, from)
  <2>1. /\ a \in Nat /\ from \in Nat
        /\ src + (a - (v - two)) = from
        /\ a \in BytesOf(v, size) \/ (a < v /\ a \in BytesOf(v - two, two))
    BY <1>2, <1>3, <1>9 DEF BytesOf, src, two
  <2>2. from \notin R
    BY <1>2, <1>9, <2>1 DEF R, BytesOf
  <2>3. CASE a \in BytesOf(v, size)
    BY <1>7, <1>8, <1>9, <2>1, <2>2, <2>3 DEF Outside
  <2>4. CASE a < v /\ a \in BytesOf(v - two, two)
    <3>1. a \notin BytesOf(v, size)
      BY <1>3, <2>1, <2>4 DEF BytesOf
    <3>2. Byte(copy, a) = Byte(header, a)
      BY <1>8, <1>9, <2>1, <3>1 DEF Outside
    <3>3. Byte(header, a) = Byte(padded, from)
      BY <1>7, <1>9, <2>1, <2>4
    <3>4. Byte(padded, from) = Byte(m, from)
      BY <1>6, <1>9, <2>1, <2>2 DEF Outside
    <3> QED
      BY <3>2, <3>3, <3>4
  <2> QED
    BY <2>1, <2>3, <2>4
<1>10. ASSUME NEW a \in R \ BytesOf(v - two, two + size), Mapped(a)
       PROVE  Byte(copy, a) = Null
  <2>1. a \in Nat
    BY <1>10 DEF R, BytesOf
  <2>2. /\ a \notin BytesOf(v - two, two) /\ a \notin BytesOf(v, size)
        /\ \/ a \in BytesOf(v + size, pad)
           \/ a \in BytesOf(v - pad, pad) /\ a \notin BytesOf(v + size, pad)
    BY <1>4, <1>10
  <2>3. Byte(copy, a) = Byte(padded, a)
    BY <1>7, <1>8, <1>10, <2>1, <2>2 DEF Outside
  <2>4. Byte(padded, a) = Null
    BY <1>5, <1>6, <1>10, <2>1, <2>2 DEF Outside
  <2> QED
    BY <2>3, <2>4
<1> QED
  BY <1>1, <1>8, <1>9, <1>10 DEF R, v, size, two

-----------------------------------------------------------------------------
(***************************************************************************)
(* MemoryExact.                                                            *)
(***************************************************************************)

\* The class's functions are in memory, those that are hooked among them.
Placed ==
  /\ pageTable \in PageTables /\ functions \in Functions
  /\ \A n \in 1..functions : Mapped(SlotAt(VtableAt, n))

Hooks(k) == Len(Hooked[k])

\* Where memory m may differ from the initial one, with n objects hooked
\* directly and the buffer b: in the hooked functions, in the originals of the
\* two hookers and in the buffer.
MayDiffer(n, b) ==
  (IF n > 0 THEN SlotBytes("direct", VtableAt, Hooks("direct")) \cup
                 OriginalBytes("direct", Hooks("direct"))
   ELSE {}) \cup
  (IF b # NoBuffer THEN OriginalBytes("object", Hooks("object")) \cup
                        BytesOf(HeapAt, b.size)
   ELSE {})

ExactFor(m, n, b) ==
  \A a \in Nat :
    Mapped(a) /\ a \notin MayDiffer(n, b) => Byte(m, a) = InitialByte(a)

\* The saved originals of the vtable hooker are the functions of the class.
SavedFor(m, n) ==
  n > 0 =>
    \A i \in InfoOf("direct") :
      \A a \in BytesOf(OriginalAt("direct", i), WordSize) :
        Byte(m, a) = InitialByte(SlotAt(VtableAt, Hooked["direct"][i]) +
                                   (a - OriginalAt("direct", i)))

BufferOK(b) == b = NoBuffer \/ (b.at = HeapAt /\ b.size \in Nat)

ExactInv ==
  /\ Placed /\ Whole(memory)
  /\ hooked \in [Kinds -> Nat] /\ BufferOK(buffer)
  /\ ExactFor(memory, hooked["direct"], buffer)
  /\ SavedFor(memory, hooked["direct"])

LEMMA VtablePlaced ==
  ASSUME Placed, NEW k \in Kinds
  PROVE  /\ PlacedFor(k, VtableAt)
         /\ \A i \in InfoOf(k) :
              /\ Mapped(SlotAt(VtableAt, Hooked[k][i]))
              /\ SlotAt(VtableAt, Hooked[k][i]) + WordSize <= HeapAt
         /\ \A i, j \in InfoOf(k) :
              j # i =>
                SlotAt(VtableAt, Hooked[k][i]) # SlotAt(VtableAt, Hooked[k][j])
<1>1. functions \in Nat /\ Parent <= functions /\ Parent \in Nat
  BY MemoryAssumption DEF Placed
<1>2. \A i \in InfoOf(k) : Hooked[k][i] \in 1..functions
  BY <1>1, EntryPlaces DEF Placed
<1>3. \A i, j \in InfoOf(k) : Hooked[k][i] = Hooked[k][j] => i = j
  <2>1. IsInjective(Hooked[k])
    BY MemoryAssumption
  <2>2. \A i \in InfoOf(k) : i \in DOMAIN Hooked[k]
    BY EntryPlaces DEF Placed
  <2> QED
    BY <2>1, <2>2 DEF IsInjective
<1>4. \A n \in 1..functions :
        /\ Aligned(SlotAt(VtableAt, n)) /\ Mapped(SlotAt(VtableAt, n))
        /\ SlotAt(VtableAt, n) + WordSize <= HeapAt
        /\ \A n1 \in 1..functions :
             SlotAt(VtableAt, n1) = SlotAt(VtableAt, n) => n1 = n
        /\ \A i \in InfoOf(k) : /\ SlotAt(VtableAt, n) # OriginalAt(k, i)
                                /\ SlotAt(VtableAt, n) # HookingAt(k, i)
  BY SlotPlaces DEF Placed
<1>5. PlacedFor(k, VtableAt)
  BY <1>2, <1>4 DEF PlacedFor
<1> QED
  BY <1>2, <1>3, <1>4, <1>5

\* The functions of the private vtable are in the buffer.
LEMMA CopyPlaced ==
  ASSUME Placed
  PROVE  /\ PlacedFor("object", NewVtableAt)
         /\ SlotBytes("object", NewVtableAt, Hooks("object")) \subseteq
              BytesOf(HeapAt, BufferSize)
         /\ \A i \in InfoOf("object") :
              SlotAt(NewVtableAt, Hooked["object"][i]) >= HeapAt
         /\ \A i, j \in InfoOf("object") :
              j # i => SlotAt(NewVtableAt, Hooked["object"][i]) #
                         SlotAt(NewVtableAt, Hooked["object"][j])
<1>1. /\ WordSize \in Nat \ {0} /\ Parent \in Nat \ {0} /\ HeapAt \in Nat
      /\ HeapAt % WordSize = 0 /\ VirtualsAdded \in Nat /\ Padding \in Nat
  BY MemoryAssumption, ScanEnds
<1>2. "object" \in Kinds /\ pageTable \in PageTables
  BY DEF Kinds, Placed
<1> DEFINE D(i) == SlotAt(NewVtableAt, Hooked["object"][i])
<1>3. ASSUME NEW i \in InfoOf("object")
      PROVE  /\ Aligned(D(i)) /\ D(i) >= HeapAt /\ D(i) \in Nat
             /\ BytesOf(D(i), WordSize) \subseteq BytesOf(HeapAt, BufferSize)
  <2> DEFINE n == Hooked["object"][i]
             pad == Padding * WordSize
             off == (n - 1) * WordSize
  <2>1. n \in 1..Parent
    BY <1>2, EntryPlaces
  <2> HIDE DEF n
  <2>2. pad \in Nat /\ off \in Nat /\ n - 1 \in Nat
    BY <1>1, <2>1
  <2>3. D(i) = HeapAt + pad + off
    BY DEF SlotAt, NewVtableAt, n
  <2>4. Aligned(D(i))
    <3>1. Aligned(HeapAt)
      BY <1>1, AlignedIf
    <3>2. Aligned(HeapAt + pad)
      BY <1>1, <3>1, AlignedPlus
    <3> HIDE DEF pad
    <3>3. Aligned(HeapAt + pad + off)
      BY <2>2, <3>2, AlignedPlus
    <3> QED
      BY <2>3, <3>3
  <2>5. off + WordSize <= CopySize
    <3>1. CopySize = (Parent + VirtualsAdded) * WordSize
      BY Sizes
    <3>2. PICK e \in Nat : Parent + VirtualsAdded = n - 1 + 1 + e
      <4>1. /\ Parent + VirtualsAdded - n \in Nat
            /\ Parent + VirtualsAdded = n - 1 + 1 + (Parent + VirtualsAdded - n)
        BY <1>1, <2>1
      <4> QED
        BY <4>1
    <3>3. (n - 1 + 1 + e) * WordSize = off + WordSize + e * WordSize
      BY <1>1, <2>2
    <3>4. e * WordSize \in Nat
      BY <1>1
    <3> HIDE DEF off
    <3> QED
      BY <1>1, <2>2, <3>1, <3>2, <3>3, <3>4
  <2>6. CopySize \in Nat /\ BufferSize = CopySize + pad + pad
    BY Sizes
  <2> HIDE DEF D, pad, off
  <2>7. D(i) >= HeapAt /\ D(i) \in Nat /\ D(i) + WordSize <= HeapAt + BufferSize
    BY <1>1, <2>2, <2>3, <2>5, <2>6
  <2>8. BytesOf(D(i), WordSize) \subseteq BytesOf(HeapAt, BufferSize)
    <3>1. BufferSize \in Nat
      BY <2>2, <2>6
    <3> QED
      BY <1>1, <2>7, <3>1 DEF BytesOf
  <2> QED
    BY <2>4, <2>7, <2>8
<1>4. ASSUME NEW i \in InfoOf("object"), NEW j \in InfoOf("object")
      PROVE  D(i) # OriginalAt("object", j) /\ D(i) # HookingAt("object", j)
  <2>1. /\ OriginalAt("object", j) + WordSize <= HeapAt
        /\ HookingAt("object", j) + WordSize <= HeapAt
        /\ Aligned(OriginalAt("object", j)) /\ Aligned(HookingAt("object", j))
    BY <1>2, EntryPlaces
  <2>2. OriginalAt("object", j) \in Nat /\ HookingAt("object", j) \in Nat
    BY <1>1, <2>1 DEF Aligned
  <2>3. D(i) >= HeapAt /\ D(i) \in Nat
    BY <1>3
  <2> HIDE DEF D
  <2> QED
    BY <1>1, <2>1, <2>2, <2>3
<1>5. PlacedFor("object", NewVtableAt)
  BY <1>3, <1>4 DEF PlacedFor
<1>6. SlotBytes("object", NewVtableAt, Hooks("object")) \subseteq
        BytesOf(HeapAt, BufferSize)
  BY <1>3 DEF SlotBytes, Hooks, InfoOf
<1>7. ASSUME NEW i \in InfoOf("object"), NEW j \in InfoOf("object"), D(i) = D(j)
      PROVE  i = j
  <2> DEFINE a == Hooked["object"][i]
             b == Hooked["object"][j]
  <2>1. /\ a \in 1..Parent /\ b \in 1..Parent
        /\ i \in DOMAIN Hooked["object"] /\ j \in DOMAIN Hooked["object"]
    BY <1>2, EntryPlaces
  <2>2. NewVtableAt \in Nat
    BY <1>1 DEF NewVtableAt
  <2>3. D(i) = NewVtableAt + (a - 1) * WordSize
        /\ D(j) = NewVtableAt + (b - 1) * WordSize
    BY DEF SlotAt
  <2>4. IsInjective(Hooked["object"])
    BY <1>2, MemoryAssumption
  <2>5. a = b => i = j
    BY <2>1, <2>4 DEF IsInjective
  <2> HIDE DEF a, b, D
  <2>6. (a - b) * WordSize = 0
    <3>1. a - 1 \in Nat /\ b - 1 \in Nat
      BY <1>1, <2>1
    <3>2. (a - 1) * WordSize \in Nat /\ (b - 1) * WordSize \in Nat
      BY <1>1, <3>1
    <3>3. NewVtableAt + (a - 1) * WordSize = NewVtableAt + (b - 1) * WordSize
      BY <1>7, <2>3
    <3>4. (a - 1) * WordSize = (b - 1) * WordSize
      BY <2>2, <3>2, <3>3
    <3> QED
      BY <1>1, <2>1, <3>4
  <2>7. a = b
    BY <1>1, <2>1, <2>6
  <2> QED
    BY <2>5, <2>7
<1> QED
  BY <1>3, <1>5, <1>6, <1>7

\* The place of the word behind the functions of the class.
ZeroAt == VtableAt + functions * WordSize

LEMMA InitialWord ==
  ASSUME NEW x, Aligned(x), x + WordSize <= HeapAt, NEW a \in BytesOf(x, WordSize)
  PROVE  /\ InitialByte(a) = PointerBytes(InitialPointer(x))[a - x]
         /\ a < HeapAt /\ a - x \in 0..WordSize - 1
<1>1. WordSize \in Nat \ {0} /\ HeapAt \in Nat
  BY MemoryAssumption
<1>2. WordOf(a) = x /\ a % WordSize = a - x /\ a - x \in 0..WordSize - 1
  BY ByteInWord
<1>3. a \in Nat /\ x \in Nat
  BY <1>1 DEF BytesOf, Aligned
<1>4. a < HeapAt
  BY <1>1, <1>2, <1>3
<1>5. ~(a >= HeapAt)
  BY <1>1, <1>3, <1>4
<1> QED
  BY <1>2, <1>4, <1>5 DEF InitialByte

LEMMA NoFunction ==
  ASSUME Placed, NEW x \in Nat, x >= ZeroAt \/ x + WordSize <= VtableAt
  PROVE  ~(x >= VtableAt /\ (x - VtableAt) \div WordSize < functions)
<1> SUFFICES ASSUME x >= VtableAt, (x - VtableAt) \div WordSize < functions
             PROVE  FALSE
  OBVIOUS
<1>1. /\ WordSize \in Nat \ {0} /\ VtableAt \in Nat /\ functions \in Nat
  BY MemoryAssumption DEF Placed
<1>2. functions * WordSize \in Nat
  BY <1>1
<1>3. x >= VtableAt + functions * WordSize
  BY <1>1, <1>2 DEF ZeroAt
<1> DEFINE y == x - VtableAt
           u == y \div WordSize
           v == y % WordSize
<1>4. y \in Nat /\ y >= functions * WordSize
  BY <1>1, <1>2, <1>3
<1>5. u \in Nat /\ v \in 0..WordSize - 1 /\ y = u * WordSize + v
  <2> HIDE DEF y
  <2> QED
    BY <1>1, <1>4, DivMod
<1>6. u < functions
  OBVIOUS
<1> HIDE DEF u, v, y
<1>7. PICK e \in Nat : functions = u + 1 + e
  <2>1. functions - u - 1 \in Nat /\ functions = u + 1 + (functions - u - 1)
    BY <1>1, <1>5, <1>6
  <2> QED
    BY <2>1
<1>8. functions * WordSize = u * WordSize + WordSize + e * WordSize
      /\ e * WordSize \in Nat /\ u * WordSize \in Nat
  BY <1>1, <1>5, <1>7
<1> QED
  BY <1>1, <1>4, <1>5, <1>8

\* The entries are behind the vtable or before it.
LEMMA EntryBehind ==
  ASSUME Placed, NEW k \in Kinds, NEW i \in InfoOf(k),
         NEW x \in {OriginalAt(k, i), HookingAt(k, i)}
  PROVE  /\ x \in Nat
         /\ x >= ZeroAt \/ x + WordSize <= VtableAt
         /\ x \in Entries(k) /\ x # ZeroAt
<1>1. WordSize \in Nat \ {0} /\ pageTable \in PageTables
  BY MemoryAssumption DEF Placed
<1>2. Aligned(x) /\ i \in DOMAIN Hooked[k]
  BY <1>1, EntryPlaces
<1>3. x \in Nat
  BY <1>1, <1>2 DEF Aligned
<1>4. x \in Entries(k)
  BY <1>2 DEF Entries
<1>5. x \in Entries("direct") \cup Entries("object")
  BY <1>4 DEF Kinds
<1>6. x >= ZeroAt \/ x + WordSize <= VtableAt
  BY <1>5, MemoryLayout DEF Placed, ZeroAt
<1>7. x # ZeroAt
  BY <1>5, CopyLayout DEF Placed, ZeroAt
<1> QED
  BY <1>3, <1>4, <1>6, <1>7

\* Nothing is saved at first.
LEMMA NullAtOriginal ==
  ASSUME Placed, NEW k \in Kinds, NEW a \in OriginalBytes(k, Hooks(k))
  PROVE  InitialByte(a) = Null /\ a < HeapAt
<1>1. PICK i \in InfoOf(k) : a \in BytesOf(OriginalAt(k, i), WordSize)
  BY DEF OriginalBytes, Hooks, InfoOf
<1> DEFINE x == OriginalAt(k, i)
<1>2. pageTable \in PageTables
  BY DEF Placed
<1>3. Aligned(x) /\ x + WordSize <= HeapAt
  BY <1>2, EntryPlaces
<1>4. x \in Nat /\ (x >= ZeroAt \/ x + WordSize <= VtableAt)
  BY EntryBehind
<1>5. ASSUME NEW l \in Kinds
      PROVE  x \notin {HookingAt(l, j) : j \in DOMAIN Hooked[l]}
  <2>1. \A j \in DOMAIN Hooked[l] : j \in InfoOf(l)
    BY MemoryAssumption DEF InfoOf
  <2> QED
    BY <1>2, <2>1, EntriesApart
<1> HIDE DEF x
<1>6. InitialPointer(x) = Null
  BY <1>4, <1>5, NoFunction DEF InitialPointer, Kinds
<1>7. /\ InitialByte(a) = PointerBytes(Null)[a - x]
      /\ a < HeapAt /\ a - x \in 0..WordSize - 1
  BY <1>1, <1>3, <1>6, InitialWord DEF x
<1> QED
  BY <1>7 DEF PointerBytes

\* The hooked functions of the class are no saved originals.
LEMMA SlotsNoOriginals ==
  ASSUME Placed, NEW k \in Kinds, NEW i \in InfoOf(k), NEW l \in Kinds
  PROVE  BytesOf(SlotAt(VtableAt, Hooked[k][i]), WordSize) \cap
           OriginalBytes(l, Hooks(l)) = {}
<1> DEFINE s == SlotAt(VtableAt, Hooked[k][i])
<1>1. Hooked[k][i] \in 1..functions
  <2>1. functions \in Nat /\ Parent <= functions /\ Parent \in Nat
    BY MemoryAssumption DEF Placed
  <2> QED
    BY <2>1, EntryPlaces DEF Placed
<1>2. Aligned(s) /\ \A j \in InfoOf(l) : s # OriginalAt(l, j)
  BY <1>1, SlotPlaces DEF Placed
<1> HIDE DEF s
<1>3. \A j \in InfoOf(l) :
        BytesOf(s, WordSize) \cap BytesOf(OriginalAt(l, j), WordSize) = {}
  BY <1>2, EntryPlaces, WordsApart DEF Placed
<1> QED
  BY <1>3 DEF OriginalBytes, Hooks, InfoOf, s

\* A hooked function of the class: its bytes are mapped and below the heap.
LEMMA SlotBytesMapped ==
  ASSUME Placed, NEW k \in Kinds, NEW i \in InfoOf(k),
         NEW a \in BytesOf(SlotAt(VtableAt, Hooked[k][i]), WordSize)
  PROVE  a \in Nat /\ Mapped(a) /\ a < HeapAt
<1> DEFINE s == SlotAt(VtableAt, Hooked[k][i])
<1>1. Aligned(s) /\ Mapped(s) /\ s + WordSize <= HeapAt
  BY VtablePlaced DEF PlacedFor
<1>2. a \in BytesOf(s, WordSize)
  OBVIOUS
<1> HIDE DEF s
<1>3. Mapped(a)
  BY <1>1, <1>2, WordInPage DEF Placed
<1>4. WordSize \in Nat \ {0} /\ HeapAt \in Nat
  BY MemoryAssumption
<1>5. s \in Nat
  BY <1>1, <1>4 DEF Aligned
<1> QED
  BY <1>1, <1>2, <1>3, <1>4, <1>5 DEF BytesOf

\* The first object of the class patches the vtable.
LEMMA HookVtableExact ==
  ASSUME Placed, NEW m, Whole(m), NEW b, BufferOK(b), ExactFor(m, 0, b),
         NEW n \in Nat, n > 0,
         NEW w, w = DldHookVtableFunctions(m, "direct", VtableAt, VtableAt)
  PROVE  /\ Whole(w) /\ ExactFor(w, n, b) /\ SavedFor(w, n)
         /\ Outside(w, m, OriginalBytes("direct", Hooks("direct")) \cup
                          SlotBytes("direct", VtableAt, Hooks("direct")))
<1> DEFINE k == "direct"
           s(i) == SlotAt(VtableAt, Hooked[k][i])
           R == OriginalBytes(k, Hooks(k)) \cup SlotBytes(k, VtableAt, Hooks(k))
<1>1. k \in Kinds /\ "object" \in Kinds /\ pageTable \in PageTables
  BY DEF Kinds, Placed
<1>2. /\ PlacedFor(k, VtableAt)
      /\ \A i \in InfoOf(k) : Mapped(s(i))
      /\ \A i, j \in InfoOf(k) : j # i => s(i) # s(j)
  BY <1>1, VtablePlaced
<1>3. /\ Outside(w, m, R)
      /\ \A i \in InfoOf(k) : WordFrom(w, OriginalAt(k, i), m, s(i))
  <2>1. \A i, j \in InfoOf(k) : j < i => s(i) # s(j)
    <3>1. \A i \in InfoOf(k) : i \in Int
      BY DEF InfoOf
    <3> HIDE DEF s
    <3> QED
      BY <1>2, <3>1
  <2> QED
    BY <1>1, <1>2, <2>1, TableHooked DEF Hooks
<1>4. Whole(w)
  <2> HIDE DEF R
  <2> QED
    BY <1>3, OutsideWhole
<1>5. R \subseteq MayDiffer(n, b) /\ MayDiffer(0, b) \subseteq MayDiffer(n, b)
  BY DEF MayDiffer
<1>6. ExactFor(w, n, b)
  <2> HIDE DEF R
  <2> QED
    BY <1>3, <1>5 DEF ExactFor, Outside
<1>7. ASSUME NEW i \in InfoOf(k), NEW x \in BytesOf(s(i), WordSize)
      PROVE  Byte(m, x) = InitialByte(x)
  <2>1. x \in Nat /\ Mapped(x) /\ x < HeapAt
    BY <1>1, <1>7, SlotBytesMapped
  <2>2. x \notin OriginalBytes("object", Hooks("object"))
    BY <1>1, <1>7, SlotsNoOriginals
  <2>3. x \notin BytesOf(HeapAt, b.size)
    <3>1. HeapAt \in Nat
      BY MemoryAssumption
    <3> QED
      BY <2>1, <3>1 DEF BytesOf
  <2>4. x \notin MayDiffer(0, b)
    BY <2>2, <2>3 DEF MayDiffer
  <2> QED
    BY <2>1, <2>4 DEF ExactFor
<1>8. ASSUME NEW i \in InfoOf(k), NEW a \in BytesOf(OriginalAt(k, i), WordSize)
      PROVE  Byte(w, a) = InitialByte(s(i) + (a - OriginalAt(k, i)))
  <2> DEFINE x == s(i) + (a - OriginalAt(k, i))
  <2>1. Byte(w, a) = Byte(m, x)
    BY <1>3, <1>8 DEF WordFrom
  <2>2. x \in BytesOf(s(i), WordSize)
    <3>1. Aligned(s(i)) /\ Aligned(OriginalAt(k, i))
      BY <1>1, <1>2, <1>8, EntryPlaces DEF PlacedFor
    <3> HIDE DEF s
    <3>2. s(i) \in Nat /\ OriginalAt(k, i) \in Nat /\ WordSize \in Nat
      BY <3>1, MemoryAssumption DEF Aligned
    <3> QED
      BY <1>8, <3>2 DEF BytesOf
  <2> QED
    BY <1>7, <1>8, <2>1, <2>2
<1>9. SavedFor(w, n)
  BY <1>8 DEF SavedFor
<1> QED
  BY <1>3, <1>4, <1>6, <1>9

\* The last one restores it and forgets the originals.
LEMMA UnHookVtableExact ==
  ASSUME Placed, NEW m, Whole(m), NEW b, BufferOK(b),
         NEW n \in Nat, n > 0, ExactFor(m, n, b), SavedFor(m, n),
         NEW w, w = Forget(DldUnHookVtableFunctions(m, "direct", VtableAt), "direct")
  PROVE  /\ Whole(w) /\ ExactFor(w, 0, b) /\ SavedFor(w, 0)
         /\ Outside(w, m, OriginalBytes("direct", Hooks("direct")) \cup
                          SlotBytes("direct", VtableAt, Hooks("direct")))
<1> DEFINE k == "direct"
           s(i) == SlotAt(VtableAt, Hooked[k][i])
           v == DldUnHookVtableFunctions(m, k, VtableAt)
           S == SlotBytes(k, VtableAt, Hooks(k))
           O == OriginalBytes(k, Hooks(k))
<1>1. k \in Kinds /\ pageTable \in PageTables
  BY DEF Kinds, Placed
<1>2. /\ PlacedFor(k, VtableAt)
      /\ \A i \in InfoOf(k) : Mapped(s(i))
      /\ \A i, j \in InfoOf(k) : j # i => s(i) # s(j)
  BY <1>1, VtablePlaced
<1>3. /\ Outside(v, m, S)
      /\ \A i \in InfoOf(k) : WordFrom(v, s(i), m, OriginalAt(k, i))
  BY <1>1, <1>2, TableRestored DEF Hooks
<1> HIDE DEF S
<1>4. Whole(v)
  BY <1>3, OutsideWhole
<1>5. Outside(w, v, O) /\ \A a \in O : Byte(w, a) = Null
  BY <1>1, <1>4, TableForgotten DEF Hooks
<1> HIDE DEF v, O
<1>6. Whole(w)
  BY <1>4, <1>5, OutsideWhole
<1>7. ASSUME NEW i \in InfoOf(k), NEW a \in BytesOf(s(i), WordSize)
      PROVE  Byte(w, a) = InitialByte(a)
  <2>1. a \in Nat /\ Mapped(a)
    BY <1>1, <1>7, SlotBytesMapped
  <2>2. a \notin O
    BY <1>1, <1>7, SlotsNoOriginals DEF O
  <2>3. Byte(w, a) = Byte(v, a)
    BY <1>5, <2>1, <2>2 DEF Outside
  <2> DEFINE o == OriginalAt(k, i)
             x == o + (a - s(i))
  <2>4. Byte(v, a) = Byte(m, x)
    BY <1>3, <1>7 DEF WordFrom
  <2>5. x \in BytesOf(o, WordSize) /\ s(i) + (x - o) = a
    <3>1. Aligned(s(i)) /\ Aligned(o)
      BY <1>1, <1>2, <1>7, EntryPlaces DEF PlacedFor
    <3> HIDE DEF s, o
    <3>2. s(i) \in Nat /\ o \in Nat /\ WordSize \in Nat
      BY <3>1, MemoryAssumption DEF Aligned
    <3> QED
      BY <1>7, <3>2 DEF BytesOf
  <2>6. Byte(m, x) = InitialByte(s(i) + (x - o))
    BY <1>7, <2>5 DEF SavedFor
  <2> QED
    BY <2>3, <2>4, <2>5, <2>6
<1>8. ASSUME NEW a \in Nat, Mapped(a), a \notin MayDiffer(0, b)
      PROVE  Byte(w, a) = InitialByte(a)
  <2>1. CASE a \in O
    BY <1>1, <1>5, <2>1, NullAtOriginal DEF O
  <2>2. CASE a \in S
    <3>1. PICK i \in InfoOf(k) : a \in BytesOf(s(i), WordSize)
      BY <2>2 DEF S, SlotBytes, Hooks, InfoOf
    <3> QED
      BY <1>7, <3>1
  <2>3. CASE a \notin O /\ a \notin S
    <3>1. a \notin MayDiffer(n, b)
      BY <1>8, <2>3 DEF MayDiffer, O, S
    <3> QED
      BY <1>3, <1>5, <1>8, <2>3, <3>1 DEF ExactFor, Outside
  <2> QED
    BY <2>1, <2>2, <2>3
<1>9. Outside(w, m, O \cup S)
  <2>1. Outside(v, m, O \cup S) /\ Outside(w, v, O \cup S)
    BY <1>3, <1>5, OutsideMore
  <2> QED
    BY <2>1, OutsideThen
<1> QED
  BY <1>6, <1>8, <1>9 DEF ExactFor, SavedFor, O, S

\* What the per-object hooker writes leaves the saved originals of the other
\* one alone.
LEMMA SavedKept ==
  ASSUME Placed, NEW m, NEW w, NEW n, SavedFor(m, n), NEW z,
         Outside(w, m, OriginalBytes("object", Hooks("object")) \cup
                       BytesOf(HeapAt, z))
  PROVE  SavedFor(w, n)
<1> DEFINE k == "direct"
           R == OriginalBytes("object", Hooks("object")) \cup BytesOf(HeapAt, z)
<1>1. k \in Kinds /\ "object" \in Kinds /\ k # "object" /\ pageTable \in PageTables
  BY DEF Kinds, Placed
<1>2. ASSUME NEW i \in InfoOf(k), NEW a \in BytesOf(OriginalAt(k, i), WordSize)
      PROVE  Byte(w, a) = Byte(m, a)
  <2> DEFINE o == OriginalAt(k, i)
  <2>1. Aligned(o) /\ Mapped(o)
    BY <1>1, EntryPlaces
  <2>2. a \in Nat /\ Mapped(a)
    BY <1>1, <1>2, <2>1, WordInPage DEF BytesOf
  <2>3. a < HeapAt
    BY <1>1, <1>2, NullAtOriginal DEF OriginalBytes, Hooks, InfoOf, BytesOf
  <2>4. a \notin BytesOf(HeapAt, z)
    <3>1. HeapAt \in Nat
      BY MemoryAssumption
    <3> QED
      BY <2>2, <2>3, <3>1 DEF BytesOf
  <2>5. ASSUME NEW j \in InfoOf("object")
        PROVE  a \notin BytesOf(OriginalAt("object", j), WordSize)
    <3>1. Aligned(OriginalAt("object", j)) /\ OriginalAt("object", j) # o
      BY <1>1, EntryPlaces, EntriesApart
    <3> HIDE DEF o
    <3>2. BytesOf(o, WordSize) \cap BytesOf(OriginalAt("object", j), WordSize) = {}
      BY <2>1, <3>1, WordsApart
    <3> QED
      BY <1>2, <3>2 DEF o
  <2>6. a \notin R
    BY <2>4, <2>5 DEF OriginalBytes, Hooks, InfoOf
  <2> HIDE DEF R
  <2> QED
    BY <2>2, <2>6 DEF Outside, R
<1> QED
  BY <1>2 DEF SavedFor

\* The private vtable is made and hooked.
LEMMA CopyHooked ==
  ASSUME Placed, NEW m, Whole(m), NEW v, NEW w,
         v = CopyVtable(m, NewVtableAt, CopySize),
         w = DldHookVtableFunctions(v, "object", VtableAt, NewVtableAt)
  PROVE  /\ Whole(v) /\ Outside(v, m, BytesOf(HeapAt, BufferSize))
         /\ Outside(w, v, OriginalBytes("object", Hooks("object")) \cup
                          SlotBytes("object", NewVtableAt, Hooks("object")))
         /\ Outside(w, m, OriginalBytes("object", Hooks("object")) \cup
                          BytesOf(HeapAt, BufferSize))
         /\ \A i \in InfoOf("object") :
              LET to == SlotAt(NewVtableAt, Hooked["object"][i])
                  from == SlotAt(VtableAt, Hooked["object"][i])
              IN /\ WordFrom(w, OriginalAt("object", i), v, from)
                 /\ Mapped(to) => WordFrom(w, to, v, HookingAt("object", i))
<1> DEFINE k == "object"
           s(i) == SlotAt(VtableAt, Hooked[k][i])
           d(i) == SlotAt(NewVtableAt, Hooked[k][i])
           O == OriginalBytes(k, Hooks(k))
           B == BytesOf(HeapAt, BufferSize)
           D == SlotBytes(k, NewVtableAt, Hooks(k))
           R == O \cup B
<1>1. k \in Kinds /\ pageTable \in PageTables
  BY DEF Kinds, Placed
<1>2. Outside(v, m, B) /\ Whole(v)
  <2>1. Outside(v, m, B)
    BY <1>1, CopyInBuffer
  <2> HIDE DEF B
  <2> QED
    BY <2>1, OutsideWhole
<1>3. /\ Outside(w, v, O \cup D)
      /\ \A i \in InfoOf(k) :
           /\ WordFrom(w, OriginalAt(k, i), v, s(i))
           /\ Mapped(d(i)) => WordFrom(w, d(i), v, HookingAt(k, i))
  <2>1. /\ PlacedFor(k, VtableAt) /\ PlacedFor(k, NewVtableAt)
        /\ \A i \in InfoOf(k) : Mapped(s(i))
        /\ \A i, j \in InfoOf(k) : j # i => d(i) # d(j)
    BY <1>1, VtablePlaced, CopyPlaced
  <2>2. \A i, j \in InfoOf(k) : s(i) # d(j)
    <3>1. HeapAt \in Nat /\ WordSize \in Nat \ {0}
      BY MemoryAssumption
    <3>2. \A i \in InfoOf(k) : s(i) \in Nat /\ s(i) + WordSize <= HeapAt
      BY <1>1, <2>1, <3>1, VtablePlaced DEF PlacedFor, Aligned
    <3>3. \A i \in InfoOf(k) : d(i) \in Nat /\ d(i) >= HeapAt
      BY <2>1, <3>1, CopyPlaced DEF PlacedFor, Aligned
    <3> HIDE DEF s, d
    <3> QED
      BY <3>1, <3>2, <3>3
  <2> QED
    BY <1>1, <1>2, <2>1, <2>2, TableHooked DEF Hooks
<1>4. Outside(w, m, R)
  <2>1. D \subseteq B
    BY CopyPlaced
  <2> HIDE DEF O, B, D
  <2>2. Outside(v, m, R) /\ Outside(w, v, R)
    BY <1>2, <1>3, <2>1, OutsideMore
  <2> HIDE DEF R
  <2> QED
    BY <2>2, OutsideThen
<1> QED
  BY <1>2, <1>3, <1>4

LEMMA CopyAndHookExact ==
  ASSUME Placed, NEW m, Whole(m), NEW n \in Nat,
         ExactFor(m, n, NoBuffer), SavedFor(m, n),
         NEW b, b = [at |-> HeapAt, size |-> BufferSize],
         NEW w, w = DldHookVtableFunctions(CopyVtable(m, NewVtableAt, CopySize),
                                           "object", VtableAt, NewVtableAt)
  PROVE  Whole(w) /\ ExactFor(w, n, b) /\ SavedFor(w, n) /\ BufferOK(b)
<1> DEFINE R == OriginalBytes("object", Hooks("object")) \cup
                BytesOf(HeapAt, BufferSize)
<1>1. BufferSize \in Nat /\ b # NoBuffer /\ b.size = BufferSize /\ b.at = HeapAt
  <2>1. WordSize \in Nat \ {0}
    BY MemoryAssumption
  <2>2. BufferSize \in Nat /\ BufferSize # 0
    BY <2>1, Sizes
  <2> QED
    BY <2>2 DEF NoBuffer
<1>2. Outside(w, m, R)
  BY CopyHooked
<1>3. MayDiffer(n, b) = MayDiffer(n, NoBuffer) \cup R
  BY <1>1 DEF MayDiffer
<1>4. SavedFor(w, n)
  BY <1>2, SavedKept
<1> HIDE DEF R
<1>5. Whole(w)
  BY <1>2, OutsideWhole
<1>6. ExactFor(w, n, b)
  BY <1>2, <1>3 DEF ExactFor, Outside
<1> QED
  BY <1>1, <1>4, <1>5, <1>6 DEF BufferOK

\* The private vtable is freed, the originals are forgotten.
LEMMA UnHookObjectExact ==
  ASSUME Placed, NEW m, Whole(m), NEW n \in Nat, NEW b, BufferOK(b),
         ExactFor(m, n, b), SavedFor(m, n),
         NEW w, w = Forget(Lost(m, b.at, b.size), "object")
  PROVE  /\ Whole(w) /\ ExactFor(w, n, NoBuffer) /\ SavedFor(w, n)
         /\ Outside(w, m, OriginalBytes("object", Hooks("object")) \cup
                          BytesOf(HeapAt, b.size))
<1> DEFINE k == "object"
           v == Lost(m, b.at, b.size)
           O == OriginalBytes(k, Hooks(k))
           B == BytesOf(b.at, b.size)
           R == O \cup BytesOf(HeapAt, b.size)
<1>1. /\ k \in Kinds /\ pageTable \in PageTables /\ HeapAt \in Nat
      /\ b.at \in Nat /\ b.size \in Nat
  <2>1. k \in Kinds /\ pageTable \in PageTables /\ HeapAt \in Nat
    BY MemoryAssumption DEF Kinds, Placed
  <2>2. NoBuffer.at = 0 /\ NoBuffer.size = 0
    BY DEF NoBuffer
  <2>3. b.at \in Nat /\ b.size \in Nat
    BY <2>1, <2>2 DEF BufferOK
  <2> QED
    BY <2>1, <2>3
<1>2. B \subseteq BytesOf(HeapAt, b.size)
  BY <1>1 DEF BufferOK, NoBuffer, BytesOf
<1>3. Outside(v, m, B) /\ \A a \in B : Mapped(a) => Byte(v, a) = Junk
  BY <1>1, LostBytes
<1> HIDE DEF v
<1>4. Whole(v)
  <2> HIDE DEF B
  <2> QED
    BY <1>3, OutsideWhole
<1>5. Outside(w, v, O) /\ \A a \in O : Byte(w, a) = Null
  BY <1>1, <1>4, TableForgotten DEF Hooks, v
<1>6. Outside(w, m, R)
  <2> HIDE DEF O, B
  <2>1. Outside(v, m, R) /\ Outside(w, v, R)
    BY <1>2, <1>3, <1>5, OutsideMore
  <2> HIDE DEF R
  <2> QED
    BY <2>1, OutsideThen
<1>7. SavedFor(w, n)
  BY <1>6, SavedKept
<1>8. Whole(w)
  <2> HIDE DEF R
  <2> QED
    BY <1>6, OutsideWhole
<1>9. ASSUME NEW a \in Nat, Mapped(a), a \notin MayDiffer(n, NoBuffer)
      PROVE  Byte(w, a) = InitialByte(a)
  <2>1. CASE a \in O
    BY <1>1, <1>5, <2>1, NullAtOriginal
  <2>2. CASE a \notin O /\ a \in B
    <3>1. Byte(w, a) = Junk
      BY <1>3, <1>5, <1>9, <2>2 DEF Outside
    <3>2. a >= HeapAt
      BY <1>1, <1>2, <2>2 DEF BytesOf
    <3> QED
      BY <3>1, <3>2 DEF InitialByte
  <2>3. CASE a \notin O /\ a \notin B
    <3>1. Byte(w, a) = Byte(m, a)
      BY <1>3, <1>5, <1>9, <2>3 DEF Outside
    <3>2. a \notin MayDiffer(n, b)
      BY <1>9, <2>3 DEF MayDiffer, BufferOK
    <3> QED
      BY <1>9, <3>1, <3>2 DEF ExactFor
  <2> QED
    BY <2>1, <2>2, <2>3
<1> QED
  BY <1>6, <1>7, <1>8, <1>9 DEF ExactFor

LEMMA ExactInit == MemoryInit => ExactInv
<1> SUFFICES ASSUME MemoryInit PROVE ExactInv
  OBVIOUS
<1>1. pageTable \in PageTables /\ Whole(memory)
  BY WholeInit DEF WholeInv
<1>2. Placed
  BY <1>1 DEF MemoryInit, Placed, SlotAt
<1>3. hooked = [k \in Kinds |-> 0] /\ buffer = NoBuffer
  BY DEF MemoryInit
<1>4. ASSUME NEW a \in Nat, Mapped(a) PROVE Byte(memory, a) = InitialByte(a)
  <2> DEFINE p == DldVirtToPhys(a)
             c == CHOOSE b \in Addresses : DldVirtToPhys(b) = p
  <2>1. a \in Addresses
    BY <1>1, <1>4, MappedAddresses
  <2>2. memory[p] = InitialByte(c)
    BY <2>1 DEF MemoryInit
  <2>3. c \in Addresses /\ DldVirtToPhys(c) = p
    BY <2>1
  <2> HIDE DEF c
  <2>4. c \in Nat /\ a = c
    BY <1>1, <1>4, <2>3, MappedAddresses, PhysInjective
  <2> QED
    BY <2>2, <2>4 DEF Byte
<1>5. hooked \in [Kinds -> Nat] /\ hooked["direct"] = 0 /\ BufferOK(buffer)
  BY <1>3 DEF Kinds, BufferOK
<1>6. ExactFor(memory, 0, buffer) /\ SavedFor(memory, 0)
  BY <1>4 DEF ExactFor, SavedFor
<1> QED
  BY <1>1, <1>2, <1>5, <1>6 DEF ExactInv

\* What a step makes of memory, of the number of objects that are hooked
\* directly and of the buffer is exact.
LEMMA ExactStep ==
  ASSUME ExactInv, [MemoryNext]_memoryVars
  PROVE  /\ pageTable' = pageTable /\ functions' = functions
         /\ Whole(memory') /\ hooked' \in [Kinds -> Nat] /\ BufferOK(buffer')
         /\ ExactFor(memory', hooked'["direct"], buffer')
         /\ SavedFor(memory', hooked'["direct"])
<1> DEFINE n == hooked["direct"]
           o == hooked["object"]
           n1 == hooked'["direct"]
<1> DEFINE Goal == /\ Whole(memory') /\ BufferOK(buffer')
                   /\ ExactFor(memory', n1, buffer') /\ SavedFor(memory', n1)
<1>1. /\ Placed /\ Whole(memory) /\ BufferOK(buffer)
      /\ hooked \in [Kinds -> Nat] /\ n \in Nat /\ o \in Nat
      /\ "direct" \in Kinds /\ "object" \in Kinds
      /\ ExactFor(memory, n, buffer) /\ SavedFor(memory, n)
  BY DEF ExactInv, Kinds
<1>2. pageTable' = pageTable /\ functions' = functions
  BY DEF MemoryNext, memoryVars, HookVtable, UnHookVtable, ScanFaults,
         HookObjectRefused, CopyAndHook, HookObject, UnHookObject
<1>3. hooked' \in [Kinds -> Nat]
  BY <1>1 DEF MemoryNext, memoryVars, HookVtable, UnHookVtable, ScanFaults,
              HookObjectRefused, CopyAndHook, HookObject, UnHookObject
<1> SUFFICES Goal
  BY <1>2, <1>3
<1>4. CASE HookVtable
  <2>1. n1 = n + 1 /\ buffer' = buffer
    BY <1>1, <1>4 DEF HookVtable
  <2>2. CASE n = 0
    <3>1. memory' = DldHookVtableFunctions(memory, "direct", VtableAt, VtableAt)
      BY <1>4, <2>2 DEF HookVtable
    <3> QED
      BY <1>1, <2>1, <2>2, <3>1, HookVtableExact
  <2>3. CASE n # 0
    <3>1. memory' = memory
      BY <1>4, <2>3 DEF HookVtable
    <3>2. ExactFor(memory, n1, buffer) /\ SavedFor(memory, n1)
      BY <1>1, <2>1, <2>3 DEF ExactFor, SavedFor, MayDiffer
    <3> QED
      BY <1>1, <2>1, <3>1, <3>2
  <2> QED
    BY <2>2, <2>3
<1>5. CASE UnHookVtable
  <2>1. n1 = n - 1 /\ n > 0 /\ buffer' = buffer
    BY <1>1, <1>5 DEF UnHookVtable
  <2>2. CASE n = 1
    <3>1. memory' = Forget(DldUnHookVtableFunctions(memory, "direct", VtableAt),
                           "direct")
      BY <1>5, <2>2 DEF UnHookVtable
    <3> QED
      BY <1>1, <2>1, <2>2, <3>1, UnHookVtableExact
  <2>3. CASE n # 1
    <3>1. memory' = memory
      BY <1>5, <2>3 DEF UnHookVtable
    <3>2. ExactFor(memory, n1, buffer) /\ SavedFor(memory, n1)
      BY <1>1, <2>1, <2>3 DEF ExactFor, SavedFor, MayDiffer
    <3> QED
      BY <1>1, <2>1, <3>1, <3>2
  <2> QED
    BY <2>2, <2>3
<1>6. CASE CopyAndHook
  <2>1. n1 = n
    BY <1>1, <1>6 DEF CopyAndHook
  <2>2. /\ buffer = NoBuffer /\ buffer' = [at |-> HeapAt, size |-> BufferSize]
        /\ memory' = DldHookVtableFunctions(
                       CopyVtable(memory, NewVtableAt, CopySize),
                       "object", VtableAt, NewVtableAt)
    BY <1>6 DEF CopyAndHook
  <2> QED
    BY <1>1, <2>1, <2>2, CopyAndHookExact
<1>7. CASE UnHookObject
  <2>1. n1 = n
    BY <1>1, <1>7 DEF UnHookObject
  <2>2. CASE o = 1
    <3>1. /\ memory' = Forget(Lost(memory, buffer.at, buffer.size), "object")
          /\ buffer' = NoBuffer
      BY <1>7, <2>2 DEF UnHookObject
    <3> QED
      BY <1>1, <2>1, <3>1, UnHookObjectExact DEF BufferOK
  <2>3. CASE o # 1
    BY <1>1, <1>7, <2>1, <2>3 DEF UnHookObject
  <2> QED
    BY <2>2, <2>3
<1>8. CASE ScanFaults \/ HookObjectRefused \/ HookObject \/ UNCHANGED memoryVars
  <2>1. n1 = n /\ memory' = memory /\ buffer' = buffer
    BY <1>1, <1>8 DEF ScanFaults, HookObjectRefused, HookObject, memoryVars
  <2> QED
    BY <1>1, <2>1
<1> HIDE DEF Goal
<1> QED
  BY <1>4, <1>5, <1>6, <1>7, <1>8 DEF MemoryNext

LEMMA ExactPreserved ==
  ASSUME ExactInv, [MemoryNext]_memoryVars
  PROVE  ExactInv'
<1>1. /\ pageTable' = pageTable /\ functions' = functions
      /\ Whole(memory') /\ hooked' \in [Kinds -> Nat] /\ BufferOK(buffer')
      /\ ExactFor(memory', hooked'["direct"], buffer')
      /\ SavedFor(memory', hooked'["direct"])
  BY ExactStep
<1>2. Placed'
  BY <1>1 DEF ExactInv, Placed, Mapped, DldVirtToPhys
<1>3. Whole(memory)'
  BY <1>1 DEF Whole, Mapped, DldVirtToPhys
<1>4. \A a : InitialByte(a)' = InitialByte(a)
  BY <1>1 DEF InitialByte, InitialPointer
<1>5. ExactFor(memory, hooked["direct"], buffer)'
  BY <1>1, <1>4 DEF ExactFor, Byte, Mapped, DldVirtToPhys, MayDiffer
<1>6. SavedFor(memory, hooked["direct"])'
  BY <1>1, <1>4 DEF SavedFor, Byte, DldVirtToPhys
<1> QED
  BY <1>1, <1>2, <1>3, <1>5, <1>6 DEF ExactInv, BufferOK

LEMMA ExactMeans == ExactInv => MemoryExact
<1> SUFFICES ASSUME ExactInv, NEW a \in Addresses,
                    memory[DldVirtToPhys(a)] # InitialByte(a)
             PROVE  \/ Patched(a)
                    \/ /\ hooked["direct"] > 0
                       /\ \E i \in DOMAIN Hooked["direct"] :
                            WordOf(a) = OriginalAt("direct", i)
                    \/ /\ buffer # NoBuffer
                       /\ \E i \in DOMAIN Hooked["object"] :
                            WordOf(a) = OriginalAt("object", i)
                    \/ a \in buffer.at..buffer.at + buffer.size - 1
  BY DEF MemoryExact
<1>1. /\ Placed /\ pageTable \in PageTables /\ BufferOK(buffer)
      /\ "direct" \in Kinds /\ "object" \in Kinds
      /\ ExactFor(memory, hooked["direct"], buffer)
  BY DEF ExactInv, Placed, Kinds
<1>2. a \in Nat /\ Mapped(a)
  BY <1>1, MappedAddresses
<1>3. a \in MayDiffer(hooked["direct"], buffer)
  BY <1>1, <1>2 DEF ExactFor, Byte
<1>4. ASSUME NEW k \in Kinds, a \in OriginalBytes(k, Hooks(k))
      PROVE  \E i \in DOMAIN Hooked[k] : WordOf(a) = OriginalAt(k, i)
  <2>1. PICK i \in InfoOf(k) : a \in BytesOf(OriginalAt(k, i), WordSize)
    BY <1>4 DEF OriginalBytes, Hooks, InfoOf
  <2>2. i \in DOMAIN Hooked[k] /\ Aligned(OriginalAt(k, i))
    BY <1>1, EntryPlaces
  <2> QED
    BY <2>1, <2>2, ByteInWord
<1>5. ASSUME a \in SlotBytes("direct", VtableAt, Hooks("direct"))
      PROVE  \E i \in DOMAIN Hooked["direct"] :
               WordOf(a) = VtableAt + (Hooked["direct"][i] - 1) * WordSize
  <2>1. PICK i \in InfoOf("direct") :
          a \in BytesOf(SlotAt(VtableAt, Hooked["direct"][i]), WordSize)
    BY <1>5 DEF SlotBytes, Hooks, InfoOf
  <2>2. /\ i \in DOMAIN Hooked["direct"]
        /\ Aligned(SlotAt(VtableAt, Hooked["direct"][i]))
    BY <1>1, EntryPlaces, VtablePlaced DEF PlacedFor
  <2>3. WordOf(a) = SlotAt(VtableAt, Hooked["direct"][i])
    BY <2>1, <2>2, ByteInWord
  <2> QED
    BY <2>2, <2>3 DEF SlotAt
<1>6. ASSUME buffer # NoBuffer, a \in BytesOf(HeapAt, buffer.size)
      PROVE  a \in buffer.at..buffer.at + buffer.size - 1
  <2>1. buffer.at = HeapAt /\ buffer.size \in Nat
    BY <1>1, <1>6 DEF BufferOK
  <2>2. HeapAt \in Nat
    BY MemoryAssumption
  <2>3. a \in HeapAt..HeapAt + buffer.size - 1
    BY <1>2, <1>6, <2>1, <2>2 DEF BytesOf
  <2> QED
    BY <2>1, <2>3
<1> QED
  BY <1>1, <1>3, <1>4, <1>5, <1>6 DEF MayDiffer, Patched

\* Hooking changes the hooked functions of the vtable, the entries that save
\* them and the buffer that is allocated for the private vtable, no other byte
\* of memory, and when no object of the class has a direct hook any more its
\* vtable is what it was, byte for byte (DldHookVtableFunctions,
\* DldUnHookVtableFunctions, HookObjectIntWoLock, UnHookObjectIntWoLock).
THEOREM MemoryStaysExact == MemorySpec => []MemoryExact
<1>1. MemorySpec => []ExactInv
  BY ExactInit, ExactPreserved, PTL DEF MemorySpec
<1> QED
  BY <1>1, ExactMeans, PTL

-----------------------------------------------------------------------------
(***************************************************************************)
(* What memory has in it.                                                  *)
(***************************************************************************)

LEMMA InitialFunction ==
  ASSUME Placed, NEW n \in 1..functions
  PROVE  InitialPointer(SlotAt(VtableAt, n)) = <<"function", n>>
<1> DEFINE x == SlotAt(VtableAt, n)
           u == (x - VtableAt) \div WordSize
           v == (x - VtableAt) % WordSize
<1>1. /\ WordSize \in Nat \ {0} /\ VtableAt \in Nat /\ functions \in Nat
  BY MemoryAssumption DEF Placed
<1>2. x = VtableAt + (n - 1) * WordSize /\ n - 1 \in Nat /\ (n - 1) * WordSize \in Nat
  BY <1>1 DEF SlotAt
<1>3. x - VtableAt = (n - 1) * WordSize + 0 /\ x >= VtableAt /\ x - VtableAt \in Nat
  BY <1>1, <1>2
<1>4. u \in Nat /\ v \in 0..WordSize - 1 /\ x - VtableAt = u * WordSize + v
  <2> HIDE DEF x
  <2> QED
    BY <1>1, <1>3, DivMod
<1> HIDE DEF x, u, v
<1>5. u = n - 1
  <2>1. 0 \in 0..WordSize - 1
    BY <1>1
  <2> QED
    BY <1>1, <1>2, <1>3, <1>4, <2>1, DivModUnique
<1>6. u < functions /\ u + 1 = n
  BY <1>1, <1>5
<1> QED
  BY <1>3, <1>6 DEF InitialPointer, u, x

LEMMA InitialZero ==
  ASSUME Placed
  PROVE  /\ Aligned(ZeroAt) /\ ZeroAt + WordSize <= HeapAt
         /\ InitialPointer(ZeroAt) = Null
<1>1. /\ WordSize \in Nat \ {0} /\ VtableAt \in Nat /\ functions \in Nat
      /\ VtableAt % WordSize = 0
  BY MemoryAssumption DEF Placed
<1>2. Aligned(ZeroAt)
  <2>1. Aligned(VtableAt)
    BY <1>1, AlignedIf
  <2> QED
    BY <1>1, <2>1, AlignedPlus DEF ZeroAt
<1>3. ZeroAt + WordSize <= HeapAt
  BY CopyLayout DEF Placed, ZeroAt
<1>4. ZeroAt \in Nat
  BY <1>1, <1>2 DEF Aligned
<1>5. ~(ZeroAt >= VtableAt /\ (ZeroAt - VtableAt) \div WordSize < functions)
  BY <1>4, NoFunction
<1>6. ASSUME NEW k \in Kinds
      PROVE  ZeroAt \notin {HookingAt(k, i) : i \in DOMAIN Hooked[k]}
  <2>1. \A i \in DOMAIN Hooked[k] : i \in InfoOf(k)
    BY MemoryAssumption DEF InfoOf
  <2> QED
    BY <2>1, EntryBehind
<1>7. InitialPointer(ZeroAt) = Null
  BY <1>5, <1>6 DEF InitialPointer, Kinds
<1> QED
  BY <1>2, <1>3, <1>7

LEMMA InitialHook ==
  ASSUME Placed, NEW k \in Kinds, NEW i \in InfoOf(k)
  PROVE  InitialPointer(HookingAt(k, i)) = Hook(k, i)
<1> DEFINE x == HookingAt(k, i)
           two == 2 * WordSize
           y == x - InfoAt[k]
           u == y \div two
           v == y % two
<1>1. /\ WordSize \in Nat \ {0} /\ InfoAt[k] \in Nat /\ two \in Nat \ {0}
      /\ pageTable \in PageTables /\ i \in Nat /\ i - 1 \in Nat
  BY MemoryAssumption, MemoryLayout DEF Placed, InfoOf
<1>2. x = InfoAt[k] + (i - 1) * two + WordSize /\ (i - 1) * two \in Nat
  <2>1. (i - 1) * 2 * WordSize = (i - 1) * two
    BY <1>1
  <2> QED
    BY <1>1, <2>1 DEF HookingAt, OriginalAt
<1>3. y = (i - 1) * two + WordSize /\ y \in Nat /\ WordSize \in 0..two - 1
  BY <1>1, <1>2
<1>4. u \in Nat /\ v \in 0..two - 1 /\ y = u * two + v
  <2> HIDE DEF y, two
  <2> QED
    BY <1>1, <1>3, DivMod
<1>5. ~(x >= VtableAt /\ (x - VtableAt) \div WordSize < functions)
  <2>1. x \in Nat /\ (x >= ZeroAt \/ x + WordSize <= VtableAt)
    BY EntryBehind
  <2> HIDE DEF x
  <2> QED
    BY <2>1, NoFunction
<1>6. \A l \in Kinds : x \in {HookingAt(l, j) : j \in DOMAIN Hooked[l]} <=> l = k
  <2>1. i \in DOMAIN Hooked[k]
    BY <1>1, EntryPlaces
  <2>2. x \in Entries(k)
    BY EntryBehind
  <2>3. ASSUME NEW l \in Kinds, l # k, NEW j \in DOMAIN Hooked[l]
        PROVE  x # HookingAt(l, j)
    <3>1. HookingAt(l, j) \in Entries(l)
      BY <2>3 DEF Entries
    <3>2. Entries(l) \cap Entries(k) = {}
      BY <2>3, MemoryLayout DEF Kinds
    <3> QED
      BY <2>2, <3>1, <3>2
  <2> HIDE DEF x
  <2> QED
    BY <2>1, <2>3 DEF x
<1>7. u + 1 = i
  <2> HIDE DEF u, v, y, two
  <2>1. u = i - 1
    BY <1>1, <1>3, <1>4, DivModUnique
  <2> QED
    BY <1>1, <2>1
<1>8. (x - InfoAt[k]) \div (2 * WordSize) + 1 = i
  BY <1>7
<1> HIDE DEF x
<1> QED
  BY <1>5, <1>6, <1>8 DEF InitialPointer, Kinds, x

\* The bytes of a hooking function's pointer are never written.
LEMMA HookingBytes ==
  ASSUME Placed, NEW k \in Kinds, NEW i \in InfoOf(k),
         NEW a \in BytesOf(HookingAt(k, i), WordSize)
  PROVE  /\ a \in Nat /\ Mapped(a) /\ a < HeapAt
         /\ \A l \in Kinds : /\ a \notin OriginalBytes(l, Hooks(l))
                             /\ a \notin SlotBytes(l, VtableAt, Hooks(l))
         /\ InitialByte(a) = PointerBytes(Hook(k, i))[a - HookingAt(k, i)]
<1> DEFINE x == HookingAt(k, i)
<1>1. pageTable \in PageTables
  BY DEF Placed
<1>2. Aligned(x) /\ Mapped(x) /\ x + WordSize <= HeapAt
  BY <1>1, EntryPlaces
<1>3. ASSUME NEW l \in Kinds, NEW j \in InfoOf(l)
      PROVE  /\ a \notin BytesOf(OriginalAt(l, j), WordSize)
             /\ a \notin BytesOf(SlotAt(VtableAt, Hooked[l][j]), WordSize)
  <2>1. Aligned(OriginalAt(l, j)) /\ OriginalAt(l, j) # x
    BY <1>1, EntryPlaces, EntriesApart
  <2>2. Aligned(SlotAt(VtableAt, Hooked[l][j])) /\ SlotAt(VtableAt, Hooked[l][j]) # x
    <3>1. Hooked[l][j] \in 1..functions
      <4>1. functions \in Nat /\ Parent <= functions /\ Parent \in Nat
        BY MemoryAssumption DEF Placed
      <4> QED
        BY <1>1, <4>1, EntryPlaces
    <3> QED
      BY <1>1, <3>1, SlotPlaces DEF Placed
  <2> HIDE DEF x
  <2>3. a \in BytesOf(x, WordSize)
    BY DEF x
  <2> QED
    BY <1>2, <2>1, <2>2, <2>3, WordsApart
<1>4. a \in Nat /\ Mapped(a)
  BY <1>1, <1>2, WordInPage DEF BytesOf
<1>5. a < HeapAt /\ InitialByte(a) = PointerBytes(InitialPointer(x))[a - x]
  BY <1>2, InitialWord
<1>6. InitialPointer(x) = Hook(k, i)
  BY InitialHook
<1> QED
  BY <1>3, <1>4, <1>5, <1>6 DEF OriginalBytes, SlotBytes, Hooks, InfoOf

\* The word at x is the pointer f.
Holds(m, x, f) ==
  \A a \in BytesOf(x, WordSize) : Byte(m, a) = PointerBytes(f)[a - x]

LEMMA HookingHolds ==
  ASSUME Placed, NEW m, NEW n, NEW b, ExactFor(m, n, b),
         NEW k \in Kinds, NEW i \in InfoOf(k)
  PROVE  Holds(m, HookingAt(k, i), Hook(k, i))
<1> SUFFICES ASSUME NEW a \in BytesOf(HookingAt(k, i), WordSize)
             PROVE  Byte(m, a) = PointerBytes(Hook(k, i))[a - HookingAt(k, i)]
  BY DEF Holds
<1>1. /\ a \in Nat /\ Mapped(a) /\ a < HeapAt
      /\ \A l \in Kinds : /\ a \notin OriginalBytes(l, Hooks(l))
                          /\ a \notin SlotBytes(l, VtableAt, Hooks(l))
      /\ InitialByte(a) = PointerBytes(Hook(k, i))[a - HookingAt(k, i)]
  BY HookingBytes
<1>2. a \notin BytesOf(HeapAt, b.size)
  <2>1. HeapAt \in Nat
    BY MemoryAssumption
  <2> QED
    BY <1>1, <2>1 DEF BytesOf
<1>3. a \notin MayDiffer(n, b)
  BY <1>1, <1>2 DEF MayDiffer, Kinds
<1> QED
  BY <1>1, <1>3 DEF ExactFor

\* A pointer is copied as it is.
LEMMA HoldsCopied ==
  ASSUME NEW m, NEW w, NEW x, NEW y, NEW f, Aligned(x), Aligned(y),
         WordFrom(w, x, m, y), Holds(m, y, f)
  PROVE  Holds(w, x, f)
<1>1. WordSize \in Nat \ {0} /\ x \in Nat /\ y \in Nat
  BY MemoryAssumption DEF Aligned
<1> SUFFICES ASSUME NEW a \in BytesOf(x, WordSize)
             PROVE  Byte(w, a) = PointerBytes(f)[a - x]
  BY DEF Holds
<1> DEFINE c == y + (a - x)
<1>2. c \in BytesOf(y, WordSize) /\ c - y = a - x
  BY <1>1 DEF BytesOf
<1>3. Byte(w, a) = Byte(m, c)
  BY DEF WordFrom
<1> HIDE DEF c
<1> QED
  BY <1>2, <1>3 DEF Holds

\* While the vtable is hooked, its hooked functions are the hooks.
SlotsHooked(m, n) ==
  n > 0 => \A i \in InfoOf("direct") :
             Holds(m, SlotAt(VtableAt, Hooked["direct"][i]), Hook("direct", i))

LEMMA SlotsKept ==
  ASSUME Placed, NEW m, NEW w, NEW n, SlotsHooked(m, n), NEW z,
         Outside(w, m, OriginalBytes("object", Hooks("object")) \cup
                       BytesOf(HeapAt, z))
  PROVE  SlotsHooked(w, n)
<1> DEFINE R == OriginalBytes("object", Hooks("object")) \cup BytesOf(HeapAt, z)
           s(i) == SlotAt(VtableAt, Hooked["direct"][i])
<1>1. ASSUME NEW i \in InfoOf("direct"), NEW a \in BytesOf(s(i), WordSize)
      PROVE  Byte(w, a) = Byte(m, a)
  <2>1. a \in Nat /\ Mapped(a) /\ a < HeapAt
    BY <1>1, SlotBytesMapped DEF Kinds
  <2>2. a \notin OriginalBytes("object", Hooks("object"))
    BY <1>1, SlotsNoOriginals DEF Kinds
  <2>3. a \notin BytesOf(HeapAt, z)
    <3>1. HeapAt \in Nat
      BY MemoryAssumption
    <3> QED
      BY <2>1, <3>1 DEF BytesOf
  <2>4. a \notin R
    BY <2>2, <2>3
  <2> HIDE DEF R
  <2> QED
    BY <2>1, <2>4 DEF Outside, R
<1> QED
  BY <1>1 DEF SlotsHooked, Holds

\* The first hooks are in the vtable then.
LEMMA HookVtableSlots ==
  ASSUME Placed, NEW m, Whole(m), NEW b, ExactFor(m, 0, b), NEW n,
         NEW w, w = DldHookVtableFunctions(m, "direct", VtableAt, VtableAt)
  PROVE  SlotsHooked(w, n)
<1> DEFINE k == "direct"
           s(i) == SlotAt(VtableAt, Hooked[k][i])
<1>1. k \in Kinds /\ pageTable \in PageTables
  BY DEF Kinds, Placed
<1>2. /\ PlacedFor(k, VtableAt)
      /\ \A i \in InfoOf(k) : Mapped(s(i))
      /\ \A i, j \in InfoOf(k) : j # i => s(i) # s(j)
  BY <1>1, VtablePlaced
<1>3. \A i \in InfoOf(k) : WordFrom(w, s(i), m, HookingAt(k, i))
  <2>1. \A i, j \in InfoOf(k) : j < i => s(i) # s(j)
    <3>1. \A i \in InfoOf(k) : i \in Int
      BY DEF InfoOf
    <3> HIDE DEF s
    <3> QED
      BY <1>2, <3>1
  <2> QED
    BY <1>1, <1>2, <2>1, TableHooked
<1>4. ASSUME NEW i \in InfoOf(k) PROVE Holds(w, s(i), Hook(k, i))
  <2>1. Holds(m, HookingAt(k, i), Hook(k, i))
    BY <1>1, HookingHolds
  <2>2. Aligned(s(i)) /\ Aligned(HookingAt(k, i))
    BY <1>1, <1>2, EntryPlaces DEF PlacedFor
  <2> HIDE DEF s
  <2> QED
    BY <1>3, <2>1, <2>2, HoldsCopied
<1> QED
  BY <1>4 DEF SlotsHooked

HooksInv == ExactInv /\ SlotsHooked(memory, hooked["direct"])

LEMMA HooksStep ==
  ASSUME HooksInv, [MemoryNext]_memoryVars
  PROVE  SlotsHooked(memory', hooked'["direct"])
<1> DEFINE n == hooked["direct"]
           o == hooked["object"]
           n1 == hooked'["direct"]
           Goal == SlotsHooked(memory', n1)
<1>1. /\ Placed /\ Whole(memory) /\ BufferOK(buffer)
      /\ hooked \in [Kinds -> Nat] /\ n \in Nat /\ o \in Nat
      /\ "direct" \in Kinds /\ "object" \in Kinds
      /\ ExactFor(memory, n, buffer) /\ SavedFor(memory, n)
      /\ SlotsHooked(memory, n)
  BY DEF HooksInv, ExactInv, Kinds
<1> SUFFICES Goal
  OBVIOUS
<1>2. CASE HookVtable
  <2>1. n1 = n + 1
    BY <1>1, <1>2 DEF HookVtable
  <2>2. CASE n = 0
    <3>1. memory' = DldHookVtableFunctions(memory, "direct", VtableAt, VtableAt)
      BY <1>2, <2>2 DEF HookVtable
    <3> QED
      BY <1>1, <2>2, <3>1, HookVtableSlots
  <2>3. CASE n # 0
    <3>1. memory' = memory
      BY <1>2, <2>3 DEF HookVtable
    <3> QED
      BY <1>1, <2>1, <2>3, <3>1 DEF SlotsHooked
  <2> QED
    BY <2>2, <2>3
<1>3. CASE UnHookVtable
  <2>1. n1 = n - 1 /\ n > 0
    BY <1>1, <1>3 DEF UnHookVtable
  <2>2. CASE n = 1
    BY <2>1, <2>2 DEF SlotsHooked
  <2>3. CASE n # 1
    <3>1. memory' = memory
      BY <1>3, <2>3 DEF UnHookVtable
    <3> QED
      BY <1>1, <2>1, <2>3, <3>1 DEF SlotsHooked
  <2> QED
    BY <2>2, <2>3
<1>4. CASE CopyAndHook
  <2>1. n1 = n
    BY <1>1, <1>4 DEF CopyAndHook
  <2>2. memory' = DldHookVtableFunctions(
                    CopyVtable(memory, NewVtableAt, CopySize),
                    "object", VtableAt, NewVtableAt)
    BY <1>4 DEF CopyAndHook
  <2>3. Outside(memory', memory, OriginalBytes("object", Hooks("object")) \cup
                                 BytesOf(HeapAt, BufferSize))
    BY <1>1, <2>2, CopyHooked
  <2> QED
    BY <1>1, <2>1, <2>3, SlotsKept
<1>5. CASE UnHookObject
  <2>1. n1 = n
    BY <1>1, <1>5 DEF UnHookObject
  <2>2. CASE o = 1
    <3>1. memory' = Forget(Lost(memory, buffer.at, buffer.size), "object")
      BY <1>5, <2>2 DEF UnHookObject
    <3>2. Outside(memory', memory,
                  OriginalBytes("object", Hooks("object")) \cup
                    BytesOf(HeapAt, buffer.size))
      BY <1>1, <3>1, UnHookObjectExact
    <3> QED
      BY <1>1, <2>1, <3>2, SlotsKept
  <2>3. CASE o # 1
    BY <1>1, <1>5, <2>1, <2>3 DEF UnHookObject
  <2> QED
    BY <2>2, <2>3
<1>6. CASE ScanFaults \/ HookObjectRefused \/ HookObject \/ UNCHANGED memoryVars
  <2>1. n1 = n /\ memory' = memory
    BY <1>1, <1>6 DEF ScanFaults, HookObjectRefused, HookObject, memoryVars
  <2> QED
    BY <1>1, <2>1
<1> HIDE DEF Goal
<1> QED
  BY <1>2, <1>3, <1>4, <1>5, <1>6 DEF MemoryNext

LEMMA HooksInit == MemoryInit => HooksInv
<1> SUFFICES ASSUME MemoryInit PROVE HooksInv
  OBVIOUS
<1>1. ExactInv
  BY ExactInit
<1>2. hooked["direct"] = 0
  BY DEF MemoryInit, Kinds
<1> QED
  BY <1>1, <1>2 DEF HooksInv, SlotsHooked

LEMMA HooksInvariant == MemorySpec => []HooksInv
<1>1. HooksInv /\ [MemoryNext]_memoryVars => HooksInv'
  <2> SUFFICES ASSUME HooksInv, [MemoryNext]_memoryVars PROVE HooksInv'
    OBVIOUS
  <2>1. ExactInv' /\ pageTable' = pageTable
    BY ExactPreserved, ExactStep DEF HooksInv
  <2>2. SlotsHooked(memory', hooked'["direct"])
    BY HooksStep
  <2>3. SlotsHooked(memory, hooked["direct"])'
    BY <2>1, <2>2 DEF SlotsHooked, Holds, Byte, DldVirtToPhys
  <2> QED
    BY <2>1, <2>3 DEF HooksInv
<1> QED
  BY <1>1, HooksInit, PTL DEF MemorySpec

-----------------------------------------------------------------------------
(***************************************************************************)
(* The scan for the end of the vtable finds the end of it.                 *)
(***************************************************************************)

LEMMA WordAt ==
  ASSUME NEW m, NEW x, Aligned(x), NEW f, Holds(m, x, f)
  PROVE  Word(m, x) = PointerBytes(f)
<1>1. WordSize \in Nat \ {0} /\ x \in Nat
  BY MemoryAssumption DEF Aligned
<1>2. \A i \in 0..WordSize - 1 : x + i \in BytesOf(x, WordSize) /\ (x + i) - x = i
  BY <1>1 DEF BytesOf
<1>3. \A i \in 0..WordSize - 1 : m[DldVirtToPhys(x + i)] = PointerBytes(f)[i]
  BY <1>2 DEF Holds, Byte
<1>4. PointerBytes(f) = [i \in 0..WordSize - 1 |-> PointerBytes(f)[i]]
  BY DEF PointerBytes
<1> QED
  BY <1>3, <1>4 DEF Word

LEMMA FunctionNotNull ==
  ASSUME NEW f \in FunctionPointers
  PROVE  PointerBytes(f) # PointerBytes(Null)
<1>1. 0 \in 0..WordSize - 1
  BY MemoryAssumption
<1>2. f # Null /\ <<f, 0>> # Null
  BY <1>1, NullIsNone
<1>3. PointerBytes(f)[0] = <<f, 0>> /\ PointerBytes(Null)[0] = Null
  BY <1>1, <1>2 DEF PointerBytes
<1> QED
  BY <1>2, <1>3

\* A word that is neither hooked nor saved is the initial one.
LEMMA UntouchedHolds ==
  ASSUME ExactInv, NEW x, Aligned(x), Mapped(x), x + WordSize <= HeapAt,
         \A k \in Kinds : \A i \in InfoOf(k) : x # OriginalAt(k, i),
         hooked["direct"] > 0 =>
           \A i \in InfoOf("direct") : x # SlotAt(VtableAt, Hooked["direct"][i])
  PROVE  Holds(memory, x, InitialPointer(x))
<1> SUFFICES ASSUME NEW a \in BytesOf(x, WordSize)
             PROVE  Byte(memory, a) = PointerBytes(InitialPointer(x))[a - x]
  BY DEF Holds
<1>1. /\ Placed /\ pageTable \in PageTables /\ HeapAt \in Nat
      /\ ExactFor(memory, hooked["direct"], buffer)
  BY MemoryAssumption DEF ExactInv, Placed
<1>2. a \in Nat /\ Mapped(a) /\ a < HeapAt
  BY <1>1, InitialWord, WordInPage DEF BytesOf
<1>3. ASSUME NEW k \in Kinds PROVE a \notin OriginalBytes(k, Hooks(k))
  <2> SUFFICES ASSUME NEW i \in InfoOf(k), a \in BytesOf(OriginalAt(k, i), WordSize)
               PROVE  FALSE
    BY DEF OriginalBytes, Hooks, InfoOf
  <2>1. Aligned(OriginalAt(k, i)) /\ OriginalAt(k, i) # x
    BY <1>1, EntryPlaces
  <2> QED
    BY <2>1, WordsApart
<1>4. ASSUME hooked["direct"] > 0
      PROVE  a \notin SlotBytes("direct", VtableAt, Hooks("direct"))
  <2> SUFFICES ASSUME NEW i \in InfoOf("direct"),
                      a \in BytesOf(SlotAt(VtableAt, Hooked["direct"][i]), WordSize)
               PROVE  FALSE
    BY DEF SlotBytes, Hooks, InfoOf
  <2>1. /\ Aligned(SlotAt(VtableAt, Hooked["direct"][i]))
        /\ SlotAt(VtableAt, Hooked["direct"][i]) # x
    BY <1>1, <1>4, VtablePlaced DEF PlacedFor, Kinds
  <2> QED
    BY <2>1, WordsApart
<1>5. a \notin BytesOf(HeapAt, buffer.size)
  BY <1>1, <1>2 DEF BytesOf
<1>6. a \notin MayDiffer(hooked["direct"], buffer)
  BY <1>3, <1>4, <1>5 DEF MayDiffer, Kinds
<1>7. Byte(memory, a) = InitialByte(a)
  BY <1>1, <1>2, <1>6 DEF ExactFor
<1> QED
  BY <1>7, InitialWord

\* Each function of the class is its own or a hook, the word behind it none.
LEMMA FunctionHeld ==
  ASSUME HooksInv, NEW n \in 1..functions
  PROVE  \E f \in FunctionPointers : Holds(memory, SlotAt(VtableAt, n), f)
<1> DEFINE x == SlotAt(VtableAt, n)
           d == hooked["direct"]
<1>1. /\ ExactInv /\ Placed /\ functions \in Functions /\ functions \in Nat
      /\ pageTable \in PageTables /\ SlotsHooked(memory, d) /\ "direct" \in Kinds
  BY MemoryAssumption DEF HooksInv, ExactInv, Placed, Kinds
<1>2. CASE d > 0 /\ \E i \in InfoOf("direct") : Hooked["direct"][i] = n
  <2>1. PICK i \in InfoOf("direct") : Hooked["direct"][i] = n
    BY <1>2
  <2>2. Holds(memory, x, Hook("direct", i))
    BY <1>1, <1>2, <2>1 DEF SlotsHooked
  <2>3. i \in DOMAIN Hooked["direct"]
    BY <1>1, EntryPlaces
  <2>4. Hook("direct", i) \in FunctionPointers
    BY <1>1, <2>3 DEF FunctionPointers
  <2> HIDE DEF x
  <2> QED
    BY <2>2, <2>4 DEF x
<1>3. CASE ~(d > 0 /\ \E i \in InfoOf("direct") : Hooked["direct"][i] = n)
  <2>1. /\ Aligned(x) /\ x + WordSize <= HeapAt /\ Mapped(x)
        /\ \A k \in Kinds : \A i \in InfoOf(k) : x # OriginalAt(k, i)
        /\ \A n1 \in 1..functions : SlotAt(VtableAt, n1) = x => n1 = n
    BY <1>1, SlotPlaces DEF Placed
  <2>2. ASSUME d > 0, NEW i \in InfoOf("direct")
        PROVE  x # SlotAt(VtableAt, Hooked["direct"][i])
    <3>1. Hooked["direct"][i] \in 1..Parent
      BY <1>1, EntryPlaces
    <3>2. Hooked["direct"][i] \in 1..functions
      <4>1. Parent \in Nat /\ Parent <= functions
        BY <1>1, MemoryAssumption
      <4> QED
        BY <1>1, <3>1, <4>1
    <3> HIDE DEF x
    <3> QED
      BY <1>3, <2>1, <2>2, <3>2
  <2>3. InitialPointer(x) = <<"function", n>>
    BY <1>1, InitialFunction
  <2>4. Holds(memory, x, InitialPointer(x))
    <3> HIDE DEF x
    <3> QED
      BY <1>1, <2>1, <2>2, UntouchedHolds
  <2>5. <<"function", n>> \in FunctionPointers
    BY <1>1 DEF FunctionPointers
  <2> HIDE DEF x
  <2> QED
    BY <2>3, <2>4, <2>5 DEF x
<1> QED
  BY <1>2, <1>3

LEMMA ZeroHeld ==
  ASSUME HooksInv, Mapped(ZeroAt)
  PROVE  Word(memory, ZeroAt) = PointerBytes(Null)
<1>1. ExactInv /\ Placed /\ "direct" \in Kinds
  BY DEF HooksInv, ExactInv, Kinds
<1>2. /\ Aligned(ZeroAt) /\ ZeroAt + WordSize <= HeapAt
      /\ InitialPointer(ZeroAt) = Null
  BY <1>1, InitialZero
<1>3. \A k \in Kinds : \A i \in InfoOf(k) : ZeroAt # OriginalAt(k, i)
  BY <1>1, EntryBehind
<1>4. ASSUME NEW i \in InfoOf("direct")
      PROVE  ZeroAt # SlotAt(VtableAt, Hooked["direct"][i])
  <2> DEFINE n == Hooked["direct"][i]
  <2>1. /\ n \in Nat /\ n <= functions /\ functions \in Nat
        /\ WordSize \in Nat \ {0} /\ VtableAt \in Nat
    <3>1. /\ Parent \in Nat /\ Parent <= functions /\ functions \in Nat
          /\ WordSize \in Nat \ {0} /\ VtableAt \in Nat
          /\ pageTable \in PageTables
      BY <1>1, MemoryAssumption DEF Placed
    <3>2. n \in 1..Parent
      BY <1>1, <3>1, EntryPlaces
    <3> HIDE DEF n
    <3> QED
      BY <3>1, <3>2
  <2> HIDE DEF n
  <2>2. PICK e \in Nat : functions = n - 1 + (e + 1)
    <3>1. functions - n \in Nat /\ functions = n - 1 + ((functions - n) + 1)
      BY <2>1
    <3> QED
      BY <3>1
  <2>3. functions * WordSize = (n - 1) * WordSize + e * WordSize + WordSize
        /\ e * WordSize \in Nat
    BY <2>1, <2>2
  <2>4. ZeroAt # SlotAt(VtableAt, n)
    BY <2>1, <2>3 DEF ZeroAt, SlotAt
  <2> QED
    BY <2>4 DEF n
<1>5. Holds(memory, ZeroAt, Null)
  BY <1>1, <1>2, <1>3, <1>4, UntouchedHolds
<1> QED
  BY <1>2, <1>5, WordAt

\* All bytes of the functions are mapped.
LEMMA VtableMapped ==
  ASSUME Placed, NEW a \in Nat, VtableAt <= a, a < ZeroAt
  PROVE  Mapped(a)
<1> DEFINE y == a - VtableAt
           u == y \div WordSize
           v == y % WordSize
           x == SlotAt(VtableAt, u + 1)
<1>1. /\ WordSize \in Nat \ {0} /\ VtableAt \in Nat /\ functions \in Nat
      /\ pageTable \in PageTables
  BY MemoryAssumption DEF Placed
<1>2. y \in Nat /\ y < functions * WordSize /\ functions * WordSize \in Nat
  BY <1>1 DEF ZeroAt
<1>3. u \in Nat /\ v \in 0..WordSize - 1 /\ y = u * WordSize + v
  <2> HIDE DEF y
  <2> QED
    BY <1>1, <1>2, DivMod
<1> HIDE DEF u, v
<1>4. u < functions
  <2> SUFFICES ASSUME ~(u < functions) PROVE FALSE
    OBVIOUS
  <2>1. PICK e \in Nat : u = functions + e
    <3>1. u - functions \in Nat /\ u = functions + (u - functions)
      BY <1>1, <1>3
    <3> QED
      BY <3>1
  <2>2. u * WordSize = functions * WordSize + e * WordSize /\ e * WordSize \in Nat
    BY <1>1, <2>1
  <2> HIDE DEF y
  <2> QED
    BY <1>1, <1>2, <1>3, <2>2
<1>5. u + 1 \in 1..functions /\ x = VtableAt + u * WordSize /\ u * WordSize \in Nat
  BY <1>1, <1>3, <1>4 DEF SlotAt
<1>6. Aligned(x) /\ Mapped(x)
  BY <1>1, <1>5, SlotPlaces DEF Placed
<1>7. a \in BytesOf(x, WordSize)
  BY <1>1, <1>3, <1>5 DEF BytesOf
<1> HIDE DEF x
<1> QED
  BY <1>1, <1>6, <1>7, WordInPage

\* What the scan asks for before the end of the vtable is in the vtable.
LEMMA AskedInVtable ==
  ASSUME Placed, NEW j \in Nat, Parent + j <= functions + 1
  PROVE  AskedMapped(j)
<1> DEFINE W == WordSize
           F == functions
           a == VtableAt + Parent + j
<1>1. /\ W \in Nat \ {0} /\ VtableAt \in Nat /\ F \in Nat
      /\ Parent \in Nat \ {0} /\ Parent <= F /\ (Parent - 1) * (W - 1) >= 2
  BY MemoryAssumption, CopyLayout DEF Placed
<1> HIDE DEF W, F
<1>2. PICK e \in Nat : F = Parent + e
  <2>1. F - Parent \in Nat /\ F = Parent + (F - Parent)
    BY <1>1
  <2> QED
    BY <2>1
<1>3. F * W >= F + W + 1
  <2>1. (F - 1) * (W - 1) = (Parent - 1) * (W - 1) + e * (W - 1)
    BY <1>1, <1>2
  <2>2. e * (W - 1) >= 0 /\ e * (W - 1) \in Int /\ (Parent - 1) * (W - 1) \in Int
    BY <1>1
  <2>3. (F - 1) * (W - 1) >= 2
    BY <1>1, <2>1, <2>2
  <2>4. (F - 1) * (W - 1) = F * W - F - W + 1 /\ F * W \in Int
    BY <1>1
  <2> QED
    BY <1>1, <2>3, <2>4
<1>4. Parent + j <= F + 1 /\ F * W \in Nat /\ ZeroAt = VtableAt + F * W
  BY <1>1 DEF F, W, ZeroAt
<1>5. /\ a \in Nat /\ VtableAt <= a /\ a < ZeroAt
      /\ a + W - 1 \in Nat /\ VtableAt <= a + W - 1 /\ a + W - 1 < ZeroAt
  BY <1>1, <1>3, <1>4
<1> HIDE DEF a
<1>6. Mapped(a) /\ Mapped(a + W - 1)
  BY <1>5, VtableMapped
<1> QED
  BY <1>6 DEF AskedMapped, a, W

\* The scan passes the functions, and what it reads behind them is zero.
LEMMA ScanPasses ==
  ASSUME HooksInv, NEW j \in Nat, Parent + j <= functions
  PROVE  ~ReadsUnmapped(j) /\ (Continues(j) <=> j < MaxAdded)
<1> DEFINE n == Parent + j
<1>1. Placed /\ pageTable \in PageTables /\ functions \in Nat /\ Parent \in Nat \ {0}
  BY MemoryAssumption DEF HooksInv, ExactInv, Placed
<1>2. n \in 1..functions /\ EntryRead(j) = SlotAt(VtableAt, n)
  BY <1>1 DEF EntryRead, SlotAt
<1>3. AskedMapped(j)
  BY <1>1, AskedInVtable
<1>4. Mapped(SlotAt(VtableAt, n)) /\ Aligned(SlotAt(VtableAt, n))
  BY <1>1, <1>2, SlotPlaces DEF Placed
<1>5. PICK f \in FunctionPointers : Holds(memory, SlotAt(VtableAt, n), f)
  BY <1>2, FunctionHeld
<1> HIDE DEF n
<1>6. Word(memory, EntryRead(j)) # PointerBytes(Null)
  BY <1>2, <1>4, <1>5, WordAt, FunctionNotNull
<1> QED
  BY <1>2, <1>3, <1>4, <1>6 DEF ReadsUnmapped, Continues

LEMMA ScanStops ==
  ASSUME HooksInv, NEW j \in Nat, Parent + j = functions + 1
  PROVE  /\ ReadsUnmapped(j) <=> ~Mapped(ZeroAt)
         /\ Mapped(ZeroAt) => ~Continues(j)
<1>1. Placed /\ functions \in Nat /\ Parent \in Nat /\ VtableAt \in Nat
      /\ WordSize \in Nat
  BY MemoryAssumption DEF HooksInv, ExactInv, Placed
<1>2. EntryRead(j) = ZeroAt
  <2>1. Parent + j - 1 = functions
    BY <1>1
  <2> QED
    BY <2>1 DEF EntryRead, ZeroAt
<1>3. AskedMapped(j)
  BY <1>1, AskedInVtable
<1> QED
  BY <1>2, <1>3, ZeroHeld DEF ReadsUnmapped, Continues

LEMMA ScanFinds ==
  ASSUME HooksInv
  PROVE  /\ VirtualsAdded \in 0..MaxAdded
         /\ ReadsUnmapped(VirtualsAdded) => ~Mapped(ZeroAt)
         /\ ~ReadsUnmapped(VirtualsAdded) /\ VirtualsAdded < MaxAdded =>
              Mapped(ZeroAt) /\ Parent + VirtualsAdded = functions + 1
<1> DEFINE V == VirtualsAdded
           K == functions + 1 - Parent
<1>1. /\ functions \in Nat /\ Parent \in Nat \ {0} /\ Parent <= functions
      /\ MaxAdded \in Nat
  BY MemoryAssumption DEF HooksInv, ExactInv, Placed
<1>2. K \in Nat /\ Parent + K = functions + 1
  BY <1>1
<1>3. /\ V \in 0..MaxAdded
      /\ ReadsUnmapped(V) \/ ~Continues(V)
      /\ \A j \in 0..V - 1 : ~ReadsUnmapped(j) /\ Continues(j)
  BY ScanEnds
<1> HIDE DEF V, K
<1>4. (ReadsUnmapped(K) <=> ~Mapped(ZeroAt)) /\ (Mapped(ZeroAt) => ~Continues(K))
  BY <1>2, ScanStops
<1>5. ~(K < V)
  BY <1>1, <1>2, <1>3, <1>4
<1>6. ASSUME V < K PROVE ~ReadsUnmapped(V) /\ ~(V < MaxAdded)
  <2>1. V \in Nat /\ Parent + V <= functions
    BY <1>1, <1>2, <1>3, <1>6
  <2> QED
    BY <1>3, <2>1, ScanPasses
<1>7. V < K \/ V = K
  BY <1>1, <1>2, <1>3, <1>5
<1>8. /\ ReadsUnmapped(V) => ~Mapped(ZeroAt)
      /\ ~ReadsUnmapped(V) /\ V < MaxAdded =>
           Mapped(ZeroAt) /\ Parent + V = functions + 1
  BY <1>2, <1>4, <1>6, <1>7
<1> QED
  BY <1>3, <1>8 DEF V

-----------------------------------------------------------------------------
(***************************************************************************)
(* PrivateComplete.                                                        *)
(***************************************************************************)
LEMMA AlignedShift ==
  ASSUME NEW x, Aligned(x), NEW i \in Int, x + i * WordSize >= 0
  PROVE  Aligned(x + i * WordSize) /\ x + i * WordSize \in Nat
<1>1. WordSize \in Nat \ {0}
  BY MemoryAssumption
<1>2. PICK q \in Nat : x = q * WordSize
  BY DEF Aligned
<1>3. (q + i) * WordSize = x + i * WordSize /\ x + i * WordSize \in Nat
  BY <1>1, <1>2
<1>4. q + i >= 0
  <2> SUFFICES ASSUME ~(q + i >= 0) PROVE FALSE
    OBVIOUS
  <2>1. PICK e \in Nat : q + i = -1 - e
    <3>1. -1 - (q + i) \in Nat /\ q + i = -1 - (-1 - (q + i))
      BY <1>2
    <3> QED
      BY <3>1
  <2>2. (q + i) * WordSize = -WordSize - e * WordSize /\ e * WordSize \in Nat
    BY <1>1, <2>1
  <2> QED
    BY <1>1, <1>3, <2>2
<1> QED
  BY <1>2, <1>3, <1>4 DEF Aligned

LEMMA WordEqual ==
  ASSUME NEW m, NEW w, NEW x, NEW y, Aligned(x), Aligned(y), WordFrom(w, x, m, y)
  PROVE  Word(w, x) = Word(m, y)
<1>1. WordSize \in Nat \ {0} /\ x \in Nat /\ y \in Nat
  BY MemoryAssumption DEF Aligned
<1>2. \A i \in 0..WordSize - 1 :
        x + i \in BytesOf(x, WordSize) /\ y + ((x + i) - x) = y + i
  BY <1>1 DEF BytesOf
<1>3. \A i \in 0..WordSize - 1 : m[DldVirtToPhys(y + i)] = w[DldVirtToPhys(x + i)]
  BY <1>2 DEF WordFrom, Byte
<1> QED
  BY <1>3 DEF Word

\* The words that are copied, at both ends: i = -2 is the first of the header,
\* i = functions the zero entry.
LEMMA CopyWords ==
  ASSUME Placed, Mapped(ZeroAt), Parent + VirtualsAdded = functions + 1,
         NEW i \in -2..functions
  PROVE  LET x == NewVtableAt + i * WordSize
             y == VtableAt + i * WordSize
         IN /\ Aligned(x) /\ x >= HeapAt /\ Mapped(x)
            /\ BytesOf(x, WordSize) \subseteq
                 BytesOf(NewVtableAt - 2 * WordSize, 2 * WordSize + CopySize)
            /\ Aligned(y) /\ y + WordSize <= HeapAt /\ Mapped(y)
<1> DEFINE W == WordSize
           x == NewVtableAt + i * W
           y == VtableAt + i * W
           pad == Padding * W
<1>1. /\ W \in Nat \ {0} /\ HeapAt \in Nat /\ VtableAt \in Nat
      /\ VtableAt >= 2 * W /\ functions \in Nat /\ i \in Int
      /\ pad \in Nat /\ pad >= 2 * W /\ NewVtableAt = HeapAt + pad
      /\ pageTable \in PageTables /\ Parent \in Nat /\ VirtualsAdded \in Nat
      /\ HeapAt % W = 0 /\ VtableAt % W = 0 /\ Padding \in Nat
      /\ MaxAdded \in Nat /\ VirtualsAdded <= MaxAdded
  BY MemoryAssumption, CopyLayout, Sizes, ScanEnds DEF Placed, NewVtableAt
<1> HIDE DEF W, pad
<1>2. CopySize = functions * W + W /\ functions * W \in Nat
  <2>1. CopySize = (functions + 1) * W
    BY Sizes DEF W
  <2> QED
    BY <1>1, <2>1
<1>3. /\ i * W \in Int /\ i * W >= -(2 * W) /\ i * W <= functions * W
  <2>1. PICK d \in Nat : i = d - 2
    <3>1. i + 2 \in Nat /\ i = (i + 2) - 2
      BY <1>1
    <3> QED
      BY <3>1
  <2>2. PICK e \in Nat : functions = i + e
    <3>1. functions - i \in Nat /\ functions = i + (functions - i)
      BY <1>1
    <3> QED
      BY <3>1
  <2>3. i * W = d * W - 2 * W /\ d * W \in Nat
    BY <1>1, <2>1
  <2>4. functions * W = i * W + e * W /\ e * W \in Nat
    BY <1>1, <2>2
  <2> QED
    BY <1>1, <1>2, <2>3, <2>4
<1>4. Aligned(x) /\ x \in Nat
  <2>1. Aligned(HeapAt)
    BY <1>1, AlignedIf DEF W
  <2>2. Aligned(NewVtableAt) /\ NewVtableAt + i * W >= 0
    BY <1>1, <1>3, <2>1, AlignedPlus DEF W, pad
  <2> QED
    BY <1>1, <2>2, AlignedShift DEF W
<1>5. Aligned(y) /\ y \in Nat
  <2>1. Aligned(VtableAt) /\ VtableAt + i * W >= 0
    BY <1>1, <1>3, AlignedIf DEF W
  <2> QED
    BY <1>1, <2>1, AlignedShift DEF W
<1>6. x >= HeapAt /\ x + W <= HeapAt + pad + functions * W + W
  BY <1>1, <1>3
<1>7. Mapped(x)
  <2> DEFINE top == (Parent + MaxAdded + 2 * Padding) * W
  <2>1. top \in Nat /\ top >= pad + functions * W + W
    <3>1. PICK e \in Nat : Parent + MaxAdded = functions + 1 + e
      <4>1. MaxAdded - VirtualsAdded \in Nat
            /\ Parent + MaxAdded = functions + 1 + (MaxAdded - VirtualsAdded)
        BY <1>1
      <4> QED
        BY <4>1
    <3>2. Parent + MaxAdded + 2 * Padding = functions + 1 + e + Padding + Padding
      BY <1>1, <3>1
    <3>3. top = functions * W + W + e * W + pad + pad /\ e * W \in Nat
      BY <1>1, <3>1, <3>2 DEF pad
    <3> QED
      BY <1>1, <1>2, <3>3
  <2>2. top = (Parent + MaxAdded + 2 * Padding) * WordSize
    BY DEF W
  <2> HIDE DEF top, x
  <2>3. x \in HeapAt..HeapAt + top - 1
    BY <1>1, <1>2, <1>4, <1>6, <2>1
  <2>4. x \div PageSize \in DOMAIN pageTable /\ pageTable[x \div PageSize] # 0
    BY <1>1, <2>2, <2>3, CopyLayout
  <2> QED
    BY <1>1, <1>4, <2>4, MappedByTable
<1>8. BytesOf(x, W) \subseteq BytesOf(NewVtableAt - 2 * W, 2 * W + CopySize)
  BY <1>1, <1>2, <1>3, <1>4 DEF BytesOf
<1>9. y + W <= HeapAt
  <2>1. VtableAt + functions * W + W <= HeapAt
    BY CopyLayout DEF Placed, W
  <2> QED
    BY <1>1, <1>2, <1>3, <2>1
<1>10. Mapped(y)
  <2>1. CASE y < VtableAt
    <3>1. y \in VtableAt - 2 * WordSize..VtableAt - 1
      BY <1>1, <1>3, <1>5, <2>1 DEF W
    <3> HIDE DEF y
    <3>2. y \div PageSize \in DOMAIN pageTable /\ pageTable[y \div PageSize] # 0
      BY <1>1, <3>1, CopyLayout
    <3> QED
      BY <1>1, <1>5, <3>2, MappedByTable
  <2>2. CASE VtableAt <= y /\ y < ZeroAt
    <3> HIDE DEF y
    <3> QED
      BY <1>5, <2>2, VtableMapped
  <2>3. CASE y >= ZeroAt
    <3>1. y = ZeroAt
      BY <1>1, <1>2, <1>3, <2>3 DEF ZeroAt, W
    <3> QED
      BY <3>1
  <2>4. ZeroAt \in Nat
    BY <1>1, <1>2 DEF ZeroAt, W
  <2> QED
    BY <1>1, <1>5, <2>1, <2>2, <2>3, <2>4
<1> QED
  BY <1>4, <1>6, <1>7, <1>8, <1>5, <1>9, <1>10 DEF W

\* What the private vtable has when it is made.
LEMMA CopyMade ==
  ASSUME HooksInv, Mapped(ZeroAt), Parent + VirtualsAdded = functions + 1,
         NEW w,
         w = DldHookVtableFunctions(CopyVtable(memory, NewVtableAt, CopySize),
                                    "object", VtableAt, NewVtableAt)
  PROVE  /\ \A i \in -2..functions :
              Word(w, NewVtableAt + i * WordSize) \in
                IF HookOfEntry(i + 1) = {}
                THEN {Word(memory, VtableAt + i * WordSize)}
                ELSE {PointerBytes(f) : f \in HookOfEntry(i + 1)}
         /\ \A i \in DOMAIN Hooked["object"] :
              Word(w, OriginalAt("object", i)) =
                Word(memory, VtableAt + (Hooked["object"][i] - 1) * WordSize)
<1> DEFINE k == "object"
           d(j) == SlotAt(NewVtableAt, Hooked[k][j])
           s(j) == SlotAt(VtableAt, Hooked[k][j])
           v == CopyVtable(memory, NewVtableAt, CopySize)
           O == OriginalBytes(k, Hooks(k))
           D == SlotBytes(k, NewVtableAt, Hooks(k))
           B == BytesOf(HeapAt, BufferSize)
<1>1. /\ Placed /\ Whole(memory) /\ pageTable \in PageTables /\ k \in Kinds
      /\ ExactFor(memory, hooked["direct"], buffer) /\ HeapAt \in Nat
      /\ WordSize \in Nat \ {0}
  BY MemoryAssumption DEF HooksInv, ExactInv, Placed, Kinds
<1>2. /\ Whole(v) /\ Outside(v, memory, B)
      /\ Outside(w, v, O \cup D)
      /\ \A j \in InfoOf(k) :
           /\ WordFrom(w, OriginalAt(k, j), v, s(j))
           /\ Mapped(d(j)) => WordFrom(w, d(j), v, HookingAt(k, j))
  BY <1>1, CopyHooked
<1>3. \A a \in BytesOf(NewVtableAt - 2 * WordSize, 2 * WordSize + CopySize) :
        LET from == VtableAt + (a - NewVtableAt) IN
        Mapped(a) /\ Mapped(from) /\ from < HeapAt =>
          Byte(v, a) = Byte(memory, from)
  BY <1>1, CopyInBuffer
<1> HIDE DEF v
<1>4. ASSUME NEW i \in -2..functions
      PROVE  Word(w, NewVtableAt + i * WordSize) \in
               IF HookOfEntry(i + 1) = {}
               THEN {Word(memory, VtableAt + i * WordSize)}
               ELSE {PointerBytes(f) : f \in HookOfEntry(i + 1)}
  <2> DEFINE x == NewVtableAt + i * WordSize
             y == VtableAt + i * WordSize
  <2>1. /\ Aligned(x) /\ x >= HeapAt /\ Mapped(x)
        /\ BytesOf(x, WordSize) \subseteq
             BytesOf(NewVtableAt - 2 * WordSize, 2 * WordSize + CopySize)
        /\ Aligned(y) /\ y + WordSize <= HeapAt /\ Mapped(y)
    BY <1>1, CopyWords
  <2>2. /\ i \in Int /\ x \in Nat /\ y \in Nat /\ NewVtableAt \in Int
        /\ VtableAt \in Int /\ i * WordSize \in Int
    <3>1. functions \in Nat /\ VtableAt \in Nat /\ NewVtableAt \in Nat
      BY <1>1, MemoryAssumption, Sizes DEF Placed, NewVtableAt
    <3>2. x \in Nat /\ y \in Nat
      <4> HIDE DEF x, y
      <4> QED
        BY <1>1, <2>1 DEF Aligned
    <3> QED
      BY <1>1, <3>1, <3>2
  <2>3. x = SlotAt(NewVtableAt, i + 1)
    BY <2>2 DEF SlotAt
  <2>4. CASE HookOfEntry(i + 1) = {}
    <3>1. WordFrom(v, x, memory, y)
      <4> SUFFICES ASSUME NEW a \in BytesOf(x, WordSize)
                   PROVE  Byte(v, a) = Byte(memory, y + (a - x))
        BY DEF WordFrom
      <4> DEFINE c == y + (a - x)
      <4>1. a \in Nat /\ c = VtableAt + (a - NewVtableAt)
        BY <2>2 DEF BytesOf
      <4>2. c \in BytesOf(y, WordSize) /\ c < HeapAt
        <5> HIDE DEF x, y
        <5> QED
          BY <1>1, <2>1, <2>2 DEF BytesOf
      <4> HIDE DEF c, x, y
      <4>3. Mapped(a) /\ Mapped(c)
        BY <1>1, <2>1, <4>2, WordInPage
      <4> QED
        BY <1>3, <2>1, <4>1, <4>2, <4>3 DEF c
    <3>2. ASSUME NEW j \in InfoOf(k) PROVE x # d(j) /\ x # OriginalAt(k, j)
      <4>1. j \in DOMAIN Hooked[k] /\ Hooked[k][j] \in 1..Parent
        BY <1>1, EntryPlaces
      <4>2. Hooked[k][j] # i + 1
        BY <2>4, <4>1 DEF HookOfEntry
      <4>3. x # d(j)
        <5> DEFINE h == Hooked[k][j]
        <5>1. h \in Int /\ h # i + 1
          BY <4>1, <4>2
        <5> HIDE DEF h
        <5>2. PICK e \in Int : h = i + 1 + e /\ e # 0
          <6>1. h - (i + 1) \in Int /\ h = i + 1 + (h - (i + 1)) /\ h - (i + 1) # 0
            BY <2>2, <5>1
          <6> QED
            BY <6>1
        <5>3. SlotAt(NewVtableAt, h) = x + e * WordSize
          <6>1. (h - 1) * WordSize = i * WordSize + e * WordSize
            BY <1>1, <2>2, <5>2
          <6>2. e * WordSize \in Int
            BY <1>1, <5>2
          <6> QED
            BY <2>2, <6>1, <6>2 DEF SlotAt
        <5>4. e * WordSize # 0 /\ e * WordSize \in Int
          BY <1>1, <5>2
        <5> HIDE DEF x
        <5>5. SlotAt(NewVtableAt, h) # x
          BY <2>2, <5>3, <5>4
        <5> QED
          BY <5>5 DEF h
      <4>4. OriginalAt(k, j) + WordSize <= HeapAt /\ Aligned(OriginalAt(k, j))
        BY <1>1, EntryPlaces
      <4>5. x # OriginalAt(k, j)
        <5> HIDE DEF x
        <5> QED
          BY <1>1, <2>1, <2>2, <4>4 DEF Aligned
      <4> QED
        BY <4>3, <4>5
    <3>3. BytesOf(x, WordSize) \cap (O \cup D) = {}
      <4> HIDE DEF x
      <4>1. ASSUME NEW j \in InfoOf(k)
            PROVE  /\ BytesOf(x, WordSize) \cap BytesOf(d(j), WordSize) = {}
                   /\ BytesOf(x, WordSize) \cap
                        BytesOf(OriginalAt(k, j), WordSize) = {}
        <5>1. Aligned(d(j)) /\ Aligned(OriginalAt(k, j))
          BY <1>1, CopyPlaced, EntryPlaces DEF PlacedFor
        <5> HIDE DEF d
        <5> QED
          BY <2>1, <3>2, <5>1, WordsApart
      <4> HIDE DEF d
      <4> QED
        BY <4>1 DEF OriginalBytes, SlotBytes, Hooks, InfoOf, d
    <3> HIDE DEF x, y, O, D
    <3>4. WordFrom(w, x, memory, y)
      BY <1>1, <1>2, <2>1, <3>1, <3>3, WordKept
    <3>5. Word(w, x) = Word(memory, y)
      BY <2>1, <3>4, WordEqual
    <3> QED
      BY <2>4, <3>5 DEF x, y
  <2>5. CASE HookOfEntry(i + 1) # {}
    <3>1. PICK j \in DOMAIN Hooked[k] : Hooked[k][j] = i + 1
      BY <2>5 DEF HookOfEntry
    <3>2. j \in InfoOf(k)
      BY <1>1, <3>1, MemoryAssumption DEF InfoOf
    <3>3. d(j) = x
      BY <2>3, <3>1
    <3>4. WordFrom(w, x, v, HookingAt(k, j))
      <4> HIDE DEF x
      <4> QED
        BY <1>2, <2>1, <3>2, <3>3
    <3>5. Holds(v, HookingAt(k, j), Hook(k, j))
      <4>1. Holds(memory, HookingAt(k, j), Hook(k, j))
        BY <1>1, <3>2, HookingHolds
      <4> SUFFICES ASSUME NEW a \in BytesOf(HookingAt(k, j), WordSize)
                   PROVE  Byte(v, a) = Byte(memory, a)
        BY <4>1 DEF Holds
      <4>2. a \in Nat /\ Mapped(a) /\ a < HeapAt
        BY <1>1, <3>2, HookingBytes
      <4>3. a \notin B
        BY <1>1, <4>2 DEF BytesOf
      <4> QED
        BY <1>2, <4>2, <4>3 DEF Outside
    <3>6. Aligned(HookingAt(k, j))
      BY <1>1, <3>2, EntryPlaces
    <3> HIDE DEF x
    <3>7. Holds(w, x, Hook(k, j))
      BY <2>1, <3>4, <3>5, <3>6, HoldsCopied
    <3>8. Word(w, x) = PointerBytes(Hook(k, j))
      BY <2>1, <3>7, WordAt
    <3>9. Hook(k, j) \in HookOfEntry(i + 1)
      BY <3>1 DEF HookOfEntry
    <3> QED
      BY <2>5, <3>8, <3>9 DEF x
  <2> QED
    BY <2>4, <2>5
<1>5. ASSUME NEW j \in DOMAIN Hooked[k]
      PROVE  Word(w, OriginalAt(k, j)) =
               Word(memory, VtableAt + (Hooked[k][j] - 1) * WordSize)
  <2>1. j \in InfoOf(k)
    BY <1>1, <1>5, MemoryAssumption DEF InfoOf
  <2>2. /\ Aligned(OriginalAt(k, j)) /\ Aligned(s(j)) /\ Mapped(s(j))
        /\ s(j) + WordSize <= HeapAt
    BY <1>1, <2>1, VtablePlaced, EntryPlaces DEF PlacedFor
  <2>3. BytesOf(s(j), WordSize) \cap B = {}
    <3>1. s(j) \in Nat
      BY <1>1, <2>2 DEF Aligned
    <3> HIDE DEF s
    <3> QED
      BY <1>1, <2>2, <3>1 DEF BytesOf
  <2>4. WordFrom(w, OriginalAt(k, j), v, s(j))
    BY <1>2, <2>1
  <2> HIDE DEF B, s
  <2>5. WordFrom(w, OriginalAt(k, j), memory, s(j))
    BY <1>1, <1>2, <2>2, <2>3, <2>4, WordThrough
  <2>6. Word(w, OriginalAt(k, j)) = Word(memory, s(j))
    BY <2>2, <2>5, WordEqual
  <2> QED
    BY <2>6 DEF s, SlotAt
<1> QED
  BY <1>4, <1>5

\* Whenever the private vtable is made it has the header, all of the functions
\* and the zero entry that ends them, with the hooks in the hooked entries and
\* nowhere else, and the originals are saved; and the scan for the end reads
\* memory that is not mapped only if no zero entry follows the functions
\* (HookObjectIntWoLock).
THEOREM CopyIsComplete == MemorySpec => PrivateComplete
<1>1. HooksInv /\ [MemoryNext]_memoryVars =>
        [/\ buffer = NoBuffer /\ buffer' # NoBuffer =>
              /\ \A i \in -2..functions :
                   Word(memory', NewVtableAt + i * WordSize) \in
                     IF HookOfEntry(i + 1) = {}
                     THEN {Word(memory, VtableAt + i * WordSize)}
                     ELSE {PointerBytes(f) : f \in HookOfEntry(i + 1)}
              /\ \A i \in DOMAIN Hooked["object"] :
                   Word(memory', OriginalAt("object", i)) =
                     Word(memory, VtableAt + (Hooked["object"][i] - 1) * WordSize)
         /\ fault' => ~Mapped(VtableAt + functions * WordSize)]_memoryVars
  <2> SUFFICES ASSUME HooksInv, MemoryNext
               PROVE  /\ buffer = NoBuffer /\ buffer' # NoBuffer =>
                           /\ \A i \in -2..functions :
                                Word(memory', NewVtableAt + i * WordSize) \in
                                  IF HookOfEntry(i + 1) = {}
                                  THEN {Word(memory, VtableAt + i * WordSize)}
                                  ELSE {PointerBytes(f) : f \in HookOfEntry(i + 1)}
                           /\ \A i \in DOMAIN Hooked["object"] :
                                Word(memory', OriginalAt("object", i)) =
                                  Word(memory,
                                       VtableAt + (Hooked["object"][i] - 1) * WordSize)
                      /\ fault' => ~Mapped(VtableAt + functions * WordSize)
    OBVIOUS
  <2>1. CASE CopyAndHook
    <3>1. /\ ~ReadsUnmapped(VirtualsAdded) /\ VirtualsAdded < MaxAdded
          /\ memory' = DldHookVtableFunctions(
                         CopyVtable(memory, NewVtableAt, CopySize),
                         "object", VtableAt, NewVtableAt)
          /\ fault' = fault
      BY <2>1 DEF CopyAndHook
    <3>2. Mapped(ZeroAt) /\ Parent + VirtualsAdded = functions + 1
      BY <3>1, ScanFinds
    <3>3. ~fault'
      BY <3>1 DEF MemoryNext
    <3> QED
      BY <3>1, <3>2, <3>3, CopyMade
  <2>2. CASE ScanFaults
    <3>1. ReadsUnmapped(VirtualsAdded) /\ buffer' = buffer
      BY <2>2 DEF ScanFaults
    <3>2. ~Mapped(ZeroAt)
      BY <3>1, ScanFinds
    <3> QED
      BY <3>1, <3>2 DEF ZeroAt
  <2>3. CASE ~CopyAndHook /\ ~ScanFaults
    <3>1. ~fault' /\ (buffer = NoBuffer => buffer' = NoBuffer)
      BY <2>3 DEF MemoryNext, HookVtable, UnHookVtable, HookObjectRefused,
                  HookObject, UnHookObject, memoryVars
    <3> QED
      BY <3>1
  <2> QED
    BY <2>1, <2>2, <2>3
<1> QED
  BY <1>1, HooksInvariant, PTL DEF MemorySpec, PrivateComplete

-----------------------------------------------------------------------------
(***************************************************************************)
(* MemoryTypeOK.                                                           *)
(***************************************************************************)

\* A whole pointer, or unused bytes.
WordOK(m, x) ==
  Word(m, x) \in {PointerBytes(f) : f \in Pointers} \cup
                 {[i \in 0..WordSize - 1 |-> Junk]}

LEMMA AlignedOrder ==
  ASSUME NEW x, NEW y, Aligned(x), Aligned(y), x < y
  PROVE  x + WordSize <= y
<1>1. WordSize \in Nat \ {0}
  BY MemoryAssumption
<1>2. PICK q \in Nat : x = q * WordSize
  BY DEF Aligned
<1>3. PICK r \in Nat : y = r * WordSize
  BY DEF Aligned
<1>4. q < r
  <2> SUFFICES ASSUME ~(q < r) PROVE FALSE
    OBVIOUS
  <2>1. PICK e \in Nat : q = r + e
    <3>1. q - r \in Nat /\ q = r + (q - r)
      BY <1>2, <1>3
    <3> QED
      BY <3>1
  <2>2. q * WordSize = r * WordSize + e * WordSize
        /\ e * WordSize \in Nat /\ r * WordSize \in Nat
    BY <1>1, <1>3, <2>1
  <2> QED
    BY <1>2, <1>3, <2>2
<1>5. PICK e \in Nat : r = q + 1 + e
  <2>1. r - q - 1 \in Nat /\ r = q + 1 + (r - q - 1)
    BY <1>2, <1>3, <1>4
  <2> QED
    BY <2>1
<1>6. r * WordSize = q * WordSize + WordSize + e * WordSize
      /\ e * WordSize \in Nat /\ q * WordSize \in Nat
  BY <1>1, <1>2, <1>5
<1> QED
  BY <1>1, <1>2, <1>3, <1>6

LEMMA WordSame ==
  ASSUME pageTable \in PageTables, NEW m, NEW w, NEW R, Outside(w, m, R),
         NEW x, Aligned(x), Mapped(x), BytesOf(x, WordSize) \cap R = {}
  PROVE  Word(w, x) = Word(m, x)
<1>1. WordFrom(m, x, m, x)
  <2> SUFFICES ASSUME NEW a \in BytesOf(x, WordSize)
               PROVE  x + (a - x) = a
    BY DEF WordFrom
  <2> QED
    BY MemoryAssumption DEF BytesOf, Aligned
<1>2. WordFrom(w, x, m, x)
  BY <1>1, WordKept
<1> QED
  BY <1>2, WordEqual

LEMMA InitialPointers ==
  ASSUME Placed, NEW x, Aligned(x)
  PROVE  InitialPointer(x) \in Pointers
<1> DEFINE u == (x - VtableAt) \div WordSize
<1>1. /\ WordSize \in Nat \ {0} /\ VtableAt \in Nat
      /\ functions \in Functions /\ functions \in Nat /\ x \in Nat
  BY MemoryAssumption DEF Placed, Aligned
<1>2. CASE x >= VtableAt /\ u < functions
  <2>1. x - VtableAt \in Nat
    BY <1>1, <1>2
  <2>2. u \in Nat
    BY <1>1, <2>1, DivMod
  <2>3. InitialPointer(x) = <<"function", u + 1>>
    BY <1>2 DEF InitialPointer
  <2> HIDE DEF u
  <2>4. u + 1 \in 1..functions
    BY <1>1, <1>2, <2>2
  <2> QED
    BY <1>1, <2>3, <2>4 DEF Pointers, FunctionPointers
<1>3. CASE \E k \in Kinds : x \in {HookingAt(k, i) : i \in DOMAIN Hooked[k]}
  <2>1. PICK k \in Kinds : \E i \in DOMAIN Hooked[k] : x = HookingAt(k, i)
    BY <1>3
  <2>2. PICK i \in DOMAIN Hooked[k] : x = HookingAt(k, i)
    BY <2>1
  <2>3. InitialPointer(x) = Hook(k, i)
    BY <2>2, InitialHook, MemoryAssumption DEF InfoOf
  <2> QED
    BY <2>3 DEF Pointers, FunctionPointers
<1>4. CASE /\ ~(x >= VtableAt /\ u < functions)
           /\ \A k \in Kinds : x \notin {HookingAt(k, i) : i \in DOMAIN Hooked[k]}
  <2>1. InitialPointer(x) = Null
    BY <1>4 DEF InitialPointer, Kinds
  <2> QED
    BY <2>1 DEF Pointers
<1> QED
  BY <1>2, <1>3, <1>4

LEMMA InitialWordOK ==
  ASSUME Placed, NEW m, NEW x, Aligned(x),
         \A a \in BytesOf(x, WordSize) : Byte(m, a) = InitialByte(a)
  PROVE  WordOK(m, x)
<1>1. WordSize \in Nat \ {0} /\ x \in Nat /\ HeapAt \in Nat /\ Aligned(HeapAt)
  <2>1. WordSize \in Nat \ {0} /\ x \in Nat
    BY MemoryAssumption DEF Aligned
  <2> QED
    BY <2>1, MemoryAssumption, AlignedIf
<1>2. CASE x >= HeapAt
  <2>1. ASSUME NEW i \in 0..WordSize - 1 PROVE m[DldVirtToPhys(x + i)] = Junk
    <3>1. x + i \in BytesOf(x, WordSize) /\ x + i >= HeapAt
      BY <1>1, <1>2 DEF BytesOf
    <3> QED
      BY <3>1 DEF Byte, InitialByte
  <2> QED
    BY <2>1 DEF WordOK, Word
<1>3. CASE x < HeapAt
  <2>1. x + WordSize <= HeapAt
    BY <1>1, <1>3, AlignedOrder
  <2>2. Holds(m, x, InitialPointer(x))
    BY <2>1, InitialWord DEF Holds
  <2>3. Word(m, x) = PointerBytes(InitialPointer(x))
    BY <2>2, WordAt
  <2> QED
    BY <2>3, InitialPointers DEF WordOK
<1> QED
  BY <1>1, <1>2, <1>3

\* What the hooker of single objects has written is whole.
PrivateOK(m, b) ==
  b # NoBuffer =>
    /\ \A i \in InfoOf("object") : WordOK(m, OriginalAt("object", i))
    /\ \A x \in Nat : Aligned(x) /\ Mapped(x) /\ x >= HeapAt => WordOK(m, x)

LEMMA WordsWhole ==
  ASSUME HooksInv, PrivateOK(memory, buffer), NEW x, Aligned(x), Mapped(x)
  PROVE  WordOK(memory, x)
<1> DEFINE n == hooked["direct"]
           s(i) == SlotAt(VtableAt, Hooked["direct"][i])
           o(k, i) == OriginalAt(k, i)
<1>1. /\ Placed /\ pageTable \in PageTables /\ "direct" \in Kinds
      /\ "object" \in Kinds /\ x \in Nat /\ HeapAt \in Nat /\ Aligned(HeapAt)
      /\ ExactFor(memory, n, buffer) /\ SavedFor(memory, n)
      /\ SlotsHooked(memory, n) /\ WordSize \in Nat \ {0}
  <2>1. Aligned(HeapAt)
    BY MemoryAssumption, AlignedIf
  <2>2. x \in Nat
    BY MemoryAssumption DEF Aligned
  <2> QED
    BY <2>1, <2>2, MemoryAssumption DEF HooksInv, ExactInv, Placed, Kinds
<1>2. ASSUME NEW f \in Pointers, Holds(memory, x, f) PROVE WordOK(memory, x)
  <2>1. Word(memory, x) = PointerBytes(f)
    BY <1>2, WordAt
  <2> QED
    BY <2>1 DEF WordOK
<1>3. CASE n > 0 /\ \E i \in InfoOf("direct") : x = s(i)
  <2>1. PICK i \in InfoOf("direct") : x = s(i)
    BY <1>3
  <2>2. Holds(memory, x, Hook("direct", i))
    BY <1>1, <1>3, <2>1 DEF SlotsHooked
  <2>3. i \in DOMAIN Hooked["direct"]
    BY <1>1, EntryPlaces
  <2>4. Hook("direct", i) \in Pointers
    BY <1>1, <2>3 DEF Pointers, FunctionPointers
  <2> QED
    BY <1>2, <2>2, <2>4
<1>4. CASE n > 0 /\ \E i \in InfoOf("direct") : x = o("direct", i)
  <2>1. PICK i \in InfoOf("direct") : x = o("direct", i)
    BY <1>4
  <2>2. Aligned(s(i)) /\ s(i) + WordSize <= HeapAt
    BY <1>1, VtablePlaced DEF PlacedFor
  <2>3. \A a \in BytesOf(x, WordSize) :
          Byte(memory, a) = InitialByte(s(i) + (a - x))
    BY <1>1, <1>4, <2>1 DEF SavedFor
  <2>4. InitialPointer(s(i)) \in Pointers
    BY <1>1, <2>2, InitialPointers
  <2> HIDE DEF s
  <2>5. Holds(memory, x, InitialPointer(s(i)))
    <3> SUFFICES ASSUME NEW a \in BytesOf(x, WordSize)
                 PROVE  Byte(memory, a) = PointerBytes(InitialPointer(s(i)))[a - x]
      BY DEF Holds
    <3> DEFINE c == s(i) + (a - x)
    <3>1. c \in BytesOf(s(i), WordSize) /\ c - s(i) = a - x
      BY <1>1, <2>2 DEF BytesOf, Aligned
    <3>2. Byte(memory, a) = InitialByte(c)
      BY <2>3
    <3> HIDE DEF c
    <3>3. InitialByte(c) = PointerBytes(InitialPointer(s(i)))[c - s(i)]
      BY <2>2, <3>1, InitialWord
    <3> QED
      BY <3>1, <3>2, <3>3
  <2> QED
    BY <1>2, <2>4, <2>5
<1>5. CASE /\ buffer # NoBuffer
           /\ x >= HeapAt \/ \E i \in InfoOf("object") : x = o("object", i)
  BY <1>1, <1>5 DEF PrivateOK
<1>6. CASE /\ n > 0 => \A i \in InfoOf("direct") : x # s(i) /\ x # o("direct", i)
           /\ buffer # NoBuffer =>
                x < HeapAt /\ \A i \in InfoOf("object") : x # o("object", i)
  <2>1. ASSUME NEW a \in BytesOf(x, WordSize)
        PROVE  Byte(memory, a) = InitialByte(a)
    <3>1. a \in Nat /\ Mapped(a)
      BY <1>1, WordInPage DEF BytesOf
    <3>2. ASSUME NEW y, Aligned(y), x # y PROVE a \notin BytesOf(y, WordSize)
      BY <3>2, WordsApart
    <3>3. ASSUME n > 0
          PROVE  /\ a \notin SlotBytes("direct", VtableAt, Hooks("direct"))
                 /\ a \notin OriginalBytes("direct", Hooks("direct"))
      <4>1. \A i \in InfoOf("direct") : Aligned(s(i)) /\ Aligned(o("direct", i))
        BY <1>1, VtablePlaced, EntryPlaces DEF PlacedFor
      <4>2. \A i \in InfoOf("direct") : x # s(i) /\ x # o("direct", i)
        BY <1>6, <3>3
      <4>3. \A i \in InfoOf("direct") : /\ a \notin BytesOf(s(i), WordSize)
                                        /\ a \notin BytesOf(o("direct", i), WordSize)
        BY <3>2, <4>1, <4>2
      <4> QED
        BY <4>3 DEF SlotBytes, OriginalBytes, Hooks, InfoOf
    <3>4. ASSUME buffer # NoBuffer
          PROVE  /\ a \notin OriginalBytes("object", Hooks("object"))
                 /\ a \notin BytesOf(HeapAt, buffer.size)
      <4>1. x + WordSize <= HeapAt
        BY <1>1, <1>6, <3>4, AlignedOrder
      <4>2. a \notin BytesOf(HeapAt, buffer.size)
        BY <1>1, <4>1 DEF BytesOf
      <4>3. \A i \in InfoOf("object") : Aligned(o("object", i))
        BY <1>1, EntryPlaces
      <4>4. \A i \in InfoOf("object") : x # o("object", i)
        BY <1>6, <3>4
      <4>5. \A i \in InfoOf("object") : a \notin BytesOf(o("object", i), WordSize)
        BY <3>2, <4>3, <4>4
      <4> QED
        BY <4>2, <4>5 DEF OriginalBytes, Hooks, InfoOf
    <3>5. a \notin MayDiffer(n, buffer)
      BY <3>3, <3>4 DEF MayDiffer
    <3> QED
      BY <1>1, <3>1, <3>5 DEF ExactFor
  <2> QED
    BY <1>1, <2>1, InitialWordOK
<1> QED
  BY <1>1, <1>3, <1>4, <1>5, <1>6

\* A hooked function of the class is none of the entries.
LEMMA VtableNoEntry ==
  ASSUME Placed, NEW k \in Kinds, NEW i \in InfoOf(k), NEW l \in Kinds,
         NEW j \in InfoOf(l)
  PROVE  SlotAt(VtableAt, Hooked[k][i]) # OriginalAt(l, j)
<1>1. /\ pageTable \in PageTables /\ functions \in Functions /\ functions \in Nat
      /\ Parent \in Nat /\ Parent <= functions
  BY MemoryAssumption DEF Placed
<1>2. Hooked[k][i] \in 1..Parent
  BY <1>1, EntryPlaces
<1>3. Hooked[k][i] \in 1..functions
  BY <1>1, <1>2
<1> QED
  BY <1>1, <1>3, SlotPlaces

\* A word that is none of those of a private vtable has no byte of it.
LEMMA OutsideTable ==
  ASSUME NEW x, Aligned(x), NEW y, Aligned(y), NEW f \in Nat,
         y >= 2 * WordSize,
         \A i \in -2..f : x # y + i * WordSize,
         NEW size, size = (f + 1) * WordSize
  PROVE  BytesOf(x, WordSize) \cap
           BytesOf(y - 2 * WordSize, 2 * WordSize + size) = {}
<1>1. WordSize \in Nat \ {0} /\ x \in Nat /\ y \in Nat /\ size \in Nat
  BY MemoryAssumption DEF Aligned
<1>2. PICK q \in Nat : x = q * WordSize
  BY DEF Aligned
<1>3. PICK r \in Nat : y = r * WordSize
  BY DEF Aligned
<1> DEFINE i == q - r
<1>4. i \in Int /\ x = y + i * WordSize
  BY <1>1, <1>2, <1>3
<1>5. i \notin -2..f
  BY <1>4
<1> HIDE DEF i
<1>6. CASE i < -2
  <2>1. PICK e \in Nat : i = -3 - e
    <3>1. -3 - i \in Nat /\ i = -3 - (-3 - i)
      BY <1>4, <1>6
    <3> QED
      BY <3>1
  <2>2. i * WordSize = -(2 * WordSize) - WordSize - e * WordSize
        /\ e * WordSize \in Nat
    BY <1>1, <2>1
  <2>3. x + WordSize <= y - 2 * WordSize
    BY <1>1, <1>4, <2>2
  <2> QED
    BY <1>1, <2>3 DEF BytesOf
<1>7. CASE i > f
  <2>1. PICK e \in Nat : i = f + 1 + e
    <3>1. i - f - 1 \in Nat /\ i = f + 1 + (i - f - 1)
      BY <1>4, <1>7
    <3> QED
      BY <3>1
  <2>2. i * WordSize = size + e * WordSize /\ e * WordSize \in Nat
    BY <1>1, <2>1
  <2>3. x >= y + size
    BY <1>1, <1>4, <2>2
  <2> QED
    BY <1>1, <2>3 DEF BytesOf
<1> QED
  BY <1>4, <1>5, <1>6, <1>7

\* What the other hooker writes leaves it alone.
LEMMA PrivateKept ==
  ASSUME Placed, NEW m, NEW w, NEW b, PrivateOK(m, b),
         Outside(w, m, OriginalBytes("direct", Hooks("direct")) \cup
                       SlotBytes("direct", VtableAt, Hooks("direct")))
  PROVE  PrivateOK(w, b)
<1> DEFINE O == OriginalBytes("direct", Hooks("direct"))
           S == SlotBytes("direct", VtableAt, Hooks("direct"))
           s(i) == SlotAt(VtableAt, Hooked["direct"][i])
<1>1. /\ pageTable \in PageTables /\ HeapAt \in Nat /\ WordSize \in Nat \ {0}
      /\ "direct" \in Kinds /\ "object" \in Kinds
  BY MemoryAssumption DEF Placed, Kinds
<1>2. \A i \in InfoOf("direct") :
        /\ Aligned(s(i)) /\ s(i) + WordSize <= HeapAt
        /\ Aligned(OriginalAt("direct", i))
        /\ OriginalAt("direct", i) + WordSize <= HeapAt
  BY <1>1, VtablePlaced, EntryPlaces DEF PlacedFor
<1>3. ASSUME NEW x, Aligned(x), Mapped(x), WordOK(m, x),
             \A i \in InfoOf("direct") : x # s(i) /\ x # OriginalAt("direct", i)
      PROVE  WordOK(w, x)
  <2>1. \A i \in InfoOf("direct") :
          /\ BytesOf(x, WordSize) \cap BytesOf(s(i), WordSize) = {}
          /\ BytesOf(x, WordSize) \cap BytesOf(OriginalAt("direct", i), WordSize) = {}
    BY <1>2, <1>3, WordsApart
  <2>2. BytesOf(x, WordSize) \cap (O \cup S) = {}
    BY <2>1 DEF OriginalBytes, SlotBytes, Hooks, InfoOf
  <2>3. Word(w, x) = Word(m, x)
    <3> HIDE DEF O, S
    <3>1. Outside(w, m, O \cup S)
      BY DEF O, S
    <3> QED
      BY <1>1, <1>3, <2>2, <3>1, WordSame
  <2> QED
    BY <1>3, <2>3 DEF WordOK
<1>4. ASSUME b # NoBuffer, NEW i \in InfoOf("object")
      PROVE  WordOK(w, OriginalAt("object", i))
  <2>1. Aligned(OriginalAt("object", i)) /\ Mapped(OriginalAt("object", i))
    BY <1>1, EntryPlaces
  <2>2. ASSUME NEW j \in InfoOf("direct")
        PROVE  OriginalAt("object", i) # s(j) /\
               OriginalAt("object", i) # OriginalAt("direct", j)
    BY <1>1, VtableNoEntry, EntriesApart
  <2>3. WordOK(m, OriginalAt("object", i))
    BY <1>4 DEF PrivateOK
  <2> QED
    BY <1>3, <2>1, <2>2, <2>3
<1>5. ASSUME b # NoBuffer, NEW x \in Nat, Aligned(x), Mapped(x), x >= HeapAt
      PROVE  WordOK(w, x)
  <2>1. \A i \in InfoOf("direct") : x # s(i) /\ x # OriginalAt("direct", i)
    <3>1. \A i \in InfoOf("direct") : s(i) \in Nat /\ OriginalAt("direct", i) \in Nat
      BY <1>1, <1>2 DEF Aligned
    <3> HIDE DEF s
    <3> QED
      BY <1>1, <1>2, <1>5, <3>1
  <2>2. WordOK(m, x)
    BY <1>5 DEF PrivateOK
  <2> QED
    BY <1>3, <1>5, <2>1, <2>2
<1> QED
  BY <1>4, <1>5 DEF PrivateOK

\* A private vtable that has just been made is whole.
LEMMA CopyWhole ==
  ASSUME HooksInv, buffer = NoBuffer, Mapped(ZeroAt),
         Parent + VirtualsAdded = functions + 1, NEW w, NEW b,
         w = DldHookVtableFunctions(CopyVtable(memory, NewVtableAt, CopySize),
                                    "object", VtableAt, NewVtableAt)
  PROVE  PrivateOK(w, b)
<1> DEFINE k == "object"
           d(j) == SlotAt(NewVtableAt, Hooked[k][j])
           v == CopyVtable(memory, NewVtableAt, CopySize)
           O == OriginalBytes(k, Hooks(k))
           D == SlotBytes(k, NewVtableAt, Hooks(k))
           B == BytesOf(HeapAt, BufferSize)
           T == BytesOf(NewVtableAt - 2 * WordSize, 2 * WordSize + CopySize)
<1>1. /\ Placed /\ Whole(memory) /\ pageTable \in PageTables /\ k \in Kinds
      /\ HeapAt \in Nat /\ VtableAt \in Nat /\ WordSize \in Nat \ {0}
      /\ functions \in Nat /\ functions \in Functions
  BY MemoryAssumption DEF HooksInv, ExactInv, Placed, Kinds
<1>2. \A x : Aligned(x) /\ Mapped(x) => WordOK(memory, x)
  BY WordsWhole DEF PrivateOK
<1>3. /\ Whole(v) /\ Outside(w, v, O \cup D) /\ Outside(w, memory, O \cup B)
  BY <1>1, CopyHooked
<1>4. \A a \in B \ T : Mapped(a) => Byte(v, a) = Null
  BY <1>1, CopyInBuffer
<1>5. /\ \A i \in -2..functions :
           Word(w, NewVtableAt + i * WordSize) \in
             IF HookOfEntry(i + 1) = {}
             THEN {Word(memory, VtableAt + i * WordSize)}
             ELSE {PointerBytes(f) : f \in HookOfEntry(i + 1)}
      /\ \A i \in DOMAIN Hooked[k] :
           Word(w, OriginalAt(k, i)) =
             Word(memory, VtableAt + (Hooked[k][i] - 1) * WordSize)
  BY CopyMade
<1> HIDE DEF v
<1>6. ASSUME NEW i \in InfoOf(k) PROVE WordOK(w, OriginalAt(k, i))
  <2>1. /\ i \in DOMAIN Hooked[k]
        /\ Aligned(SlotAt(VtableAt, Hooked[k][i]))
        /\ Mapped(SlotAt(VtableAt, Hooked[k][i]))
    BY <1>1, EntryPlaces, VtablePlaced DEF PlacedFor
  <2>2. Word(w, OriginalAt(k, i)) = Word(memory, SlotAt(VtableAt, Hooked[k][i]))
    BY <1>5, <2>1 DEF SlotAt
  <2> QED
    BY <1>2, <2>1, <2>2 DEF WordOK
<1>7. ASSUME NEW i \in -2..functions
      PROVE  WordOK(w, NewVtableAt + i * WordSize)
  <2>1. CASE HookOfEntry(i + 1) = {}
    <3>1. Aligned(VtableAt + i * WordSize) /\ Mapped(VtableAt + i * WordSize)
      BY <1>1, CopyWords
    <3>2. Word(w, NewVtableAt + i * WordSize) = Word(memory, VtableAt + i * WordSize)
      BY <1>5, <2>1
    <3> QED
      BY <1>2, <3>1, <3>2 DEF WordOK
  <2>2. CASE HookOfEntry(i + 1) # {}
    <3>1. PICK f \in HookOfEntry(i + 1) :
            Word(w, NewVtableAt + i * WordSize) = PointerBytes(f)
      BY <1>5, <2>2
    <3>2. f \in Pointers
      BY <1>1, <3>1 DEF HookOfEntry, Pointers, FunctionPointers
    <3> QED
      BY <3>1, <3>2 DEF WordOK
  <2> QED
    BY <2>1, <2>2
<1>8. /\ Aligned(HeapAt) /\ Aligned(NewVtableAt) /\ NewVtableAt \in Nat
      /\ CopySize = (functions + 1) * WordSize
      /\ NewVtableAt >= HeapAt + 2 * WordSize
      /\ BufferSize = CopySize + (Padding * WordSize) + (Padding * WordSize)
      /\ NewVtableAt = HeapAt + Padding * WordSize /\ Padding * WordSize \in Nat
  <2>1. Aligned(HeapAt)
    BY MemoryAssumption, AlignedIf
  <2>2. Aligned(NewVtableAt)
    BY <2>1, MemoryAssumption, AlignedPlus DEF NewVtableAt
  <2> QED
    BY <1>1, <2>1, <2>2, Sizes DEF NewVtableAt
<1>9. ASSUME NEW x \in Nat, Aligned(x), Mapped(x), x >= HeapAt
      PROVE  WordOK(w, x)
  <2>1. \A i \in InfoOf(k) : Aligned(OriginalAt(k, i)) /\ x # OriginalAt(k, i)
    <3>1. \A i \in InfoOf(k) : Aligned(OriginalAt(k, i))
                               /\ OriginalAt(k, i) + WordSize <= HeapAt
      BY <1>1, EntryPlaces
    <3>2. \A i \in InfoOf(k) : OriginalAt(k, i) \in Nat
      BY <1>1, <3>1 DEF Aligned
    <3> QED
      BY <1>1, <1>9, <3>1, <3>2
  <2>2. BytesOf(x, WordSize) \cap O = {}
    <3>1. \A i \in InfoOf(k) :
            BytesOf(x, WordSize) \cap BytesOf(OriginalAt(k, i), WordSize) = {}
      BY <1>9, <2>1, WordsApart
    <3> QED
      BY <3>1 DEF OriginalBytes, Hooks, InfoOf
  <2>3. CASE \E i \in -2..functions : x = NewVtableAt + i * WordSize
    BY <1>7, <2>3
  <2>4. CASE ~\E i \in -2..functions : x = NewVtableAt + i * WordSize
    <3>1. BytesOf(x, WordSize) \cap T = {}
      <4>1. \A i \in -2..functions : x # NewVtableAt + i * WordSize
        BY <2>4
      <4>2. NewVtableAt >= 2 * WordSize
        BY <1>1, <1>8
      <4>3. CopySize = (functions + 1) * WordSize /\ Aligned(NewVtableAt)
        BY <1>8
      <4> QED
        BY <1>1, <1>9, <4>1, <4>2, <4>3, OutsideTable
    <3>2. BytesOf(x, WordSize) \cap D = {}
      <4> SUFFICES ASSUME NEW i \in InfoOf(k)
                   PROVE  BytesOf(x, WordSize) \cap BytesOf(d(i), WordSize) = {}
        BY DEF SlotBytes, Hooks, InfoOf
      <4>1. Hooked[k][i] \in 1..Parent /\ Parent <= functions /\ Parent \in Nat
        BY <1>1, EntryPlaces, MemoryAssumption
      <4>2. Hooked[k][i] - 1 \in -2..functions
        BY <1>1, <4>1
      <4>3. d(i) # x
        BY <2>4, <4>2 DEF SlotAt
      <4>4. Aligned(d(i))
        BY <1>1, CopyPlaced DEF PlacedFor
      <4> HIDE DEF d
      <4> QED
        BY <1>9, <4>3, <4>4, WordsApart
    <3>3. Word(w, x) = Word(v, x)
      <4> HIDE DEF O, D
      <4> QED
        BY <1>1, <1>3, <1>9, <2>2, <3>2, WordSame
    <3>4. CASE x >= HeapAt + BufferSize
      <4>1. BytesOf(x, WordSize) \cap B = {}
        <5>1. BufferSize \in Nat
          BY Sizes
        <5> QED
          BY <1>1, <3>4, <5>1 DEF BytesOf
      <4>2. Word(w, x) = Word(memory, x)
        <5> HIDE DEF O, B
        <5> QED
          BY <1>1, <1>3, <1>9, <2>2, <4>1, WordSame
      <4> QED
        BY <1>2, <1>9, <4>2 DEF WordOK
    <3>5. CASE x < HeapAt + BufferSize
      <4>1. x + WordSize <= HeapAt + BufferSize
        <5>1. Aligned(HeapAt + BufferSize) /\ HeapAt + BufferSize \in Nat
          <6>1. BufferSize = (functions + 1 + Padding + Padding) * WordSize
                /\ BufferSize \in Nat
            BY <1>1, <1>8, Sizes, MemoryAssumption
          <6>2. functions + 1 + Padding + Padding \in Nat
            BY <1>1, MemoryAssumption
          <6>3. Aligned(HeapAt + BufferSize)
            BY <1>8, <6>1, <6>2, AlignedPlus
          <6> QED
            BY <1>1, <6>1, <6>3
        <5> QED
          BY <1>9, <3>5, <5>1, AlignedOrder
      <4>2. \A a \in BytesOf(x, WordSize) : a \in B \ T
        <5>1. BufferSize \in Nat
          BY Sizes
        <5>2. \A a \in BytesOf(x, WordSize) : a \in B
          BY <1>1, <1>9, <4>1, <5>1 DEF BytesOf
        <5> HIDE DEF B, T
        <5> QED
          BY <3>1, <5>2
      <4>3. Holds(v, x, Null)
        <5> SUFFICES ASSUME NEW a \in BytesOf(x, WordSize)
                     PROVE  Byte(v, a) = PointerBytes(Null)[a - x]
          BY DEF Holds
        <5>1. Mapped(a)
          BY <1>1, <1>9, WordInPage
        <5>2. Byte(v, a) = Null
          BY <1>4, <4>2, <5>1
        <5>3. a - x \in 0..WordSize - 1
          BY <1>9, ByteInWord
        <5> QED
          BY <5>2, <5>3 DEF PointerBytes
      <4>4. Word(v, x) = PointerBytes(Null)
        BY <1>9, <4>3, WordAt
      <4> QED
        BY <3>3, <4>4 DEF WordOK, Pointers
    <3> QED
      BY <1>1, <1>9, <3>4, <3>5, Sizes
  <2> QED
    BY <2>3, <2>4
<1> QED
  BY <1>6, <1>9 DEF PrivateOK

TypeInv ==
  /\ HooksInv /\ PrivateOK(memory, buffer)
  /\ buffer = NoBuffer \/ (buffer.at = HeapAt /\ buffer.size > 0)
  /\ hooked \in [Kinds -> 0..MaxObjects]
  /\ fault \in BOOLEAN

LEMMA PrivateStep ==
  ASSUME HooksInv, PrivateOK(memory, buffer), [MemoryNext]_memoryVars
  PROVE  PrivateOK(memory', buffer')
<1> DEFINE n == hooked["direct"]
           Goal == PrivateOK(memory', buffer')
           R == OriginalBytes("direct", Hooks("direct")) \cup
                SlotBytes("direct", VtableAt, Hooks("direct"))
<1>1. /\ Placed /\ Whole(memory) /\ BufferOK(buffer) /\ n \in Nat
      /\ ExactFor(memory, n, buffer) /\ SavedFor(memory, n)
  BY DEF HooksInv, ExactInv, Kinds
<1> SUFFICES Goal
  OBVIOUS
<1>2. CASE HookVtable
  <2>1. buffer' = buffer
    BY <1>2 DEF HookVtable
  <2>2. CASE n = 0
    <3>1. memory' = DldHookVtableFunctions(memory, "direct", VtableAt, VtableAt)
      BY <1>2, <2>2 DEF HookVtable
    <3>2. n + 1 \in Nat /\ n + 1 > 0 /\ ExactFor(memory, 0, buffer)
      BY <1>1, <2>2
    <3>3. Outside(memory', memory, R)
      BY <1>1, <3>1, <3>2, HookVtableExact
    <3> QED
      BY <1>1, <2>1, <3>3, PrivateKept
  <2>3. CASE n # 0
    BY <1>2, <2>1, <2>3 DEF HookVtable
  <2> QED
    BY <2>2, <2>3
<1>3. CASE UnHookVtable
  <2>1. buffer' = buffer
    BY <1>3 DEF UnHookVtable
  <2>2. CASE n = 1
    <3>1. memory' = Forget(DldUnHookVtableFunctions(memory, "direct", VtableAt),
                           "direct")
      BY <1>3, <2>2 DEF UnHookVtable
    <3>2. Outside(memory', memory, R)
      BY <1>1, <2>2, <3>1, UnHookVtableExact
    <3> QED
      BY <1>1, <2>1, <3>2, PrivateKept
  <2>3. CASE n # 1
    BY <1>3, <2>1, <2>3 DEF UnHookVtable
  <2> QED
    BY <2>2, <2>3
<1>4. CASE CopyAndHook
  <2>1. /\ buffer = NoBuffer
        /\ ~ReadsUnmapped(VirtualsAdded) /\ VirtualsAdded < MaxAdded
        /\ memory' = DldHookVtableFunctions(
                       CopyVtable(memory, NewVtableAt, CopySize),
                       "object", VtableAt, NewVtableAt)
    BY <1>4 DEF CopyAndHook
  <2>2. Mapped(ZeroAt) /\ Parent + VirtualsAdded = functions + 1
    BY <2>1, ScanFinds
  <2> QED
    BY <2>1, <2>2, CopyWhole
<1>5. CASE UnHookObject
  <2>1. buffer' = NoBuffer \/ (buffer' = buffer /\ memory' = memory)
    BY <1>5 DEF UnHookObject
  <2> QED
    BY <2>1 DEF PrivateOK
<1>6. CASE ScanFaults \/ HookObjectRefused \/ HookObject \/ UNCHANGED memoryVars
  <2>1. memory' = memory /\ buffer' = buffer
    BY <1>6 DEF ScanFaults, HookObjectRefused, HookObject, memoryVars
  <2> QED
    BY <2>1
<1> HIDE DEF Goal
<1> QED
  BY <1>2, <1>3, <1>4, <1>5, <1>6 DEF MemoryNext

LEMMA TypeStep ==
  ASSUME TypeInv, [MemoryNext]_memoryVars
  PROVE  /\ buffer' = NoBuffer \/ (buffer'.at = HeapAt /\ buffer'.size > 0)
         /\ hooked' \in [Kinds -> 0..MaxObjects]
         /\ fault' \in BOOLEAN
<1>1. /\ MaxObjects \in Nat \ {0} /\ BufferSize > 0
      /\ "direct" \in Kinds /\ "object" \in Kinds
  <2>1. WordSize \in Nat \ {0}
    BY MemoryAssumption
  <2>2. BufferSize > 0
    BY <2>1, Sizes
  <2> QED
    BY <2>2, CopyLayout DEF Kinds
<1>2. /\ buffer = NoBuffer \/ (buffer.at = HeapAt /\ buffer.size > 0)
      /\ hooked \in [Kinds -> 0..MaxObjects] /\ fault \in BOOLEAN
      /\ hooked["direct"] \in 0..MaxObjects /\ hooked["object"] \in 0..MaxObjects
  BY <1>1 DEF TypeInv
<1>3. CASE HookVtable
  <2>1. hooked["direct"] + 1 \in 0..MaxObjects
    BY <1>1, <1>2, <1>3 DEF HookVtable
  <2> QED
    BY <1>2, <1>3, <2>1 DEF HookVtable
<1>4. CASE UnHookVtable
  <2>1. hooked["direct"] - 1 \in 0..MaxObjects
    BY <1>1, <1>2, <1>4 DEF UnHookVtable
  <2> QED
    BY <1>2, <1>4, <2>1 DEF UnHookVtable
<1>5. CASE CopyAndHook
  <2>1. \A n \in {0, 1} : n \in 0..MaxObjects
    BY <1>1
  <2>2. buffer'.at = HeapAt /\ buffer'.size > 0
    BY <1>1, <1>5 DEF CopyAndHook
  <2> QED
    BY <1>2, <1>5, <2>1, <2>2 DEF CopyAndHook
<1>6. CASE HookObject
  <2>1. hooked["object"] + 1 \in 0..MaxObjects
    BY <1>1, <1>2, <1>6 DEF HookObject
  <2> QED
    BY <1>2, <1>6, <2>1 DEF HookObject
<1>7. CASE UnHookObject
  <2>1. hooked["object"] - 1 \in 0..MaxObjects
    BY <1>1, <1>2, <1>7 DEF UnHookObject
  <2>2. buffer' = NoBuffer \/ buffer' = buffer
    BY <1>7 DEF UnHookObject
  <2> QED
    BY <1>2, <1>7, <2>1, <2>2 DEF UnHookObject
<1>8. CASE ScanFaults \/ HookObjectRefused \/ UNCHANGED memoryVars
  BY <1>2, <1>8 DEF ScanFaults, HookObjectRefused, memoryVars
<1> QED
  BY <1>3, <1>4, <1>5, <1>6, <1>7, <1>8 DEF MemoryNext

\* Every word of memory is a pointer, to a function of the class or to a hook
\* or NULL, or has not been used: no write tears one.  No more objects are
\* counted than there may be, and the buffer is what was allocated
\* (DldWriteWiredSrcToWiredDst, HookObjectIntWoLock, UnHookObjectIntWoLock).
THEOREM MemoryIsWhole == MemorySpec => []MemoryTypeOK
<1>1. MemoryInit => TypeInv
  <2> SUFFICES ASSUME MemoryInit PROVE TypeInv
    OBVIOUS
  <2>1. HooksInv
    BY HooksInit
  <2>2. 0 \in 0..MaxObjects
    BY CopyLayout
  <2> QED
    BY <2>1, <2>2 DEF MemoryInit, TypeInv, PrivateOK
<1>2. TypeInv /\ HooksInv' /\ [MemoryNext]_memoryVars => TypeInv'
  <2> SUFFICES ASSUME TypeInv, HooksInv', [MemoryNext]_memoryVars PROVE TypeInv'
    OBVIOUS
  <2>1. PrivateOK(memory', buffer') /\ pageTable' = pageTable
    BY PrivateStep, ExactStep DEF TypeInv, HooksInv
  <2>2. PrivateOK(memory, buffer)'
    BY <2>1 DEF PrivateOK, WordOK, Word, Mapped, DldVirtToPhys
  <2> QED
    BY <2>2, TypeStep DEF TypeInv
<1>3. TypeInv => MemoryTypeOK
  <2> SUFFICES ASSUME TypeInv PROVE MemoryTypeOK
    OBVIOUS
  <2>1. pageTable \in PageTables /\ functions \in Functions
    BY DEF TypeInv, HooksInv, ExactInv, Placed
  <2>2. ASSUME NEW a \in Addresses, a % WordSize = 0
        PROVE  Word(memory, a) \in {PointerBytes(f) : f \in Pointers} \cup
                                   {[i \in 0..WordSize - 1 |-> Junk]}
    <3>1. a \in Nat /\ Mapped(a)
      BY <2>1, MappedAddresses
    <3>2. Aligned(a)
      BY <2>2, <3>1, AlignedIf
    <3> QED
      BY <3>1, <3>2, WordsWhole DEF TypeInv, WordOK
  <2> QED
    BY <2>1, <2>2 DEF TypeInv, MemoryTypeOK
<1>4. MemorySpec => []TypeInv
  BY <1>1, <1>2, HooksInvariant, PTL DEF MemorySpec
<1> QED
  BY <1>3, <1>4, PTL

=============================================================================
