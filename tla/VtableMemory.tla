---------------------------- MODULE VtableMemory ----------------------------
(***************************************************************************)
(* The memory that hooking reads and writes, byte by byte: the vtable of a *)
(* class and what follows it, the private copy that HookObjectIntWoLock    *)
(* makes of it, and the writes of DldWriteWiredSrcToWiredDst, which go     *)
(* through physical addresses page by page.                                *)
(*                                                                         *)
(* Sources: src/src/DldVmPmap.cpp; HookObjectIntWoLock,                    *)
(* DldHookVtableFunctions, DldUnHookVtableFunctions and                    *)
(* UnHookObjectIntWoLock in src/src/DldHookerCommonClass.cpp;              *)
(* fHookedClassVtaleSize in src/src/DldHookerCommonClass2.h.               *)
(*                                                                         *)
(* One class, a hooker of each kind and any number of hooked objects of    *)
(* each: the modules VtableHook and HookChain say which object is hooked   *)
(* when, here objects are only counted.                                    *)
(***************************************************************************)
EXTENDS Integers, Sequences, Functions, FiniteSetsExt

CONSTANTS
  WordSize,    \* sizeof( OSMetaClassBase::_ptf_t )
  PageSize,    \* PAGE_SIZE
  PageTables,  \* the page tables to consider: page |-> frame, 0 if not mapped
  VtableAt,    \* the vtable pointer of the objects
  Functions,   \* how many virtual functions their class may have
  Parent,      \* how many the class that the hookers know has
  Hooked,      \* Hooked[k]: VtableIndex in the entries of HookedFunctonsInfo
  InfoAt,      \* InfoAt[k]: where the first of these entries is
  HeapAt,      \* what IOMalloc returns
  Padding,     \* DLD_VTABLE_ZERO_PADDING_SIZE, in words
  MaxAdded,    \* DLD_MAX_NUMBER_OF_ADDED_VIRTUAL_FUNCS
  MaxObjects,  \* bound on the objects hooked at the same time
  Null, Junk   \* a zero byte or pointer, a byte of unused memory

Kinds == {"direct", "object"}

ASSUME MemoryAssumption ==
  /\ WordSize \in Nat \ {0}
  /\ PageSize \in Nat \ {0} /\ PageSize % WordSize = 0
  /\ VtableAt \in Nat /\ VtableAt % WordSize = 0
  /\ HeapAt \in Nat /\ HeapAt % WordSize = 0
  /\ \A t \in PageTables :
       /\ DOMAIN t \subseteq Nat /\ \A p \in DOMAIN t : t[p] \in Nat
       /\ \A p, q \in DOMAIN t : t[p] = t[q] => p = q \/ t[p] = 0
  /\ \A n \in Functions : n \in Nat /\ n >= Parent
  /\ \A k \in Kinds : IsInjective(Hooked[k]) /\ Hooked[k] \in Seq(Nat \ {0})
  /\ Parent \in Nat \ {0} /\ MaxAdded \in Nat
  /\ Padding \in Nat /\ Padding >= 2

VARIABLES
  pageTable,  \* the kernel's page table
  functions,  \* how many virtual functions the class has
  memory,     \* memory[a]: the byte at a physical address
  buffer,     \* Buffer and BufferSize of the per-object hooker, size 0 if NULL
  hooked,     \* hooked[k]: the number of objects with a hook of the kind
  fault       \* memory that is not mapped has been read

memoryVars == <<pageTable, functions, memory, buffer, hooked, fault>>

-----------------------------------------------------------------------------
(***************************************************************************)
(* Addresses, bytes and words.                                             *)
(***************************************************************************)
NoBuffer == [at |-> 0, size |-> 0]

\* The bytes of a pointer: those of NULL are zero, others are numbered.
PointerBytes(f) ==
  [i \in 0..WordSize - 1 |-> IF f = Null THEN Null ELSE <<f, i>>]

\* An unmapped address has the physical address 0, frame 0 is never used.
DldVirtToPhys(a) ==
  LET page == a \div PageSize IN
  IF page \in DOMAIN pageTable /\ pageTable[page] # 0
  THEN pageTable[page] * PageSize + (a % PageSize)
  ELSE 0

Mapped(a) == DldVirtToPhys(a) # 0

\* The address of the word a byte is in.
WordOf(a) == a - (a % WordSize)

\* The word at a virtual address.
Word(m, a) == [i \in 0..WordSize - 1 |-> m[DldVirtToPhys(a + i)]]

\* A write through virtual addresses: memcpy, bzero and assignments.
Store(m, a, len, Byte(_)) ==
  LET target == [p \in {DldVirtToPhys(a + i) : i \in 0..len - 1} |->
                   CHOOSE i \in 0..len - 1 : DldVirtToPhys(a + i) = p]
  IN [p \in DOMAIN m |-> IF p \in DOMAIN target THEN Byte(target[p]) ELSE m[p]]

memcpy(m, dst, src, len) ==
  LET Source(i) == m[DldVirtToPhys(src + i)] IN Store(m, dst, len, Source)

bzero(m, dst, len) ==
  LET Zero(i) == Null IN Store(m, dst, len, Zero)

Lost(m, dst, len) ==
  LET Unknown(i) == Junk IN Store(m, dst, len, Unknown)

-----------------------------------------------------------------------------
(***************************************************************************)
(* DldWriteWiredSrcToWiredDst.                                             *)
(***************************************************************************)
bcopy_phys(m, src, dst, cnt) ==
  [p \in DOMAIN m |->
     IF p \in dst..dst + cnt - 1 THEN m[src + (p - dst)] ELSE m[p]]

InPage(p) == PageSize - (p % PageSize)

\* As many bytes as possible without crossing a page.
WithinSource(src, dst, resid) == Min({InPage(src), resid})
ChunkSize(src, dst, resid) == Min({InPage(src), InPage(dst), resid})

\* One turn of the loop, which ends at the first page that is not mapped.
NextChunk(written, src, dst, len) ==
  LET done == written.bytes
      s == DldVirtToPhys(src + done)
      d == DldVirtToPhys(dst + done)
      cnt == ChunkSize(s, d, len - done)
  IN IF done = len \/ s = 0 \/ d = 0 THEN written
     ELSE [memory |-> bcopy_phys(written.memory, s, d, cnt),
           bytes  |-> done + cnt]

\* Every turn copies a byte or more: len turns are enough.
DldWriteWiredSrcToWiredDst(m, src, dst, len) ==
  LET after[n \in 0..len] ==
        IF n = 0 THEN [memory |-> m, bytes |-> 0]
        ELSE NextChunk(after[n - 1], src, dst, len)
  IN after[len]

-----------------------------------------------------------------------------
(***************************************************************************)
(* The sizes and places of the hooking code.                               *)
(***************************************************************************)
\* A pointer to the virtual member function n (from 0), by the C++ ABI.
MemberPointer(n) == 1 + n * WordSize

\* The number of the function, from 1.
DldConvertFunctionToVtableIndex(p) == (p - 1) \div WordSize + 1

\* HookedVtableSize: a function that a derived class adds comes after those
\* of the class.
fHookedClassVtaleSize ==
  WordSize * (DldConvertFunctionToVtableIndex(MemberPointer(Parent)) - 1)

\* &vtable[ index - 1 ]
NotScaled(vtable, index) == vtable + (index - 1)
SlotAt(vtable, index) == vtable + (index - 1) * WordSize

\* &OriginalFunction and &HookingFunction of the i-th entry.
OriginalAt(k, i) == InfoAt[k] + (i - 1) * 2 * WordSize
HookingAt(k, i)  == OriginalAt(k, i) + WordSize

Entries(k) ==
  UNION {{OriginalAt(k, i), HookingAt(k, i)} : i \in DOMAIN Hooked[k]}

\* The vtable, the entries of the two hookers and what is allocated later are
\* different places, and the entries are wired.
ASSUME MemoryLayout ==
  /\ \A k \in Kinds : /\ InfoAt[k] \in Nat /\ InfoAt[k] % WordSize = 0
                      /\ \A i \in DOMAIN Hooked[k] : Hooked[k][i] <= Parent
  /\ Entries("direct") \cap Entries("object") = {}
  /\ \A a \in Entries("direct") \cup Entries("object") :
       /\ \A n \in Functions : \/ a >= VtableAt + n * WordSize
                               \/ a + WordSize <= VtableAt
       /\ a + WordSize <= HeapAt
       /\ \A t \in PageTables : /\ a \div PageSize \in DOMAIN t
                                /\ t[a \div PageSize] # 0
  /\ \A n \in Functions : VtableAt + n * WordSize <= HeapAt

\* The two words of its header precede a vtable, the word behind it is none of
\* the entries and not allocated, IOMalloc returns wired memory, and the class
\* has more than a few functions (OSObject alone has).
ASSUME CopyLayout ==
  /\ (Parent - 1) * (WordSize - 1) >= 2 /\ MaxObjects \in Nat \ {0}
  /\ VtableAt >= 2 * WordSize
  /\ \A n \in Functions :
       /\ VtableAt + n * WordSize \notin Entries("direct") \cup Entries("object")
       /\ VtableAt + n * WordSize + WordSize <= HeapAt
  /\ \A t \in PageTables,
        a \in VtableAt - 2 * WordSize..VtableAt - 1 \cup
             HeapAt..HeapAt + (Parent + MaxAdded + 2 * Padding) * WordSize - 1 :
       a \div PageSize \in DOMAIN t /\ t[a \div PageSize] # 0

Hook(k, i) == <<k, i>>

\* The original is saved and the hook is written.
HookEntry(m, k, i, from, to) ==
  LET saved == memcpy(m, OriginalAt(k, i), SlotAt(from, Hooked[k][i]), WordSize)
  IN DldWriteWiredSrcToWiredDst(saved, HookingAt(k, i),
                                SlotAt(to, Hooked[k][i]), WordSize).memory

DldHookVtableFunctions(m, k, from, to) ==
  LET after[i \in 0..Len(Hooked[k])] ==
        IF i = 0 THEN m ELSE HookEntry(after[i - 1], k, i, from, to)
  IN after[Len(Hooked[k])]

RestoreEntry(m, k, i, vtable) ==
  DldWriteWiredSrcToWiredDst(m, OriginalAt(k, i), SlotAt(vtable, Hooked[k][i]),
                             WordSize).memory

FirstNotRestored(m, k, vtable) ==
  LET after[i \in 0..Len(Hooked[k])] ==
        IF i <= 1 THEN m ELSE RestoreEntry(after[i - 1], k, i, vtable)
  IN after[Len(Hooked[k])]

DldUnHookVtableFunctions(m, k, vtable) ==
  LET after[i \in 0..Len(Hooked[k])] ==
        IF i = 0 THEN m ELSE RestoreEntry(after[i - 1], k, i, vtable)
  IN after[Len(Hooked[k])]

\* OriginalFunction is set to NULL, or the entries are freed and allocated anew.
Forget(m, k) ==
  LET after[i \in 0..Len(Hooked[k])] ==
        IF i = 0 THEN m ELSE bzero(after[i - 1], OriginalAt(k, i), WordSize)
  IN after[Len(Hooked[k])]

-----------------------------------------------------------------------------
(***************************************************************************)
(* The scan for the end of the vtable.  It asks whether the address        *)
(* vtable + virtualsParent + virtualsAdded is mapped, in bytes, and reads  *)
(* the entry virtualsParent + virtualsAdded - 1, in words.                 *)
(***************************************************************************)
EntryRead(added) == VtableAt + (Parent + added - 1) * WordSize

AskedMapped(added) ==
  LET a == VtableAt + Parent + added IN
  Mapped(a) /\ Mapped(a + WordSize - 1)

ReadsUnmapped(added) == AskedMapped(added) /\ ~Mapped(EntryRead(added))

Continues(added) ==
  /\ AskedMapped(added)
  /\ Word(memory, EntryRead(added)) # PointerBytes(Null)
  /\ added < MaxAdded

\* virtualsAdded at the end of the loop, or where the read is not possible.
VirtualsAdded ==
  CHOOSE n \in 0..MaxAdded :
    /\ ReadsUnmapped(n) \/ ~Continues(n)
    /\ \A j \in 0..n - 1 : ~ReadsUnmapped(j) /\ Continues(j)

AddedNotCounted == fHookedClassVtaleSize
CopySize == fHookedClassVtaleSize + VirtualsAdded * WordSize

BufferSize == CopySize + 2 * Padding * WordSize

-----------------------------------------------------------------------------
\* The memory before anything is hooked: the vtable, the entries that hold
\* the hooking functions, unused memory from HeapAt on, zeroes elsewhere.
InitialPointer(a) ==
  LET index == (a - VtableAt) \div WordSize
      info(k) == (a - InfoAt[k]) \div (2 * WordSize) + 1
      isHook(k) == a \in {HookingAt(k, i) : i \in DOMAIN Hooked[k]}
  IN IF a >= VtableAt /\ index < functions THEN <<"function", index + 1>>
     ELSE IF isHook("direct") THEN Hook("direct", info("direct"))
          ELSE IF isHook("object") THEN Hook("object", info("object"))
               ELSE Null

InitialByte(a) ==
  IF a >= HeapAt THEN Junk
  ELSE PointerBytes(InitialPointer(WordOf(a)))[a % WordSize]

Addresses == UNION {p * PageSize..(p + 1) * PageSize - 1 :
                      p \in {q \in DOMAIN pageTable : pageTable[q] # 0}}

\* A class's functions are all in memory; a zero word need not follow.
MemoryInit ==
  /\ pageTable \in PageTables
  /\ functions \in {n \in Functions :
                      \A i \in 1..n : Mapped(VtableAt + (i - 1) * WordSize)}
  /\ memory = [p \in {DldVirtToPhys(a) : a \in Addresses} |->
                 InitialByte(CHOOSE a \in Addresses : DldVirtToPhys(a) = p)]
  /\ buffer = NoBuffer
  /\ hooked = [k \in Kinds |-> 0]
  /\ fault = FALSE

\* HookVtableIntWoLock: the first object of the class patches the vtable.
HookVtable ==
  /\ hooked["direct"] < MaxObjects
  /\ hooked' = [hooked EXCEPT !["direct"] = @ + 1]
  /\ memory' = IF hooked["direct"] = 0
               THEN DldHookVtableFunctions(memory, "direct", VtableAt, VtableAt)
               ELSE memory
  /\ UNCHANGED <<pageTable, functions, buffer, fault>>

\* UnHookObjectIntWoLock: the last one restores it, and its entry is freed.
UnHookVtable ==
  /\ hooked["direct"] > 0
  /\ hooked' = [hooked EXCEPT !["direct"] = @ - 1]
  /\ memory' = IF hooked["direct"] = 1
               THEN Forget(DldUnHookVtableFunctions(memory, "direct", VtableAt),
                           "direct")
               ELSE memory
  /\ UNCHANGED <<pageTable, functions, buffer, fault>>

\* HookObjectIntWoLock.
ScanFaults ==
  /\ buffer = NoBuffer
  /\ ReadsUnmapped(VirtualsAdded)
  /\ fault' = TRUE
  /\ UNCHANGED <<pageTable, functions, memory, buffer, hooked>>

\* The vtable is larger than the scan goes, or IOMalloc fails.
HookObjectRefused ==
  /\ buffer = NoBuffer
  /\ ~ReadsUnmapped(VirtualsAdded)
  /\ UNCHANGED memoryVars

\* The padding is zeroed, then the two words of the header and the table are
\* copied.
CopyVtable(m, vtable, size) ==
  LET padding == Padding * WordSize
      front   == bzero(m, vtable - padding, padding)
      padded  == bzero(front, vtable + size, padding)
      header  == memcpy(padded, vtable - 2 * WordSize, VtableAt - 2 * WordSize,
                        2 * WordSize)
  IN memcpy(header, vtable, VtableAt, size)

NewVtableAt == HeapAt + Padding * WordSize

\* The entry of the object may then not be allocated or not be inserted: the
\* copy stays, the object is not counted.
CopyAndHook ==
  /\ buffer = NoBuffer
  /\ ~ReadsUnmapped(VirtualsAdded)
  /\ VirtualsAdded < MaxAdded
  /\ buffer' = [at |-> HeapAt, size |-> BufferSize]
  /\ memory' = DldHookVtableFunctions(
                 CopyVtable(memory, NewVtableAt, CopySize),
                 "object", VtableAt, NewVtableAt)
  /\ \E n \in {0, 1} : hooked' = [hooked EXCEPT !["object"] = n]
  /\ UNCHANGED <<pageTable, functions, fault>>

HookObject ==
  /\ buffer # NoBuffer
  /\ hooked["object"] < MaxObjects
  /\ hooked' = [hooked EXCEPT !["object"] = @ + 1]
  /\ UNCHANGED <<pageTable, functions, memory, buffer, fault>>

\* UnHookObjectIntWoLock: with the last object the copy is freed.
UnHookObject ==
  /\ hooked["object"] > 0
  /\ hooked' = [hooked EXCEPT !["object"] = @ - 1]
  /\ IF hooked["object"] = 1
     THEN /\ memory' = Forget(Lost(memory, buffer.at, buffer.size), "object")
          /\ buffer' = NoBuffer
     ELSE UNCHANGED <<memory, buffer>>
  /\ UNCHANGED <<pageTable, functions, fault>>

MemoryNext ==
  /\ ~fault
  /\ \/ HookVtable
     \/ UnHookVtable
     \/ ScanFaults
     \/ HookObjectRefused
     \/ CopyAndHook
     \/ HookObject
     \/ UnHookObject

MemorySpec == MemoryInit /\ [][MemoryNext]_memoryVars

-----------------------------------------------------------------------------

FunctionPointers ==
  ({"function"} \X UNION {1..n : n \in Functions}) \cup
  UNION {{Hook(k, i) : i \in DOMAIN Hooked[k]} : k \in Kinds}

\* NULL is no function, a zero byte no byte of a pointer to one.
ASSUME NullIsNone ==
  Null \notin FunctionPointers \cup (FunctionPointers \X (0..WordSize - 1))

Pointers == {Null} \cup FunctionPointers

\* Memory holds whole pointers, no write tears one, and unused bytes.
MemoryTypeOK ==
  /\ pageTable \in PageTables
  /\ functions \in Functions
  /\ \A a \in {b \in Addresses : b % WordSize = 0} :
       Word(memory, a) \in {PointerBytes(f) : f \in Pointers} \cup
                           {[i \in 0..WordSize - 1 |-> Junk]}
  /\ buffer = NoBuffer \/ (buffer.at = HeapAt /\ buffer.size > 0)
  /\ hooked \in [Kinds -> 0..MaxObjects]
  /\ fault \in BOOLEAN

\* A write copies the bytes up to the first one whose page is not mapped, at
\* the source or at the target, touches nothing else and tells how many it
\* has copied, wherever the two ranges cross their pages
\* (DldWriteWiredSrcToWiredDst).
WritesPrefix ==
  \A ends \in {<<VtableAt, HeapAt>>, <<HeapAt, VtableAt>>},
     i1, i2 \in 0..PageSize, len \in {WordSize, PageSize, PageSize + WordSize} :
    LET src == ends[1] + i1
        dst == ends[2] + i2
        written == DldWriteWiredSrcToWiredDst(memory, src, dst, len)
        n == Max({j \in 0..len : \A i \in 0..j - 1 :
                                   Mapped(src + i) /\ Mapped(dst + i)})
    IN /\ written.bytes = n
       /\ written.memory = memcpy(memory, dst, src, n)

\* Whenever the private vtable is made, it has all of the class's vtable, the
\* header and the ending zero entry included, with the hooks in the hooked
\* entries and nowhere else, and the originals of these are saved: calls
\* through it reach what they reached before.  If a zero entry follows the
\* functions the scan for it reads mapped memory only (HookObjectIntWoLock).
HookOfEntry(index) ==
  {Hook("object", i) : i \in {j \in DOMAIN Hooked["object"] :
                               Hooked["object"][j] = index}}

PrivateComplete ==
  [][/\ buffer = NoBuffer /\ buffer' # NoBuffer =>
          /\ \A i \in -2..functions :
               Word(memory', NewVtableAt + i * WordSize) \in
                 IF HookOfEntry(i + 1) = {}
                 THEN {Word(memory, VtableAt + i * WordSize)}
                 ELSE {PointerBytes(f) : f \in HookOfEntry(i + 1)}
          /\ \A i \in DOMAIN Hooked["object"] :
               Word(memory', OriginalAt("object", i)) =
                 Word(memory, VtableAt + (Hooked["object"][i] - 1) * WordSize)
     /\ fault' => ~Mapped(VtableAt + functions * WordSize)]_memoryVars

\* Hooking changes the hooked entries of the vtable, its own entries and the
\* buffer it has allocated, no other byte; and when no object has a direct
\* hook the vtable is what it was.
Patched(a) ==
  /\ hooked["direct"] > 0
  /\ \E i \in DOMAIN Hooked["direct"] :
       WordOf(a) = VtableAt + (Hooked["direct"][i] - 1) * WordSize

MemoryExact ==
  \A a \in Addresses :
    \/ memory[DldVirtToPhys(a)] = InitialByte(a)
    \/ Patched(a)
    \/ /\ hooked["direct"] > 0
       /\ \E i \in DOMAIN Hooked["direct"] : WordOf(a) = OriginalAt("direct", i)
    \/ /\ buffer # NoBuffer
       /\ \E i \in DOMAIN Hooked["object"] : WordOf(a) = OriginalAt("object", i)
    \/ a \in buffer.at..buffer.at + buffer.size - 1

\* "so continue up to the first zero or invalid memory - any of this two
\* conditions guarantees that a full vtable will be covered" (comment in
\* HookObjectIntWoLock): the scan ends before it reads memory that is not
\* mapped.
NoInvalidRead == ~fault

=============================================================================
