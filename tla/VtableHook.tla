----------------------------- MODULE VtableHook -----------------------------
(***************************************************************************)
(* Direct vtable hooking, src/src/DldHookerCommonClass.cpp: the hash table *)
(* entries, reference counts and vtable patches that HookVtableIntWoLock   *)
(* and UnHookObjectIntWoLock keep, and the free() hook that calls the      *)
(* latter.  Each action is one critical section of the table's lock.       *)
(*                                                                         *)
(* Abstractions.  All hooked slots of a vtable go through the same loops,  *)
(* so a vtable is represented by one slot.  A function is named by what    *)
(* owns it: a hooker stands for its hooking function, a vtable for the     *)
(* function it held in the slot before anybody hooked it.  A key's         *)
(* InheritanceDepth and leaf metaclass together designate the hooked base  *)
(* class, hence the hooker, which replaces the depth in the key.  The      *)
(* retain count of an entry is the set of those who hold it.               *)
(***************************************************************************)
EXTENDS Naturals, FiniteSets

CONSTANTS
  Objects,      \* addresses of the C++ objects
  Classes,      \* their leaf metaclasses
  Vtables,      \* vtables of these classes, those set by other software too
  Hookers,      \* DldHookerCommonClass instances of type DldHookTypeVtable
  ClassOf,      \* ClassOf[o]: object->getMetaClass()
  Supers,       \* Supers[c]: class c and the hooked classes it derives from
  VtablesOf,    \* VtablesOf[c]: the vtables an object of class c may have
  Serves,       \* Serves[h]: the leaf classes whose objects h is called for
  EntryIds,     \* memory for the vtable entries
  WordMax,      \* largest value of the UInt32 counters
  NullVtable,   \* NULL in the Vtable field of a key
  NoEntry,      \* what a lookup returns for a key that is not in the table
  Idle          \* no function

ASSUME ConstantsTyped ==
  /\ ClassOf \in [Objects -> Classes]
  /\ VtablesOf \in [Classes -> SUBSET Vtables]
  /\ Serves \in [Hookers -> SUBSET Classes]
  /\ WordMax \in Nat \ {0}

\* Classes derive from each other in a line.  A hooker's InheritanceDepth is one
\* place in it, the classes it serves do not derive from each other.
ASSUME ClassesDerived ==
  /\ Supers \in [Classes -> SUBSET Classes]
  /\ \A c \in Classes :
       /\ c \in Supers[c]
       /\ \A d \in Supers[c] : Supers[d] \subseteq Supers[c]
       /\ Supers[c] # {c} => \E d \in Supers[c] : Supers[d] = Supers[c] \ {c}
  /\ \A c \in Classes, h \in Hookers :
       \A a, b \in Supers[c] \cap Serves[h] : a = b

\* The counters of objects never overflow.
ASSUME CountersFit ==
  /\ IsFiniteSet(Objects)
  /\ Cardinality(Objects) <= WordMax

ASSUME ConstantsDistinct ==
  /\ Vtables \cap Hookers = {}
  /\ NullVtable \notin Vtables
  /\ NoEntry \notin EntryIds
  /\ Idle \notin Vtables \cup Hookers

VARIABLES
  live,      \* the objects that are constructed and not yet destroyed
  vptr,      \* vptr[o]: the vtable pointer of the object
  slot,      \* slot[v]: the function in the hooked slot of the vtable
  hash,      \* hash[k]: the entry found under a vtable key
  objKey,    \* objKey[<<o, h>>]: VtableEntry of the entry of a hooked object
  entry,     \* entry[e]: a vtable entry, Blank while it is not allocated
  counter,   \* counter[h]: HookedObjectsCounter
  run,       \* run[o]: the function that the thread freeing o is executing
  original,  \* original[o]: the result of its call of GetOriginalFunction
  crashed    \* a NULL entry has been dereferenced

registry == <<slot, hash, objKey, entry, counter, crashed>>
vars == <<live, vptr, registry, run, original>>

-----------------------------------------------------------------------------

Funcs == Hookers \cup Vtables
Keys  == (Vtables \cup {NullVtable}) \X Classes \X Hookers

\* The hash table holds an entry once per key, the entry of a hooked object
\* holds its VtableEntry.
ByKey(k)       == <<"key", k>>
ByObject(o, h) == <<"object", <<o, h>>>>
Holders == ({"key"} \X Keys) \cup ({"object"} \X (Objects \X Hookers))

Entries == [key      : Keys \cup {NoEntry},
            refCount : 0..WordMax,
            orig     : Funcs \cup {Idle},
            holders  : SUBSET Holders]

Blank == [key |-> NoEntry, refCount |-> 0, orig |-> Idle, holders |-> {}]

\* The last release of an entry runs DldHookedObjectEntry::free.
NotFreed(r) == r
Settle(r) == IF r.holders = {} THEN Blank ELSE r

FreeEntries == {e \in EntryIds : entry[e].holders = {}}

\* UInt32 arithmetic of ReferenceCount and HookedObjectsCounter.
NotCounted(n) == n
Inc(n) == IF n = WordMax THEN 0 ELSE n + 1
Dec(n) == IF n = 0 THEN WordMax ELSE n - 1

\* The ReferenceCount of an entry that nothing refers to.
OneOrNone(n) == n <= 1
Unused(n) == n = 0

\* VtableHookKey1 and VtableHookKey2.
Key1(h, o) == <<vptr[o], ClassOf[o], h>>
NotNullKey(h, o) == Key1(h, o)
Key2(h, o) == <<NullVtable, ClassOf[o], h>>

\* The keys that hooking a new vtable adds: VtableHookKey2 may be in use by an
\* entry of another vtable of the class.
NotUnderKey1(h, o) == {k \in {Key2(h, o)} : hash[k] = NoEntry}
NewKeys(h, o) == {Key1(h, o)} \cup {k \in {Key2(h, o)} : hash[k] = NoEntry}

TypeOK ==
  /\ live \subseteq Objects
  /\ vptr \in [Objects -> Vtables]
  /\ slot \in [Vtables -> Funcs]
  /\ hash \in [Keys -> EntryIds \cup {NoEntry}]
  /\ objKey \in [Objects \X Hookers -> EntryIds \cup {NoEntry}]
  /\ entry \in [EntryIds -> Entries]
  /\ counter \in [Hookers -> 0..WordMax]
  /\ run \in [Objects -> Funcs \cup {Idle}]
  /\ original \in [Objects -> Funcs \cup {Idle}]
  /\ crashed \in BOOLEAN

Init ==
  /\ live = {}
  /\ vptr \in {f \in [Objects -> Vtables] :
                 \A o \in Objects : f[o] \in VtablesOf[ClassOf[o]]}
  /\ slot = [v \in Vtables |-> v]
  /\ hash = [k \in Keys |-> NoEntry]
  /\ objKey = [p \in Objects \X Hookers |-> NoEntry]
  /\ entry = [e \in EntryIds |-> Blank]
  /\ counter = [h \in Hookers |-> 0]
  /\ run = [o \in Objects |-> Idle]
  /\ original = [o \in Objects |-> Idle]
  /\ crashed = FALSE

-----------------------------------------------------------------------------
(***************************************************************************)
(* IOKit and other software, external to the repository: objects appear,   *)
(* an object's vtable may be replaced by another one of its class.  Only   *)
(* an object that nobody frees is handed to the hooking code, the caller   *)
(* holds a reference.                                                      *)
(***************************************************************************)
Usable(o) == o \in live /\ run[o] = Idle

Construct(o) ==
  /\ o \notin live
  /\ live' = live \cup {o}
  /\ \E v \in VtablesOf[ClassOf[o]] : vptr' = [vptr EXCEPT ![o] = v]
  /\ UNCHANGED <<registry, run, original>>

ReplaceVtable(o, v) ==
  /\ Usable(o)
  /\ v \in VtablesOf[ClassOf[o]] \ {vptr[o]}
  /\ vptr' = [vptr EXCEPT ![o] = v]
  /\ UNCHANGED <<live, registry, run, original>>

-----------------------------------------------------------------------------
(***************************************************************************)
(* HookVtableIntWoLock.  MetaClass and ClassName, which it also sets, are  *)
(* the same for every call of one hooker and are left out.                 *)
(***************************************************************************)
HookCall(h, o) ==
  /\ Usable(o)
  /\ ClassOf[o] \in Serves[h]
  /\ UNCHANGED <<live, vptr, run, original, crashed>>

\* The object is already in the table: success, nothing to do.
HookAgain(h, o) ==
  /\ HookCall(h, o)
  /\ objKey[<<o, h>>] # NoEntry
  /\ UNCHANGED registry

\* The vtable has been hooked for another object: add an entry for this one.
KnownVtableNotRetained(h, o) ==
  LET e == hash[Key1(h, o)] IN
  /\ HookCall(h, o)
  /\ objKey[<<o, h>>] = NoEntry
  /\ e # NoEntry
  /\ objKey' = [objKey EXCEPT ![<<o, h>>] = e]
  /\ entry' = [entry EXCEPT ![e].refCount = Inc(@)]
  /\ counter' = [counter EXCEPT ![h] = Inc(@)]
  /\ UNCHANGED <<slot, hash>>

HookKnownVtable(h, o) ==
  LET e == hash[Key1(h, o)] IN
  /\ HookCall(h, o)
  /\ objKey[<<o, h>>] = NoEntry
  /\ e # NoEntry
  /\ objKey' = [objKey EXCEPT ![<<o, h>>] = e]
  /\ entry' = [entry EXCEPT ![e].refCount = Inc(@),
                            ![e].holders = @ \cup {ByObject(o, h)}]
  /\ counter' = [counter EXCEPT ![h] = Inc(@)]
  /\ UNCHANGED <<slot, hash>>

\* The entry for the object is not allocated, or AddObject fails and the
\* reference, ReferenceCount and HookedObjectsCounter are taken back.
HookKnownVtableFails(h, o) ==
  LET e == hash[Key1(h, o)] IN
  /\ HookCall(h, o)
  /\ objKey[<<o, h>>] = NoEntry
  /\ e # NoEntry
  /\ \/ UNCHANGED <<entry, counter>>
     \/ /\ entry' = [entry EXCEPT ![e].refCount = Dec(Inc(@))]
        /\ counter' = [counter EXCEPT ![h] = Dec(Inc(@))]
  /\ UNCHANGED <<slot, hash, objKey>>

\* The slot already holds the hooking function but Key1 is not in the table.
RefuseDoubleHook(h, o) ==
  /\ HookCall(h, o)
  /\ objKey[<<o, h>>] = NoEntry
  /\ hash[Key1(h, o)] = NoEntry
  /\ slot[vptr[o]] = h
  /\ UNCHANGED registry

NoDoubleHookCheck(h, o) ==
  /\ HookCall(h, o)
  /\ objKey[<<o, h>>] = NoEntry
  /\ hash[Key1(h, o)] = NoEntry

ObjectNotLookedUp(h, o) ==
  /\ HookCall(h, o)
  /\ hash[Key1(h, o)] = NoEntry
  /\ slot[vptr[o]] # h

HookNewVtableCall(h, o) ==
  /\ HookCall(h, o)
  /\ objKey[<<o, h>>] = NoEntry
  /\ hash[Key1(h, o)] = NoEntry
  /\ slot[vptr[o]] # h

OriginalNotSaved(h, o, e) ==
  /\ HookNewVtableCall(h, o)
  /\ e \in FreeEntries
  /\ hash' = [k \in Keys |-> IF k \in NewKeys(h, o) THEN e ELSE hash[k]]
  /\ entry' = [entry EXCEPT ![e] =
                 [key      |-> Key1(h, o),
                  refCount |-> 1,
                  orig     |-> Idle,
                  holders  |-> {ByKey(k) : k \in NewKeys(h, o)} \cup
                                 {ByObject(o, h)}]]
  /\ objKey' = [objKey EXCEPT ![<<o, h>>] = e]
  /\ counter' = [counter EXCEPT ![h] = Inc(@)]
  /\ slot' = [slot EXCEPT ![vptr[o]] = h]

\* The vtable is hooked: a new entry goes under Key1, and under Key2 unless
\* an entry of another vtable of the class is there, whose ReferenceCount
\* then also counts the new entry; DldHookVtableFunctions patches the slot.
HookNewVtable(h, o, e) ==
  LET existing == hash[Key2(h, o)]
      added == [key      |-> Key1(h, o),
                refCount |-> 1,
                orig     |-> slot[vptr[o]],
                holders  |-> {ByKey(k) : k \in NewKeys(h, o)} \cup
                               {ByObject(o, h)}]
  IN
  /\ HookNewVtableCall(h, o)
  /\ e \in FreeEntries
  /\ hash' = [k \in Keys |-> IF k \in NewKeys(h, o) THEN e ELSE hash[k]]
  /\ entry' = [f \in EntryIds |->
                 IF f = e THEN added
                 ELSE IF f = existing
                      THEN [entry[f] EXCEPT !.refCount = Inc(@)]
                      ELSE entry[f]]
  /\ objKey' = [objKey EXCEPT ![<<o, h>>] = e]
  /\ counter' = [counter EXCEPT ![h] = Inc(@)]
  /\ slot' = [slot EXCEPT ![vptr[o]] = h]

\* IOMalloc or allocateNew fails, nothing has been changed yet.
HookNewVtableNoMemory(h, o) ==
  /\ HookNewVtableCall(h, o)
  /\ UNCHANGED registry

CounterNotUndone(h, o, failed) ==
  /\ HookNewVtableCall(h, o)
  /\ hash[Key2(h, o)] # NoEntry => failed # "Key2"
  /\ counter' = [counter EXCEPT ![h] = IF failed = "Object" THEN Inc(@) ELSE @]
  /\ UNCHANGED <<slot, objKey, hash, entry>>

\* The AddObject call for Key2, Key1 or the object fails: those of the keys
\* that are in the table are removed, the counts are taken back and the new
\* entries are released, which frees them.
HookNewVtableUndone(h, o, failed) ==
  LET existing == hash[Key2(h, o)] IN
  /\ HookNewVtableCall(h, o)
  /\ existing # NoEntry => failed # "Key2"
  /\ hash' = [k \in Keys |-> IF k \in NewKeys(h, o) THEN NoEntry ELSE hash[k]]
  /\ entry' = [f \in EntryIds |->
                 IF f = existing
                 THEN [entry[f] EXCEPT !.refCount = Dec(Inc(@))]
                 ELSE entry[f]]
  /\ counter' = [counter EXCEPT ![h] =
                   IF failed = "Object" THEN Dec(Inc(@)) ELSE @]
  /\ UNCHANGED <<slot, objKey>>

-----------------------------------------------------------------------------
(***************************************************************************)
(* UnHookObjectIntWoLock for a hooker of type DldHookTypeVtable: what it   *)
(* does after the removal of a per-object hook (module HookChain), which   *)
(* no object has here.                                                     *)
(***************************************************************************)
UnHookUnknown(h, o) ==
  /\ objKey[<<o, h>>] = NoEntry
  /\ UNCHANGED registry

\* Everything but the hooker's counter, when the object is in the table.
ReleaseVtable(h, o) ==
  LET nonNull == objKey[<<o, h>>]
      key1 == entry[nonNull].key
      key2 == <<NullVtable, key1[2], h>>
      null == hash[key2]
      left == Dec(entry[nonNull].refCount)
      last == Unused(left)
      \* the entry that RemoveObject takes out of the table under Key1
      gone == IF last THEN hash[key1] ELSE NoEntry
      nullLeft == IF null = nonNull THEN left
                  ELSE IF gone # NoEntry THEN Dec(entry[null].refCount)
                       ELSE entry[null].refCount
      removed == (IF last THEN {key1} ELSE {}) \cup
                   (IF null # NoEntry /\ Unused(nullLeft) THEN {key2} ELSE {})
      dropped(f) == (IF f = nonNull THEN {ByObject(o, h)} ELSE {}) \cup
                      {ByKey(k) : k \in {j \in removed : hash[j] = f}}
  IN
  /\ nonNull # NoEntry
  /\ slot' = IF last THEN [slot EXCEPT ![key1[1]] = entry[nonNull].orig]
             ELSE slot
  /\ objKey' = [objKey EXCEPT ![<<o, h>>] = NoEntry]
  /\ crashed' = (null = NoEntry /\ gone # NoEntry)
  /\ hash' = [k \in Keys |-> IF k \in removed THEN NoEntry ELSE hash[k]]
  /\ entry' = [f \in EntryIds |->
                 Settle([entry[f] EXCEPT
                   !.refCount = IF f = nonNull THEN left
                                ELSE IF f = null THEN nullLeft ELSE @,
                   !.holders = @ \ dropped(f)])]

UnHookKnown(h, o) ==
  /\ ReleaseVtable(h, o)
  /\ counter' = [counter EXCEPT ![h] = Dec(@)]

NoUnHook(h, o) == UNCHANGED registry
UnHookInt(h, o) == UnHookUnknown(h, o) \/ UnHookKnown(h, o)

\* fUnHookObject, outside free().
UnHookObject(h, o) ==
  /\ Usable(o)
  /\ UnHookInt(h, o)
  /\ UNCHANGED <<live, vptr, run, original>>

-----------------------------------------------------------------------------
(***************************************************************************)
(* The destruction of an object: free() is dispatched through its vtable,  *)
(* a hooking function fetches the original one, unhooks and calls it.  The *)
(* free() of a derived class goes on to super::free(), which the compiler  *)
(* of the kernel dispatches through the vtable of the super class, so that *)
(* a hook of the super class meets objects of other leaf classes.          *)
(***************************************************************************)
\* keyMetaClass: the leaf class, or in a super::Foo() call the class that is
\* at the InheritanceDepth of the hooker.
LeafOnly(h, o) == ClassOf[o]
KeyClass(h, o) ==
  LET line == Supers[ClassOf[o]] IN
  IF line \cap Serves[h] = {} THEN ClassOf[o]
  ELSE CHOOSE c \in line : c \in Serves[h]

\* GetOriginalFunction: the entry of the object, of its vtable, of the class,
\* or else the slot of the object's current vtable.  The object is in the table
\* under its leaf class.
SlotOnly(h, o) == slot[vptr[o]]
OriginalFunction(h, o) ==
  LET c == KeyClass(h, o)
      byVtable == hash[<<vptr[o], c, h>>]
      found == IF c = ClassOf[o] /\ objKey[<<o, h>>] # NoEntry
               THEN objKey[<<o, h>>]
               ELSE IF byVtable # NoEntry THEN byVtable
                    ELSE hash[<<NullVtable, c, h>>]
  IN IF found # NoEntry THEN entry[found].orig ELSE slot[vptr[o]]

CallFree(o) ==
  /\ Usable(o)
  /\ run' = [run EXCEPT ![o] = slot[vptr[o]]]
  /\ UNCHANGED <<live, vptr, registry, original>>

GetOriginalFunction(o) ==
  /\ run[o] \in Hookers
  /\ original[o] = Idle
  /\ original' = [original EXCEPT ![o] = OriginalFunction(run[o], o)]
  /\ UNCHANGED <<live, vptr, registry, run>>

free_hook(o) ==
  /\ run[o] \in Hookers
  /\ original[o] # Idle
  /\ UnHookInt(run[o], o)
  /\ run' = [run EXCEPT ![o] = original[o]]
  /\ original' = [original EXCEPT ![o] = Idle]
  /\ UNCHANGED <<live, vptr>>

\* The thread is in the free() of class c.
FreesAs(c, o) == c \in Supers[ClassOf[o]] /\ run[o] \in VtablesOf[c]

SuperFree(o) ==
  /\ \E c, d \in Classes :
       /\ FreesAs(c, o)
       /\ d \in Supers[c] /\ Supers[d] = Supers[c] \ {c}
       /\ \E v \in VtablesOf[d] : run' = [run EXCEPT ![o] = slot[v]]
  /\ UNCHANGED <<live, vptr, registry, original>>

Destroy(o) ==
  /\ run[o] \in Vtables
  /\ \A c \in Classes : FreesAs(c, o) => Supers[c] = {c}
  /\ live' = live \ {o}
  /\ run' = [run EXCEPT ![o] = Idle]
  /\ UNCHANGED <<vptr, registry, original>>

-----------------------------------------------------------------------------

\* The calls that do not return kIOReturnSuccess.
FailedHook(h, o) ==
  \/ HookKnownVtableFails(h, o)
  \/ RefuseDoubleHook(h, o)
  \/ HookNewVtableNoMemory(h, o)
  \/ \E failed \in {"Key2", "Key1", "Object"} :
        HookNewVtableUndone(h, o, failed)

HookVtable(h, o) ==
  \/ HookAgain(h, o)
  \/ HookKnownVtable(h, o)
  \/ \E e \in EntryIds : HookNewVtable(h, o, e)
  \/ FailedHook(h, o)

\* What the code in the repository does: objects are unhooked by free() only.
FreeNext ==
  /\ ~crashed
  /\ \E o \in Objects :
       \/ Construct(o)
       \/ \E v \in Vtables : ReplaceVtable(o, v)
       \/ \E h \in Hookers : HookVtable(h, o)
       \/ CallFree(o)
       \/ GetOriginalFunction(o)
       \/ free_hook(o)
       \/ SuperFree(o)
       \/ Destroy(o)

\* What the interface allows.
Next ==
  \/ FreeNext
  \/ \E o \in Objects, h \in Hookers : ~crashed /\ UnHookObject(h, o)

FreeSpec == Init /\ [][FreeNext]_vars
Spec == Init /\ [][Next]_vars

\* A thread inside free() is never blocked for good: the lock it waits for is
\* held for one action only, so each of its steps is weakly fair.
FairSpec ==
  /\ Spec
  /\ \A o \in Objects :
       WF_vars(GetOriginalFunction(o) \/ free_hook(o) \/ SuperFree(o) \/ Destroy(o))

-----------------------------------------------------------------------------
(***************************************************************************)
(* What holds for every choice of vtables, as long as the hookers serve    *)
(* disjoint sets of leaf classes.                                          *)
(***************************************************************************)
HookersDisjoint ==
  /\ \A g, h \in Hookers : g # h => Serves[g] \cap Serves[h] = {}
  /\ \A b, c \in Classes : b # c => VtablesOf[b] \cap VtablesOf[c] = {}

Hooked(h) == {o \in Objects : objKey[<<o, h>>] # NoEntry}
Linked(e) == {p \in Objects \X Hookers : objKey[p] = e}

\* A vtable is patched by a hooker exactly while its entry is in the table:
\* an entry without a patch never intercepts, a patch without an entry has no
\* original function to call (HookVtableIntWoLock, UnHookObjectIntWoLock).
PatchedIffInTable ==
  \A v \in Vtables, h \in Hookers :
    slot[v] = h <=> \E c \in Classes : hash[<<v, c, h>>] # NoEntry

\* The retain counts balance on every path, failures included: an entry is
\* held by the keys under which it can be found and by the entries of the
\* objects that refer to it, so it is freed neither early nor never.
HoldersExact ==
  \A e \in EntryIds :
    entry[e].holders =
      {ByKey(k) : k \in {j \in Keys : hash[j] = e}} \cup
      {ByObject(p[1], p[2]) : p \in Linked(e)}

\* HookedObjectsCounter is the number of objects the hooker has in the table,
\* it never wraps below zero.
CounterExact ==
  \A h \in Hookers : counter[h] = Cardinality(Hooked(h))

\* No entry records the hooking function itself as the original one, which
\* the hook would then call for ever: a vtable hooked for objects of another
\* class is not hooked again (the double hook check of HookVtableIntWoLock).
NeverOwnOriginal ==
  \A e \in EntryIds :
    entry[e].holders # {} => entry[e].orig # entry[e].key[3]

\* A call of HookVtableIntWoLock that fails, at whatever point, leaves the
\* table, the counts and the vtable as they were: what was done before the
\* failure is taken back.
FailedHookUndone ==
  [][\A h \in Hookers, o \in Objects :
       FailedHook(h, o) => UNCHANGED registry]_vars

-----------------------------------------------------------------------------
(***************************************************************************)
(* What needs in addition that all objects of a class use one vtable.      *)
(***************************************************************************)
OneVtable ==
  \A c \in Classes : \A u, v \in VtablesOf[c] : u = v

\* ReferenceCount is the number of hooked objects that use the entry: the
\* entry and the patch stay until the last of them is unhooked, no longer.
RefCountExact ==
  \A e \in EntryIds : entry[e].refCount = Cardinality(Linked(e))

\* GetOriginalFunction finds the function that the hook stands for, the free()
\* of the leaf class or, in a super::free() call, of the super class, also when
\* other threads have unhooked the vtable since the call was dispatched.  Not
\* so in a super call when no object of the super class is hooked any more: the
\* slot that is then read is the derived object's own.
OriginalIsOriginal ==
  [][\A o \in Objects : GetOriginalFunction(o) =>
       \E c \in Supers[ClassOf[o]] \cap Serves[run[o]] :
         \/ original'[o] \in VtablesOf[c]
         \/ /\ c # ClassOf[o]
            /\ \A p \in Objects :
                 ClassOf[p] = c => objKey[<<p, run[o]>>] = NoEntry]_vars

\* When no object is in the table the hooking code has left no trace.
CleanWhenUnhooked ==
  (\A h \in Hookers : Hooked(h) = {}) =>
    /\ \A v \in Vtables : slot[v] = v
    /\ \A k \in Keys : hash[k] = NoEntry
    /\ \A e \in EntryIds : entry[e] = Blank

\* The NULL vtable entry is there whenever UnHookObjectIntWoLock needs it.
NoNullEntry == ~crashed

\* The hook of a super class is about to call another free() than that of the
\* super class.
Misled(o) ==
  /\ original[o] # Idle
  /\ KeyClass(run[o], o) # ClassOf[o]
  /\ original[o] \notin VtablesOf[KeyClass(run[o], o)]

\* Every free() reaches the function that destroys the object, through the
\* hooks of all classes it derives from, unless a super call is misled.
FreeTerminates ==
  \A o \in Objects : run[o] # Idle ~> run[o] = Idle \/ Misled(o)

-----------------------------------------------------------------------------
(***************************************************************************)
(* What the users of one hooker may think it is: module HookRegistry.      *)
(***************************************************************************)
HookedObjects == UNION {Hooked(h) : h \in Hookers}

\* free() of an object runs the hook of its class, or the function of its class
\* and those of the super classes with their hooks, never that of another class.
FreeingIn(o) ==
  IF run[o] = Idle THEN "no"
  ELSE IF run[o] \in Hookers /\ ClassOf[o] \in Serves[run[o]] THEN "hook"
       ELSE IF run[o] \in Hookers \/ \E c \in Classes : FreesAs(c, o)
            THEN "class" ELSE "wrong class"

Registry ==
  INSTANCE HookRegistry WITH
    hooked  <- HookedObjects,
    freeing <- [o \in Objects |-> FreeingIn(o)],
    Derived <- {o \in Objects : Supers[ClassOf[o]] # {ClassOf[o]}}

\* To its users hooking is a set of hooked objects.  Every free() of an object
\* in the table is intercepted, by a patch that stays as long as any object of
\* the class is hooked and no longer; the hook ends in the free() of the
\* object's own class whatever other threads hook and unhook meanwhile, and
\* leaves nothing of the object in the table, where a new object at the same
\* address would be taken for hooked.  Objects whose free() calls super::free()
\* into another hook may have to start over.
ImplementsRegistry == Registry!RegistrySpec

=============================================================================
