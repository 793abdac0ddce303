---------------------------- MODULE HookChainProofs ----------------------------
(***************************************************************************)
(* Proofs about HookChain: objects that have both a direct vtable hook and *)
(* a per-object hook.  The direct vtable hooking below the per-object      *)
(* hooks is still that of module VtableHook: when each object is given the *)
(* vtable of its class instead of its private one, every step of HookChain *)
(* is a step of VtableHook or changes nothing of it.  The invariants of    *)
(* that module and the proofs that its steps keep them are then used       *)
(* through this mapping.  The last part follows the calls that go through  *)
(* both kinds of hooks.                                                    *)
(***************************************************************************)
EXTENDS HookChain, VtableCountProofs

IsPrivate(v) == \E p \in ObjectHookers : Private[p] = v

\* The vtable of the object's class, under a private one if it has one.
ClassVptr ==
  [o \in Objects |-> IF perObject[o] = None THEN vptr[o]
                     ELSE perObject[o].vtable]

\* The slots of the vtables of classes; private ones are as if never used.
ClassSlot == [v \in Vtables |-> IF IsPrivate(v) THEN v ELSE slot[v]]

Nobody == [o \in Objects |-> Idle]

\* Objects come, go and are freed without notice: nobody calls free(), and an
\* object that is unhooked in free() is unhooked from outside.
Direct ==
  INSTANCE VtableCountProofs WITH
    live <- Objects, vptr <- ClassVptr, slot <- ClassSlot,
    run <- Nobody, original <- Nobody

\* While a hooker has its copy of the vtable, the copy holds its hook and the
\* original function is known.
CopiesMade ==
  \A p \in ObjectHookers :
    copied[p] => slot[Private[p]] = p /\ saved[p] \in Funcs

\* Who has a private vtable, and what its free() can be in.
PrivateUse ==
  \A o \in Objects :
    /\ original[o] \in Funcs \cup {Idle}
    /\ run[o] \in ObjectHookers => perObject[o] # None
    /\ perObject[o] # None =>
         /\ o \in live
         /\ vptr[o] = Private[perObject[o].by]
         /\ copied[perObject[o].by]
         /\ HookedClass[perObject[o].by] = ClassOf[o]
         /\ run[o] \in {Idle, perObject[o].by}

\* The direct vtable hook comes first, unless it failed.
DirectFirst ==
  \A o \in Objects :
    /\ notify[o] # "none" => Usable(o)
    /\ notify[o] = "vtable" => o \notin failed
    /\ o \notin failed /\ (perObject[o] # None \/ notify[o] = "object") =>
         \A h \in Hookers :
           ClassOf[o] \in Serves[h] => objKey[<<o, h>>] # NoEntry

\* A call that is in the hooking function of a per-object hooker is on an
\* object with this hook, and stays so.
CallsHeld ==
  \A t \in Threads : calls[t] # None =>
    /\ Usable(calls[t].obj)
    /\ calls[t].fn \in ObjectHookers =>
         /\ perObject[calls[t].obj] # None
         /\ perObject[calls[t].obj].by = calls[t].fn

HooksInv ==
  /\ ChainTypeOK
  /\ CopiesMade
  /\ PrivateUse
  /\ DirectFirst
  /\ CallsHeld
  /\ ObjectCounterExact

ChainInv == HooksInv /\ Direct!PatchInv

-----------------------------------------------------------------------------
(***************************************************************************)
(* The constants, and what the instance needs of them.                     *)
(***************************************************************************)
LEMMA DirectCounters == Direct!CountersFit
<1>1. Direct!IsFiniteSet(Objects) <=> IsFiniteSet(Objects)
  BY DEF Direct!IsFiniteSet, IsFiniteSet
<1>2. Direct!Cardinality(Objects) = Cardinality(Objects)
  BY DEF Direct!Cardinality, Cardinality
<1> QED
  BY <1>1, <1>2, CountersFit DEF Direct!CountersFit

LEMMA DirectPatchStep ==
  ASSUME HookersDisjoint, Direct!PatchInv, [Direct!Next]_(Direct!vars)
  PROVE  Direct!PatchInv'
<1>1. Direct!HookersDisjoint
  BY DEF HookersDisjoint, Direct!HookersDisjoint
<1> QED
  BY <1>1, DirectCounters, ConstantsTyped, ClassesDerived, ConstantsDistinct,
     Direct!StepPatchInv
     DEF Direct!CountersFit

LEMMA PrivateFacts ==
  /\ \A p \in ObjectHookers :
       /\ Private[p] \in Vtables /\ IsPrivate(Private[p])
       /\ p \notin Funcs /\ p # Idle
       /\ \A q \in ObjectHookers : Private[p] = Private[q] => p = q
  /\ \A c \in Classes : \A v \in VtablesOf[c] : v \in Vtables /\ ~IsPrivate(v)
BY ObjectHookersTyped, ConstantsTyped DEF IsPrivate, Funcs

\* What the invariant says of the state.
LEMMA DirectFacts ==
  ASSUME Direct!PatchInv
  PROVE  /\ ClassVptr \in [Objects -> Vtables]
         /\ ClassSlot \in [Vtables -> Funcs]
         /\ hash \in [Keys -> EntryIds \cup {NoEntry}]
         /\ objKey \in [Objects \X Hookers -> EntryIds \cup {NoEntry}]
         /\ entry \in [EntryIds -> Entries]
         /\ counter \in [Hookers -> 0..WordMax]
         /\ crashed \in BOOLEAN
         /\ \A o \in Objects : ClassVptr[o] \in VtablesOf[ClassOf[o]]
         /\ \A k \in Vtables \X Classes \X Hookers :
              hash[k] # NoEntry => k[1] \in VtablesOf[k[2]]
         /\ \A e \in EntryIds : entry[e].holders # {} =>
              /\ entry[e].key \in Vtables \X Classes \X Hookers
              /\ entry[e].key[1] \in VtablesOf[entry[e].key[2]]
              /\ entry[e].orig \in Vtables
         /\ \A k \in Keys : hash[k] # NoEntry => entry[hash[k]].holders # {}
         /\ \A o \in Objects, h \in Hookers :
              objKey[<<o, h>>] # NoEntry =>
                entry[objKey[<<o, h>>]].holders # {}
<1>1. Direct!TypeOK /\ Direct!EntriesInUse /\ Direct!HoldersExact
      /\ Direct!VptrOfClass /\ Direct!KeysServed /\ Direct!EntriesServed
  BY DEF Direct!PatchInv, Direct!EntriesInv
<1>2. Direct!Keys = Keys /\ Direct!Funcs = Funcs /\ Direct!Entries = Entries
  BY DEF Direct!Keys, Direct!Funcs, Direct!Entries, Direct!Holders, Keys, Funcs,
         Entries, Holders
<1>3. /\ ClassVptr \in [Objects -> Vtables]
      /\ ClassSlot \in [Vtables -> Funcs]
      /\ hash \in [Keys -> EntryIds \cup {NoEntry}]
      /\ objKey \in [Objects \X Hookers -> EntryIds \cup {NoEntry}]
      /\ entry \in [EntryIds -> Entries]
      /\ counter \in [Hookers -> 0..WordMax]
      /\ crashed \in BOOLEAN
  BY <1>1, <1>2 DEF Direct!TypeOK
<1>4. \A o \in Objects : ClassVptr[o] \in VtablesOf[ClassOf[o]]
  BY <1>1 DEF Direct!VptrOfClass
<1>5. \A k \in Vtables \X Classes \X Hookers :
        hash[k] # NoEntry => k[1] \in VtablesOf[k[2]]
  BY <1>1 DEF Direct!KeysServed, Direct!Served
<1>6. \A e \in EntryIds : entry[e].holders # {} =>
        /\ entry[e].key \in Vtables \X Classes \X Hookers
        /\ entry[e].key[1] \in VtablesOf[entry[e].key[2]]
        /\ entry[e].orig \in Vtables
  BY <1>1
     DEF Direct!EntriesServed, Direct!EntriesInUse, Direct!Served,
         Direct!HoldersOf, Direct!KeyOf, Direct!OrigOf
<1>7. ASSUME NEW k \in Keys, hash[k] # NoEntry
      PROVE  entry[hash[k]].holders # {}
  <2>1. hash[k] \in EntryIds
    BY <1>3, <1>7
  <2>2. Direct!ByKey(k) \in entry[hash[k]].holders
    BY <1>1, <1>2, <2>1 DEF Direct!HoldersExact
  <2> QED
    BY <2>2
<1>8. ASSUME NEW o \in Objects, NEW h \in Hookers, objKey[<<o, h>>] # NoEntry
      PROVE  entry[objKey[<<o, h>>]].holders # {}
  <2>1. objKey[<<o, h>>] \in EntryIds
    BY <1>3, <1>8
  <2>2. <<o, h>> \in Direct!Linked(objKey[<<o, h>>])
    BY <2>1 DEF Direct!Linked
  <2>3. Direct!ByObject(o, h) \in entry[objKey[<<o, h>>]].holders
    BY <1>1, <2>1, <2>2 DEF Direct!HoldersExact
  <2> QED
    BY <2>3
<1> QED
  BY <1>3, <1>4, <1>5, <1>6, <1>7, <1>8

\* Without a per-object hook an object has the vtable of its class.
LEMMA PlainObject ==
  ASSUME ChainInv, NEW o \in Objects, perObject[o] = None
  PROVE  /\ vptr[o] \in Vtables /\ ~IsPrivate(vptr[o])
         /\ vptr[o] \in VtablesOf[ClassOf[o]]
         /\ ClassVptr[o] = vptr[o]
         /\ ClassSlot[vptr[o]] = slot[vptr[o]]
         /\ slot[vptr[o]] \in Funcs
<1>1. /\ ClassVptr[o] = vptr[o] /\ ClassVptr[o] \in VtablesOf[ClassOf[o]]
      /\ ClassSlot \in [Vtables -> Funcs]
  BY DirectFacts DEF ChainInv, ClassVptr
<1>2. vptr[o] \in Vtables /\ ~IsPrivate(vptr[o])
  BY <1>1, PrivateFacts, ConstantsTyped
<1> QED
  BY <1>1, <1>2 DEF ClassSlot

\* With one, the hook is in its vtable.
LEMMA PrivateObject ==
  ASSUME ChainInv, NEW o \in Objects, perObject[o] # None
  PROVE  /\ perObject[o] \in [by : ObjectHookers, vtable : Vtables]
         /\ perObject[o].by \in ObjectHookers
         /\ slot[vptr[o]] = perObject[o].by
         /\ saved[perObject[o].by] \in Funcs
BY DEF ChainInv, HooksInv, ChainTypeOK, PrivateUse, CopiesMade

\* There are no super calls here.
LEMMA LeafCall ==
  ASSUME NEW h \in Hookers, NEW o \in Objects
  PROVE  KeyClass(h, o) = ClassOf[o]
<1>1. Supers[ClassOf[o]] = {ClassOf[o]}
  BY NoSuperCalls, ConstantsTyped
<1> QED
  BY <1>1 DEF KeyClass

\* The original functions that hooking functions find.
LEMMA OriginalsFound ==
  ASSUME ChainInv, NEW o \in Objects, NEW g \in AllHookers,
         g \in ObjectHookers => perObject[o] # None /\ perObject[o].by = g
  PROVE  /\ OriginalOf(g, o) \in Funcs \cup ObjectHookers
         /\ perObject[o] = None => OriginalOf(g, o) \in Funcs
         /\ g \in ObjectHookers => OriginalOf(g, o) \in Funcs
         /\ OriginalOf(g, o) \in ObjectHookers =>
              perObject[o] # None /\ perObject[o].by = OriginalOf(g, o)
<1>1. CASE g \in ObjectHookers
  BY <1>1, PrivateObject, PrivateFacts DEF OriginalOf
<1>2. CASE g \notin ObjectHookers
  <2>1. g \in Hookers
    BY <1>2 DEF AllHookers
  <2> DEFINE found == IF objKey[<<o, g>>] # NoEntry THEN objKey[<<o, g>>]
                      ELSE IF hash[Key1(g, o)] # NoEntry THEN hash[Key1(g, o)]
                           ELSE hash[Key2(g, o)]
  <2>2. Key1(g, o) \in Keys /\ Key2(g, o) \in Keys
    BY <2>1, ConstantsTyped DEF ChainInv, HooksInv, ChainTypeOK, Key1, Key2, Keys
  <2>3. found # NoEntry => found \in EntryIds /\ entry[found].holders # {}
    BY <2>1, <2>2, DirectFacts DEF ChainInv, HooksInv
  <2>4. found # NoEntry => entry[found].orig \in Funcs
    BY <2>3, DirectFacts DEF ChainInv, Funcs
  <2>5. OriginalOf(g, o) = IF found # NoEntry THEN entry[found].orig
                           ELSE slot[vptr[o]]
    BY <1>2, <2>1, LeafCall DEF OriginalOf, OriginalFunction, Key1, Key2
  <2> HIDE DEF found
  <2>6. CASE found # NoEntry
    BY <1>2, <2>4, <2>5, <2>6, PrivateFacts
  <2>7. CASE found = NoEntry
    BY <1>2, <2>5, <2>7, PlainObject, PrivateObject, PrivateFacts
  <2> QED
    BY <2>6, <2>7
<1> QED
  BY <1>1, <1>2

-----------------------------------------------------------------------------
(***************************************************************************)
(* Every step is one of direct vtable hooking or changes nothing of it.    *)
(***************************************************************************)
LEMMA QuietDirect ==
  ASSUME UNCHANGED <<hash, objKey, entry, counter, crashed>>,
         ClassVptr' = ClassVptr, ClassSlot' = ClassSlot
  PROVE  UNCHANGED Direct!vars
BY DEF Direct!vars, Direct!registry, Nobody

LEMMA VptrKept ==
  ASSUME UNCHANGED <<perObject, vptr>>
  PROVE  ClassVptr' = ClassVptr
BY DEF ClassVptr

LEMMA SlotKept ==
  ASSUME ChainTypeOK, NEW p \in ObjectHookers,
         slot' = slot \/ slot' = [slot EXCEPT ![Private[p]] = p]
  PROVE  ClassSlot' = ClassSlot
<1>1. \A v \in Vtables : ~IsPrivate(v) => slot'[v] = slot[v]
  BY DEF ChainTypeOK, IsPrivate
<1> QED
  BY <1>1 DEF ClassSlot, IsPrivate

\* The hook of an object that has no per-object hook, in the terms of the
\* module VtableHook.
LEMMA DirectHook ==
  ASSUME ChainInv, NEW h \in Hookers, NEW o \in Objects, perObject[o] = None,
         perObject' = perObject, HookVtable(h, o)
  PROVE  Direct!HookVtable(h, o)
<1>1. /\ ClassVptr[o] = vptr[o] /\ slot[vptr[o]] = ClassSlot[vptr[o]]
      /\ vptr[o] \in Vtables /\ ~IsPrivate(vptr[o])
  BY PlainObject
<1>2. /\ Direct!Key1(h, o) = Key1(h, o) /\ Direct!Key2(h, o) = Key2(h, o)
      /\ Direct!NewKeys(h, o) = NewKeys(h, o)
      /\ Direct!ByObject(o, h) = ByObject(o, h)
      /\ \A k : Direct!ByKey(k) = ByKey(k)
      /\ Direct!Keys = Keys
      /\ Direct!FreeEntries = FreeEntries
      /\ \A n : Direct!Inc(n) = Inc(n) /\ Direct!Dec(n) = Dec(n)
  BY <1>1 DEF Direct!Key1, Direct!Key2, Direct!NewKeys, Direct!ByObject,
       Direct!ByKey, Direct!Keys, Direct!FreeEntries, Direct!Inc, Direct!Dec,
       Key1, Key2, NewKeys, ByObject, ByKey, Keys, FreeEntries, Inc, Dec
<1>3. HookCall(h, o) => Direct!HookCall(h, o)
  BY VptrKept DEF HookCall, Direct!HookCall, Direct!Usable, Nobody
<1>4. slot' = slot => ClassSlot' = ClassSlot
  BY DEF ClassSlot
<1>5. UNCHANGED registry => UNCHANGED Direct!registry
  BY <1>4 DEF registry, Direct!registry
<1>6. CASE HookAgain(h, o)
  BY <1>3, <1>5, <1>6 DEF HookAgain, Direct!HookAgain, Direct!HookVtable
<1>7. CASE HookKnownVtable(h, o)
  BY <1>2, <1>3, <1>4, <1>7
     DEF HookKnownVtable, Direct!HookKnownVtable, Direct!HookVtable
<1>8. ASSUME NEW e \in EntryIds, HookNewVtable(h, o, e)
      PROVE  Direct!HookNewVtable(h, o, e)
  <2>1. slot' = [slot EXCEPT ![vptr[o]] = h]
    BY <1>8 DEF HookNewVtable
  <2>2. ClassSlot' = [ClassSlot EXCEPT ![ClassVptr[o]] = h]
    BY <1>1, <2>1 DEF ClassSlot, ChainInv, HooksInv, ChainTypeOK, IsPrivate
  <2>3. Direct!HookNewVtableCall(h, o)
    BY <1>1, <1>2, <1>3, <1>8
       DEF HookNewVtable, HookNewVtableCall, Direct!HookNewVtableCall
  <2> QED
    BY <1>1, <1>2, <1>8, <2>2, <2>3 DEF HookNewVtable, Direct!HookNewVtable
<1>9. CASE FailedHook(h, o)
  <2>1. CASE HookKnownVtableFails(h, o)
    BY <1>2, <1>3, <1>4, <2>1
       DEF HookKnownVtableFails, Direct!HookKnownVtableFails,
           Direct!FailedHook, Direct!HookVtable
  <2>2. CASE RefuseDoubleHook(h, o)
    BY <1>1, <1>2, <1>3, <1>5, <2>2
       DEF RefuseDoubleHook, Direct!RefuseDoubleHook, Direct!FailedHook,
           Direct!HookVtable
  <2>3. HookNewVtableCall(h, o) => Direct!HookNewVtableCall(h, o)
    BY <1>1, <1>2, <1>3 DEF HookNewVtableCall, Direct!HookNewVtableCall
  <2>4. CASE HookNewVtableNoMemory(h, o)
    BY <1>5, <2>3, <2>4
       DEF HookNewVtableNoMemory, Direct!HookNewVtableNoMemory,
           Direct!FailedHook, Direct!HookVtable
  <2>5. ASSUME NEW undone \in {"Key2", "Key1", "Object"},
               HookNewVtableUndone(h, o, undone)
        PROVE  Direct!HookNewVtableUndone(h, o, undone)
    BY <1>2, <1>4, <2>3, <2>5
       DEF HookNewVtableUndone, Direct!HookNewVtableUndone
  <2> QED
    BY <1>9, <2>1, <2>2, <2>4, <2>5
       DEF FailedHook, Direct!FailedHook, Direct!HookVtable
<1> QED
  BY <1>6, <1>7, <1>8, <1>9 DEF HookVtable, Direct!HookVtable

LEMMA DirectUnHook ==
  ASSUME ChainInv, NEW h \in Hookers, NEW o \in Objects, UnHookInt(h, o)
  PROVE  Direct!UnHookInt(h, o)
<1>1. slot' = slot => ClassSlot' = ClassSlot
  BY DEF ClassSlot
<1>2. CASE UnHookUnknown(h, o)
  BY <1>1, <1>2
     DEF UnHookUnknown, registry, Direct!UnHookUnknown, Direct!registry,
         Direct!UnHookInt
<1>3. CASE UnHookKnown(h, o)
  <2> DEFINE e == objKey[<<o, h>>]
             v == entry[e].key[1]
             last == Unused(Dec(entry[e].refCount))
  <2>1. e \in EntryIds /\ entry[e].holders # {}
    BY <1>3, DirectFacts DEF UnHookKnown, ReleaseVtable, ChainInv
  <2>2. v \in Vtables /\ ~IsPrivate(v)
    <3>1. /\ entry[e].key \in Vtables \X Classes \X Hookers
          /\ v \in VtablesOf[entry[e].key[2]]
      BY <2>1, DirectFacts DEF ChainInv, HooksInv
    <3> QED
      BY <3>1, PrivateFacts
  <2>3. slot' = IF last THEN [slot EXCEPT ![v] = entry[e].orig] ELSE slot
    BY <1>3 DEF UnHookKnown, ReleaseVtable
  <2>4. ClassSlot' = IF last THEN [ClassSlot EXCEPT ![v] = entry[e].orig]
                     ELSE ClassSlot
    <3>1. slot \in [Vtables -> Funcs \cup ObjectHookers]
      BY DEF ChainInv, HooksInv, ChainTypeOK
    <3> HIDE DEF v, last, e
    <3>2. CASE last
      <4>1. \A w \in Vtables : slot'[w] = IF w = v THEN entry[e].orig ELSE slot[w]
        BY <2>3, <3>1, <3>2
      <4> QED
        BY <2>2, <3>2, <4>1 DEF ClassSlot, IsPrivate
    <3>3. CASE ~last
      BY <1>1, <2>3, <3>3
    <3> QED
      BY <3>2, <3>3
  <2>5. Direct!ReleaseVtable(h, o)
    <3>1. ReleaseVtable(h, o)
      BY <1>3 DEF UnHookKnown
    <3> QED
      BY <2>4, <3>1, Zenon
         DEF ReleaseVtable, Direct!ReleaseVtable, Keys, Direct!Keys, ByObject,
             Direct!ByObject, ByKey, Direct!ByKey, Dec, Direct!Dec, Unused,
             Direct!Unused, Settle, Direct!Settle, Blank, Direct!Blank
  <2> QED
    BY <1>3, <2>5
       DEF UnHookKnown, Direct!UnHookKnown, Direct!UnHookInt, Dec, Direct!Dec
<1> QED
  BY <1>2, <1>3 DEF UnHookInt

-----------------------------------------------------------------------------
(***************************************************************************)
(* The actions of HookChain, one part of their effect at a time.           *)
(***************************************************************************)
\* A vtable hooker does not touch an object with a per-object hook: either the
\* object is in the table, or the hook has failed and is not tried again.
LEMMA NotifyVtableCases ==
  ASSUME ChainInv, NEW o \in Objects, NotifyVtable(o)
  PROVE  /\ UNCHANGED <<live, vptr, run, original, perObjectVars, calls, visited>>
         /\ notify' = [notify EXCEPT ![o] = "object"]
         /\ failed' \in {failed, failed \cup {o}}
         /\ \/ UNCHANGED registry
            \/ /\ perObject[o] = None
               /\ \E h \in Hookers : HookVtable(h, o)
<1>1. CASE ~ \E h \in Hookers : ClassOf[o] \in Serves[h]
  BY <1>1 DEF NotifyVtable, vars, registry
<1>2. CASE \E h \in Hookers : ClassOf[o] \in Serves[h]
  <2> PICK h \in Hookers : VtableHookStep(h, o)
    BY <1>2 DEF NotifyVtable
  <2>1. HookVtable(h, o)
    BY DEF VtableHookStep, HookVtable
  <2>2. HookCall(h, o)
    BY <2>1 DEF HookVtable, HookAgain, HookKnownVtable, HookNewVtable,
                FailedHook, HookKnownVtableFails, RefuseDoubleHook,
                HookNewVtableNoMemory, HookNewVtableUndone, HookNewVtableCall
  <2>3. ASSUME perObject[o] # None PROVE UNCHANGED registry
    <3>1. objKey[<<o, h>>] # NoEntry
      BY <2>2, <2>3 DEF HookCall, ChainInv, HooksInv, DirectFirst, NotifyVtable
    <3> QED
      BY <2>1, <3>1
         DEF HookVtable, HookAgain, HookKnownVtable, HookNewVtable,
             FailedHook, HookKnownVtableFails, RefuseDoubleHook,
             HookNewVtableNoMemory, HookNewVtableUndone, HookNewVtableCall
  <2>4. failed' \in {failed, failed \cup {o}}
    BY DEF VtableHookStep
  <2> QED
    BY <2>1, <2>2, <2>3, <2>4 DEF HookCall, NotifyVtable
<1> QED
  BY <1>1, <1>2

\* The per-object hook.
LEMMA NotifyObjectCases ==
  ASSUME ChainInv, NEW o \in Objects, NotifyObject(o)
  PROVE  /\ UNCHANGED <<live, hash, objKey, entry, counter, crashed, run,
                        original, calls, visited>>
         /\ notify' = [notify EXCEPT ![o] = "none"]
         /\ failed' \in {failed, failed \cup {o}}
         /\ \/ UNCHANGED <<vptr, slot, perObjectVars>>
            \/ \E p \in ObjectHookers :
                 /\ HookedClass[p] = ClassOf[o]
                 /\ perObject[o] = None
                 /\ \/ PrepareVtable(p, o)
                    \/ UNCHANGED <<copied, saved, slot>>
                 /\ \/ UNCHANGED <<perObject, vptr, objCounter>>
                    \/ PrepareVtable(p, o) /\ HookNewObject(p, o)
<1>1. CASE {p \in ObjectHookers : HookedClass[p] = ClassOf[o]} = {}
  BY <1>1 DEF NotifyObject, vars, registry, perObjectVars
<1>2. CASE {p \in ObjectHookers : HookedClass[p] = ClassOf[o]} # {}
  <2> PICK p \in ObjectHookers : HookedClass[p] = ClassOf[o] /\ HookObject(p, o)
    BY <1>2 DEF NotifyObject
  <2>1. /\ UNCHANGED <<live, hash, objKey, entry, counter, crashed, run,
                       original, calls, visited>>
        /\ notify' = [notify EXCEPT ![o] = "none"]
        /\ failed' \in {failed, failed \cup {o}}
    BY DEF HookObject, NotifyObject
  <2>2. CASE HookObjectAgain(p, o)
    BY <2>1, <2>2 DEF HookObjectAgain
  <2>3. CASE HookNewObject(p, o)
    BY <2>1, <2>3 DEF HookNewObject
  <2>4. CASE HookObjectFails(p, o)
    BY <2>1, <2>4 DEF HookObjectFails
  <2> QED
    BY <2>2, <2>3, <2>4 DEF HookObject
<1> QED
  BY <1>1, <1>2

LEMMA FreeHookCases ==
  ASSUME ChainInv, NEW o \in Objects, chain_free_hook(o)
  PROVE  /\ UNCHANGED <<live, notify, failed, calls>>
         /\ run' = [run EXCEPT ![o] = original[o]]
         /\ original' = [original EXCEPT ![o] = Idle]
         /\ visited' = [visited EXCEPT ![o] = @ \cup {run[o]}]
         /\ run[o] \in AllHookers /\ original[o] \in Funcs
         /\ \/ /\ run[o] \in Hookers /\ perObject[o] = None
               /\ UnHookInt(run[o], o)
               /\ UNCHANGED <<perObjectVars, vptr>>
            \/ /\ perObject[o] # None /\ run[o] = perObject[o].by
               /\ UnHookByObjectHooker(run[o], o)
               /\ UNCHANGED registry
<1>1. /\ run[o] \in AllHookers /\ original[o] \in Funcs
      /\ run[o] \in ObjectHookers => perObject[o] # None
      /\ perObject[o] # None => run[o] \in {Idle, perObject[o].by}
      /\ perObject[o] # None => perObject[o].by \in ObjectHookers
      /\ run[o] # Idle
  BY PrivateObject, ConstantsDistinct, ObjectHookersTyped
     DEF chain_free_hook, ChainInv, HooksInv, PrivateUse, AllHookers
<1>2. CASE run[o] \in Hookers
  <2>1. perObject[o] = None
    BY <1>1, <1>2, ObjectHookersTyped
  <2> QED
    BY <1>1, <1>2, <2>1 DEF chain_free_hook, UnHookByVtableHooker
<1>3. CASE run[o] \notin Hookers
  BY <1>1, <1>3 DEF chain_free_hook, UnHookByObjectHooker, AllHookers
<1> QED
  BY <1>2, <1>3 DEF chain_free_hook

\* Restoring the vtable pointer, or replacing it, changes nothing below.
LEMMA HookObjectDirect ==
  ASSUME ChainInv, NEW o \in Objects, NotifyObject(o)
  PROVE  ClassVptr' = ClassVptr /\ ClassSlot' = ClassSlot
<1>1. CASE UNCHANGED <<vptr, slot, perObjectVars>>
  BY <1>1 DEF ClassVptr, ClassSlot, perObjectVars
<1>2. ASSUME NEW p \in ObjectHookers, perObject[o] = None,
             PrepareVtable(p, o) \/ UNCHANGED <<copied, saved, slot>>,
             \/ UNCHANGED <<perObject, vptr, objCounter>>
             \/ PrepareVtable(p, o) /\ HookNewObject(p, o)
      PROVE  ClassVptr' = ClassVptr /\ ClassSlot' = ClassSlot
  <2>1. ClassSlot' = ClassSlot
    BY <1>2, SlotKept DEF PrepareVtable, CopyVtable, ChainInv, HooksInv
  <2>2. CASE UNCHANGED <<perObject, vptr>>
    BY <2>1, <2>2, VptrKept
  <2>3. CASE HookNewObject(p, o)
    <3>1. [by |-> p, vtable |-> vptr[o]] # None
      BY NoneIsNoHook DEF ChainInv, HooksInv, ChainTypeOK
    <3>2. \A q \in Objects :
            perObject'[q] = IF q = o THEN [by |-> p, vtable |-> vptr[o]]
                            ELSE perObject[q]
      BY <2>3 DEF HookNewObject, ChainInv, HooksInv, ChainTypeOK
    <3>3. \A q \in Objects : q # o => vptr'[q] = vptr[q]
      BY <2>3 DEF HookNewObject, ChainInv, HooksInv, ChainTypeOK
    <3>4. ASSUME NEW q \in Objects
          PROVE  (IF perObject'[q] = None THEN vptr'[q]
                  ELSE perObject'[q].vtable)
                   = IF perObject[q] = None THEN vptr[q]
                     ELSE perObject[q].vtable
      BY <1>2, <3>1, <3>2, <3>3
    <3> QED
      BY <2>1, <3>4 DEF ClassVptr
  <2> QED
    BY <1>2, <2>2, <2>3
<1> QED
  BY <1>1, <1>2, NotifyObjectCases

LEMMA RestoreDirect ==
  ASSUME ChainInv, NEW o \in Objects, perObject[o] # None, RestoreObject(o)
  PROVE  ClassVptr' = ClassVptr
<1>1. \A q \in Objects :
        /\ perObject'[q] = IF q = o THEN None ELSE perObject[q]
        /\ vptr'[q] = IF q = o THEN perObject[o].vtable ELSE vptr[q]
  BY DEF RestoreObject, ChainInv, HooksInv, ChainTypeOK
<1>2. ASSUME NEW q \in Objects
      PROVE  (IF perObject'[q] = None THEN vptr'[q] ELSE perObject'[q].vtable)
               = IF perObject[q] = None THEN vptr[q] ELSE perObject[q].vtable
  BY <1>1
<1> QED
  BY <1>2 DEF ClassVptr

\* The steps that hook and unhook nothing.
Quiet == UNCHANGED <<vptr, registry, perObjectVars>>

LEMMA ChainCases ==
  ASSUME [ChainNext]_chainVars
  PROVE  \/ Quiet
         \/ /\ ~crashed
            /\ \E o \in Objects : \/ ChainConstruct(o)
                                  \/ NotifyVtable(o)
                                  \/ NotifyObject(o)
                                  \/ chain_free_hook(o)
BY DEF ChainNext, chainVars, vars, Quiet, Publish, ChainFree, CallFree, FreeStep,
       ChainGetOriginalFunction, ChainDestroy, Destroy, Call, CallStep, Forward,
       Refuse, Return

LEMMA DirectStep ==
  ASSUME ChainInv, [ChainNext]_chainVars
  PROVE  [Direct!Next]_(Direct!vars)
<1>1. CASE Quiet
  <2>1. ClassVptr' = ClassVptr /\ ClassSlot' = ClassSlot
    BY <1>1 DEF Quiet, ClassVptr, ClassSlot, registry, perObjectVars
  <2> QED
    BY <1>1, <2>1, QuietDirect DEF Quiet, registry
<1>2. ASSUME NEW o \in Objects, ~crashed, ChainConstruct(o)
      PROVE  [Direct!Next]_(Direct!vars)
  <2>1. PICK v \in VtablesOf[ClassOf[o]] : vptr' = [vptr EXCEPT ![o] = v]
    BY <1>2 DEF ChainConstruct, Construct
  <2>2. perObject[o] = None /\ v \in Vtables
    BY <1>2, ConstantsTyped DEF ChainConstruct, Construct, ChainInv, HooksInv, PrivateUse
  <2>3. UNCHANGED <<registry, perObject>>
    BY <1>2 DEF ChainConstruct, Construct, perObjectVars
  <2>4. ClassVptr' = [ClassVptr EXCEPT ![o] = v]
    BY <2>1, <2>2, <2>3 DEF ClassVptr, ChainInv, HooksInv, ChainTypeOK
  <2>5. ClassSlot' = ClassSlot
    BY <2>3 DEF ClassSlot, registry
  <2>6. CASE v = ClassVptr[o]
    <3>1. ClassVptr' = ClassVptr
      BY <2>4, <2>6 DEF ClassVptr
    <3> QED
      BY <2>3, <2>5, <3>1, QuietDirect DEF registry
  <2>7. CASE v # ClassVptr[o]
    <3>1. Direct!ReplaceVtable(o, v)
      BY <2>3, <2>4, <2>5, <2>7
         DEF Direct!ReplaceVtable, Direct!Usable, Direct!registry, Nobody,
             registry
    <3> QED
      BY <1>2, <2>2, <3>1 DEF Direct!Next, Direct!FreeNext
  <2> QED
    BY <2>6, <2>7
<1>3. ASSUME NEW o \in Objects, ~crashed, NotifyVtable(o)
      PROVE  [Direct!Next]_(Direct!vars)
  <2>1. UNCHANGED <<vptr, perObject>>
    BY <1>3, NotifyVtableCases DEF perObjectVars
  <2>2. CASE UNCHANGED registry
    <3>1. ClassSlot' = ClassSlot
      BY <2>2 DEF ClassSlot, registry
    <3> QED
      BY <2>1, <2>2, <3>1, VptrKept, QuietDirect DEF registry
  <2>3. ASSUME NEW h \in Hookers, perObject[o] = None, HookVtable(h, o)
        PROVE  [Direct!Next]_(Direct!vars)
    BY <1>3, <2>1, <2>3, DirectHook DEF Direct!Next, Direct!FreeNext
  <2> QED
    BY <1>3, <2>2, <2>3, NotifyVtableCases
<1>4. ASSUME NEW o \in Objects, NotifyObject(o)
      PROVE  [Direct!Next]_(Direct!vars)
  BY <1>4, HookObjectDirect, NotifyObjectCases, QuietDirect
<1>5. ASSUME NEW o \in Objects, ~crashed, chain_free_hook(o)
      PROVE  [Direct!Next]_(Direct!vars)
  <2>1. CASE run[o] \in Hookers /\ UnHookInt(run[o], o)
               /\ UNCHANGED <<perObjectVars, vptr>>
    <3>1. Direct!UnHookObject(run[o], o)
      BY <2>1, DirectUnHook, VptrKept
         DEF Direct!UnHookObject, Direct!Usable, Nobody, perObjectVars
    <3> QED
      BY <1>5, <2>1, <3>1 DEF Direct!Next
  <2>2. CASE perObject[o] # None /\ UnHookByObjectHooker(run[o], o)
               /\ UNCHANGED registry
    <3>1. ClassVptr' = ClassVptr
      BY <2>2, RestoreDirect DEF UnHookByObjectHooker
    <3>2. ClassSlot' = ClassSlot
      BY <2>2 DEF ClassSlot, registry
    <3> QED
      BY <2>2, <3>1, <3>2, QuietDirect DEF registry
  <2> QED
    BY <1>5, <2>1, <2>2, FreeHookCases
<1> QED
  BY <1>1, <1>2, <1>3, <1>4, <1>5, ChainCases

-----------------------------------------------------------------------------
(***************************************************************************)
(* The invariant: the steps that hook and unhook nothing.                  *)
(***************************************************************************)
LEMMA PublishKeeps ==
  ASSUME ChainInv, NEW o \in Objects, Publish(o)
  PROVE  HooksInv'
<1>1. notify' = [notify EXCEPT ![o] = "vtable"] /\ Usable(o) /\ o \notin failed
  BY DEF Publish
<1>2. UNCHANGED <<vars, perObjectVars, failed, calls, visited>>
  BY DEF Publish
<1> USE <1>1, <1>2 DEF ChainInv, HooksInv, vars, perObjectVars, registry
<1>3. ChainTypeOK'
  BY DEF ChainTypeOK
<1>4. DirectFirst'
  BY DEF DirectFirst, Usable, ChainTypeOK
<1> QED
  BY <1>3, <1>4 DEF CopiesMade, PrivateUse, CallsHeld, Usable, ObjectCounterExact

LEMMA FreeKeeps ==
  ASSUME ChainInv, NEW o \in Objects, ChainFree(o)
  PROVE  HooksInv'
<1>1. /\ run' = [run EXCEPT ![o] = slot[vptr[o]]] /\ Usable(o)
      /\ visited' = [visited EXCEPT ![o] = {}]
      /\ notify[o] = "none"
      /\ \A t \in Threads : calls[t] # None => calls[t].obj # o
      /\ UNCHANGED <<live, vptr, registry, original, perObjectVars, notify,
                     failed, calls>>
  BY DEF ChainFree, Released, CallFree
<1> USE <1>1 DEF ChainInv, HooksInv, perObjectVars, registry
<1>2. slot[vptr[o]] \in Funcs \cup ObjectHookers
  BY DEF ChainTypeOK
<1>3. ChainTypeOK'
  BY <1>2 DEF ChainTypeOK
<1>4. PrivateUse'
  <2>1. perObject[o] # None => slot[vptr[o]] = perObject[o].by
    BY PrivateObject
  <2>2. perObject[o] = None => slot[vptr[o]] \notin ObjectHookers
    BY PlainObject, PrivateFacts
  <2> QED
    BY <2>1, <2>2 DEF PrivateUse, ChainTypeOK
<1>5. DirectFirst'
  BY DEF DirectFirst, Usable, ChainTypeOK
<1>6. CallsHeld'
  BY DEF CallsHeld, Usable, ChainTypeOK
<1> QED
  BY <1>3, <1>4, <1>5, <1>6 DEF CopiesMade, ObjectCounterExact

LEMMA GetOriginalKeeps ==
  ASSUME ChainInv, NEW o \in Objects, ChainGetOriginalFunction(o)
  PROVE  HooksInv'
<1>1. /\ original' = [original EXCEPT ![o] = OriginalOf(run[o], o)]
      /\ run[o] \in AllHookers
      /\ UNCHANGED <<live, vptr, registry, run, perObjectVars, notify, failed,
                     calls, visited>>
  BY DEF ChainGetOriginalFunction
<1>2. run[o] \in ObjectHookers => perObject[o] # None /\ perObject[o].by = run[o]
  BY ObjectHookersTyped DEF ChainInv, HooksInv, PrivateUse
<1>3. run[o] \in Hookers => perObject[o] = None
  BY PrivateObject, ObjectHookersTyped, ConstantsDistinct
     DEF ChainInv, HooksInv, PrivateUse
<1>4. OriginalOf(run[o], o) \in Funcs
  BY <1>1, <1>2, <1>3, OriginalsFound DEF AllHookers
<1> USE <1>1 DEF ChainInv, HooksInv, perObjectVars, registry
<1>5. ChainTypeOK'
  BY <1>4 DEF ChainTypeOK
<1>6. PrivateUse'
  BY <1>4 DEF PrivateUse, ChainTypeOK
<1> QED
  BY <1>5, <1>6
     DEF CopiesMade, ObjectCounterExact, DirectFirst, CallsHeld, Usable

LEMMA DestroyKeeps ==
  ASSUME ChainInv, NEW o \in Objects, ChainDestroy(o)
  PROVE  HooksInv'
<1>1. /\ run[o] \in Vtables
      /\ live' = live \ {o}
      /\ run' = [run EXCEPT ![o] = Idle]
      /\ UNCHANGED <<vptr, registry, original, perObjectVars, notify, failed,
                     calls, visited>>
  BY DEF ChainDestroy, Destroy
<1>2. perObject[o] = None /\ run[o] # Idle
  BY <1>1, PrivateObject, ObjectHookersTyped, ConstantsDistinct
     DEF ChainInv, HooksInv, PrivateUse
<1> USE <1>1, <1>2 DEF ChainInv, HooksInv, perObjectVars, registry
<1>3. ChainTypeOK'
  BY DEF ChainTypeOK
<1>4. PrivateUse'
  BY ObjectHookersTyped DEF PrivateUse, ChainTypeOK
<1>5. DirectFirst'
  BY DEF DirectFirst, Usable, ChainTypeOK
<1>6. CallsHeld'
  BY DEF CallsHeld, Usable, ChainTypeOK
<1> QED
  BY <1>3, <1>4, <1>5, <1>6 DEF CopiesMade, ObjectCounterExact

LEMMA ConstructKeeps ==
  ASSUME ChainInv, NEW o \in Objects, ChainConstruct(o)
  PROVE  HooksInv'
<1>1. PICK v \in VtablesOf[ClassOf[o]] : vptr' = [vptr EXCEPT ![o] = v]
  BY DEF ChainConstruct, Construct
<1>2. /\ o \notin live /\ live' = live \cup {o}
      /\ notify' = [notify EXCEPT ![o] = "none"]
      /\ UNCHANGED <<registry, run, original, perObjectVars, failed, calls,
                     visited>>
  BY DEF ChainConstruct, Construct
<1>3. perObject[o] = None /\ v \in Vtables
  BY <1>2, ConstantsTyped DEF ChainInv, HooksInv, PrivateUse
<1> USE <1>1, <1>2, <1>3 DEF ChainInv, HooksInv, perObjectVars, registry
<1>4. ChainTypeOK'
  BY DEF ChainTypeOK
<1>5. PrivateUse'
  BY DEF PrivateUse, ChainTypeOK
<1>6. DirectFirst'
  BY DEF DirectFirst, Usable, ChainTypeOK
<1>7. CallsHeld'
  BY DEF CallsHeld, Usable
<1> QED
  BY <1>4, <1>5, <1>6, <1>7 DEF CopiesMade, ObjectCounterExact

LEMMA CallKeeps ==
  ASSUME ChainInv, NEW t \in Threads, NEW o \in Objects, Call(t, o)
  PROVE  HooksInv'
<1> DEFINE call == [obj |-> o, fn |-> slot[vptr[o]], due |-> Due(o),
                    visited |-> {}]
<1>1. /\ calls' = [calls EXCEPT ![t] = call]
      /\ Usable(o)
      /\ UNCHANGED <<vars, perObjectVars, notify, failed, visited>>
  BY DEF Call
<1>2. slot[vptr[o]] \in Funcs \cup ObjectHookers
  BY DEF ChainInv, HooksInv, ChainTypeOK
<1>3. Due(o) \subseteq AllHookers
  BY DEF Due, AllHookers
<1>4. slot[vptr[o]] \in ObjectHookers =>
        perObject[o] # None /\ perObject[o].by = slot[vptr[o]]
  BY PlainObject, PrivateObject, PrivateFacts
<1> USE <1>1 DEF ChainInv, HooksInv, vars, perObjectVars, registry
<1>5. ChainTypeOK'
  BY <1>2, <1>3 DEF ChainTypeOK
<1>6. \A s \in Threads : calls'[s] = IF s = t THEN call ELSE calls[s]
  BY DEF ChainTypeOK
<1>7. CallsHeld'
  BY <1>4, <1>6 DEF CallsHeld, Usable
<1> QED
  BY <1>5, <1>7
     DEF CopiesMade, PrivateUse, DirectFirst, Usable, ObjectCounterExact

\* The record of a call that has been forwarded.
LEMMA Forwarded ==
  ASSUME ChainTypeOK, NEW t \in Threads, Forward(t)
  PROVE  calls' = [calls EXCEPT ![t] =
                     [obj |-> calls[t].obj,
                      fn |-> OriginalOf(calls[t].fn, calls[t].obj),
                      due |-> calls[t].due,
                      visited |-> calls[t].visited \cup {calls[t].fn}]]
<1>1. calls[t] \in [obj : Objects, fn : Funcs \cup ObjectHookers,
                    due : SUBSET AllHookers, visited : SUBSET AllHookers]
  BY DEF ChainTypeOK, Forward
<1> DEFINE fn == OriginalOf(calls[t].fn, calls[t].obj)
           through == calls[t].visited \cup {calls[t].fn}
           next == [obj |-> calls[t].obj, fn |-> fn, due |-> calls[t].due,
                    visited |-> through]
<1>2. [[calls[t] EXCEPT !.fn = fn] EXCEPT !.visited = through] = next
  <2> DEFINE r == calls[t]
  <2>1. r = [obj |-> r.obj, fn |-> r.fn, due |-> r.due, visited |-> r.visited]
    BY <1>1
  <2> HIDE DEF r, fn, through
  <2>2. [r EXCEPT !.fn = fn] = [obj |-> r.obj, fn |-> fn, due |-> r.due,
                                visited |-> r.visited]
    BY <2>1
  <2>3. [[obj |-> r.obj, fn |-> fn, due |-> r.due, visited |-> r.visited]
           EXCEPT !.visited = through]
          = [obj |-> r.obj, fn |-> fn, due |-> r.due, visited |-> through]
    OBVIOUS
  <2> QED
    BY <2>2, <2>3, Zenon DEF r
<1>3. calls' = [calls EXCEPT ![t] =
                  [[calls[t] EXCEPT !.fn = fn] EXCEPT !.visited = through]]
  BY <1>1 DEF ChainTypeOK, Forward
<1> QED
  BY <1>2, <1>3

LEMMA ForwardKeeps ==
  ASSUME ChainInv, NEW t \in Threads, Forward(t)
  PROVE  HooksInv'
<1> DEFINE o == calls[t].obj
           next == OriginalOf(calls[t].fn, o)
           call == [obj |-> o, fn |-> next, due |-> calls[t].due,
                    visited |-> calls[t].visited \cup {calls[t].fn}]
<1>1. /\ calls[t] # None
      /\ calls[t].fn \in AllHookers
      /\ UNCHANGED <<vars, perObjectVars, notify, failed, visited>>
  BY DEF Forward
<1>2. calls' = [calls EXCEPT ![t] = call]
  BY Forwarded DEF ChainInv, HooksInv
<1>3. /\ o \in Objects /\ Usable(o)
      /\ calls[t].due \subseteq AllHookers /\ calls[t].visited \subseteq AllHookers
      /\ calls[t].fn \in ObjectHookers =>
           perObject[o] # None /\ perObject[o].by = calls[t].fn
  BY <1>1 DEF ChainInv, HooksInv, ChainTypeOK, CallsHeld
<1>4. /\ next \in Funcs \cup ObjectHookers
      /\ next \in ObjectHookers => perObject[o] # None /\ perObject[o].by = next
  BY <1>1, <1>3, OriginalsFound
<1> HIDE DEF next
<1> USE <1>1, <1>2 DEF ChainInv, HooksInv, vars, perObjectVars, registry
<1>5. ChainTypeOK'
  BY <1>3, <1>4 DEF ChainTypeOK
<1>6. \A s \in Threads : calls'[s] = IF s = t THEN call ELSE calls[s]
  BY DEF ChainTypeOK
<1>7. CallsHeld'
  BY <1>3, <1>4, <1>6 DEF CallsHeld, Usable
<1> QED
  BY <1>5, <1>7
     DEF CopiesMade, PrivateUse, DirectFirst, Usable, ObjectCounterExact

LEMMA ReturnKeeps ==
  ASSUME ChainInv, NEW t \in Threads, Refuse(t) \/ Return(t)
  PROVE  HooksInv'
<1>1. /\ calls' = [calls EXCEPT ![t] = None]
      /\ UNCHANGED <<vars, perObjectVars, notify, failed, visited>>
  BY DEF Refuse, Return
<1> USE <1>1 DEF ChainInv, HooksInv, vars, perObjectVars, registry
<1>2. ChainTypeOK'
  BY DEF ChainTypeOK
<1>3. CallsHeld'
  BY DEF CallsHeld, Usable, ChainTypeOK
<1> QED
  BY <1>2, <1>3
     DEF CopiesMade, PrivateUse, DirectFirst, Usable, ObjectCounterExact


-----------------------------------------------------------------------------
(***************************************************************************)
(* The steps that hook and unhook.                                         *)
(***************************************************************************)
\* What the vtable hooker changes that per-object hooks depend on.
LEMMA VtableHookChanges ==
  ASSUME ChainInv, NEW h \in Hookers, NEW o \in Objects, perObject[o] = None,
         HookVtable(h, o)
  PROVE  /\ slot' = slot \/ slot' = [slot EXCEPT ![vptr[o]] = h]
         /\ counter' \in [Hookers -> 0..WordMax]
         /\ \A k \in Objects \X Hookers :
              objKey[k] # NoEntry => objKey'[k] # NoEntry
         /\ \A k \in Objects \X Hookers : k[1] # o => objKey'[k] = objKey[k]
         /\ FailedHook(h, o) \/ objKey'[<<o, h>>] # NoEntry
<1>1. /\ objKey \in [Objects \X Hookers -> EntryIds \cup {NoEntry}]
      /\ hash \in [Keys -> EntryIds \cup {NoEntry}]
      /\ counter \in [Hookers -> 0..WordMax]
  BY DirectFacts DEF ChainInv
<1>2. counter[h] \in 0..WordMax
  BY <1>1
<1>3. ASSUME counter' \in {counter, [counter EXCEPT ![h] = Inc(@)],
                           [counter EXCEPT ![h] = Dec(Inc(@))]}
      PROVE  counter' \in [Hookers -> 0..WordMax]
  BY <1>1, <1>2, <1>3, WordArithmetic
<1>4. <<o, h>> \in Objects \X Hookers
  OBVIOUS
<1>5. CASE HookAgain(h, o)
  BY <1>1, <1>5 DEF HookAgain, registry
<1>6. CASE HookKnownVtable(h, o)
  <2> DEFINE e == hash[Key1(h, o)]
  <2>1. e # NoEntry /\ objKey' = [objKey EXCEPT ![<<o, h>>] = e]
        /\ counter' = [counter EXCEPT ![h] = Inc(@)] /\ slot' = slot
    BY <1>6 DEF HookKnownVtable
  <2> HIDE DEF e
  <2> QED
    BY <1>1, <1>3, <1>4, <2>1
<1>7. ASSUME NEW e \in EntryIds, HookNewVtable(h, o, e)
      PROVE  /\ slot' = [slot EXCEPT ![vptr[o]] = h]
             /\ counter' \in [Hookers -> 0..WordMax]
             /\ \A k \in Objects \X Hookers :
                  objKey[k] # NoEntry => objKey'[k] # NoEntry
             /\ \A k \in Objects \X Hookers :
                  k[1] # o => objKey'[k] = objKey[k]
             /\ objKey'[<<o, h>>] # NoEntry
  <2>1. objKey' = [objKey EXCEPT ![<<o, h>>] = e] /\ e # NoEntry
        /\ counter' = [counter EXCEPT ![h] = Inc(@)]
        /\ slot' = [slot EXCEPT ![vptr[o]] = h]
    BY <1>7, ConstantsDistinct DEF HookNewVtable
  <2> QED
    BY <1>1, <1>3, <1>4, <2>1
<1>8. CASE FailedHook(h, o)
  <2>1. slot' = slot /\ objKey' = objKey
    BY <1>8 DEF FailedHook, HookKnownVtableFails, RefuseDoubleHook,
                HookNewVtableNoMemory, HookNewVtableUndone, registry
  <2>2. counter' \in {counter, [counter EXCEPT ![h] = Dec(Inc(@))],
                      [counter EXCEPT ![h] = @]}
    BY <1>8 DEF FailedHook, HookKnownVtableFails, RefuseDoubleHook,
                HookNewVtableNoMemory, HookNewVtableUndone, registry
  <2>3. [counter EXCEPT ![h] = @] = counter
    BY <1>1
  <2> QED
    BY <1>3, <1>8, <2>1, <2>2, <2>3
<1> QED
  BY <1>5, <1>6, <1>7, <1>8 DEF HookVtable

LEMMA NotifyVtableKeeps ==
  ASSUME HookersDisjoint, ChainInv, NEW o \in Objects, NotifyVtable(o)
  PROVE  HooksInv'
<1>1. /\ UNCHANGED <<live, vptr, run, original, perObjectVars, calls, visited>>
      /\ notify' = [notify EXCEPT ![o] = "object"]
      /\ failed' \in {failed, failed \cup {o}}
  BY NotifyVtableCases
<1>2. /\ slot' = slot \/ \E h \in Hookers : perObject[o] = None
                           /\ slot' = [slot EXCEPT ![vptr[o]] = h]
      /\ counter' \in [Hookers -> 0..WordMax]
      /\ \A k \in Objects \X Hookers : objKey[k] # NoEntry => objKey'[k] # NoEntry
  <2>1. CASE UNCHANGED registry
    BY <2>1 DEF registry, ChainInv, HooksInv, ChainTypeOK
  <2>2. ASSUME NEW h \in Hookers, perObject[o] = None, HookVtable(h, o)
        PROVE  <1>2
    BY <2>2, VtableHookChanges
  <2> QED
    BY <2>1, <2>2, NotifyVtableCases
<1>3. ASSUME NEW h \in Hookers, ClassOf[o] \in Serves[h], o \notin failed'
      PROVE  objKey'[<<o, h>>] # NoEntry
  <2>1. PICK g \in Hookers : VtableHookStep(g, o)
    BY <1>3 DEF NotifyVtable
  <2>2. HookVtable(g, o) /\ ~FailedHook(g, o)
    BY <1>3, <2>1 DEF VtableHookStep
  <2>3. HookCall(g, o)
    BY <2>2 DEF HookVtable, HookAgain, HookKnownVtable, HookNewVtable,
                HookNewVtableCall
  <2>4. g = h
    BY <1>3, <2>3, ConstantsTyped DEF HookCall, HookersDisjoint
  <2>5. CASE HookAgain(g, o)
    BY <1>2, <2>4, <2>5 DEF HookAgain
  <2>6. CASE ~HookAgain(g, o)
    <3>1. objKey[<<o, g>>] = NoEntry
      BY <2>2, <2>6 DEF HookVtable, HookKnownVtable, HookNewVtable,
                        HookNewVtableCall
    <3>2. perObject[o] = None
      BY <1>3, <2>4, <3>1 DEF ChainInv, HooksInv, DirectFirst, NotifyVtable
    <3> QED
      BY <2>2, <2>4, <3>2, VtableHookChanges
  <2> QED
    BY <2>5, <2>6
<1> USE <1>1, <1>2 DEF ChainInv, HooksInv, perObjectVars
<1>4. ChainTypeOK'
  BY DEF ChainTypeOK, Funcs
<1>5. CopiesMade'
  <2>1. ASSUME NEW p \in ObjectHookers
        PROVE  slot'[Private[p]] = slot[Private[p]]
    <3>1. Private[p] \in Vtables /\ (perObject[o] = None => Private[p] # vptr[o])
      BY PlainObject, PrivateFacts DEF IsPrivate
    <3> QED
      BY <3>1 DEF ChainTypeOK
  <2> QED
    BY <2>1 DEF CopiesMade
<1>6. DirectFirst'
  <2>1. Usable(o)
    BY DEF DirectFirst, NotifyVtable
  <2>2. ASSUME NEW q \in Objects, NEW h \in Hookers, q \notin failed',
               perObject[q] # None \/ notify'[q] = "object",
               ClassOf[q] \in Serves[h]
        PROVE  objKey'[<<q, h>>] # NoEntry
    BY <1>3, <2>2 DEF DirectFirst, ChainTypeOK
  <2> QED
    BY <2>1, <2>2 DEF DirectFirst, Usable, ChainTypeOK
<1> QED
  BY <1>4, <1>5, <1>6 DEF PrivateUse, CallsHeld, Usable, ObjectCounterExact


\* Copying the vtable of an object without a hook, if it was not copied yet.
LEMMA CopyEffect ==
  ASSUME ChainInv, NEW p \in ObjectHookers, NEW o \in Objects,
         perObject[o] = None,
         PrepareVtable(p, o) \/ UNCHANGED <<copied, saved, slot>>
  PROVE  /\ copied' \in [ObjectHookers -> BOOLEAN]
         /\ saved' \in [ObjectHookers -> Funcs \cup ObjectHookers \cup {Idle}]
         /\ slot' \in [Vtables -> Funcs \cup ObjectHookers]
         /\ CopiesMade'
         /\ \A q \in ObjectHookers : copied[q] => copied'[q]
         /\ PrepareVtable(p, o) => copied'[p]
<1>1. /\ copied \in [ObjectHookers -> BOOLEAN]
      /\ saved \in [ObjectHookers -> Funcs \cup ObjectHookers \cup {Idle}]
      /\ slot \in [Vtables -> Funcs \cup ObjectHookers]
      /\ CopiesMade
  BY DEF ChainInv, HooksInv, ChainTypeOK
<1>2. CASE UNCHANGED <<copied, saved, slot>>
  BY <1>1, <1>2 DEF CopiesMade, PrepareVtable, CopyVtable
<1>3. CASE CopyVtable(p, o)
  <2>1. /\ copied' = [copied EXCEPT ![p] = TRUE]
        /\ saved' = [saved EXCEPT ![p] = slot[vptr[o]]]
        /\ slot' = [slot EXCEPT ![Private[p]] = p]
    BY <1>3 DEF CopyVtable
  <2>2. slot[vptr[o]] \in Funcs
    BY PlainObject
  <2>3. \A q \in ObjectHookers :
          Private[q] \in Vtables /\ (Private[q] = Private[p] => q = p)
    BY PrivateFacts
  <2>4. ASSUME NEW q \in ObjectHookers, copied'[q]
        PROVE  slot'[Private[q]] = q /\ saved'[q] \in Funcs
    BY <1>1, <2>1, <2>2, <2>3, <2>4 DEF CopiesMade
  <2> QED
    BY <1>1, <2>1, <2>2, <2>3, <2>4 DEF CopiesMade
<1> QED
  BY <1>2, <1>3 DEF PrepareVtable

UsersOf(p) == {o \in Objects : perObject[o] # None /\ perObject[o].by = p}

LEMMA UsersFinite ==
  ASSUME NEW p \in ObjectHookers
  PROVE  IsFiniteSet(UsersOf(p)) /\ UsersOf(p) \subseteq Objects
BY FS_Subset, CountersFit DEF UsersOf

\* The object with its new hook.
LEMMA HookNewObjectKeeps ==
  ASSUME ChainInv, NEW p \in ObjectHookers, NEW o \in Objects,
         PrepareVtable(p, o), HookNewObject(p, o), perObject[o] = None,
         HookedClass[p] = ClassOf[o], NotifyObject(o)
  PROVE  /\ perObject' \in [Objects -> [by : ObjectHookers, vtable : Vtables]
                                         \cup {None}]
         /\ vptr' \in [Objects -> Vtables]
         /\ objCounter' \in [ObjectHookers -> 0..WordMax]
         /\ PrivateUse'
         /\ \A q \in Objects : perObject'[q] = None => perObject[q] = None
         /\ \A q \in Objects : q # o => perObject'[q] = perObject[q]
         /\ ObjectCounterExact'
<1> DEFINE new == [by |-> p, vtable |-> vptr[o]]
<1>1. /\ perObject' = [perObject EXCEPT ![o] = new]
      /\ vptr' = [vptr EXCEPT ![o] = Private[p]]
      /\ objCounter' = [objCounter EXCEPT ![p] = Inc(@)]
  BY DEF HookNewObject
<1>2. ChainTypeOK
  BY DEF ChainInv, HooksInv
<1>3. /\ new \in [by : ObjectHookers, vtable : Vtables]
      /\ new # None /\ new.by = p /\ Private[p] \in Vtables
  BY <1>2, NoneIsNoHook, PrivateFacts DEF ChainTypeOK
<1>4. objCounter[p] \in 0..WordMax
  BY <1>2 DEF ChainTypeOK
<1> HIDE DEF new
<1>5. /\ perObject' \in [Objects -> [by : ObjectHookers, vtable : Vtables]
                                      \cup {None}]
      /\ vptr' \in [Objects -> Vtables]
      /\ objCounter' \in [ObjectHookers -> 0..WordMax]
  BY <1>1, <1>2, <1>3, <1>4, WordArithmetic DEF ChainTypeOK
<1>6. \A q \in Objects :
        /\ perObject'[q] = IF q = o THEN new ELSE perObject[q]
        /\ vptr'[q] = IF q = o THEN Private[p] ELSE vptr[q]
  BY <1>1, <1>2 DEF ChainTypeOK
<1>7. PrivateUse'
  <2>1. o \in live /\ run[o] = Idle /\ UNCHANGED <<live, run, original>>
    BY NotifyObjectCases DEF ChainInv, HooksInv, DirectFirst, Usable, NotifyObject
  <2>2. copied'[p] /\ \A q \in ObjectHookers : copied[q] => copied'[q]
    BY CopyEffect
  <2>3. ASSUME NEW q \in Objects, perObject'[q] # None
        PROVE  /\ q \in live'
               /\ vptr'[q] = Private[perObject'[q].by]
               /\ copied'[perObject'[q].by]
               /\ HookedClass[perObject'[q].by] = ClassOf[q]
               /\ run'[q] \in {Idle, perObject'[q].by}
    <3>1. CASE q = o
      BY <1>3, <1>6, <2>1, <2>2, <3>1
    <3>2. CASE q # o
      <4>1. perObject'[q] = perObject[q] /\ vptr'[q] = vptr[q]
        BY <1>6, <3>2
      <4>2. perObject[q].by \in ObjectHookers
        BY <2>3, <4>1, PrivateObject
      <4> QED
        BY <2>1, <2>2, <2>3, <4>1, <4>2 DEF ChainInv, HooksInv, PrivateUse
    <3> QED
      BY <3>1, <3>2
  <2>4. ASSUME NEW q \in Objects
        PROVE  /\ original'[q] \in Funcs \cup {Idle}
               /\ run'[q] \in ObjectHookers => perObject'[q] # None
    BY <1>3, <1>6, <2>1 DEF ChainInv, HooksInv, PrivateUse
  <2> QED
    BY <2>3, <2>4 DEF PrivateUse
<1>8. ObjectCounterExact'
  <2>1. \A q \in ObjectHookers : objCounter[q] = Cardinality(UsersOf(q))
    BY DEF ChainInv, HooksInv, ObjectCounterExact, UsersOf
  <2>2. UsersOf(p)' = UsersOf(p) \cup {o} /\ o \notin UsersOf(p)
    BY <1>3, <1>6 DEF UsersOf
  <2>3. \A q \in ObjectHookers : q # p => UsersOf(q)' = UsersOf(q)
    BY <1>3, <1>6 DEF UsersOf
  <2>4. Inc(Cardinality(UsersOf(p))) = Cardinality(UsersOf(p) \cup {o})
    BY <2>2, UsersFinite, CountUp, CountersFit
  <2>5. \A q \in ObjectHookers :
          objCounter'[q] = IF q = p THEN Inc(objCounter[q]) ELSE objCounter[q]
    BY <1>1, <1>2 DEF ChainTypeOK
  <2>6. ASSUME NEW q \in ObjectHookers
        PROVE  objCounter'[q] = Cardinality(UsersOf(q)')
    <3>1. CASE q = p
      BY <2>1, <2>2, <2>4, <2>5, <3>1
    <3>2. CASE q # p
      BY <2>1, <2>3, <2>5, <3>2
    <3> QED
      BY <3>1, <3>2
  <2> QED
    BY <2>6 DEF ObjectCounterExact, UsersOf
<1> QED
  BY <1>3, <1>5, <1>6, <1>7, <1>8

LEMMA NotifyObjectKeeps ==
  ASSUME ChainInv, NEW o \in Objects, NotifyObject(o)
  PROVE  HooksInv'
<1>1. /\ UNCHANGED <<live, hash, objKey, entry, counter, crashed, run,
                     original, calls, visited>>
      /\ notify' = [notify EXCEPT ![o] = "none"]
      /\ failed' \in {failed, failed \cup {o}}
      /\ notify[o] = "object"
  BY NotifyObjectCases DEF NotifyObject
<1> USE <1>1
<1>2. CASE UNCHANGED <<vptr, slot, perObjectVars>>
  <2> USE <1>2 DEF ChainInv, HooksInv, perObjectVars
  <2>1. ChainTypeOK'
    BY DEF ChainTypeOK
  <2>2. DirectFirst'
    BY DEF DirectFirst, Usable, ChainTypeOK
  <2> QED
    BY <2>1, <2>2
       DEF CopiesMade, PrivateUse, CallsHeld, Usable, ObjectCounterExact
<1>3. ASSUME NEW p \in ObjectHookers,
             HookedClass[p] = ClassOf[o],
             perObject[o] = None,
             PrepareVtable(p, o) \/ UNCHANGED <<copied, saved, slot>>,
             \/ UNCHANGED <<perObject, vptr, objCounter>>
             \/ PrepareVtable(p, o) /\ HookNewObject(p, o)
      PROVE  HooksInv'
  <2>1. /\ copied' \in [ObjectHookers -> BOOLEAN]
        /\ saved' \in [ObjectHookers -> Funcs \cup ObjectHookers \cup {Idle}]
        /\ slot' \in [Vtables -> Funcs \cup ObjectHookers]
        /\ CopiesMade'
        /\ \A q \in ObjectHookers : copied[q] => copied'[q]
    BY <1>3, CopyEffect
  <2>2. /\ perObject' \in [Objects -> [by : ObjectHookers, vtable : Vtables]
                                        \cup {None}]
        /\ vptr' \in [Objects -> Vtables]
        /\ objCounter' \in [ObjectHookers -> 0..WordMax]
        /\ PrivateUse'
        /\ \A q \in Objects : perObject'[q] = None => perObject[q] = None
        /\ \A q \in Objects : q # o => perObject'[q] = perObject[q]
        /\ ObjectCounterExact'
    <3>1. CASE UNCHANGED <<perObject, vptr, objCounter>>
      <4>1. PrivateUse'
        BY <2>1, <3>1, PrivateObject DEF ChainInv, HooksInv, PrivateUse
      <4> QED
        BY <3>1, <4>1 DEF ChainInv, HooksInv, ChainTypeOK, ObjectCounterExact
    <3>2. CASE PrepareVtable(p, o) /\ HookNewObject(p, o)
      BY <1>3, <3>2, HookNewObjectKeeps
    <3> QED
      BY <1>3, <3>1, <3>2
  <2>3. ChainTypeOK'
    BY <2>1, <2>2 DEF ChainInv, HooksInv, ChainTypeOK
  <2>4. DirectFirst'
    BY <2>2 DEF ChainInv, HooksInv, DirectFirst, Usable, ChainTypeOK
  <2>5. CallsHeld'
    BY <1>3, <2>2 DEF ChainInv, HooksInv, CallsHeld, Usable, ChainTypeOK
  <2> QED
    BY <2>1, <2>2, <2>3, <2>4, <2>5 DEF HooksInv
<1> QED
  BY <1>2, <1>3, NotifyObjectCases


\* What unhooking from a vtable changes that per-object hooks depend on.
LEMMA VtableUnHookChanges ==
  ASSUME ChainInv, NEW h \in Hookers, NEW o \in Objects, UnHookInt(h, o)
  PROVE  /\ slot' \in [Vtables -> Funcs \cup ObjectHookers]
         /\ \A p \in ObjectHookers : slot'[Private[p]] = slot[Private[p]]
         /\ counter' \in [Hookers -> 0..WordMax]
         /\ \A k \in Objects \X Hookers : k[1] # o => objKey'[k] = objKey[k]
<1>1. /\ objKey \in [Objects \X Hookers -> EntryIds \cup {NoEntry}]
      /\ counter \in [Hookers -> 0..WordMax]
      /\ slot \in [Vtables -> Funcs \cup ObjectHookers]
  BY DirectFacts DEF ChainInv, HooksInv, ChainTypeOK
<1>2. CASE UnHookUnknown(h, o)
  BY <1>1, <1>2 DEF UnHookUnknown, registry
<1>3. CASE UnHookKnown(h, o)
  <2> DEFINE e == objKey[<<o, h>>]
             v == entry[e].key[1]
             last == Unused(Dec(entry[e].refCount))
  <2>1. e \in EntryIds /\ entry[e].holders # {}
    BY <1>3, DirectFacts DEF UnHookKnown, ReleaseVtable, ChainInv
  <2>2. /\ entry[e].key \in Vtables \X Classes \X Hookers
        /\ v \in VtablesOf[entry[e].key[2]] /\ entry[e].orig \in Vtables
    BY <2>1, DirectFacts DEF ChainInv
  <2>3. v \in Vtables /\ ~IsPrivate(v)
    BY <2>2, PrivateFacts
  <2>4. slot' = IF last THEN [slot EXCEPT ![v] = entry[e].orig] ELSE slot
    BY <1>3 DEF UnHookKnown, ReleaseVtable
  <2>5. objKey' = [objKey EXCEPT ![<<o, h>>] = NoEntry]
    BY <1>3 DEF UnHookKnown, ReleaseVtable
  <2>6. counter' = [counter EXCEPT ![h] = Dec(@)] /\ counter[h] \in 0..WordMax
    BY <1>1, <1>3 DEF UnHookKnown
  <2>7. entry[e].orig \in Funcs \cup ObjectHookers
    BY <2>2 DEF Funcs
  <2> HIDE DEF e, v, last
  <2>8. \A p \in ObjectHookers : Private[p] \in Vtables /\ Private[p] # v
    BY <2>3, PrivateFacts DEF IsPrivate
  <2>9. /\ slot' \in [Vtables -> Funcs \cup ObjectHookers]
        /\ \A p \in ObjectHookers : slot'[Private[p]] = slot[Private[p]]
    BY <1>1, <2>4, <2>7, <2>8
  <2>10. counter' \in [Hookers -> 0..WordMax]
    BY <1>1, <2>6, WordArithmetic
  <2>11. \A k \in Objects \X Hookers : k[1] # o => objKey'[k] = objKey[k]
    BY <1>1, <2>5
  <2> QED
    BY <2>9, <2>10, <2>11
<1> QED
  BY <1>2, <1>3 DEF UnHookInt

LEMMA UnHookVtableKeeps ==
  ASSUME ChainInv, NEW o \in Objects, chain_free_hook(o),
         run[o] \in Hookers, perObject[o] = None, UnHookInt(run[o], o),
         UNCHANGED <<perObjectVars, vptr>>
  PROVE  HooksInv'
<1>1. /\ UNCHANGED <<live, notify, failed, calls>>
      /\ run' = [run EXCEPT ![o] = original[o]]
      /\ original' = [original EXCEPT ![o] = Idle]
      /\ visited' = [visited EXCEPT ![o] = @ \cup {run[o]}]
      /\ original[o] \in Funcs /\ run[o] \in AllHookers /\ run[o] # Idle
  BY FreeHookCases, ConstantsDistinct
<1>2. /\ slot' \in [Vtables -> Funcs \cup ObjectHookers]
      /\ \A p \in ObjectHookers : slot'[Private[p]] = slot[Private[p]]
      /\ counter' \in [Hookers -> 0..WordMax]
      /\ \A k \in Objects \X Hookers : k[1] # o => objKey'[k] = objKey[k]
  BY VtableUnHookChanges
<1> USE <1>1, <1>2 DEF ChainInv, HooksInv, perObjectVars
<1>3. ChainTypeOK'
  BY DEF ChainTypeOK
<1>4. PrivateUse'
  BY PrivateFacts DEF PrivateUse, ChainTypeOK
<1>5. DirectFirst'
  <2>1. ASSUME NEW q \in Objects, notify'[q] # "none"
        PROVE  Usable(q)' /\ q # o
    BY <2>1 DEF DirectFirst, Usable, ChainTypeOK
  <2>2. ASSUME NEW q \in Objects, q \notin failed',
               perObject'[q] # None \/ notify'[q] = "object",
               NEW h \in Hookers, ClassOf[q] \in Serves[h]
        PROVE  objKey'[<<q, h>>] # NoEntry
    <3>1. q # o
      BY <2>1, <2>2
    <3> QED
      BY <2>2, <3>1 DEF DirectFirst
  <2> QED
    BY <2>1, <2>2 DEF DirectFirst
<1>6. CallsHeld'
  BY DEF CallsHeld, Usable, ChainTypeOK
<1> QED
  BY <1>3, <1>4, <1>5, <1>6 DEF CopiesMade, ObjectCounterExact

\* The vtable pointer is restored, and the copy goes with the last object.
LEMMA UnHookObjectKeeps ==
  ASSUME ChainInv, NEW o \in Objects, chain_free_hook(o),
         perObject[o] # None, run[o] = perObject[o].by,
         UnHookByObjectHooker(run[o], o), UNCHANGED registry
  PROVE  HooksInv'
<1> DEFINE p == run[o]
<1>1. /\ UNCHANGED <<live, notify, failed, calls>>
      /\ run' = [run EXCEPT ![o] = original[o]]
      /\ original' = [original EXCEPT ![o] = Idle]
      /\ visited' = [visited EXCEPT ![o] = @ \cup {p}]
      /\ original[o] \in Funcs /\ p \in AllHookers
  BY FreeHookCases
<1>2. /\ p \in ObjectHookers /\ p # Idle
      /\ perObject[o].vtable \in Vtables
  BY PrivateObject, PrivateFacts
<1>3. /\ perObject' = [perObject EXCEPT ![o] = None]
      /\ vptr' = [vptr EXCEPT ![o] = perObject[o].vtable]
      /\ objCounter' = [objCounter EXCEPT ![p] = Dec(@)]
      /\ \/ /\ Dec(objCounter[p]) = 0
            /\ copied' = [copied EXCEPT ![p] = FALSE]
            /\ saved' = [saved EXCEPT ![p] = Idle]
         \/ Dec(objCounter[p]) # 0 /\ UNCHANGED <<copied, saved>>
  BY DEF UnHookByObjectHooker, RestoreObject, NoObjectLeft
<1>4. ChainTypeOK
  BY DEF ChainInv, HooksInv
<1>5. objCounter[p] \in 0..WordMax
  BY <1>2, <1>4 DEF ChainTypeOK
<1>6. \A q \in Objects :
        /\ perObject'[q] = IF q = o THEN None ELSE perObject[q]
        /\ vptr'[q] = IF q = o THEN perObject[o].vtable ELSE vptr[q]
        /\ run'[q] = IF q = o THEN original[o] ELSE run[q]
        /\ original'[q] = IF q = o THEN Idle ELSE original[q]
  BY <1>1, <1>3, <1>4 DEF ChainTypeOK
<1>7. /\ o \in UsersOf(p)
      /\ \A q \in ObjectHookers : q # p => o \notin UsersOf(q)
      /\ \A q \in ObjectHookers : UsersOf(q)' = UsersOf(q) \ {o}
  BY <1>6 DEF UsersOf
<1>8. \A q \in ObjectHookers : objCounter[q] = Cardinality(UsersOf(q))
  BY DEF ChainInv, HooksInv, ObjectCounterExact, UsersOf
<1>9. Dec(objCounter[p]) = Cardinality(UsersOf(p) \ {o})
  BY <1>2, <1>7, <1>8, UsersFinite, CountDown
<1>10. Dec(objCounter[p]) = 0 => UsersOf(p) \ {o} = {}
  <2>1. IsFiniteSet(UsersOf(p) \ {o})
    BY <1>2, <1>7, UsersFinite, FS_Subset
  <2> QED
    BY <1>9, <2>1, FS_EmptySet
<1> HIDE DEF p
<1>11. ObjectCounterExact'
  <2>1. \A q \in ObjectHookers :
          objCounter'[q] = IF q = p THEN Dec(objCounter[q]) ELSE objCounter[q]
    BY <1>3, <1>4 DEF ChainTypeOK
  <2>2. ASSUME NEW q \in ObjectHookers
        PROVE  objCounter'[q] = Cardinality(UsersOf(q)')
    <3>1. CASE q = p
      BY <1>7, <1>9, <2>1, <3>1
    <3>2. CASE q # p
      <4>1. UsersOf(q)' = UsersOf(q)
        BY <1>7, <3>2
      <4> QED
        BY <1>8, <2>1, <3>2, <4>1
    <3> QED
      BY <3>1, <3>2
  <2> QED
    BY <2>2 DEF ObjectCounterExact, UsersOf
<1>12. ChainTypeOK'
  <2>1. objCounter' \in [ObjectHookers -> 0..WordMax]
    BY <1>3, <1>4, <1>5, WordArithmetic DEF ChainTypeOK
  <2>2. /\ copied' \in [ObjectHookers -> BOOLEAN]
        /\ saved' \in [ObjectHookers -> Funcs \cup ObjectHookers \cup {Idle}]
    BY <1>3, <1>4 DEF ChainTypeOK
  <2>3. /\ slot' = slot /\ counter' = counter
        /\ UNCHANGED <<live, notify, failed, calls>>
    BY <1>1 DEF registry
  <2> QED
    BY <1>1, <1>2, <1>3, <1>4, <2>1, <2>2, <2>3 DEF ChainTypeOK
<1>13. CopiesMade'
  BY <1>3, <1>4 DEF registry, ChainInv, HooksInv, CopiesMade, ChainTypeOK
<1>14. PrivateUse'
  <2>1. ASSUME NEW q \in Objects, perObject'[q] # None
        PROVE  /\ q # o /\ perObject'[q] = perObject[q]
               /\ copied'[perObject[q].by]
    <3>1. q # o /\ perObject'[q] = perObject[q]
      BY <1>6, <2>1
    <3>2. perObject[q].by \in ObjectHookers /\ copied[perObject[q].by]
      BY <2>1, <3>1, PrivateObject DEF ChainInv, HooksInv, PrivateUse
    <3>3. perObject[q].by = p => q \in UsersOf(p) \ {o}
      BY <2>1, <3>1 DEF UsersOf
    <3> QED
      BY <1>3, <1>4, <1>10, <3>1, <3>2, <3>3 DEF ChainTypeOK
  <2>2. ASSUME NEW q \in Objects, perObject'[q] # None
        PROVE  /\ q \in live'
               /\ vptr'[q] = Private[perObject'[q].by]
               /\ copied'[perObject'[q].by]
               /\ HookedClass[perObject'[q].by] = ClassOf[q]
               /\ run'[q] \in {Idle, perObject'[q].by}
    BY <1>1, <1>6, <2>1, <2>2 DEF ChainInv, HooksInv, PrivateUse
  <2>3. ASSUME NEW q \in Objects
        PROVE  /\ original'[q] \in Funcs \cup {Idle}
               /\ run'[q] \in ObjectHookers => perObject'[q] # None
    BY <1>1, <1>6, PrivateFacts DEF ChainInv, HooksInv, PrivateUse
  <2> QED
    BY <2>2, <2>3 DEF PrivateUse
<1>15. \A q \in Objects : Usable(q) => q # o /\ Usable(q)'
  BY <1>1, <1>2, <1>6 DEF Usable, p
<1>16. DirectFirst'
  BY <1>1, <1>4, <1>6, <1>15
     DEF registry, ChainInv, HooksInv, DirectFirst, ChainTypeOK
<1>17. CallsHeld'
  <2>1. ASSUME NEW t \in Threads, calls[t] # None
        PROVE  /\ Usable(calls[t].obj)'
               /\ perObject'[calls[t].obj] = perObject[calls[t].obj]
    <3>1. calls[t].obj \in Objects /\ Usable(calls[t].obj) /\ calls' = calls
      BY <1>1, <1>4, <2>1 DEF ChainInv, HooksInv, CallsHeld, ChainTypeOK
    <3>2. \A q \in Objects : q = calls[t].obj => Usable(q)' /\ q # o
      BY <1>15, <3>1
    <3> QED
      BY <1>6, <3>1, <3>2 DEF Usable
  <2>2. calls' = calls
    BY <1>1
  <2> QED
    BY <2>1, <2>2 DEF ChainInv, HooksInv, CallsHeld
<1> QED
  BY <1>11, <1>12, <1>13, <1>14, <1>16, <1>17 DEF HooksInv


-----------------------------------------------------------------------------
(***************************************************************************)
(* The invariant holds, and with it what the direct hooking guarantees.    *)
(***************************************************************************)
LEMMA InitDirect == ChainInit => Direct!PatchInv
<1> SUFFICES ASSUME ChainInit PROVE Direct!PatchInv
  OBVIOUS
<1> USE DEF Direct!Keys, Direct!Funcs, Direct!Blank, Keys, Funcs, Blank
<1>1. ClassVptr = vptr /\ vptr \in [Objects -> Vtables]
  BY DEF ChainInit, Init, ClassVptr
<1>2. ClassSlot = [v \in Vtables |-> v]
  BY DEF ChainInit, Init, ClassSlot
<1>3. Direct!TypeOK
  <2>1. entry \in [EntryIds -> Direct!Entries]
    <3>1. Blank \in Direct!Entries
      BY ConstantsTyped DEF Direct!Entries
    <3> QED
      BY <3>1 DEF ChainInit, Init
  <2>2. 0 \in 0..WordMax
    BY ConstantsTyped
  <2> QED
    BY <1>1, <1>2, <2>1, <2>2 DEF ChainInit, Init, Direct!TypeOK, Nobody
<1>4. Direct!EntriesInUse /\ Direct!EntriesServed
  BY DEF ChainInit, Init, Direct!EntriesInUse, Direct!EntriesServed,
         Direct!HoldersOf
<1>5. Direct!HoldersExact
  BY ConstantsDistinct DEF ChainInit, Init, Direct!HoldersExact, Direct!Linked
<1>6. Direct!VptrOfClass
  BY <1>1 DEF ChainInit, Init, Direct!VptrOfClass
<1>7. \A k \in Vtables \X Classes \X Hookers : hash[k] = NoEntry
  BY DEF ChainInit, Init
<1>8. Direct!PatchedIffInTable
  BY <1>2, <1>7, ConstantsDistinct DEF Direct!PatchedIffInTable
<1> QED
  BY <1>3, <1>4, <1>5, <1>6, <1>7, <1>8
     DEF Direct!PatchInv, Direct!EntriesInv, Direct!KeysServed

LEMMA InitChainInv == ChainInit => ChainInv
<1> SUFFICES ASSUME ChainInit PROVE HooksInv
  BY InitDirect DEF ChainInv
<1> USE DEF ChainInit, Init
<1>1. ChainTypeOK
  <2>1. 0 \in 0..WordMax
    BY ConstantsTyped
  <2> QED
    BY <2>1 DEF ChainTypeOK, Funcs
<1>2. PrivateUse
  BY ObjectHookersTyped DEF PrivateUse
<1>3. ObjectCounterExact
  <2>1. \A p \in ObjectHookers : UsersOf(p) = {}
    BY DEF UsersOf
  <2> QED
    BY <2>1, FS_EmptySet DEF ObjectCounterExact, UsersOf
<1> QED
  BY <1>1, <1>2, <1>3 DEF HooksInv, CopiesMade, DirectFirst, CallsHeld

LEMMA StepChainInv ==
  ASSUME HookersDisjoint
  PROVE  ChainInv /\ [ChainNext]_chainVars => ChainInv'
<1> SUFFICES ASSUME ChainInv, [ChainNext]_chainVars
             PROVE  HooksInv'
  BY DirectStep, DirectPatchStep DEF ChainInv
<1>1. CASE UNCHANGED chainVars
  <2> USE <1>1 DEF chainVars, vars, registry, perObjectVars, ChainInv, HooksInv
  <2> QED
    BY DEF ChainTypeOK, CopiesMade, PrivateUse, DirectFirst, CallsHeld, Usable,
           ObjectCounterExact
<1>2. ASSUME NEW o \in Objects,
             \/ ChainConstruct(o)
             \/ Publish(o)
             \/ ChainFree(o)
             \/ ChainGetOriginalFunction(o)
             \/ ChainDestroy(o)
      PROVE  HooksInv'
  BY <1>2, ConstructKeeps, PublishKeeps, FreeKeeps, GetOriginalKeeps, DestroyKeeps
<1>3. ASSUME NEW o \in Objects, NotifyVtable(o) \/ NotifyObject(o)
      PROVE  HooksInv'
  BY <1>3, NotifyVtableKeeps, NotifyObjectKeeps
<1>4. ASSUME NEW o \in Objects, chain_free_hook(o)
      PROVE  HooksInv'
  BY <1>4, FreeHookCases, UnHookVtableKeeps, UnHookObjectKeeps
<1>5. ASSUME NEW t \in Threads, NEW o \in Objects, Call(t, o)
      PROVE  HooksInv'
  BY <1>5, CallKeeps
<1>6. ASSUME NEW t \in Threads, CallStep(t)
      PROVE  HooksInv'
  BY <1>6, ForwardKeeps, ReturnKeeps DEF CallStep
<1> QED
  BY <1>1, <1>2, <1>3, <1>4, <1>5, <1>6 DEF ChainNext, FreeStep

\* The direct hooking and the per-object hooking are each in order, whatever
\* the other does meanwhile.
THEOREM ChainInvariant == HookersDisjoint => (ChainSpec => []ChainInv)
<1> SUFFICES ASSUME HookersDisjoint
             PROVE  ChainSpec => []ChainInv
  OBVIOUS
<1> QED
  BY InitChainInv, StepChainInv, PTL DEF ChainSpec

\* All variables of hooked objects and of calls keep their types: in particular
\* what a hooking function finds and calls as the original one is a function.
THEOREM ChainTypeCorrect == HookersDisjoint => (ChainSpec => []ChainTypeOK)
<1>1. ChainInv => ChainTypeOK
  BY DEF ChainInv, HooksInv
<1> QED
  BY <1>1, ChainInvariant, PTL

\* The direct vtable hooking does not notice the per-object hooks: with the
\* vtable of its class in the place of an object's private one, every step is a
\* step of the module VtableHook, or none of its variables change.
THEOREM DirectHookingUndisturbed ==
  HookersDisjoint => (ChainSpec => [][Direct!Next]_(Direct!vars))
<1> SUFFICES ASSUME HookersDisjoint
             PROVE  ChainSpec => [][Direct!Next]_(Direct!vars)
  OBVIOUS
<1>1. ChainInv /\ [ChainNext]_chainVars => [Direct!Next]_(Direct!vars)
  BY DirectStep
<1> QED
  BY <1>1, ChainInvariant, PTL DEF ChainSpec

\* HookedObjectsCounter of a per-object hooker is the number of the objects
\* that use its copy of the vtable, so the copy is freed with the last of them.
THEOREM ObjectCountersExact ==
  HookersDisjoint => (ChainSpec => []ObjectCounterExact)
<1>1. ChainInv => ObjectCounterExact
  BY DEF ChainInv, HooksInv
<1> QED
  BY <1>1, ChainInvariant, PTL

\* An object uses a private vtable exactly while it has its per-object hook,
\* and then the copy is there and its original function is known.
THEOREM PrivateOnlyWhileHooked ==
  HookersDisjoint => (ChainSpec => []PrivateIffHooked)
<1>1. ChainInv => PrivateIffHooked
  <2> SUFFICES ASSUME ChainInv, NEW o \in live, NEW p \in ObjectHookers
               PROVE  /\ vptr[o] = Private[p] <=>
                           perObject[o] # None /\ perObject[o].by = p
                      /\ vptr[o] = Private[p] => copied[p] /\ saved[p] # Idle
    BY DEF PrivateIffHooked
  <2>1. o \in Objects
    BY DEF ChainInv, HooksInv, ChainTypeOK
  <2>2. CASE perObject[o] = None
    BY <2>1, <2>2, PlainObject DEF IsPrivate
  <2>3. CASE perObject[o] # None
    <3>1. /\ perObject[o].by \in ObjectHookers
          /\ vptr[o] = Private[perObject[o].by]
          /\ copied[perObject[o].by]
      BY <2>1, <2>3, PrivateObject DEF ChainInv, HooksInv, PrivateUse
    <3>2. saved[perObject[o].by] # Idle
      BY <2>1, <2>3, PrivateObject, ConstantsDistinct DEF Funcs
    <3> QED
      BY <2>3, <3>1, <3>2, PrivateFacts
  <2> QED
    BY <2>2, <2>3
<1> QED
  BY <1>1, ChainInvariant, PTL

\* A vtable hooker never meets a per-object hook in the free() of an object:
\* the per-object hook comes first in the chain and is removed first.
THEOREM NoResidual == HookersDisjoint => (ChainSpec => []NoResidualHook)
<1>1. ChainInv => NoResidualHook
  <2> SUFFICES ASSUME ChainInv, NEW o \in Objects, run[o] \in Hookers,
                      perObject[o] # None
               PROVE  FALSE
    BY DEF NoResidualHook
  <2>1. run[o] = perObject[o].by \/ run[o] = Idle
    BY DEF ChainInv, HooksInv, PrivateUse
  <2>2. perObject[o].by \in ObjectHookers
    BY PrivateObject
  <2> QED
    BY <2>1, <2>2, ObjectHookersTyped, ConstantsDistinct
<1> QED
  BY <1>1, ChainInvariant, PTL

\* No private vtable comes under a key of the table: a vtable hooker never
\* takes it for a vtable of the class, although objects that have it are
\* published again.
THEOREM PrivateVtablesNeverHooked ==
  HookersDisjoint => (ChainSpec => []PrivateNeverHooked)
<1>1. ChainInv => PrivateNeverHooked
  <2> SUFFICES ASSUME ChainInv, NEW p \in ObjectHookers, NEW c \in Classes,
                      NEW h \in Hookers, hash[<<Private[p], c, h>>] # NoEntry
               PROVE  FALSE
    BY DEF PrivateNeverHooked
  <2>1. <<Private[p], c, h>> \in Vtables \X Classes \X Hookers
    BY PrivateFacts
  <2>2. Private[p] \in VtablesOf[c]
    BY <2>1, DirectFacts DEF ChainInv
  <2> QED
    BY <2>2, PrivateFacts
<1> QED
  BY <1>1, ChainInvariant, PTL

-----------------------------------------------------------------------------
(***************************************************************************)
(* The calls that go through both kinds of hooks: while all hooks can be   *)
(* installed, hookers serve disjoint classes and all objects of a class    *)
(* use one vtable, a call and a free() meet the per-object hook first,     *)
(* then the direct hook and then the function of the class, and none of    *)
(* these twice.                                                            *)
(***************************************************************************)
ServedBy(o) == {h \in Hookers : ClassOf[o] \in Serves[h]}

\* The original function of a per-object hooker is the direct hook of the
\* class, if the class has one.
CopiesInclude ==
  \A p \in ObjectHookers : copied[p] =>
    \A h \in Hookers : saved[p] = h <=> HookedClass[p] \in Serves[h]

\* The hooks of a call: those that are due have been met or are still to come.
CallOrdered(c) ==
  /\ c.fn \in ObjectHookers =>
       c.visited = {} /\ c.due \subseteq {c.fn} \cup ServedBy(c.obj)
  /\ c.fn \in Hookers =>
       /\ c.fn \in ServedBy(c.obj)
       /\ c.visited \subseteq ObjectHookers
       /\ c.due \subseteq c.visited \cup {c.fn}
  /\ c.fn \in Vtables => c.due \subseteq c.visited

CallsOrdered == \A t \in Threads : calls[t] # None => CallOrdered(calls[t])

\* The hooks of a free(), each of which unhooks.
FreeOrdered ==
  \A o \in Objects :
    /\ run[o] \notin AllHookers => original[o] = Idle
    /\ run[o] \in ObjectHookers =>
         /\ visited[o] = {}
         /\ original[o] # Idle =>
              \A h \in Hookers : original[o] = h <=> h \in ServedBy(o)
    /\ run[o] \in Hookers =>
         /\ run[o] \in ServedBy(o)
         /\ visited[o] \subseteq ObjectHookers
         /\ original[o] \in Vtables \cup {Idle}
    /\ run[o] \in Vtables => \A h \in Hookers : objKey[<<o, h>>] = NoEntry

Ordered == CopiesInclude /\ CallsOrdered /\ FreeOrdered

CallInv ==
  /\ ChainInv
  /\ Direct!CountInv
  /\ AllInstalled => Ordered

-----------------------------------------------------------------------------
(***************************************************************************)
(* What follows from the invariant.                                        *)
(***************************************************************************)
LEMMA DirectCountStep ==
  ASSUME OneVtable, Direct!CountInv, [Direct!Next]_(Direct!vars)
  PROVE  Direct!CountInv'
<1>1. Direct!OneVtable
  BY DEF OneVtable, Direct!OneVtable
<1> QED
  BY <1>1, DirectCounters, ConstantsTyped, ClassesDerived, ConstantsDistinct,
     Direct!StepCountInv
     DEF Direct!CountersFit

\* The slot of the class's vtable holds a hook if and only if an entry is there.
LEMMA SlotOfClass ==
  ASSUME HookersDisjoint, ChainInv, NEW o \in Objects, NEW h \in Hookers
  PROVE  /\ ClassSlot[ClassVptr[o]] = h <=>
              hash[<<ClassVptr[o], ClassOf[o], h>>] # NoEntry
         /\ ClassSlot[ClassVptr[o]] = h => h \in ServedBy(o)
<1>1. /\ ClassVptr[o] \in Vtables /\ ClassOf[o] \in Classes
      /\ ClassVptr[o] \in VtablesOf[ClassOf[o]]
  BY DirectFacts, ConstantsTyped DEF ChainInv
<1>2. Direct!KeysServed /\ Direct!PatchedIffInTable
  BY DEF ChainInv, Direct!PatchInv
<1>3. ClassSlot[ClassVptr[o]] = h <=>
        \E c \in Classes : hash[<<ClassVptr[o], c, h>>] # NoEntry
  BY <1>1, <1>2 DEF Direct!PatchedIffInTable
<1>4. ASSUME NEW c \in Classes, hash[<<ClassVptr[o], c, h>>] # NoEntry
      PROVE  c = ClassOf[o] /\ c \in Serves[h]
  <2>1. c \in Serves[h] /\ ClassVptr[o] \in VtablesOf[c]
    BY <1>1, <1>2, <1>4 DEF Direct!KeysServed, Direct!Served
  <2> QED
    BY <1>1, <2>1 DEF HookersDisjoint
<1> QED
  BY <1>1, <1>3, <1>4 DEF ServedBy

LEMMA ServedByOne ==
  ASSUME HookersDisjoint, NEW o \in Objects,
         NEW g \in ServedBy(o), NEW h \in ServedBy(o)
  PROVE  g = h
BY DEF HookersDisjoint, ServedBy

\* A hooked object has the hook in the vtable of its class.
LEMMA HookedSlot ==
  ASSUME HookersDisjoint, CallInv, NEW o \in Objects, NEW h \in Hookers,
         objKey[<<o, h>>] # NoEntry
  PROVE  h \in ServedBy(o) /\ ClassSlot[ClassVptr[o]] = h
<1>1. hash[<<ClassVptr[o], ClassOf[o], h>>] # NoEntry
  BY DEF CallInv, Direct!CountInv, Direct!ObjectsKnown, Direct!Key1
<1> QED
  BY <1>1, SlotOfClass DEF CallInv

\* What the slot of an object holds, when no hook has failed.
LEMMA PlainSlot ==
  ASSUME HookersDisjoint, CallInv, NEW o \in Objects, perObject[o] = None
  PROVE  /\ slot[vptr[o]] \in Funcs
         /\ slot[vptr[o]] \in Hookers => slot[vptr[o]] \in ServedBy(o)
         /\ \A h \in Hookers :
              objKey[<<o, h>>] # NoEntry => slot[vptr[o]] = h
<1>1. /\ slot[vptr[o]] \in Funcs
      /\ ClassSlot[ClassVptr[o]] = slot[vptr[o]]
  BY PlainObject DEF CallInv
<1> QED
  BY <1>1, SlotOfClass, HookedSlot DEF CallInv

\* An object whose hooks were installed has the direct hook when it has the
\* per-object one or is to get it.
LEMMA DirectThere ==
  ASSUME ChainInv, AllInstalled, NEW o \in Objects, NEW h \in ServedBy(o),
         perObject[o] # None \/ notify[o] = "object"
  PROVE  objKey[<<o, h>>] # NoEntry
BY DEF ChainInv, HooksInv, DirectFirst, AllInstalled, ServedBy

\* The direct hook goes on to the function of the class.
LEMMA DirectOriginal ==
  ASSUME HookersDisjoint, CallInv, AllInstalled, NEW o \in Objects,
         NEW h \in ServedBy(o)
  PROVE  OriginalOf(h, o) \in Vtables
<1> DEFINE found == IF objKey[<<o, h>>] # NoEntry THEN objKey[<<o, h>>]
                    ELSE IF hash[Key1(h, o)] # NoEntry THEN hash[Key1(h, o)]
                         ELSE hash[Key2(h, o)]
<1>1. h \in Hookers /\ h \notin ObjectHookers
  BY ObjectHookersTyped DEF ServedBy
<1>2. Key1(h, o) \in Keys /\ Key2(h, o) \in Keys
  BY <1>1, ConstantsTyped
     DEF CallInv, ChainInv, HooksInv, ChainTypeOK, Key1, Key2, Keys
<1>3. found # NoEntry => found \in EntryIds /\ entry[found].holders # {}
  BY <1>1, <1>2, DirectFacts DEF CallInv, ChainInv
<1>4. found # NoEntry => entry[found].orig \in Vtables
  BY <1>3, DirectFacts DEF CallInv, ChainInv
<1>5. OriginalOf(h, o) = IF found # NoEntry THEN entry[found].orig
                         ELSE slot[vptr[o]]
  BY <1>1, LeafCall DEF OriginalOf, OriginalFunction, Key1, Key2
<1>6. ASSUME found = NoEntry
      PROVE  slot[vptr[o]] \in Vtables
  <2>1. objKey[<<o, h>>] = NoEntry /\ hash[Key1(h, o)] = NoEntry
    BY <1>6
  <2>2. perObject[o] = None
    BY <2>1, DirectThere DEF CallInv
  <2>3. ClassVptr[o] = vptr[o] /\ ClassSlot[vptr[o]] = slot[vptr[o]]
    BY <2>2, PlainObject DEF CallInv
  <2>4. slot[vptr[o]] # h
    BY <1>1, <2>1, <2>3, SlotOfClass DEF CallInv, Key1
  <2>5. ASSUME slot[vptr[o]] \in Hookers
        PROVE  FALSE
    <3>1. slot[vptr[o]] \in ServedBy(o)
      BY <2>2, <2>5, PlainSlot
    <3> QED
      BY <2>4, <3>1, ServedByOne
  <2> QED
    BY <2>2, <2>5, PlainSlot DEF Funcs
<1> HIDE DEF found
<1> QED
  BY <1>4, <1>5, <1>6


-----------------------------------------------------------------------------
(***************************************************************************)
(* The hooks are met in their order.                                       *)
(***************************************************************************)
\* Names of different kinds.
LEMMA KindsDistinct ==
  /\ \A p \in ObjectHookers : p \notin Hookers /\ p \notin Vtables /\ p # Idle
  /\ \A h \in Hookers : h \notin Vtables /\ h # Idle
  /\ Idle \notin Vtables
BY ObjectHookersTyped, ConstantsDistinct

\* A per-object hooker with an object has its copy and the original function.
LEMMA CopyOfObject ==
  ASSUME CallInv, CopiesInclude, NEW o \in Objects, perObject[o] # None
  PROVE  /\ perObject[o].by \in ObjectHookers
         /\ saved[perObject[o].by] \in Funcs
         /\ \A h \in Hookers :
              saved[perObject[o].by] = h <=> h \in ServedBy(o)
<1>1. /\ perObject[o].by \in ObjectHookers
      /\ saved[perObject[o].by] \in Funcs
  BY PrivateObject DEF CallInv
<1>2. /\ copied[perObject[o].by]
      /\ HookedClass[perObject[o].by] = ClassOf[o]
  BY DEF CallInv, ChainInv, HooksInv, PrivateUse
<1> QED
  BY <1>1, <1>2 DEF CopiesInclude, ServedBy

LEMMA OneCallChanged ==
  ASSUME ChainTypeOK, CallsOrdered, NEW t \in Threads, NEW c,
         calls' = [calls EXCEPT ![t] = c], c # None => CallOrdered(c)
  PROVE  CallsOrdered'
<1>1. \A s \in Threads : calls'[s] = IF s = t THEN c ELSE calls[s]
  BY DEF ChainTypeOK
<1>2. \A s \in Threads : calls'[s] # None => CallOrdered(calls'[s])
  BY <1>1 DEF CallsOrdered
<1> QED
  BY <1>2 DEF CallsOrdered, CallOrdered, ServedBy

\* The hooks that an object has are met when the call begins or come after.
LEMMA CallBegins ==
  ASSUME HookersDisjoint, CallInv, NEW o \in Objects
  PROVE  CallOrdered([obj |-> o, fn |-> slot[vptr[o]], due |-> Due(o),
                      visited |-> {}])
<1>1. CASE perObject[o] = None
  <2>1. /\ Due(o) \subseteq {slot[vptr[o]]}
        /\ slot[vptr[o]] \in Vtables => Due(o) = {}
    BY <1>1, PlainSlot, KindsDistinct DEF Due
  <2>2. slot[vptr[o]] \notin ObjectHookers
    BY <1>1, PlainSlot, KindsDistinct DEF Funcs
  <2> QED
    BY <1>1, <2>1, <2>2, PlainSlot DEF CallOrdered
<1>2. CASE perObject[o] # None
  <2>1. slot[vptr[o]] = perObject[o].by /\ perObject[o].by \in ObjectHookers
    BY <1>2, PrivateObject DEF CallInv
  <2>2. Due(o) \subseteq {perObject[o].by} \cup ServedBy(o)
    BY HookedSlot DEF Due
  <2> QED
    BY <2>1, <2>2, KindsDistinct DEF CallOrdered
<1> QED
  BY <1>1, <1>2

\* A hooking function goes on to the next hook.
LEMMA CallGoesOn ==
  ASSUME HookersDisjoint, CallInv, Ordered, AllInstalled,
         NEW t \in Threads, calls[t] # None, calls[t].fn \in AllHookers
  PROVE  CallOrdered([obj |-> calls[t].obj,
                      fn |-> OriginalOf(calls[t].fn, calls[t].obj),
                      due |-> calls[t].due,
                      visited |-> calls[t].visited \cup {calls[t].fn}])
<1> DEFINE c == calls[t]
           o == c.obj
<1>1. /\ o \in Objects
      /\ c.fn \in ObjectHookers => perObject[o] # None /\ perObject[o].by = c.fn
  BY DEF CallInv, ChainInv, HooksInv, ChainTypeOK, CallsHeld
<1>2. CallOrdered(c)
  BY DEF Ordered, CallsOrdered
<1> HIDE DEF c
<1>3. CASE c.fn \in ObjectHookers
  <2>1. OriginalOf(c.fn, o) = saved[c.fn]
    BY <1>3 DEF OriginalOf
  <2>2. /\ saved[c.fn] \in Funcs
        /\ \A h \in Hookers : saved[c.fn] = h <=> h \in ServedBy(o)
    BY <1>1, <1>3, CopyOfObject DEF Ordered
  <2>3. c.visited = {} /\ c.due \subseteq {c.fn} \cup ServedBy(o)
    BY <1>2, <1>3 DEF CallOrdered
  <2>4. CASE saved[c.fn] \in Hookers
    <3>1. saved[c.fn] \in ServedBy(o) /\ ServedBy(o) \subseteq {saved[c.fn]}
      BY <2>2, <2>4 DEF ServedBy
    <3> QED
      BY <1>3, <2>1, <2>3, <2>4, <3>1, KindsDistinct DEF CallOrdered, c
  <2>5. CASE saved[c.fn] \in Vtables
    <3>1. ServedBy(o) = {}
      BY <2>2, <2>5, KindsDistinct DEF ServedBy
    <3> QED
      BY <2>1, <2>3, <2>5, <3>1, KindsDistinct DEF CallOrdered, c
  <2> QED
    BY <2>2, <2>4, <2>5 DEF Funcs
<1>4. CASE c.fn \in Hookers
  <2>1. /\ c.fn \in ServedBy(o)
        /\ c.due \subseteq c.visited \cup {c.fn}
    BY <1>2, <1>4 DEF CallOrdered
  <2>2. OriginalOf(c.fn, o) \in Vtables
    BY <1>1, <2>1, DirectOriginal
  <2> QED
    BY <2>1, <2>2, KindsDistinct DEF CallOrdered, c
<1> QED
  BY <1>3, <1>4 DEF AllHookers, c


-----------------------------------------------------------------------------
(***************************************************************************)
(* The steps.                                                              *)
(***************************************************************************)
\* The steps of other objects and threads.
LEMMA OthersOrdered ==
  ASSUME Ordered
  PROVE  /\ UNCHANGED <<copied, saved>> => CopiesInclude'
         /\ UNCHANGED calls => CallsOrdered'
         /\ UNCHANGED <<run, original, visited, objKey>> => FreeOrdered'
BY DEF Ordered, CopiesInclude, CallsOrdered, CallOrdered, FreeOrdered, ServedBy

LEMMA CallStepOrdered ==
  ASSUME HookersDisjoint, CallInv, Ordered, AllInstalled, NEW t \in Threads,
         CallStep(t) \/ \E o \in Objects : Call(t, o)
  PROVE  Ordered'
<1>1. UNCHANGED <<copied, saved, run, original, visited, objKey>>
  BY DEF CallStep, Forward, Refuse, Return, Call, vars, registry, perObjectVars
<1>2. ChainTypeOK /\ CallsOrdered
  BY DEF CallInv, ChainInv, HooksInv, Ordered
<1>3. CASE Forward(t)
  <2>1. calls[t] # None /\ calls[t].fn \in AllHookers
    BY <1>3 DEF Forward
  <2> QED
    BY <1>1, <1>2, <1>3, <2>1, Forwarded, CallGoesOn, OneCallChanged,
       OthersOrdered DEF Ordered
<1>4. CASE Refuse(t) \/ Return(t)
  <2>1. calls' = [calls EXCEPT ![t] = None]
    BY <1>4 DEF Refuse, Return
  <2> QED
    BY <1>1, <1>2, <2>1, OneCallChanged, OthersOrdered DEF Ordered
<1>5. ASSUME NEW o \in Objects, Call(t, o)
      PROVE  Ordered'
  <2>1. calls' = [calls EXCEPT ![t] = [obj |-> o, fn |-> slot[vptr[o]],
                                       due |-> Due(o), visited |-> {}]]
    BY <1>5 DEF Call
  <2> QED
    BY <1>1, <1>2, <2>1, CallBegins, OneCallChanged, OthersOrdered DEF Ordered
<1> QED
  BY <1>3, <1>4, <1>5 DEF CallStep

LEMMA NotifyVtableOrdered ==
  ASSUME CallInv, Ordered, NEW o \in Objects, NotifyVtable(o)
  PROVE  Ordered'
<1>1. /\ UNCHANGED <<copied, saved, run, original, visited, calls>>
      /\ run[o] = Idle
  BY NotifyVtableCases
     DEF perObjectVars, CallInv, ChainInv, HooksInv, DirectFirst, NotifyVtable,
         Usable
<1>2. \A k \in Objects \X Hookers : k[1] # o => objKey'[k] = objKey[k]
  <2>1. CASE UNCHANGED registry
    BY <2>1 DEF registry
  <2>2. ASSUME NEW h \in Hookers, perObject[o] = None, HookVtable(h, o)
        PROVE  <1>2
    BY <2>2, VtableHookChanges DEF CallInv
  <2> QED
    BY <2>1, <2>2, NotifyVtableCases DEF CallInv
<1>3. FreeOrdered'
  BY <1>1, <1>2, KindsDistinct DEF Ordered, FreeOrdered, ServedBy
<1> QED
  BY <1>1, <1>3, OthersOrdered DEF Ordered

\* The vtable is copied when the direct hook of the class is in it.
LEMMA NotifyObjectOrdered ==
  ASSUME HookersDisjoint, CallInv, Ordered, AllInstalled,
         NEW o \in Objects, NotifyObject(o)
  PROVE  Ordered'
<1>1. UNCHANGED <<run, original, visited, calls, objKey>> /\ notify[o] = "object"
  BY NotifyObjectCases DEF CallInv, NotifyObject
<1>2. CopiesInclude'
  <2>1. CASE UNCHANGED <<copied, saved>>
    BY <2>1, OthersOrdered
  <2>2. ASSUME NEW p \in ObjectHookers, HookedClass[p] = ClassOf[o],
               perObject[o] = None, CopyVtable(p, o)
        PROVE  CopiesInclude'
    <3>1. /\ copied' = [copied EXCEPT ![p] = TRUE]
          /\ saved' = [saved EXCEPT ![p] = slot[vptr[o]]]
          /\ ChainTypeOK
      BY <2>2 DEF CopyVtable, CallInv, ChainInv, HooksInv
    <3>2. ASSUME NEW h \in Hookers
          PROVE  slot[vptr[o]] = h <=> HookedClass[p] \in Serves[h]
      BY <1>1, <2>2, PlainSlot, DirectThere DEF CallInv, ServedBy
    <3> QED
      BY <3>1, <3>2 DEF Ordered, CopiesInclude, ChainTypeOK
  <2> QED
    BY <2>1, <2>2, NotifyObjectCases DEF CallInv, PrepareVtable, perObjectVars
<1> QED
  BY <1>1, <1>2, OthersOrdered DEF Ordered

LEMMA FreeBeginsOrdered ==
  ASSUME HookersDisjoint, CallInv, Ordered, NEW o \in Objects, ChainFree(o)
  PROVE  Ordered'
<1>1. /\ run' = [run EXCEPT ![o] = slot[vptr[o]]] /\ run[o] = Idle
      /\ visited' = [visited EXCEPT ![o] = {}]
      /\ UNCHANGED <<copied, saved, calls, original, objKey>>
  BY DEF ChainFree, CallFree, Usable, registry, perObjectVars
<1>2. ChainTypeOK /\ FreeOrdered
  BY DEF CallInv, ChainInv, HooksInv, Ordered
<1>3. original[o] = Idle
  BY <1>1, <1>2, KindsDistinct DEF FreeOrdered, AllHookers
<1>4. \A q \in Objects :
        /\ run'[q] = IF q = o THEN slot[vptr[o]] ELSE run[q]
        /\ visited'[q] = IF q = o THEN {} ELSE visited[q]
  BY <1>1, <1>2 DEF ChainTypeOK
<1>5. /\ slot[vptr[o]] \in Hookers => slot[vptr[o]] \in ServedBy(o)
      /\ slot[vptr[o]] \in Vtables =>
           \A h \in Hookers : objKey[<<o, h>>] = NoEntry
  <2>1. CASE perObject[o] = None
    BY <2>1, PlainSlot, KindsDistinct
  <2>2. CASE perObject[o] # None
    BY <2>2, PrivateObject, KindsDistinct DEF CallInv
  <2> QED
    BY <2>1, <2>2
<1>6. FreeOrdered'
  BY <1>1, <1>2, <1>3, <1>4, <1>5 DEF FreeOrdered, ServedBy
<1> QED
  BY <1>1, <1>6, OthersOrdered DEF Ordered

LEMMA FreeLookupOrdered ==
  ASSUME HookersDisjoint, CallInv, Ordered, AllInstalled,
         NEW o \in Objects, ChainGetOriginalFunction(o)
  PROVE  Ordered'
<1>1. /\ original' = [original EXCEPT ![o] = OriginalOf(run[o], o)]
      /\ run[o] \in AllHookers
      /\ UNCHANGED <<copied, saved, calls, run, visited, objKey>>
  BY DEF ChainGetOriginalFunction, registry, perObjectVars
<1>2. ChainTypeOK /\ FreeOrdered
  BY DEF CallInv, ChainInv, HooksInv, Ordered
<1>3. \A q \in Objects :
        original'[q] = IF q = o THEN OriginalOf(run[o], o) ELSE original[q]
  BY <1>1, <1>2 DEF ChainTypeOK
<1>4. CASE run[o] \in ObjectHookers
  <2>1. perObject[o] # None /\ run[o] = perObject[o].by
    BY <1>4, KindsDistinct DEF CallInv, ChainInv, HooksInv, PrivateUse
  <2>2. OriginalOf(run[o], o) = saved[run[o]]
    BY <1>4 DEF OriginalOf
  <2>3. \A h \in Hookers : OriginalOf(run[o], o) = h <=> h \in ServedBy(o)
    BY <2>1, <2>2, CopyOfObject DEF Ordered
  <2>4. FreeOrdered'
    BY <1>1, <1>2, <1>3, <1>4, <2>3, KindsDistinct DEF FreeOrdered, ServedBy
  <2> QED
    BY <1>1, <2>4, OthersOrdered DEF Ordered
<1>5. CASE run[o] \in Hookers
  <2>1. OriginalOf(run[o], o) \in Vtables
    BY <1>2, <1>5, DirectOriginal DEF FreeOrdered
  <2>2. FreeOrdered'
    BY <1>1, <1>2, <1>3, <1>5, <2>1, KindsDistinct DEF FreeOrdered, ServedBy
  <2> QED
    BY <1>1, <2>2, OthersOrdered DEF Ordered
<1> QED
  BY <1>1, <1>4, <1>5 DEF AllHookers

\* The hook unhooks its own hook, and it was the only one left of its kind.
LEMMA FreeHookOrdered ==
  ASSUME HookersDisjoint, CallInv, Ordered, NEW o \in Objects, chain_free_hook(o)
  PROVE  Ordered'
<1>1. /\ UNCHANGED calls
      /\ run' = [run EXCEPT ![o] = original[o]]
      /\ original' = [original EXCEPT ![o] = Idle]
      /\ visited' = [visited EXCEPT ![o] = @ \cup {run[o]}]
      /\ run[o] \in AllHookers /\ original[o] \in Funcs
  BY FreeHookCases DEF CallInv
<1>2. ChainTypeOK /\ FreeOrdered /\ CopiesInclude
  BY DEF CallInv, ChainInv, HooksInv, Ordered
<1>3. \A q \in Objects :
        /\ run'[q] = IF q = o THEN original[o] ELSE run[q]
        /\ original'[q] = IF q = o THEN Idle ELSE original[q]
        /\ visited'[q] = IF q = o THEN visited[o] \cup {run[o]} ELSE visited[q]
  BY <1>1, <1>2 DEF ChainTypeOK
<1>4. original[o] # Idle /\ original[o] \notin ObjectHookers
  BY <1>1, KindsDistinct DEF Funcs
<1>5. CASE /\ run[o] \in Hookers
           /\ UnHookInt(run[o], o)
           /\ UNCHANGED <<perObjectVars, vptr>>
  <2>1. run[o] \in ServedBy(o) /\ original[o] \in Vtables
    BY <1>2, <1>4, <1>5 DEF FreeOrdered
  <2>2. \A k \in Objects \X Hookers : k[1] # o => objKey'[k] = objKey[k]
    BY <1>5, VtableUnHookChanges DEF CallInv
  <2>3. ASSUME NEW h \in Hookers
        PROVE  objKey'[<<o, h>>] = NoEntry
    <3>1. objKey[<<o, h>>] # NoEntry => h = run[o]
      BY <2>1, HookedSlot, ServedByOne
    <3>2. objKey \in [Objects \X Hookers -> EntryIds \cup {NoEntry}]
      BY DirectFacts DEF CallInv, ChainInv
    <3>3. CASE UnHookUnknown(run[o], o)
      BY <3>1, <3>3 DEF UnHookUnknown, registry
    <3>4. CASE UnHookKnown(run[o], o)
      <4>1. objKey' = [objKey EXCEPT ![<<o, run[o]>>] = NoEntry]
        BY <3>4 DEF UnHookKnown, ReleaseVtable
      <4> QED
        BY <3>1, <3>2, <4>1
    <3> QED
      BY <1>5, <3>3, <3>4 DEF UnHookInt
  <2>4. original[o] \notin AllHookers
    BY <2>1, KindsDistinct DEF AllHookers
  <2>5. FreeOrdered'
    BY <1>2, <1>3, <1>4, <2>2, <2>3, <2>4 DEF FreeOrdered, ServedBy, AllHookers
  <2> QED
    BY <1>1, <1>5, <2>5, OthersOrdered DEF Ordered, perObjectVars
<1>6. CASE /\ perObject[o] # None /\ run[o] = perObject[o].by
           /\ UnHookByObjectHooker(run[o], o)
           /\ UNCHANGED registry
  <2>1. run[o] \in ObjectHookers
    BY <1>6, PrivateObject DEF CallInv
  <2>2. /\ visited[o] = {}
        /\ \A h \in Hookers : original[o] = h <=> h \in ServedBy(o)
    BY <1>2, <1>4, <2>1 DEF FreeOrdered
  <2>3. original[o] \in Vtables => \A h \in Hookers : objKey[<<o, h>>] = NoEntry
    BY <2>2, HookedSlot, KindsDistinct
  <2>4. original[o] \notin Hookers => original[o] \notin AllHookers
    BY <1>4 DEF AllHookers
  <2>5. objKey' = objKey
    BY <1>6 DEF registry
  <2>6. FreeOrdered'
    BY <1>2, <1>3, <1>4, <2>1, <2>2, <2>3, <2>4, <2>5
       DEF FreeOrdered, ServedBy
  <2>7. CopiesInclude'
    <3>1. \/ UNCHANGED <<copied, saved>>
          \/ /\ copied' = [copied EXCEPT ![run[o]] = FALSE]
             /\ saved' = [saved EXCEPT ![run[o]] = Idle]
      BY <1>6 DEF UnHookByObjectHooker, NoObjectLeft
    <3> QED
      BY <1>2, <3>1 DEF CopiesInclude, ChainTypeOK
  <2> QED
    BY <1>1, <2>6, <2>7, OthersOrdered DEF Ordered
<1> QED
  BY <1>5, <1>6, FreeHookCases DEF CallInv

LEMMA DestroyOrdered ==
  ASSUME CallInv, Ordered, NEW o \in Objects, ChainDestroy(o)
  PROVE  Ordered'
<1>1. /\ run[o] \in Vtables /\ run' = [run EXCEPT ![o] = Idle]
      /\ UNCHANGED <<copied, saved, calls, original, visited, objKey>>
  BY DEF ChainDestroy, Destroy, registry, perObjectVars
<1>2. ChainTypeOK /\ FreeOrdered
  BY DEF CallInv, ChainInv, HooksInv, Ordered
<1>3. original[o] = Idle
  BY <1>1, <1>2, KindsDistinct DEF FreeOrdered, AllHookers
<1>4. FreeOrdered'
  BY <1>1, <1>2, <1>3, KindsDistinct DEF FreeOrdered, ServedBy, ChainTypeOK
<1> QED
  BY <1>1, <1>4, OthersOrdered DEF Ordered


-----------------------------------------------------------------------------
(***************************************************************************)
(* The invariant and what follows from it.                                 *)
(***************************************************************************)
LEMMA InitDirectCount == ChainInit => Direct!CountInv
<1> SUFFICES ASSUME ChainInit PROVE Direct!CountInv
  OBVIOUS
<1>1. Direct!EntriesInv /\ Direct!VptrOfClass
  BY InitDirect DEF Direct!PatchInv
<1>2. \A k \in Direct!Keys : hash[k] = NoEntry
  BY DEF ChainInit, Init, Direct!Keys, Keys
<1>3. \A c \in Classes, h \in Hookers : \A v \in VtablesOf[c] :
        <<v, c, h>> \in Direct!Keys /\ <<NullVtable, c, h>> \in Direct!Keys
  BY ConstantsTyped DEF Direct!Keys
<1>4. Direct!KeysAgree /\ Direct!KeysKnown
  BY <1>2, <1>3 DEF Direct!KeysAgree, Direct!KeysKnown
<1>5. Direct!ObjectsKnown /\ Direct!FreeIsBlank /\ Direct!NoNullEntry
  BY DEF ChainInit, Init, Direct!ObjectsKnown, Direct!FreeIsBlank, Blank,
         Direct!Blank, Direct!NoNullEntry
<1>6. Direct!RefCountExact
  <2>1. \A e \in EntryIds : Direct!Linked(e) = {} /\ entry[e].refCount = 0
    BY ConstantsDistinct DEF ChainInit, Init, Direct!Linked, Blank
  <2>2. Direct!Cardinality({}) = 0
    BY FS_EmptySet DEF Direct!Cardinality, Cardinality
  <2> QED
    BY <2>1, <2>2 DEF Direct!RefCountExact
<1> QED
  BY <1>1, <1>4, <1>5, <1>6 DEF Direct!CountInv

LEMMA InitCallInv == ChainInit => CallInv
<1> SUFFICES ASSUME ChainInit PROVE Ordered
  BY InitChainInv, InitDirectCount DEF CallInv
<1> QED
  BY KindsDistinct
     DEF ChainInit, Init, Ordered, CopiesInclude, CallsOrdered, FreeOrdered

LEMMA StepCallInv ==
  ASSUME HookersDisjoint, OneVtable
  PROVE  CallInv /\ [ChainNext]_chainVars => CallInv'
<1> SUFFICES ASSUME CallInv, [ChainNext]_chainVars
             PROVE  CallInv'
  OBVIOUS
<1>1. ChainInv' /\ Direct!CountInv'
  BY StepChainInv, DirectStep, DirectCountStep DEF CallInv
<1>2. failed \subseteq failed'
  BY NotifyVtableCases, NotifyObjectCases
     DEF ChainNext, chainVars, CallInv, Publish, ChainFree, FreeStep,
         ChainGetOriginalFunction, chain_free_hook, ChainDestroy, ChainConstruct,
         Call, CallStep, Forward, Refuse, Return
<1>3. ASSUME AllInstalled'
      PROVE  Ordered'
  <2>1. AllInstalled /\ Ordered
    BY <1>2, <1>3 DEF AllInstalled, CallInv
  <2>2. CASE UNCHANGED chainVars
    BY <2>1, <2>2, OthersOrdered
       DEF chainVars, vars, registry, perObjectVars, Ordered
  <2>3. ASSUME NEW o \in Objects, ChainConstruct(o) \/ Publish(o)
        PROVE  Ordered'
    BY <2>1, <2>3, OthersOrdered
       DEF ChainConstruct, Construct, Publish, vars, registry, perObjectVars,
           Ordered
  <2>4. ASSUME NEW o \in Objects, NotifyVtable(o) \/ NotifyObject(o)
        PROVE  Ordered'
    BY <2>1, <2>4, NotifyVtableOrdered, NotifyObjectOrdered
  <2>5. ASSUME NEW o \in Objects, ChainFree(o) \/ FreeStep(o)
        PROVE  Ordered'
    BY <2>1, <2>5, FreeBeginsOrdered, FreeLookupOrdered, FreeHookOrdered,
       DestroyOrdered DEF FreeStep
  <2>6. ASSUME NEW t \in Threads, CallStep(t) \/ \E o \in Objects : Call(t, o)
        PROVE  Ordered'
    BY <2>1, <2>6, CallStepOrdered
  <2> QED
    BY <2>2, <2>3, <2>4, <2>5, <2>6 DEF ChainNext
<1> QED
  BY <1>1, <1>3 DEF CallInv

\* The order of the hooks is kept while objects are hooked, unhooked and freed.
THEOREM CallInvariant ==
  HookersDisjoint /\ OneVtable => (ChainSpec => []CallInv)
<1> SUFFICES ASSUME HookersDisjoint, OneVtable
             PROVE  ChainSpec => []CallInv
  OBVIOUS
<1> QED
  BY InitCallInv, StepCallInv, PTL DEF ChainSpec

\* As long as no hook has failed, no call and no free() comes to a hooking
\* function for the second time, whatever is hooked and unhooked meanwhile.
THEOREM HooksNeverRecur ==
  HookersDisjoint /\ OneVtable => (ChainSpec => []NoRecursion)
<1>1. CallInv => NoRecursion
  <2> SUFFICES ASSUME CallInv, AllInstalled PROVE NoCycle
    BY DEF NoRecursion
  <2>1. Ordered /\ ChainTypeOK
    BY DEF CallInv, ChainInv, HooksInv
  <2>2. ASSUME NEW t \in Threads, calls[t] # None
        PROVE  calls[t].fn \notin calls[t].visited
    <3>1. /\ calls[t].fn \in Funcs \cup ObjectHookers
          /\ calls[t].visited \subseteq AllHookers
      BY <2>1, <2>2 DEF ChainTypeOK
    <3>2. CallOrdered(calls[t])
      BY <2>1, <2>2 DEF Ordered, CallsOrdered
    <3> QED
      BY <3>1, <3>2, KindsDistinct DEF CallOrdered, Funcs, AllHookers
  <2>3. ASSUME NEW o \in Objects
        PROVE  run[o] \notin visited[o]
    <3>1. /\ run[o] \in Funcs \cup ObjectHookers \cup {Idle}
          /\ visited[o] \subseteq AllHookers
      BY <2>1 DEF ChainTypeOK
    <3> QED
      BY <2>1, <3>1, KindsDistinct DEF Ordered, FreeOrdered, Funcs, AllHookers
  <2> QED
    BY <2>2, <2>3 DEF NoCycle
<1> QED
  BY <1>1, CallInvariant, PTL

\* As long as no hook has failed, a call that comes to the function of the
\* class has gone through all hooks that the object had when it was made.
THEOREM EveryHookMet ==
  HookersDisjoint /\ OneVtable => (ChainSpec => []NoHookMissed)
<1>1. CallInv => NoHookMissed
  BY DEF CallInv, NoHookMissed, Ordered, CallsOrdered, CallOrdered
<1> QED
  BY <1>1, CallInvariant, PTL

\* As long as no hook has failed, an object whose free() has come to the
\* function of its class is in no table and has its own vtable again.
THEOREM FreedUnhooked ==
  HookersDisjoint /\ OneVtable => (ChainSpec => []UnhookedWhenFreed)
<1>1. CallInv => UnhookedWhenFreed
  <2> SUFFICES ASSUME CallInv, AllInstalled, NEW o \in Objects, run[o] \in Vtables
               PROVE  Due(o) = {} /\ vptr[o] \in VtablesOf[ClassOf[o]]
    BY DEF UnhookedWhenFreed
  <2>1. perObject[o] = None
    BY PrivateObject, KindsDistinct DEF CallInv, ChainInv, HooksInv, PrivateUse
  <2>2. \A h \in Hookers : objKey[<<o, h>>] = NoEntry
    BY DEF CallInv, Ordered, FreeOrdered
  <2> QED
    BY <2>1, <2>2, PlainObject DEF CallInv, Due
<1> QED
  BY <1>1, CallInvariant, PTL

=============================================================================
