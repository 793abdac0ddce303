-------------------------- MODULE VtableCountProofs --------------------------
(***************************************************************************)
(* Theorems about the counters of direct vtable hooking and about what     *)
(* they control: when a vtable is restored, which function a hook calls as *)
(* the original one, and what a user of a hooker sees of all this, a set   *)
(* of hooked objects (module HookRegistry).                                *)
(***************************************************************************)
EXTENDS VtableHookProofs

-----------------------------------------------------------------------------
(***************************************************************************)
(* What a step does to the table, whichever thread makes it.               *)
(***************************************************************************)
RegistryChange ==
  \E o \in Objects, h \in Hookers :
    \/ HookKnownVtable(h, o)
    \/ \E e \in EntryIds : HookNewVtable(h, o, e)
    \/ UnHookKnown(h, o)

LEMMA UnHookCases ==
  ASSUME NEW h \in Hookers, NEW o \in Objects, UnHookInt(h, o)
  PROVE  UNCHANGED registry \/ RegistryChange
BY DEF UnHookInt, UnHookUnknown, RegistryChange

LEMMA RegistryStep ==
  ASSUME TypeOK, [Next]_vars
  PROVE  UNCHANGED registry \/ RegistryChange
<1>1. CASE UNCHANGED vars
  BY <1>1 DEF vars
<1>2. ASSUME NEW o \in Objects, NEW h \in Hookers, UnHookObject(h, o)
      PROVE  UNCHANGED registry \/ RegistryChange
  BY <1>2, UnHookCases DEF UnHookObject
<1>3. ASSUME NEW o \in Objects, NEW h \in Hookers, HookVtable(h, o)
      PROVE  UNCHANGED registry \/ RegistryChange
  BY <1>3, HookCases DEF RegistryChange
<1>4. ASSUME NEW o \in Objects, free_hook(o)
      PROVE  UNCHANGED registry \/ RegistryChange
  BY <1>4, UnHookCases DEF free_hook
<1>5. ASSUME NEW o \in Objects,
             \/ Construct(o)
             \/ \E v \in Vtables : ReplaceVtable(o, v)
             \/ CallFree(o)
             \/ GetOriginalFunction(o)
             \/ SuperFree(o)
             \/ Destroy(o)
      PROVE  UNCHANGED registry
  BY <1>5 DEF Construct, ReplaceVtable, CallFree, GetOriginalFunction, SuperFree,
              Destroy
<1> QED
  BY <1>1, <1>2, <1>3, <1>4, <1>5 DEF Next, FreeNext

-----------------------------------------------------------------------------
(***************************************************************************)
(* HookedObjectsCounter.                                                   *)
(***************************************************************************)
\* A counter of members of a set as large as the objects does not wrap.
LEMMA CountUp ==
  ASSUME NEW S, NEW x, x \notin S, IsFiniteSet(S),
         NEW T, IsFiniteSet(T), Cardinality(T) <= WordMax, S \cup {x} \subseteq T
  PROVE  Inc(Cardinality(S)) = Cardinality(S \cup {x})
<1>1. /\ Cardinality(S) \in Nat
      /\ Cardinality(S \cup {x}) = Cardinality(S) + 1
  BY FS_AddElement, FS_CardinalityType
<1>2. Cardinality(S \cup {x}) <= Cardinality(T) /\ Cardinality(T) \in Nat
  BY FS_Subset, FS_CardinalityType
<1> QED
  BY <1>1, <1>2, ConstantsTyped DEF Inc

LEMMA CountDown ==
  ASSUME NEW S, NEW x \in S, IsFiniteSet(S)
  PROVE  Dec(Cardinality(S)) = Cardinality(S \ {x})
<1>1. /\ Cardinality(S) \in Nat
      /\ Cardinality(S \ {x}) = Cardinality(S) - 1
      /\ Cardinality(S \ {x}) \in Nat
  BY FS_RemoveElement, FS_CardinalityType
<1> QED
  BY <1>1 DEF Dec

CounterInv == EntriesInv /\ CounterExact

LEMMA InitCounterInv == Init => CounterInv
<1> SUFFICES ASSUME Init PROVE CounterExact
  BY InitEntriesInv DEF CounterInv
<1>1. \A h \in Hookers : Hooked(h) = {} /\ counter[h] = 0
  BY DEF Init, Hooked
<1> QED
  BY <1>1, FS_EmptySet DEF CounterExact

LEMMA StepCounterInv == CounterInv /\ [Next]_vars => CounterInv'
<1> SUFFICES ASSUME CounterInv, [Next]_vars PROVE CounterExact'
  BY StepEntriesInv DEF CounterInv
<1>0. TypeOK /\ EntriesInUse /\ HoldersExact /\ CounterExact
  BY DEF CounterInv, EntriesInv
<1>1. CASE UNCHANGED registry
  BY <1>0, <1>1 DEF registry, CounterExact, Hooked
<1>2. ASSUME NEW h \in Hookers, NEW o \in Objects, NEW e \in EntryIds,
             objKey[<<o, h>>] = NoEntry,
             objKey' = [objKey EXCEPT ![<<o, h>>] = e],
             counter' = [counter EXCEPT ![h] = Inc(@)]
      PROVE  CounterExact'
  <2>1. Hooked(h)' = Hooked(h) \cup {o} /\ o \notin Hooked(h)
    BY <1>0, <1>2, ConstantsDistinct DEF Hooked, TypeOK
  <2>2. \A g \in Hookers \ {h} : Hooked(g)' = Hooked(g)
    BY <1>0, <1>2 DEF Hooked, TypeOK
  <2>3. IsFiniteSet(Hooked(h)) /\ Hooked(h) \cup {o} \subseteq Objects
    BY CountersFit, FS_Subset DEF Hooked
  <2>4. Inc(Cardinality(Hooked(h))) = Cardinality(Hooked(h) \cup {o})
    BY <2>1, <2>3, CountersFit, CountUp
  <2> QED
    BY <1>0, <1>2, <2>1, <2>2, <2>4 DEF CounterExact, TypeOK
<1>3. ASSUME NEW h \in Hookers, NEW o \in Objects, HookKnownVtable(h, o)
      PROVE  CounterExact'
  BY <1>0, <1>2, <1>3, HookKnownVtableEffect DEF HookKnownVtable
<1>4. ASSUME NEW h \in Hookers, NEW o \in Objects, NEW e \in EntryIds,
             HookNewVtable(h, o, e)
      PROVE  CounterExact'
  BY <1>2, <1>4 DEF HookNewVtable, HookNewVtableCall
<1>5. ASSUME NEW h \in Hookers, NEW o \in Objects, UnHookKnown(h, o)
      PROVE  CounterExact'
  <2>1. /\ objKey' = [objKey EXCEPT ![<<o, h>>] = NoEntry]
        /\ counter' = [counter EXCEPT ![h] = Dec(@)]
        /\ objKey[<<o, h>>] # NoEntry
    BY <1>0, <1>5, UnHookKnownEffect, ConstantsDistinct DEF NonNull
  <2>2. Hooked(h)' = Hooked(h) \ {o} /\ o \in Hooked(h)
    BY <1>0, <2>1 DEF Hooked, TypeOK
  <2>3. \A g \in Hookers \ {h} : Hooked(g)' = Hooked(g)
    BY <1>0, <2>1 DEF Hooked, TypeOK
  <2>4. Dec(Cardinality(Hooked(h))) = Cardinality(Hooked(h) \ {o})
    BY <2>2, CountersFit, FS_Subset, CountDown DEF Hooked
  <2> QED
    BY <1>0, <2>1, <2>2, <2>3, <2>4 DEF CounterExact, TypeOK
<1> QED
  BY <1>0, <1>1, <1>3, <1>4, <1>5, RegistryStep DEF RegistryChange

\* HookedObjectsCounter is the number of objects the hooker has in the table,
\* whatever vtables they have and whoever hooks them: no failed or repeated
\* call is counted, no unhooking is forgotten, and the counter does not wrap.
THEOREM CountersExact == Spec => []CounterExact
<1>1. CounterInv => CounterExact
  BY DEF CounterInv
<1> QED
  BY <1>1, InitCounterInv, StepCounterInv, PTL DEF Spec

-----------------------------------------------------------------------------
(***************************************************************************)
(* No entry saves the hook itself as the original function.                *)
(***************************************************************************)
LEMMA StepNeverOwnOriginal ==
  EntriesInv /\ NeverOwnOriginal /\ [Next]_vars => NeverOwnOriginal'
<1> SUFFICES ASSUME EntriesInv, NeverOwnOriginal, [Next]_vars,
                    NEW f \in EntryIds, (HoldersOf(f) # {})'
             PROVE  (OrigOf(f) # KeyOf(f)[3])'
  BY DEF NeverOwnOriginal, HoldersOf, OrigOf, KeyOf
<1>0. /\ TypeOK /\ EntriesInUse /\ HoldersExact
      /\ HoldersOf(f) # {} => OrigOf(f) # KeyOf(f)[3]
  BY DEF EntriesInv, NeverOwnOriginal, HoldersOf, OrigOf, KeyOf
<1>1. CASE UNCHANGED registry
  BY <1>0, <1>1 DEF registry, HoldersOf, OrigOf, KeyOf
<1>2. ASSUME NEW h \in Hookers, NEW o \in Objects, HookKnownVtable(h, o)
      PROVE  (OrigOf(f) # KeyOf(f)[3])'
  <2>1. hash[Key1(h, o)] \in EntryIds /\ Key1(h, o) \in Keys
    BY <1>0, <1>2, KeysTyped, HookKnownVtableEffect
  <2>2. HoldersOf(hash[Key1(h, o)]) # {}
    BY <1>0, <2>1 DEF HoldersExact, HoldersOf
  <2> QED
    BY <1>0, <1>2, <2>2, HookKnownVtableEffect
<1>3. ASSUME NEW h \in Hookers, NEW o \in Objects, NEW e \in EntryIds,
             HookNewVtable(h, o, e)
      PROVE  (OrigOf(f) # KeyOf(f)[3])'
  <2>1. slot[vptr[o]] # h /\ Key1(h, o)[3] = h
    BY <1>3 DEF HookNewVtable, HookNewVtableCall, Key1
  <2> QED
    BY <1>0, <1>3, <2>1, HookNewVtableEffect
<1>4. ASSUME NEW h \in Hookers, NEW o \in Objects, UnHookKnown(h, o)
      PROVE  (OrigOf(f) # KeyOf(f)[3])'
  BY <1>0, <1>4, UnHookKnownEffect
<1> QED
  BY <1>0, <1>1, <1>2, <1>3, <1>4, RegistryStep DEF RegistryChange

\* No entry in use records the hooking function as the original one: a vtable
\* that is hooked under another class is not hooked again, so a hook never
\* ends up calling itself.
THEOREM OriginalIsNotTheHook == Spec => []NeverOwnOriginal
<1>1. Init => EntriesInv /\ NeverOwnOriginal
  BY InitEntriesInv DEF Init, NeverOwnOriginal, Blank
<1>2. EntriesInv /\ NeverOwnOriginal /\ [Next]_vars =>
        (EntriesInv /\ NeverOwnOriginal)'
  BY StepEntriesInv, StepNeverOwnOriginal
<1> QED
  BY <1>1, <1>2, PTL DEF Spec

-----------------------------------------------------------------------------
(***************************************************************************)
(* ReferenceCount, when all objects of a class use one vtable.  The entry  *)
(* is then the same under both of its keys, which is what the unhooking of *)
(* the last object takes for granted.  The inductive invariant adds that   *)
(* an entry is found under its own keys only, that an object refers to the *)
(* entry of its vtable and that an entry is there for somebody.            *)
(***************************************************************************)
KeysAgree ==
  \A c \in Classes, h \in Hookers : \A v \in VtablesOf[c] :
    hash[<<v, c, h>>] = hash[<<NullVtable, c, h>>]

KeysKnown ==
  \A k \in Keys : hash[k] # NoEntry =>
    /\ Linked(hash[k]) # {}
    /\ \E v \in VtablesOf[k[2]] : /\ k[1] \in {v, NullVtable}
                                  /\ KeyOf(hash[k]) = <<v, k[2], k[3]>>

ObjectsKnown ==
  \A o \in Objects, h \in Hookers : objKey[<<o, h>>] # NoEntry =>
    /\ KeyOf(objKey[<<o, h>>]) = Key1(h, o)
    /\ hash[Key1(h, o)] = objKey[<<o, h>>]

FreeIsBlank == \A e \in EntryIds : HoldersOf(e) = {} => entry[e] = Blank

CountInv ==
  /\ EntriesInv
  /\ VptrOfClass
  /\ KeysAgree
  /\ KeysKnown
  /\ ObjectsKnown
  /\ FreeIsBlank
  /\ RefCountExact
  /\ NoNullEntry

\* No vtable pointer ever changes.
LEMMA VptrConstant ==
  ASSUME OneVtable, TypeOK, VptrOfClass, [Next]_vars
  PROVE  vptr' = vptr
<1>1. ASSUME NEW o \in Objects, NEW v \in VtablesOf[ClassOf[o]]
      PROVE  v = vptr[o]
  BY ConstantsTyped DEF OneVtable, VptrOfClass
<1>2. ASSUME NEW o \in Objects, Construct(o)
      PROVE  vptr' = vptr
  BY <1>1, <1>2 DEF Construct, TypeOK
<1>3. ASSUME NEW o \in Objects, NEW v \in Vtables, ReplaceVtable(o, v)
      PROVE  FALSE
  BY <1>1, <1>3 DEF ReplaceVtable
<1>4. ASSUME NEW o \in Objects, NEW h \in Hookers, HookVtable(h, o)
      PROVE  vptr' = vptr
  BY <1>4, HookCases
<1>5. ASSUME NEW o \in Objects,
             \/ CallFree(o) \/ GetOriginalFunction(o) \/ free_hook(o)
             \/ SuperFree(o) \/ Destroy(o)
      PROVE  vptr' = vptr
  BY <1>5 DEF CallFree, GetOriginalFunction, free_hook, SuperFree, Destroy
<1>6. ASSUME NEW o \in Objects, NEW h \in Hookers, UnHookObject(h, o)
      PROVE  vptr' = vptr
  BY <1>6 DEF UnHookObject
<1> QED
  BY <1>2, <1>3, <1>4, <1>5, <1>6 DEF Next, FreeNext, vars

\* The objects of one hooker are counted without overflow.
LEMMA LinkedFits ==
  ASSUME TypeOK, ObjectsKnown, NEW e \in EntryIds, NEW h \in Hookers,
         KeyOf(e)[3] = h
  PROVE  /\ Linked(e) \subseteq Objects \X {h}
         /\ IsFiniteSet(Linked(e))
         /\ IsFiniteSet(Objects \X {h})
         /\ Cardinality(Objects \X {h}) <= WordMax
<1>1. ASSUME NEW p \in Linked(e)
      PROVE  p[2] = h
  <2>1. PICK o \in Objects, g \in Hookers : p = <<o, g>> /\ objKey[<<o, g>>] = e
    BY DEF Linked
  <2>2. KeyOf(e) = Key1(g, o)
    BY <2>1, ConstantsDistinct DEF ObjectsKnown
  <2> QED
    BY <2>1, <2>2 DEF Key1
<1>2. Linked(e) \subseteq Objects \X {h}
  BY <1>1 DEF Linked
<1>3. IsFiniteSet({h}) /\ Cardinality({h}) = 1
  BY FS_Singleton
<1>4. IsFiniteSet(Objects \X {h}) /\ Cardinality(Objects \X {h}) = Cardinality(Objects)
  <2>1. /\ IsFiniteSet(Objects \X {h})
        /\ Cardinality(Objects \X {h}) = Cardinality(Objects) * Cardinality({h})
    BY <1>3, CountersFit, FS_Product
  <2>2. Cardinality(Objects) \in Nat
    BY CountersFit, FS_CardinalityType
  <2> QED
    BY <1>3, <2>1, <2>2
<1>5. IsFiniteSet(Linked(e))
  BY <1>2, <1>4, FS_Subset
<1> QED
  BY <1>2, <1>4, <1>5, CountersFit

\* What UnHookObjectIntWoLock then does: the NULL vtable entry is the entry of
\* the object, and both keys go with its last user.
LEMMA UnHookOneVtableEffect ==
  ASSUME CountInv, NEW h \in Hookers, NEW o \in Objects, UnHookKnown(h, o)
  PROVE  /\ NonNull(h, o) \in EntryIds
         /\ <<o, h>> \in Linked(NonNull(h, o))
         /\ UnKey1(h, o) = Key1(h, o)
         /\ hash[Key1(h, o)] = NonNull(h, o)
         /\ hash[Key2(h, o)] = NonNull(h, o)
         /\ Last(h, o) <=> Linked(NonNull(h, o)) = {<<o, h>>}
         /\ crashed' = FALSE
         /\ \A k \in Keys :
              hash'[k] = IF Last(h, o) /\ k \in {Key1(h, o), Key2(h, o)}
                         THEN NoEntry ELSE hash[k]
         /\ \A f \in EntryIds :
              IF f # NonNull(h, o) THEN entry'[f] = entry[f]
              ELSE IF HoldersOf(f)' = {} THEN entry'[f] = Blank
              ELSE RefCountOf(f)' = Dec(RefCountOf(f))
<1>0. /\ TypeOK /\ EntriesInUse /\ HoldersExact /\ KeysAgree /\ ObjectsKnown
      /\ FreeIsBlank /\ RefCountExact /\ VptrOfClass
  BY DEF CountInv, EntriesInv
<1> DEFINE e == NonNull(h, o)
           key1 == Key1(h, o)
           key2 == Key2(h, o)
           left == Dec(entry[e].refCount)
           removed == IF Last(h, o) THEN {key1, key2} ELSE {}
           dropped(f) == (IF f = e THEN {ByObject(o, h)} ELSE {}) \cup
                          {ByKey(k) : k \in {j \in removed : hash[j] = f}}
           r(f) == [entry[f] EXCEPT !.refCount = IF f = e THEN left ELSE @,
                                    !.holders = @ \ dropped(f)]
<1>1. /\ e \in EntryIds /\ e # NoEntry
      /\ <<o, h>> \in Linked(e)
  BY <1>0, UnHookKnownEffect, ConstantsDistinct DEF Linked, NonNull
<1>2. UnKey1(h, o) = key1 /\ hash[key1] = e
  BY <1>0, <1>1 DEF ObjectsKnown, NonNull, UnKey1
<1>3. /\ hash[key2] = e
      /\ UnKey2(h, o) = key2
      /\ key1 \in Keys /\ key2 \in Keys /\ key1 # key2
  <2>1. ClassOf[o] \in Classes /\ vptr[o] \in VtablesOf[ClassOf[o]]
    BY <1>0, ConstantsTyped DEF VptrOfClass
  <2>2. hash[key1] = hash[key2]
    BY <1>0, <2>1 DEF KeysAgree, Key1, Key2
  <2> QED
    BY <1>0, <1>2, <2>2, KeysTyped, ConstantsDistinct
    DEF UnKey2, Key1, Key2, TypeOK
<1>4. Last(h, o) <=> Linked(e) = {<<o, h>>}
  <2>1. entry[e].refCount = Cardinality(Linked(e))
    BY <1>0, <1>1 DEF RefCountExact
  <2>2. IsFiniteSet(Linked(e))
    <3>1. KeyOf(e)[3] = h
      BY <1>2 DEF UnKey1, Key1
    <3> QED
      BY <1>0, <1>1, <3>1, LinkedFits
  <2>3. /\ Dec(Cardinality(Linked(e))) = Cardinality(Linked(e) \ {<<o, h>>})
        /\ IsFiniteSet(Linked(e) \ {<<o, h>>})
    BY <1>1, <2>2, CountDown, FS_RemoveElement
  <2>4. Last(h, o) <=> Linked(e) \ {<<o, h>>} = {}
    BY <2>1, <2>3, FS_EmptySet DEF Last, Unused, RefCountOf
  <2> QED
    BY <1>1, <2>4
<1>5. hash' = [k \in Keys |-> IF k \in removed THEN NoEntry ELSE hash[k]]
  BY <1>1, <1>2, <1>3
  DEF UnHookKnown, ReleaseVtable, Last, NonNull, UnKey1, UnKey2, KeyOf, RefCountOf
<1>6. crashed' = FALSE
  BY <1>1, <1>2, <1>3
  DEF UnHookKnown, ReleaseVtable, Last, NonNull, UnKey1, UnKey2, KeyOf, RefCountOf
<1>7. entry' = [f \in EntryIds |-> Settle(r(f))]
  BY <1>1, <1>2, <1>3
  DEF UnHookKnown, ReleaseVtable, Last, NonNull, UnKey1, UnKey2, KeyOf, RefCountOf
<1>8. ASSUME NEW f \in EntryIds \ {e}
      PROVE  entry'[f] = entry[f]
  <2>1. dropped(f) = {}
    BY <1>2, <1>3, <1>8
  <2> HIDE DEF dropped, left
  <2>2. r(f) = entry[f]
    BY <1>0, <1>8, <2>1 DEF TypeOK, Entries
  <2> QED
    BY <1>0, <1>7, <1>8, <2>2 DEF Settle, FreeIsBlank, HoldersOf
<1>9. ASSUME NEW f \in EntryIds, f = e
      PROVE  IF HoldersOf(f)' = {} THEN entry'[f] = Blank
             ELSE RefCountOf(f)' = Dec(RefCountOf(f))
  <2>1. entry'[f] = Settle(r(f))
    BY <1>7
  <2>2. r(f).refCount = Dec(entry[f].refCount)
    <3> HIDE DEF e, dropped
    <3> QED
      BY <1>0, <1>9 DEF TypeOK, Entries
  <2> HIDE DEF r
  <2> QED
    BY <2>1, <2>2 DEF Settle, HoldersOf, RefCountOf, Blank
<1> HIDE DEF e, key1, key2
<1> QED
  BY <1>1, <1>2, <1>3, <1>4, <1>5, <1>6, <1>8, <1>9 DEF e, key1, key2

LEMMA LinkedAfterHook ==
  ASSUME TypeOK, NEW h \in Hookers, NEW o \in Objects, NEW e \in EntryIds,
         objKey[<<o, h>>] = NoEntry, objKey' = [objKey EXCEPT ![<<o, h>>] = e]
  PROVE  \A f \in EntryIds :
           /\ <<o, h>> \notin Linked(f)
           /\ Linked(f)' = IF f = e THEN Linked(f) \cup {<<o, h>>} ELSE Linked(f)
BY ConstantsDistinct DEF Linked, TypeOK

LEMMA LinkedAfterUnHook ==
  ASSUME TypeOK, NEW h \in Hookers, NEW o \in Objects,
         objKey' = [objKey EXCEPT ![<<o, h>>] = NoEntry]
  PROVE  \A f \in EntryIds : Linked(f)' = Linked(f) \ {<<o, h>>}
BY ConstantsDistinct DEF Linked, TypeOK

LEMMA HookKnownKeepsCountInv ==
  ASSUME CountInv, vptr' = vptr, NEW h \in Hookers, NEW o \in Objects,
         HookKnownVtable(h, o)
  PROVE  (KeysAgree /\ KeysKnown /\ ObjectsKnown /\ FreeIsBlank /\ RefCountExact)'
<1>0. /\ TypeOK /\ EntriesInUse /\ HoldersExact /\ KeysAgree /\ KeysKnown
      /\ ObjectsKnown /\ FreeIsBlank /\ RefCountExact /\ VptrOfClass
  BY DEF CountInv, EntriesInv
<1> DEFINE e == hash[Key1(h, o)]
<1>1. /\ objKey[<<o, h>>] = NoEntry
      /\ objKey' = [objKey EXCEPT ![<<o, h>>] = e]
      /\ hash' = hash
      /\ Key1(h, o) \in Keys /\ e \in EntryIds /\ e # NoEntry
  BY <1>0, KeysTyped, HookKnownVtableEffect, ConstantsDistinct DEF HookKnownVtable
<1>2. \A f \in EntryIds :
        /\ KeyOf(f)' = KeyOf(f)
        /\ RefCountOf(f)' = IF f = e THEN Inc(RefCountOf(f)) ELSE RefCountOf(f)
        /\ HoldersOf(f)' = IF f = e THEN HoldersOf(f) \cup {ByObject(o, h)}
                           ELSE HoldersOf(f)
  BY <1>0, HookKnownVtableEffect
<1>3. \A f \in EntryIds :
        /\ <<o, h>> \notin Linked(f)
        /\ Linked(f)' = IF f = e THEN Linked(f) \cup {<<o, h>>} ELSE Linked(f)
  BY <1>0, <1>1, LinkedAfterHook
<1>4. KeyOf(e) = Key1(h, o)
  <2>1. PICK v \in VtablesOf[Key1(h, o)[2]] :
               /\ Key1(h, o)[1] \in {v, NullVtable}
               /\ KeyOf(e) = <<v, Key1(h, o)[2], Key1(h, o)[3]>>
    BY <1>0, <1>1 DEF KeysKnown
  <2>2. vptr[o] # NullVtable
    BY <1>0, ConstantsDistinct DEF TypeOK
  <2> QED
    BY <2>1, <2>2 DEF Key1
<1>5. \A f \in EntryIds \ {e} : entry'[f] = entry[f]
  BY <1>0, <1>1 DEF HookKnownVtable, TypeOK
<1> HIDE DEF e
<1>6. KeysAgree'
  BY <1>0, <1>1 DEF KeysAgree
<1>7. KeysKnown'
  <2> SUFFICES ASSUME NEW k \in Keys, hash[k] # NoEntry
               PROVE  /\ (\A f \in EntryIds : f = hash[k] => Linked(f)' # {})
                      /\ (\A f \in EntryIds : f = hash[k] => KeyOf(f)' = KeyOf(f))
    BY <1>0, <1>1 DEF KeysKnown, TypeOK
  <2> QED
    BY <1>0, <1>2, <1>3 DEF KeysKnown
<1>8. ObjectsKnown'
  <2> SUFFICES ASSUME NEW p \in Objects, NEW g \in Hookers,
                      objKey'[<<p, g>>] # NoEntry
               PROVE  /\ (KeyOf(objKey[<<p, g>>]))' = Key1(g, p)
                      /\ hash[Key1(g, p)] = objKey'[<<p, g>>]
    BY <1>1 DEF ObjectsKnown, Key1
  <2>1. CASE <<p, g>> = <<o, h>>
    <3>1. objKey'[<<p, g>>] = e
      BY <1>0, <1>1, <2>1 DEF TypeOK
    <3> QED
      BY <1>1, <1>2, <1>4, <2>1, <3>1 DEF KeyOf, e
  <2>2. CASE <<p, g>> # <<o, h>>
    <3>1. objKey'[<<p, g>>] = objKey[<<p, g>>] /\ objKey[<<p, g>>] \in EntryIds
      BY <1>0, <1>1, <2>2 DEF TypeOK
    <3> QED
      BY <1>0, <1>2, <3>1, ConstantsDistinct DEF ObjectsKnown, KeyOf
  <2> QED
    BY <2>1, <2>2
<1>9. FreeIsBlank'
  BY <1>0, <1>2, <1>5 DEF FreeIsBlank
<1>10. RefCountExact'
  <2> SUFFICES ASSUME NEW f \in EntryIds
               PROVE  (RefCountOf(f) = Cardinality(Linked(f)))'
    BY DEF RefCountExact, RefCountOf
  <2>1. RefCountOf(f) = Cardinality(Linked(f))
    BY <1>0 DEF RefCountExact, RefCountOf
  <2>2. ASSUME f = e
        PROVE  Inc(Cardinality(Linked(f))) = Cardinality(Linked(f) \cup {<<o, h>>})
    <3>1. KeyOf(f)[3] = h
      BY <1>4, <2>2 DEF Key1
    <3>2. /\ Linked(f) \cup {<<o, h>>} \subseteq Objects \X {h}
          /\ IsFiniteSet(Linked(f)) /\ IsFiniteSet(Objects \X {h})
          /\ Cardinality(Objects \X {h}) <= WordMax
      BY <1>0, <3>1, LinkedFits
    <3> QED
      BY <1>3, <3>2, CountUp
  <2> QED
    BY <1>2, <1>3, <2>1, <2>2
<1> QED
  BY <1>6, <1>7, <1>8, <1>9, <1>10

LEMMA HookNewKeepsCountInv ==
  ASSUME OneVtable, CountInv, vptr' = vptr,
         NEW h \in Hookers, NEW o \in Objects, NEW e \in EntryIds,
         HookNewVtable(h, o, e)
  PROVE  (KeysAgree /\ KeysKnown /\ ObjectsKnown /\ FreeIsBlank /\ RefCountExact)'
<1>0. /\ TypeOK /\ EntriesInUse /\ HoldersExact /\ KeysAgree /\ KeysKnown
      /\ ObjectsKnown /\ FreeIsBlank /\ RefCountExact /\ VptrOfClass
  BY DEF CountInv, EntriesInv
<1> DEFINE key1 == Key1(h, o)
           key2 == Key2(h, o)
<1>1. /\ objKey[<<o, h>>] = NoEntry
      /\ objKey' = [objKey EXCEPT ![<<o, h>>] = e]
      /\ hash[key1] = NoEntry
      /\ key1 \in Keys /\ key2 \in Keys /\ e # NoEntry
      /\ ClassOf[o] \in Classes /\ vptr[o] \in VtablesOf[ClassOf[o]]
  BY <1>0, KeysTyped, ConstantsTyped, ConstantsDistinct
  DEF HookNewVtable, HookNewVtableCall, VptrOfClass
<1>2. hash[key2] = NoEntry /\ NewKeys(h, o) = {key1, key2}
  BY <1>0, <1>1 DEF KeysAgree, Key1, Key2, NewKeys
<1>3. \A k \in Keys : hash'[k] = IF k \in {key1, key2} THEN e ELSE hash[k]
  BY <1>2 DEF HookNewVtable
<1>4. /\ HoldersOf(e) = {} /\ Linked(e) = {}
      /\ \A k \in Keys : hash[k] # e
  <2>1. HoldersOf(e) = {}
    BY <1>0, HookNewVtableEffect
  <2>2. HoldersOf(e) = KeyHolders(e) \cup ObjectHolders(e)
    BY <1>0 DEF HoldersExact, HoldersOf, KeyHolders, ObjectHolders
  <2>3. KeyHolders(e) = {} /\ ObjectHolders(e) = {}
    BY <2>1, <2>2
  <2>4. Linked(e) = {}
    BY <2>3 DEF ObjectHolders
  <2>5. \A k \in Keys : hash[k] # e
    BY <2>3 DEF KeyHolders
  <2> QED
    BY <2>1, <2>4, <2>5
<1>5. \A f \in EntryIds :
        /\ <<o, h>> \notin Linked(f)
        /\ Linked(f)' = IF f = e THEN Linked(f) \cup {<<o, h>>} ELSE Linked(f)
  BY <1>0, <1>1, LinkedAfterHook
<1>6. \A f \in EntryIds \ {e} : entry'[f] = entry[f]
  BY <1>0, <1>2, ConstantsDistinct DEF HookNewVtable, TypeOK
<1>7. \A f \in EntryIds : f = e => /\ KeyOf(f)' = key1
                                   /\ RefCountOf(f)' = 1
                                   /\ HoldersOf(f)' # {}
  BY <1>0, HookNewVtableEffect
<1> HIDE DEF key1, key2
<1>8. KeysAgree'
  <2> SUFFICES ASSUME NEW c \in Classes, NEW g \in Hookers, NEW v \in VtablesOf[c]
               PROVE  hash'[<<v, c, g>>] = hash'[<<NullVtable, c, g>>]
    BY DEF KeysAgree
  <2>1. /\ hash[<<v, c, g>>] = hash[<<NullVtable, c, g>>]
        /\ <<v, c, g>> \in Keys /\ <<NullVtable, c, g>> \in Keys
        /\ v # NullVtable
    BY <1>0, ConstantsTyped, ConstantsDistinct DEF KeysAgree, Keys
  <2>2. c = ClassOf[o] => v = vptr[o]
    BY <1>1 DEF OneVtable
  <2>3. <<v, c, g>> \in {key1, key2} <=> c = ClassOf[o] /\ g = h
    BY <2>1, <2>2 DEF key1, key2, Key1, Key2
  <2>4. <<NullVtable, c, g>> \in {key1, key2} <=> c = ClassOf[o] /\ g = h
    BY <1>0, ConstantsDistinct DEF key1, key2, Key1, Key2, TypeOK
  <2> QED
    BY <1>3, <2>1, <2>3, <2>4
<1>9. KeysKnown'
  <2> SUFFICES ASSUME NEW k \in Keys, NEW f \in EntryIds, hash'[k] = f
               PROVE  /\ Linked(f)' # {}
                      /\ \E v \in VtablesOf[k[2]] :
                           /\ k[1] \in {v, NullVtable}
                           /\ KeyOf(f)' = <<v, k[2], k[3]>>
    <3>1. \A k \in Keys : hash'[k] \in EntryIds \cup {NoEntry}
      BY <1>0, <1>3 DEF TypeOK
    <3> QED
      BY <3>1 DEF KeysKnown, KeyOf, Linked
  <2>1. CASE k \in {key1, key2}
    BY <1>1, <1>3, <1>5, <1>7, <2>1 DEF key1, key2, Key1, Key2
  <2>2. CASE k \notin {key1, key2}
    <3>1. f # e /\ hash[k] = f /\ hash[k] # NoEntry
      BY <1>3, <1>4, <2>2, ConstantsDistinct
    <3> QED
      BY <1>0, <1>5, <1>6, <3>1 DEF KeysKnown, KeyOf
  <2> QED
    BY <2>1, <2>2
<1>10. ObjectsKnown'
  <2> SUFFICES ASSUME NEW p \in Objects, NEW g \in Hookers, NEW f \in EntryIds,
                      objKey'[<<p, g>>] = f
               PROVE  KeyOf(f)' = Key1(g, p) /\ hash'[Key1(g, p)] = f
    <3>1. \A p \in Objects, g \in Hookers :
            objKey'[<<p, g>>] \in EntryIds \cup {NoEntry}
      BY <1>0, <1>1 DEF TypeOK
    <3> SUFFICES ASSUME NEW p \in Objects, NEW g \in Hookers,
                        objKey'[<<p, g>>] \in EntryIds
                 PROVE  /\ (KeyOf(objKey[<<p, g>>]) = Key1(g, p))'
                        /\ (hash[Key1(g, p)] = objKey[<<p, g>>])'
      BY <3>1 DEF ObjectsKnown
    <3> QED
      BY DEF Key1, KeyOf
  <2>1. CASE <<p, g>> = <<o, h>>
    BY <1>0, <1>1, <1>3, <1>7, <2>1 DEF TypeOK, key1
  <2>2. CASE <<p, g>> # <<o, h>>
    <3>1. objKey[<<p, g>>] = f /\ f # NoEntry
      BY <1>0, <1>1, <2>2, ConstantsDistinct DEF TypeOK
    <3>2. KeyOf(f) = Key1(g, p) /\ hash[Key1(g, p)] = f /\ Key1(g, p) \in Keys
      BY <1>0, <3>1, KeysTyped DEF ObjectsKnown
    <3>3. f # e /\ Key1(g, p) \notin {key1, key2}
      BY <1>1, <1>2, <1>4, <3>1, <3>2
    <3> QED
      BY <1>3, <1>6, <3>2, <3>3 DEF KeyOf
  <2> QED
    BY <2>1, <2>2
<1>11. FreeIsBlank'
  BY <1>0, <1>6, <1>7 DEF FreeIsBlank, HoldersOf
<1>12. RefCountExact'
  <2> SUFFICES ASSUME NEW f \in EntryIds
               PROVE  (RefCountOf(f) = Cardinality(Linked(f)))'
    BY DEF RefCountExact, RefCountOf
  <2>1. RefCountOf(f) = Cardinality(Linked(f))
    BY <1>0 DEF RefCountExact, RefCountOf
  <2>2. CASE f = e
    BY <1>4, <1>5, <1>7, <2>2, FS_Singleton
  <2>3. CASE f # e
    BY <1>5, <1>6, <2>1, <2>3 DEF RefCountOf
  <2> QED
    BY <2>2, <2>3
<1> QED
  BY <1>8, <1>9, <1>10, <1>11, <1>12

LEMMA UnHookKeepsCountInv ==
  ASSUME CountInv, vptr' = vptr, NEW h \in Hookers, NEW o \in Objects,
         UnHookKnown(h, o)
  PROVE  (KeysAgree /\ KeysKnown /\ ObjectsKnown /\ FreeIsBlank /\ RefCountExact)'
<1>0. /\ TypeOK /\ EntriesInUse /\ HoldersExact /\ KeysAgree /\ KeysKnown
      /\ ObjectsKnown /\ FreeIsBlank /\ RefCountExact /\ VptrOfClass
  BY DEF CountInv, EntriesInv
<1>1. HoldersExact'
  BY <1>0, UnHookKeepsHolders DEF UnHookInt
<1> DEFINE e == NonNull(h, o)
           key1 == Key1(h, o)
           key2 == Key2(h, o)
<1>2. /\ e \in EntryIds /\ <<o, h>> \in Linked(e)
      /\ KeyOf(e) = key1 /\ hash[key1] = e /\ hash[key2] = e
      /\ Last(h, o) <=> Linked(e) = {<<o, h>>}
  BY UnHookOneVtableEffect DEF UnKey1
<1>3. \A k \in Keys : hash'[k] = IF Last(h, o) /\ k \in {key1, key2} THEN NoEntry
                                 ELSE hash[k]
  BY UnHookOneVtableEffect
<1>4. \A f \in EntryIds :
        IF f # e THEN entry'[f] = entry[f]
        ELSE IF HoldersOf(f)' = {} THEN entry'[f] = Blank
        ELSE RefCountOf(f)' = Dec(RefCountOf(f)) /\ KeyOf(f)' = KeyOf(f)
  <2>1. \A f \in EntryIds :
          IF f # e THEN entry'[f] = entry[f]
          ELSE IF HoldersOf(f)' = {} THEN entry'[f] = Blank
          ELSE RefCountOf(f)' = Dec(RefCountOf(f))
    BY UnHookOneVtableEffect
  <2>2. \A f \in EntryIds : HoldersOf(f)' # {} => KeyOf(f)' = KeyOf(f)
    BY <1>0, UnHookKnownEffect
  <2> HIDE DEF e
  <2> QED
    BY <2>1, <2>2
<1>5. objKey' = [objKey EXCEPT ![<<o, h>>] = NoEntry]
  BY <1>0, UnHookKnownEffect
<1>6. \A f \in EntryIds : Linked(f)' = Linked(f) \ {<<o, h>>}
  BY <1>0, <1>5, LinkedAfterUnHook
<1>7. \A k \in Keys : hash[k] = e => k \in {key1, key2}
  <2> SUFFICES ASSUME NEW k \in Keys, hash[k] = e PROVE k \in {key1, key2}
    OBVIOUS
  <2>1. PICK v \in VtablesOf[k[2]] : /\ k[1] \in {v, NullVtable}
                                     /\ key1 = <<v, k[2], k[3]>>
    BY <1>0, <1>2, ConstantsDistinct DEF KeysKnown
  <2>2. k = <<k[1], k[2], k[3]>>
    BY DEF Keys
  <2> QED
    BY <2>1, <2>2 DEF Key1, Key2
<1>8. \A f \in EntryIds : Linked(f)' # {} => HoldersOf(f)' # {}
  BY <1>1 DEF HoldersExact, HoldersOf
<1> HIDE DEF e, key1, key2
<1>9. KeysAgree'
  <2> SUFFICES ASSUME NEW c \in Classes, NEW g \in Hookers, NEW v \in VtablesOf[c]
               PROVE  hash'[<<v, c, g>>] = hash'[<<NullVtable, c, g>>]
    BY DEF KeysAgree
  <2>1. /\ hash[<<v, c, g>>] = hash[<<NullVtable, c, g>>]
        /\ <<v, c, g>> \in Keys /\ <<NullVtable, c, g>> \in Keys
    BY <1>0, ConstantsTyped DEF KeysAgree, Keys
  <2> QED
    BY <1>2, <1>3, <1>7, <2>1
<1>10. KeysKnown'
  <2> SUFFICES ASSUME NEW k \in Keys, NEW f \in EntryIds, hash'[k] = f
               PROVE  Linked(f)' # {} /\ KeyOf(f)' = KeyOf(f) /\ hash[k] = f
    BY <1>0, <1>3, ConstantsDistinct DEF KeysKnown, KeyOf, TypeOK
  <2>1. hash[k] = f /\ f # NoEntry
    BY <1>3, ConstantsDistinct
  <2>2. Linked(f)' # {}
    <3>1. CASE f = e
      BY <1>2, <1>3, <1>6, <1>7, <2>1, <3>1
    <3>2. CASE f # e
      <4>1. Linked(f) # {} /\ <<o, h>> \notin Linked(f)
        BY <1>0, <1>2, <2>1, <3>2 DEF KeysKnown, Linked
      <4> QED
        BY <1>6, <4>1
    <3> QED
      BY <3>1, <3>2
  <2> QED
    BY <1>4, <1>8, <2>1, <2>2 DEF KeyOf
<1>11. ObjectsKnown'
  <2> SUFFICES ASSUME NEW p \in Objects, NEW g \in Hookers, NEW f \in EntryIds,
                      objKey'[<<p, g>>] = f
               PROVE  KeyOf(f)' = Key1(g, p) /\ hash'[Key1(g, p)] = f
    <3>1. \A p \in Objects, g \in Hookers :
            objKey'[<<p, g>>] \in EntryIds \cup {NoEntry}
      BY <1>0, <1>5 DEF TypeOK
    <3> SUFFICES ASSUME NEW p \in Objects, NEW g \in Hookers,
                        objKey'[<<p, g>>] \in EntryIds
                 PROVE  /\ (KeyOf(objKey[<<p, g>>]) = Key1(g, p))'
                        /\ (hash[Key1(g, p)] = objKey[<<p, g>>])'
      BY <3>1 DEF ObjectsKnown
    <3> QED
      BY DEF Key1, KeyOf
  <2>1. objKey[<<p, g>>] = f /\ f # NoEntry /\ <<p, g>> # <<o, h>>
    BY <1>0, <1>5, ConstantsDistinct DEF TypeOK
  <2>2. KeyOf(f) = Key1(g, p) /\ hash[Key1(g, p)] = f /\ Key1(g, p) \in Keys
    BY <1>0, <2>1, KeysTyped DEF ObjectsKnown
  <2>3. <<p, g>> \in Linked(f)' /\ <<p, g>> \in Linked(f)
    BY <1>6, <2>1 DEF Linked
  <2>4. KeyOf(f)' = KeyOf(f)
    BY <1>4, <1>8, <2>3 DEF KeyOf
  <2>5. hash'[Key1(g, p)] = hash[Key1(g, p)]
    <3>1. f = e => ~Last(h, o)
      BY <1>2, <2>1, <2>3
    <3>2. f # e => Key1(g, p) \notin {key1, key2}
      BY <1>2, <2>2
    <3> QED
      BY <1>3, <2>2, <3>1, <3>2
  <2> QED
    BY <2>2, <2>4, <2>5
<1>12. FreeIsBlank'
  BY <1>0, <1>4 DEF FreeIsBlank, HoldersOf
<1>13. RefCountExact'
  <2> SUFFICES ASSUME NEW f \in EntryIds
               PROVE  (RefCountOf(f) = Cardinality(Linked(f)))'
    BY DEF RefCountExact, RefCountOf
  <2>1. RefCountOf(f) = Cardinality(Linked(f))
    BY <1>0 DEF RefCountExact, RefCountOf
  <2>2. CASE f # e
    <3>1. <<o, h>> \notin Linked(f)
      BY <1>2, <2>2 DEF Linked
    <3> QED
      BY <1>4, <1>6, <2>1, <2>2, <3>1 DEF RefCountOf
  <2>3. CASE f = e /\ HoldersOf(f)' = {}
    <3>1. Linked(f)' = {}
      BY <1>8, <2>3
    <3>2. RefCountOf(f)' = 0
      BY <1>4, <2>3 DEF RefCountOf, Blank
    <3> QED
      BY <3>1, <3>2, FS_EmptySet
  <2>4. CASE f = e /\ HoldersOf(f)' # {}
    <3>1. IsFiniteSet(Linked(f))
      <4>1. KeyOf(f)[3] = h
        BY <1>2, <2>4 DEF Key1, key1
      <4> QED
        BY <1>0, <4>1, LinkedFits
    <3>2. Dec(Cardinality(Linked(f))) = Cardinality(Linked(f) \ {<<o, h>>})
      BY <1>2, <2>4, <3>1, CountDown
    <3> QED
      BY <1>4, <1>6, <2>1, <2>4, <3>2
  <2> QED
    BY <2>2, <2>3, <2>4
<1> QED
  BY <1>9, <1>10, <1>11, <1>12, <1>13

LEMMA InitCountInv == Init => CountInv
<1> SUFFICES ASSUME Init PROVE CountInv
  OBVIOUS
<1>1. \A k \in Keys : hash[k] = NoEntry
  BY DEF Init
<1>2. \A c \in Classes, h \in Hookers : \A v \in VtablesOf[c] :
        <<v, c, h>> \in Keys /\ <<NullVtable, c, h>> \in Keys
  BY ConstantsTyped DEF Keys
<1>3. KeysAgree /\ KeysKnown
  BY <1>1, <1>2 DEF KeysAgree, KeysKnown
<1>4. ObjectsKnown /\ FreeIsBlank /\ VptrOfClass /\ NoNullEntry
  BY DEF Init, ObjectsKnown, FreeIsBlank, VptrOfClass, NoNullEntry
<1>5. RefCountExact
  <2>1. \A e \in EntryIds : Linked(e) = {} /\ entry[e].refCount = 0
    BY ConstantsDistinct DEF Init, Linked, Blank
  <2> QED
    BY <2>1, FS_EmptySet DEF RefCountExact
<1> QED
  BY <1>3, <1>4, <1>5, InitEntriesInv DEF CountInv

LEMMA StepCountInv ==
  ASSUME OneVtable
  PROVE  CountInv /\ [Next]_vars => CountInv'
<1> SUFFICES ASSUME CountInv, [Next]_vars PROVE CountInv'
  OBVIOUS
<1>0. /\ EntriesInv /\ TypeOK /\ EntriesInUse /\ HoldersExact
      /\ VptrOfClass /\ KeysAgree /\ KeysKnown /\ ObjectsKnown
      /\ FreeIsBlank /\ RefCountExact /\ NoNullEntry
  BY DEF CountInv, EntriesInv
<1>1. EntriesInv' /\ vptr' = vptr
  BY <1>0, StepEntriesInv, VptrConstant
<1>2. VptrOfClass'
  BY <1>0, <1>1 DEF VptrOfClass
<1>3. CASE UNCHANGED registry
  BY <1>0, <1>1, <1>2, <1>3
  DEF registry, CountInv, KeysAgree, KeysKnown, ObjectsKnown, FreeIsBlank,
      RefCountExact, NoNullEntry, Linked, KeyOf, HoldersOf, Key1
<1>4. ASSUME NEW h \in Hookers, NEW o \in Objects, HookKnownVtable(h, o)
      PROVE  CountInv'
  <2>1. NoNullEntry'
    BY <1>0, <1>4 DEF HookKnownVtable, HookCall, NoNullEntry
  <2> QED
    BY <1>1, <1>2, <1>4, <2>1, HookKnownKeepsCountInv DEF CountInv
<1>5. ASSUME NEW h \in Hookers, NEW o \in Objects, NEW e \in EntryIds,
             HookNewVtable(h, o, e)
      PROVE  CountInv'
  <2>1. NoNullEntry'
    BY <1>0, <1>5 DEF HookNewVtable, HookNewVtableCall, HookCall, NoNullEntry
  <2> QED
    BY <1>1, <1>2, <1>5, <2>1, HookNewKeepsCountInv DEF CountInv
<1>6. ASSUME NEW h \in Hookers, NEW o \in Objects, UnHookKnown(h, o)
      PROVE  CountInv'
  <2>1. NoNullEntry'
    BY <1>6, UnHookOneVtableEffect DEF NoNullEntry
  <2> QED
    BY <1>1, <1>2, <1>6, <2>1, UnHookKeepsCountInv DEF CountInv
<1> QED
  BY <1>0, <1>3, <1>4, <1>5, <1>6, RegistryStep DEF RegistryChange

LEMMA CountInvHolds == OneVtable => (Spec => []CountInv)
<1> SUFFICES ASSUME OneVtable PROVE Spec => []CountInv
  OBVIOUS
<1>1. CountInv /\ [Next]_vars => CountInv'
  BY StepCountInv
<1> QED
  BY <1>1, InitCountInv, PTL DEF Spec

\* If all objects of a class use one vtable, ReferenceCount is the number of
\* hooked objects that use the entry: UnHookObjectIntWoLock restores the
\* vtable when the last of them goes, not earlier and not never.
THEOREM ReferenceCountsExact == OneVtable => (Spec => []RefCountExact)
<1> SUFFICES ASSUME OneVtable PROVE Spec => []RefCountExact
  OBVIOUS
<1>1. Spec => []CountInv
  BY CountInvHolds
<1>2. CountInv => RefCountExact
  BY DEF CountInv
<1> QED
  BY <1>1, <1>2, PTL

\* If all objects of a class use one vtable, the NULL vtable entry is there
\* whenever UnHookObjectIntWoLock decrements its ReferenceCount.
THEOREM NullEntryThere == OneVtable => (Spec => []NoNullEntry)
<1> SUFFICES ASSUME OneVtable PROVE Spec => []NoNullEntry
  OBVIOUS
<1>1. Spec => []CountInv
  BY CountInvHolds
<1>2. CountInv => NoNullEntry
  BY DEF CountInv
<1> QED
  BY <1>1, <1>2, PTL

-----------------------------------------------------------------------------
(***************************************************************************)
(* What is guaranteed when hookers serve disjoint classes, classes do not  *)
(* share vtables and all objects of a class use one vtable: the original   *)
(* function is the one the class had, nothing is left behind, and the      *)
(* users of the hookers see a set of hooked objects.                       *)
(***************************************************************************)
\* A slot holds the function of its class or a hook, and an entry has saved
\* the function of the class.
SlotsOwn == \A v \in Vtables : slot[v] \in {v} \cup Hookers

OrigsOwn == \A e \in EntryIds : HoldersOf(e) # {} => OrigOf(e) = KeyOf(e)[1]

\* The functions that a hook of the object's class or of a super class may
\* have been given as the original one: that of the class, or in a super call
\* what the slot of its own vtable v may hold.
Known(h, o, v) ==
  VtablesOf[KeyClass(h, o)] \cup
    (IF KeyClass(h, o) = ClassOf[o] THEN {}
     ELSE {v} \cup {g \in Hookers : ClassOf[o] \in Serves[g]})

\* An object inside free() still exists, the hook that runs serves its class or
\* a super class, and what the hook has called is a function of one of them.
CallsInFree ==
  \A o \in Objects :
    /\ run[o] # Idle => o \in live
    /\ run[o] \in Hookers => Supers[ClassOf[o]] \cap Serves[run[o]] # {}
    /\ run[o] \in Vtables => \E c \in Supers[ClassOf[o]] : run[o] \in VtablesOf[c]
    /\ original[o] # Idle => run[o] \in Hookers /\ original[o] \in Known(run[o], o, vptr[o])

\* An object in the table exists, and is not past the hook of its class.
HookedLive ==
  \A o \in Objects, h \in Hookers : objKey[<<o, h>>] # NoEntry =>
    /\ o \in live
    /\ ClassOf[o] \in Serves[h]
    /\ run[o] # Idle => run[o] \in Hookers /\ ClassOf[o] \in Serves[run[o]]

DirectInv ==
  PatchInv /\ CountInv /\ SlotsOwn /\ OrigsOwn /\ CallsInFree /\ HookedLive

LEMMA DirectInvParts ==
  ASSUME DirectInv
  PROVE  /\ TypeOK /\ EntriesInUse /\ HoldersExact
         /\ VptrOfClass /\ KeysServed /\ EntriesServed /\ PatchedIffInTable
         /\ KeysAgree /\ KeysKnown /\ ObjectsKnown /\ FreeIsBlank
         /\ RefCountExact /\ NoNullEntry
         /\ SlotsOwn /\ OrigsOwn /\ CallsInFree /\ HookedLive
BY DEF DirectInv, PatchInv, CountInv, EntriesInv

-----------------------------------------------------------------------------
(***************************************************************************)
(* What follows from the invariant.                                        *)
(***************************************************************************)
LEMMA HookerOfClass ==
  ASSUME HookersDisjoint, NEW o \in Objects, NEW g \in Hookers, NEW h \in Hookers,
         ClassOf[o] \in Serves[g], ClassOf[o] \in Serves[h]
  PROVE  g = h
BY DEF HookersDisjoint

\* The slot of an object's vtable holds a hook if and only if an entry is
\* under the first key of the object.
LEMMA SlotOfObject ==
  ASSUME HookersDisjoint, DirectInv, NEW o \in Objects, NEW h \in Hookers
  PROVE  /\ slot[vptr[o]] = h <=> hash[Key1(h, o)] # NoEntry
         /\ slot[vptr[o]] = h => ClassOf[o] \in Serves[h]
<1>0. /\ TypeOK /\ VptrOfClass /\ KeysServed /\ PatchedIffInTable
  BY DirectInvParts
<1>1. /\ vptr[o] \in Vtables /\ ClassOf[o] \in Classes
      /\ vptr[o] \in VtablesOf[ClassOf[o]]
  BY <1>0, ConstantsTyped DEF TypeOK, VptrOfClass
<1>2. slot[vptr[o]] = h <=> \E c \in Classes : hash[<<vptr[o], c, h>>] # NoEntry
  BY <1>0, <1>1 DEF PatchedIffInTable
<1>3. ASSUME NEW c \in Classes, hash[<<vptr[o], c, h>>] # NoEntry
      PROVE  c = ClassOf[o] /\ c \in Serves[h]
  <2>1. c \in Serves[h] /\ vptr[o] \in VtablesOf[c]
    BY <1>0, <1>1, <1>3 DEF KeysServed, Served
  <2> QED
    BY <1>1, <2>1 DEF HookersDisjoint
<1> QED
  BY <1>1, <1>2, <1>3 DEF Key1

\* keyMetaClass is the class that the hook serves, of the object's line.
LEMMA KeyClassServed ==
  ASSUME NEW h \in Hookers, NEW o \in Objects,
         Supers[ClassOf[o]] \cap Serves[h] # {}
  PROVE  /\ KeyClass(h, o) \in Supers[ClassOf[o]] \cap Serves[h]
         /\ KeyClass(h, o) \in Classes
         /\ ClassOf[o] \in Serves[h] <=> KeyClass(h, o) = ClassOf[o]
<1>1. ClassOf[o] \in Classes /\ ClassOf[o] \in Supers[ClassOf[o]]
  BY ConstantsTyped, ClassesDerived
<1>2. \A a, b \in Supers[ClassOf[o]] \cap Serves[h] : a = b
  BY <1>1, ClassesDerived
<1>3. KeyClass(h, o) \in Supers[ClassOf[o]] \cap Serves[h]
  <2>1. PICK c \in Supers[ClassOf[o]] : c \in Serves[h]
    OBVIOUS
  <2>2. KeyClass(h, o) = CHOOSE d \in Supers[ClassOf[o]] : d \in Serves[h]
    BY DEF KeyClass
  <2> QED
    BY <2>1, <2>2
<1> QED
  BY <1>1, <1>2, <1>3, KeyClassTyped

\* GetOriginalFunction answers the function of the class to the hook that
\* runs, whether or not the object or its vtable is still hooked, ...
LEMMA LeafOriginalFound ==
  ASSUME HookersDisjoint, DirectInv, NEW o \in Objects, NEW h \in Hookers,
         ClassOf[o] \in Serves[h], KeyClass(h, o) = ClassOf[o]
  PROVE  OriginalFunction(h, o) = vptr[o]
<1>0. /\ TypeOK /\ HoldersExact /\ VptrOfClass /\ KeysAgree /\ KeysKnown
      /\ ObjectsKnown /\ SlotsOwn /\ OrigsOwn
  BY DirectInvParts
<1>1. /\ Key1(h, o) \in Keys /\ Key1(h, o)[1] = vptr[o]
      /\ vptr[o] \in Vtables /\ vptr[o] # NullVtable
      /\ ClassOf[o] \in Classes /\ vptr[o] \in VtablesOf[ClassOf[o]]
  BY <1>0, KeysTyped, ConstantsTyped, ConstantsDistinct
  DEF TypeOK, VptrOfClass, Key1
<1>2. hash[Key1(h, o)] = hash[Key2(h, o)]
  BY <1>0, <1>1 DEF KeysAgree, Key1, Key2
<1>3. CASE hash[Key1(h, o)] = NoEntry
  <2>1. objKey[<<o, h>>] = NoEntry
    BY <1>0, <1>3 DEF ObjectsKnown
  <2>2. slot[vptr[o]] = vptr[o]
    <3>1. ASSUME slot[vptr[o]] \in Hookers
          PROVE  FALSE
      <4>1. ClassOf[o] \in Serves[slot[vptr[o]]]
        BY <3>1, SlotOfObject
      <4>2. slot[vptr[o]] = h
        BY <3>1, <4>1, HookerOfClass
      <4> QED
        BY <1>3, <4>2, SlotOfObject
    <3> QED
      BY <1>0, <1>1, <3>1 DEF SlotsOwn
  <2> QED
    BY <1>2, <1>3, <2>1, <2>2 DEF OriginalFunction, Key1, Key2
<1>4. CASE hash[Key1(h, o)] # NoEntry
  <2> DEFINE e == hash[Key1(h, o)]
  <2>1. e \in EntryIds
    BY <1>0, <1>1, <1>4 DEF TypeOK
  <2>2. HoldersOf(e) # {}
    BY <1>0, <1>1, <2>1 DEF HoldersExact, HoldersOf
  <2>3. KeyOf(e)[1] = vptr[o]
    BY <1>0, <1>1, <1>4 DEF KeysKnown
  <2>4. entry[e].orig = vptr[o]
    BY <1>0, <2>1, <2>2, <2>3 DEF OrigsOwn, OrigOf
  <2>5. objKey[<<o, h>>] # NoEntry => objKey[<<o, h>>] = e
    BY <1>0 DEF ObjectsKnown
  <2> QED
    BY <1>4, <2>4, <2>5 DEF OriginalFunction, Key1
<1> QED
  BY <1>3, <1>4

\* ... and in a super call as long as an object of the super class is hooked.
LEMMA SuperOriginalFound ==
  ASSUME HookersDisjoint, DirectInv, NEW o \in Objects, NEW h \in Hookers,
         Supers[ClassOf[o]] \cap Serves[h] # {}, KeyClass(h, o) # ClassOf[o]
  PROVE  \/ OriginalFunction(h, o) \in VtablesOf[KeyClass(h, o)]
         \/ /\ OriginalFunction(h, o) = slot[vptr[o]]
            /\ \A p \in Objects :
                 ClassOf[p] = KeyClass(h, o) => objKey[<<p, h>>] = NoEntry
<1> DEFINE c == KeyClass(h, o)
           null == hash[<<NullVtable, c, h>>]
<1>0. /\ TypeOK /\ HoldersExact /\ VptrOfClass /\ KeysServed /\ KeysAgree
      /\ KeysKnown /\ ObjectsKnown /\ OrigsOwn
  BY DirectInvParts
<1>1. /\ c \in Classes
      /\ vptr[o] \in Vtables /\ vptr[o] \in VtablesOf[ClassOf[o]]
      /\ ClassOf[o] \in Classes
  BY <1>0, KeyClassServed, ConstantsTyped DEF TypeOK, VptrOfClass
<1>2. hash[<<vptr[o], c, h>>] = NoEntry
  <2>1. vptr[o] \notin VtablesOf[c]
    BY <1>1 DEF HookersDisjoint
  <2> HIDE DEF c
  <2> QED
    BY <1>0, <1>1, <2>1 DEF KeysServed, Served
<1>3. OriginalFunction(h, o) = IF null # NoEntry THEN entry[null].orig ELSE slot[vptr[o]]
  BY <1>2 DEF OriginalFunction
<1>4. <<NullVtable, c, h>> \in Keys
  BY <1>1 DEF Keys
<1>5. CASE null # NoEntry
  <2> HIDE DEF c
  <2>1. null \in EntryIds
    BY <1>0, <1>4, <1>5 DEF TypeOK
  <2>2. HoldersOf(null) # {}
    BY <1>0, <1>4, <2>1 DEF HoldersExact, HoldersOf
  <2>3. KeyOf(null)[1] \in VtablesOf[c]
    BY <1>0, <1>4, <1>5 DEF KeysKnown
  <2>4. entry[null].orig \in VtablesOf[c]
    BY <1>0, <2>1, <2>2, <2>3 DEF OrigsOwn, OrigOf
  <2> QED
    BY <1>3, <1>5, <2>4 DEF c
<1>6. CASE null = NoEntry
  <2>1. ASSUME NEW p \in Objects, ClassOf[p] = c
        PROVE  objKey[<<p, h>>] = NoEntry
    <3>1. vptr[p] \in VtablesOf[c]
      BY <1>0, <2>1 DEF VptrOfClass
    <3> HIDE DEF c
    <3>2. hash[Key1(h, p)] = NoEntry
      BY <1>0, <1>1, <1>6, <2>1, <3>1 DEF KeysAgree, Key1
    <3> QED
      BY <1>0, <3>2 DEF ObjectsKnown
  <2> QED
    BY <1>3, <1>6, <2>1
<1> QED
  BY <1>5, <1>6

\* What the hook of a class of the object's line can be given.
LEMMA OriginalKnown ==
  ASSUME HookersDisjoint, DirectInv, NEW o \in Objects, NEW h \in Hookers,
         Supers[ClassOf[o]] \cap Serves[h] # {}
  PROVE  OriginalFunction(h, o) \in Known(h, o, vptr[o])
<1>0. TypeOK /\ VptrOfClass /\ SlotsOwn
  BY DirectInvParts
<1>1. vptr[o] \in Vtables /\ vptr[o] \in VtablesOf[ClassOf[o]]
  BY <1>0 DEF TypeOK, VptrOfClass
<1>2. CASE KeyClass(h, o) = ClassOf[o]
  <2>1. OriginalFunction(h, o) = vptr[o]
    BY <1>2, KeyClassServed, LeafOriginalFound
  <2> QED
    BY <1>1, <1>2, <2>1 DEF Known
<1>3. CASE KeyClass(h, o) # ClassOf[o]
  <2>1. slot[vptr[o]] \in {vptr[o]} \cup {g \in Hookers : ClassOf[o] \in Serves[g]}
    BY <1>0, <1>1, SlotOfObject DEF SlotsOwn
  <2> QED
    BY <1>3, <2>1, SuperOriginalFound DEF Known
<1> QED
  BY <1>2, <1>3

LEMMA CleanFromInv ==
  ASSUME DirectInv
  PROVE  CleanWhenUnhooked
<1>0. /\ TypeOK /\ HoldersExact /\ PatchedIffInTable /\ KeysKnown
      /\ FreeIsBlank /\ SlotsOwn
  BY DirectInvParts
<1> SUFFICES ASSUME \A h \in Hookers : Hooked(h) = {}
             PROVE  /\ \A v \in Vtables : slot[v] = v
                    /\ \A k \in Keys : hash[k] = NoEntry
                    /\ \A e \in EntryIds : entry[e] = Blank
  BY DEF CleanWhenUnhooked
<1>1. \A p \in Objects \X Hookers : objKey[p] = NoEntry
  BY DEF Hooked
<1>2. \A e \in EntryIds : Linked(e) = {}
  BY <1>1, ConstantsDistinct DEF Linked
<1>3. \A k \in Keys : hash[k] = NoEntry
  BY <1>0, <1>2 DEF KeysKnown, TypeOK
<1>4. \A v \in Vtables : slot[v] = v
  <2>1. \A v \in Vtables, c \in Classes, h \in Hookers : <<v, c, h>> \in Keys
    BY DEF Keys
  <2> QED
    BY <1>0, <1>3, <2>1 DEF PatchedIffInTable, SlotsOwn
<1>5. \A e \in EntryIds : HoldersOf(e) = {}
  BY <1>0, <1>2, <1>3, ConstantsDistinct DEF HoldersExact, HoldersOf
<1> QED
  BY <1>0, <1>3, <1>4, <1>5 DEF FreeIsBlank

-----------------------------------------------------------------------------
(***************************************************************************)
(* The invariant is inductive.                                             *)
(***************************************************************************)
LEMMA InitDirectInv == Init => DirectInv
<1> SUFFICES ASSUME Init PROVE DirectInv
  OBVIOUS
<1>1. PatchInv /\ CountInv
  BY InitPatchInv, InitCountInv
<1>2. SlotsOwn /\ OrigsOwn
  BY DEF Init, SlotsOwn, OrigsOwn, HoldersOf, Blank
<1>3. CallsInFree /\ HookedLive
  BY ConstantsDistinct DEF Init, CallsInFree, HookedLive
<1> QED
  BY <1>1, <1>2, <1>3 DEF DirectInv

LEMMA StepOwn ==
  ASSUME HookersDisjoint, DirectInv, [Next]_vars
  PROVE  SlotsOwn' /\ OrigsOwn'
<1>0. /\ TypeOK /\ EntriesInUse /\ HoldersExact /\ EntriesServed
      /\ SlotsOwn /\ OrigsOwn
  BY DirectInvParts
<1>1. EntriesServed'
  BY StepPatchInv DEF DirectInv, PatchInv
<1>2. CASE UNCHANGED registry
  BY <1>0, <1>2 DEF registry, SlotsOwn, OrigsOwn, HoldersOf, OrigOf, KeyOf
<1>3. ASSUME NEW h \in Hookers, NEW o \in Objects, HookKnownVtable(h, o)
      PROVE  SlotsOwn' /\ OrigsOwn'
  <2>1. hash[Key1(h, o)] \in EntryIds /\ Key1(h, o) \in Keys
    BY <1>0, <1>3, KeysTyped, HookKnownVtableEffect
  <2>2. HoldersOf(hash[Key1(h, o)]) # {}
    BY <1>0, <2>1 DEF HoldersExact, HoldersOf
  <2>3. OrigsOwn'
    BY <1>0, <1>3, <2>2, HookKnownVtableEffect DEF OrigsOwn
  <2> QED
    BY <1>0, <1>3, <2>3 DEF HookKnownVtable, SlotsOwn
<1>4. ASSUME NEW h \in Hookers, NEW o \in Objects, NEW e \in EntryIds,
             HookNewVtable(h, o, e)
      PROVE  SlotsOwn' /\ OrigsOwn'
  <2>1. vptr[o] \in Vtables /\ Key1(h, o)[1] = vptr[o]
    BY <1>0 DEF TypeOK, Key1
  <2>2. /\ KeyOf(e)' = Key1(h, o)
        /\ OrigOf(e)' = slot[vptr[o]]
        /\ HoldersOf(e)' # {}
        /\ \A f \in EntryIds \ {e} :
             KeyOf(f)' = KeyOf(f) /\ OrigOf(f)' = OrigOf(f) /\ HoldersOf(f)' = HoldersOf(f)
    BY <1>0, <1>4, HookNewVtableEffect
  <2>3. slot[vptr[o]] = vptr[o]
    BY <1>0, <1>1, <2>1, <2>2, ConstantsDistinct DEF EntriesServed, SlotsOwn
  <2>4. OrigsOwn'
    BY <1>0, <2>1, <2>2, <2>3 DEF OrigsOwn
  <2>5. slot' = [slot EXCEPT ![vptr[o]] = h]
    BY <1>4 DEF HookNewVtable
  <2> QED
    BY <1>0, <2>4, <2>5 DEF SlotsOwn, TypeOK
<1>5. ASSUME NEW h \in Hookers, NEW o \in Objects, UnHookKnown(h, o)
      PROVE  SlotsOwn' /\ OrigsOwn'
  <2>1. /\ UnKey1(h, o)[1] \in Vtables
        /\ OrigOf(NonNull(h, o)) = UnKey1(h, o)[1]
    BY <1>0, <1>5, UnHookKnownEffect DEF OrigsOwn, UnKey1
  <2>2. slot' = IF Last(h, o)
                THEN [slot EXCEPT ![UnKey1(h, o)[1]] = OrigOf(NonNull(h, o))]
                ELSE slot
    BY <1>0, <1>5, UnHookKnownEffect
  <2>3. SlotsOwn'
    BY <1>0, <2>1, <2>2 DEF SlotsOwn, TypeOK
  <2>4. \A f \in EntryIds :
          HoldersOf(f)' # {} =>
            HoldersOf(f) # {} /\ KeyOf(f)' = KeyOf(f) /\ OrigOf(f)' = OrigOf(f)
    BY <1>0, <1>5, UnHookKnownEffect
  <2> QED
    BY <1>0, <2>3, <2>4 DEF OrigsOwn
<1> QED
  BY <1>0, <1>2, <1>3, <1>4, <1>5, RegistryStep DEF RegistryChange

\* How the table of objects changes.
LEMMA ObjectAdded ==
  ASSUME TypeOK, NEW h \in Hookers, NEW o \in Objects, HookVtable(h, o)
  PROVE  \/ objKey' = objKey
         \/ \E e \in EntryIds : /\ Usable(o) /\ ClassOf[o] \in Serves[h]
                                /\ objKey[<<o, h>>] = NoEntry
                                /\ objKey' = [objKey EXCEPT ![<<o, h>>] = e]
<1>1. CASE UNCHANGED registry
  BY <1>1 DEF registry
<1>2. CASE HookKnownVtable(h, o)
  BY <1>2, HookKnownVtableEffect DEF HookKnownVtable, HookCall
<1>3. CASE \E e \in EntryIds : HookNewVtable(h, o, e)
  BY <1>3 DEF HookNewVtable, HookNewVtableCall, HookCall
<1> QED
  BY <1>1, <1>2, <1>3, HookCases

LEMMA ObjectRemoved ==
  ASSUME TypeOK, EntriesInUse, HoldersExact,
         NEW h \in Hookers, NEW o \in Objects, UnHookInt(h, o)
  PROVE  objKey' = [objKey EXCEPT ![<<o, h>>] = NoEntry]
<1>1. CASE UnHookUnknown(h, o)
  BY <1>1 DEF UnHookUnknown, registry, TypeOK
<1>2. CASE UnHookKnown(h, o)
  BY <1>2, UnHookKnownEffect
<1> QED
  BY <1>1, <1>2 DEF UnHookInt

\* A hooked slot intercepts for the class of the vtable.
LEMMA PatchServes ==
  ASSUME HookersDisjoint, DirectInv, NEW d \in Classes, NEW v \in VtablesOf[d],
         slot[v] \in Hookers
  PROVE  d \in Serves[slot[v]]
<1>0. /\ KeysServed /\ PatchedIffInTable
  BY DirectInvParts
<1>1. v \in Vtables
  BY ConstantsTyped
<1>2. PICK c \in Classes : hash[<<v, c, slot[v]>>] # NoEntry
  BY <1>0, <1>1 DEF PatchedIffInTable
<1>3. c \in Serves[slot[v]] /\ v \in VtablesOf[c]
  BY <1>0, <1>1, <1>2 DEF KeysServed, Served
<1> QED
  BY <1>3 DEF HookersDisjoint

\* The free() of a super class, or its hook, follows that of a class.
LEMMA SuperFreeEffect ==
  ASSUME HookersDisjoint, DirectInv, NEW o \in Objects, SuperFree(o)
  PROVE  /\ run[o] \in Vtables
         /\ UNCHANGED <<live, registry, original>>
         /\ \E d \in Supers[ClassOf[o]] \ {ClassOf[o]}, f \in Funcs :
              /\ run' = [run EXCEPT ![o] = f]
              /\ f \in VtablesOf[d] \/ (f \in Hookers /\ d \in Serves[f])
<1>0. TypeOK /\ SlotsOwn
  BY DirectInvParts
<1>1. PICK c \in Classes, d \in Classes :
        /\ FreesAs(c, o)
        /\ d \in Supers[c] /\ Supers[d] = Supers[c] \ {c}
        /\ \E v \in VtablesOf[d] : run' = [run EXCEPT ![o] = slot[v]]
  BY DEF SuperFree
<1>2. PICK v \in VtablesOf[d] : run' = [run EXCEPT ![o] = slot[v]]
  BY <1>1
<1>3. /\ ClassOf[o] \in Classes
      /\ c \in Supers[ClassOf[o]]
      /\ run[o] \in VtablesOf[c]
  BY <1>1, ConstantsTyped DEF FreesAs
<1>4. d \in Supers[ClassOf[o]] \ {ClassOf[o]}
  <2>1. Supers[c] \subseteq Supers[ClassOf[o]]
    BY <1>3, ClassesDerived
  <2>2. d # ClassOf[o]
    BY <1>1, <1>3
  <2> QED
    BY <1>1, <2>1, <2>2
<1>5. v \in Vtables /\ run[o] \in Vtables
  BY <1>2, <1>3, ConstantsTyped
<1>6. slot[v] \in Funcs /\ slot[v] \in {v} \cup Hookers
  BY <1>0, <1>5 DEF TypeOK, SlotsOwn
<1>7. slot[v] \in Hookers => d \in Serves[slot[v]]
  BY PatchServes
<1> QED
  BY <1>2, <1>4, <1>5, <1>6, <1>7 DEF SuperFree

LEMMA StepCalls ==
  ASSUME HookersDisjoint, OneVtable, DirectInv, [Next]_vars
  PROVE  CallsInFree' /\ HookedLive'
<1>0. /\ TypeOK /\ EntriesInUse /\ HoldersExact /\ VptrOfClass /\ ObjectsKnown
      /\ SlotsOwn /\ CallsInFree /\ HookedLive
  BY DirectInvParts
<1>1. vptr' = vptr
  BY <1>0, VptrConstant
<1>2. ASSUME live \subseteq live', UNCHANGED <<objKey, run, original>>
      PROVE  CallsInFree' /\ HookedLive'
  BY <1>0, <1>1, <1>2 DEF CallsInFree, HookedLive
<1>3. ASSUME NEW o \in Objects, NEW h \in Hookers, HookVtable(h, o)
      PROVE  CallsInFree' /\ HookedLive'
  <2>1. UNCHANGED <<live, run, original>>
    BY <1>0, <1>3, HookCases
  <2>2. CallsInFree'
    BY <1>0, <1>1, <2>1 DEF CallsInFree
  <2>3. CASE objKey' = objKey
    BY <1>2, <2>1, <2>3
  <2>4. ASSUME NEW e \in EntryIds, Usable(o), ClassOf[o] \in Serves[h],
               objKey' = [objKey EXCEPT ![<<o, h>>] = e]
        PROVE  HookedLive'
    BY <1>0, <2>1, <2>4, ConstantsDistinct DEF HookedLive, Usable, TypeOK
  <2> QED
    BY <1>0, <1>3, <2>2, <2>3, <2>4, ObjectAdded
<1>4. ASSUME NEW o \in Objects, NEW h \in Hookers, UnHookObject(h, o)
      PROVE  CallsInFree' /\ HookedLive'
  <2>1. UNCHANGED <<live, run, original>> /\ UnHookInt(h, o)
    BY <1>4 DEF UnHookObject
  <2>2. objKey' = [objKey EXCEPT ![<<o, h>>] = NoEntry]
    BY <1>0, <2>1, ObjectRemoved
  <2>3. CallsInFree'
    BY <1>0, <1>1, <2>1 DEF CallsInFree
  <2>4. HookedLive'
    BY <1>0, <2>1, <2>2 DEF HookedLive, TypeOK
  <2> QED
    BY <2>3, <2>4
<1>5. ASSUME NEW o \in Objects, Construct(o)
      PROVE  CallsInFree' /\ HookedLive'
  BY <1>2, <1>5 DEF Construct, registry
<1>6. ASSUME NEW o \in Objects, NEW v \in Vtables, ReplaceVtable(o, v)
      PROVE  CallsInFree' /\ HookedLive'
  BY <1>2, <1>6 DEF ReplaceVtable, registry
\* A thread goes on in another function of an object that stays.
<1>C. ASSUME NEW o \in Objects, NEW f, run' = [run EXCEPT ![o] = f], o \in live,
             live' = live, original'[o] = Idle,
             \A p \in Objects \ {o} : original'[p] = original[p],
             f \in Hookers => Supers[ClassOf[o]] \cap Serves[f] # {},
             f \in Vtables => \E c \in Supers[ClassOf[o]] : f \in VtablesOf[c]
      PROVE  CallsInFree'
  <2> SUFFICES ASSUME NEW p \in Objects
               PROVE  /\ run'[p] # Idle => p \in live
                      /\ run'[p] \in Hookers =>
                           Supers[ClassOf[p]] \cap Serves[run'[p]] # {}
                      /\ run'[p] \in Vtables =>
                           \E c \in Supers[ClassOf[p]] : run'[p] \in VtablesOf[c]
                      /\ original'[p] # Idle =>
                           run'[p] \in Hookers /\ original'[p] \in Known(run'[p], p, vptr[p])
    BY <1>1, <1>C DEF CallsInFree
  <2>1. CASE p = o
    <3>1. run'[p] = f /\ original'[p] = Idle
      BY <1>0, <1>C, <2>1 DEF TypeOK
    <3> QED
      BY <1>C, <2>1, <3>1
  <2>2. CASE p # o
    <3>1. run'[p] = run[p] /\ original'[p] = original[p]
      BY <1>0, <1>C, <2>2 DEF TypeOK
    <3> QED
      BY <1>0, <3>1 DEF CallsInFree
  <2> QED
    BY <2>1, <2>2
<1>7. ASSUME NEW o \in Objects, CallFree(o)
      PROVE  CallsInFree' /\ HookedLive'
  <2>1. /\ run' = [run EXCEPT ![o] = slot[vptr[o]]]
        /\ UNCHANGED <<live, objKey, original>>
        /\ o \in live /\ run[o] = Idle
    BY <1>7 DEF CallFree, Usable, registry
  <2>2. slot[vptr[o]] \in Hookers => ClassOf[o] \in Serves[slot[vptr[o]]]
    BY SlotOfObject
  <2>3. original[o] = Idle
    BY <1>0, <2>1, ConstantsDistinct DEF CallsInFree
  <2>4. /\ ClassOf[o] \in Supers[ClassOf[o]]
        /\ vptr[o] \in Vtables /\ vptr[o] \in VtablesOf[ClassOf[o]]
        /\ slot[vptr[o]] \in {vptr[o]} \cup Hookers
    BY <1>0, ConstantsTyped, ClassesDerived DEF TypeOK, VptrOfClass, SlotsOwn
  <2>5. CallsInFree'
    <3>1. slot[vptr[o]] \in Vtables => slot[vptr[o]] = vptr[o]
      BY <2>4, ConstantsDistinct
    <3> QED
      BY <1>C, <2>1, <2>2, <2>3, <2>4, <3>1
  <2>6. HookedLive'
    <3> SUFFICES ASSUME NEW p \in Objects, NEW h \in Hookers,
                        objKey[<<p, h>>] # NoEntry
                 PROVE  /\ p \in live /\ ClassOf[p] \in Serves[h]
                        /\ run'[p] # Idle =>
                             run'[p] \in Hookers /\ ClassOf[p] \in Serves[run'[p]]
      BY <2>1 DEF HookedLive
    <3>1. /\ p \in live /\ ClassOf[p] \in Serves[h]
          /\ run[p] # Idle => run[p] \in Hookers /\ ClassOf[p] \in Serves[run[p]]
      BY <1>0 DEF HookedLive
    <3>2. slot[vptr[p]] = h
      BY <1>0, SlotOfObject DEF ObjectsKnown
    <3>3. run'[p] = IF p = o THEN slot[vptr[o]] ELSE run[p]
      BY <1>0, <2>1 DEF TypeOK
    <3> QED
      BY <3>1, <3>2, <3>3
  <2> QED
    BY <2>5, <2>6
<1>8. ASSUME NEW o \in Objects, GetOriginalFunction(o)
      PROVE  CallsInFree' /\ HookedLive'
  <2>1. /\ run[o] \in Hookers /\ UNCHANGED <<live, run, objKey>>
        /\ original' = [original EXCEPT ![o] = OriginalFunction(run[o], o)]
    BY <1>8 DEF GetOriginalFunction, registry
  <2>2. Supers[ClassOf[o]] \cap Serves[run[o]] # {}
    BY <1>0, <2>1 DEF CallsInFree
  <2>3. OriginalFunction(run[o], o) \in Known(run[o], o, vptr[o])
    BY <2>1, <2>2, OriginalKnown
  <2>4. \A p \in Objects :
          original'[p] = IF p = o THEN OriginalFunction(run[o], o) ELSE original[p]
    BY <1>0, <2>1 DEF TypeOK
  <2>5. CallsInFree'
    BY <1>0, <1>1, <2>1, <2>3, <2>4 DEF CallsInFree
  <2> QED
    BY <1>0, <2>1, <2>5 DEF HookedLive
<1>9. ASSUME NEW o \in Objects, free_hook(o)
      PROVE  CallsInFree' /\ HookedLive'
  <2>1. /\ run[o] \in Hookers /\ o \in live
        /\ original[o] \in Known(run[o], o, vptr[o])
        /\ Supers[ClassOf[o]] \cap Serves[run[o]] # {}
        /\ UnHookInt(run[o], o) /\ live' = live
        /\ run' = [run EXCEPT ![o] = original[o]]
        /\ original' = [original EXCEPT ![o] = Idle]
    BY <1>0, <1>9, ConstantsDistinct DEF free_hook, CallsInFree
  <2>2. objKey' = [objKey EXCEPT ![<<o, run[o]>>] = NoEntry]
    BY <1>0, <2>1, ObjectRemoved
  <2>3. \A p \in Objects :
          /\ run'[p] = IF p = o THEN original[o] ELSE run[p]
          /\ original'[p] = IF p = o THEN Idle ELSE original[p]
    BY <1>0, <2>1 DEF TypeOK
  <2>4. /\ ClassOf[o] \in Supers[ClassOf[o]]
        /\ vptr[o] \in VtablesOf[ClassOf[o]] /\ vptr[o] \in Vtables
        /\ KeyClass(run[o], o) \in Supers[ClassOf[o]]
        /\ KeyClass(run[o], o) \in Classes
        /\ VtablesOf[KeyClass(run[o], o)] \subseteq Vtables
    BY <1>0, <2>1, KeyClassTyped, ConstantsTyped, ClassesDerived DEF VptrOfClass, TypeOK
  <2>5. /\ original[o] \in Hookers => ClassOf[o] \in Serves[original[o]]
        /\ original[o] \in Vtables =>
             \E c \in Supers[ClassOf[o]] : original[o] \in VtablesOf[c]
    BY <2>1, <2>4, ConstantsDistinct DEF Known
  <2>6. CallsInFree'
    BY <1>C, <2>1, <2>3, <2>4, <2>5
  <2>7. \A h \in Hookers : objKey'[<<o, h>>] = NoEntry
    <3> SUFFICES ASSUME NEW h \in Hookers, objKey[<<o, h>>] # NoEntry
                 PROVE  h = run[o]
      BY <1>0, <2>1, <2>2 DEF TypeOK
    <3>1. ClassOf[o] \in Serves[h] /\ ClassOf[o] \in Serves[run[o]]
      BY <1>0, <2>1, ConstantsDistinct DEF HookedLive
    <3> QED
      BY <2>1, <3>1, HookerOfClass
  <2>8. \A p \in Objects, h \in Hookers :
          objKey'[<<p, h>>] # NoEntry => p # o /\ objKey'[<<p, h>>] = objKey[<<p, h>>]
    BY <1>0, <2>1, <2>2, <2>7 DEF TypeOK
  <2>9. HookedLive'
    BY <1>0, <2>1, <2>3, <2>8 DEF HookedLive
  <2> QED
    BY <2>6, <2>9
<1>10. ASSUME NEW o \in Objects, SuperFree(o)
       PROVE  CallsInFree' /\ HookedLive'
  <2>1. /\ run[o] \in Vtables
        /\ UNCHANGED <<live, objKey, original>>
    BY <1>10, SuperFreeEffect DEF registry
  <2>2. PICK d \in Supers[ClassOf[o]] \ {ClassOf[o]}, f \in Funcs :
          /\ run' = [run EXCEPT ![o] = f]
          /\ f \in VtablesOf[d] \/ (f \in Hookers /\ d \in Serves[f])
    BY <1>10, SuperFreeEffect
  <2>3. o \in live /\ original[o] = Idle
    BY <1>0, <2>1, ConstantsDistinct DEF CallsInFree
  <2>4. d \in Classes /\ VtablesOf[d] \subseteq Vtables
    BY ConstantsTyped, ClassesDerived
  <2>5. CallsInFree'
    <3>1. /\ f \in Hookers => Supers[ClassOf[o]] \cap Serves[f] # {}
          /\ f \in Vtables => \E c \in Supers[ClassOf[o]] : f \in VtablesOf[c]
      BY <2>2, <2>4, ConstantsDistinct
    <3> QED
      BY <1>C, <2>1, <2>2, <2>3, <3>1
  <2>6. \A h \in Hookers : objKey[<<o, h>>] = NoEntry
    BY <1>0, <2>1, ConstantsDistinct DEF HookedLive
  <2>7. \A p \in Objects : p # o => run'[p] = run[p]
    BY <1>0, <2>2 DEF TypeOK
  <2>8. HookedLive'
    BY <1>0, <2>1, <2>6, <2>7 DEF HookedLive
  <2> QED
    BY <2>5, <2>8
<1>11. ASSUME NEW o \in Objects, Destroy(o)
       PROVE  CallsInFree' /\ HookedLive'
  <2>1. /\ run[o] \in Vtables /\ live' = live \ {o}
        /\ run' = [run EXCEPT ![o] = Idle]
        /\ UNCHANGED <<objKey, original>>
    BY <1>11 DEF Destroy, registry
  <2>2. \A p \in Objects : run'[p] = IF p = o THEN Idle ELSE run[p]
    BY <1>0, <2>1 DEF TypeOK
  <2>3. original[o] = Idle
    BY <1>0, <2>1, ConstantsDistinct DEF CallsInFree
  <2>4. CallsInFree'
    BY <1>0, <1>1, <2>1, <2>2, <2>3, ConstantsDistinct DEF CallsInFree
  <2>5. HookedLive'
    BY <1>0, <2>1, <2>2, ConstantsDistinct DEF HookedLive
  <2> QED
    BY <2>4, <2>5
<1>12. CASE UNCHANGED vars
  BY <1>2, <1>12 DEF vars, registry
<1> QED
  BY <1>3, <1>4, <1>5, <1>6, <1>7, <1>8, <1>9, <1>10, <1>11, <1>12
  DEF Next, FreeNext

LEMMA StepDirectInv ==
  ASSUME HookersDisjoint, OneVtable
  PROVE  DirectInv /\ [Next]_vars => DirectInv'
<1> SUFFICES ASSUME DirectInv, [Next]_vars PROVE DirectInv'
  OBVIOUS
<1>1. PatchInv' /\ CountInv'
  BY StepPatchInv, StepCountInv DEF DirectInv
<1>2. SlotsOwn' /\ OrigsOwn' /\ CallsInFree' /\ HookedLive'
  BY StepOwn, StepCalls
<1> QED
  BY <1>1, <1>2 DEF DirectInv

LEMMA DirectInvHolds ==
  HookersDisjoint /\ OneVtable => (Spec => []DirectInv)
<1> SUFFICES ASSUME HookersDisjoint, OneVtable PROVE Spec => []DirectInv
  OBVIOUS
<1>1. DirectInv /\ [Next]_vars => DirectInv'
  BY StepDirectInv
<1> QED
  BY <1>1, InitDirectInv, PTL DEF Spec

-----------------------------------------------------------------------------
\* GetOriginalFunction finds the function the vtable had before it was hooked,
\* also when other threads unhook the vtable between the call that the slot
\* dispatched and the lookup, or before the result is called; and in a call of
\* super::free() that of the super class, as long as an object of that class is
\* in the table.
THEOREM OriginalFunctionRight ==
  HookersDisjoint /\ OneVtable => (Spec => OriginalIsOriginal)
<1> SUFFICES ASSUME HookersDisjoint, OneVtable PROVE Spec => OriginalIsOriginal
  OBVIOUS
<1> DEFINE Right(o) ==
             \E c \in Supers[ClassOf[o]] \cap Serves[run[o]] :
               \/ original'[o] \in VtablesOf[c]
               \/ /\ c # ClassOf[o]
                  /\ \A p \in Objects :
                       ClassOf[p] = c => objKey[<<p, run[o]>>] = NoEntry
<1>1. ASSUME DirectInv, NEW o \in Objects, GetOriginalFunction(o)
      PROVE  Right(o)
  <2>0. TypeOK /\ CallsInFree /\ VptrOfClass
    BY <1>1, DirectInvParts
  <2>1. /\ run[o] \in Hookers
        /\ original'[o] = OriginalFunction(run[o], o)
    BY <1>1, <2>0 DEF GetOriginalFunction, TypeOK
  <2>2. Supers[ClassOf[o]] \cap Serves[run[o]] # {}
    BY <2>0, <2>1 DEF CallsInFree
  <2>3. KeyClass(run[o], o) \in Supers[ClassOf[o]] \cap Serves[run[o]]
    BY <2>1, <2>2, KeyClassServed
  <2>4. CASE KeyClass(run[o], o) = ClassOf[o]
    <3>1. OriginalFunction(run[o], o) = vptr[o]
      BY <1>1, <2>1, <2>2, <2>4, KeyClassServed, LeafOriginalFound
    <3> QED
      BY <2>0, <2>1, <2>3, <2>4, <3>1 DEF VptrOfClass
  <2>5. CASE KeyClass(run[o], o) # ClassOf[o]
    BY <1>1, <2>1, <2>2, <2>3, <2>5, SuperOriginalFound
  <2> QED
    BY <2>4, <2>5
<1>2. DirectInv /\ [Next]_vars =>
        [\A o \in Objects : GetOriginalFunction(o) => Right(o)]_vars
  BY <1>1
<1>3. Spec => []DirectInv
  BY DirectInvHolds
<1> QED
  BY <1>2, <1>3, PTL DEF Spec, OriginalIsOriginal

\* When no object is in the table, every slot, key and entry is as it was
\* before the first object was hooked.
THEOREM NothingLeftBehind ==
  HookersDisjoint /\ OneVtable => (Spec => []CleanWhenUnhooked)
<1> SUFFICES ASSUME HookersDisjoint, OneVtable PROVE Spec => []CleanWhenUnhooked
  OBVIOUS
<1>1. Spec => []DirectInv
  BY DirectInvHolds
<1>2. DirectInv => CleanWhenUnhooked
  BY CleanFromInv
<1> QED
  BY <1>1, <1>2, PTL

-----------------------------------------------------------------------------
(***************************************************************************)
(* The refinement of HookRegistry: every step of the hooking code is a     *)
(* step of the registry or changes nothing that its users can see.         *)
(***************************************************************************)
Freeing == [o \in Objects |-> FreeingIn(o)]

LEMMA InTable ==
  \A o : o \in HookedObjects <=>
          o \in Objects /\ \E h \in Hookers : objKey[<<o, h>>] # NoEntry
<1> SUFFICES ASSUME NEW o
             PROVE  o \in HookedObjects <=>
                      o \in Objects /\ \E h \in Hookers : objKey[<<o, h>>] # NoEntry
  OBVIOUS
<1>1. o \in HookedObjects <=> \E h \in Hookers : o \in Hooked(h)
  BY DEF HookedObjects
<1> QED
  BY <1>1 DEF Hooked

LEMMA InTableNext ==
  \A o : o \in HookedObjects' <=>
          o \in Objects /\ \E h \in Hookers : objKey'[<<o, h>>] # NoEntry
<1> SUFFICES ASSUME NEW o
             PROVE  o \in HookedObjects' <=>
                      o \in Objects /\ \E h \in Hookers : objKey'[<<o, h>>] # NoEntry
  OBVIOUS
<1>1. o \in HookedObjects' <=> \E h \in Hookers : o \in Hooked(h)'
  BY DEF HookedObjects
<1> QED
  BY <1>1 DEF Hooked

\* What the function that an object is in is to the users: the hook of a super
\* class is a part of the free() of the object's class.
Phase(o, f) ==
  IF f = Idle THEN "no"
  ELSE IF f \in Hookers /\ ClassOf[o] \in Serves[f] THEN "hook" ELSE "class"

LEMMA FreeingKnown ==
  ASSUME DirectInv
  PROVE  Freeing = [o \in Objects |-> Phase(o, run[o])]
<1>1. \A o \in Objects :
        /\ run[o] \in Funcs \cup {Idle}
        /\ run[o] \in Vtables => \E c \in Supers[ClassOf[o]] : run[o] \in VtablesOf[c]
  BY DirectInvParts DEF TypeOK, CallsInFree
<1>2. ASSUME NEW o \in Objects
      PROVE  FreeingIn(o) = Phase(o, run[o])
  <2>1. CASE run[o] \in Hookers \cup {Idle}
    BY <2>1 DEF FreeingIn, Phase
  <2>2. CASE run[o] \in Vtables
    <3>1. PICK c \in Supers[ClassOf[o]] : run[o] \in VtablesOf[c]
      BY <1>1, <2>2
    <3>2. c \in Classes
      BY ConstantsTyped, ClassesDerived
    <3>3. FreesAs(c, o)
      BY <3>1 DEF FreesAs
    <3> QED
      BY <2>2, <3>2, <3>3, ConstantsDistinct DEF FreeingIn, Phase
  <2> QED
    BY <1>1, <2>1, <2>2 DEF Funcs
<1> QED
  BY <1>2 DEF Freeing

LEMMA FreeingKnownNext ==
  ASSUME DirectInv'
  PROVE  Freeing' = [o \in Objects |-> Phase(o, run'[o])]
<1>1. \A o \in Objects :
        /\ run'[o] \in Funcs \cup {Idle}
        /\ run'[o] \in Vtables => \E c \in Supers[ClassOf[o]] : run'[o] \in VtablesOf[c]
  <2>1. (TypeOK /\ CallsInFree)'
    BY DEF DirectInv, CountInv, EntriesInv
  <2> QED
    BY <2>1 DEF TypeOK, CallsInFree
<1>2. ASSUME NEW o \in Objects
      PROVE  FreeingIn(o)' = Phase(o, run'[o])
  <2>1. CASE run'[o] \in Hookers \cup {Idle}
    BY <2>1 DEF FreeingIn, Phase
  <2>2. CASE run'[o] \in Vtables
    <3>1. PICK c \in Supers[ClassOf[o]] : run'[o] \in VtablesOf[c]
      BY <1>1, <2>2
    <3>2. c \in Classes
      BY ConstantsTyped, ClassesDerived
    <3>3. FreesAs(c, o)'
      BY <3>1 DEF FreesAs
    <3> QED
      BY <2>2, <3>2, <3>3, ConstantsDistinct DEF FreeingIn, Phase
  <2> QED
    BY <1>1, <2>1, <2>2 DEF Funcs
<1> QED
  BY <1>2 DEF Freeing

\* The free() of an object is intercepted if and only if an object of its
\* class is hooked.
LEMMA InterceptedWhenPatched ==
  ASSUME HookersDisjoint, OneVtable, DirectInv, NEW o \in Objects
  PROVE  slot[vptr[o]] \in Hookers <=>
           \E p \in HookedObjects : ClassOf[p] = ClassOf[o]
<1>0. /\ TypeOK /\ VptrOfClass /\ KeysKnown /\ ObjectsKnown
  BY DirectInvParts
<1>1. ASSUME NEW h \in Hookers, slot[vptr[o]] = h
      PROVE  \E p \in HookedObjects : ClassOf[p] = ClassOf[o]
  <2> DEFINE e == hash[Key1(h, o)]
  <2>1. Key1(h, o) \in Keys /\ e # NoEntry
    BY <1>0, <1>1, KeysTyped, SlotOfObject
  <2>2. Linked(e) # {} /\ KeyOf(e)[2] = ClassOf[o]
    BY <1>0, <2>1 DEF KeysKnown, Key1
  <2>3. PICK p \in Objects, g \in Hookers : objKey[<<p, g>>] = e
    BY <2>2 DEF Linked
  <2>4. KeyOf(e) = Key1(g, p)
    BY <1>0, <2>1, <2>3 DEF ObjectsKnown
  <2>5. ClassOf[p] = ClassOf[o] /\ p \in HookedObjects
    BY <2>1, <2>2, <2>3, <2>4, InTable DEF Key1
  <2> QED
    BY <2>5
<1>2. ASSUME NEW p \in HookedObjects, ClassOf[p] = ClassOf[o]
      PROVE  slot[vptr[o]] \in Hookers
  <2>1. PICK h \in Hookers : p \in Objects /\ objKey[<<p, h>>] # NoEntry
    BY InTable
  <2>2. slot[vptr[p]] = h
    BY <1>0, <2>1, SlotOfObject DEF ObjectsKnown
  <2>3. vptr[p] = vptr[o]
    BY <1>0, <1>2, <2>1, ConstantsTyped DEF OneVtable, VptrOfClass
  <2> QED
    BY <2>2, <2>3
<1> QED
  BY <1>1, <1>2

LEMMA InitRegistry == Init => Registry!RegistryInit
<1> SUFFICES ASSUME Init PROVE Registry!RegistryInit
  OBVIOUS
<1>1. \A o : o \notin HookedObjects
  BY InTable DEF Init
<1>2. \A o \in Objects : FreeingIn(o) = "no"
  BY DEF Init, FreeingIn
<1> QED
  BY <1>1, <1>2 DEF Init, Registry!RegistryInit

LEMMA StepRegistry ==
  ASSUME HookersDisjoint, OneVtable, DirectInv, DirectInv', [Next]_vars
  PROVE  [Registry!RegistryNext]_(Registry!registryVars)
<1>0. /\ TypeOK /\ EntriesInUse /\ HoldersExact /\ VptrOfClass /\ ObjectsKnown
      /\ SlotsOwn /\ CallsInFree /\ HookedLive
  BY DirectInvParts
<1>1. /\ Freeing = [o \in Objects |-> Phase(o, run[o])]
      /\ Freeing' = [o \in Objects |-> Phase(o, run'[o])]
  BY FreeingKnown, FreeingKnownNext
<1>2. Registry!registryVars = <<live, HookedObjects, Freeing>>
  BY DEF Registry!registryVars, Freeing
<1>3. (Registry!registryVars)' = <<live', HookedObjects', Freeing'>>
  BY DEF Registry!registryVars, Freeing
<1>4. run' = run => Freeing' = Freeing
  BY <1>1
<1>5. objKey' = objKey => HookedObjects' = HookedObjects
  BY DEF HookedObjects, Hooked
<1>6. ASSUME UNCHANGED <<live, objKey, run>>
      PROVE  UNCHANGED Registry!registryVars
  BY <1>2, <1>3, <1>4, <1>5, <1>6
<1>7. ASSUME NEW o \in Objects, Construct(o)
      PROVE  Registry!New(o)
  BY <1>4, <1>5, <1>7 DEF Construct, registry, Registry!New, Freeing
<1>8. ASSUME NEW o \in Objects, NEW h \in Hookers, HookVtable(h, o)
      PROVE  Registry!Hook(o) \/ UNCHANGED Registry!registryVars
  <2>1. UNCHANGED <<live, run>>
    BY <1>0, <1>8, HookCases
  <2>2. CASE objKey' = objKey
    BY <1>6, <2>1, <2>2
  <2>3. ASSUME NEW e \in EntryIds, Usable(o),
               objKey' = [objKey EXCEPT ![<<o, h>>] = e]
        PROVE  Registry!Hook(o)
    <3>1. \A p \in Objects, g \in Hookers :
            objKey'[<<p, g>>] = IF p = o /\ g = h THEN e ELSE objKey[<<p, g>>]
      BY <1>0, <2>3 DEF TypeOK
    <3>2. e # NoEntry
      BY ConstantsDistinct
    <3>3. HookedObjects' = HookedObjects \cup {o}
      <4>1. \A p : p \in HookedObjects' <=> p \in HookedObjects \cup {o}
        BY <3>1, <3>2, InTable, InTableNext
      <4> QED
        BY <4>1
    <3>4. o \in live /\ Freeing[o] = "no"
      BY <1>1, <2>3 DEF Usable, Phase
    <3> QED
      BY <1>4, <2>1, <3>3, <3>4 DEF Registry!Hook, Registry!InUse, Freeing
  <2> QED
    BY <1>0, <1>8, <2>2, <2>3, ObjectAdded
<1>9. ASSUME NEW o \in Objects, NEW h \in Hookers, UnHookInt(h, o),
             ClassOf[o] \in Serves[h]
      PROVE  HookedObjects' = HookedObjects \ {o}
  <2>1. \A p \in Objects, g \in Hookers :
          objKey'[<<p, g>>] = IF p = o /\ g = h THEN NoEntry ELSE objKey[<<p, g>>]
    <3>1. objKey' = [objKey EXCEPT ![<<o, h>>] = NoEntry]
      BY <1>0, <1>9, ObjectRemoved
    <3> QED
      BY <1>0, <3>1 DEF TypeOK
  <2>2. \A g \in Hookers : objKey[<<o, g>>] # NoEntry => g = h
    BY <1>0, <1>9, HookerOfClass DEF HookedLive
  <2>3. \A p : p \in HookedObjects' <=> p \in HookedObjects \ {o}
    <3> SUFFICES ASSUME NEW p
                 PROVE  p \in HookedObjects' <=> p \in HookedObjects /\ p # o
      OBVIOUS
    <3>1. p \in HookedObjects <=>
            p \in Objects /\ \E g \in Hookers : objKey[<<p, g>>] # NoEntry
      BY InTable
    <3>2. p \in HookedObjects' <=>
            p \in Objects /\ \E g \in Hookers : objKey'[<<p, g>>] # NoEntry
      BY InTableNext
    <3> QED
      BY <2>1, <2>2, <3>1, <3>2
  <2> QED
    BY <2>3
<1>10. ASSUME NEW o \in Objects, NEW h \in Hookers, UnHookObject(h, o)
       PROVE  Registry!Unhook(o) \/ UNCHANGED Registry!registryVars
  <2>1. Usable(o) /\ UnHookInt(h, o) /\ UNCHANGED <<live, run>>
    BY <1>10 DEF UnHookObject
  <2>2. CASE ClassOf[o] \in Serves[h]
    <3>1. o \in live /\ Freeing[o] = "no"
      BY <1>1, <2>1 DEF Usable, Phase
    <3> QED
      BY <1>4, <1>9, <2>1, <2>2, <3>1 DEF Registry!Unhook, Registry!InUse, Freeing
  <2>3. CASE ClassOf[o] \notin Serves[h]
    <3>1. objKey[<<o, h>>] = NoEntry
      BY <1>0, <2>3 DEF HookedLive
    <3>2. objKey' = objKey
      <4>1. objKey' = [objKey EXCEPT ![<<o, h>>] = NoEntry]
        BY <1>0, <2>1, ObjectRemoved
      <4> QED
        BY <1>0, <3>1, <4>1 DEF TypeOK
    <3> QED
      BY <1>6, <2>1, <3>2
  <2> QED
    BY <2>2, <2>3
<1>11. ASSUME NEW o \in Objects, CallFree(o)
       PROVE  Registry!Free(o)
  <2>1. /\ run' = [run EXCEPT ![o] = slot[vptr[o]]]
        /\ UNCHANGED <<live, objKey>> /\ Usable(o)
    BY <1>11 DEF CallFree, registry
  <2>2. /\ slot[vptr[o]] \in Funcs /\ slot[vptr[o]] # Idle
        /\ slot[vptr[o]] \in Hookers => ClassOf[o] \in Serves[slot[vptr[o]]]
    BY <1>0, SlotOfObject, ConstantsDistinct DEF TypeOK, Funcs
  <2>3. Phase(o, slot[vptr[o]]) =
          IF \E p \in HookedObjects : ClassOf[p] = ClassOf[o] THEN "hook" ELSE "class"
    BY <2>2, InterceptedWhenPatched DEF Phase
  <2>4. Freeing' = [Freeing EXCEPT ![o] = Phase(o, slot[vptr[o]])]
    BY <1>0, <1>1, <2>1 DEF TypeOK
  <2>5. o \in live /\ Freeing[o] = "no"
    BY <1>1, <2>1 DEF Usable, Phase
  <2> QED
    BY <1>5, <2>1, <2>3, <2>4, <2>5
    DEF Registry!Free, Registry!InUse, Registry!Intercepted, Freeing
<1>12. ASSUME NEW o \in Objects, free_hook(o)
       PROVE  \/ Registry!FreeInHook(o) \/ Registry!StartOver(o)
              \/ UNCHANGED Registry!registryVars
  <2>1. /\ run[o] \in Hookers /\ UnHookInt(run[o], o) /\ live' = live
        /\ original[o] \in Known(run[o], o, vptr[o])
        /\ Supers[ClassOf[o]] \cap Serves[run[o]] # {}
        /\ run' = [run EXCEPT ![o] = original[o]]
        /\ vptr[o] \in Vtables /\ vptr[o] \in VtablesOf[ClassOf[o]]
    BY <1>0, <1>12 DEF free_hook, CallsInFree, TypeOK, VptrOfClass
  <2>2. /\ KeyClass(run[o], o) \in Supers[ClassOf[o]]
        /\ VtablesOf[KeyClass(run[o], o)] \subseteq Vtables
        /\ ClassOf[o] \in Serves[run[o]] <=> KeyClass(run[o], o) = ClassOf[o]
    BY <2>1, KeyClassServed, ConstantsTyped
  <2>3. Freeing' = [Freeing EXCEPT ![o] = Phase(o, original[o])]
    BY <1>0, <1>1, <2>1 DEF TypeOK
  <2>4. CASE KeyClass(run[o], o) = ClassOf[o]
    <3>1. Phase(o, original[o]) = "class" /\ Freeing[o] = "hook"
      BY <1>1, <2>1, <2>2, <2>4, ConstantsDistinct DEF Phase, Known
    <3>2. HookedObjects' = HookedObjects \ {o}
      BY <1>9, <2>1, <2>2, <2>4
    <3> QED
      BY <2>1, <2>3, <3>1, <3>2 DEF Registry!FreeInHook, Freeing
  <2>5. CASE KeyClass(run[o], o) # ClassOf[o]
    <3>1. Freeing[o] = "class"
      BY <1>1, <2>1, <2>2, <2>5, ConstantsDistinct DEF Phase
    <3>2. objKey' = objKey
      <4>1. objKey[<<o, run[o]>>] = NoEntry
        BY <1>0, <2>1, <2>2, <2>5 DEF HookedLive
      <4>2. objKey' = [objKey EXCEPT ![<<o, run[o]>>] = NoEntry]
        BY <1>0, <2>1, ObjectRemoved
      <4> QED
        BY <1>0, <4>1, <4>2 DEF TypeOK
    <3>3. CASE original[o] \in Vtables
      <4>1. Phase(o, original[o]) = "class"
        BY <3>3, ConstantsDistinct DEF Phase
      <4>2. Freeing' = Freeing
        BY <1>1, <2>3, <3>1, <4>1
      <4> QED
        BY <1>2, <1>3, <1>5, <2>1, <3>2, <4>2
    <3>4. CASE original[o] \in {g \in Hookers : ClassOf[o] \in Serves[g]}
      <4>1. Phase(o, original[o]) = "hook"
        BY <3>4, ConstantsDistinct DEF Phase
      <4>2. Supers[ClassOf[o]] # {ClassOf[o]}
        BY <2>2, <2>5
      <4> QED
        BY <1>5, <2>1, <2>3, <3>1, <3>2, <4>1, <4>2
        DEF Registry!StartOver, Freeing
    <3> QED
      BY <2>1, <2>2, <2>5, <3>3, <3>4 DEF Known
  <2> QED
    BY <2>4, <2>5
<1>13. ASSUME NEW o \in Objects, Destroy(o)
       PROVE  Registry!FreeInClass(o)
  <2>1. /\ run[o] \in Vtables /\ live' = live \ {o}
        /\ run' = [run EXCEPT ![o] = Idle] /\ objKey' = objKey
    BY <1>13 DEF Destroy, registry
  <2>2. Phase(o, Idle) = "no" /\ Phase(o, run[o]) = "class"
    BY <2>1, ConstantsDistinct DEF Phase
  <2>3. Freeing' = [Freeing EXCEPT ![o] = "no"] /\ Freeing[o] = "class"
    BY <1>0, <1>1, <2>1, <2>2 DEF TypeOK
  <2>4. o \notin HookedObjects
    BY <1>0, <2>1, InTable, ConstantsDistinct DEF HookedLive
  <2> QED
    BY <1>5, <2>1, <2>3, <2>4 DEF Registry!FreeInClass, Freeing
<1>14. ASSUME NEW o \in Objects,
              \/ \E v \in Vtables : ReplaceVtable(o, v)
              \/ GetOriginalFunction(o)
       PROVE  UNCHANGED Registry!registryVars
  BY <1>6, <1>14 DEF ReplaceVtable, GetOriginalFunction, registry
<1>15. ASSUME NEW o \in Objects, SuperFree(o)
       PROVE  UNCHANGED Registry!registryVars
  <2>1. run[o] \in Vtables /\ UNCHANGED <<live, objKey>>
    BY <1>15, SuperFreeEffect DEF registry
  <2>2. PICK d \in Supers[ClassOf[o]] \ {ClassOf[o]}, f \in Funcs :
          /\ run' = [run EXCEPT ![o] = f]
          /\ f \in VtablesOf[d] \/ (f \in Hookers /\ d \in Serves[f])
    BY <1>15, SuperFreeEffect
  <2>3. Phase(o, run[o]) = "class"
    BY <2>1, ConstantsDistinct DEF Phase
  <2>4. Phase(o, f) = "class"
    <3>1. f # Idle
      BY ConstantsDistinct DEF Funcs
    <3>2. f \in Hookers => ClassOf[o] \notin Serves[f]
      <4>1. ClassOf[o] \in Classes /\ ClassOf[o] \in Supers[ClassOf[o]]
        BY ConstantsTyped, ClassesDerived
      <4>2. f \in VtablesOf[d] => f \notin Hookers
        BY <4>1, ConstantsTyped, ConstantsDistinct, ClassesDerived
      <4>3. ASSUME f \in Hookers
            PROVE  \A a, b \in Supers[ClassOf[o]] \cap Serves[f] : a = b
        BY <4>1, <4>3, ClassesDerived
      <4> QED
        BY <2>2, <4>1, <4>2, <4>3
    <3> QED
      BY <3>1, <3>2 DEF Phase
  <2>5. Freeing' = Freeing
    <3>1. run'[o] = f /\ \A p \in Objects : p # o => run'[p] = run[p]
      BY <1>0, <2>2 DEF TypeOK
    <3>2. \A p \in Objects : Phase(p, run'[p]) = Phase(p, run[p])
      BY <2>3, <2>4, <3>1
    <3> QED
      BY <1>1, <3>2
  <2> QED
    BY <1>2, <1>3, <1>5, <2>1, <2>5
<1>16. CASE UNCHANGED vars
  BY <1>6, <1>16 DEF vars, registry
<1> QED
  BY <1>7, <1>8, <1>10, <1>11, <1>12, <1>13, <1>14, <1>15, <1>16
  DEF Next, FreeNext, Registry!RegistryNext

\* If hookers serve disjoint classes, classes do not share vtables and all
\* objects of a class use one vtable, hooking is to its users the set of hooked
\* objects of module HookRegistry: who is intercepted, where an intercepted
\* free() goes on, and starts over in a derived class, and what is forgotten
\* when.  (That it does go on is a property of FairSpec, which TLC checks.)
THEOREM RegistryRefined ==
  HookersDisjoint /\ OneVtable => (Spec => Registry!RegistrySafety)
<1> SUFFICES ASSUME HookersDisjoint, OneVtable PROVE Spec => Registry!RegistrySafety
  OBVIOUS
<1>1. Spec => []DirectInv
  BY DirectInvHolds
<1>2. DirectInv /\ DirectInv' /\ [Next]_vars =>
        [Registry!RegistryNext]_(Registry!registryVars)
  BY StepRegistry
<1> QED
  BY <1>1, <1>2, InitRegistry, PTL DEF Spec, Registry!RegistrySafety

\* Only objects that exist are hooked: a new object at the address of a
\* destroyed one is never taken for hooked.
THEOREM OnlyLiveHooked ==
  HookersDisjoint /\ OneVtable => (Spec => []Registry!RegistryTypeOK)
<1> SUFFICES ASSUME HookersDisjoint, OneVtable
             PROVE  Spec => []Registry!RegistryTypeOK
  OBVIOUS
<1>1. Spec => []DirectInv
  BY DirectInvHolds
<1>2. ASSUME DirectInv PROVE Registry!RegistryTypeOK
  <2>1. HookedObjects \subseteq live /\ live \subseteq Objects
    BY <1>2, DirectInvParts, InTable DEF HookedLive, TypeOK
  <2>2. Freeing \in [Objects -> {"no", "hook", "class"}]
    BY <1>2, FreeingKnown DEF Phase
  <2> QED
    BY <2>1, <2>2 DEF Registry!RegistryTypeOK, Freeing
<1> QED
  BY <1>1, <1>2, PTL

=============================================================================
