-------------------------- MODULE VtableHookProofs --------------------------
(***************************************************************************)
(* Theorems about direct vtable hooking, for every set of objects, classes *)
(* and vtables and every choice of hookers.                                *)
(***************************************************************************)
EXTENDS VtableHook, FiniteSetTheorems, TLAPS

-----------------------------------------------------------------------------
(***************************************************************************)
(* Type correctness.                                                       *)
(***************************************************************************)
LEMMA WordArithmetic ==
  ASSUME NEW n \in 0..WordMax
  PROVE  /\ Inc(n) \in 0..WordMax
         /\ Dec(n) \in 0..WordMax
         /\ Dec(Inc(n)) = n
  BY ConstantsTyped DEF Inc, Dec

LEMMA KeysTyped ==
  ASSUME TypeOK, NEW h \in Hookers, NEW o \in Objects
  PROVE  /\ Key1(h, o) \in Keys
         /\ Key2(h, o) \in Keys
         /\ NewKeys(h, o) \subseteq Keys
         /\ ByObject(o, h) \in Holders
  BY ConstantsTyped DEF TypeOK, Key1, Key2, NewKeys, Keys, ByObject, Holders

LEMMA BlankTyped == Blank \in Entries
  BY ConstantsTyped DEF Blank, Entries

LEMMA SettleTyped ==
  ASSUME NEW r \in Entries
  PROVE  Settle(r) \in Entries
  BY BlankTyped DEF Settle

LEMMA KeyClassTyped ==
  ASSUME NEW h \in Hookers, NEW o \in Objects
  PROVE  /\ KeyClass(h, o) \in Supers[ClassOf[o]]
         /\ KeyClass(h, o) \in Classes
         /\ KeyClass(h, o) # ClassOf[o] => KeyClass(h, o) \in Serves[h]
<1>1. /\ ClassOf[o] \in Classes
      /\ ClassOf[o] \in Supers[ClassOf[o]]
      /\ Supers[ClassOf[o]] \subseteq Classes
  BY ConstantsTyped, ClassesDerived
<1> QED
  BY <1>1 DEF KeyClass

LEMMA OriginalTyped ==
  ASSUME TypeOK, NEW h \in Hookers, NEW o \in Objects
  PROVE  OriginalFunction(h, o) \in Funcs \cup {Idle}
<1> DEFINE c == KeyClass(h, o)
           byVtable == hash[<<vptr[o], c, h>>]
           found == IF c = ClassOf[o] /\ objKey[<<o, h>>] # NoEntry
                    THEN objKey[<<o, h>>]
                    ELSE IF byVtable # NoEntry THEN byVtable
                         ELSE hash[<<NullVtable, c, h>>]
<1>1. /\ <<vptr[o], c, h>> \in Keys
      /\ <<NullVtable, c, h>> \in Keys
  BY KeyClassTyped DEF TypeOK, Keys
<1>2. found \in EntryIds \cup {NoEntry}
  BY <1>1 DEF TypeOK
<1>3. \A e \in EntryIds : entry[e].orig \in Funcs \cup {Idle}
  BY DEF TypeOK, Entries
<1>4. slot[vptr[o]] \in Funcs
  BY DEF TypeOK
<1> QED
  BY <1>2, <1>3, <1>4 DEF OriginalFunction

-----------------------------------------------------------------------------
(***************************************************************************)
(* HookVtableIntWoLock.                                                    *)
(***************************************************************************)
\* The fields of an entry.
KeyOf(e)      == entry[e].key
RefCountOf(e) == entry[e].refCount
OrigOf(e)     == entry[e].orig
HoldersOf(e)  == entry[e].holders

\* A call that fails, at whatever point, leaves the table, the counts and the
\* vtable as they were: what was done before the failure is taken back.
LEMMA FailedHookEffect ==
  ASSUME TypeOK, NEW h \in Hookers, NEW o \in Objects, FailedHook(h, o)
  PROVE  UNCHANGED registry
<1>1. CASE HookKnownVtableFails(h, o)
  <2> DEFINE e == hash[Key1(h, o)]
  <2>1. e \in EntryIds
    BY <1>1, KeysTyped DEF HookKnownVtableFails, TypeOK
  <2>2. /\ Dec(Inc(entry[e].refCount)) = entry[e].refCount
        /\ Dec(Inc(counter[h])) = counter[h]
    BY <2>1, WordArithmetic DEF TypeOK, Entries
  <2>3. entry' = entry
    <3>1. entry = [entry EXCEPT ![e].refCount = entry[e].refCount]
      BY <2>1 DEF TypeOK, Entries
    <3> QED
      BY <1>1, <2>2, <3>1 DEF HookKnownVtableFails
  <2>4. counter' = counter
    BY <1>1, <2>2 DEF HookKnownVtableFails, TypeOK
  <2> QED
    BY <1>1, <2>3, <2>4 DEF HookKnownVtableFails, HookCall, registry
<1>2. CASE RefuseDoubleHook(h, o)
  BY <1>2 DEF RefuseDoubleHook
<1>3. CASE HookNewVtableNoMemory(h, o)
  BY <1>3 DEF HookNewVtableNoMemory
<1>4. CASE \E failed \in {"Key2", "Key1", "Object"} :
             HookNewVtableUndone(h, o, failed)
  <2> PICK failed \in {"Key2", "Key1", "Object"} :
             HookNewVtableUndone(h, o, failed)
    BY <1>4
  <2>1. hash' = hash
    <3>1. \A k \in NewKeys(h, o) : hash[k] = NoEntry
      BY DEF NewKeys, HookNewVtableUndone, HookNewVtableCall
    <3> QED
      BY <3>1 DEF HookNewVtableUndone, TypeOK
  <2>2. entry' = entry
    <3>1. \A f \in EntryIds :
            [entry[f] EXCEPT !.refCount = Dec(Inc(@))] = entry[f]
      BY WordArithmetic DEF TypeOK, Entries
    <3> QED
      BY <3>1 DEF HookNewVtableUndone, TypeOK
  <2>3. counter' = counter
    BY WordArithmetic DEF HookNewVtableUndone, TypeOK
  <2> QED
    BY <2>1, <2>2, <2>3
    DEF HookNewVtableUndone, HookNewVtableCall, HookCall, registry
<1> QED
  BY <1>1, <1>2, <1>3, <1>4 DEF FailedHook

\* How a call can end.
LEMMA HookCases ==
  ASSUME TypeOK, NEW h \in Hookers, NEW o \in Objects, HookVtable(h, o)
  PROVE  /\ UNCHANGED <<live, vptr, run, original, crashed>>
         /\ \/ UNCHANGED registry
            \/ HookKnownVtable(h, o)
            \/ \E e \in EntryIds : HookNewVtable(h, o, e)
<1>1. CASE HookAgain(h, o)
  BY <1>1 DEF HookAgain, HookCall
<1>2. CASE HookKnownVtable(h, o)
  BY <1>2 DEF HookKnownVtable, HookCall
<1>3. CASE \E e \in EntryIds : HookNewVtable(h, o, e)
  BY <1>3 DEF HookNewVtable, HookNewVtableCall, HookCall
<1>4. CASE FailedHook(h, o)
  <2>1. HookCall(h, o)
    BY <1>4 DEF FailedHook, HookKnownVtableFails, RefuseDoubleHook,
                HookNewVtableNoMemory, HookNewVtableUndone, HookNewVtableCall
  <2> QED
    BY <1>4, <2>1, FailedHookEffect DEF HookCall
<1> QED
  BY <1>1, <1>2, <1>3, <1>4 DEF HookVtable

\* How the entries change when a vtable is hooked for one more object, ...
LEMMA HookKnownVtableEffect ==
  ASSUME TypeOK, NEW h \in Hookers, NEW o \in Objects, HookKnownVtable(h, o)
  PROVE  /\ hash[Key1(h, o)] \in EntryIds
         /\ entry' \in [EntryIds -> Entries]
         /\ \A f \in EntryIds :
              /\ KeyOf(f)' = KeyOf(f)
              /\ RefCountOf(f)' = IF f = hash[Key1(h, o)]
                                  THEN Inc(RefCountOf(f)) ELSE RefCountOf(f)
              /\ OrigOf(f)' = OrigOf(f)
              /\ HoldersOf(f)' = IF f = hash[Key1(h, o)]
                                 THEN HoldersOf(f) \cup {ByObject(o, h)}
                                 ELSE HoldersOf(f)
<1> DEFINE e == hash[Key1(h, o)]
           r == [entry[e] EXCEPT !.refCount = Inc(@),
                                 !.holders = @ \cup {ByObject(o, h)}]
<1>1. e \in EntryIds
  BY KeysTyped DEF HookKnownVtable, TypeOK
<1>2. /\ r \in Entries
      /\ r.key = entry[e].key
      /\ r.refCount = Inc(entry[e].refCount)
      /\ r.orig = entry[e].orig
      /\ r.holders = entry[e].holders \cup {ByObject(o, h)}
  BY <1>1, KeysTyped, WordArithmetic DEF TypeOK, Entries
<1>3. entry' = [entry EXCEPT ![e] = r]
  BY DEF HookKnownVtable
<1>4. entry \in [EntryIds -> Entries]
  BY DEF TypeOK
<1> HIDE DEF e, r
<1>5. /\ entry' \in [EntryIds -> Entries]
      /\ entry'[e] = r
      /\ \A f \in EntryIds \ {e} : entry'[f] = entry[f]
  BY <1>1, <1>2, <1>3, <1>4
<1> QED
  BY <1>1, <1>2, <1>5 DEF e, KeyOf, RefCountOf, OrigOf, HoldersOf

\* ... and when it is hooked for the first one.
LEMMA HookNewVtableEffect ==
  ASSUME TypeOK, NEW h \in Hookers, NEW o \in Objects, NEW e \in EntryIds,
         HookNewVtable(h, o, e)
  PROVE  /\ HoldersOf(e) = {}
         /\ entry' \in [EntryIds -> Entries]
         /\ KeyOf(e)' = Key1(h, o)
         /\ RefCountOf(e)' = 1
         /\ OrigOf(e)' = slot[vptr[o]]
         /\ HoldersOf(e)' = {ByKey(k) : k \in NewKeys(h, o)} \cup
                              {ByObject(o, h)}
         /\ \A f \in EntryIds \ {e} :
              /\ KeyOf(f)' = KeyOf(f)
              /\ RefCountOf(f)' = IF f = hash[Key2(h, o)]
                                  THEN Inc(RefCountOf(f)) ELSE RefCountOf(f)
              /\ OrigOf(f)' = OrigOf(f)
              /\ HoldersOf(f)' = HoldersOf(f)
<1> DEFINE existing == hash[Key2(h, o)]
           added == [key      |-> Key1(h, o),
                     refCount |-> 1,
                     orig     |-> slot[vptr[o]],
                     holders  |-> {ByKey(k) : k \in NewKeys(h, o)} \cup
                                    {ByObject(o, h)}]
           counted(f) == [entry[f] EXCEPT !.refCount = Inc(@)]
<1>1. added \in Entries
  <2>1. {ByKey(k) : k \in NewKeys(h, o)} \subseteq Holders
    BY KeysTyped DEF ByKey, Holders
  <2>2. slot[vptr[o]] \in Funcs /\ 1 \in 0..WordMax
    BY ConstantsTyped DEF TypeOK
  <2> QED
    BY <2>1, <2>2, KeysTyped DEF Entries
<1>2. ASSUME NEW f \in EntryIds
      PROVE  /\ counted(f) \in Entries
             /\ counted(f).key = entry[f].key
             /\ counted(f).refCount = Inc(entry[f].refCount)
             /\ counted(f).orig = entry[f].orig
             /\ counted(f).holders = entry[f].holders
  BY WordArithmetic DEF TypeOK, Entries
<1>3. entry' = [f \in EntryIds |-> IF f = e THEN added
                                   ELSE IF f = existing THEN counted(f)
                                        ELSE entry[f]]
  BY DEF HookNewVtable
<1>4. entry[e].holders = {}
  BY DEF HookNewVtable, FreeEntries
<1>5. entry \in [EntryIds -> Entries]
  BY DEF TypeOK
<1> HIDE DEF added, counted, existing
<1>6. entry' \in [EntryIds -> Entries]
  BY <1>1, <1>2, <1>3, <1>5
<1>7. entry'[e] = added
  BY <1>3
<1>8. \A f \in EntryIds \ {e} :
        entry'[f] = IF f = existing THEN counted(f) ELSE entry[f]
  BY <1>3
<1> QED
  BY <1>2, <1>4, <1>6, <1>7, <1>8
  DEF added, existing, KeyOf, RefCountOf, OrigOf, HoldersOf

-----------------------------------------------------------------------------
(***************************************************************************)
(* UnHookObjectIntWoLock, one variable at a time.  The names are those of  *)
(* UnHookKnown.                                                            *)
(***************************************************************************)
NonNull(h, o)  == objKey[<<o, h>>]
UnKey1(h, o)   == KeyOf(NonNull(h, o))
UnKey2(h, o)   == <<NullVtable, UnKey1(h, o)[2], h>>
Last(h, o)     == Unused(Dec(RefCountOf(NonNull(h, o))))

\* The holders that entry f loses: the object's entry, and the keys under
\* which it is no longer found.
Dropped(h, o, f) ==
  (IF f = NonNull(h, o) THEN {ByObject(o, h)} ELSE {}) \cup
  {ByKey(k) : k \in {j \in Keys : hash[j] = f /\ hash'[j] # f}}

\* The entries in use are those of hooked vtables, with a saved function.
EntriesInUse ==
  \A e \in EntryIds : HoldersOf(e) # {} =>
    /\ KeyOf(e) \in Vtables \X Classes \X Hookers
    /\ OrigOf(e) \in Funcs

LEMMA UnHookKnownEffect ==
  ASSUME TypeOK, EntriesInUse, HoldersExact,
         NEW h \in Hookers, NEW o \in Objects, UnHookKnown(h, o)
  PROVE  /\ NonNull(h, o) \in EntryIds
         /\ HoldersOf(NonNull(h, o)) # {}
         /\ UnKey1(h, o) \in Vtables \X Classes \X Hookers
         /\ UnKey2(h, o) \in Keys
         /\ slot' = IF Last(h, o)
                    THEN [slot EXCEPT ![UnKey1(h, o)[1]] =
                                         OrigOf(NonNull(h, o))]
                    ELSE slot
         /\ objKey' = [objKey EXCEPT ![<<o, h>>] = NoEntry]
         /\ counter' = [counter EXCEPT ![h] = Dec(@)]
         /\ crashed' \in BOOLEAN
         /\ hash' \in [Keys -> EntryIds \cup {NoEntry}]
         /\ \A k \in Keys : hash'[k] = hash[k] \/ hash'[k] = NoEntry
         /\ \A k \in Keys : k[1] \in Vtables =>
              hash'[k] = IF Last(h, o) /\ k = UnKey1(h, o) THEN NoEntry
                         ELSE hash[k]
         /\ entry' \in [EntryIds -> Entries]
         /\ \A f \in EntryIds :
              /\ HoldersOf(f)' = HoldersOf(f) \ Dropped(h, o, f)
              /\ HoldersOf(f)' # {} =>
                   /\ KeyOf(f)' = KeyOf(f)
                   /\ OrigOf(f)' = OrigOf(f)
<1> DEFINE e == NonNull(h, o)
           key1 == UnKey1(h, o)
           key2 == UnKey2(h, o)
           null == hash[key2]
           left == Dec(entry[e].refCount)
           gone == IF Last(h, o) THEN hash[key1] ELSE NoEntry
           nullLeft == IF null = e THEN left
                       ELSE IF gone # NoEntry THEN Dec(entry[null].refCount)
                            ELSE entry[null].refCount
           removed == (IF Last(h, o) THEN {key1} ELSE {}) \cup
                       (IF null # NoEntry /\ Unused(nullLeft) THEN {key2} ELSE {})
           dropped(f) == (IF f = e THEN {ByObject(o, h)} ELSE {}) \cup
                          {ByKey(k) : k \in {j \in removed : hash[j] = f}}
           r(f) == [entry[f] EXCEPT
                      !.refCount = IF f = e THEN left
                                   ELSE IF f = null THEN nullLeft ELSE @,
                      !.holders = @ \ dropped(f)]
<1>1. /\ e \in EntryIds
      /\ ByObject(o, h) \in entry[e].holders
  <2>1. e \in EntryIds
    BY DEF UnHookKnown, ReleaseVtable, NonNull, TypeOK
  <2>2. <<o, h>> \in Linked(e)
    BY <2>1 DEF Linked, NonNull
  <2> QED
    BY <2>1, <2>2 DEF HoldersExact
<1>2. /\ key1 \in Vtables \X Classes \X Hookers
      /\ entry[e].orig \in Funcs
  BY <1>1 DEF EntriesInUse, UnKey1, KeyOf, OrigOf, HoldersOf
<1>3. key1 \in Keys /\ key2 \in Keys
  BY <1>2 DEF Keys, UnKey2
<1>4. /\ slot' = IF Last(h, o) THEN [slot EXCEPT ![key1[1]] = entry[e].orig]
                 ELSE slot
      /\ objKey' = [objKey EXCEPT ![<<o, h>>] = NoEntry]
      /\ counter' = [counter EXCEPT ![h] = Dec(@)]
      /\ crashed' \in BOOLEAN
  BY DEF UnHookKnown, ReleaseVtable, Last, NonNull, UnKey1, KeyOf, RefCountOf
<1>5. hash' = [k \in Keys |-> IF k \in removed THEN NoEntry ELSE hash[k]]
  BY DEF UnHookKnown, ReleaseVtable, Last, NonNull, UnKey1, UnKey2, KeyOf, RefCountOf
<1>6. entry' = [f \in EntryIds |-> Settle(r(f))]
  BY DEF UnHookKnown, ReleaseVtable, Last, NonNull, UnKey1, UnKey2, KeyOf, RefCountOf
<1>7. hash' \in [Keys -> EntryIds \cup {NoEntry}]
  BY <1>5 DEF TypeOK
<1>8. ASSUME NEW k \in Keys, k[1] \in Vtables
      PROVE  hash'[k] = IF Last(h, o) /\ k = key1 THEN NoEntry ELSE hash[k]
  <2>1. k # key2
    BY <1>8, ConstantsDistinct DEF UnKey2
  <2> HIDE DEF null, nullLeft, gone, key1, key2
  <2> QED
    BY <1>5, <2>1
<1>9. ASSUME NEW f \in EntryIds
      PROVE  dropped(f) = Dropped(h, o, f)
  <2> HIDE DEF removed
  <2>1. \A j \in Keys : hash[j] = f => (j \in removed <=> hash'[j] # f)
    BY <1>5, ConstantsDistinct
  <2>2. removed \subseteq Keys
    BY <1>3 DEF removed
  <2>3. {j \in removed : hash[j] = f} = {j \in Keys : hash[j] = f /\ hash'[j] # f}
    BY <2>1, <2>2
  <2> QED
    BY <2>3 DEF Dropped
<1>10. ASSUME NEW f \in EntryIds
       PROVE  r(f) \in Entries
  <2>1. left \in 0..WordMax
    BY <1>1, WordArithmetic DEF TypeOK, Entries
  <2>2. f = null => nullLeft \in 0..WordMax
    <3> HIDE DEF left, gone, null
    <3>1. entry[f].refCount \in 0..WordMax
      BY DEF TypeOK, Entries
    <3> QED
      BY <2>1, <3>1, WordArithmetic
  <2> HIDE DEF left, nullLeft, dropped, null
  <2>3. entry[f] \in Entries
    BY DEF TypeOK
  <2> QED
    BY <2>1, <2>2, <2>3 DEF Entries
<1>11. ASSUME NEW f \in EntryIds
       PROVE  /\ entry'[f] \in Entries
              /\ entry'[f].holders = entry[f].holders \ dropped(f)
              /\ entry'[f].holders # {} =>
                   /\ entry'[f].key = entry[f].key
                   /\ entry'[f].orig = entry[f].orig
  <2>1. /\ r(f).holders = entry[f].holders \ dropped(f)
        /\ r(f).key = entry[f].key
        /\ r(f).orig = entry[f].orig
    <3> HIDE DEF left, nullLeft, dropped, null
    <3>1. entry[f] \in Entries
      BY DEF TypeOK
    <3> QED
      BY <3>1 DEF Entries
  <2>2. entry'[f] = Settle(r(f))
    BY <1>6
  <2> HIDE DEF r
  <2>3. Settle(r(f)).holders = r(f).holders
    BY DEF Settle, Blank
  <2>4. Settle(r(f)).holders # {} => Settle(r(f)) = r(f)
    BY DEF Settle, Blank
  <2> QED
    BY <1>10, <2>1, <2>2, <2>3, <2>4, SettleTyped
<1>12. entry' \in [EntryIds -> Entries]
  BY <1>6, <1>11
<1>13. \A k \in Keys : hash'[k] = hash[k] \/ hash'[k] = NoEntry
  BY <1>5
<1> HIDE DEF e, key1, key2, dropped
<1> QED
  BY <1>1, <1>2, <1>3, <1>4, <1>7, <1>8, <1>9, <1>11, <1>12, <1>13
  DEF e, key1, key2, KeyOf, OrigOf, HoldersOf

-----------------------------------------------------------------------------
(***************************************************************************)
(* The entries are held by exactly those who refer to them.                *)
(***************************************************************************)
KeyHolders(e)    == {ByKey(k) : k \in {j \in Keys : hash[j] = e}}
ObjectHolders(e) == {ByObject(p[1], p[2]) : p \in Linked(e)}

LEMMA HookKeepsHolders ==
  ASSUME TypeOK, HoldersExact, NEW h \in Hookers, NEW o \in Objects,
         HookVtable(h, o)
  PROVE  HoldersExact'
<1> SUFFICES ASSUME NEW f \in EntryIds
             PROVE  HoldersOf(f)' = KeyHolders(f)' \cup ObjectHolders(f)'
  BY DEF HoldersExact, HoldersOf, KeyHolders, ObjectHolders
<1>0. HoldersOf(f) = KeyHolders(f) \cup ObjectHolders(f)
  BY DEF HoldersExact, HoldersOf, KeyHolders, ObjectHolders
<1>1. CASE UNCHANGED registry
  BY <1>0, <1>1 DEF registry, HoldersOf, KeyHolders, ObjectHolders, Linked
<1>2. CASE HookKnownVtable(h, o)
  <2> DEFINE e == hash[Key1(h, o)]
  <2>1. KeyHolders(f)' = KeyHolders(f)
    BY <1>2 DEF HookKnownVtable, KeyHolders
  <2>2. \A p \in Objects \X Hookers :
          objKey'[p] = IF p = <<o, h>> THEN e ELSE objKey[p]
    BY <1>2 DEF HookKnownVtable, TypeOK
  <2>3. objKey[<<o, h>>] = NoEntry /\ f # NoEntry
    BY <1>2, ConstantsDistinct DEF HookKnownVtable
  <2>4. Linked(f)' = IF f = e THEN Linked(f) \cup {<<o, h>>} ELSE Linked(f)
    BY <2>2, <2>3 DEF Linked
  <2>5. ObjectHolders(f)' = IF f = e THEN ObjectHolders(f) \cup {ByObject(o, h)}
                            ELSE ObjectHolders(f)
    <3> HIDE DEF e
    <3>1. CASE f # e
      BY <2>4, <3>1 DEF ObjectHolders
    <3>2. CASE f = e
      <4>1. Linked(f)' = Linked(f) \cup {<<o, h>>}
        BY <2>4, <3>2
      <4>2. ByObject(<<o, h>>[1], <<o, h>>[2]) = ByObject(o, h)
        OBVIOUS
      <4>3. ObjectHolders(f)' = ObjectHolders(f) \cup {ByObject(o, h)}
        BY <4>1, <4>2 DEF ObjectHolders
      <4> QED
        BY <3>2, <4>3
    <3> QED
      BY <3>1, <3>2
  <2> QED
    BY <1>0, <1>2, <2>1, <2>5, HookKnownVtableEffect
<1>3. CASE \E e \in EntryIds : HookNewVtable(h, o, e)
  <2> PICK e \in EntryIds : HookNewVtable(h, o, e)
    BY <1>3
  <2>1. \A p \in Objects \X Hookers :
          objKey'[p] = IF p = <<o, h>> THEN e ELSE objKey[p]
    BY DEF HookNewVtable, TypeOK
  <2>2. \A k \in Keys : hash'[k] = IF k \in NewKeys(h, o) THEN e ELSE hash[k]
    BY DEF HookNewVtable
  <2>3. /\ objKey[<<o, h>>] = NoEntry /\ f # NoEntry
        /\ \A k \in NewKeys(h, o) : k \in Keys /\ hash[k] = NoEntry
    BY KeysTyped, ConstantsDistinct
    DEF HookNewVtable, HookNewVtableCall, NewKeys
  <2>4. CASE f = e
    <3>1. KeyHolders(f) = {} /\ ObjectHolders(f) = {}
      BY <1>0, <2>4, HookNewVtableEffect
    <3>2. /\ \A k \in Keys : hash[k] # e
          /\ \A p \in Objects \X Hookers : objKey[p] # e
      BY <2>4, <3>1 DEF KeyHolders, ObjectHolders, Linked
    <3>3. KeyHolders(f)' = {ByKey(k) : k \in NewKeys(h, o)}
      BY <2>2, <2>3, <2>4, <3>2 DEF KeyHolders
    <3>4. Linked(f)' = {<<o, h>>}
      BY <2>1, <2>4, <3>2 DEF Linked
    <3>5. ObjectHolders(f)' = {ByObject(o, h)}
      BY <3>4 DEF ObjectHolders
    <3> QED
      BY <2>4, <3>3, <3>5, HookNewVtableEffect
  <2>5. CASE f # e
    <3>1. KeyHolders(f)' = KeyHolders(f)
      BY <2>2, <2>3, <2>5 DEF KeyHolders
    <3>2. Linked(f)' = Linked(f)
      BY <2>1, <2>3, <2>5 DEF Linked
    <3>3. ObjectHolders(f)' = ObjectHolders(f)
      BY <3>2 DEF ObjectHolders
    <3> QED
      BY <1>0, <2>5, <3>1, <3>3, HookNewVtableEffect
  <2> QED
    BY <2>4, <2>5
<1> QED
  BY <1>1, <1>2, <1>3, HookCases

LEMMA UnHookKeepsHolders ==
  ASSUME TypeOK, EntriesInUse, HoldersExact,
         NEW h \in Hookers, NEW o \in Objects, UnHookInt(h, o)
  PROVE  HoldersExact'
<1> SUFFICES ASSUME NEW f \in EntryIds
             PROVE  HoldersOf(f)' = KeyHolders(f)' \cup ObjectHolders(f)'
  BY DEF HoldersExact, HoldersOf, KeyHolders, ObjectHolders
<1>0. HoldersOf(f) = KeyHolders(f) \cup ObjectHolders(f)
  BY DEF HoldersExact, HoldersOf, KeyHolders, ObjectHolders
<1>1. CASE UnHookUnknown(h, o)
  BY <1>0, <1>1 DEF UnHookUnknown, registry, HoldersOf, KeyHolders, ObjectHolders, Linked
<1>2. CASE UnHookKnown(h, o)
  <2> DEFINE lost == {j \in Keys : hash[j] = f /\ hash'[j] # f}
             kept == {j \in Keys : hash'[j] = f}
  <2>1. \A k \in Keys : hash'[k] = f => hash[k] = f
    BY <1>2, UnHookKnownEffect, ConstantsDistinct
  <2>2. \A j, k \in Keys : ByKey(j) = ByKey(k) => j = k
    BY DEF ByKey
  <2>3. \A k \in Keys, x \in Objects, y \in Hookers : ByKey(k) # ByObject(x, y)
    BY DEF ByKey, ByObject
  <2>4. KeyHolders(f)' = KeyHolders(f) \ {ByKey(k) : k \in lost}
    BY <2>1, <2>2 DEF KeyHolders
  <2>5. Linked(f)' = Linked(f) \ {<<o, h>>}
    <3>1. objKey' = [objKey EXCEPT ![<<o, h>>] = NoEntry]
      BY <1>2, UnHookKnownEffect
    <3> QED
      BY <3>1, ConstantsDistinct DEF Linked, TypeOK
  <2>6. \A p \in Objects \X Hookers :
          ByObject(p[1], p[2]) = ByObject(o, h) => p = <<o, h>>
    BY DEF ByObject
  <2>7. ObjectHolders(f)' = ObjectHolders(f) \ {ByObject(o, h)}
    BY <2>5, <2>6 DEF ObjectHolders, Linked
  <2>8. f # NonNull(h, o) => ByObject(o, h) \notin ObjectHolders(f)
    BY <2>6 DEF NonNull, ObjectHolders, Linked
  <2>9. HoldersOf(f)' = HoldersOf(f) \ Dropped(h, o, f)
    BY <1>2, UnHookKnownEffect
  <2>10. ByObject(o, h) \notin KeyHolders(f)
    BY <2>3 DEF KeyHolders
  <2>11. ObjectHolders(f) \cap {ByKey(k) : k \in lost} = {}
    BY <2>3 DEF ObjectHolders, Linked
  <2> HIDE DEF lost
  <2>12. Dropped(h, o, f) = (IF f = NonNull(h, o) THEN {ByObject(o, h)} ELSE {})
                              \cup {ByKey(k) : k \in lost}
    BY DEF Dropped, lost
  <2> QED
    BY <1>0, <2>4, <2>7, <2>8, <2>9, <2>10, <2>11, <2>12
<1> QED
  BY <1>1, <1>2 DEF UnHookInt

-----------------------------------------------------------------------------
(***************************************************************************)
(* The first inductive invariant.  TypeOK needs EntriesInUse, because the  *)
(* slot of a vtable is restored from its entry, which must not have been   *)
(* freed meanwhile, and this needs HoldersExact.                           *)
(***************************************************************************)
EntriesInv == TypeOK /\ EntriesInUse /\ HoldersExact

LEMMA HookKeepsEntriesInv ==
  ASSUME EntriesInv, NEW h \in Hookers, NEW o \in Objects, HookVtable(h, o)
  PROVE  EntriesInv'
<1>0. TypeOK /\ EntriesInUse /\ HoldersExact
  BY DEF EntriesInv
<1>1. HoldersExact'
  BY <1>0, HookKeepsHolders
<1>2. TypeOK' /\ EntriesInUse'
  <2>1. CASE UNCHANGED registry
    BY <1>0, <2>1, HookCases
    DEF registry, TypeOK, EntriesInUse, HoldersOf, KeyOf, OrigOf
  <2>2. CASE HookKnownVtable(h, o)
    <3>1. counter[h] \in 0..WordMax
      BY <1>0 DEF TypeOK
    <3>2. /\ counter' \in [Hookers -> 0..WordMax]
          /\ objKey' \in [Objects \X Hookers -> EntryIds \cup {NoEntry}]
          /\ UNCHANGED <<slot, hash>>
      BY <1>0, <2>2, <3>1, WordArithmetic, HookKnownVtableEffect
      DEF HookKnownVtable, TypeOK
    <3>3. TypeOK'
      BY <1>0, <2>2, <3>2, HookCases, HookKnownVtableEffect DEF TypeOK
    <3>4. hash[Key1(h, o)] \in EntryIds /\ Key1(h, o) \in Keys
      BY <1>0, <2>2, KeysTyped, HookKnownVtableEffect
    <3>5. HoldersOf(hash[Key1(h, o)]) # {}
      BY <1>0, <3>4 DEF HoldersExact, HoldersOf
    <3>6. EntriesInUse'
      BY <1>0, <2>2, <3>5, HookKnownVtableEffect DEF EntriesInUse
    <3> QED
      BY <3>3, <3>6
  <2>3. CASE \E e \in EntryIds : HookNewVtable(h, o, e)
    <3> PICK e \in EntryIds : HookNewVtable(h, o, e)
      BY <2>3
    <3>1. counter[h] \in 0..WordMax
      BY <1>0 DEF TypeOK
    <3>2. /\ hash' \in [Keys -> EntryIds \cup {NoEntry}]
          /\ objKey' \in [Objects \X Hookers -> EntryIds \cup {NoEntry}]
          /\ slot' \in [Vtables -> Funcs]
          /\ counter' \in [Hookers -> 0..WordMax]
      BY <1>0, <3>1, WordArithmetic DEF HookNewVtable, TypeOK, Funcs
    <3>3. TypeOK'
      BY <1>0, <3>2, HookCases, HookNewVtableEffect DEF TypeOK
    <3>4. /\ Key1(h, o) \in Vtables \X Classes \X Hookers
          /\ slot[vptr[o]] \in Funcs
      BY <1>0, ConstantsTyped DEF TypeOK, Key1
    <3>5. EntriesInUse'
      BY <1>0, <3>4, HookNewVtableEffect DEF EntriesInUse
    <3> QED
      BY <3>3, <3>5
  <2> QED
    BY <1>0, <2>1, <2>2, <2>3, HookCases
<1> QED
  BY <1>1, <1>2 DEF EntriesInv

LEMMA UnHookKeepsEntries ==
  ASSUME EntriesInv, NEW h \in Hookers, NEW o \in Objects, UnHookInt(h, o)
  PROVE  /\ slot' \in [Vtables -> Funcs]
         /\ hash' \in [Keys -> EntryIds \cup {NoEntry}]
         /\ objKey' \in [Objects \X Hookers -> EntryIds \cup {NoEntry}]
         /\ entry' \in [EntryIds -> Entries]
         /\ counter' \in [Hookers -> 0..WordMax]
         /\ crashed' \in BOOLEAN
         /\ EntriesInUse'
         /\ HoldersExact'
<1>0. TypeOK /\ EntriesInUse /\ HoldersExact
  BY DEF EntriesInv
<1>1. HoldersExact'
  BY <1>0, UnHookKeepsHolders
<1>2. CASE UnHookUnknown(h, o)
  BY <1>0, <1>1, <1>2
  DEF UnHookUnknown, registry, TypeOK, EntriesInUse, HoldersOf, KeyOf, OrigOf
<1>3. CASE UnHookKnown(h, o)
  <2>1. OrigOf(NonNull(h, o)) \in Funcs
    BY <1>0, <1>3, UnHookKnownEffect DEF EntriesInUse
  <2>2. slot' \in [Vtables -> Funcs]
    <3>1. slot' = IF Last(h, o)
                  THEN [slot EXCEPT ![UnKey1(h, o)[1]] = OrigOf(NonNull(h, o))]
                  ELSE slot
      BY <1>0, <1>3, UnHookKnownEffect
    <3> QED
      BY <1>0, <2>1, <3>1 DEF TypeOK
  <2>3. counter[h] \in 0..WordMax
    BY <1>0 DEF TypeOK
  <2>4. counter' \in [Hookers -> 0..WordMax]
    <3>1. counter' = [counter EXCEPT ![h] = Dec(@)]
      BY <1>0, <1>3, UnHookKnownEffect
    <3> QED
      BY <1>0, <2>3, <3>1, WordArithmetic DEF TypeOK
  <2>5. objKey' \in [Objects \X Hookers -> EntryIds \cup {NoEntry}]
    BY <1>0, <1>3, UnHookKnownEffect DEF TypeOK
  <2>6. EntriesInUse'
    <3>1. \A f \in EntryIds : HoldersOf(f)' # {} => HoldersOf(f) # {}
      BY <1>0, <1>3, UnHookKnownEffect
    <3>2. \A f \in EntryIds : HoldersOf(f)' # {} =>
            KeyOf(f)' = KeyOf(f) /\ OrigOf(f)' = OrigOf(f)
      BY <1>0, <1>3, UnHookKnownEffect
    <3> QED
      BY <1>0, <3>1, <3>2 DEF EntriesInUse
  <2> QED
    BY <1>0, <1>1, <1>3, <2>2, <2>4, <2>5, <2>6, UnHookKnownEffect
<1> QED
  BY <1>2, <1>3 DEF UnHookInt

LEMMA InitEntriesInv == Init => EntriesInv
<1> SUFFICES ASSUME Init PROVE EntriesInv
  OBVIOUS
<1>1. TypeOK
  <2>1. vptr \in [Objects -> Vtables]
    BY DEF Init
  <2>2. entry \in [EntryIds -> Entries]
    BY BlankTyped DEF Init
  <2>3. 0 \in 0..WordMax
    BY ConstantsTyped
  <2> QED
    BY <2>1, <2>2, <2>3 DEF Init, TypeOK, Funcs
<1>2. EntriesInUse
  BY DEF Init, EntriesInUse, HoldersOf, Blank
<1>3. HoldersExact
  BY ConstantsDistinct DEF Init, HoldersExact, Linked, Blank
<1> QED
  BY <1>1, <1>2, <1>3 DEF EntriesInv

\* The steps that leave the registry alone.
LEMMA QuietKeepsEntriesInv ==
  ASSUME EntriesInv, TypeOK', UNCHANGED <<hash, objKey, entry>>
  PROVE  EntriesInv'
  BY DEF EntriesInv, EntriesInUse, HoldersExact, Linked, HoldersOf, KeyOf, OrigOf

LEMMA StepEntriesInv == EntriesInv /\ [Next]_vars => EntriesInv'
<1> SUFFICES ASSUME EntriesInv, [Next]_vars PROVE EntriesInv'
  OBVIOUS
<1>0. TypeOK
  BY DEF EntriesInv
<1>1. CASE UNCHANGED vars
  BY <1>0, <1>1, QuietKeepsEntriesInv DEF vars, registry, TypeOK
<1>2. CASE \E o \in Objects, h \in Hookers : UnHookObject(h, o)
  <2> PICK o \in Objects, h \in Hookers : UnHookObject(h, o)
    BY <1>2
  <2>1. UnHookInt(h, o) /\ UNCHANGED <<live, vptr, run, original>>
    BY DEF UnHookObject
  <2> QED
    BY <1>0, <2>1, UnHookKeepsEntries DEF EntriesInv, TypeOK
<1>3. ASSUME NEW o \in Objects, Construct(o)
      PROVE  EntriesInv'
  <2>1. vptr' \in [Objects -> Vtables]
    BY <1>0, <1>3, ConstantsTyped DEF Construct, TypeOK
  <2> QED
    BY <1>0, <1>3, <2>1, QuietKeepsEntriesInv DEF Construct, TypeOK, registry
<1>4. ASSUME NEW o \in Objects, NEW v \in Vtables, ReplaceVtable(o, v)
      PROVE  EntriesInv'
  BY <1>0, <1>4, QuietKeepsEntriesInv DEF ReplaceVtable, TypeOK, registry
<1>5. ASSUME NEW o \in Objects, NEW h \in Hookers, HookVtable(h, o)
      PROVE  EntriesInv'
  BY <1>5, HookKeepsEntriesInv
<1>6. ASSUME NEW o \in Objects, CallFree(o)
      PROVE  EntriesInv'
  BY <1>0, <1>6, QuietKeepsEntriesInv DEF CallFree, TypeOK, registry
<1>7. ASSUME NEW o \in Objects, GetOriginalFunction(o)
      PROVE  EntriesInv'
  <2>1. OriginalFunction(run[o], o) \in Funcs \cup {Idle}
    BY <1>0, <1>7, OriginalTyped DEF GetOriginalFunction
  <2> QED
    BY <1>0, <1>7, <2>1, QuietKeepsEntriesInv
    DEF GetOriginalFunction, TypeOK, registry
<1>8. ASSUME NEW o \in Objects, free_hook(o)
      PROVE  EntriesInv'
  <2>1. run[o] \in Hookers /\ UnHookInt(run[o], o)
    BY <1>8 DEF free_hook
  <2>2. /\ live' = live /\ vptr' = vptr
        /\ run' \in [Objects -> Funcs \cup {Idle}]
        /\ original' \in [Objects -> Funcs \cup {Idle}]
    BY <1>0, <1>8 DEF free_hook, TypeOK
  <2> QED
    BY <1>0, <2>1, <2>2, UnHookKeepsEntries DEF EntriesInv, TypeOK
<1>9. ASSUME NEW o \in Objects, Destroy(o)
      PROVE  EntriesInv'
  BY <1>0, <1>9, QuietKeepsEntriesInv DEF Destroy, TypeOK, registry
<1>10. ASSUME NEW o \in Objects, SuperFree(o)
       PROVE  EntriesInv'
  <2>1. run' \in [Objects -> Funcs \cup {Idle}]
    <3>1. PICK d \in Classes : \E v \in VtablesOf[d] : run' = [run EXCEPT ![o] = slot[v]]
      BY <1>10 DEF SuperFree
    <3>2. PICK v \in VtablesOf[d] : run' = [run EXCEPT ![o] = slot[v]]
      BY <3>1
    <3>3. slot[v] \in Funcs
      BY <1>0, ConstantsTyped DEF TypeOK
    <3> QED
      BY <1>0, <3>2, <3>3 DEF TypeOK
  <2> QED
    BY <1>0, <1>10, <2>1, QuietKeepsEntriesInv DEF SuperFree, TypeOK, registry
<1> QED
  BY <1>1, <1>2, <1>3, <1>4, <1>5, <1>6, <1>7, <1>8, <1>9, <1>10 DEF Next, FreeNext

\* Every variable keeps its type: in particular a slot never receives a
\* function pointer from an entry that has been freed (DldUnHookVtableFunctions).
THEOREM TypeCorrect == Spec => []TypeOK
<1>1. EntriesInv => TypeOK
  BY DEF EntriesInv
<1> QED
  BY <1>1, InitEntriesInv, StepEntriesInv, PTL DEF Spec

\* The retain counts of the entries balance on every path of hooking and
\* unhooking, failures included.
THEOREM HoldersBalanced == Spec => []HoldersExact
<1>1. EntriesInv => HoldersExact
  BY DEF EntriesInv
<1> QED
  BY <1>1, InitEntriesInv, StepEntriesInv, PTL DEF Spec

\* A call of HookVtableIntWoLock that fails leaves no trace.
THEOREM FailureIsUndone == Spec => FailedHookUndone
<1>1. EntriesInv /\ [Next]_vars =>
        [\A h \in Hookers, o \in Objects :
           FailedHook(h, o) => UNCHANGED registry]_vars
  BY FailedHookEffect DEF EntriesInv
<1> QED
  BY <1>1, InitEntriesInv, StepEntriesInv, PTL DEF Spec, FailedHookUndone

-----------------------------------------------------------------------------
(***************************************************************************)
(* A vtable is patched exactly while its entry is in the table.  The       *)
(* inductive invariant adds that every key in the table designates a       *)
(* vtable of a class that its hooker serves, so two hookers never meet at  *)
(* a vtable, and that the function an entry will restore is no hook.       *)
(***************************************************************************)
Served(k) == k[2] \in Serves[k[3]] /\ k[1] \in VtablesOf[k[2]]

VptrOfClass == \A o \in Objects : vptr[o] \in VtablesOf[ClassOf[o]]

KeysServed ==
  \A k \in Vtables \X Classes \X Hookers : hash[k] # NoEntry => Served(k)

EntriesServed ==
  \A e \in EntryIds : HoldersOf(e) # {} =>
    Served(KeyOf(e)) /\ OrigOf(e) \in Vtables

PatchInv ==
  EntriesInv /\ VptrOfClass /\ KeysServed /\ EntriesServed /\ PatchedIffInTable

\* No two hookers serve the same vtable.
LEMMA ServedOnce ==
  ASSUME HookersDisjoint,
         NEW j \in Vtables \X Classes \X Hookers, Served(j),
         NEW k \in Vtables \X Classes \X Hookers, Served(k),
         j[1] = k[1]
  PROVE  j = k
<1>1. j[2] = k[2]
  BY DEF HookersDisjoint, Served
<1>2. j[3] = k[3]
  BY <1>1 DEF HookersDisjoint, Served
<1> QED
  BY <1>1, <1>2

LEMMA HookKeepsPatchInv ==
  ASSUME HookersDisjoint, PatchInv,
         NEW h \in Hookers, NEW o \in Objects, HookVtable(h, o)
  PROVE  PatchInv'
<1>0. /\ EntriesInv /\ TypeOK /\ EntriesInUse /\ HoldersExact
      /\ VptrOfClass /\ KeysServed /\ EntriesServed /\ PatchedIffInTable
  BY DEF PatchInv, EntriesInv
<1>1. EntriesInv' /\ VptrOfClass'
  BY <1>0, HookKeepsEntriesInv, HookCases DEF VptrOfClass
<1>2. CASE UNCHANGED registry
  BY <1>0, <1>1, <1>2
  DEF registry, PatchInv, KeysServed, EntriesServed, PatchedIffInTable,
      HoldersOf, KeyOf, OrigOf
<1>3. CASE HookKnownVtable(h, o)
  <2>1. UNCHANGED <<slot, hash>>
    BY <1>3 DEF HookKnownVtable
  <2>2. hash[Key1(h, o)] \in EntryIds /\ Key1(h, o) \in Keys
    BY <1>0, <1>3, KeysTyped, HookKnownVtableEffect
  <2>3. HoldersOf(hash[Key1(h, o)]) # {}
    BY <1>0, <2>2 DEF HoldersExact, HoldersOf
  <2>4. EntriesServed'
    BY <1>0, <1>3, <2>3, HookKnownVtableEffect DEF EntriesServed
  <2> QED
    BY <1>0, <1>1, <2>1, <2>4 DEF PatchInv, KeysServed, PatchedIffInTable
<1>4. CASE \E e \in EntryIds : HookNewVtable(h, o, e)
  <2> PICK e \in EntryIds : HookNewVtable(h, o, e)
    BY <1>4
  <2> DEFINE v == vptr[o]
             c == ClassOf[o]
  <2>1. /\ v \in Vtables /\ c \in Classes
        /\ Key1(h, o) = <<v, c, h>> /\ Served(Key1(h, o))
        /\ hash[<<v, c, h>>] = NoEntry /\ slot[v] # h
    BY <1>0, ConstantsTyped
    DEF HookNewVtable, HookNewVtableCall, HookCall, Key1, Served, VptrOfClass,
        TypeOK
  <2>2. \A k \in Vtables \X Classes \X Hookers :
          hash'[k] = IF k = <<v, c, h>> THEN e ELSE hash[k]
    <3>1. \A k \in Vtables \X Classes \X Hookers :
            k \in Keys /\ (k \in NewKeys(h, o) <=> k = <<v, c, h>>)
      BY <2>1, ConstantsDistinct DEF NewKeys, Key2, Keys
    <3> QED
      BY <3>1 DEF HookNewVtable
  <2>3. slot' = [slot EXCEPT ![v] = h]
    BY DEF HookNewVtable
  <2> HIDE DEF v, c
  <2>4. \A g \in Hookers, b \in Classes :
          hash[<<v, b, g>>] # NoEntry => <<v, b, g>> = <<v, c, h>>
    <3> SUFFICES ASSUME NEW g \in Hookers, NEW b \in Classes,
                        hash[<<v, b, g>>] # NoEntry
                 PROVE  <<v, b, g>> = <<v, c, h>>
      OBVIOUS
    <3>1. Served(<<v, b, g>>) /\ Served(<<v, c, h>>)
      BY <1>0, <2>1 DEF KeysServed
    <3> QED
      BY <2>1, <3>1, ServedOnce
  <2>5. \A g \in Hookers, b \in Classes : hash[<<v, b, g>>] = NoEntry
    BY <2>1, <2>4
  <2>6. slot[v] \in Vtables
    <3>1. slot[v] \notin Hookers
      BY <1>0, <2>1, <2>5 DEF PatchedIffInTable
    <3> QED
      BY <1>0, <2>1, <3>1 DEF TypeOK, Funcs
  <2>7. KeysServed'
    BY <1>0, <2>1, <2>2 DEF KeysServed, Served
  <2>8. EntriesServed'
    BY <1>0, <2>1, <2>6, HookNewVtableEffect DEF EntriesServed, Served, v
  <2>9. PatchedIffInTable'
    <3> SUFFICES ASSUME NEW w \in Vtables, NEW g \in Hookers
                 PROVE  slot'[w] = g <=>
                          \E b \in Classes : hash'[<<w, b, g>>] # NoEntry
      BY DEF PatchedIffInTable
    <3>1. slot[w] = g <=> \E b \in Classes : hash[<<w, b, g>>] # NoEntry
      BY <1>0 DEF PatchedIffInTable
    <3>2. CASE w # v
      <4>1. slot'[w] = slot[w]
        BY <1>0, <2>3, <3>2 DEF TypeOK
      <4>2. \A b \in Classes : hash'[<<w, b, g>>] = hash[<<w, b, g>>]
        BY <2>2, <3>2
      <4> QED
        BY <3>1, <4>1, <4>2
    <3>3. CASE w = v
      <4>1. slot'[w] = h
        BY <1>0, <2>3, <3>3 DEF TypeOK
      <4>2. \A b \in Classes : hash'[<<w, b, g>>] =
                                IF b = c /\ g = h THEN e ELSE NoEntry
        BY <2>2, <2>5, <3>3
      <4> QED
        BY <2>1, <4>1, <4>2, ConstantsDistinct
    <3> QED
      BY <3>2, <3>3
  <2> QED
    BY <1>1, <2>7, <2>8, <2>9 DEF PatchInv
<1> QED
  BY <1>0, <1>2, <1>3, <1>4, HookCases

LEMMA UnHookKeepsPatched ==
  ASSUME HookersDisjoint, PatchInv,
         NEW h \in Hookers, NEW o \in Objects, UnHookInt(h, o)
  PROVE  KeysServed' /\ EntriesServed' /\ PatchedIffInTable'
<1>0. /\ EntriesInv /\ TypeOK /\ EntriesInUse /\ HoldersExact
      /\ KeysServed /\ EntriesServed /\ PatchedIffInTable
  BY DEF PatchInv, EntriesInv
<1>1. CASE UnHookUnknown(h, o)
  BY <1>0, <1>1
  DEF UnHookUnknown, registry, KeysServed, EntriesServed, PatchedIffInTable,
      HoldersOf, KeyOf, OrigOf
<1>2. CASE UnHookKnown(h, o)
  <2> DEFINE key1 == UnKey1(h, o)
             orig == OrigOf(NonNull(h, o))
  <2>1. /\ key1 \in Vtables \X Classes \X Hookers
        /\ Served(key1) /\ orig \in Vtables
    BY <1>0, <1>2, UnHookKnownEffect DEF EntriesServed, UnKey1
  <2>2. \A k \in Vtables \X Classes \X Hookers :
          hash'[k] = IF Last(h, o) /\ k = key1 THEN NoEntry ELSE hash[k]
    <3>1. \A k \in Vtables \X Classes \X Hookers : k \in Keys /\ k[1] \in Vtables
      BY DEF Keys
    <3> QED
      BY <1>0, <1>2, <3>1, UnHookKnownEffect
  <2>3. slot' = IF Last(h, o) THEN [slot EXCEPT ![key1[1]] = orig] ELSE slot
    BY <1>0, <1>2, UnHookKnownEffect
  <2>4. \A f \in EntryIds :
          HoldersOf(f)' # {} =>
            /\ HoldersOf(f) # {}
            /\ KeyOf(f)' = KeyOf(f) /\ OrigOf(f)' = OrigOf(f)
    BY <1>0, <1>2, UnHookKnownEffect
  <2> HIDE DEF key1, orig
  <2>5. KeysServed'
    BY <1>0, <2>2 DEF KeysServed
  <2>6. EntriesServed'
    BY <1>0, <2>4 DEF EntriesServed
  <2>7. PatchedIffInTable'
    <3> SUFFICES ASSUME NEW w \in Vtables, NEW g \in Hookers
                 PROVE  slot'[w] = g <=>
                          \E b \in Classes : hash'[<<w, b, g>>] # NoEntry
      BY DEF PatchedIffInTable
    <3>1. slot[w] = g <=> \E b \in Classes : hash[<<w, b, g>>] # NoEntry
      BY <1>0 DEF PatchedIffInTable
    <3>2. CASE ~(Last(h, o) /\ w = key1[1])
      <4>1. slot'[w] = slot[w]
        BY <1>0, <2>1, <2>3, <3>2 DEF TypeOK
      <4>2. \A b \in Classes : hash'[<<w, b, g>>] = hash[<<w, b, g>>]
        BY <2>2, <3>2
      <4> QED
        BY <3>1, <4>1, <4>2
    <3>3. CASE Last(h, o) /\ w = key1[1]
      <4>1. slot'[w] # g
        BY <1>0, <2>1, <2>3, <3>3, ConstantsDistinct DEF TypeOK
      <4>2. ASSUME NEW b \in Classes, hash[<<w, b, g>>] # NoEntry
            PROVE  <<w, b, g>> = key1
        <5>1. Served(<<w, b, g>>) /\ <<w, b, g>>[1] = key1[1]
          BY <1>0, <3>3, <4>2 DEF KeysServed
        <5> QED
          BY <2>1, <5>1, ServedOnce
      <4>3. \A b \in Classes : hash'[<<w, b, g>>] = NoEntry
        BY <2>2, <3>3, <4>2
      <4> QED
        BY <4>1, <4>3
    <3> QED
      BY <3>2, <3>3
  <2> QED
    BY <2>5, <2>6, <2>7
<1> QED
  BY <1>1, <1>2 DEF UnHookInt

LEMMA InitPatchInv == Init => PatchInv
<1> SUFFICES ASSUME Init PROVE PatchInv
  OBVIOUS
<1>1. EntriesInv
  BY InitEntriesInv
<1>2. VptrOfClass
  BY DEF Init, VptrOfClass
<1>3. \A k \in Vtables \X Classes \X Hookers : hash[k] = NoEntry
  BY DEF Init, Keys
<1>4. EntriesServed
  BY DEF Init, EntriesServed, HoldersOf, Blank
<1>5. PatchedIffInTable
  BY <1>3, ConstantsDistinct DEF Init, PatchedIffInTable
<1> QED
  BY <1>1, <1>2, <1>3, <1>4, <1>5 DEF PatchInv, KeysServed

\* The steps that change neither the table nor the slots.
LEMMA QuietKeepsPatchInv ==
  ASSUME PatchInv, EntriesInv', VptrOfClass', UNCHANGED registry
  PROVE  PatchInv'
  BY DEF PatchInv, registry, KeysServed, EntriesServed, PatchedIffInTable,
         HoldersOf, KeyOf, OrigOf

LEMMA StepPatchInv ==
  ASSUME HookersDisjoint
  PROVE  PatchInv /\ [Next]_vars => PatchInv'
<1> SUFFICES ASSUME PatchInv, [Next]_vars PROVE PatchInv'
  OBVIOUS
<1>0. EntriesInv /\ TypeOK /\ VptrOfClass
  BY DEF PatchInv, EntriesInv
<1>1. EntriesInv'
  BY <1>0, StepEntriesInv
<1>2. CASE UNCHANGED vars
  BY <1>0, <1>1, <1>2, QuietKeepsPatchInv DEF vars, VptrOfClass
<1>3. CASE \E o \in Objects, h \in Hookers : UnHookObject(h, o)
  <2> PICK o \in Objects, h \in Hookers : UnHookObject(h, o)
    BY <1>3
  <2>1. UnHookInt(h, o) /\ vptr' = vptr
    BY DEF UnHookObject
  <2> QED
    BY <1>0, <1>1, <2>1, UnHookKeepsPatched DEF PatchInv, VptrOfClass
<1>4. ASSUME NEW o \in Objects, Construct(o)
      PROVE  PatchInv'
  <2>1. VptrOfClass'
    BY <1>0, <1>4 DEF Construct, VptrOfClass, TypeOK
  <2> QED
    BY <1>1, <1>4, <2>1, QuietKeepsPatchInv DEF Construct
<1>5. ASSUME NEW o \in Objects, NEW v \in Vtables, ReplaceVtable(o, v)
      PROVE  PatchInv'
  <2>1. VptrOfClass'
    BY <1>0, <1>5 DEF ReplaceVtable, VptrOfClass, TypeOK
  <2> QED
    BY <1>1, <1>5, <2>1, QuietKeepsPatchInv DEF ReplaceVtable
<1>6. ASSUME NEW o \in Objects, NEW h \in Hookers, HookVtable(h, o)
      PROVE  PatchInv'
  BY <1>6, HookKeepsPatchInv
<1>7. ASSUME NEW o \in Objects, CallFree(o)
      PROVE  PatchInv'
  BY <1>0, <1>1, <1>7, QuietKeepsPatchInv DEF CallFree, VptrOfClass
<1>8. ASSUME NEW o \in Objects, GetOriginalFunction(o)
      PROVE  PatchInv'
  BY <1>0, <1>1, <1>8, QuietKeepsPatchInv DEF GetOriginalFunction, VptrOfClass
<1>9. ASSUME NEW o \in Objects, free_hook(o)
      PROVE  PatchInv'
  <2>1. run[o] \in Hookers /\ UnHookInt(run[o], o) /\ vptr' = vptr
    BY <1>9 DEF free_hook
  <2> QED
    BY <1>0, <1>1, <2>1, UnHookKeepsPatched DEF PatchInv, VptrOfClass
<1>10. ASSUME NEW o \in Objects, Destroy(o)
       PROVE  PatchInv'
  BY <1>0, <1>1, <1>10, QuietKeepsPatchInv DEF Destroy, VptrOfClass
<1>11. ASSUME NEW o \in Objects, SuperFree(o)
       PROVE  PatchInv'
  BY <1>0, <1>1, <1>11, QuietKeepsPatchInv DEF SuperFree, VptrOfClass
<1> QED
  BY <1>2, <1>3, <1>4, <1>5, <1>6, <1>7, <1>8, <1>9, <1>10, <1>11 DEF Next, FreeNext

\* If the hookers serve disjoint sets of classes and classes do not share
\* vtables, a vtable is patched exactly while its entry is in the table.
THEOREM PatchedWhileInTable ==
  HookersDisjoint => (Spec => []PatchedIffInTable)
<1> SUFFICES ASSUME HookersDisjoint
             PROVE  Spec => []PatchedIffInTable
  OBVIOUS
<1>1. Init => PatchInv
  BY InitPatchInv
<1>2. PatchInv /\ [Next]_vars => PatchInv'
  BY StepPatchInv
<1>3. PatchInv => PatchedIffInTable
  BY DEF PatchInv
<1> QED
  BY <1>1, <1>2, <1>3, PTL DEF Spec

=============================================================================
