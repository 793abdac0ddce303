------------------------------ MODULE HookChain ------------------------------
(***************************************************************************)
(* Both kinds of hooks on the objects of a class: the published objects    *)
(* get the direct vtable hook of module VtableHook and then a per-object   *)
(* hook, which gives the object a private copy of its vtable.  A virtual   *)
(* call goes through the hooking functions to the function of the class.   *)
(*                                                                         *)
(* Sources: HookObjectIntWoLock and the first half of                      *)
(* UnHookObjectIntWoLock in src/src/DldHookerCommonClass.cpp, HookObject   *)
(* in src/example/DldIOKitHookEngine.cpp, the *_hook functions in          *)
(* src/src/DldHookerCommonClass2.h.                                        *)
(*                                                                         *)
(* Both hookers hook the one slot that stands for the vtable.              *)
(***************************************************************************)
EXTENDS VtableHook

CONSTANTS
  ObjectHookers, \* DldHookerCommonClass instances of type DldHookTypeObject
  HookedClass,   \* HookedClass[p]: the leaf class of the objects p hooks
  Private,       \* Private[p]: the memory of p's copy of the vtable, NewVtable
  Threads,       \* threads that call the objects' methods
  None

ASSUME ObjectHookersTyped ==
  /\ HookedClass \in [ObjectHookers -> Classes]
  /\ Private \in [ObjectHookers -> Vtables]
  /\ \A c \in Classes, p \in ObjectHookers : Private[p] \notin VtablesOf[c]
  /\ \A p, q \in ObjectHookers : p # q => Private[p] # Private[q]
  /\ ObjectHookers \cap (Hookers \cup Vtables \cup {Idle}) = {}

ASSUME NoneIsNoHook ==
  None \notin [by : ObjectHookers, vtable : Vtables]

\* No free() of the classes goes on to a hooked free() of a super class: super
\* calls are the subject of module VtableHook.
ASSUME NoSuperCalls == \A c \in Classes : Supers[c] = {c}

VARIABLES
  perObject,  \* perObject[o]: the entry of the object in the table, or None
  copied,     \* copied[p]: NewVtable is allocated and filled in
  saved,      \* saved[p]: OriginalFunction in the HookedFunctonsInfo of p
  objCounter, \* objCounter[p]: HookedObjectsCounter
  notify,     \* notify[o]: what HookObject of the engine does next for o
  failed,     \* history: the objects for which a hook was not installed
  calls,      \* calls[t]: the method call that thread t is in, or None
  visited     \* visited[o]: the hooking functions that free() of o went through

perObjectVars == <<perObject, copied, saved, objCounter>>
chainVars == <<vars, perObjectVars, notify, failed, calls, visited>>

AllHookers == Hookers \cup ObjectHookers

ChainTypeOK ==
  /\ live \subseteq Objects
  /\ vptr \in [Objects -> Vtables]
  /\ slot \in [Vtables -> Funcs \cup ObjectHookers]
  /\ counter \in [Hookers -> 0..WordMax]
  /\ run \in [Objects -> Funcs \cup ObjectHookers \cup {Idle}]
  /\ original \in [Objects -> Funcs \cup ObjectHookers \cup {Idle}]
  /\ perObject \in [Objects ->
                     [by : ObjectHookers, vtable : Vtables] \cup {None}]
  /\ copied \in [ObjectHookers -> BOOLEAN]
  /\ saved \in [ObjectHookers -> Funcs \cup ObjectHookers \cup {Idle}]
  /\ objCounter \in [ObjectHookers -> 0..WordMax]
  /\ notify \in [Objects -> {"none", "vtable", "object"}]
  /\ failed \subseteq Objects
  /\ calls \in [Threads -> [obj : Objects, fn : Funcs \cup ObjectHookers,
                            due : SUBSET AllHookers,
                            visited : SUBSET AllHookers] \cup {None}]
  /\ visited \in [Objects -> SUBSET AllHookers]

ChainInit ==
  /\ Init
  /\ perObject = [o \in Objects |-> None]
  /\ copied = [p \in ObjectHookers |-> FALSE]
  /\ saved = [p \in ObjectHookers |-> Idle]
  /\ objCounter = [p \in ObjectHookers |-> 0]
  /\ notify = [o \in Objects |-> "none"]
  /\ failed = {}
  /\ calls = [t \in Threads |-> None]
  /\ visited = [o \in Objects |-> {}]

-----------------------------------------------------------------------------
(***************************************************************************)
(* HookObjectIntWoLock.                                                    *)
(***************************************************************************)
\* The object already has a per-object hook, of whatever hooker.
HookObjectAgain(p, o) ==
  /\ perObject[o] # None
  /\ UNCHANGED <<perObjectVars, vptr, slot>>

NotSaved(p, o) ==
  /\ copied' = [copied EXCEPT ![p] = TRUE]
  /\ slot' = [slot EXCEPT ![Private[p]] = p]
  /\ UNCHANGED saved

SavedAfterPatching(p, o) ==
  /\ copied' = [copied EXCEPT ![p] = TRUE]
  /\ saved' = [saved EXCEPT ![p] = p]
  /\ slot' = [slot EXCEPT ![Private[p]] = p]

CopyNotPatched(p, o) ==
  /\ copied' = [copied EXCEPT ![p] = TRUE]
  /\ saved' = [saved EXCEPT ![p] = slot[vptr[o]]]
  /\ slot' = [slot EXCEPT ![Private[p]] = slot[vptr[o]]]

\* The first object: its vtable is copied and the copy is patched.
CopyVtable(p, o) ==
  /\ copied' = [copied EXCEPT ![p] = TRUE]
  /\ saved' = [saved EXCEPT ![p] = slot[vptr[o]]]
  /\ slot' = [slot EXCEPT ![Private[p]] = p]

PrepareVtable(p, o) ==
  \/ ~copied[p] /\ CopyVtable(p, o)
  \/ copied[p] /\ UNCHANGED <<copied, saved, slot>>

\* The object's vtable pointer is replaced.
HookNewObject(p, o) ==
  /\ perObject[o] = None
  /\ PrepareVtable(p, o)
  /\ vptr[o] # Private[p]
  /\ perObject' = [perObject EXCEPT ![o] = [by |-> p, vtable |-> vptr[o]]]
  /\ vptr' = [vptr EXCEPT ![o] = Private[p]]
  /\ objCounter' = [objCounter EXCEPT ![p] = Inc(@)]

\* The buffer is not allocated, or the entry is not allocated or not added:
\* the copy stays.
HookObjectFails(p, o) ==
  /\ perObject[o] = None
  /\ \/ UNCHANGED <<copied, saved, slot>>
     \/ PrepareVtable(p, o)
  /\ UNCHANGED <<perObject, vptr, objCounter>>

HookObject(p, o) ==
  /\ \/ HookObjectAgain(p, o) /\ UNCHANGED failed
     \/ HookNewObject(p, o) /\ UNCHANGED failed
     \/ HookObjectFails(p, o) /\ failed' = failed \cup {o}
  /\ UNCHANGED <<live, hash, objKey, entry, counter, crashed, run, original>>

-----------------------------------------------------------------------------
(***************************************************************************)
(* HookObject of the engine: the direct vtable hook, whose result is       *)
(* ignored, and then the per-object hook, each in a critical section of    *)
(* its own.  An object that matches the notifications of several classes   *)
(* is published to each, one after the other: its arbitration lock is held *)
(* (comment at ObjectPublishCallback).                                     *)
(***************************************************************************)
\*
\* An object may be published again and again.  Left out is the second
\* publication of an object for which a hook has failed: if it has only the
\* per-object hook, the vtable hooker would take its private vtable for one of
\* the class.
Publish(o) ==
  /\ Usable(o)
  /\ notify[o] = "none"
  /\ o \notin failed
  /\ notify' = [notify EXCEPT ![o] = "vtable"]
  /\ UNCHANGED <<vars, perObjectVars, failed, calls, visited>>

VtableHookStep(h, o) ==
  \/ /\ HookVtable(h, o)
     /\ ~FailedHook(h, o)
     /\ UNCHANGED failed
  \/ /\ FailedHook(h, o)
     /\ failed' = failed \cup {o}

NotifyVtable(o) ==
  /\ notify[o] = "vtable"
  /\ IF \E h \in Hookers : ClassOf[o] \in Serves[h]
     THEN \E h \in Hookers : VtableHookStep(h, o)
     ELSE UNCHANGED <<vars, failed>>
  /\ notify' = [notify EXCEPT ![o] = "object"]
  /\ UNCHANGED <<perObjectVars, calls, visited>>

NotifyObject(o) ==
  LET mine == {p \in ObjectHookers : HookedClass[p] = ClassOf[o]} IN
  /\ notify[o] = "object"
  /\ IF mine = {} THEN UNCHANGED <<vars, perObjectVars, failed>>
     ELSE \E p \in mine : HookObject(p, o)
  /\ notify' = [notify EXCEPT ![o] = "none"]
  /\ UNCHANGED <<calls, visited>>

-----------------------------------------------------------------------------
(***************************************************************************)
(* UnHookObjectIntWoLock.                                                  *)
(***************************************************************************)
\* The per-object hook goes first: the vtable pointer is restored, and with
\* the last object p's copy is freed and its OriginalFunction is zeroed.
OnlyEntryRemoved(o) ==
  /\ perObject' = [perObject EXCEPT ![o] = None]
  /\ UNCHANGED vptr

RestoreObject(o) ==
  /\ perObject' = [perObject EXCEPT ![o] = None]
  /\ vptr' = [vptr EXCEPT ![o] = perObject[o].vtable]

NoObjectLeft(p) ==
  /\ copied' = [copied EXCEPT ![p] = FALSE]
  /\ saved' = [saved EXCEPT ![p] = Idle]

FreeNotHooked(p, o) == UNCHANGED <<perObjectVars, vptr, registry>>

CopyFreedAtOnce(p, o) ==
  /\ \/ /\ perObject[o] = None
        /\ UNCHANGED <<perObjectVars, vptr>>
     \/ /\ perObject[o] # None
        /\ RestoreObject(o)
        /\ objCounter' = [objCounter EXCEPT ![p] = Dec(@)]
        /\ NoObjectLeft(p)
  /\ UNCHANGED registry

UnHookByObjectHooker(p, o) ==
  /\ \/ /\ perObject[o] = None
        /\ UNCHANGED <<perObjectVars, vptr>>
     \/ /\ perObject[o] # None
        /\ RestoreObject(o)
        /\ objCounter' = [objCounter EXCEPT ![p] = Dec(@)]
        /\ IF Dec(objCounter[p]) = 0 THEN NoObjectLeft(p)
           ELSE UNCHANGED <<copied, saved>>
  /\ UNCHANGED registry

\* A vtable hooker that meets a per-object hook counts it as one of its own.
UnHookByVtableHooker(h, o) ==
  \/ /\ perObject[o] = None
     /\ UnHookInt(h, o)
     /\ UNCHANGED <<perObjectVars, vptr>>
  \/ /\ perObject[o] # None
     /\ RestoreObject(o)
     /\ \/ /\ ReleaseVtable(h, o)
           /\ counter' = [counter EXCEPT ![h] = Dec(Dec(@))]
        \/ /\ objKey[<<o, h>>] = NoEntry
           /\ counter' = [counter EXCEPT ![h] = Dec(@)]
           /\ UNCHANGED <<slot, hash, objKey, entry, crashed>>
     /\ UNCHANGED <<copied, saved, objCounter>>

-----------------------------------------------------------------------------
(***************************************************************************)
(* Virtual calls.  A per-object hooker has the original function itself,   *)
(* and reads it without the lock.                                          *)
(***************************************************************************)
OriginalOf(g, o) ==
  IF g \in ObjectHookers THEN saved[g] ELSE OriginalFunction(g, o)

\* The hookers that have the object in their table.
Due(o) == {h \in Hookers : objKey[<<o, h>>] # NoEntry} \cup
          {p \in ObjectHookers : perObject[o] # None /\ perObject[o].by = p}

Call(t, o) ==
  /\ calls[t] = None
  /\ Usable(o)
  /\ calls' = [calls EXCEPT ![t] = [obj |-> o, fn |-> slot[vptr[o]],
                                    due |-> Due(o), visited |-> {}]]
  /\ UNCHANGED <<vars, perObjectVars, notify, failed, visited>>

DispatchedAgain(t) ==
  /\ calls[t] # None
  /\ calls[t].fn \in AllHookers \ calls[t].visited
  /\ calls' = [calls EXCEPT ![t].fn = slot[vptr[calls[t].obj]],
                            ![t].visited = @ \cup {calls[t].fn}]
  /\ UNCHANGED <<vars, perObjectVars, notify, failed, visited>>

\* A hooking function calls the original one.
Forward(t) ==
  /\ calls[t] # None
  /\ calls[t].fn \in AllHookers \ calls[t].visited
  /\ calls' = [calls EXCEPT ![t].fn = OriginalOf(@, calls[t].obj),
                            ![t].visited = @ \cup {calls[t].fn}]
  /\ UNCHANGED <<vars, perObjectVars, notify, failed, visited>>

\* A hooking function may also refuse access and return to the caller.
Refuse(t) ==
  /\ calls[t] # None
  /\ calls[t].fn \in AllHookers \ calls[t].visited
  /\ calls' = [calls EXCEPT ![t] = None]
  /\ UNCHANGED <<vars, perObjectVars, notify, failed, visited>>

Return(t) ==
  /\ calls[t] # None
  /\ calls[t].fn \in Vtables
  /\ calls' = [calls EXCEPT ![t] = None]
  /\ UNCHANGED <<vars, perObjectVars, notify, failed, visited>>

\* The last reference to an object is dropped when nobody uses it.
Released(o) ==
  /\ notify[o] = "none"
  /\ \A t \in Threads : calls[t] # None => calls[t].obj # o

ChainFree(o) ==
  /\ Released(o)
  /\ CallFree(o)
  /\ visited' = [visited EXCEPT ![o] = {}]
  /\ UNCHANGED <<perObjectVars, notify, failed, calls>>

ChainGetOriginalFunction(o) ==
  /\ run[o] \in AllHookers \ visited[o]
  /\ original[o] = Idle
  /\ original' = [original EXCEPT ![o] = OriginalOf(run[o], o)]
  /\ UNCHANGED <<live, vptr, registry, run, perObjectVars, notify, failed,
                 calls, visited>>

chain_free_hook(o) ==
  /\ run[o] \in AllHookers
  /\ original[o] # Idle
  /\ IF run[o] \in Hookers THEN UnHookByVtableHooker(run[o], o)
                           ELSE UnHookByObjectHooker(run[o], o)
  /\ run' = [run EXCEPT ![o] = original[o]]
  /\ original' = [original EXCEPT ![o] = Idle]
  /\ visited' = [visited EXCEPT ![o] = @ \cup {run[o]}]
  /\ UNCHANGED <<live, notify, failed, calls>>

ChainDestroy(o) ==
  /\ Destroy(o)
  /\ UNCHANGED <<perObjectVars, notify, failed, calls, visited>>

ChainConstruct(o) ==
  /\ Construct(o)
  /\ notify' = [notify EXCEPT ![o] = "none"]
  /\ UNCHANGED <<perObjectVars, failed, calls, visited>>

-----------------------------------------------------------------------------

CallStep(t) == Forward(t) \/ Refuse(t) \/ Return(t)

FreeStep(o) ==
  \/ ChainGetOriginalFunction(o)
  \/ chain_free_hook(o)
  \/ ChainDestroy(o)

ChainNext ==
  /\ ~crashed
  /\ \/ \E o \in Objects :
          \/ ChainConstruct(o)
          \/ Publish(o)
          \/ NotifyVtable(o)
          \/ NotifyObject(o)
          \/ ChainFree(o)
          \/ FreeStep(o)
     \/ \E t \in Threads :
          \/ \E o \in Objects : Call(t, o)
          \/ CallStep(t)

ChainSpec == ChainInit /\ [][ChainNext]_chainVars

\* A call that was dispatched returns and an object that is being freed is
\* destroyed: no step of theirs waits for more than the table's lock.
ChainFairSpec ==
  /\ ChainSpec
  /\ \A t \in Threads : WF_chainVars(CallStep(t))
  /\ \A o \in Objects : WF_chainVars(FreeStep(o))

-----------------------------------------------------------------------------

\* No call comes to a hooking function that it has gone through before: the
\* chain of original functions has no cycle, whatever is hooked and unhooked
\* meanwhile (GetOriginalFunction: OriginalFunction != HookingFunction).
NoCycle ==
  /\ \A t \in Threads :
       calls[t] # None => calls[t].fn \notin calls[t].visited
  /\ \A o \in Objects : run[o] \notin visited[o]

\* What needs that every hook of every object could be installed.
AllInstalled == failed = {}

\* While all hooks can be installed no chain of original functions has a cycle.
NoRecursion == AllInstalled => NoCycle

\* A method call on a hooked object that comes to the class's own function has
\* gone through every hook that the object had when the call was made.
NoHookMissed ==
  AllInstalled =>
    \A t \in Threads :
      calls[t] # None /\ calls[t].fn \in Vtables => calls[t].due \subseteq calls[t].visited

\* When free() comes to the class's own function the object is out of the
\* table and has its own vtable again.
UnhookedWhenFreed ==
  AllInstalled =>
    \A o \in Objects : run[o] \in Vtables =>
      Due(o) = {} /\ vptr[o] \in VtablesOf[ClassOf[o]]

\* "it is assumed that we never hook our private vtable for an object"
\* (comment in UnHookObjectIntWoLock).
PrivateNeverHooked ==
  \A p \in ObjectHookers, c \in Classes, h \in Hookers :
    hash[<<Private[p], c, h>>] = NoEntry

\* A vtable hooker never meets a per-object hook in free(): it "must be
\* unhooked by a per-object hook" (assertion of UnHookObjectIntWoLock).
NoResidualHook ==
  \A o \in Objects : run[o] \in Hookers => perObject[o] = None

\* An object uses the private vtable exactly while its entry is in the table,
\* and then the vtable is allocated and its original function is known: the
\* last unhooking never pulls it from under another object.
PrivateIffHooked ==
  \A o \in live, p \in ObjectHookers :
    /\ vptr[o] = Private[p] <=> perObject[o] # None /\ perObject[o].by = p
    /\ vptr[o] = Private[p] => copied[p] /\ saved[p] # Idle

\* HookedObjectsCounter of a per-object hooker is the number of its objects.
ObjectCounterExact ==
  \A p \in ObjectHookers :
    objCounter[p] =
      Cardinality({o \in Objects : perObject[o] # None /\ perObject[o].by = p})

\* Method calls and free() come to their end, unless some hook could not be
\* installed.
CallsReturn ==
  /\ \A t \in Threads : calls[t] # None ~> calls[t] = None \/ ~AllInstalled
  /\ \A o \in Objects : run[o] # Idle ~> run[o] = Idle \/ ~AllInstalled

=============================================================================
