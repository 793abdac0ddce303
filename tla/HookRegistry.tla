----------------------------- MODULE HookRegistry -----------------------------
(***************************************************************************)
(* What direct vtable hooking promises the software that uses it, with no  *)
(* hash table, entry, count or vtable in sight: a set of hooked objects.   *)
(* Since a hook replaces a function of a vtable, the free() of every       *)
(* object whose class has a hooked object is intercepted, the free() of    *)
(* all others never; an intercepted free() unhooks the object and then     *)
(* always goes on to the free() of its class, so nothing remembers an      *)
(* object that is destroyed.  Module VtableHook implements this as long    *)
(* as all objects of a class share a vtable of their own.                  *)
(***************************************************************************)
CONSTANTS
  Objects,   \* addresses of the C++ objects
  ClassOf,   \* ClassOf[o]: the class of an object
  Derived    \* the objects whose free() calls the hooked free() of a super class

VARIABLES
  live,      \* the objects that are constructed and not yet destroyed
  hooked,    \* the objects that are hooked
  freeing    \* freeing[o]: the free() the object is in, "no" if in none

registryVars == <<live, hooked, freeing>>

RegistryTypeOK ==
  /\ live \subseteq Objects
  /\ hooked \subseteq live
  /\ freeing \in [Objects -> {"no", "hook", "class"}]

RegistryInit ==
  /\ live = {}
  /\ hooked = {}
  /\ freeing = [o \in Objects |-> "no"]

-----------------------------------------------------------------------------

InUse(o) == o \in live /\ freeing[o] = "no"

Intercepted(o) == \E p \in hooked : ClassOf[p] = ClassOf[o]

New(o) ==
  /\ o \notin live
  /\ live' = live \cup {o}
  /\ UNCHANGED <<hooked, freeing>>

\* A call of HookObject that fails changes nothing.
Hook(o) ==
  /\ InUse(o)
  /\ hooked' = hooked \cup {o}
  /\ UNCHANGED <<live, freeing>>

Unhook(o) ==
  /\ InUse(o)
  /\ hooked' = hooked \ {o}
  /\ UNCHANGED <<live, freeing>>

Free(o) ==
  /\ InUse(o)
  /\ freeing' = [freeing EXCEPT ![o] = IF Intercepted(o) THEN "hook" ELSE "class"]
  /\ UNCHANGED <<live, hooked>>

FreeInHook(o) ==
  /\ freeing[o] = "hook"
  /\ hooked' = hooked \ {o}
  /\ freeing' = [freeing EXCEPT ![o] = "class"]
  /\ UNCHANGED live

FreeInClass(o) ==
  /\ freeing[o] = "class"
  /\ o \notin hooked
  /\ live' = live \ {o}
  /\ freeing' = [freeing EXCEPT ![o] = "no"]
  /\ UNCHANGED hooked

\* The free() of a class that derives from a hooked one is not safe: its call
\* of super::free() may be answered by the object's own free(), hook and all,
\* when the last object of the super class is unhooked at that time.
StartOver(o) ==
  /\ o \in Derived
  /\ freeing[o] = "class"
  /\ freeing' = [freeing EXCEPT ![o] = "hook"]
  /\ UNCHANGED <<live, hooked>>

RegistryNext ==
  \E o \in Objects :
    \/ New(o)
    \/ Hook(o)
    \/ Unhook(o)
    \/ Free(o)
    \/ FreeInHook(o)
    \/ FreeInClass(o)
    \/ StartOver(o)

RegistrySafety == RegistryInit /\ [][RegistryNext]_registryVars

RegistrySpec ==
  /\ RegistrySafety
  /\ \A o \in Objects \ Derived :
       WF_registryVars(FreeInHook(o) \/ FreeInClass(o))

=============================================================================
