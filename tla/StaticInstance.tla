---------------------------- MODULE StaticInstance ----------------------------
(***************************************************************************)
(* The one instance of a hooking class.  All threads that need a hooker    *)
(* ask DldHookerCommonClass2::fStaticContainerClassInstance for it.  A     *)
(* thread that finds none makes an instance of its own and registers it    *)
(* with a compare-and-swap.  The thread that loses the race frees its      *)
(* instance and answers its caller NULL.                                   *)
(*                                                                         *)
(* Sources: src/src/DldHookerCommonClass2.h and the containing class       *)
(* src/example/IOUserClientDldHook.h, whose init() registers the hooks of  *)
(* the class after the hooks common to all classes.                        *)
(*                                                                         *)
(* The code has no waiting and no lock here.  Each step below is at most   *)
(* one access to mStaticInstance; the other steps work on the instance of  *)
(* the thread.  An instance is named by the thread that made it.           *)
(***************************************************************************)
EXTENDS Naturals

CONSTANTS
  Threads,     \* threads that ask for the instance
  Added,       \* kDld_NumberOfAddedHooks: the hooks of the containing class
  MemoryFails, \* whether an allocation may fail
  NULL

\* hooks counts the entries of mHookedVtableFunctionsInfo that are filled in;
\* the hooks common to all classes count as one.
Instances == [mInit : BOOLEAN, hooks : 0..(Added + 1)]

ASSUME StaticAssumption ==
  /\ NULL \notin Threads \cup Instances
  /\ Added \in Nat
  /\ MemoryFails \in BOOLEAN

VARIABLES
  static,   \* mStaticInstance
  inst,     \* inst[t]: the instance that thread t has made, or NULL
  locks,    \* the instances whose rwLock is allocated
  pc,       \* pc[t]: what the thread does next
  answer    \* answer[t]: what fStaticContainerClassInstance returned to t

staticVars == <<static, inst, locks, pc, answer>>

Goto(t, label) == pc' = [pc EXCEPT ![t] = label]

StaticInit ==
  /\ static = NULL
  /\ inst = [t \in Threads |-> NULL]
  /\ locks = {}
  /\ pc = [t \in Threads |-> "idle"]
  /\ answer = [t \in Threads |-> NULL]

-----------------------------------------------------------------------------
Return(t, result) ==
  /\ Goto(t, "answered")
  /\ answer' = [answer EXCEPT ![t] = result]

\* A thread asks.  The answer is the instance if there is one.
Ask(t) ==
  /\ pc[t] = "idle"
  /\ IF static # NULL THEN Return(t, static)
                      ELSE Goto(t, "new") /\ UNCHANGED answer
  /\ UNCHANGED <<static, inst, locks>>

NewPublishes(t) ==
  /\ pc[t] = "new"
  /\ inst' = [inst EXCEPT ![t] = [mInit |-> FALSE, hooks |-> 0]]
  /\ static' = IF static = NULL THEN t ELSE static
  /\ Goto(t, "init")
  /\ UNCHANGED <<locks, answer>>

\* newWithDefaultSettings allocates the containing object and its
\* mHookerCommon2; if the second allocation fails the first one is undone.
New(t) ==
  /\ pc[t] = "new"
  /\ \/ /\ inst' = [inst EXCEPT ![t] = [mInit |-> FALSE, hooks |-> 0]]
        /\ Goto(t, "init")
        /\ UNCHANGED answer
     \/ /\ MemoryFails
        /\ Return(t, NULL)
        /\ UNCHANGED inst
  /\ UNCHANGED <<static, locks>>

InitWithoutMInit(t) ==
  /\ pc[t] = "init"
  /\ locks' = locks \cup {t}
  /\ inst' = [inst EXCEPT ![t] = [mInit |-> FALSE, hooks |-> 1]]
  /\ Goto(t, "publish")
  /\ UNCHANGED <<static, answer>>

\* init of DldHookerCommonClass2: the lock, the common hooks, then mInit.
InitInstance(t) ==
  /\ pc[t] = "init"
  /\ \/ /\ locks' = locks \cup {t}
        /\ inst' = [inst EXCEPT ![t] = [mInit |-> TRUE, hooks |-> 1]]
        /\ Goto(t, "publish")
     \/ /\ MemoryFails
        /\ Goto(t, "free")
        /\ UNCHANGED <<locks, inst>>
  /\ UNCHANGED <<static, answer>>

StoredPlainly(t) ==
  /\ pc[t] = "publish"
  /\ static' = t
  /\ Goto(t, "add")
  /\ UNCHANGED <<inst, locks, answer>>

\* fSetStaticContainingClassObject: the compare-and-swap that ends init.
Publish(t) ==
  /\ pc[t] = "publish"
  /\ IF static = NULL THEN static' = t /\ Goto(t, "add")
                      ELSE Goto(t, "free") /\ UNCHANGED static
  /\ UNCHANGED <<inst, locks, answer>>

AddPastTheEnd(t) ==
  /\ pc[t] = "add"
  /\ inst[t].hooks <= Added + 1
  /\ inst' = [inst EXCEPT ![t].hooks = @ + 1]
  /\ UNCHANGED <<static, locks, pc, answer>>

\* The containing class registers its next hook; after the last one,
\* fStaticContainerClassInstance calls init once more, which only finds
\* mInit set, and returns mStaticInstance.
AddHook(t) ==
  /\ pc[t] = "add"
  /\ IF inst[t].hooks <= Added
     THEN /\ inst' = [inst EXCEPT ![t].hooks = @ + 1]
          /\ UNCHANGED <<pc, answer>>
     ELSE /\ Return(t, static)
          /\ UNCHANGED inst
  /\ UNCHANGED <<static, locks>>

\* init failed: free() releases the lock of an initialised instance, and both
\* objects are deleted.
Discard(t) ==
  /\ pc[t] = "free"
  /\ locks' = IF inst[t].mInit THEN locks \ {t} ELSE locks
  /\ inst' = [inst EXCEPT ![t] = NULL]
  /\ Return(t, NULL)
  /\ UNCHANGED static

\* The caller, fHookObject for one, is done with the answer.
Done(t) ==
  /\ pc[t] = "answered"
  /\ Goto(t, "idle")
  /\ UNCHANGED <<static, inst, locks, answer>>

ThreadStep(t) ==
  Ask(t) \/ New(t) \/ InitInstance(t) \/ Publish(t) \/ AddHook(t)
    \/ Discard(t) \/ Done(t)

StaticNext == \E t \in Threads : ThreadStep(t)

StaticSpec == StaticInit /\ [][StaticNext]_staticVars

-----------------------------------------------------------------------------
StaticTypeOK ==
  /\ static \in Threads \cup {NULL}
  /\ inst \in [Threads -> Instances \cup {NULL}]
  /\ locks \subseteq Threads
  /\ pc \in [Threads -> {"idle", "new", "init", "publish", "add", "free",
                         "answered"}]
  /\ answer \in [Threads -> Threads \cup {NULL}]

\* Whatever instance a thread holds as its answer is the static one, exists,
\* is initialised, has its lock and at least the hooks common to all classes
\* (the hooking functions use it without a reference or a lock).
AnswersUsable ==
  \A t \in Threads : pc[t] = "answered" /\ answer[t] # NULL =>
    /\ answer[t] = static
    /\ static \in locks
    /\ inst[static] # NULL
    /\ inst[static].mInit
    /\ inst[static].hooks >= 1

\* An instance that was not registered leaves nothing behind, neither its
\* memory nor its lock, whichever of its steps failed: once a thread has its
\* answer, only the static instance may be left of what it made.
NothingLeaks ==
  \A t \in Threads : pc[t] \in {"idle", "new", "answered"} /\ t # static =>
    inst[t] = NULL /\ t \notin locks

\* The static instance is never replaced and never taken back: all callers,
\* early and late, hook with the same hooker (each hooker has its own table of
\* original functions and its own count of hooked objects).
StaticForGood == [][static # NULL => static' = static]_staticVars

\* The comments say that the registration comes after full initialization to
\* provide a concurrent thread with a full-fledged object.
FullFledged ==
  \A t \in Threads : pc[t] = "answered" /\ answer[t] # NULL =>
    inst[answer[t]].hooks = Added + 1
=============================================================================
