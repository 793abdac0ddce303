----------------------------- MODULE HookEngine -----------------------------
(***************************************************************************)
(* The hook engine: it keeps, for each class name, the hooker to apply,    *)
(* asks IOKit to be notified of the objects of the registered classes and  *)
(* hooks each published object with the direct vtable hook of its nearest  *)
(* registered class and with the per-object hook of its own class.         *)
(*                                                                         *)
(* Sources: src/example/DldIOKitHookEngine.cpp and .h,                     *)
(* src/example/DldIOKitHookDictionaryEntry.cpp.                            *)
(*                                                                         *)
(* One thread registers classes, as startHookingWithPredefinedClasses      *)
(* does, while IOKit's threads run the notifications.  What a hooker does  *)
(* with an object is the subject of module HookChain; here the object only *)
(* notes the entries whose hook function was called.  A dictionary entry   *)
(* is named by its place in the sequence of registrations.                 *)
(***************************************************************************)
EXTENDS Naturals, Sequences, FiniteSets

CONSTANTS
  Objects,
  Classes,
  Line,          \* Line[c]: class c and its super classes, the leaf first
  ClassOf,       \* ClassOf[o]: the leaf class of object o
  Registrations, \* the calls of AddNewIOKitClass: [class, type, depth]
  MaxDepth,      \* DldInheritanceDepth_Maximum
  Fails,         \* whether allocations and IOKit's registration may fail
  None

Entries == 1..Len(Registrations)
Key(e) == Registrations[e]
Keys == [class : Classes, type : {"vtable", "object"}, depth : 0..MaxDepth - 1]

\* A per-object hooker is registered for leaf classes, and the direct vtable
\* hooks are registered first
\* (the comment in startHookingWithPredefinedClasses).
ASSUME EngineAssumption ==
  /\ MaxDepth \in Nat \ {0}
  /\ Line \in [Classes -> Seq(Classes)]
  /\ ClassOf \in [Objects -> Classes]
  /\ Registrations \in Seq(Keys)
  /\ \A e \in Entries : Key(e).type = "object" => Key(e).depth = 0
  /\ \A d, e \in Entries :
       Key(d).type = "object" /\ Key(e).type = "vtable" => e < d
  /\ \A d, e \in Entries : Key(d) = Key(e) => d = e
  /\ None \notin Entries

VARIABLES
  engine,     \* how far withNoHooks has made the engine, and what became of it
  table,      \* sHashTable is allocated
  dictionary, \* dictionary[k]: the entry under the class name, or None
  current,    \* the registration in progress; Len + 1 when all are done
  step,       \* the next step of AddNewIOKitClass for it
  result,     \* result[e]: what AddNewIOKitClass returned
  saved,      \* saved[e]: the notifiers in the entry's NotifiersDictionary
  notifiers,  \* the publish notifiers that IOKit knows, by their entry
  published,  \* the objects that are published
  due,        \* due[o]: the publish notifiers that o is still to be told to
  callback,   \* callback[o]: the notification of o that is running, or None
  hooked      \* hooked[o]: the entries whose hook function was called for o

registrationVars == <<dictionary, current, step, result, saved>>
objectVars == <<published, callback, hooked>>
creationVars == <<engine, table>>
engineVars == <<creationVars, registrationVars, notifiers, objectVars, due>>

Matches(e, o) == \E i \in DOMAIN Line[ClassOf[o]] :
                   Line[ClassOf[o]][i] = Key(e).class

EngineInit ==
  /\ engine = "none"
  /\ table = FALSE
  /\ dictionary = [k \in Keys |-> None]
  /\ current = 1
  /\ step = "entry"
  /\ result = [e \in Entries |-> "none"]
  /\ saved = [e \in Entries |-> {}]
  /\ notifiers = {}
  /\ published = {}
  /\ due = [o \in Objects |-> {}]
  /\ callback = [o \in Objects |-> None]
  /\ hooked = [o \in Objects |-> {}]

-----------------------------------------------------------------------------
(***************************************************************************)
(* HookExample and withNoHooks.                                            *)
(***************************************************************************)
\* free() of an engine that is not complete.  DeleteStaticTable frees the table
\* if there is none, through NULL, and keeps it otherwise.
ReleaseEngine ==
  /\ engine' = IF table THEN "released" ELSE "crashed"
  /\ UNCHANGED table

\* The engine is allocated and init() creates the static table.
MakeTable ==
  /\ engine = "none"
  /\ \/ table' = TRUE /\ engine' = "initialized"
     \/ Fails /\ engine' = "released" /\ UNCHANGED table
     \/ Fails /\ ReleaseEngine

MakeDictionaries ==
  /\ engine = "initialized"
  /\ \/ engine' = "ready" /\ UNCHANGED table
     \/ Fails /\ ReleaseEngine

CreationStep ==
  /\ MakeTable \/ MakeDictionaries
  /\ UNCHANGED <<registrationVars, notifiers, objectVars, due>>

-----------------------------------------------------------------------------
(***************************************************************************)
(* AddNewIOKitClass.  startHookingWithPredefinedClasses ignores its result *)
(* and goes on with the next class; the walk over the service plane that   *)
(* follows changes nothing.                                                *)
(***************************************************************************)
Adding(s) ==
  /\ engine = "ready"
  /\ current \in Entries
  /\ step = s

EndRegistration(outcome) ==
  /\ result' = [result EXCEPT ![current] = outcome]
  /\ current' = current + 1
  /\ step' = "entry"

\* withIOKitClassName.
MakeEntry ==
  /\ Adding("entry")
  /\ \/ step' = "insert" /\ UNCHANGED <<current, result>>
     \/ Fails /\ EndRegistration("failed")
  /\ UNCHANGED <<dictionary, saved, notifiers, objectVars, due>>

\* setObject; only entries of per-object hookers have callbacks.
InsertEntry ==
  /\ Adding("insert")
  /\ \/ /\ dictionary' = [dictionary EXCEPT ![Key(current)] = current]
        /\ IF Key(current).type = "object"
           THEN step' = "terminated" /\ UNCHANGED <<current, result>>
           ELSE EndRegistration("added")
     \/ /\ Fails
        /\ step' = "undo"
        /\ UNCHANGED <<dictionary, current, result>>
  /\ UNCHANGED <<saved, notifiers, objectVars, due>>

\* The notifier of terminated objects is installed and saved in the entry, or
\* is removed again when it cannot be saved.
AddTerminated ==
  /\ Adding("terminated")
  /\ \/ /\ saved' = [saved EXCEPT ![current] = @ \cup {"terminated"}]
        /\ step' = "publish"
     \/ Fails /\ step' = "undo" /\ UNCHANGED saved
  /\ UNCHANGED <<dictionary, current, result, notifiers,
                 objectVars, due>>

\* The notifier of published objects is installed; IOKit also tells it of the
\* objects that are already published.
AddPublish ==
  /\ Adding("publish")
  /\ \/ /\ notifiers' = notifiers \cup {current}
        /\ due' = [o \in Objects |->
                     IF o \in published /\ Matches(current, o)
                     THEN due[o] \cup {current} ELSE due[o]]
        /\ step' = "save"
     \/ Fails /\ step' = "undo" /\ UNCHANGED <<notifiers, due>>
  /\ UNCHANGED <<dictionary, current, result, saved, objectVars>>

NotifierLeft ==
  /\ Adding("save")
  /\ \/ /\ saved' = [saved EXCEPT ![current] = @ \cup {"publish"}]
        /\ EndRegistration("added")
     \/ Fails /\ step' = "undo" /\ UNCHANGED <<saved, current, result>>
  /\ UNCHANGED <<dictionary, notifiers, objectVars, due>>

SavePublish ==
  /\ Adding("save")
  /\ \/ /\ saved' = [saved EXCEPT ![current] = @ \cup {"publish"}]
        /\ EndRegistration("added")
     \/ Fails /\ step' = "remove" /\ UNCHANGED <<saved, current, result>>
  /\ UNCHANGED <<dictionary, notifiers, objectVars, due>>

DueKept ==
  /\ Adding("remove")
  /\ notifiers' = notifiers \ {current}
  /\ step' = "undo"
  /\ UNCHANGED <<dictionary, current, result, saved, objectVars,
                 due>>

\* remove() of the notifier that could not be saved; IOKit's remove() waits
\* for the notifications of this notifier that are running.
RemoveNotifier ==
  /\ Adding("remove")
  /\ \A o \in Objects : callback[o] # None => callback[o].via # current
  /\ notifiers' = notifiers \ {current}
  /\ due' = [o \in Objects |-> due[o] \ {current}]
  /\ step' = "undo"
  /\ UNCHANGED <<dictionary, current, result, saved, objectVars>>

EntryKept ==
  /\ Adding("undo")
  /\ EndRegistration("failed")
  /\ saved' = [saved EXCEPT ![current] = {}]
  /\ UNCHANGED <<dictionary, notifiers, objectVars, due>>

\* At __exit: removeObject, then the last release of the entry, whose free()
\* removes the notifiers saved in it.
UndoRegistration ==
  /\ Adding("undo")
  /\ dictionary' = [dictionary EXCEPT ![Key(current)] = None]
  /\ saved' = [saved EXCEPT ![current] = {}]
  /\ EndRegistration("failed")
  /\ UNCHANGED <<notifiers, objectVars, due>>

-----------------------------------------------------------------------------
(***************************************************************************)
(* Objects and notifications.                                              *)
(***************************************************************************)
Publish(o) ==
  /\ o \notin published
  /\ published' = published \cup {o}
  /\ due' = [due EXCEPT ![o] = {e \in notifiers : Matches(e, o)}]
  /\ UNCHANGED <<creationVars, registrationVars, notifiers, callback, hooked>>

\* The next step of a notification, with the entry it has found.
Continue(o, s, e) ==
  callback' = [callback EXCEPT ![o].step = s, ![o].entry = e]

At(o, s) == callback[o] # None /\ callback[o].step = s

\* The hook function of the entry found is called.
CallHook(o) == hooked' = [hooked EXCEPT ![o] = @ \cup {callback[o].entry}]

NotificationFrame ==
  UNCHANGED <<creationVars, registrationVars, notifiers, published>>

\* ObjectPublishCallback starts; IOKit holds the arbitration lock of the
\* object, so an object has one notification at a time.
StartCallback(o) ==
  /\ callback[o] = None
  /\ \E e \in due[o] :
       /\ due' = [due EXCEPT ![o] = @ \ {e}]
       /\ callback' = [callback EXCEPT ![o] =
                         [via |-> e, step |-> "lookup", entry |-> None,
                          depth |-> 0]]
  /\ UNCHANGED hooked
  /\ NotificationFrame

ObjectEntry(o) ==
  dictionary[[class |-> ClassOf[o], type |-> "object", depth |-> 0]]

\* CallObjectFirstPublishCallback looks up the leaf class.
LookupCallback(o) ==
  /\ At(o, "lookup")
  /\ IF ObjectEntry(o) = None THEN Continue(o, "vtable", None)
                              ELSE Continue(o, "callback", ObjectEntry(o))
  /\ UNCHANGED <<due, hooked>>
  /\ NotificationFrame

\* The first publish callback of the entry; the hooker's answers true.
FirstPublishCallback(o) ==
  /\ At(o, "callback")
  /\ Continue(o, "vtable", None)
  /\ UNCHANGED <<due, hooked>>
  /\ NotificationFrame

EveryClass(o) ==
  LET d == callback[o].depth
  IN  /\ At(o, "vtable")
      /\ IF d < Len(Line[ClassOf[o]]) /\ d < MaxDepth
         THEN LET e == dictionary[[class |-> Line[ClassOf[o]][d + 1],
                                   type |-> "vtable", depth |-> d]]
              IN /\ callback' = [callback EXCEPT ![o].depth = d + 1]
                 /\ hooked' = IF e = None THEN hooked
                              ELSE [hooked EXCEPT ![o] = @ \cup {e}]
         ELSE Continue(o, "object", None) /\ UNCHANGED hooked
      /\ UNCHANGED due
      /\ NotificationFrame

\* One round of the loop of HookObject over the inheritance chain: the
\* dictionary of the depth is asked for the class at that depth.
LookupVtable(o) ==
  LET d == callback[o].depth
  IN  /\ At(o, "vtable")
      /\ IF d < Len(Line[ClassOf[o]]) /\ d < MaxDepth
         THEN LET e == dictionary[[class |-> Line[ClassOf[o]][d + 1],
                                   type |-> "vtable", depth |-> d]]
              IN IF e = None
                 THEN callback' = [callback EXCEPT ![o].depth = d + 1]
                 ELSE Continue(o, "hookVtable", e)
         ELSE Continue(o, "object", None)
      /\ UNCHANGED <<due, hooked>>
      /\ NotificationFrame

\* The nearest direct vtable hook ends the loop; its result is ignored.
HookVtable(o) ==
  /\ At(o, "hookVtable")
  /\ CallHook(o)
  /\ Continue(o, "object", None)
  /\ UNCHANGED due
  /\ NotificationFrame

\* HookObject looks up the per-object hooker of the leaf class.
LookupObject(o) ==
  /\ At(o, "object")
  /\ IF ObjectEntry(o) = None
     THEN callback' = [callback EXCEPT ![o] = None]
     ELSE Continue(o, "hookObject", ObjectEntry(o))
  /\ UNCHANGED <<due, hooked>>
  /\ NotificationFrame

ObjectLeftOut(o) ==
  /\ At(o, "hookObject")
  /\ IF \E e \in hooked[o] : Key(e).type = "vtable"
     THEN UNCHANGED hooked ELSE CallHook(o)
  /\ callback' = [callback EXCEPT ![o] = None]
  /\ UNCHANGED due
  /\ NotificationFrame

HookPerObject(o) ==
  /\ At(o, "hookObject")
  /\ CallHook(o)
  /\ callback' = [callback EXCEPT ![o] = None]
  /\ UNCHANGED due
  /\ NotificationFrame

-----------------------------------------------------------------------------
RegistrationStep ==
  /\ \/ MakeEntry \/ InsertEntry \/ AddTerminated \/ AddPublish \/ SavePublish
     \/ RemoveNotifier \/ UndoRegistration
  /\ UNCHANGED creationVars

NotificationStep(o) ==
  \/ StartCallback(o) \/ LookupCallback(o) \/ FirstPublishCallback(o)
  \/ LookupVtable(o) \/ HookVtable(o) \/ LookupObject(o) \/ HookPerObject(o)

EngineNext ==
  /\ engine # "crashed"
  /\ \/ CreationStep
     \/ RegistrationStep
     \/ \E o \in Objects : Publish(o) \/ NotificationStep(o)

EngineSpec == EngineInit /\ [][EngineNext]_engineVars

\* The thread that starts hooking runs on, and IOKit delivers each
\* notification that is due.  Nothing obliges an object to be published.
EngineFairSpec ==
  /\ EngineSpec
  /\ WF_engineVars(CreationStep \/ RegistrationStep)
  /\ \A o \in Objects : WF_engineVars(NotificationStep(o))

-----------------------------------------------------------------------------
EngineTypeOK ==
  /\ engine \in {"none", "initialized", "ready", "released", "crashed"}
  /\ table \in BOOLEAN
  /\ dictionary \in [Keys -> Entries \cup {None}]
  /\ current \in 1..Len(Registrations) + 1
  /\ step \in {"entry", "insert", "terminated", "publish", "save", "remove",
               "undo"}
  /\ result \in [Entries -> {"none", "added", "failed"}]
  /\ saved \in [Entries -> SUBSET {"terminated", "publish"}]
  /\ notifiers \subseteq Entries
  /\ published \subseteq Objects
  /\ due \in [Objects -> SUBSET notifiers]
  /\ callback \in [Objects -> [via : Entries, entry : Entries \cup {None},
                               step : {"lookup", "callback", "vtable",
                                       "hookVtable", "object", "hookObject"},
                               depth : 0..MaxDepth] \cup {None}]
  /\ hooked \in [Objects -> SUBSET Entries]

VtableHooks(o) == {e \in hooked[o] : Key(e).type = "vtable"}

\* Entry e is of a vtable hooker for a class of the object's line, at the depth
\* that the class has above the object's own.
Reaches(e, o) ==
  /\ dictionary[Key(e)] = e
  /\ Key(e).type = "vtable"
  /\ Key(e).depth < Len(Line[ClassOf[o]])
  /\ Line[ClassOf[o]][Key(e).depth + 1] = Key(e).class

\* The vtable hooker that reaches the object from the smallest depth.
Nearest(o) ==
  {e \in Entries : /\ Reaches(e, o)
                   /\ \A d \in Entries :
                        Reaches(d, o) => Key(e).depth <= Key(d).depth}

\* Only the nearest direct vtable hooks are applied, however many classes of
\* the object's line are registered and however many notifications tell of
\* it, and the vtable hook is applied before the per-object hook.
NearestOnly ==
  \A o \in Objects :
    /\ VtableHooks(o) \subseteq Nearest(o)
    /\ At(o, "object") \/ At(o, "hookObject") \/ hooked[o] # {} =>
         VtableHooks(o) = Nearest(o)

\* A registration that failed, at whatever step, leaves no entry, no notifier
\* and no notification behind: the class is as if it had not been registered.
FailedLeavesNothing ==
  \A e \in Entries : result[e] = "failed" =>
    /\ dictionary[Key(e)] # e
    /\ e \notin notifiers
    /\ saved[e] = {}
    /\ \A o \in Objects : callback[o] # None => callback[o].via # e

\* Outside of AddNewIOKitClass IOKit knows a notifier exactly if its entry is
\* in the dictionary and keeps it: the entry's free() is to remove it.
NotifiersOwned ==
  \A e \in Entries : e # current =>
    (e \in notifiers <=> dictionary[Key(e)] = e /\ "publish" \in saved[e])

\* Every published object of a class with a per-object hooker gets hooked,
\* also if it was published before the class was registered.
PublishedGetHooked ==
  \A o \in Objects, e \in Entries :
    (o \in published /\ result[e] = "added"
       /\ Key(e).type = "object" /\ Key(e).class = ClassOf[o])
      ~> e \in hooked[o]

-----------------------------------------------------------------------------
\* The assertions in HookObject and its callers: the entry that was looked up
\* is an entry, when it is used.
Alive(e) ==
  \/ dictionary[Key(e)] = e
  \/ e = current /\ step # "entry"

EntryAlive ==
  \A o \in Objects :
    callback[o] # None /\ callback[o].entry # None => Alive(callback[o].entry)
=============================================================================
