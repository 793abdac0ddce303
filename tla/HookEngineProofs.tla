--------------------------- MODULE HookEngineProofs ---------------------------
(***************************************************************************)
(* Proofs about HookEngine for any classes, objects and registrations.     *)
(* The invariant says how far each registration has come: those after the  *)
(* current one have left no trace, those before it are either wholly there *)
(* or wholly gone, and a notification runs only under a notifier that      *)
(* IOKit knows.  As the vtable hookers are registered first, no vtable     *)
(* hooker comes or goes any more when a notification runs.                 *)
(***************************************************************************)
EXTENDS HookEngine, TLAPS

NoTrace(e) ==
  /\ dictionary[Key(e)] # e
  /\ e \notin notifiers
  /\ saved[e] = {}

\* A registration that AddNewIOKitClass has returned from.
Settled(e) ==
  \/ result[e] = "failed" /\ NoTrace(e)
  \/ /\ result[e] = "added"
     /\ dictionary[Key(e)] = e
     /\ e \in notifiers <=> Key(e).type = "object"
     /\ "publish" \in saved[e] <=> Key(e).type = "object"

\* What the registration in progress has done before its next step.
InProgress ==
  /\ result[current] = "none"
  /\ "publish" \notin saved[current]
  /\ current \in notifiers <=> step \in {"save", "remove"}
  /\ step \in {"entry", "insert"} => NoTrace(current)
  /\ step \in {"terminated", "publish", "save", "remove"} =>
       Key(current).type = "object" /\ dictionary[Key(current)] = current

RegistrationInv ==
  /\ \A k \in Keys : dictionary[k] # None => Key(dictionary[k]) = k
  /\ \A e \in Entries :
       /\ e > current => result[e] = "none" /\ NoTrace(e)
       /\ e < current => Settled(e)
       /\ e = current => InProgress

\* The registrations of vtable hookers are over.
VtablesOver == \A e \in Entries : Key(e).type = "vtable" => e < current

\* A notification runs under a notifier of IOKit.
ViaNotifier == \A o \in Objects : callback[o] # None => callback[o].via \in notifiers

\* What a notification has found of the vtable hookers at each of its steps.
Walk(o) ==
  /\ callback[o].step \in {"lookup", "callback"} => callback[o].depth = 0
  /\ callback[o].step = "vtable" =>
       \A e \in Entries : Reaches(e, o) => callback[o].depth <= Key(e).depth
  /\ callback[o].step = "hookVtable" => callback[o].entry \in Nearest(o)
  /\ callback[o].step \in {"object", "hookObject"} => VtableHooks(o) = Nearest(o)
  /\ callback[o].step = "hookObject" =>
       callback[o].entry \in Entries /\ Key(callback[o].entry).type = "object"

WalkInv ==
  \A o \in Objects :
    /\ callback[o] # None => Walk(o)
    /\ hooked[o] # {} => VtablesOver /\ VtableHooks(o) = Nearest(o)

EngineInv == EngineTypeOK /\ RegistrationInv /\ ViaNotifier /\ WalkInv

-----------------------------------------------------------------------------
(***************************************************************************)
(* The registrations and what they say.                                    *)
(***************************************************************************)
LEMMA KeyFacts ==
  /\ Len(Registrations) \in Nat
  /\ \A e \in Entries :
       /\ e \in Nat /\ e >= 1 /\ e <= Len(Registrations)
       /\ Key(e) \in Keys
       /\ Key(e).type \in {"vtable", "object"}
       /\ Key(e).depth \in 0..MaxDepth - 1
       /\ Key(e).class \in Classes
<1>1. Len(Registrations) \in Nat
  BY EngineAssumption DEF EngineAssumption
<1>2. ASSUME NEW e \in Entries
      PROVE  e \in Nat /\ e >= 1 /\ e <= Len(Registrations) /\ Key(e) \in Keys
  BY <1>1, EngineAssumption DEF EngineAssumption, Entries, Key
<1> QED
  BY <1>1, <1>2 DEF Keys

LEMMA KeysDistinct ==
  ASSUME NEW d \in Entries, NEW e \in Entries, Key(d) = Key(e)
  PROVE  d = e
BY EngineAssumption DEF EngineAssumption

LEMMA NoneIsNoEntry == None \notin Entries
BY EngineAssumption DEF EngineAssumption

\* No more than one vtable hooker is the nearest.
LEMMA NearestUnique ==
  ASSUME NEW o \in Objects, NEW d \in Nearest(o), NEW e \in Nearest(o)
  PROVE  d = e
<1>1. d \in Entries /\ e \in Entries /\ Reaches(d, o) /\ Reaches(e, o)
  BY DEF Nearest
<1>2. Key(d).depth <= Key(e).depth /\ Key(e).depth <= Key(d).depth
  BY <1>1 DEF Nearest
<1>3. Key(d).depth = Key(e).depth
  <2>1. Key(d).depth \in Nat /\ Key(e).depth \in Nat
    BY <1>1, KeyFacts, EngineAssumption DEF EngineAssumption
  <2> QED
    BY <1>2, <2>1
<1>4. Key(d).class = Key(e).class /\ Key(d).type = Key(e).type
  BY <1>1, <1>3 DEF Reaches
<1>5. Key(d) = Key(e)
  BY <1>1, <1>3, <1>4, KeyFacts DEF Keys
<1> QED
  BY <1>1, <1>5, KeysDistinct

\* When IOKit knows a notifier, a per-object hooker has been registered, and
\* the vtable hookers before it.
LEMMA NotifiersLate ==
  ASSUME EngineTypeOK, RegistrationInv, NEW n \in notifiers
  PROVE  VtablesOver
<1>1. n \in Entries /\ current \in Nat
  BY KeyFacts DEF EngineTypeOK
<1>2. n <= current /\ Key(n).type = "object"
  <2>1. ~(n > current)
    BY <1>1 DEF RegistrationInv, NoTrace
  <2>2. CASE n < current
    BY <1>1, <2>2, KeyFacts DEF RegistrationInv, Settled, NoTrace
  <2>3. CASE n = current
    BY <1>1, <2>3 DEF RegistrationInv, InProgress
  <2> QED
    BY <1>1, <2>1, <2>2, <2>3, KeyFacts
<1>3. ASSUME NEW e \in Entries, Key(e).type = "vtable" PROVE e < current
  <2>1. e < n
    BY <1>1, <1>2, <1>3, EngineAssumption DEF EngineAssumption
  <2> QED
    BY <1>1, <1>2, <2>1, KeyFacts
<1> QED
  BY <1>3 DEF VtablesOver

-----------------------------------------------------------------------------
(***************************************************************************)
(* The types.                                                              *)
(***************************************************************************)
Notifications ==
  [via : Entries, entry : Entries \cup {None},
   step : {"lookup", "callback", "vtable", "hookVtable", "object",
           "hookObject"},
   depth : 0..MaxDepth]

\* What a notification becomes when it continues.
LEMMA Continued ==
  ASSUME EngineTypeOK, NEW o \in Objects, NEW s, NEW e, Continue(o, s, e),
         callback[o] # None
  PROVE  /\ callback[o] \in Notifications
         /\ callback' = [callback EXCEPT ![o] =
              [via |-> callback[o].via, entry |-> e, step |-> s,
               depth |-> callback[o].depth]]
<1>1. callback[o] \in Notifications /\ DOMAIN callback = Objects
  BY DEF EngineTypeOK, Notifications
<1> DEFINE next == [via |-> callback[o].via, entry |-> e, step |-> s,
                    depth |-> callback[o].depth]
<1>2. [[callback[o] EXCEPT !.step = s] EXCEPT !.entry = e] = next
  <2> DEFINE r == callback[o]
  <2>1. r = [via |-> r.via, entry |-> r.entry, step |-> r.step,
             depth |-> r.depth]
    BY <1>1 DEF Notifications
  <2> HIDE DEF r
  <2>2. [r EXCEPT !.step = s] = [via |-> r.via, entry |-> r.entry, step |-> s,
                                 depth |-> r.depth]
    BY <2>1
  <2>3. [[via |-> r.via, entry |-> r.entry, step |-> s, depth |-> r.depth]
           EXCEPT !.entry = e]
          = [via |-> r.via, entry |-> e, step |-> s, depth |-> r.depth]
    OBVIOUS
  <2> QED
    BY <2>2, <2>3, Zenon DEF r
<1>3. callback' = [callback EXCEPT ![o] =
                     [[callback[o] EXCEPT !.step = s] EXCEPT !.entry = e]]
  BY <1>1 DEF Continue
<1> QED
  BY <1>1, <1>2, <1>3

LEMMA TypeInit == EngineInit => EngineTypeOK
<1> SUFFICES ASSUME EngineInit PROVE EngineTypeOK
  OBVIOUS
<1>1. current \in 1..Len(Registrations) + 1
  BY KeyFacts DEF EngineInit
<1> QED
  BY <1>1 DEF EngineInit, EngineTypeOK

\* The current registration is over or one more step of it is done.
LEMMA TypeRegistration ==
  ASSUME EngineTypeOK, RegistrationStep
  PROVE  EngineTypeOK'
<1> USE DEF RegistrationStep, Adding, EndRegistration, creationVars, objectVars
<1>1. current \in Entries
  BY DEF MakeEntry, InsertEntry, AddTerminated, AddPublish, SavePublish,
         RemoveNotifier, UndoRegistration
<1>2. current + 1 \in 1..Len(Registrations) + 1
  BY <1>1, KeyFacts
<1>3. Key(current) \in Keys
  BY <1>1, KeyFacts
<1> USE <1>1, <1>2 DEF EngineTypeOK
<1>4. CASE MakeEntry BY <1>4 DEF MakeEntry
<1>5. CASE InsertEntry BY <1>3, <1>5 DEF InsertEntry
<1>6. CASE AddTerminated BY <1>6 DEF AddTerminated
<1>7. CASE AddPublish BY <1>7 DEF AddPublish
<1>8. CASE SavePublish BY <1>8 DEF SavePublish
<1>9. CASE RemoveNotifier
  <2>1. due' \in [Objects -> SUBSET notifiers']
    BY <1>9 DEF RemoveNotifier
  <2> QED
    BY <1>9, <2>1 DEF RemoveNotifier
<1>10. CASE UndoRegistration BY <1>3, <1>10 DEF UndoRegistration
<1> QED
  BY <1>4, <1>5, <1>6, <1>7, <1>8, <1>9, <1>10
LEMMA ObjectKey ==
  ASSUME NEW o \in Objects
  PROVE  [class |-> ClassOf[o], type |-> "object", depth |-> 0] \in Keys
BY EngineAssumption DEF EngineAssumption, Keys

LEMMA VtableKey ==
  ASSUME EngineTypeOK, NEW o \in Objects, callback[o] \in Notifications,
         callback[o].depth < Len(Line[ClassOf[o]]),
         callback[o].depth < MaxDepth
  PROVE  [class |-> Line[ClassOf[o]][callback[o].depth + 1],
          type |-> "vtable", depth |-> callback[o].depth] \in Keys
<1>1. Line[ClassOf[o]] \in Seq(Classes)
  BY EngineAssumption DEF EngineAssumption
<1>2. callback[o].depth \in Nat
  BY EngineAssumption DEF EngineAssumption, Notifications
<1>3. callback[o].depth \in 0..MaxDepth - 1
  BY <1>2, EngineAssumption DEF EngineAssumption
<1>4. callback[o].depth + 1 \in 1..Len(Line[ClassOf[o]])
  BY <1>1, <1>2
<1>5. Line[ClassOf[o]][callback[o].depth + 1] \in Classes
  BY <1>1, <1>4
<1> QED
  BY <1>3, <1>5 DEF Keys

LEMMA TypeContinued ==
  ASSUME EngineTypeOK, NEW o \in Objects, NEW s, NEW e \in Entries \cup {None},
         s \in {"vtable", "callback", "hookVtable", "object", "hookObject"},
         Continue(o, s, e), callback[o] # None
  PROVE  callback' \in [Objects -> Notifications \cup {None}]
<1>1. [via |-> callback[o].via, entry |-> e, step |-> s,
       depth |-> callback[o].depth] \in Notifications
  BY Continued DEF Notifications
<1> QED
  BY <1>1, Continued DEF EngineTypeOK, Notifications

LEMMA TypeNotification ==
  ASSUME EngineTypeOK, WalkInv, NEW o \in Objects, NotificationStep(o)
  PROVE  EngineTypeOK'
<1> USE DEF NotificationFrame, registrationVars, creationVars, At
<1>1. callback[o] # None => callback[o] \in Notifications
  BY DEF EngineTypeOK, Notifications
<1>2. ObjectEntry(o) \in Entries \cup {None}
  BY ObjectKey DEF EngineTypeOK, ObjectEntry
<1>3. ASSUME /\ callback' \in [Objects -> Notifications \cup {None}]
             /\ due' \in [Objects -> SUBSET notifiers]
             /\ hooked' \in [Objects -> SUBSET Entries]
             /\ NotificationFrame
      PROVE  EngineTypeOK'
  BY <1>3 DEF EngineTypeOK, Notifications
<1>4. /\ due \in [Objects -> SUBSET notifiers]
      /\ hooked \in [Objects -> SUBSET Entries]
      /\ callback \in [Objects -> Notifications \cup {None}]
  BY DEF EngineTypeOK, Notifications
<1>5. CASE StartCallback(o)
  <2>1. PICK e \in due[o] :
          /\ due' = [due EXCEPT ![o] = @ \ {e}]
          /\ callback' = [callback EXCEPT ![o] =
                            [via |-> e, step |-> "lookup", entry |-> None,
                             depth |-> 0]]
    BY <1>5 DEF StartCallback
  <2>2. e \in Entries
    BY <1>4 DEF EngineTypeOK
  <2>3. 0 \in 0..MaxDepth
    BY EngineAssumption DEF EngineAssumption
  <2>4. [via |-> e, step |-> "lookup", entry |-> None, depth |-> 0]
          \in Notifications
    BY <2>2, <2>3 DEF Notifications
  <2>5. callback' \in [Objects -> Notifications \cup {None}]
    BY <1>4, <2>1, <2>4
  <2>6. due' \in [Objects -> SUBSET notifiers]
    BY <1>4, <2>1
  <2> QED
    BY <1>3, <1>4, <1>5, <2>5, <2>6 DEF StartCallback
<1>6. CASE LookupCallback(o)
  BY <1>2, <1>3, <1>4, <1>6, TypeContinued DEF LookupCallback
<1>7. CASE FirstPublishCallback(o)
  BY <1>3, <1>4, <1>7, TypeContinued DEF FirstPublishCallback
<1>8. CASE LookupVtable(o)
  <2> DEFINE d == callback[o].depth
             e == dictionary[[class |-> Line[ClassOf[o]][d + 1],
                              type |-> "vtable", depth |-> d]]
  <2>1. callback' \in [Objects -> Notifications \cup {None}]
    <3>1. CASE d < Len(Line[ClassOf[o]]) /\ d < MaxDepth
      <4>1. e \in Entries \cup {None}
        BY <1>1, <1>8, <3>1, VtableKey DEF LookupVtable, EngineTypeOK
      <4>2. CASE e = None
        <5>1. d \in Nat /\ d + 1 \in 0..MaxDepth
          BY <1>1, <1>8, <3>1, EngineAssumption
             DEF LookupVtable, EngineAssumption, Notifications
        <5>2. [callback[o] EXCEPT !.depth = d + 1] \in Notifications
          BY <1>1, <1>8, <5>1 DEF LookupVtable, Notifications
        <5>3. callback' = [callback EXCEPT ![o] =
                             [callback[o] EXCEPT !.depth = d + 1]]
          BY <1>4, <1>8, <3>1, <4>2 DEF LookupVtable
        <5> QED
          BY <1>4, <5>2, <5>3
      <4>3. CASE e # None
        BY <1>8, <3>1, <4>1, <4>3, TypeContinued DEF LookupVtable
      <4> QED
        BY <4>2, <4>3
    <3>2. CASE ~(d < Len(Line[ClassOf[o]]) /\ d < MaxDepth)
      BY <1>8, <3>2, TypeContinued DEF LookupVtable
    <3> QED
      BY <3>1, <3>2
  <2> QED
    BY <1>3, <1>4, <1>8, <2>1 DEF LookupVtable
<1>9. ASSUME CallHook(o), callback[o].entry \in Entries
      PROVE  hooked' \in [Objects -> SUBSET Entries]
  BY <1>4, <1>9 DEF CallHook
<1>10. CASE HookVtable(o)
  <2>1. callback[o].entry \in Entries
    BY <1>10 DEF HookVtable, WalkInv, Walk, Nearest
  <2> QED
    BY <1>3, <1>4, <1>9, <1>10, <2>1, TypeContinued DEF HookVtable
<1>11. CASE LookupObject(o)
  <2>1. callback' \in [Objects -> Notifications \cup {None}]
    BY <1>2, <1>4, <1>11, TypeContinued DEF LookupObject
  <2> QED
    BY <1>3, <1>4, <1>11, <2>1 DEF LookupObject
<1>12. CASE HookPerObject(o)
  <2>1. callback[o].entry \in Entries
    BY <1>12 DEF HookPerObject, WalkInv, Walk
  <2> QED
    BY <1>3, <1>4, <1>9, <1>12, <2>1 DEF HookPerObject
<1> QED
  BY <1>5, <1>6, <1>7, <1>8, <1>10, <1>11, <1>12 DEF NotificationStep

LEMMA TypeStep ==
  ASSUME EngineTypeOK, WalkInv, [EngineNext]_engineVars
  PROVE  EngineTypeOK'
<1> USE DEF registrationVars, objectVars, creationVars
<1>1. CASE CreationStep
  BY <1>1 DEF CreationStep, MakeTable, MakeDictionaries, ReleaseEngine,
              EngineTypeOK
<1>2. CASE RegistrationStep
  BY <1>2, TypeRegistration
<1>3. ASSUME NEW o \in Objects, Publish(o) PROVE EngineTypeOK'
  <2>1. /\ due' \in [Objects -> SUBSET notifiers]
        /\ published' \subseteq Objects
    BY <1>3 DEF Publish, EngineTypeOK
  <2> QED
    BY <1>3, <2>1 DEF Publish, EngineTypeOK
<1>4. ASSUME NEW o \in Objects, NotificationStep(o) PROVE EngineTypeOK'
  BY <1>4, TypeNotification
<1>5. CASE UNCHANGED engineVars
  BY <1>5 DEF engineVars, EngineTypeOK
<1> QED
  BY <1>1, <1>2, <1>3, <1>4, <1>5 DEF EngineNext

-----------------------------------------------------------------------------
(***************************************************************************)
(* The registrations.                                                      *)
(***************************************************************************)
LEMMA RegistrationInit == EngineInit => RegistrationInv /\ ViaNotifier /\ WalkInv
<1> SUFFICES ASSUME EngineInit PROVE RegistrationInv /\ ViaNotifier /\ WalkInv
  OBVIOUS
<1> USE DEF EngineInit
<1>1. \A e \in Entries : result[e] = "none" /\ NoTrace(e)
  BY KeyFacts, NoneIsNoEntry DEF NoTrace
<1>2. RegistrationInv
  BY <1>1, KeyFacts DEF RegistrationInv, InProgress
<1> QED
  BY <1>2 DEF ViaNotifier, WalkInv

\* A step that leaves the registrations alone.
LEMMA RegistrationKept ==
  ASSUME RegistrationInv, UNCHANGED <<registrationVars, notifiers>>
  PROVE  RegistrationInv'
BY DEF RegistrationInv, Settled, InProgress, NoTrace, registrationVars, Key,
       Entries

\* The current registration has ended: it is settled and the next begins.
LEMMA RegistrationEnds ==
  ASSUME EngineTypeOK, RegistrationInv, current \in Entries,
         NEW outcome \in {"added", "failed"}, EndRegistration(outcome),
         \A k \in Keys : dictionary'[k] # None => Key(dictionary'[k]) = k,
         \A e \in Entries : e # current =>
           /\ dictionary'[Key(e)] = e <=> dictionary[Key(e)] = e
           /\ saved'[e] = saved[e],
         notifiers' = notifiers,
         \A e \in Entries : e = current => Settled(e)'
  PROVE  RegistrationInv'
<1>1. /\ current \in Nat /\ current' = current + 1 /\ step' = "entry"
      /\ \A e \in Entries : e # current => result'[e] = result[e]
  BY KeyFacts DEF EndRegistration, EngineTypeOK
<1>2. ASSUME NEW e \in Entries, e < current'
      PROVE  Settled(e)'
  <2>1. CASE e = current
    BY <2>1
  <2>2. CASE e < current
    <3>1. e # current /\ Settled(e)
      BY <1>1, <2>2, KeyFacts DEF RegistrationInv
    <3>2. /\ dictionary'[Key(e)] = e <=> dictionary[Key(e)] = e
          /\ saved'[e] = saved[e] /\ result'[e] = result[e]
      BY <1>1, <3>1
    <3> QED
      BY <3>1, <3>2 DEF Settled, NoTrace
  <2> QED
    BY <1>1, <1>2, <2>1, <2>2, KeyFacts
<1>3. ASSUME NEW e \in Entries, e >= current'
      PROVE  result'[e] = "none" /\ NoTrace(e)'
  <2>1. e > current
    BY <1>1, <1>3, KeyFacts
  <2>2. e # current /\ result[e] = "none" /\ NoTrace(e)
    BY <1>1, <2>1, KeyFacts DEF RegistrationInv
  <2> QED
    BY <1>1, <2>2 DEF NoTrace
<1>4. ASSUME current' \in Entries
      PROVE  InProgress'
  BY <1>1, <1>3, <1>4, KeyFacts DEF InProgress, NoTrace
<1> QED
  BY <1>1, <1>2, <1>3, <1>4, KeyFacts DEF RegistrationInv

\* The current registration goes on.
LEMMA RegistrationGoesOn ==
  ASSUME RegistrationInv, current \in Entries, UNCHANGED <<current, result>>,
         \A k \in Keys : dictionary'[k] # None => Key(dictionary'[k]) = k,
         \A e \in Entries : e # current =>
           /\ dictionary'[Key(e)] = e <=> dictionary[Key(e)] = e
           /\ saved'[e] = saved[e]
           /\ e \in notifiers' <=> e \in notifiers,
         InProgress'
  PROVE  RegistrationInv'
<1>1. ASSUME NEW e \in Entries, e # current
      PROVE  /\ NoTrace(e)' <=> NoTrace(e)
             /\ Settled(e)' <=> Settled(e)
  BY <1>1 DEF NoTrace, Settled
<1>2. ASSUME NEW e \in Entries
      PROVE  /\ e > current => result[e] = "none" /\ NoTrace(e)'
             /\ e < current => Settled(e)'
  BY <1>1, <1>2, KeyFacts DEF RegistrationInv
<1> QED
  BY <1>2 DEF RegistrationInv

\* The dictionary after setObject and after removeObject of the current key.
LEMMA DictionaryChange ==
  ASSUME EngineTypeOK, RegistrationInv, current \in Entries,
         NEW d \in {current, None},
         dictionary' = [dictionary EXCEPT ![Key(current)] = d]
  PROVE  /\ \A k \in Keys : dictionary'[k] # None => Key(dictionary'[k]) = k
         /\ \A e \in Entries : e # current =>
              (dictionary'[Key(e)] = e <=> dictionary[Key(e)] = e)
         /\ \A e \in Entries : e = current => dictionary'[Key(e)] = d
<1>1. DOMAIN dictionary = Keys /\ Key(current) \in Keys
  BY KeyFacts DEF EngineTypeOK
<1>2. \A e \in Entries : e # current => Key(e) # Key(current) /\ Key(e) \in Keys
  BY KeysDistinct, KeyFacts
<1> QED
  BY <1>1, <1>2 DEF RegistrationInv

LEMMA RegistrationStepInv ==
  ASSUME EngineTypeOK, RegistrationInv, RegistrationStep
  PROVE  RegistrationInv'
<1>1. current \in Entries
  BY DEF RegistrationStep, Adding, MakeEntry, InsertEntry, AddTerminated,
         AddPublish, SavePublish, RemoveNotifier, UndoRegistration
<1>2. InProgress
  BY <1>1 DEF RegistrationInv
<1>3. \A k \in Keys : dictionary[k] # None => Key(dictionary[k]) = k
  BY DEF RegistrationInv
<1>4. /\ result \in [Entries -> {"none", "added", "failed"}]
      /\ saved \in [Entries -> SUBSET {"terminated", "publish"}]
  BY DEF EngineTypeOK
<1>5. ASSUME NEW outcome \in {"added", "failed"}, EndRegistration(outcome)
      PROVE  \A e \in Entries : e = current => result'[e] = outcome
  BY <1>4, <1>5 DEF EndRegistration
<1>6. CASE MakeEntry
  <2>1. CASE step' = "insert" /\ UNCHANGED <<current, result>>
    <3>1. InProgress'
      BY <1>2, <1>6, <2>1 DEF MakeEntry, Adding, InProgress, NoTrace
    <3> QED
      BY <1>1, <1>3, <1>6, <2>1, <3>1, RegistrationGoesOn DEF MakeEntry
  <2>2. CASE EndRegistration("failed")
    <3>1. \A e \in Entries : e = current => Settled(e)'
      BY <1>2, <1>5, <1>6, <2>2
         DEF MakeEntry, Adding, InProgress, NoTrace, Settled
    <3> QED
      BY <1>1, <1>3, <1>6, <2>2, <3>1, RegistrationEnds DEF MakeEntry
  <2> QED
    BY <1>6, <2>1, <2>2 DEF MakeEntry
<1>7. CASE InsertEntry
  <2> USE DEF InsertEntry, Adding
  <2>1. CASE dictionary' = [dictionary EXCEPT ![Key(current)] = current]
    <3>1. \A e \in Entries : e = current => dictionary'[Key(e)] = e
      BY <1>1, <2>1, DictionaryChange
    <3>2. CASE /\ Key(current).type = "object" /\ step' = "terminated"
               /\ UNCHANGED <<current, result>>
      <4>1. InProgress'
        BY <1>1, <1>2, <1>7, <3>1, <3>2 DEF InProgress, NoTrace
      <4> QED
        BY <1>1, <1>7, <2>1, <3>2, <4>1, DictionaryChange, RegistrationGoesOn
    <3>3. CASE Key(current).type # "object" /\ EndRegistration("added")
      <4>1. \A e \in Entries : e = current => Settled(e)'
        BY <1>2, <1>5, <1>7, <3>1, <3>3 DEF InProgress, NoTrace, Settled
      <4> QED
        BY <1>1, <1>7, <2>1, <3>3, <4>1, DictionaryChange, RegistrationEnds
    <3>4. \/ /\ Key(current).type = "object" /\ step' = "terminated"
             /\ UNCHANGED <<current, result>>
          \/ Key(current).type # "object" /\ EndRegistration("added")
      <4>1. dictionary[Key(current)] # current
        BY <1>2, <1>7 DEF InProgress, NoTrace
      <4>2. dictionary' # dictionary
        BY <1>1, <3>1, <4>1
      <4> QED
        BY <1>7, <4>2
    <3> QED
      BY <3>2, <3>3, <3>4
  <2>2. CASE step' = "undo" /\ UNCHANGED <<dictionary, current, result>>
    <3>1. InProgress'
      BY <1>2, <1>7, <2>2 DEF InProgress, NoTrace
    <3> QED
      BY <1>1, <1>3, <1>7, <2>2, <3>1, RegistrationGoesOn
  <2> QED
    BY <1>7, <2>1, <2>2
<1>8. CASE AddTerminated
  <2> USE DEF AddTerminated, Adding
  <2>1. \A e \in Entries : /\ e # current => saved'[e] = saved[e]
                           /\ e = current => "publish" \notin saved'[e]
    BY <1>2, <1>4, <1>8 DEF InProgress
  <2>2. InProgress'
    BY <1>1, <1>2, <1>8, <2>1 DEF InProgress, NoTrace
  <2> QED
    BY <1>1, <1>3, <1>8, <2>1, <2>2, RegistrationGoesOn
<1>9. CASE AddPublish
  <2> USE DEF AddPublish, Adding
  <2>1. InProgress'
    BY <1>1, <1>2, <1>9 DEF InProgress, NoTrace
  <2>2. \A e \in Entries : e # current => (e \in notifiers' <=> e \in notifiers)
    BY <1>9
  <2> QED
    BY <1>1, <1>3, <1>9, <2>1, <2>2, RegistrationGoesOn
<1>10. CASE SavePublish
  <2> USE DEF SavePublish, Adding
  <2>1. CASE /\ saved' = [saved EXCEPT ![current] = @ \cup {"publish"}]
             /\ EndRegistration("added")
    <3>1. \A e \in Entries : /\ e # current => saved'[e] = saved[e]
                             /\ e = current => "publish" \in saved'[e]
      BY <1>4, <2>1
    <3>2. \A e \in Entries : e = current => Settled(e)'
      BY <1>2, <1>5, <1>10, <2>1, <3>1 DEF InProgress, Settled
    <3> QED
      BY <1>1, <1>3, <1>10, <2>1, <3>1, <3>2, RegistrationEnds
  <2>2. CASE step' = "remove" /\ UNCHANGED <<saved, current, result>>
    <3>1. InProgress'
      BY <1>2, <1>10, <2>2 DEF InProgress, NoTrace
    <3> QED
      BY <1>1, <1>3, <1>10, <2>2, <3>1, RegistrationGoesOn
  <2> QED
    BY <1>10, <2>1, <2>2
<1>11. CASE RemoveNotifier
  <2> USE DEF RemoveNotifier, Adding
  <2>1. InProgress'
    BY <1>1, <1>2, <1>11 DEF InProgress, NoTrace
  <2> QED
    BY <1>1, <1>3, <1>11, <2>1, RegistrationGoesOn
<1>12. CASE UndoRegistration
  <2> USE DEF UndoRegistration, Adding
  <2>1. \A e \in Entries : /\ e # current => saved'[e] = saved[e]
                           /\ e = current => saved'[e] = {}
    BY <1>4, <1>12
  <2>2. \A e \in Entries : e = current => Settled(e)'
    <3>1. \A e \in Entries : e = current => dictionary'[Key(e)] # e
      BY <1>1, <1>12, DictionaryChange, NoneIsNoEntry
    <3> QED
      BY <1>2, <1>5, <1>12, <2>1, <3>1 DEF InProgress, NoTrace, Settled
  <2> QED
    BY <1>1, <1>12, <2>1, <2>2, DictionaryChange, RegistrationEnds
<1> QED
  BY <1>6, <1>7, <1>8, <1>9, <1>10, <1>11, <1>12 DEF RegistrationStep

-----------------------------------------------------------------------------
(***************************************************************************)
(* The notifications.                                                      *)
(***************************************************************************)
LEMMA ViaStep ==
  ASSUME EngineTypeOK, ViaNotifier, [EngineNext]_engineVars
  PROVE  ViaNotifier'
<1> USE DEF ViaNotifier
<1>1. CASE UNCHANGED <<callback, notifiers>>
  BY <1>1
<1>2. CASE RegistrationStep
  <2>1. callback' = callback
    BY <1>2 DEF RegistrationStep, MakeEntry, InsertEntry, AddTerminated,
                AddPublish, SavePublish, RemoveNotifier, UndoRegistration,
                objectVars
  <2>2. \A o \in Objects : callback[o] # None => callback[o].via \in notifiers'
    BY <1>2 DEF RegistrationStep, MakeEntry, InsertEntry, AddTerminated,
                AddPublish, SavePublish, RemoveNotifier, UndoRegistration
  <2> QED
    BY <2>1, <2>2
<1>3. ASSUME NEW o \in Objects, NotificationStep(o) PROVE ViaNotifier'
  <2>1. /\ notifiers' = notifiers
        /\ callback \in [Objects -> Notifications \cup {None}]
        /\ due[o] \subseteq notifiers
    BY <1>3 DEF NotificationStep, StartCallback, LookupCallback,
                FirstPublishCallback, LookupVtable, HookVtable, LookupObject,
                HookPerObject, NotificationFrame, EngineTypeOK, Notifications
  <2>2. ASSUME NEW s, NEW e, Continue(o, s, e), callback[o] # None
        PROVE  ViaNotifier'
    BY <2>1, <2>2, Continued
  <2>3. CASE StartCallback(o)
    <3>1. PICK e \in due[o] :
            callback' = [callback EXCEPT ![o] =
                           [via |-> e, step |-> "lookup", entry |-> None,
                            depth |-> 0]]
      BY <2>3 DEF StartCallback
    <3> QED
      BY <2>1, <3>1
  <2>4. CASE LookupVtable(o)
    <3>1. CASE \E s, e : Continue(o, s, e)
      BY <2>2, <2>4, <3>1 DEF LookupVtable, At
    <3>2. CASE callback' = [callback EXCEPT ![o].depth = callback[o].depth + 1]
      <4>1. callback[o] \in Notifications
        BY <2>1, <2>4 DEF LookupVtable, At
      <4>2. callback'[o].via = callback[o].via
        BY <2>1, <3>2, <4>1 DEF Notifications
      <4>3. \A p \in Objects : p # o => callback'[p] = callback[p]
        BY <2>1, <3>2
      <4> QED
        BY <2>1, <2>4, <4>2, <4>3 DEF LookupVtable, At
    <3> QED
      BY <2>4, <3>1, <3>2 DEF LookupVtable
  <2>5. CASE callback' = [callback EXCEPT ![o] = None]
    BY <2>1, <2>5
  <2> QED
    BY <1>3, <2>2, <2>3, <2>4, <2>5
       DEF NotificationStep, LookupCallback, FirstPublishCallback, HookVtable,
           LookupObject, HookPerObject, At
<1> QED
  BY <1>1, <1>2, <1>3
     DEF EngineNext, CreationStep, Publish, objectVars, engineVars

\* A step that changes no dictionary changes no vtable hooker.
LEMMA NearestKept ==
  ASSUME dictionary' = dictionary, NEW o \in Objects
  PROVE  /\ \A e \in Entries : Reaches(e, o)' <=> Reaches(e, o)
         /\ Nearest(o)' = Nearest(o)
BY DEF Nearest, Reaches, Key, Entries

\* Once the vtable hookers are registered the registering thread changes none.
LEMMA VtablesStay ==
  ASSUME EngineTypeOK, VtablesOver, RegistrationStep
  PROVE  /\ VtablesOver'
         /\ \A o \in Objects : \A e \in Entries : Reaches(e, o)' <=> Reaches(e, o)
         /\ \A o \in Objects : Nearest(o)' = Nearest(o)
<1>1. current \in Entries /\ current' \in {current, current + 1}
  BY DEF RegistrationStep, Adding, MakeEntry, InsertEntry, AddTerminated,
         AddPublish, SavePublish, RemoveNotifier, UndoRegistration,
         EndRegistration
<1>2. VtablesOver'
  <2>1. \A e \in Entries : e < current => e < current'
    BY <1>1, KeyFacts
  <2> QED
    BY <2>1 DEF VtablesOver
<1>3. Key(current).type # "vtable"
  BY <1>1, KeyFacts DEF VtablesOver
<1>4. \/ dictionary' = dictionary
      \/ \E d : dictionary' = [dictionary EXCEPT ![Key(current)] = d]
  BY DEF RegistrationStep, MakeEntry, InsertEntry, AddTerminated,
         AddPublish, SavePublish, RemoveNotifier, UndoRegistration
<1>5. \A e \in Entries :
        Key(e).type = "vtable" => dictionary'[Key(e)] = dictionary[Key(e)]
  BY <1>3, <1>4, KeyFacts DEF EngineTypeOK
<1>6. \A o \in Objects : \A e \in Entries : Reaches(e, o)' <=> Reaches(e, o)
  BY <1>5 DEF Reaches
<1> QED
  BY <1>2, <1>6 DEF Nearest

\* A notification and the hooks of an object that a step does not touch.
LEMMA WalkKept ==
  ASSUME WalkInv, NEW o \in Objects,
         callback'[o] = callback[o], hooked'[o] = hooked[o],
         callback[o] # None \/ hooked[o] # {} =>
           /\ VtablesOver'
           /\ \A e \in Entries : Reaches(e, o)' <=> Reaches(e, o)
           /\ Nearest(o)' = Nearest(o)
  PROVE  /\ callback'[o] # None => Walk(o)'
         /\ hooked'[o] # {} => VtablesOver' /\ VtableHooks(o)' = Nearest(o)'
<1>1. VtableHooks(o)' = VtableHooks(o)
  BY DEF VtableHooks
<1>2. ASSUME callback[o] # None PROVE Walk(o)'
  BY <1>1, <1>2 DEF WalkInv, Walk
<1> QED
  BY <1>1, <1>2 DEF WalkInv

\* A step of a notification keeps what it and the others have found.
LEMMA WalkNotification ==
  ASSUME EngineTypeOK, RegistrationInv, ViaNotifier, WalkInv,
         NEW o \in Objects, NotificationStep(o)
  PROVE  WalkInv'
<1>1. /\ dictionary' = dictionary /\ current' = current
      /\ callback \in [Objects -> Notifications \cup {None}]
      /\ hooked \in [Objects -> SUBSET Entries]
      /\ \A p \in Objects : p # o =>
           callback'[p] = callback[p] /\ hooked'[p] = hooked[p]
  BY DEF NotificationStep, StartCallback, LookupCallback,
         FirstPublishCallback, LookupVtable, HookVtable, LookupObject,
         HookPerObject, NotificationFrame, EngineTypeOK, Notifications,
         Continue, CallHook, registrationVars
<1>2. VtablesOver' <=> VtablesOver
  BY <1>1 DEF VtablesOver, Entries, Key
<1>3. ASSUME NEW p \in Objects
      PROVE  /\ \A e \in Entries : Reaches(e, p)' <=> Reaches(e, p)
             /\ Nearest(p)' = Nearest(p)
  BY <1>1, NearestKept
<1>4. \A p \in Objects : callback[p] # None \/ hooked[p] # {} => VtablesOver
  BY NotifiersLate DEF ViaNotifier, WalkInv
<1>5. ASSUME /\ callback'[o] # None => Walk(o)'
             /\ hooked'[o] # {} => VtablesOver' /\ VtableHooks(o)' = Nearest(o)'
      PROVE  WalkInv'
  <2>1. ASSUME NEW p \in Objects, p # o
        PROVE  /\ callback'[p] # None => Walk(p)'
               /\ hooked'[p] # {} => VtablesOver' /\ VtableHooks(p)' = Nearest(p)'
    BY <1>1, <1>2, <1>3, <1>4, <2>1, WalkKept
  <2> QED
    BY <1>5, <2>1 DEF WalkInv
<1>6. ASSUME hooked'[o] = hooked[o]
      PROVE  /\ VtableHooks(o)' = VtableHooks(o)
             /\ hooked'[o] # {} => VtablesOver' /\ VtableHooks(o)' = Nearest(o)'
  BY <1>2, <1>3, <1>6 DEF WalkInv, VtableHooks
<1>7. ASSUME NEW s, NEW e, Continue(o, s, e), callback[o] # None
      PROVE  /\ callback'[o].step = s /\ callback'[o].entry = e
             /\ callback'[o].depth = callback[o].depth
  BY <1>1, <1>7, Continued
<1>8. ASSUME Continue(o, "vtable", None), callback[o] # None,
             callback[o].depth = 0, hooked'[o] = hooked[o]
      PROVE  WalkInv'
  <2>1. \A e \in Entries : 0 <= Key(e).depth
    BY KeyFacts, EngineAssumption DEF EngineAssumption
  <2>2. Walk(o)'
    BY <1>7, <1>8, <2>1 DEF Walk
  <2> QED
    BY <1>5, <1>6, <1>8, <2>2
<1>9. ASSUME Continue(o, "object", None), callback[o] # None,
             VtableHooks(o)' = Nearest(o)
      PROVE  WalkInv'
  <2>1. Walk(o)'
    BY <1>3, <1>7, <1>9 DEF Walk
  <2> QED
    BY <1>2, <1>3, <1>4, <1>5, <1>9, <2>1
<1>10. ObjectEntry(o) # None =>
         ObjectEntry(o) \in Entries /\ Key(ObjectEntry(o)).type = "object"
  BY ObjectKey DEF ObjectEntry, EngineTypeOK, RegistrationInv
<1>11. CASE StartCallback(o)
  <2>1. PICK e \in due[o] :
          callback' = [callback EXCEPT ![o] =
                         [via |-> e, step |-> "lookup", entry |-> None,
                          depth |-> 0]]
    BY <1>11 DEF StartCallback
  <2>2. callback'[o].step = "lookup" /\ callback'[o].depth = 0
    BY <1>1, <2>1
  <2>3. Walk(o)'
    BY <2>2 DEF Walk
  <2> QED
    BY <1>5, <1>6, <1>11, <2>3 DEF StartCallback
<1>12. CASE LookupCallback(o)
  <2>1. callback[o] # None /\ callback[o].depth = 0 /\ hooked' = hooked
    BY <1>12 DEF LookupCallback, At, WalkInv, Walk
  <2>2. CASE Continue(o, "callback", ObjectEntry(o))
    <3>1. Walk(o)'
      BY <1>7, <2>1, <2>2 DEF Walk
    <3> QED
      BY <1>5, <1>6, <2>1, <3>1
  <2> QED
    BY <1>8, <1>12, <2>1, <2>2 DEF LookupCallback
<1>13. CASE FirstPublishCallback(o)
  <2>1. callback[o] # None /\ callback[o].depth = 0 /\ hooked' = hooked
    BY <1>13 DEF FirstPublishCallback, At, WalkInv, Walk
  <2> QED
    BY <1>8, <1>13, <2>1 DEF FirstPublishCallback
<1>14. CASE LookupVtable(o)
  <2> DEFINE d == callback[o].depth
             k == [class |-> Line[ClassOf[o]][d + 1], type |-> "vtable",
                   depth |-> d]
             e == dictionary[k]
  <2>1. /\ callback[o] # None /\ hooked' = hooked
        /\ callback[o] \in Notifications /\ callback[o].step = "vtable"
        /\ d \in Nat
        /\ \A x \in Entries : Reaches(x, o) => d <= Key(x).depth
    BY <1>1, <1>14, EngineAssumption
       DEF LookupVtable, At, WalkInv, Walk, Notifications, EngineAssumption
  <2>2. CASE d < Len(Line[ClassOf[o]]) /\ d < MaxDepth
    <3>1. k \in Keys
      BY <2>1, <2>2, VtableKey
    <3>2. ASSUME NEW x \in Entries, Reaches(x, o), Key(x).depth = d
          PROVE  x = e
      <4>1. Key(x) = k
        BY <3>2, KeyFacts DEF Reaches, Keys
      <4> QED
        BY <3>2, <4>1 DEF Reaches
    <3>3. CASE e = None
      <4>1. callback' = [callback EXCEPT ![o].depth = d + 1]
        BY <1>14, <2>2, <3>3 DEF LookupVtable
      <4>2. callback'[o].step = "vtable" /\ callback'[o].depth = d + 1
        BY <1>1, <2>1, <4>1 DEF Notifications
      <4>3. ASSUME NEW x \in Entries, Reaches(x, o)
            PROVE  d + 1 <= Key(x).depth
        <5>1. Key(x).depth # d
          BY <3>2, <3>3, <4>3, NoneIsNoEntry
        <5>2. Key(x).depth \in Nat
          BY KeyFacts, EngineAssumption DEF EngineAssumption
        <5> QED
          BY <2>1, <4>3, <5>1, <5>2
      <4>4. Walk(o)'
        BY <1>3, <4>2, <4>3 DEF Walk
      <4> QED
        BY <1>5, <1>6, <2>1, <4>4
    <3>4. CASE e # None
      <4>1. Continue(o, "hookVtable", e)
        BY <1>14, <2>2, <3>4 DEF LookupVtable
      <4>2. e \in Entries /\ Key(e) = k
        BY <3>1, <3>4 DEF EngineTypeOK, RegistrationInv
      <4>3. Reaches(e, o)
        BY <2>2, <4>2 DEF Reaches
      <4>4. e \in Nearest(o)
        BY <2>1, <4>2, <4>3 DEF Nearest
      <4>5. callback'[o].step = "hookVtable" /\ callback'[o].entry = e
        BY <1>7, <2>1, <4>1
      <4>6. Walk(o)'
        BY <1>3, <4>4, <4>5 DEF Walk
      <4> QED
        BY <1>5, <1>6, <2>1, <4>6
    <3> QED
      BY <3>3, <3>4
  <2>3. CASE ~(d < Len(Line[ClassOf[o]]) /\ d < MaxDepth)
    <3>1. Continue(o, "object", None)
      BY <1>14, <2>3 DEF LookupVtable
    <3>2. ASSUME NEW x \in Entries, Reaches(x, o) PROVE FALSE
      <4>1. d <= Key(x).depth /\ Key(x).depth \in 0..MaxDepth - 1
        BY <2>1, <3>2, KeyFacts
      <4>2. Key(x).depth < Len(Line[ClassOf[o]])
        BY <3>2 DEF Reaches
      <4>3. Len(Line[ClassOf[o]]) \in Nat
        BY EngineAssumption DEF EngineAssumption
      <4> QED
        BY <2>1, <2>3, <4>1, <4>2, <4>3, EngineAssumption DEF EngineAssumption
    <3>3. Nearest(o) = {}
      BY <3>2 DEF Nearest
    <3>4. VtableHooks(o)' = Nearest(o)
      <4>1. CASE hooked[o] = {}
        BY <2>1, <3>3, <4>1 DEF VtableHooks
      <4>2. CASE hooked[o] # {}
        BY <1>3, <1>6, <2>1, <4>2
      <4> QED
        BY <4>1, <4>2
    <3> QED
      BY <1>9, <2>1, <3>1, <3>4
  <2> QED
    BY <2>2, <2>3
<1>15. CASE HookVtable(o)
  <2> DEFINE e == callback[o].entry
  <2>1. /\ callback[o] # None /\ e \in Nearest(o)
        /\ Continue(o, "object", None)
    BY <1>15 DEF HookVtable, At, WalkInv, Walk
  <2>2. hooked'[o] = hooked[o] \cup {e}
    BY <1>1, <1>15 DEF HookVtable, CallHook
  <2>3. VtableHooks(o) \subseteq Nearest(o)
    BY DEF WalkInv, VtableHooks
  <2>4. Key(e).type = "vtable"
    BY <2>1 DEF Nearest, Reaches
  <2>5. VtableHooks(o)' = VtableHooks(o) \cup {e}
    BY <2>2, <2>4 DEF VtableHooks
  <2>6. Nearest(o) = {e}
    BY <2>1, NearestUnique
  <2>7. VtableHooks(o)' = Nearest(o)
    BY <2>3, <2>5, <2>6
  <2> QED
    BY <1>9, <2>1, <2>7
<1>16. CASE LookupObject(o)
  <2>1. /\ callback[o] # None /\ hooked' = hooked
        /\ VtableHooks(o) = Nearest(o)
    BY <1>16 DEF LookupObject, At, WalkInv, Walk
  <2>2. CASE ObjectEntry(o) = None
    <3>1. callback'[o] = None
      BY <1>1, <1>16, <2>2 DEF LookupObject
    <3> QED
      BY <1>5, <1>6, <2>1, <3>1
  <2>3. CASE ObjectEntry(o) # None
    <3>1. callback'[o].step = "hookObject" /\ callback'[o].entry = ObjectEntry(o)
      BY <1>7, <1>16, <2>1, <2>3 DEF LookupObject
    <3>2. Walk(o)'
      BY <1>3, <1>6, <1>10, <2>1, <2>3, <3>1 DEF Walk
    <3> QED
      BY <1>5, <1>6, <2>1, <3>2
  <2> QED
    BY <2>2, <2>3
<1>17. CASE HookPerObject(o)
  <2> DEFINE e == callback[o].entry
  <2>1. /\ callback[o] # None
        /\ VtableHooks(o) = Nearest(o)
        /\ Key(e).type = "object"
    BY <1>17 DEF HookPerObject, At, WalkInv, Walk
  <2>2. callback'[o] = None /\ hooked'[o] = hooked[o] \cup {e}
    BY <1>1, <1>17 DEF HookPerObject, CallHook
  <2>3. VtableHooks(o)' = VtableHooks(o)
    BY <2>1, <2>2 DEF VtableHooks
  <2> QED
    BY <1>2, <1>3, <1>4, <1>5, <2>1, <2>2, <2>3
<1> QED
  BY <1>11, <1>12, <1>13, <1>14, <1>15, <1>16, <1>17 DEF NotificationStep

LEMMA WalkStep ==
  ASSUME EngineInv, [EngineNext]_engineVars
  PROVE  WalkInv'
<1> USE DEF EngineInv
<1>1. \A o \in Objects : callback[o] # None \/ hooked[o] # {} => VtablesOver
  BY NotifiersLate DEF ViaNotifier, WalkInv
<1>2. CASE UNCHANGED <<dictionary, current, callback, hooked>>
  <2>1. VtablesOver' <=> VtablesOver
    BY <1>2 DEF VtablesOver, Entries, Key
  <2> QED
    BY <1>1, <1>2, <2>1, NearestKept, WalkKept DEF WalkInv
<1>3. CASE RegistrationStep
  <2>1. callback' = callback /\ hooked' = hooked
    BY <1>3 DEF RegistrationStep, MakeEntry, InsertEntry, AddTerminated,
                AddPublish, SavePublish, RemoveNotifier, UndoRegistration,
                objectVars
  <2> QED
    BY <1>1, <1>3, <2>1, VtablesStay, WalkKept DEF WalkInv
<1> QED
  BY <1>2, <1>3, WalkNotification
     DEF EngineNext, CreationStep, Publish, objectVars, registrationVars,
         engineVars

-----------------------------------------------------------------------------
(***************************************************************************)
(* The theorems.                                                           *)
(***************************************************************************)
\* The invariant holds whatever the classes, the registrations and the
\* failures are, and whenever objects are published.
THEOREM EngineInvariant == EngineSpec => []EngineInv
<1>1. EngineInit => EngineInv
  BY TypeInit, RegistrationInit DEF EngineInv
<1>2. EngineInv /\ [EngineNext]_engineVars => EngineInv'
  <2> SUFFICES ASSUME EngineInv, [EngineNext]_engineVars PROVE EngineInv'
    OBVIOUS
  <2>1. EngineTypeOK' /\ ViaNotifier' /\ WalkInv'
    BY TypeStep, ViaStep, WalkStep DEF EngineInv
  <2>2. RegistrationInv'
    <3>1. CASE RegistrationStep
      BY <3>1, RegistrationStepInv DEF EngineInv
    <3>2. CASE UNCHANGED <<registrationVars, notifiers>>
      BY <3>2, RegistrationKept DEF EngineInv
    <3> QED
      BY <3>1, <3>2
         DEF EngineNext, CreationStep, Publish, NotificationStep,
             StartCallback, LookupCallback, FirstPublishCallback, LookupVtable,
             HookVtable, LookupObject, HookPerObject, NotificationFrame,
             engineVars
  <2> QED
    BY <2>1, <2>2 DEF EngineInv
<1> QED
  BY <1>1, <1>2, PTL DEF EngineSpec

\* Every variable keeps its type; in particular the notifications that are due
\* are those of notifiers that IOKit still knows.
THEOREM EngineTypeCorrect == EngineSpec => []EngineTypeOK
BY EngineInvariant, PTL DEF EngineInv

\* HookObject applies the nearest of the direct vtable hooks and no other,
\* and has applied it before it comes to the per-object hook.
THEOREM NearestHookOnly == EngineSpec => []NearestOnly
<1>1. EngineInv => NearestOnly
  BY DEF EngineInv, WalkInv, Walk, NearestOnly, At, VtableHooks
<1> QED
  BY <1>1, EngineInvariant, PTL

\* Every error path of AddNewIOKitClass undoes all that the call has done.
THEOREM FailedRegistrationUndone == EngineSpec => []FailedLeavesNothing
<1>1. EngineInv => FailedLeavesNothing
  <2> SUFFICES ASSUME EngineInv, NEW e \in Entries, result[e] = "failed"
               PROVE  /\ NoTrace(e)
                      /\ \A o \in Objects :
                           callback[o] # None => callback[o].via # e
    BY DEF FailedLeavesNothing, NoTrace
  <2>1. e < current
    BY KeyFacts DEF EngineInv, EngineTypeOK, RegistrationInv, InProgress
  <2>2. NoTrace(e)
    BY <2>1 DEF EngineInv, RegistrationInv, Settled
  <2> QED
    BY <2>2 DEF EngineInv, ViaNotifier, NoTrace
<1> QED
  BY <1>1, EngineInvariant, PTL

\* IOKit knows exactly the notifiers that the entries in the dictionary are to
\* remove.
THEOREM NotifiersAreOwned == EngineSpec => []NotifiersOwned
<1>1. EngineInv => NotifiersOwned
  <2> SUFFICES ASSUME EngineInv, NEW e \in Entries, e # current
               PROVE  e \in notifiers <=>
                        dictionary[Key(e)] = e /\ "publish" \in saved[e]
    BY DEF NotifiersOwned
  <2>1. CASE e < current
    BY <2>1 DEF EngineInv, RegistrationInv, Settled, NoTrace
  <2>2. CASE e > current
    BY <2>2 DEF EngineInv, RegistrationInv, NoTrace
  <2> QED
    BY <2>1, <2>2, KeyFacts DEF EngineInv, EngineTypeOK
<1> QED
  BY <1>1, EngineInvariant, PTL

-----------------------------------------------------------------------------
(***************************************************************************)
(* Notifications use the entries they look up without a reference to them. *)
(* That is a mistake only because a registration may fail.                 *)
(***************************************************************************)
InUse(e) == dictionary[Key(e)] = e

NothingUndone ==
  /\ step \notin {"remove", "undo"}
  /\ \A o \in Objects :
       callback[o] # None /\ callback[o].entry # None =>
         callback[o].entry \in Entries /\ InUse(callback[o].entry)

LEMMA NothingUndoneStep ==
  ASSUME ~Fails, EngineInv, NothingUndone, [EngineNext]_engineVars
  PROVE  NothingUndone'
<1> USE DEF NothingUndone, EngineInv
<1>1. callback \in [Objects -> Notifications \cup {None}]
  BY DEF EngineTypeOK, Notifications
<1>2. CASE UNCHANGED <<step, callback, dictionary>>
  BY <1>2 DEF InUse, Key, Entries
<1>3. CASE RegistrationStep
  <2>1. callback' = callback /\ step' \notin {"remove", "undo"}
    BY <1>3 DEF RegistrationStep, Adding, MakeEntry, InsertEntry, AddTerminated,
                AddPublish, SavePublish, RemoveNotifier, UndoRegistration,
                EndRegistration, objectVars
  <2>2. \/ dictionary' = dictionary
        \/ /\ current \in Entries
           /\ dictionary' = [dictionary EXCEPT ![Key(current)] = current]
    BY <1>3 DEF RegistrationStep, Adding, MakeEntry, InsertEntry, AddTerminated,
                AddPublish, SavePublish, RemoveNotifier, UndoRegistration
  <2>3. \A e \in Entries : InUse(e) => InUse(e)'
    BY <2>2, KeyFacts, KeysDistinct DEF InUse, EngineTypeOK
  <2> QED
    BY <2>1, <2>3
<1>4. ASSUME NEW o \in Objects, NotificationStep(o) PROVE NothingUndone'
  <2>1. /\ dictionary' = dictionary /\ step' = step
        /\ \A p \in Objects : p # o => callback'[p] = callback[p]
    BY <1>1, <1>4
       DEF NotificationStep, StartCallback, LookupCallback,
           FirstPublishCallback, LookupVtable, HookVtable, LookupObject,
           HookPerObject, NotificationFrame, Continue, registrationVars
  <2>2. ASSUME callback'[o] # None /\ callback'[o].entry # None =>
                 callback'[o].entry \in Entries /\ InUse(callback'[o].entry)
        PROVE  NothingUndone'
    BY <2>1, <2>2 DEF InUse
  <2>3. ASSUME NEW k \in Keys, dictionary[k] # None
        PROVE  dictionary[k] \in Entries /\ InUse(dictionary[k])
    BY <2>3 DEF EngineTypeOK, RegistrationInv, InUse
  <2>4. ASSUME NEW s, NEW e, Continue(o, s, e), callback[o] # None,
               e # None => e \in Entries /\ InUse(e)
        PROVE  NothingUndone'
    BY <1>1, <2>2, <2>4, Continued
  <2>5. ObjectEntry(o) # None => ObjectEntry(o) \in Entries /\ InUse(ObjectEntry(o))
    BY <2>3, ObjectKey DEF ObjectEntry
  <2>6. CASE StartCallback(o)
    <3>1. callback'[o].entry = None
      BY <1>1, <2>6 DEF StartCallback
    <3> QED
      BY <2>2, <3>1
  <2>7. CASE LookupVtable(o)
    <3> DEFINE d == callback[o].depth
               k == [class |-> Line[ClassOf[o]][d + 1], type |-> "vtable",
                     depth |-> d]
    <3>1. callback[o] # None /\ callback[o] \in Notifications
      BY <1>1, <2>7 DEF LookupVtable, At
    <3>2. CASE /\ d < Len(Line[ClassOf[o]]) /\ d < MaxDepth
               /\ dictionary[k] # None
      <4>1. dictionary[k] \in Entries /\ InUse(dictionary[k])
        BY <2>3, <3>1, <3>2, VtableKey
      <4> QED
        BY <2>4, <2>7, <3>1, <3>2, <4>1 DEF LookupVtable
    <3>3. CASE Continue(o, "object", None)
      BY <2>4, <3>1, <3>3
    <3>4. CASE callback' = [callback EXCEPT ![o].depth = d + 1]
      <4>1. callback'[o].entry = callback[o].entry
        BY <1>1, <3>1, <3>4 DEF Notifications
      <4> QED
        BY <2>2, <3>1, <4>1
    <3> QED
      BY <2>7, <3>2, <3>3, <3>4 DEF LookupVtable
  <2>8. CASE callback' = [callback EXCEPT ![o] = None]
    BY <1>1, <2>2, <2>8
  <2> QED
    BY <1>4, <2>4, <2>5, <2>6, <2>7, <2>8
       DEF NotificationStep, LookupCallback, FirstPublishCallback, HookVtable,
           LookupObject, HookPerObject, At
<1> QED
  BY <1>2, <1>3, <1>4
     DEF EngineNext, CreationStep, Publish, objectVars, registrationVars,
         engineVars

\* If no allocation and no registration with IOKit fails, the entry that
\* HookObject and CallObjectFirstPublishCallback have looked up is an entry as
\* long as they use it.
THEOREM AliveUnlessFailing == ~Fails => (EngineSpec => []EntryAlive)
<1> SUFFICES ASSUME ~Fails PROVE EngineSpec => []EntryAlive
  OBVIOUS
<1>1. EngineInit => NothingUndone
  BY DEF EngineInit, NothingUndone
<1>2. EngineInv /\ NothingUndone /\ [EngineNext]_engineVars => NothingUndone'
  BY NothingUndoneStep
<1>3. NothingUndone => EntryAlive
  BY DEF NothingUndone, InUse, EntryAlive, Alive
<1> QED
  BY <1>1, <1>2, <1>3, EngineInvariant, PTL DEF EngineSpec
=============================================================================
