------------------------- MODULE StaticInstanceProofs -------------------------
(***************************************************************************)
(* Proofs about StaticInstance for any number of threads and any number of *)
(* hooks.  The inductive invariant ties the place a thread has reached in  *)
(* the call to what exists of its instance: a thread past the              *)
(* compare-and-swap is the owner of mStaticInstance, and an instance that  *)
(* is not the static one belongs to a thread that is still at work on it.  *)
(***************************************************************************)
EXTENDS StaticInstance, TLAPS

\* The static instance is complete but for the hooks of its class, and its
\* maker is past the compare-and-swap.
StaticUsable ==
  static # NULL =>
    /\ static \in locks
    /\ inst[static] # NULL
    /\ inst[static].mInit
    /\ inst[static].hooks >= 1
    /\ pc[static] \in {"add", "answered", "idle"}

\* What exists of a thread's instance at each place of the call.
Progress ==
  \A t \in Threads :
    /\ pc[t] = "init" =>
         inst[t] # NULL /\ ~inst[t].mInit /\ t # static /\ t \notin locks
    /\ pc[t] = "publish" =>
         /\ inst[t] # NULL /\ inst[t].mInit /\ inst[t].hooks = 1
         /\ t # static /\ t \in locks
    /\ pc[t] = "add" => t = static
    /\ pc[t] = "free" =>
         inst[t] # NULL /\ t # static /\ (t \in locks <=> inst[t].mInit)
    /\ pc[t] = "answered" => answer[t] \in {NULL, static}

StaticInv == StaticTypeOK /\ StaticUsable /\ Progress /\ NothingLeaks

\* Nothing is registered and no instance exists at the start.
LEMMA StaticInvInit == StaticInit => StaticInv
BY StaticAssumption
   DEF StaticAssumption, StaticInit, StaticInv, StaticTypeOK, StaticUsable,
       Progress, NothingLeaks

\* Every step of fStaticContainerClassInstance keeps the invariant.
LEMMA StaticInvStep == StaticInv /\ [StaticNext]_staticVars => StaticInv'
<1> SUFFICES ASSUME StaticInv, [StaticNext]_staticVars
             PROVE  StaticInv'
  OBVIOUS
<1> USE StaticAssumption
    DEF StaticAssumption, StaticInv, StaticTypeOK, StaticUsable, Progress,
        NothingLeaks, Goto, Return
<1>0. /\ [mInit |-> FALSE, hooks |-> 0] \in Instances
      /\ [mInit |-> TRUE, hooks |-> 1] \in Instances
      /\ \A i \in Instances : i.hooks \in Nat /\ i.mInit \in BOOLEAN
      /\ \A i \in Instances : i.hooks <= Added =>
           [i EXCEPT !.hooks = @ + 1] \in Instances
  BY DEF Instances
<1>1. ASSUME NEW t \in Threads, Ask(t) PROVE StaticInv'
  BY <1>1 DEF Ask
<1>2. ASSUME NEW t \in Threads, New(t) PROVE StaticInv'
  <2> DEFINE made == [mInit |-> FALSE, hooks |-> 0]
  <2>1. made \in Instances /\ made # NULL /\ ~made.mInit
    BY <1>0
  <2>2. CASE MemoryFails /\ Return(t, NULL) /\ UNCHANGED inst
    BY <1>2, <2>2 DEF New
  <2>3. CASE /\ inst' = [inst EXCEPT ![t] = made]
             /\ Goto(t, "init") /\ UNCHANGED answer
    <3> HIDE DEF made
    <3> QED
      BY <1>2, <2>1, <2>3 DEF New
  <2> QED
    BY <1>2, <2>2, <2>3 DEF New
<1>3. ASSUME NEW t \in Threads, InitInstance(t) PROVE StaticInv'
  <2> DEFINE made == [mInit |-> TRUE, hooks |-> 1]
  <2>1. made \in Instances /\ made # NULL /\ made.mInit /\ made.hooks = 1
    BY <1>0
  <2>2. CASE MemoryFails /\ Goto(t, "free") /\ UNCHANGED <<locks, inst>>
    BY <1>3, <2>2 DEF InitInstance
  <2>3. CASE /\ locks' = locks \cup {t}
             /\ inst' = [inst EXCEPT ![t] = made] /\ Goto(t, "publish")
    <3> HIDE DEF made
    <3> QED
      BY <1>3, <2>1, <2>3 DEF InitInstance
  <2> QED
    BY <1>3, <2>2, <2>3 DEF InitInstance
<1>4. ASSUME NEW t \in Threads, Publish(t) PROVE StaticInv'
  BY <1>4 DEF Publish
<1>5. ASSUME NEW t \in Threads, AddHook(t) PROVE StaticInv'
  <2> DEFINE more == [inst[t] EXCEPT !.hooks = @ + 1]
  <2>1. t = static /\ inst[t] \in Instances /\ inst[t].mInit
    BY <1>5 DEF AddHook
  <2>2. CASE inst[t].hooks <= Added
    <3>1. /\ more \in Instances /\ more # NULL
          /\ more.mInit /\ more.hooks >= 1
      BY <1>0, <2>1, <2>2 DEF Instances
    <3>2. inst' = [inst EXCEPT ![t] = more]
      BY <1>5, <2>2 DEF AddHook
    <3> HIDE DEF more
    <3> QED
      BY <1>5, <2>1, <2>2, <3>1, <3>2 DEF AddHook
  <2>3. CASE ~(inst[t].hooks <= Added)
    BY <1>5, <2>1, <2>3 DEF AddHook
  <2> QED
    BY <2>2, <2>3
<1>6. ASSUME NEW t \in Threads, Discard(t) PROVE StaticInv'
  BY <1>6 DEF Discard
<1>7. ASSUME NEW t \in Threads, Done(t) PROVE StaticInv'
  BY <1>7 DEF Done
<1>8. CASE UNCHANGED staticVars
  BY <1>8 DEF staticVars
<1> QED
  BY <1>1, <1>2, <1>3, <1>4, <1>5, <1>6, <1>7, <1>8
     DEF StaticNext, ThreadStep

\* The invariant holds in every state.
LEMMA StaticInvHolds == StaticSpec => []StaticInv
BY StaticInvInit, StaticInvStep, PTL DEF StaticSpec

\* The state has its type: no hook is registered past the end of the table.
THEOREM StaticTypeCorrect == StaticSpec => []StaticTypeOK
<1>1. StaticInv => StaticTypeOK
  BY DEF StaticInv
<1> QED
  BY StaticInvHolds, <1>1, PTL

\* Every instance that a thread is answered is the static one, initialised,
\* and with its lock.
THEOREM UsableAnswers == StaticSpec => []AnswersUsable
<1>1. StaticInv => AnswersUsable
  BY StaticAssumption DEF StaticAssumption, StaticInv, StaticTypeOK,
     StaticUsable, Progress, AnswersUsable
<1> QED
  BY StaticInvHolds, <1>1, PTL

\* The thread that loses the race, or runs out of memory, leaves nothing.
THEOREM LosersLeaveNothing == StaticSpec => []NothingLeaks
<1>1. StaticInv => NothingLeaks
  BY DEF StaticInv
<1> QED
  BY StaticInvHolds, <1>1, PTL

\* The compare-and-swap registers one instance, for ever.
THEOREM OneForGood == StaticSpec => StaticForGood
<1>1. [StaticNext]_staticVars => [static # NULL => static' = static]_staticVars
  BY DEF StaticNext, ThreadStep, Ask, New, InitInstance, Publish, AddHook,
         Discard, Done, Return, Goto, staticVars
<1> QED
  BY <1>1, PTL DEF StaticSpec, StaticForGood
=============================================================================
