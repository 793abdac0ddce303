----------------------------- MODULE MCHookChain -----------------------------
(***************************************************************************)
(* Instances of HookChain: one class, its vtable v1, one hooker of each    *)
(* kind, p1 the private vtable of the per-object hooker p.                 *)
(***************************************************************************)
EXTENDS HookChain, TLC

CONSTANTS o1, o2, c1, v1, p1, h, p

MCObjects     == {o1, o2}
MCClassOf     == [o \in MCObjects |-> c1]
MCSupers      == c1 :> {c1}
MCVtablesOf   == c1 :> {v1}
MCServes      == h :> {c1}
MCHookedClass == p :> c1
MCPrivate     == p :> p1

Symmetry == Permutations(EntryIds)
=============================================================================
