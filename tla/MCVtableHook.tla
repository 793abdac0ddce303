---------------------------- MODULE MCVtableHook ----------------------------
(***************************************************************************)
(* Instances of VtableHook: two objects of class c1 and one of class c2.   *)
(***************************************************************************)
EXTENDS VtableHook, TLC

CONSTANTS o1, o2, o3, c1, c2, v1, w1, v2, g, h

\* o1 and o2 share a class and a vtable, o3 is of another class.
MCClassOf == (o1 :> c1) @@ (o2 :> c1) @@ (o3 :> c2)

\* Every class uses the vtable of its code, or other software gives some
\* objects of class c1 a vtable w1, and objects of class c2 the one of
\* class c1.
OwnVtables      == (c1 :> {v1}) @@ (c2 :> {v2})
ReplacedVtables == (c1 :> {v1, w1}) @@ (c2 :> {v2})
SharedVtable    == (c1 :> {v1, w1}) @@ (c2 :> {v1})

\* Class c2 derives from class c1 or from none that is hooked.
NoneDerived == [c \in Classes |-> {c}]
OneDerived  == (c1 :> {c1}) @@ (c2 :> {c1, c2})

\* One hooker for both classes, or a second one for class c2 besides, or one
\* for each.
OneHooker  == h :> {c1, c2}
TwoHookers == (g :> {c2}) @@ (h :> {c1, c2})
OneForEach == (g :> {c2}) @@ (h :> {c1})

\* Entries of vtables are only told apart.
Symmetry == Permutations(EntryIds)
=============================================================================
