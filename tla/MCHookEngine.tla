---------------------------- MODULE MCHookEngine ----------------------------
EXTENDS HookEngine, TLC

CONSTANTS a, b, c, x, y

\* Class c extends b, which extends a; x is a b and y is a c.
MCLine == a :> <<a>> @@ b :> <<b, a>> @@ c :> <<c, b, a>>
MCClassOf == x :> b @@ y :> c

Reg(class, type, depth) == [class |-> class, type |-> type, depth |-> depth]

\* x is reached by the hookers of b and, farther, of a; y by the second one of
\* a; and the notifier of b tells of y too.
MCRegistrations ==
  << Reg(a, "vtable", 1), Reg(b, "vtable", 0), Reg(a, "vtable", 2),
     Reg(b, "object", 0), Reg(c, "object", 0) >>
=============================================================================
