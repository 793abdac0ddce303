----------------------------- MODULE MCGhtTable -----------------------------
(***************************************************************************)
(* Instances of GhtTable with up to four keys.                             *)
(***************************************************************************)
EXTENDS GhtTable, TLC

CONSTANTS k1, k2, k3, k4, d1, d2

\* In a table of two buckets three keys are in one bucket and k4 in the other,
\* in one of four k2 is on its own.
ThreeAndOne == [k \in Keys |-> CASE k = k1 -> 0 [] k = k2 -> 2
                                 [] k = k3 -> 4 [] OTHER -> 1]

Plain == [size |-> 2, newSizes |-> {}, heuristics |-> "none",
          automatic |-> FALSE, limit |-> 0, keys |-> {k1, k2, k3},
          data |-> {d1}, iterates |-> FALSE, memory |-> TRUE]

\* A table that is iterated over, with each of the heuristics, and with data
\* to be replaced under the one that reorders most.
Iterated == {[Plain EXCEPT !.heuristics = h, !.iterates = TRUE] :
               h \in {"none", "transpose"}}
            \cup {[Plain EXCEPT !.heuristics = "move_to_front",
                                !.iterates = TRUE, !.data = {d1, d2}]}

\* One that grows by itself, from one bucket to two.
Growing == {[Plain EXCEPT !.size = 1, !.automatic = TRUE, !.keys = Keys,
                          !.memory = m] : m \in BOOLEAN}

\* One that its owner grows and shrinks, also while it is iterated over.
Resized == {[Plain EXCEPT !.newSizes = {1, 3}, !.memory = FALSE],
            [Plain EXCEPT !.newSizes = {1, 3}, !.heuristics = "move_to_front"],
            [Plain EXCEPT !.newSizes = {1}, !.iterates = TRUE]}

\* One whose buckets hold two entries, also while it is iterated over.
Bounded == {[Plain EXCEPT !.limit = 2, !.keys = Keys, !.heuristics = h] :
              h \in {"transpose", "move_to_front"}}
           \cup {[Plain EXCEPT !.limit = 2, !.iterates = TRUE]}

MCUses == Iterated \cup Growing \cup Resized \cup Bounded
=============================================================================
