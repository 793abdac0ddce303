--------------------------- MODULE MCVtableMemory ---------------------------
(***************************************************************************)
(* An instance of VtableMemory: words of two bytes, pages of four words.   *)
(* The vtable's header is at the start of page 1 and its functions go on   *)
(* to page 2, and to page 3 if that is mapped; the entries of              *)
(* HookedFunctonsInfo are in pages 4 and 5, page 6 and what follows is the *)
(* heap.                                                                   *)
(***************************************************************************)
EXTENDS VtableMemory, TLC

\* Frames in order or scattered, with and without page 3.
PagesInOrder == [p \in 0..9 |-> IF p = 0 THEN 0 ELSE p]
Scattered    == [p \in 0..9 |-> IF p \in {0, 3} THEN 0 ELSE 10 - p]
MCPageTables == {PagesInOrder, [PagesInOrder EXCEPT ![3] = 0], Scattered}

\* The two hookers hook one common entry, the direct one at a page's start.
MCHooked == [k \in Kinds |-> IF k = "direct" THEN <<3, 1>> ELSE <<2, 3>>]
MCInfoAt == [k \in Kinds |-> IF k = "direct" THEN 32 ELSE 40]
=============================================================================
