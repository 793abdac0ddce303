-------------------------------- MODULE GhtMap --------------------------------
(***************************************************************************)
(* What src/src/DldCommonHashTable.h promises of the hash table: a map     *)
(* from keys to data whose entries can be walked from the oldest to the    *)
(* newest while entries are inserted, replaced and removed.  The words in  *)
(* quotes are the header's.  The code does not keep all of it, module      *)
(* GhtTable says where (IsMap).                                            *)
(***************************************************************************)
EXTENDS Naturals, Sequences

CONSTANTS
  Keys,       \* the keys, compared by value
  Data,       \* the data, pointers that are not NULL
  Iterators,  \* ght_iterator_t variables of the callers
  NULL

VARIABLES
  content,  \* the entries, from the oldest to the newest
  todo,     \* todo[i]: the keys that the iteration i has yet to come to
  result,   \* what the last operation returned
  bounded   \* whether buckets are bounded, never changes

mapVars == <<content, todo, result, bounded>>

Present == {content[n].key : n \in DOMAIN content}
DataOf(k) == LET n == CHOOSE m \in DOMAIN content : content[m].key = k
             IN content[n].data
Without(K) == SelectSeq(content, LAMBDA r : r.key \notin K)

\* "When inserting elements into a bounded table, the last entry in the bucket
\* chain will be free:d."
Evicted == {{}} \cup IF bounded THEN {{k} : k \in Present} ELSE {}

MapInit ==
  /\ content = <<>>
  /\ todo = [i \in Iterators |-> <<>>]
  /\ result = NULL
  /\ bounded \in BOOLEAN

\* "the insertion will fail" if the key is there, or without memory.
InsertFails(k) ==
  /\ result' \in IF k \in Present THEN {"already"} ELSE {"error"}
  /\ UNCHANGED <<content, todo, bounded>>

\* "the entry might or might not occur in the iteration"
InsertEntry(k, d) ==
  /\ result' = "ok"
  /\ k \notin Present
  /\ \E K \in Evicted, I \in SUBSET Iterators :
       /\ content' = Append(Without(K), [key |-> k, data |-> d])
       /\ todo' = [i \in Iterators |->
                     LET rest == SelectSeq(todo[i], LAMBDA j : j \notin K)
                     IN IF i \in I THEN Append(rest, k) ELSE rest]
  /\ UNCHANGED bounded

Lookup(k) ==
  /\ result' = IF k \in Present THEN DataOf(k) ELSE NULL
  /\ UNCHANGED <<content, todo, bounded>>

\* "Replacing an entry does not affect its iteration order."
Replace(k, d) ==
  /\ result' = IF k \in Present THEN DataOf(k) ELSE NULL
  /\ content' = [n \in DOMAIN content |->
                   IF content[n].key = k THEN [content[n] EXCEPT !.data = d]
                   ELSE content[n]]
  /\ UNCHANGED <<todo, bounded>>

Remove(k) ==
  /\ result' = IF k \in Present THEN DataOf(k) ELSE NULL
  /\ content' = Without({k})
  /\ UNCHANGED <<todo, bounded>>

First(i) ==
  /\ IF content = <<>>
     THEN /\ result' = NULL
          /\ todo' = [todo EXCEPT ![i] = <<>>]
     ELSE /\ result' = content[1].data
          /\ todo' = [todo EXCEPT ![i] =
                        [n \in 1..(Len(content) - 1) |-> content[n + 1].key]]
  /\ UNCHANGED <<content, bounded>>

NextOf(i) ==
  /\ IF todo[i] = <<>>
     THEN result' = NULL /\ UNCHANGED todo
     ELSE /\ result' = DataOf(Head(todo[i]))
          /\ todo' = [todo EXCEPT ![i] = Tail(@)]
  /\ UNCHANGED <<content, bounded>>

\* "Free the hash table", while nobody iterates over it.
Finalize ==
  /\ \A i \in Iterators : todo[i] = <<>>
  /\ content' = <<>>
  /\ UNCHANGED <<todo, result, bounded>>

\* Rehashing is none of the operations: it changes "the size of the hash table,
\* retaining all elements".
MapNext ==
  \/ \E k \in Keys :
       \/ InsertFails(k) \/ Lookup(k) \/ Remove(k)
       \/ \E d \in Data : InsertEntry(k, d) \/ Replace(k, d)
  \/ \E i \in Iterators : First(i) \/ NextOf(i)
  \/ Finalize

MapSpec == MapInit /\ [][MapNext]_mapVars
=============================================================================
