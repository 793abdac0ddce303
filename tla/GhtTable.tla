------------------------------- MODULE GhtTable -------------------------------
(***************************************************************************)
(* The chained hash table of src/src/DldCommonHashTable.cpp: doubly linked *)
(* buckets with their counts, the list of all entries by age, bounded      *)
(* buckets, the access heuristics, rehashing and iterators.                *)
(*                                                                         *)
(* An operation is one step, its callers hold a lock.  The table is a      *)
(* record with the names of ght_hash_table_t; the fields of an entry are   *)
(* functions on its address.  A freed entry has the key NULL.  Nobody in   *)
(* the repository bounds buckets: what the callback fn_bucket_free, which  *)
(* a caller would provide, does to the evicted entry or, calling the table *)
(* again, to the table is left out.                                        *)
(***************************************************************************)
EXTENDS Integers, Sequences, FiniteSets, SequencesExt

CONSTANTS
  Keys, Data, Iterators, NULL,
  Hash,       \* Hash[k]: fn_hash of the key
  MaxEntry,   \* the entries are allocated at addresses 1..MaxEntry
  Uses        \* how the owners of tables use them, records:
              \*   size       the size passed to ght_create
              \*   newSizes   the sizes passed to ght_rehash
              \*   heuristics i_heuristics
              \*   automatic  i_automatic_rehash
              \*   limit      bucket_limit, 0 when buckets are not bounded
              \*   keys, data what is inserted and looked up
              \*   iterates   whether somebody iterates over the table
              \*   memory     FALSE: fn_alloc may fail during ght_rehash

\* There is memory for the entries of a table and of its rehashed copy.
ASSUME GhtMemory ==
  /\ NULL \notin Keys \cup Data \cup 1..MaxEntry
  /\ IsFiniteSet(Keys) /\ MaxEntry \in Nat
  /\ 2 * Cardinality(Keys) <= MaxEntry

ASSUME GhtConstants ==
  /\ Hash \in [Keys -> Nat]
  /\ Uses # {}
  /\ \A u \in Uses :
       /\ u.size \in Nat \ {0} /\ u.newSizes \subseteq Nat \ {0}
       /\ u.heuristics \in {"none", "transpose", "move_to_front"}
       /\ u.automatic \in BOOLEAN /\ u.memory \in BOOLEAN
       /\ u.limit \in Nat
       /\ u.keys \subseteq Keys /\ u.data \subseteq Data
       /\ u.iterates \in BOOLEAN

VARIABLES
  ht,      \* the table
  use,     \* how it is used, never changes
  cursor,  \* cursor[i]: p_next of the iterator
  result   \* what the last operation returned

tableVars == <<ht, use, cursor, result>>

-----------------------------------------------------------------------------

Addresses == 1..MaxEntry

\* ght_create rounds the size up to a power of two, 1 << i.
RoundUp(n) ==
  LET power[i \in 0..n] == IF i = 0 THEN 1 ELSE 2 * power[i - 1]
  IN power[CHOOSE i \in 0..n : /\ power[i] >= n
                               /\ \A j \in 0..(i - 1) : power[j] < n]

Nowhere == [e \in Addresses |-> NULL]
EmptyTable(n) ==
  [size |-> RoundUp(n), items |-> 0,
   head |-> [b \in 0..(RoundUp(n) - 1) |-> NULL],
   nr   |-> [b \in 0..(RoundUp(n) - 1) |-> 0],
   key |-> Nowhere, data |-> Nowhere, next |-> Nowhere, prev |-> Nowhere,
   older |-> Nowhere, newer |-> Nowhere, oldest |-> NULL, newest |-> NULL]

\* The table of an owner that has none.
NoTable == [EmptyTable(1) EXCEPT !.size = 0, !.head = <<>>, !.nr = <<>>]
Exists == ht.size # 0

Bucket(t, k) == Hash[k] % t.size

Allocated(t) == {e \in Addresses : t.key[e] # NULL}

\* if (p) p->field = v;
Put(f, e, v) == IF e = NULL THEN f ELSE [f EXCEPT ![e] = v]

\* The entries that are reached from e by one of the links.
Walk(link, e) ==
  LET path[n \in 0..MaxEntry] ==
        [f \in Addresses \cup {NULL} |->
           IF n = 0 \/ f = NULL THEN <<>> ELSE <<f>> \o path[n - 1][link[f]]]
  IN path[MaxEntry][e]

Chain(t, b) == Walk(t.next, t.head[b])
Ages(t) == Walk(t.newer, t.oldest)

\* search_in_bucket
Search(t, k) ==
  LET found == {e \in Range(Chain(t, Bucket(t, k))) : t.key[e] = k}
  IN IF found = {} THEN NULL ELSE CHOOSE e \in found : TRUE

transpose(t, e) ==
  LET x == t.prev[e]
      a == t.prev[x]
      b == t.next[e]
  IN IF x = NULL THEN t
     ELSE [t EXCEPT
             !.head[Bucket(t, t.key[e])] = IF a = NULL THEN e ELSE @,
             !.next = Put([@ EXCEPT ![x] = b, ![e] = x], a, e),
             !.prev = Put([@ EXCEPT ![x] = e, ![e] = a], b, x)]

PrevNotUpdated(t, e) ==
  LET first == t.head[Bucket(t, t.key[e])] IN
  IF e = first THEN t
  ELSE [t EXCEPT
          !.head[Bucket(t, t.key[e])] = e,
          !.next = [@ EXCEPT ![t.prev[e]] = t.next[e], ![e] = first],
          !.prev = [@ EXCEPT ![first] = e, ![e] = NULL]]

move_to_front(t, e) ==
  LET first == t.head[Bucket(t, t.key[e])] IN
  IF e = first THEN t
  ELSE [t EXCEPT
          !.head[Bucket(t, t.key[e])] = e,
          !.next = [@ EXCEPT ![t.prev[e]] = t.next[e], ![e] = first],
          !.prev = [Put(@, t.next[e], t.prev[e]) EXCEPT ![first] = e,
                                                        ![e] = NULL]]

Accessed(t, e) ==
  CASE e # NULL /\ use.heuristics = "move_to_front" -> move_to_front(t, e)
    [] e # NULL /\ use.heuristics = "transpose"     -> transpose(t, e)
    [] OTHER -> t

NewerNotUpdated(t, e) ==
  [t EXCEPT
     !.head[Bucket(t, t.key[e])] = IF t.prev[e] = NULL THEN t.next[e] ELSE @,
     !.next = Put(@, t.prev[e], t.next[e]),
     !.prev = Put(@, t.next[e], t.prev[e]),
     !.oldest = IF t.older[e] = NULL THEN t.newer[e] ELSE @,
     !.newest = IF t.newer[e] = NULL THEN t.older[e] ELSE @,
     !.older = Put(@, t.newer[e], t.older[e])]

remove_from_chain(t, e) ==
  [t EXCEPT
     !.head[Bucket(t, t.key[e])] = IF t.prev[e] = NULL THEN t.next[e] ELSE @,
     !.next = Put(@, t.prev[e], t.next[e]),
     !.prev = Put(@, t.next[e], t.prev[e]),
     !.oldest = IF t.older[e] = NULL THEN t.newer[e] ELSE @,
     !.newest = IF t.newer[e] = NULL THEN t.older[e] ELSE @,
     !.newer = Put(@, t.older[e], t.newer[e]),
     !.older = Put(@, t.newer[e], t.older[e])]

he_finalize(t, e) ==
  [t EXCEPT !.key[e] = NULL, !.data[e] = NULL, !.next[e] = NULL,
            !.prev[e] = NULL, !.older[e] = NULL, !.newer[e] = NULL]

\* The entry becomes the first one of its bucket.
PlaceFirst(t, e, k, d) ==
  LET first == t.head[Bucket(t, k)] IN
  [t EXCEPT !.key[e] = k, !.data[e] = d,
            !.head[Bucket(t, k)] = e,
            !.next[e] = first, !.prev = Put([@ EXCEPT ![e] = NULL], first, e)]

NeverEvicted(t, b) == [t EXCEPT !.nr[b] = @ + 1, !.items = @ + 1]

EvictsEarly(t, b) ==
  IF use.limit # 0 /\ t.nr[b] + 1 >= use.limit
  THEN LET last == Last(Chain(t, b))
       IN he_finalize(remove_from_chain(t, last), last)
  ELSE [t EXCEPT !.nr[b] = @ + 1, !.items = @ + 1]

\* The last entry of a full bucket makes room, otherwise the bucket grows.
MakeRoom(t, b) ==
  IF use.limit # 0 /\ t.nr[b] >= use.limit
  THEN LET last == Last(Chain(t, b))
       IN he_finalize(remove_from_chain(t, last), last)
  ELSE [t EXCEPT !.nr[b] = @ + 1, !.items = @ + 1]

BecomeNewest(t, e) ==
  [t EXCEPT !.oldest = IF @ = NULL THEN e ELSE @,
            !.older[e] = t.newest,
            !.newer = Put([@ EXCEPT ![e] = NULL], t.newest, e),
            !.newest = e]

Inserted(t, e, k, d) ==
  BecomeNewest(MakeRoom(PlaceFirst(t, e, k, d), Bucket(t, k)), e)

\* ght_rehash: the entries are inserted, the oldest first, into a new table
\* without a bucket limit, at addresses that are not in use.  Those that
\* he_create cannot allocate are lost.
FreeAddress(used) ==
  CHOOSE e \in Addresses \ used : \A f \in Addresses \ used : e <= f

Reinserted(new, used, k, d) ==
  LET e == FreeAddress(used \cup Allocated(new))
      b == Bucket(new, k)
      placed == PlaceFirst(new, e, k, d)
  IN BecomeNewest([placed EXCEPT !.nr[b] = @ + 1, !.items = @ + 1], e)

NewestFirst(t, n, used, lost) ==
  LET ages == Reverse(Ages(t))
      new[i \in 0..Len(ages)] ==
        IF i = 0 THEN EmptyTable(n)
        ELSE IF ages[i] \in lost THEN new[i - 1]
             ELSE Reinserted(new[i - 1], used, t.key[ages[i]], t.data[ages[i]])
  IN new[Len(ages)]

ght_rehash(t, n, used, lost) ==
  LET ages == Ages(t)
      new[i \in 0..Len(ages)] ==
        IF i = 0 THEN EmptyTable(n)
        ELSE IF ages[i] \in lost THEN new[i - 1]
             ELSE Reinserted(new[i - 1], used, t.key[ages[i]], t.data[ages[i]])
  IN new[Len(ages)]

Lost == IF use.memory THEN {{}} ELSE SUBSET Allocated(ht)

-----------------------------------------------------------------------------

TableInit ==
  /\ use \in Uses
  /\ ht = EmptyTable(use.size)
  /\ cursor = [i \in Iterators |-> NULL]
  /\ result = NULL

AlreadyInHash(k) ==
  /\ Search(ht, k) # NULL
  /\ result' = "already"
  /\ UNCHANGED <<ht, use, cursor>>

InsertError(k) ==
  /\ Search(ht, k) = NULL
  /\ result' = "error"
  /\ UNCHANGED <<ht, use, cursor>>

\* ght_rehash got no new table from ght_create: its assertion fails, in a build
\* without assertions the NULL pointer is used.
NoNewTable ==
  /\ ~use.memory
  /\ result' = "panic"
  /\ UNCHANGED ht

Overloaded == use.automatic /\ ht.items > 2 * ht.size

\* The new entry is allocated before the table is rehashed.
ght_insert(k, d) ==
  LET e == FreeAddress(Allocated(ht))
      used == Allocated(ht) \cup {e}
  IN
  /\ Search(ht, k) = NULL
  /\ \/ /\ Overloaded
        /\ \E lost \in Lost :
             ht' = Inserted(ght_rehash(ht, 2 * ht.size, used, lost), e, k, d)
        /\ result' = "ok"
     \/ Overloaded /\ NoNewTable
     \/ /\ ~Overloaded
        /\ ht' = Inserted(ht, e, k, d)
        /\ result' = "ok"
  /\ UNCHANGED <<use, cursor>>

ght_get(k) ==
  LET e == Search(ht, k) IN
  /\ ht' = Accessed(ht, e)
  /\ result' = IF e = NULL THEN NULL ELSE ht.data[e]
  /\ UNCHANGED <<use, cursor>>

ght_replace(k, d) ==
  LET e == Search(ht, k) IN
  /\ ht' = IF e = NULL THEN ht ELSE [Accessed(ht, e) EXCEPT !.data[e] = d]
  /\ result' = IF e = NULL THEN NULL ELSE ht.data[e]
  /\ UNCHANGED <<use, cursor>>

\* The rest of the iteration i.
Todo(i) == Walk(ht.newer, cursor[i])

MissingCounted(k) ==
  LET e == Search(ht, k) IN
  /\ \A i \in Iterators : e \notin Range(Todo(i))
  /\ ht' = IF e = NULL THEN [ht EXCEPT !.items = @ - 1]
           ELSE he_finalize([remove_from_chain(ht, e) EXCEPT
                               !.items = @ - 1,
                               !.nr[Bucket(ht, k)] = @ - 1], e)
  /\ result' = IF e = NULL THEN NULL ELSE ht.data[e]
  /\ UNCHANGED <<use, cursor>>

\* "removal during an iteration is only safe for the current entry or an
\* entry which has already been iterated over"
ght_remove(k) ==
  LET e == Search(ht, k) IN
  /\ \A i \in Iterators : e \notin Range(Todo(i))
  /\ ht' = IF e = NULL THEN ht
           ELSE he_finalize([remove_from_chain(ht, e) EXCEPT
                               !.items = @ - 1,
                               !.nr[Bucket(ht, k)] = @ - 1], e)
  /\ result' = IF e = NULL THEN NULL ELSE ht.data[e]
  /\ UNCHANGED <<use, cursor>>

ght_first(i) ==
  /\ cursor' = [cursor EXCEPT ![i] = IF ht.oldest = NULL THEN NULL
                                     ELSE ht.newer[ht.oldest]]
  /\ result' = IF ht.oldest = NULL THEN NULL ELSE ht.data[ht.oldest]
  /\ UNCHANGED <<ht, use>>

\* An insertion that rehashes or evicts frees entries, p_next of an iterator
\* among them: what is then read there is whatever has become of the memory.
Dangling(i) == cursor[i] \notin Allocated(ht) \cup {NULL}

ght_next(i) ==
  /\ \/ /\ cursor[i] = NULL
        /\ result' = NULL /\ UNCHANGED cursor
     \/ /\ cursor[i] \in Allocated(ht)
        /\ cursor' = [cursor EXCEPT ![i] = ht.newer[@]]
        /\ result' = ht.data[cursor[i]]
     \/ /\ Dangling(i)
        /\ \E e \in Addresses \cup {NULL} : cursor' = [cursor EXCEPT ![i] = e]
        /\ result' \in Data \cup {NULL}
  /\ UNCHANGED <<ht, use>>

\* Called by the owner of the table.
Rehash(n) ==
  /\ \/ /\ \E lost \in Lost : ht' = ght_rehash(ht, n, Allocated(ht), lost)
        /\ UNCHANGED result
     \/ NoNewTable
  /\ UNCHANGED <<use, cursor>>

\* Frees what the chains reach, then the table; nobody may be iterating.
ght_finalize ==
  LET chained == UNION {Range(Chain(ht, b)) : b \in DOMAIN ht.head}
      freed(field) == [e \in Addresses |->
                         IF e \in chained THEN NULL ELSE field[e]]
  IN
  /\ \A i \in Iterators : cursor[i] = NULL
  /\ ht' = [NoTable EXCEPT !.key = freed(ht.key), !.data = freed(ht.data),
                           !.next = freed(ht.next), !.prev = freed(ht.prev),
                           !.older = freed(ht.older), !.newer = freed(ht.newer)]
  /\ UNCHANGED <<use, cursor, result>>

\* Without memory for one of the three blocks those that it got are freed.
ght_create ==
  /\ \/ ht' = EmptyTable(use.size) /\ UNCHANGED result
     \/ result' = NULL /\ UNCHANGED ht
  /\ UNCHANGED <<use, cursor>>

TableNext ==
  /\ result # "panic"
  /\ \/ /\ Exists
        /\ \/ \E k \in use.keys :
                \/ AlreadyInHash(k) \/ InsertError(k)
                \/ \E d \in use.data : ght_insert(k, d) \/ ght_replace(k, d)
                \/ ght_get(k)
                \/ ght_remove(k)
           \/ \E i \in Iterators : use.iterates /\ (ght_first(i) \/ ght_next(i))
           \/ \E n \in use.newSizes : Rehash(n)
           \/ ght_finalize
     \/ ~Exists /\ ght_create

TableSpec == TableInit /\ [][TableNext]_tableVars

-----------------------------------------------------------------------------

\* The fields have their types.
TableTypeOK ==
  /\ ht.size \in Nat /\ ht.items \in 0..MaxEntry
  /\ ht.head \in [0..(ht.size - 1) -> Addresses \cup {NULL}]
  /\ ht.nr \in [0..(ht.size - 1) -> 0..MaxEntry]
  /\ ht.key \in [Addresses -> Keys \cup {NULL}]
  /\ ht.data \in [Addresses -> Data \cup {NULL}]
  /\ \A link \in {ht.next, ht.prev, ht.older, ht.newer} :
       link \in [Addresses -> Addresses \cup {NULL}]
  /\ cursor \in [Iterators -> Addresses \cup {NULL}]
  /\ result \in Data \cup {NULL, "ok", "already", "error", "panic"}

\* Every entry is in the chain of its key's bucket, once, the links back are
\* the inverse of the links forth, whatever the heuristics moved, and p_nr and
\* i_items count the entries (assertion of search_in_bucket), also after
\* evictions and rehashing.  A table that is finalized leaves no entry.
BucketsLinked ==
  /\ ht.items = Cardinality(Allocated(ht))
  /\ \A b \in DOMAIN ht.head :
       LET c == Chain(ht, b) IN
       /\ Range(c) = {e \in Allocated(ht) : Bucket(ht, ht.key[e]) = b}
       /\ ht.nr[b] = Len(c) /\ Len(c) = Cardinality(Range(c))
       /\ \A n \in DOMAIN c :
            ht.prev[c[n]] = IF n = 1 THEN NULL ELSE c[n - 1]

\* The list by age has every entry once, and can be walked either way.
AgesLinked ==
  LET a == Ages(ht) IN
  /\ Range(a) = Allocated(ht)
  /\ Len(a) = Cardinality(Allocated(ht))
  /\ \A n \in DOMAIN a : ht.older[a[n]] = IF n = 1 THEN NULL ELSE a[n - 1]
  /\ ht.newest = IF a = <<>> THEN NULL ELSE Last(a)

\* "the table will rehash itself when the number of elements in the table are
\* twice as many as the number of buckets": the load never gets far above.  And
\* a bounded table is "holding a fixed number of elements per bucket".
SizesBounded ==
  /\ use.automatic => ht.items <= 2 * ht.size + 1
  /\ use.limit # 0 => \A b \in DOMAIN ht.nr : ht.nr[b] <= use.limit

\* An entry is only evicted from a full bucket, for a new entry of that bucket.
EvictsOnlyWhenFull ==
  [][use.limit # 0 /\ Exists /\ Exists' => \A j, k \in Keys :
       /\ Search(ht, j) # NULL /\ Search(ht', j) = NULL
       /\ Search(ht, k) = NULL /\ Search(ht', k) # NULL
       => /\ Bucket(ht, j) = Bucket(ht, k)
          /\ ht.nr[Bucket(ht, k)] = use.limit]_tableVars

\* The list by age, as pairs.
Content == LET a == Ages(ht)
           IN [n \in DOMAIN a |-> [key |-> ht.key[a[n]], data |-> ht.data[a[n]]]]

Map == INSTANCE GhtMap WITH
  bounded <- use.limit # 0,
  content <- Content,
  todo <- [i \in Iterators |->
             LET rest == Todo(i) IN [n \in DOMAIN rest |-> ht.key[rest[n]]]]

\* The map without its iterations.
Contents == INSTANCE GhtMap WITH
  bounded <- use.limit # 0,
  content <- Content,
  todo <- [i \in Iterators |-> <<>>]

\* ght_rehash for want of memory loses entries (it only logs that), or panics.
RehashedWithoutMemory ==
  /\ ~use.memory
  /\ \/ \E n \in use.newSizes : Rehash(n)
     \/ Overloaded /\ \E k \in use.keys, d \in use.data : ght_insert(k, d)

CursorsValid == \A i \in Iterators : ~Dangling(i)

\* The table is the map of its header, except in two points.  "Retaining all
\* elements" (DldCommonHashTable.h:549) ght_rehash does not without memory.  And
\* to insert during an iteration, which the header allows (:437), is not safe: it
\* may free the entry that the iteration comes to next.  From when on nothing is
\* promised of that iterator, but what the table holds is right all the same.
IsMap ==
  /\ Map!MapInit
  /\ [][\/ RehashedWithoutMemory
        \/ IF CursorsValid /\ CursorsValid' THEN Map!MapNext
           ELSE Contents!MapNext \/ UNCHANGED Content]_(Map!mapVars)
=============================================================================
