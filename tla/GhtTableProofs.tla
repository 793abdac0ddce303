---------------------------- MODULE GhtTableProofs ----------------------------
(***************************************************************************)
(* Proofs about GhtTable: for any keys, hash function and uses, every      *)
(* operation keeps each bucket and the list by age a doubly linked list of *)
(* just the entries that belong there, and the counts right.               *)
(*                                                                         *)
(* The lists and the loop of ght_rehash need induction, that of module     *)
(* SetInduction.                                                           *)
(***************************************************************************)
EXTENDS GhtTable, SetInduction, FiniteSetTheorems

-----------------------------------------------------------------------------
(***************************************************************************)
(* Doubly linked lists.  ListOf(S, n, link, back, first, last): the n      *)
(* entries of S are linked forth from first and back from last.            *)
(***************************************************************************)
Ref == Addresses \cup {NULL}
Links == [Addresses -> Ref]

IsList(s, n, link, back, first, last) ==
  /\ n \in Nat
  /\ s \in [1..n -> Addresses]
  /\ \A i, j \in 1..n : s[i] = s[j] => i = j
  /\ first = IF n = 0 THEN NULL ELSE s[1]
  /\ last = IF n = 0 THEN NULL ELSE s[n]
  /\ \A i \in 1..n : link[s[i]] = IF i = n THEN NULL ELSE s[i + 1]
  /\ \A i \in 1..n : back[s[i]] = IF i = 1 THEN NULL ELSE s[i - 1]

ListOf(S, n, link, back, first, last) ==
  \E s : /\ IsList(s, n, link, back, first, last)
         /\ \A e : e \in S <=> \E i \in 1..n : s[i] = e

LEMMA NullNoAddress == NULL \notin Addresses
BY GhtMemory DEF Addresses

\* Neighbours in a list.
LEMMA ListMembers ==
  ASSUME NEW S, NEW n, NEW link, NEW back, NEW first, NEW last,
         ListOf(S, n, link, back, first, last)
  PROVE  /\ n \in Nat
         /\ S \subseteq Addresses
         /\ S = {} <=> n = 0
         /\ S = {} <=> first = NULL
         /\ S = {} <=> last = NULL
         /\ first \in S \cup {NULL} /\ last \in S \cup {NULL}
         /\ \A e \in S :
              /\ link[e] \in (S \ {e}) \cup {NULL}
              /\ back[e] \in (S \ {e}) \cup {NULL}
              /\ link[e] = NULL <=> e = last
              /\ back[e] = NULL <=> e = first
              /\ link[e] # NULL => back[link[e]] = e
              /\ back[e] # NULL => link[back[e]] = e
<1>1. PICK s : /\ IsList(s, n, link, back, first, last)
               /\ \A e : e \in S <=> \E i \in 1..n : s[i] = e
  BY DEF ListOf
<1>2. n \in Nat /\ S \subseteq Addresses
  BY <1>1 DEF IsList
<1>3. /\ S = {} <=> n = 0
      /\ S = {} <=> first = NULL
      /\ S = {} <=> last = NULL
      /\ first \in S \cup {NULL} /\ last \in S \cup {NULL}
  BY <1>1, <1>2, NullNoAddress DEF IsList
<1>4. ASSUME NEW e \in S
      PROVE  /\ link[e] \in (S \ {e}) \cup {NULL}
             /\ back[e] \in (S \ {e}) \cup {NULL}
             /\ link[e] = NULL <=> e = last
             /\ back[e] = NULL <=> e = first
             /\ link[e] # NULL => back[link[e]] = e
             /\ back[e] # NULL => link[back[e]] = e
  <2>1. PICK i \in 1..n : s[i] = e
    BY <1>1
  <2>2. /\ link[e] = NULL <=> i = n
        /\ e = last <=> i = n
        /\ back[e] = NULL <=> i = 1
        /\ e = first <=> i = 1
    BY <1>1, <1>2, <2>1, NullNoAddress DEF IsList
  <2>3. ASSUME i # n
        PROVE  link[e] \in S \ {e} /\ back[link[e]] = e
    <3>1. i + 1 \in 1..n /\ link[e] = s[i + 1]
      BY <1>1, <1>2, <2>1, <2>3 DEF IsList
    <3> QED
      BY <1>1, <1>2, <2>1, <3>1 DEF IsList
  <2>4. ASSUME i # 1
        PROVE  back[e] \in S \ {e} /\ link[back[e]] = e
    <3>1. i - 1 \in 1..n /\ back[e] = s[i - 1]
      BY <1>1, <1>2, <2>1, <2>4 DEF IsList
    <3> QED
      BY <1>1, <1>2, <2>1, <3>1 DEF IsList
  <2> QED
    BY <2>2, <2>3, <2>4
<1> QED
  BY <1>2, <1>3, <1>4

\* Entries that are not in the list do not matter.
LEMMA ListFrame ==
  ASSUME NEW S, NEW n, NEW link, NEW back, NEW first, NEW last,
         NEW newLink, NEW newBack,
         ListOf(S, n, link, back, first, last),
         \A e \in S : newLink[e] = link[e] /\ newBack[e] = back[e]
  PROVE  ListOf(S, n, newLink, newBack, first, last)
<1>1. PICK s : /\ IsList(s, n, link, back, first, last)
               /\ \A e : e \in S <=> \E i \in 1..n : s[i] = e
  BY DEF ListOf
<1>2. IsList(s, n, newLink, newBack, first, last)
  BY <1>1 DEF IsList
<1> QED
  BY <1>1, <1>2 DEF ListOf

\* A list is also one from its end to its beginning.
LEMMA ListReversed ==
  ASSUME NEW S, NEW n, NEW link, NEW back, NEW first, NEW last,
         ListOf(S, n, link, back, first, last)
  PROVE  ListOf(S, n, back, link, last, first)
<1>1. PICK s : /\ IsList(s, n, link, back, first, last)
               /\ \A e : e \in S <=> \E i \in 1..n : s[i] = e
  BY DEF ListOf
<1> DEFINE r == [i \in 1..n |-> s[n + 1 - i]]
<1>2. n \in Nat /\ \A i \in 1..n : n + 1 - i \in 1..n /\ r[i] = s[n + 1 - i]
  BY <1>1 DEF IsList
<1>3. IsList(r, n, back, link, last, first)
  <2>1. r \in [1..n -> Addresses]
    BY <1>1, <1>2 DEF IsList
  <2>2. \A i, j \in 1..n : r[i] = r[j] => i = j
    BY <1>1, <1>2 DEF IsList
  <2>3. \A i \in 1..n : back[r[i]] = IF i = n THEN NULL ELSE r[i + 1]
    BY <1>1, <1>2 DEF IsList
  <2>4. \A i \in 1..n : link[r[i]] = IF i = 1 THEN NULL ELSE r[i - 1]
    BY <1>1, <1>2 DEF IsList
  <2>5. /\ last = IF n = 0 THEN NULL ELSE r[1]
        /\ first = IF n = 0 THEN NULL ELSE r[n]
    BY <1>1, <1>2 DEF IsList
  <2> QED
    BY <1>2, <2>1, <2>2, <2>3, <2>4, <2>5 DEF IsList
<1>4. \A e : e \in S <=> \E i \in 1..n : r[i] = e
  <2> SUFFICES ASSUME NEW e
               PROVE  (\E i \in 1..n : s[i] = e) <=> \E i \in 1..n : r[i] = e
    BY <1>1
  <2>1. \A i \in 1..n : n + 1 - (n + 1 - i) = i
    BY <1>2
  <2> HIDE DEF r
  <2> QED
    BY <1>2, <2>1
<1> QED
  BY <1>3, <1>4 DEF ListOf

LEMMA NoList ==
  ASSUME NEW link, NEW back
  PROVE  ListOf({}, 0, link, back, NULL, NULL)
<1> DEFINE s == [i \in 1..0 |-> NULL]
<1>1. IsList(s, 0, link, back, NULL, NULL)
  BY DEF IsList
<1>2. \A e : e \in {} <=> \E i \in 1..0 : s[i] = e
  OBVIOUS
<1> QED
  BY <1>1, <1>2 DEF ListOf

\* A new entry in front of the others.
LEMMA ListAddFirst ==
  ASSUME NEW S, NEW n, NEW link \in Links, NEW back \in Links,
         NEW first, NEW last,
         ListOf(S, n, link, back, first, last),
         NEW e \in Addresses, e \notin S
  PROVE  ListOf(S \cup {e}, n + 1, [link EXCEPT ![e] = first],
                Put([back EXCEPT ![e] = NULL], first, e),
                e, IF first = NULL THEN e ELSE last)
<1>1. PICK s : /\ IsList(s, n, link, back, first, last)
               /\ \A f : f \in S <=> \E i \in 1..n : s[i] = f
  BY DEF ListOf
<1> DEFINE r == [i \in 1..n + 1 |-> IF i = 1 THEN e ELSE s[i - 1]]
           newLink == [link EXCEPT ![e] = first]
           newBack == Put([back EXCEPT ![e] = NULL], first, e)
           newLast == IF first = NULL THEN e ELSE last
<1>2. n \in Nat /\ r[1] = e /\ \A i \in 1..n : i + 1 \in 1..n + 1 /\ r[i + 1] = s[i]
  BY <1>1 DEF IsList
<1>3. \A i \in 1..n + 1 : i = 1 \/ (i - 1 \in 1..n /\ r[i] = s[i - 1])
  BY <1>2
<1>4. \A i \in 1..n : s[i] \in Addresses /\ s[i] # e /\ s[i] # NULL
  BY <1>1, NullNoAddress DEF IsList
<1>5. /\ newLink[e] = first
      /\ \A i \in 1..n : newLink[s[i]] = link[s[i]]
      /\ newBack[e] = NULL
      /\ \A i \in 1..n : newBack[s[i]] = IF i = 1 THEN e ELSE back[s[i]]
  <2>1. CASE n = 0
    BY <2>1, <1>1, <1>4 DEF Put, Links, IsList
  <2>2. CASE n # 0
    <3>1. first = s[1] /\ 1 \in 1..n /\ first # NULL /\ first \in Addresses
      BY <2>2, <1>1, <1>2, <1>4 DEF IsList
    <3>2. \A i \in 1..n : s[i] = first <=> i = 1
      BY <3>1, <1>1 DEF IsList
    <3> QED
      BY <3>1, <3>2, <1>4 DEF Put, Links
  <2> QED
    BY <2>1, <2>2
<1>6. IsList(r, n + 1, newLink, newBack, e, newLast)
  <2>1. r \in [1..n + 1 -> Addresses]
    BY <1>3, <1>4
  <2>2. \A i, j \in 1..n + 1 : r[i] = r[j] => i = j
    <3> SUFFICES ASSUME NEW i \in 1..n + 1, NEW j \in 1..n + 1, r[i] = r[j]
                 PROVE  i = j
      OBVIOUS
    <3> HIDE DEF r
    <3>1. CASE i = 1 \/ j = 1
      BY <3>1, <1>2, <1>3, <1>4
    <3>2. CASE i # 1 /\ j # 1
      BY <3>2, <1>1, <1>2, <1>3 DEF IsList
    <3> QED
      BY <3>1, <3>2
  <2>3. \A i \in 1..n + 1 :
          newLink[r[i]] = IF i = n + 1 THEN NULL ELSE r[i + 1]
    <3> SUFFICES ASSUME NEW i \in 1..n + 1
                 PROVE  newLink[r[i]] = IF i = n + 1 THEN NULL ELSE r[i + 1]
      OBVIOUS
    <3> HIDE DEF r, newLink
    <3>1. CASE i = 1
      BY <3>1, <1>1, <1>2, <1>5 DEF IsList
    <3>2. CASE i # 1
      BY <3>2, <1>1, <1>2, <1>3, <1>5 DEF IsList
    <3> QED
      BY <3>1, <3>2
  <2>4. \A i \in 1..n + 1 :
          newBack[r[i]] = IF i = 1 THEN NULL ELSE r[i - 1]
    <3> SUFFICES ASSUME NEW i \in 1..n + 1
                 PROVE  newBack[r[i]] = IF i = 1 THEN NULL ELSE r[i - 1]
      OBVIOUS
    <3> HIDE DEF r, newBack
    <3>1. CASE i = 1
      BY <3>1, <1>2, <1>5
    <3>2. CASE i = 2
      BY <3>2, <1>2, <1>3, <1>5
    <3>3. CASE i # 1 /\ i # 2
      <4>1. i - 1 \in 1..n /\ i - 2 \in 1..n /\ (i - 2) + 1 = i - 1
        BY <3>3, <1>2
      <4> QED
        BY <3>3, <4>1, <1>1, <1>2, <1>3, <1>5 DEF IsList
    <3> QED
      BY <3>1, <3>2, <3>3
  <2>5. newLast = r[n + 1]
    <3>1. CASE n = 0
      BY <3>1, <1>1, <1>2 DEF IsList
    <3>2. CASE n # 0
      BY <3>2, <1>1, <1>2, <1>4 DEF IsList
    <3> QED
      BY <3>1, <3>2
  <2> HIDE DEF r, newLink, newBack, newLast
  <2> QED
    BY <1>2, <2>1, <2>2, <2>3, <2>4, <2>5 DEF IsList
<1>7. \A f : f \in S \cup {e} <=> \E i \in 1..n + 1 : r[i] = f
  <2> HIDE DEF r
  <2> QED
    BY <1>1, <1>2, <1>3
<1> HIDE DEF r
<1> QED
  BY <1>6, <1>7 DEF ListOf

\* An entry is linked out of the list (remove_from_chain).
LEMMA ListRemove ==
  ASSUME NEW S, NEW n, NEW link \in Links, NEW back \in Links,
         NEW first, NEW last,
         ListOf(S, n, link, back, first, last),
         NEW e \in S
  PROVE  ListOf(S \ {e}, n - 1, Put(link, back[e], link[e]),
                Put(back, link[e], back[e]),
                IF back[e] = NULL THEN link[e] ELSE first,
                IF link[e] = NULL THEN back[e] ELSE last)
<1>1. PICK s : /\ IsList(s, n, link, back, first, last)
               /\ \A f : f \in S <=> \E i \in 1..n : s[i] = f
  BY DEF ListOf
<1>2. PICK k \in 1..n : s[k] = e
  BY <1>1
<1> DEFINE r == [i \in 1..n - 1 |-> IF i < k THEN s[i] ELSE s[i + 1]]
           newLink == Put(link, back[e], link[e])
           newBack == Put(back, link[e], back[e])
           newFirst == IF back[e] = NULL THEN link[e] ELSE first
           newLast == IF link[e] = NULL THEN back[e] ELSE last
<1>3. /\ n \in Nat /\ k \in Nat /\ 1 <= k /\ k <= n
      /\ \A i \in 1..n : s[i] \in Addresses /\ s[i] # NULL
      /\ \A i, j \in 1..n : s[i] = s[j] => i = j
  BY <1>1, NullNoAddress DEF IsList
<1>4. /\ \A i \in 1..n - 1 : i < k => i \in 1..n /\ r[i] = s[i]
      /\ \A i \in 1..n - 1 : i >= k => i + 1 \in 1..n /\ r[i] = s[i + 1]
  BY <1>3
<1>5. \A i \in 1..n : i # k => newLink[s[i]] = IF i + 1 = k THEN link[e]
                                               ELSE link[s[i]]
  <2>1. CASE k = 1
    BY <2>1, <1>1, <1>2, <1>3 DEF IsList, Put
  <2>2. CASE k # 1
    <3>1. back[e] = s[k - 1] /\ k - 1 \in 1..n
      BY <2>2, <1>1, <1>2, <1>3 DEF IsList
    <3>2. \A i \in 1..n : s[i] = s[k - 1] <=> i + 1 = k
      BY <3>1, <1>3
    <3> QED
      BY <3>1, <3>2, <1>3 DEF Put, Links
  <2> QED
    BY <2>1, <2>2
<1>6. \A i \in 1..n : i # k => newBack[s[i]] = IF i - 1 = k THEN back[e]
                                               ELSE back[s[i]]
  <2>1. CASE k = n
    BY <2>1, <1>1, <1>2, <1>3 DEF IsList, Put
  <2>2. CASE k # n
    <3>1. link[e] = s[k + 1] /\ k + 1 \in 1..n
      BY <2>2, <1>1, <1>2, <1>3 DEF IsList
    <3>2. \A i \in 1..n : s[i] = s[k + 1] <=> i - 1 = k
      BY <3>1, <1>3
    <3> QED
      BY <3>1, <3>2, <1>3 DEF Put, Links
  <2> QED
    BY <2>1, <2>2
<1>7. IsList(r, n - 1, newLink, newBack, newFirst, newLast)
  <2>1. r \in [1..n - 1 -> Addresses] /\ n - 1 \in Nat
    BY <1>3
  <2>2. \A i, j \in 1..n - 1 : r[i] = r[j] => i = j
    <3> SUFFICES ASSUME NEW i \in 1..n - 1, NEW j \in 1..n - 1, r[i] = r[j]
                 PROVE  i = j
      OBVIOUS
    <3> HIDE DEF r
    <3> QED
      BY <1>3, <1>4
  <2>3. \A i \in 1..n - 1 :
          newLink[r[i]] = IF i = n - 1 THEN NULL ELSE r[i + 1]
    <3> SUFFICES ASSUME NEW i \in 1..n - 1
                 PROVE  newLink[r[i]] = IF i = n - 1 THEN NULL ELSE r[i + 1]
      OBVIOUS
    <3> HIDE DEF r, newLink
    <3>1. CASE i + 1 < k
      BY <3>1, <1>1, <1>3, <1>4, <1>5 DEF IsList
    <3>2. CASE i + 1 = k
      BY <3>2, <1>1, <1>2, <1>3, <1>4, <1>5 DEF IsList
    <3>3. CASE i + 1 > k
      <4>1. i + 1 \in 1..n /\ r[i] = s[i + 1] /\ newLink[r[i]] = link[s[i + 1]]
        BY <3>3, <1>3, <1>4, <1>5
      <4>2. i # n - 1 => r[i + 1] = s[i + 2]
        BY <3>3, <1>3, <1>4
      <4> QED
        BY <4>1, <4>2, <1>1, <1>3 DEF IsList
    <3> QED
      BY <3>1, <3>2, <3>3, <1>3
  <2>4. \A i \in 1..n - 1 :
          newBack[r[i]] = IF i = 1 THEN NULL ELSE r[i - 1]
    <3> SUFFICES ASSUME NEW i \in 1..n - 1
                 PROVE  newBack[r[i]] = IF i = 1 THEN NULL ELSE r[i - 1]
      OBVIOUS
    <3> HIDE DEF r, newBack
    <3>1. CASE i < k
      BY <3>1, <1>1, <1>3, <1>4, <1>6 DEF IsList
    <3>2. CASE i = k
      BY <3>2, <1>1, <1>2, <1>3, <1>4, <1>6 DEF IsList
    <3>3. CASE i > k
      <4>1. i + 1 \in 1..n /\ r[i] = s[i + 1] /\ newBack[r[i]] = back[s[i + 1]]
        BY <3>3, <1>3, <1>4, <1>6
      <4>2. r[i - 1] = s[i]
        BY <3>3, <1>3, <1>4
      <4> QED
        BY <3>3, <4>1, <4>2, <1>1, <1>3 DEF IsList
    <3> QED
      BY <3>1, <3>2, <3>3, <1>3
  <2>5. /\ newFirst = IF n - 1 = 0 THEN NULL ELSE r[1]
        /\ newLast = IF n - 1 = 0 THEN NULL ELSE r[n - 1]
    <3>1. CASE n = 1
      BY <3>1, <1>1, <1>2, <1>3 DEF IsList
    <3>2. CASE n # 1
      <4>1. newFirst = r[1]
        BY <3>2, <1>1, <1>2, <1>3, <1>4 DEF IsList
      <4>2. newLast = r[n - 1]
        BY <3>2, <1>1, <1>2, <1>3, <1>4 DEF IsList
      <4> QED
        BY <3>2, <4>1, <4>2, <1>3
    <3> QED
      BY <3>1, <3>2
  <2> HIDE DEF r, newLink, newBack, newFirst, newLast
  <2> QED
    BY <2>1, <2>2, <2>3, <2>4, <2>5 DEF IsList
<1>8. \A f : f \in S \ {e} <=> \E i \in 1..n - 1 : r[i] = f
  <2> TAKE f
  <2> HIDE DEF r
  <2>1. ASSUME f \in S \ {e} PROVE \E i \in 1..n - 1 : r[i] = f
    <3>1. PICK j \in 1..n : s[j] = f
      BY <2>1, <1>1
    <3>2. CASE j < k
      BY <3>1, <3>2, <1>3, <1>4
    <3>3. CASE j > k
      <4>1. j - 1 \in 1..n - 1 /\ r[j - 1] = f
        BY <3>1, <3>3, <1>3, <1>4
      <4> QED
        BY <4>1
    <3> QED
      BY <2>1, <3>1, <3>2, <3>3, <1>2, <1>3
  <2>2. ASSUME NEW i \in 1..n - 1, r[i] = f PROVE f \in S \ {e}
    BY <2>2, <1>1, <1>2, <1>3, <1>4
  <2> QED
    BY <2>1, <2>2
<1> HIDE DEF r
<1> QED
  BY <1>7, <1>8 DEF ListOf

\* An entry is moved to the front of its list (move_to_front).
LEMMA ListMoveToFront ==
  ASSUME NEW S, NEW n, NEW link \in Links, NEW back \in Links,
         NEW first, NEW last,
         ListOf(S, n, link, back, first, last),
         NEW e \in S, e # first
  PROVE  \E end :
           ListOf(S, n, [link EXCEPT ![back[e]] = link[e], ![e] = first],
                  [Put(back, link[e], back[e]) EXCEPT ![first] = e, ![e] = NULL],
                  e, end)
<1> DEFINE l == Put(link, back[e], link[e])
           b == Put(back, link[e], back[e])
           end == IF link[e] = NULL THEN back[e] ELSE last
<1>1. /\ n \in Nat /\ S \subseteq Addresses
      /\ back[e] # NULL /\ back[e] \in Addresses /\ back[e] # e
      /\ first \in Addresses /\ first # NULL
      /\ link[e] # e
  BY ListMembers, NullNoAddress
<1>2. ListOf(S \ {e}, n - 1, l, b, first, end)
  BY <1>1, ListRemove
<1>3. l \in Links /\ b \in Links
  BY <1>1 DEF Links, Ref, Put
<1>4. ListOf((S \ {e}) \cup {e}, (n - 1) + 1, [l EXCEPT ![e] = first],
             Put([b EXCEPT ![e] = NULL], first, e),
             e, IF first = NULL THEN e ELSE end)
  <2> HIDE DEF l, b, end
  <2> QED
    BY <1>1, <1>2, <1>3, ListAddFirst
<1>5. [l EXCEPT ![e] = first] = [link EXCEPT ![back[e]] = link[e], ![e] = first]
  BY <1>1 DEF Put
<1>6. Put([b EXCEPT ![e] = NULL], first, e)
        = [Put(back, link[e], back[e]) EXCEPT ![first] = e, ![e] = NULL]
  <2> HIDE DEF b
  <2>1. Put([b EXCEPT ![e] = NULL], first, e) = [b EXCEPT ![e] = NULL, ![first] = e]
    BY <1>1 DEF Put
  <2>2. [b EXCEPT ![e] = NULL, ![first] = e] = [b EXCEPT ![first] = e, ![e] = NULL]
    BY <1>1, <1>3 DEF Links
  <2> QED
    BY <2>1, <2>2 DEF b
<1>7. (S \ {e}) \cup {e} = S /\ (n - 1) + 1 = n
  BY <1>1
<1> QED
  BY <1>4, <1>5, <1>6, <1>7

\* An entry changes places with the one before it (transpose).
LEMMA ListTranspose ==
  ASSUME NEW S, NEW n, NEW link \in Links, NEW back \in Links,
         NEW first, NEW last,
         ListOf(S, n, link, back, first, last),
         NEW e \in S, NEW x, x = back[e], x # NULL,
         NEW a, a = back[x], NEW b, b = link[e]
  PROVE  \E end :
           ListOf(S, n, Put([link EXCEPT ![x] = b, ![e] = x], a, e),
                  Put([back EXCEPT ![x] = e, ![e] = a], b, x),
                  IF a = NULL THEN e ELSE first, end)
<1>1. PICK s : /\ IsList(s, n, link, back, first, last)
               /\ \A f : f \in S <=> \E i \in 1..n : s[i] = f
  BY DEF ListOf
<1>2. PICK k \in 1..n : s[k] = e
  BY <1>1
<1> DEFINE r == [i \in 1..n |-> IF i = k - 1 THEN e
                                ELSE IF i = k THEN x ELSE s[i]]
           newLink == Put([link EXCEPT ![x] = b, ![e] = x], a, e)
           newBack == Put([back EXCEPT ![x] = e, ![e] = a], b, x)
           newFirst == IF a = NULL THEN e ELSE first
           end == IF k = n THEN x ELSE last
<1>3. /\ n \in Nat /\ k \in Nat /\ 2 <= k /\ k <= n
      /\ k - 1 \in 1..n /\ s[k - 1] = x
      /\ \A i \in 1..n : s[i] \in Addresses /\ s[i] # NULL
      /\ \A i, j \in 1..n : s[i] = s[j] => i = j
  BY <1>1, <1>2, NullNoAddress DEF IsList
<1>4. /\ a = IF k = 2 THEN NULL ELSE s[k - 2]
      /\ b = IF k = n THEN NULL ELSE s[k + 1]
  BY <1>1, <1>2, <1>3 DEF IsList
<1>5. /\ r[k - 1] = e /\ r[k] = x
      /\ \A i \in 1..n : i # k - 1 /\ i # k => r[i] = s[i]
  BY <1>2, <1>3
<1>6. /\ newLink[e] = x /\ newLink[x] = b
      /\ \A i \in 1..n : i # k - 1 /\ i # k =>
           newLink[s[i]] = IF i = k - 2 THEN e ELSE link[s[i]]
  <2>1. CASE k = 2
    BY <2>1, <1>2, <1>3, <1>4 DEF Put, Links
  <2>2. CASE k # 2
    <3>1. a = s[k - 2] /\ k - 2 \in 1..n /\ a # e /\ a # x /\ a # NULL
      BY <2>2, <1>2, <1>3, <1>4
    <3>2. \A i \in 1..n : s[i] = a <=> i = k - 2
      BY <3>1, <1>3
    <3> QED
      BY <3>1, <3>2, <1>2, <1>3 DEF Put, Links
  <2> QED
    BY <2>1, <2>2
<1>7. /\ newBack[e] = a /\ newBack[x] = e
      /\ \A i \in 1..n : i # k - 1 /\ i # k =>
           newBack[s[i]] = IF i = k + 1 THEN x ELSE back[s[i]]
  <2>1. CASE k = n
    BY <2>1, <1>2, <1>3, <1>4 DEF Put, Links
  <2>2. CASE k # n
    <3>1. b = s[k + 1] /\ k + 1 \in 1..n /\ b # e /\ b # x /\ b # NULL
      BY <2>2, <1>2, <1>3, <1>4
    <3>2. \A i \in 1..n : s[i] = b <=> i = k + 1
      BY <3>1, <1>3
    <3> QED
      BY <3>1, <3>2, <1>2, <1>3 DEF Put, Links
  <2> QED
    BY <2>1, <2>2
<1>8. IsList(r, n, newLink, newBack, newFirst, end)
  <2>1. r \in [1..n -> Addresses]
    BY <1>2, <1>3
  <2>2. \A i, j \in 1..n : r[i] = r[j] => i = j
    <3> SUFFICES ASSUME NEW i \in 1..n, NEW j \in 1..n, r[i] = r[j]
                 PROVE  i = j
      OBVIOUS
    <3> HIDE DEF r
    <3> QED
      BY <1>2, <1>3, <1>5
  <2>3. \A i \in 1..n : newLink[r[i]] = IF i = n THEN NULL ELSE r[i + 1]
    <3> SUFFICES ASSUME NEW i \in 1..n
                 PROVE  newLink[r[i]] = IF i = n THEN NULL ELSE r[i + 1]
      OBVIOUS
    <3> HIDE DEF r, newLink
    <3>1. CASE i = k - 1
      BY <3>1, <1>3, <1>5, <1>6
    <3>2. CASE i = k
      BY <3>2, <1>3, <1>4, <1>5, <1>6
    <3>3. CASE i # k - 1 /\ i # k
      <4>1. CASE i = k - 2
        BY <3>3, <4>1, <1>3, <1>5, <1>6
      <4>2. CASE i # k - 2
        BY <3>3, <4>2, <1>1, <1>3, <1>5, <1>6 DEF IsList
      <4> QED
        BY <4>1, <4>2
    <3> QED
      BY <3>1, <3>2, <3>3
  <2>4. \A i \in 1..n : newBack[r[i]] = IF i = 1 THEN NULL ELSE r[i - 1]
    <3> SUFFICES ASSUME NEW i \in 1..n
                 PROVE  newBack[r[i]] = IF i = 1 THEN NULL ELSE r[i - 1]
      OBVIOUS
    <3> HIDE DEF r, newBack
    <3>1. CASE i = k - 1
      BY <3>1, <1>3, <1>4, <1>5, <1>7
    <3>2. CASE i = k
      BY <3>2, <1>3, <1>5, <1>7
    <3>3. CASE i # k - 1 /\ i # k
      <4>1. CASE i = k + 1
        BY <3>3, <4>1, <1>3, <1>5, <1>7
      <4>2. CASE i # k + 1
        BY <3>3, <4>2, <1>1, <1>3, <1>5, <1>7 DEF IsList
      <4> QED
        BY <4>1, <4>2
    <3> QED
      BY <3>1, <3>2, <3>3
  <2>5. newFirst = r[1]
    BY <1>1, <1>2, <1>3, <1>4, <1>5 DEF IsList
  <2>6. end = r[n]
    BY <1>1, <1>2, <1>3, <1>4, <1>5 DEF IsList
  <2> HIDE DEF r, newLink, newBack, newFirst, end
  <2> QED
    BY <1>3, <2>1, <2>2, <2>3, <2>4, <2>5, <2>6 DEF IsList
<1>9. \A f : f \in S <=> \E i \in 1..n : r[i] = f
  <2> HIDE DEF r
  <2>1. \A i \in 1..n : \E j \in 1..n : r[j] = s[i]
    BY <1>2, <1>3, <1>5
  <2>2. \A i \in 1..n : \E j \in 1..n : s[j] = r[i]
    BY <1>2, <1>3, <1>5
  <2> QED
    BY <1>1, <2>1, <2>2
<1> HIDE DEF r, newLink, newBack, newFirst, end
<1>10. ListOf(S, n, newLink, newBack, newFirst, end)
  BY <1>8, <1>9 DEF ListOf
<1> QED
  BY <1>10 DEF newLink, newBack, newFirst

\* The length of a list is the number of its entries.
LEMMA ListSize ==
  ASSUME NEW S, NEW n, NEW link, NEW back, NEW first, NEW last,
         ListOf(S, n, link, back, first, last)
  PROVE  /\ IsFiniteSet(S) /\ Cardinality(S) = n
         /\ n \in 0..MaxEntry
<1>1. PICK s : /\ IsList(s, n, link, back, first, last)
               /\ \A f : f \in S <=> \E i \in 1..n : s[i] = f
  BY DEF ListOf
<1>2. n \in Nat /\ s \in [1..n -> S] /\ S \subseteq Addresses
  BY <1>1 DEF IsList
<1>3. s \in Bijection(1..n, S)
  <2>1. s \in Injection(1..n, S)
    BY <1>1, <1>2 DEF IsList, Injection, IsInjective
  <2>2. s \in Surjection(1..n, S)
    BY <1>1, <1>2 DEF Surjection
  <2> QED
    BY <2>1, <2>2 DEF Bijection
<1>4. IsFiniteSet(1..n) /\ Cardinality(1..n) = n
  BY <1>2, FS_Interval
<1>5. IsFiniteSet(S) /\ Cardinality(S) = n
  BY <1>3, <1>4, FS_Bijection DEF ExistsBijection
<1>6. IsFiniteSet(Addresses) /\ Cardinality(Addresses) = MaxEntry
  BY FS_Interval, GhtMemory DEF Addresses
<1>7. n <= MaxEntry
  BY <1>2, <1>5, <1>6, FS_Subset
<1> QED
  BY <1>2, <1>5, <1>7, GhtMemory

\* The recursive function of Walk exists.
LEMMA WalkPath ==
  ASSUME NEW link \in Links
  PROVE  \E path :
           /\ path = [n \in 0..MaxEntry |-> [f \in Addresses \cup {NULL} |->
                        IF n = 0 \/ f = NULL THEN <<>>
                        ELSE <<f>> \o path[n - 1][link[f]]]]
           /\ \A e : Walk(link, e) = path[MaxEntry][e]
<1> DEFINE Path(g, m) == g = [n \in 0..m |-> [f \in Addresses \cup {NULL} |->
                                IF n = 0 \/ f = NULL THEN <<>>
                                ELSE <<f>> \o g[n - 1][link[f]]]]
           Good == {m \in Nat : \E g : Path(g, m)}
<1>1. 0 \in Good
  <2>1. Path([n \in 0..0 |-> [f \in Addresses \cup {NULL} |-> <<>>]], 0)
    OBVIOUS
  <2> QED
    BY <2>1
<1>2. ASSUME NEW m \in Nat, m \in Good PROVE m + 1 \in Good
  <2>1. PICK g : Path(g, m)
    BY <1>2
  <2> DEFINE h == [n \in 0..m + 1 |-> [f \in Addresses \cup {NULL} |->
                     IF n = 0 \/ f = NULL THEN <<>>
                     ELSE <<f>> \o g[n - 1][link[f]]]]
  <2>2. \A n \in 0..m, f \in Addresses \cup {NULL} : h[n][f] = g[n][f]
    <3> SUFFICES ASSUME NEW n \in 0..m PROVE h[n] = g[n]
      OBVIOUS
    <3> DEFINE row == [f \in Addresses \cup {NULL} |->
                         IF n = 0 \/ f = NULL THEN <<>>
                         ELSE <<f>> \o g[n - 1][link[f]]]
    <3>1. g[n] = row
      BY <2>1
    <3>2. h[n] = row
      OBVIOUS
    <3> QED
      BY <3>1, <3>2
  <2>3. Path(h, m + 1)
    <3> SUFFICES ASSUME NEW n \in 0..m + 1, NEW f \in Addresses \cup {NULL},
                        n # 0, f # NULL
                 PROVE  g[n - 1][link[f]] = h[n - 1][link[f]]
      OBVIOUS
    <3>1. n - 1 \in 0..m /\ link[f] \in Addresses \cup {NULL}
      BY DEF Links, Ref
    <3> QED
      BY <2>2, <3>1
  <2> HIDE DEF h, Path
  <2> QED
    BY <2>3
<1>3. MaxEntry \in Good
  <2> HIDE DEF Good
  <2> QED
    BY <1>1, <1>2, InductionOnSet, GhtMemory
<1>4. PICK g : Path(g, MaxEntry)
  BY <1>3
<1> DEFINE path == CHOOSE p : Path(p, MaxEntry)
<1>5. Path(path, MaxEntry)
  <2> HIDE DEF Path
  <2> QED
    BY <1>4
<1>6. \A e : Walk(link, e) = path[MaxEntry][e]
  BY DEF Walk
<1> HIDE DEF path
<1> QED
  BY <1>5, <1>6

\* Walk goes through the list.
LEMMA WalkList ==
  ASSUME NEW link \in Links, NEW s, NEW n, NEW back, NEW first, NEW last,
         IsList(s, n, link, back, first, last), n <= MaxEntry
  PROVE  Walk(link, first) = s
<1>1. PICK path :
        /\ path = [m \in 0..MaxEntry |-> [f \in Addresses \cup {NULL} |->
                     IF m = 0 \/ f = NULL THEN <<>>
                     ELSE <<f>> \o path[m - 1][link[f]]]]
        /\ \A e : Walk(link, e) = path[MaxEntry][e]
  BY WalkPath
<1>2. /\ n \in Nat /\ MaxEntry \in Nat
      /\ \A i \in 1..n : s[i] \in Addresses /\ s[i] # NULL
  BY NullNoAddress, GhtMemory DEF IsList
\* The entry i, or the end of the list, and the m entries from it on.
<1> DEFINE At(i) == IF i = n + 1 THEN NULL ELSE s[i]
           Size(m, i) == IF m <= n + 1 - i THEN m ELSE n + 1 - i
           Good == {m \in Nat : m <= MaxEntry => \A i \in 1..n + 1 :
                      path[m][At(i)] = [j \in 1..Size(m, i) |-> s[i + j - 1]]}
<1>3. 0 \in Good
  <2> SUFFICES ASSUME NEW i \in 1..n + 1
               PROVE  path[0][At(i)] = [j \in 1..Size(0, i) |-> s[i + j - 1]]
    OBVIOUS
  <2>1. At(i) \in Addresses \cup {NULL} /\ Size(0, i) = 0
    BY <1>2
  <2>2. path[0][At(i)] = <<>>
    BY <1>1, <1>2, <2>1
  <2> QED
    BY <2>1, <2>2
<1>4. ASSUME NEW m \in Nat, m \in Good PROVE m + 1 \in Good
  <2> SUFFICES ASSUME m + 1 <= MaxEntry, NEW i \in 1..n + 1
               PROVE  path[m + 1][At(i)]
                        = [j \in 1..Size(m + 1, i) |-> s[i + j - 1]]
    OBVIOUS
  <2>1. At(i) \in Addresses \cup {NULL} /\ m + 1 \in 0..MaxEntry /\ m + 1 # 0
    BY <1>2
  <2>2. CASE i = n + 1
    <3>1. path[m + 1][At(i)] = <<>>
      BY <1>1, <2>1, <2>2
    <3>2. Size(m + 1, i) = 0
      BY <1>2, <2>2
    <3> QED
      BY <3>1, <3>2
  <2>3. CASE i # n + 1
    <3>1. i \in 1..n /\ i + 1 \in 1..n + 1 /\ At(i) = s[i] /\ s[i] # NULL
      BY <1>2, <2>3
    <3>2. link[s[i]] = At(i + 1)
      BY <1>2, <3>1 DEF IsList
    <3>3. path[m + 1][s[i]] = <<s[i]>> \o path[m][At(i + 1)]
      <4>1. s[i] \in Addresses \cup {NULL} /\ (m + 1) - 1 = m
        BY <1>2, <3>1
      <4>2. path[m + 1] = [f \in Addresses \cup {NULL} |->
                             IF m + 1 = 0 \/ f = NULL THEN <<>>
                             ELSE <<f>> \o path[(m + 1) - 1][link[f]]]
        BY <1>1, <2>1
      <4> HIDE DEF At
      <4> QED
        BY <2>1, <3>1, <3>2, <4>1, <4>2
    <3> DEFINE q == [j \in 1..Size(m, i + 1) |-> s[(i + 1) + j - 1]]
               p == [j \in 1..Size(m + 1, i) |-> s[i + j - 1]]
    <3>4. path[m][At(i + 1)] = q
      BY <1>4, <1>2, <3>1
    <3>5. Size(m, i + 1) \in Nat /\ Size(m + 1, i) = Size(m, i + 1) + 1
      BY <1>2, <3>1
    <3>6. <<s[i]>> \o q = p
      <4> DEFINE l == Size(m, i + 1)
      <4>1. l \in Nat /\ Size(m + 1, i) = l + 1
        BY <3>5
      <4>2. q = [j \in 1..l |-> s[i + j]] /\ p = [j \in 1..l + 1 |-> s[i + j - 1]]
        BY <3>1, <4>1
      <4>3. q \in Seq(Addresses) /\ Len(q) = l
        <5>1. \A j \in 1..l : i + j \in 1..n
          BY <1>2, <3>1
        <5> HIDE DEF l
        <5> QED
          BY <1>2, <4>1, <4>2, <5>1
      <4> HIDE DEF l, p, q
      <4> QED
        BY <1>2, <3>1, <4>1, <4>2, <4>3
    <3> QED
      BY <3>1, <3>3, <3>4, <3>6
  <2> QED
    BY <2>2, <2>3
<1>5. MaxEntry \in Good
  <2> HIDE DEF Good
  <2> QED
    BY <1>3, <1>4, InductionOnSet, GhtMemory
<1>6. path[MaxEntry][At(1)] = [j \in 1..Size(MaxEntry, 1) |-> s[1 + j - 1]]
  BY <1>2, <1>5
<1>7. At(1) = first /\ Size(MaxEntry, 1) = n
  BY <1>2 DEF IsList
<1>8. s = [j \in 1..n |-> s[1 + j - 1]]
  BY <1>2 DEF IsList
<1> QED
  BY <1>1, <1>6, <1>7, <1>8

\* What the properties say of a list that is walked.
Walked(s, S, n, back, last) ==
  /\ s \in Seq(Addresses)
  /\ Len(s) = n /\ DOMAIN s = 1..n
  /\ Range(s) = S
  /\ \A i, j \in 1..n : s[i] = s[j] => i = j
  /\ \A i \in 1..n : back[s[i]] = IF i = 1 THEN NULL ELSE s[i - 1]
  /\ last = IF s = <<>> THEN NULL ELSE Last(s)

LEMMA ListWalked ==
  ASSUME NEW S, NEW n, NEW link \in Links, NEW back, NEW first, NEW last,
         ListOf(S, n, link, back, first, last)
  PROVE  Walked(Walk(link, first), S, n, back, last)
<1>1. PICK s : /\ IsList(s, n, link, back, first, last)
               /\ \A e : e \in S <=> \E i \in 1..n : s[i] = e
  BY DEF ListOf
<1>2. n \in Nat /\ n <= MaxEntry
  BY ListSize, GhtMemory
<1>3. Walk(link, first) = s
  BY <1>1, <1>2, WalkList
<1>4. s \in [1..n -> Addresses]
  BY <1>1 DEF IsList
<1>5. s \in Seq(Addresses) /\ Len(s) = n /\ DOMAIN s = 1..n
  BY <1>2, <1>4
<1>6. Range(s) = S
  BY <1>1, <1>5 DEF Range
<1>7. s = <<>> <=> n = 0
  BY <1>2, <1>5
<1>8. last = IF s = <<>> THEN NULL ELSE Last(s)
  BY <1>1, <1>5, <1>7 DEF IsList, Last
<1>9. \A i \in 1..n : back[s[i]] = IF i = 1 THEN NULL ELSE s[i - 1]
  BY <1>1 DEF IsList
<1>10. \A i, j \in 1..n : s[i] = s[j] => i = j
  BY <1>1 DEF IsList
<1> QED
  BY <1>3, <1>5, <1>6, <1>8, <1>9, <1>10 DEF Walked

-----------------------------------------------------------------------------
(***************************************************************************)
(* Tables.  Sound(t) is the invariant of a table between operations.  An   *)
(* insertion goes through tables in which the new entry X is not counted   *)
(* or has no place in the list by age yet.                                 *)
(***************************************************************************)
Typed(t) ==
  t \in [size : Nat, items : Int,
         head : [0..(t.size - 1) -> Ref], nr : [0..(t.size - 1) -> Int],
         key : [Addresses -> Keys \cup {NULL}],
         data : [Addresses -> Data \cup {NULL}],
         next : Links, prev : Links, older : Links, newer : Links,
         oldest : Ref, newest : Ref]

InBucket(t, b) == {e \in Allocated(t) : Bucket(t, t.key[e]) = b}

KeysOnce(t) == \A e, f \in Allocated(t) : t.key[e] = t.key[f] => e = f

Chained(t) ==
  \A b \in 0..(t.size - 1) :
    \E n, last : ListOf(InBucket(t, b), n, t.next, t.prev, t.head[b], last)

Aged(t, X) ==
  \E n : ListOf(Allocated(t) \ X, n, t.newer, t.older, t.oldest, t.newest)

Counted(t, X) ==
  /\ t.items = Cardinality(Allocated(t) \ X)
  /\ \A b \in 0..(t.size - 1) : t.nr[b] = Cardinality(InBucket(t, b) \ X)

Sound(t) ==
  Typed(t) /\ KeysOnce(t) /\ Chained(t) /\ Aged(t, {}) /\ Counted(t, {})

LEMMA BucketRange ==
  ASSUME NEW t, t.size \in Nat \ {0}, NEW k \in Keys
  PROVE  Bucket(t, k) \in 0..(t.size - 1)
BY GhtConstants DEF Bucket

LEMMA EntriesFinite ==
  ASSUME NEW t, NEW b
  PROVE  /\ IsFiniteSet(Allocated(t)) /\ Cardinality(Allocated(t)) <= MaxEntry
         /\ IsFiniteSet(InBucket(t, b))
         /\ Cardinality(InBucket(t, b)) \in 0..MaxEntry
<1>1. IsFiniteSet(Addresses) /\ Cardinality(Addresses) = MaxEntry
  BY FS_Interval, GhtMemory DEF Addresses
<1>2. Allocated(t) \subseteq Addresses /\ InBucket(t, b) \subseteq Addresses
  BY DEF Allocated, InBucket
<1>3. IsFiniteSet(Allocated(t)) /\ Cardinality(Allocated(t)) <= MaxEntry
  BY <1>1, <1>2, FS_Subset
<1>4. IsFiniteSet(InBucket(t, b)) /\ Cardinality(InBucket(t, b)) <= MaxEntry
  BY <1>1, <1>2, FS_Subset
<1> QED
  BY <1>3, <1>4, FS_CardinalityType, GhtMemory

\* Changes of the order in a chain.
SameButChain(t, r) ==
  /\ Typed(r)
  /\ r.size = t.size /\ r.items = t.items /\ r.nr = t.nr
  /\ r.key = t.key /\ r.data = t.data
  /\ r.older = t.older /\ r.newer = t.newer
  /\ r.oldest = t.oldest /\ r.newest = t.newest

Transposed(t, r, e) ==
  LET x == t.prev[e]
      a == t.prev[x]
      b == t.next[e]
      c == Bucket(t, t.key[e])
  IN /\ SameButChain(t, r)
     /\ r.head = [t.head EXCEPT ![c] = IF a = NULL THEN e ELSE @]
     /\ r.next = Put([t.next EXCEPT ![x] = b, ![e] = x], a, e)
     /\ r.prev = Put([t.prev EXCEPT ![x] = e, ![e] = a], b, x)

LEMMA TransposeFields ==
  ASSUME NEW t, Typed(t), t.size # 0, NEW e \in Allocated(t), t.prev[e] # NULL
  PROVE  Transposed(t, transpose(t, e), e)
<1> DEFINE x == t.prev[e]
           a == t.prev[x]
           b == t.next[e]
           c == Bucket(t, t.key[e])
           head == [t.head EXCEPT ![c] = IF a = NULL THEN e ELSE @]
           next == Put([t.next EXCEPT ![x] = b, ![e] = x], a, e)
           prev == Put([t.prev EXCEPT ![x] = e, ![e] = a], b, x)
<1>1. e \in Addresses /\ t.key[e] \in Keys /\ c \in 0..(t.size - 1)
  BY BucketRange DEF Typed, Allocated
<1>2. x \in Addresses /\ a \in Ref /\ b \in Ref
  BY <1>1 DEF Typed, Links, Ref
<1>3. head \in [0..(t.size - 1) -> Ref]
  BY <1>1 DEF Typed, Ref
<1>4. next \in Links /\ prev \in Links
  BY <1>1, <1>2 DEF Typed, Put, Links, Ref
<1> DEFINE r == transpose(t, e)
<1>5. r = [t EXCEPT !.head = head, !.next = next, !.prev = prev]
  BY <1>1 DEF transpose, Typed
<1> HIDE DEF r, head, next, prev
<1>6. /\ DOMAIN r = DOMAIN t
      /\ r.size = t.size /\ r.items = t.items /\ r.nr = t.nr
      /\ r.key = t.key /\ r.data = t.data
      /\ r.head = head /\ r.next = next /\ r.prev = prev
      /\ r.older = t.older /\ r.newer = t.newer
      /\ r.oldest = t.oldest /\ r.newest = t.newest
  BY <1>5 DEF Typed
<1>7. Typed(r)
  BY <1>3, <1>4, <1>5, <1>6 DEF Typed
<1> QED
  BY <1>6, <1>7 DEF Transposed, SameButChain, r, head, next, prev

MovedToFront(t, r, e) ==
  LET c == Bucket(t, t.key[e])
      first == t.head[c]
  IN /\ SameButChain(t, r)
     /\ r.head = [t.head EXCEPT ![c] = e]
     /\ r.next = [t.next EXCEPT ![t.prev[e]] = t.next[e], ![e] = first]
     /\ r.prev = [Put(t.prev, t.next[e], t.prev[e])
                    EXCEPT ![first] = e, ![e] = NULL]

LEMMA FrontFields ==
  ASSUME NEW t, Typed(t), t.size # 0, NEW e \in Allocated(t),
         e # t.head[Bucket(t, t.key[e])],
         t.prev[e] # NULL, t.head[Bucket(t, t.key[e])] # NULL
  PROVE  MovedToFront(t, move_to_front(t, e), e)
<1> DEFINE c == Bucket(t, t.key[e])
           first == t.head[c]
           head == [t.head EXCEPT ![c] = e]
           next == [t.next EXCEPT ![t.prev[e]] = t.next[e], ![e] = first]
           prev == [Put(t.prev, t.next[e], t.prev[e])
                      EXCEPT ![first] = e, ![e] = NULL]
<1>1. e \in Addresses /\ t.key[e] \in Keys /\ c \in 0..(t.size - 1)
  BY BucketRange DEF Typed, Allocated
<1>2. t.prev[e] \in Addresses /\ t.next[e] \in Ref /\ first \in Addresses
  BY <1>1 DEF Typed, Links, Ref
<1>3. head \in [0..(t.size - 1) -> Ref]
  BY <1>1 DEF Typed, Ref
<1>4. next \in Links /\ prev \in Links
  BY <1>1, <1>2 DEF Typed, Put, Links, Ref
<1> DEFINE r == move_to_front(t, e)
<1>5. r = [t EXCEPT !.head = head, !.next = next, !.prev = prev]
  BY <1>1 DEF move_to_front, Typed
<1> HIDE DEF r, head, next, prev
<1>6. /\ DOMAIN r = DOMAIN t
      /\ r.size = t.size /\ r.items = t.items /\ r.nr = t.nr
      /\ r.key = t.key /\ r.data = t.data
      /\ r.head = head /\ r.next = next /\ r.prev = prev
      /\ r.older = t.older /\ r.newer = t.newer
      /\ r.oldest = t.oldest /\ r.newest = t.newest
  BY <1>5 DEF Typed
<1>7. Typed(r)
  BY <1>3, <1>4, <1>5, <1>6 DEF Typed
<1> QED
  BY <1>6, <1>7 DEF MovedToFront, SameButChain, r, head, next, prev

\* An entry is unlinked from its chain and from the list by age, and freed.
Unlinked(t, r, e) ==
  LET b == Bucket(t, t.key[e]) IN
  /\ Typed(r) /\ r.size = t.size
  /\ r.key = [t.key EXCEPT ![e] = NULL]
  /\ r.head = [t.head EXCEPT ![b] = IF t.prev[e] = NULL THEN t.next[e] ELSE @]
  /\ r.next = [Put(t.next, t.prev[e], t.next[e]) EXCEPT ![e] = NULL]
  /\ r.prev = [Put(t.prev, t.next[e], t.prev[e]) EXCEPT ![e] = NULL]
  /\ r.newer = [Put(t.newer, t.older[e], t.newer[e]) EXCEPT ![e] = NULL]
  /\ r.older = [Put(t.older, t.newer[e], t.older[e]) EXCEPT ![e] = NULL]
  /\ r.oldest = IF t.older[e] = NULL THEN t.newer[e] ELSE t.oldest
  /\ r.newest = IF t.newer[e] = NULL THEN t.older[e] ELSE t.newest

FreedEntry(t, e, items, nr) ==
  he_finalize([remove_from_chain(t, e) EXCEPT !.items = items, !.nr = nr], e)

LEMMA UnlinkedFields ==
  ASSUME NEW t, Typed(t), t.size # 0, NEW e \in Allocated(t),
         NEW nr \in [0..(t.size - 1) -> Int], NEW items \in Int
  PROVE  LET r == FreedEntry(t, e, items, nr) IN
         Unlinked(t, r, e) /\ r.nr = nr /\ r.items = items
<1> USE DEF FreedEntry
<1> DEFINE b == Bucket(t, t.key[e])
           u == [remove_from_chain(t, e) EXCEPT !.items = items, !.nr = nr]
           r == he_finalize(u, e)
<1>1. /\ e \in Addresses /\ t.key[e] \in Keys
      /\ b \in 0..(t.size - 1)
  BY BucketRange DEF Typed, Allocated
<1>2. /\ t.prev[e] \in Ref /\ t.next[e] \in Ref
      /\ t.newer[e] \in Ref /\ t.older[e] \in Ref
  BY <1>1 DEF Typed, Links
<1> DEFINE head == [t.head EXCEPT ![b] = IF t.prev[e] = NULL THEN t.next[e]
                                         ELSE @]
           next == Put(t.next, t.prev[e], t.next[e])
           prev == Put(t.prev, t.next[e], t.prev[e])
           newer == Put(t.newer, t.older[e], t.newer[e])
           older == Put(t.older, t.newer[e], t.older[e])
           oldest == IF t.older[e] = NULL THEN t.newer[e] ELSE t.oldest
           newest == IF t.newer[e] = NULL THEN t.older[e] ELSE t.newest
<1>3. /\ DOMAIN u = DOMAIN t
      /\ u.size = t.size /\ u.items = items /\ u.head = head /\ u.nr = nr
      /\ u.key = t.key /\ u.data = t.data
  BY DEF remove_from_chain, Typed
<1>4. /\ u.next = next /\ u.prev = prev
      /\ u.older = older /\ u.newer = newer
      /\ u.oldest = oldest /\ u.newest = newest
  BY DEF remove_from_chain, Typed
<1>5. /\ head \in [0..(t.size - 1) -> Ref]
      /\ next \in Links /\ prev \in Links /\ newer \in Links /\ older \in Links
      /\ oldest \in Ref /\ newest \in Ref
  BY <1>1, <1>2 DEF Typed, Put, Links, Ref
<1>6. u = [u EXCEPT !.nr = nr]
  BY <1>3
<1> HIDE DEF u, head, next, prev, newer, older, oldest, newest
<1>7. Typed(u)
  BY <1>3, <1>4, <1>5, <1>6 DEF Typed
<1>8. /\ DOMAIN r = DOMAIN u
      /\ r.size = u.size /\ r.items = u.items /\ r.head = u.head /\ r.nr = u.nr
      /\ r.key = [u.key EXCEPT ![e] = NULL]
      /\ r.data = [u.data EXCEPT ![e] = NULL]
      /\ r.oldest = u.oldest /\ r.newest = u.newest
  BY <1>7 DEF he_finalize, Typed
<1>9. /\ r.next = [u.next EXCEPT ![e] = NULL]
      /\ r.prev = [u.prev EXCEPT ![e] = NULL]
      /\ r.older = [u.older EXCEPT ![e] = NULL]
      /\ r.newer = [u.newer EXCEPT ![e] = NULL]
  BY <1>7 DEF he_finalize, Typed
<1>10. r = [u EXCEPT !.key = r.key, !.data = r.data, !.next = r.next,
                    !.prev = r.prev, !.older = r.older, !.newer = r.newer]
  BY <1>7 DEF he_finalize, Typed
<1> HIDE DEF r
<1>11. /\ r.key \in [Addresses -> Keys \cup {NULL}]
       /\ r.data \in [Addresses -> Data \cup {NULL}]
       /\ r.next \in Links /\ r.prev \in Links
       /\ r.older \in Links /\ r.newer \in Links
  <2>1. \A X : \A f \in [Addresses -> X \cup {NULL}] :
          [f EXCEPT ![e] = NULL] \in [Addresses -> X \cup {NULL}]
    OBVIOUS
  <2>2. /\ u.key \in [Addresses -> Keys \cup {NULL}]
        /\ u.data \in [Addresses -> Data \cup {NULL}]
        /\ u.next \in Links /\ u.prev \in Links
        /\ u.older \in Links /\ u.newer \in Links
    BY <1>7 DEF Typed
  <2>3. /\ r.key \in [Addresses -> Keys \cup {NULL}]
        /\ r.data \in [Addresses -> Data \cup {NULL}]
    BY <2>1, <2>2, <1>8
  <2>4. /\ r.next \in Links /\ r.prev \in Links
        /\ r.older \in Links /\ r.newer \in Links
    BY <2>1, <2>2, <1>9 DEF Links, Ref
  <2> QED
    BY <2>3, <2>4
<1>12. Typed(r)
  BY <1>7, <1>10, <1>11 DEF Typed
<1> QED
  BY <1>3, <1>4, <1>8, <1>9, <1>12
     DEF Unlinked, u, r, head, next, prev, newer, older, oldest, newest

Placed(t, r, e, k, d) ==
  LET b == Bucket(t, k) IN
  /\ Typed(r)
  /\ r.size = t.size /\ r.items = t.items /\ r.nr = t.nr
  /\ r.key = [t.key EXCEPT ![e] = k] /\ r.data = [t.data EXCEPT ![e] = d]
  /\ r.head = [t.head EXCEPT ![b] = e]
  /\ r.next = [t.next EXCEPT ![e] = t.head[b]]
  /\ r.prev = Put([t.prev EXCEPT ![e] = NULL], t.head[b], e)
  /\ r.older = t.older /\ r.newer = t.newer
  /\ r.oldest = t.oldest /\ r.newest = t.newest

LEMMA PlaceFields ==
  ASSUME NEW t, Typed(t), t.size # 0, NEW e \in Addresses,
         NEW k \in Keys, NEW d \in Data \cup {NULL}
  PROVE  Placed(t, PlaceFirst(t, e, k, d), e, k, d)
<1> DEFINE r == PlaceFirst(t, e, k, d)
           b == Bucket(t, k)
           first == t.head[b]
           key == [t.key EXCEPT ![e] = k]
           data == [t.data EXCEPT ![e] = d]
           head == [t.head EXCEPT ![b] = e]
           next == [t.next EXCEPT ![e] = first]
           prev == Put([t.prev EXCEPT ![e] = NULL], first, e)
<1>1. b \in 0..(t.size - 1)
  BY BucketRange DEF Typed
<1>2. first \in Ref
  BY <1>1 DEF Typed
<1>3. /\ key \in [Addresses -> Keys \cup {NULL}]
      /\ data \in [Addresses -> Data \cup {NULL}]
      /\ head \in [0..(t.size - 1) -> Ref]
  BY DEF Typed, Ref
<1>4. next \in Links /\ prev \in Links
  BY <1>2 DEF Typed, Put, Links, Ref
<1>5. r = [t EXCEPT !.key = key, !.data = data, !.head = head,
                    !.next = next, !.prev = prev]
  BY <1>1 DEF PlaceFirst, Typed
<1> HIDE DEF r, key, data, head, next, prev
<1>6. /\ DOMAIN r = DOMAIN t
      /\ r.size = t.size /\ r.items = t.items /\ r.nr = t.nr
      /\ r.key = key /\ r.data = data
      /\ r.head = head /\ r.next = next /\ r.prev = prev
      /\ r.older = t.older /\ r.newer = t.newer
      /\ r.oldest = t.oldest /\ r.newest = t.newest
  BY <1>5 DEF Typed
<1>7. Typed(r)
  BY <1>3, <1>4, <1>5, <1>6 DEF Typed
<1> QED
  BY <1>6, <1>7 DEF Placed, r, key, data, head, next, prev

MadeNewest(t, r, e) ==
  /\ Typed(r)
  /\ r.size = t.size /\ r.items = t.items /\ r.nr = t.nr
  /\ r.key = t.key /\ r.data = t.data
  /\ r.head = t.head /\ r.next = t.next /\ r.prev = t.prev
  /\ r.older = [t.older EXCEPT ![e] = t.newest]
  /\ r.newer = Put([t.newer EXCEPT ![e] = NULL], t.newest, e)
  /\ r.oldest = IF t.oldest = NULL THEN e ELSE t.oldest
  /\ r.newest = e

LEMMA NewestFields ==
  ASSUME NEW t, Typed(t), NEW e \in Addresses
  PROVE  MadeNewest(t, BecomeNewest(t, e), e)
<1> DEFINE older == [t.older EXCEPT ![e] = t.newest]
           newer == Put([t.newer EXCEPT ![e] = NULL], t.newest, e)
           oldest == IF t.oldest = NULL THEN e ELSE t.oldest
           r == BecomeNewest(t, e)
<1>1. older \in Links /\ newer \in Links
  BY DEF Typed, Put, Links, Ref
<1>2. oldest \in Ref /\ e \in Ref
  BY DEF Typed, Ref
<1>3. r = [t EXCEPT !.older = older, !.newer = newer, !.oldest = oldest,
                    !.newest = e]
  BY DEF BecomeNewest, Typed
<1> HIDE DEF r, older, newer, oldest
<1>4. /\ DOMAIN r = DOMAIN t
      /\ r.size = t.size /\ r.items = t.items /\ r.nr = t.nr
      /\ r.key = t.key /\ r.data = t.data
      /\ r.head = t.head /\ r.next = t.next /\ r.prev = t.prev
      /\ r.older = older /\ r.newer = newer
      /\ r.oldest = oldest /\ r.newest = e
  BY <1>3 DEF Typed
<1>5. Typed(r)
  BY <1>1, <1>2, <1>3, <1>4 DEF Typed
<1> QED
  BY <1>4, <1>5 DEF MadeNewest, r, older, newer, oldest

OneMore(t, r, b) ==
  /\ Typed(r)
  /\ r.size = t.size /\ r.items = t.items + 1
  /\ r.nr = [t.nr EXCEPT ![b] = @ + 1]
  /\ r.key = t.key /\ r.data = t.data
  /\ r.head = t.head /\ r.next = t.next /\ r.prev = t.prev
  /\ r.older = t.older /\ r.newer = t.newer
  /\ r.oldest = t.oldest /\ r.newest = t.newest

LEMMA CountFields ==
  ASSUME NEW t, Typed(t), NEW b \in 0..(t.size - 1)
  PROVE  OneMore(t, [t EXCEPT !.nr[b] = @ + 1, !.items = @ + 1], b)
<1> DEFINE nr == [t.nr EXCEPT ![b] = @ + 1]
           items == t.items + 1
           r == [t EXCEPT !.nr[b] = @ + 1, !.items = @ + 1]
<1>1. nr \in [0..(t.size - 1) -> Int] /\ items \in Int
  BY DEF Typed
<1>2. r = [t EXCEPT !.nr = nr, !.items = items]
  BY DEF Typed
<1> HIDE DEF r, nr, items
<1>3. /\ DOMAIN r = DOMAIN t
      /\ r.size = t.size /\ r.items = items /\ r.nr = nr
      /\ r.key = t.key /\ r.data = t.data
      /\ r.head = t.head /\ r.next = t.next /\ r.prev = t.prev
      /\ r.older = t.older /\ r.newer = t.newer
      /\ r.oldest = t.oldest /\ r.newest = t.newest
  BY <1>2 DEF Typed
<1>4. Typed(r)
  BY <1>1, <1>2, <1>3 DEF Typed
<1> QED
  BY <1>3, <1>4 DEF OneMore, r, nr, items

-----------------------------------------------------------------------------
(***************************************************************************)
(* What the operations on a table keep.                                    *)
(***************************************************************************)
LEMMA InItsBucket ==
  ASSUME NEW t, Typed(t), t.size # 0, NEW e \in Allocated(t)
  PROVE  /\ e \in Addresses /\ t.key[e] \in Keys
         /\ Bucket(t, t.key[e]) \in 0..(t.size - 1)
         /\ e \in InBucket(t, Bucket(t, t.key[e]))
BY BucketRange DEF Typed, Allocated, InBucket

\* The new entry is the first one of its chain (PlaceFirst).
LEMMA PlaceKeeps ==
  ASSUME NEW t, Typed(t), t.size # 0, KeysOnce(t), Chained(t),
         NEW e \in Addresses, e \notin Allocated(t),
         NEW k \in Keys, \A f \in Allocated(t) : t.key[f] # k,
         NEW d \in Data \cup {NULL},
         NEW r, Placed(t, r, e, k, d)
  PROVE  /\ KeysOnce(r) /\ Chained(r)
         /\ Allocated(r) = Allocated(t) \cup {e}
         /\ \A c : InBucket(r, c) \ {e} = InBucket(t, c)
         /\ InBucket(r, Bucket(t, k)) = InBucket(t, Bucket(t, k)) \cup {e}
<1> DEFINE b == Bucket(t, k)
           first == t.head[b]
<1>1. /\ Typed(r) /\ r.size = t.size
      /\ r.key = [t.key EXCEPT ![e] = k]
      /\ r.head = [t.head EXCEPT ![b] = e]
      /\ r.next = [t.next EXCEPT ![e] = first]
      /\ r.prev = Put([t.prev EXCEPT ![e] = NULL], first, e)
  BY DEF Placed
<1>2. /\ t.key \in [Addresses -> Keys \cup {NULL}]
      /\ t.head \in [0..(t.size - 1) -> Ref]
      /\ t.next \in Links /\ t.prev \in Links
      /\ NULL \notin Keys
      /\ b \in 0..(t.size - 1)
  BY GhtMemory, BucketRange DEF Typed
<1>3. /\ r.key[e] = k
      /\ \A f \in Addresses : f # e => r.key[f] = t.key[f]
      /\ \A j : Bucket(r, j) = Bucket(t, j)
  BY <1>1, <1>2 DEF Bucket
<1>4. Allocated(r) = Allocated(t) \cup {e}
  BY <1>2, <1>3 DEF Allocated
<1>5. /\ \A c : InBucket(r, c) \ {e} = InBucket(t, c)
      /\ InBucket(r, b) = InBucket(t, b) \cup {e}
      /\ \A c : c # b => InBucket(r, c) = InBucket(t, c)
  <2>1. \A f \in Allocated(t) : f \in Addresses /\ f # e /\ r.key[f] = t.key[f]
    BY <1>3 DEF Allocated
  <2> QED
    BY <1>3, <1>4, <2>1 DEF InBucket
<1>6. KeysOnce(r)
  BY <1>3, <1>4 DEF KeysOnce, Allocated
<1>7. Chained(r)
  <2> SUFFICES ASSUME NEW c \in 0..(t.size - 1)
               PROVE  \E n, last : ListOf(InBucket(r, c), n, r.next, r.prev,
                                          r.head[c], last)
    BY <1>1 DEF Chained
  <2>1. PICK n, last : ListOf(InBucket(t, c), n, t.next, t.prev, t.head[c], last)
    BY DEF Chained
  <2>2. CASE c = b
    <3>1. e \notin InBucket(t, b)
      BY DEF InBucket
    <3>2. ListOf(InBucket(t, b) \cup {e}, n + 1, [t.next EXCEPT ![e] = first],
                 Put([t.prev EXCEPT ![e] = NULL], first, e),
                 e, IF first = NULL THEN e ELSE last)
      BY <1>2, <2>1, <2>2, <3>1, ListAddFirst
    <3>3. r.head[c] = e
      BY <1>1, <1>2, <2>2
    <3>4. ListOf(InBucket(r, c), n + 1, r.next, r.prev, r.head[c],
                 IF first = NULL THEN e ELSE last)
      <4> HIDE DEF first
      <4> QED
        BY <1>1, <1>5, <2>2, <3>2, <3>3
    <3> QED
      BY <3>4
  <2>3. CASE c # b
    <3>1. first = NULL \/ first \in InBucket(t, b)
      <4>1. PICK m, l : ListOf(InBucket(t, b), m, t.next, t.prev, first, l)
        BY <1>2 DEF Chained
      <4> QED
        BY <4>1, ListMembers
    <3>2. \A f \in InBucket(t, c) : f \in Addresses /\ f # e /\ f # first
      BY <2>3, <3>1, NullNoAddress DEF InBucket, Allocated
    <3>3. first = NULL \/ first \in Addresses
      BY <3>1 DEF InBucket, Allocated
    <3>4. \A f \in InBucket(t, c) : r.next[f] = t.next[f] /\ r.prev[f] = t.prev[f]
      <4> SUFFICES ASSUME NEW f \in InBucket(t, c)
                   PROVE  r.next[f] = t.next[f] /\ r.prev[f] = t.prev[f]
        OBVIOUS
      <4>1. f \in Addresses /\ f # e /\ f # first
        BY <3>2
      <4> QED
        BY <1>1, <1>2, <3>3, <4>1 DEF Put, Links
    <3>5. r.head[c] = t.head[c]
      BY <1>1, <1>2, <2>3
    <3>6. ListOf(InBucket(t, c), n, r.next, r.prev, t.head[c], last)
      BY <2>1, <3>4, ListFrame
    <3> QED
      BY <1>5, <2>3, <3>5, <3>6
  <2> QED
    BY <2>2, <2>3
<1> QED
  BY <1>4, <1>5, <1>6, <1>7

\* An entry that is unlinked and freed leaves the others linked.
LEMMA UnlinkKeeps ==
  ASSUME NEW t, Typed(t), t.size # 0, KeysOnce(t), Chained(t),
         NEW X, Aged(t, X), NEW e \in Allocated(t), e \notin X,
         NEW r, Unlinked(t, r, e)
  PROVE  /\ KeysOnce(r) /\ Chained(r) /\ Aged(r, X)
         /\ Allocated(r) = Allocated(t) \ {e}
         /\ \A c : InBucket(r, c) = InBucket(t, c) \ {e}
<1> DEFINE b == Bucket(t, t.key[e])
<1>1. /\ e \in Addresses /\ t.key[e] \in Keys /\ b \in 0..(t.size - 1)
      /\ e \in InBucket(t, b)
  BY InItsBucket
<1>2. /\ t.key \in [Addresses -> Keys \cup {NULL}]
      /\ t.head \in [0..(t.size - 1) -> Ref]
      /\ t.next \in Links /\ t.prev \in Links
      /\ t.newer \in Links /\ t.older \in Links
  BY DEF Typed
<1>3. /\ r.key[e] = NULL
      /\ \A f \in Addresses : f # e => r.key[f] = t.key[f]
      /\ \A j : Bucket(r, j) = Bucket(t, j)
  BY <1>1, <1>2 DEF Bucket, Unlinked
<1>4. Allocated(r) = Allocated(t) \ {e}
  BY <1>1, <1>2, <1>3 DEF Allocated
<1>5. \A c : InBucket(r, c) = InBucket(t, c) \ {e}
  <2>1. \A f \in Allocated(r) : r.key[f] = t.key[f]
    BY <1>3, <1>4 DEF Allocated
  <2> QED
    BY <1>3, <1>4, <2>1 DEF InBucket
<1>6. KeysOnce(r)
  BY <1>3, <1>4 DEF KeysOnce, Allocated
<1>7. Chained(r)
  <2> SUFFICES ASSUME NEW c \in 0..(t.size - 1)
               PROVE  \E n, last : ListOf(InBucket(r, c), n, r.next, r.prev,
                                          r.head[c], last)
    BY DEF Chained, Unlinked
  <2>1. PICK n, last : ListOf(InBucket(t, c), n, t.next, t.prev, t.head[c], last)
    BY DEF Chained
  <2> DEFINE next == Put(t.next, t.prev[e], t.next[e])
             prev == Put(t.prev, t.next[e], t.prev[e])
  <2>2. CASE c = b
    <3> DEFINE front == IF t.prev[e] = NULL THEN t.next[e] ELSE t.head[c]
               end == IF t.next[e] = NULL THEN t.prev[e] ELSE last
    <3>1. ListOf(InBucket(t, c) \ {e}, n - 1, next, prev, front, end)
      BY <1>1, <1>2, <2>1, <2>2, ListRemove
    <3>2. \A f \in InBucket(t, c) \ {e} : r.next[f] = next[f] /\ r.prev[f] = prev[f]
      BY DEF Unlinked
    <3>3. r.head[c] = front
      BY <1>2, <2>2 DEF Unlinked
    <3> HIDE DEF next, prev, front, end
    <3>4. ListOf(InBucket(t, c) \ {e}, n - 1, r.next, r.prev, front, end)
      BY <3>1, <3>2, ListFrame
    <3> QED
      BY <1>5, <3>3, <3>4
  <2>3. CASE c # b
    <3>1. /\ t.next[e] = NULL \/ t.next[e] \in InBucket(t, b)
          /\ t.prev[e] = NULL \/ t.prev[e] \in InBucket(t, b)
      <4>1. PICK m, l : ListOf(InBucket(t, b), m, t.next, t.prev, t.head[b], l)
        BY <1>1 DEF Chained
      <4> QED
        BY <1>1, <4>1, ListMembers
    <3>2. ASSUME NEW f \in InBucket(t, c)
          PROVE  r.next[f] = t.next[f] /\ r.prev[f] = t.prev[f]
      <4>1. f \in Addresses /\ f # e /\ f # t.next[e] /\ f # t.prev[e]
        BY <1>1, <2>3, <3>1, NullNoAddress DEF InBucket, Allocated
      <4> QED
        BY <1>2, <4>1 DEF Unlinked, Put, Links
    <3>3. r.head[c] = t.head[c]
      BY <1>2, <2>3 DEF Unlinked
    <3>4. ListOf(InBucket(t, c), n, r.next, r.prev, t.head[c], last)
      BY <2>1, <3>2, ListFrame
    <3>5. InBucket(r, c) = InBucket(t, c)
      BY <1>5, <2>3 DEF InBucket
    <3> QED
      BY <3>3, <3>4, <3>5
  <2> QED
    BY <2>2, <2>3
<1>8. Aged(r, X)
  <2>1. PICK n : ListOf(Allocated(t) \ X, n, t.newer, t.older, t.oldest, t.newest)
    BY DEF Aged
  <2> DEFINE newer == Put(t.newer, t.older[e], t.newer[e])
             older == Put(t.older, t.newer[e], t.older[e])
             S == (Allocated(t) \ X) \ {e}
  <2>2. ListOf(S, n - 1, newer, older, r.oldest, r.newest)
    <3>1. e \in Allocated(t) \ X
      OBVIOUS
    <3>2. ListOf(S, n - 1, newer, older,
                 IF t.older[e] = NULL THEN t.newer[e] ELSE t.oldest,
                 IF t.newer[e] = NULL THEN t.older[e] ELSE t.newest)
      BY <1>2, <2>1, <3>1, ListRemove
    <3> QED
      BY <3>2 DEF Unlinked
  <2>3. \A f \in S : r.newer[f] = newer[f] /\ r.older[f] = older[f]
    BY DEF Unlinked
  <2>4. S = Allocated(r) \ X
    BY <1>4
  <2> HIDE DEF newer, older, S
  <2>5. ListOf(S, n - 1, r.newer, r.older, r.oldest, r.newest)
    BY <2>2, <2>3, ListFrame
  <2> QED
    BY <2>4, <2>5 DEF Aged
<1> QED
  BY <1>4, <1>5, <1>6, <1>7, <1>8

\* The new entry is the last one in the list by age (BecomeNewest).
LEMMA NewestKeeps ==
  ASSUME NEW t, Typed(t), KeysOnce(t), Chained(t),
         NEW e \in Allocated(t), Aged(t, {e}),
         NEW r, MadeNewest(t, r, e)
  PROVE  /\ KeysOnce(r) /\ Chained(r) /\ Aged(r, {})
         /\ Allocated(r) = Allocated(t)
         /\ \A c : InBucket(r, c) = InBucket(t, c)
<1>1. /\ e \in Addresses /\ t.newer \in Links /\ t.older \in Links
  BY DEF Typed, Allocated
<1>2. Allocated(r) = Allocated(t) /\ \A c : InBucket(r, c) = InBucket(t, c)
  BY DEF MadeNewest, Allocated, InBucket, Bucket
<1>3. KeysOnce(r)
  BY <1>2 DEF KeysOnce, MadeNewest
<1>4. Chained(r)
  BY <1>2 DEF Chained, MadeNewest
<1> DEFINE S == Allocated(t) \ {e}
<1>5. PICK n : ListOf(S, n, t.newer, t.older, t.oldest, t.newest)
  BY DEF Aged
<1>6. ListOf(S, n, t.older, t.newer, t.newest, t.oldest)
  BY <1>5, ListReversed
<1>7. ListOf(S \cup {e}, n + 1, [t.older EXCEPT ![e] = t.newest],
             Put([t.newer EXCEPT ![e] = NULL], t.newest, e),
             e, IF t.newest = NULL THEN e ELSE t.oldest)
  <2>1. e \notin S
    OBVIOUS
  <2> HIDE DEF S
  <2> QED
    BY <1>1, <1>6, <2>1, ListAddFirst
<1>8. t.newest = NULL <=> t.oldest = NULL
  <2> HIDE DEF S
  <2> QED
    BY <1>5, ListMembers
<1>9. ListOf(S \cup {e}, n + 1, r.older, r.newer, r.newest, r.oldest)
  <2> HIDE DEF S
  <2>1. r.oldest = IF t.newest = NULL THEN e ELSE t.oldest
    BY <1>8 DEF MadeNewest
  <2> QED
    BY <1>7, <2>1 DEF MadeNewest
<1>10. S \cup {e} = Allocated(r) \ {}
  BY <1>2
<1>11. ListOf(Allocated(r) \ {}, n + 1, r.newer, r.older, r.oldest, r.newest)
  <2> HIDE DEF S
  <2> QED
    BY <1>9, <1>10, ListReversed
<1> QED
  BY <1>2, <1>3, <1>4, <1>11 DEF Aged

\* A change of the order in one chain that leaves it a list.
Reordered(t, r, b) ==
  /\ SameButChain(t, r)
  /\ \E n, last : ListOf(InBucket(t, b), n, r.next, r.prev, r.head[b], last)
  /\ \A c \in 0..(t.size - 1) : c # b => r.head[c] = t.head[c]
  /\ \A f \in Addresses \ InBucket(t, b) :
       r.next[f] = t.next[f] /\ r.prev[f] = t.prev[f]

LEMMA ReorderedKeeps ==
  ASSUME NEW t, Sound(t), NEW b, NEW r, Reordered(t, r, b)
  PROVE  /\ Sound(r) /\ Allocated(r) = Allocated(t)
<1>1. Allocated(r) = Allocated(t) /\ \A c : InBucket(r, c) = InBucket(t, c)
  BY DEF Reordered, SameButChain, Allocated, InBucket, Bucket
<1>2. Chained(r)
  <2> SUFFICES ASSUME NEW c \in 0..(t.size - 1), c # b
               PROVE  \E n, last : ListOf(InBucket(t, c), n, r.next, r.prev,
                                          r.head[c], last)
    BY <1>1 DEF Chained, Reordered, SameButChain
  <2>1. PICK n, last : ListOf(InBucket(t, c), n, t.next, t.prev, t.head[c], last)
    BY DEF Chained, Sound
  <2>2. \A f \in InBucket(t, c) : r.next[f] = t.next[f] /\ r.prev[f] = t.prev[f]
    BY DEF Reordered, InBucket, Allocated
  <2>3. ListOf(InBucket(t, c), n, r.next, r.prev, t.head[c], last)
    BY <2>1, <2>2, ListFrame
  <2> QED
    BY <2>3 DEF Reordered
<1>3. KeysOnce(r) /\ Aged(r, {}) /\ Counted(r, {})
  BY <1>1 DEF Sound, KeysOnce, Aged, Counted, Reordered, SameButChain
<1> QED
  BY <1>1, <1>2, <1>3 DEF Sound, Reordered, SameButChain

\* The heuristics only change the order in a chain (Accessed).
LEMMA AccessedKeeps ==
  ASSUME NEW t, Sound(t), t.size # 0, NEW e \in Allocated(t) \cup {NULL}
  PROVE  LET r == Accessed(t, e) IN
         Sound(r) /\ SameButChain(t, r) /\ Allocated(r) = Allocated(t)
<1> DEFINE r == Accessed(t, e)
<1> SUFFICES Sound(r) /\ SameButChain(t, r) /\ Allocated(r) = Allocated(t)
  OBVIOUS
<1>1. CASE r = t
  <2>1. SameButChain(t, t)
    BY DEF SameButChain, Sound
  <2> HIDE DEF r
  <2> QED
    BY <1>1, <2>1
<1> DEFINE b == Bucket(t, t.key[e])
           first == t.head[b]
<1>2. CASE e # NULL
  <2>1. /\ e \in Allocated(t) /\ e \in Addresses /\ b \in 0..(t.size - 1)
        /\ e \in InBucket(t, b)
    BY <1>2, InItsBucket DEF Sound
  <2>2. PICK n, last : ListOf(InBucket(t, b), n, t.next, t.prev, first, last)
    BY <2>1 DEF Sound, Chained
  <2>3. t.next \in Links /\ t.prev \in Links
        /\ t.head \in [0..(t.size - 1) -> Ref]
    BY DEF Sound, Typed
  <2>4. /\ InBucket(t, b) \subseteq Addresses
        /\ first \in InBucket(t, b)
        /\ t.next[e] \in InBucket(t, b) \cup {NULL}
        /\ t.prev[e] \in InBucket(t, b) \cup {NULL}
        /\ t.prev[e] = NULL <=> e = first
    <3> HIDE DEF first
    <3> QED
      BY <2>1, <2>2, ListMembers
  <2>5. ASSUME e # first, r = move_to_front(t, e)
        PROVE  Sound(r) /\ SameButChain(t, r) /\ Allocated(r) = Allocated(t)
    <3>1. MovedToFront(t, r, e)
      BY <2>1, <2>4, <2>5, NullNoAddress, FrontFields DEF Sound
    <3> DEFINE next == [t.next EXCEPT ![t.prev[e]] = t.next[e], ![e] = first]
               prev == [Put(t.prev, t.next[e], t.prev[e])
                          EXCEPT ![first] = e, ![e] = NULL]
    <3>2. \E l : ListOf(InBucket(t, b), n, next, prev, e, l)
      <4> HIDE DEF first, b
      <4> QED
        BY <2>1, <2>2, <2>3, <2>5, ListMoveToFront
    <3>3. /\ SameButChain(t, r) /\ r.head = [t.head EXCEPT ![b] = e]
          /\ r.next = next /\ r.prev = prev
      BY <3>1 DEF MovedToFront
    <3>4. ASSUME NEW f \in Addresses \ InBucket(t, b)
          PROVE  next[f] = t.next[f] /\ prev[f] = t.prev[f]
      <4> HIDE DEF first, b
      <4>1. f # e /\ f # first /\ f # t.next[e] /\ f # t.prev[e]
        BY <2>1, <2>4, NullNoAddress
      <4> QED
        BY <2>3, <4>1 DEF Put, Links
    <3>5. /\ r.head[b] = e
          /\ \A c \in 0..(t.size - 1) : c # b => r.head[c] = t.head[c]
      BY <2>1, <2>3, <3>3
    <3> HIDE DEF r, b, first, next, prev
    <3>6. \E m, l : ListOf(InBucket(t, b), m, r.next, r.prev, r.head[b], l)
      BY <3>2, <3>3, <3>5
    <3>7. Reordered(t, r, b)
      BY <3>3, <3>4, <3>5, <3>6 DEF Reordered
    <3> QED
      BY <3>3, <3>7, ReorderedKeeps
  <2>6. ASSUME t.prev[e] # NULL, r = transpose(t, e)
        PROVE  Sound(r) /\ SameButChain(t, r) /\ Allocated(r) = Allocated(t)
    <3>1. Transposed(t, r, e)
      BY <2>1, <2>6, TransposeFields DEF Sound
    <3> DEFINE x == t.prev[e]
               a == t.prev[x]
               y == t.next[e]
               next == Put([t.next EXCEPT ![x] = y, ![e] = x], a, e)
               prev == Put([t.prev EXCEPT ![x] = e, ![e] = a], y, x)
    <3>2. \E l : ListOf(InBucket(t, b), n, next, prev,
                        IF a = NULL THEN e ELSE first, l)
      <4> HIDE DEF first, b
      <4> QED
        BY <2>1, <2>2, <2>3, <2>6, ListTranspose
    <3>3. /\ SameButChain(t, r)
          /\ r.head = [t.head EXCEPT ![b] = IF a = NULL THEN e ELSE @]
          /\ r.next = next /\ r.prev = prev
      BY <3>1 DEF Transposed
    <3>4. a \in InBucket(t, b) \cup {NULL} /\ x \in InBucket(t, b)
      <4> HIDE DEF first
      <4> QED
        BY <2>2, <2>4, <2>6, ListMembers
    <3>5. ASSUME NEW f \in Addresses \ InBucket(t, b)
          PROVE  next[f] = t.next[f] /\ prev[f] = t.prev[f]
      <4> HIDE DEF b
      <4>1. f # e /\ f # x /\ f # a /\ f # y
        BY <2>1, <2>4, <3>4, NullNoAddress
      <4> HIDE DEF x, a, y
      <4> QED
        BY <2>3, <4>1 DEF Put, Links
    <3>6. /\ r.head[b] = IF a = NULL THEN e ELSE first
          /\ \A c \in 0..(t.size - 1) : c # b => r.head[c] = t.head[c]
      BY <2>1, <2>3, <3>3
    <3> HIDE DEF r, b, first, next, prev, a
    <3>7. \E m, l : ListOf(InBucket(t, b), m, r.next, r.prev, r.head[b], l)
      BY <3>2, <3>3, <3>6
    <3>8. Reordered(t, r, b)
      BY <3>3, <3>5, <3>6, <3>7 DEF Reordered
    <3> QED
      BY <3>3, <3>8, ReorderedKeeps
  <2> QED
    BY <1>1, <1>2, <2>4, <2>5, <2>6 DEF Accessed, move_to_front, transpose
<1>3. CASE e = NULL
  BY <1>1, <1>3 DEF Accessed
<1> HIDE DEF r
<1> QED
  BY <1>2, <1>3

\* The end of a list is its beginning only if there is nothing else.
LEMMA ListEnds ==
  ASSUME NEW S, NEW n, NEW link, NEW back, NEW first, NEW last,
         ListOf(S, n, link, back, first, last), first = last, S # {}
  PROVE  S = {first}
<1>1. PICK s : /\ IsList(s, n, link, back, first, last)
               /\ \A e : e \in S <=> \E i \in 1..n : s[i] = e
  BY DEF ListOf
<1>2. n \in Nat /\ n # 0
  BY <1>1 DEF IsList
<1>3. s[1] = first /\ s[n] = first
  BY <1>1, <1>2 DEF IsList
<1>4. n = 1
  <2>1. 1 \in 1..n /\ n \in 1..n
    BY <1>2
  <2> QED
    BY <1>1, <1>3, <2>1 DEF IsList
<1> QED
  BY <1>1, <1>4 DEF IsList

\* What is different after an insertion of e under the key k into the bucket b:
\* an entry of a full bucket may have gone.
MadeRoom(t, r, e, b) ==
  /\ Typed(r) /\ r.size = t.size
  /\ KeysOnce(r) /\ Chained(r) /\ Aged(r, {e}) /\ Counted(r, {})
  /\ e \in Allocated(r) /\ r.key[e] = t.key[e]
  /\ Allocated(r) \subseteq Allocated(t)
  /\ \A f \in Allocated(r) : r.key[f] = t.key[f]
  /\ \A f \in Allocated(t) \ Allocated(r) :
       f \in InBucket(t, b) /\ use.limit # 0 /\ t.nr[b] >= use.limit
  /\ r.items <= t.items + 1
  /\ \A c \in 0..(t.size - 1) :
       use.limit # 0 /\ t.nr[c] <= use.limit => r.nr[c] <= use.limit

LEMMA OneMoreKeeps ==
  ASSUME NEW t, Typed(t), t.size # 0, KeysOnce(t), Chained(t),
         NEW b \in 0..(t.size - 1),
         NEW e \in InBucket(t, b), Aged(t, {e}), Counted(t, {e}),
         NEW r, OneMore(t, r, b)
  PROVE  /\ Typed(r) /\ r.size = t.size
         /\ KeysOnce(r) /\ Chained(r) /\ Aged(r, {e}) /\ Counted(r, {})
         /\ Allocated(r) = Allocated(t)
<1>1. Allocated(r) = Allocated(t) /\ \A c : InBucket(r, c) = InBucket(t, c)
  BY DEF OneMore, Allocated, InBucket, Bucket
<1>2. Typed(r) /\ r.size = t.size
  BY DEF OneMore
<1>3. KeysOnce(r)
  BY <1>1 DEF OneMore, KeysOnce
<1>4. Chained(r)
  BY <1>1 DEF OneMore, Chained
<1>5. Aged(r, {e})
  BY <1>1 DEF OneMore, Aged
<1>6. r.items = Cardinality(Allocated(r))
  <2>1. e \in Allocated(t)
    BY DEF InBucket
  <2>2. Cardinality(Allocated(t) \ {e}) = Cardinality(Allocated(t)) - 1
        /\ Cardinality(Allocated(t)) \in Nat
    BY <2>1, EntriesFinite, FS_RemoveElement, FS_CardinalityType
  <2> QED
    BY <1>1, <2>2 DEF OneMore, Counted
<1>7. ASSUME NEW c \in 0..(t.size - 1)
      PROVE  r.nr[c] = Cardinality(InBucket(r, c))
  <2>1. t.nr \in [0..(t.size - 1) -> Int]
    BY DEF Typed
  <2>2. r.nr[c] = IF c = b THEN t.nr[c] + 1 ELSE t.nr[c]
    BY <2>1 DEF OneMore
  <2>3. t.nr[c] = Cardinality(InBucket(t, c) \ {e})
    BY DEF Counted
  <2>4. CASE c = b
    <3>1. Cardinality(InBucket(t, b) \ {e}) = Cardinality(InBucket(t, b)) - 1
          /\ Cardinality(InBucket(t, b)) \in Nat
      BY EntriesFinite, FS_RemoveElement, FS_CardinalityType
    <3> QED
      BY <1>1, <2>2, <2>3, <2>4, <3>1
  <2>5. CASE c # b
    <3>1. InBucket(t, c) \ {e} = InBucket(t, c)
      BY <2>5 DEF InBucket
    <3> QED
      BY <1>1, <2>2, <2>3, <2>5, <3>1
  <2> QED
    BY <2>4, <2>5
<1>8. Counted(r, {})
  <2>1. Allocated(r) \ {} = Allocated(r) /\ \A c : InBucket(r, c) \ {} = InBucket(r, c)
    OBVIOUS
  <2> QED
    BY <1>2, <1>6, <1>7, <2>1 DEF Counted
<1> QED
  BY <1>1, <1>2, <1>3, <1>4, <1>5, <1>8

\* The last entry of a full bucket makes room (MakeRoom).
LEMMA MakeRoomKeeps ==
  ASSUME use.limit \in Nat,
         NEW t, Typed(t), t.size # 0, KeysOnce(t), Chained(t),
         NEW b \in 0..(t.size - 1),
         NEW e \in InBucket(t, b), t.head[b] = e,
         Aged(t, {e}), Counted(t, {e})
  PROVE  MadeRoom(t, MakeRoom(t, b), e, b)
<1> DEFINE r == MakeRoom(t, b)
<1>1. e \in Allocated(t)
  BY DEF InBucket
<1>2. t.nr \in [0..(t.size - 1) -> Int] /\ t.items \in Int
  BY DEF Typed
<1>3. CASE use.limit # 0 /\ t.nr[b] >= use.limit
  <2> DEFINE last == Last(Chain(t, b))
  <2>1. PICK n, end : ListOf(InBucket(t, b), n, t.next, t.prev, t.head[b], end)
    BY DEF Chained
  <2>2. end = last
    <3>1. t.next \in Links
      BY DEF Typed
    <3>2. Walked(Chain(t, b), InBucket(t, b), n, t.prev, end)
      <4> HIDE DEF last
      <4> QED
        BY <2>1, <3>1, ListWalked DEF Chain
    <3>3. Chain(t, b) # <<>>
      BY <3>2 DEF Walked, Range
    <3> QED
      BY <3>2, <3>3 DEF Walked
  <2>3. last \in InBucket(t, b) \ {e}
    <3>1. end \in InBucket(t, b)
      BY <2>1, ListMembers
    <3>2. ASSUME end = e PROVE FALSE
      <4>1. InBucket(t, b) = {e}
        BY <2>1, <3>2, ListEnds
      <4>2. t.nr[b] = Cardinality({})
        BY <4>1 DEF Counted
      <4> QED
        BY <1>3, <4>2, FS_EmptySet
    <3> QED
      BY <2>2, <3>1, <3>2
  <2>4. last \in Allocated(t) /\ last # e /\ Bucket(t, t.key[last]) = b
    BY <2>3 DEF InBucket
  <2>5. Unlinked(t, r, last) /\ r.nr = t.nr /\ r.items = t.items
    <3> HIDE DEF last
    <3>1. LET u == FreedEntry(t, last, t.items, t.nr) IN
          Unlinked(t, u, last) /\ u.nr = t.nr /\ u.items = t.items
      BY <1>2, <2>4, UnlinkedFields
    <3>2. [remove_from_chain(t, last) EXCEPT !.items = t.items, !.nr = t.nr]
            = remove_from_chain(t, last)
      BY DEF remove_from_chain, Typed
    <3>3. r = he_finalize(remove_from_chain(t, last), last)
      BY <1>3 DEF MakeRoom, last
    <3> QED
      BY <3>1, <3>2, <3>3 DEF FreedEntry
  <2> HIDE DEF r, last
  <2>6. /\ KeysOnce(r) /\ Chained(r) /\ Aged(r, {e})
        /\ Allocated(r) = Allocated(t) \ {last}
        /\ \A c : InBucket(r, c) = InBucket(t, c) \ {last}
    BY <2>4, <2>5, UnlinkKeeps
  <2>7. Typed(r) /\ r.size = t.size
        /\ \A f \in Allocated(r) : r.key[f] = t.key[f]
    <3>1. t.key \in [Addresses -> Keys \cup {NULL}]
      BY DEF Typed
    <3> QED
      BY <2>5, <2>6, <3>1 DEF Unlinked, Allocated
  <2>8. Counted(r, {})
    <3>1. \A S : IsFiniteSet(S) /\ e \in S /\ last \in S =>
                   Cardinality(S \ {e}) = Cardinality(S \ {last})
      BY FS_RemoveElement
    <3>2. r.items = Cardinality(Allocated(r) \ {})
      <4>1. Allocated(r) \ {} = Allocated(t) \ {last}
        BY <2>6
      <4> QED
        BY <1>1, <2>4, <2>5, <3>1, <4>1, EntriesFinite DEF Counted
    <3>3. ASSUME NEW c \in 0..(t.size - 1)
          PROVE  r.nr[c] = Cardinality(InBucket(r, c) \ {})
      <4>1. InBucket(r, c) \ {} = InBucket(t, c) \ {last}
        BY <2>6
      <4>2. r.nr[c] = Cardinality(InBucket(t, c) \ {e})
        BY <2>5 DEF Counted
      <4>3. CASE c = b
        BY <2>3, <3>1, <4>1, <4>2, <4>3, EntriesFinite
      <4>4. CASE c # b
        <5>1. InBucket(t, c) \ {last} = InBucket(t, c) \ {e}
          BY <2>4, <4>4 DEF InBucket
        <5> QED
          BY <4>1, <4>2, <5>1
      <4> QED
        BY <4>3, <4>4
    <3> QED
      BY <2>7, <3>2, <3>3 DEF Counted
  <2>9. e \in Allocated(r) /\ Allocated(r) \subseteq Allocated(t)
        /\ \A f \in Allocated(t) \ Allocated(r) : f \in InBucket(t, b)
    BY <1>1, <2>3, <2>4, <2>6
  <2>10. r.items <= t.items + 1
    BY <1>2, <2>5
  <2>11. r.key[e] = t.key[e]
    BY <2>7, <2>9
  <2> QED
    BY <1>3, <2>5, <2>6, <2>7, <2>8, <2>9, <2>10, <2>11 DEF MadeRoom, r
<1>4. CASE ~(use.limit # 0 /\ t.nr[b] >= use.limit)
  <2>1. r = [t EXCEPT !.nr[b] = @ + 1, !.items = @ + 1]
    BY <1>4 DEF MakeRoom
  <2> HIDE DEF r
  <2>2. OneMore(t, r, b)
    BY <2>1, CountFields
  <2>3. /\ Typed(r) /\ r.size = t.size
        /\ KeysOnce(r) /\ Chained(r) /\ Aged(r, {e}) /\ Counted(r, {})
        /\ Allocated(r) = Allocated(t)
    BY <2>2, OneMoreKeeps
  <2>4. r.key = t.key /\ r.items = t.items + 1 /\ r.nr = [t.nr EXCEPT ![b] = @ + 1]
    BY <2>2 DEF OneMore
  <2>5. ASSUME NEW c \in 0..(t.size - 1), use.limit # 0, t.nr[c] <= use.limit
        PROVE  r.nr[c] <= use.limit
    BY <1>2, <1>4, <2>4, <2>5
  <2> QED
    BY <1>1, <1>2, <2>3, <2>4, <2>5 DEF MadeRoom, r
<1> QED
  BY <1>3, <1>4

InsertedAs(t, r, e, k) ==
  /\ Sound(r) /\ r.size = t.size
  /\ e \in Allocated(r) /\ r.key[e] = k
  /\ Allocated(r) \subseteq Allocated(t) \cup {e}
  /\ \A f \in Allocated(r) \ {e} : r.key[f] = t.key[f]
  /\ \A f \in Allocated(t) \ Allocated(r) :
       /\ Bucket(t, t.key[f]) = Bucket(t, k)
       /\ use.limit # 0 /\ t.nr[Bucket(t, k)] >= use.limit
  /\ r.items <= t.items + 1
  /\ \A c \in 0..(t.size - 1) :
       use.limit # 0 /\ t.nr[c] <= use.limit => r.nr[c] <= use.limit

KeySet(t) == {t.key[e] : e \in Allocated(t)}

\* Placing an entry leaves the list by age and the counts, it is not in them.
Uncounted(t, p, e, k) ==
  /\ Typed(p) /\ p.size = t.size /\ KeysOnce(p) /\ Chained(p)
  /\ Aged(p, {e}) /\ Counted(p, {e})
  /\ e \in InBucket(p, Bucket(t, k)) /\ p.head[Bucket(t, k)] = e
  /\ Allocated(p) = Allocated(t) \cup {e}
  /\ \A c : InBucket(p, c) \ {e} = InBucket(t, c)

LEMMA PlacedUncounted ==
  ASSUME NEW t, Sound(t), t.size # 0,
         NEW e \in Addresses, e \notin Allocated(t),
         NEW k \in Keys, k \notin KeySet(t), NEW d \in Data \cup {NULL},
         NEW p, Placed(t, p, e, k, d)
  PROVE  Uncounted(t, p, e, k)
<1>1. \A f \in Allocated(t) : t.key[f] # k
  BY DEF KeySet
<1>2. /\ KeysOnce(p) /\ Chained(p)
      /\ Allocated(p) = Allocated(t) \cup {e}
      /\ \A c : InBucket(p, c) \ {e} = InBucket(t, c)
      /\ InBucket(p, Bucket(t, k)) = InBucket(t, Bucket(t, k)) \cup {e}
  BY <1>1, PlaceKeeps DEF Sound
<1>3. Typed(p) /\ p.size = t.size
  BY DEF Placed
<1>4. Allocated(p) \ {e} = Allocated(t) \ {}
  BY <1>2
<1>5. Aged(p, {e})
  BY <1>4 DEF Placed, Aged, Sound
<1>6. Counted(p, {e})
  <2>1. p.items = Cardinality(Allocated(p) \ {e})
    BY <1>4 DEF Placed, Counted, Sound
  <2>2. ASSUME NEW c \in 0..(t.size - 1)
        PROVE  p.nr[c] = Cardinality(InBucket(p, c) \ {e})
    <3>1. InBucket(p, c) \ {e} = InBucket(t, c) \ {}
      BY <1>2
    <3> QED
      BY <3>1 DEF Placed, Counted, Sound
  <2> QED
    BY <1>3, <2>1, <2>2 DEF Counted
<1>7. p.head[Bucket(t, k)] = e
  <2>1. t.head \in [0..(t.size - 1) -> Ref] /\ Bucket(t, k) \in 0..(t.size - 1)
    BY BucketRange DEF Sound, Typed
  <2> QED
    BY <2>1 DEF Placed
<1>8. e \in InBucket(p, Bucket(t, k))
  BY <1>2
<1> QED
  BY <1>2, <1>3, <1>5, <1>6, <1>7, <1>8 DEF Uncounted

\* An insertion (ght_insert, after the rehash).
LEMMA InsertedKeeps ==
  ASSUME use.limit \in Nat, NEW t, Sound(t), t.size # 0,
         NEW e \in Addresses, e \notin Allocated(t),
         NEW k \in Keys, k \notin KeySet(t), NEW d \in Data \cup {NULL}
  PROVE  InsertedAs(t, Inserted(t, e, k, d), e, k)
<1> DEFINE b == Bucket(t, k)
           p == PlaceFirst(t, e, k, d)
           m == MakeRoom(p, b)
           r == BecomeNewest(m, e)
<1>1. Placed(t, p, e, k, d)
  BY PlaceFields DEF Sound
<1> HIDE DEF p
<1>2. /\ Typed(p) /\ p.size = t.size /\ KeysOnce(p) /\ Chained(p)
      /\ Aged(p, {e}) /\ Counted(p, {e})
      /\ e \in InBucket(p, b) /\ p.head[b] = e
      /\ Allocated(p) = Allocated(t) \cup {e}
      /\ \A c : InBucket(p, c) \ {e} = InBucket(t, c)
  <2>1. Uncounted(t, p, e, k)
    BY <1>1, PlacedUncounted
  <2> QED
    BY <2>1 DEF Uncounted
<1>3. b \in 0..(p.size - 1)
  BY <1>2, BucketRange DEF Sound, Typed
<1>4. MadeRoom(p, m, e, b)
  BY <1>2, <1>3, MakeRoomKeeps
<1> HIDE DEF m
<1>5. Typed(m) /\ KeysOnce(m) /\ Chained(m) /\ Aged(m, {e}) /\ Counted(m, {})
      /\ e \in Allocated(m) /\ e \in Addresses
  BY <1>4 DEF MadeRoom
<1>6. MadeNewest(m, r, e)
  BY <1>5, NewestFields
<1> HIDE DEF r
<1>7. /\ KeysOnce(r) /\ Chained(r) /\ Aged(r, {})
      /\ Allocated(r) = Allocated(m)
      /\ \A c : InBucket(r, c) = InBucket(m, c)
  BY <1>5, <1>6, NewestKeeps
<1>8. Sound(r)
  BY <1>5, <1>6, <1>7 DEF Sound, Counted, MadeNewest
<1>9. r.key = m.key /\ r.nr = m.nr /\ r.items = m.items /\ r.size = m.size
  BY <1>6 DEF MadeNewest
<1>10. p.key[e] = k /\ p.nr = t.nr /\ p.items = t.items
       /\ \A f \in Addresses : f # e => p.key[f] = t.key[f]
  <2>1. t.key \in [Addresses -> Keys \cup {NULL}]
    BY DEF Sound, Typed
  <2> QED
    BY <1>1, <2>1 DEF Placed
<1>11. r.size = t.size /\ e \in Allocated(r) /\ r.key[e] = k
       /\ Allocated(r) \subseteq Allocated(t) \cup {e}
       /\ \A f \in Allocated(r) \ {e} : r.key[f] = t.key[f]
  <2>1. \A f \in Allocated(r) : f \in Addresses
    BY DEF Allocated
  <2> QED
    BY <1>2, <1>4, <1>7, <1>9, <1>10, <2>1 DEF MadeRoom
<1>12. ASSUME NEW f \in Allocated(t) \ Allocated(r)
       PROVE  /\ Bucket(t, t.key[f]) = b
              /\ use.limit # 0 /\ t.nr[b] >= use.limit
  <2>1. f \in Allocated(p) \ Allocated(m)
    BY <1>2, <1>7
  <2>2. f \in InBucket(p, b) /\ use.limit # 0 /\ p.nr[b] >= use.limit
    BY <1>4, <2>1 DEF MadeRoom
  <2>3. f \in InBucket(t, b)
    BY <1>2, <2>2
  <2> QED
    BY <1>10, <2>2, <2>3 DEF InBucket
<1>13. r.items <= t.items + 1
       /\ \A c \in 0..(t.size - 1) :
            use.limit # 0 /\ t.nr[c] <= use.limit => r.nr[c] <= use.limit
  BY <1>2, <1>4, <1>9, <1>10 DEF MadeRoom
<1>14. InsertedAs(t, r, e, k)
  <2> HIDE DEF b
  <2> QED
    BY <1>8, <1>11, <1>12, <1>13 DEF InsertedAs, b
<1> QED
  BY <1>14 DEF Inserted, r, m, p

\* There are as many entries as keys.
LEMMA KeysCounted ==
  ASSUME NEW t, Typed(t), KeysOnce(t)
  PROVE  /\ KeySet(t) \subseteq Keys /\ IsFiniteSet(KeySet(t))
         /\ Cardinality(KeySet(t)) = Cardinality(Allocated(t))
         /\ Cardinality(Allocated(t)) \in Nat
<1> DEFINE f == [e \in Allocated(t) |-> t.key[e]]
<1>1. t.key \in [Addresses -> Keys \cup {NULL}]
  BY DEF Typed
<1>2. KeySet(t) \subseteq Keys
  BY <1>1 DEF KeySet, Allocated
<1>3. f \in Bijection(Allocated(t), KeySet(t))
  <2>1. f \in [Allocated(t) -> KeySet(t)]
    BY DEF KeySet
  <2>2. f \in Injection(Allocated(t), KeySet(t))
    BY <2>1 DEF Injection, IsInjective, KeysOnce
  <2>3. f \in Surjection(Allocated(t), KeySet(t))
    BY <2>1 DEF Surjection, KeySet
  <2> QED
    BY <2>2, <2>3 DEF Bijection
<1>4. IsFiniteSet(Allocated(t))
  BY EntriesFinite
<1>5. ExistsBijection(Allocated(t), KeySet(t))
  BY <1>3 DEF ExistsBijection
<1> QED
  BY <1>2, <1>4, <1>5, FS_Bijection, FS_CardinalityType

LEMMA FreeAddressFound ==
  ASSUME NEW used, used \subseteq Addresses, Cardinality(used) < MaxEntry
  PROVE  FreeAddress(used) \in Addresses \ used
<1>1. IsFiniteSet(Addresses) /\ Cardinality(Addresses) = MaxEntry
  BY FS_Interval, GhtMemory DEF Addresses
<1>2. Addresses \ used # {}
  <2> SUFFICES ASSUME Addresses \ used = {} PROVE FALSE
    OBVIOUS
  <2>1. used = Addresses
    OBVIOUS
  <2> QED
    BY <1>1, <2>1, GhtMemory
<1>3. Addresses \ used \subseteq Nat
  BY DEF Addresses
<1>4. \E e \in Addresses \ used : \A f \in Addresses \ used : e <= f
  BY <1>2, <1>3, SmallestMember
<1> QED
  BY <1>4 DEF FreeAddress

-----------------------------------------------------------------------------
(***************************************************************************)
(* ght_create and ght_rehash.                                              *)
(***************************************************************************)

\* The size is a power of two that is not below what was asked for.
LEMMA RoundUpBound ==
  ASSUME NEW n \in Nat
  PROVE  RoundUp(n) \in Nat \ {0} /\ RoundUp(n) >= n
<1> DEFINE Power(g, m) ==
             g = [i \in 0..m |-> IF i = 0 THEN 1 ELSE 2 * g[i - 1]]
           Good == {m \in Nat : \E g : Power(g, m)}
           power == CHOOSE g : Power(g, n)
           i0 == CHOOSE i \in 0..n : /\ power[i] >= n
                                     /\ \A j \in 0..(i - 1) : power[j] < n
<1>1. 0 \in Good
  <2>1. Power([i \in 0..0 |-> 1], 0)
    OBVIOUS
  <2> QED
    BY <2>1
<1>2. ASSUME NEW m \in Nat, m \in Good PROVE m + 1 \in Good
  <2>1. PICK g : Power(g, m)
    BY <1>2
  <2> DEFINE h == [i \in 0..m + 1 |-> IF i = 0 THEN 1 ELSE 2 * g[i - 1]]
  <2>2. \A i \in 0..m : h[i] = g[i]
    BY <2>1
  <2>3. Power(h, m + 1)
    <3> SUFFICES ASSUME NEW i \in 0..m + 1, i # 0 PROVE h[i - 1] = g[i - 1]
      OBVIOUS
    <3>1. i - 1 \in 0..m
      OBVIOUS
    <3> HIDE DEF h
    <3> QED
      BY <2>2, <3>1
  <2> HIDE DEF h, Power
  <2> QED
    BY <2>3
<1>3. n \in Good
  <2> HIDE DEF Good
  <2> QED
    BY <1>1, <1>2, InductionOnSet
<1>4. Power(power, n)
  <2> HIDE DEF Power
  <2> QED
    BY <1>3
<1> HIDE DEF power
<1>5. power[0] = 1 /\ \A i \in 0..n : i # 0 => power[i] = 2 * power[i - 1]
  BY <1>4
<1> DEFINE Grown == {m \in Nat : m <= n => power[m] \in Nat /\ power[m] > m}
<1>6. Nat \subseteq Grown
  <2>1. 0 \in Grown
    BY <1>5
  <2>2. ASSUME NEW m \in Nat, m \in Grown PROVE m + 1 \in Grown
    BY <1>5, <2>2
  <2> HIDE DEF Grown
  <2> QED
    BY <2>1, <2>2, InductionOnSet
<1>7. \A i \in 0..n : power[i] \in Nat /\ power[i] > i
  BY <1>6
<1> DEFINE Enough == {i \in 0..n : power[i] >= n}
<1>8. PICK i \in Enough : \A j \in Enough : i <= j
  <2>1. n \in Enough /\ Enough \subseteq Nat
    BY <1>7
  <2> HIDE DEF Enough
  <2> QED
    BY <2>1, SmallestMember
<1>9. i \in 0..n /\ power[i] >= n /\ \A j \in 0..(i - 1) : power[j] < n
  BY <1>7, <1>8
<1>10. i0 \in 0..n /\ power[i0] >= n
  BY <1>9
<1>11. RoundUp(n) = power[i0]
  BY DEF RoundUp, power
<1> HIDE DEF i0
<1> QED
  BY <1>7, <1>10, <1>11

IsEmpty(t, size) ==
  /\ Sound(t) /\ t.size = size /\ t.items = 0 /\ Allocated(t) = {}
  /\ \A b \in 0..(t.size - 1) : t.nr[b] = 0

LEMMA EmptySound ==
  ASSUME NEW n \in Nat
  PROVE  IsEmpty(EmptyTable(n), RoundUp(n))
<1> DEFINE m == RoundUp(n)
           t == EmptyTable(n)
<1>1. m \in Nat
  BY RoundUpBound
<1> HIDE DEF m
<1>2. t = [size |-> m, items |-> 0,
           head |-> [b \in 0..(m - 1) |-> NULL], nr |-> [b \in 0..(m - 1) |-> 0],
           key |-> Nowhere, data |-> Nowhere, next |-> Nowhere, prev |-> Nowhere,
           older |-> Nowhere, newer |-> Nowhere, oldest |-> NULL, newest |-> NULL]
  BY DEF EmptyTable, m
<1> HIDE DEF t
<1>3. Nowhere \in Links /\ \A X : Nowhere \in [Addresses -> X \cup {NULL}]
  BY DEF Nowhere, Links, Ref
<1>4. Typed(t)
  BY <1>1, <1>2, <1>3 DEF Typed, Ref
<1>5. Allocated(t) = {} /\ \A b : InBucket(t, b) = {}
  BY <1>2 DEF Allocated, InBucket, Nowhere
<1>6. KeysOnce(t)
  BY <1>5 DEF KeysOnce
<1>7. Chained(t)
  <2>1. \A b \in 0..(m - 1) : t.head[b] = NULL
    BY <1>1, <1>2
  <2>2. \A b \in 0..(m - 1) :
          ListOf(InBucket(t, b), 0, t.next, t.prev, t.head[b], NULL)
    BY <1>5, <2>1, NoList
  <2>3. t.size = m
    BY <1>2
  <2> QED
    BY <2>2, <2>3 DEF Chained
<1>8. Aged(t, {})
  <2>1. t.oldest = NULL /\ t.newest = NULL /\ Allocated(t) \ {} = {}
    BY <1>2, <1>5
  <2> QED
    BY <2>1, NoList DEF Aged
<1>9. t.items = 0 /\ t.size = m /\ \A b \in 0..(m - 1) : t.nr[b] = 0
  BY <1>1, <1>2
<1>10. Counted(t, {})
  <2>1. \A S : S = {} => Cardinality(S \ {}) = 0
    BY FS_EmptySet
  <2> QED
    BY <1>5, <1>9, <2>1 DEF Counted
<1> QED
  BY <1>4, <1>5, <1>6, <1>7, <1>8, <1>9, <1>10 DEF IsEmpty, Sound, t, m

\* An entry of the old table is inserted at a new address.
Again(t, r, used, k, d) ==
  \E e \in Addresses \ (used \cup Allocated(t)) :
    /\ Sound(r) /\ r.size = t.size
    /\ Allocated(r) = Allocated(t) \cup {e}
    /\ r.key = [t.key EXCEPT ![e] = k] /\ r.data = [t.data EXCEPT ![e] = d]

LEMMA ReinsertedKeeps ==
  ASSUME NEW t, Sound(t), t.size # 0, NEW used, used \subseteq Addresses,
         Cardinality(used \cup Allocated(t)) < MaxEntry,
         NEW k \in Keys, k \notin KeySet(t), NEW d \in Data \cup {NULL}
  PROVE  Again(t, Reinserted(t, used, k, d), used, k, d)
<1> DEFINE e == FreeAddress(used \cup Allocated(t))
           b == Bucket(t, k)
           p == PlaceFirst(t, e, k, d)
           m == [p EXCEPT !.nr[b] = @ + 1, !.items = @ + 1]
           r == BecomeNewest(m, e)
<1>1. e \in Addresses \ (used \cup Allocated(t))
  <2>1. used \cup Allocated(t) \subseteq Addresses
    BY DEF Allocated
  <2> QED
    BY <2>1, FreeAddressFound
<1>2. Reinserted(t, used, k, d) = r
  BY DEF Reinserted
<1> HIDE DEF e
<1>3. Placed(t, p, e, k, d)
  BY <1>1, PlaceFields DEF Sound
<1> HIDE DEF p
<1>4. Uncounted(t, p, e, k)
  BY <1>1, <1>3, PlacedUncounted
<1>5. b \in 0..(p.size - 1) /\ p.size # 0 /\ Typed(p)
  BY <1>4, BucketRange DEF Uncounted, Sound, Typed
<1>6. OneMore(p, m, b)
  BY <1>5, CountFields
<1> HIDE DEF m
<1>7. /\ Typed(m) /\ m.size = p.size
      /\ KeysOnce(m) /\ Chained(m) /\ Aged(m, {e}) /\ Counted(m, {})
      /\ Allocated(m) = Allocated(p)
  <2> HIDE DEF b
  <2> QED
    BY <1>4, <1>5, <1>6, OneMoreKeeps DEF Uncounted, b
<1>8. MadeNewest(m, r, e)
  BY <1>1, <1>7, NewestFields
<1> HIDE DEF r
<1>9. /\ KeysOnce(r) /\ Chained(r) /\ Aged(r, {})
      /\ Allocated(r) = Allocated(m)
      /\ \A c : InBucket(r, c) = InBucket(m, c)
  <2>1. e \in Allocated(m)
    BY <1>4, <1>7 DEF Uncounted
  <2> QED
    BY <1>7, <1>8, <2>1, NewestKeeps
<1>10. Sound(r)
  BY <1>7, <1>8, <1>9 DEF Sound, Counted, MadeNewest
<1>11. r.size = t.size /\ Allocated(r) = Allocated(t) \cup {e}
  BY <1>4, <1>7, <1>8, <1>9 DEF Uncounted, MadeNewest
<1>12. r.key = [t.key EXCEPT ![e] = k] /\ r.data = [t.data EXCEPT ![e] = d]
  BY <1>3, <1>6, <1>8 DEF Placed, OneMore, MadeNewest
<1> QED
  BY <1>1, <1>2, <1>10, <1>11, <1>12 DEF Again

\* The tables that the loop of ght_rehash goes through.
RehashPath(new, t, n, used, lost, m) ==
  new = [i \in 0..m |->
           IF i = 0 THEN EmptyTable(n)
           ELSE IF Ages(t)[i] \in lost THEN new[i - 1]
                ELSE Reinserted(new[i - 1], used, t.key[Ages(t)[i]],
                                t.data[Ages(t)[i]])]

LEMMA RehashPathExists ==
  ASSUME NEW t, NEW n, NEW used, NEW lost, Len(Ages(t)) \in Nat
  PROVE  \E new : /\ RehashPath(new, t, n, used, lost, Len(Ages(t)))
                  /\ ght_rehash(t, n, used, lost) = new[Len(Ages(t))]
<1> DEFINE Good == {m \in Nat : \E g : RehashPath(g, t, n, used, lost, m)}
           len == Len(Ages(t))
<1>1. 0 \in Good
  <2>1. RehashPath([i \in 0..0 |-> EmptyTable(n)], t, n, used, lost, 0)
    BY DEF RehashPath
  <2> QED
    BY <2>1
<1>2. ASSUME NEW m \in Nat, m \in Good PROVE m + 1 \in Good
  <2>1. PICK g : RehashPath(g, t, n, used, lost, m)
    BY <1>2
  <2> DEFINE Step(f, i) == IF i = 0 THEN EmptyTable(n)
                           ELSE IF Ages(t)[i] \in lost THEN f[i - 1]
                           ELSE Reinserted(f[i - 1], used, t.key[Ages(t)[i]],
                                           t.data[Ages(t)[i]])
             h == [i \in 0..m + 1 |-> Step(g, i)]
  <2>2. g = [i \in 0..m |-> Step(g, i)]
    BY <2>1 DEF RehashPath
  <2>3. \A i \in 0..m : h[i] = g[i]
    <3> HIDE DEF Step
    <3> QED
      BY <2>2
  <2>4. \A i \in 0..m + 1 : Step(g, i) = Step(h, i)
    <3> SUFFICES ASSUME NEW i \in 0..m + 1, i # 0 PROVE g[i - 1] = h[i - 1]
      OBVIOUS
    <3>1. i - 1 \in 0..m
      OBVIOUS
    <3> HIDE DEF h
    <3> QED
      BY <2>3, <3>1
  <2>5. h = [i \in 0..m + 1 |-> Step(h, i)]
    <3> HIDE DEF Step
    <3> QED
      BY <2>4
  <2> HIDE DEF h
  <2>6. RehashPath(h, t, n, used, lost, m + 1)
    BY <2>5 DEF RehashPath
  <2> QED
    BY <2>6
<1>3. len \in Good
  <2> HIDE DEF Good
  <2> QED
    BY <1>1, <1>2, InductionOnSet
<1> DEFINE new == CHOOSE g : RehashPath(g, t, n, used, lost, len)
<1>4. RehashPath(new, t, n, used, lost, len)
  BY <1>3
<1>5. ght_rehash(t, n, used, lost) = new[len]
  BY DEF ght_rehash, RehashPath
<1> HIDE DEF new
<1> QED
  BY <1>4, <1>5

\* The copy has the entries that were not lost, at addresses that are not used.
Rehashed(t, r, n, used, lost) ==
  /\ Sound(r) /\ r.size = RoundUp(n)
  /\ Allocated(r) \cap used = {}
  /\ KeySet(r) = {t.key[e] : e \in Allocated(t) \ lost}
  /\ \A e \in Allocated(r), f \in Allocated(t) :
       r.key[e] = t.key[f] => r.data[e] = t.data[f]

LEMMA RehashKeeps ==
  ASSUME NEW t, Sound(t), NEW n \in Nat \ {0},
         NEW used, used \subseteq Addresses,
         Cardinality(used) <= Cardinality(Keys), NEW lost
  PROVE  Rehashed(t, ght_rehash(t, n, used, lost), n, used, lost)
<1> DEFINE ages == Ages(t)
<1>1. PICK len : Walked(ages, Allocated(t) \ {}, len, t.older, t.newest)
                 /\ len \in Nat
  <2>1. PICK m : ListOf(Allocated(t) \ {}, m, t.newer, t.older, t.oldest, t.newest)
    BY DEF Sound, Aged
  <2>2. t.newer \in Links
    BY DEF Sound, Typed
  <2>3. Walked(Walk(t.newer, t.oldest), Allocated(t) \ {}, m, t.older, t.newest)
    BY <2>1, <2>2, ListWalked
  <2>4. m \in Nat
    BY <2>1, ListMembers
  <2> QED
    BY <2>3, <2>4 DEF Ages
<1>2. /\ Len(ages) = len /\ Len(ages) \in Nat /\ DOMAIN ages = 1..len
      /\ Range(ages) = Allocated(t)
      /\ \A i, j \in 1..len : ages[i] = ages[j] => i = j
  BY <1>1 DEF Walked
<1>3. \A i \in 1..len : ages[i] \in Allocated(t)
  BY <1>2 DEF Range
<1>4. PICK new : /\ RehashPath(new, t, n, used, lost, Len(ages))
                 /\ ght_rehash(t, n, used, lost) = new[Len(ages)]
  BY <1>2, RehashPathExists
<1> DEFINE Reached(i) == {t.key[ages[j]] : j \in {m \in 1..i : ages[m] \notin lost}}
           Copied(i) ==
             /\ Sound(new[i]) /\ new[i].size = RoundUp(n)
             /\ Allocated(new[i]) \cap used = {}
             /\ KeySet(new[i]) = Reached(i)
             /\ \A e \in Allocated(new[i]), f \in Allocated(t) :
                  new[i].key[e] = t.key[f] => new[i].data[e] = t.data[f]
           Good == {i \in Nat : i <= len => Copied(i)}
<1>5. /\ new[0] = EmptyTable(n)
      /\ \A i \in 1..len :
           new[i] = IF ages[i] \in lost THEN new[i - 1]
                    ELSE Reinserted(new[i - 1], used, t.key[ages[i]],
                                    t.data[ages[i]])
  <2> DEFINE Step(i) == IF i = 0 THEN EmptyTable(n)
                        ELSE IF ages[i] \in lost THEN new[i - 1]
                        ELSE Reinserted(new[i - 1], used, t.key[ages[i]],
                                        t.data[ages[i]])
  <2>1. new = [i \in 0..len |-> Step(i)]
    BY <1>2, <1>4 DEF RehashPath
  <2>2. \A i \in 0..len : new[i] = Step(i)
    <3> HIDE DEF Step
    <3> QED
      BY <2>1
  <2> QED
    BY <1>1, <2>2
<1>6. RoundUp(n) # 0
  BY RoundUpBound
<1>7. 0 \in Good
  <2>1. IsEmpty(new[0], RoundUp(n))
    BY <1>5, EmptySound
  <2>2. KeySet(new[0]) = {}
    BY <2>1 DEF KeySet, IsEmpty
  <2>3. Reached(0) = {}
    OBVIOUS
  <2> QED
    BY <2>1, <2>2, <2>3 DEF IsEmpty
<1>8. ASSUME NEW i \in Nat, i \in Good PROVE i + 1 \in Good
  <2> SUFFICES ASSUME i + 1 <= len PROVE Copied(i + 1)
    OBVIOUS
  <2>1. Copied(i) /\ i + 1 \in 1..len
    BY <1>1, <1>8
  <2> DEFINE e == ages[i + 1]
  <2>2. e \in Allocated(t)
    BY <1>3, <2>1
  <2>3. CASE e \in lost
    <3>1. new[i + 1] = new[i]
      BY <1>5, <2>1, <2>3
    <3>2. \A m : m \in 1..i + 1 /\ ages[m] \notin lost
                   <=> m \in 1..i /\ ages[m] \notin lost
      BY <2>3
    <3>3. Reached(i + 1) = Reached(i)
      BY <3>2
    <3> HIDE DEF Reached
    <3> QED
      BY <2>1, <3>1, <3>3
  <2>4. CASE e \notin lost
    <3> DEFINE k == t.key[e]
               d == t.data[e]
               old == new[i]
               r == new[i + 1]
    <3>1. k \in Keys /\ d \in Data \cup {NULL}
      BY <2>2 DEF Sound, Typed, Allocated
    <3>2. r = Reinserted(old, used, k, d)
      BY <1>5, <2>1, <2>4
    <3>3. k \notin Reached(i)
      <4> SUFFICES ASSUME NEW j \in 1..i, t.key[ages[j]] = k PROVE FALSE
        OBVIOUS
      <4>1. j \in 1..len /\ j # i + 1
        <5>1. len \in Nat /\ i + 1 <= len /\ j \in 1..i
          BY <1>1
        <5> HIDE DEF Reached
        <5> QED
          BY ONLY i \in Nat, <5>1
      <4>2. ages[j] = e
        BY <1>3, <2>2, <4>1 DEF Sound, KeysOnce
      <4> QED
        BY <1>2, <2>1, <4>1, <4>2
    <3>4. Reached(i + 1) = Reached(i) \cup {k}
      <4>1. \A m : m \in 1..i + 1 <=> m \in 1..i \/ m = i + 1
        OBVIOUS
      <4> QED
        BY <2>4, <4>1
    <3> HIDE DEF Reached
    <3>5. Sound(old) /\ old.size # 0 /\ KeySet(old) = Reached(i)
      BY <1>6, <2>1
    <3>6. Cardinality(used \cup Allocated(old)) < MaxEntry
      <4>1. /\ KeySet(old) \subseteq Keys /\ IsFiniteSet(KeySet(old))
            /\ Cardinality(KeySet(old)) = Cardinality(Allocated(old))
            /\ Cardinality(Allocated(old)) \in Nat
        BY <3>5, KeysCounted DEF Sound
      <4>2. Cardinality(KeySet(old) \cup {k}) = Cardinality(KeySet(old)) + 1
        BY <3>3, <3>5, <4>1, FS_AddElement
      <4>3. Cardinality(KeySet(old) \cup {k}) <= Cardinality(Keys)
            /\ Cardinality(Keys) \in Nat
        <5>1. KeySet(old) \cup {k} \subseteq Keys
          BY <3>1, <4>1
        <5> QED
          BY <5>1, GhtMemory, FS_Subset, FS_CardinalityType
      <4>4. IsFiniteSet(used) /\ Cardinality(used) \in Nat
        <5>1. IsFiniteSet(Addresses)
          BY FS_Interval, GhtMemory DEF Addresses
        <5> QED
          BY <5>1, FS_Subset, FS_CardinalityType
      <4>5. IsFiniteSet(Allocated(old))
        BY EntriesFinite
      <4>6. Cardinality(used \cup Allocated(old))
              <= Cardinality(used) + Cardinality(Allocated(old))
        <5>1. Cardinality(used \cap Allocated(old)) \in Nat
          BY <4>4, FS_Intersection, FS_CardinalityType
        <5>2. Cardinality(used \cup Allocated(old)) =
                Cardinality(used) + Cardinality(Allocated(old))
                  - Cardinality(used \cap Allocated(old))
          BY <4>4, <4>5, FS_Union
        <5> QED
          BY <4>1, <4>4, <5>1, <5>2
      <4>7. Cardinality(used \cup Allocated(old)) \in Nat
        BY <4>4, <4>5, FS_Union, FS_CardinalityType
      <4> HIDE DEF k, old
      <4> QED
        BY <4>1, <4>2, <4>3, <4>4, <4>6, <4>7, GhtMemory
    <3>7. Again(old, r, used, k, d)
      <4> HIDE DEF old, k, d, r
      <4> QED
        BY <3>1, <3>2, <3>3, <3>5, <3>6, ReinsertedKeeps
    <3>8. PICK a \in Addresses \ (used \cup Allocated(old)) :
            /\ Sound(r) /\ r.size = old.size
            /\ Allocated(r) = Allocated(old) \cup {a}
            /\ r.key = [old.key EXCEPT ![a] = k]
            /\ r.data = [old.data EXCEPT ![a] = d]
      BY <3>7 DEF Again
    <3>9. /\ old.key \in [Addresses -> Keys \cup {NULL}]
          /\ old.data \in [Addresses -> Data \cup {NULL}]
          /\ Allocated(old) \subseteq Addresses
      BY <3>5 DEF Sound, Typed, Allocated
    <3> HIDE DEF old, r, k, d
    <3>10. /\ r.key[a] = k /\ r.data[a] = d
           /\ \A f \in Allocated(old) :
                r.key[f] = old.key[f] /\ r.data[f] = old.data[f]
      BY <3>8, <3>9
    <3>11. KeySet(r) = KeySet(old) \cup {k}
      BY <3>8, <3>10 DEF KeySet
    <3>12. Allocated(r) \cap used = {}
      BY <2>1, <3>8 DEF old
    <3>13. ASSUME NEW f \in Allocated(r), NEW g \in Allocated(t), r.key[f] = t.key[g]
           PROVE  r.data[f] = t.data[g]
      <4>1. CASE f = a
        <5>1. g = e
          BY <2>2, <3>10, <3>13, <4>1 DEF Sound, KeysOnce, k
        <5> QED
          BY <3>10, <4>1, <5>1 DEF d
      <4>2. CASE f # a
        BY <2>1, <3>8, <3>10, <3>13, <4>2 DEF old
      <4> QED
        BY <4>1, <4>2
    <3>14. r.size = RoundUp(n)
      BY <2>1, <3>8 DEF old
    <3> QED
      BY <3>4, <3>5, <3>8, <3>11, <3>12, <3>13, <3>14 DEF r
  <2> HIDE DEF Copied, e
  <2> QED
    BY <2>3, <2>4
<1>9. Copied(len)
  <2> HIDE DEF Good
  <2>1. len \in Good
    BY <1>1, <1>7, <1>8, InductionOnSet
  <2> QED
    BY <1>1, <2>1 DEF Good
<1>10. Reached(len) = {t.key[e] : e \in Allocated(t) \ lost}
  <2>1. \A e : e \in Allocated(t) <=> \E j \in 1..len : ages[j] = e
    BY <1>2 DEF Range
  <2> QED
    BY <2>1
<1> HIDE DEF Reached
<1> QED
  BY <1>2, <1>4, <1>9, <1>10 DEF Rehashed

-----------------------------------------------------------------------------
(***************************************************************************)
(* Lookup, replacement, removal and the end of a table.                    *)
(***************************************************************************)

\* The chain of a bucket, walked.
LEMMA ChainWalked ==
  ASSUME NEW t, Sound(t), NEW b \in 0..(t.size - 1)
  PROVE  \E n \in Nat : \E last :
           /\ Walked(Chain(t, b), InBucket(t, b), n, t.prev, last)
           /\ n = Cardinality(InBucket(t, b))
<1>1. PICK n, last : ListOf(InBucket(t, b), n, t.next, t.prev, t.head[b], last)
  BY DEF Sound, Chained
<1>2. t.next \in Links
  BY DEF Sound, Typed
<1>3. Walked(Chain(t, b), InBucket(t, b), n, t.prev, last)
  BY <1>1, <1>2, ListWalked DEF Chain
<1>4. n \in Nat /\ n = Cardinality(InBucket(t, b))
  BY <1>1, ListMembers, ListSize
<1> QED
  BY <1>3, <1>4

\* A search finds the entry of the key, if there is one.
Found(t, k, e) ==
  /\ e = NULL => k \notin KeySet(t)
  /\ e # NULL => e \in Allocated(t) /\ t.key[e] = k /\ k \in KeySet(t)

LEMMA SearchFinds ==
  ASSUME NEW t, Sound(t), t.size # 0, NEW k \in Keys
  PROVE  Found(t, k, Search(t, k))
<1> DEFINE b == Bucket(t, k)
           found == {e \in Range(Chain(t, b)) : t.key[e] = k}
<1>1. b \in 0..(t.size - 1)
  BY BucketRange DEF Sound, Typed
<1>2. Range(Chain(t, b)) = InBucket(t, b)
  <2> HIDE DEF b
  <2> QED
    BY <1>1, ChainWalked DEF Walked
<1>3. found = {e \in Allocated(t) : t.key[e] = k}
  BY <1>2 DEF InBucket
<1>4. Search(t, k) = IF found = {} THEN NULL ELSE CHOOSE e \in found : TRUE
  BY DEF Search
<1> HIDE DEF found
<1>5. CASE found = {}
  BY <1>3, <1>4, <1>5 DEF Found, KeySet
<1>6. CASE found # {}
  <2>1. Search(t, k) \in found
    BY <1>4, <1>6
  <2>2. Search(t, k) # NULL
    BY <1>3, <2>1, NullNoAddress DEF Allocated
  <2> QED
    BY <1>3, <2>1, <2>2 DEF Found, KeySet
<1> QED
  BY <1>5, <1>6

Removed(t, r, e) ==
  /\ Sound(r) /\ r.size = t.size /\ r.items = t.items - 1
  /\ Allocated(r) = Allocated(t) \ {e}
  /\ \A f \in Allocated(r) : r.key[f] = t.key[f]
  /\ \A c \in 0..(t.size - 1) : r.nr[c] <= t.nr[c]

\* A removal (ght_remove).
LEMMA RemovedKeeps ==
  ASSUME NEW t, Sound(t), t.size # 0, NEW e \in Allocated(t)
  PROVE  Removed(t, he_finalize([remove_from_chain(t, e) EXCEPT
                                   !.items = @ - 1,
                                   !.nr[Bucket(t, t.key[e])] = @ - 1], e), e)
<1> DEFINE b == Bucket(t, t.key[e])
           u == remove_from_chain(t, e)
           nr == [t.nr EXCEPT ![b] = @ - 1]
           items == t.items - 1
           r == he_finalize([u EXCEPT !.items = @ - 1, !.nr[b] = @ - 1], e)
<1>1. /\ e \in Addresses /\ b \in 0..(t.size - 1) /\ e \in InBucket(t, b)
  BY InItsBucket DEF Sound
<1>2. t.nr \in [0..(t.size - 1) -> Int] /\ t.items \in Int
      /\ t.key \in [Addresses -> Keys \cup {NULL}]
  BY DEF Sound, Typed
<1>3. nr \in [0..(t.size - 1) -> Int] /\ items \in Int
  <2>1. items \in Int
    BY <1>2
  <2>2. t.nr[b] \in Int
    BY <1>1, <1>2
  <2> HIDE DEF b
  <2>3. nr \in [0..(t.size - 1) -> Int]
    <3> DEFINE less == t.nr[b] - 1
    <3>1. less \in Int
      BY <2>2
    <3>2. nr = [t.nr EXCEPT ![b] = less]
      OBVIOUS
    <3> HIDE DEF nr, less
    <3> QED
      BY <1>2, <3>1, <3>2
  <2> QED
    BY <2>1, <2>3
<1>4. r = FreedEntry(t, e, items, nr)
  <2>1. u.items = t.items /\ u.nr = t.nr
    BY DEF remove_from_chain, Sound, Typed
  <2> HIDE DEF u, b
  <2>2. [u EXCEPT !.items = @ - 1, !.nr[b] = @ - 1]
          = [u EXCEPT !.items = items, !.nr = nr]
    BY <2>1
  <2> QED
    BY <2>2 DEF FreedEntry, u
<1> HIDE DEF r, nr, items
<1>5. Unlinked(t, r, e) /\ r.nr = nr /\ r.items = items
  BY <1>3, <1>4, UnlinkedFields DEF Sound
<1>6. Aged(t, {}) /\ e \notin {}
  BY DEF Sound
<1>7. /\ KeysOnce(r) /\ Chained(r) /\ Aged(r, {})
      /\ Allocated(r) = Allocated(t) \ {e}
      /\ \A c : InBucket(r, c) = InBucket(t, c) \ {e}
  BY <1>5, <1>6, UnlinkKeeps DEF Sound
<1>8. Typed(r) /\ r.size = t.size
      /\ \A f \in Allocated(r) : r.key[f] = t.key[f]
  BY <1>2, <1>5, <1>7 DEF Unlinked, Allocated
<1>9. r.items = Cardinality(Allocated(r) \ {})
  <2>1. Cardinality(Allocated(t) \ {e}) = Cardinality(Allocated(t)) - 1
    BY EntriesFinite, FS_RemoveElement
  <2>2. t.items = Cardinality(Allocated(t) \ {})
    BY DEF Sound, Counted
  <2>3. Allocated(t) \ {} = Allocated(t) /\ Allocated(r) \ {} = Allocated(t) \ {e}
    BY <1>7
  <2> QED
    BY <1>5, <2>1, <2>2, <2>3 DEF items
<1>10. \A c \in 0..(t.size - 1) : r.nr[c] = IF c = b THEN t.nr[c] - 1 ELSE t.nr[c]
  BY <1>2, <1>5 DEF nr
<1>11. ASSUME NEW c \in 0..(t.size - 1)
       PROVE  r.nr[c] = Cardinality(InBucket(r, c) \ {})
  <2>1. t.nr[c] = Cardinality(InBucket(t, c) \ {})
    BY DEF Sound, Counted
  <2>2. /\ InBucket(r, c) \ {} = InBucket(t, c) \ {e}
        /\ InBucket(t, c) \ {} = InBucket(t, c)
    BY <1>7
  <2>3. CASE c = b
    <3>1. Cardinality(InBucket(t, b) \ {e}) = Cardinality(InBucket(t, b)) - 1
      <4> HIDE DEF b
      <4> QED
        BY <1>1, EntriesFinite, FS_RemoveElement
    <3> QED
      BY <1>10, <2>1, <2>2, <2>3, <3>1
  <2>4. CASE c # b
    <3>1. InBucket(t, c) \ {e} = InBucket(t, c)
      BY <2>4 DEF InBucket
    <3> QED
      BY <1>10, <2>1, <2>2, <2>4, <3>1
  <2> QED
    BY <2>3, <2>4
<1>12. Counted(r, {})
  BY <1>8, <1>9, <1>11 DEF Counted
<1>13. \A c \in 0..(t.size - 1) : r.nr[c] <= t.nr[c]
  <2> SUFFICES ASSUME NEW c \in 0..(t.size - 1) PROVE r.nr[c] <= t.nr[c]
    OBVIOUS
  <2>1. t.nr[c] \in Int /\ (r.nr[c] = t.nr[c] - 1 \/ r.nr[c] = t.nr[c])
    BY <1>2, <1>10
  <2> QED
    BY <2>1
<1>14. Removed(t, r, e)
  BY <1>5, <1>7, <1>8, <1>12, <1>13 DEF Removed, Sound, items
<1> QED
  BY <1>14 DEF r

\* New data for an entry (ght_replace).
Replaced(t, r, e) ==
  /\ Sound(r) /\ r.size = t.size /\ r.items = t.items /\ r.nr = t.nr
  /\ r.key = t.key

LEMMA ReplacedKeeps ==
  ASSUME NEW t, Sound(t), NEW e \in Addresses, NEW d \in Data
  PROVE  Replaced(t, [t EXCEPT !.data[e] = d], e)
<1> DEFINE data == [t.data EXCEPT ![e] = d]
           r == [t EXCEPT !.data[e] = d]
<1>1. data \in [Addresses -> Data \cup {NULL}]
  BY DEF Sound, Typed
<1>2. r = [t EXCEPT !.data = data]
  BY DEF Sound, Typed
<1> HIDE DEF r, data
<1>3. /\ DOMAIN r = DOMAIN t
      /\ r.size = t.size /\ r.items = t.items /\ r.nr = t.nr
      /\ r.key = t.key /\ r.head = t.head
      /\ r.next = t.next /\ r.prev = t.prev
      /\ r.older = t.older /\ r.newer = t.newer
      /\ r.oldest = t.oldest /\ r.newest = t.newest
  BY <1>2 DEF Sound, Typed
<1>4. Typed(r)
  BY <1>1, <1>2, <1>3 DEF Sound, Typed
<1>5. Allocated(r) = Allocated(t) /\ \A b : InBucket(r, b) = InBucket(t, b)
  BY <1>3 DEF Allocated, InBucket, Bucket
<1>6. KeysOnce(r) /\ Chained(r) /\ Aged(r, {}) /\ Counted(r, {})
  BY <1>3, <1>5 DEF Sound, KeysOnce, Chained, Aged, Counted
<1>7. Replaced(t, r, e)
  BY <1>3, <1>4, <1>6 DEF Replaced, Sound
<1> QED
  BY <1>7 DEF r

\* The chains reach every entry, so that ght_finalize frees them all.
LEMMA AllChained ==
  ASSUME NEW t, Sound(t), t.size # 0
  PROVE  UNION {Range(Chain(t, b)) : b \in DOMAIN t.head} = Allocated(t)
<1>1. DOMAIN t.head = 0..(t.size - 1)
  BY DEF Sound, Typed
<1>2. \A b \in 0..(t.size - 1) : Range(Chain(t, b)) = InBucket(t, b)
  BY ChainWalked DEF Walked
<1>3. \A e \in Allocated(t) : \E b \in 0..(t.size - 1) : e \in InBucket(t, b)
  BY InItsBucket DEF Sound
<1> QED
  BY <1>1, <1>2, <1>3 DEF InBucket

-----------------------------------------------------------------------------
(***************************************************************************)
(* The invariant.                                                          *)
(***************************************************************************)
TableInv ==
  /\ use \in Uses /\ Sound(ht)
  /\ cursor \in [Iterators -> Ref]
  /\ result \in Data \cup {NULL, "ok", "already", "error", "panic"}

LEMMA UseFacts ==
  ASSUME use \in Uses
  PROVE  /\ use.size \in Nat \ {0} /\ use.newSizes \subseteq Nat \ {0}
         /\ use.limit \in Nat
         /\ use.keys \subseteq Keys /\ use.data \subseteq Data
BY GhtConstants

\* There is an address for a new key.
LEMMA InsertAddress ==
  ASSUME NEW t, Sound(t), NEW k \in Keys, k \notin KeySet(t)
  PROVE  LET e == FreeAddress(Allocated(t)) IN
         /\ e \in Addresses \ Allocated(t)
         /\ Allocated(t) \cup {e} \subseteq Addresses
         /\ Cardinality(Allocated(t) \cup {e}) <= Cardinality(Keys)
<1> DEFINE e == FreeAddress(Allocated(t))
<1>1. /\ KeySet(t) \subseteq Keys /\ IsFiniteSet(KeySet(t))
      /\ Cardinality(KeySet(t)) = Cardinality(Allocated(t))
      /\ Cardinality(Allocated(t)) \in Nat
  BY KeysCounted DEF Sound
<1>2. Cardinality(KeySet(t) \cup {k}) = Cardinality(KeySet(t)) + 1
  BY <1>1, FS_AddElement
<1>3. Cardinality(KeySet(t) \cup {k}) <= Cardinality(Keys)
      /\ Cardinality(Keys) \in Nat
  <2>1. KeySet(t) \cup {k} \subseteq Keys
    BY <1>1
  <2> QED
    BY <2>1, GhtMemory, FS_Subset, FS_CardinalityType
<1>4. Cardinality(Allocated(t)) < MaxEntry
  BY <1>1, <1>2, <1>3, GhtMemory
<1>5. Allocated(t) \subseteq Addresses
  BY DEF Allocated
<1>6. e \in Addresses \ Allocated(t)
  BY <1>4, <1>5, FreeAddressFound
<1> HIDE DEF e
<1>7. Cardinality(Allocated(t) \cup {e}) = Cardinality(Allocated(t)) + 1
  BY <1>6, EntriesFinite, FS_AddElement
<1> QED
  BY <1>1, <1>2, <1>3, <1>5, <1>6, <1>7 DEF e

\* The sizes that the properties bound.
Fits(t) ==
  /\ use.automatic => t.items <= 2 * t.size + 1
  /\ use.limit # 0 => \A b \in 0..(t.size - 1) : t.nr[b] <= use.limit

\* A table that grows by itself is not resized by its owner, and neither is one
\* with a bucket limit: ght_rehash does not know the limit.
UsesHeld ==
  \A u \in Uses : /\ u.automatic \/ u.limit # 0 => u.newSizes = {}
                  /\ ~(u.automatic /\ u.limit # 0)

\* An insertion, with a rehash before it or not.
LEMMA InsertSound ==
  ASSUME use \in Uses, Sound(ht), ht.size # 0,
         NEW k \in use.keys, NEW d \in use.data, ght_insert(k, d),
         result' # "panic"
  PROVE  /\ Sound(ht')
         /\ UsesHeld /\ Fits(ht) => Fits(ht')
         /\ k \notin KeySet(ht) /\ ht'.size # 0
         /\ ~use.automatic =>
              \E e \in Addresses : e \notin Allocated(ht) /\ InsertedAs(ht, ht', e, k)
<1> DEFINE e == FreeAddress(Allocated(ht))
           used == Allocated(ht) \cup {e}
<1>1. k \in Keys /\ d \in Data \cup {NULL} /\ use.limit \in Nat
  BY UseFacts
<1>2. k \notin KeySet(ht)
  <2>1. Search(ht, k) = NULL
    BY DEF ght_insert
  <2> QED
    BY <1>1, <2>1, SearchFinds DEF Found
<1>3. /\ e \in Addresses \ Allocated(ht) /\ used \subseteq Addresses
      /\ Cardinality(used) <= Cardinality(Keys)
  BY <1>1, <1>2, InsertAddress
<1>4. ht.size \in Nat /\ ht.items \in Int
  BY DEF Sound, Typed
<1> HIDE DEF e
<1>5. ASSUME NEW lost, use.automatic, ht.items > 2 * ht.size,
             ht' = Inserted(ght_rehash(ht, 2 * ht.size, used, lost), e, k, d)
      PROVE  Sound(ht') /\ (UsesHeld /\ Fits(ht) => Fits(ht')) /\ ht'.size # 0
  <2> DEFINE n == 2 * ht.size
             r == ght_rehash(ht, n, used, lost)
  <2>1. n \in Nat \ {0}
    BY <1>4
  <2> HIDE DEF n, used
  <2>2. Rehashed(ht, r, n, used, lost)
    BY <1>3, <2>1, RehashKeeps
  <2> HIDE DEF r
  <2>3. RoundUp(n) \in Nat \ {0} /\ RoundUp(n) >= n
    BY <2>1, RoundUpBound
  <2>4. Sound(r) /\ r.size = RoundUp(n) /\ e \notin Allocated(r)
    BY <2>2 DEF Rehashed, used
  <2>5. KeySet(r) \subseteq KeySet(ht)
    BY <2>2 DEF Rehashed, KeySet
  <2>6. InsertedAs(r, Inserted(r, e, k, d), e, k)
    BY <1>1, <1>2, <1>3, <2>3, <2>4, <2>5, InsertedKeeps
  <2>7. InsertedAs(r, ht', e, k)
    BY <1>5, <2>6 DEF r, n
  <2>8. ASSUME UsesHeld, Fits(ht) PROVE Fits(ht')
    <3>1. use.limit = 0
      BY <1>5, <2>8 DEF UsesHeld
    <3>2. r.items <= ht.items
      <4>1. /\ r.items = Cardinality(Allocated(r) \ {})
            /\ ht.items = Cardinality(Allocated(ht) \ {})
        BY <2>4 DEF Sound, Counted
      <4>2. Allocated(r) \ {} = Allocated(r) /\ Allocated(ht) \ {} = Allocated(ht)
        OBVIOUS
      <4>3. /\ Cardinality(KeySet(r)) = Cardinality(Allocated(r))
            /\ Cardinality(KeySet(ht)) = Cardinality(Allocated(ht))
            /\ IsFiniteSet(KeySet(ht))
        BY <2>4, KeysCounted DEF Sound
      <4>4. Cardinality(KeySet(r)) <= Cardinality(KeySet(ht))
        BY <2>5, <4>3, FS_Subset
      <4> QED
        BY <4>1, <4>2, <4>3, <4>4
    <3>3. ht'.items <= 2 * ht'.size + 1
      <4>1. ht'.size = RoundUp(n) /\ ht'.items <= r.items + 1
        BY <2>4, <2>7 DEF InsertedAs
      <4>2. ht.items <= 2 * ht.size + 1
        BY <1>5, <2>8 DEF Fits
      <4>3. r.items \in Int /\ ht'.items \in Int
        BY <2>4, <2>7 DEF InsertedAs, Sound, Typed
      <4> QED
        BY <1>4, <2>1, <2>3, <3>2, <4>1, <4>2, <4>3 DEF n
    <3> QED
      BY <3>1, <3>3 DEF Fits, ght_insert
  <2> QED
    BY <2>3, <2>4, <2>7, <2>8 DEF InsertedAs
<1>6. ASSUME ~(use.automatic /\ ht.items > 2 * ht.size),
             ht' = Inserted(ht, e, k, d)
      PROVE  /\ Sound(ht') /\ (UsesHeld /\ Fits(ht) => Fits(ht')) /\ ht'.size # 0
             /\ InsertedAs(ht, ht', e, k)
  <2>1. InsertedAs(ht, ht', e, k)
    BY <1>1, <1>2, <1>3, <1>6, InsertedKeeps
  <2>2. ASSUME Fits(ht) PROVE Fits(ht')
    <3>1. ht'.size = ht.size /\ ht'.items <= ht.items + 1 /\ ht'.items \in Int
      BY <2>1 DEF InsertedAs, Sound, Typed
    <3>2. use.automatic => ht'.items <= 2 * ht'.size + 1
      BY <1>4, <1>6, <3>1
    <3>3. use.limit # 0 => \A b \in 0..(ht'.size - 1) : ht'.nr[b] <= use.limit
      BY <2>1, <2>2, <3>1 DEF InsertedAs, Fits
    <3> QED
      BY <3>2, <3>3 DEF Fits
  <2> QED
    BY <2>1, <2>2 DEF InsertedAs
<1>7. \/ \E lost \in Lost :
           /\ use.automatic /\ ht.items > 2 * ht.size
           /\ ht' = Inserted(ght_rehash(ht, 2 * ht.size, used, lost), e, k, d)
      \/ /\ ~(use.automatic /\ ht.items > 2 * ht.size)
         /\ ht' = Inserted(ht, e, k, d)
  BY DEF ght_insert, Overloaded, NoNewTable, e
<1> QED
  BY <1>2, <1>3, <1>5, <1>6, <1>7

\* What the other operations do: no key is new.
Kept(t, r) ==
  /\ Sound(r) /\ KeySet(r) \subseteq KeySet(t)
  /\ UsesHeld /\ Fits(t) => Fits(r)

LEMMA SameKept ==
  ASSUME NEW t, Sound(t)
  PROVE  Kept(t, t)
BY DEF Kept

LEMMA GetKept ==
  ASSUME use \in Uses, Sound(ht), ht.size # 0, NEW k \in Keys
  PROVE  /\ Kept(ht, Accessed(ht, Search(ht, k)))
         /\ \A d \in Data : Search(ht, k) # NULL =>
              Kept(ht, [Accessed(ht, Search(ht, k)) EXCEPT !.data[Search(ht, k)] = d])
<1> DEFINE e == Search(ht, k)
           r == Accessed(ht, e)
<1>1. e \in Allocated(ht) \cup {NULL}
  BY SearchFinds DEF Found
<1> HIDE DEF e
<1>2. Sound(r) /\ SameButChain(ht, r) /\ Allocated(r) = Allocated(ht)
  BY <1>1, AccessedKeeps
<1> HIDE DEF r
<1>3. r.size = ht.size /\ r.items = ht.items /\ r.nr = ht.nr /\ r.key = ht.key
  BY <1>2 DEF SameButChain
<1>4. Kept(ht, r)
  BY <1>2, <1>3 DEF Kept, KeySet, Fits
<1>5. ASSUME NEW d \in Data, e # NULL
      PROVE  Kept(ht, [r EXCEPT !.data[e] = d])
  <2> DEFINE q == [r EXCEPT !.data[e] = d]
  <2>1. e \in Addresses
    BY <1>1, <1>5 DEF Allocated
  <2>2. Replaced(r, q, e)
    BY <1>2, <2>1, ReplacedKeeps
  <2> HIDE DEF q
  <2>3. Sound(q) /\ q.size = ht.size /\ q.items = ht.items /\ q.nr = ht.nr
        /\ q.key = ht.key
    BY <1>3, <2>2 DEF Replaced
  <2>4. Allocated(q) = Allocated(ht)
    BY <2>3 DEF Allocated
  <2>5. Kept(ht, q)
    BY <2>3, <2>4 DEF Kept, KeySet, Fits
  <2> QED
    BY <2>5 DEF q
<1> QED
  BY <1>4, <1>5 DEF e, r

LEMMA RemoveKept ==
  ASSUME use \in Uses, Sound(ht), ht.size # 0, NEW k \in Keys, ght_remove(k)
  PROVE  Kept(ht, ht')
<1> DEFINE e == Search(ht, k)
<1>1. Found(ht, k, e)
  BY SearchFinds
<1>2. CASE e = NULL
  <2>1. ht' = ht
    BY <1>2 DEF ght_remove
  <2> QED
    BY <2>1, SameKept
<1>3. CASE e # NULL
  <2>1. e \in Allocated(ht) /\ ht.key[e] = k
    BY <1>1, <1>3 DEF Found
  <2>2. ht' = he_finalize([remove_from_chain(ht, e) EXCEPT
                             !.items = @ - 1,
                             !.nr[Bucket(ht, ht.key[e])] = @ - 1], e)
    BY <1>3, <2>1 DEF ght_remove
  <2> HIDE DEF e
  <2>3. Removed(ht, ht', e)
    BY <2>1, <2>2, RemovedKeeps
  <2>4. KeySet(ht') \subseteq KeySet(ht)
    BY <2>3 DEF Removed, KeySet
  <2>5. ASSUME Fits(ht) PROVE Fits(ht')
    <3>1. ht'.size = ht.size /\ ht'.items = ht.items - 1
      BY <2>3 DEF Removed
    <3>2. ht.size \in Int /\ ht.items \in Int
      BY DEF Sound, Typed
    <3>3. use.automatic => ht'.items <= 2 * ht'.size + 1
      BY <2>5, <3>1, <3>2 DEF Fits
    <3>4. ASSUME use.limit # 0, NEW b \in 0..(ht'.size - 1)
          PROVE  ht'.nr[b] <= use.limit
      <4>1. b \in 0..(ht.size - 1)
        BY <3>1
      <4>2. ht'.nr[b] <= ht.nr[b] /\ ht.nr[b] <= use.limit
        BY <2>3, <2>5, <3>4, <4>1 DEF Removed, Fits
      <4>3. ht'.nr[b] \in Int /\ ht.nr[b] \in Int /\ use.limit \in Int
        BY <2>3, <4>1, UseFacts DEF Removed, Sound, Typed
      <4> QED
        BY <4>2, <4>3
    <3> QED
      BY <3>3, <3>4 DEF Fits
  <2> QED
    BY <2>3, <2>4, <2>5 DEF Kept, Removed
<1> QED
  BY <1>2, <1>3

LEMMA RehashKept ==
  ASSUME use \in Uses, Sound(ht), NEW n \in use.newSizes, Rehash(n)
  PROVE  Kept(ht, ht')
<1>0. CASE ht' = ht
  BY <1>0, SameKept
<1> SUFFICES ASSUME ht' # ht PROVE Kept(ht, ht')
  BY <1>0
<1>1. PICK lost : ht' = ght_rehash(ht, n, Allocated(ht), lost)
  BY DEF Rehash, NoNewTable
<1>2. n \in Nat \ {0}
  BY UseFacts
<1>3. Allocated(ht) \subseteq Addresses
      /\ Cardinality(Allocated(ht)) <= Cardinality(Keys)
  <2>1. /\ KeySet(ht) \subseteq Keys
        /\ Cardinality(KeySet(ht)) = Cardinality(Allocated(ht))
    BY KeysCounted DEF Sound
  <2> QED
    BY <2>1, GhtMemory, FS_Subset DEF Allocated
<1>4. Rehashed(ht, ht', n, Allocated(ht), lost)
  BY <1>1, <1>2, <1>3, RehashKeeps
<1>5. Sound(ht') /\ KeySet(ht') \subseteq KeySet(ht)
  BY <1>4 DEF Rehashed, KeySet
<1>6. ASSUME UsesHeld PROVE Fits(ht')
  BY <1>6 DEF UsesHeld, Fits
<1> QED
  BY <1>5, <1>6 DEF Kept

LEMMA FinalizeKept ==
  ASSUME use \in Uses, Sound(ht), ht.size # 0, ght_finalize
  PROVE  Kept(ht, ht') /\ ht'.size = 0
<1> DEFINE freed(field) == [e \in Addresses |->
                              IF e \in Allocated(ht) THEN NULL ELSE field[e]]
           key == freed(ht.key)
           data == freed(ht.data)
           next == freed(ht.next)
           prev == freed(ht.prev)
           older == freed(ht.older)
           newer == freed(ht.newer)
<1>1. ht' = [NoTable EXCEPT !.key = key, !.data = data, !.next = next,
                            !.prev = prev, !.older = older, !.newer = newer]
  BY AllChained DEF ght_finalize
<1>2. /\ key \in [Addresses -> Keys \cup {NULL}]
      /\ data \in [Addresses -> Data \cup {NULL}]
      /\ next \in Links /\ prev \in Links /\ older \in Links /\ newer \in Links
  BY DEF Sound, Typed, Links, Ref
<1>3. \A e \in Addresses : key[e] = NULL
  BY DEF Allocated
<1> HIDE DEF key, data, next, prev, older, newer
<1>4. ht' = [size |-> 0, items |-> 0, head |-> <<>>, nr |-> <<>>,
             key |-> key, data |-> data, next |-> next, prev |-> prev,
             older |-> older, newer |-> newer, oldest |-> NULL, newest |-> NULL]
  BY <1>1 DEF NoTable, EmptyTable
<1>5. Typed(ht')
  <2>1. \A S : <<>> \in [0..(0 - 1) -> S]
    OBVIOUS
  <2> QED
    BY <1>2, <1>4, <2>1 DEF Typed, Ref
<1>6. ht'.size = 0 /\ ht'.items = 0 /\ ht'.key = key
      /\ ht'.oldest = NULL /\ ht'.newest = NULL
  BY <1>4
<1>7. Allocated(ht') = {}
  BY <1>3, <1>6 DEF Allocated
<1>8. KeysOnce(ht') /\ Chained(ht')
  BY <1>6, <1>7 DEF KeysOnce, Chained
<1>9. Aged(ht', {})
  <2>1. Allocated(ht') \ {} = {}
    BY <1>7
  <2> QED
    BY <1>6, <2>1, NoList DEF Aged
<1>10. Counted(ht', {})
  <2>1. Cardinality(Allocated(ht') \ {}) = 0
    BY <1>7, FS_EmptySet
  <2> QED
    BY <1>6, <2>1 DEF Counted
<1>11. KeySet(ht') = {}
  BY <1>7 DEF KeySet
<1>12. Fits(ht')
  BY <1>6 DEF Fits
<1> QED
  BY <1>5, <1>6, <1>8, <1>9, <1>10, <1>11, <1>12 DEF Kept, Sound

LEMMA EmptyKept ==
  ASSUME use \in Uses, NEW t, NEW size \in Nat, IsEmpty(t, size)
  PROVE  Kept(t, t) /\ Fits(t) /\ KeySet(t) = {}
<1>1. KeySet(t) = {} /\ Sound(t)
  BY DEF IsEmpty, KeySet
<1>2. Fits(t)
  BY UseFacts DEF IsEmpty, Fits
<1> QED
  BY <1>1, <1>2 DEF Kept

LEMMA InitSound ==
  ASSUME TableInit
  PROVE  TableInv /\ Fits(ht)
<1>1. use \in Uses /\ use.size \in Nat
  BY UseFacts DEF TableInit
<1>2. IsEmpty(ht, RoundUp(use.size)) /\ RoundUp(use.size) \in Nat
  BY <1>1, EmptySound, RoundUpBound DEF TableInit
<1>3. Sound(ht) /\ Fits(ht)
  BY <1>1, <1>2, EmptyKept DEF IsEmpty
<1> QED
  BY <1>1, <1>3 DEF TableInit, TableInv, Ref

\* A step inserts an entry, or is one after which no key is new.
LEMMA TableStep ==
  ASSUME TableInv, [TableNext]_tableVars
  PROVE  /\ TableInv' /\ use' = use
         /\ UsesHeld /\ Fits(ht) => Fits(ht')
         /\ \/ /\ Exists /\ result' # "panic"
               /\ \E k \in use.keys, d \in use.data : ght_insert(k, d)
            \/ KeySet(ht') \subseteq KeySet(ht)
<1> DEFINE Inserts == Exists /\ result' # "panic" /\ \E k \in use.keys, d \in use.data : ght_insert(k, d)
           Results == Data \cup {NULL, "ok", "already", "error", "panic"}
           Stepped == /\ Sound(ht') /\ (UsesHeld /\ Fits(ht) => Fits(ht'))
                      /\ Inserts \/ KeySet(ht') \subseteq KeySet(ht)
                      /\ use' = use
                      /\ cursor' \in [Iterators -> Ref]
                      /\ result' \in Results
<1>1. /\ use \in Uses /\ Sound(ht) /\ cursor \in [Iterators -> Ref]
      /\ result \in Results
  BY DEF TableInv
<1>2. /\ ht.data \in [Addresses -> Data \cup {NULL}]
      /\ ht.newer \in Links /\ ht.oldest \in Ref
  BY <1>1 DEF Sound, Typed
<1>3. use.keys \subseteq Keys /\ use.data \subseteq Data
  BY <1>1, UseFacts
<1>4. ASSUME ht' = ht, use' = use, cursor' \in [Iterators -> Ref],
             result' \in Results
      PROVE  Stepped
  <2>1. Kept(ht, ht')
    BY <1>1, <1>4, SameKept
  <2> QED
    BY <1>4, <2>1 DEF Kept
<1>5. ASSUME Kept(ht, ht'), use' = use, cursor' = cursor, result' \in Results
      PROVE  Stepped
  BY <1>1, <1>5 DEF Kept
<1> SUFFICES Stepped
  BY DEF TableInv
<1> HIDE DEF Stepped
<1>6. ASSUME Exists, NEW k \in use.keys, AlreadyInHash(k) \/ InsertError(k)
      PROVE  Stepped
  BY <1>1, <1>4, <1>6 DEF AlreadyInHash, InsertError
<1>7. ASSUME Exists, NEW k \in use.keys, NEW d \in use.data, ght_insert(k, d)
      PROVE  Stepped
  <2>1. CASE result' # "panic"
    <3>1. Sound(ht') /\ (UsesHeld /\ Fits(ht) => Fits(ht'))
      BY <1>1, <1>7, <2>1, InsertSound DEF Exists
    <3>2. Inserts /\ result' \in Results
      BY <1>7, <2>1 DEF ght_insert, NoNewTable
    <3> QED
      BY <1>1, <1>7, <3>1, <3>2 DEF Stepped, ght_insert
  <2>2. CASE result' = "panic"
    <3>1. ht' = ht
      BY <1>7, <2>2 DEF ght_insert, NoNewTable
    <3> QED
      BY <1>1, <1>4, <1>7, <2>2, <3>1 DEF ght_insert
  <2> QED
    BY <2>1, <2>2
<1>8. ASSUME Exists, NEW k \in Keys
      PROVE  LET e == Search(ht, k) IN
             (IF e = NULL THEN NULL ELSE ht.data[e]) \in Results
  <2>1. Search(ht, k) # NULL => Search(ht, k) \in Addresses
    BY <1>1, <1>8, SearchFinds DEF Found, Exists, Allocated
  <2> QED
    BY <1>2, <2>1
<1>9. ASSUME Exists, NEW k \in use.keys, NEW d \in use.data, ght_replace(k, d)
      PROVE  Stepped
  <2>1. k \in Keys /\ d \in Data
    BY <1>3
  <2>2. Kept(ht, ht')
    BY <1>1, <1>9, <2>1, GetKept, SameKept DEF ght_replace, Exists
  <2> QED
    BY <1>5, <1>8, <1>9, <2>1, <2>2 DEF ght_replace
<1>10. ASSUME Exists, NEW k \in use.keys, ght_get(k)
       PROVE  Stepped
  <2>1. k \in Keys
    BY <1>3
  <2>2. Kept(ht, ht')
    BY <1>1, <1>10, <2>1, GetKept DEF ght_get, Exists
  <2> QED
    BY <1>5, <1>8, <1>10, <2>1, <2>2 DEF ght_get
<1>11. ASSUME Exists, NEW k \in use.keys, ght_remove(k)
       PROVE  Stepped
  <2>1. k \in Keys
    BY <1>3
  <2>2. Kept(ht, ht')
    BY <1>1, <1>11, <2>1, RemoveKept DEF Exists
  <2> QED
    BY <1>5, <1>8, <1>11, <2>1, <2>2 DEF ght_remove
<1>12. ASSUME NEW i \in Iterators, ght_first(i) \/ ght_next(i)
       PROVE  Stepped
  <2> SUFFICES cursor' \in [Iterators -> Ref] /\ result' \in Results
    BY <1>4, <1>12 DEF ght_first, ght_next
  <2>1. ht.oldest # NULL => ht.oldest \in Addresses
    BY <1>2 DEF Ref
  <2>2. cursor[i] # NULL => cursor[i] \in Addresses
    BY <1>1 DEF Ref
  <2>3. \A e \in Addresses : ht.newer[e] \in Ref /\ ht.data[e] \in Results
    BY <1>2 DEF Links
  <2>4. NULL \in Ref
    BY DEF Ref
  <2>5. \A e \in Ref : [cursor EXCEPT ![i] = e] \in [Iterators -> Ref]
    BY <1>1
  <2>6. CASE ght_first(i)
    BY <1>1, <2>1, <2>3, <2>4, <2>5, <2>6 DEF ght_first
  <2>7. CASE ght_next(i) /\ cursor[i] = NULL
    BY <1>1, <2>7, GhtMemory DEF ght_next, Dangling, Allocated, Addresses
  <2>8. CASE ght_next(i) /\ cursor[i] \in Allocated(ht)
    BY <1>1, <2>3, <2>4, <2>5, <2>8 DEF ght_next, Dangling, Allocated
  <2>9. CASE ght_next(i) /\ Dangling(i)
    BY <2>5, <2>9 DEF ght_next, Dangling, Ref
  <2> QED
    BY <1>12, <2>6, <2>7, <2>8, <2>9 DEF ght_next
<1>13. ASSUME NEW n \in use.newSizes, Rehash(n)
       PROVE  Stepped
  <2>1. Kept(ht, ht')
    BY <1>1, <1>13, RehashKept
  <2> QED
    BY <1>1, <1>5, <1>13, <2>1 DEF Rehash, NoNewTable
<1>14. ASSUME Exists, ght_finalize
       PROVE  Stepped
  <2>1. Kept(ht, ht')
    BY <1>1, <1>14, FinalizeKept DEF Exists
  <2> QED
    BY <1>1, <1>5, <1>14, <2>1 DEF ght_finalize
<1>15. ASSUME ght_create
       PROVE  Stepped
  <2>1. CASE ht' = EmptyTable(use.size) /\ UNCHANGED result
    <3>1. use.size \in Nat
      BY <1>1, UseFacts
    <3>2. IsEmpty(ht', RoundUp(use.size)) /\ RoundUp(use.size) \in Nat
      BY <2>1, <3>1, EmptySound, RoundUpBound
    <3>3. Sound(ht') /\ Fits(ht') /\ KeySet(ht') = {}
      BY <1>1, <3>2, EmptyKept DEF IsEmpty
    <3> QED
      BY <1>1, <1>15, <2>1, <3>3 DEF ght_create, Stepped
  <2>2. CASE result' = NULL /\ UNCHANGED ht
    BY <1>1, <1>4, <1>15, <2>2 DEF ght_create
  <2> QED
    BY <1>15, <2>1, <2>2 DEF ght_create
<1>16. CASE UNCHANGED tableVars
  BY <1>1, <1>4, <1>16 DEF tableVars
<1> QED
  BY <1>6, <1>7, <1>9, <1>10, <1>11, <1>12, <1>13, <1>14, <1>15, <1>16
     DEF TableNext

LEMMA TableInvariant == TableSpec => []TableInv
<1>1. TableInit => TableInv
  BY InitSound
<1>2. TableInv /\ [TableNext]_tableVars => TableInv'
  BY TableStep
<1> QED
  BY <1>1, <1>2, PTL DEF TableSpec

\* For any hash function and any uses: the fields of the table, the cursors and
\* the results have their types, i_items and p_nr are never negative.
THEOREM TableTyped == TableSpec => []TableTypeOK
<1>1. TableInv => TableTypeOK
  <2> SUFFICES ASSUME TableInv PROVE TableTypeOK
    OBVIOUS
  <2>1. Typed(ht) /\ Counted(ht, {})
    BY DEF TableInv, Sound
  <2>2. ht.items \in 0..MaxEntry
    <3>1. Allocated(ht) \ {} = Allocated(ht)
      OBVIOUS
    <3> QED
      BY <2>1, <3>1, EntriesFinite, FS_CardinalityType, GhtMemory DEF Counted
  <2>3. ht.nr \in [0..(ht.size - 1) -> 0..MaxEntry]
    <3>1. \A b : InBucket(ht, b) \ {} = InBucket(ht, b)
      OBVIOUS
    <3>2. \A b \in 0..(ht.size - 1) : ht.nr[b] \in 0..MaxEntry
      BY <2>1, <3>1, EntriesFinite DEF Counted
    <3>3. ht.nr \in [0..(ht.size - 1) -> Int]
      BY <2>1 DEF Typed
    <3> QED
      BY <3>2, <3>3
  <2>4. /\ ht.size \in Nat
        /\ ht.head \in [0..(ht.size - 1) -> Addresses \cup {NULL}]
        /\ ht.key \in [Addresses -> Keys \cup {NULL}]
        /\ ht.data \in [Addresses -> Data \cup {NULL}]
        /\ \A link \in {ht.next, ht.prev, ht.older, ht.newer} :
             link \in [Addresses -> Addresses \cup {NULL}]
    BY <2>1 DEF Typed, Links, Ref
  <2> QED
    BY <2>2, <2>3, <2>4 DEF TableInv, TableTypeOK, Ref
<1> QED
  BY <1>1, TableInvariant, PTL

\* For any hash function and any uses: the chain of every bucket has just the
\* entries of the bucket, once each, and can be walked both ways; p_nr and
\* i_items are their numbers (insertions, evictions, removals, heuristics and
\* rehashing included, with or without memory).
THEOREM TableLinked == TableSpec => []BucketsLinked
<1>1. TableInv => BucketsLinked
  <2> SUFFICES ASSUME TableInv PROVE BucketsLinked
    OBVIOUS
  <2>1. Sound(ht)
    BY DEF TableInv
  <2>2. ht.items = Cardinality(Allocated(ht))
    <3>1. Allocated(ht) \ {} = Allocated(ht)
      OBVIOUS
    <3> QED
      BY <2>1, <3>1 DEF Sound, Counted
  <2>3. ASSUME NEW b \in DOMAIN ht.head
        PROVE  LET c == Chain(ht, b) IN
               /\ Range(c) = {e \in Allocated(ht) : Bucket(ht, ht.key[e]) = b}
               /\ ht.nr[b] = Len(c) /\ Len(c) = Cardinality(Range(c))
               /\ \A n \in DOMAIN c :
                    ht.prev[c[n]] = IF n = 1 THEN NULL ELSE c[n - 1]
    <3>1. b \in 0..(ht.size - 1)
      BY <2>1 DEF Sound, Typed
    <3>0. PICK n \in Nat : \E last :
            /\ Walked(Chain(ht, b), InBucket(ht, b), n, ht.prev, last)
            /\ n = Cardinality(InBucket(ht, b))
      BY <2>1, <3>1, ChainWalked
    <3>2. PICK last :
            /\ Walked(Chain(ht, b), InBucket(ht, b), n, ht.prev, last)
            /\ n = Cardinality(InBucket(ht, b))
      BY <3>0
    <3>3. ht.nr[b] = n
      <4>1. InBucket(ht, b) \ {} = InBucket(ht, b)
        OBVIOUS
      <4> QED
        BY <2>1, <3>1, <3>2, <4>1 DEF Sound, Counted
    <3> QED
      BY <3>2, <3>3 DEF Walked, InBucket
  <2> QED
    BY <2>2, <2>3 DEF BucketsLinked
<1> QED
  BY <1>1, TableInvariant, PTL

\* For any hash function and any uses: the list by age, with which iterators
\* walk, has every entry once and can be walked both ways.
THEOREM TableAged == TableSpec => []AgesLinked
<1>1. TableInv => AgesLinked
  <2> SUFFICES ASSUME TableInv PROVE AgesLinked
    OBVIOUS
  <2>1. PICK n : ListOf(Allocated(ht) \ {}, n, ht.newer, ht.older,
                        ht.oldest, ht.newest)
    BY DEF TableInv, Sound, Aged
  <2>2. ht.newer \in Links
    BY DEF TableInv, Sound, Typed
  <2>3. Walked(Ages(ht), Allocated(ht) \ {}, n, ht.older, ht.newest)
    BY <2>1, <2>2, ListWalked DEF Ages
  <2>4. n = Cardinality(Allocated(ht) \ {})
    BY <2>1, ListSize
  <2>5. Allocated(ht) \ {} = Allocated(ht)
    OBVIOUS
  <2> QED
    BY <2>3, <2>4, <2>5 DEF Walked, AgesLinked
<1> QED
  BY <1>1, TableInvariant, PTL

\* For uses whose owner does not resize a table that grows by itself or has a
\* bucket limit: the load of a growing table and the buckets of a bounded one
\* stay in their bounds.
THEOREM TableBounded == UsesHeld => (TableSpec => []SizesBounded)
<1> SUFFICES ASSUME UsesHeld PROVE TableSpec => []SizesBounded
  OBVIOUS
<1> DEFINE Inv == TableInv /\ Fits(ht)
<1>1. TableInit => Inv
  BY InitSound
<1>2. Inv /\ [TableNext]_tableVars => Inv'
  <2> SUFFICES ASSUME Inv, [TableNext]_tableVars PROVE Inv'
    OBVIOUS
  <2>1. TableInv' /\ use' = use /\ Fits(ht')
    BY TableStep
  <2>2. Fits(ht)'
    BY <2>1 DEF Fits
  <2> QED
    BY <2>1, <2>2
<1>3. Inv => SizesBounded
  <2> SUFFICES ASSUME Inv PROVE SizesBounded
    OBVIOUS
  <2>1. DOMAIN ht.nr = 0..(ht.size - 1)
    BY DEF TableInv, Sound, Typed
  <2> QED
    BY <2>1 DEF Fits, SizesBounded
<1> QED
  BY <1>1, <1>2, <1>3, PTL DEF TableSpec

\* For the same uses: an insertion evicts only from the bucket of the new key,
\* and only when that has as many entries as the limit allows.
THEOREM TableEvicts == UsesHeld => (TableSpec => EvictsOnlyWhenFull)
<1> DEFINE Gone(j, k) == /\ Search(ht, j) # NULL /\ Search(ht', j) = NULL
                         /\ Search(ht, k) = NULL /\ Search(ht', k) # NULL
           Full(j, k) == /\ Bucket(ht, j) = Bucket(ht, k)
                         /\ ht.nr[Bucket(ht, k)] = use.limit
           Act == use.limit # 0 /\ Exists /\ Exists' =>
                    \A j, k \in Keys : Gone(j, k) => Full(j, k)
<1> SUFFICES ASSUME UsesHeld PROVE TableSpec => [][Act]_tableVars
  BY DEF EvictsOnlyWhenFull
<1>1. TableInv /\ SizesBounded /\ TableInv' /\ [TableNext]_tableVars
        => [Act]_tableVars
  <2> SUFFICES ASSUME TableInv, SizesBounded, TableInv', [TableNext]_tableVars,
                      use.limit # 0, Exists, Exists',
                      NEW j \in Keys, NEW k \in Keys, Gone(j, k)
               PROVE  Full(j, k)
    OBVIOUS
  <2>1. /\ use \in Uses /\ Sound(ht) /\ Sound(ht')
        /\ ht.size # 0 /\ ht'.size # 0 /\ ~use.automatic
        /\ use.limit \in Nat
    BY UseFacts DEF TableInv, Exists, UsesHeld
  <2>2. /\ Search(ht, j) \in Allocated(ht) /\ ht.key[Search(ht, j)] = j
        /\ j \notin KeySet(ht') /\ k \notin KeySet(ht) /\ k \in KeySet(ht')
    BY <2>1, SearchFinds DEF Found
  <2>3. /\ result' # "panic"
        /\ \E i \in use.keys, d \in use.data : ght_insert(i, d)
    BY <2>2, TableStep
  <2>4. PICK i \in use.keys, e \in Addresses :
          e \notin Allocated(ht) /\ InsertedAs(ht, ht', e, i)
    BY <2>1, <2>3, InsertSound
  <2> DEFINE f == Search(ht, j)
  <2>5. f \notin Allocated(ht')
    <3> SUFFICES ASSUME f \in Allocated(ht') PROVE FALSE
      OBVIOUS
    <3>1. ht'.key[f] = j
      BY <2>2, <2>4 DEF InsertedAs
    <3> QED
      BY <2>2, <3>1 DEF KeySet
  <2>6. k = i
    <3>1. PICK g \in Allocated(ht') : ht'.key[g] = k
      BY <2>2 DEF KeySet
    <3>2. CASE g = e
      BY <2>4, <3>1, <3>2 DEF InsertedAs
    <3>3. CASE g # e
      BY <2>2, <2>4, <3>1, <3>3 DEF InsertedAs, KeySet
    <3> QED
      BY <3>2, <3>3
  <2>7. /\ Bucket(ht, j) = Bucket(ht, k)
        /\ ht.nr[Bucket(ht, k)] >= use.limit
    BY <2>2, <2>4, <2>5, <2>6 DEF InsertedAs
  <2>8. ht.nr[Bucket(ht, k)] <= use.limit /\ ht.nr[Bucket(ht, k)] \in Int
    <3>1. ht.nr \in [0..(ht.size - 1) -> Int] /\ ht.size \in Nat
      BY <2>1 DEF Sound, Typed
    <3>2. Bucket(ht, k) \in DOMAIN ht.nr
      BY <2>1, <3>1, BucketRange
    <3> QED
      BY <3>1, <3>2 DEF SizesBounded
  <2> QED
    BY <2>1, <2>7, <2>8
<1>2. TableSpec => []SizesBounded
  BY TableBounded
<1> QED
  BY <1>1, <1>2, TableInvariant, PTL DEF TableSpec

=============================================================================
