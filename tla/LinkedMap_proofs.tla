--------------------------- MODULE LinkedMap_proofs ---------------------------
(***************************************************************************)
(* Theorems about the linked maps, for any number of keys, buckets, limits *)
(* and enumerations.  Sound(m, list) says that m is a map whose list is    *)
(* list; every method takes a sound map to a sound one.                    *)
(***************************************************************************)
EXTENDS LinkedMap, NaturalsInduction, WellFoundedInduction, FiniteSetTheorems, TLAPS

(* Induction over the naturals, for a set: from the least element that is  *)
(* not in it.                                                              *)
LEMMA LeastElement ==
    ASSUME NEW T \in SUBSET Nat, T # {}
    PROVE  \E m \in T : \A k \in T : m <= k
<1>1. PICK m \in T : \A k \in T : <<k, m>> \notin OpToRel(<, Nat)
  BY NatLessThanWellFounded, WFMin
<1>2. \A k \in T : ~(k < m) BY <1>1, Zenon DEF OpToRel
<1>3. QED BY <1>2

LEMMA Induction ==
    ASSUME NEW S \in SUBSET Nat, 0 \in S, \A n \in S : n + 1 \in S
    PROVE  S = Nat
<1>1. ASSUME Nat \ S # {} PROVE FALSE
  <2>1. PICK m \in Nat \ S : \A k \in Nat \ S : m <= k BY <1>1, LeastElement
  <2>2. m # 0 /\ m - 1 \in Nat BY <2>1
  <2>3. m - 1 \in S BY <2>1, <2>2
  <2>4. QED BY <2>1, <2>2, <2>3
<1>2. QED BY <1>1

-----------------------------------------------------------------------------
(* The links.                                                              *)

Links == Names \cup {Null}
Cells == [key : Int, value : Values \cup {Null}, next : Links, prev : Links]

(* A heap: the header, and entries that are named by their keys.           *)
IsHeap(h) ==
    /\ h \in [DOMAIN h -> Cells] /\ Header \in DOMAIN h /\ DOMAIN h \subseteq Names
    /\ \A e \in DOMAIN h : h[e].key = e[1]

(* The i-th entry of a list, the header before the first and after the     *)
(* last.                                                                   *)
At(list, i) == IF i \in 1..Len(list) THEN list[i] ELSE Header

IsList(h, list) ==
    /\ list \in Seq(Entries)
    /\ \A i \in 1..Len(list) : list[i] \in DOMAIN h
    /\ \A i, j \in 1..Len(list) : list[i] = list[j] => i = j

Linked(h, list) ==
    /\ IsList(h, list)
    /\ \A i \in 0..Len(list) :
         /\ h[At(list, i)].next = At(list, i + 1)
         /\ h[At(list, i + 1)].prev = At(list, i)

LEMMA NamesDiffer == Header \notin Entries /\ Null \notin Names
BY LinkedMapAssumption DEF Header, Entries, Names

LEMMA ChainLinks ==
    ASSUME NEW h, IsHeap(h), NEW p \in DOMAIN h, NEW n \in DOMAIN h, NEW e \in DOMAIN h,
           e # p, e # n
    PROVE  /\ IsHeap(Chain(h, p, n, e)) /\ DOMAIN Chain(h, p, n, e) = DOMAIN h
           /\ \A x \in DOMAIN h :
                /\ Chain(h, p, n, e)[x].key = h[x].key
                /\ Chain(h, p, n, e)[x].value = h[x].value
                /\ Chain(h, p, n, e)[x].next =
                     IF x = p THEN e ELSE IF x = e THEN n ELSE h[x].next
                /\ Chain(h, p, n, e)[x].prev =
                     IF x = n THEN e ELSE IF x = e THEN p ELSE h[x].prev
<1> DEFINE a == [h EXCEPT ![e].prev = p]
           b == [a EXCEPT ![e].next = n]
           c == [b EXCEPT ![p].next = e]
           d == [c EXCEPT ![n].prev = e]
<1>1. Chain(h, p, n, e) = d BY DEF Chain
<1>2. {p, n, e} \subseteq Links BY DEF IsHeap, Links
<1>3. h \in [DOMAIN h -> Cells] BY DEF IsHeap
<1>4. a \in [DOMAIN h -> Cells] /\ \A x \in DOMAIN h :
        a[x] = IF x = e THEN [h[x] EXCEPT !.prev = p] ELSE h[x]
  BY <1>2, <1>3 DEF Cells
<1> HIDE DEF a
<1>5. b \in [DOMAIN h -> Cells] /\ \A x \in DOMAIN h :
        b[x] = IF x = e THEN [a[x] EXCEPT !.next = n] ELSE a[x]
  BY <1>2, <1>4 DEF Cells
<1> HIDE DEF b
<1>6. c \in [DOMAIN h -> Cells] /\ \A x \in DOMAIN h :
        c[x] = IF x = p THEN [b[x] EXCEPT !.next = e] ELSE b[x]
  BY <1>2, <1>5 DEF Cells
<1> HIDE DEF c
<1>7. d \in [DOMAIN h -> Cells] /\ \A x \in DOMAIN h :
        d[x] = IF x = n THEN [c[x] EXCEPT !.prev = e] ELSE c[x]
  BY <1>2, <1>6 DEF Cells
<1> HIDE DEF d
<1>8. DOMAIN d = DOMAIN h BY <1>7
<1>9. ASSUME NEW x \in DOMAIN h
      PROVE  /\ d[x].key = h[x].key /\ d[x].value = h[x].value
             /\ d[x].next = IF x = p THEN e ELSE IF x = e THEN n ELSE h[x].next
             /\ d[x].prev = IF x = n THEN e ELSE IF x = e THEN p ELSE h[x].prev
  <2>1. h[x] \in Cells /\ a[x] \in Cells /\ b[x] \in Cells /\ c[x] \in Cells
    BY <1>3, <1>4, <1>5, <1>6
  <2>2. d[x].key = h[x].key /\ d[x].value = h[x].value
    BY <1>4, <1>5, <1>6, <1>7, <2>1 DEF Cells
  <2>3. d[x].next = IF x = p THEN e ELSE IF x = e THEN n ELSE h[x].next
    BY <1>4, <1>5, <1>6, <1>7, <2>1 DEF Cells
  <2>4. d[x].prev = IF x = n THEN e ELSE IF x = e THEN p ELSE h[x].prev
    BY <1>4, <1>5, <1>6, <1>7, <2>1 DEF Cells
  <2>5. QED BY <2>2, <2>3, <2>4
<1>10. QED BY <1>1, <1>7, <1>8, <1>9 DEF IsHeap

LEMMA UnchainLinks ==
    ASSUME NEW h, IsHeap(h), NEW e \in DOMAIN h,
           h[e].prev \in DOMAIN h \ {e}, h[e].next \in DOMAIN h \ {e}
    PROVE  /\ IsHeap(Unchain(h, e)) /\ DOMAIN Unchain(h, e) = DOMAIN h
           /\ \A x \in DOMAIN h :
                /\ Unchain(h, e)[x].key = h[x].key
                /\ Unchain(h, e)[x].value = h[x].value
                /\ Unchain(h, e)[x].next =
                     IF x = e THEN Null ELSE IF x = h[e].prev THEN h[e].next ELSE h[x].next
                /\ Unchain(h, e)[x].prev =
                     IF x = e THEN Null ELSE IF x = h[e].next THEN h[e].prev ELSE h[x].prev
<1> DEFINE p == h[e].prev
           n == h[e].next
           a == [h EXCEPT ![p].next = n]
           b == [a EXCEPT ![n].prev = p]
           c == [b EXCEPT ![e].prev = Null]
           d == [c EXCEPT ![e].next = Null]
<1>1. Unchain(h, e) = d BY NamesDiffer DEF Unchain, IsHeap
<1>2. {p, n, Null} \subseteq Links BY DEF IsHeap, Links
<1>3. h \in [DOMAIN h -> Cells] BY DEF IsHeap
<1> p \in DOMAIN h \ {e} /\ n \in DOMAIN h \ {e} OBVIOUS
<1> HIDE DEF p, n
<1>4. a \in [DOMAIN h -> Cells] /\ \A x \in DOMAIN h :
        a[x] = IF x = p THEN [h[x] EXCEPT !.next = n] ELSE h[x]
  BY <1>2, <1>3 DEF Cells
<1> HIDE DEF a
<1>5. b \in [DOMAIN h -> Cells] /\ \A x \in DOMAIN h :
        b[x] = IF x = n THEN [a[x] EXCEPT !.prev = p] ELSE a[x]
  BY <1>2, <1>4 DEF Cells
<1> HIDE DEF b
<1>6. c \in [DOMAIN h -> Cells] /\ \A x \in DOMAIN h :
        c[x] = IF x = e THEN [b[x] EXCEPT !.prev = Null] ELSE b[x]
  BY <1>2, <1>5 DEF Cells
<1> HIDE DEF c
<1>7. d \in [DOMAIN h -> Cells] /\ \A x \in DOMAIN h :
        d[x] = IF x = e THEN [c[x] EXCEPT !.next = Null] ELSE c[x]
  BY <1>2, <1>6 DEF Cells
<1> HIDE DEF d
<1>8. DOMAIN d = DOMAIN h BY <1>7
<1>9. ASSUME NEW x \in DOMAIN h
      PROVE  /\ d[x].key = h[x].key /\ d[x].value = h[x].value
             /\ d[x].next = IF x = e THEN Null ELSE IF x = p THEN n ELSE h[x].next
             /\ d[x].prev = IF x = e THEN Null ELSE IF x = n THEN p ELSE h[x].prev
  <2>1. h[x] \in Cells /\ a[x] \in Cells /\ b[x] \in Cells /\ c[x] \in Cells
    BY <1>3, <1>4, <1>5, <1>6
  <2>2. d[x].key = h[x].key /\ d[x].value = h[x].value
    BY <1>4, <1>5, <1>6, <1>7, <2>1 DEF Cells
  <2>3. d[x].next = IF x = e THEN Null ELSE IF x = p THEN n ELSE h[x].next
    BY <1>4, <1>5, <1>6, <1>7, <2>1 DEF Cells
  <2>4. d[x].prev = IF x = e THEN Null ELSE IF x = n THEN p ELSE h[x].prev
    BY <1>4, <1>5, <1>6, <1>7, <2>1 DEF Cells
  <2>5. QED BY <2>2, <2>3, <2>4
<1>10. QED BY <1>1, <1>7, <1>8, <1>9 DEF IsHeap, p, n

(* A list with one more entry after the first k, and one without its k-th. *)
Insertion(list, k, e) ==
    [i \in 1..Len(list) + 1 |-> IF i <= k THEN list[i]
                                ELSE IF i = k + 1 THEN e ELSE list[i - 1]]
Cut(list, k) == [i \in 1..Len(list) - 1 |-> IF i < k THEN list[i] ELSE list[i + 1]]

LEMMA ListType ==
    ASSUME NEW h, NEW list, IsHeap(h), IsList(h, list)
    PROVE  /\ Len(list) \in Nat /\ DOMAIN list = 1..Len(list)
           /\ \A i \in 1..Len(list) : list[i] \in Entries
           /\ \A i \in Int : At(list, i) \in DOMAIN h
           /\ \A i, j \in 0..Len(list) : At(list, i) = At(list, j) => i = j
           /\ \A i, j \in 1..Len(list) + 1 : At(list, i) = At(list, j) => i = j
BY NamesDiffer DEF IsHeap, IsList, At

LEMMA InsertionType ==
    ASSUME NEW list \in Seq(Entries), NEW k \in 0..Len(list), NEW e \in Entries
    PROVE  /\ Insertion(list, k, e) \in Seq(Entries)
           /\ Len(Insertion(list, k, e)) = Len(list) + 1
           /\ \A i \in Int : At(Insertion(list, k, e), i) =
                IF i <= k THEN At(list, i) ELSE IF i = k + 1 THEN e ELSE At(list, i - 1)
<1> DEFINE new == Insertion(list, k, e)
<1>1. Len(list) \in Nat /\ \A i \in 1..Len(list) : list[i] \in Entries OBVIOUS
<1>2. new \in [1..Len(list) + 1 -> Entries] BY <1>1 DEF Insertion
<1>3. new \in Seq(Entries) /\ Len(new) = Len(list) + 1 BY <1>1, <1>2
<1>4. ASSUME NEW i \in Int
      PROVE  At(new, i) =
               IF i <= k THEN At(list, i) ELSE IF i = k + 1 THEN e ELSE At(list, i - 1)
  <2>1. CASE i \in 1..Len(list) + 1
    <3>1. At(new, i) = IF i <= k THEN list[i] ELSE IF i = k + 1 THEN e ELSE list[i - 1]
      BY <1>1, <1>3, <2>1 DEF At, Insertion
    <3>2. QED BY <1>1, <2>1, <3>1 DEF At
  <2>2. CASE i \notin 1..Len(list) + 1 BY <1>1, <1>3, <2>2 DEF At
  <2>3. QED BY <2>1, <2>2
<1>5. QED BY <1>3, <1>4

LEMMA CutType ==
    ASSUME NEW list \in Seq(Entries), NEW k \in 1..Len(list)
    PROVE  /\ Cut(list, k) \in Seq(Entries) /\ Len(Cut(list, k)) = Len(list) - 1
           /\ \A i \in Int : i < k => At(Cut(list, k), i) = At(list, i)
           /\ \A i \in Int : i >= k => At(Cut(list, k), i) = At(list, i + 1)
<1> DEFINE new == Cut(list, k)
<1>1. Len(list) \in Nat /\ \A i \in 1..Len(list) : list[i] \in Entries OBVIOUS
<1>2. new \in [1..Len(list) - 1 -> Entries] BY <1>1 DEF Cut
<1>3. new \in Seq(Entries) /\ Len(new) = Len(list) - 1 BY <1>1, <1>2
<1>4. ASSUME NEW i \in Int
      PROVE  At(new, i) = IF i < k THEN At(list, i) ELSE At(list, i + 1)
  <2>1. CASE i \in 1..Len(list) - 1
    <3>1. At(new, i) = IF i < k THEN list[i] ELSE list[i + 1]
      BY <1>1, <1>3, <2>1 DEF At, Cut
    <3>2. QED BY <1>1, <2>1, <3>1 DEF At
  <2>2. CASE i \notin 1..Len(list) - 1 BY <1>1, <1>3, <2>2 DEF At
  <2>3. QED BY <2>1, <2>2
<1>5. QED BY <1>3, <1>4

LEMMA ListedIsAt ==
    ASSUME NEW list \in Seq(Entries)
    PROVE  ToSet(list) = {At(list, i) : i \in 1..Len(list)}
BY DEF ToSet, At

(* An entry in no list is chained after the k-th one.                      *)
LEMMA ChainLinked ==
    ASSUME NEW h, NEW list \in Seq(Entries), IsHeap(h), Linked(h, list), NEW k \in 0..Len(list),
           NEW e \in Entries, e \in DOMAIN h, e \notin ToSet(list)
    PROVE  Linked(Chain(h, At(list, k), At(list, k + 1), e), Insertion(list, k, e))
<1> DEFINE p == At(list, k)
           n == At(list, k + 1)
           g == Chain(h, p, n, e)
           new == Insertion(list, k, e)
<1>1. list \in Seq(Entries) /\ Len(list) \in Nat /\ e \in Entries
  BY DEF Linked, IsList, IsHeap, Names
<1>2. p \in DOMAIN h /\ n \in DOMAIN h /\ \A i \in Int : At(list, i) \in DOMAIN h \ {e}
  <2>1. \A i \in Int : At(list, i) \in DOMAIN h BY ListType DEF Linked
  <2>2. \A i \in Int : At(list, i) \in ToSet(list) \cup {Header} BY <1>1 DEF At, ToSet
  <2>3. QED BY <1>1, <2>1, <2>2, NamesDiffer
<1>3. /\ DOMAIN g = DOMAIN h
      /\ \A x \in DOMAIN h :
           /\ g[x].next = IF x = p THEN e ELSE IF x = e THEN n ELSE h[x].next
           /\ g[x].prev = IF x = n THEN e ELSE IF x = e THEN p ELSE h[x].prev
  BY <1>2, ChainLinks
<1> HIDE DEF g, new
<1>4. /\ new \in Seq(Entries) /\ Len(new) = Len(list) + 1
      /\ \A i \in Int : At(new, i) =
           IF i <= k THEN At(list, i) ELSE IF i = k + 1 THEN e ELSE At(list, i - 1)
  <2>1. \A i \in Int : At(Insertion(list, k, e), i) =
          IF i <= k THEN At(list, i) ELSE IF i = k + 1 THEN e ELSE At(list, i - 1)
    BY InsertionType
  <2>2. Insertion(list, k, e) \in Seq(Entries) BY <1>1, InsertionType
  <2>3. Len(Insertion(list, k, e)) = Len(list) + 1 BY <1>1, InsertionType
  <2>4. QED BY <2>1, <2>2, <2>3, Zenon DEF new
<1>5. \A i \in 1..Len(new) : new[i] = At(new, i) BY <1>4 DEF At
<1>6. /\ \A i, j \in 0..Len(list) : At(list, i) = At(list, j) => i = j
      /\ \A i, j \in 1..Len(list) + 1 : At(list, i) = At(list, j) => i = j
  BY ListType DEF Linked
<1>7. IsList(g, new)
  <2>1. \A i \in 1..Len(new) : new[i] \in DOMAIN g BY <1>1, <1>2, <1>3, <1>4, <1>5
  <2>2. ASSUME NEW i \in 1..Len(new), NEW j \in 1..Len(new), new[i] = new[j] PROVE i = j
    <3>1. At(new, i) = At(new, j) BY <1>5, <2>2
    <3>2. CASE i = k + 1 \/ j = k + 1 BY <1>1, <1>2, <1>4, <3>1, <3>2
    <3>3. CASE i # k + 1 /\ j # k + 1
      <4>1. PICK a, b \in 1..Len(list) :
              /\ At(list, a) = At(list, b)
              /\ a = (IF i <= k THEN i ELSE i - 1) /\ b = IF j <= k THEN j ELSE j - 1
        BY <1>1, <1>4, <3>1, <3>3
      <4>2. a = b BY <1>1, <1>6, <4>1
      <4>3. QED BY <3>3, <4>1, <4>2
    <3>4. QED BY <3>2, <3>3
  <2>3. QED BY <1>4, <2>1, <2>2 DEF IsList
<1>8. ASSUME NEW i \in 0..Len(new)
      PROVE  g[At(new, i)].next = At(new, i + 1) /\ g[At(new, i + 1)].prev = At(new, i)
  <2>1. \A j \in 0..Len(list) :
          h[At(list, j)].next = At(list, j + 1) /\ h[At(list, j + 1)].prev = At(list, j)
    BY DEF Linked
  <2>2. CASE i < k
    <3>1. At(new, i) = At(list, i) /\ At(new, i + 1) = At(list, i + 1) /\ i \in 0..Len(list)
      BY <1>1, <1>4, <2>2
    <3>2. At(list, i) # p /\ At(list, i + 1) # n BY <1>1, <1>6, <2>2, <3>1
    <3>3. QED BY <1>2, <1>3, <2>1, <3>1, <3>2
  <2>3. CASE i = k
    <3>1. At(new, i) = p /\ At(new, i + 1) = e BY <1>1, <1>4, <2>3
    <3>2. QED BY <1>2, <1>3, <3>1
  <2>4. CASE i = k + 1
    <3>1. At(new, i) = e /\ At(new, i + 1) = n BY <1>1, <1>4, <2>4
    <3>2. QED BY <1>2, <1>3, <3>1
  <2>5. CASE i > k + 1
    <3>1. At(new, i) = At(list, i - 1) /\ At(new, i + 1) = At(list, i) /\ i - 1 \in 0..Len(list)
          /\ (i - 1) + 1 = i
      BY <1>1, <1>4, <2>5
    <3>2. At(list, i - 1) # p /\ At(list, i) # n BY <1>1, <1>6, <2>5, <3>1
    <3>3. QED BY <1>2, <1>3, <2>1, <3>1, <3>2
  <2>6. QED BY <1>1, <1>4, <2>2, <2>3, <2>4, <2>5
<1>9. QED BY <1>7, <1>8 DEF Linked, g, new

(* The k-th entry is unchained: it has no links afterwards.                *)
LEMMA UnchainLinked ==
    ASSUME NEW h, NEW list \in Seq(Entries), IsHeap(h), Linked(h, list), NEW k \in 1..Len(list)
    PROVE  /\ IsHeap(Unchain(h, list[k])) /\ DOMAIN Unchain(h, list[k]) = DOMAIN h
           /\ Linked(Unchain(h, list[k]), Cut(list, k))
           /\ Unchain(h, list[k])[list[k]].next = Null
           /\ Unchain(h, list[k])[list[k]].prev = Null
           /\ \A x \in DOMAIN h :
                /\ Unchain(h, list[k])[x].key = h[x].key
                /\ Unchain(h, list[k])[x].value = h[x].value
                /\ x \notin ToSet(list) \cup {Header} =>
                     /\ Unchain(h, list[k])[x].next = h[x].next
                     /\ Unchain(h, list[k])[x].prev = h[x].prev
<1> DEFINE e == list[k]
           g == Unchain(h, e)
           new == Cut(list, k)
<1>1. list \in Seq(Entries) /\ Len(list) \in Nat BY DEF Linked, IsList
<1>2. /\ e = At(list, k) /\ e \in DOMAIN h
      /\ h[e].prev = At(list, k - 1) /\ h[e].next = At(list, k + 1)
  <2>1. k - 1 \in 0..Len(list) /\ k \in 0..Len(list) /\ (k - 1) + 1 = k BY <1>1
  <2>2. e = At(list, k) /\ e \in DOMAIN h BY DEF At, Linked, IsList
  <2>3. \A i \in 0..Len(list) :
          h[At(list, i)].next = At(list, i + 1) /\ h[At(list, i + 1)].prev = At(list, i)
    BY DEF Linked
  <2>4. h[At(list, k)].next = At(list, k + 1) /\ h[At(list, (k - 1) + 1)].prev = At(list, k - 1)
    BY <2>1, <2>3
  <2>5. QED BY <2>1, <2>2, <2>4
<1>3. /\ \A i \in Int : At(list, i) \in DOMAIN h
      /\ \A i, j \in 0..Len(list) : At(list, i) = At(list, j) => i = j
      /\ \A i, j \in 1..Len(list) + 1 : At(list, i) = At(list, j) => i = j
  BY ListType DEF Linked
<1>13. k - 1 \in 0..Len(list) /\ k \in 0..Len(list) /\ k \in 1..Len(list) + 1
    /\ k + 1 \in 1..Len(list) + 1
  BY <1>1
<1>4. h[e].prev \in DOMAIN h \ {e} /\ h[e].next \in DOMAIN h \ {e}
  <2>1. At(list, k - 1) \in DOMAIN h /\ At(list, k + 1) \in DOMAIN h BY <1>1, <1>3
  <2>2. At(list, k - 1) # e /\ At(list, k + 1) # e BY <1>1, <1>2, <1>3, <1>13
  <2>3. QED BY <1>2, <2>1, <2>2
<1>5. /\ IsHeap(g) /\ DOMAIN g = DOMAIN h
      /\ \A x \in DOMAIN h :
           /\ g[x].key = h[x].key /\ g[x].value = h[x].value
           /\ g[x].next = IF x = e THEN Null
                          ELSE IF x = At(list, k - 1) THEN At(list, k + 1) ELSE h[x].next
           /\ g[x].prev = IF x = e THEN Null
                          ELSE IF x = At(list, k + 1) THEN At(list, k - 1) ELSE h[x].prev
  BY <1>2, <1>4, UnchainLinks
<1> HIDE DEF e, g, new
<1>12. new \in Seq(Entries) BY CutType DEF new
<1>6. /\ Len(new) = Len(list) - 1 /\ Len(list) \in Nat /\ k \in Int
      /\ \A i \in Int : i < k => At(new, i) = At(list, i)
      /\ \A i \in Int : i >= k => At(new, i) = At(list, i + 1)
  BY <1>1, CutType DEF new
<1>7. \A i \in 1..Len(new) : new[i] = At(new, i) BY DEF At
<1>8. IsList(g, new)
  <2>1. ASSUME NEW i \in 1..Len(new) PROVE new[i] \in DOMAIN g
    <3>1. At(list, i) \in DOMAIN h /\ At(list, i + 1) \in DOMAIN h BY <1>1, <1>3, <1>6
    <3>2. new[i] = At(new, i) /\ i \in Int BY <1>6, <1>7
    <3>4. At(new, i) \in {At(list, i), At(list, i + 1)} BY <1>6, <3>2
    <3>3. QED BY <1>5, <3>1, <3>2, <3>4
  <2>2. ASSUME NEW i \in 1..Len(new), NEW j \in 1..Len(new), new[i] = new[j] PROVE i = j
    <3>1. At(new, i) = At(new, j) BY <1>7, <2>2
    <3> DEFINE a == IF i < k THEN i ELSE i + 1
               b == IF j < k THEN j ELSE j + 1
    <3>2. a \in 1..Len(list) /\ b \in 1..Len(list) /\ At(list, a) = At(list, b)
      <4>1. i \in Int /\ j \in Int /\ k \in Int BY <1>6
      <4>2. At(new, i) = At(list, a)
        <5>1. CASE i < k BY <1>6, <4>1, <5>1
        <5>2. CASE ~(i < k) BY <1>6, <4>1, <5>2
        <5>3. QED BY <5>1, <5>2
      <4>3. At(new, j) = At(list, b)
        <5>1. CASE j < k BY <1>6, <4>1, <5>1
        <5>2. CASE ~(j < k) BY <1>6, <4>1, <5>2
        <5>3. QED BY <5>1, <5>2
      <4>4. a \in 1..Len(list) BY <1>6
      <4>5. b \in 1..Len(list) BY <1>6
      <4>6. QED BY <3>1, <4>2, <4>3, <4>4, <4>5
    <3>3. a = b BY <1>1, <1>3, <3>2
    <3>4. QED BY <3>2, <3>3
  <2>3. QED BY <1>12, <2>1, <2>2 DEF IsList
<1>9. ASSUME NEW i \in 0..Len(new)
      PROVE  g[At(new, i)].next = At(new, i + 1) /\ g[At(new, i + 1)].prev = At(new, i)
  <2>1. \A j \in 0..Len(list) :
          h[At(list, j)].next = At(list, j + 1) /\ h[At(list, j + 1)].prev = At(list, j)
    BY DEF Linked
  <2>2. CASE i < k - 1
    <3>1. At(new, i) = At(list, i) BY <1>6, <2>2
    <3>2. At(new, i + 1) = At(list, i + 1) BY <1>6, <2>2
    <3>3. i \in 0..Len(list) BY <1>6
    <3>4. At(list, i) # At(list, k) /\ At(list, i) # At(list, k - 1)
      BY <1>3, <1>6, <2>2, <3>3
    <3>5. i + 1 \in 1..Len(list) + 1 BY <1>6, <3>3
    <3>8. i + 1 # k /\ i + 1 # k + 1 BY <1>6, <2>2
    <3>6. At(list, i + 1) # At(list, k) /\ At(list, i + 1) # At(list, k + 1)
      BY <1>3, <1>13, <3>5, <3>8
    <3>7. At(list, i) \in DOMAIN h /\ At(list, i + 1) \in DOMAIN h BY <1>3, <1>6
    <3>9. g[At(list, i)].next = h[At(list, i)].next BY <1>2, <1>5, <3>4, <3>7
    <3>10. g[At(list, i + 1)].prev = h[At(list, i + 1)].prev BY <1>2, <1>5, <3>6, <3>7
    <3>11. QED BY <2>1, <3>1, <3>2, <3>3, <3>9, <3>10
  <2>3. CASE i = k - 1
    <3>1. At(new, i) = At(list, k - 1) BY <1>6, <2>3
    <3>2. At(new, i + 1) = At(list, k + 1) BY <1>6, <2>3
    <3>3. QED BY <1>2, <1>3, <1>4, <1>5, <3>1, <3>2
  <2>4. CASE i > k - 1
    <3>1. At(new, i) = At(list, i + 1) BY <1>6, <2>4
    <3>2. At(new, i + 1) = At(list, (i + 1) + 1) BY <1>6, <2>4
    <3>3. i + 1 \in 0..Len(list) BY <1>6
    <3>4. At(list, i + 1) # At(list, k) /\ At(list, i + 1) # At(list, k - 1)
      BY <1>3, <1>6, <1>13, <2>4, <3>3
    <3>5. (i + 1) + 1 \in 1..Len(list) + 1 BY <1>6, <3>3
    <3>6. At(list, (i + 1) + 1) # At(list, k) /\ At(list, (i + 1) + 1) # At(list, k + 1)
      BY <1>3, <1>6, <1>13, <2>4, <3>5
    <3>7. At(list, i + 1) \in DOMAIN h /\ At(list, (i + 1) + 1) \in DOMAIN h BY <1>3, <1>6
    <3>8. g[At(list, i + 1)].next = h[At(list, i + 1)].next BY <1>2, <1>5, <3>4, <3>7
    <3>9. g[At(list, (i + 1) + 1)].prev = h[At(list, (i + 1) + 1)].prev
      BY <1>2, <1>5, <3>6, <3>7
    <3>10. QED BY <2>1, <3>1, <3>2, <3>3, <3>8, <3>9
  <2>5. QED BY <1>1, <1>6, <2>2, <2>3, <2>4
<1>10. ASSUME NEW x \in DOMAIN h, x \notin ToSet(list) \cup {Header}
       PROVE  g[x].next = h[x].next /\ g[x].prev = h[x].prev
  <2>1. \A i \in Int : x # At(list, i) BY <1>1, <1>10, ListedIsAt DEF At
  <2>2. QED BY <1>2, <1>5, <1>10, <2>1
<1>11. QED BY <1>2, <1>5, <1>8, <1>9, <1>10 DEF Linked, e, g, new

-----------------------------------------------------------------------------
(* The list that List walks along.                                         *)

IsWalk(h, f) ==
    f = [e \in DOMAIN h \cup {Null} |->
           IF e \in {Header, Null} THEN <<>> ELSE <<e>> \o f[h[e].next]]

(* The entries of a heap in no list: an entry that was taken out of it has *)
(* no links, and a list that Clear has emptied is left as it was.          *)
Rest(h, list) == DOMAIN h \ (ToSet(list) \cup {Header})
Loose(h, list) ==
    \E f : \A e \in Rest(h, list) :
      /\ h[e].next \in Rest(h, list) \cup {Header, Null}
      /\ f[e] = <<e>> \o (IF h[e].next \in {Header, Null} THEN <<>> ELSE f[h[e].next])

LEMMA Suffix ==
    ASSUME NEW S, NEW list \in Seq(S), NEW i \in 1..Len(list)
    PROVE  SubSeq(list, i, Len(list)) = <<list[i]>> \o SubSeq(list, i + 1, Len(list))
<1> DEFINE n == Len(list)
           a == SubSeq(list, i, n)
           b == SubSeq(list, i + 1, n)
           c == <<list[i]>> \o b
<1>1. n \in Nat /\ i \in Nat /\ i >= 1 /\ i <= n OBVIOUS
<1>2. list[i] \in S OBVIOUS
<1>3. a \in Seq(S) /\ Len(a) = n - i + 1 /\ \A j \in 1..(n - i + 1) : a[j] = list[i + j - 1]
  BY <1>1
<1>4. b \in Seq(S) /\ Len(b) = n - i /\ \A j \in 1..(n - i) : b[j] = list[(i + 1) + j - 1]
  BY <1>1
<1>5. c \in Seq(S) /\ Len(c) = 1 + (n - i)
      /\ \A j \in 1..(1 + (n - i)) : c[j] = IF j <= 1 THEN list[i] ELSE b[j - 1]
  BY <1>2, <1>4
<1> HIDE DEF a, b, c
<1>6. ASSUME NEW j \in 1..Len(a) PROVE a[j] = c[j]
  <2>1. j \in 1..(n - i + 1) /\ j \in 1..(1 + (n - i)) BY <1>1, <1>3
  <2>2. CASE j = 1 BY <1>1, <1>3, <1>5, <2>1, <2>2
  <2>3. CASE j # 1
    <3>1. j - 1 \in 1..(n - i) /\ (i + 1) + (j - 1) - 1 = i + j - 1 BY <1>1, <2>1, <2>3
    <3>2. b[j - 1] = list[i + j - 1] BY <1>4, <3>1
    <3>3. c[j] = b[j - 1] BY <1>1, <1>5, <2>1, <2>3
    <3>4. QED BY <1>3, <2>1, <3>2, <3>3
  <2>4. QED BY <2>2, <2>3
<1>7. a = c
  <2>1. Len(a) = Len(c) BY <1>1, <1>3, <1>5
  <2>2. QED BY <1>3, <1>5, <1>6, <2>1
<1>8. QED BY <1>7 DEF a, b, c

LEMMA WalkExists ==
    ASSUME NEW h, NEW list \in Seq(Entries), IsHeap(h), Linked(h, list), Loose(h, list)
    PROVE  \E f : IsWalk(h, f)
<1>1. PICK g : \A e \in Rest(h, list) :
        /\ h[e].next \in Rest(h, list) \cup {Header, Null}
        /\ g[e] = <<e>> \o (IF h[e].next \in {Header, Null} THEN <<>> ELSE g[h[e].next])
  BY DEF Loose
<1> DEFINE n == Len(list)
           place(e) == CHOOSE i \in 1..n : list[i] = e
           f == [e \in DOMAIN h \cup {Null} |->
                   IF e \in {Header, Null} THEN <<>>
                   ELSE IF e \in ToSet(list) THEN SubSeq(list, place(e), n) ELSE g[e]]
<1>2. ToSet(list) = {list[i] : i \in 1..n} BY DEF ToSet
<1>3. ToSet(list) \subseteq DOMAIN h /\ ToSet(list) \subseteq Entries
  BY <1>2 DEF Linked, IsList
<1>4. Header \notin Entries /\ Null \notin Entries /\ Header \in DOMAIN h /\ Null \notin DOMAIN h
      /\ Header # Null
  BY NamesDiffer DEF IsHeap, Names
<1>5. ASSUME NEW i \in 1..n PROVE place(list[i]) = i
  BY DEF Linked, IsList
<1> HIDE DEF place
<1>6. \A i \in 1..n : f[list[i]] = SubSeq(list, i, n) BY <1>2, <1>3, <1>4, <1>5
<1>7. \A e \in Rest(h, list) : f[e] = g[e] BY <1>4 DEF Rest
<1>8. f[Header] = <<>> /\ f[Null] = <<>> BY <1>4
<1>9. DOMAIN f = DOMAIN h \cup {Null} OBVIOUS
<1> HIDE DEF f
<1>10. ASSUME NEW e \in DOMAIN h \cup {Null}, e \notin {Header, Null}
       PROVE  f[e] = <<e>> \o f[h[e].next]
  <2>1. CASE e \in ToSet(list)
    <3>1. PICK i \in 1..n : e = list[i] BY <1>2, <2>1
    <3>2. h[e].next = At(list, i + 1)
      <4>1. i \in 0..n /\ e = At(list, i) BY <3>1 DEF At
      <4>2. QED BY <4>1 DEF Linked
    <3>3. f[At(list, i + 1)] = SubSeq(list, i + 1, n)
      <4>1. CASE i + 1 \in 1..n BY <1>6, <4>1 DEF At
      <4>2. CASE i + 1 \notin 1..n
        <5>1. i = n BY <4>2
        <5>2. SubSeq(list, n + 1, n) = <<>> OBVIOUS
        <5>3. QED BY <1>8, <4>2, <5>1, <5>2 DEF At
      <4>3. QED BY <4>1, <4>2
    <3>4. f[e] = SubSeq(list, i, n) BY <1>6, <3>1
    <3>5. SubSeq(list, i, n) = <<list[i]>> \o SubSeq(list, i + 1, n) BY Suffix
    <3>6. QED BY <3>1, <3>2, <3>3, <3>4, <3>5
  <2>2. CASE e \notin ToSet(list)
    <3>1. e \in Rest(h, list) BY <1>10, <2>2 DEF Rest
    <3>2. CASE h[e].next \in {Header, Null} BY <1>1, <1>7, <1>8, <3>1, <3>2
    <3>3. CASE h[e].next \notin {Header, Null} BY <1>1, <1>7, <3>1, <3>3
    <3>4. QED BY <3>2, <3>3
  <2>3. QED BY <2>1, <2>2
<1>11. f = [e \in DOMAIN h \cup {Null} |->
              IF e \in {Header, Null} THEN <<>> ELSE <<e>> \o f[h[e].next]]
  <2> DEFINE w == [e \in DOMAIN h \cup {Null} |->
                     IF e \in {Header, Null} THEN <<>> ELSE <<e>> \o f[h[e].next]]
  <2>1. \A e \in DOMAIN h \cup {Null} : f[e] = w[e] BY <1>8, <1>10
  <2>2. f = [e \in DOMAIN h \cup {Null} |-> f[e]] BY <1>9 DEF f
  <2>3. w = [e \in DOMAIN h \cup {Null} |-> w[e]] OBVIOUS
  <2> HIDE DEF w
  <2>4. f = w BY <2>1, <2>2, <2>3
  <2>5. QED BY <2>4 DEF w
<1>12. QED BY <1>11 DEF IsWalk

LEMMA WalkIsList ==
    ASSUME NEW h, NEW list \in Seq(Entries), IsHeap(h), Linked(h, list), NEW f, IsWalk(h, f)
    PROVE  f[h[Header].next] = list
<1> DEFINE n == Len(list)
           Suffices(k) == k <= n => f[At(list, n + 1 - k)] = SubSeq(list, n + 1 - k, n)
<1>1. n \in Nat OBVIOUS
<1>2. Header # Null /\ \A i \in 1..n : list[i] \in DOMAIN h /\ list[i] \notin {Header, Null}
  BY NamesDiffer DEF Linked, IsList, Names, IsHeap
<1>3. f[Header] = <<>> /\ \A i \in 1..n : f[list[i]] = <<list[i]>> \o f[h[list[i]].next]
  BY <1>2 DEF IsWalk, IsHeap
<1>4. Suffices(0)
  <2>1. At(list, n + 1 - 0) = Header BY DEF At
  <2>2. SubSeq(list, n + 1 - 0, n) = <<>> OBVIOUS
  <2>3. QED BY <1>3, <2>1, <2>2
<1>5. ASSUME NEW k \in Nat, Suffices(k) PROVE Suffices(k + 1)
  <2> SUFFICES ASSUME k + 1 <= n
               PROVE  f[At(list, n + 1 - (k + 1))] = SubSeq(list, n + 1 - (k + 1), n)
    OBVIOUS
  <2> DEFINE i == n - k
  <2>1. i \in 1..n /\ n + 1 - (k + 1) = i /\ n + 1 - k = i + 1 BY <1>1
  <2>2. f[At(list, i + 1)] = SubSeq(list, i + 1, n) BY <1>1, <1>5, <2>1
  <2>3. At(list, i) = list[i] BY <2>1 DEF At
  <2>4. h[list[i]].next = At(list, i + 1)
    <3>1. i \in 0..n BY <2>1
    <3>2. QED BY <2>3, <3>1 DEF Linked
  <2>5. SubSeq(list, i, n) = <<list[i]>> \o SubSeq(list, i + 1, n) BY <2>1, Suffix
  <2>6. QED BY <1>3, <2>1, <2>2, <2>3, <2>4, <2>5
<1> HIDE DEF Suffices
<1>6. \A k \in Nat : Suffices(k)
  <2> DEFINE S == {k \in Nat : Suffices(k)}
  <2>1. 0 \in S /\ \A k \in S : k + 1 \in S BY <1>4, <1>5
  <2> HIDE DEF S
  <2>3. S \in SUBSET Nat BY DEF S
  <2>4. S = Nat BY <2>1, <2>3, Induction
  <2>5. QED BY <2>4 DEF S
<1>7. f[At(list, 1)] = SubSeq(list, 1, n)
  <2>1. n <= n /\ n + 1 - n = 1 BY <1>1
  <2>2. QED BY <1>1, <1>6, <2>1 DEF Suffices
<1>8. h[Header].next = At(list, 1)
  <2>1. 0 \in 0..n /\ At(list, 0) = Header /\ 0 + 1 = 1 BY <1>1 DEF At
  <2>2. QED BY <2>1 DEF Linked
<1>9. SubSeq(list, 1, n) = list OBVIOUS
<1>10. QED BY <1>7, <1>8, <1>9

LEMMA ListIs ==
    ASSUME NEW m, NEW list \in Seq(Entries), IsHeap(m.heap), Linked(m.heap, list),
           Loose(m.heap, list)
    PROVE  List(m) = list
<1> DEFINE h == m.heap
           walk == CHOOSE f : IsWalk(h, f)
<1>1. IsWalk(h, walk) BY WalkExists
<1>2. walk[h[Header].next] = list BY <1>1, WalkIsList
<1>3. List(m) = walk[h[Header].next] BY DEF List, ListFrom, IsWalk
<1>4. QED BY <1>2, <1>3

-----------------------------------------------------------------------------
(* What a map is between two methods, and what a method leaves of it.      *)

Heaps == UNION {[D -> Cells] : D \in SUBSET Names}
Maps  == [table : Seq(SUBSET Entries), heap : Heaps, count : Int]

Hashed(m) ==
    /\ Len(m.table) # 0
    /\ \A b \in 1..Len(m.table) : \A e \in m.table[b] :
         e \in DOMAIN m.heap /\ BucketOf(m, m.heap[e].key) = b
OneEach(m) == \A e, f \in Chained(m) : m.heap[e].key = m.heap[f].key => e = f
Counted(m) == IsFiniteSet(Chained(m)) /\ m.count = Cardinality(Chained(m))
IsMap(m)   == m \in Maps /\ IsHeap(m.heap) /\ Hashed(m) /\ OneEach(m) /\ Counted(m)

(* The entries of the table are those of the list, and in one of the       *)
(* classes others that have no links.                                      *)
Placed(m, list) ==
    /\ ToSet(list) \subseteq Chained(m)
    /\ \A e \in Chained(m) \ ToSet(list) :
         IsInt /\ m.heap[e].prev = Null /\ m.heap[e].next = Null
Threads(m, list) ==
    list \in Seq(Entries) /\ Linked(m.heap, list) /\ Loose(m.heap, list) /\ Placed(m, list)
Sound(m, list) == IsMap(m) /\ Threads(m, list)

LEMMA HeapIsOne == ASSUME NEW h, IsHeap(h) PROVE h \in Heaps
BY DEF IsHeap, Heaps

LEMMA HeapKeys ==
    ASSUME NEW h, IsHeap(h), NEW e \in DOMAIN h
    PROVE  h[e].key \in Int /\ (e \in Entries => h[e].key \in Keys)
BY DEF IsHeap, Cells, Entries

LEMMA HashType == ASSUME kind \in Kinds, NEW key \in Int PROVE HashOf(key) \in Int
<1>1. MaxInt + 1 \in Nat \ {0} BY LinkedMapAssumption
<1>2. 2 * (MaxInt + 1) \in Nat \ {0} /\ 4 * (MaxInt + 1) * (MaxInt + 1) \in Nat \ {0}
  BY <1>1
<1>3. kind \in {"IntKeyLinkedMap", "StringKeyLinkedMap", "IntLinkedSet"}
  BY LinkedMapAssumption
<1>4. QED BY <1>1, <1>2, <1>3 DEF HashOf

LEMMA BucketExists ==
    ASSUME kind \in Kinds, NEW m, Len(m.table) \in Nat \ {0}, NEW key \in Int
    PROVE  BucketOf(m, key) \in 1..Len(m.table)
<1>1. \A x \in Int, n \in Nat \ {0} : (x % n) + 1 \in 1..n OBVIOUS
<1>2. HashOf(key) \in Int BY HashType
<1>3. QED BY <1>1, <1>2 DEF BucketOf

LEMMA ChainedIs ==
    ASSUME NEW m, m \in Maps
    PROVE  /\ Len(m.table) \in Nat /\ DOMAIN m.table = 1..Len(m.table)
           /\ Chained(m) = UNION {m.table[b] : b \in 1..Len(m.table)}
           /\ Chained(m) \subseteq Entries
BY DEF Maps, Chained

LEMMA FindIs ==
    ASSUME kind \in Kinds, NEW m, IsMap(m), NEW key \in Int
    PROVE  /\ Has(m, key) <=> \E e \in Chained(m) : m.heap[e].key = key
           /\ Has(m, key) => /\ Find(m, key) \in Chained(m) /\ m.heap[Find(m, key)].key = key
                             /\ Find(m, key) \in m.table[BucketOf(m, key)]
<1>1. m \in Maps /\ Hashed(m) BY DEF IsMap
<1>2. BucketOf(m, key) \in 1..Len(m.table) BY <1>1, BucketExists, ChainedIs DEF Hashed
<1>3. InBucket(m, key) = {e \in Chained(m) : m.heap[e].key = key}
  BY <1>1, <1>2, ChainedIs DEF InBucket, Hashed
<1>4. Has(m, key) => Find(m, key) \in InBucket(m, key) BY DEF Has, Find
<1>5. QED BY <1>3, <1>4 DEF Has, InBucket

LEMMA SetValue ==
    ASSUME NEW h, IsHeap(h), NEW e \in DOMAIN h, NEW v \in Values \cup {Null}
    PROVE  /\ IsHeap([h EXCEPT ![e].value = v]) /\ DOMAIN [h EXCEPT ![e].value = v] = DOMAIN h
           /\ \A x \in DOMAIN h :
                /\ [h EXCEPT ![e].value = v][x].key = h[x].key
                /\ [h EXCEPT ![e].value = v][x].next = h[x].next
                /\ [h EXCEPT ![e].value = v][x].prev = h[x].prev
                /\ [h EXCEPT ![e].value = v][x].value = IF x = e THEN v ELSE h[x].value
<1> DEFINE g == [h EXCEPT ![e].value = v]
<1>1. h \in [DOMAIN h -> Cells] BY DEF IsHeap
<1>2. g \in [DOMAIN h -> Cells] /\ \A x \in DOMAIN h :
        g[x] = IF x = e THEN [h[x] EXCEPT !.value = v] ELSE h[x]
  BY <1>1 DEF Cells
<1> HIDE DEF g
<1>3. \A x \in DOMAIN h : /\ g[x].key = h[x].key /\ g[x].next = h[x].next
                          /\ g[x].prev = h[x].prev
                          /\ g[x].value = IF x = e THEN v ELSE h[x].value
  BY <1>1, <1>2 DEF Cells
<1>4. IsHeap(g) /\ DOMAIN g = DOMAIN h BY <1>2, <1>3 DEF IsHeap
<1>5. QED BY <1>3, <1>4 DEF g

(* Links that are as they were thread the same list.                       *)
LEMMA SameLinks ==
    ASSUME NEW h, NEW g, NEW list \in Seq(Entries), IsHeap(h), Linked(h, list), Loose(h, list),
           DOMAIN g = DOMAIN h,
           \A x \in DOMAIN h : g[x].next = h[x].next /\ g[x].prev = h[x].prev
    PROVE  Linked(g, list) /\ Loose(g, list)
<1>1. IsList(g, list) BY DEF Linked, IsList
<1>2. \A i \in Int : At(list, i) \in DOMAIN h BY ListType DEF Linked
<1>3. ASSUME NEW i \in 0..Len(list)
      PROVE  g[At(list, i)].next = At(list, i + 1) /\ g[At(list, i + 1)].prev = At(list, i)
  <2>1. At(list, i) \in DOMAIN h /\ At(list, i + 1) \in DOMAIN h BY <1>2
  <2>2. QED BY <2>1 DEF Linked
<1>4. Linked(g, list) BY <1>1, <1>3 DEF Linked
<1>5. Rest(g, list) = Rest(h, list) /\ Rest(h, list) \subseteq DOMAIN h BY DEF Rest
<1>6. Loose(g, list) BY <1>5 DEF Loose
<1>7. QED BY <1>4, <1>6

(* An entry that leaves the list has no links; the others are not touched. *)
LEMMA StillLoose ==
    ASSUME NEW h, NEW g, NEW list, NEW new, Loose(h, list),
           Rest(h, list) \subseteq Rest(g, new),
           \A x \in Rest(h, list) : g[x].next = h[x].next,
           \A x \in Rest(g, new) \ Rest(h, list) : g[x].next = Null
    PROVE  Loose(g, new)
<1>1. PICK f : \A e \in Rest(h, list) :
        /\ h[e].next \in Rest(h, list) \cup {Header, Null}
        /\ f[e] = <<e>> \o (IF h[e].next \in {Header, Null} THEN <<>> ELSE f[h[e].next])
  BY DEF Loose
<1> DEFINE k == [x \in Rest(g, new) |-> IF x \in Rest(h, list) THEN f[x] ELSE <<x>> \o <<>>]
<1>2. ASSUME NEW e \in Rest(g, new)
      PROVE  /\ g[e].next \in Rest(g, new) \cup {Header, Null}
             /\ k[e] = <<e>> \o (IF g[e].next \in {Header, Null} THEN <<>> ELSE k[g[e].next])
  <2>1. CASE e \notin Rest(h, list) BY <2>1
  <2>2. CASE e \in Rest(h, list)
    <3>1. g[e].next = h[e].next /\ k[e] = f[e] BY <2>2
    <3>2. h[e].next \in Rest(h, list) => k[h[e].next] = f[h[e].next] OBVIOUS
    <3>3. QED BY <1>1, <2>2, <3>1, <3>2
  <2>3. QED BY <2>1, <2>2
<1>3. QED BY <1>2 DEF Loose

-----------------------------------------------------------------------------
(* remove.                                                                 *)

(* A list without an entry.                                                *)
Without(list, e) ==
    IF e \in ToSet(list) THEN Cut(list, CHOOSE k \in 1..Len(list) : list[k] = e) ELSE list

LEMMA WithoutCut ==
    ASSUME NEW list \in Seq(Entries), NEW e \in ToSet(list)
    PROVE  \E k \in 1..Len(list) : list[k] = e /\ Without(list, e) = Cut(list, k)
<1> DEFINE k == CHOOSE i \in 1..Len(list) : list[i] = e
<1>1. DOMAIN list = 1..Len(list) OBVIOUS
<1>2. \E i \in 1..Len(list) : list[i] = e BY <1>1 DEF ToSet
<1>3. k \in 1..Len(list) /\ list[k] = e BY <1>2
<1>4. Without(list, e) = Cut(list, k) BY DEF Without
<1>5. QED BY <1>3, <1>4

LEMMA WithoutIs ==
    ASSUME NEW h, NEW list \in Seq(Entries), IsList(h, list), NEW e
    PROVE  /\ Without(list, e) \in Seq(Entries)
           /\ ToSet(Without(list, e)) = ToSet(list) \ {e}
<1>1. CASE e \notin ToSet(list) BY <1>1 DEF Without
<1>2. CASE e \in ToSet(list)
  <2>1. PICK k \in 1..Len(list) : list[k] = e /\ Without(list, e) = Cut(list, k)
    BY <1>2, WithoutCut
  <2> DEFINE new == Cut(list, k)
             n == Len(list)
  <2>2. n \in Nat /\ k \in Int OBVIOUS
  <2>3. /\ new \in Seq(Entries) /\ Len(new) = n - 1 BY CutType
  <2>4. DOMAIN new = 1..(n - 1)
        /\ \A i \in 1..(n - 1) : new[i] = IF i < k THEN list[i] ELSE list[i + 1]
    BY <2>2 DEF Cut
  <2>5. \A i, j \in 1..n : list[i] = list[j] => i = j BY DEF IsList
  <2>6. ToSet(list) = {list[i] : i \in 1..n} BY DEF ToSet
  <2> HIDE DEF new
  <2>7. ToSet(new) = {new[i] : i \in 1..(n - 1)} BY <2>4 DEF ToSet
  <2>8. ASSUME NEW i \in 1..(n - 1) PROVE new[i] \in ToSet(list) \ {e}
    <3>1. CASE i < k
      <4>1. i \in 1..n /\ i # k BY <2>2, <3>1
      <4>2. QED BY <2>1, <2>4, <2>5, <2>6, <3>1, <4>1
    <3>2. CASE ~(i < k)
      <4>1. i + 1 \in 1..n /\ i + 1 # k BY <2>2, <3>2
      <4>2. QED BY <2>1, <2>4, <2>5, <2>6, <3>2, <4>1
    <3>3. QED BY <3>1, <3>2
  <2>9. ASSUME NEW x \in ToSet(list) \ {e} PROVE x \in ToSet(new)
    <3>1. PICK j \in 1..n : x = list[j] BY <2>6
    <3>2. j # k BY <2>1, <3>1
    <3>3. CASE j < k
      <4>1. j \in 1..(n - 1) BY <2>2, <3>3
      <4>2. QED BY <2>4, <2>7, <3>1, <3>3, <4>1
    <3>4. CASE j > k
      <4>1. j - 1 \in 1..(n - 1) /\ ~(j - 1 < k) /\ (j - 1) + 1 = j BY <2>2, <3>4
      <4>2. QED BY <2>4, <2>7, <3>1, <4>1
    <3>5. QED BY <2>2, <3>2, <3>3, <3>4
  <2>10. ToSet(new) = ToSet(list) \ {e} BY <2>7, <2>8, <2>9
  <2>11. QED BY <2>1, <2>3, <2>10 DEF new
<1>3. QED BY <1>1, <1>2

(* An entry that is unchained, or has no links, is in no list then.        *)
LEMMA UnchainThreads ==
    ASSUME NEW h, NEW list \in Seq(Entries), IsHeap(h), Linked(h, list), NEW e \in DOMAIN h,
           e \in ToSet(list) \/ (e # Header /\ h[e].prev = Null /\ h[e].next = Null)
    PROVE  /\ IsHeap(Unchain(h, e)) /\ DOMAIN Unchain(h, e) = DOMAIN h
           /\ Linked(Unchain(h, e), Without(list, e))
           /\ Unchain(h, e)[e].next = Null /\ Unchain(h, e)[e].prev = Null
           /\ \A x \in DOMAIN h :
                /\ Unchain(h, e)[x].key = h[x].key
                /\ Unchain(h, e)[x].value = h[x].value
                /\ x \notin ToSet(list) \cup {Header} =>
                     /\ Unchain(h, e)[x].next = h[x].next
                     /\ Unchain(h, e)[x].prev = h[x].prev
<1>1. CASE e \in ToSet(list)
  <2>1. PICK k \in 1..Len(list) : list[k] = e /\ Without(list, e) = Cut(list, k)
    BY <1>1, WithoutCut
  <2>2. QED BY <2>1, UnchainLinked
<1>2. CASE e \notin ToSet(list) /\ h[e].prev = Null /\ h[e].next = Null
  <2>1. Unchain(h, e) = h /\ Without(list, e) = list BY <1>2 DEF Unchain, Without
  <2>2. QED BY <1>2, <2>1
<1>3. ASSUME e \in ToSet(list) PROVE e # Header
  BY <1>3, NamesDiffer DEF ToSet
<1>4. QED BY <1>1, <1>2

(* Of the table, remove takes the one entry.                               *)
LEMMA TableLoses ==
    ASSUME kind \in Kinds, NEW m, IsMap(m), NEW e \in Chained(m), NEW h, IsHeap(h),
           DOMAIN h = DOMAIN m.heap, \A x \in DOMAIN h : h[x].key = m.heap[x].key,
           NEW r, r = [table |-> [m.table EXCEPT ![BucketOf(m, m.heap[e].key)] = @ \ {e}],
                       heap |-> h, count |-> m.count - 1]
    PROVE  IsMap(r) /\ Chained(r) = Chained(m) \ {e}
<1> DEFINE b == BucketOf(m, m.heap[e].key)
           n == Len(m.table)
<1>1. /\ m \in Maps /\ n \in Nat \ {0} /\ m.table \in Seq(SUBSET Entries) /\ m.count \in Int
      /\ \A c \in 1..n : \A x \in m.table[c] :
           x \in DOMAIN m.heap /\ BucketOf(m, m.heap[x].key) = c
  BY ChainedIs DEF IsMap, Hashed, Maps
<1>2. Chained(m) = UNION {m.table[c] : c \in 1..n} BY <1>1, ChainedIs
<1>3. b \in 1..n /\ e \in m.table[b] /\ \A c \in 1..n : e \in m.table[c] => c = b
  BY <1>1, <1>2
<1> HIDE DEF b
<1>4. /\ r.table \in Seq(SUBSET Entries) /\ Len(r.table) = n
      /\ \A c \in 1..n : r.table[c] = IF c = b THEN m.table[b] \ {e} ELSE m.table[c]
  BY <1>1, <1>3 DEF b
<1>5. r.heap = h /\ r.count = m.count - 1 OBVIOUS
<1>6. r \in Maps BY <1>1, <1>4, HeapIsOne DEF Maps
<1>7. Chained(r) = UNION {r.table[c] : c \in 1..n} BY <1>4, <1>6, ChainedIs
<1>8. Chained(r) = Chained(m) \ {e}
  <2>1. ASSUME NEW x \in Chained(r) PROVE x \in Chained(m) /\ x # e
    <3>1. PICK c \in 1..n : x \in r.table[c] BY <1>7
    <3>2. x \in m.table[c] /\ (c = b => x # e) BY <1>4, <3>1
    <3>3. QED BY <1>2, <1>3, <3>2
  <2>2. ASSUME NEW x \in Chained(m), x # e PROVE x \in Chained(r)
    <3>1. PICK c \in 1..n : x \in m.table[c] BY <1>2
    <3>2. x \in r.table[c] BY <1>4, <2>2, <3>1
    <3>3. QED BY <1>7, <3>2
  <2>3. QED BY <2>1, <2>2
<1>9. \A key : BucketOf(r, key) = BucketOf(m, key) BY <1>4 DEF BucketOf
<1>10. Hashed(r)
  <2>1. \A c \in 1..n : r.table[c] \subseteq m.table[c] BY <1>4
  <2>2. ASSUME NEW c \in 1..n, NEW x \in r.table[c]
        PROVE  x \in DOMAIN h /\ BucketOf(r, h[x].key) = c
    <3>1. x \in m.table[c] BY <2>1
    <3>2. QED BY <1>1, <1>9, <3>1
  <2>3. QED BY <1>1, <1>4, <1>5, <2>2 DEF Hashed
<1>11. \A x \in Chained(m) : x \in DOMAIN m.heap BY <1>1, <1>2
<1>12. OneEach(r) BY <1>5, <1>8, <1>11 DEF OneEach, IsMap
<1>13. Counted(r)
  <2>1. IsFiniteSet(Chained(m)) /\ m.count = Cardinality(Chained(m)) BY DEF IsMap, Counted
  <2>2. QED BY <1>5, <1>8, <2>1, FS_RemoveElement DEF Counted
<1>14. QED BY <1>5, <1>6, <1>8, <1>10, <1>12, <1>13 DEF IsMap

(* remove takes the entry of its key out of the table and the list.        *)
LEMMA RemoveSound ==
    ASSUME kind \in Kinds, NEW m, NEW list, Sound(m, list), NEW key \in Int, Has(m, key)
    PROVE  /\ Sound(Remove1(m, key), Without(list, Find(m, key)))
           /\ Chained(Remove1(m, key)) = Chained(m) \ {Find(m, key)}
           /\ Remove1(m, key).count = m.count - 1
           /\ DOMAIN Remove1(m, key).heap = DOMAIN m.heap
           /\ \A x \in DOMAIN m.heap :
                /\ Remove1(m, key).heap[x].key = m.heap[x].key
                /\ x # Find(m, key) => Remove1(m, key).heap[x].value = m.heap[x].value
<1> DEFINE e == Find(m, key)
           h == m.heap
           v == [h EXCEPT ![e].value = Null]
           g == Unchain(v, e)
           r == Remove1(m, key)
           new == Without(list, e)
<1>1. /\ IsMap(m) /\ IsHeap(h) /\ list \in Seq(Entries) /\ Linked(h, list) /\ Loose(h, list)
      /\ Placed(m, list)
  BY DEF Sound, IsMap, Threads
<1>2. e \in Chained(m) /\ h[e].key = key BY <1>1, FindIs
<1>3. Chained(m) \subseteq DOMAIN h \ {Header}
  <2>1. m \in Maps /\ Hashed(m) BY <1>1 DEF IsMap
  <2>2. QED BY <2>1, ChainedIs, NamesDiffer DEF Hashed
<1>4. r = [table |-> [m.table EXCEPT ![BucketOf(m, h[e].key)] = @ \ {e}],
           heap |-> g, count |-> m.count - 1]
  BY <1>2 DEF Remove1
<1> HIDE DEF e, r
<1>5. /\ IsHeap(v) /\ DOMAIN v = DOMAIN h
      /\ \A x \in DOMAIN h :
           /\ v[x].key = h[x].key /\ v[x].next = h[x].next /\ v[x].prev = h[x].prev
           /\ x # e => v[x].value = h[x].value
  <2>1. e \in DOMAIN h /\ Null \in Values \cup {Null} BY <1>2, <1>3
  <2>2. QED BY <1>1, <2>1, SetValue
<1> HIDE DEF v
<1>6. Linked(v, list) BY <1>1, <1>5, SameLinks
<1>7. e \in ToSet(list) \/ (e # Header /\ v[e].prev = Null /\ v[e].next = Null)
  <2>1. e # Header /\ v[e].prev = h[e].prev /\ v[e].next = h[e].next BY <1>2, <1>3, <1>5
  <2>2. \A x \in Chained(m) \ ToSet(list) : h[x].prev = Null /\ h[x].next = Null
    BY <1>1 DEF Placed
  <2>3. e \notin ToSet(list) => h[e].prev = Null /\ h[e].next = Null BY <1>2, <2>2
  <2>4. QED BY <2>1, <2>3
<1>8. /\ IsHeap(g) /\ DOMAIN g = DOMAIN h /\ Linked(g, new)
      /\ g[e].next = Null /\ g[e].prev = Null
      /\ \A x \in DOMAIN h :
           /\ g[x].key = h[x].key
           /\ x # e => g[x].value = h[x].value
           /\ x \notin ToSet(list) \cup {Header} => g[x].next = h[x].next /\ g[x].prev = h[x].prev
  <2>1. IsHeap(v) /\ list \in Seq(Entries) /\ Linked(v, list) /\ e \in DOMAIN v
    BY <1>1, <1>2, <1>3, <1>5, <1>6
  <2>2. /\ IsHeap(g) /\ DOMAIN g = DOMAIN v /\ Linked(g, new)
        /\ g[e].next = Null /\ g[e].prev = Null
    BY <1>7, <2>1, UnchainThreads
  <2>3. \A x \in DOMAIN v :
           /\ g[x].key = v[x].key /\ g[x].value = v[x].value
           /\ x \notin ToSet(list) \cup {Header} => g[x].next = v[x].next /\ g[x].prev = v[x].prev
    BY <1>7, <2>1, UnchainThreads
  <2> HIDE DEF g, new
  <2>4. QED BY <1>5, <2>2, <2>3
<1> HIDE DEF g
<1>9. new \in Seq(Entries) /\ ToSet(new) = ToSet(list) \ {e}
  BY <1>1, WithoutIs DEF Linked
<1> HIDE DEF new
<1>10. IsMap(r) /\ Chained(r) = Chained(m) \ {e} BY <1>1, <1>2, <1>4, <1>8, TableLoses
<1>11. Loose(g, new)
  <2>1. Rest(h, list) \subseteq Rest(g, new) BY <1>8, <1>9 DEF Rest
  <2>2. \A x \in Rest(h, list) : g[x].next = h[x].next BY <1>8 DEF Rest
  <2>3. \A x \in Rest(g, new) \ Rest(h, list) : g[x].next = Null BY <1>8, <1>9 DEF Rest
  <2>4. QED BY <1>1, <2>1, <2>2, <2>3, StillLoose
<1>12. r.heap = g /\ r.count = m.count - 1 BY <1>4
<1>13. Placed(r, new)
  <2>1. ASSUME NEW x \in Chained(r) \ ToSet(new)
        PROVE  IsInt /\ r.heap[x].prev = Null /\ r.heap[x].next = Null
    <3>1. x \in Chained(m) /\ x # e /\ x \notin ToSet(list) BY <1>9, <1>10
    <3>2. IsInt /\ h[x].prev = Null /\ h[x].next = Null BY <1>1, <3>1 DEF Placed
    <3>3. QED BY <1>3, <1>8, <1>12, <3>1, <3>2
  <2>2. ToSet(new) \subseteq Chained(r) BY <1>1, <1>9, <1>10 DEF Placed
  <2>3. QED BY <2>1, <2>2 DEF Placed
<1>14. Sound(r, new) BY <1>8, <1>9, <1>10, <1>11, <1>12, <1>13 DEF Sound, Threads
<1>15. QED BY <1>8, <1>10, <1>12, <1>14 DEF e, r, new, g

-----------------------------------------------------------------------------
(* What put drops.                                                         *)

(* A list without the i entries at the end that mode does not put at.      *)
Kept(list, i, mode) ==
    [j \in 1..Len(list) - i |-> IF mode = "FORCE_FIRST" THEN list[j] ELSE list[j + i]]
End(list, mode) == IF mode = "FORCE_FIRST" THEN list[Len(list)] ELSE list[1]

LEMMA KeptType ==
    ASSUME NEW list \in Seq(Entries), NEW i \in 0..Len(list), NEW mode
    PROVE  /\ Kept(list, i, mode) \in Seq(Entries) /\ Len(Kept(list, i, mode)) = Len(list) - i
           /\ ToSet(Kept(list, i, mode)) \subseteq ToSet(list)
<1> DEFINE n == Len(list)
           k == Kept(list, i, mode)
<1>1. n \in Nat /\ n - i \in Nat /\ i \in Nat OBVIOUS
<1>2. \A j \in 1..n : list[j] \in Entries OBVIOUS
<1>3. ASSUME NEW j \in 1..n - i PROVE j \in 1..n /\ j + i \in 1..n
  BY <1>1
<1>4. k \in [1..n - i -> Entries] BY <1>2, <1>3 DEF Kept
<1>5. k \in Seq(Entries) /\ Len(k) = n - i BY <1>1, <1>4
<1>6. ToSet(list) = {list[j] : j \in 1..n} BY DEF ToSet
<1>7. ASSUME NEW j \in 1..n - i PROVE k[j] \in ToSet(list) BY <1>3, <1>6 DEF Kept
<1>8. DOMAIN k = 1..n - i BY DEF Kept
<1> HIDE DEF k
<1>9. ToSet(k) \subseteq ToSet(list) BY <1>7, <1>8 DEF ToSet
<1>10. QED BY <1>5, <1>9 DEF k

LEMMA KeptFewer ==
    ASSUME NEW h, NEW list \in Seq(Entries), NEW i \in 0..Len(list), i < Len(list), NEW mode,
           IsList(h, Kept(list, i, mode))
    PROVE  Without(Kept(list, i, mode), End(Kept(list, i, mode), mode)) = Kept(list, i + 1, mode)
<1> DEFINE n == Len(list)
           a == Kept(list, i, mode)
           b == Kept(list, i + 1, mode)
           last == IF mode = "FORCE_FIRST" THEN n - i ELSE 1
<1>1. n \in Nat /\ i \in Nat /\ n - i >= 1 /\ n - (i + 1) = (n - i) - 1 OBVIOUS
<1>2. a \in Seq(Entries) /\ Len(a) = n - i BY KeptType
<1>3. \A j \in 1..n - i : a[j] = IF mode = "FORCE_FIRST" THEN list[j] ELSE list[j + i]
  BY DEF Kept
<1>4. b = [j \in 1..(n - i) - 1 |-> IF mode = "FORCE_FIRST" THEN list[j] ELSE list[j + (i + 1)]]
  BY <1>1 DEF Kept
<1>5. last \in 1..n - i BY <1>1
<1> HIDE DEF a, b
<1>6. End(a, mode) = a[last] BY <1>2 DEF End
<1>7. a[last] \in ToSet(a)
  <2>1. DOMAIN a = 1..n - i BY <1>2
  <2>2. QED BY <1>5, <2>1 DEF ToSet
<1>8. PICK k \in 1..n - i : a[k] = a[last] /\ Without(a, a[last]) = Cut(a, k)
  BY <1>2, <1>7, WithoutCut
<1>9. k = last BY <1>2, <1>5, <1>8 DEF IsList, a
<1>10. Cut(a, last) = [j \in 1..(n - i) - 1 |-> IF j < last THEN a[j] ELSE a[j + 1]]
  BY <1>2 DEF Cut
<1>11. ASSUME NEW j \in 1..(n - i) - 1
       PROVE  (IF j < last THEN a[j] ELSE a[j + 1]) =
                IF mode = "FORCE_FIRST" THEN list[j] ELSE list[j + (i + 1)]
  <2>1. j \in 1..n - i /\ j + 1 \in 1..n - i /\ (j + 1) + i = j + (i + 1) BY <1>1
  <2>2. CASE mode = "FORCE_FIRST"
    <3>1. j < last BY <1>1, <2>2
    <3>2. QED BY <1>3, <2>1, <2>2, <3>1
  <2>3. CASE mode # "FORCE_FIRST"
    <3>1. ~(j < last) BY <2>3
    <3>2. a[j + 1] = list[(j + 1) + i] BY <1>3, <2>1, <2>3
    <3>3. QED BY <2>1, <2>3, <3>1, <3>2
  <2>4. QED BY <2>2, <2>3
<1>12. Cut(a, last) = b BY <1>4, <1>10, <1>11
<1>13. QED BY <1>6, <1>8, <1>9, <1>12 DEF a, b

(* A map without unlisted entries has as many as its list.                 *)
LEMMA LengthIs ==
    ASSUME NEW h, NEW list \in Seq(Entries), IsList(h, list)
    PROVE  Cardinality(ToSet(list)) = Len(list) /\ IsFiniteSet(ToSet(list))
<1> DEFINE n == Len(list)
<1>1. n \in Nat /\ DOMAIN list = 1..n OBVIOUS
<1>2. IsFiniteSet(1..n) /\ Cardinality(1..n) = n BY <1>1, FS_Interval
<1>3. ToSet(list) = {list[i] : i \in 1..n} BY <1>1 DEF ToSet
<1>4. list \in [1..n -> ToSet(list)] BY <1>1, <1>3
<1>5. list \in Surjection(1..n, ToSet(list)) BY <1>3, <1>4 DEF Surjection
<1>6. list \in Injection(1..n, ToSet(list)) BY <1>4 DEF Injection, IsInjective, IsList
<1>7. QED BY <1>2, <1>5, <1>6, FS_Surjection

LEMMA CountIsLength ==
    ASSUME NEW m, NEW list, Sound(m, list), ~IsInt
    PROVE  Chained(m) = ToSet(list) /\ m.count = Len(list) /\ Len(list) \in Nat
<1>1. Chained(m) = ToSet(list) BY DEF Sound, Threads, Placed
<1>2. list \in Seq(Entries) /\ IsList(m.heap, list) BY DEF Sound, Threads, Linked
<1>3. QED BY <1>1, <1>2, LengthIs DEF Sound, IsMap, Counted

LEMMA FindListed ==
    ASSUME kind \in Kinds, NEW m, NEW list, Sound(m, list), NEW e \in ToSet(list)
    PROVE  /\ m.heap[e].key \in Int /\ Has(m, m.heap[e].key)
           /\ Find(m, m.heap[e].key) = e
<1>1. IsMap(m) /\ e \in Chained(m) BY DEF Sound, Threads, Placed
<1>2. e \in DOMAIN m.heap BY <1>1, ChainedIs DEF IsMap, Hashed
<1>3. m.heap[e].key \in Int BY <1>1, <1>2, HeapKeys DEF IsMap
<1>4. Has(m, m.heap[e].key) BY <1>1, <1>3, FindIs
<1>5. Find(m, m.heap[e].key) \in Chained(m)
      /\ m.heap[Find(m, m.heap[e].key)].key = m.heap[e].key
  BY <1>1, <1>3, <1>4, FindIs
<1>6. QED BY <1>1, <1>3, <1>4, <1>5 DEF IsMap, OneEach

(* What a method that takes entries out of a map leaves of the others.     *)
Less(r, m) ==
    /\ DOMAIN r.heap = DOMAIN m.heap
    /\ \A x \in DOMAIN m.heap : r.heap[x].key = m.heap[x].key
    /\ \A x \in Chained(r) : r.heap[x].value = m.heap[x].value
    /\ Chained(r) \subseteq Chained(m)

LEMMA DropEndSound ==
    ASSUME kind \in Kinds, NEW m, NEW list, Sound(m, list), Len(list) >= 1, NEW mode
    PROVE  /\ Sound(DropEnd(m, mode), Without(list, End(list, mode)))
           /\ DropEnd(m, mode).count = m.count - 1 /\ Less(DropEnd(m, mode), m)
<1> DEFINE e == End(list, mode)
<1>1. list \in Seq(Entries) /\ Linked(m.heap, list) /\ Len(list) \in Nat
      /\ DOMAIN list = 1..Len(list)
  BY DEF Sound, Threads
<1>2. e \in ToSet(list) BY <1>1 DEF End, ToSet
<1>3. m.heap[Header].next = list[1] /\ m.heap[Header].prev = list[Len(list)]
  <2>1. /\ 0 \in 0..Len(list) /\ Len(list) \in 0..Len(list) /\ 0 + 1 = 1
        /\ At(list, 0) = Header /\ At(list, Len(list) + 1) = Header
        /\ At(list, 1) = list[1] /\ At(list, Len(list)) = list[Len(list)]
    BY <1>1 DEF At
  <2>2. QED BY <1>1, <2>1 DEF Linked
<1>4. DropEnd(m, mode) = Remove1(m, m.heap[e].key)
  BY <1>3 DEF DropEnd, FirstKey, LastKey, End
<1>5. m.heap[e].key \in Int /\ Has(m, m.heap[e].key) /\ Find(m, m.heap[e].key) = e
  BY <1>2, FindListed
<1> HIDE DEF e
<1> DEFINE r == DropEnd(m, mode)
<1>6. /\ Sound(r, Without(list, e)) /\ Chained(r) = Chained(m) \ {e}
      /\ r.count = m.count - 1 /\ DOMAIN r.heap = DOMAIN m.heap
      /\ \A x \in DOMAIN m.heap :
           /\ r.heap[x].key = m.heap[x].key
           /\ x # e => r.heap[x].value = m.heap[x].value
  BY <1>4, <1>5, RemoveSound
<1>7. Chained(m) \subseteq DOMAIN m.heap BY ChainedIs DEF Sound, IsMap, Hashed
<1>8. Less(r, m) BY <1>6, <1>7 DEF Less
<1>9. QED BY <1>6, <1>8 DEF e

IsDrops(f, m, mode, n) ==
    f = [i \in 0..n |-> IF i = 0 THEN m ELSE DropEnd(f[i - 1], mode)]

LEMMA DropsExist ==
    ASSUME NEW m, NEW mode, NEW n \in Nat PROVE \E f : IsDrops(f, m, mode, n)
<1> DEFINE S == {k \in Nat : \E f : IsDrops(f, m, mode, k)}
<1>1. 0 \in S
  <2>1. IsDrops([i \in 0..0 |-> m], m, mode, 0) BY DEF IsDrops
  <2>2. QED BY <2>1
<1>2. ASSUME NEW k \in S PROVE k + 1 \in S
  <2>1. PICK f : IsDrops(f, m, mode, k) OBVIOUS
  <2> DEFINE g == [i \in 0..k + 1 |-> IF i <= k THEN f[i] ELSE DropEnd(f[k], mode)]
  <2>2. ASSUME NEW i \in 0..k + 1
        PROVE  g[i] = IF i = 0 THEN m ELSE DropEnd(g[i - 1], mode)
    <3>1. CASE i = 0
      <4>1. 0 \in 0..k /\ 0 \in 0..k + 1 OBVIOUS
      <4>2. QED BY <2>1, <3>1, <4>1 DEF IsDrops
    <3>2. CASE i # 0 /\ i <= k
      <4>1. i \in 0..k /\ i - 1 \in 0..k + 1 /\ i - 1 <= k BY <3>2
      <4>2. g[i] = f[i] /\ g[i - 1] = f[i - 1] BY <4>1
      <4>3. f[i] = DropEnd(f[i - 1], mode) BY <2>1, <3>2, <4>1 DEF IsDrops
      <4>4. QED BY <3>2, <4>2, <4>3
    <3>3. CASE i = k + 1
      <4>1. i - 1 = k /\ k \in 0..k + 1 /\ i # 0 BY <3>3
      <4>2. g[k] = f[k] BY <4>1
      <4>3. QED BY <3>3, <4>1, <4>2
    <3>4. QED BY <3>1, <3>2, <3>3
  <2>3. g = [i \in 0..k + 1 |-> g[i]] OBVIOUS
  <2> HIDE DEF g
  <2>4. g = [i \in 0..k + 1 |-> IF i = 0 THEN m ELSE DropEnd(g[i - 1], mode)] BY <2>2, <2>3
  <2>5. IsDrops(g, m, mode, k + 1) BY <2>4 DEF IsDrops
  <2>6. QED BY <2>5
<1> HIDE DEF S
<1>3. S = Nat
  <2>1. S \in SUBSET Nat BY DEF S
  <2>2. QED BY <1>1, <1>2, <2>1, Induction
<1>4. QED BY <1>3 DEF S

(* How many put drops.                                                     *)
Excess(m) == IF max > 0 /\ m.count >= max THEN m.count - max + 1 ELSE 0

LEMMA EvictIs ==
    ASSUME NEW m, NEW mode, Excess(m) \in Nat
    PROVE  \E f : IsDrops(f, m, mode, Excess(m)) /\ Evict(m, mode) = f[Excess(m)]
<1> DEFINE f == CHOOSE g : IsDrops(g, m, mode, Excess(m))
<1>1. IsDrops(f, m, mode, Excess(m)) BY DropsExist
<1>2. Evict(m, mode) = f[Excess(m)] BY DEF Evict, IsDrops, Excess
<1>3. QED BY <1>1, <1>2

(* put drops from the other end of the list.  The class that would wait    *)
(* for its mutex drops nothing.                                            *)
LEMMA EvictSound ==
    ASSUME kind \in Kinds, max \in Nat, NEW m, NEW list, Sound(m, list), NEW mode,
           IsInt => Excess(m) = 0
    PROVE  /\ Excess(m) \in 0..Len(list)
           /\ Sound(Evict(m, mode), Kept(list, Excess(m), mode))
           /\ Less(Evict(m, mode), m)
           /\ Chained(Evict(m, mode)) =
                Chained(m) \ (ToSet(list) \ ToSet(Kept(list, Excess(m), mode)))
<1> DEFINE n == Excess(m)
<1>1. list \in Seq(Entries) /\ Len(list) \in Nat /\ m.count \in Int
  BY DEF Sound, Threads, IsMap, Maps
<1>2. n \in 0..Len(list)
  <2>1. CASE IsInt BY <1>1, <2>1
  <2>2. CASE ~IsInt
    <3>1. m.count = Len(list) BY <2>2, CountIsLength
    <3>2. QED BY <1>1, <3>1 DEF Excess
  <2>3. QED BY <2>1, <2>2
<1>3. PICK f : IsDrops(f, m, mode, n) /\ Evict(m, mode) = f[n]
  BY <1>1, <1>2, EvictIs
<1> HIDE DEF n
<1> DEFINE Good(i) == i <= n => Sound(f[i], Kept(list, i, mode)) /\ Less(f[i], m)
<1>4. f[0] = m /\ \A i \in 1..n : f[i] = DropEnd(f[i - 1], mode)
  BY <1>1, <1>2, <1>3 DEF IsDrops
<1>5. Good(0)
  <2>1. Kept(list, 0, mode) = list BY <1>1 DEF Kept
  <2>2. Less(m, m) BY DEF Less
  <2>3. QED BY <1>4, <2>1, <2>2
<1>6. ASSUME NEW i \in Nat, Good(i) PROVE Good(i + 1)
  <2> SUFFICES ASSUME i + 1 <= n
               PROVE  Sound(f[i + 1], Kept(list, i + 1, mode)) /\ Less(f[i + 1], m)
    OBVIOUS
  <2> DEFINE k == Kept(list, i, mode)
  <2>1. i \in 0..Len(list) /\ i < Len(list) /\ i <= n /\ i + 1 \in 1..n /\ (i + 1) - 1 = i
    BY <1>1, <1>2
  <2>2. Sound(f[i], k) /\ Less(f[i], m) BY <1>6, <2>1
  <2>3. Len(k) >= 1 BY <1>1, <2>1, KeptType
  <2>4. IsList(f[i].heap, k) BY <2>2 DEF Sound, Threads, Linked
  <2>5. Without(k, End(k, mode)) = Kept(list, i + 1, mode) BY <1>1, <2>1, <2>4, KeptFewer
  <2>6. f[i + 1] = DropEnd(f[i], mode) BY <1>4, <2>1
  <2> HIDE DEF k
  <2>7. Sound(f[i + 1], Kept(list, i + 1, mode)) /\ Less(f[i + 1], f[i])
    BY <2>2, <2>3, <2>5, <2>6, DropEndSound
  <2>8. Less(f[i + 1], m)
    <3>1. Chained(f[i + 1]) \subseteq DOMAIN m.heap
      BY <2>2, <2>7, ChainedIs DEF Less, Sound, IsMap, Hashed
    <3>2. QED BY <2>2, <2>7, <3>1 DEF Less
  <2>9. QED BY <2>7, <2>8
<1> HIDE DEF Good
<1>7. \A i \in Nat : Good(i)
  <2> DEFINE S == {i \in Nat : Good(i)}
  <2>1. 0 \in S /\ \A i \in S : i + 1 \in S BY <1>5, <1>6
  <2> HIDE DEF S
  <2>2. S \in SUBSET Nat BY DEF S
  <2>3. S = Nat BY <2>1, <2>2, Induction
  <2>4. QED BY <2>3 DEF S
<1>8. Good(n) BY <1>1, <1>2, <1>7
<1>9. Sound(f[n], Kept(list, n, mode)) /\ Less(f[n], m) BY <1>1, <1>2, <1>8 DEF Good
<1>10. Chained(f[n]) = Chained(m) \ (ToSet(list) \ ToSet(Kept(list, n, mode)))
  <2>1. CASE IsInt
    <3>1. n = 0 BY <2>1 DEF n
    <3>2. f[n] = m /\ Kept(list, n, mode) = list BY <1>1, <1>4, <3>1 DEF Kept
    <3>3. QED BY <3>2
  <2>2. CASE ~IsInt
    <3>1. Chained(m) = ToSet(list) /\ Chained(f[n]) = ToSet(Kept(list, n, mode))
      BY <1>9, <2>2, CountIsLength
    <3>2. ToSet(Kept(list, n, mode)) \subseteq ToSet(list) BY <1>1, <1>2, KeptType
    <3>3. QED BY <3>1, <3>2
  <2>3. QED BY <2>1, <2>2
<1>11. QED BY <1>2, <1>3, <1>9, <1>10 DEF n

(* A rehash gives every entry a bucket, among any number of them.          *)
LEMMA RehashSound ==
    ASSUME kind \in Kinds, NEW m, NEW list, Sound(m, list)
    PROVE  /\ Sound(Rehash(m), list) /\ Chained(Rehash(m)) = Chained(m)
           /\ Rehash(m).heap = m.heap /\ Rehash(m).count = m.count
<1> DEFINE cap == 2 * Len(m.table) + 1
           t == [b \in 1..cap |-> {e \in Chained(m) : HashOf(m.heap[e].key) % cap = b - 1}]
           r == Rehash(m)
<1>1. m \in Maps /\ IsHeap(m.heap) /\ Hashed(m) /\ OneEach(m) /\ Counted(m)
  BY DEF Sound, IsMap
<1>2. Len(m.table) \in Nat /\ Chained(m) \subseteq Entries /\ Chained(m) \subseteq DOMAIN m.heap
  BY <1>1, ChainedIs DEF Hashed
<1>3. cap \in Nat \ {0} BY <1>2
<1>4. r.table = t /\ r.heap = m.heap /\ r.count = m.count BY <1>1 DEF Rehash, Maps
<1>5. r \in Maps /\ Len(t) = cap
  <2>1. t \in [1..cap -> SUBSET Entries] BY <1>2
  <2> HIDE DEF t, cap
  <2>2. t \in Seq(SUBSET Entries) /\ Len(t) = cap BY <1>3, <2>1
  <2>3. r = [m EXCEPT !.table = t] BY DEF Rehash, t, cap
  <2>4. QED BY <1>1, <2>2, <2>3 DEF Maps
<1> HIDE DEF r, cap
<1>6. ASSUME NEW e \in Chained(m)
      PROVE  /\ BucketOf(r, m.heap[e].key) \in 1..cap
             /\ \A b \in 1..cap : e \in t[b] <=> b = BucketOf(r, m.heap[e].key)
  <2>1. HashOf(m.heap[e].key) \in Int BY <1>1, <1>2, HeapKeys, HashType
  <2>2. BucketOf(r, m.heap[e].key) = (HashOf(m.heap[e].key) % cap) + 1
    BY <1>4, <1>5 DEF BucketOf
  <2>3. \A x \in Int : x % cap \in 0..cap - 1 BY <1>3
  <2>4. QED BY <1>3, <2>1, <2>2, <2>3
<1>7. \A b \in 1..cap : t[b] \subseteq Chained(m) OBVIOUS
<1> HIDE DEF t
<1>8. Chained(r) = Chained(m)
  <2>1. Chained(r) = UNION {t[b] : b \in 1..cap} BY <1>4, <1>5, ChainedIs
  <2>2. QED BY <1>6, <1>7, <2>1
<1>9. Hashed(r) BY <1>2, <1>3, <1>4, <1>5, <1>6, <1>7 DEF Hashed
<1>10. OneEach(r) /\ Counted(r) BY <1>1, <1>4, <1>8 DEF OneEach, Counted
<1>11. Threads(r, list) BY <1>4, <1>8 DEF Sound, Threads, Placed
<1>12. QED BY <1>1, <1>4, <1>5, <1>8, <1>9, <1>10, <1>11 DEF Sound, IsMap, r

(* A heap with other links and values, for the same table.                 *)
LEMMA SameTable ==
    ASSUME NEW m, IsMap(m), NEW h, IsHeap(h), DOMAIN h = DOMAIN m.heap
    PROVE  LET r == [m EXCEPT !.heap = h]
           IN IsMap(r) /\ Chained(r) = Chained(m) /\ r.heap = h /\ r.count = m.count
<1> DEFINE r == [m EXCEPT !.heap = h]
<1>1. r.table = m.table /\ r.heap = h /\ r.count = m.count BY DEF IsMap, Maps
<1>2. r \in Maps BY HeapIsOne DEF IsMap, Maps
<1>3. Chained(r) = Chained(m) BY <1>1 DEF Chained
<1>4. \A e \in DOMAIN h : h[e].key = m.heap[e].key BY DEF IsMap, IsHeap
<1>5. \A key : BucketOf(r, key) = BucketOf(m, key) BY <1>1 DEF BucketOf
<1> HIDE DEF r
<1>6. Hashed(r) BY <1>1, <1>4, <1>5 DEF IsMap, Hashed
<1>7. Chained(m) \subseteq DOMAIN h BY ChainedIs DEF IsMap, Hashed
<1>8. OneEach(r) BY <1>1, <1>3, <1>4, <1>7 DEF IsMap, OneEach
<1>9. Counted(r) BY <1>1, <1>3 DEF IsMap, Counted
<1>10. QED BY <1>1, <1>2, <1>3, <1>6, <1>8, <1>9 DEF IsMap, r

-----------------------------------------------------------------------------
(* put.                                                                    *)

(* A list with one more entry at the end that mode puts at.                *)
Grown(list, e, mode) ==
    IF mode = "FORCE_FIRST" THEN Insertion(list, 0, e) ELSE Insertion(list, Len(list), e)

LEMMA GrownIs ==
    ASSUME NEW list \in Seq(Entries), NEW e \in Entries, NEW mode
    PROVE  /\ Grown(list, e, mode) \in Seq(Entries)
           /\ ToSet(Grown(list, e, mode)) = ToSet(list) \cup {e}
<1> DEFINE k == IF mode = "FORCE_FIRST" THEN 0 ELSE Len(list)
           new == Insertion(list, k, e)
           n == Len(list)
<1>1. n \in Nat /\ DOMAIN list = 1..n /\ k \in 0..n OBVIOUS
<1>2. Grown(list, e, mode) = new BY DEF Grown
<1>3. new \in Seq(Entries) BY <1>1, InsertionType
<1>4. DOMAIN new = 1..n + 1
      /\ \A i \in 1..n + 1 : new[i] = IF i <= k THEN list[i]
                                      ELSE IF i = k + 1 THEN e ELSE list[i - 1]
  BY DEF Insertion
<1> HIDE DEF new, k, n
<1>5. ToSet(new) = {new[i] : i \in 1..n + 1} BY <1>4 DEF ToSet
<1>6. ToSet(list) = {list[i] : i \in 1..n} BY <1>1 DEF ToSet
<1>7. ASSUME NEW i \in 1..n + 1 PROVE new[i] \in ToSet(list) \cup {e}
  <2>1. CASE i <= k
    <3>1. i \in 1..n BY <1>1, <2>1
    <3>2. QED BY <1>4, <1>6, <2>1, <3>1
  <2>2. CASE i = k + 1 BY <1>1, <1>4, <2>2
  <2>3. CASE i > k + 1
    <3>1. i - 1 \in 1..n /\ ~(i <= k) /\ i # k + 1 BY <1>1, <2>3
    <3>2. QED BY <1>4, <1>6, <3>1
  <2>4. QED BY <1>1, <2>1, <2>2, <2>3
<1>8. e \in ToSet(new)
  <2>1. k + 1 \in 1..n + 1 /\ ~(k + 1 <= k) BY <1>1
  <2>2. new[k + 1] = e BY <1>4, <2>1
  <2>3. QED BY <1>5, <2>1, <2>2
<1>9. ASSUME NEW i \in 1..n PROVE list[i] \in ToSet(new)
  <2>1. CASE i <= k
    <3>1. i \in 1..n + 1 BY <1>1
    <3>2. QED BY <1>4, <1>5, <2>1, <3>1
  <2>2. CASE i > k
    <3>1. i + 1 \in 1..n + 1 /\ ~(i + 1 <= k) /\ i + 1 # k + 1 /\ (i + 1) - 1 = i BY <1>1, <2>2
    <3>2. new[i + 1] = list[i] BY <1>4, <3>1
    <3>3. QED BY <1>5, <3>1, <3>2
  <2>3. QED BY <1>1, <2>1, <2>2
<1>10. ToSet(new) = ToSet(list) \cup {e} BY <1>5, <1>6, <1>7, <1>8, <1>9
<1>11. QED BY <1>2, <1>3, <1>10

(* The new entry is the first or the last.                                 *)
LEMMA GrownAt ==
    ASSUME NEW list \in Seq(Entries), NEW e \in Entries, NEW mode
    PROVE  /\ Len(Grown(list, e, mode)) = Len(list) + 1
           /\ mode = "FORCE_FIRST" => /\ Grown(list, e, mode)[1] = e
                                      /\ \A i \in 1..Len(list) : Grown(list, e, mode)[i + 1] = list[i]
           /\ mode # "FORCE_FIRST" => /\ Grown(list, e, mode)[Len(list) + 1] = e
                                      /\ \A i \in 1..Len(list) : Grown(list, e, mode)[i] = list[i]
<1> DEFINE k == IF mode = "FORCE_FIRST" THEN 0 ELSE Len(list)
           new == Insertion(list, k, e)
           n == Len(list)
<1>1. n \in Nat /\ k \in 0..n OBVIOUS
<1>2. Grown(list, e, mode) = new BY DEF Grown
<1>3. Len(new) = n + 1 BY <1>1, InsertionType
<1>4. \A i \in 1..n + 1 : new[i] = IF i <= k THEN list[i]
                                    ELSE IF i = k + 1 THEN e ELSE list[i - 1]
  BY DEF Insertion
<1> HIDE DEF new, n
<1>5. CASE mode = "FORCE_FIRST"
  <2>1. new[1] = e
    <3>1. 1 \in 1..n + 1 /\ ~(1 <= 0) /\ 1 = 0 + 1 BY <1>1
    <3>2. QED BY <1>4, <1>5, <3>1
  <2>2. ASSUME NEW i \in 1..n PROVE new[i + 1] = list[i]
    <3>1. i + 1 \in 1..n + 1 /\ ~(i + 1 <= 0) /\ i + 1 # 0 + 1 /\ (i + 1) - 1 = i BY <1>1
    <3>2. QED BY <1>4, <1>5, <3>1
  <2>3. QED BY <1>2, <1>3, <1>5, <2>1, <2>2 DEF n
<1>6. CASE mode # "FORCE_FIRST"
  <2>1. new[n + 1] = e
    <3>1. n + 1 \in 1..n + 1 /\ ~(n + 1 <= n) BY <1>1
    <3>2. k = n BY <1>6 DEF n
    <3> HIDE DEF k
    <3>3. QED BY <1>4, <3>1, <3>2
  <2>2. ASSUME NEW i \in 1..n PROVE new[i] = list[i]
    <3>1. i \in 1..n + 1 /\ i <= n BY <1>1
    <3>2. k = n BY <1>6 DEF n
    <3> HIDE DEF k
    <3>3. QED BY <1>4, <3>1, <3>2
  <2>3. QED BY <1>2, <1>3, <1>6, <2>1, <2>2 DEF n
<1>7. QED BY <1>5, <1>6

LEMMA ChainAtLinked ==
    ASSUME NEW h, NEW list \in Seq(Entries), IsHeap(h), Linked(h, list), NEW e \in Entries,
           e \in DOMAIN h, e \notin ToSet(list), NEW mode
    PROVE  /\ IsHeap(ChainAt(h, e, mode)) /\ DOMAIN ChainAt(h, e, mode) = DOMAIN h
           /\ Linked(ChainAt(h, e, mode), Grown(list, e, mode))
           /\ \A x \in DOMAIN h :
                /\ ChainAt(h, e, mode)[x].key = h[x].key
                /\ ChainAt(h, e, mode)[x].value = h[x].value
                /\ x \notin ToSet(list) \cup {Header, e} =>
                     /\ ChainAt(h, e, mode)[x].next = h[x].next
                     /\ ChainAt(h, e, mode)[x].prev = h[x].prev
<1> DEFINE k == IF mode = "FORCE_FIRST" THEN 0 ELSE Len(list)
           p == At(list, k)
           n == At(list, k + 1)
           g == Chain(h, p, n, e)
<1>1. Len(list) \in Nat /\ DOMAIN list = 1..Len(list) /\ k \in 0..Len(list) OBVIOUS
<1>2. At(list, 0) = Header /\ At(list, Len(list) + 1) = Header BY <1>1 DEF At
<1>3. \A i \in 0..Len(list) :
        h[At(list, i)].next = At(list, i + 1) /\ h[At(list, i + 1)].prev = At(list, i)
  BY DEF Linked
<1>4. ChainAt(h, e, mode) = g
  <2>1. CASE mode = "FORCE_FIRST"
    <3>1. p = Header /\ h[Header].next = n BY <1>1, <1>2, <1>3, <2>1
    <3>2. QED BY <2>1, <3>1 DEF ChainAt
  <2>2. CASE mode # "FORCE_FIRST"
    <3>1. n = Header /\ h[Header].prev = p BY <1>1, <1>2, <1>3, <2>2
    <3>2. QED BY <2>2, <3>1 DEF ChainAt
  <2>3. QED BY <2>1, <2>2
<1>5. Linked(g, Grown(list, e, mode))
  <2>1. Grown(list, e, mode) = Insertion(list, k, e) BY DEF Grown
  <2>2. QED BY <1>1, <2>1, ChainLinked
<1>6. \A i \in Int : At(list, i) \in ToSet(list) \cup {Header} BY <1>1 DEF At, ToSet
<1>7. p \in DOMAIN h /\ n \in DOMAIN h BY <1>1, ListType DEF Linked
<1>8. p \in ToSet(list) \cup {Header} /\ n \in ToSet(list) \cup {Header} BY <1>1, <1>6
<1>9. e # p /\ e # n BY <1>8, NamesDiffer
<1> HIDE DEF p, n, k
<1>10. /\ IsHeap(g) /\ DOMAIN g = DOMAIN h
       /\ \A x \in DOMAIN h :
            /\ g[x].key = h[x].key /\ g[x].value = h[x].value
            /\ g[x].next = IF x = p THEN e ELSE IF x = e THEN n ELSE h[x].next
            /\ g[x].prev = IF x = n THEN e ELSE IF x = e THEN p ELSE h[x].prev
  BY <1>7, <1>9, ChainLinks
<1> HIDE DEF g
<1>11. QED BY <1>4, <1>5, <1>8, <1>10

(* What a method that puts an entry, a new one or one of the map's, leaves *)
(* of the others.                                                          *)
Gains(r, m, e, value) ==
    /\ DOMAIN r.heap = DOMAIN m.heap \cup {e}
    /\ Chained(r) = Chained(m) \cup {e}
    /\ r.heap[e].value = value
    /\ \A x \in Chained(m) \ {e} : r.heap[x].value = m.heap[x].value

(* An entry of the list is taken out of its place and chained at an end.   *)
Relinks(r, m, list, e, mode, h) ==
    /\ Sound(r, Grown(Without(list, e), e, mode)) /\ Chained(r) = Chained(m)
    /\ DOMAIN r.heap = DOMAIN h /\ \A x \in DOMAIN h : r.heap[x].value = h[x].value

LEMMA RelinkSound ==
    ASSUME NEW m, NEW list, Sound(m, list), NEW e \in ToSet(list), NEW mode,
           NEW h, IsHeap(h), DOMAIN h = DOMAIN m.heap,
           \A x \in DOMAIN h : h[x].next = m.heap[x].next /\ h[x].prev = m.heap[x].prev
    PROVE  Relinks([m EXCEPT !.heap = ChainAt(Unchain(h, e), e, mode)], m, list, e, mode, h)
<1> DEFINE a == Unchain(h, e)
           g == ChainAt(a, e, mode)
           w == Without(list, e)
           new == Grown(w, e, mode)
           r == [m EXCEPT !.heap = g]
<1>1. /\ IsMap(m) /\ list \in Seq(Entries) /\ Linked(m.heap, list) /\ Loose(m.heap, list)
      /\ Placed(m, list) /\ IsHeap(m.heap)
  BY DEF Sound, Threads, IsMap
<1>2. Linked(h, list) /\ IsList(h, list)
  <2>1. Linked(h, list) BY <1>1, SameLinks
  <2>2. QED BY <2>1 DEF Linked
<1>3. e \in DOMAIN h /\ e \in Entries BY <1>1, <1>2, ListedIsAt DEF At, IsList
<1>4. w \in Seq(Entries) /\ ToSet(w) = ToSet(list) \ {e} BY <1>1, <1>2, WithoutIs
<1>5. IsHeap(a) /\ DOMAIN a = DOMAIN h /\ Linked(a, w) /\ \A x \in DOMAIN h : a[x].value = h[x].value
  BY <1>1, <1>2, <1>3, UnchainThreads
<1>6. \A x \in DOMAIN h : x \notin ToSet(list) \cup {Header} =>
        a[x].next = h[x].next /\ a[x].prev = h[x].prev
  BY <1>1, <1>2, <1>3, UnchainThreads
<1> HIDE DEF a, w
<1>7. new \in Seq(Entries) /\ ToSet(new) = ToSet(list)
  <2>1. new \in Seq(Entries) /\ ToSet(new) = ToSet(w) \cup {e} BY <1>3, <1>4, GrownIs
  <2>2. QED BY <1>4, <2>1
<1>8. IsHeap(g) /\ DOMAIN g = DOMAIN h /\ Linked(g, new) /\ \A x \in DOMAIN h : g[x].value = a[x].value
  BY <1>3, <1>4, <1>5, ChainAtLinked
<1>9. \A x \in DOMAIN h : x \notin ToSet(w) \cup {Header, e} =>
        g[x].next = a[x].next /\ g[x].prev = a[x].prev
  BY <1>3, <1>4, <1>5, ChainAtLinked
<1> HIDE DEF g, new
<1>10. \A x \in DOMAIN m.heap : x \notin ToSet(list) \cup {Header} =>
         g[x].next = m.heap[x].next /\ g[x].prev = m.heap[x].prev
  BY <1>4, <1>6, <1>9
<1>11. Rest(g, new) = Rest(m.heap, list) BY <1>7, <1>8 DEF Rest
<1>12. Loose(g, new)
  <2>1. \A x \in Rest(m.heap, list) : g[x].next = m.heap[x].next BY <1>10 DEF Rest
  <2>2. QED BY <1>1, <1>11, <2>1, StillLoose
<1>13. IsMap(r) /\ Chained(r) = Chained(m) /\ r.heap = g BY <1>1, <1>8, SameTable
<1> HIDE DEF r
<1>14. Placed(r, new)
  <2>1. Chained(m) \subseteq DOMAIN m.heap \ {Header}
    BY <1>1, ChainedIs, NamesDiffer DEF IsMap, Hashed
  <2>2. ASSUME NEW x \in Chained(m) \ ToSet(list)
        PROVE  IsInt /\ g[x].prev = Null /\ g[x].next = Null
    <3>1. x \in DOMAIN m.heap /\ x \notin ToSet(list) \cup {Header} BY <2>1
    <3>2. IsInt /\ m.heap[x].prev = Null /\ m.heap[x].next = Null BY <1>1 DEF Placed
    <3>3. QED BY <1>10, <3>1, <3>2
  <2>3. ToSet(list) \subseteq Chained(m) BY <1>1 DEF Placed
  <2>4. QED BY <1>7, <1>13, <2>2, <2>3 DEF Placed
<1>15. Sound(r, new) BY <1>7, <1>8, <1>12, <1>13, <1>14 DEF Sound, Threads
<1>16. \A x \in DOMAIN h : g[x].value = h[x].value BY <1>5, <1>8
<1>17. Relinks(r, m, list, e, mode, h)
  BY <1>8, <1>13, <1>15, <1>16 DEF Relinks, new, w
<1>18. QED BY <1>17 DEF r, g, a

(* The list once an entry of the map has another place.                   *)
Moved(list, e, mode) ==
    IF mode = "LAST" \/ e \notin ToSet(list) THEN list ELSE Grown(Without(list, e), e, mode)

(* An entry that is at the end where it is to go stays in its place.       *)
LEMMA MovedInPlace ==
    ASSUME NEW h, NEW list \in Seq(Entries), IsHeap(h), Linked(h, list), NEW e \in ToSet(list),
           NEW mode \in Modes, NEW g, \A x \in DOMAIN h : g[x].next = h[x].next /\ g[x].prev = h[x].prev,
           \/ mode = "LAST"
           \/ mode = "FORCE_FIRST" /\ g[Header].next = e
           \/ mode = "FORCE_LAST" /\ g[Header].prev = e
    PROVE  Moved(list, e, mode) = list
<1>1. Len(list) \in Nat /\ DOMAIN list = 1..Len(list) /\ Len(list) >= 1
  <2>1. ToSet(list) = {list[i] : i \in 1..Len(list)} BY DEF ToSet
  <2>2. Len(list) # 0 BY <2>1
  <2>3. QED BY <2>2
<1>2. IsList(h, list) BY DEF Linked
<1>3. PICK k \in 1..Len(list) : list[k] = e /\ Without(list, e) = Cut(list, k)
  BY <1>1, WithoutCut
<1>4. CASE mode = "LAST" BY <1>4 DEF Moved
<1>5. Header \in DOMAIN h BY DEF IsHeap
<1>6. /\ 0 \in 0..Len(list) /\ Len(list) \in 0..Len(list) /\ 0 + 1 = 1
      /\ At(list, 0) = Header /\ At(list, Len(list) + 1) = Header
      /\ At(list, 1) = list[1] /\ At(list, Len(list)) = list[Len(list)]
  BY <1>1 DEF At
<1>7. h[Header].next = list[1] /\ h[Header].prev = list[Len(list)] BY <1>6 DEF Linked
<1>8. CASE mode = "FORCE_FIRST"
  <2>1. list[1] = e BY <1>5, <1>7, <1>8
  <2>2. k = 1 BY <1>1, <1>2, <1>3, <2>1 DEF IsList
  <2>3. Cut(list, 1) = [i \in 1..Len(list) - 1 |-> list[i + 1]] BY <1>1 DEF Cut
  <2>4. Insertion(Cut(list, 1), 0, e) = list
    <3>1. Len(Cut(list, 1)) = Len(list) - 1
      <4>1. 1 \in 1..Len(list) BY <1>1
      <4>2. QED BY <4>1, CutType
    <3> DEFINE c == Cut(list, 1)
               new == Insertion(c, 0, e)
    <3>2. new = [i \in 1..Len(list) |-> IF i <= 0 THEN c[i] ELSE IF i = 0 + 1 THEN e ELSE c[i - 1]]
      <4>1. (Len(list) - 1) + 1 = Len(list) BY <1>1
      <4>2. QED BY <3>1, <4>1 DEF Insertion
    <3>3. ASSUME NEW i \in 1..Len(list)
          PROVE  (IF i <= 0 THEN c[i] ELSE IF i = 0 + 1 THEN e ELSE c[i - 1]) = list[i]
      <4>1. CASE i = 1 BY <2>1, <4>1
      <4>2. CASE i # 1
        <5>1. i - 1 \in 1..Len(list) - 1 /\ (i - 1) + 1 = i /\ ~(i <= 0) BY <1>1, <4>2
        <5>2. c[i - 1] = list[i] BY <2>3, <5>1
        <5>3. QED BY <4>2, <5>1, <5>2
      <4>3. QED BY <4>1, <4>2
    <3> HIDE DEF c, new
    <3>4. new = [i \in 1..Len(list) |-> list[i]] BY <3>2, <3>3
    <3>5. QED BY <1>1, <3>4 DEF c, new
  <2>5. QED BY <1>3, <1>8, <2>2, <2>4 DEF Moved, Grown
<1>9. CASE mode = "FORCE_LAST"
  <2>1. list[Len(list)] = e BY <1>5, <1>7, <1>9
  <2>2. k = Len(list) BY <1>1, <1>2, <1>3, <2>1 DEF IsList
  <2> DEFINE n == Len(list)
             c == Cut(list, n)
             new == Insertion(c, n - 1, e)
  <2>8. n \in Nat /\ n >= 1 BY <1>1
  <2>3. c = [i \in 1..n - 1 |-> list[i]]
    <3>1. \A i \in 1..n - 1 : i < n BY <1>1
    <3>2. QED BY <3>1 DEF Cut
  <2>4. Len(c) = n - 1 BY <1>1, <2>3
  <2>5. new = list
    <3>1. new = [i \in 1..n |-> IF i <= n - 1 THEN c[i] ELSE IF i = (n - 1) + 1 THEN e ELSE c[i - 1]]
      <4>1. (n - 1) + 1 = n BY <1>1
      <4>2. QED BY <2>4, <4>1 DEF Insertion
    <3>2. ASSUME NEW i \in 1..n
          PROVE  (IF i <= n - 1 THEN c[i] ELSE IF i = (n - 1) + 1 THEN e ELSE c[i - 1]) = list[i]
      <4>1. CASE i = n
        <5>1. ~(i <= n - 1) /\ i = (n - 1) + 1 BY <1>1, <4>1
        <5>2. QED BY <2>1, <4>1, <5>1
      <4>2. CASE i # n
        <5>1. i \in 1..n - 1 /\ i <= n - 1
          <6> HIDE DEF n
          <6>1. QED BY <2>8, <4>2
        <5>2. QED BY <2>3, <5>1
      <4>3. QED BY <4>1, <4>2
    <3> HIDE DEF n, c, new
    <3>3. new = [i \in 1..n |-> list[i]] BY <3>1, <3>2
    <3>4. QED BY <1>1, <3>3 DEF n
  <2>6. Grown(Without(list, e), e, mode) = new BY <1>3, <1>9, <2>2, <2>4 DEF Grown
  <2>7. QED BY <1>9, <2>5, <2>6 DEF Moved
<1>10. QED BY <1>4, <1>8, <1>9 DEF Modes

LEMMA OverwriteSound ==
    ASSUME kind \in Kinds, NEW m, NEW list, Sound(m, list), NEW key \in Keys, Has(m, key),
           NEW value \in Values \cup {Null}, NEW mode \in Modes
    PROVE  /\ Sound(Overwrite(m, key, value, mode), Moved(list, Find(m, key), mode))
           /\ Gains(Overwrite(m, key, value, mode), m, Find(m, key), value)
<1> DEFINE e == Find(m, key)
           h == [m.heap EXCEPT ![e].value = value]
           g == ChainAt(Unchain(h, e), e, mode)
           r == Overwrite(m, key, value, mode)
           inPlace == \/ mode = "LAST"
                      \/ mode = "FORCE_FIRST" /\ h[Header].next = e
                      \/ mode = "FORCE_LAST" /\ h[Header].prev = e
<1>1. /\ IsMap(m) /\ IsHeap(m.heap) /\ list \in Seq(Entries) /\ Linked(m.heap, list)
      /\ Loose(m.heap, list) /\ Placed(m, list)
  BY DEF Sound, Threads, IsMap
<1>2. key \in Int BY LinkedMapAssumption
<1>3. e \in Chained(m) /\ e \in DOMAIN m.heap
  <2>1. e \in Chained(m) BY <1>1, <1>2, FindIs
  <2>2. QED BY <1>1, <2>1, ChainedIs DEF IsMap, Hashed
<1>4. \/ (inPlace \/ h[e].prev = Null) /\ r = [m EXCEPT !.heap = h]
      \/ ~inPlace /\ h[e].prev # Null /\ r = [m EXCEPT !.heap = g]
  BY DEF Overwrite
<1> HIDE DEF e, r
<1>5. IsHeap(h) /\ DOMAIN h = DOMAIN m.heap
      /\ \A x \in DOMAIN h : h[x].next = m.heap[x].next /\ h[x].prev = m.heap[x].prev
  BY <1>1, <1>3, SetValue
<1>6. h[e].value = value /\ \A x \in DOMAIN m.heap \ {e} : h[x].value = m.heap[x].value
  BY <1>1, <1>3 DEF IsHeap, Cells
<1>7. h[e].prev = Null <=> e \notin ToSet(list)
  <2>1. CASE e \in ToSet(list)
    <3>1. PICK i \in 1..Len(list) : e = At(list, i) BY <1>1, <2>1, ListedIsAt
    <3>2. i - 1 \in 0..Len(list) /\ (i - 1) + 1 = i BY <1>1
    <3>3. m.heap[e].prev = At(list, i - 1) BY <1>1, <3>1, <3>2 DEF Linked
    <3>4. At(list, i - 1) \in DOMAIN m.heap BY <1>1, <3>2, ListType DEF Linked
    <3>5. m.heap[e].prev # Null BY <1>1, <3>3, <3>4, NamesDiffer DEF IsHeap
    <3>6. QED BY <1>3, <1>5, <2>1, <3>5
  <2>2. CASE e \notin ToSet(list)
    <3>1. m.heap[e].prev = Null BY <1>1, <1>3, <2>2 DEF Placed
    <3>2. QED BY <1>3, <1>5, <2>2, <3>1
  <2>3. QED BY <2>1, <2>2
<1> HIDE DEF h
<1>8. CASE (inPlace \/ h[e].prev = Null) /\ r = [m EXCEPT !.heap = h]
  <2>1. IsMap(r) /\ Chained(r) = Chained(m) /\ r.heap = h BY <1>1, <1>5, <1>8, SameTable
  <2>2. Linked(h, list) /\ Loose(h, list) BY <1>1, <1>5, SameLinks
  <2>3. Chained(m) \subseteq DOMAIN m.heap BY <1>1, ChainedIs DEF IsMap, Hashed
  <2>4. Placed(r, list) BY <1>1, <1>5, <2>1, <2>3 DEF Placed
  <2>5. Sound(r, list) BY <1>1, <2>1, <2>2, <2>4 DEF Sound, Threads
  <2>6. Moved(list, e, mode) = list
    <3>1. CASE e \notin ToSet(list) BY <3>1 DEF Moved
    <3>2. CASE e \in ToSet(list)
      <4>1. inPlace BY <1>7, <1>8, <3>2
      <4>2. QED BY <1>1, <1>5, <3>2, <4>1, MovedInPlace
    <3>3. QED BY <3>1, <3>2
  <2>7. Gains(r, m, e, value) BY <1>3, <1>5, <1>6, <2>1, <2>3 DEF Gains
  <2>8. QED BY <2>5, <2>6, <2>7 DEF r, e
<1>9. CASE ~inPlace /\ h[e].prev # Null /\ r = [m EXCEPT !.heap = g]
  <2>1. e \in ToSet(list) BY <1>7, <1>9
  <2>2. Relinks(r, m, list, e, mode, h)
    <3>1. Relinks([m EXCEPT !.heap = g], m, list, e, mode, h) BY <1>5, <2>1, RelinkSound
    <3>2. QED BY <1>9, <3>1
  <2>3. Moved(list, e, mode) = Grown(Without(list, e), e, mode) BY <1>9, <2>1 DEF Moved
  <2>4. Chained(m) \subseteq DOMAIN m.heap BY <1>1, ChainedIs DEF IsMap, Hashed
  <2>5. Gains(r, m, e, value) BY <1>3, <1>5, <1>6, <2>2, <2>4 DEF Gains, Relinks
  <2>6. QED BY <2>2, <2>3, <2>5 DEF Relinks, r, e
<1>10. QED BY <1>4, <1>8, <1>9

(* A key of which one of two names is free can have a new entry.           *)
Room(h, key) == \E n \in {1, 2} : <<key, n>> \notin DOMAIN h

LEMMA FreshIs ==
    ASSUME NEW h, NEW key \in Keys, Room(h, key)
    PROVE  Fresh(h, key) \in Entries \ DOMAIN h /\ Fresh(h, key)[1] = key
<1>1. <<key, 1>> \in Entries /\ <<key, 2>> \in Entries BY LinkedMapAssumption DEF Entries
<1>2. \E e \in Entries \ DOMAIN h : e[1] = key /\ \A n \in 1..e[2] - 1 : <<key, n>> \in DOMAIN h
  <2>1. CASE <<key, 1>> \notin DOMAIN h
    <3>1. 1..<<key, 1>>[2] - 1 = {} OBVIOUS
    <3>2. QED BY <1>1, <2>1, <3>1
  <2>2. CASE <<key, 1>> \in DOMAIN h
    <3>1. 1..<<key, 2>>[2] - 1 = {1} OBVIOUS
    <3>2. <<key, 2>> \notin DOMAIN h BY <2>2 DEF Room
    <3>3. QED BY <1>1, <2>2, <3>1, <3>2
  <2>3. QED BY <2>1, <2>2
<1>3. QED BY <1>2 DEF Fresh

(* The key in the name of an entry.                                        *)
NameKey(e) == e[1]

(* Into the table, put takes an entry whose key no other has.              *)
Gained(m, e, key, h) ==
    [table |-> [m.table EXCEPT ![BucketOf(m, key)] = @ \cup {e}],
     heap  |-> h, count |-> m.count + 1]
HeapWith(g, e, key, value) ==
    [x \in {e} \cup DOMAIN g |->
        IF x = e THEN [key |-> key, value |-> value, next |-> Null, prev |-> Null] ELSE g[x]]

LEMMA TableGains ==
    ASSUME kind \in Kinds, NEW m, IsMap(m), NEW e \in Entries, e \notin DOMAIN m.heap,
           NEW key \in Keys, key = NameKey(e), ~Has(m, key),
           NEW h, IsHeap(h), DOMAIN h = DOMAIN m.heap \cup {e},
           NEW r, r = Gained(m, e, key, h)
    PROVE  IsMap(r) /\ Chained(r) = Chained(m) \cup {e}
<1> DEFINE b == BucketOf(m, key)
           n == Len(m.table)
<1>1. /\ m \in Maps /\ n \in Nat \ {0} /\ m.table \in Seq(SUBSET Entries) /\ m.count \in Int
      /\ \A c \in 1..n : \A x \in m.table[c] :
           x \in DOMAIN m.heap /\ BucketOf(m, m.heap[x].key) = c
  BY ChainedIs DEF IsMap, Hashed, Maps
<1>2. Chained(m) = UNION {m.table[c] : c \in 1..n} BY <1>1, ChainedIs
<1>16. key \in Int BY LinkedMapAssumption
<1>3. b \in 1..n BY <1>1, <1>16, BucketExists
<1> HIDE DEF b
<1>4. /\ r.table \in Seq(SUBSET Entries) /\ Len(r.table) = n
      /\ \A c \in 1..n : r.table[c] = IF c = b THEN m.table[b] \cup {e} ELSE m.table[c]
  BY <1>1, <1>3 DEF b, Gained
<1>5. r.heap = h /\ r.count = m.count + 1 BY DEF Gained
<1>6. r \in Maps BY <1>1, <1>4, HeapIsOne DEF Maps, Gained
<1>7. Chained(r) = UNION {r.table[c] : c \in 1..n} BY <1>4, <1>6, ChainedIs
<1>8. Chained(r) = Chained(m) \cup {e}
  <2>1. ASSUME NEW x \in Chained(r) PROVE x \in Chained(m) \cup {e}
    <3>1. PICK c \in 1..n : x \in r.table[c] BY <1>7
    <3>2. x \in m.table[c] \cup {e} BY <1>4, <3>1
    <3>3. QED BY <1>2, <3>2
  <2>2. ASSUME NEW x \in Chained(m) PROVE x \in Chained(r)
    <3>1. PICK c \in 1..n : x \in m.table[c] BY <1>2
    <3>2. x \in r.table[c] BY <1>4, <3>1
    <3>3. QED BY <1>7, <3>2
  <2>3. e \in Chained(r)
    <3>1. e \in r.table[b] BY <1>3, <1>4
    <3>2. QED BY <1>3, <1>7, <3>1
  <2>4. QED BY <2>1, <2>2, <2>3
<1>9. \A k : BucketOf(r, k) = BucketOf(m, k) BY <1>4 DEF BucketOf
<1>15. \A x \in DOMAIN m.heap : h[x].key = m.heap[x].key BY DEF IsMap, IsHeap
<1>17. h[e].key = key BY DEF IsHeap, NameKey
<1>10. Hashed(r)
  <2>1. ASSUME NEW c \in 1..n, NEW x \in r.table[c]
        PROVE  x \in DOMAIN h /\ BucketOf(r, h[x].key) = c
    <3>1. CASE x = e
      <4>1. \A d \in 1..n : e \notin m.table[d] BY <1>1
      <4>2. c = b BY <1>4, <3>1, <4>1
      <4>3. QED BY <1>9, <1>17, <3>1, <4>2 DEF b
    <3>2. CASE x # e
      <4>1. x \in m.table[c] BY <1>4, <3>2
      <4>2. x \in DOMAIN m.heap /\ BucketOf(m, m.heap[x].key) = c BY <1>1, <4>1
      <4>3. h[x].key = m.heap[x].key /\ x \in DOMAIN h BY <1>15, <4>2
      <4>4. BucketOf(r, h[x].key) = BucketOf(m, m.heap[x].key) BY <1>9, <4>3
      <4>5. QED BY <4>2, <4>3, <4>4
    <3>3. QED BY <3>1, <3>2
  <2>2. QED BY <1>1, <1>4, <1>5, <2>1 DEF Hashed
<1>11. \A x \in Chained(m) : x \in DOMAIN m.heap BY <1>1, <1>2
<1>12. OneEach(r)
  <2>1. \A x \in Chained(m) : m.heap[x].key # key BY <1>16, FindIs
  <2>2. QED BY <1>5, <1>8, <1>11, <1>15, <1>17, <2>1 DEF OneEach, IsMap
<1>13. Counted(r)
  <2>1. IsFiniteSet(Chained(m)) /\ m.count = Cardinality(Chained(m)) BY DEF IsMap, Counted
  <2>2. e \notin Chained(m) BY <1>11
  <2>3. IsFiniteSet(Chained(r)) BY <1>8, <2>1, FS_AddElement
  <2>4. Cardinality(Chained(r)) = Cardinality(Chained(m)) + 1
    BY <1>8, <2>1, <2>2, FS_AddElement
  <2>5. QED BY <1>5, <2>1, <2>3, <2>4 DEF Counted
<1>14. QED BY <1>5, <1>6, <1>8, <1>10, <1>12, <1>13 DEF IsMap

(* A new entry has no links yet.                                           *)
Extends(h, g, e, value) ==
    /\ IsHeap(h) /\ DOMAIN h = DOMAIN g \cup {e}
    /\ h[e].next = Null /\ h[e].prev = Null /\ h[e].value = value
    /\ \A x \in DOMAIN g :
         h[x].next = g[x].next /\ h[x].prev = g[x].prev /\ h[x].value = g[x].value

LEMMA HeapGains ==
    ASSUME NEW g, IsHeap(g), NEW e \in Entries, e \notin DOMAIN g,
           NEW key \in Keys, key = NameKey(e), NEW value \in Values \cup {Null}
    PROVE  Extends(HeapWith(g, e, key, value), g, e, value)
<1> DEFINE h == HeapWith(g, e, key, value)
           new == [key |-> key, value |-> value, next |-> Null, prev |-> Null]
<1>1. DOMAIN h = DOMAIN g \cup {e} /\ h[e] = new /\ \A x \in DOMAIN g : h[x] = g[x]
  BY DEF HeapWith
<1>2. new \in Cells BY LinkedMapAssumption DEF Cells, Links
<1>3. g \in [DOMAIN g -> Cells] /\ Header \in DOMAIN g /\ DOMAIN g \subseteq Names
      /\ \A x \in DOMAIN g : g[x].key = x[1]
  BY DEF IsHeap
<1>4. new.key = key /\ new.next = Null /\ new.prev = Null /\ new.value = value OBVIOUS
<1>5. h = [x \in DOMAIN h |-> h[x]] BY DEF HeapWith
<1> HIDE DEF new, h
<1>6. IsHeap(h)
  <2>1. \A x \in DOMAIN h : h[x] \in Cells BY <1>1, <1>2, <1>3
  <2>2. h \in [DOMAIN h -> Cells] BY <1>5, <2>1
  <2>3. QED BY <1>1, <1>3, <1>4, <2>2 DEF IsHeap, Names, NameKey
<1>7. QED BY <1>1, <1>4, <1>6 DEF h, Extends

(* A heap with more entries, and the links it had, threads the same list.  *)
LEMMA MoreNames ==
    ASSUME NEW g, IsHeap(g), NEW list \in Seq(Entries), Linked(g, list), NEW h,
           DOMAIN g \subseteq DOMAIN h,
           \A x \in DOMAIN g : h[x].next = g[x].next /\ h[x].prev = g[x].prev
    PROVE  Linked(h, list)
<1>1. IsList(h, list) BY DEF Linked, IsList
<1>2. \A i \in Int : At(list, i) \in DOMAIN g BY ListType DEF Linked
<1>3. ASSUME NEW i \in 0..Len(list)
      PROVE  h[At(list, i)].next = At(list, i + 1) /\ h[At(list, i + 1)].prev = At(list, i)
  <2>1. At(list, i) \in DOMAIN g /\ At(list, i + 1) \in DOMAIN g BY <1>2
  <2>2. QED BY <2>1 DEF Linked
<1>4. QED BY <1>1, <1>3 DEF Linked

(* The list once a new entry has its place, if it gets one.                *)
Added(list, e, mode) == IF Listed(mode) THEN Grown(list, e, mode) ELSE list

(* A map with room for a key that it has not takes it.                     *)
LEMMA GainSound ==
    ASSUME kind \in Kinds, NEW m, NEW list, Sound(m, list), NEW e \in Entries,
           e \notin DOMAIN m.heap, NEW key \in Keys, key = NameKey(e), ~Has(m, key),
           NEW value \in Values \cup {Null}, NEW mode
    PROVE  LET h == HeapWith(m.heap, e, key, value)
               r == Gained(m, e, key, IF Listed(mode) THEN ChainAt(h, e, mode) ELSE h)
           IN Sound(r, Added(list, e, mode)) /\ Gains(r, m, e, value)
<1> DEFINE h == HeapWith(m.heap, e, key, value)
           r == Gained(m, e, key, IF Listed(mode) THEN ChainAt(h, e, mode) ELSE h)
<1> SUFFICES Sound(r, Added(list, e, mode)) /\ Gains(r, m, e, value)
  OBVIOUS
<1>9. r = Gained(m, e, key, IF Listed(mode) THEN ChainAt(h, e, mode) ELSE h) OBVIOUS
<1> HIDE DEF r
<1>1. /\ IsMap(m) /\ IsHeap(m.heap) /\ list \in Seq(Entries) /\ Linked(m.heap, list)
      /\ Loose(m.heap, list) /\ Placed(m, list)
  BY DEF Sound, Threads, IsMap
<1>2. /\ IsHeap(h) /\ DOMAIN h = DOMAIN m.heap \cup {e} /\ Linked(h, list)
      /\ e \notin ToSet(list) /\ h[e].next = Null /\ h[e].prev = Null
      /\ \A x \in DOMAIN m.heap : h[x].next = m.heap[x].next /\ h[x].prev = m.heap[x].prev
      /\ h[e].value = value /\ \A x \in DOMAIN m.heap : h[x].value = m.heap[x].value
  <2>1. /\ IsHeap(h) /\ DOMAIN h = DOMAIN m.heap \cup {e}
        /\ h[e].next = Null /\ h[e].prev = Null
        /\ \A x \in DOMAIN m.heap : h[x].next = m.heap[x].next /\ h[x].prev = m.heap[x].prev
        /\ h[e].value = value /\ \A x \in DOMAIN m.heap : h[x].value = m.heap[x].value
    <3>1. IsHeap(m.heap) BY <1>1
    <3>2. Extends(h, m.heap, e, value) BY <3>1, HeapGains
    <3> HIDE DEF h
    <3>3. QED BY <3>2 DEF Extends
  <2> HIDE DEF h
  <2>2. DOMAIN m.heap \subseteq DOMAIN h BY <2>1
  <2>3. Linked(h, list) BY <1>1, <2>1, <2>2, MoreNames
  <2>4. e \notin ToSet(list) BY <1>1, ListedIsAt DEF Linked, IsList, At
  <2>5. QED BY <2>1, <2>3, <2>4
<1> HIDE DEF h
<1>3. Chained(m) \subseteq DOMAIN m.heap \ {Header} /\ ToSet(list) \subseteq Chained(m)
  BY <1>1, ChainedIs, NamesDiffer DEF IsMap, Hashed, Placed
<1>4. e # Header BY NamesDiffer
<1>5. \A x \in Chained(m) \ ToSet(list) :
        IsInt /\ m.heap[x].prev = Null /\ m.heap[x].next = Null
  BY <1>1 DEF Placed
<1>6. CASE Listed(mode)
  <2> DEFINE g == ChainAt(h, e, mode)
             new == Grown(list, e, mode)
  <2>1. r.heap = g /\ r = Gained(m, e, key, g) BY <1>6, <1>9 DEF Gained
  <2>2. /\ IsHeap(g) /\ DOMAIN g = DOMAIN h /\ Linked(g, new)
        /\ \A x \in DOMAIN h :
             /\ g[x].value = h[x].value
             /\ x \notin ToSet(list) \cup {Header, e} =>
                  g[x].next = h[x].next /\ g[x].prev = h[x].prev
    BY <1>1, <1>2, ChainAtLinked
  <2>3. new \in Seq(Entries) /\ ToSet(new) = ToSet(list) \cup {e} BY <1>1, GrownIs
  <2> HIDE DEF g, new
  <2>4. IsMap(r) /\ Chained(r) = Chained(m) \cup {e} BY <1>1, <1>2, <2>1, <2>2, TableGains
  <2>5. Rest(g, new) = Rest(m.heap, list) BY <1>2, <2>2, <2>3 DEF Rest
  <2>6. \A x \in DOMAIN m.heap : x \notin ToSet(list) \cup {Header} =>
          g[x].next = m.heap[x].next /\ g[x].prev = m.heap[x].prev
    BY <1>2, <2>2
  <2>7. \A x \in Rest(m.heap, list) : g[x].next = m.heap[x].next BY <2>6 DEF Rest
  <2>8. Loose(g, new) BY <1>1, <2>5, <2>7, StillLoose
  <2>9. Placed(r, new)
    <3>1. ASSUME NEW x \in Chained(r) \ ToSet(new)
          PROVE  IsInt /\ r.heap[x].prev = Null /\ r.heap[x].next = Null
      <4>1. x \in Chained(m) \ ToSet(list) BY <2>3, <2>4
      <4>2. x \in DOMAIN m.heap /\ x \notin ToSet(list) \cup {Header} BY <1>3, <4>1
      <4>3. QED BY <1>5, <2>1, <2>6, <4>1, <4>2
    <3>2. QED BY <1>3, <2>3, <2>4, <3>1 DEF Placed
  <2>10. Sound(r, new) BY <2>1, <2>2, <2>3, <2>4, <2>8, <2>9 DEF Sound, Threads
  <2>11. Gains(r, m, e, value) BY <1>2, <1>3, <2>1, <2>2, <2>4 DEF Gains
  <2>12. QED BY <1>6, <2>10, <2>11 DEF Added, new
<1>7. CASE ~Listed(mode)
  <2>1. r.heap = h /\ r = Gained(m, e, key, h) BY <1>7, <1>9 DEF Gained
  <2>2. IsMap(r) /\ Chained(r) = Chained(m) \cup {e}
    <3>1. IsMap(m) /\ IsHeap(h) /\ DOMAIN h = DOMAIN m.heap \cup {e} BY <1>1, <1>2
    <3>2. r = Gained(m, e, key, h) BY <2>1
    <3>3. QED BY <3>1, <3>2, TableGains
  <2>3. Rest(h, list) = Rest(m.heap, list) \cup {e} BY <1>2, <1>4 DEF Rest
  <2>4. Rest(m.heap, list) \subseteq DOMAIN m.heap BY DEF Rest
  <2>5. Loose(h, list)
    <3>1. \A x \in Rest(m.heap, list) : h[x].next = m.heap[x].next BY <1>2, <2>4
    <3>2. Rest(m.heap, list) \subseteq Rest(h, list) BY <2>3
    <3>3. \A x \in Rest(h, list) \ Rest(m.heap, list) : h[x].next = Null BY <1>2, <2>3
    <3>4. Loose(m.heap, list) BY <1>1
    <3>5. QED BY <3>1, <3>2, <3>3, <3>4, StillLoose
  <2>6. Placed(r, list)
    <3>1. ASSUME NEW x \in Chained(r) \ ToSet(list)
          PROVE  IsInt /\ r.heap[x].prev = Null /\ r.heap[x].next = Null
      <4>1. CASE x = e BY <1>2, <1>7, <2>1, <4>1 DEF Listed
      <4>2. CASE x # e BY <1>2, <1>3, <1>5, <2>1, <2>2, <4>2
      <4>3. QED BY <4>1, <4>2
    <3>2. QED BY <1>3, <2>2, <3>1 DEF Placed
  <2>7. Sound(r, list) BY <1>1, <1>2, <2>1, <2>2, <2>5, <2>6 DEF Sound, Threads
  <2>8. Gains(r, m, e, value) BY <1>2, <1>3, <2>1, <2>2 DEF Gains
  <2>9. QED BY <1>7, <2>7, <2>8 DEF Added
<1>8. QED BY <1>6, <1>7

LEMMA InsertSound ==
    ASSUME kind \in Kinds, max \in Nat, NEW m, NEW list, Sound(m, list), NEW e \in Entries,
           e \notin DOMAIN m.heap, NEW key \in Keys, key = NameKey(e), ~Has(m, key),
           NEW value \in Values \cup {Null}, NEW mode, IsInt => Excess(m) = 0
    PROVE  /\ Sound(Insert(m, e, key, value, mode), Added(Kept(list, Excess(m), mode), e, mode))
           /\ Gains(Insert(m, e, key, value, mode), Evict(m, mode), e, value)
<1> DEFINE a == Evict(m, mode)
           k == Kept(list, Excess(m), mode)
           b == IF a.count >= Threshold(Len(a.table)) THEN Rehash(a) ELSE a
           h == HeapWith(b.heap, e, key, value)
           r == Gained(b, e, key, IF Listed(mode) THEN ChainAt(h, e, mode) ELSE h)
<1>1. Insert(m, e, key, value, mode) = r BY DEF Insert, Gained, HeapWith
<1>2. Sound(a, k) /\ Less(a, m) BY EvictSound
<1> HIDE DEF a, k
<1>3. Sound(b, k) /\ Chained(b) = Chained(a) /\ b.heap = a.heap
  <2>1. Sound(Rehash(a), k) /\ Chained(Rehash(a)) = Chained(a) /\ Rehash(a).heap = a.heap
    BY <1>2, RehashSound
  <2>2. QED BY <1>2, <2>1
<1> HIDE DEF b
<1>4. DOMAIN b.heap = DOMAIN m.heap BY <1>2, <1>3 DEF Less
<1>5. ~Has(b, key)
  <2>1. key \in Int BY LinkedMapAssumption
  <2>2. IsMap(m) /\ IsMap(b) BY <1>3 DEF Sound
  <2>3. Chained(b) \subseteq DOMAIN b.heap BY <2>2, ChainedIs DEF IsMap, Hashed
  <2>4. \A x \in Chained(b) : x \in Chained(m) /\ b.heap[x].key = m.heap[x].key
    BY <1>2, <1>3, <1>4, <2>3 DEF Less
  <2>5. ~\E x \in Chained(m) : m.heap[x].key = key BY <2>1, <2>2, FindIs
  <2>6. QED BY <2>1, <2>2, <2>4, <2>5, FindIs
<1>6. Sound(r, Added(k, e, mode)) /\ Gains(r, b, e, value) BY <1>3, <1>4, <1>5, GainSound
<1> HIDE DEF r
<1>7. Gains(r, a, e, value) BY <1>3, <1>6 DEF Gains
<1>8. QED BY <1>1, <1>6, <1>7 DEF a, k

(* What put leaves of a map: the key's entry has another value and place,  *)
(* or there is a new one, and room for it.                                 *)
Overwrites(r, m, list, key, value, mode) ==
    /\ Sound(r, Moved(list, Find(m, key), mode)) /\ Gains(r, m, Find(m, key), value)
Inserts(r, m, list, e, value, mode) ==
    /\ Sound(r, Added(Kept(list, Excess(m), mode), e, mode))
    /\ Gains(r, Evict(m, mode), e, value)
PutsKey(r, m, list, key, value, mode) ==
    IF Has(m, key) THEN Overwrites(r, m, list, key, value, mode)
    ELSE \E e \in Entries \ DOMAIN m.heap :
           NameKey(e) = key /\ Inserts(r, m, list, e, value, mode)

LEMMA PutSound ==
    ASSUME kind \in Kinds, max \in Nat, NEW m, NEW list, Sound(m, list), NEW key \in Keys,
           ~Has(m, key) => Room(m.heap, key), NEW value \in Values \cup {Null},
           NEW mode \in Modes, IsInt /\ ~Has(m, key) => Excess(m) = 0
    PROVE  PutsKey(Put1(m, key, value, mode), m, list, key, value, mode)
<1> DEFINE r == Put1(m, key, value, mode)
<1>1. CASE Has(m, key)
  <2>1. r = Overwrite(m, key, value, mode) BY <1>1 DEF Put1
  <2>2. Overwrites(Overwrite(m, key, value, mode), m, list, key, value, mode)
    BY <1>1, OverwriteSound DEF Overwrites
  <2> HIDE DEF r
  <2>3. QED BY <1>1, <2>1, <2>2 DEF PutsKey, r
<1>2. CASE ~Has(m, key)
  <2> DEFINE e == Fresh(m.heap, key)
  <2>1. r = Insert(m, e, key, value, mode) BY <1>2 DEF Put1
  <2>2. e \in Entries /\ e \notin DOMAIN m.heap /\ key = NameKey(e)
    BY <1>2, FreshIs DEF NameKey
  <2> HIDE DEF e, r
  <2>3. Inserts(Insert(m, e, key, value, mode), m, list, e, value, mode)
    BY <1>2, <2>2, InsertSound DEF Inserts
  <2>4. QED BY <1>2, <2>1, <2>2, <2>3 DEF PutsKey, r
<1>3. QED BY <1>1, <1>2

(* A map whose names are those of its entries has room for another key.    *)
LEMMA RoomIs ==
    ASSUME kind \in Kinds, NEW m, NEW list, Sound(m, list), NEW key \in Keys,
           DOMAIN m.heap = {Header} \cup Chained(m)
    PROVE  /\ Room(m.heap, key)
           /\ ~Has(m, key) => \A e \in DOMAIN m.heap \ {Header} : NameKey(e) # key
<1>1. IsMap(m) /\ IsHeap(m.heap) /\ OneEach(m) BY DEF Sound, IsMap
<1>2. <<key, 1>> \in Entries /\ <<key, 2>> \in Entries BY LinkedMapAssumption DEF Entries
<1>3. <<key, 1>> # Header /\ <<key, 2>> # Header BY <1>2, NamesDiffer
<1>4. \A e \in DOMAIN m.heap : m.heap[e].key = NameKey(e) BY <1>1 DEF IsHeap, NameKey
<1>5. Room(m.heap, key)
  <2>1. ASSUME <<key, 1>> \in DOMAIN m.heap, <<key, 2>> \in DOMAIN m.heap PROVE FALSE
    <3>1. m.heap[<<key, 1>>].key = key /\ m.heap[<<key, 2>>].key = key
      BY <1>4, <2>1 DEF NameKey
    <3>2. <<key, 1>> = <<key, 2>> BY <1>1, <1>3, <2>1, <3>1 DEF OneEach
    <3>3. QED BY <3>2
  <2>2. QED BY <2>1 DEF Room
<1>6. ASSUME ~Has(m, key) PROVE \A e \in DOMAIN m.heap \ {Header} : NameKey(e) # key
  <2>1. key \in Int BY LinkedMapAssumption
  <2>2. \A e \in Chained(m) : m.heap[e].key # key BY <1>1, <1>6, <2>1, FindIs
  <2>3. QED BY <1>4, <2>2
<1>7. QED BY <1>5, <1>6

-----------------------------------------------------------------------------
(* Clear and Sort.                                                         *)

LEMMA ClearSound ==
    ASSUME kind \in Kinds, NEW m, NEW list, Sound(m, list)
    PROVE  Sound(Clear1(m), <<>>) /\ DOMAIN Clear1(m).heap = DOMAIN m.heap
<1> DEFINE h == m.heap
           a == [h EXCEPT ![Header].next = Header]
           g == [a EXCEPT ![Header].prev = Header]
           r == Clear1(m)
           t == [b \in DOMAIN m.table |-> {}]
<1>1. /\ IsMap(m) /\ IsHeap(h) /\ list \in Seq(Entries) /\ Linked(h, list) /\ Loose(h, list)
  BY DEF Sound, Threads, IsMap
<1>2. r = [table |-> t, heap |-> g, count |-> 0] BY DEF Clear1
<1> HIDE DEF r
<1>3. Header \in Links /\ Header \in DOMAIN h /\ h \in [DOMAIN h -> Cells]
  BY <1>1 DEF Links, Names, IsHeap
<1>4. a \in [DOMAIN h -> Cells] /\ \A x \in DOMAIN h :
        a[x] = IF x = Header THEN [h[x] EXCEPT !.next = Header] ELSE h[x]
  BY <1>3 DEF Cells
<1> HIDE DEF a
<1>5. g \in [DOMAIN h -> Cells] /\ \A x \in DOMAIN h :
        g[x] = IF x = Header THEN [a[x] EXCEPT !.prev = Header] ELSE a[x]
  BY <1>3, <1>4 DEF Cells
<1> HIDE DEF g
<1>6. \A x \in DOMAIN h : /\ g[x].key = h[x].key
                          /\ x # Header => g[x].next = h[x].next
                          /\ x = Header => g[x].next = Header /\ g[x].prev = Header
  <2> SUFFICES ASSUME NEW x \in DOMAIN h
               PROVE  /\ g[x].key = h[x].key
                      /\ x # Header => g[x].next = h[x].next
                      /\ x = Header => g[x].next = Header /\ g[x].prev = Header
    OBVIOUS
  <2>1. h[x] \in Cells /\ a[x] \in Cells BY <1>3, <1>4
  <2>2. CASE x # Header BY <1>4, <1>5, <2>2
  <2>3. CASE x = Header
    <3>1. a[x] = [h[x] EXCEPT !.next = Header] /\ g[x] = [a[x] EXCEPT !.prev = Header]
      BY <1>4, <1>5, <2>3
    <3>2. a[x].key = h[x].key /\ a[x].next = Header BY <2>1, <3>1 DEF Cells
    <3>3. g[x].key = a[x].key /\ g[x].next = a[x].next /\ g[x].prev = Header
      BY <2>1, <3>1 DEF Cells
    <3>4. QED BY <2>3, <3>2, <3>3
  <2>4. QED BY <2>2, <2>3
<1>7. DOMAIN g = DOMAIN h /\ IsHeap(g) BY <1>1, <1>5, <1>6 DEF IsHeap
<1>8. /\ Len(m.table) \in Nat \ {0} /\ DOMAIN m.table = 1..Len(m.table)
  BY <1>1, ChainedIs DEF IsMap, Hashed
<1>9. t \in Seq(SUBSET Entries) /\ Len(t) = Len(m.table) /\ \A b \in 1..Len(t) : t[b] = {}
  <2>1. t \in [1..Len(m.table) -> SUBSET Entries] BY <1>8
  <2>2. QED BY <1>8, <2>1
<1> HIDE DEF t
<1>10. r \in Maps BY <1>2, <1>7, <1>9, HeapIsOne DEF Maps
<1>11. r.table = t /\ r.heap = g /\ r.count = 0 BY <1>2
<1>12. Chained(r) = {} BY <1>9, <1>10, <1>11, ChainedIs
<1>13. IsMap(r)
  <2>1. Hashed(r) BY <1>8, <1>9, <1>11 DEF Hashed
  <2>2. OneEach(r) BY <1>12 DEF OneEach
  <2>3. Counted(r) BY <1>11, <1>12, FS_EmptySet DEF Counted
  <2>4. QED BY <1>7, <1>10, <1>11, <2>1, <2>2, <2>3 DEF IsMap
<1>14. <<>> \in Seq(Entries) /\ Len(<<>>) = 0 /\ ToSet(<<>>) = {}
  <2>1. ToSet(<<>>) = {} BY DEF ToSet
  <2>2. QED BY <2>1
<1>15. Linked(g, <<>>)
  <2>1. IsList(g, <<>>) BY <1>14 DEF IsList
  <2>2. At(<<>>, 0) = Header /\ At(<<>>, 0 + 1) = Header BY <1>14 DEF At
  <2>3. QED BY <1>3, <1>6, <1>14, <2>1, <2>2 DEF Linked
<1>16. Rest(g, <<>>) = DOMAIN h \ {Header} BY <1>7, <1>14 DEF Rest
<1>17. Loose(g, <<>>)
  <2>1. PICK f : IsWalk(h, f) BY <1>1, WalkExists
  <2>2. Null \notin DOMAIN h /\ Header # Null BY <1>1, NamesDiffer DEF IsHeap, Names
  <2>3. ASSUME NEW e \in DOMAIN h \ {Header} PROVE h[e].next \in DOMAIN h \cup {Null}
    <3>1. CASE e \in ToSet(list)
      <4>1. PICK i \in 1..Len(list) : e = At(list, i) BY <1>1, <3>1, ListedIsAt
      <4>2. i \in 0..Len(list) BY <1>1
      <4>3. h[e].next = At(list, i + 1) BY <1>1, <4>1, <4>2 DEF Linked
      <4>4. At(list, i + 1) \in DOMAIN h BY <1>1, ListType DEF Linked
      <4>5. QED BY <4>3, <4>4
    <3>2. CASE e \notin ToSet(list)
      <4>1. e \in Rest(h, list) BY <3>2 DEF Rest
      <4>2. h[e].next \in Rest(h, list) \cup {Header, Null} BY <1>1, <4>1 DEF Loose
      <4>3. Rest(h, list) \subseteq DOMAIN h BY DEF Rest
      <4>4. QED BY <1>3, <4>2, <4>3
    <3>3. QED BY <3>1, <3>2
  <2>4. f[Header] = <<>> /\ f[Null] = <<>>
        /\ \A e \in DOMAIN h \ {Header} : f[e] = <<e>> \o f[h[e].next]
    BY <1>3, <2>1, <2>2 DEF IsWalk
  <2>5. ASSUME NEW e \in Rest(g, <<>>)
        PROVE  /\ g[e].next \in Rest(g, <<>>) \cup {Header, Null}
               /\ f[e] = <<e>> \o (IF g[e].next \in {Header, Null} THEN <<>> ELSE f[g[e].next])
    <3>1. e \in DOMAIN h \ {Header} /\ g[e].next = h[e].next BY <1>6, <1>16
    <3>2. g[e].next \in Rest(g, <<>>) \cup {Header, Null} BY <1>16, <2>3, <3>1
    <3>3. f[e] = <<e>> \o f[g[e].next] BY <2>4, <3>1
    <3>4. QED BY <2>4, <3>2, <3>3
  <2>6. QED BY <2>5 DEF Loose
<1>18. Placed(r, <<>>) BY <1>12, <1>14 DEF Placed
<1>19. QED BY <1>7, <1>11, <1>13, <1>14, <1>15, <1>17, <1>18 DEF Sound, Threads, r

(* The entries in ascending order: each of the list's is there, and once.  *)
LEMMA AscendingIs ==
    ASSUME NEW m, NEW list, Sound(m, list)
    PROVE  /\ Len(Ascending(m, list)) = Len(list)
           /\ \A i \in 1..Len(list) : Ascending(m, list)[i] \in ToSet(list)
           /\ \A e \in ToSet(list) : \E i \in 1..Len(list) : e = Ascending(m, list)[i]
           /\ \A i, j \in 1..Len(list) : i < j =>
                m.heap[Ascending(m, list)[i]].key < m.heap[Ascending(m, list)[j]].key
<1> DEFINE S == ToSet(list)
           n == Len(list)
           Below(e) == {f \in S : m.heap[f].key < m.heap[e].key}
           R == [e \in S |-> Cardinality(Below(e))]
           A == Ascending(m, list)
<1>1. list \in Seq(Entries) /\ IsList(m.heap, list) /\ IsMap(m) /\ IsHeap(m.heap)
      /\ S \subseteq Chained(m)
  BY DEF Sound, Threads, Linked, IsMap, Placed
<1>2. n \in Nat /\ DOMAIN list = 1..n /\ IsFiniteSet(S) /\ Cardinality(S) = n
  BY <1>1, LengthIs
<1>3. \A e \in S : m.heap[e].key \in Int
  <2>1. Chained(m) \subseteq DOMAIN m.heap BY <1>1, ChainedIs DEF IsMap, Hashed
  <2>2. QED BY <1>1, <2>1, HeapKeys
<1>4. A = [i \in 1..n |-> CHOOSE e \in S : Cardinality(Below(e)) = i - 1]
  BY <1>2 DEF Ascending
<1> HIDE DEF A
<1>5. ASSUME NEW e \in S PROVE IsFiniteSet(Below(e)) /\ Cardinality(Below(e)) \in 0..n - 1
  <2>1. Below(e) \in SUBSET (S \ {e}) BY <1>3
  <2>2. IsFiniteSet(S \ {e}) /\ Cardinality(S \ {e}) = n - 1 BY <1>2, FS_RemoveElement
  <2> HIDE DEF Below, S
  <2>3. IsFiniteSet(Below(e)) /\ Cardinality(Below(e)) <= n - 1 BY <2>1, <2>2, FS_Subset
  <2>4. QED BY <1>2, <2>3, FS_CardinalityType
<1>6. ASSUME NEW e \in S, NEW f \in S, m.heap[e].key < m.heap[f].key
      PROVE  Cardinality(Below(e)) # Cardinality(Below(f))
  <2>1. Below(e) \in SUBSET Below(f) /\ e \in Below(f) /\ e \notin Below(e) BY <1>3, <1>6
  <2>2. IsFiniteSet(Below(f)) BY <1>5
  <2> HIDE DEF Below
  <2>3. Below(e) # Below(f) BY <2>1
  <2>4. QED BY <2>1, <2>2, <2>3, FS_Subset
<1>7. R \in Injection(S, 0..n - 1)
  <2>1. R \in [S -> 0..n - 1] BY <1>5
  <2>2. ASSUME NEW e \in S, NEW f \in S, R[e] = R[f] PROVE e = f
    <3>1. m.heap[e].key = m.heap[f].key BY <1>3, <1>6, <2>2
    <3>2. QED BY <1>1, <3>1 DEF IsMap, OneEach
  <2> HIDE DEF R
  <2>3. QED BY <2>1, <2>2 DEF Injection, IsInjective
<1>8. R \in Surjection(S, 0..n - 1)
  <2>1. IsFiniteSet(0..n - 1) /\ Cardinality(0..n - 1) = n
    <3>1. 0 \in Int /\ n - 1 \in Int BY <1>2
    <3>2. IsFiniteSet(0..n - 1) BY <3>1, FS_Interval
    <3>3. Cardinality(0..n - 1) = IF 0 > n - 1 THEN 0 ELSE (n - 1) - 0 + 1
      BY <3>1, FS_Interval
    <3>4. QED BY <1>2, <3>2, <3>3
  <2> HIDE DEF R
  <2>2. QED BY <1>2, <1>7, <2>1, FS_Injection
<1>9. ASSUME NEW i \in 1..n PROVE A[i] \in S /\ Cardinality(Below(A[i])) = i - 1
  <2>1. i - 1 \in 0..n - 1 BY <1>2
  <2>2. PICK e \in S : R[e] = i - 1 BY <1>8, <2>1 DEF Surjection
  <2>3. Cardinality(Below(e)) = i - 1 BY <2>2
  <2>4. A[i] = CHOOSE x \in S : Cardinality(Below(x)) = i - 1 BY <1>4
  <2> HIDE DEF Below
  <2>5. QED BY <2>3, <2>4
<1>10. Len(A) = n BY <1>2, <1>4
<1>11. ASSUME NEW i \in 1..n, NEW j \in 1..n, i < j
       PROVE  m.heap[A[i]].key < m.heap[A[j]].key
  <2>1. A[i] \in S /\ A[j] \in S BY <1>9
  <2>2. Cardinality(Below(A[i])) = i - 1 /\ Cardinality(Below(A[j])) = j - 1 BY <1>9
  <2>3. ASSUME ~(m.heap[A[i]].key < m.heap[A[j]].key) PROVE FALSE
    <3>1. Below(A[j]) \in SUBSET Below(A[i]) BY <1>3, <2>1, <2>3
    <3>2. IsFiniteSet(Below(A[i])) BY <1>5, <2>1
    <3> HIDE DEF Below
    <3>3. Cardinality(Below(A[j])) <= Cardinality(Below(A[i])) BY <3>1, <3>2, FS_Subset
    <3>4. QED BY <1>11, <2>2, <3>3
  <2>4. QED BY <2>3
<1>12. ASSUME NEW e \in S PROVE \E i \in 1..n : e = A[i]
  <2>1. PICK i \in 1..n : Cardinality(Below(e)) = i - 1
    <3>1. Cardinality(Below(e)) \in 0..n - 1 BY <1>5
    <3> HIDE DEF Below
    <3>2. Cardinality(Below(e)) + 1 \in 1..n
          /\ Cardinality(Below(e)) = (Cardinality(Below(e)) + 1) - 1
      BY <1>2, <3>1
    <3>3. QED BY <3>2
  <2>2. A[i] \in S /\ Cardinality(Below(A[i])) = i - 1 BY <1>9
  <2>3. R[e] = R[A[i]] BY <2>1, <2>2
  <2> HIDE DEF R
  <2>4. e = A[i] BY <1>7, <2>2, <2>3 DEF Injection, IsInjective
  <2>5. QED BY <2>4
<1>13. QED BY <1>2, <1>9, <1>10, <1>11, <1>12 DEF A

IsBuilt(f, m, list, n) ==
    f = [i \in 0..n |-> IF i = 0 THEN Clear1(m)
                        ELSE Put1(f[i - 1], m.heap[list[i]].key, m.heap[list[i]].value, "LAST")]

LEMMA BuildExists ==
    ASSUME NEW m, NEW list, NEW n \in Nat PROVE \E f : IsBuilt(f, m, list, n)
<1> DEFINE P(g, i) == Put1(g, m.heap[list[i]].key, m.heap[list[i]].value, "LAST")
           S == {k \in Nat : \E f : IsBuilt(f, m, list, k)}
<1>1. 0 \in S
  <2>1. IsBuilt([i \in 0..0 |-> Clear1(m)], m, list, 0) BY DEF IsBuilt
  <2>2. QED BY <2>1
<1>2. ASSUME NEW k \in S PROVE k + 1 \in S
  <2>1. PICK f : IsBuilt(f, m, list, k) OBVIOUS
  <2>10. f = [i \in 0..k |-> IF i = 0 THEN Clear1(m) ELSE P(f[i - 1], i)]
    BY <2>1 DEF IsBuilt
  <2> DEFINE g == [i \in 0..k + 1 |-> IF i <= k THEN f[i] ELSE P(f[k], i)]
  <2> HIDE DEF P
  <2>2. ASSUME NEW i \in 0..k + 1
        PROVE  g[i] = IF i = 0 THEN Clear1(m) ELSE P(g[i - 1], i)
    <3>1. CASE i = 0
      <4>1. 0 \in 0..k /\ 0 \in 0..k + 1 OBVIOUS
      <4>2. QED BY <2>10, <3>1, <4>1
    <3>2. CASE i # 0 /\ i <= k
      <4>1. i \in 0..k /\ i - 1 \in 0..k + 1 /\ i - 1 <= k BY <3>2
      <4>2. g[i] = f[i] /\ g[i - 1] = f[i - 1] BY <4>1
      <4>3. f[i] = P(f[i - 1], i) BY <2>10, <3>2, <4>1
      <4>4. QED BY <3>2, <4>2, <4>3
    <3>3. CASE i = k + 1
      <4>1. i - 1 = k /\ k \in 0..k + 1 /\ i # 0 BY <3>3
      <4>2. g[k] = f[k] BY <4>1
      <4>3. QED BY <3>3, <4>1, <4>2
    <3>4. QED BY <3>1, <3>2, <3>3
  <2>3. g = [i \in 0..k + 1 |-> g[i]] OBVIOUS
  <2> HIDE DEF g
  <2>4. g = [i \in 0..k + 1 |-> IF i = 0 THEN Clear1(m) ELSE P(g[i - 1], i)] BY <2>2, <2>3
  <2>5. IsBuilt(g, m, list, k + 1) BY <2>4 DEF IsBuilt, P
  <2>6. QED BY <2>5
<1> HIDE DEF S
<1>3. S = Nat
  <2>1. S \in SUBSET Nat BY DEF S
  <2>2. QED BY <1>1, <1>2, <2>1, Induction
<1>4. QED BY <1>3 DEF S

LEMMA SortIs ==
    ASSUME NEW m, NEW list, list = Ascending(m, List(m)), Len(list) \in Nat
    PROVE  \E f : IsBuilt(f, m, list, Len(list)) /\ Sort1(m) = f[Len(list)]
<1> DEFINE f == CHOOSE g : IsBuilt(g, m, list, Len(list))
<1>1. IsBuilt(f, m, list, Len(list)) BY BuildExists
<1>2. Sort1(m) = f[Len(list)] BY DEF Sort1, IsBuilt
<1>3. QED BY <1>1, <1>2

(* After i entries were put, the map has the last of them, as many as it   *)
(* may have.                                                               *)
Width(i) == IF max > 0 /\ i > max THEN max ELSE i
Behind(r, now, m, list, i) ==
    /\ Len(now) = Width(i)
    /\ \A j \in 1..Len(now) :
         /\ NameKey(now[j]) = NameKey(list[(i - Len(now)) + j])
         /\ r.heap[now[j]].value = m.heap[list[(i - Len(now)) + j]].value

LEMMA PutBehind ==
    ASSUME kind \in Kinds, max \in Nat, ~IsInt, NEW r, NEW now, Sound(r, now), NEW m, NEW list,
           NEW i \in Nat, Behind(r, now, m, list, i), NEW e \in Entries, e \notin DOMAIN r.heap,
           NameKey(e) = NameKey(list[i + 1]), NEW q, NEW value,
           value = m.heap[list[i + 1]].value, Inserts(q, r, now, e, value, "LAST")
    PROVE  \E new : Sound(q, new) /\ Behind(q, new, m, list, i + 1)
<1> DEFINE w == Len(now)
           x == Excess(r)
           a == Evict(r, "LAST")
           k == Kept(now, x, "LAST")
           new == Added(k, e, "LAST")
<1>1. /\ now \in Seq(Entries) /\ w \in Nat /\ w = Width(i) /\ r.count = w
  BY CountIsLength DEF Sound, Threads, Behind
<1>2. x \in 0..w /\ w - x + 1 = Width(i + 1)
  <2> HIDE DEF w
  <2>1. x = IF max > 0 /\ w >= max THEN w - max + 1 ELSE 0 BY <1>1 DEF Excess
  <2> HIDE DEF x
  <2>2. CASE max > 0 /\ i >= max
    <3>1. w = max /\ x = 1 /\ Width(i + 1) = max BY <1>1, <2>1, <2>2 DEF Width
    <3>2. QED BY <2>2, <3>1
  <2>3. CASE ~(max > 0 /\ i >= max)
    <3>1. w = i /\ x = 0 /\ Width(i + 1) = i + 1 BY <1>1, <2>1, <2>3 DEF Width
    <3>2. QED BY <3>1
  <2>4. QED BY <2>2, <2>3
<1>3. k \in Seq(Entries) /\ Len(k) = w - x /\ \A j \in 1..w - x : k[j] = now[j + x]
  <2>1. k \in Seq(Entries) /\ Len(k) = w - x BY <1>1, <1>2, KeptType
  <2>2. QED BY <2>1 DEF Kept
<1>4. Sound(a, k) /\ Less(a, r) BY EvictSound
<1>5. Sound(q, new) /\ Gains(q, a, e, value) BY DEF Inserts
<1> HIDE DEF w, x, a, k
<1>6. new = Grown(k, e, "LAST") BY DEF Added, Listed
<1>7. Len(new) = w - x + 1 /\ new[w - x + 1] = e /\ \A j \in 1..w - x : new[j] = now[j + x]
  <2> HIDE DEF new
  <2>1. Len(new) = Len(k) + 1 /\ new[Len(k) + 1] = e /\ \A j \in 1..Len(k) : new[j] = k[j]
    BY <1>3, <1>6, GrownAt
  <2>2. QED BY <1>3, <2>1
<1> HIDE DEF new
<1>8. (i + 1) - Len(new) = (i - w) + x BY <1>1, <1>2, <1>7
<1>9. ASSUME NEW j \in 1..Len(new)
      PROVE  /\ NameKey(new[j]) = NameKey(list[((i + 1) - Len(new)) + j])
             /\ q.heap[new[j]].value = m.heap[list[((i + 1) - Len(new)) + j]].value
  <2>1. CASE j = w - x + 1
    <3>1. ((i + 1) - Len(new)) + j = i + 1 BY <1>1, <1>2, <1>7, <2>1
    <3>2. new[j] = e /\ q.heap[e].value = value BY <1>5, <1>7, <2>1 DEF Gains
    <3>3. QED BY <3>1, <3>2
  <2>2. CASE j # w - x + 1
    <3>1. j \in 1..w - x /\ j + x \in 1..w /\ ((i + 1) - Len(new)) + j = (i - w) + (j + x)
      BY <1>1, <1>2, <1>7, <1>8, <2>2
    <3>2. new[j] = now[j + x] /\ new[j] = k[j] BY <1>3, <1>7, <3>1
    <3>3. /\ NameKey(now[j + x]) = NameKey(list[(i - w) + (j + x)])
          /\ r.heap[now[j + x]].value = m.heap[list[(i - w) + (j + x)]].value
      BY <3>1 DEF Behind, w
    <3>4. k[j] \in Chained(a)
      <4>1. ToSet(k) \subseteq Chained(a) BY <1>4 DEF Sound, Threads, Placed
      <4>2. j \in DOMAIN k BY <1>3, <3>1
      <4>3. QED BY <4>1, <4>2 DEF ToSet
    <3>5. k[j] # e
      <4>1. Chained(a) \subseteq DOMAIN a.heap BY <1>4, ChainedIs DEF Sound, IsMap, Hashed
      <4>2. QED BY <1>4, <3>4, <4>1 DEF Less
    <3>6. q.heap[k[j]].value = a.heap[k[j]].value /\ a.heap[k[j]].value = r.heap[k[j]].value
      BY <1>4, <1>5, <3>4, <3>5 DEF Gains, Less
    <3>7. QED BY <3>1, <3>2, <3>3, <3>6
  <2>3. QED BY <2>1, <2>2
<1>10. Behind(q, new, m, list, i + 1) BY <1>2, <1>7, <1>9 DEF Behind
<1>11. QED BY <1>5, <1>10

(* Putting all entries again, one by one, in ascending order: a limit      *)
(* leaves the last of them.                                                *)
Sorts(r, m, old, new) ==
    /\ Sound(r, new) /\ Len(new) = Width(Len(old))
    /\ \A i, j \in 1..Len(new) : i < j => NameKey(new[i]) < NameKey(new[j])
    /\ \A e \in ToSet(new) : \E x \in ToSet(old) :
         NameKey(e) = NameKey(x) /\ r.heap[e].value = m.heap[x].value
    /\ \A x \in ToSet(old) :
         \/ \E e \in ToSet(new) : NameKey(e) = NameKey(x)
         \/ \A e \in ToSet(new) : NameKey(x) < NameKey(e)

LEMMA SortSound ==
    ASSUME kind \in Kinds, max \in Nat, ~IsInt, NEW m, NEW old, Sound(m, old),
           DOMAIN m.heap = {Header} \cup Chained(m)
    PROVE  \E new : Sorts(Sort1(m), m, old, new)
<1> DEFINE list == Ascending(m, List(m))
           n == Len(list)
<1>1. /\ old \in Seq(Entries) /\ IsMap(m) /\ IsHeap(m.heap) /\ Linked(m.heap, old)
      /\ Loose(m.heap, old) /\ ToSet(old) \subseteq Chained(m)
  BY DEF Sound, Threads, IsMap, Placed
<1>2. List(m) = old BY <1>1, ListIs
<1>3. /\ n = Len(old) /\ n \in Nat /\ \A i \in 1..n : list[i] \in ToSet(old)
      /\ \A e \in ToSet(old) : \E i \in 1..n : e = list[i]
      /\ \A i, j \in 1..n : i < j => m.heap[list[i]].key < m.heap[list[j]].key
  <2>1. Len(old) \in Nat BY <1>1
  <2>2. QED BY <1>2, <2>1, AscendingIs
<1>4. PICK f : IsBuilt(f, m, list, n) /\ Sort1(m) = f[n] BY <1>3, SortIs
<1> HIDE DEF list, n
<1> DEFINE e(i) == m.heap[list[i]]
           Done(i) == i <= n =>
             /\ \E now : Sound(f[i], now) /\ Behind(f[i], now, m, list, i)
             /\ \A x \in DOMAIN f[i].heap :
                  x \in DOMAIN m.heap \/ \E j \in 1..i : NameKey(x) = NameKey(list[j])
<1>5. f[0] = Clear1(m) /\ \A i \in 1..n : f[i] = Put1(f[i - 1], e(i).key, e(i).value, "LAST")
  BY <1>3, <1>4 DEF IsBuilt
<1>6. ASSUME NEW i \in 1..n
      PROVE  /\ e(i).key = NameKey(list[i]) /\ e(i).key \in Keys /\ e(i).key \in Int
             /\ e(i).value \in Values \cup {Null}
  <2>1. list[i] \in DOMAIN m.heap /\ list[i] \in Entries BY <1>1, <1>3, ChainedIs DEF IsMap
  <2>2. e(i) \in Cells BY <1>1, <2>1 DEF IsHeap
  <2>3. QED BY <1>1, <2>1, <2>2 DEF IsHeap, Cells, NameKey, Entries
<1>7. \A i, j \in 1..n : i < j => NameKey(list[i]) < NameKey(list[j]) BY <1>3, <1>6
<1>8. Done(0)
  <2>1. Sound(f[0], <<>>) /\ DOMAIN f[0].heap = DOMAIN m.heap BY <1>5, ClearSound
  <2>2. Behind(f[0], <<>>, m, list, 0) BY DEF Behind, Width
  <2>3. QED BY <2>1, <2>2
<1>9. ASSUME NEW i \in Nat, Done(i) PROVE Done(i + 1)
  <2> SUFFICES ASSUME i + 1 <= n
               PROVE  /\ \E new : Sound(f[i + 1], new) /\ Behind(f[i + 1], new, m, list, i + 1)
                      /\ \A x \in DOMAIN f[i + 1].heap :
                           \/ x \in DOMAIN m.heap
                           \/ \E j \in 1..i + 1 : NameKey(x) = NameKey(list[j])
    OBVIOUS
  <2> DEFINE key == e(i + 1).key
             value == e(i + 1).value
             before == f[i]
             after == f[i + 1]
  <2>1. i <= n /\ i + 1 \in 1..n /\ (i + 1) - 1 = i /\ 1..i \subseteq 1..n
        /\ \A j \in 1..i : j < i + 1
    BY <1>3
  <2>2. PICK now : Sound(before, now) /\ Behind(before, now, m, list, i) BY <1>9, <2>1
  <2>3. \A x \in DOMAIN before.heap :
          x \in DOMAIN m.heap \/ \E j \in 1..i : NameKey(x) = NameKey(list[j])
    BY <1>9, <2>1
  <2>4. /\ key = NameKey(list[i + 1]) /\ key \in Keys /\ value \in Values \cup {Null}
        /\ key \in Int /\ value = m.heap[list[i + 1]].value
    BY <1>6, <2>1
  <2>5. after = Put1(before, key, value, "LAST") BY <1>5, <2>1
  <2> HIDE DEF key, value, before, after
  <2>6. ASSUME NEW j \in 1..i PROVE NameKey(list[j]) # key
    <3>1. j \in 1..n /\ j < i + 1 BY <2>1
    <3>2. NameKey(list[j]) \in Int BY <1>6, <3>1
    <3>3. NameKey(list[j]) < key BY <1>7, <2>1, <2>4, <3>1
    <3>4. QED BY <2>4, <3>2, <3>3
  <2>7. Room(before.heap, key)
    <3>1. Room(m.heap, key) BY <2>4, RoomIs
    <3>2. PICK k \in {1, 2} : <<key, k>> \notin DOMAIN m.heap BY <3>1 DEF Room
    <3>3. ASSUME <<key, k>> \in DOMAIN before.heap PROVE FALSE
      <4>1. PICK j \in 1..i : NameKey(<<key, k>>) = NameKey(list[j]) BY <2>3, <3>2, <3>3
      <4>2. QED BY <2>6, <4>1 DEF NameKey
    <3>4. QED BY <3>2, <3>3 DEF Room
  <2>8. ~Has(before, key)
    <3>1. /\ IsMap(before) /\ Chained(before) = ToSet(now) /\ now \in Seq(Entries)
          /\ IsHeap(before.heap) /\ Chained(before) \subseteq DOMAIN before.heap
      BY <2>2, CountIsLength, ChainedIs DEF Sound, Threads, IsMap, Hashed
    <3>2. ASSUME NEW x \in ToSet(now) PROVE before.heap[x].key # key
      <4>1. PICK j \in 1..Len(now) : x = now[j] BY <3>1, <3>2 DEF ToSet
      <4>2. Len(now) = Width(i) /\ NameKey(x) = NameKey(list[(i - Len(now)) + j])
        BY <2>2, <4>1 DEF Behind
      <4>3. (i - Len(now)) + j \in 1..i BY <4>2 DEF Width
      <4>4. NameKey(x) # key BY <2>6, <4>2, <4>3
      <4>5. QED BY <3>1, <4>4 DEF IsHeap, NameKey
    <3>3. QED BY <2>4, <3>1, <3>2, FindIs
  <2>9. PICK x \in Entries \ DOMAIN before.heap :
          NameKey(x) = key /\ Inserts(after, before, now, x, value, "LAST")
    <3>1. "LAST" \in Modes BY DEF Modes
    <3>2. PutsKey(Put1(before, key, value, "LAST"), before, now, key, value, "LAST")
      BY <2>2, <2>4, <2>7, <3>1, PutSound
    <3>3. QED BY <2>5, <2>8, <3>2 DEF PutsKey
  <2>10. \E new : Sound(after, new) /\ Behind(after, new, m, list, i + 1)
    BY <2>2, <2>4, <2>9, PutBehind
  <2>11. DOMAIN after.heap = DOMAIN before.heap \cup {x}
    <3>1. Less(Evict(before, "LAST"), before) BY <2>2, EvictSound
    <3>2. QED BY <2>9, <3>1 DEF Inserts, Gains, Less
  <2>12. ASSUME NEW y \in DOMAIN after.heap
         PROVE  y \in DOMAIN m.heap \/ \E j \in 1..i + 1 : NameKey(y) = NameKey(list[j])
    <3>1. CASE y = x
      <4>1. i + 1 \in 1..i + 1 OBVIOUS
      <4>2. QED BY <2>4, <2>9, <3>1, <4>1
    <3>2. CASE y \in DOMAIN before.heap
      <4>1. 1..i \subseteq 1..i + 1 OBVIOUS
      <4>2. QED BY <2>3, <3>2, <4>1
    <3>3. QED BY <2>11, <3>1, <3>2
  <2>13. QED BY <2>10, <2>12 DEF after
<1> HIDE DEF Done
<1>10. \A i \in Nat : Done(i)
  <2> DEFINE S == {i \in Nat : Done(i)}
  <2>1. 0 \in S /\ \A i \in S : i + 1 \in S BY <1>8, <1>9
  <2> HIDE DEF S
  <2>2. S \in SUBSET Nat BY DEF S
  <2>3. S = Nat BY <2>1, <2>2, Induction
  <2>4. QED BY <2>3 DEF S
<1>11. Done(n) /\ n <= n BY <1>3, <1>10
<1>12. PICK new : Sound(f[n], new) /\ Behind(f[n], new, m, list, n) BY <1>11 DEF Done
<1> DEFINE d == n - Len(new)
<1>13. /\ Len(new) = Width(n) /\ d \in Nat /\ DOMAIN new = 1..Len(new) /\ Len(new) \in Nat
       /\ \A j \in 1..Len(new) : d + j \in 1..n
  <2>1. Len(new) = Width(n) /\ new \in Seq(Entries) BY <1>12 DEF Behind, Sound, Threads
  <2>2. QED BY <1>3, <2>1 DEF Width
<1>14. \A j \in 1..Len(new) : /\ NameKey(new[j]) = NameKey(list[d + j])
                               /\ f[n].heap[new[j]].value = m.heap[list[d + j]].value
  BY <1>12 DEF Behind
<1>15. ToSet(new) = {new[j] : j \in 1..Len(new)} BY <1>13 DEF ToSet
<1> HIDE DEF d
<1>16. \A i, j \in 1..Len(new) : i < j => NameKey(new[i]) < NameKey(new[j])
  <2>1. ASSUME NEW i \in 1..Len(new), NEW j \in 1..Len(new), i < j
        PROVE  NameKey(new[i]) < NameKey(new[j])
    <3>1. d + i < d + j BY <1>13, <2>1
    <3>2. QED BY <1>7, <1>13, <1>14, <3>1
  <2>2. QED BY <2>1
<1>17. ASSUME NEW x \in ToSet(new)
       PROVE  \E y \in ToSet(old) : NameKey(x) = NameKey(y) /\ f[n].heap[x].value = m.heap[y].value
  <2>1. PICK j \in 1..Len(new) : x = new[j] BY <1>15
  <2>2. list[d + j] \in ToSet(old) BY <1>3, <1>13
  <2>3. QED BY <1>14, <2>1, <2>2
<1>18. ASSUME NEW x \in ToSet(old)
       PROVE  \/ \E y \in ToSet(new) : NameKey(y) = NameKey(x)
              \/ \A y \in ToSet(new) : NameKey(x) < NameKey(y)
  <2>1. PICK i \in 1..n : x = list[i] BY <1>3
  <2>2. CASE i > d
    <3>1. i - d \in 1..Len(new) /\ d + (i - d) = i
      <4>1. d = n - Len(new) BY DEF d
      <4>2. i \in Int /\ i <= n /\ n \in Nat /\ Len(new) \in Nat /\ d \in Nat BY <1>3, <1>13
      <4>3. QED BY <2>2, <4>1, <4>2
    <3>2. new[i - d] \in ToSet(new) /\ NameKey(new[i - d]) = NameKey(list[i])
      BY <1>14, <1>15, <3>1
    <3>3. QED BY <2>1, <3>2
  <2>3. CASE i <= d
    <3>1. ASSUME NEW j \in 1..Len(new) PROVE NameKey(x) < NameKey(new[j])
      <4>1. i < d + j BY <1>13, <2>3
      <4>2. QED BY <1>7, <1>13, <1>14, <2>1, <4>1
    <3>2. QED BY <1>15, <3>1
  <2>4. QED BY <1>13, <2>2, <2>3
<1>19. Sorts(f[n], m, old, new) BY <1>3, <1>12, <1>13, <1>16, <1>17, <1>18 DEF Sorts
<1>20. QED BY <1>4, <1>19

-----------------------------------------------------------------------------
(* The steps.                                                              *)

(* Of the entries that a method took out nothing is kept.                  *)
Swept(m) == [table |-> m.table, heap |-> [e \in {Header} \cup Chained(m) |-> m.heap[e]],
             count |-> m.count]

LEMMA SweptSound ==
    ASSUME kind \in Kinds, NEW m, NEW list, Sound(m, list)
    PROVE  /\ Sound(Swept(m), list) /\ Chained(Swept(m)) = Chained(m)
           /\ DOMAIN Swept(m).heap = {Header} \cup Chained(m)
<1> DEFINE r == Swept(m)
           D == {Header} \cup Chained(m)
           h == [e \in D |-> m.heap[e]]
<1>1. /\ list \in Seq(Entries) /\ m \in Maps /\ IsHeap(m.heap) /\ Hashed(m) /\ OneEach(m)
      /\ Counted(m) /\ Linked(m.heap, list) /\ Placed(m, list)
  BY DEF Sound, Threads, IsMap
<1>2. r.table = m.table /\ r.heap = h /\ r.count = m.count BY DEF Swept
<1>3. Chained(r) = Chained(m) BY <1>2 DEF Chained
<1>4. Chained(m) \subseteq DOMAIN m.heap \ {Header} /\ D \subseteq DOMAIN m.heap
  BY <1>1, ChainedIs, NamesDiffer DEF Hashed, IsHeap
<1>5. DOMAIN h = D /\ \A x \in D : h[x] = m.heap[x] OBVIOUS
<1>6. h \in [D -> Cells] BY <1>1, <1>4 DEF IsHeap
<1> HIDE DEF h, D
<1>7. IsHeap(h) BY <1>1, <1>4, <1>5, <1>6 DEF IsHeap, D
<1>8. r \in Maps
  <2>1. r = [table |-> m.table, heap |-> h, count |-> m.count] BY DEF Swept, h, D
  <2>2. QED BY <1>1, <1>7, <2>1, HeapIsOne DEF Maps
<1>9. \A key : BucketOf(r, key) = BucketOf(m, key) BY <1>2 DEF BucketOf
<1> HIDE DEF r
<1>10. Hashed(r)
  <2>1. \A b \in 1..Len(m.table) : m.table[b] \subseteq D BY <1>1, ChainedIs DEF D
  <2>2. ASSUME NEW b \in 1..Len(m.table), NEW e \in m.table[b]
        PROVE  e \in DOMAIN h /\ BucketOf(r, h[e].key) = b
    <3>1. e \in D /\ h[e] = m.heap[e] BY <1>5, <2>1
    <3>2. BucketOf(m, m.heap[e].key) = b BY <1>1 DEF Hashed
    <3>3. QED BY <1>5, <1>9, <3>1, <3>2
  <2>3. QED BY <1>1, <1>2, <2>2 DEF Hashed
<1>11. OneEach(r) BY <1>1, <1>2, <1>3, <1>5 DEF OneEach, D
<1>12. Counted(r) BY <1>1, <1>2, <1>3 DEF Counted
<1>13. \A i \in Int : At(list, i) \in D BY <1>1, ListedIsAt DEF At, Placed, ToSet, D
<1>14. Linked(h, list)
  <2>1. IsList(h, list)
    <3>1. \A i \in 1..Len(list) : list[i] \in D
      <4>1. \A i \in 1..Len(list) : list[i] = At(list, i) /\ i \in Int BY DEF At
      <4>2. QED BY <1>13, <4>1
    <3>2. QED BY <1>1, <1>5, <3>1 DEF Linked, IsList
  <2>2. ASSUME NEW i \in 0..Len(list)
        PROVE  h[At(list, i)].next = At(list, i + 1) /\ h[At(list, i + 1)].prev = At(list, i)
    <3>1. At(list, i) \in D /\ At(list, i + 1) \in D BY <1>13
    <3>2. QED BY <1>1, <1>5, <3>1 DEF Linked
  <2>3. QED BY <2>1, <2>2 DEF Linked
<1>15. Rest(h, list) \subseteq Chained(m) \ ToSet(list) BY <1>5 DEF Rest, D
<1>16. Loose(h, list)
  <2> DEFINE f == [e \in Rest(h, list) |-> <<e>> \o <<>>]
  <2>1. ASSUME NEW e \in Rest(h, list)
        PROVE  /\ h[e].next \in Rest(h, list) \cup {Header, Null}
               /\ f[e] = <<e>> \o (IF h[e].next \in {Header, Null} THEN <<>> ELSE f[h[e].next])
    <3>1. h[e].next = Null
      <4>1. e \in Chained(m) \ ToSet(list) /\ e \in D BY <1>15 DEF D
      <4>2. m.heap[e].next = Null BY <1>1, <4>1 DEF Placed
      <4>3. QED BY <1>5, <4>1, <4>2
    <3>2. QED BY <3>1
  <2>2. QED BY <2>1 DEF Loose
<1>17. Placed(r, list)
  <2>1. ASSUME NEW x \in Chained(m) \ ToSet(list)
        PROVE  IsInt /\ h[x].prev = Null /\ h[x].next = Null
    <3>1. h[x] = m.heap[x] BY <1>5 DEF D
    <3>2. IsInt /\ m.heap[x].prev = Null /\ m.heap[x].next = Null BY <1>1 DEF Placed
    <3>3. QED BY <3>1, <3>2
  <2>2. ToSet(list) \subseteq Chained(m) BY <1>1 DEF Placed
  <2>3. QED BY <1>2, <1>3, <2>1, <2>2 DEF Placed
<1>18. QED
  BY <1>1, <1>2, <1>3, <1>5, <1>7, <1>8, <1>10, <1>11, <1>12, <1>14, <1>16, <1>17
  DEF Sound, IsMap, Threads, r, D

-----------------------------------------------------------------------------
(* The enumerations.                                                       *)

LEMMA PrefixIs ==
    ASSUME NEW S, NEW s \in Seq(S), NEW t \in Seq(S)
    PROVE  IsPrefix(s, t) <=> Len(s) <= Len(t) /\ \A i \in 1..Len(s) : s[i] = t[i]
<1> DEFINE n == Len(s)
           a == SubSeq(s, 1, n)
           b == SubSeq(t, 1, n)
<1>1. n \in Nat /\ Len(t) \in Nat OBVIOUS
<1>2. a \in Seq(S) /\ Len(a) = n /\ \A i \in 1..n : a[i] = s[i] BY <1>1
<1>3. ASSUME n <= Len(t)
      PROVE  b \in Seq(S) /\ Len(b) = n /\ \A i \in 1..n : b[i] = t[i]
  BY <1>1, <1>3
<1> HIDE DEF a, b
<1>4. ASSUME n <= Len(t), a = b PROVE \A i \in 1..n : s[i] = t[i] BY <1>2, <1>3, <1>4
<1>5. ASSUME n <= Len(t), \A i \in 1..n : s[i] = t[i] PROVE a = b
  <2>1. \A i \in 1..n : a[i] = b[i] BY <1>2, <1>3, <1>5
  <2>2. b \in Seq(S) /\ Len(b) = n BY <1>3, <1>5
  <2>3. QED BY <1>2, <2>1, <2>2
<1>6. IsPrefix(s, t) <=> n <= Len(t) /\ a = b BY DEF IsPrefix, a, b
<1>7. QED BY <1>4, <1>5, <1>6

(* A list that keeps its place in another, behind d new entries.           *)
Shifted(old, list, d) ==
    d + Len(old) <= Len(list) /\ \A i \in 1..Len(old) : list[d + i] = old[i]

LEMMA ShiftedIs ==
    ASSUME NEW old \in Seq(Entries), NEW list \in Seq(Entries),
           IsPrefix(old, list) \/ IsSuffix(old, list)
    PROVE  \E d \in Nat : Shifted(old, list, d)
<1>1. Len(old) \in Nat /\ Len(list) \in Nat OBVIOUS
<1>2. CASE IsPrefix(old, list)
  <2>1. Shifted(old, list, 0) BY <1>1, <1>2, PrefixIs DEF Shifted
  <2>2. QED BY <2>1
<1>3. CASE IsSuffix(old, list)
  <2> DEFINE d == Len(list) - Len(old)
             u == Reverse(old)
             v == Reverse(list)
  <2>1. u \in Seq(Entries) /\ Len(u) = Len(old)
        /\ \A i \in 1..Len(old) : u[i] = old[(Len(old) - i) + 1]
    <3>1. u \in [1..Len(old) -> Entries] BY <1>1 DEF Reverse
    <3>2. QED BY <1>1, <3>1 DEF Reverse
  <2>2. v \in Seq(Entries) /\ Len(v) = Len(list)
        /\ \A i \in 1..Len(list) : v[i] = list[(Len(list) - i) + 1]
    <3>1. v \in [1..Len(list) -> Entries] BY <1>1 DEF Reverse
    <3>2. QED BY <1>1, <3>1 DEF Reverse
  <2>3. IsPrefix(u, v) BY <1>3 DEF IsSuffix
  <2> HIDE DEF u, v
  <2>4. Len(old) <= Len(list) /\ \A i \in 1..Len(old) : u[i] = v[i]
    BY <2>1, <2>2, <2>3, PrefixIs
  <2>5. d \in Nat /\ d + Len(old) <= Len(list) BY <1>1, <2>4
  <2>6. ASSUME NEW i \in 1..Len(old) PROVE list[d + i] = old[i]
    <3> DEFINE j == (Len(old) - i) + 1
    <3>1. j \in 1..Len(old) /\ (Len(old) - j) + 1 = i /\ (Len(list) - j) + 1 = d + i
          /\ j \in 1..Len(list)
      BY <1>1, <2>4
    <3>2. u[j] = old[i] /\ v[j] = list[d + i] /\ u[j] = v[j] BY <2>1, <2>2, <2>4, <3>1
    <3>3. QED BY <3>2
  <2>7. Shifted(old, list, d) BY <2>5, <2>6 DEF Shifted
  <2>8. QED BY <2>5, <2>7
<1>4. QED BY <1>2, <1>3

(* An enumeration that is at an entry started at an a-th, has seen those   *)
(* from there on up to it, and was to see a part of the list that begins   *)
(* there.  At the header, it has seen what it was to see.                  *)
OnWalk(list, at, done, todo) ==
    /\ done \in Seq(Int) /\ todo \in Seq(Int)
    /\ \/ at = Header /\ IsPrefix(todo, done)
       \/ \E a \in Nat \ {0}, b \in 1..Len(list) :
            /\ at = list[b] /\ Len(done) = b - a /\ a + Len(todo) - 1 <= Len(list)
            /\ \A j \in 1..Len(done) : done[j] = NameKey(list[a + j - 1])
            /\ \A j \in 1..Len(todo) : todo[j] = NameKey(list[a + j - 1])

LEMMA WalkShifts ==
    ASSUME NEW old \in Seq(Entries), NEW list \in Seq(Entries), NEW d \in Nat,
           Shifted(old, list, d), NEW at, NEW done, NEW todo, OnWalk(old, at, done, todo)
    PROVE  OnWalk(list, at, done, todo)
<1>1. CASE at = Header /\ IsPrefix(todo, done) BY <1>1 DEF OnWalk
<1>2. CASE \E a \in Nat \ {0}, b \in 1..Len(old) :
            /\ at = old[b] /\ Len(done) = b - a /\ a + Len(todo) - 1 <= Len(old)
            /\ \A j \in 1..Len(done) : done[j] = NameKey(old[a + j - 1])
            /\ \A j \in 1..Len(todo) : todo[j] = NameKey(old[a + j - 1])
  <2>1. PICK a \in Nat \ {0}, b \in 1..Len(old) :
            /\ at = old[b] /\ Len(done) = b - a /\ a + Len(todo) - 1 <= Len(old)
            /\ \A j \in 1..Len(done) : done[j] = NameKey(old[a + j - 1])
            /\ \A j \in 1..Len(todo) : todo[j] = NameKey(old[a + j - 1])
    BY <1>2
  <2>2. done \in Seq(Int) /\ todo \in Seq(Int) BY DEF OnWalk
  <2>3. Len(done) \in Nat /\ Len(todo) \in Nat /\ Len(old) \in Nat /\ Len(list) \in Nat
    BY <2>2
  <2>4. d + Len(old) <= Len(list) /\ \A i \in 1..Len(old) : list[d + i] = old[i]
    BY DEF Shifted
  <2>5. d + a \in Nat \ {0} /\ d + b \in 1..Len(list) BY <2>3, <2>4
  <2>6. at = list[d + b] /\ Len(done) = (d + b) - (d + a) BY <2>1, <2>3, <2>4
  <2>7. (d + a) + Len(todo) - 1 <= Len(list) BY <2>1, <2>3, <2>4
  <2>8. ASSUME NEW j \in 1..Len(done) PROVE done[j] = NameKey(list[(d + a) + j - 1])
    <3>1. a + j - 1 \in 1..Len(old) /\ (d + a) + j - 1 = d + (a + j - 1) BY <2>1, <2>3
    <3>2. list[(d + a) + j - 1] = old[a + j - 1] BY <2>4, <3>1
    <3>3. QED BY <2>1, <3>2
  <2>9. ASSUME NEW j \in 1..Len(todo) PROVE todo[j] = NameKey(list[(d + a) + j - 1])
    <3>1. a + j - 1 \in 1..Len(old) /\ (d + a) + j - 1 = d + (a + j - 1) BY <2>1, <2>3
    <3>2. list[(d + a) + j - 1] = old[a + j - 1] BY <2>4, <3>1
    <3>3. QED BY <2>1, <3>2
  <2>10. QED BY <2>2, <2>5, <2>6, <2>7, <2>8, <2>9 DEF OnWalk
<1>3. QED BY <1>1, <1>2 DEF OnWalk

LEMMA WalkStarts ==
    ASSUME NEW m, NEW list \in Seq(Entries), IsHeap(m.heap), Linked(m.heap, list)
    PROVE  OnWalk(list, m.heap[Header].next, <<>>, KeysOf(m, list))
<1> DEFINE n == Len(list)
           todo == KeysOf(m, list)
           at == m.heap[Header].next
<1>1. n \in Nat /\ DOMAIN list = 1..n OBVIOUS
<1>2. at = At(list, 1)
  <2>1. 0 \in 0..n /\ At(list, 0) = Header /\ 0 + 1 = 1 BY <1>1 DEF At
  <2>2. QED BY <2>1 DEF Linked
<1>3. \A i \in 1..n : m.heap[list[i]].key \in Int /\ m.heap[list[i]].key = NameKey(list[i])
  BY HeapKeys DEF Linked, IsList, IsHeap, NameKey
<1>4. todo \in Seq(Int) /\ Len(todo) = n /\ \A i \in 1..n : todo[i] = NameKey(list[i])
  <2>1. todo = [i \in 1..n |-> m.heap[list[i]].key] BY <1>1 DEF KeysOf
  <2> HIDE DEF todo
  <2>2. todo \in [1..n -> Int] BY <1>3, <2>1
  <2>3. QED BY <1>1, <1>3, <2>1, <2>2
<1>5. <<>> \in Seq(Int) /\ Len(<<>>) = 0 OBVIOUS
<1> HIDE DEF todo, at
<1>6. CASE n = 0
  <2>1. at = Header BY <1>2, <1>6 DEF At
  <2>2. IsPrefix(todo, <<>>)
    <3>1. Len(todo) <= Len(<<>>) /\ \A i \in 1..Len(todo) : todo[i] = <<>>[i] BY <1>4, <1>5, <1>6
    <3>2. QED BY <1>4, <1>5, <3>1, PrefixIs
  <2>3. QED BY <1>4, <1>5, <2>1, <2>2 DEF OnWalk, at, todo
<1>7. CASE n # 0
  <2>1. 1 \in 1..n /\ 1 \in Nat \ {0} BY <1>1, <1>7
  <2>2. at = list[1] BY <1>2, <2>1 DEF At
  <2>3. Len(<<>>) = 1 - 1 /\ 1 + Len(todo) - 1 <= n BY <1>1, <1>4, <1>5
  <2>4. \A j \in 1..Len(<<>>) : <<>>[j] = NameKey(list[1 + j - 1]) BY <1>5
  <2>5. \A j \in 1..Len(todo) : todo[j] = NameKey(list[1 + j - 1]) BY <1>4
  <2>6. QED BY <1>4, <1>5, <2>1, <2>2, <2>3, <2>4, <2>5 DEF OnWalk, at, todo
<1>8. QED BY <1>6, <1>7

LEMMA WalkGoesOn ==
    ASSUME NEW h, NEW list \in Seq(Entries), IsHeap(h), Linked(h, list),
           NEW at, NEW done, NEW todo, OnWalk(list, at, done, todo), at # Header
    PROVE  OnWalk(list, h[at].next, Append(done, h[at].key), todo)
<1>1. done \in Seq(Int) /\ todo \in Seq(Int) BY DEF OnWalk
<1>2. PICK a \in Nat \ {0}, b \in 1..Len(list) :
        /\ at = list[b] /\ Len(done) = b - a /\ a + Len(todo) - 1 <= Len(list)
        /\ \A j \in 1..Len(done) : done[j] = NameKey(list[a + j - 1])
        /\ \A j \in 1..Len(todo) : todo[j] = NameKey(list[a + j - 1])
  BY DEF OnWalk
<1> DEFINE n == Len(list)
           now == Append(done, h[at].key)
<1>3. n \in Nat /\ Len(done) \in Nat /\ Len(todo) \in Nat BY <1>1
<1>4. at \in DOMAIN h BY <1>2 DEF Linked, IsList
<1>5. h[at].key \in Int /\ h[at].key = NameKey(list[b])
  BY <1>2, <1>4, HeapKeys DEF IsHeap, NameKey
<1>6. h[at].next = At(list, b + 1)
  <2>1. b \in 0..n /\ At(list, b) = at BY <1>2 DEF At
  <2>2. QED BY <2>1 DEF Linked
<1>7. now \in Seq(Int) /\ Len(now) = Len(done) + 1
      /\ \A j \in 1..Len(done) + 1 : now[j] = IF j = Len(done) + 1 THEN h[at].key ELSE done[j]
  BY <1>1, <1>5
<1> HIDE DEF now
<1>8. ASSUME NEW j \in 1..Len(now) PROVE now[j] = NameKey(list[a + j - 1])
  <2>1. CASE j = Len(done) + 1
    <3>1. a + j - 1 = b BY <1>2, <1>3, <2>1
    <3>2. QED BY <1>5, <1>7, <2>1, <3>1
  <2>2. CASE j # Len(done) + 1
    <3>1. j \in 1..Len(done) BY <1>3, <1>7, <2>2
    <3>2. QED BY <1>2, <1>7, <2>2, <3>1
  <2>3. QED BY <2>1, <2>2
<1>9. CASE b < n
  <2>1. b + 1 \in 1..n BY <1>3, <1>9
  <2>2. h[at].next = list[b + 1] BY <1>6, <2>1 DEF At
  <2>3. Len(now) = (b + 1) - a BY <1>2, <1>3, <1>7
  <2>4. QED BY <1>1, <1>2, <1>7, <1>8, <2>1, <2>2, <2>3 DEF OnWalk, now
<1>10. CASE b = n
  <2>1. h[at].next = Header BY <1>6, <1>10 DEF At
  <2>2. Len(todo) <= Len(now) BY <1>2, <1>3, <1>7, <1>10
  <2>3. \A j \in 1..Len(todo) : todo[j] = now[j]
    <3>1. \A j \in 1..Len(todo) : j \in 1..Len(now) BY <1>3, <1>7, <2>2
    <3>2. QED BY <1>2, <1>8, <3>1
  <2>4. IsPrefix(todo, now) BY <1>1, <1>7, <2>2, <2>3, PrefixIs
  <2>5. QED BY <1>1, <1>7, <2>1, <2>4 DEF OnWalk, now
<1>11. QED BY <1>3, <1>9, <1>10

LEMMA WalkFollows ==
    ASSUME NEW list \in Seq(Entries), NEW at, NEW done, NEW todo, OnWalk(list, at, done, todo)
    PROVE  IF at # Header THEN IsPrefix(done, todo) \/ IsPrefix(todo, done)
                          ELSE IsPrefix(todo, done)
<1>1. done \in Seq(Int) /\ todo \in Seq(Int) BY DEF OnWalk
<1>2. CASE at = Header
  <2>1. \A b \in 1..Len(list) : list[b] # Header BY NamesDiffer
  <2>2. QED BY <1>2, <2>1 DEF OnWalk
<1>3. CASE at # Header
  <2>1. PICK a \in Nat \ {0}, b \in 1..Len(list) :
          /\ \A j \in 1..Len(done) : done[j] = NameKey(list[a + j - 1])
          /\ \A j \in 1..Len(todo) : todo[j] = NameKey(list[a + j - 1])
    BY <1>3 DEF OnWalk
  <2>2. Len(done) \in Nat /\ Len(todo) \in Nat BY <1>1
  <2>3. CASE Len(done) <= Len(todo)
    <3>1. \A j \in 1..Len(done) : j \in 1..Len(todo) BY <2>2, <2>3
    <3>2. \A j \in 1..Len(done) : done[j] = todo[j] BY <2>1, <3>1
    <3>3. QED BY <1>1, <1>3, <2>3, <3>2, PrefixIs
  <2>4. CASE Len(todo) <= Len(done)
    <3>1. \A j \in 1..Len(todo) : j \in 1..Len(done) BY <2>2, <2>4
    <3>2. \A j \in 1..Len(todo) : done[j] = todo[j] BY <2>1, <3>1
    <3>3. QED BY <1>1, <1>3, <2>4, <3>2, PrefixIs
  <2>5. QED BY <2>2, <2>3, <2>4
<1>4. QED BY <1>2, <1>3

-----------------------------------------------------------------------------
(* What holds between two steps: the map is sound, the heap has the names  *)
(* of the table's entries only, and every enumeration under way follows    *)
(* the list.                                                               *)
Tidy(m) == DOMAIN m.heap = {Header} \cup Chained(m)
Walks(list) ==
    /\ DOMAIN pc = Walkers /\ DOMAIN cursor = Walkers
    /\ DOMAIN seen = Walkers /\ DOMAIN plan = Walkers
    /\ \A c \in Walkers : pc[c] = "walking" => OnWalk(list, cursor[c], seen[c], plan[c])
MapInv ==
    /\ kind \in Kinds /\ max \in Nat
    /\ \E m, list : m = Map /\ Sound(m, list) /\ Tidy(m) /\ Walks(list)

LEMMA SoundPrime ==
    ASSUME kind' = kind, NEW m, NEW list, Sound(m, list) PROVE Sound(m, list)'
BY DEF Sound, IsMap, Hashed, BucketOf, HashOf, Threads, Placed, IsInt

(* What a method leaves is the next map.  Nobody walks on unless the list  *)
(* has kept its place.                                                     *)
LEMMA BecomeSound ==
    ASSUME kind \in Kinds, NEW old \in Seq(Entries), Walks(old), NEW m, NEW list, Sound(m, list),
           kind' = kind, max' \in Nat, NEW hits \in BOOLEAN, NEW at,
           hits \/ \E d \in Nat : Shifted(old, list, d),
           \A c \in Walkers : at[c] = "walking" => pc[c] = "walking", Become(m, hits, at)
    PROVE  MapInv'
<1> DEFINE r == Swept(m)
<1>1. Sound(r, list) /\ Tidy(r) BY SweptSound DEF Tidy
<1>2. Map' = r BY DEF Become, Map, Swept
<1> HIDE DEF r
<1>3. Sound(r, list)' BY <1>1, SoundPrime
<1>4. DOMAIN pc' = Walkers /\ DOMAIN cursor' = Walkers
      /\ DOMAIN seen' = Walkers /\ DOMAIN plan' = Walkers
  BY DEF Become
<1>5. ASSUME NEW c \in Walkers, pc'[c] = "walking"
      PROVE  OnWalk(list, cursor'[c], seen'[c], plan'[c])
  <2>1. ~(hits /\ at[c] = "walking") /\ at[c] = "walking"
        /\ cursor'[c] = cursor[c] /\ seen'[c] = seen[c] /\ plan'[c] = plan[c]
    <3>1. CASE hits /\ at[c] = "walking"
      <4>1. pc'[c] = "idle" BY <3>1 DEF Become
      <4>2. QED BY <1>5, <4>1
    <3>2. CASE ~(hits /\ at[c] = "walking")
      <4>1. pc'[c] = at[c] BY <3>2 DEF Become
      <4>2. cursor'[c] = cursor[c] /\ seen'[c] = seen[c] /\ plan'[c] = plan[c]
        BY <3>2 DEF Become
      <4>3. QED BY <1>5, <3>2, <4>1, <4>2
    <3>3. QED BY <3>1, <3>2
  <2>2. PICK d \in Nat : Shifted(old, list, d) BY <2>1
  <2>3. OnWalk(old, cursor[c], seen[c], plan[c]) BY <2>1 DEF Walks
  <2>4. list \in Seq(Entries) BY DEF Sound, Threads
  <2>5. OnWalk(list, cursor[c], seen[c], plan[c]) BY <2>2, <2>3, <2>4, WalkShifts
  <2>6. QED BY <2>1, <2>5
<1>6. Walks(list)' BY <1>4, <1>5 DEF Walks
<1>7. QED BY <1>1, <1>2, <1>3, <1>6 DEF MapInv

-----------------------------------------------------------------------------
(* The actions.                                                            *)

LEMMA MapFields == Map.table = table /\ Map.heap = heap /\ Map.count = count
BY DEF Map

LEMMA InitMap == Init => MapInv
<1> SUFFICES ASSUME Init PROVE MapInv
  OBVIOUS
<1>1. /\ table = [b \in 1..Capacity |-> {}] /\ count = 0 /\ kind \in Kinds /\ max = 0
      /\ heap = [e \in {Header} |->
                    [key |-> 0, value |-> Null, next |-> Header, prev |-> Header]]
  BY DEF Init
<1>2. Capacity \in Nat \ {0} BY LinkedMapAssumption
<1>3. table \in Seq(SUBSET Entries) /\ Len(table) = Capacity
      /\ \A b \in 1..Capacity : table[b] = {}
  <2>1. table \in [1..Capacity -> SUBSET Entries] BY <1>1, <1>2
  <2>2. QED BY <1>1, <1>2, <2>1
<1>4. IsHeap(heap) /\ DOMAIN heap = {Header}
  <2>1. [key |-> 0, value |-> Null, next |-> Header, prev |-> Header] \in Cells
    BY DEF Cells, Links, Names
  <2>2. Header[1] = 0 BY DEF Header
  <2>3. QED BY <1>1, <2>1, <2>2 DEF IsHeap, Names
<1>5. Map \in Maps BY <1>1, <1>3, <1>4, HeapIsOne DEF Map, Maps
<1>6. Chained(Map) = {} BY <1>2, <1>3, <1>5, ChainedIs, MapFields
<1>7. IsMap(Map)
  <2>1. Hashed(Map) BY <1>2, <1>3, MapFields DEF Hashed
  <2>2. OneEach(Map) BY <1>6 DEF OneEach
  <2>3. Counted(Map) BY <1>1, <1>6, FS_EmptySet, MapFields DEF Counted
  <2>4. QED BY <1>4, <1>5, <2>1, <2>2, <2>3, MapFields DEF IsMap
<1>8. <<>> \in Seq(Entries) /\ Len(<<>>) = 0 /\ ToSet(<<>>) = {}
  <2>1. ToSet(<<>>) = {} BY DEF ToSet
  <2>2. QED BY <2>1
<1>9. Linked(heap, <<>>)
  <2>1. IsList(heap, <<>>) BY <1>8 DEF IsList
  <2>2. At(<<>>, 0) = Header /\ At(<<>>, 0 + 1) = Header BY <1>8 DEF At
  <2>3. heap[Header].next = Header /\ heap[Header].prev = Header BY <1>1
  <2>4. QED BY <1>8, <2>1, <2>2, <2>3 DEF Linked
<1>10. Loose(heap, <<>>)
  <2>1. Rest(heap, <<>>) = {} BY <1>4 DEF Rest
  <2>2. QED BY <2>1 DEF Loose
<1>11. Placed(Map, <<>>) BY <1>6, <1>8 DEF Placed
<1>12. Sound(Map, <<>>) BY <1>7, <1>8, <1>9, <1>10, <1>11, MapFields DEF Sound, Threads
<1>13. Tidy(Map) BY <1>4, <1>6, MapFields DEF Tidy
<1>14. Walks(<<>>) BY DEF Init, Walks
<1>15. QED BY <1>1, <1>12, <1>13, <1>14 DEF MapInv

(* A step that leaves the map alone, and the enumerations or all but one.  *)
LEMMA SameMap ==
    ASSUME kind \in Kinds, NEW list, Sound(Map, list), Tidy(Map), kind' = kind, max' \in Nat,
           UNCHANGED store, Walks(list)'
    PROVE  MapInv'
<1>1. PICK m : m = Map OBVIOUS
<1>2. Map' = m /\ Sound(m, list) /\ Tidy(m) BY <1>1 DEF Map, store
<1>3. Sound(m, list)' BY <1>2, SoundPrime
<1>4. QED BY <1>2, <1>3 DEF MapInv

LEMMA SameWalks ==
    ASSUME MapInv, kind' = kind, max' \in Nat, UNCHANGED store, UNCHANGED walks
    PROVE  MapInv'
<1>1. PICK list : Sound(Map, list) /\ Tidy(Map) /\ Walks(list) BY DEF MapInv
<1>2. Walks(list)' BY <1>1 DEF Walks, walks
<1>3. QED BY <1>1, <1>2, SameMap DEF MapInv

LEMMA PutStep ==
    ASSUME MapInv, NEW key \in Keys, NEW mode \in Modes, NEW value \in ValuesOf,
           Put(key, value, mode)
    PROVE  MapInv'
<1> DEFINE m == Put1(Map, key, value, mode)
<1>1. PICK list : Sound(Map, list) /\ Tidy(Map) /\ Walks(list) BY DEF MapInv
<1>2. kind \in Kinds /\ max \in Nat /\ kind' = kind /\ max' = max BY DEF MapInv, Put
<1>3. (UNCHANGED store /\ UNCHANGED walks)
      \/ /\ ~(IsInt /\ ~Has(Map, key) /\ max > 0 /\ count >= max)
         /\ Become(m, Moves(m), pc)
  BY DEF Put
<1>4. CASE UNCHANGED store /\ UNCHANGED walks BY <1>2, <1>4, SameWalks
<1>5. CASE /\ ~(IsInt /\ ~Has(Map, key) /\ max > 0 /\ count >= max)
           /\ Become(m, Moves(m), pc)
  <2>1. value \in Values \cup {Null} BY DEF ValuesOf
  <2>2. IsInt /\ ~Has(Map, key) => Excess(Map) = 0 BY <1>5, MapFields DEF Excess
  <2>3. Room(Map.heap, key) BY <1>1, <1>2, RoomIs DEF Tidy
  <2>4. PICK new : Sound(m, new)
    <3>1. PutsKey(m, Map, list, key, value, mode) BY <1>1, <1>2, <2>1, <2>2, <2>3, PutSound
    <3> HIDE DEF m
    <3>2. QED BY <3>1 DEF PutsKey, Overwrites, Inserts
  <2> HIDE DEF m
  <2>5. list \in Seq(Entries) /\ new \in Seq(Entries) BY <1>1, <2>4 DEF Sound, Threads
  <2>6. Moves(m) \/ \E d \in Nat : Shifted(list, new, d)
    <3>1. List(Map) = list /\ List(m) = new
      <4>1. IsHeap(Map.heap) /\ Linked(Map.heap, list) /\ Loose(Map.heap, list)
        BY <1>1 DEF Sound, Threads, IsMap
      <4>2. IsHeap(m.heap) /\ Linked(m.heap, new) /\ Loose(m.heap, new)
        BY <2>4 DEF Sound, Threads, IsMap
      <4>3. QED BY <2>5, <4>1, <4>2, ListIs
    <3>2. QED BY <2>5, <3>1, ShiftedIs DEF Moves
  <2>7. Moves(m) \in BOOLEAN BY DEF Moves
  <2>8. QED BY <1>1, <1>2, <1>5, <2>4, <2>5, <2>6, <2>7, BecomeSound
<1>6. QED BY <1>3, <1>4, <1>5

LEMMA RemoveStep ==
    ASSUME MapInv, NEW key \in Int, kind' = kind, max' = max, NEW hits \in BOOLEAN, NEW at,
           hits = Has(Map, key), \A c \in Walkers : at[c] = "walking" => pc[c] = "walking",
           Become(Remove1(Map, key), hits, at)
    PROVE  MapInv'
<1>1. PICK list : Sound(Map, list) /\ Walks(list) BY DEF MapInv
<1>2. kind \in Kinds /\ max \in Nat /\ list \in Seq(Entries)
  BY <1>1 DEF MapInv, Sound, Threads
<1>3. CASE Has(Map, key)
  <2>1. Sound(Remove1(Map, key), Without(list, Find(Map, key))) BY <1>1, <1>2, <1>3, RemoveSound
  <2>2. QED BY <1>1, <1>2, <1>3, <2>1, BecomeSound
<1>4. CASE ~Has(Map, key)
  <2>1. Remove1(Map, key) = Map BY <1>4 DEF Remove1
  <2>2. Shifted(list, list, 0) BY <1>2 DEF Shifted
  <2>3. QED BY <1>1, <1>2, <2>1, <2>2, BecomeSound
<1>5. QED BY <1>3, <1>4

LEMMA EndKeys == ASSUME MapInv PROVE FirstKey(Map) \in Int /\ LastKey(Map) \in Int
<1>1. PICK list : Sound(Map, list) BY DEF MapInv
<1>2. list \in Seq(Entries) /\ Linked(heap, list) /\ IsHeap(heap)
  BY <1>1, MapFields DEF Sound, Threads, IsMap
<1>3. /\ 0 \in 0..Len(list) /\ Len(list) \in 0..Len(list) /\ 0 + 1 = 1
      /\ At(list, 0) = Header /\ At(list, Len(list) + 1) = Header
  BY <1>2 DEF At
<1>4. heap[Header].next = At(list, 1) /\ heap[Header].prev = At(list, Len(list))
  BY <1>2, <1>3 DEF Linked
<1>5. At(list, 1) \in DOMAIN heap /\ At(list, Len(list)) \in DOMAIN heap
  <2>1. \A i \in Int : At(list, i) \in DOMAIN heap BY <1>2, ListType DEF Linked
  <2>2. 1 \in Int /\ Len(list) \in Int BY <1>2
  <2>3. QED BY <2>1, <2>2
<1>6. QED BY <1>2, <1>4, <1>5, HeapKeys, MapFields DEF FirstKey, LastKey

LEMMA ClearStep == ASSUME MapInv, Clear PROVE MapInv'
<1>1. PICK list : Sound(Map, list) /\ Walks(list) BY DEF MapInv
<1>2. /\ kind \in Kinds /\ max \in Nat /\ kind' = kind /\ max' = max
      /\ Become(Clear1(Map), TRUE, pc)
  BY DEF MapInv, Clear
<1>3. Sound(Clear1(Map), <<>>) BY <1>1, <1>2, ClearSound
<1>4. list \in Seq(Entries) BY <1>1 DEF Sound, Threads
<1>5. QED BY <1>1, <1>2, <1>3, <1>4, BecomeSound

LEMMA SortStep == ASSUME MapInv, Sort PROVE MapInv'
<1>1. PICK list : Sound(Map, list) /\ Tidy(Map) /\ Walks(list) BY DEF MapInv
<1>2. /\ kind \in Kinds /\ max \in Nat /\ kind' = kind /\ max' = max /\ ~IsInt
      /\ Become(Sort1(Map), TRUE, pc)
  BY DEF MapInv, Sort
<1>3. PICK new : Sound(Sort1(Map), new) BY <1>1, <1>2, SortSound DEF Tidy, Sorts
<1>4. list \in Seq(Entries) BY <1>1 DEF Sound, Threads
<1>5. QED BY <1>1, <1>2, <1>3, <1>4, BecomeSound

LEMMA GetLRUStep == ASSUME MapInv, NEW key \in Keys, GetLRU(key) PROVE MapInv'
<1> DEFINE e == Find(Map, key)
           m == [Map EXCEPT !.heap = ChainAt(Unchain(heap, e), e, "FORCE_LAST")]
<1>1. PICK list : Sound(Map, list) /\ Walks(list) BY DEF MapInv
<1>2. /\ kind \in Kinds /\ max \in Nat /\ kind' = kind /\ max' = max
      /\ Has(Map, key) /\ heap[e].prev # Null /\ Become(m, TRUE, pc)
  BY MapFields DEF MapInv, GetLRU, Map
<1>3. IsMap(Map) /\ Placed(Map, list) /\ IsHeap(heap)
  BY <1>1, MapFields DEF Sound, Threads, IsMap
<1>4. e \in Chained(Map)
  <2>1. key \in Int BY LinkedMapAssumption
  <2>2. QED BY <1>2, <1>3, <2>1, FindIs
<1>5. e \in ToSet(list) BY <1>2, <1>3, <1>4, MapFields DEF Placed
<1> HIDE DEF e
<1>6. Relinks(m, Map, list, e, "FORCE_LAST", heap) BY <1>1, <1>3, <1>5, RelinkSound, MapFields
<1> HIDE DEF m
<1>7. list \in Seq(Entries) BY <1>1 DEF Sound, Threads
<1>8. QED BY <1>1, <1>2, <1>6, <1>7, BecomeSound DEF Relinks

LEMMA WalkerKeeps ==
    ASSUME MapInv, NEW c \in Walkers, WalkerStep(c) PROVE MapInv'
<1>1. PICK list : Sound(Map, list) /\ Tidy(Map) /\ Walks(list) BY DEF MapInv
<1>2. kind \in Kinds /\ max \in Nat BY DEF MapInv
<1>3. list \in Seq(Entries) /\ Linked(heap, list) /\ IsHeap(heap)
  BY <1>1, MapFields DEF Sound, Threads, IsMap
<1>4. /\ DOMAIN pc = Walkers /\ DOMAIN cursor = Walkers
      /\ DOMAIN seen = Walkers /\ DOMAIN plan = Walkers
      /\ \A d \in Walkers : pc[d] = "walking" => OnWalk(list, cursor[d], seen[d], plan[d])
  BY <1>1 DEF Walks
<1>5. ASSUME NEW end \in {"removing first", "removing last"}, RemoveEndBegin(c, end)
      PROVE  MapInv'
  <2>1. Walks(list)' BY <1>4, <1>5 DEF RemoveEndBegin, Goto, Walks
  <2>2. QED BY <1>1, <1>2, <1>5, <2>1, SameMap DEF RemoveEndBegin
<1>6. CASE RemoveEnd(c)
  <2>1. FirstKey(Map) \in Int /\ LastKey(Map) \in Int BY EndKeys
  <2> DEFINE key == IF pc[c] = "removing first" THEN FirstKey(Map) ELSE LastKey(Map)
             at == [pc EXCEPT ![c] = "idle"]
  <2>2. Become(Remove1(Map, key), Has(Map, key), at) /\ kind' = kind /\ max' = max
    BY <1>6 DEF RemoveEnd
  <2>3. \A d \in Walkers : at[d] = "walking" => pc[d] = "walking" BY <1>4
  <2>4. key \in Int BY <2>1
  <2>5. Has(Map, key) \in BOOLEAN BY DEF Has
  <2> HIDE DEF key, at
  <2>6. QED BY <2>2, <2>3, <2>4, <2>5, RemoveStep
<1>7. CASE Enumerate(c)
  <2>1. OnWalk(list, heap[Header].next, <<>>, KeysOf(Map, list))
    BY <1>3, WalkStarts, MapFields
  <2>2. List(Map) = list
    <3>1. Loose(heap, list) BY <1>1, MapFields DEF Sound, Threads
    <3>2. QED BY <1>3, <3>1, ListIs, MapFields
  <2>3. /\ pc' = [pc EXCEPT ![c] = "walking"] /\ cursor' = [cursor EXCEPT ![c] = heap[Header].next]
        /\ seen' = [seen EXCEPT ![c] = <<>>] /\ plan' = [plan EXCEPT ![c] = KeysOf(Map, list)]
    BY <1>7, <2>2 DEF Enumerate, Goto
  <2>4. Walks(list)' BY <1>4, <2>1, <2>3 DEF Walks
  <2>5. QED BY <1>1, <1>2, <1>7, <2>4, SameMap DEF Enumerate
<1>8. CASE NextElement(c)
  <2> DEFINE e == cursor[c]
  <2>1. /\ pc[c] = "walking" /\ e # Header
        /\ cursor' = [cursor EXCEPT ![c] = heap[e].next]
        /\ seen' = [seen EXCEPT ![c] = Append(seen[c], heap[e].key)]
        /\ pc' = pc /\ plan' = plan
    BY <1>8 DEF NextElement, HasMore
  <2>2. OnWalk(list, heap[e].next, Append(seen[c], heap[e].key), plan[c])
    BY <1>3, <1>4, <2>1, WalkGoesOn
  <2>3. Walks(list)' BY <1>4, <2>1, <2>2 DEF Walks
  <2>4. QED BY <1>1, <1>2, <1>8, <2>3, SameMap DEF NextElement
<1>9. CASE EndEnumeration(c)
  <2>1. Walks(list)' BY <1>4, <1>9 DEF EndEnumeration, Goto, Walks
  <2>2. QED BY <1>1, <1>2, <1>9, <2>1, SameMap DEF EndEnumeration
<1>10. QED BY <1>5, <1>6, <1>7, <1>8, <1>9 DEF WalkerStep

LEMMA MapStep == ASSUME MapInv, [Next]_vars PROVE MapInv'
<1>1. kind \in Kinds /\ max \in Nat BY DEF MapInv
<1>2. CASE WriterStep
  <2>1. ASSUME NEW key \in Keys, NEW mode \in Modes, NEW value \in ValuesOf,
               Put(key, value, mode)
        PROVE  MapInv'
    BY <2>1, PutStep
  <2>2. ASSUME NEW key \in Keys, RemoveKey(key) PROVE MapInv'
    <3>1. key \in Int BY LinkedMapAssumption
    <3>2. /\ Become(Remove1(Map, key), TRUE, pc) /\ Has(Map, key) = TRUE
          /\ kind' = kind /\ max' = max
      BY <2>2 DEF RemoveKey, Has
    <3>3. QED BY <3>1, <3>2, RemoveStep
  <2>3. ASSUME NEW key \in Keys, GetLRU(key) PROVE MapInv' BY <2>3, GetLRUStep
  <2>4. CASE RemoveEndStuck \/ SortStuck
    BY <1>1, <2>4, SameWalks DEF RemoveEndStuck, SortStuck, LockedTwice
  <2>5. CASE Clear BY <2>5, ClearStep
  <2>6. CASE Sort BY <2>6, SortStep
  <2>7. ASSUME NEW n \in Limits, SetMax(n) PROVE MapInv'
    <3>1. n \in Nat BY LinkedMapAssumption
    <3>2. QED BY <2>7, <3>1, SameWalks DEF SetMax
  <2>8. QED BY <1>2, <2>1, <2>2, <2>3, <2>4, <2>5, <2>6, <2>7 DEF WriterStep
<1>3. ASSUME NEW c \in Walkers, WalkerStep(c) PROVE MapInv' BY <1>3, WalkerKeeps
<1>4. CASE UNCHANGED vars BY <1>1, <1>4, SameWalks DEF vars
<1>5. QED BY <1>2, <1>3, <1>4 DEF Next

LEMMA MapAlways == Spec => []MapInv
BY InitMap, MapStep, PTL DEF Spec

(* What a sound map shows of itself.                                       *)
LEMMA MapAgrees == MapInv => TableAndListAgree
<1> SUFFICES ASSUME MapInv PROVE TableAndListAgree
  OBVIOUS
<1>1. PICK list : Sound(Map, list) BY DEF MapInv
<1>2. /\ IsMap(Map) /\ IsHeap(heap) /\ list \in Seq(Entries) /\ Linked(heap, list)
      /\ Loose(heap, list) /\ Placed(Map, list) /\ Map \in Maps
  BY <1>1, MapFields DEF Sound, Threads, IsMap
<1>3. List(Map) = list BY <1>2, ListIs, MapFields
<1>4. InTable = Chained(Map) BY DEF InTable
<1>5. \A b \in DOMAIN table : \A e \in table[b] : BucketOf(Map, heap[e].key) = b
  BY <1>2, ChainedIs, MapFields DEF IsMap, Hashed
<1>6. \A e, f \in InTable : heap[e].key = heap[f].key => e = f
  BY <1>2, <1>4, MapFields DEF IsMap, OneEach
<1>7. count = Cardinality(InTable) BY <1>2, <1>4, MapFields DEF IsMap, Counted
<1>8. ToSet(list) \subseteq InTable BY <1>2, <1>4 DEF Placed
<1>9. ASSUME NEW e \in ToSet(list) \cup {Header} PROVE heap[heap[e].next].prev = e
  <2>1. PICK i \in 0..Len(list) : e = At(list, i)
    <3>1. CASE e = Header
      <4>1. 0 \in 0..Len(list) /\ At(list, 0) = Header BY <1>2 DEF At
      <4>2. QED BY <3>1, <4>1
    <3>2. CASE e # Header
      <4>1. PICK i \in 1..Len(list) : e = At(list, i) BY <1>2, <3>2, ListedIsAt
      <4>2. i \in 0..Len(list) BY <1>2
      <4>3. QED BY <4>1, <4>2
    <3>3. QED BY <3>1, <3>2
  <2>2. QED BY <1>2, <2>1 DEF Linked
<1>10. ASSUME InTable \ ToSet(list) # {}
       PROVE  IsInt /\ \A e \in InTable \ ToSet(list) : heap[e].prev = Null
  BY <1>2, <1>4, <1>10, MapFields DEF Placed
<1>11. QED BY <1>3, <1>5, <1>6, <1>7, <1>8, <1>9, <1>10 DEF TableAndListAgree

(* The hash table and the list of the three classes are two views of one   *)
(* set of entries: whatever puts, removals, evictions, rehashes and sorts, *)
(* in whatever order.                                                      *)
THEOREM TableAndListAgreeHolds == Spec => []TableAndListAgree
BY MapAlways, MapAgrees, PTL

LEMMA MapFollows == MapInv => EnumerationFollowsOrder
<1> SUFFICES ASSUME MapInv, NEW c \in Walkers, pc[c] = "walking"
             PROVE  IF HasMore(c) THEN IsPrefix(seen[c], plan[c]) \/ IsPrefix(plan[c], seen[c])
                                  ELSE IsPrefix(plan[c], seen[c])
  BY DEF EnumerationFollowsOrder
<1>1. PICK list : Sound(Map, list) /\ Walks(list) BY DEF MapInv
<1>2. list \in Seq(Entries) /\ OnWalk(list, cursor[c], seen[c], plan[c])
  BY <1>1 DEF Sound, Threads, Walks
<1>3. QED BY <1>2, WalkFollows DEF HasMore

(* An enumeration, which nobody protects with the mutex, visits the keys   *)
(* that were there when it started, in their order, and then those put     *)
(* behind them, as long as nothing is removed or changes its place.        *)
THEOREM EnumerationFollowsOrderHolds == Spec => []EnumerationFollowsOrder
BY MapAlways, MapFollows, PTL

-----------------------------------------------------------------------------
(* What callers see of a map: its content, and the keys of its list.       *)

Named(list) == [i \in 1..Len(list) |-> NameKey(list[i])]

LEMMA NamedIs ==
    ASSUME NEW list \in Seq(Entries)
    PROVE  /\ Named(list) \in Seq(Keys) /\ Len(Named(list)) = Len(list)
           /\ \A i \in 1..Len(list) : Named(list)[i] = NameKey(list[i])
           /\ ToSet(Named(list)) = {NameKey(e) : e \in ToSet(list)}
           /\ \A k : Contains(Named(list), k) <=> \E e \in ToSet(list) : NameKey(e) = k
<1> DEFINE n == Len(list)
           s == Named(list)
<1>1. n \in Nat /\ DOMAIN list = 1..n /\ \A i \in 1..n : list[i] \in Entries OBVIOUS
<1>2. \A e \in Entries : NameKey(e) \in Keys BY DEF Entries, NameKey
<1>3. s \in [1..n -> Keys] BY <1>1, <1>2 DEF Named
<1>4. s \in Seq(Keys) /\ Len(s) = n BY <1>1, <1>3
<1>5. DOMAIN s = 1..n /\ \A i \in 1..n : s[i] = NameKey(list[i]) BY DEF Named
<1> HIDE DEF s, n
<1>6. ToSet(s) = {s[i] : i \in 1..n} /\ ToSet(list) = {list[i] : i \in 1..n}
  BY <1>1, <1>5 DEF ToSet
<1>7. ToSet(s) = {NameKey(e) : e \in ToSet(list)} BY <1>5, <1>6
<1>8. ASSUME NEW k PROVE Contains(s, k) <=> \E e \in ToSet(list) : NameKey(e) = k
  <2>1. Contains(s, k) <=> \E i \in 1..n : s[i] = k BY <1>4 DEF Contains
  <2>2. QED BY <1>5, <1>6, <2>1
<1>9. QED BY <1>4, <1>5, <1>7, <1>8 DEF s, n

(* Two sequences of keys that agree at every place.                        *)
LEMMA SameKeys ==
    ASSUME NEW s \in Seq(Keys), NEW t \in Seq(Keys), Len(s) = Len(t),
           \A i \in 1..Len(s) : s[i] = t[i]
    PROVE  s = t
OBVIOUS

LEMMA NamedGrown ==
    ASSUME NEW list \in Seq(Entries), NEW e \in Entries, NEW mode
    PROVE  Named(Grown(list, e, mode)) =
             IF mode = "FORCE_FIRST" THEN <<NameKey(e)>> \o Named(list)
                                     ELSE Append(Named(list), NameKey(e))
<1> DEFINE n == Len(list)
           s == Named(list)
           g == Grown(list, e, mode)
           k == NameKey(e)
<1>1. n \in Nat /\ s \in Seq(Keys) /\ Len(s) = n /\ \A i \in 1..n : s[i] = NameKey(list[i])
  BY NamedIs
<1>2. k \in Keys BY DEF Entries, NameKey
<1>3. g \in Seq(Entries) /\ Len(g) = n + 1 BY GrownIs, GrownAt
<1>4. Named(g) \in Seq(Keys) /\ Len(Named(g)) = n + 1
      /\ \A i \in 1..n + 1 : Named(g)[i] = NameKey(g[i])
  BY <1>3, NamedIs
<1>5. CASE mode = "FORCE_FIRST"
  <2> DEFINE t == <<k>> \o s
  <2>1. g[1] = e /\ \A i \in 1..n : g[i + 1] = list[i] BY <1>5, GrownAt
  <2> HIDE DEF g, s, k, n
  <2>2. t \in Seq(Keys) /\ Len(t) = n + 1 /\ t[1] = k /\ \A i \in 1..n : t[i + 1] = s[i]
    BY <1>1, <1>2
  <2> HIDE DEF t
  <2>3. ASSUME NEW i \in 1..n + 1 PROVE Named(g)[i] = t[i]
    <3>1. CASE i = 1 BY <1>4, <2>1, <2>2, <3>1 DEF k
    <3>2. CASE i # 1
      <4>1. i - 1 \in 1..n /\ (i - 1) + 1 = i BY <1>1, <3>2
      <4>2. t[i] = s[i - 1] /\ g[i] = list[i - 1] BY <2>1, <2>2, <4>1
      <4>3. QED BY <1>1, <1>4, <4>1, <4>2
    <3>3. QED BY <3>1, <3>2
  <2>4. Named(g) = t BY <1>4, <2>2, <2>3, SameKeys
  <2>5. QED BY <1>5, <2>4 DEF t, g, s, k
<1>6. CASE mode # "FORCE_FIRST"
  <2> DEFINE t == Append(s, k)
  <2>1. g[n + 1] = e /\ \A i \in 1..n : g[i] = list[i] BY <1>6, GrownAt
  <2> HIDE DEF g, s, k, n
  <2>2. t \in Seq(Keys) /\ Len(t) = n + 1 /\ t[n + 1] = k /\ \A i \in 1..n : t[i] = s[i]
    BY <1>1, <1>2
  <2> HIDE DEF t
  <2>3. ASSUME NEW i \in 1..n + 1 PROVE Named(g)[i] = t[i]
    <3>1. CASE i = n + 1 BY <1>4, <2>1, <2>2, <3>1 DEF k
    <3>2. CASE i # n + 1
      <4>1. i \in 1..n BY <1>1, <3>2
      <4>2. QED BY <1>1, <1>4, <2>1, <2>2, <4>1
    <3>3. QED BY <3>1, <3>2
  <2>4. Named(g) = t BY <1>4, <2>2, <2>3, SameKeys
  <2>5. QED BY <1>6, <2>4 DEF t, g, s, k
<1>7. QED BY <1>5, <1>6

LEMMA NamedKept ==
    ASSUME NEW list \in Seq(Entries), NEW i \in 0..Len(list), NEW mode
    PROVE  Named(Kept(list, i, mode)) =
             IF mode = "FORCE_FIRST" THEN SubSeq(Named(list), 1, Len(list) - i)
                                     ELSE SubSeq(Named(list), i + 1, Len(list))
<1> DEFINE n == Len(list)
           s == Named(list)
           g == Kept(list, i, mode)
           t == IF mode = "FORCE_FIRST" THEN SubSeq(s, 1, n - i) ELSE SubSeq(s, i + 1, n)
<1>1. /\ n \in Nat /\ i \in Nat /\ i <= n
      /\ s \in Seq(Keys) /\ Len(s) = n /\ \A j \in 1..n : s[j] = NameKey(list[j])
  BY NamedIs
<1>2. g \in Seq(Entries) /\ Len(g) = n - i
      /\ \A j \in 1..n - i : g[j] = IF mode = "FORCE_FIRST" THEN list[j] ELSE list[j + i]
  <2>1. g \in Seq(Entries) /\ Len(g) = n - i BY KeptType
  <2>2. QED BY <2>1 DEF Kept
<1>3. Named(g) \in Seq(Keys) /\ Len(Named(g)) = n - i
      /\ \A j \in 1..n - i : Named(g)[j] = NameKey(g[j])
  BY <1>2, NamedIs
<1> HIDE DEF g, s, n
<1>4. t \in Seq(Keys) /\ Len(t) = n - i
      /\ \A j \in 1..n - i : t[j] = IF mode = "FORCE_FIRST" THEN s[j] ELSE s[j + i]
  <2>1. CASE mode = "FORCE_FIRST" BY <1>1, <2>1
  <2>2. CASE mode # "FORCE_FIRST" BY <1>1, <2>2
  <2>3. QED BY <2>1, <2>2
<1> HIDE DEF t
<1>5. ASSUME NEW j \in 1..n - i PROVE Named(g)[j] = t[j]
  <2>1. j \in 1..n /\ j + i \in 1..n BY <1>1
  <2>2. QED BY <1>1, <1>2, <1>3, <1>4, <2>1
<1>6. Named(g) = t BY <1>3, <1>4, <1>5, SameKeys
<1>7. QED BY <1>6 DEF t, g, s, n

(* The keys of a list are as different as its entries.                     *)
OneName(list) == \A e, f \in ToSet(list) : NameKey(e) = NameKey(f) => e = f

LEMMA NamedWithout ==
    ASSUME NEW h, NEW list \in Seq(Entries), IsList(h, list), OneName(list), NEW e,
           e \in ToSet(list) \/ \A f \in ToSet(list) : NameKey(f) # NameKey(e)
    PROVE  Named(Without(list, e)) = Ordered!Without(Named(list), NameKey(e))
<1> DEFINE n == Len(list)
           s == Named(list)
           k == NameKey(e)
<1>1. /\ n \in Nat /\ s \in Seq(Keys) /\ Len(s) = n /\ DOMAIN list = 1..n
      /\ \A i \in 1..n : s[i] = NameKey(list[i])
      /\ Contains(s, k) <=> \E f \in ToSet(list) : NameKey(f) = k
  BY NamedIs
<1>2. CASE e \notin ToSet(list)
  <2>1. Without(list, e) = list BY <1>2 DEF Without
  <2>2. ~Contains(s, k) BY <1>1, <1>2
  <2> HIDE DEF s, k
  <2>3. Ordered!Without(s, k) = s BY <2>2 DEF Ordered!Without, Ordered!Contains, Contains
  <2>4. QED BY <2>1, <2>3 DEF s, k
<1>3. CASE e \in ToSet(list)
  <2>1. PICK i \in 1..n : list[i] = e /\ Without(list, e) = Cut(list, i)
    BY <1>3, WithoutCut
  <2>2. Contains(s, k) BY <1>1, <1>3
  <2>3. \A j \in 1..n : s[j] = k <=> j = i
    <3>1. \A j \in 1..n : list[j] \in ToSet(list) BY <1>1 DEF ToSet
    <3>2. \A j \in 1..n : NameKey(list[j]) = NameKey(e) => list[j] = e
      BY <1>3, <3>1 DEF OneName
    <3>3. QED BY <1>1, <2>1, <3>2 DEF IsList
  <2> DEFINE c == Cut(list, i)
             t == RemoveAt(s, i)
  <2>4. c \in Seq(Entries) /\ Len(c) = n - 1
        /\ \A j \in 1..n - 1 : c[j] = IF j < i THEN list[j] ELSE list[j + 1]
    <3>1. c \in Seq(Entries) /\ Len(c) = n - 1 BY CutType
    <3>2. QED BY <3>1 DEF Cut
  <2>5. Named(c) \in Seq(Keys) /\ Len(Named(c)) = n - 1
        /\ \A j \in 1..n - 1 : Named(c)[j] = NameKey(c[j])
    BY <2>4, NamedIs
  <2> HIDE DEF c, s, n, k
  <2>6. (CHOOSE j \in 1..Len(s) : s[j] = k) = i BY <1>1, <2>3
  <2>7. Ordered!Without(s, k) = t BY <2>2, <2>6 DEF Ordered!Without, Ordered!Contains, Contains, Ordered!RemoveAt, RemoveAt
  <2>8. t \in Seq(Keys) /\ Len(t) = n - 1
        /\ \A j \in 1..n - 1 : t[j] = IF j < i THEN s[j] ELSE s[j + 1]
    <3> DEFINE a == SubSeq(s, 1, i - 1)
               b == SubSeq(s, i + 1, n)
    <3>1. a \in Seq(Keys) /\ Len(a) = i - 1 /\ \A j \in 1..i - 1 : a[j] = s[j] BY <1>1
    <3>2. b \in Seq(Keys) /\ Len(b) = n - i /\ \A j \in 1..n - i : b[j] = s[j + i] BY <1>1
    <3> HIDE DEF a, b
    <3>3. t = a \o b BY <1>1 DEF RemoveAt, a, b
    <3> HIDE DEF t
    <3>4. t \in Seq(Keys) /\ Len(t) = n - 1
          /\ \A j \in 1..n - 1 : t[j] = IF j <= i - 1 THEN a[j] ELSE b[j - (i - 1)]
      BY <1>1, <3>1, <3>2, <3>3
    <3>5. ASSUME NEW j \in 1..n - 1 PROVE t[j] = IF j < i THEN s[j] ELSE s[j + 1]
      <4>1. CASE j < i
        <5>1. j \in 1..i - 1 /\ j <= i - 1 BY <4>1
        <5>2. QED BY <3>1, <3>4, <4>1, <5>1
      <4>2. CASE ~(j < i)
        <5>1. j - (i - 1) \in 1..n - i /\ ~(j <= i - 1) /\ (j - (i - 1)) + i = j + 1
          BY <1>1, <4>2
        <5>2. QED BY <3>2, <3>4, <4>2, <5>1
      <4>3. QED BY <4>1, <4>2
    <3>6. QED BY <3>4, <3>5
  <2> HIDE DEF t
  <2>9. ASSUME NEW j \in 1..n - 1 PROVE Named(c)[j] = t[j]
    <3>1. j \in 1..n /\ j + 1 \in 1..n BY <1>1
    <3>2. QED BY <1>1, <2>4, <2>5, <2>8, <3>1
  <2>10. Named(c) = t BY <2>5, <2>8, <2>9, SameKeys
  <2>11. QED BY <2>1, <2>7, <2>10 DEF c, s, k
<1>4. QED BY <1>2, <1>3

Shows(m, list, c, o) ==
    /\ o = Named(list)
    /\ c = [k \in {NameKey(e) : e \in Chained(m)} |-> c[k]]
    /\ \A e \in Chained(m) : c[NameKey(e)] = m.heap[e].value

LEMMA KeyNames ==
    ASSUME NEW m, NEW list, Sound(m, list)
    PROVE  /\ \A e \in Chained(m) :
                /\ e \in Entries /\ e \in DOMAIN m.heap /\ m.heap[e].key = NameKey(e)
                /\ NameKey(e) \in Keys /\ NameKey(e) \in Int
           /\ \A e, f \in Chained(m) : NameKey(e) = NameKey(f) => e = f
           /\ list \in Seq(Entries) /\ IsList(m.heap, list)
           /\ ToSet(list) \subseteq Chained(m) /\ OneName(list)
<1>1. IsMap(m) /\ IsHeap(m.heap) /\ OneEach(m) /\ list \in Seq(Entries) /\ IsList(m.heap, list)
      /\ ToSet(list) \subseteq Chained(m)
  BY DEF Sound, IsMap, Threads, Linked, Placed
<1>2. Chained(m) \subseteq Entries /\ Chained(m) \subseteq DOMAIN m.heap
  BY <1>1, ChainedIs DEF IsMap, Hashed
<1>3. \A e \in Chained(m) : m.heap[e].key = NameKey(e) BY <1>1, <1>2 DEF IsHeap, NameKey
<1>4. \A e \in Entries : NameKey(e) \in Keys /\ NameKey(e) \in Int
  <2>1. \A e \in Entries : NameKey(e) \in Keys BY DEF Entries, NameKey
  <2>2. \A k \in Keys : k \in Int BY LinkedMapAssumption
  <2>3. QED BY <2>1, <2>2
<1>5. \A e, f \in Chained(m) : NameKey(e) = NameKey(f) => e = f BY <1>1, <1>3 DEF OneEach
<1>6. OneName(list) BY <1>1, <1>5 DEF OneName
<1>7. QED BY <1>1, <1>2, <1>3, <1>4, <1>5, <1>6

LEMMA FindNamed ==
    ASSUME kind \in Kinds, NEW m, NEW list, Sound(m, list), NEW e \in Chained(m)
    PROVE  Has(m, NameKey(e)) /\ Find(m, NameKey(e)) = e
<1>1. /\ m.heap[e].key = NameKey(e) /\ NameKey(e) \in Int
      /\ \A f \in Chained(m) : m.heap[f].key = NameKey(f) /\ (NameKey(e) = NameKey(f) => e = f)
  BY KeyNames
<1>2. IsMap(m) BY DEF Sound
<1>3. Has(m, NameKey(e)) BY <1>1, <1>2, FindIs
<1>4. Find(m, NameKey(e)) \in Chained(m) /\ m.heap[Find(m, NameKey(e))].key = NameKey(e)
  BY <1>1, <1>2, <1>3, FindIs
<1>5. QED BY <1>1, <1>3, <1>4

Seen == Shows(Map, List(Map), Content, Order)

LEMMA MapShows == MapInv => Seen
<1> SUFFICES ASSUME MapInv PROVE Seen
  OBVIOUS
<1>1. PICK list : Sound(Map, list) /\ Tidy(Map) BY DEF MapInv
<1>2. kind \in Kinds BY DEF MapInv
<1>3. List(Map) = list
  <2>1. IsHeap(Map.heap) /\ Linked(Map.heap, list) /\ Loose(Map.heap, list) /\ list \in Seq(Entries)
    BY <1>1 DEF Sound, Threads, IsMap
  <2>2. QED BY <2>1, ListIs
<1>4. /\ \A e \in Chained(Map) : heap[e].key = NameKey(e)
      /\ list \in Seq(Entries) /\ ToSet(list) \subseteq Chained(Map)
  BY <1>1, KeyNames, MapFields
<1>5. Order = Named(list)
  <2>1. DOMAIN list = 1..Len(list) BY <1>4
  <2>2. \A i \in 1..Len(list) : heap[list[i]].key = NameKey(list[i])
    BY <1>4, <2>1 DEF ToSet
  <2>3. QED BY <1>3, <2>1, <2>2, MapFields DEF Order, KeysOf, Named
<1>6. {heap[e].key : e \in InTable} = {NameKey(e) : e \in Chained(Map)}
  BY <1>4 DEF InTable
<1> DEFINE S == {NameKey(e) : e \in Chained(Map)}
<1>7. Content = [k \in S |-> heap[Find(Map, k)].value] BY <1>6 DEF Content
<1>8. ASSUME NEW e \in Chained(Map) PROVE Content[NameKey(e)] = Map.heap[e].value
  <2>1. Find(Map, NameKey(e)) = e BY <1>1, <1>2, FindNamed
  <2>2. NameKey(e) \in S OBVIOUS
  <2> HIDE DEF S
  <2>3. Content[NameKey(e)] = heap[Find(Map, NameKey(e))].value BY <1>7, <2>2
  <2>4. QED BY <2>1, <2>3, MapFields
<1>9. Content = [k \in S |-> Content[k]]
  <2> HIDE DEF S
  <2>1. QED BY <1>7
<1>10. QED BY <1>3, <1>5, <1>8, <1>9 DEF Shows, Seen

LEMMA NextShows == MapInv' => Seen'
BY MapShows, PTL

(* What is seen of the map that a method leaves.                           *)
LEMMA BecomeShows ==
    ASSUME kind \in Kinds, MapInv', NEW m, NEW new, Sound(m, new), NEW hits, NEW at,
           Become(m, hits, at)
    PROVE  Shows(m, new, Content', Order')
<1> DEFINE r == Swept(m)
<1>1. Sound(r, new) /\ Chained(r) = Chained(m) BY SweptSound
<1>2. Map' = r BY DEF Become, Map, Swept
<1>3. \A e \in Chained(m) : r.heap[e] = m.heap[e] BY DEF Swept
<1> HIDE DEF r
<1>4. List(r) = new
  <2>1. IsHeap(r.heap) /\ Linked(r.heap, new) /\ Loose(r.heap, new) /\ new \in Seq(Entries)
    BY <1>1 DEF Sound, Threads, IsMap
  <2>2. QED BY <2>1, ListIs
<1>5. Shows(r, new, Content', Order') BY <1>2, <1>4, NextShows DEF Seen
<1>6. QED BY <1>1, <1>3, <1>5 DEF Shows

-----------------------------------------------------------------------------
(* What a method changes of what is seen.                                  *)

LEMMA SeenSame ==
    ASSUME NEW m, NEW list, NEW c, NEW o, Shows(m, list, c, o), NEW d, NEW p, Shows(m, list, d, p)
    PROVE  d = c /\ p = o
<1> DEFINE S == {NameKey(e) : e \in Chained(m)}
<1>1. c = [k \in S |-> c[k]] /\ d = [k \in S |-> d[k]] BY DEF Shows
<1>4. \A k \in S : c[k] = d[k]
  <2>1. \A e \in Chained(m) : c[NameKey(e)] = d[NameKey(e)] BY DEF Shows
  <2>2. QED BY <2>1
<1> HIDE DEF S
<1>2. c = d BY <1>1, <1>4
<1>3. QED BY <1>2 DEF Shows

(* The three changes of one key, named so that a step can cite them whole: *)
(* k is dropped, k gets a value and a place, k enters after evictions.     *)

Loses(c, o, d, p, k) ==
    /\ k \in DOMAIN c
    /\ d = [x \in DOMAIN c \ {k} |-> c[x]]
    /\ p = Ordered!Without(o, k)

Changes(c, o, d, p, k, value, mode) ==
    /\ k \in DOMAIN c
    /\ d = [c EXCEPT ![k] = value]
    /\ p = IF mode = "LAST" \/ ~Contains(o, k) THEN o
           ELSE IF mode = "FORCE_FIRST" THEN <<k>> \o Ordered!Without(o, k)
                                        ELSE Append(Ordered!Without(o, k), k)

Enters(c, o, d, p, k, value, mode, kept) ==
    /\ k \notin DOMAIN c
    /\ d = [x \in (DOMAIN c \ (ToSet(o) \ ToSet(Named(kept)))) \cup {k} |->
               IF x = k THEN value ELSE c[x]]
    /\ p = IF ~Listed(mode) THEN Named(kept)
           ELSE IF mode = "FORCE_FIRST" THEN <<k>> \o Named(kept)
                                        ELSE Append(Named(kept), k)

LEMMA SeenLess ==
    ASSUME NEW m, NEW list, Sound(m, list), NEW c, NEW o, Shows(m, list, c, o),
           NEW e \in Chained(m), NEW key, NameKey(e) = key, NEW r, Chained(r) = Chained(m) \ {e},
           \A x \in Chained(r) : r.heap[x].value = m.heap[x].value,
           NEW d, NEW p, Shows(r, Without(list, e), d, p)
    PROVE  Loses(c, o, d, p, key)
<1> DEFINE S == {NameKey(x) : x \in Chained(m)}
           T == {NameKey(x) : x \in Chained(r)}
<1>1. \A x, y \in Chained(m) : NameKey(x) = NameKey(y) => x = y BY KeyNames
<1>2. T = S \ {NameKey(e)} /\ NameKey(e) \in S BY <1>1
<1>3. c = [k \in S |-> c[k]] /\ d = [k \in T |-> d[k]] BY DEF Shows
<1>4. \A k \in T : d[k] = c[k]
  <2>1. \A x \in Chained(r) : d[NameKey(x)] = c[NameKey(x)] BY DEF Shows
  <2>2. QED BY <2>1
<1> HIDE DEF S, T
<1>5. DOMAIN c = S BY <1>3
<1>6. d = [x \in DOMAIN c \ {NameKey(e)} |-> c[x]] BY <1>2, <1>3, <1>4, <1>5
<1>7. p = Ordered!Without(o, NameKey(e))
  <2>1. list \in Seq(Entries) /\ IsList(m.heap, list) /\ OneName(list)
        /\ ToSet(list) \subseteq Chained(m)
    BY KeyNames
  <2>2. e \in ToSet(list) \/ \A f \in ToSet(list) : NameKey(f) # NameKey(e) BY <1>1, <2>1
  <2>3. QED BY <2>1, <2>2, NamedWithout DEF Shows
<1>8. QED BY <1>2, <1>5, <1>6, <1>7 DEF Loses

LEMMA SeenUpdate ==
    ASSUME NEW m, NEW list, Sound(m, list), NEW c, NEW o, Shows(m, list, c, o),
           NEW e \in Chained(m), NEW key, NameKey(e) = key, NEW value, NEW r, Gains(r, m, e, value),
           NEW mode \in Modes, NEW d, NEW p, Shows(r, Moved(list, e, mode), d, p)
    PROVE  Changes(c, o, d, p, key, value, mode)
<1> DEFINE S == {NameKey(x) : x \in Chained(m)}
           k == NameKey(e)
<1>1. \A x, y \in Chained(m) : NameKey(x) = NameKey(y) => x = y BY KeyNames
<1>2. Chained(r) = Chained(m) /\ r.heap[e].value = value
      /\ \A x \in Chained(m) \ {e} : r.heap[x].value = m.heap[x].value
  BY DEF Gains
<1>3. c = [x \in S |-> c[x]] /\ d = [x \in S |-> d[x]] BY <1>2 DEF Shows
<1>4. \A x \in S : d[x] = IF x = k THEN value ELSE c[x]
  <2>1. ASSUME NEW x \in Chained(m)
        PROVE  d[NameKey(x)] = IF NameKey(x) = k THEN value ELSE c[NameKey(x)]
    <3>1. d[NameKey(x)] = r.heap[x].value /\ c[NameKey(x)] = m.heap[x].value
      BY <1>2 DEF Shows
    <3>2. QED BY <1>1, <1>2, <3>1
  <2>2. QED BY <2>1
<1>5. k \in S OBVIOUS
<1> HIDE DEF S, k
<1>6. DOMAIN c = S BY <1>3
<1>7. d = [c EXCEPT ![k] = value] BY <1>3, <1>4, <1>5, <1>6
<1>8. p = IF mode = "LAST" \/ ~Contains(o, k) THEN o
          ELSE IF mode = "FORCE_FIRST" THEN <<k>> \o Ordered!Without(o, k)
                                       ELSE Append(Ordered!Without(o, k), k)
  <2>1. list \in Seq(Entries) /\ IsList(m.heap, list) /\ OneName(list)
        /\ ToSet(list) \subseteq Chained(m) /\ e \in Entries
    BY KeyNames
  <2>2. o = Named(list) /\ p = Named(Moved(list, e, mode)) BY DEF Shows
  <2>3. Contains(o, k) <=> e \in ToSet(list)
    <3>1. Contains(o, k) <=> \E x \in ToSet(list) : NameKey(x) = k BY <2>1, <2>2, NamedIs
    <3>2. QED BY <1>1, <2>1, <3>1 DEF k
  <2>4. CASE mode = "LAST" \/ ~Contains(o, k) BY <2>2, <2>3, <2>4 DEF Moved
  <2>5. CASE mode # "LAST" /\ Contains(o, k)
    <3>1. p = Named(Grown(Without(list, e), e, mode)) BY <2>2, <2>3, <2>5 DEF Moved
    <3>2. Without(list, e) \in Seq(Entries) BY <2>1, WithoutIs
    <3>3. Named(Without(list, e)) = Ordered!Without(o, k)
      BY <2>1, <2>2, <2>3, <2>5, NamedWithout DEF k
    <3>4. p = IF mode = "FORCE_FIRST" THEN <<k>> \o Named(Without(list, e))
                                      ELSE Append(Named(Without(list, e)), k)
      BY <2>1, <3>1, <3>2, NamedGrown DEF k
    <3>5. QED BY <2>5, <3>3, <3>4
  <2>6. QED BY <2>4, <2>5
<1>9. QED BY <1>5, <1>6, <1>7, <1>8 DEF k, Changes

LEMMA SeenInsert ==
    ASSUME kind \in Kinds, max \in Nat, NEW m, NEW list, Sound(m, list),
           NEW c, NEW o, Shows(m, list, c, o), NEW e \in Entries, e \notin DOMAIN m.heap,
           NEW key, NameKey(e) = key, ~Has(m, key), NEW value, NEW mode \in Modes, IsInt => Excess(m) = 0,
           NEW r, Inserts(r, m, list, e, value, mode), NEW kept, kept = Kept(list, Excess(m), mode),
           NEW d, NEW p, Shows(r, Added(kept, e, mode), d, p)
    PROVE  Enters(c, o, d, p, key, value, mode, kept)
<1> DEFINE k == NameKey(e)
           a == Evict(m, mode)
           S == {NameKey(x) : x \in Chained(m)}
           T == {NameKey(x) : x \in Chained(r)}
<1>1. /\ \A x \in Chained(m) : x \in DOMAIN m.heap /\ m.heap[x].key = NameKey(x)
      /\ \A x, y \in Chained(m) : NameKey(x) = NameKey(y) => x = y
      /\ list \in Seq(Entries) /\ ToSet(list) \subseteq Chained(m)
  BY KeyNames
<1>2. k \in Int /\ k \in Keys
  <2>1. k \in Keys BY DEF Entries, NameKey
  <2>2. \A x \in Keys : x \in Int BY LinkedMapAssumption
  <2>3. QED BY <2>1, <2>2
<1>3. \A x \in Chained(m) : NameKey(x) # k
  <2>1. IsMap(m) BY DEF Sound
  <2>2. ~\E x \in Chained(m) : m.heap[x].key = k BY <1>2, <2>1, FindIs
  <2>3. QED BY <1>1, <2>2
<1>4. /\ Excess(m) \in 0..Len(list) /\ Less(a, m)
      /\ Chained(a) = Chained(m) \ (ToSet(list) \ ToSet(kept))
  BY EvictSound
<1>5. Gains(r, a, e, value) BY DEF Inserts
<1> HIDE DEF a
<1>6. kept \in Seq(Entries) /\ ToSet(kept) \subseteq ToSet(list) BY <1>1, <1>4, KeptType
<1>7. /\ Chained(r) = Chained(a) \cup {e} /\ r.heap[e].value = value
      /\ \A x \in Chained(a) : x # e /\ x \in Chained(m) /\ r.heap[x].value = m.heap[x].value
  <2>1. \A x \in Chained(a) : x \in Chained(m) /\ x # e BY <1>1, <1>4
  <2>2. \A x \in Chained(a) : a.heap[x].value = m.heap[x].value BY <1>4 DEF Less
  <2>3. \A x \in Chained(a) : r.heap[x].value = a.heap[x].value BY <1>5, <2>1 DEF Gains
  <2>4. Chained(r) = Chained(a) \cup {e} /\ r.heap[e].value = value BY <1>5 DEF Gains
  <2>5. QED BY <2>1, <2>2, <2>3, <2>4
<1>8. c = [x \in S |-> c[x]] /\ d = [x \in T |-> d[x]] /\ o = Named(list)
      /\ p = Named(Added(kept, e, mode))
  BY DEF Shows
<1>9. ToSet(o) = {NameKey(x) : x \in ToSet(list)}
      /\ ToSet(Named(kept)) = {NameKey(x) : x \in ToSet(kept)}
  BY <1>1, <1>6, <1>8, NamedIs
<1>10. T = (S \ (ToSet(o) \ ToSet(Named(kept)))) \cup {k}
  <2>1. {NameKey(x) : x \in Chained(a)} = S \ (ToSet(o) \ ToSet(Named(kept)))
    BY <1>1, <1>4, <1>6, <1>9
  <2>2. T = {NameKey(x) : x \in Chained(a)} \cup {k} BY <1>7
  <2>3. QED BY <2>1, <2>2
<1>11. k \notin S BY <1>3
<1>12. d[k] = value BY <1>7 DEF Shows
<1>13. \A x \in T : x # k => d[x] = c[x]
  <2>1. \A x \in Chained(a) : d[NameKey(x)] = r.heap[x].value BY <1>7 DEF Shows
  <2>2. \A x \in Chained(a) : c[NameKey(x)] = m.heap[x].value BY <1>7 DEF Shows
  <2>3. QED BY <1>7, <2>1, <2>2
<1> HIDE DEF S, T, k
<1>14. DOMAIN c = S BY <1>8
<1>15. d = [x \in T |-> IF x = k THEN value ELSE c[x]] BY <1>8, <1>12, <1>13
<1>16. p = IF ~Listed(mode) THEN Named(kept)
           ELSE IF mode = "FORCE_FIRST" THEN <<k>> \o Named(kept) ELSE Append(Named(kept), k)
  <2>1. CASE ~Listed(mode) BY <1>8, <2>1 DEF Added
  <2>2. CASE Listed(mode)
    <3>1. p = Named(Grown(kept, e, mode)) BY <1>8, <2>2 DEF Added
    <3>2. QED BY <1>6, <2>2, <3>1, NamedGrown DEF k
  <2>3. QED BY <2>1, <2>2
<1>17. QED BY <1>10, <1>11, <1>14, <1>15, <1>16 DEF k, Enters

LEMMA SeenSorted ==
    ASSUME max \in Nat, ~IsInt, NEW m, NEW list, Sound(m, list), NEW c, NEW o, Shows(m, list, c, o),
           NEW r, NEW new, Sorts(r, m, list, new), NEW d, NEW p, Shows(r, new, d, p)
    PROVE  /\ p \in Seq(Keys) /\ ToSet(p) \subseteq ToSet(o)
           /\ Len(p) = IF max > 0 /\ Len(o) > max THEN max ELSE Len(o)
           /\ \A i, j \in 1..Len(p) : i < j => p[i] < p[j]
           /\ \A k \in ToSet(p), x \in ToSet(o) \ ToSet(p) : x < k
           /\ d = [k \in ToSet(p) |-> c[k]]
<1>1. list \in Seq(Entries) /\ ToSet(list) \subseteq Chained(m) BY KeyNames
<1>2. new \in Seq(Entries) /\ Sound(r, new) BY KeyNames DEF Sorts
<1>3. o = Named(list) /\ p = Named(new) BY DEF Shows
<1>4. /\ Len(o) = Len(list) /\ ToSet(o) = {NameKey(x) : x \in ToSet(list)}
  BY <1>1, <1>3, NamedIs
<1>5. /\ p \in Seq(Keys) /\ Len(p) = Len(new) /\ ToSet(p) = {NameKey(x) : x \in ToSet(new)}
      /\ \A i \in 1..Len(new) : p[i] = NameKey(new[i])
  BY <1>2, <1>3, NamedIs
<1>6. /\ Len(new) = Width(Len(list))
      /\ \A i, j \in 1..Len(new) : i < j => NameKey(new[i]) < NameKey(new[j])
      /\ \A e \in ToSet(new) : \E x \in ToSet(list) :
           NameKey(e) = NameKey(x) /\ r.heap[e].value = m.heap[x].value
      /\ \A x \in ToSet(list) :
           \/ \E e \in ToSet(new) : NameKey(e) = NameKey(x)
           \/ \A e \in ToSet(new) : NameKey(x) < NameKey(e)
  BY DEF Sorts
<1>7. Len(p) = IF max > 0 /\ Len(o) > max THEN max ELSE Len(o) BY <1>4, <1>5, <1>6 DEF Width
<1>8. ToSet(p) \subseteq ToSet(o) BY <1>4, <1>5, <1>6
<1>9. \A i, j \in 1..Len(p) : i < j => p[i] < p[j] BY <1>5, <1>6
<1>10. ASSUME NEW k \in ToSet(p), NEW x \in ToSet(o), x \notin ToSet(p) PROVE x < k
  <2>1. PICK e \in ToSet(new) : k = NameKey(e) BY <1>5
  <2>2. PICK f \in ToSet(list) : x = NameKey(f) BY <1>4, <1>10
  <2>3. ~\E g \in ToSet(new) : NameKey(g) = NameKey(f) BY <1>5, <1>10, <2>2
  <2>4. QED BY <1>6, <2>1, <2>2, <2>3
<1>11. d = [k \in ToSet(p) |-> c[k]]
  <2>1. Chained(r) = ToSet(new) BY <1>2, CountIsLength
  <2>2. d = [k \in ToSet(p) |-> d[k]]
    <3>1. {NameKey(e) : e \in Chained(r)} = ToSet(p) BY <1>5, <2>1
    <3>2. QED BY <3>1 DEF Shows
  <2>3. \A e \in ToSet(new) : d[NameKey(e)] = r.heap[e].value BY <2>1 DEF Shows
  <2>4. \A x \in ToSet(list) : c[NameKey(x)] = m.heap[x].value BY <1>1 DEF Shows
  <2>5. \A e \in ToSet(new) : d[NameKey(e)] = c[NameKey(e)] BY <1>6, <2>3, <2>4
  <2>6. \A k \in ToSet(p) : d[k] = c[k] BY <1>5, <2>5
  <2>7. QED BY <2>2, <2>6
<1>12. QED BY <1>5, <1>7, <1>8, <1>9, <1>10, <1>11

LEMMA SeenNone ==
    ASSUME NEW m, Chained(m) = {}, NEW c, NEW o, Shows(m, <<>>, c, o)
    PROVE  c = <<>> /\ o = <<>>
<1>1. o = <<>> BY DEF Shows, Named
<1>2. {NameKey(e) : e \in Chained(m)} = {} OBVIOUS
<1>3. c = [k \in {} |-> c[k]] BY <1>2 DEF Shows
<1>4. <<>> = [k \in {} |-> c[k]] OBVIOUS
<1>5. QED BY <1>1, <1>3, <1>4

-----------------------------------------------------------------------------
(* The steps, as callers see them.                                         *)

LEMMA SeenNow ==
    ASSUME MapInv
    PROVE  \E list : Sound(Map, list) /\ Tidy(Map) /\ Shows(Map, list, Content, Order)
<1>1. PICK list : Sound(Map, list) /\ Tidy(Map) BY DEF MapInv
<1>2. IsHeap(Map.heap) /\ Linked(Map.heap, list) /\ Loose(Map.heap, list) /\ list \in Seq(Entries)
  BY <1>1 DEF Sound, Threads, IsMap
<1>3. List(Map) = list BY <1>2, ListIs
<1>4. Shows(Map, list, Content, Order) BY <1>3, MapShows DEF Seen
<1>5. QED BY <1>1, <1>4

LEMMA NothingSeen ==
    ASSUME MapInv, MapInv', Map' = Map, max' = max, kind' = kind
    PROVE  UNCHANGED Ordered!mapVars
<1>1. Shows(Map, List(Map), Content, Order) BY MapShows DEF Seen
<1>2. Shows(Map, List(Map), Content', Order') BY NextShows DEF Seen
<1>3. Content' = Content /\ Order' = Order BY <1>1, <1>2, SeenSame
<1>4. QED BY <1>3 DEF Ordered!mapVars, IsInt

LEMMA PutSeen ==
    ASSUME MapInv, MapInv', NEW key \in Keys, NEW mode \in Modes, NEW value \in ValuesOf,
           Put(key, value, mode)
    PROVE  Ordered!Put(key, value, mode) \/ UNCHANGED Ordered!mapVars
<1> DEFINE m == Put1(Map, key, value, mode)
<1>1. PICK list : Sound(Map, list) /\ Tidy(Map) /\ Shows(Map, list, Content, Order) BY SeenNow
<1>2. kind \in Kinds /\ max \in Nat /\ kind' = kind /\ max' = max BY DEF MapInv, Put
<1>3. (UNCHANGED store /\ UNCHANGED walks)
      \/ /\ ~(IsInt /\ ~Has(Map, key) /\ max > 0 /\ count >= max)
         /\ Become(m, Moves(m), pc)
  BY DEF Put
<1>4. CASE UNCHANGED store /\ UNCHANGED walks
  BY <1>2, <1>4, NothingSeen DEF store, Map
<1>5. CASE /\ ~(IsInt /\ ~Has(Map, key) /\ max > 0 /\ count >= max)
           /\ Become(m, Moves(m), pc)
  <2>1. value \in Values \cup {Null} BY DEF ValuesOf
  <2>2. IsInt /\ ~Has(Map, key) => Excess(Map) = 0 BY <1>5, MapFields DEF Excess
  <2>3. Room(Map.heap, key) BY <1>1, <1>2, RoomIs DEF Tidy
  <2>4. PutsKey(m, Map, list, key, value, mode) BY <1>1, <1>2, <2>1, <2>2, <2>3, PutSound
  <2> HIDE DEF m
  <2>5. ASSUME NEW new, Sound(m, new) PROVE Shows(m, new, Content', Order')
    BY <1>2, <1>5, <2>5, BecomeShows
  <2>6. max' = max /\ (~IsInt)' = ~IsInt BY <1>2 DEF IsInt
  <2>7. CASE Has(Map, key)
    <3> DEFINE e == Find(Map, key)
    <3>1. Overwrites(m, Map, list, key, value, mode) BY <2>4, <2>7 DEF PutsKey
    <3>2. e \in Chained(Map) /\ NameKey(e) = key
      <4>1. IsMap(Map) /\ key \in Int BY <1>1, LinkedMapAssumption DEF Sound
      <4>2. e \in Chained(Map) /\ Map.heap[e].key = key BY <1>2, <2>7, <4>1, FindIs
      <4>3. QED BY <1>1, <4>2, KeyNames
    <3> HIDE DEF e
    <3>3. Sound(m, Moved(list, e, mode)) /\ Gains(m, Map, e, value)
      BY <3>1 DEF Overwrites, e
    <3>4. Shows(m, Moved(list, e, mode), Content', Order') BY <2>5, <3>3
    <3>5. /\ key \in DOMAIN Content
          /\ Content' = [Content EXCEPT ![key] = value]
          /\ Order' = IF mode = "LAST" \/ ~Contains(Order, key) THEN Order
                      ELSE IF mode = "FORCE_FIRST" THEN <<key>> \o Ordered!Without(Order, key)
                           ELSE Append(Ordered!Without(Order, key), key)
      <4>1. Changes(Content, Order, Content', Order', key, value, mode)
        BY <1>1, <3>2, <3>3, <3>4, SeenUpdate
      <4>2. QED BY <4>1 DEF Changes
    <3>6. Ordered!Update(key, value, mode)
      BY <3>5 DEF Ordered!Update, Ordered!Contains, Contains
    <3>7. QED BY <2>6, <3>6 DEF Ordered!Put
  <2>8. CASE ~Has(Map, key)
    <3>1. PICK e \in Entries \ DOMAIN Map.heap :
            NameKey(e) = key /\ Inserts(m, Map, list, e, value, mode)
      BY <2>4, <2>8 DEF PutsKey
    <3> DEFINE kept == Kept(list, Excess(Map), mode)
    <3>2. Sound(m, Added(kept, e, mode)) BY <3>1 DEF Inserts
    <3>3. Shows(m, Added(kept, e, mode), Content', Order') BY <2>5, <3>2
    <3>4. /\ key \notin DOMAIN Content
          /\ Content' = [x \in (DOMAIN Content \ (ToSet(Order) \ ToSet(Named(kept)))) \cup {key} |->
                           IF x = key THEN value ELSE Content[x]]
          /\ Order' = IF ~Listed(mode) THEN Named(kept)
                      ELSE IF mode = "FORCE_FIRST" THEN <<key>> \o Named(kept)
                                                   ELSE Append(Named(kept), key)
      <4> HIDE DEF kept
      <4>1. kept = Kept(list, Excess(Map), mode) BY DEF kept
      <4>2. IsInt => Excess(Map) = 0 BY <2>2, <2>8
      <4>3. e \in Entries /\ e \notin DOMAIN Map.heap /\ NameKey(e) = key BY <3>1
      <4>4. Inserts(m, Map, list, e, value, mode) BY <3>1
      <4>5. Enters(Content, Order, Content', Order', key, value, mode, kept)
        BY <1>1, <1>2, <2>8, <3>3, <4>1, <4>2, <4>3, <4>4, SeenInsert
      <4>6. QED BY <4>5 DEF Enters
    <3>5. Ordered!Room(mode) = Named(kept)
      <4>1. list \in Seq(Entries) /\ Order = Named(list) /\ Len(Order) = Len(list)
        BY <1>1, KeyNames, NamedIs DEF Shows
      <4>2. Excess(Map) = IF max > 0 /\ Len(Order) >= max THEN Len(Order) - max + 1 ELSE 0
        <5>1. CASE IsInt
          <6>1. Excess(Map) = 0 /\ Map.count \in Int
            BY <1>1, <2>2, <2>8, <5>1 DEF Sound, IsMap, Maps
          <6>2. ~(max > 0 /\ Map.count >= max) BY <1>2, <6>1 DEF Excess
          <6>3. Len(list) <= Map.count
            <7>1. IsFiniteSet(Chained(Map)) /\ Map.count = Cardinality(Chained(Map))
              BY <1>1 DEF Sound, IsMap, Counted
            <7>2. ToSet(list) \in SUBSET Chained(Map) /\ IsList(Map.heap, list) BY <1>1, KeyNames
            <7>3. Cardinality(ToSet(list)) = Len(list) BY <4>1, <7>2, LengthIs
            <7>4. QED BY <7>1, <7>2, <7>3, FS_Subset
          <6>4. QED BY <1>2, <4>1, <6>1, <6>2, <6>3
        <5>2. CASE ~IsInt
          <6>1. Map.count = Len(list) BY <1>1, <5>2, CountIsLength
          <6>2. QED BY <4>1, <6>1 DEF Excess
        <5>3. QED BY <5>1, <5>2
      <4>3. Excess(Map) \in 0..Len(list) BY <1>1, <1>2, <2>2, <2>8, EvictSound
      <4>4. Named(kept) = IF mode = "FORCE_FIRST" THEN SubSeq(Order, 1, Len(Order) - Excess(Map))
                          ELSE SubSeq(Order, Excess(Map) + 1, Len(Order))
        BY <4>1, <4>3, NamedKept
      <4> HIDE DEF kept
      <4>5. QED BY <4>2, <4>4 DEF Ordered!Room
    <3> HIDE DEF kept
    <3>6. Order' = Ordered!Placed(Ordered!Room(mode), key, mode)
      BY <3>4, <3>5 DEF Ordered!Placed, Listed, Modes
    <3>7. Ordered!Insert(key, value, mode)
      BY <3>4, <3>5, <3>6 DEF Ordered!Insert, Ordered!ToSet, ToSet
    <3>8. QED BY <2>6, <3>7 DEF Ordered!Put
  <2>9. QED BY <2>7, <2>8
<1>6. QED BY <1>3, <1>4, <1>5

LEMMA RemoveSeen ==
    ASSUME MapInv, MapInv', NEW key \in Int, NEW hits, NEW at, kind' = kind, max' = max,
           Become(Remove1(Map, key), hits, at)
    PROVE  (key \in Keys /\ Ordered!Delete(key)) \/ UNCHANGED Ordered!mapVars
<1> DEFINE e == Find(Map, key)
           r == Remove1(Map, key)
<1>1. PICK list : Sound(Map, list) /\ Tidy(Map) /\ Shows(Map, list, Content, Order) BY SeenNow
<1>2. kind \in Kinds BY DEF MapInv
<1>3. CASE Has(Map, key)
  <2>1. e \in Chained(Map) /\ NameKey(e) = key /\ key \in Keys
    <3>1. IsMap(Map) BY <1>1 DEF Sound
    <3>2. e \in Chained(Map) /\ Map.heap[e].key = key BY <1>2, <1>3, <3>1, FindIs
    <3>3. QED BY <1>1, <3>2, KeyNames
  <2>2. /\ Sound(r, Without(list, e)) /\ Chained(r) = Chained(Map) \ {e}
        /\ \A x \in DOMAIN Map.heap : x # e => r.heap[x].value = Map.heap[x].value
    BY <1>1, <1>2, <1>3, RemoveSound
  <2> HIDE DEF e, r
  <2>3. \A x \in Chained(r) : r.heap[x].value = Map.heap[x].value BY <1>1, <2>2, KeyNames
  <2>4. Shows(r, Without(list, e), Content', Order')
    <3>1. Become(r, hits, at) BY DEF r
    <3>2. QED BY <1>2, <2>2, <3>1, BecomeShows
  <2>5. /\ key \in DOMAIN Content
        /\ Content' = [x \in DOMAIN Content \ {key} |-> Content[x]]
        /\ Order' = Ordered!Without(Order, key)
    <3>1. Loses(Content, Order, Content', Order', key)
      BY <1>1, <2>1, <2>2, <2>3, <2>4, SeenLess
    <3>2. QED BY <3>1 DEF Loses
  <2>6. QED BY <2>1, <2>5 DEF Ordered!Delete, IsInt
<1>4. CASE ~Has(Map, key)
  <2>1. Become(Map, hits, at) BY <1>4 DEF Remove1
  <2>2. Shows(Map, list, Content', Order') BY <1>1, <1>2, <2>1, BecomeShows
  <2>3. Content' = Content /\ Order' = Order BY <1>1, <2>2, SeenSame
  <2>4. QED BY <2>3 DEF Ordered!mapVars, IsInt
<1>5. QED BY <1>3, <1>4

LEMMA ClearSeen == ASSUME MapInv, MapInv', Clear PROVE Ordered!Empty
<1>1. PICK list : Sound(Map, list) BY SeenNow
<1>2. kind \in Kinds /\ kind' = kind /\ max' = max /\ Become(Clear1(Map), TRUE, pc)
  BY DEF MapInv, Clear
<1>3. Sound(Clear1(Map), <<>>) BY <1>1, <1>2, ClearSound
<1>4. Shows(Clear1(Map), <<>>, Content', Order') BY <1>2, <1>3, BecomeShows
<1>5. Chained(Clear1(Map)) = {} BY DEF Clear1, Chained
<1>6. Content' = <<>> /\ Order' = <<>> BY <1>4, <1>5, SeenNone
<1>7. QED BY <1>2, <1>6 DEF Ordered!Empty, IsInt

LEMMA SortSeen == ASSUME MapInv, MapInv', Sort PROVE Ordered!Rearrange
<1>1. PICK list : Sound(Map, list) /\ Tidy(Map) /\ Shows(Map, list, Content, Order) BY SeenNow
<1>2. /\ kind \in Kinds /\ max \in Nat /\ kind' = kind /\ max' = max /\ ~IsInt
      /\ Become(Sort1(Map), TRUE, pc)
  BY DEF MapInv, Sort
<1>3. PICK new : Sorts(Sort1(Map), Map, list, new) BY <1>1, <1>2, SortSound DEF Tidy
<1>4. Sound(Sort1(Map), new) BY <1>3 DEF Sorts
<1>5. Shows(Sort1(Map), new, Content', Order') BY <1>2, <1>4, BecomeShows
<1>6. /\ Order' \in Seq(Keys) /\ ToSet(Order') \subseteq ToSet(Order)
      /\ Len(Order') = IF max > 0 /\ Len(Order) > max THEN max ELSE Len(Order)
      /\ \A i, j \in 1..Len(Order') : i < j => Order'[i] < Order'[j]
      /\ \A k \in ToSet(Order'), x \in ToSet(Order) \ ToSet(Order') : x < k
      /\ Content' = [k \in ToSet(Order') |-> Content[k]]
  BY <1>1, <1>2, <1>3, <1>5, SeenSorted
<1>7. QED BY <1>2, <1>6 DEF Ordered!Rearrange, Ordered!ToSet, ToSet, IsInt

LEMMA GetLRUSeen == ASSUME MapInv, MapInv', NEW key \in Keys, GetLRU(key) PROVE Ordered!Touch(key)
<1> DEFINE e == Find(Map, key)
           m == [Map EXCEPT !.heap = ChainAt(Unchain(heap, e), e, "FORCE_LAST")]
<1>1. PICK list : Sound(Map, list) /\ Tidy(Map) /\ Shows(Map, list, Content, Order) BY SeenNow
<1>2. /\ kind \in Kinds /\ kind' = kind /\ max' = max
      /\ Has(Map, key) /\ heap[e].prev # Null /\ Become(m, TRUE, pc)
  BY MapFields DEF MapInv, GetLRU, Map
<1>3. IsMap(Map) /\ Placed(Map, list) /\ IsHeap(heap)
  BY <1>1, MapFields DEF Sound, Threads, IsMap
<1>4. e \in Chained(Map) /\ NameKey(e) = key
  <2>1. key \in Int BY LinkedMapAssumption
  <2>2. e \in Chained(Map) /\ Map.heap[e].key = key BY <1>2, <1>3, <2>1, FindIs
  <2>3. QED BY <1>1, <2>2, KeyNames
<1>5. e \in ToSet(list) BY <1>2, <1>3, <1>4, MapFields DEF Placed
<1> HIDE DEF e
<1>6. Relinks(m, Map, list, e, "FORCE_LAST", heap) BY <1>1, <1>3, <1>5, RelinkSound, MapFields
<1> HIDE DEF m
<1> DEFINE new == Grown(Without(list, e), e, "FORCE_LAST")
<1>7. Sound(m, new) /\ Chained(m) = Chained(Map)
      /\ \A x \in DOMAIN heap : m.heap[x].value = heap[x].value
  BY <1>6 DEF Relinks
<1> HIDE DEF new
<1>8. Shows(m, new, Content', Order') BY <1>2, <1>7, BecomeShows
<1>9. Gains(m, Map, e, Map.heap[e].value)
  <2>1. Chained(Map) \subseteq DOMAIN heap BY <1>1, KeyNames, MapFields
  <2>2. DOMAIN m.heap = DOMAIN heap BY <1>6 DEF Relinks
  <2>3. QED BY <1>4, <1>7, <2>1, <2>2, MapFields DEF Gains
<1>10. Moved(list, e, "FORCE_LAST") = new BY <1>5 DEF Moved, new
<1>11. /\ key \in DOMAIN Content
       /\ Content' = [Content EXCEPT ![key] = Map.heap[e].value]
       /\ Order' = IF ~Contains(Order, key) THEN Order
                   ELSE Append(Ordered!Without(Order, key), key)
  <2>1. "FORCE_LAST" \in Modes /\ "FORCE_LAST" # "LAST" /\ "FORCE_LAST" # "FORCE_FIRST"
    BY DEF Modes
  <2>2. Shows(m, Moved(list, e, "FORCE_LAST"), Content', Order') BY <1>8, <1>10
  <2>3. /\ key \in DOMAIN Content
        /\ Content' = [Content EXCEPT ![key] = Map.heap[e].value]
        /\ Order' = IF "FORCE_LAST" = "LAST" \/ ~Contains(Order, key) THEN Order
                    ELSE IF "FORCE_LAST" = "FORCE_FIRST"
                         THEN <<key>> \o Ordered!Without(Order, key)
                         ELSE Append(Ordered!Without(Order, key), key)
    <3>1. Changes(Content, Order, Content', Order', key, Map.heap[e].value, "FORCE_LAST")
      BY <1>1, <1>4, <1>9, <2>1, <2>2, SeenUpdate
    <3>2. QED BY <3>1 DEF Changes
  <2>4. QED BY <2>1, <2>3
<1>12. Contains(Order, key)
  <2>1. list \in Seq(Entries) /\ Order = Named(list) BY <1>1, KeyNames DEF Shows
  <2>2. QED BY <1>4, <1>5, <2>1, NamedIs
<1>13. Content' = Content
  <2>1. Content[key] = Map.heap[e].value BY <1>1, <1>4 DEF Shows
  <2>2. Content = [k \in {NameKey(x) : x \in Chained(Map)} |-> Content[k]] BY <1>1 DEF Shows
  <2>3. QED BY <1>11, <2>1, <2>2
<1>14. QED BY <1>2, <1>11, <1>12, <1>13 DEF Ordered!Touch, Ordered!Contains, Contains, IsInt

LEMMA SameSeen ==
    ASSUME MapInv, MapInv', UNCHANGED store, kind' = kind
    PROVE  Content' = Content /\ Order' = Order /\ (~IsInt)' = ~IsInt
<1>1. Map' = Map BY DEF Map, store
<1>2. Shows(Map, List(Map), Content, Order) BY MapShows DEF Seen
<1>3. Shows(Map, List(Map), Content', Order') BY <1>1, NextShows DEF Seen
<1>4. Content' = Content /\ Order' = Order BY <1>2, <1>3, SeenSame
<1>5. QED BY <1>4 DEF IsInt

LEMMA InitSeen == Init => Ordered!Init
<1> SUFFICES ASSUME Init PROVE Ordered!Init
  OBVIOUS
<1>1. MapInv BY InitMap
<1>2. PICK list : Sound(Map, list) /\ Shows(Map, list, Content, Order) BY <1>1, SeenNow
<1>3. Chained(Map) = {}
  <2>1. Map \in Maps BY <1>2 DEF Sound, IsMap
  <2>2. Map.table = [b \in 1..Capacity |-> {}] /\ Capacity \in Nat
    BY MapFields, LinkedMapAssumption DEF Init
  <2>3. DOMAIN Map.table = 1..Capacity /\ \A b \in 1..Capacity : Map.table[b] = {}
    BY <2>2
  <2>4. 1..Len(Map.table) = 1..Capacity
        /\ Chained(Map) = UNION {Map.table[b] : b \in 1..Len(Map.table)}
    BY <2>1, <2>3, ChainedIs
  <2>5. \A b \in 1..Len(Map.table) : Map.table[b] = {} BY <2>3, <2>4
  <2>6. QED BY <2>4, <2>5
<1>4. list = <<>>
  <2>1. list \in Seq(Entries) /\ ToSet(list) = {} BY <1>2, <1>3, KeyNames
  <2>2. Len(list) \in Nat /\ DOMAIN list = 1..Len(list) BY <2>1
  <2>3. 1 \notin DOMAIN list
    <3>1. 1 \in DOMAIN list => list[1] \in ToSet(list) BY DEF ToSet
    <3>2. QED BY <2>1, <3>1
  <2>4. Len(list) = 0 BY <2>2, <2>3
  <2>5. QED BY <2>1, <2>4
<1>5. Content = <<>> /\ Order = <<>> BY <1>2, <1>3, <1>4, SeenNone
<1>6. QED BY <1>5 DEF Init, Ordered!Init, IsInt

LEMMA WriterSeen ==
    ASSUME MapInv, MapInv', WriterStep PROVE Ordered!Next \/ UNCHANGED Ordered!mapVars
<1>1. ASSUME NEW key \in Keys, NEW mode \in Modes, NEW value \in ValuesOf,
             Put(key, value, mode)
      PROVE  Ordered!Next \/ UNCHANGED Ordered!mapVars
  <2>1. Ordered!Put(key, value, mode) \/ UNCHANGED Ordered!mapVars BY <1>1, PutSeen
  <2>2. value \in Values \cup {Null} BY DEF ValuesOf
  <2>3. QED BY <2>1, <2>2 DEF Ordered!Next, Modes
<1>2. ASSUME NEW key \in Keys, RemoveKey(key)
      PROVE  Ordered!Next \/ UNCHANGED Ordered!mapVars
  <2>1. key \in Int BY LinkedMapAssumption
  <2>2. Become(Remove1(Map, key), TRUE, pc) /\ kind' = kind /\ max' = max
    BY <1>2 DEF RemoveKey
  <2>3. (key \in Keys /\ Ordered!Delete(key)) \/ UNCHANGED Ordered!mapVars
    BY <2>1, <2>2, RemoveSeen
  <2>4. QED BY <2>3 DEF Ordered!Next
<1>3. ASSUME NEW key \in Keys, GetLRU(key) PROVE Ordered!Next
  BY <1>3, GetLRUSeen DEF Ordered!Next
<1>4. CASE RemoveEndStuck \/ SortStuck
  BY <1>4, SameSeen DEF RemoveEndStuck, SortStuck, LockedTwice, Ordered!mapVars
<1>5. CASE Clear BY <1>5, ClearSeen DEF Ordered!Next
<1>6. CASE Sort BY <1>6, SortSeen DEF Ordered!Next
<1>7. ASSUME NEW n \in Limits, SetMax(n) PROVE Ordered!Next
  <2>1. n \in Nat BY LinkedMapAssumption
  <2>2. max' = n /\ UNCHANGED store /\ kind' = kind BY <1>7 DEF SetMax
  <2>3. QED BY <2>1, <2>2, SameSeen DEF Ordered!Next, Ordered!Limit
<1>8. QED BY <1>1, <1>2, <1>3, <1>4, <1>5, <1>6, <1>7 DEF WriterStep

LEMMA WalkerSeen ==
    ASSUME MapInv, MapInv', NEW c \in Walkers, WalkerStep(c)
    PROVE  Ordered!Next \/ UNCHANGED Ordered!mapVars
<1>1. CASE RemoveEnd(c)
  <2>1. FirstKey(Map) \in Int /\ LastKey(Map) \in Int BY EndKeys
  <2> DEFINE key == IF pc[c] = "removing first" THEN FirstKey(Map) ELSE LastKey(Map)
             at == [pc EXCEPT ![c] = "idle"]
  <2>2. Become(Remove1(Map, key), Has(Map, key), at) /\ kind' = kind /\ max' = max
    BY <1>1 DEF RemoveEnd
  <2>3. key \in Int BY <2>1
  <2> HIDE DEF key, at
  <2>4. (key \in Keys /\ Ordered!Delete(key)) \/ UNCHANGED Ordered!mapVars
    BY <2>2, <2>3, RemoveSeen
  <2>5. QED BY <2>4 DEF Ordered!Next
<1>2. CASE ~RemoveEnd(c)
  <2>1. UNCHANGED store /\ kind' = kind /\ max' = max
    BY <1>2 DEF WalkerStep, RemoveEndBegin, Enumerate, NextElement, EndEnumeration
  <2>2. QED BY <2>1, SameSeen DEF Ordered!mapVars
<1>3. QED BY <1>1, <1>2

LEMMA OrderedStep == ASSUME MapInv, MapInv', [Next]_vars PROVE [Ordered!Next]_(Ordered!mapVars)
<1>1. CASE WriterStep BY <1>1, WriterSeen
<1>2. ASSUME NEW c \in Walkers, WalkerStep(c) PROVE [Ordered!Next]_(Ordered!mapVars)
  BY <1>2, WalkerSeen
<1>3. CASE UNCHANGED vars BY <1>3, SameSeen DEF vars, Ordered!mapVars
<1>4. QED BY <1>1, <1>2, <1>3 DEF Next

\* Each of the three classes is the ordered map its callers see, for any keys, table, bounds
\* and number of goroutines: put, remove, clear, sort and the lru promotion change content
\* and order as OrderedMap says, a bounded map drops the keys at the far end and no other,
\* and rehashing, the chains and the goroutines that enumerate are not seen at all.
THEOREM ImplementsOrderedMapHolds == Spec => ImplementsOrderedMap
BY InitSeen, InitMap, MapStep, OrderedStep, PTL DEF Spec, ImplementsOrderedMap, Ordered!Spec
===============================================================================
