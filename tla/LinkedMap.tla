------------------------------- MODULE LinkedMap ------------------------------
(***************************************************************************)
(* IntKeyLinkedMap, StringKeyLinkedMap and IntLinkedSet (tools/util/hmap): *)
(* a hash table whose entries a doubly linked list threads in order, with  *)
(* a limit, and a mutex that a goroutine cannot lock twice.                *)
(*                                                                         *)
(* kind says which of the three a behaviour is about.  They share their    *)
(* layout, and differ in what they lock: the second and third lock in the  *)
(* public methods and work in private ones; the first locks in both, so    *)
(* that put on a full map, RemoveFirst, RemoveLast and Sort wait for a     *)
(* mutex they hold (stuck).                                                *)
(*                                                                         *)
(* A method that holds the mutex is one step.  What is done without it is  *)
(* cut into steps: the test of IsEmpty ahead of RemoveFirst and RemoveLast *)
(* and every step of an enumeration.  An enumeration is followed up to the *)
(* first removal or change of order: after that its next entry may be one  *)
(* of no list, and it ends, or goes on in the old list.  The value of an   *)
(* IntLinkedSet's entry is Null.                                           *)
(***************************************************************************)
EXTENDS Integers, Sequences, FiniteSets, SequencesExt

CONSTANTS Walkers,     \* callers under way in what takes several steps
          Kinds, Values, Null,
          Keys,        \* integers; strings are numbered, "" is 0
          MaxInt,      \* the largest key of their type: math.MaxInt32 in the code
          Capacity,    \* buckets at first: 101 in the code
          Limits,      \* arguments of SetMax
          Copies       \* entries of one key at once: Sort makes new ones

\* An entry's name is its key and a number.  The list's header is an entry with the key 0,
\* or "", and no value.
Entries == Keys \X (1..Copies)
Header  == <<0, 0>>
Names   == Entries \cup {Header}

ASSUME LinkedMapAssumption ==
    /\ Kinds \subseteq {"IntKeyLinkedMap", "StringKeyLinkedMap", "IntLinkedSet"}
    /\ MaxInt \in Nat
    /\ Keys \subseteq -MaxInt - 1 .. MaxInt
    /\ Capacity \in Nat \ {0}
    /\ Limits \subseteq Nat
    /\ Copies \in Nat \ {0, 1}
    /\ Null \notin Values \cup Names

VARIABLES kind,
          table,    \* buckets: the entries of each one's chain
          heap,     \* entries: key, value, link_next, link_prev
          count, max,
          stuck,    \* a goroutine waits for the mutex it holds
          pc,       \* what each caller is doing without the mutex
          cursor,   \* its enumeration: the entry to visit next
          seen,     \* history: the keys it has visited
          plan      \* history: the keys of the list when it started

store == <<table, heap, count>>
walks == <<pc, cursor, seen, plan>>
vars  == <<kind, store, max, stuck, walks>>

IsInt == kind = "IntKeyLinkedMap"

\* threshold: int(capacity * 0.75)
Threshold(cap) == (3 * cap) \div 4

\* key & MaxInt32, the sign-extended key, or an unsigned hash of the text.
HashOf(key) ==
    CASE kind = "IntKeyLinkedMap"    -> key % (MaxInt + 1)
      [] kind = "IntLinkedSet"       -> key % (4 * (MaxInt + 1) * (MaxInt + 1))
      [] kind = "StringKeyLinkedMap" -> key % (2 * (MaxInt + 1))

-------------------------------------------------------------------------------
\* The methods work on a record m: [table, heap, count].
Map == [table |-> table, heap |-> heap, count |-> count]
Chained(m) == UNION {m.table[b] : b \in DOMAIN m.table}

BucketOf(m, key) == (HashOf(key) % Len(m.table)) + 1
InBucket(m, key) == {e \in m.table[BucketOf(m, key)] : m.heap[e].key = key}
Has(m, key)  == InBucket(m, key) # {}
Find(m, key) == CHOOSE e \in InBucket(m, key) : TRUE

\* The list from an entry on, up to the header or to an entry that was unchained.
ListFrom(h, entry) ==
    LET walk[e \in DOMAIN h \cup {Null}] ==
            IF e \in {Header, Null} THEN <<>> ELSE <<e>> \o walk[h[e].next]
    IN walk[entry]
List(m) == ListFrom(m.heap, m.heap[Header].next)
KeysOf(m, list) == [i \in DOMAIN list |-> m.heap[list[i]].key]

Chain(h, prev, next, e) ==
    [h EXCEPT ![e].prev = prev, ![e].next = next, ![prev].next = e, ![next].prev = e]

Unchain_NoBackLink(h, e) ==
    [h EXCEPT ![h[e].prev].next = h[e].next, ![e].prev = Null, ![e].next = Null]
\* An entry in no list has no neighbours: the method panics before it has changed anything.
Unchain(h, e) ==
    IF h[e].prev = Null THEN h
    ELSE [h EXCEPT ![h[e].prev].next = h[e].next, ![h[e].next].prev = h[e].prev,
                   ![e].prev = Null, ![e].next = Null]

ChainAt(h, e, mode) ==
    IF mode = "FORCE_FIRST" THEN Chain(h, Header, h[Header].next, e)
                            ELSE Chain(h, h[Header].prev, Header, e)

Rehash_KeepsBuckets(m) ==
    LET cap == 2 * Len(m.table) + 1
    IN [m EXCEPT !.table =
            [b \in 1..cap |-> IF b \in DOMAIN m.table THEN m.table[b] ELSE {}]]
\* Each entry goes to its bucket among more than twice as many.
Rehash(m) ==
    LET cap == 2 * Len(m.table) + 1
    IN [m EXCEPT !.table = [b \in 1..cap |->
            {e \in Chained(m) : HashOf(m.heap[e].key) % cap = b - 1}]]

Remove1(m, key) ==
    IF ~Has(m, key) THEN m
    ELSE LET e == Find(m, key)
         IN [table |-> [m.table EXCEPT ![BucketOf(m, key)] = @ \ {e}],
             heap  |-> Unchain([m.heap EXCEPT ![e].value = Null], e),
             count |-> m.count - 1]

FirstKey(m) == m.heap[m.heap[Header].next].key
LastKey(m)  == m.heap[m.heap[Header].prev].key
\* The end that a new entry does not go to gives way.
DropEnd(m, mode) == Remove1(m, IF mode = "FORCE_FIRST" THEN LastKey(m) ELSE FirstKey(m))

Evict_OneFewer(m, mode) ==
    LET n == IF max > 0 /\ m.count > max THEN m.count - max ELSE 0
        dropped[i \in 0..n] ==
            IF i = 0 THEN m ELSE DropEnd(dropped[i - 1], mode)
    IN dropped[n]
\* put drops while there is no room.
Evict(m, mode) ==
    LET n == IF max > 0 /\ m.count >= max THEN m.count - max + 1 ELSE 0
        dropped[i \in 0..n] ==
            IF i = 0 THEN m ELSE DropEnd(dropped[i - 1], mode)
    IN dropped[n]

\* IntKeyLinkedMap's switch has an empty case for PUT_FORCE_LAST: the new entry is in no list.
Listed(mode) == ~(IsInt /\ mode = "FORCE_LAST")

\* A key the map has: its value, and its place when the mode forces one and it has another.
Overwrite(m, key, value, mode) ==
    LET e == Find(m, key)
        h == [m.heap EXCEPT ![e].value = value]
        inPlace == \/ mode = "LAST"
                   \/ mode = "FORCE_FIRST" /\ h[Header].next = e
                   \/ mode = "FORCE_LAST" /\ h[Header].prev = e
                   \/ h[e].prev = Null     \* unchain panics
    IN [m EXCEPT !.heap = IF inPlace THEN h ELSE ChainAt(Unchain(h, e), e, mode)]

\* A name no entry has.
Fresh(h, key) == CHOOSE e \in Entries \ DOMAIN h :
    e[1] = key /\ \A n \in 1..e[2] - 1 : <<key, n>> \in DOMAIN h

\* A key it has not.
Insert(m, e, key, value, mode) ==
    LET evicted == Evict(m, mode)
        grown == IF evicted.count >= Threshold(Len(evicted.table)) THEN Rehash(evicted)
                                                                   ELSE evicted
        new == [key |-> key, value |-> value, next |-> Null, prev |-> Null]
        h == [x \in {e} \cup DOMAIN grown.heap |-> IF x = e THEN new ELSE grown.heap[x]]
    IN [table |-> [grown.table EXCEPT ![BucketOf(grown, key)] = @ \cup {e}],
        heap  |-> IF Listed(mode) THEN ChainAt(h, e, mode) ELSE h,
        count |-> grown.count + 1]

Put1(m, key, value, mode) ==
    IF Has(m, key) THEN Overwrite(m, key, value, mode)
                   ELSE Insert(m, Fresh(m.heap, key), key, value, mode)

Clear1(m) ==
    [table |-> [b \in DOMAIN m.table |-> {}],
     heap  |-> [m.heap EXCEPT ![Header].next = Header, ![Header].prev = Header],
     count |-> 0]

\* The entries of a list, by key: the i-th is greater than i - 1 of them.
Ascending(m, list) ==
    [i \in DOMAIN list |-> CHOOSE e \in ToSet(list) :
        Cardinality({f \in ToSet(list) : m.heap[f].key < m.heap[e].key}) = i - 1]

\* Sort puts the entries of the list again, in ascending order, into the emptied map.
Sort1(m) ==
    LET list == Ascending(m, List(m))
        built[i \in 0..Len(list)] ==
            IF i = 0 THEN Clear1(m)
            ELSE LET e == m.heap[list[i]] IN Put1(built[i - 1], e.key, e.value, "LAST")
    IN built[Len(list)]

-------------------------------------------------------------------------------
Modes == {"FORCE_FIRST", "FORCE_LAST", "LAST"}
ValuesOf == IF kind = "IntLinkedSet" THEN {Null} ELSE Values

IsIdle(c) == pc[c] = "idle"
Goto(c, l) == pc' = [pc EXCEPT ![c] = l]

\* The new map, and the callers' places ahead of it.  interferes says that an entry was removed
\* or has changed its place: of an enumeration under way nothing is claimed from then on.
Become(m, interferes, at) ==
    LET hit == {c \in Walkers : interferes /\ at[c] = "walking"}
    IN /\ table' = m.table
       /\ count' = m.count
       /\ heap' = [e \in {Header} \cup Chained(m) |-> m.heap[e]]
       /\ pc' = [c \in Walkers |-> IF c \in hit THEN "idle" ELSE at[c]]
       /\ cursor' = [c \in Walkers |-> IF c \in hit THEN Header ELSE cursor[c]]
       /\ plan' = [c \in Walkers |-> IF c \in hit THEN <<>> ELSE plan[c]]
       /\ seen' = [c \in Walkers |-> IF c \in hit THEN <<>> ELSE seen[c]]

Moves(m) == ~IsPrefix(List(Map), List(m)) /\ ~IsSuffix(List(Map), List(m))

\* Put, PutLast, PutFirst.
Put(key, value, mode) ==
    /\ ~stuck
    /\ LET waits == IsInt /\ ~Has(Map, key) /\ max > 0 /\ count >= max
           m == Put1(Map, key, value, mode)
       IN /\ stuck' = waits
          /\ IF waits THEN UNCHANGED <<store, walks>> ELSE Become(m, Moves(m), pc)
    /\ UNCHANGED <<kind, max>>

RemoveKey(key) ==
    /\ ~stuck /\ Has(Map, key)
    /\ Become(Remove1(Map, key), TRUE, pc)
    /\ UNCHANGED <<kind, max, stuck>>

\* RemoveFirst and RemoveLast of the second and third class ask IsEmpty, and lock then.
RemoveEndBegin(c, end) ==
    /\ IsIdle(c) /\ ~IsInt /\ count > 0
    /\ Goto(c, end)
    /\ UNCHANGED <<kind, store, max, stuck, cursor, seen, plan>>

RemoveEnd(c) ==
    /\ pc[c] \in {"removing first", "removing last"} /\ ~stuck
    /\ LET key == IF pc[c] = "removing first" THEN FirstKey(Map) ELSE LastKey(Map)
       IN Become(Remove1(Map, key), Has(Map, key), [pc EXCEPT ![c] = "idle"])
    /\ UNCHANGED <<kind, max, stuck>>

\* The first class holds the mutex when remove, or Entries, waits for it.
LockedTwice ==
    /\ IsInt /\ ~stuck
    /\ stuck' = TRUE
    /\ UNCHANGED <<kind, store, max, walks>>
RemoveEndStuck == count > 0 /\ LockedTwice
SortStuck == LockedTwice

Clear ==
    /\ ~stuck /\ count > 0
    /\ Become(Clear1(Map), TRUE, pc)
    /\ UNCHANGED <<kind, max, stuck>>

Sort ==
    /\ ~IsInt /\ ~stuck
    /\ Become(Sort1(Map), TRUE, pc)
    /\ UNCHANGED <<kind, max, stuck>>

GetLRU(key) ==
    /\ IsInt /\ ~stuck /\ Has(Map, key)
    /\ LET e == Find(Map, key)
           m == [Map EXCEPT !.heap = ChainAt(Unchain(@, e), e, "FORCE_LAST")]
       IN /\ heap[Header].prev # e
          /\ heap[e].prev # Null         \* otherwise unchain panics
          /\ Become(m, TRUE, pc)
    /\ UNCHANGED <<kind, max, stuck>>

SetMax(n) ==
    /\ max # n
    /\ max' = n
    /\ UNCHANGED <<kind, store, stuck, walks>>

\* Keys, Values, Entries: the enumeration starts at the first entry.
Enumerate(c) ==
    /\ IsIdle(c) /\ ~(IsInt /\ stuck)
    /\ Goto(c, "walking")
    /\ cursor' = [cursor EXCEPT ![c] = heap[Header].next]
    /\ seen' = [seen EXCEPT ![c] = <<>>]
    /\ plan' = [plan EXCEPT ![c] = KeysOf(Map, List(Map))]
    /\ UNCHANGED <<kind, store, max, stuck>>

HasMore(c) == cursor[c] # Header

NextElement_ReadsAhead(c) ==
    /\ pc[c] = "walking" /\ HasMore(c)
    /\ LET e == heap[cursor[c]].next
       IN /\ cursor' = [cursor EXCEPT ![c] = e]
          /\ seen' = [seen EXCEPT ![c] = Append(@, heap[e].key)]
    /\ UNCHANGED <<kind, store, max, stuck, pc, plan>>
\* NextElement, without the mutex.
NextElement(c) ==
    /\ pc[c] = "walking" /\ HasMore(c)
    /\ LET e == cursor[c]
       IN /\ cursor' = [cursor EXCEPT ![c] = heap[e].next]
          /\ seen' = [seen EXCEPT ![c] = Append(@, heap[e].key)]
    /\ UNCHANGED <<kind, store, max, stuck, pc, plan>>

EndEnumeration(c) ==
    /\ pc[c] = "walking" /\ ~HasMore(c)
    /\ Goto(c, "idle")
    /\ cursor' = [cursor EXCEPT ![c] = Header]
    /\ seen' = [seen EXCEPT ![c] = <<>>]
    /\ plan' = [plan EXCEPT ![c] = <<>>]
    /\ UNCHANGED <<kind, store, max, stuck>>

Init ==
    /\ kind \in Kinds
    /\ table = [b \in 1..Capacity |-> {}]
    /\ heap = [e \in {Header} |->
                  [key |-> 0, value |-> Null, next |-> Header, prev |-> Header]]
    /\ count = 0
    /\ max = 0
    /\ stuck = FALSE
    /\ pc = [c \in Walkers |-> "idle"]
    /\ cursor = [c \in Walkers |-> Header]
    /\ seen = [c \in Walkers |-> <<>>]
    /\ plan = [c \in Walkers |-> <<>>]

WriterStep ==
    \/ \E key \in Keys, mode \in Modes : \E value \in ValuesOf : Put(key, value, mode)
    \/ \E key \in Keys : RemoveKey(key)
    \/ \E key \in Keys : GetLRU(key)
    \/ RemoveEndStuck
    \/ SortStuck
    \/ Clear
    \/ Sort
    \/ \E n \in Limits : SetMax(n)

WalkerStep(c) ==
    \/ \E end \in {"removing first", "removing last"} : RemoveEndBegin(c, end)
    \/ RemoveEnd(c)
    \/ Enumerate(c)
    \/ NextElement(c)
    \/ EndEnumeration(c)

Next == WriterStep \/ \E c \in Walkers : WalkerStep(c)

Spec == Init /\ [][Next]_vars

-------------------------------------------------------------------------------
InTable == Chained(Map)

\* Table and list are two views of one set of entries.  Every entry is in one bucket, the one
\* its key hashes to, after any rehash; its key is nobody else's; count is their number; the
\* list and its way back run through the same entries, and leave out only those that an
\* IntKeyLinkedMap was given by PutLast.
TableAndListAgree ==
    LET listed == ToSet(List(Map))
        unlisted == InTable \ listed
    IN /\ \A b \in DOMAIN table : \A e \in table[b] : BucketOf(Map, heap[e].key) = b
       /\ \A e, f \in InTable : heap[e].key = heap[f].key => e = f
       /\ count = Cardinality(InTable)
       /\ listed \subseteq InTable
       /\ \A e \in listed \cup {Header} : heap[heap[e].next].prev = e
       /\ unlisted # {} => IsInt /\ \A e \in unlisted : heap[e].prev = Null

\* An enumeration that nothing was removed under visits the keys that were there when it
\* started, in their order, and then the ones put behind them: the order of the list is what
\* callers such as MapValue.Write and KeyArray rely on without holding the mutex.
EnumerationFollowsOrder ==
    \A c \in Walkers : pc[c] = "walking" =>
        IF HasMore(c) THEN IsPrefix(seen[c], plan[c]) \/ IsPrefix(plan[c], seen[c])
                      ELSE IsPrefix(plan[c], seen[c])

\* What callers are promised: content and order of the map, and what a limit drops.
Content == [key \in {heap[e].key : e \in InTable} |-> heap[Find(Map, key)].value]
Order   == KeysOf(Map, List(Map))
Ordered == INSTANCE OrderedMap WITH
    Values   <- Values \cup {Null},
    content  <- Content,
    order    <- Order,
    limit    <- max,
    listsAll <- ~IsInt

\* Whatever the table, its collisions and rehashes, and the links do: a step of any of the
\* three classes is a step of the ordered map, or leaves it alone.
ImplementsOrderedMap == Ordered!Spec
===============================================================================
