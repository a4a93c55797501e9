------------------------------ MODULE OrderedMap ------------------------------
(***************************************************************************)
(* What a linked map promises: the content of a map, and an order of its   *)
(* keys, which enumerations follow and from whose ends a bounded map drops *)
(* what it has no room for.  LinkedMap implements it with a hash table     *)
(* threaded by a list.                                                     *)
(*                                                                         *)
(* One of the classes keeps a promise less: a key that is new when it is   *)
(* put with PutLast is in the content and in no place of the order.        *)
(***************************************************************************)
EXTENDS Integers, Sequences, SequencesExt

CONSTANTS Keys, Values

VARIABLES content,   \* the value of each key
          order,     \* its keys in order
          limit,     \* at most so many keys; 0: any number
          listsAll   \* PutLast gives a new key a place in the order

mapVars == <<content, order, limit, listsAll>>

\* An order in which k has no place.
Without(o, k) ==
    IF Contains(o, k) THEN RemoveAt(o, CHOOSE i \in 1..Len(o) : o[i] = k) ELSE o

\* The order once k has its place in it, or another one.
Placed(o, k, mode) ==
    CASE mode = "FORCE_FIRST" -> <<k>> \o o
      [] mode = "FORCE_LAST"  -> IF listsAll THEN Append(o, k) ELSE o
      [] mode = "LAST"        -> Append(o, k)

\* What remains of the order when a new key needs room at the other end.
Room(mode) ==
    LET excess == IF limit > 0 /\ Len(order) >= limit THEN Len(order) - limit + 1 ELSE 0
    IN IF mode = "FORCE_FIRST" THEN SubSeq(order, 1, Len(order) - excess)
                               ELSE SubSeq(order, excess + 1, Len(order))

Update(k, v, mode) ==
    /\ k \in DOMAIN content
    /\ content' = [content EXCEPT ![k] = v]
    /\ order' = IF mode = "LAST" \/ ~Contains(order, k) THEN order
                ELSE IF mode = "FORCE_FIRST" THEN <<k>> \o Without(order, k)
                                             ELSE Append(Without(order, k), k)

Insert(k, v, mode) ==
    /\ k \notin DOMAIN content
    /\ order' = Placed(Room(mode), k, mode)
    /\ LET dropped == ToSet(order) \ ToSet(Room(mode))
       IN content' = [x \in (DOMAIN content \ dropped) \cup {k} |-> IF x = k THEN v ELSE content[x]]

Put(k, v, mode) == (Update(k, v, mode) \/ Insert(k, v, mode)) /\ UNCHANGED <<limit, listsAll>>

Delete(k) ==
    /\ k \in DOMAIN content
    /\ content' = [x \in DOMAIN content \ {k} |-> content[x]]
    /\ order' = Without(order, k)
    /\ UNCHANGED <<limit, listsAll>>

Touch(k) ==
    /\ Contains(order, k)
    /\ order' = Append(Without(order, k), k)
    /\ UNCHANGED <<content, limit, listsAll>>

Empty ==
    /\ content' = <<>>
    /\ order' = <<>>
    /\ UNCHANGED <<limit, listsAll>>

\* The keys are put again in ascending order: a limit that was lowered in the meantime takes
\* effect, on the first of them.
Rearrange ==
    /\ order' \in Seq(Keys) /\ ToSet(order') \subseteq ToSet(order)
    /\ Len(order') = IF limit > 0 /\ Len(order) > limit THEN limit ELSE Len(order)
    /\ \A i, j \in 1..Len(order') : i < j => order'[i] < order'[j]
    /\ \A k \in ToSet(order'), x \in ToSet(order) \ ToSet(order') : x < k
    /\ content' = [k \in ToSet(order') |-> content[k]]
    /\ UNCHANGED <<limit, listsAll>>

Limit == limit' \in Nat /\ UNCHANGED <<content, order, listsAll>>

Init ==
    /\ content = <<>>
    /\ order = <<>>
    /\ limit = 0
    /\ listsAll \in BOOLEAN

Next ==
    \/ \E k \in Keys, v \in Values, mode \in {"FORCE_FIRST", "FORCE_LAST", "LAST"} : Put(k, v, mode)
    \/ \E k \in Keys : Delete(k) \/ Touch(k)
    \/ Empty \/ Rearrange \/ Limit

Spec == Init /\ [][Next]_mapVars
===============================================================================
