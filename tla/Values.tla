------------------------------- MODULE Values -------------------------------
(* The tagged values of lang/value: each is written after the code of its   *)
(* type, and read by creating a value of the type that the code names.      *)
(*                                                                          *)
(* A value is a record of its type and its content.  The content of a list  *)
(* is a sequence of values, that of a map the sequence of its entries in    *)
(* the order of its linked map.                                             *)
EXTENDS DataX

CONSTANTS
    MaxChild,  \* MAX_CHILD
    Fraction   \* by width, how many bit patterns share an exponent: 2^23 and 2^52

ASSUME FractionAssumption ==
    \A n \in {4, 8} : Fraction[n] \in 1..(Power(n) \div 2 - 1)

VALUE_NULL           == 0
VALUE_BOOLEAN        == 10
VALUE_DECIMAL        == 20
VALUE_DECIMAL_INT    == 21
VALUE_DECIMAL_LONG   == 22
VALUE_FLOAT          == 30
VALUE_DOUBLE         == 40
VALUE_DOUBLE_SUMMARY == 45
VALUE_LONG_SUMMARY   == 46
VALUE_TEXT           == 50
VALUE_TEXT_HASH      == 51
VALUE_BLOB           == 60
VALUE_IP4ADDR        == 61
VALUE_LIST           == 70
ARRAY_INT            == 71
ARRAY_FLOAT          == 72
ARRAY_TEXT           == 73
ARRAY_LONG           == 74
VALUE_MAP            == 80
INT_VALUE_MAP        == 81

\* A list that PutList stored: the struct and not, as everywhere else, a
\* pointer to it.  Only the pointer is a Value in Go.
LIST_STRUCT == -70

Value(type, content) == [t |-> type, v |-> content]

Put(m, key, x) ==
    IF \E i \in DOMAIN m : m[i].key = key
    THEN [i \in DOMAIN m |-> IF m[i].key = key THEN [m[i] EXCEPT !.val = x] ELSE m[i]]
    ELSE Append(m, [key |-> key, val |-> x])

PutString(m, key, s) == Put(m, key, Value(VALUE_TEXT, s))
PutLong(m, key, n)   == Put(m, key, Value(VALUE_DECIMAL, n))
PutList(m, key, s)   == Put(m, key, Value(LIST_STRUCT, s))

\* The content under a key when it has one of the types, and what the getter
\* answers when it has not.
Get(m, key, types, otherwise) ==
    LET found == {i \in DOMAIN m : m[i].key = key /\ m[i].val.t \in types}
    IN  IF found = {} THEN otherwise ELSE m[CHOOSE i \in found : TRUE].val.v

GetString(m, key) == Get(m, key, {VALUE_TEXT}, "")
GetBool(m, key)   == Get(m, key, {VALUE_BOOLEAN}, FALSE)
GetInt(m, key)    == Get(m, key, {VALUE_DECIMAL_INT, VALUE_DECIMAL}, 0)
GetMap(m, key)    == Get(m, key, {VALUE_MAP}, << >>)

-----------------------------------------------------------------------------
(* Writing *)

\* The values that are one number, and its bytes.
NumberBytes == [t \in {VALUE_DECIMAL_INT, VALUE_DECIMAL_LONG, VALUE_FLOAT,
                       VALUE_DOUBLE, VALUE_TEXT_HASH} |->
                   IF t \in {VALUE_DECIMAL_LONG, VALUE_DOUBLE} THEN 8 ELSE 4]

\* The arrays of numbers, and the bytes of each.
ElementBytes == [t \in {ARRAY_INT, ARRAY_FLOAT, ARRAY_LONG} |->
                    IF t = ARRAY_LONG THEN 8 ELSE 4]

WriteSummary(s) ==
    ToBytes(s.sum, 8) \o ToBytes(s.count, 4) \o ToBytes(s.min, 8) \o ToBytes(s.max, 8)

RECURSIVE WriteValue(_)

WriteList(s) ==
    WriteDecimal(Len(s)) \o FlattenSeq([i \in DOMAIN s |-> WriteValue(s[i])])

WriteMap(m) ==
    WriteDecimal(Len(m))
      \o FlattenSeq([i \in DOMAIN m |-> WriteText(m[i].key) \o WriteValue(m[i].val)])

\* The key of a list that is no pointer is written, the list is not.
WriteIntMap(m) ==
    WriteDecimal(Len(m))
      \o FlattenSeq([i \in DOMAIN m |->
             ToBytes(m[i].key, 4)
               \o IF m[i].val.t = LIST_STRUCT THEN << >> ELSE WriteValue(m[i].val)])

WriteContent(x) ==
    CASE x.t = VALUE_NULL    -> << >>
      [] x.t = VALUE_BOOLEAN -> WriteBool(x.v)
      [] x.t = VALUE_DECIMAL -> WriteDecimal(x.v)
      [] x.t = VALUE_TEXT    -> WriteText(x.v)
      [] x.t = VALUE_BLOB    -> WriteBlob(x.v)
      [] x.t = VALUE_IP4ADDR -> x.v
      [] x.t = ARRAY_TEXT    -> WriteArray([i \in DOMAIN x.v |-> WriteText(x.v[i])])
      [] x.t = VALUE_MAP     -> WriteMap(x.v)
      [] x.t = INT_VALUE_MAP -> WriteIntMap(x.v)
      [] x.t \in DOMAIN NumberBytes  -> ToBytes(x.v, NumberBytes[x.t])
      [] x.t \in DOMAIN ElementBytes ->
             WriteArray([i \in DOMAIN x.v |-> ToBytes(x.v[i], ElementBytes[x.t])])
      [] x.t \in {VALUE_DOUBLE_SUMMARY, VALUE_LONG_SUMMARY} -> WriteSummary(x.v)
      [] x.t \in {VALUE_LIST, LIST_STRUCT} -> WriteList(x.v)

TypeCode(x) == IF x.t = LIST_STRUCT THEN VALUE_LIST ELSE x.t

WriteValue(x) == <<TypeCode(x)>> \o WriteContent(x)

-----------------------------------------------------------------------------
(* Reading *)

\* The types that a value is created of; every other code panics, also those
\* of the numbers of a fixed width and of the summaries, which are written.
CreateValue ==
    {VALUE_NULL, VALUE_BOOLEAN, VALUE_DECIMAL, VALUE_FLOAT, VALUE_DOUBLE,
     VALUE_BLOB, VALUE_IP4ADDR, VALUE_TEXT, VALUE_TEXT_HASH, VALUE_LIST,
     VALUE_MAP, INT_VALUE_MAP, ARRAY_INT, ARRAY_LONG, ARRAY_FLOAT, ARRAY_TEXT}

RECURSIVE ReadValue(_, _)

Children(Child(_, _), n, at) ==
    FoldLeft(LAMBDA r, i : Then(r, LAMBDA q : Child(q.v, q.at)),
             Got(<< >>, at), [i \in 1..n |-> i])

\* A list that is longer than MaxChild is left in the buffer, unread.
ReadList(buf, at) ==
    LET Child(s, place) ==
            Then(ReadValue(buf, place), LAMBDA r : Got(Append(s, r.v), r.at))
    IN  Then(ReadDecimal(buf, at),
             LAMBDA r : IF r.v < 0 THEN Panicked
                        ELSE Children(Child, IF r.v > MaxChild THEN 0 ELSE r.v, r.at))

\* So is a map of MaxChild entries.
ReadEntries(buf, at, ReadKey(_, _)) ==
    LET Child(m, place) ==
            Then(ReadKey(buf, place),
                 LAMBDA k : Then(ReadValue(buf, k.at),
                                 LAMBDA r : Got(Put(m, k.v, r.v), r.at)))
    IN  Then(ReadDecimal(buf, at),
             LAMBDA r : Children(Child, IF r.v \in 1..(MaxChild - 1) THEN r.v ELSE 0, r.at))

ReadMap(buf, at)    == ReadEntries(buf, at, ReadText)
ReadIntMap(buf, at) == ReadEntries(buf, at, LAMBDA b, place : ReadNumber(b, place, 4))

ReadContent(t, buf, at) ==
    CASE t = VALUE_NULL    -> Got(0, at)
      [] t = VALUE_BOOLEAN -> ReadBool(buf, at)
      [] t = VALUE_DECIMAL -> ReadDecimal(buf, at)
      [] t = VALUE_TEXT    -> ReadText(buf, at)
      [] t = VALUE_BLOB    -> ReadBlob(buf, at)
      [] t = VALUE_IP4ADDR -> ReadBytes(buf, at, 4)
      [] t = ARRAY_TEXT    -> ReadArray(buf, at, StringLimit, 0)
      [] t = VALUE_LIST    -> ReadList(buf, at)
      [] t = VALUE_MAP     -> ReadMap(buf, at)
      [] t = INT_VALUE_MAP -> ReadIntMap(buf, at)
      [] t \in DOMAIN NumberBytes  -> ReadNumber(buf, at, NumberBytes[t])
      [] t \in DOMAIN ElementBytes ->
             ReadArray(buf, at, ByteLimit \div ElementBytes[t], ElementBytes[t])

ReadValue(buf, at) ==
    Then(ReadByte(buf, at),
         LAMBDA c : IF c.v \notin CreateValue THEN Panicked
                    ELSE Then(ReadContent(c.v, buf, c.at),
                              LAMBDA r : Got(Value(c.v, r.v), r.at)))

ReadMapValue(buf, at) ==
    Then(ReadValue(buf, at), LAMBDA r : IF r.v.t = VALUE_MAP THEN r ELSE Panicked)

-----------------------------------------------------------------------------
(* Comparing *)

(* The floats are compared as numbers, by == or by < and >, and not by      *)
(* their bits: 0 and -0 are one number, and a NaN is neither the same as,   *)
(* nor less or greater than, any.                                           *)

Magnitude(x, n) == x % (Power(n) \div 2)
IsNaN(x, n)     == Magnitude(x, n) > Power(n) \div 2 - Fraction[n]

SameNumber(x, y, n) ==
    /\ ~IsNaN(x, n) /\ ~IsNaN(y, n)
    /\ x = y \/ (Magnitude(x, n) = 0 /\ Magnitude(y, n) = 0)

\* An array's numbers only differ where one is less: a NaN passes for any.
\* (A nil slice is not told from an empty one; Go tells them apart.)
EqualFloats(s, t) ==
    /\ Len(s) = Len(t)
    /\ \A i \in DOMAIN s : \/ IsNaN(s[i], 4) \/ IsNaN(t[i], 4)
                           \/ SameNumber(s[i], t[i], 4)

RECURSIVE Equals(_, _)

EqualLists(s, t) == Len(s) = Len(t) /\ \A i \in DOMAIN s : Equals(s[i], t[i])

\* Where two maps have as many entries and not the same keys, the code panics
\* instead of answering that they differ.
EqualMaps(m, n) ==
    /\ Len(m) = Len(n)
    /\ \A i \in DOMAIN m : \E j \in DOMAIN n :
           m[i].key = n[j].key /\ Equals(m[i].val, n[j].val)

\* Of two summaries the least and the greatest are not compared.
Equals(x, y) ==
    /\ x.t = y.t
    /\ CASE x.t = VALUE_LIST  -> EqualLists(x.v, y.v)
         [] x.t \in {VALUE_MAP, INT_VALUE_MAP} -> EqualMaps(x.v, y.v)
         [] x.t = VALUE_FLOAT -> SameNumber(x.v, y.v, 4)
         [] x.t = VALUE_DOUBLE -> SameNumber(x.v, y.v, 8)
         [] x.t = ARRAY_FLOAT -> EqualFloats(x.v, y.v)
         [] x.t = VALUE_DOUBLE_SUMMARY ->
                SameNumber(x.v.sum, y.v.sum, 8) /\ x.v.count = y.v.count
         [] x.t = VALUE_LONG_SUMMARY -> x.v.sum = y.v.sum /\ x.v.count = y.v.count
         [] OTHER -> x.v = y.v

-----------------------------------------------------------------------------
(* What a reader of written values may rely on *)

\* A value that a reader gets as it was written, because it and every value
\* inside it has a type that is created, is no list or map that is too long,
\* no array longer than a short or than what may be read, and no list of an
\* INT_VALUE_MAP that is no pointer.
RECURSIVE Readable(_)
Readable(x) ==
    /\ TypeCode(x) \in CreateValue
    /\ CASE x.t \in {VALUE_LIST, LIST_STRUCT} ->
                /\ Len(x.v) <= MaxChild
                /\ \A i \in DOMAIN x.v : Readable(x.v[i])
         [] x.t \in {VALUE_MAP, INT_VALUE_MAP} ->
                /\ Len(x.v) < MaxChild
                /\ \A i \in DOMAIN x.v : Readable(x.v[i].val)
                /\ x.t = VALUE_MAP =>
                       \A i \in DOMAIN x.v : Len(Spelling[x.v[i].key]) <= ByteLimit
                /\ x.t = INT_VALUE_MAP =>
                       \A i \in DOMAIN x.v : x.v[i].val.t # LIST_STRUCT
         [] x.t \in DOMAIN ElementBytes -> Fits(Len(x.v), 2)
         [] x.t = ARRAY_TEXT -> Fits(Len(x.v), 2) /\ Len(x.v) <= StringLimit
         [] x.t = VALUE_BLOB -> Len(x.v) <= ByteLimit
         [] x.t = VALUE_TEXT -> Len(Spelling[x.v]) <= ByteLimit
         [] OTHER -> TRUE

\* The value with pointers to its lists, as a reader builds it.
RECURSIVE ByPointer(_)
ByPointer(x) ==
    CASE x.t \in {VALUE_LIST, LIST_STRUCT} ->
             Value(VALUE_LIST, [i \in DOMAIN x.v |-> ByPointer(x.v[i])])
      [] x.t \in {VALUE_MAP, INT_VALUE_MAP} ->
             [x EXCEPT !.v = [i \in DOMAIN @ |-> [@[i] EXCEPT !.val = ByPointer(@)]]]
      [] OTHER -> x

\* Reading what was written of the value gives a value that equals it, if it
\* equals itself, which a NaN does not; that is written as the same bytes; and
\* the reading ends where the writing ended.
ReadsBack(x) ==
    LET written == WriteValue(x)
        r       == ReadValue(written, 1)
        whole   == ByPointer(x)
    IN  /\ r.ok /\ r.at = Len(written) + 1
        /\ Equals(whole, whole) => Equals(r.v, whole)
        /\ WriteValue(r.v) = written
=============================================================================
