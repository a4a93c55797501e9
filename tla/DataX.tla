-------------------------------- MODULE DataX --------------------------------
(* Numbers, texts and arrays as bytes: DataOutputX writes them at the end   *)
(* of a buffer, DataInputX reads them from a place in one.  A write is the  *)
(* sequence of the bytes it appends; a read is a record with the value, the *)
(* place after it, and whether the code panics instead.                     *)
(*                                                                          *)
(* The code's bytes have 256 values.  Base is how many they have here, so   *)
(* that numbers of eight bytes are numbers TLC has too; every boundary is   *)
(* where it is in the code, as a power of Base.  A float is its bit         *)
(* pattern.                                                                 *)
EXTENDS Integers, Sequences, SequencesExt

CONSTANTS
    Base,         \* the number of values of a byte
    ByteLimit,    \* BYTE_LIMIT: the longest sequence of bytes that is read
    StringLimit,  \* the longest array of texts that is read
    Spelling      \* the bytes of every text that occurs

ASSUME BaseAssumption == Base \in Nat /\ Base > 8 /\ Base % 2 = 0
ASSUME SpellingAssumption ==
    \A s, t \in DOMAIN Spelling :
        /\ Spelling[s] \in Seq(0..(Base - 1))
        /\ Spelling[s] = Spelling[t] => s = t

\* What a read returns, the panic that ends it, and a read after another.
Got(v, at)    == [ok |-> TRUE, v |-> v, at |-> at]
Panicked      == [ok |-> FALSE, v |-> 0, at |-> 0]
Then(r, G(_)) == IF r.ok THEN G(r) ELSE r

-----------------------------------------------------------------------------
(* Numbers *)

\* Base to the n-th, of which every boundary is made.
Power(n) ==
    LET power[k \in 0..n] == IF k = 0 THEN 1 ELSE Base * power[k - 1] IN power[n]

\* The n last bytes of v, the most significant first.
ToBytes(v, n) == [i \in 1..n |-> (v \div Power(n - i)) % Base]

ToUnsigned(b) ==
    LET number[k \in 0..Len(b)] == IF k = 0 THEN 0 ELSE number[k - 1] * Base + b[k]
    IN  number[Len(b)]

ToSigned(b) ==
    LET n == ToUnsigned(b)
    IN  IF b # << >> /\ n >= Power(Len(b)) \div 2 THEN n - Power(Len(b)) ELSE n

Fits(v, n) == -(Power(n) \div 2) <= v /\ v < Power(n) \div 2

WriteBool(b) == ToBytes(IF b THEN 1 ELSE 0, 1)

\* The number of bytes, and as many as the number needs.  No number is
\* written in six or seven bytes.
DecimalLengths == {1, 2, 3, 4, 5, 8}

WriteDecimal(v) ==
    IF v = 0 THEN <<0>>
    ELSE LET n == CHOOSE n \in DecimalLengths :
                      Fits(v, n) /\ \A k \in DecimalLengths : Fits(v, k) => n <= k
         IN  <<n>> \o ToBytes(v, n)

\* Bytes that are missing at the end of the buffer read as zero, and an
\* empty buffer reads as nil: as the number 0, or as no bytes.
ReadBytes(buf, at, size) ==
    LET here == SubSeq(buf, at, at + size - 1)
        left == Len(buf) - at + 1
    IN  IF size < 0 \/ size > ByteLimit THEN Panicked
        ELSE IF size > 0 /\ left <= 0 THEN Got(<< >>, at)
        ELSE IF size <= left THEN Got(here, at + size)
        ELSE Got([i \in 1..size |-> IF i <= left THEN buf[at + i - 1] ELSE 0],
                 Len(buf) + 1)

ReadNumber(buf, at, n) ==
    Then(ReadBytes(buf, at, n), LAMBDA r : Got(ToSigned(r.v), r.at))

ReadByte(buf, at) == Then(ReadBytes(buf, at, 1), LAMBDA r : Got(ToUnsigned(r.v), r.at))

ReadUnsignedShort(buf, at) ==
    Then(ReadBytes(buf, at, 2), LAMBDA r : Got(ToUnsigned(r.v), r.at))

ReadBool(buf, at) == Then(ReadByte(buf, at), LAMBDA r : Got(r.v = 1, r.at))

ReadDecimal(buf, at) ==
    Then(ReadByte(buf, at),
         LAMBDA r : IF r.v = 0 THEN Got(0, r.at)
                    ELSE ReadNumber(buf, r.at, IF r.v \in 1..5 THEN r.v ELSE 8))

(* The longest sequence has a length that an int has.                       *)
ASSUME LimitAssumption ==
    ByteLimit \in Nat /\ ByteLimit >= 8 /\ Fits(ByteLimit, 4) /\ StringLimit \in Nat

-----------------------------------------------------------------------------
(* Bytes and texts, whose length is in the first byte, or in as many bytes  *)
(* after it as the two greatest first bytes announce.                       *)

\* With one more length in the first byte than ReadBlob takes for one.
WriteBlob_OneMore(b) ==
    LET n == Len(b)
    IN  IF n <= Base - 2 THEN <<n>> \o b
        ELSE IF n < Power(2) THEN <<Base - 1>> \o ToBytes(n, 2) \o b
        ELSE <<Base - 2>> \o ToBytes(n, 4) \o b

WriteBlob(b) ==
    LET n == Len(b)
    IN  IF n <= Base - 3 THEN <<n>> \o b
        ELSE IF n < Power(2) THEN <<Base - 1>> \o ToBytes(n, 2) \o b
        ELSE <<Base - 2>> \o ToBytes(n, 4) \o b

ReadBlob(buf, at) ==
    LET Content(r) == ReadBytes(buf, r.at, r.v)
    IN  Then(ReadByte(buf, at),
             LAMBDA r : IF r.v = Base - 1 THEN Then(ReadUnsignedShort(buf, r.at), Content)
                        ELSE IF r.v = Base - 2 THEN Then(ReadNumber(buf, r.at, 4), Content)
                        ELSE Content(r))

WriteText(s) == WriteBlob(Spelling[s])

\* Bytes that spell no text that was written are another text.
Spelled(b) ==
    IF \E s \in DOMAIN Spelling : Spelling[s] = b
    THEN CHOOSE s \in DOMAIN Spelling : Spelling[s] = b
    ELSE "another"

ReadText(buf, at) == Then(ReadBlob(buf, at), LAMBDA r : Got(Spelled(r.v), r.at))

WriteIntBytes(b) == ToBytes(Len(b), 4) \o b

-----------------------------------------------------------------------------
(* Arrays, whose length is a signed short, whatever it was *)

\* elements: the encoded ones.
WriteArray(elements) == ToBytes(Len(elements), 2) \o FlattenSeq(elements)

\* Elements of a width, or texts (0).
ReadElement(buf, at, width) ==
    IF width = 0 THEN ReadText(buf, at) ELSE ReadNumber(buf, at, width)

ReadElements(buf, at, width, n) ==
    LET read[i \in 0..n] ==
            IF i = 0 THEN Got(<< >>, at)
            ELSE Then(read[i - 1],
                      LAMBDA q : Then(ReadElement(buf, q.at, width),
                                      LAMBDA e : Got(Append(q.v, e.v), e.at)))
    IN  read[n]

ReadArray(buf, at, limit, width) ==
    Then(ReadNumber(buf, at, 2),
         LAMBDA r : IF r.v < 0 \/ r.v > limit THEN Panicked
                    ELSE ReadElements(buf, r.at, width, r.v))
=============================================================================
