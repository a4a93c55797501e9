----------------------------- MODULE DataX_proofs -----------------------------
(***************************************************************************)
(* Theorems about the encodings, for bytes of any even number of values    *)
(* above eight, and any limits.                                            *)
(***************************************************************************)
EXTENDS DataX, NaturalsInduction, WellFoundedInduction, SequenceTheorems, TLAPS

(* Induction over the naturals, for a set: from the least element that is  *)
(* not in it.                                                              *)
LEMMA LeastElement ==
    ASSUME NEW T \in SUBSET Nat, T # {}
    PROVE  \E m \in T : \A k \in T : m <= k
<1>1. PICK m \in T : \A k \in T : <<k, m>> \notin OpToRel(<, Nat)
  BY NatLessThanWellFounded, WFMin
<1>2. \A k \in T : ~(k < m) BY <1>1, Zenon DEF OpToRel
<1>3. QED BY <1>2

LEMMA Induction ==
    ASSUME NEW S \in SUBSET Nat, 0 \in S, \A n \in S : n + 1 \in S
    PROVE  S = Nat
<1>1. ASSUME Nat \ S # {} PROVE FALSE
  <2>1. PICK m \in Nat \ S : \A k \in Nat \ S : m <= k BY <1>1, LeastElement
  <2>2. m # 0 /\ m - 1 \in Nat BY <2>1
  <2>3. m - 1 \in S BY <2>1, <2>2
  <2>4. QED BY <2>1, <2>2, <2>3
<1>2. QED BY <1>1

-----------------------------------------------------------------------------
(* Powers.                                                                 *)

IsPower(f, n) == f = [k \in 0..n |-> IF k = 0 THEN 1 ELSE Base * f[k - 1]]

LEMMA PowerExists == ASSUME NEW n \in Nat PROVE \E f : IsPower(f, n)
<1> DEFINE S == {k \in Nat : \E f : IsPower(f, k)}
<1>1. 0 \in S
  <2>1. IsPower([k \in 0..0 |-> 1], 0) BY DEF IsPower
  <2>2. QED BY <2>1
<1>2. ASSUME NEW k \in S PROVE k + 1 \in S
  <2>1. PICK f : f = [i \in 0..k |-> IF i = 0 THEN 1 ELSE Base * f[i - 1]] BY DEF IsPower
  <2> DEFINE g == [i \in 0..k + 1 |-> IF i <= k THEN f[i] ELSE Base * f[k]]
  <2>2. ASSUME NEW i \in 0..k + 1
        PROVE  g[i] = IF i = 0 THEN 1 ELSE Base * g[i - 1]
    <3>1. CASE i = 0 BY <2>1, <3>1
    <3>2. CASE i # 0 /\ i <= k
      <4>1. i \in 0..k /\ i - 1 \in 0..k + 1 /\ i - 1 <= k BY <3>2
      <4>2. g[i] = f[i] /\ g[i - 1] = f[i - 1] BY <4>1
      <4>3. f[i] = Base * f[i - 1] BY <2>1, <3>2, <4>1
      <4>4. QED BY <3>2, <4>2, <4>3
    <3>3. CASE i = k + 1
      <4>1. i - 1 = k /\ k \in 0..k + 1 /\ i # 0 BY <3>3
      <4>2. g[k] = f[k] BY <4>1
      <4>3. QED BY <3>3, <4>1, <4>2
    <3>4. QED BY <3>1, <3>2, <3>3
  <2>3. g = [i \in 0..k + 1 |-> g[i]] OBVIOUS
  <2> HIDE DEF g
  <2>4. IsPower(g, k + 1) BY <2>2, <2>3 DEF IsPower
  <2>5. QED BY <2>4
<1> HIDE DEF S
<1>3. S = Nat
  <2>1. S \in SUBSET Nat BY DEF S
  <2>2. QED BY <1>1, <1>2, <2>1, Induction
<1>4. QED BY <1>3 DEF S

LEMMA PowerIs == ASSUME NEW n \in Nat PROVE \E f : IsPower(f, n) /\ Power(n) = f[n]
<1> DEFINE f == CHOOSE g : IsPower(g, n)
<1>1. IsPower(f, n) BY PowerExists
<1>2. Power(n) = f[n] BY DEF Power, IsPower
<1>3. QED BY <1>1, <1>2

LEMMA OnePower ==
    ASSUME NEW n \in Nat, NEW m \in Nat, n <= m, NEW f, IsPower(f, n), NEW g, IsPower(g, m)
    PROVE  \A k \in 0..n : f[k] = g[k]
<1> DEFINE S == {k \in Nat : k <= n => f[k] = g[k]}
<1>1. 0 \in S BY DEF IsPower
<1>2. ASSUME NEW k \in S PROVE k + 1 \in S
  <2>1. CASE k + 1 <= n
    <3>1. k + 1 \in 0..n /\ k + 1 \in 0..m /\ k + 1 # 0 /\ (k + 1) - 1 = k BY <2>1
    <3>2. f[k + 1] = Base * f[k] /\ g[k + 1] = Base * g[k] BY <3>1 DEF IsPower
    <3>3. QED BY <2>1, <3>2
  <2>2. QED BY <2>1
<1> HIDE DEF S
<1>3. S = Nat
  <2>1. S \in SUBSET Nat BY DEF S
  <2>2. QED BY <1>1, <1>2, <2>1, Induction
<1>4. QED BY <1>3 DEF S

LEMMA PowerZero == Power(0) = 1
<1>1. PICK f : IsPower(f, 0) /\ Power(0) = f[0] BY PowerIs
<1>2. QED BY <1>1 DEF IsPower

LEMMA PowerNext == ASSUME NEW n \in Nat PROVE Power(n + 1) = Base * Power(n)
<1>1. PICK f : IsPower(f, n) /\ Power(n) = f[n] BY PowerIs
<1>2. PICK g : IsPower(g, n + 1) /\ Power(n + 1) = g[n + 1] BY PowerIs
<1>3. f[n] = g[n] BY <1>1, <1>2, OnePower
<1>4. n + 1 \in 0..n + 1 /\ n + 1 # 0 /\ (n + 1) - 1 = n OBVIOUS
<1>5. g[n + 1] = Base * g[n] BY <1>2, <1>4 DEF IsPower
<1>6. QED BY <1>1, <1>2, <1>3, <1>5

LEMMA PowerType == ASSUME NEW n \in Nat PROVE Power(n) \in Nat \ {0}
<1> DEFINE S == {k \in Nat : Power(k) \in Nat \ {0}}
<1>1. 0 \in S BY PowerZero
<1>2. ASSUME NEW k \in S PROVE k + 1 \in S
  <2>1. Power(k + 1) = Base * Power(k) /\ Power(k) \in Nat /\ Power(k) > 0 BY PowerNext
  <2>2. Base * Power(k) \in Nat /\ Base * Power(k) > 0
    <3> DEFINE p == Power(k)
    <3>1. p \in Nat /\ p > 0 /\ Base \in Nat /\ Base > 8 BY <2>1, BaseAssumption
    <3> HIDE DEF p
    <3>2. Base * p \in Nat /\ Base * p > 0 BY <3>1
    <3>3. QED BY <3>2 DEF p
  <2>3. QED BY <2>1, <2>2
<1> HIDE DEF S
<1>3. S = Nat
  <2>1. S \in SUBSET Nat BY DEF S
  <2>2. QED BY <1>1, <1>2, <2>1, Induction
<1>4. QED BY <1>3 DEF S

(* Every boundary is an even number.                                       *)
LEMMA PowerEven ==
    ASSUME NEW n \in Nat, n > 0
    PROVE  Power(n) \in Nat /\ Power(n) \div 2 \in Nat /\ Power(n) = 2 * (Power(n) \div 2)
           /\ Power(n) \div 2 > 0
<1>1. n - 1 \in Nat /\ (n - 1) + 1 = n OBVIOUS
<1> DEFINE p == Power(n - 1)
           h == Base \div 2
<1>2. p \in Nat /\ p > 0 BY <1>1, PowerType
<1>3. Power(n) = Base * p BY <1>1, PowerNext
<1>4. h \in Nat /\ h > 0 /\ Base = 2 * h BY BaseAssumption
<1> HIDE DEF p, h
<1>5. Base * p = 2 * (h * p) /\ h * p \in Nat /\ h * p > 0 BY <1>2, <1>4
<1>6. (2 * (h * p)) \div 2 = h * p
  <2> DEFINE q == h * p
  <2>1. q \in Nat BY <1>5
  <2> HIDE DEF q
  <2>2. (2 * q) \div 2 = q BY <2>1
  <2>3. QED BY <2>2 DEF q
<1>7. QED BY <1>3, <1>5, <1>6

-----------------------------------------------------------------------------
(* Division.                                                               *)

LEMMA DivMod ==
    ASSUME NEW v \in Int, NEW d \in Nat \ {0}
    PROVE  /\ v \div d \in Int /\ v % d \in 0..(d - 1)
           /\ v = d * (v \div d) + (v % d)
OBVIOUS

LEMMA DivIs ==
    ASSUME NEW v \in Int, NEW d \in Nat \ {0}, NEW q \in Int, NEW r \in 0..(d - 1), v = d * q + r
    PROVE  v \div d = q /\ v % d = r
OBVIOUS

(* A number without one more of its digits.                                *)
LEMMA DivNext ==
    ASSUME NEW v \in Int, NEW d \in Nat \ {0}
    PROVE  (v \div d) \div Base = v \div (Base * d)
<1> DEFINE q == v \div d
           r == v % d
           s == q \div Base
           t == q % Base
<1>1. Base \in Nat \ {0} BY BaseAssumption
<1>2. q \in Int /\ r \in 0..(d - 1) /\ v = d * q + r BY DivMod
<1> HIDE DEF q, r
<1>3. s \in Int /\ t \in 0..(Base - 1) /\ q = Base * s + t BY <1>1, <1>2, DivMod
<1> HIDE DEF s, t
<1>4. v = (Base * d) * s + (d * t + r) BY <1>1, <1>2, <1>3
<1>5. d * t + r \in 0..(Base * d - 1) /\ Base * d \in Nat \ {0}
  <2>1. t + 1 <= Base /\ t >= 0 /\ t \in Int BY <1>1, <1>3
  <2>2. d * (t + 1) <= d * Base /\ d * t >= 0 BY <1>1, <2>1
  <2>3. d * (t + 1) = d * t + d BY <2>1
  <2>4. d * Base = Base * d /\ Base * d > 0 /\ Base * d \in Nat BY <1>1
  <2>5. r >= 0 /\ r <= d - 1 /\ r \in Int /\ d * t \in Int BY <1>2, <2>1
  <2>6. QED BY <2>2, <2>3, <2>4, <2>5
<1> DEFINE e == Base * d
           u == d * t + r
<1>6. e \in Nat \ {0} /\ u \in 0..(e - 1) /\ v = e * s + u BY <1>4, <1>5
<1> HIDE DEF e, u
<1>7. v \div e = s BY <1>3, <1>6, DivIs
<1>8. QED BY <1>7 DEF e, s, q

-----------------------------------------------------------------------------
(* Numbers.                                                                *)

Bytes == 0..(Base - 1)

IsNumber(f, b) == f = [k \in 0..Len(b) |-> IF k = 0 THEN 0 ELSE f[k - 1] * Base + b[k]]

LEMMA ToBytesType ==
    ASSUME NEW v \in Int, NEW n \in Nat
    PROVE  /\ ToBytes(v, n) \in Seq(Bytes) /\ Len(ToBytes(v, n)) = n
           /\ \A i \in 1..n : ToBytes(v, n)[i] = (v \div Power(n - i)) % Base
<1>1. ASSUME NEW i \in 1..n PROVE (v \div Power(n - i)) % Base \in Bytes
  <2>1. n - i \in Nat OBVIOUS
  <2>2. Power(n - i) \in Nat \ {0} /\ Base \in Nat \ {0} BY <2>1, PowerType, BaseAssumption
  <2>3. v \div Power(n - i) \in Int BY <2>2, DivMod
  <2>4. QED BY <2>2, <2>3, DivMod DEF Bytes
<1>2. ToBytes(v, n) \in [1..n -> Bytes] BY <1>1 DEF ToBytes
<1>3. \A i \in 1..n : ToBytes(v, n)[i] = (v \div Power(n - i)) % Base BY DEF ToBytes
<1>4. QED BY <1>2, <1>3

(* The number of the first k bytes is v without its last n - k digits,     *)
(* beyond the multiples of what the n bytes can hold.                      *)
NumberOf(v, n) ==
    [k \in 0..n |-> (v \div Power(n - k)) - (v \div Power(n)) * Power(k)]

LEMMA NumberOfIs ==
    ASSUME NEW v \in Int, NEW n \in Nat
    PROVE  IsNumber(NumberOf(v, n), ToBytes(v, n))
<1> DEFINE f == NumberOf(v, n)
           b == ToBytes(v, n)
           top == v \div Power(n)
<1>1. Len(b) = n BY ToBytesType
<1>2. ASSUME NEW k \in 0..n PROVE f[k] = IF k = 0 THEN 0 ELSE f[k - 1] * Base + b[k]
  <2>1. f[k] = (v \div Power(n - k)) - top * Power(k) BY DEF NumberOf
  <2>2. CASE k = 0
    <3>1. top \in Int BY PowerType, DivMod
    <3>2. n - 0 = n OBVIOUS
    <3>3. f[k] = top - top * 1 BY <2>1, <2>2, <3>2, PowerZero
    <3> HIDE DEF top, f
    <3>4. QED BY <2>2, <3>1, <3>3
  <2>3. CASE k # 0
    <3> DEFINE w == v \div Power(n - k)
               p == Power(k - 1)
    <3>1. /\ n - k \in Nat /\ k - 1 \in Nat /\ (k - 1) + 1 = k /\ k - 1 \in 0..n
          /\ n - (k - 1) = (n - k) + 1 /\ k \in 1..n
      BY <2>3
    <3>2. f[k - 1] = (v \div Power((n - k) + 1)) - top * p BY <3>1 DEF NumberOf
    <3>3. Power(n - k) \in Nat \ {0} /\ Power((n - k) + 1) = Base * Power(n - k)
      BY <3>1, PowerType, PowerNext
    <3>4. v \div Power((n - k) + 1) = w \div Base BY <3>3, DivNext
    <3>5. b[k] = w % Base BY <3>1, ToBytesType
    <3>6. w \in Int /\ top \in Int /\ p \in Int
      <4>1. w \in Int BY <3>3, DivMod
      <4>2. top \in Int BY PowerType, DivMod
      <4>3. p \in Int BY <3>1, PowerType
      <4>4. QED BY <4>1, <4>2, <4>3
    <3>7. Power(k) = Base * p BY <3>1, PowerNext
    <3> HIDE DEF w, p, top, f, b
    <3> DEFINE x == w \div Base
               y == w % Base
    <3>8. w = Base * x + y /\ x \in Int /\ y \in Int /\ Base \in Nat
      <4>1. Base \in Nat \ {0} BY BaseAssumption
      <4>2. QED BY <3>6, <4>1, DivMod
    <3>9. f[k - 1] = x - top * p /\ b[k] = y /\ f[k] = w - top * Power(k)
      BY <2>1, <3>2, <3>4, <3>5 DEF w
    <3> HIDE DEF x, y
    <3>10. (x - top * p) * Base = Base * x - top * (Base * p) BY <3>6, <3>8
    <3>11. top * (Base * p) \in Int /\ Base * x \in Int BY <3>6, <3>8
    <3>12. QED BY <2>3, <3>7, <3>8, <3>9, <3>10, <3>11
  <2>4. QED BY <2>2, <2>3
<1>3. f = [k \in 0..n |-> f[k]] BY DEF NumberOf
<1> HIDE DEF f, b
<1>4. f = [k \in 0..Len(b) |-> IF k = 0 THEN 0 ELSE f[k - 1] * Base + b[k]] BY <1>1, <1>2, <1>3
<1>5. QED BY <1>4 DEF IsNumber, f, b

LEMMA OneNumber ==
    ASSUME NEW b, Len(b) \in Nat, NEW f, IsNumber(f, b), NEW g, IsNumber(g, b)
    PROVE  f[Len(b)] = g[Len(b)]
<1> DEFINE S == {k \in Nat : k <= Len(b) => f[k] = g[k]}
<1>1. 0 \in S BY DEF IsNumber
<1>2. ASSUME NEW k \in S PROVE k + 1 \in S
  <2>1. CASE k + 1 <= Len(b)
    <3>1. k + 1 \in 0..Len(b) /\ k + 1 # 0 /\ (k + 1) - 1 = k BY <2>1
    <3>2. f[k + 1] = f[k] * Base + b[k + 1] /\ g[k + 1] = g[k] * Base + b[k + 1]
      BY <3>1 DEF IsNumber
    <3>3. QED BY <2>1, <3>2
  <2>2. QED BY <2>1
<1> HIDE DEF S
<1>3. S = Nat
  <2>1. S \in SUBSET Nat BY DEF S
  <2>2. QED BY <1>1, <1>2, <2>1, Induction
<1>4. QED BY <1>3 DEF S

LEMMA ToUnsignedIs ==
    ASSUME NEW b, Len(b) \in Nat, NEW f, IsNumber(f, b)
    PROVE  ToUnsigned(b) = f[Len(b)]
<1> DEFINE g == CHOOSE h : IsNumber(h, b)
<1>1. IsNumber(g, b) OBVIOUS
<1>2. ToUnsigned(b) = g[Len(b)] BY DEF ToUnsigned, IsNumber
<1> HIDE DEF g
<1>3. QED BY <1>1, <1>2, OneNumber

(* Bytes hold a number up to the multiples of their power.                 *)
LEMMA UnsignedIs ==
    ASSUME NEW v \in Int, NEW n \in Nat
    PROVE  ToUnsigned(ToBytes(v, n)) = v % Power(n)
<1> DEFINE b == ToBytes(v, n)
           p == Power(n)
<1>1. Len(b) = n /\ n \in 0..n BY ToBytesType
<1>2. ToUnsigned(b) = NumberOf(v, n)[n] BY <1>1, NumberOfIs, ToUnsignedIs
<1>3. NumberOf(v, n)[n] = (v \div Power(n - n)) - (v \div p) * p BY <1>1 DEF NumberOf
<1>4. n - n = 0 /\ Power(0) = 1 /\ v \div 1 = v BY PowerZero
<1>5. p \in Nat \ {0} BY PowerType
<1> HIDE DEF p
<1> DEFINE q == v \div p
           r == v % p
<1>6. q \in Int /\ r \in Int /\ v = p * q + r BY <1>5, DivMod
<1>7. ToUnsigned(b) = v - q * p BY <1>2, <1>3, <1>4
<1> HIDE DEF q, r
<1>8. v - q * p = r BY <1>5, <1>6
<1>9. QED BY <1>7, <1>8 DEF r, p

LEMMA SignedIs ==
    ASSUME NEW v \in Int, NEW n \in Nat \ {0}, Fits(v, n)
    PROVE  ToSigned(ToBytes(v, n)) = v
<1> DEFINE b == ToBytes(v, n)
           p == Power(n)
           h == p \div 2
<1>1. p \in Nat /\ h \in Nat /\ p = 2 * h /\ h > 0 BY PowerEven
<1>2. Len(b) = n /\ b # <<>> BY ToBytesType
<1>3. ToUnsigned(b) = v % p BY UnsignedIs
<1>4. -h <= v /\ v < h BY DEF Fits
<1> HIDE DEF p, h, b
<1>5. v % p = IF v >= 0 THEN v ELSE v + p
  <2>1. CASE v >= 0
    <3>1. v = p * 0 + v /\ v \in 0..(p - 1) /\ p \in Nat \ {0} BY <1>1, <1>4, <2>1
    <3>2. QED BY <2>1, <3>1, DivIs
  <2>2. CASE v < 0
    <3> DEFINE r == v + p
    <3>1. r \in 0..(p - 1) /\ p \in Nat \ {0} BY <1>1, <1>4, <2>2
    <3>2. PICK q \in Int : v = p * q + r
      <4>1. -1 \in Int /\ v = p * (-1) + r BY <1>1
      <4>2. QED BY <4>1
    <3> HIDE DEF r
    <3>3. v % p = r BY <3>1, <3>2, DivIs
    <3>4. QED BY <2>2, <3>3 DEF r
  <2>3. QED BY <2>1, <2>2
<1>6. ToSigned(b) = IF v % p >= h THEN (v % p) - p ELSE v % p
  BY <1>2, <1>3 DEF ToSigned, p, h
<1>7. QED BY <1>1, <1>4, <1>5, <1>6 DEF b

-----------------------------------------------------------------------------
(* Reading.                                                                *)

(* The bytes w stand in the buffer, from the place at.                     *)
Holds(buf, at, w) ==
    /\ buf \in Seq(Bytes) /\ at \in Nat \ {0} /\ at + Len(w) - 1 <= Len(buf)
    /\ \A i \in 1..Len(w) : buf[at + i - 1] = w[i]

LEMMA Joined ==
    ASSUME NEW u \in Seq(Bytes), NEW w \in Seq(Bytes)
    PROVE  u \o w \in Seq(Bytes) /\ Len(u \o w) = Len(u) + Len(w) /\ Len(w) \in Nat
OBVIOUS

LEMMA HoldsParts ==
    ASSUME NEW u \in Seq(Bytes), NEW w \in Seq(Bytes), NEW buf, NEW at, Holds(buf, at, u \o w)
    PROVE  Holds(buf, at, u) /\ Holds(buf, at + Len(u), w)
<1>1. /\ Len(u \o w) = Len(u) + Len(w) /\ Len(u) \in Nat /\ Len(w) \in Nat
      /\ \A i \in 1..Len(u) : i \in 1..Len(u \o w) /\ (u \o w)[i] = u[i]
      /\ \A i \in 1..Len(w) : Len(u) + i \in 1..Len(u \o w) /\ (u \o w)[Len(u) + i] = w[i]
  OBVIOUS
<1>2. at \in Nat \ {0} /\ buf \in Seq(Bytes) /\ at + Len(u \o w) - 1 <= Len(buf)
      /\ \A i \in 1..Len(u \o w) : buf[at + i - 1] = (u \o w)[i]
  BY DEF Holds
<1>3. \A i \in 1..Len(u) : buf[at + i - 1] = u[i] BY <1>1, <1>2
<1>4. ASSUME NEW i \in 1..Len(w) PROVE buf[(at + Len(u)) + i - 1] = w[i]
  <2>1. buf[at + (Len(u) + i) - 1] = w[i] BY <1>1, <1>2
  <2>2. at + (Len(u) + i) - 1 = (at + Len(u)) + i - 1 BY <1>1, <1>2
  <2>3. QED BY <2>1, <2>2
<1>5. at + Len(u) \in Nat \ {0} /\ at + Len(u) - 1 <= Len(buf)
      /\ (at + Len(u)) + Len(w) - 1 <= Len(buf)
  BY <1>1, <1>2
<1>6. QED BY <1>2, <1>3, <1>4, <1>5 DEF Holds

LEMMA ReadBytesIs ==
    ASSUME NEW w \in Seq(Bytes), Len(w) <= ByteLimit, NEW buf, NEW at, Holds(buf, at, w)
    PROVE  ReadBytes(buf, at, Len(w)) = Got(w, at + Len(w))
<1>1. Len(w) \in Nat /\ ByteLimit \in Nat BY LimitAssumption
<1>2. at \in Nat \ {0} /\ buf \in Seq(Bytes) /\ at + Len(w) - 1 <= Len(buf)
      /\ \A i \in 1..Len(w) : buf[at + i - 1] = w[i]
  BY DEF Holds
<1>3. SubSeq(buf, at, at + Len(w) - 1) = w
  <2>1. Len(SubSeq(buf, at, at + Len(w) - 1)) = Len(w)
        /\ \A i \in 1..Len(w) : SubSeq(buf, at, at + Len(w) - 1)[i] = buf[at + i - 1]
    BY <1>1, <1>2
  <2>2. SubSeq(buf, at, at + Len(w) - 1) \in Seq(Bytes) BY <1>1, <1>2
  <2>3. QED BY <1>2, <2>1, <2>2, SeqEqual
<1>4. ~(Len(w) < 0 \/ Len(w) > ByteLimit) BY <1>1
<1>5. ~(Len(w) > 0 /\ Len(buf) - at + 1 <= 0) /\ Len(w) <= Len(buf) - at + 1 BY <1>1, <1>2
<1>6. QED BY <1>3, <1>4, <1>5 DEF ReadBytes

LEMMA GotIs == ASSUME NEW v, NEW at PROVE Got(v, at).ok /\ Got(v, at).v = v /\ Got(v, at).at = at
BY DEF Got

\* A number that has a place in n bytes is read back from them, with its sign, wherever in a
\* buffer they stand (WriteInt, WriteLong and the like, with ReadInt, ReadLong).
THEOREM NumberReads ==
    ASSUME NEW n \in 1..ByteLimit, NEW v \in Int, Fits(v, n),
           NEW buf, NEW at, Holds(buf, at, ToBytes(v, n))
    PROVE  ReadNumber(buf, at, n) = Got(v, at + n)
<1>1. n \in Nat \ {0} /\ n <= ByteLimit BY LimitAssumption
<1>2. ToBytes(v, n) \in Seq(Bytes) /\ Len(ToBytes(v, n)) = n BY <1>1, ToBytesType
<1>3. ReadBytes(buf, at, n) = Got(ToBytes(v, n), at + n) BY <1>1, <1>2, ReadBytesIs
<1>4. ToSigned(ToBytes(v, n)) = v BY <1>1, SignedIs
<1>5. QED BY <1>3, <1>4, GotIs DEF ReadNumber, Then

LEMMA OneByte == ASSUME NEW n \in Bytes PROVE <<n>> \in Seq(Bytes) /\ ToUnsigned(<<n>>) = n
<1> DEFINE f == [k \in 0..1 |-> IF k = 0 THEN 0 ELSE n]
<1>1. n \in Int /\ Base \in Int BY BaseAssumption DEF Bytes
<1>2. <<n>> \in Seq(Bytes) /\ Len(<<n>>) = 1 OBVIOUS
<1>3. ASSUME NEW k \in 0..1 PROVE f[k] = IF k = 0 THEN 0 ELSE f[k - 1] * Base + <<n>>[k]
  <2>1. CASE k = 0 BY <2>1
  <2>2. CASE k = 1
    <3>1. 0 \in 0..1 /\ 1 - 1 = 0 /\ f[0] = 0 /\ f[1] = n /\ <<n>>[1] = n OBVIOUS
    <3>2. 0 * Base + n = n BY <1>1
    <3>3. QED BY <2>2, <3>1, <3>2
  <2>3. QED BY <2>1, <2>2
<1>4. f = [k \in 0..1 |-> f[k]] OBVIOUS
<1>5. f[1] = n OBVIOUS
<1> HIDE DEF f
<1>6. IsNumber(f, <<n>>) BY <1>2, <1>3, <1>4 DEF IsNumber
<1>7. QED BY <1>2, <1>5, <1>6, ToUnsignedIs

LEMMA ReadByteIs ==
    ASSUME NEW n \in Bytes, NEW buf, NEW at, Holds(buf, at, <<n>>)
    PROVE  ReadByte(buf, at) = Got(n, at + 1)
<1>1. <<n>> \in Seq(Bytes) /\ Len(<<n>>) = 1 /\ ToUnsigned(<<n>>) = n BY OneByte
<1>2. 1 <= ByteLimit BY LimitAssumption
<1>3. ReadBytes(buf, at, 1) = Got(<<n>>, at + 1) BY <1>1, <1>2, ReadBytesIs
<1>4. QED BY <1>1, <1>3, GotIs DEF ReadByte, Then

LEMMA Headed ==
    ASSUME NEW k \in Bytes, NEW c \in Seq(Bytes)
    PROVE  <<k>> \in Seq(Bytes) /\ <<k>> \o c \in Seq(Bytes) /\ Len(<<k>> \o c) = 1 + Len(c)
<1> DEFINE h == <<k>>
<1>1. h \in Seq(Bytes) /\ Len(h) = 1 OBVIOUS
<1> HIDE DEF h
<1>2. h \o c \in Seq(Bytes) /\ Len(h \o c) = 1 + Len(c) BY <1>1, ConcatProperties
<1>3. QED BY <1>1, <1>2 DEF h

\* Every number of eight bytes is read back from its decimal, whatever number of bytes was
\* taken for it (WriteDecimal, ReadDecimal).
THEOREM DecimalReads ==
    ASSUME NEW v \in Int, Fits(v, 8), NEW buf, NEW at, Holds(buf, at, WriteDecimal(v))
    PROVE  ReadDecimal(buf, at) = Got(v, at + Len(WriteDecimal(v)))
<1>1. Base \in Nat /\ Base > 8 /\ ByteLimit \in Nat /\ ByteLimit >= 8
  BY BaseAssumption, LimitAssumption
<1>2. CASE v = 0
  <2>1. WriteDecimal(v) = <<0>> /\ Len(<<0>>) = 1 /\ 0 \in Bytes BY <1>1, <1>2 DEF WriteDecimal, Bytes
  <2>2. ReadByte(buf, at) = Got(0, at + 1) BY <2>1, ReadByteIs
  <2>3. ReadDecimal(buf, at) = Got(0, at + 1) BY <2>2, GotIs DEF ReadDecimal, Then
  <2>4. at + Len(WriteDecimal(v)) = at + 1 BY <2>1
  <2>5. QED BY <1>2, <2>3, <2>4
<1>3. CASE v # 0
  <2> DEFINE L == {n \in DecimalLengths : Fits(v, n)}
             n == CHOOSE n \in DecimalLengths :
                      Fits(v, n) /\ \A k \in DecimalLengths : Fits(v, k) => n <= k
  <2>1. n \in DecimalLengths /\ Fits(v, n)
    <3>1. L \in SUBSET Nat /\ 8 \in L BY DEF DecimalLengths
    <3>2. \E m \in L : \A k \in L : m <= k BY <3>1, LeastElement
    <3>3. \E m \in DecimalLengths :
            Fits(v, m) /\ \A k \in DecimalLengths : Fits(v, k) => m <= k
      BY <3>2
    <3>4. QED BY <3>3
  <2>2. WriteDecimal(v) = <<n>> \o ToBytes(v, n) BY <1>3 DEF WriteDecimal
  <2> HIDE DEF n
  <2>3. /\ n \in Nat \ {0} /\ n \in 1..ByteLimit /\ n \in Bytes
        /\ (IF n \in 1..5 THEN n ELSE 8) = n
    BY <1>1, <2>1 DEF DecimalLengths, Bytes
  <2>4. /\ <<n>> \in Seq(Bytes) /\ Len(<<n>>) = 1
        /\ ToBytes(v, n) \in Seq(Bytes) /\ Len(ToBytes(v, n)) = n
    BY <2>3, ToBytesType
  <2>5. Holds(buf, at, <<n>>) /\ Holds(buf, at + 1, ToBytes(v, n))
    BY <2>2, <2>4, HoldsParts
  <2>6. ReadByte(buf, at) = Got(n, at + 1) BY <2>3, <2>5, ReadByteIs
  <2>7. ReadNumber(buf, at + 1, n) = Got(v, at + 1 + n) BY <2>1, <2>3, <2>5, NumberReads
  <2>8. Len(WriteDecimal(v)) = 1 + n BY <2>2, <2>4
  <2>9. at \in Nat BY DEF Holds
  <2>10. at + 1 + n = at + (1 + n) BY <2>3, <2>9
  <2>11. n # 0 BY <2>3
  <2>12. ReadDecimal(buf, at) = ReadNumber(buf, at + 1, n)
    BY <2>3, <2>6, <2>11, GotIs DEF ReadDecimal, Then
  <2>13. QED BY <2>7, <2>8, <2>10, <2>12
<1>4. QED BY <1>2, <1>3

\* Every sequence of bytes that is not longer than what is read at once is read back, on each
\* side of the lengths at which the form of its length changes (WriteBlob, ReadBlob).
THEOREM BlobReads ==
    ASSUME NEW b \in Seq(Bytes), Len(b) <= ByteLimit, NEW buf, NEW at, Holds(buf, at, WriteBlob(b))
    PROVE  ReadBlob(buf, at) = Got(b, at + Len(WriteBlob(b)))
<1> DEFINE n == Len(b)
<1>1. Base \in Nat /\ Base > 8 /\ ByteLimit \in Nat /\ ByteLimit >= 8 /\ n \in Nat
  BY BaseAssumption, LimitAssumption
<1>2. at \in Nat BY DEF Holds
<1>3. Base - 1 \in Bytes /\ Base - 2 \in Bytes /\ Base - 1 # Base - 2 BY <1>1 DEF Bytes
<1>4. CASE n <= Base - 3
  <2>1. WriteBlob(b) = <<n>> \o b BY <1>4 DEF WriteBlob
  <2> HIDE DEF n
  <2>2. n \in Bytes /\ n # Base - 1 /\ n # Base - 2 BY <1>1, <1>4 DEF Bytes
  <2>3. <<n>> \in Seq(Bytes) /\ Len(<<n>>) = 1 BY <2>2
  <2>4. Holds(buf, at, <<n>>) /\ Holds(buf, at + 1, b) BY <2>1, <2>3, HoldsParts
  <2>5. ReadByte(buf, at) = Got(n, at + 1) BY <2>2, <2>4, ReadByteIs
  <2>6. ReadBytes(buf, at + 1, n) = Got(b, at + 1 + n) BY <2>4, ReadBytesIs DEF n
  <2>7. ReadBlob(buf, at) = ReadBytes(buf, at + 1, n)
    BY <2>2, <2>5, GotIs DEF ReadBlob, Then
  <2>8. at + 1 + n = at + Len(WriteBlob(b))
    <3>1. Len(WriteBlob(b)) = 1 + n BY <2>1, <2>3 DEF n
    <3>2. QED BY <1>1, <1>2, <3>1
  <2>9. QED BY <2>6, <2>7, <2>8
<1>5. CASE n > Base - 3 /\ n < Power(2)
  <2> DEFINE c == ToBytes(n, 2)
             k == Base - 1
  <2>1. WriteBlob(b) = (<<k>> \o c) \o b BY <1>1, <1>5 DEF WriteBlob
  <2>2. c \in Seq(Bytes) /\ Len(c) = 2
    <3>1. n \in Int /\ 2 \in Nat BY <1>1
    <3> HIDE DEF n
    <3>2. QED BY <3>1, ToBytesType
  <2>3. ToUnsigned(c) = n
    <3>1. Power(2) \in Nat \ {0} BY PowerType
    <3>2. n = Power(2) * 0 + n /\ n \in 0..(Power(2) - 1) BY <1>1, <1>5, <3>1
    <3>3. n % Power(2) = n BY <1>1, <3>1, <3>2, DivIs
    <3>4. QED BY <1>1, <3>3, UnsignedIs
  <2>4. <<k>> \in Seq(Bytes) /\ Len(<<k>>) = 1 /\ k \in Bytes BY <1>3
  <2> HIDE DEF n, c, k
  <2>5. <<k>> \o c \in Seq(Bytes) /\ Len(<<k>> \o c) = 3
    <3>1. <<k>> \o c \in Seq(Bytes) /\ Len(<<k>> \o c) = 1 + Len(c)
      BY <2>2, <2>4, Headed, Zenon
    <3>2. 1 + Len(c) = 3 BY <2>2
    <3>3. QED BY <3>1, <3>2, Zenon
  <2>6. Holds(buf, at, <<k>> \o c) /\ Holds(buf, at + 3, b) BY <2>1, <2>5, HoldsParts
  <2>7. Holds(buf, at, <<k>>) /\ Holds(buf, at + 1, c) BY <2>2, <2>4, <2>6, HoldsParts
  <2>8. ReadByte(buf, at) = Got(k, at + 1) BY <2>4, <2>7, ReadByteIs
  <2>9. ReadBytes(buf, at + 1, 2) = Got(c, at + 1 + 2)
    <3>1. Len(c) <= ByteLimit BY <1>1, <2>2
    <3>2. QED BY <2>2, <2>7, <3>1, ReadBytesIs
  <2>10. at + 1 + 2 = at + 3 BY <1>2
  <2>11. ReadUnsignedShort(buf, at + 1) = Got(n, at + 3)
    BY <2>3, <2>9, <2>10, GotIs DEF ReadUnsignedShort, Then
  <2>12. ReadBytes(buf, at + 3, n) = Got(b, at + 3 + n) BY <2>6, ReadBytesIs DEF n
  <2>13. ReadBlob(buf, at) = ReadBytes(buf, at + 3, n)
    <3>1. ReadBlob(buf, at) = Then(ReadUnsignedShort(buf, at + 1),
                                   LAMBDA r : ReadBytes(buf, r.at, r.v))
      BY <2>8, GotIs DEF ReadBlob, Then, k
    <3>2. QED BY <2>11, <3>1, GotIs DEF Then
  <2>14. at + 3 + n = at + Len(WriteBlob(b))
    <3>1. Len(WriteBlob(b)) = 3 + n BY <2>1, <2>5 DEF n
    <3>2. QED BY <1>1, <1>2, <3>1
  <2>15. QED BY <2>12, <2>13, <2>14
<1>6. CASE n > Base - 3 /\ n >= Power(2)
  <2> DEFINE c == ToBytes(n, 4)
             k == Base - 2
  <2>0. Power(2) \in Nat BY PowerType
  <2>1. WriteBlob(b) = (<<k>> \o c) \o b BY <1>1, <1>6, <2>0 DEF WriteBlob
  <2>2. c \in Seq(Bytes) /\ Len(c) = 4
    <3>1. n \in Int /\ 4 \in Nat BY <1>1
    <3> HIDE DEF n
    <3>2. QED BY <3>1, ToBytesType
  <2>3. Fits(n, 4)
    <3>0. 4 \in Nat /\ 4 > 0 OBVIOUS
    <3>1. Power(4) \div 2 \in Nat BY <3>0, PowerEven
    <3>2. ByteLimit < Power(4) \div 2 BY LimitAssumption DEF Fits
    <3>3. QED BY <1>1, <3>1, <3>2 DEF Fits
  <2>4. <<k>> \in Seq(Bytes) /\ Len(<<k>>) = 1 /\ k \in Bytes BY <1>3
  <2>5. k # Base - 1 BY <1>3
  <2> HIDE DEF n, c, k
  <2>6. <<k>> \o c \in Seq(Bytes) /\ Len(<<k>> \o c) = 5
    <3>1. <<k>> \o c \in Seq(Bytes) /\ Len(<<k>> \o c) = 1 + Len(c)
      BY <2>2, <2>4, Headed, Zenon
    <3>2. 1 + Len(c) = 5 BY <2>2
    <3>3. QED BY <3>1, <3>2, Zenon
  <2>7. Holds(buf, at, <<k>> \o c) /\ Holds(buf, at + 5, b) BY <2>1, <2>6, HoldsParts
  <2>8. Holds(buf, at, <<k>>) /\ Holds(buf, at + 1, c) BY <2>2, <2>4, <2>7, HoldsParts
  <2>9. ReadByte(buf, at) = Got(k, at + 1) BY <2>4, <2>8, ReadByteIs
  <2>10. ReadNumber(buf, at + 1, 4) = Got(n, at + 1 + 4)
    <3>1. 4 \in 1..ByteLimit /\ n \in Int BY <1>1
    <3>2. QED BY <2>3, <2>8, <3>1, NumberReads DEF c
  <2>11. at + 1 + 4 = at + 5 BY <1>2
  <2>12. ReadBytes(buf, at + 5, n) = Got(b, at + 5 + n) BY <2>7, ReadBytesIs DEF n
  <2>13. ReadBlob(buf, at) = ReadBytes(buf, at + 5, n)
    BY <2>5, <2>9, <2>10, <2>11, GotIs DEF ReadBlob, Then, k
  <2>14. at + 5 + n = at + Len(WriteBlob(b))
    <3>1. Len(WriteBlob(b)) = 5 + n BY <2>1, <2>6 DEF n
    <3>2. QED BY <1>1, <1>2, <3>1
  <2>15. QED BY <2>12, <2>13, <2>14
<1>7. QED
  <2>1. Power(2) \in Nat BY PowerType
  <2>2. QED BY <1>1, <1>4, <1>5, <1>6, <2>1

LEMMA WriteTextType == ASSUME NEW s \in DOMAIN Spelling PROVE WriteText(s) \in Seq(Bytes)
<1> DEFINE b == Spelling[s]
           n == Len(b)
<1>1. b \in Seq(Bytes) /\ n \in Nat BY SpellingAssumption DEF Bytes
<1>2. Base \in Nat /\ Base > 8 BY BaseAssumption
<1> HIDE DEF b
<1>3. CASE n <= Base - 3
  <2>1. n \in Bytes BY <1>1, <1>2, <1>3 DEF Bytes
  <2>2. WriteBlob(b) = <<n>> \o b BY <1>3 DEF WriteBlob
  <2> HIDE DEF n
  <2>3. <<n>> \o b \in Seq(Bytes) BY <1>1, <2>1, Headed, Zenon
  <2>4. QED BY <2>2, <2>3 DEF WriteText, b
<1>4. CASE ~(n <= Base - 3)
  <2>1. \A k \in Bytes, m \in Nat : (<<k>> \o ToBytes(n, m)) \o b \in Seq(Bytes)
    <3> HIDE DEF n
    <3>1. ASSUME NEW k \in Bytes, NEW m \in Nat
          PROVE  (<<k>> \o ToBytes(n, m)) \o b \in Seq(Bytes)
      <4> DEFINE c == ToBytes(n, m)
      <4>1. n \in Int BY <1>1
      <4>2. c \in Seq(Bytes) BY <4>1, ToBytesType
      <4> HIDE DEF c
      <4> DEFINE h == <<k>> \o c
      <4>3. h \in Seq(Bytes) BY <4>2, Headed, Zenon
      <4> HIDE DEF h
      <4>4. h \o b \in Seq(Bytes) BY <1>1, <4>3, ConcatProperties
      <4>5. QED BY <4>4 DEF h, c
    <3>2. QED BY <3>1
  <2>2. Base - 1 \in Bytes /\ Base - 2 \in Bytes /\ 2 \in Nat /\ 4 \in Nat
    BY <1>2 DEF Bytes
  <2>3. WriteBlob(b) = IF n < Power(2) THEN (<<Base - 1>> \o ToBytes(n, 2)) \o b
                       ELSE (<<Base - 2>> \o ToBytes(n, 4)) \o b
    BY <1>4 DEF WriteBlob
  <2>4. QED BY <2>1, <2>2, <2>3 DEF WriteText, b
<1>5. QED BY <1>3, <1>4

\* Every text that is not too long is read back, and no other (WriteText, ReadText).
THEOREM TextReads ==
    ASSUME NEW s \in DOMAIN Spelling, Len(Spelling[s]) <= ByteLimit,
           NEW buf, NEW at, Holds(buf, at, WriteText(s))
    PROVE  ReadText(buf, at) = Got(s, at + Len(WriteText(s)))
<1>1. Spelling[s] \in Seq(Bytes) /\ \A t \in DOMAIN Spelling : Spelling[t] = Spelling[s] => t = s
  BY SpellingAssumption DEF Bytes
<1>2. ReadBlob(buf, at) = Got(Spelling[s], at + Len(WriteText(s))) BY <1>1, BlobReads DEF WriteText
<1>3. Spelled(Spelling[s]) = s BY <1>1 DEF Spelled
<1>4. QED BY <1>2, <1>3, GotIs DEF ReadText, Then

-----------------------------------------------------------------------------
(* Arrays.                                                                 *)

IsFlat(f, es, n) == f = [i \in 1..n |-> IF i = 1 THEN es[i] ELSE f[i - 1] \o es[i]]

LEMMA FlatExists == ASSUME NEW es, NEW n \in Nat PROVE \E f : IsFlat(f, es, n)
<1> DEFINE S == {k \in Nat : \E f : IsFlat(f, es, k)}
<1>1. 0 \in S
  <2>1. IsFlat(<<>>, es, 0) BY DEF IsFlat
  <2>2. QED BY <2>1
<1>2. ASSUME NEW k \in S PROVE k + 1 \in S
  <2>1. PICK f : f = [i \in 1..k |-> IF i = 1 THEN es[i] ELSE f[i - 1] \o es[i]] BY DEF IsFlat
  <2> DEFINE g == [i \in 1..k + 1 |->
                     IF i <= k THEN f[i] ELSE IF i = 1 THEN es[i] ELSE f[k] \o es[i]]
  <2>2. ASSUME NEW i \in 1..k + 1
        PROVE  g[i] = IF i = 1 THEN es[i] ELSE g[i - 1] \o es[i]
    <3>1. CASE i = 1
      <4>1. CASE k = 0 BY <3>1, <4>1
      <4>2. CASE k # 0
        <5>1. 1 \in 1..k /\ 1 \in 1..k + 1 /\ 1 <= k BY <4>2
        <5>2. g[1] = f[1] /\ f[1] = es[1] BY <2>1, <5>1
        <5>3. QED BY <3>1, <5>2
      <4>3. QED BY <4>1, <4>2
    <3>2. CASE i # 1 /\ i <= k
      <4>1. i \in 1..k /\ i - 1 \in 1..k + 1 /\ i - 1 <= k BY <3>2
      <4>2. g[i] = f[i] /\ g[i - 1] = f[i - 1] BY <4>1
      <4>3. f[i] = f[i - 1] \o es[i] BY <2>1, <3>2, <4>1
      <4>4. QED BY <3>2, <4>2, <4>3
    <3>3. CASE i # 1 /\ i = k + 1
      <4>1. i - 1 = k /\ k \in 1..k + 1 /\ ~(i <= k) BY <3>3
      <4>2. g[k] = f[k] BY <4>1
      <4>3. g[i] = f[k] \o es[i] BY <3>3, <4>1
      <4>4. QED BY <3>3, <4>1, <4>2, <4>3
    <3>4. QED BY <3>1, <3>2, <3>3
  <2>3. g = [i \in 1..k + 1 |-> g[i]] OBVIOUS
  <2> HIDE DEF g
  <2>4. IsFlat(g, es, k + 1) BY <2>2, <2>3 DEF IsFlat
  <2>5. QED BY <2>4
<1> HIDE DEF S
<1>3. S = Nat
  <2>1. S \in SUBSET Nat BY DEF S
  <2>2. QED BY <1>1, <1>2, <2>1, Induction
<1>4. QED BY <1>3 DEF S

(* Where the elements end when they stand one after the other.             *)
FlatTo(f, i) == IF i = 0 THEN <<>> ELSE f[i]

LEMMA FlattenIs ==
    ASSUME NEW es \in Seq(Seq(Bytes))
    PROVE  \E f : /\ FlattenSeq(es) = FlatTo(f, Len(es))
                  /\ \A i \in 0..Len(es) : FlatTo(f, i) \in Seq(Bytes)
                  /\ \A i \in 1..Len(es) : FlatTo(f, i) = FlatTo(f, i - 1) \o es[i]
<1> DEFINE n == Len(es)
           f == CHOOSE g : IsFlat(g, es, n)
<1>1. n \in Nat /\ \A i \in 1..n : es[i] \in Seq(Bytes) OBVIOUS
<1>2. IsFlat(f, es, n) BY <1>1, FlatExists
<1>3. FlattenSeq(es) = FlatTo(f, n)
  <2>1. CASE n = 0
    <3>1. es = <<>> BY <2>1
    <3>2. QED BY <2>1, <3>1 DEF FlattenSeq, FlatTo
  <2>2. CASE n # 0 BY <2>2 DEF FlattenSeq, IsFlat, FlatTo
  <2>3. QED BY <2>1, <2>2
<1> HIDE DEF f, n
<1>4. \A i \in 1..n : FlatTo(f, i) = FlatTo(f, i - 1) \o es[i]
  <2>1. ASSUME NEW i \in 1..n PROVE FlatTo(f, i) = FlatTo(f, i - 1) \o es[i]
    <3>1. f[i] = IF i = 1 THEN es[i] ELSE f[i - 1] \o es[i] BY <1>2 DEF IsFlat
    <3>2. CASE i = 1
      <4>1. FlatTo(f, i - 1) = <<>> /\ FlatTo(f, i) = es[i] BY <3>1, <3>2 DEF FlatTo
      <4>2. <<>> \o es[i] = es[i] BY <1>1, ConcatEmptySeq
      <4>3. QED BY <4>1, <4>2
    <3>3. CASE i # 1
      <4>1. FlatTo(f, i - 1) = f[i - 1] /\ FlatTo(f, i) = f[i] BY <1>1, <3>3 DEF FlatTo
      <4>2. QED BY <3>1, <3>3, <4>1
    <3>4. QED BY <3>2, <3>3
  <2>2. QED BY <2>1
<1>5. \A i \in 0..n : FlatTo(f, i) \in Seq(Bytes)
  <2> DEFINE S == {k \in Nat : k <= n => FlatTo(f, k) \in Seq(Bytes)}
  <2>1. 0 \in S
    <3>1. FlatTo(f, 0) = <<>> /\ <<>> \in Seq(Bytes) BY DEF FlatTo
    <3>2. QED BY <3>1
  <2>2. ASSUME NEW k \in S PROVE k + 1 \in S
    <3>1. CASE k + 1 <= n
      <4>1. k + 1 \in 1..n /\ (k + 1) - 1 = k /\ k <= n BY <1>1, <3>1
      <4>2. FlatTo(f, k + 1) = FlatTo(f, k) \o es[k + 1] BY <1>4, <4>1
      <4>3. FlatTo(f, k) \in Seq(Bytes) /\ es[k + 1] \in Seq(Bytes) BY <1>1, <4>1
      <4>4. FlatTo(f, k) \o es[k + 1] \in Seq(Bytes) BY <4>3, ConcatProperties
      <4>5. FlatTo(f, k + 1) \in Seq(Bytes) BY <4>2, <4>4, Zenon
      <4>6. QED BY <4>5
    <3>2. QED BY <3>1
  <2> HIDE DEF S
  <2>3. S = Nat
    <3>1. S \in SUBSET Nat BY DEF S
    <3>2. QED BY <2>1, <2>2, <3>1, Induction
  <2>4. QED BY <1>1, <2>3 DEF S
<1>6. QED BY <1>3, <1>4, <1>5 DEF n

(* Of what stands in the buffer, so does every part up to an element.      *)
LEMMA FlatHolds ==
    ASSUME NEW n \in Nat, NEW es, NEW f, NEW buf, NEW at, Holds(buf, at, FlatTo(f, n)),
           \A i \in 1..n : es[i] \in Seq(Bytes),
           \A i \in 0..n : FlatTo(f, i) \in Seq(Bytes),
           \A i \in 1..n : FlatTo(f, i) = FlatTo(f, i - 1) \o es[i]
    PROVE  \A i \in 1..n : /\ Holds(buf, at, FlatTo(f, i))
                           /\ Holds(buf, at + Len(FlatTo(f, i - 1)), es[i])
<1> DEFINE S == {k \in Nat : k <= n => Holds(buf, at, FlatTo(f, n - k))}
<1>1. 0 \in S
  <2>1. n - 0 = n OBVIOUS
  <2>2. QED BY <2>1
<1>2. ASSUME NEW k \in S PROVE k + 1 \in S
  <2>1. CASE k + 1 <= n
    <3> DEFINE i == n - k
    <3>1. i \in 1..n /\ i - 1 \in 0..n /\ n - (k + 1) = i - 1 /\ k <= n BY <2>1
    <3>2. Holds(buf, at, FlatTo(f, i)) BY <3>1
    <3> HIDE DEF i
    <3>3. FlatTo(f, i) = FlatTo(f, i - 1) \o es[i] BY <3>1
    <3>4. FlatTo(f, i - 1) \in Seq(Bytes) /\ es[i] \in Seq(Bytes) BY <3>1
    <3>5. Holds(buf, at, FlatTo(f, i - 1)) BY <3>2, <3>3, <3>4, HoldsParts
    <3>6. QED BY <3>1, <3>5
  <2>2. QED BY <2>1
<1> HIDE DEF S
<1>3. S = Nat
  <2>1. S \in SUBSET Nat BY DEF S
  <2>2. QED BY <1>1, <1>2, <2>1, Induction
<1>4. \A i \in 0..n : Holds(buf, at, FlatTo(f, i))
  <2>1. ASSUME NEW i \in 0..n PROVE Holds(buf, at, FlatTo(f, i))
    <3>1. n - i \in Nat /\ n - i <= n /\ n - (n - i) = i OBVIOUS
    <3>2. n - i \in S BY <1>3, <3>1
    <3>3. QED BY <3>1, <3>2 DEF S
  <2>2. QED BY <2>1
<1>5. ASSUME NEW i \in 1..n
      PROVE  Holds(buf, at, FlatTo(f, i)) /\ Holds(buf, at + Len(FlatTo(f, i - 1)), es[i])
  <2>1. i \in 0..n /\ i - 1 \in 0..n OBVIOUS
  <2>2. Holds(buf, at, FlatTo(f, i)) BY <1>4, <2>1
  <2>3. FlatTo(f, i) = FlatTo(f, i - 1) \o es[i] OBVIOUS
  <2>4. FlatTo(f, i - 1) \in Seq(Bytes) /\ es[i] \in Seq(Bytes) BY <2>1
  <2>5. QED BY <2>2, <2>3, <2>4, HoldsParts
<1>6. QED BY <1>5

ReadNext(r, buf, width) ==
    Then(r, LAMBDA q : Then(ReadElement(buf, q.at, width),
                            LAMBDA e : Got(Append(q.v, e.v), e.at)))
IsRead(f, buf, at, width, n) ==
    f = [i \in 0..n |-> IF i = 0 THEN Got(<< >>, at) ELSE ReadNext(f[i - 1], buf, width)]

LEMMA OneRead ==
    ASSUME NEW n \in Nat, NEW buf, NEW at, NEW width,
           NEW f, IsRead(f, buf, at, width, n), NEW g, IsRead(g, buf, at, width, n)
    PROVE  f[n] = g[n]
<1> DEFINE S == {k \in Nat : k <= n => f[k] = g[k]}
<1>1. 0 \in S BY DEF IsRead
<1>2. ASSUME NEW k \in S PROVE k + 1 \in S
  <2>1. CASE k + 1 <= n
    <3>1. k + 1 \in 0..n /\ k + 1 # 0 /\ (k + 1) - 1 = k BY <2>1
    <3>2. f[k + 1] = ReadNext(f[k], buf, width) /\ g[k + 1] = ReadNext(g[k], buf, width)
      BY <3>1 DEF IsRead
    <3>3. QED BY <2>1, <3>2
  <2>2. QED BY <2>1
<1> HIDE DEF S
<1>3. S = Nat
  <2>1. S \in SUBSET Nat BY DEF S
  <2>2. QED BY <1>1, <1>2, <2>1, Induction
<1>4. QED BY <1>3 DEF S

LEMMA ReadElementsIs ==
    ASSUME NEW n \in Nat, NEW buf, NEW at, NEW width, NEW f, IsRead(f, buf, at, width, n)
    PROVE  ReadElements(buf, at, width, n) = f[n]
<1> DEFINE g == CHOOSE h : IsRead(h, buf, at, width, n)
<1>1. IsRead(g, buf, at, width, n) OBVIOUS
<1>2. ReadElements(buf, at, width, n) = g[n] BY DEF ReadElements, IsRead, ReadNext
<1> HIDE DEF g
<1>3. QED BY <1>1, <1>2, OneRead

AllRead(es, vs, buf, width) ==
    \A i \in 1..Len(es) : \A place :
        Holds(buf, place, es[i]) =>
            ReadElement(buf, place, width) = Got(vs[i], place + Len(es[i]))

(* When each element is read where it stands, so are all of them.          *)
LEMMA ElementsRead ==
    ASSUME NEW es \in Seq(Seq(Bytes)), NEW T, NEW vs \in Seq(T), Len(vs) = Len(es),
           NEW width, NEW buf, NEW at, Holds(buf, at, FlattenSeq(es)),
           AllRead(es, vs, buf, width)
    PROVE  ReadElements(buf, at, width, Len(es)) = Got(vs, at + Len(FlattenSeq(es)))
<1> DEFINE n == Len(es)
<1>0. vs \in Seq(T) OBVIOUS
<1>1. n \in Nat /\ \A i \in 1..n : es[i] \in Seq(Bytes) OBVIOUS
<1>2. PICK f : /\ FlattenSeq(es) = FlatTo(f, n)
               /\ \A i \in 0..n : FlatTo(f, i) \in Seq(Bytes)
               /\ \A i \in 1..n : FlatTo(f, i) = FlatTo(f, i - 1) \o es[i]
  BY FlattenIs
<1>3. \A i \in 1..n : Holds(buf, at + Len(FlatTo(f, i - 1)), es[i])
  <2>1. Holds(buf, at, FlatTo(f, n)) BY <1>2
  <2> HIDE DEF n
  <2>2. QED BY <1>1, <1>2, <2>1, FlatHolds
<1> DEFINE Taken(i) == SubSeq(vs, 1, i)
           g == [i \in 0..n |-> Got(Taken(i), at + Len(FlatTo(f, i)))]
<1>4. at \in Nat BY DEF Holds
<1>5. ASSUME NEW i \in 0..n
      PROVE  g[i] = IF i = 0 THEN Got(<<>>, at) ELSE ReadNext(g[i - 1], buf, width)
  <2>1. CASE i = 0
    <3>1. FlatTo(f, 0) = <<>> /\ Taken(0) = <<>> BY DEF FlatTo
    <3>2. at + Len(<<>>) = at BY <1>4
    <3>3. QED BY <2>1, <3>1, <3>2
  <2>2. CASE i # 0
    <3> DEFINE place == at + Len(FlatTo(f, i - 1))
    <3>1. i \in 1..n /\ i - 1 \in 0..n BY <2>2
    <3>2. g[i - 1] = Got(Taken(i - 1), place) BY <3>1
    <3>3. Holds(buf, place, es[i]) BY <1>3, <3>1
    <3>4. ReadElement(buf, place, width) = Got(vs[i], place + Len(es[i]))
      BY <3>1, <3>3 DEF AllRead
    <3>5. Append(Taken(i - 1), vs[i]) = Taken(i)
      <4>1. i \in 1..Len(vs) BY <3>1
      <4> HIDE DEF n
      <4>2. QED BY <1>0, <4>1
    <3>6. place + Len(es[i]) = at + Len(FlatTo(f, i))
      <4>1. FlatTo(f, i) = FlatTo(f, i - 1) \o es[i] BY <1>2, <3>1
      <4>2. FlatTo(f, i - 1) \in Seq(Bytes) /\ es[i] \in Seq(Bytes) BY <1>1, <1>2, <3>1
      <4>3. Len(FlatTo(f, i)) = Len(FlatTo(f, i - 1)) + Len(es[i])
            /\ Len(FlatTo(f, i - 1)) \in Nat /\ Len(es[i]) \in Nat
        BY <4>1, <4>2, ConcatProperties
      <4> DEFINE x == Len(FlatTo(f, i - 1))
                 y == Len(es[i])
                 z == Len(FlatTo(f, i))
      <4>4. z = x + y /\ x \in Nat /\ y \in Nat BY <4>3
      <4> HIDE DEF x, y, z
      <4>5. (at + x) + y = at + z BY <1>4, <4>4
      <4>6. QED BY <4>5 DEF x, y, z, place
    <3>7. g[i] = Got(Taken(i), at + Len(FlatTo(f, i))) OBVIOUS
    <3> HIDE DEF g, Taken, place
    <3>8. ReadNext(Got(Taken(i - 1), place), buf, width)
            = Got(Append(Taken(i - 1), vs[i]), place + Len(es[i]))
      BY <3>4, GotIs DEF ReadNext, Then
    <3>9. QED BY <2>2, <3>2, <3>5, <3>6, <3>7, <3>8
  <2>3. QED BY <2>1, <2>2
<1>6. g = [i \in 0..n |-> g[i]] OBVIOUS
<1>7. g[n] = Got(vs, at + Len(FlattenSeq(es)))
  <2>1. Taken(n) = vs BY <1>0, SubSeqFull
  <2>2. g[n] = Got(Taken(n), at + Len(FlatTo(f, n))) BY <1>1
  <2>3. QED BY <1>2, <2>1, <2>2
<1> HIDE DEF g
<1>8. IsRead(g, buf, at, width, n) BY <1>5, <1>6 DEF IsRead
<1>9. ReadElements(buf, at, width, n) = g[n] BY <1>1, <1>8, ReadElementsIs
<1>10. QED BY <1>7, <1>9

LEMMA ArrayReads ==
    ASSUME NEW es \in Seq(Seq(Bytes)), NEW T, NEW vs \in Seq(T), Len(vs) = Len(es),
           Fits(Len(es), 2), NEW limit \in Nat, Len(es) <= limit,
           NEW width, NEW buf, NEW at, Holds(buf, at, WriteArray(es)),
           AllRead(es, vs, buf, width)
    PROVE  ReadArray(buf, at, limit, width) = Got(vs, at + Len(WriteArray(es)))
<1> DEFINE n == Len(es)
           c == ToBytes(n, 2)
           all == FlattenSeq(es)
<1>1. n \in Nat /\ n \in Int /\ 2 \in 1..ByteLimit /\ 2 \in Nat BY LimitAssumption
<1>2. c \in Seq(Bytes) /\ Len(c) = 2
  <2> HIDE DEF n
  <2>1. QED BY <1>1, ToBytesType
<1>3. all \in Seq(Bytes)
  <2>1. PICK f : /\ FlattenSeq(es) = FlatTo(f, n)
                 /\ \A i \in 0..n : FlatTo(f, i) \in Seq(Bytes)
    BY FlattenIs
  <2>2. n \in 0..n BY <1>1
  <2>3. QED BY <2>1, <2>2
<1>4. WriteArray(es) = c \o all BY DEF WriteArray
<1> HIDE DEF n, c, all
<1>5. Holds(buf, at, c) /\ Holds(buf, at + 2, all) BY <1>2, <1>3, <1>4, HoldsParts
<1>6. ReadNumber(buf, at, 2) = Got(n, at + 2)
  <2>1. Fits(n, 2) BY DEF n
  <2>2. QED BY <1>1, <1>5, <2>1, NumberReads DEF c
<1>7. ReadElements(buf, at + 2, width, n) = Got(vs, at + 2 + Len(all))
  BY <1>5, ElementsRead DEF n, all
<1>8. ~(n < 0 \/ n > limit) BY <1>1 DEF n
<1>9. ReadArray(buf, at, limit, width) = ReadElements(buf, at + 2, width, n)
  BY <1>6, <1>8, GotIs DEF ReadArray, Then
<1>10. at + 2 + Len(all) = at + Len(WriteArray(es))
  <2>1. Len(WriteArray(es)) = 2 + Len(all) /\ Len(all) \in Nat
    <3>1. Len(c \o all) = Len(c) + Len(all) /\ Len(all) \in Nat
      BY <1>2, <1>3, Joined, Zenon
    <3>2. QED BY <1>2, <1>4, <3>1
  <2>2. at \in Nat BY DEF Holds
  <2>3. QED BY <2>1, <2>2
<1>11. QED BY <1>7, <1>9, <1>10

\* An array of numbers whose length a short can hold is read back, each number with its sign
\* (WriteIntArray, WriteLongArray and WriteFloatArray, with their readers).
THEOREM NumbersRead ==
    ASSUME NEW width \in 1..ByteLimit, NEW s \in Seq(Int), \A i \in 1..Len(s) : Fits(s[i], width),
           Fits(Len(s), 2), NEW limit \in Nat, Len(s) <= limit, NEW buf, NEW at,
           Holds(buf, at, WriteArray([i \in DOMAIN s |-> ToBytes(s[i], width)]))
    PROVE  ReadArray(buf, at, limit, width) =
               Got(s, at + Len(WriteArray([i \in DOMAIN s |-> ToBytes(s[i], width)])))
<1> DEFINE es == [i \in DOMAIN s |-> ToBytes(s[i], width)]
<1>1. width \in Nat /\ width # 0 /\ Len(s) \in Nat /\ DOMAIN s = 1..Len(s) BY LimitAssumption
<1>2. \A i \in 1..Len(s) : s[i] \in Int OBVIOUS
<1>3. \A i \in 1..Len(s) : ToBytes(s[i], width) \in Seq(Bytes)
                           /\ Len(ToBytes(s[i], width)) = width
  BY <1>1, <1>2, ToBytesType
<1>4. es \in Seq(Seq(Bytes)) /\ Len(es) = Len(s) /\ \A i \in 1..Len(s) : es[i] = ToBytes(s[i], width)
  <2>1. es \in [1..Len(s) -> Seq(Bytes)] BY <1>1, <1>3
  <2>2. QED BY <1>1, <2>1
<1>5. ASSUME NEW i \in 1..Len(es), NEW place, Holds(buf, place, es[i])
      PROVE  ReadElement(buf, place, width) = Got(s[i], place + Len(es[i]))
  <2>1. es[i] = ToBytes(s[i], width) /\ Len(es[i]) = width /\ s[i] \in Int /\ Fits(s[i], width)
    BY <1>2, <1>3, <1>4
  <2> HIDE DEF es
  <2>2. ReadNumber(buf, place, width) = Got(s[i], place + width) BY <1>5, <2>1, NumberReads
  <2>3. QED BY <1>1, <2>1, <2>2 DEF ReadElement
<1> HIDE DEF es
<1>6. Holds(buf, at, WriteArray(es)) BY DEF es
<1>7. ReadArray(buf, at, limit, width) = Got(s, at + Len(WriteArray(es)))
  <2>1. AllRead(es, s, buf, width) BY <1>5 DEF AllRead
  <2>2. QED BY <1>4, <1>6, <2>1, ArrayReads
<1>8. QED BY <1>7 DEF es

\* So is an array of texts (WriteTextArray, ReadTextArray), each with the length of its own.
THEOREM TextsRead ==
    ASSUME NEW s \in Seq(DOMAIN Spelling),
           \A i \in 1..Len(s) : Len(Spelling[s[i]]) <= ByteLimit,
           Fits(Len(s), 2), Len(s) <= StringLimit, NEW buf, NEW at,
           Holds(buf, at, WriteArray([i \in DOMAIN s |-> WriteText(s[i])]))
    PROVE  ReadArray(buf, at, StringLimit, 0) =
               Got(s, at + Len(WriteArray([i \in DOMAIN s |-> WriteText(s[i])])))
<1> DEFINE es == [i \in DOMAIN s |-> WriteText(s[i])]
<1>1. Len(s) \in Nat /\ DOMAIN s = 1..Len(s) /\ StringLimit \in Nat BY LimitAssumption
<1>2. \A i \in 1..Len(s) : s[i] \in DOMAIN Spelling OBVIOUS
<1>3. \A i \in 1..Len(s) : WriteText(s[i]) \in Seq(Bytes) BY <1>2, WriteTextType
<1>4. es \in Seq(Seq(Bytes)) /\ Len(es) = Len(s) /\ \A i \in 1..Len(s) : es[i] = WriteText(s[i])
  <2>1. es \in [1..Len(s) -> Seq(Bytes)] BY <1>1, <1>3
  <2>2. QED BY <1>1, <2>1
<1>5. ASSUME NEW i \in 1..Len(es), NEW place, Holds(buf, place, es[i])
      PROVE  ReadElement(buf, place, 0) = Got(s[i], place + Len(es[i]))
  <2>1. es[i] = WriteText(s[i]) /\ s[i] \in DOMAIN Spelling /\ Len(Spelling[s[i]]) <= ByteLimit
    BY <1>2, <1>4
  <2> HIDE DEF es
  <2>2. ReadText(buf, place) = Got(s[i], place + Len(WriteText(s[i])))
    BY <1>5, <2>1, TextReads
  <2>3. QED BY <2>1, <2>2 DEF ReadElement
<1> HIDE DEF es
<1>6. Holds(buf, at, WriteArray(es)) BY DEF es
<1>7. ASSUME NEW e \in Seq(Seq(Bytes)), Len(s) = Len(e), Holds(buf, at, WriteArray(e)),
             NEW width, AllRead(e, s, buf, width)
      PROVE  ReadArray(buf, at, StringLimit, width) = Got(s, at + Len(WriteArray(e)))
  BY <1>1, <1>7, ArrayReads
<1>8. ReadArray(buf, at, StringLimit, 0) = Got(s, at + Len(WriteArray(es)))
  <2>1. AllRead(es, s, buf, 0) BY <1>5 DEF AllRead
  <2>2. Len(s) = Len(es) /\ es \in Seq(Seq(Bytes)) BY <1>4
  <2>3. QED BY <1>6, <1>7, <2>1, <2>2, Zenon
<1>9. QED BY <1>8 DEF es
=============================================================================
