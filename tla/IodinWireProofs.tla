--------------------------- MODULE IodinWireProofs ---------------------------
EXTENDS IodinWire, WellFoundedInduction, SequenceTheorems, TLAPS

-----------------------------------------------------------------------------
(* Least elements, and the induction they give.                             *)

LEMMA Least ==
  ASSUME NEW T \in SUBSET Nat, T # {}
  PROVE  \E x \in T : \A y \in T : x <= y
<1> DEFINE Below == OpToRel(<, Nat)
<1>1. IsWellFoundedOn(Below, Nat)
  BY NatLessThanWellFounded
<1>2. \A x, y \in Nat : <<x, y>> \in Below <=> x < y
  BY DEF OpToRel
<1> HIDE DEF Below
<1>3. PICK x \in T : \A y \in T : ~ (<<y, x>> \in Below)
  BY <1>1, WFMin
<1>4. ASSUME NEW y \in T PROVE x <= y
  <2>1. x \in Nat /\ y \in Nat /\ ~ (<<y, x>> \in Below)
    BY <1>3
  <2>2. ~ (y < x)
    BY <1>2, <2>1, Zenon
  <2> QED
    BY <2>1, <2>2
<1> QED
  BY <1>4

LEMMA Induction ==
  ASSUME NEW T \in SUBSET Nat, 0 \in T, \A n \in Nat : n \in T => n + 1 \in T
  PROVE  T = Nat
<1> SUFFICES ASSUME Nat \ T # {} PROVE FALSE
  OBVIOUS
<1>1. PICK n \in Nat \ T : \A k \in Nat \ T : n <= k
  BY Least
<1>2. n - 1 \in Nat /\ n - 1 \notin Nat \ T
  BY <1>1
<1> QED
  BY <1>1, <1>2

\* Min and Max of the sets of places that the reader looks at.
LEMMA MinIs ==
  ASSUME NEW T \in SUBSET Nat, T # {}
  PROVE  Min(T) \in T /\ \A y \in T : Min(T) <= y
<1>1. \E x \in T : \A y \in T : x <= y
  BY Least
<1> QED
  BY <1>1 DEF Min

LEMMA MaxIs ==
  ASSUME NEW n \in Nat, NEW T \in SUBSET (1..n), T # {}
  PROVE  Max(T) \in T /\ \A y \in T : y <= Max(T)
<1> DEFINE U == {n - y : y \in T}
<1>1. U \in SUBSET Nat /\ U # {}
  <2>1. ASSUME NEW y \in T PROVE n - y \in Nat
    <3>1. y \in 1..n
      OBVIOUS
    <3> QED
      BY <3>1
  <2>2. U # {}
    OBVIOUS
  <2> QED
    BY <2>1, <2>2
<1>2. PICK x \in U : \A y \in U : x <= y
  BY <1>1, Least
<1>3. PICK z \in T : x = n - z
  BY <1>2
<1>4. \A y \in T : z >= y
  <2> TAKE y \in T
  <2>1. n - y \in U
    OBVIOUS
  <2> QED
    BY <1>2, <1>3, <2>1
<1>5. \E w \in T : \A y \in T : w >= y
  BY <1>4
<1>6. Max(T) \in T /\ \A y \in T : Max(T) >= y
  BY <1>5 DEF Max
<1> QED
  BY <1>6

-----------------------------------------------------------------------------
(* Numbers and their digits.                                                *)

LEMMA Powers ==
  /\ 128^0 = 1 /\ 128^1 = 128 /\ 128^2 = 16384 /\ 128^3 = 2097152 /\ 128^4 = 268435456
  /\ 256^0 = 1 /\ 256^1 = 256 /\ 256^2 = 65536 /\ 256^3 = 16777216
  /\ Huge = 268435456 /\ 2^24 = 16777216
BY SMT DEF Huge

\* A function on the first numbers is a sequence.
LEMMA SeqOver ==
  ASSUME NEW T, NEW n \in Nat, NEW f \in [1..n -> T]
  PROVE  f \in Seq(T) /\ Len(f) = n
<1>1. f \in UNION {[1..k -> T] : k \in Nat}
  OBVIOUS
<1>2. f \in Seq(T)
  BY <1>1, SeqDef
<1>3. Len(f) \in Nat /\ DOMAIN f = 1..Len(f)
  BY <1>2, LenProperties
<1>4. 1..n = 1..Len(f)
  BY <1>3
<1> QED
  BY <1>2, <1>3, <1>4

LEMMA VarintSizeIs ==
  ASSUME NEW v \in Nat, v < Huge
  PROVE  /\ VarintSize(v) \in 1..4
         /\ v < 128^VarintSize(v)
         /\ VarintSize(v) > 1 => v >= 128^(VarintSize(v) - 1)
<1>1. \E n \in 1..4 : v < 128^n /\ (n > 1 => v >= 128^(n - 1))
  <2>1. CASE v < 128
    <3>1. 1 \in 1..4 /\ v < 128^1
      BY <2>1, Powers, SMT
    <3> QED
      BY <3>1, SMT
  <2>2. CASE v >= 128 /\ v < 16384
    <3>1. 2 \in 1..4 /\ v < 128^2 /\ v >= 128^(2 - 1)
      BY <2>2, Powers, SMT
    <3> QED
      BY <3>1, SMT
  <2>3. CASE v >= 16384 /\ v < 2097152
    <3>1. 3 \in 1..4 /\ v < 128^3 /\ v >= 128^(3 - 1)
      BY <2>3, Powers, SMT
    <3> QED
      BY <3>1, SMT
  <2>4. CASE v >= 2097152
    <3>1. 4 \in 1..4 /\ v < 128^4 /\ v >= 128^(4 - 1)
      BY <2>4, Powers, SMT
    <3> QED
      BY <3>1, SMT
  <2> QED
    BY <2>1, <2>2, <2>3, <2>4, SMT
<1> QED
  BY <1>1 DEF VarintSize

Bases == {128, 256}

LEMMA BasesAre ==
  /\ 128 \in Bases /\ 256 \in Bases
  /\ \A base \in Bases : base \in Nat /\ base > 1 /\ (base = 128 \/ base = 256)
BY DEF Bases

LEMMA BytesAreNat == \A x \in Byte : x \in Nat
BY DEF Byte

LEMMA Divided ==
  ASSUME NEW base \in Bases, NEW v \in Nat
  PROVE  /\ v \div base \in Nat /\ v % base \in 0..(base - 1)
         /\ v = base * (v \div base) + (v % base)
         /\ v < base => v % base = v
<1>1. CASE base = 128
  BY <1>1, SMT
<1>2. CASE base = 256
  BY <1>2, SMT
<1>3. base = 128 \/ base = 256
  BY BasesAre
<1> QED
  BY <1>1, <1>2, <1>3, Zenon

LEMMA DigitsAre ==
  ASSUME NEW base \in Bases, NEW v \in Nat
  PROVE  \E a, b, c \in Nat : \E d1, d2, d3, d4 \in 0..(base - 1) :
           /\ v = base * a + d1 /\ a = base * b + d2 /\ b = base * c + d3
           /\ c < base => d4 = c
           /\ Digits(base, v) = <<d1, d2, d3, d4>>
<1> DEFINE a == v \div base
           b == a \div base
           c == b \div base
<1>1. Digits(base, v) = <<v % base, a % base, b % base, c % base>>
  BY DEF Digits
<1>2. a \in Nat /\ v % base \in 0..(base - 1) /\ v = base * a + (v % base)
  BY Divided, Zenon
<1> HIDE DEF a
<1>3. b \in Nat /\ a % base \in 0..(base - 1) /\ a = base * b + (a % base)
  BY <1>2, Divided, Zenon
<1> HIDE DEF b
<1>4. c \in Nat /\ b % base \in 0..(base - 1) /\ b = base * c + (b % base)
  BY <1>3, Divided, Zenon
<1> HIDE DEF c
<1>5. c % base \in 0..(base - 1) /\ (c < base => c % base = c)
  BY <1>4, Divided, Zenon
<1> QED
  BY <1>1, <1>2, <1>3, <1>4, <1>5, Zenon

LEMMA DigitsBelow ==
  ASSUME NEW base \in Bases, NEW v \in Nat
  PROVE  /\ Digits(base, v) \in Seq(0..(base - 1)) /\ Len(Digits(base, v)) = 4
         /\ \A i \in 1..4 : Digits(base, v)[i] \in 0..(base - 1)
<1> DEFINE e == Digits(base, v)
<1>0. PICK a, b, c \in Nat : \E d1, d2, d3, d4 \in 0..(base - 1) :
           /\ v = base * a + d1 /\ a = base * b + d2 /\ b = base * c + d3
           /\ c < base => d4 = c
           /\ e = <<d1, d2, d3, d4>>
  BY DigitsAre, Zenon
<1>1. PICK d1, d2, d3, d4 \in 0..(base - 1) : e = <<d1, d2, d3, d4>>
  BY <1>0, Zenon
<1>2. <<d1, d2, d3, d4>> \in Seq(0..(base - 1)) /\ Len(<<d1, d2, d3, d4>>) = 4
  OBVIOUS
<1>3. \A i \in 1..4 : <<d1, d2, d3, d4>>[i] \in 0..(base - 1)
  BY <1>2, ElementOfSeq
<1> QED
  BY <1>1, <1>2, <1>3, Zenon

LEMMA Fixed32Is ==
  ASSUME NEW v \in Nat
  PROVE  Fixed32(v) \in Seq(Byte) /\ Len(Fixed32(v)) = 4
<1>0. 256 \in Bases
  BY BasesAre
<1>1. Fixed32(v) \in Seq(0..(256 - 1)) /\ Len(Fixed32(v)) = 4
  BY <1>0, DigitsBelow, ZenonT(40) DEF Fixed32
<1>2. 0..(256 - 1) = Byte
  BY DEF Byte
<1> QED
  BY <1>1, <1>2, Zenon

LEMMA VarintIs ==
  ASSUME NEW v \in Nat, v < Huge
  PROVE  /\ Varint(v) \in Seq(Byte) /\ Len(Varint(v)) = VarintSize(v)
         /\ \A i \in 1..VarintSize(v) :
              /\ Varint(v)[i] % 128 = Digits(128, v)[i]
              /\ Varint(v)[i] < 128 <=> i = VarintSize(v)
<1> DEFINE n == VarintSize(v)
           f == Varint(v)
           d == Digits(128, v)
<1>1. n \in 1..4
  BY VarintSizeIs
<1>2. f = [i \in 1..n |-> d[i] + IF i < n THEN 128 ELSE 0]
  BY DEF Varint
<1>0. 128 \in Bases
  BY BasesAre
<1>3. \A i \in 1..4 : d[i] \in 0..(128 - 1)
  BY <1>0, DigitsBelow
<1> HIDE DEF n, f, d
<1>4. ASSUME NEW i \in 1..n
      PROVE f[i] \in Byte /\ f[i] % 128 = d[i] /\ (f[i] < 128 <=> i = n)
  <2>1. f[i] = d[i] + IF i < n THEN 128 ELSE 0
    BY <1>2
  <2>2. n \in Nat /\ i \in 1..4 /\ d[i] \in 0..127
    BY <1>1, <1>3
  <2>3. \A x \in 0..127 : x % 128 = x /\ (x + 128) % 128 = x
    BY SMT
  <2> QED
    BY <2>1, <2>2, <2>3, SMT DEF Byte
<1>5. f \in [1..n -> Byte]
  BY <1>2, <1>4
<1>6. f \in Seq(Byte) /\ Len(f) = n
  BY <1>1, <1>5, SeqOver
<1> QED
  BY <1>4, <1>6 DEF n, f, d

\* The digits that Number sees.
LEMMA DigitsOf ==
  ASSUME NEW base \in Bases, NEW s \in Seq(Byte), NEW i \in Nat \ {0}
  PROVE  (IF i <= Len(s) THEN s[i] % base ELSE 0) \in 0..(base - 1)
<1>1. Len(s) \in Nat /\ base \in Nat /\ base > 1
  BY LenProperties, BasesAre
<1>2. CASE i <= Len(s)
  <2>1. s[i] \in Byte
    BY <1>1, <1>2, ElementOfSeq
  <2>2. s[i] \in Nat
    BY <2>1, BytesAreNat, Zenon
  <2>3. s[i] % base \in 0..(base - 1)
    BY <2>2, Divided, Zenon
  <2> QED
    BY <1>2, <2>3, Zenon
<1>3. CASE ~(i <= Len(s))
  BY <1>1, <1>3
<1> QED
  BY <1>2, <1>3, Zenon

LEMMA NumberIsNat ==
  ASSUME NEW base \in Bases, NEW s \in Seq(Byte)
  PROVE  Number(base, s) \in Nat
<1> DEFINE d(i) == IF i <= Len(s) THEN s[i] % base ELSE 0
           low == d(1) + base * (d(2) + base * d(3))
           rest == base * base * base
<1>1. d(1) \in 0..(base - 1) /\ d(2) \in 0..(base - 1) /\ d(3) \in 0..(base - 1)
      /\ d(4) \in 0..(base - 1)
  <2>1. 1 \in Nat \ {0} /\ 2 \in Nat \ {0} /\ 3 \in Nat \ {0} /\ 4 \in Nat \ {0}
    OBVIOUS
  <2> QED
    BY <2>1, DigitsOf, Zenon
<1>2. Number(base, s) = IF d(4) < Huge \div rest /\ \A i \in 5..Len(s) : d(i) = 0
                        THEN low + rest * d(4) ELSE Huge + low
  BY DEF Number
<1> HIDE DEF d
<1>3. base \in Nat
  BY BasesAre
<1>4. low \in Nat /\ rest * d(4) \in Nat
  <2> DEFINE w == base * base * base
  <2>1. base * d(3) \in Nat /\ w \in Nat /\ d(1) \in Nat /\ d(2) \in Nat /\ d(4) \in Nat
    BY <1>1, <1>3, SMT
  <2> DEFINE x == d(2) + base * d(3)
  <2>2. x \in Nat
    BY <2>1
  <2> HIDE DEF w, x
  <2>3. base * x \in Nat /\ w * d(4) \in Nat
    BY <1>3, <2>1, <2>2, SMT
  <2> DEFINE y == base * x
  <2>4. d(1) + y \in Nat
    BY <2>1, <2>3
  <2> QED
    BY <2>3, <2>4 DEF w, x
<1>5. Huge \in Nat
  BY Powers, SMT
<1> HIDE DEF low, rest
<1>6. low + rest * d(4) \in Nat /\ Huge + low \in Nat
  BY <1>4, <1>5
<1> QED
  BY <1>2, <1>6, Zenon

\* A number is what its digits say.
LEMMA NumberOf ==
  ASSUME NEW base \in Bases, NEW s \in Seq(Byte), NEW v \in Nat, v < Huge,
         Len(s) \in 1..4,
         \A i \in 1..Len(s) : s[i] % base = Digits(base, v)[i],
         \A i \in 1..4 : i > Len(s) => Digits(base, v)[i] = 0
  PROVE  Number(base, s) = v
<1> DEFINE d(i) == IF i <= Len(s) THEN s[i] % base ELSE 0
           e == Digits(base, v)
<1>1. \A i \in 1..4 : d(i) = e[i]
  <2> TAKE i \in 1..4
  <2>1. CASE i <= Len(s)
    <3>1. i \in 1..Len(s)
      BY <2>1
    <3> QED
      BY <2>1, <3>1, Zenon
  <2>2. CASE ~(i <= Len(s))
    <3>1. i > Len(s)
      BY <2>2
    <3> QED
      BY <2>2, <3>1, Zenon
  <2> QED
    BY <2>1, <2>2, Zenon
<1>2. \A i \in 5..Len(s) : d(i) = 0
  <2>1. 5..Len(s) = {}
    OBVIOUS
  <2> QED
    BY <2>1
<1>3. Number(base, s) =
        IF d(4) < Huge \div (base * base * base) /\ \A i \in 5..Len(s) : d(i) = 0
        THEN d(1) + base * (d(2) + base * d(3)) + base * base * base * d(4)
        ELSE Huge + (d(1) + base * (d(2) + base * d(3)))
  BY DEF Number
<1>4. PICK a, b, c \in Nat : \E d1, d2, d3, d4 \in 0..(base - 1) :
           /\ v = base * a + d1 /\ a = base * b + d2 /\ b = base * c + d3
           /\ c < base => d4 = c
           /\ e = <<d1, d2, d3, d4>>
  BY DigitsAre, Zenon
<1>5. PICK d1, d2, d3, d4 \in 0..(base - 1) :
           /\ v = base * a + d1 /\ a = base * b + d2 /\ b = base * c + d3
           /\ c < base => d4 = c
           /\ e = <<d1, d2, d3, d4>>
  BY <1>4, Zenon
<1> HIDE DEF d, e
<1>6. d(1) = d1 /\ d(2) = d2 /\ d(3) = d3 /\ d(4) = d4
  BY <1>1, <1>5
<1>7. CASE base = 128
  <2>1. /\ v = 128 * a + d1 /\ a = 128 * b + d2 /\ b = 128 * c + d3
        /\ d1 \in 0..127 /\ d2 \in 0..127 /\ d3 \in 0..127
    BY <1>5, <1>7
  <2>2. c < 128
    BY <2>1, Powers, SMT
  <2>3. Huge \div (128 * 128 * 128) = 128
    BY Powers, SMT
  <2>4. d(4) = c /\ c < 128
    BY <1>5, <1>6, <1>7, <2>2
  <2>5. Number(base, s) = d1 + 128 * (d2 + 128 * d3) + 128 * 128 * 128 * c
    BY <1>2, <1>3, <1>6, <1>7, <2>3, <2>4
  <2> QED
    BY <2>1, <2>5, SMT
<1>8. CASE base = 256
  <2>1. /\ v = 256 * a + d1 /\ a = 256 * b + d2 /\ b = 256 * c + d3
        /\ d1 \in 0..255 /\ d2 \in 0..255 /\ d3 \in 0..255
    BY <1>5, <1>8
  <2>2. c < 16
    BY <2>1, Powers, SMT
  <2>3. Huge \div (256 * 256 * 256) = 16
    BY Powers, SMT
  <2>4. d(4) = c /\ c < 16
    BY <1>5, <1>6, <1>8, <2>2
  <2>5. Number(base, s) = d1 + 256 * (d2 + 256 * d3) + 256 * 256 * 256 * c
    BY <1>2, <1>3, <1>6, <1>8, <2>3, <2>4
  <2> QED
    BY <2>1, <2>5, SMT
<1>9. base = 128 \/ base = 256
  BY BasesAre
<1> QED
  BY <1>7, <1>8, <1>9, Zenon

\* Read back, a varint and a length are the number that was written.
LEMMA VarintRead ==
  ASSUME NEW v \in Nat, v < Huge
  PROVE  Number(128, Varint(v)) = v
<1> DEFINE n == VarintSize(v)
           s == Varint(v)
           d == Digits(128, v)
<1>1. /\ n \in 1..4 /\ Len(s) = n /\ s \in Seq(Byte)
      /\ \A i \in 1..n : s[i] % 128 = d[i]
  BY VarintSizeIs, VarintIs
<1>2. /\ n = 1 => v < 128
      /\ n = 2 => v < 16384
      /\ n = 3 => v < 2097152
  <2>1. v < 128^n
    BY VarintSizeIs
  <2> HIDE DEF n
  <2>2. CASE n = 1
    BY <2>1, <2>2, Powers, SMT
  <2>3. CASE n = 2
    BY <2>1, <2>3, Powers, SMT
  <2>4. CASE n = 3
    BY <2>1, <2>4, Powers, SMT
  <2> QED
    BY <1>1, <2>2, <2>3, <2>4, SMT
<1>3. PICK a, b, c \in Nat : \E d1, d2, d3, d4 \in 0..(128 - 1) :
           /\ v = 128 * a + d1 /\ a = 128 * b + d2 /\ b = 128 * c + d3
           /\ c < 128 => d4 = c
           /\ d = <<d1, d2, d3, d4>>
  <2>1. 128 \in Bases
    BY BasesAre
  <2> HIDE DEF n, s
  <2> QED
    BY <2>1, DigitsAre, ZenonT(40)
<1>4. PICK d1, d2, d3, d4 \in 0..(128 - 1) :
           /\ v = 128 * a + d1 /\ a = 128 * b + d2 /\ b = 128 * c + d3
           /\ c < 128 => d4 = c
           /\ d = <<d1, d2, d3, d4>>
  BY <1>3, Zenon
<1> HIDE DEF n, s, d
<1>5. /\ n = 1 => d2 = 0 /\ d3 = 0 /\ d4 = 0
      /\ n = 2 => d3 = 0 /\ d4 = 0
      /\ n = 3 => d4 = 0
  BY <1>2, <1>4, SMT
<1>6. \A i \in 1..4 : i > n => d[i] = 0
  <2> TAKE i \in 1..4
  <2> HAVE i > n
  <2>1. i \in {2, 3, 4} /\ n \in {1, 2, 3} /\ n < i
    BY <1>1
  <2>2. d[2] = d2 /\ d[3] = d3 /\ d[4] = d4
    BY <1>4
  <2> QED
    BY <1>5, <2>1, <2>2
<1>7. \A i \in 1..Len(s) : s[i] % 128 = d[i]
  BY <1>1, Zenon
<1>8. \A i \in 1..4 : i > Len(s) => d[i] = 0
  BY <1>1, <1>6, Zenon
<1>9. Len(s) \in 1..4 /\ s \in Seq(Byte)
  BY <1>1, Zenon
<1>10. 128 \in Bases
  BY BasesAre
<1>11. Number(128, s) = v
  BY <1>7, <1>8, <1>9, <1>10, NumberOf DEF d
<1> QED
  BY <1>11 DEF s

LEMMA LengthRead ==
  ASSUME NEW v \in Nat, v < Huge
  PROVE  Number(256, Fixed32(v)) = v
<1> DEFINE s == Fixed32(v)
           d == Digits(256, v)
<1>1. s \in Seq(Byte) /\ Len(s) = 4 /\ s = d
  BY Fixed32Is DEF Fixed32
<1>0. 256 \in Bases
  BY BasesAre
<1>2. \A i \in 1..4 : d[i] \in 0..(256 - 1)
  BY <1>0, DigitsBelow, ZenonT(40)
<1> HIDE DEF s, d
<1>3. \A i \in 1..4 : s[i] % 256 = d[i]
  <2>1. \A x \in 0..(256 - 1) : x % 256 = x
    BY SMT
  <2> QED
    BY <1>1, <1>2, <2>1
<1>4. Len(s) \in 1..4 /\ \A i \in 1..4 : i > Len(s) => d[i] = 0
  BY <1>1
<1>5. \A i \in 1..Len(s) : s[i] % 256 = d[i]
  BY <1>1, <1>3, Zenon
<1>6. Number(256, s) = v
  BY <1>0, <1>1, <1>4, <1>5, NumberOf DEF d
<1> QED
  BY <1>6 DEF s

-----------------------------------------------------------------------------
(* One place of the bytes that are read.                                     *)

\* A field of the wire type 0 has a number, one of the type 2 bytes.
Fields ==
  {f \in Nat \X (Nat \cup Seq(Byte)) :
     (f[1] % 8 = 0 => f[2] \in Nat) /\ (f[1] % 8 # 0 => f[2] \in Seq(Byte))}

LEMMA AvailableIs ==
  ASSUME NEW s \in Seq(Byte), NEW limit \in Nat
  PROVE  /\ Len(s) \in Nat /\ Available(s, limit) \in Nat
         /\ Available(s, limit) <= limit /\ Available(s, limit) <= Len(s)
         /\ Available(s, limit) = limit \/ Available(s, limit) = Len(s)
<1>1. Len(s) \in Nat
  BY LenProperties
<1> QED
  BY <1>1 DEF Available

\* What is cut out of bytes is bytes.
LEMMA CutOut ==
  ASSUME NEW s \in Seq(Byte), NEW q \in Nat \ {0}, NEW n \in 0..Len(s)
  PROVE  SubSeq(s, q, n) \in Seq(Byte)
<1>1. Len(s) \in Nat
  BY LenProperties
<1>2. \A i \in q..n : s[i] \in Byte
  <2> TAKE i \in q..n
  <2>1. i \in 1..Len(s)
    BY <1>1
  <2> QED
    BY <2>1, ElementOfSeq
<1>3. q \in Int /\ n \in Int
  BY <1>1
<1> QED
  BY <1>2, <1>3, SubSeqProperties

LEMMA EndIs ==
  ASSUME NEW s \in Seq(Byte), NEW n \in 0..Len(s), NEW q \in Nat \ {0}, Ends(s, n, q) # {}
  PROVE  End(s, n, q) \in q..n /\ VarintAt(s, n, q) \in Nat
<1>1. Len(s) \in Nat
  BY LenProperties
<1>2. Ends(s, n, q) \in SUBSET (q..n)
  BY DEF Ends
<1>3. Ends(s, n, q) \in SUBSET Nat
  BY <1>1, <1>2
<1>4. End(s, n, q) \in q..n
  BY <1>2, <1>3, MinIs DEF End
<1>5. End(s, n, q) \in 0..Len(s)
  BY <1>1, <1>4
<1>6. 128 \in Bases
  BY BasesAre
<1>7. SubSeq(s, q, End(s, n, q)) \in Seq(Byte)
  BY <1>5, CutOut
<1>8. VarintAt(s, n, q) \in Nat
  BY <1>6, <1>7, NumberIsNat DEF VarintAt
<1> QED
  BY <1>4, <1>8

\* The arms of Meets.
LEMMA MeetsStops ==
  ASSUME NEW s, NEW limit \in Nat, NEW p \in Nat
  PROVE  /\ p > limit => Meets(s, limit, p) = Stop("done", limit)
         /\ p <= limit /\ Ends(s, Available(s, limit), p) = {} =>
              Meets(s, limit, p) = Stop(Missing(s, limit), Available(s, limit))
BY DEF Meets

LEMMA MeetsTag ==
  ASSUME NEW s, NEW limit \in Nat, NEW p \in Nat, p <= limit,
         Ends(s, Available(s, limit), p) # {}
  PROVE  LET here == Available(s, limit)
             tag == VarintAt(s, here, p)
             q == End(s, here, p)
         IN /\ Kind(tag) \in {3, 4, 6, 7} => Meets(s, limit, p) = Stop("error", q)
            /\ Kind(tag) = 1 => Meets(s, limit, p) = Raw(s, limit, tag, q, 8)
            /\ Kind(tag) = 5 => Meets(s, limit, p) = Raw(s, limit, tag, q, 4)
            /\ Kind(tag) \in {0, 2} /\ Ends(s, here, q + 1) = {} =>
                 Meets(s, limit, p) = Stop(Missing(s, limit), here)
            /\ Kind(tag) = 0 /\ Ends(s, here, q + 1) # {} =>
                 Meets(s, limit, p) =
                   Field(End(s, here, q + 1), tag, VarintAt(s, here, q + 1))
            /\ Kind(tag) = 2 /\ Ends(s, here, q + 1) # {} =>
                 Meets(s, limit, p) =
                   Raw(s, limit, tag, End(s, here, q + 1), VarintAt(s, here, q + 1))
<1> DEFINE here == Available(s, limit)
           missing == Missing(s, limit)
           tag == VarintAt(s, here, p)
           kind == Kind(tag)
           q == End(s, here, p)
           next == Meets(s, limit, p)
           second == Ends(s, here, q + 1)
           value == VarintAt(s, here, q + 1)
           last == End(s, here, q + 1)
           first == Ends(s, here, p)
           arm == CASE kind \in {3, 4, 6, 7} -> Stop("error", q)
                    [] kind = 1 -> Raw(s, limit, tag, q, 8)
                    [] kind = 5 -> Raw(s, limit, tag, q, 4)
                    [] kind \in {0, 2} /\ second = {} -> Stop(missing, here)
                    [] kind = 0 /\ second # {} -> Field(last, tag, value)
                    [] kind = 2 /\ second # {} -> Raw(s, limit, tag, last, value)
<1>0. next = CASE p > limit -> Stop("done", limit)
               [] p <= limit /\ first = {} -> Stop(missing, here)
               [] OTHER -> arm
  BY DEF Meets
<1>1. next = arm
  <2>1. ~(p > limit) /\ first # {}
    OBVIOUS
  <2> HIDE DEF first, arm, next, here, missing
  <2> QED
    BY <1>0, <2>1
<1> HIDE DEF here, missing, tag, q, kind, next, second, value, last
<1>2. ASSUME kind \in {3, 4, 6, 7} PROVE next = Stop("error", q)
  BY <1>1, <1>2
<1>3. ASSUME kind = 1 PROVE next = Raw(s, limit, tag, q, 8)
  BY <1>1, <1>3
<1>4. ASSUME kind = 5 PROVE next = Raw(s, limit, tag, q, 4)
  BY <1>1, <1>4
<1>5. ASSUME kind \in {0, 2}, second = {} PROVE next = Stop(missing, here)
  BY <1>1, <1>5
<1>6. ASSUME kind = 0, second # {} PROVE next = Field(last, tag, value)
  BY <1>1, <1>6
<1>7. ASSUME kind = 2, second # {} PROVE next = Raw(s, limit, tag, last, value)
  BY <1>1, <1>7
<1> QED
  BY <1>2, <1>3, <1>4, <1>5, <1>6, <1>7
     DEF here, missing, tag, q, kind, next, second, value, last

\* What is met at a place is a field that ends behind it and within the limit, or
\* the end, or an error, or something is not there yet.
MetWell(s, limit, p, next) ==
  LET here == Available(s, limit) IN
  \/ /\ next.how = "field" /\ next.used \in p..here /\ next.field \in Fields
  \/ /\ next.how = "done" /\ p > limit /\ next.used = limit
  \/ /\ next.how = "error" /\ next.used \in 0..here
  \/ /\ next.how = "wait" /\ here < limit /\ next.used \in 0..here

LEMMA StopIs ==
  ASSUME NEW how, NEW used
  PROVE  Stop(how, used).how = how /\ Stop(how, used).used = used
BY DEF Stop

LEMMA FieldIs ==
  ASSUME NEW used, NEW tag, NEW value
  PROVE  /\ Field(used, tag, value).how = "field" /\ Field(used, tag, value).used = used
         /\ Field(used, tag, value).field = <<tag, value>>
BY DEF Field

LEMMA RawIsWell ==
  ASSUME NEW s \in Seq(Byte), NEW limit \in Nat, NEW p \in Nat \ {0},
         NEW tag \in Nat, tag % 8 # 0, NEW q \in p..Available(s, limit), NEW n \in Nat
  PROVE  MetWell(s, limit, p, Raw(s, limit, tag, q, n))
<1> DEFINE here == Available(s, limit)
           next == Raw(s, limit, tag, q, n)
<1>1. /\ here \in Nat /\ Len(s) \in Nat /\ here <= limit /\ here <= Len(s)
      /\ q \in Nat \ {0} /\ q <= here /\ p <= q
  BY AvailableIs
<1>2. CASE n > limit - q
  <2>1. next = Stop("error", q)
    BY <1>2 DEF Raw
  <2> QED
    BY <1>1, <2>1, StopIs DEF MetWell
<1>3. CASE ~(n > limit - q) /\ q + n > here
  <2>1. next = Stop("wait", 0)
    BY <1>3 DEF Raw
  <2>2. here < limit
    BY <1>1, <1>3
  <2>3. next.how = "wait" /\ next.used = 0
    BY <2>1, StopIs
  <2> HIDE DEF next
  <2>4. MetWell(s, limit, p, next)
    BY <1>1, <2>2, <2>3 DEF MetWell
  <2> QED
    BY <2>4 DEF next
<1>4. CASE ~(n > limit - q) /\ ~(q + n > here)
  <2> DEFINE v == SubSeq(s, q + 1, q + n)
  <2>1. next = Field(q + n, tag, v)
    BY <1>4 DEF Raw
  <2>2. q + n \in 0..Len(s) /\ q + 1 \in Nat \ {0} /\ q + n \in p..here
    BY <1>1, <1>4
  <2>3. SubSeq(s, q + 1, q + n) \in Seq(Byte)
    BY <2>2, CutOut
  <2>4. <<tag, v>> \in Fields
    <3> HIDE DEF v
    <3>1. v \in Seq(Byte)
      BY <2>3 DEF v
    <3> QED
      BY <3>1 DEF Fields
  <2> HIDE DEF next, v
  <2>5. next.how = "field" /\ next.used = q + n /\ next.field = <<tag, v>>
    BY <2>1, FieldIs
  <2>6. MetWell(s, limit, p, next)
    BY <2>2, <2>4, <2>5 DEF MetWell
  <2> QED
    BY <2>6 DEF next
<1> QED
  BY <1>2, <1>3, <1>4

LEMMA MissingIsWell ==
  ASSUME NEW s \in Seq(Byte), NEW limit \in Nat, NEW p \in Nat
  PROVE  MetWell(s, limit, p, Stop(Missing(s, limit), Available(s, limit)))
<1> DEFINE here == Available(s, limit)
           next == Stop(Missing(s, limit), here)
<1>1. here \in Nat
  BY AvailableIs
<1>2. next.how = Missing(s, limit) /\ next.used = here
  BY StopIs
<1>3. Missing(s, limit) = "error" \/ (Missing(s, limit) = "wait" /\ here < limit)
  BY DEF Missing
<1> HIDE DEF next
<1>4. MetWell(s, limit, p, next)
  BY <1>1, <1>2, <1>3 DEF MetWell
<1> QED
  BY <1>4 DEF next

LEMMA MeetsWell ==
  ASSUME NEW s \in Seq(Byte), NEW limit \in Nat, NEW p \in Nat \ {0}
  PROVE  MetWell(s, limit, p, Meets(s, limit, p))
<1> DEFINE here == Available(s, limit)
           tag == VarintAt(s, here, p)
           q == End(s, here, p)
           value == VarintAt(s, here, q + 1)
           last == End(s, here, q + 1)
           next == Meets(s, limit, p)
<1> SUFFICES MetWell(s, limit, p, next)
  OBVIOUS
<1>1. /\ here \in Nat /\ Len(s) \in Nat /\ here <= limit /\ here <= Len(s)
  BY AvailableIs
<1>2. CASE p > limit
  <2>1. next = Stop("done", limit)
    BY <1>2, MeetsStops
  <2> QED
    BY <1>2, <2>1, StopIs DEF MetWell
<1>3. CASE p <= limit /\ Ends(s, here, p) = {}
  BY <1>3, MeetsStops, MissingIsWell
<1>4. CASE p <= limit /\ Ends(s, here, p) # {}
  <2>1. q \in p..here /\ tag \in Nat
    BY <1>1, <1>4, EndIs
  <2>2. /\ Kind(tag) \in {3, 4, 6, 7} => next = Stop("error", q)
        /\ Kind(tag) = 1 => next = Raw(s, limit, tag, q, 8)
        /\ Kind(tag) = 5 => next = Raw(s, limit, tag, q, 4)
        /\ Kind(tag) \in {0, 2} /\ Ends(s, here, q + 1) = {} =>
             next = Stop(Missing(s, limit), here)
        /\ Kind(tag) = 0 /\ Ends(s, here, q + 1) # {} => next = Field(last, tag, value)
        /\ Kind(tag) = 2 /\ Ends(s, here, q + 1) # {} => next = Raw(s, limit, tag, last, value)
    BY <1>4, MeetsTag, Zenon
  <2>3. ASSUME Ends(s, here, q + 1) # {}
        PROVE  last \in p..here /\ value \in Nat
    <3>1. q + 1 \in Nat \ {0} /\ q + 1 > p
      BY <1>1, <2>1
    <3>2. here \in 0..Len(s)
      BY <1>1
    <3> HIDE DEF q, here
    <3>3. last \in (q + 1)..here /\ value \in Nat
      BY <2>3, <3>1, <3>2, EndIs
    <3> QED
      BY <1>1, <3>1, <3>3
  <2> HIDE DEF here, tag, q, value, last, next
  <2>4. Kind(tag) \in 0..7 /\ (Kind(tag) # 7 => Kind(tag) = tag % 8)
    BY <2>1 DEF Kind
  <2>5. CASE Kind(tag) \in {3, 4, 6, 7}
    <3>1. q \in 0..here
      BY <1>1, <2>1
    <3>2. next.how = "error" /\ next.used = q
      BY <2>2, <2>5, StopIs
    <3> QED
      BY <3>1, <3>2 DEF MetWell, here
  <2>6. CASE Kind(tag) = 1 \/ Kind(tag) = 5
    <3>1. tag \in Nat /\ tag % 8 # 0 /\ q \in p..Available(s, limit)
      BY <2>1, <2>4, <2>6 DEF here
    <3>2. next = Raw(s, limit, tag, q, 8) \/ next = Raw(s, limit, tag, q, 4)
      BY <2>2, <2>6
    <3>3. 8 \in Nat /\ 4 \in Nat
      OBVIOUS
    <3> QED
      BY <3>1, <3>2, <3>3, RawIsWell
  <2>7. CASE Kind(tag) \in {0, 2} /\ Ends(s, here, q + 1) = {}
    BY <2>2, <2>7, MissingIsWell DEF here
  <2>8. CASE Kind(tag) = 0 /\ Ends(s, here, q + 1) # {}
    <3>1. tag \in Nat /\ tag % 8 = 0 /\ value \in Nat /\ last \in p..here
      BY <2>1, <2>3, <2>4, <2>8
    <3>2. <<tag, value>> \in Fields
      BY <3>1 DEF Fields
    <3>3. next.how = "field" /\ next.used = last /\ next.field = <<tag, value>>
      BY <2>2, <2>8, FieldIs
    <3> QED
      BY <3>1, <3>2, <3>3 DEF MetWell, here
  <2>9. CASE Kind(tag) = 2 /\ Ends(s, here, q + 1) # {}
    <3>1. tag \in Nat /\ tag % 8 # 0 /\ value \in Nat /\ last \in p..Available(s, limit)
      BY <2>1, <2>3, <2>4, <2>9 DEF here
    <3> QED
      BY <2>2, <2>9, <3>1, RawIsWell
  <2>10. \/ Kind(tag) \in {3, 4, 6, 7} \/ Kind(tag) = 1 \/ Kind(tag) = 5
         \/ Kind(tag) \in {0, 2}
    BY <2>4
  <2> QED
    BY <2>5, <2>6, <2>7, <2>8, <2>9, <2>10
<1> QED
  BY <1>1, <1>2, <1>3, <1>4

-----------------------------------------------------------------------------
(* What is read from a place to the end.                                     *)

LEMMA OnwardIs ==
  ASSUME NEW next, NEW f
  PROVE  /\ next.how # "field" =>
              Onward(next, f) = [how |-> next.how, used |-> next.used, fields |-> <<>>]
         /\ next.how = "field" =>
              Onward(next, f) = [how |-> f[next.used + 1].how, used |-> f[next.used + 1].used,
                                 fields |-> <<next.field>> \o f[next.used + 1].fields]
BY DEF Onward

\* A function that says of a place what it says of places behind it exists.
LEMMA Recursion ==
  ASSUME NEW n \in Nat, NEW M,
         \A p \in 1..n : M[p].how = "field" => M[p].used + 1 \in (p + 1)..n
  PROVE  \E f : f = [p \in 1..n |-> Onward(M[p], f)]
<1> DEFINE Upper(k) == (n + 1 - k)..n
           T == {k \in 0..n : \E f : f = [p \in Upper(k) |-> Onward(M[p], f)]}
           U == T \cup {k \in Nat : k > n}
<1>1. 0 \in U
  <2> DEFINE f == [p \in Upper(0) |-> 0]
  <2>1. Upper(0) = {}
    OBVIOUS
  <2>2. f = [p \in Upper(0) |-> Onward(M[p], f)]
    BY <2>1
  <2> HIDE DEF f
  <2> QED
    BY <2>2
<1>2. ASSUME NEW k \in Nat, k \in U PROVE k + 1 \in U
  <2>1. CASE k >= n
    BY <2>1
  <2>2. CASE k < n
    <3>1. k \in T
      BY <1>2, <2>2
    <3>2. PICK f : f = [p \in Upper(k) |-> Onward(M[p], f)]
      BY <3>1
    <3> DEFINE q == n - k
               g == [p \in Upper(k + 1) |-> IF p = q THEN Onward(M[q], f) ELSE f[p]]
    <3>3. /\ q \in 1..n /\ q \in Upper(k + 1) /\ q \notin Upper(k)
          /\ Upper(k + 1) = Upper(k) \cup {q} /\ Upper(k + 1) \subseteq 1..n
      BY <2>2
    <3> HIDE DEF Upper, q
    <3>4. \A p \in Upper(k) : g[p] = f[p] /\ f[p] = Onward(M[p], f)
      BY <3>2, <3>3
    <3>5. g[q] = Onward(M[q], f)
      BY <3>3
    <3>6. ASSUME NEW p \in Upper(k + 1) PROVE Onward(M[p], f) = Onward(M[p], g)
      <4>1. CASE M[p].how # "field"
        BY <4>1, OnwardIs
      <4>2. CASE M[p].how = "field"
        <5>1. p \in 1..n /\ M[p].used + 1 \in (p + 1)..n
          BY <3>3, <4>2
        <5>2. M[p].used + 1 \in Upper(k)
          BY <5>1, <2>2 DEF Upper
        <5>3. g[M[p].used + 1] = f[M[p].used + 1]
          BY <3>4, <5>2
        <5> HIDE DEF g
        <5> QED
          BY <4>2, <5>3, OnwardIs, ZenonT(40)
      <4> QED
        BY <4>1, <4>2
    <3>7. \A p \in Upper(k + 1) : g[p] = Onward(M[p], g)
      <4> HIDE DEF g
      <4> QED
        BY <3>3, <3>4, <3>5, <3>6
    <3>8. DOMAIN g = Upper(k + 1) /\ g = [p \in Upper(k + 1) |-> g[p]]
      OBVIOUS
    <3>9. g = [p \in Upper(k + 1) |-> Onward(M[p], g)]
      <4> HIDE DEF g
      <4> QED
        BY <3>7, <3>8
    <3> HIDE DEF g
    <3>10. k + 1 \in 0..n
      BY <2>2
    <3> QED
      BY <3>9, <3>10
  <2> QED
    BY <2>1, <2>2
<1>3. U \in SUBSET Nat
  OBVIOUS
<1> HIDE DEF U
<1>4. U = Nat
  BY <1>1, <1>2, <1>3, Induction
<1>5. n \in T
  BY <1>4 DEF U
<1>6. Upper(n) = 1..n
  OBVIOUS
<1> HIDE DEF Upper
<1> QED
  BY <1>5, <1>6

LEMMA ScanIs ==
  ASSUME NEW s \in Seq(Byte), NEW limit \in Nat
  PROVE  \E f : /\ Scan(s, limit) = f[1]
                /\ \A p \in 1..(Len(s) + 1) : f[p] = Onward(Meets(s, limit, p), f)
<1> DEFINE n == Len(s) + 1
           M == [p \in 1..n |-> Meets(s, limit, p)]
           from == CHOOSE f : f = [p \in 1..(Len(s) + 1) |-> Onward(Meets(s, limit, p), f)]
<1>1. Scan(s, limit) = from[1]
  BY DEF Scan
<1>2. \E f : f = [p \in 1..n |-> Onward(M[p], f)]
  <2>1. n \in Nat /\ Len(s) \in Nat
    BY LenProperties
  <2>2. ASSUME NEW p \in 1..n, M[p].how = "field" PROVE M[p].used + 1 \in (p + 1)..n
    <3>1. p \in Nat \ {0}
      BY <2>1
    <3>2. MetWell(s, limit, p, M[p])
      BY <3>1, MeetsWell
    <3> HIDE DEF M
    <3>3. M[p].used \in p..Available(s, limit)
      BY <2>2, <3>2 DEF MetWell
    <3>4. Available(s, limit) \in Nat /\ Available(s, limit) <= Len(s)
      BY AvailableIs
    <3> DEFINE used == M[p].used
    <3> HIDE DEF used
    <3>5. used \in p..Available(s, limit)
      BY <3>3 DEF used
    <3>6. used + 1 \in (p + 1)..n
      BY <2>1, <3>1, <3>4, <3>5
    <3> QED
      BY <3>6 DEF used
  <2> HIDE DEF n, M
  <2> QED
    BY <2>1, <2>2, Recursion
<1>3. PICK f : f = [p \in 1..n |-> Onward(M[p], f)]
  BY <1>2
<1>4. [p \in 1..n |-> Onward(M[p], f)] = [p \in 1..(Len(s) + 1) |-> Onward(Meets(s, limit, p), f)]
  OBVIOUS
<1>5. f = [p \in 1..(Len(s) + 1) |-> Onward(Meets(s, limit, p), f)]
  BY <1>3, <1>4, Zenon
<1>6. from = [p \in 1..(Len(s) + 1) |-> Onward(Meets(s, limit, p), from)]
  BY <1>5, Zenon
<1> HIDE DEF from
<1>7. \A p \in 1..(Len(s) + 1) : from[p] = Onward(Meets(s, limit, p), from)
  BY <1>6
<1> QED
  BY <1>1, <1>7

\* Reading ends with the limit, with an error or for want of bytes, and never
\* behind the bytes that are there.
ReadWell(s, limit, scan) ==
  LET here == Available(s, limit) IN
  /\ scan.fields \in Seq(Fields)
  /\ \/ scan.how = "done" /\ scan.used = limit /\ here = limit
     \/ scan.how = "error" /\ scan.used \in 0..here
     \/ scan.how = "wait" /\ here < limit /\ scan.used \in 0..here

LEMMA OnwardIsWell ==
  ASSUME NEW s \in Seq(Byte), NEW limit \in Nat, NEW f, NEW next,
         NEW p \in 1..(Available(s, limit) + 1), MetWell(s, limit, p, next),
         next.how = "field" => ReadWell(s, limit, f[next.used + 1])
  PROVE  ReadWell(s, limit, Onward(next, f))
<1> DEFINE here == Available(s, limit)
           scan == Onward(next, f)
<1>1. here \in Nat /\ here <= limit
  BY AvailableIs
<1>2. CASE next.how = "field"
  <2> DEFINE rest == f[next.used + 1]
  <2>1. ReadWell(s, limit, rest) /\ next.field \in Fields
    BY <1>2 DEF MetWell
  <2>2. scan = [how |-> rest.how, used |-> rest.used, fields |-> <<next.field>> \o rest.fields]
    BY <1>2, OnwardIs
  <2> HIDE DEF scan, rest
  <2>3. scan.how = rest.how /\ scan.used = rest.used
        /\ scan.fields = <<next.field>> \o rest.fields
    BY <2>2
  <2>4. rest.fields \in Seq(Fields) /\ <<next.field>> \in Seq(Fields)
    BY <2>1 DEF ReadWell
  <2>5. scan.fields \in Seq(Fields)
    BY <2>3, <2>4, ConcatProperties
  <2> QED
    BY <2>1, <2>3, <2>5 DEF ReadWell, scan
<1>3. CASE next.how # "field"
  <2>1. scan = [how |-> next.how, used |-> next.used, fields |-> <<>>]
    BY <1>3, OnwardIs
  <2> HIDE DEF scan
  <2>2. scan.how = next.how /\ scan.used = next.used /\ scan.fields = <<>>
    BY <2>1
  <2>3. <<>> \in Seq(Fields)
    BY EmptySeq
  <2>4. p > limit => here = limit
    BY <1>1
  <2> HIDE DEF here
  <2>5. ReadWell(s, limit, scan)
    BY <1>3, <2>2, <2>3, <2>4 DEF ReadWell, MetWell, here
  <2> QED
    BY <2>5 DEF scan
<1> QED
  BY <1>2, <1>3

\* Whatever the bytes and the limit: reading stops, within both.
THEOREM ScanWell ==
  ASSUME NEW s \in Seq(Byte), NEW limit \in Nat
  PROVE  ReadWell(s, limit, Scan(s, limit))
<1> DEFINE here == Available(s, limit)
<1>1. here \in Nat /\ Len(s) \in Nat /\ here <= Len(s)
  BY AvailableIs
<1>2. PICK f : /\ Scan(s, limit) = f[1]
               /\ \A p \in 1..(Len(s) + 1) : f[p] = Onward(Meets(s, limit, p), f)
  BY ScanIs
<1> DEFINE T == {k \in Nat : \A p \in 1..(here + 1) :
                               p + k > here + 1 => ReadWell(s, limit, f[p])}
<1>3. 0 \in T
  BY <1>1
<1>4. ASSUME NEW k \in Nat, k \in T PROVE k + 1 \in T
  <2>1. ASSUME NEW p \in 1..(here + 1), p + (k + 1) > here + 1
        PROVE  ReadWell(s, limit, f[p])
    <3> DEFINE next == Meets(s, limit, p)
    <3>1. p \in Nat \ {0} /\ p \in 1..(Len(s) + 1)
      BY <1>1
    <3>2. MetWell(s, limit, p, next)
      BY <3>1, MeetsWell
    <3>3. f[p] = Onward(next, f)
      BY <1>2, <3>1
    <3>4. ASSUME next.how = "field" PROVE ReadWell(s, limit, f[next.used + 1])
      <4> DEFINE q == next.used + 1
      <4> HIDE DEF next
      <4>1. next.used \in p..here
        BY <3>2, <3>4 DEF MetWell
      <4>2. q \in 1..(here + 1) /\ q + k > here + 1
        BY <1>1, <2>1, <3>1, <4>1
      <4> HIDE DEF q
      <4>3. ReadWell(s, limit, f[q])
        BY <1>4, <4>2
      <4> QED
        BY <4>3 DEF q
    <3> HIDE DEF next
    <3> QED
      BY <3>2, <3>3, <3>4, OnwardIsWell
  <2> QED
    BY <2>1
<1>5. T \in SUBSET Nat
  OBVIOUS
<1> HIDE DEF T
<1>6. T = Nat
  BY <1>3, <1>4, <1>5, Induction
<1>7. here + 1 \in T
  BY <1>1, <1>6
<1>8. 1 \in 1..(here + 1) /\ 1 + (here + 1) > here + 1
  BY <1>1
<1>9. ReadWell(s, limit, f[1])
  BY <1>7, <1>8 DEF T
<1> QED
  BY <1>2, <1>9

-----------------------------------------------------------------------------
(* Where the fields of a message are in its bytes.                           *)

LEMMA FlattenIs ==
  ASSUME NEW n \in Nat \ {0}, NEW w \in [1..n -> Seq(Byte)]
  PROVE  \E f : /\ FlattenSeq(w) = f[n]
                /\ f[1] = w[1] /\ \A i \in 2..n : f[i] = f[i - 1] \o w[i]
<1> DEFINE Up(k, f) == [i \in 1..k |-> IF i = 1 THEN w[i] ELSE f[i - 1] \o w[i]]
           T == {k \in 1..n : \E f : f = Up(k, f)}
           U == {k \in Nat : k + 1 \in T \/ k >= n}
<1>1. 0 \in U
  <2> DEFINE f == [i \in 1..1 |-> w[i]]
  <2>1. f = Up(1, f)
    OBVIOUS
  <2> HIDE DEF f, Up
  <2>2. 1 \in T
    BY <2>1
  <2> QED
    BY <2>2
<1> HIDE DEF T
<1>2. ASSUME NEW k \in Nat, k \in U PROVE k + 1 \in U
  <2>1. CASE k + 1 >= n
    BY <2>1
  <2>2. CASE k + 1 < n
    <3> DEFINE q == k + 2
    <3>0. k + 1 \in T
      BY <1>2, <2>2
    <3>1. PICK f : f = Up(k + 1, f)
      BY <3>0, Zenon DEF T
    <3> DEFINE g == [i \in 1..q |-> IF i = q THEN f[k + 1] \o w[q] ELSE f[i]]
    <3>2. \A i \in 1..(k + 1) : f[i] = IF i = 1 THEN w[i] ELSE f[i - 1] \o w[i]
      BY <3>1
    <3>3. ASSUME NEW i \in 1..q
          PROVE  g[i] = IF i = 1 THEN w[i] ELSE g[i - 1] \o w[i]
      <4>1. CASE i = q
        <5>0. k + 1 \in 1..q /\ k + 1 # q /\ i - 1 = k + 1 /\ i # 1
          BY <4>1
        <5> HIDE DEF q
        <5>1. g[i] = f[k + 1] \o w[i] /\ g[k + 1] = f[k + 1] /\ i - 1 = k + 1 /\ i # 1
          BY <4>1, <5>0
        <5> HIDE DEF g
        <5> QED
          BY <5>1
      <4>2. CASE i # q
        <5>1. i \in 1..(k + 1)
          BY <4>2
        <5>2. g[i] = f[i] /\ (i # 1 => i - 1 \in 1..(k + 1) /\ g[i - 1] = f[i - 1])
          BY <5>1
        <5>3. f[i] = IF i = 1 THEN w[i] ELSE f[i - 1] \o w[i]
          BY <3>2, <5>1
        <5> HIDE DEF g
        <5> QED
          BY <5>2, <5>3
      <4> QED
        BY <4>1, <4>2
    <3>4. g = [i \in 1..q |-> g[i]]
      OBVIOUS
    <3> HIDE DEF g
    <3>5. g = [i \in 1..q |-> IF i = 1 THEN w[i] ELSE g[i - 1] \o w[i]]
      BY <3>3, <3>4
    <3>6. q \in 1..n
      BY <2>2
    <3>7. q \in T
      BY <3>5, <3>6 DEF T
    <3>8. q = (k + 1) + 1
      OBVIOUS
    <3> HIDE DEF q
    <3> QED
      BY <3>7, <3>8
  <2>3. k + 1 >= n \/ k + 1 < n
    OBVIOUS
  <2> HIDE DEF U
  <2> QED
    BY <2>1, <2>2, <2>3
<1>3. U \in SUBSET Nat
  OBVIOUS
<1> HIDE DEF U
<1>4. U = Nat
  BY <1>1, <1>2, <1>3, Induction
<1>5. n \in T
  <2>1. n - 1 \in Nat /\ ~(n - 1 >= n) /\ (n - 1) + 1 = n
    OBVIOUS
  <2>2. n - 1 \in U
    BY <1>4, <2>1
  <2> QED
    BY <2>1, <2>2 DEF U
<1>6. w \in Seq(Seq(Byte)) /\ Len(w) = n
  BY SeqOver
<1> DEFINE flatten == CHOOSE f : f = [i \in 1..Len(w) |-> IF i = 1 THEN w[i] ELSE f[i - 1] \o w[i]]
<1>7. FlattenSeq(w) = flatten[n]
  <2>1. FlattenSeq(w) = IF Len(w) = 0 THEN w ELSE flatten[Len(w)]
    BY DEF FlattenSeq
  <2> HIDE DEF flatten
  <2> QED
    BY <1>6, <2>1
<1>8. PICK f : f = [i \in 1..n |-> IF i = 1 THEN w[i] ELSE f[i - 1] \o w[i]]
  BY <1>5 DEF T
<1>9. f = [i \in 1..Len(w) |-> IF i = 1 THEN w[i] ELSE f[i - 1] \o w[i]]
  BY <1>6, <1>8, Zenon
<1>10. flatten = [i \in 1..Len(w) |-> IF i = 1 THEN w[i] ELSE flatten[i - 1] \o w[i]]
  BY <1>9, Zenon
<1> HIDE DEF flatten
<1>11. \A i \in 1..n : flatten[i] = IF i = 1 THEN w[i] ELSE flatten[i - 1] \o w[i]
  BY <1>6, <1>10
<1>12. flatten[1] = w[1] /\ \A i \in 2..n : flatten[i] = flatten[i - 1] \o w[i]
  <2>1. 1 \in 1..n /\ \A i \in 2..n : i \in 1..n /\ i # 1
    OBVIOUS
  <2> QED
    BY <1>11, <2>1
<1> QED
  BY <1>7, <1>12

\* Each part lies behind the ones before it, from c of the one before on.
Lies(n, w, f, c) ==
  /\ c \in [0..n -> Nat] /\ c[0] = 0
  /\ f \in Seq(Byte) /\ Len(f) = c[n]
  /\ \A i \in 1..n :
       /\ c[i] = c[i - 1] + Len(w[i]) /\ c[i] <= c[n]
       /\ \A x \in 1..Len(w[i]) : f[c[i - 1] + x] = w[i][x]

LEMMA Layout ==
  ASSUME NEW n \in Nat \ {0}, NEW w \in [1..n -> Seq(Byte)]
  PROVE  \E c : Lies(n, w, FlattenSeq(w), c)
<1>1. PICK f : /\ FlattenSeq(w) = f[n]
               /\ f[1] = w[1] /\ \A i \in 2..n : f[i] = f[i - 1] \o w[i]
  BY FlattenIs
<1> DEFINE T == {k \in Nat : k + 1 <= n => \E c : Lies(k + 1, w, f[k + 1], c)}
<1>2. \A i \in 1..n : w[i] \in Seq(Byte) /\ Len(w[i]) \in Nat
  BY LenProperties
<1>3. 0 \in T
  <2> DEFINE c == [i \in 0..1 |-> IF i = 0 THEN 0 ELSE Len(w[1])]
  <2>1. 1 \in 1..n
    OBVIOUS
  <2>2. c \in [0..1 -> Nat] /\ c[0] = 0 /\ c[1] = Len(w[1])
    BY <1>2, <2>1
  <2> HIDE DEF c
  <2>3. Lies(1, w, f[1], c)
    BY <1>1, <1>2, <2>1, <2>2 DEF Lies
  <2> QED
    BY <2>3
<1>4. ASSUME NEW k \in Nat, k \in T PROVE k + 1 \in T
  <2> SUFFICES ASSUME k + 2 <= n PROVE \E c : Lies(k + 2, w, f[k + 2], c)
    OBVIOUS
  <2>1. PICK b : Lies(k + 1, w, f[k + 1], b)
    BY <1>4
  <2> DEFINE q == k + 2
             c == [i \in 0..q |-> IF i = q THEN b[k + 1] + Len(w[q]) ELSE b[i]]
  <2>2. /\ b \in [0..(k + 1) -> Nat] /\ b[0] = 0
        /\ f[k + 1] \in Seq(Byte) /\ Len(f[k + 1]) = b[k + 1] /\ b[k + 1] \in Nat
        /\ \A i \in 1..(k + 1) :
             /\ b[i] = b[i - 1] + Len(w[i]) /\ b[i] <= b[k + 1]
             /\ \A x \in 1..Len(w[i]) : f[k + 1][b[i - 1] + x] = w[i][x]
    BY <2>1 DEF Lies
  <2>3. q \in 1..n /\ q \in 2..n /\ w[q] \in Seq(Byte) /\ Len(w[q]) \in Nat
    BY <1>2
  <2>4. f[q] = f[k + 1] \o w[q]
    <3>1. q - 1 = k + 1
      OBVIOUS
    <3> QED
      BY <1>1, <2>3, <3>1
  <2>5. /\ f[q] \in Seq(Byte) /\ Len(f[q]) = b[k + 1] + Len(w[q])
        /\ \A i \in 1..(b[k + 1] + Len(w[q])) :
             f[q][i] = IF i <= b[k + 1] THEN f[k + 1][i] ELSE w[q][i - b[k + 1]]
    <3> DEFINE s == f[k + 1]
               t == w[q]
    <3>1. s \in Seq(Byte) /\ t \in Seq(Byte) /\ Len(s) = b[k + 1] /\ f[q] = s \o t
      BY <2>2, <2>3, <2>4
    <3> HIDE DEF s, t, q
    <3>2. /\ s \o t \in Seq(Byte) /\ Len(s \o t) = Len(s) + Len(t)
          /\ \A i \in 1..(Len(s) + Len(t)) :
               (s \o t)[i] = IF i <= Len(s) THEN s[i] ELSE t[i - Len(s)]
      BY <3>1, ConcatProperties, Zenon
    <3> QED
      BY <3>1, <3>2, Zenon DEF s, t
  <2>6. /\ c[q] = b[k + 1] + Len(w[q]) /\ \A i \in 0..(k + 1) : c[i] = b[i]
        /\ c \in [0..q -> Nat]
    BY <2>2, <2>3, SMTT(40)
  <2>7. ASSUME NEW i \in 1..q
        PROVE  /\ c[i] = c[i - 1] + Len(w[i]) /\ c[i] <= c[q]
               /\ \A x \in 1..Len(w[i]) : f[q][c[i - 1] + x] = w[i][x]
    <3> HIDE DEF c
    <3>1. CASE i = q
      <4>1. c[i] = c[i - 1] + Len(w[i]) /\ c[i] <= c[q] /\ c[i - 1] = b[k + 1]
        BY <2>2, <2>3, <2>6, <3>1
      <4>2. \A x \in 1..Len(w[q]) : f[q][b[k + 1] + x] = w[q][x]
        <5> TAKE x \in 1..Len(w[q])
        <5> DEFINE y == b[k + 1] + x
        <5>1. y \in 1..(b[k + 1] + Len(w[q])) /\ ~(y <= b[k + 1]) /\ y - b[k + 1] = x
          <6> DEFINE u == b[k + 1]
                     l == Len(w[q])
          <6>1. u \in Nat /\ l \in Nat /\ x \in 1..l
            BY <2>2, <2>3
          <6> HIDE DEF u, l
          <6>2. u + x \in 1..(u + l) /\ ~(u + x <= u) /\ (u + x) - u = x
            BY <6>1
          <6> QED
            BY <6>2 DEF u, l
        <5> HIDE DEF y, q
        <5>2. f[q][y] = w[q][x]
          BY <2>5, <5>1
        <5> QED
          BY <5>2 DEF y
      <4> QED
        BY <3>1, <4>1, <4>2
    <3>2. CASE i # q
      <4>1. i \in 1..(k + 1) /\ i \in 0..(k + 1) /\ i - 1 \in 0..(k + 1) /\ i \in 1..n
        BY <2>3, <3>2
      <4>2. c[i] = b[i] /\ c[i - 1] = b[i - 1] /\ b[i] \in Nat /\ b[i - 1] \in Nat
        BY <2>2, <2>6, <4>1
      <4>3. Len(w[i]) \in Nat
        BY <1>2, <4>1
      <4>4. c[i] = c[i - 1] + Len(w[i]) /\ c[i] <= b[k + 1] /\ b[k + 1] <= c[q]
        BY <2>2, <2>3, <2>6, <4>1, <4>2
      <4>5. \A x \in 1..Len(w[i]) : f[q][c[i - 1] + x] = w[i][x]
        <5> TAKE x \in 1..Len(w[i])
        <5> DEFINE y == b[i - 1] + x
        <5>1. y \in 1..(b[k + 1] + Len(w[q])) /\ y <= b[k + 1]
          <6> DEFINE u == b[k + 1]
                     l == Len(w[q])
                     v == b[i - 1]
                     z == Len(w[i])
          <6>1. u \in Nat /\ l \in Nat /\ v \in Nat /\ z \in Nat /\ v + z <= u /\ x \in 1..z
            BY <2>2, <2>3, <4>1, <4>2, <4>3, <4>4
          <6> HIDE DEF u, l, v, z
          <6>2. v + x \in 1..(u + l) /\ v + x <= u
            BY <6>1
          <6> QED
            BY <6>2 DEF u, l, v
        <5>2. f[k + 1][y] = w[i][x]
          BY <2>2, <4>1
        <5> HIDE DEF y, q
        <5>3. f[q][y] = f[k + 1][y]
          BY <2>5, <5>1
        <5> QED
          BY <4>2, <5>2, <5>3 DEF y
      <4> QED
        BY <2>2, <2>3, <2>6, <4>2, <4>4, <4>5
    <3> QED
      BY <3>1, <3>2
  <2>8. 0 \in 0..(k + 1)
    OBVIOUS
  <2> HIDE DEF c
  <2>9. c[0] = 0
    BY <2>2, <2>6, <2>8
  <2>10. Lies(q, w, f[q], c)
    BY <2>5, <2>6, <2>7, <2>9 DEF Lies
  <2> QED
    BY <2>10
<1>5. T \in SUBSET Nat
  OBVIOUS
<1> HIDE DEF T
<1>6. T = Nat
  BY <1>3, <1>4, <1>5, Induction
<1>7. n - 1 \in T /\ (n - 1) + 1 = n
  BY <1>6
<1>8. \E c : Lies(n, w, f[n], c)
  BY <1>7 DEF T
<1> QED
  BY <1>1, <1>8

-----------------------------------------------------------------------------
(* A field in its bytes.                                                     *)

IsSchema(schema) == Len(schema) \in 1..15 /\ DOMAIN schema = 1..Len(schema)

LEMMA SchemasAre == IsSchema(RequestFields) /\ IsSchema(ResponseFields)
BY DEF IsSchema, RequestFields, ResponseFields

LEMMA ShortVarint ==
  ASSUME NEW v \in Nat, v < 128
  PROVE  v < Huge /\ VarintSize(v) = 1
<1> DEFINE n == VarintSize(v)
<1>1. v < Huge
  BY Powers, SMT
<1>2. n \in 1..4 /\ (n > 1 => v >= 128^(n - 1))
  BY <1>1, VarintSizeIs
<1> HIDE DEF n
<1>3. n = 1 \/ n = 2 \/ n = 3 \/ n = 4
  BY <1>2
<1>4. CASE n = 2
  <2>1. n - 1 = 1
    BY <1>4
  <2> QED
    BY <1>2, <1>4, <2>1, Powers, SMT
<1>5. CASE n = 3
  <2>1. n - 1 = 2
    BY <1>5
  <2> QED
    BY <1>2, <1>5, <2>1, Powers, SMT
<1>6. CASE n = 4
  <2>1. n - 1 = 3
    BY <1>6
  <2> QED
    BY <1>2, <1>6, <2>1, Powers, SMT
<1> QED
  BY <1>1, <1>3, <1>4, <1>5, <1>6 DEF n

LEMMA TagIs ==
  ASSUME NEW schema, IsSchema(schema), NEW i \in 1..Len(schema)
  PROVE  /\ Tag(schema, i) \in Nat /\ Tag(schema, i) < 128
         /\ Kind(Tag(schema, i)) = IF Delimited(schema[i]) THEN 2 ELSE 0
         /\ \A j \in 1..Len(schema) : Tag(schema, j) = Tag(schema, i) => j = i
<1>1. Len(schema) \in 1..15
  BY DEF IsSchema
<1>2. ASSUME NEW j \in 1..Len(schema)
      PROVE  Tag(schema, j) = 8 * j \/ Tag(schema, j) = 8 * j + 2
  BY DEF Tag
<1>3. Tag(schema, i) = 8 * i + IF Delimited(schema[i]) THEN 2 ELSE 0
  BY DEF Tag
<1> DEFINE tag == Tag(schema, i)
<1>4. i \in 1..15 /\ tag \in Nat /\ tag < 128 /\ ~(tag < 8)
  <2>1. tag = 8 * i \/ tag = 8 * i + 2
    BY <1>2, Zenon
  <2>2. i \in 1..15
    <3> DEFINE l == Len(schema)
    <3>1. l \in 1..15 /\ i \in 1..l
      BY <1>1
    <3> HIDE DEF l
    <3> QED
      BY <3>1
  <2> HIDE DEF tag
  <2> QED
    BY <2>1, <2>2
<1>5. \A x \in 1..15 : (8 * x) % 8 = 0 /\ (8 * x + 2) % 8 = 2
  BY SMT
<1>6. Kind(tag) = tag % 8
  BY <1>4 DEF Kind
<1>7. tag % 8 = IF Delimited(schema[i]) THEN 2 ELSE 0
  <2>1. CASE Delimited(schema[i])
    <3>1. tag = 8 * i + 2
      BY <1>3, <2>1
    <3> QED
      BY <1>4, <1>5, <2>1, <3>1
  <2>2. CASE ~Delimited(schema[i])
    <3>1. tag = 8 * i
      BY <1>3, <1>4, <2>2
    <3> QED
      BY <1>4, <1>5, <2>2, <3>1
  <2> QED
    BY <2>1, <2>2
<1>8. ASSUME NEW j \in 1..Len(schema), Tag(schema, j) = tag PROVE j = i
  <2>1. j \in Nat /\ i \in Nat
    BY <1>1
  <2> QED
    BY <1>2, <1>8, <2>1
<1> QED
  BY <1>4, <1>6, <1>7, <1>8

\* What is written of a field that is not the default.
LEMMA FieldWritten ==
  ASSUME NEW schema, IsSchema(schema), NEW m, IsWritable(schema, m),
         NEW i \in 1..Len(schema)
  PROVE  /\ IsDefault(schema, m, i) => WriteField(schema, m, i) = <<>>
         /\ ~IsDefault(schema, m, i) /\ ~Delimited(schema[i]) =>
              /\ m[i] \in Nat
              /\ WriteField(schema, m, i) = Varint(Tag(schema, i)) \o Varint(m[i])
         /\ ~IsDefault(schema, m, i) /\ Delimited(schema[i]) =>
              /\ m[i] \in Seq(Byte) /\ Len(m[i]) \in Nat
              /\ WriteField(schema, m, i) =
                   Varint(Tag(schema, i)) \o (Varint(Len(m[i])) \o m[i])
<1>1. i \in DOMAIN schema
  BY DEF IsSchema
<1>2. /\ Delimited(schema[i]) => m[i] \in Seq(Byte)
      /\ ~Delimited(schema[i]) => m[i] \in Nat
  BY <1>1, Zenon DEF IsWritable, IsMessage
<1>3. Delimited(schema[i]) => Len(m[i]) \in Nat
  BY <1>2, LenProperties
<1>4. /\ IsDefault(schema, m, i) => WriteField(schema, m, i) = <<>>
      /\ ~IsDefault(schema, m, i) /\ ~Delimited(schema[i]) =>
           WriteField(schema, m, i) = Varint(Tag(schema, i)) \o Varint(m[i])
      /\ ~IsDefault(schema, m, i) /\ Delimited(schema[i]) =>
           WriteField(schema, m, i) = Varint(Tag(schema, i)) \o (Varint(Len(m[i])) \o m[i])
  BY Zenon DEF WriteField
<1> QED
  BY <1>2, <1>3, <1>4, Zenon

LEMMA FieldBound ==
  ASSUME NEW schema, IsSchema(schema), NEW m, IsWritable(schema, m),
         NEW i \in 1..Len(schema)
  PROVE  /\ Delimited(schema[i]) => Len(m[i]) < 2^24
         /\ ~Delimited(schema[i]) => m[i] < Huge
<1>1. i \in DOMAIN schema
  BY DEF IsSchema
<1> QED
  BY <1>1, Zenon DEF IsWritable

\* The field's size is the number of its bytes.
LEMMA FieldSizeIs ==
  ASSUME NEW schema, IsSchema(schema), NEW m, IsWritable(schema, m),
         NEW i \in 1..Len(schema)
  PROVE  /\ WriteField(schema, m, i) \in Seq(Byte)
         /\ Len(WriteField(schema, m, i)) = FieldSize(schema, m, i)
         /\ FieldSize(schema, m, i) \in Nat /\ FieldSize(schema, m, i) <= 2^24 + 5
<1> DEFINE w == WriteField(schema, m, i)
           t == Varint(Tag(schema, i))
           size == FieldSize(schema, m, i)
<1>1. t \in Seq(Byte) /\ Len(t) = 1
  <2> DEFINE x == Tag(schema, i)
  <2>1. x \in Nat /\ x < 128
    BY TagIs
  <2> HIDE DEF x
  <2>2. Varint(x) \in Seq(Byte) /\ Len(Varint(x)) = 1
    BY <2>1, ShortVarint, VarintIs, ZenonT(40)
  <2> QED
    BY <2>2 DEF x
<1>2. CASE IsDefault(schema, m, i)
  <2>1. w = <<>> /\ size = 0
    BY <1>2, FieldWritten DEF FieldSize
  <2> HIDE DEF w, size
  <2>2. w \in Seq(Byte) /\ Len(w) = 0
    BY <2>1, EmptySeq
  <2>3. 0 <= 2^24 + 5
    BY Powers, SMT
  <2> QED
    BY <2>1, <2>2, <2>3, SMT DEF w, size
<1>3. CASE ~IsDefault(schema, m, i) /\ ~Delimited(schema[i])
  <2>1. m[i] \in Nat /\ m[i] < Huge /\ w = t \o Varint(m[i]) /\ size = 1 + VarintSize(m[i])
    BY <1>3, FieldWritten, FieldBound, Zenon DEF FieldSize
  <2> DEFINE v == Varint(m[i])
             n == VarintSize(m[i])
  <2>2. v \in Seq(Byte) /\ Len(v) = n /\ n \in 1..4
    BY <2>1, VarintIs, VarintSizeIs
  <2> HIDE DEF w, size, t, v, n
  <2>3. w \in Seq(Byte) /\ Len(w) = Len(t) + Len(v)
    BY <1>1, <2>1, <2>2, ConcatProperties DEF v
  <2>4. size = 1 + n
    BY <2>1 DEF n
  <2> QED
    BY <1>1, <2>2, <2>3, <2>4, Powers, SMT DEF w, size
<1>4. CASE ~IsDefault(schema, m, i) /\ Delimited(schema[i])
  <2> DEFINE l == Len(m[i])
             v == Varint(l)
             n == VarintSize(l)
             b == m[i]
  <2>1. b \in Seq(Byte) /\ l \in Nat /\ l < 2^24 /\ w = t \o (v \o b) /\ size = 1 + (n + l)
    BY <1>4, FieldWritten, FieldBound, Zenon DEF FieldSize
  <2>2. l < Huge
    <3> HIDE DEF l
    <3> QED
      BY <2>1, Powers, SMT
  <2>3. v \in Seq(Byte) /\ Len(v) = n /\ n \in 1..4
    BY <2>1, <2>2, VarintIs, VarintSizeIs
  <2>4. Len(b) = l
    OBVIOUS
  <2> HIDE DEF w, size, t, v, n, l, b
  <2>5. v \o b \in Seq(Byte) /\ Len(v \o b) = Len(v) + Len(b)
    BY <2>1, <2>3, ConcatProperties
  <2> DEFINE vb == v \o b
  <2> HIDE DEF vb
  <2>6. t \o vb \in Seq(Byte) /\ Len(t \o vb) = Len(t) + Len(vb)
    BY <1>1, <2>5, ConcatProperties DEF vb
  <2>7. w \in Seq(Byte) /\ Len(w) = Len(t) + (Len(v) + Len(b))
    BY <2>1, <2>5, <2>6 DEF vb
  <2> QED
    BY <1>1, <2>1, <2>3, <2>4, <2>7, Powers, SMT DEF w, size
<1> QED
  BY <1>2, <1>3, <1>4, Zenon

-----------------------------------------------------------------------------
(* A field is met as it was written.                                         *)

LEMMA CutIs ==
  ASSUME NEW s \in Seq(Byte), NEW t \in Seq(Byte), NEW q \in Nat, q + Len(t) <= Len(s),
         \A x \in 1..Len(t) : s[q + x] = t[x]
  PROVE  SubSeq(s, q + 1, q + Len(t)) = t
<1> DEFINE l == Len(t)
           u == SubSeq(s, q + 1, q + l)
<1>1. l \in Nat /\ Len(s) \in Nat
  BY LenProperties
<1> HIDE DEF l
<1>2. \A i \in (q + 1)..(q + l) : s[i] \in Byte
  <2> TAKE i \in (q + 1)..(q + l)
  <2>1. i \in 1..Len(s)
    BY <1>1 DEF l
  <2> QED
    BY <2>1, ElementOfSeq
<1>3. q + 1 \in Int /\ q + l \in Int
  BY <1>1
<1> DEFINE a == q + 1
           b == q + l
<1> HIDE DEF a, b
<1>4. /\ SubSeq(s, a, b) \in Seq(Byte) /\ Len(SubSeq(s, a, b)) = IF a <= b THEN (b - a) + 1 ELSE 0
      /\ \A i \in 1..((b - a) + 1) : SubSeq(s, a, b)[i] = s[(a + i) - 1]
  BY <1>2, <1>3, SubSeqProperties DEF a, b
<1>5. a \in Nat /\ b \in Nat /\ (b - a) + 1 = l /\ (IF a <= b THEN (b - a) + 1 ELSE 0) = l
      /\ \A i \in 1..l : (a + i) - 1 = q + i
  BY <1>1 DEF a, b
<1>6. u \in Seq(Byte) /\ Len(u) = l /\ \A i \in 1..l : u[i] = s[q + i]
  BY <1>4, <1>5 DEF a, b
<1> HIDE DEF u
<1>7. Len(u) = Len(t) /\ \A i \in 1..Len(u) : u[i] = t[i]
  BY <1>6 DEF l
<1>8. u = t
  BY <1>6, <1>7, SeqEqual
<1> QED
  BY <1>8 DEF u, l

LEMMA VarintMet ==
  ASSUME NEW s \in Seq(Byte), NEW n \in 0..Len(s), NEW q \in Nat \ {0},
         NEW v \in Nat, v < Huge, (q - 1) + VarintSize(v) <= n,
         \A x \in 1..VarintSize(v) : s[(q - 1) + x] = Varint(v)[x]
  PROVE  /\ Ends(s, n, q) # {} /\ End(s, n, q) = (q - 1) + VarintSize(v)
         /\ VarintAt(s, n, q) = v
<1> DEFINE l == VarintSize(v)
           t == Varint(v)
           e == (q - 1) + l
           ends == Ends(s, n, q)
<1>1. Len(s) \in Nat /\ l \in 1..4
  BY LenProperties, VarintSizeIs
<1>2. t \in Seq(Byte) /\ Len(t) = l /\ \A i \in 1..l : t[i] < 128 <=> i = l
  BY VarintIs
<1>3. ends = {x \in q..n : s[x] < 128}
  BY DEF Ends
<1>4. \A x \in 1..l : s[(q - 1) + x] = t[x]
  OBVIOUS
<1> HIDE DEF l, t, ends
<1>5. e \in q..n /\ e \in 1..Len(s) /\ e - (q - 1) = l
  BY <1>1 DEF l
<1>6. e \in ends
  BY <1>1, <1>2, <1>3, <1>4, <1>5
<1>7. ASSUME NEW x \in ends PROVE e <= x
  <2> SUFFICES ASSUME x < e PROVE FALSE
    BY <1>1, <1>3
  <2> DEFINE y == x - (q - 1)
  <2>1. x \in q..n /\ s[x] < 128
    BY <1>3, <1>7
  <2>2. y \in 1..l /\ y # l /\ (q - 1) + y = x
    BY <1>1, <2>1
  <2> HIDE DEF y, e
  <2>3. t[y] < 128
    BY <1>4, <2>1, <2>2
  <2> QED
    BY <1>2, <2>2, <2>3
<1>8. ends \in SUBSET Nat
  BY <1>1, <1>3
<1>9. End(s, n, q) = e
  <2>1. Min(ends) \in ends /\ \A x \in ends : Min(ends) <= x
    BY <1>6, <1>8, MinIs
  <2>2. End(s, n, q) = Min(ends)
    BY DEF End, ends
  <2> HIDE DEF e
  <2>3. e \in Nat /\ Min(ends) \in Nat /\ e <= Min(ends) /\ Min(ends) <= e
    BY <1>6, <1>7, <1>8, <2>1
  <2> DEFINE a == Min(ends)
  <2> HIDE DEF a
  <2>4. a = e
    BY <2>3 DEF a
  <2> QED
    BY <2>2, <2>4 DEF a
<1> DEFINE u == SubSeq(s, q, e)
<1>10. u = t
  <2>1. q - 1 \in Nat /\ (q - 1) + 1 = q /\ (q - 1) + Len(t) <= Len(s) /\ (q - 1) + Len(t) = e
    BY <1>1, <1>2, <1>5
  <2>2. \A x \in 1..Len(t) : s[(q - 1) + x] = t[x]
    BY <1>2, <1>4
  <2> DEFINE o == q - 1
  <2> HIDE DEF o, e
  <2>3. SubSeq(s, o + 1, o + Len(t)) = t
    BY <1>2, <2>1, <2>2, CutIs DEF o
  <2> QED
    BY <2>1, <2>3 DEF o
<1>11. VarintAt(s, n, q) = Number(128, u)
  <2> HIDE DEF e
  <2> QED
    BY <1>9 DEF VarintAt
<1>12. Number(128, t) = v
  BY VarintRead DEF t
<1> QED
  BY <1>6, <1>9, <1>10, <1>11, <1>12 DEF l, ends

LEMMA Joined ==
  ASSUME NEW S, NEW s \in Seq(S), NEW t \in Seq(S)
  PROVE  /\ s \o t \in Seq(S) /\ Len(s) \in Nat /\ Len(t) \in Nat
         /\ Len(s \o t) = Len(s) + Len(t)
         /\ \A x \in 1..(Len(s) + Len(t)) : (s \o t)[x] = IF x <= Len(s) THEN s[x] ELSE t[x - Len(s)]
BY ConcatProperties, LenProperties

LEMMA BytesJoined ==
  ASSUME NEW s \in Seq(Byte), NEW t \in Seq(Byte)
  PROVE  /\ s \o t \in Seq(Byte) /\ Len(s) \in Nat /\ Len(t) \in Nat
         /\ Len(s \o t) = Len(s) + Len(t)
         /\ \A x \in 1..(Len(s) + Len(t)) : (s \o t)[x] = IF x <= Len(s) THEN s[x] ELSE t[x - Len(s)]
BY Joined, Zenon

LEMMA MeetsNumber ==
  ASSUME NEW s, NEW n \in Nat, Available(s, n) = n, NEW p \in Nat, p <= n, NEW tag,
         Ends(s, n, p) # {}, End(s, n, p) = p, VarintAt(s, n, p) = tag, Kind(tag) = 0,
         Ends(s, n, p + 1) # {}
  PROVE  Meets(s, n, p) = Field(End(s, n, p + 1), tag, VarintAt(s, n, p + 1))
BY MeetsTag

LEMMA FieldMet ==
  ASSUME NEW schema, IsSchema(schema), NEW m, IsWritable(schema, m),
         NEW i \in 1..Len(schema), ~IsDefault(schema, m, i),
         NEW s \in Seq(Byte), NEW o \in Nat,
         o + Len(WriteField(schema, m, i)) <= Len(s),
         \A x \in 1..Len(WriteField(schema, m, i)) : s[o + x] = WriteField(schema, m, i)[x]
  PROVE  Meets(s, Len(s), o + 1)
           = Field(o + Len(WriteField(schema, m, i)), Tag(schema, i), m[i])
<1> DEFINE w == WriteField(schema, m, i)
           tag == Tag(schema, i)
           t == Varint(tag)
           n == Len(s)
           p == o + 1
<1>1. n \in Nat /\ Available(s, n) = n
  BY LenProperties DEF Available
<1>2. tag \in Nat /\ tag < 128 /\ Kind(tag) = IF Delimited(schema[i]) THEN 2 ELSE 0
  BY TagIs
<1>3. tag < Huge /\ VarintSize(tag) = 1 /\ t \in Seq(Byte) /\ Len(t) = 1
  <2> HIDE DEF tag
  <2>1. tag < Huge /\ VarintSize(tag) = 1
    BY <1>2, ShortVarint
  <2>2. t \in Seq(Byte) /\ Len(t) = 1
    BY <1>2, <2>1, VarintIs
  <2> QED
    BY <2>1, <2>2
\* One varint more behind what is read already.
<1>4. ASSUME NEW q \in Nat, NEW v \in Nat, v < Huge, q + VarintSize(v) <= n,
             \A x \in 1..VarintSize(v) : s[q + x] = Varint(v)[x]
      PROVE  /\ Ends(s, n, q + 1) # {} /\ End(s, n, q + 1) = q + VarintSize(v)
             /\ VarintAt(s, n, q + 1) = v
  <2> DEFINE a == q + 1
  <2>1. n \in 0..Len(s) /\ a \in Nat \ {0} /\ a - 1 = q
    BY <1>1
  <2> HIDE DEF a, n
  <2> QED
    BY <1>4, <2>1, VarintMet, SMTT(40) DEF a
<1>5. ASSUME NEW v \in Seq(Byte), w = t \o v
      PROVE  /\ Len(w) = 1 + Len(v) /\ Len(v) \in Nat
             /\ Ends(s, n, p) # {} /\ End(s, n, p) = p /\ VarintAt(s, n, p) = tag
             /\ \A x \in 1..Len(v) : s[p + x] = v[x]
  <2> HIDE DEF t, w, tag, n
  <2>1. /\ Len(w) = Len(t) + Len(v) /\ Len(v) \in Nat
        /\ \A x \in 1..(Len(t) + Len(v)) : w[x] = IF x <= Len(t) THEN t[x] ELSE v[x - Len(t)]
    <3>1. /\ Len(t \o v) = Len(t) + Len(v)
          /\ \A x \in 1..(Len(t) + Len(v)) : (t \o v)[x] = IF x <= Len(t) THEN t[x] ELSE v[x - Len(t)]
      BY <1>3, <1>5, BytesJoined, Zenon
    <3>2. Len(v) \in Nat
      BY <1>5, LenProperties
    <3> QED
      BY <1>5, <3>1, <3>2, Zenon
  <2>2. \A x \in 1..(1 + Len(v)) : w[x] = IF x <= 1 THEN t[x] ELSE v[x - 1]
    BY <1>3, <2>1
  <2>3. o + Len(w) <= n /\ \A x \in 1..Len(w) : s[o + x] = w[x]
    BY DEF w, n
  <2>4. Len(w) = 1 + Len(v)
    BY <1>3, <2>1
  <2>5. o + VarintSize(tag) <= n /\ \A x \in 1..VarintSize(tag) : s[o + x] = Varint(tag)[x]
    <3>1. \A x \in 1..1 : s[o + x] = t[x]
      BY <2>1, <2>2, <2>3, <2>4
    <3>2. o + 1 <= n
      BY <1>1, <2>1, <2>3, <2>4
    <3> QED
      BY <1>3, <3>1, <3>2 DEF t
  <2>6. Ends(s, n, p) # {} /\ End(s, n, p) = p /\ VarintAt(s, n, p) = tag
    BY <1>2, <1>3, <1>4, <2>5
  <2>7. \A x \in 1..Len(v) : s[p + x] = v[x]
    <3> TAKE x \in 1..Len(v)
    <3> DEFINE y == 1 + x
    <3>1. y \in 1..(1 + Len(v)) /\ ~(y <= 1) /\ y - 1 = x /\ o + y = p + x
      BY <2>1
    <3> HIDE DEF y, p
    <3> QED
      BY <2>2, <2>3, <2>4, <3>1
  <2> QED
    BY <2>1, <2>4, <2>6, <2>7
<1>6. CASE ~Delimited(schema[i])
  <2> DEFINE v == Varint(m[i])
             l == VarintSize(m[i])
  <2>1. m[i] \in Nat /\ m[i] < Huge /\ w = t \o v
    BY <1>6, FieldWritten, FieldBound, ZenonT(40)
  <2>2. v \in Seq(Byte) /\ Len(v) = l /\ l \in Nat
    <3>1. l \in 1..4
      BY <2>1, VarintSizeIs
    <3> QED
      BY <2>1, <3>1, VarintIs
  <2>3. /\ Len(w) = 1 + l /\ Ends(s, n, p) # {} /\ End(s, n, p) = p /\ VarintAt(s, n, p) = tag
        /\ \A x \in 1..l : s[p + x] = v[x]
    <3> HIDE DEF v, w, t, n, p, tag, l
    <3> QED
      BY <1>5, <2>1, <2>2
  <2>4. p \in Nat /\ o + Len(w) <= n /\ p + l = o + Len(w) /\ p + l <= n /\ p <= n
    <3>1. o + Len(w) <= n
      OBVIOUS
    <3> DEFINE k == Len(w)
    <3>2. k = 1 + l /\ l \in Nat /\ n \in Nat /\ o + k <= n
      BY <1>1, <2>2, <2>3, <3>1
    <3> HIDE DEF k, l, n
    <3> QED
      BY <3>2 DEF k
  <2>5. /\ Ends(s, n, p + 1) # {} /\ End(s, n, p + 1) = p + l
        /\ VarintAt(s, n, p + 1) = m[i]
    BY <1>4, <2>1, <2>3, <2>4
  <2>6. Kind(tag) = 0
    BY <1>2, <1>6
  <2> DEFINE b == m[i]
  <2> HIDE DEF w, t, v, l, n, p, tag, b
  <2>7. Meets(s, n, p) = Field(End(s, n, p + 1), tag, VarintAt(s, n, p + 1))
    BY <1>1, <2>3, <2>4, <2>5, <2>6, MeetsNumber
  <2>8. Meets(s, n, p) = Field(o + Len(w), tag, b)
    BY <2>4, <2>5, <2>7, Zenon DEF b
  <2> QED
    BY <2>8 DEF w, n, p, tag, b
<1>7. CASE Delimited(schema[i])
  <2> DEFINE b == m[i]
             k == Len(b)
             u == Varint(k)
             l == VarintSize(k)
             v == u \o b
  <2>1. b \in Seq(Byte) /\ k \in Nat /\ w = t \o v
    BY <1>7, FieldWritten, ZenonT(40)
  <2>2. k < Huge
    <3>1. k < 2^24
      BY <1>7, FieldBound
    <3> HIDE DEF k
    <3> QED
      BY <2>1, <3>1, Powers, SMT
  <2>3. u \in Seq(Byte) /\ Len(u) = l /\ l \in Nat
    <3>1. l \in 1..4
      BY <2>1, <2>2, VarintSizeIs
    <3> QED
      BY <2>1, <2>2, <3>1, VarintIs
  <2>4. /\ v \in Seq(Byte) /\ Len(v) = l + k
        /\ \A x \in 1..(l + k) : v[x] = IF x <= l THEN u[x] ELSE b[x - l]
    <3> HIDE DEF b, u, l
    <3> QED
      BY <2>1, <2>3, ConcatProperties
  <2>5. /\ Len(w) = 1 + (l + k) /\ Ends(s, n, p) # {} /\ End(s, n, p) = p
        /\ VarintAt(s, n, p) = tag
        /\ \A x \in 1..(l + k) : s[p + x] = v[x]
    <3> HIDE DEF b, k, u, l, v, w, t, n, p, tag
    <3> QED
      BY <1>5, <2>1, <2>4
  <2>6. p \in Nat /\ p + (l + k) = o + Len(w) /\ p + (l + k) <= n /\ p <= n /\ p + l <= n
    <3>1. o + Len(w) <= n
      OBVIOUS
    <3> HIDE DEF w, l, n, k
    <3> QED
      BY <1>1, <2>1, <2>3, <2>5, <3>1
  <2>7. (\A x \in 1..l : s[p + x] = u[x]) /\ \A x \in 1..k : s[(p + l) + x] = b[x]
    <3> HIDE DEF w, l, n, k, b, u, v, p
    <3>1. \A x \in 1..l : s[p + x] = u[x]
      <4> TAKE x \in 1..l
      <4>1. x \in 1..(l + k) /\ x <= l
        BY <2>1, <2>3
      <4> QED
        BY <2>4, <2>5, <4>1
    <3>2. \A x \in 1..k : s[(p + l) + x] = b[x]
      <4> TAKE x \in 1..k
      <4> DEFINE y == l + x
      <4>1. y \in 1..(l + k) /\ ~(y <= l) /\ y - l = x /\ p + y = (p + l) + x
        BY <2>1, <2>3, <2>6
      <4> HIDE DEF y
      <4> QED
        BY <2>4, <2>5, <4>1
    <3> QED
      BY <3>1, <3>2
  <2>8. /\ Ends(s, n, p + 1) # {} /\ End(s, n, p + 1) = p + l
        /\ VarintAt(s, n, p + 1) = k
    BY <1>4, <2>1, <2>2, <2>6, <2>7
  <2>9. Kind(tag) = 2
    BY <1>2, <1>7
  <2> HIDE DEF w, t, u, v, l, k, b, n, p, tag
  <2>10. Meets(s, n, p) = Raw(s, n, tag, p + l, k)
    BY <1>1, <2>5, <2>6, <2>8, <2>9, MeetsTag
  <2> DEFINE q == p + l
  <2>11. q \in Nat /\ ~(k > n - q) /\ ~(q + k > n) /\ q + k = o + Len(w) /\ q + k <= n
    BY <1>1, <2>1, <2>3, <2>6, SMTT(40)
  <2> HIDE DEF q
  <2>12. Raw(s, n, tag, q, k) = Field(q + k, tag, SubSeq(s, q + 1, q + k))
    BY <1>1, <2>11 DEF Raw
  <2>13. SubSeq(s, q + 1, q + k) = b
    BY <2>1, <2>7, <2>11, CutIs DEF k, n, q
  <2>14. Meets(s, n, p) = Field(o + Len(w), tag, b)
    BY <2>10, <2>11, <2>12, <2>13 DEF q
  <2> QED
    BY <2>14 DEF w, n, p, tag, b
<1> QED
  BY <1>6, <1>7

-----------------------------------------------------------------------------
(* A whole message in its bytes.                                             *)

\* How the fields of a message lie in its bytes.
Places(schema, m, c) ==
  /\ c \in [0..Len(schema) -> Nat] /\ c[0] = 0
  /\ WriteTo(schema, m) \in Seq(Byte) /\ Len(WriteTo(schema, m)) = c[Len(schema)]
  /\ \A i \in 1..Len(schema) :
       /\ c[i] = c[i - 1] + FieldSize(schema, m, i) /\ c[i] <= c[Len(schema)]
       /\ \A x \in 1..Len(WriteField(schema, m, i)) :
            WriteTo(schema, m)[c[i - 1] + x] = WriteField(schema, m, i)[x]

LEMMA PlacesExist ==
  ASSUME NEW schema, IsSchema(schema), NEW m, IsWritable(schema, m)
  PROVE  \E c : Places(schema, m, c)
<1> DEFINE n == Len(schema)
           w == [i \in DOMAIN schema |-> WriteField(schema, m, i)]
           s == WriteTo(schema, m)
<1>1. n \in Nat \ {0} /\ DOMAIN schema = 1..n
  BY DEF IsSchema
<1>2. \A i \in 1..n : /\ w[i] = WriteField(schema, m, i) /\ w[i] \in Seq(Byte)
                      /\ Len(w[i]) = FieldSize(schema, m, i)
  BY <1>1, FieldSizeIs
<1>3. w \in [1..n -> Seq(Byte)]
  BY <1>1, <1>2
<1>4. s = FlattenSeq(w)
  BY DEF WriteTo
<1>5. PICK c : Lies(n, w, s, c)
  <2> HIDE DEF n, w, s
  <2> QED
    BY <1>1, <1>3, <1>4, Layout
<1>6. Places(schema, m, c)
  <2> HIDE DEF w
  <2> QED
    BY <1>2, <1>5 DEF Lies, Places
<1> QED
  BY <1>6

LEMMA PlacesBounded ==
  ASSUME NEW schema, IsSchema(schema), NEW m, IsWritable(schema, m),
         NEW c, Places(schema, m, c)
  PROVE  c[Len(schema)] < Huge
<1> DEFINE n == Len(schema)
           B == 16777221
           T == {k \in Nat : k <= n => c[k] <= k * B}
<1>1. n \in 1..15 /\ c \in [0..n -> Nat] /\ c[0] = 0
  BY DEF IsSchema, Places
<1>2. \A i \in 1..n : c[i] = c[i - 1] + FieldSize(schema, m, i)
  BY DEF Places
<1>3. \A i \in 1..n : FieldSize(schema, m, i) \in Nat /\ FieldSize(schema, m, i) <= B
  <2> TAKE i \in 1..n
  <2> DEFINE z == FieldSize(schema, m, i)
  <2>1. z \in Nat /\ z <= 2^24 + 5
    BY FieldSizeIs
  <2> HIDE DEF z
  <2>2. z <= B
    BY <2>1, Powers, SMT
  <2> QED
    BY <2>1, <2>2 DEF z
<1> HIDE DEF n
<1>4. 0 \in T
  BY <1>1
<1>5. ASSUME NEW k \in Nat, k \in T PROVE k + 1 \in T
  <2> SUFFICES ASSUME k + 1 <= n PROVE c[k + 1] <= (k + 1) * B
    OBVIOUS
  <2> DEFINE z == FieldSize(schema, m, k + 1)
             a == c[k]
             b == c[k + 1]
  <2>1. k + 1 \in 1..n /\ (k + 1) - 1 = k /\ k \in 0..n
    BY <1>1
  <2>2. b = a + z /\ a \in Nat /\ z \in Nat /\ z <= B /\ a <= k * B
    BY <1>1, <1>2, <1>3, <1>5, <2>1
  <2> HIDE DEF a, b, z
  <2>3. b <= (k + 1) * B
    BY <2>2
  <2> QED
    BY <2>3 DEF b
<1>6. T = Nat
  <2> HIDE DEF T
  <2>1. T \in SUBSET Nat
    BY DEF T
  <2> QED
    BY <1>4, <1>5, <2>1, Induction
<1>7. c[n] <= n * B
  BY <1>1, <1>6
<1> DEFINE a == c[n]
<1>8. a \in Nat /\ a <= n * B
  BY <1>1, <1>7
<1> HIDE DEF a
<1>9. a < 268435456
  BY <1>1, <1>8
<1> QED
  BY <1>9, Powers DEF a, n

\* The size that is computed before a message is written is its number of bytes.
THEOREM SizeIs ==
  ASSUME NEW schema, IsSchema(schema), NEW m, IsWritable(schema, m)
  PROVE  /\ WriteTo(schema, m) \in Seq(Byte)
         /\ ComputeSize(schema, m) = Len(WriteTo(schema, m))
         /\ ComputeSize(schema, m) \in Nat /\ ComputeSize(schema, m) < Huge
<1> DEFINE n == Len(schema)
           upTo == CHOOSE f : f = [i \in 0..Len(schema) |->
                     IF i = 0 THEN 0 ELSE f[i - 1] + FieldSize(schema, m, i)]
<1>1. PICK c : Places(schema, m, c)
  BY PlacesExist
<1>2. ComputeSize(schema, m) = upTo[n]
  BY DEF ComputeSize
<1>3. n \in 1..15 /\ c \in [0..n -> Nat] /\ c[0] = 0
  BY <1>1 DEF IsSchema, Places
<1>4. \A i \in 1..n : c[i] = c[i - 1] + FieldSize(schema, m, i)
  BY <1>1 DEF Places
<1>5. c = [i \in 0..n |-> IF i = 0 THEN 0 ELSE c[i - 1] + FieldSize(schema, m, i)]
  <2> DEFINE d == [i \in 0..n |-> IF i = 0 THEN 0 ELSE c[i - 1] + FieldSize(schema, m, i)]
  <2>1. ASSUME NEW i \in 0..n PROVE c[i] = d[i]
    <3>1. i = 0 \/ i \in 1..n
      OBVIOUS
    <3> QED
      BY <1>3, <1>4, <3>1
  <2>2. DOMAIN c = 0..n /\ c = [i \in DOMAIN c |-> c[i]]
    BY <1>3
  <2> QED
    BY <2>1, <2>2
<1>6. upTo = [i \in 0..n |-> IF i = 0 THEN 0 ELSE upTo[i - 1] + FieldSize(schema, m, i)]
  <2>1. \E f : f = [i \in 0..n |-> IF i = 0 THEN 0 ELSE f[i - 1] + FieldSize(schema, m, i)]
    BY <1>5
  <2> QED
    BY <2>1
<1> DEFINE T == {k \in Nat : k <= n => upTo[k] = c[k]}
<1> HIDE DEF upTo, n
<1>7. 0 \in T
  <2>1. 0 \in 0..n
    BY <1>3
  <2> QED
    BY <1>3, <1>6, <2>1
<1>8. ASSUME NEW k \in Nat, k \in T PROVE k + 1 \in T
  <2> SUFFICES ASSUME k + 1 <= n PROVE upTo[k + 1] = c[k + 1]
    OBVIOUS
  <2> DEFINE q == k + 1
  <2>1. q \in 0..n /\ q # 0 /\ q - 1 = k /\ q \in 1..n /\ upTo[k] = c[k]
    BY <1>3, <1>8
  <2> HIDE DEF q
  <2>2. upTo[q] = upTo[q - 1] + FieldSize(schema, m, q)
    BY <1>6, <2>1
  <2> QED
    BY <1>4, <2>1, <2>2 DEF q
<1>9. T = Nat
  <2> HIDE DEF T
  <2>1. T \in SUBSET Nat
    BY DEF T
  <2> QED
    BY <1>7, <1>8, <2>1, Induction
<1>10. upTo[n] = c[n] /\ c[n] \in Nat
  BY <1>3, <1>9
<1> QED
  BY <1>1, <1>2, <1>10, PlacesBounded DEF Places, n

-----------------------------------------------------------------------------
(* The round trip: what is read back is what was written.                    *)

Values == Nat \X (Nat \cup Seq(Byte))

\* Of the fields behind i, and of no other, what is read has the value, unless
\* that is the default.
ReadFrom(schema, m, i, fields) ==
  /\ fields \in Seq(Values)
  /\ \A j \in 1..Len(schema) :
       IF j <= i \/ IsDefault(schema, m, j) THEN Occurrences(schema, fields, j) = {}
       ELSE \E k \in 1..Len(fields) :
              Occurrences(schema, fields, j) = {k} /\ fields[k][2] = m[j]

LEMMA OneMore ==
  ASSUME NEW fields \in Seq(Values), NEW x \in Values
  PROVE  /\ <<x>> \o fields \in Seq(Values)
         /\ Len(<<x>> \o fields) = Len(fields) + 1 /\ Len(fields) \in Nat
         /\ (<<x>> \o fields)[1] = x
         /\ \A k \in 1..Len(fields) : (<<x>> \o fields)[k + 1] = fields[k]
<1> DEFINE one == <<x>>
           n == Len(fields)
           all == one \o fields
<1>1. one \in Seq(Values) /\ Len(one) = 1 /\ one[1] = x
  OBVIOUS
<1>2. n \in Nat /\ fields \in Seq(Values)
  BY LenProperties
<1> HIDE DEF one
<1>3. /\ all \in Seq(Values) /\ Len(all) = 1 + n
      /\ \A k \in 1..(1 + n) : all[k] = IF k <= 1 THEN one[k] ELSE fields[k - 1]
  <2>1. /\ all \in Seq(Values) /\ Len(all) = Len(one) + n
        /\ \A k \in 1..(Len(one) + n) :
             all[k] = IF k <= Len(one) THEN one[k] ELSE fields[k - Len(one)]
    BY <1>1, <1>2, Joined, Zenon
  <2> HIDE DEF all
  <2> QED
    BY <1>1, <2>1
<1> HIDE DEF all, n
<1>4. all[1] = x
  <2>1. 1 \in 1..(1 + n) /\ 1 <= 1
    BY <1>2
  <2> QED
    BY <1>1, <1>3, <2>1
<1>5. \A k \in 1..n : all[k + 1] = fields[k]
  <2> TAKE k \in 1..n
  <2>1. k + 1 \in 1..(1 + n) /\ ~(k + 1 <= 1) /\ (k + 1) - 1 = k
    BY <1>2
  <2> QED
    BY <1>3, <2>1
<1>6. Len(all) = n + 1
  BY <1>2, <1>3
<1> QED
  BY <1>2, <1>3, <1>4, <1>5, <1>6, Zenon DEF all, one, n

\* The places of a field's values in fields that stand behind x, when the field's
\* tag is t and occ its places before.
Behind(x, t, occ) == (IF x[1] = t THEN {1} ELSE {}) \cup {k + 1 : k \in occ}

LEMMA OneMoreFound ==
  ASSUME NEW n \in Nat, NEW all, NEW fields, NEW schema, NEW j,
         DOMAIN all = 1..(n + 1), DOMAIN fields = 1..n,
         \A k \in 1..n : all[k + 1] = fields[k]
  PROVE  Occurrences(schema, all, j)
           = Behind(all[1], Tag(schema, j), Occurrences(schema, fields, j))
<1> DEFINE t == Tag(schema, j)
           occ == {k \in 1..(n + 1) : all[k][1] = t}
           old == {k \in 1..n : fields[k][1] = t}
           first == IF all[1][1] = t THEN {1} ELSE {}
           moved == {k + 1 : k \in old}
<1>1. Occurrences(schema, all, j) = occ /\ Occurrences(schema, fields, j) = old
  BY DEF Occurrences
<1> HIDE DEF t
<1>2. ASSUME NEW y \in occ PROVE y \in first \cup moved
  <2>1. CASE y = 1
    BY <2>1
  <2>2. CASE y # 1
    <3>1. y - 1 \in 1..n /\ (y - 1) + 1 = y
      BY <2>2
    <3>2. all[y] = fields[y - 1]
      BY <3>1
    <3>3. y - 1 \in old
      BY <3>1, <3>2
    <3> QED
      BY <3>1, <3>3
  <2> QED
    BY <2>1, <2>2
<1>3. ASSUME NEW y \in first \cup moved PROVE y \in occ
  <2>1. CASE y \in first
    <3>1. y = 1 /\ all[1][1] = t /\ 1 \in 1..(n + 1)
      BY <2>1
    <3> QED
      BY <3>1
  <2>2. CASE y \in moved
    <3>1. PICK k \in old : y = k + 1
      BY <2>2
    <3>2. k \in 1..n /\ fields[k][1] = t
      OBVIOUS
    <3>3. y \in 1..(n + 1)
      BY <3>1, <3>2
    <3>4. all[y] = fields[k]
      BY <3>1, <3>2
    <3> QED
      BY <3>2, <3>3, <3>4
  <2> QED
    BY <1>3, <2>1, <2>2
<1> HIDE DEF occ, old, first, moved
<1>4. occ = first \cup moved
  BY <1>2, <1>3
<1>5. Behind(all[1], t, old) = first \cup moved
  BY DEF Behind, first, moved
<1> QED
  BY <1>1, <1>4, <1>5, Zenon DEF t

LEMMA NothingRead ==
  ASSUME NEW schema, NEW m
  PROVE  ReadFrom(schema, m, Len(schema), <<>>)
<1>1. <<>> \in Seq(Values) /\ DOMAIN <<>> = {}
  BY EmptySeq
<1>2. \A j \in 1..Len(schema) : j <= Len(schema) /\ Occurrences(schema, <<>>, j) = {}
  BY <1>1 DEF Occurrences
<1> QED
  BY <1>1, <1>2 DEF ReadFrom

LEMMA OneRead ==
  ASSUME NEW schema, IsSchema(schema), NEW m, IsWritable(schema, m),
         NEW i \in 1..Len(schema), ~IsDefault(schema, m, i),
         NEW fields, ReadFrom(schema, m, i, fields)
  PROVE  ReadFrom(schema, m, i - 1, <<<<Tag(schema, i), m[i]>>>> \o fields)
<1> DEFINE n == Len(schema)
           x == <<Tag(schema, i), m[i]>>
           all == <<x>> \o fields
<1>1. fields \in Seq(Values)
  BY DEF ReadFrom
<1>2. x \in Values /\ x[1] = Tag(schema, i) /\ x[2] = m[i]
  <2>1. Tag(schema, i) \in Nat
    BY TagIs
  <2>2. m[i] \in Nat \cup Seq(Byte)
    <3>1. i \in DOMAIN schema
      BY DEF IsSchema
    <3> QED
      BY <3>1, Zenon DEF IsWritable, IsMessage
  <2> QED
    BY <2>1, <2>2 DEF Values
<1> HIDE DEF x
<1>3. /\ all \in Seq(Values) /\ Len(all) = Len(fields) + 1 /\ Len(fields) \in Nat
      /\ all[1] = x /\ \A k \in 1..Len(fields) : all[k + 1] = fields[k]
  BY <1>1, <1>2, OneMore, Zenon
<1> HIDE DEF all
<1>0. ASSUME NEW j
      PROVE  Occurrences(schema, all, j)
               = Behind(x, Tag(schema, j), Occurrences(schema, fields, j))
  <2>1. DOMAIN all = 1..(Len(fields) + 1) /\ DOMAIN fields = 1..Len(fields)
    BY <1>1, <1>3, LenProperties
  <2> DEFINE l == Len(fields)
  <2>2. /\ l \in Nat /\ DOMAIN all = 1..(l + 1) /\ DOMAIN fields = 1..l
        /\ \A k \in 1..l : all[k + 1] = fields[k]
    BY <1>3, <2>1
  <2> HIDE DEF l
  <2>3. Occurrences(schema, all, j)
          = Behind(all[1], Tag(schema, j), Occurrences(schema, fields, j))
    BY <2>2, OneMoreFound
  <2> QED
    BY <1>3, <2>3, Zenon
<1>4. n \in Nat /\ i \in Nat /\ \A j \in 1..n : j \in Nat
  BY DEF IsSchema
<1>5. ASSUME NEW j \in 1..n, j <= i - 1 \/ IsDefault(schema, m, j)
      PROVE  Occurrences(schema, all, j) = {}
  <2>1. j # i /\ (j <= i \/ IsDefault(schema, m, j))
    BY <1>4, <1>5
  <2>2. Occurrences(schema, fields, j) = {}
    BY <2>1 DEF ReadFrom
  <2>3. x[1] # Tag(schema, j)
    BY <1>2, <2>1, TagIs
  <2> QED
    BY <1>0, <2>2, <2>3 DEF Behind
<1>6. ASSUME NEW j \in 1..n, ~(j <= i - 1 \/ IsDefault(schema, m, j))
      PROVE  \E k \in 1..Len(all) : Occurrences(schema, all, j) = {k} /\ all[k][2] = m[j]
  <2>1. CASE j = i
    <3>1. Occurrences(schema, fields, j) = {}
      <4>1. j <= i
        BY <1>4, <2>1
      <4> QED
        BY <4>1 DEF ReadFrom
    <3>2. x[1] = Tag(schema, j) /\ x[2] = m[j]
      BY <1>2, <2>1
    <3>3. Occurrences(schema, all, j) = {1} /\ all[1] = x
      BY <1>0, <1>3, <3>1, <3>2 DEF Behind
    <3>4. 1 \in 1..Len(all)
      BY <1>3
    <3> QED
      BY <3>2, <3>3, <3>4
  <2>2. CASE j # i
    <3>1. ~(j <= i) /\ ~IsDefault(schema, m, j)
      BY <1>4, <1>6, <2>2
    <3>2. PICK k \in 1..Len(fields) :
            Occurrences(schema, fields, j) = {k} /\ fields[k][2] = m[j]
      BY <3>1 DEF ReadFrom
    <3>3. x[1] # Tag(schema, j)
      BY <1>2, <2>2, TagIs
    <3>4. Occurrences(schema, all, j) = {k + 1}
      <4>1. {y + 1 : y \in {k}} = {k + 1}
        OBVIOUS
      <4> QED
        BY <1>0, <3>2, <3>3, <4>1 DEF Behind
    <3>5. k + 1 \in 1..Len(all) /\ all[k + 1] = fields[k]
      BY <1>3
    <3> QED
      BY <3>2, <3>4, <3>5
  <2> QED
    BY <2>1, <2>2
<1>7. all \in Seq(Values)
  BY <1>3
<1> QED
  BY <1>5, <1>6, <1>7, Zenon DEF ReadFrom, all, x, n

\* What is read from the places where a field begins.
LEMMA ReadBack ==
  ASSUME NEW schema, IsSchema(schema), NEW m, IsWritable(schema, m)
  PROVE  LET s == WriteTo(schema, m)
             scan == Scan(s, Len(s))
         IN scan.how = "done" /\ scan.used = Len(s) /\ ReadFrom(schema, m, 0, scan.fields)
<1> DEFINE s == WriteTo(schema, m)
           l == Len(s)
           n == Len(schema)
<1>1. PICK c : Places(schema, m, c)
  BY PlacesExist
<1>2. /\ c \in [0..n -> Nat] /\ c[0] = 0 /\ s \in Seq(Byte) /\ l = c[n] /\ l \in Nat
      /\ n \in Nat
      /\ \A i \in 1..n : /\ c[i] = c[i - 1] + FieldSize(schema, m, i) /\ c[i] <= l
                         /\ \A x \in 1..Len(WriteField(schema, m, i)) :
                              s[c[i - 1] + x] = WriteField(schema, m, i)[x]
  <2>1. n \in Nat
    BY DEF IsSchema
  <2>2. s \in Seq(Byte)
    BY <1>1 DEF Places
  <2>3. l \in Nat
    BY <2>2, LenProperties
  <2> QED
    BY <1>1, <2>1, <2>2, <2>3 DEF Places
<1>3. PICK f : /\ Scan(s, l) = f[1]
               /\ \A p \in 1..(l + 1) : f[p] = Onward(Meets(s, l, p), f)
  <2> HIDE DEF s
  <2> QED
    BY <1>2, ScanIs
<1> DEFINE Read(i, r) == /\ r.how = "done" /\ r.used = l
                         /\ ReadFrom(schema, m, i, r.fields)
           T == {k \in Nat : k <= n => Read(n - k, f[c[n - k] + 1])}
<1> HIDE DEF s, l, n
<1>4. 0 \in T
  <2>1. l + 1 \in 1..(l + 1) /\ l + 1 \in Nat /\ l + 1 > l /\ n - 0 = n
    BY <1>2
  <2> DEFINE p == l + 1
  <2> HIDE DEF p
  <2>2. Meets(s, l, p) = Stop("done", l)
    BY <1>2, <2>1, MeetsStops DEF p
  <2>3. f[p] = [how |-> "done", used |-> l, fields |-> <<>>]
    <3> DEFINE next == Stop("done", l)
    <3>1. next.how = "done" /\ next.used = l
      BY StopIs
    <3> HIDE DEF next
    <3>2. f[p] = Onward(next, f)
      BY <1>3, <2>1, <2>2 DEF p, next
    <3>3. Onward(next, f) = [how |-> next.how, used |-> next.used, fields |-> <<>>]
      BY <3>1, OnwardIs
    <3> QED
      BY <3>1, <3>2, <3>3
  <2>4. Read(n, f[p])
    <3>1. ReadFrom(schema, m, n, <<>>)
      BY NothingRead DEF n
    <3> QED
      BY <2>3, <3>1
  <2>5. p = c[n] + 1
    BY <1>2 DEF p
  <2> HIDE DEF Read
  <2> QED
    BY <2>1, <2>4, <2>5
<1>5. ASSUME NEW k \in Nat, k \in T PROVE k + 1 \in T
  <2> SUFFICES ASSUME k + 1 <= n PROVE Read(n - (k + 1), f[c[n - (k + 1)] + 1])
    OBVIOUS
  <2> DEFINE i == n - k
             b == c[i - 1]
             w == WriteField(schema, m, i)
  <2>1. i \in 1..n /\ i - 1 = n - (k + 1) /\ i \in 0..n /\ i - 1 \in 0..n
    BY <1>2
  <2>2. Read(i, f[c[i] + 1])
    BY <1>2, <1>5
  <2> HIDE DEF i
  <2>3. /\ c[i] = b + FieldSize(schema, m, i) /\ c[i] <= l /\ b \in Nat /\ c[i] \in Nat
        /\ \A x \in 1..Len(w) : s[b + x] = w[x]
    BY <1>2, <2>1
  <2>4. Len(w) = FieldSize(schema, m, i) /\ FieldSize(schema, m, i) \in Nat
    BY <2>1, FieldSizeIs DEF n
  <2>5. CASE IsDefault(schema, m, i)
    <3>1. FieldSize(schema, m, i) = 0
      BY <2>5 DEF FieldSize
    <3>2. c[i] = b
      BY <2>3, <3>1
    <3>3. ASSUME NEW fields, ReadFrom(schema, m, i, fields)
          PROVE  ReadFrom(schema, m, i - 1, fields)
      <4>1. \A j \in 1..n : ( j <= i \/ IsDefault(schema, m, j)) <=>
                              (j <= i - 1 \/ IsDefault(schema, m, j))
        BY <1>2, <2>1, <2>5
      <4> QED
        BY <3>3, <4>1, Zenon DEF ReadFrom, n
    <3> QED
      BY <2>1, <2>2, <3>2, <3>3
  <2>6. CASE ~IsDefault(schema, m, i)
    <3> DEFINE p == b + 1
               x == <<Tag(schema, i), m[i]>>
               next == Field(b + Len(w), Tag(schema, i), m[i])
               q == c[i] + 1
    <3>1. b + Len(w) = c[i]
      BY <2>3, <2>4
    <3>2. Meets(s, l, p) = next
      <4>1. /\ i \in 1..Len(schema) /\ s \in Seq(Byte) /\ b \in Nat /\ b + Len(w) <= Len(s)
            /\ \A y \in 1..Len(w) : s[b + y] = w[y]
        BY <1>2, <2>1, <2>3, <3>1 DEF n, l
      <4> HIDE DEF b
      <4> QED
        BY <2>6, <4>1, FieldMet DEF l
    <3>3. next.how = "field" /\ next.used + 1 = q /\ next.field = x
      BY <3>1, FieldIs
    <3>4. p \in 1..(l + 1)
      <4>1. b <= l
        BY <1>2, <2>3, <2>4
      <4> QED
        BY <1>2, <2>3, <4>1
    <3> HIDE DEF next, x, p, q
    <3>5. f[p] = [how |-> f[q].how, used |-> f[q].used, fields |-> <<x>> \o f[q].fields]
      <4>1. f[p] = Onward(next, f)
        BY <1>3, <3>2, <3>4
      <4>2. Onward(next, f) = [how |-> f[q].how, used |-> f[q].used,
                               fields |-> <<x>> \o f[q].fields]
        BY <3>3, OnwardIs
      <4> QED
        BY <4>1, <4>2
    <3>6. Read(i, f[q])
      BY <2>2 DEF q
    <3>7. ReadFrom(schema, m, i - 1, <<x>> \o f[q].fields)
      BY <2>1, <2>6, <3>6, OneRead DEF n, x
    <3>8. Read(i - 1, f[p])
      BY <3>5, <3>6, <3>7
    <3> QED
      BY <2>1, <3>8 DEF p
  <2> QED
    BY <2>5, <2>6
<1>6. T = Nat
  <2> HIDE DEF T
  <2>1. T \in SUBSET Nat
    BY DEF T
  <2> QED
    BY <1>4, <1>5, <2>1, Induction
<1>7. Read(0, f[1])
  <2>1. n \in T /\ n <= n /\ n - n = 0 /\ c[0] + 1 = 1
    <3>1. n \in Nat /\ c[0] = 0
      BY <1>2
    <3> HIDE DEF T
    <3> QED
      BY <1>6, <3>1
  <2> HIDE DEF Read
  <2>2. Read(n - n, f[c[n - n] + 1])
    BY <2>1
  <2> QED
    BY <2>1, <2>2
<1> QED
  BY <1>3, <1>7 DEF s, l

LEMMA OnlyOne ==
  ASSUME NEW n \in Nat, NEW k \in 1..n
  PROVE  Max({k}) = k
<1>1. {k} \in SUBSET (1..n) /\ {k} # {}
  OBVIOUS
<1>2. Max({k}) \in {k}
  BY <1>1, MaxIs
<1> QED
  BY <1>2

\* A message is read back from its bytes as it was written, and exactly the
\* fields that have not their default value are found there.
THEOREM RoundTrip ==
  ASSUME NEW schema, IsSchema(schema), NEW m, IsWritable(schema, m)
  PROVE  LET s == WriteTo(schema, m)
             scan == Scan(s, Len(s))
         IN /\ scan.how = "done" /\ scan.used = Len(s)
            /\ Merge(schema, New(schema), scan.fields) = m
            /\ \A i \in 1..Len(schema) :
                 Occurrences(schema, scan.fields, i) = {} <=> IsDefault(schema, m, i)
<1> DEFINE s == WriteTo(schema, m)
           scan == Scan(s, Len(s))
           fields == scan.fields
           n == Len(schema)
<1>1. scan.how = "done" /\ scan.used = Len(s) /\ ReadFrom(schema, m, 0, fields)
  BY ReadBack
<1> HIDE DEF fields
<1>2. n \in Nat /\ DOMAIN schema = 1..n
  BY DEF IsSchema
<1>3. ASSUME NEW i \in 1..n
      PROVE  IF IsDefault(schema, m, i) THEN Occurrences(schema, fields, i) = {}
             ELSE \E k \in 1..Len(fields) :
                    Occurrences(schema, fields, i) = {k} /\ fields[k][2] = m[i]
  <2>1. ~(i <= 0)
    BY <1>2
  <2> QED
    BY <1>1, <2>1, Zenon DEF ReadFrom
<1>4. fields \in Seq(Values) /\ Len(fields) \in Nat
  <2>1. fields \in Seq(Values)
    BY <1>1 DEF ReadFrom
  <2> QED
    BY <2>1, LenProperties
<1> DEFINE Value(i) == LET occurrences == Occurrences(schema, fields, i)
                       IN IF occurrences = {} THEN New(schema)[i] ELSE fields[Max(occurrences)][2]
<1>5. ASSUME NEW i \in 1..n PROVE Value(i) = m[i]
  <2>1. CASE IsDefault(schema, m, i)
    <3>1. Occurrences(schema, fields, i) = {}
      BY <1>3, <2>1
    <3>2. New(schema)[i] = m[i]
      BY <1>2, <2>1 DEF IsDefault, New
    <3> QED
      BY <3>1, <3>2
  <2>2. CASE ~IsDefault(schema, m, i)
    <3>1. PICK k \in 1..Len(fields) :
            Occurrences(schema, fields, i) = {k} /\ fields[k][2] = m[i]
      BY <1>3, <2>2
    <3>2. Max({k}) = k
      BY <1>4, OnlyOne
    <3> QED
      BY <3>1, <3>2
  <2> QED
    BY <2>1, <2>2
<1>6. Merge(schema, New(schema), fields) = [i \in 1..n |-> Value(i)]
  BY <1>2 DEF Merge
<1>7. m = [i \in 1..n |-> m[i]]
  BY <1>2, Zenon DEF IsWritable, IsMessage
<1>8. Merge(schema, New(schema), fields) = m
  <2> HIDE DEF Value
  <2>1. [i \in 1..n |-> Value(i)] = [i \in 1..n |-> m[i]]
    BY <1>5
  <2> QED
    BY <1>6, <1>7, <2>1
<1>9. \A i \in 1..n : Occurrences(schema, fields, i) = {} <=> IsDefault(schema, m, i)
  <2> TAKE i \in 1..n
  <2> QED
    BY <1>3
<1> QED
  BY <1>1, <1>8, <1>9 DEF fields

-----------------------------------------------------------------------------
(* What the two sides rely on.                                               *)

\* Of the message m the wire says how long it is, and all that is written is read
\* and put together again; a field with its default is not there.
Carried(schema, m) ==
  LET bytes == WriteTo(schema, m)
      scan == Scan(bytes, Len(bytes))
  IN /\ bytes \in Seq(Byte) /\ Len(bytes) = ComputeSize(schema, m)
     /\ Number(256, Fixed32(Len(bytes))) = Len(bytes)
     /\ scan.how = "done" /\ scan.used = Len(bytes) /\ scan.fields \in Seq(Fields)
     /\ Merge(schema, New(schema), scan.fields) = m
     /\ \A i \in DOMAIN schema :
          Occurrences(schema, scan.fields, i) = {} <=> m[i] = New(schema)[i]

\* Bytes behind their length are read to their end or to an error in them.
Bounded(bytes) ==
  LET scan == Scan(bytes, Len(bytes))
  IN /\ bytes \in Seq(Byte) /\ Number(256, Fixed32(Len(bytes))) = Len(bytes)
     /\ scan.how \in {"done", "error"} /\ scan.used \in 0..Len(bytes)
     /\ scan.how = "done" => scan.used = Len(bytes)
     /\ scan.fields \in Seq(Fields)

\* Every message comes over the wire whole (write_length_delimited_to and merge_from
\* of proto/iodin.rs, Marshal and Unmarshal in iodin.go).
THEOREM MessagesAreCarried ==
  ASSUME NEW schema, IsSchema(schema), NEW m, IsWritable(schema, m)
  PROVE  Carried(schema, m)
<1> DEFINE bytes == WriteTo(schema, m)
           l == Len(bytes)
           scan == Scan(bytes, l)
<1>1. bytes \in Seq(Byte) /\ ComputeSize(schema, m) = l /\ l \in Nat /\ l < Huge
  <2>1. bytes \in Seq(Byte) /\ ComputeSize(schema, m) = l
    BY SizeIs
  <2>2. ComputeSize(schema, m) \in Nat /\ ComputeSize(schema, m) < Huge
    BY SizeIs
  <2> QED
    BY <2>1, <2>2, Zenon
<1>2. Number(256, Fixed32(l)) = l
  <2> HIDE DEF l
  <2> QED
    BY <1>1, LengthRead
<1>3. /\ scan.how = "done" /\ scan.used = l
      /\ Merge(schema, New(schema), scan.fields) = m
      /\ \A i \in 1..Len(schema) :
           Occurrences(schema, scan.fields, i) = {} <=> IsDefault(schema, m, i)
  BY RoundTrip
<1>4. DOMAIN schema = 1..Len(schema)
  BY DEF IsSchema
<1>5. \A i \in DOMAIN schema : IsDefault(schema, m, i) <=> m[i] = New(schema)[i]
  BY DEF IsDefault, New
<1> HIDE DEF bytes
<1>6. scan.fields \in Seq(Fields)
  BY <1>1, ScanWell DEF ReadWell
<1>7. \A i \in DOMAIN schema :
        Occurrences(schema, scan.fields, i) = {} <=> m[i] = New(schema)[i]
  BY <1>3, <1>4, <1>5, Zenon
<1> QED
  BY <1>1, <1>2, <1>3, <1>6, <1>7, Zenon DEF Carried, bytes

\* Of any bytes behind their length (merge_from of proto/iodin.rs under the limit
\* that run pushes).
THEOREM BytesAreBounded ==
  ASSUME NEW b \in Seq(Byte), Len(b) < Huge
  PROVE  Bounded(b)
<1> DEFINE l == Len(b)
           scan == Scan(b, l)
<1>1. l \in Nat /\ Available(b, l) = l
  BY LenProperties DEF Available
<1>2. Number(256, Fixed32(l)) = l
  BY <1>1, LengthRead
<1>3. /\ scan.fields \in Seq(Fields)
      /\ \/ scan.how = "done" /\ scan.used = l
         \/ scan.how = "error" /\ scan.used \in 0..l
  <2>1. ReadWell(b, l, scan)
    BY <1>1, ScanWell
  <2> HIDE DEF scan, l
  <2> QED
    BY <1>1, <2>1 DEF ReadWell
<1> HIDE DEF scan, l
<1>4. scan.used \in 0..l
  BY <1>1, <1>3
<1> QED
  BY <1>1, <1>2, <1>3, <1>4 DEF Bounded, scan, l

LEMMA NewIsMessage ==
  ASSUME NEW schema
  PROVE  IsMessage(schema, New(schema))
<1>1. <<>> \in Seq(Byte)
  BY EmptySeq
<1> QED
  BY <1>1 DEF IsMessage, New, DefaultOf

\* What merge_from makes of a message is one.
LEMMA MergeIsMessage ==
  ASSUME NEW schema, IsSchema(schema), NEW m, IsMessage(schema, m),
         NEW fields \in Seq(Fields)
  PROVE  IsMessage(schema, Merge(schema, m, fields))
<1> DEFINE merged == Merge(schema, m, fields)
           n == Len(fields)
<1>1. n \in Nat /\ DOMAIN fields = 1..n /\ \A k \in 1..n : fields[k] \in Fields
  BY LenProperties, ElementOfSeq
<1>2. DOMAIN merged = DOMAIN schema /\ merged = [i \in DOMAIN schema |-> merged[i]]
  BY DEF Merge
<1> HIDE DEF n
<1>3. ASSUME NEW i \in DOMAIN schema
      PROVE  IF Delimited(schema[i]) THEN merged[i] \in Seq(Byte) ELSE merged[i] \in Nat
  <2> DEFINE occ == Occurrences(schema, fields, i)
             tag == Tag(schema, i)
  <2>1. merged[i] = IF occ = {} THEN m[i] ELSE fields[Max(occ)][2]
    BY DEF Merge
  <2>2. CASE occ = {}
    <3>1. merged[i] = m[i]
      BY <2>1, <2>2
    <3> QED
      BY <3>1, Zenon DEF IsMessage
  <2>3. CASE occ # {}
    <3>1. occ \in SUBSET (1..n) /\ \A k \in occ : fields[k][1] = tag
      BY <1>1 DEF Occurrences
    <3> DEFINE k == Max(occ)
    <3> HIDE DEF occ, tag
    <3>2. k \in occ
      BY <1>1, <2>3, <3>1, MaxIs
    <3> HIDE DEF k
    <3>3. fields[k] \in Fields /\ fields[k][1] = tag
      BY <1>1, <3>1, <3>2
    <3>4. tag % 8 = IF Delimited(schema[i]) THEN 2 ELSE 0
      <4>1. i \in 1..Len(schema)
        BY DEF IsSchema
      <4>2. Kind(tag) = IF Delimited(schema[i]) THEN 2 ELSE 0
        BY <4>1, TagIs DEF tag
      <4>3. Kind(tag) = IF tag < 8 THEN 7 ELSE tag % 8
        BY DEF Kind
      <4> QED
        BY <4>2, <4>3
    <3>5. (tag % 8 = 0 => fields[k][2] \in Nat) /\ (tag % 8 # 0 => fields[k][2] \in Seq(Byte))
      BY <3>3, Zenon DEF Fields
    <3>6. merged[i] = fields[k][2]
      BY <2>1, <2>3 DEF k
    <3>7. Delimited(schema[i]) => tag % 8 # 0
      BY <3>4
    <3>8. ~Delimited(schema[i]) => tag % 8 = 0
      BY <3>4
    <3> HIDE DEF merged
    <3> QED
      BY <3>5, <3>6, <3>7, <3>8, Zenon
  <2> QED
    BY <2>2, <2>3
<1> QED
  BY <1>2, <1>3, Zenon DEF IsMessage
=============================================================================
