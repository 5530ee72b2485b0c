------------------------- MODULE MarshallingProofs --------------------------
(***************************************************************************)
(* Theorems about Marshalling, for any functions, return values and        *)
(* address of the server: that every message is read as it was written,    *)
(* and what the outcome of a call says.                                    *)
(***************************************************************************)
EXTENDS Marshalling, SequenceTheorems, NaturalsInduction, WellFoundedInduction, TLAPS

-----------------------------------------------------------------------------
(* Induction.                                                              *)

\* A set of numbers that has 0, and the next of each, has all.
LEMMA Induction ==
  ASSUME NEW S, 0 \in S, \A n \in Nat : n \in S => n + 1 \in S
  PROVE  \A n \in Nat : n \in S
<1>1. SUFFICES ASSUME {n \in Nat : n \notin S} # {}
               PROVE  FALSE
  OBVIOUS
<1>2. PICK T : T = {n \in Nat : n \notin S} /\ T # {} /\ T \subseteq Nat
  BY <1>1
<1>3. PICK x \in T : \A y \in T : ~(<<y, x>> \in OpToRel(<, Nat))
  BY <1>2, WFMin, NatLessThanWellFounded
<1>4. \A y \in T : ~(y < x)
  BY <1>2, <1>3 DEF OpToRel
<1>5. x \in Nat \ {0}
  BY <1>2
<1>6. x - 1 \in Nat /\ x - 1 < x /\ (x - 1) + 1 = x
  BY <1>5
<1>7. x - 1 \in S
  BY <1>2, <1>4, <1>6
<1>. QED
  BY <1>2, <1>6, <1>7

-----------------------------------------------------------------------------
(* Bytes in a buffer.                                                      *)

Bytes == Seq(0 .. 255)
Word == {x \in Int : -MaxInt - 1 <= x /\ x <= MaxInt}

\* From position pos on, buffer b has the bytes s.
At(b, pos, s) ==
  /\ pos \in Nat /\ pos + Len(s) <= Len(b)
  /\ \A i \in 1 .. Len(s) : b[pos + i] = s[i]

LEMMA Joined ==
  ASSUME NEW s \in Bytes, NEW t \in Bytes
  PROVE  /\ s \o t \in Bytes /\ Len(s) \in Nat /\ Len(t) \in Nat
         /\ Len(s \o t) = Len(s) + Len(t)
         /\ \A i \in 1 .. Len(s) : (s \o t)[i] = s[i]
         /\ \A i \in 1 .. Len(t) : (s \o t)[Len(s) + i] = t[i]
<1>1. Len(s) \in Nat /\ Len(t) \in Nat
  BY LenProperties DEF Bytes
<1>2. /\ s \o t \in Bytes /\ Len(s \o t) = Len(s) + Len(t)
      /\ \A i \in 1 .. Len(s) + Len(t) :
           (s \o t)[i] = IF i <= Len(s) THEN s[i] ELSE t[i - Len(s)]
  BY ConcatProperties DEF Bytes
<1>3. ASSUME NEW i \in 1 .. Len(s) PROVE (s \o t)[i] = s[i]
  BY <1>1, <1>2
<1>4. ASSUME NEW i \in 1 .. Len(t) PROVE (s \o t)[Len(s) + i] = t[i]
  <2>1. Len(s) + i \in 1 .. Len(s) + Len(t) /\ ~(Len(s) + i <= Len(s)) /\ (Len(s) + i) - Len(s) = i
    BY <1>1
  <2>. QED
    BY <1>2, <2>1
<1>. QED
  BY <1>1, <1>2, <1>3, <1>4

LEMMA AtStart ==
  ASSUME NEW b \in Bytes
  PROVE  At(b, 0, b)
BY LenProperties DEF At, Bytes

\* What is two things one after the other has both.
LEMMA AtParts ==
  ASSUME NEW b \in Bytes, NEW pos, NEW s \in Bytes, NEW t \in Bytes, At(b, pos, s \o t)
  PROVE  At(b, pos, s) /\ At(b, pos + Len(s), t)
<1>1. PICK n \in Nat, m \in Nat, k \in Nat : n = Len(s) /\ m = Len(t) /\ k = Len(b)
  BY LenProperties DEF Bytes
<1>2. PICK u : u = s \o t
  OBVIOUS
<1>3. /\ Len(u) = n + m
      /\ \A i \in 1 .. n : u[i] = s[i]
      /\ \A i \in 1 .. m : u[n + i] = t[i]
  BY <1>1, <1>2, Joined
<1>4. pos \in Nat /\ pos + (n + m) <= k /\ \A i \in 1 .. n + m : b[pos + i] = u[i]
  BY <1>1, <1>2, <1>3 DEF At
<1>5. pos + n <= k /\ (pos + n) + m <= k /\ pos + n \in Nat
  BY <1>4
<1>6. ASSUME NEW i \in 1 .. n PROVE b[pos + i] = s[i]
  BY <1>3, <1>4
<1>7. ASSUME NEW i \in 1 .. m PROVE b[(pos + n) + i] = t[i]
  <2>1. n + i \in 1 .. n + m /\ pos + (n + i) = (pos + n) + i
    BY <1>4
  <2>. QED
    BY <1>3, <1>4, <2>1
<1>. QED
  BY <1>1, <1>4, <1>5, <1>6, <1>7 DEF At

\* The bytes s can be taken from where they are.
LEMMA AtTaken ==
  ASSUME NEW b \in Bytes, NEW pos, NEW s \in Bytes, At(b, pos, s)
  PROVE  SubSeq(b, pos + 1, pos + Len(s)) = s
<1>1. PICK n \in Nat, k \in Nat : n = Len(s) /\ k = Len(b)
  BY LenProperties DEF Bytes
<1>2. pos \in Nat /\ pos + n <= k /\ \A i \in 1 .. n : b[pos + i] = s[i]
  BY <1>1 DEF At
<1>3. \A i \in pos + 1 .. pos + n : b[i] \in 0 .. 255
  BY <1>1, <1>2, ElementOfSeq DEF Bytes
<1>4. PICK u : u = SubSeq(b, pos + 1, pos + n)
  OBVIOUS
<1>5. /\ u \in Bytes /\ Len(u) = n /\ \A i \in 1 .. n : u[i] = b[pos + i]
  <2>1. /\ u \in Bytes
        /\ Len(u) = IF pos + 1 <= pos + n THEN (pos + n) - (pos + 1) + 1 ELSE 0
        /\ \A i \in 1 .. (pos + n) - (pos + 1) + 1 : u[i] = b[(pos + 1) + i - 1]
    BY <1>2, <1>3, <1>4, SubSeqProperties DEF Bytes
  <2>2. Len(u) = n
    BY <1>2, <2>1
  <2>3. ASSUME NEW i \in 1 .. n PROVE u[i] = b[pos + i]
    <3>1. i \in 1 .. (pos + n) - (pos + 1) + 1 /\ (pos + 1) + i - 1 = pos + i
      BY <1>2
    <3>. QED
      BY <2>1, <3>1
  <2>. QED
    BY <2>1, <2>2, <2>3
<1>6. u = s
  BY <1>1, <1>2, <1>5, SeqEqual DEF Bytes
<1>. QED
  BY <1>1, <1>4, <1>6

-----------------------------------------------------------------------------
(* Integers and strings.                                                   *)

Value(p, q, r, d) ==
  p + q * 256 + r * 65536 + (IF d > 127 THEN d - 256 ELSE d) * 16777216

\* An int is its four bytes, of which the highest has the sign.
LEMMA FourBytes ==
  ASSUME NEW x \in Word
  PROVE  \E p, q, r, d \in 0 .. 255 : EncodeInteger(x) = <<p, q, r, d>> /\ x = Value(p, q, r, d)
<1>1. x \in Int /\ -2147483648 <= x /\ x <= 2147483647
  BY SMT DEF Word, MaxInt
<1>2. PICK a \in Int, e \in Int : a = x % 256 /\ e = x \div 256 /\ x = 256 * e + a /\ a \in 0 .. 255
  BY SMT, <1>1
<1>3. PICK c \in Int, f \in Int : c = e % 256 /\ f = e \div 256 /\ e = 256 * f + c /\ c \in 0 .. 255
  BY SMT, <1>2
<1>4. PICK g \in Int, h \in Int : g = f % 256 /\ h = f \div 256 /\ f = 256 * h + g /\ g \in 0 .. 255
  BY SMT, <1>3
<1>5. f = x \div 65536
  BY SMT, <1>1, <1>2, <1>3
<1>6. h = x \div 16777216
  BY SMT, <1>1, <1>2, <1>3, <1>4
<1>7. h \in -128 .. 127
  BY SMT, <1>1, <1>2, <1>3, <1>4
<1>8. PICK d \in Int : d = h % 256 /\ d \in 0 .. 255 /\ h = IF d > 127 THEN d - 256 ELSE d
  <2>1. CASE h >= 0
    <3>1. h % 256 = h
      BY SMT, <1>7, <2>1
    <3>. QED
      BY SMT, <1>7, <2>1, <3>1
  <2>2. CASE h < 0
    <3>1. h % 256 = h + 256
      BY SMT, <1>7, <2>2
    <3>. QED
      BY SMT, <1>7, <2>2, <3>1
  <2>. QED
    BY SMT, <1>7, <2>1, <2>2
<1>9. x = Value(a, c, g, d)
  BY SMT, <1>2, <1>3, <1>4, <1>8 DEF Value
<1>10. EncodeInteger(x) = <<a, c, g, d>>
  BY SMT, <1>2, <1>3, <1>4, <1>5, <1>6, <1>8 DEF EncodeInteger
<1>11. a \in 0 .. 255 /\ c \in 0 .. 255 /\ g \in 0 .. 255 /\ d \in 0 .. 255
  BY <1>2, <1>3, <1>4, <1>8
<1>. QED
  BY <1>9, <1>10, <1>11, Zenon

\* decode_integer gives back every 32-bit int that encode_integer has put in a
\* buffer, wherever it is: protocol_macros.cc.
THEOREM IntegerArrives ==
  ASSUME NEW x \in Word
  PROVE  /\ EncodeInteger(x) \in Bytes /\ Len(EncodeInteger(x)) = 4
         /\ \A b \in Bytes : \A pos : At(b, pos, EncodeInteger(x)) => DecodeInteger(b, pos) = x
<1>1. PICK p \in 0 .. 255, q \in 0 .. 255, r \in 0 .. 255, d \in 0 .. 255 :
         EncodeInteger(x) = <<p, q, r, d>> /\ x = Value(p, q, r, d)
  BY FourBytes
<1>3. EncodeInteger(x) \in Bytes /\ Len(EncodeInteger(x)) = 4
  BY <1>1 DEF Bytes
<1>4. ASSUME NEW b \in Bytes, NEW pos, At(b, pos, EncodeInteger(x))
      PROVE  DecodeInteger(b, pos) = x
  <2>1. PICK s : s = EncodeInteger(x) /\ Len(s) = 4
    BY <1>3
  <2>2. /\ 1 \in 1 .. Len(s) /\ 2 \in 1 .. Len(s) /\ 3 \in 1 .. Len(s) /\ 4 \in 1 .. Len(s)
        /\ s[1] = p /\ s[2] = q /\ s[3] = r /\ s[4] = d
    BY <1>1, <2>1
  <2>3. b[pos + 1] = p /\ b[pos + 2] = q /\ b[pos + 3] = r /\ b[pos + 4] = d
    BY <1>4, <2>1, <2>2 DEF At
  <2>. QED
    BY <1>1, <2>3, SMT DEF DecodeInteger, Value
<1>. QED
  BY <1>3, <1>4

LEMMA StringArrives ==
  ASSUME NEW s \in Bytes, Len(s) <= MaxInt
  PROVE  /\ EncodeString(s) \in Bytes /\ Len(EncodeString(s)) = 4 + Len(s)
         /\ \A b \in Bytes : \A pos : At(b, pos, EncodeString(s)) =>
              /\ DecodeString(b, pos) = s
              /\ AfterString(b, pos) = pos + Len(EncodeString(s))
<1>1. PICK n \in Nat : n = Len(s) /\ n \in Word
  <2>1. Len(s) \in Nat
    BY LenProperties DEF Bytes
  <2>. QED
    BY <2>1, SMT DEF Word, MaxInt
<1>2. PICK e \in Bytes : e = EncodeInteger(n) /\ Len(e) = 4
  BY <1>1, IntegerArrives
<1>3. PICK u \in Bytes : u = e \o s /\ Len(u) = 4 + n
  <2>1. e \o s \in Bytes /\ Len(e \o s) = Len(e) + Len(s)
    BY Joined
  <2>. QED
    BY <1>1, <1>2, <2>1
<1>4. u = EncodeString(s)
  BY <1>1, <1>2, <1>3 DEF EncodeString
<1>5. ASSUME NEW b \in Bytes, NEW pos, At(b, pos, u)
      PROVE  DecodeString(b, pos) = s /\ AfterString(b, pos) = pos + (4 + n)
  <2>1. At(b, pos, e) /\ At(b, pos + Len(e), s) /\ pos \in Nat
    <3>1. At(b, pos, e \o s)
      BY <1>3, <1>5
    <3>2. pos \in Nat
      BY <1>5 DEF At
    <3>. QED
      BY <3>1, <3>2, AtParts
  <2>2. DecodeInteger(b, pos) = n
    BY <1>1, <1>2, <2>1, IntegerArrives
  <2>3. SubSeq(b, (pos + 4) + 1, (pos + 4) + n) = s
    BY <1>1, <1>2, <2>1, AtTaken
  <2>4. (pos + 4) + 1 = pos + 5 /\ (pos + 4) + n = pos + 4 + n /\ pos + (4 + n) = pos + 4 + n
    BY <2>1
  <2>. QED
    BY <2>2, <2>3, <2>4 DEF DecodeString, AfterString
<1>. QED
  BY <1>1, <1>3, <1>4, <1>5

-----------------------------------------------------------------------------
(* Sequences one after the other.                                          *)

\* f[i] is what the first i of the sequences q are together, up to the k-th.
Part(f, q, k) ==
  /\ f \in [0 .. k -> Bytes] /\ f[0] = <<>>
  /\ \A i \in 1 .. k : f[i] = f[i - 1] \o q[i]

Flattens(f, q) == Part(f, q, Len(q))

LEMMA Nothing ==
  /\ <<>> \in Bytes /\ Len(<<>>) = 0
  /\ \A s \in Bytes : <<>> \o s = s /\ s \o <<>> = s
<1>1. <<>> \in Bytes /\ Len(<<>>) = 0
  BY EmptySeq DEF Bytes
<1>2. \A s \in Bytes : <<>> \o s = s /\ s \o <<>> = s
  BY ConcatEmptySeq DEF Bytes
<1>. QED
  BY <1>1, <1>2

LEMMA FlattensExists ==
  ASSUME NEW q \in Seq(Bytes)
  PROVE  \E f : Flattens(f, q)
<1>1. PICK n \in Nat : n = Len(q) /\ \A i \in 1 .. n : q[i] \in Bytes
  BY LenProperties, ElementOfSeq
<1>. DEFINE S == {k \in Nat : k <= n => \E f : Part(f, q, k)}
<1>2. 0 \in S
  <2>1. Part([i \in 0 .. 0 |-> <<>>], q, 0)
    BY Nothing DEF Part
  <2>. QED
    BY <2>1
<1>3. ASSUME NEW k \in Nat, k \in S PROVE k + 1 \in S
  <2>1. SUFFICES ASSUME k + 1 <= n PROVE \E g : Part(g, q, k + 1)
    OBVIOUS
  <2>2. PICK f : Part(f, q, k)
    <3>1. k <= n
      BY <2>1
    <3>. QED
      BY <1>3, <3>1
  <2>3. PICK g : g = [i \in 0 .. k + 1 |-> IF i = k + 1 THEN f[k] \o q[k + 1] ELSE f[i]]
    OBVIOUS
  <2>4. f[k] \o q[k + 1] \in Bytes
    <3>1. f[k] \in Bytes /\ q[k + 1] \in Bytes
      BY <1>1, <2>1, <2>2 DEF Part
    <3>. QED
      BY <3>1, Joined
  <2>5. g \in [0 .. k + 1 -> Bytes] /\ g[0] = <<>>
    <3>1. \A i \in 0 .. k + 1 : i # k + 1 => i \in 0 .. k
      OBVIOUS
    <3>. QED
      BY <2>2, <2>3, <2>4, <3>1 DEF Part
  <2>6. ASSUME NEW i \in 1 .. k + 1 PROVE g[i] = g[i - 1] \o q[i]
    <3>1. CASE i = k + 1
      <4>1. i - 1 = k /\ k \in 0 .. k + 1 /\ k # k + 1
        BY <3>1
      <4>. QED
        BY <2>3, <3>1, <4>1
    <3>2. CASE i # k + 1
      <4>1. i \in 1 .. k /\ i - 1 \in 0 .. k + 1 /\ i - 1 # k + 1 /\ i \in 0 .. k + 1
        BY <3>2
      <4>. QED
        BY <2>2, <2>3, <3>2, <4>1 DEF Part
    <3>. QED
      BY <3>1, <3>2
  <2>. QED
    BY <2>5, <2>6 DEF Part
<1>4. n \in S
  <2>. HIDE DEF S
  <2>. QED
    BY <1>2, <1>3, Induction
<1>. QED
  BY <1>1, <1>4 DEF Flattens

LEMMA FlattenIsLast ==
  ASSUME NEW q \in Seq(Bytes), NEW f, Flattens(f, q)
  PROVE  FlattenSeq(q) = f[Len(q)]
<1>1. PICK n \in Nat : n = Len(q) /\ \A i \in 1 .. n : q[i] \in Bytes
  BY LenProperties, ElementOfSeq
<1>2. CASE n = 0
  <2>1. FlattenSeq(q) = q /\ q = <<>>
    BY <1>1, <1>2, EmptySeq DEF FlattenSeq
  <2>. QED
    BY <1>1, <1>2, <2>1 DEF Flattens, Part
<1>3. CASE n # 0
  <2>. DEFINE Step(h) == h = [i \in 1 .. Len(q) |-> IF i = 1 THEN q[i] ELSE h[i - 1] \o q[i]]
  <2>1. PICK h : h = CHOOSE h1 : Step(h1)
    OBVIOUS
  <2>2. FlattenSeq(q) = h[n]
    BY <1>1, <1>3, <2>1 DEF FlattenSeq
  <2>3. Step([i \in 1 .. n |-> f[i]])
    <3>. DEFINE g == [i \in 1 .. n |-> f[i]]
    <3>1. ASSUME NEW i \in 1 .. n
          PROVE  f[i] = IF i = 1 THEN q[i] ELSE g[i - 1] \o q[i]
      <4>1. f[i] = f[i - 1] \o q[i]
        BY <1>1 DEF Flattens, Part
      <4>2. CASE i = 1
        <5>1. f[i - 1] = <<>> /\ q[i] \in Bytes
          BY <1>1, <4>2 DEF Flattens, Part
        <5>. QED
          BY <4>1, <4>2, <5>1, Nothing
      <4>3. CASE i # 1
        <5>1. i - 1 \in 1 .. n
          BY <4>3
        <5>. QED
          BY <4>1, <4>3, <5>1
      <4>. QED
        BY <4>2, <4>3
    <3>. QED
      BY <1>1, <3>1
  <2>4. Step(h)
    <3>. HIDE DEF Step
    <3>. QED
      BY <2>1, <2>3
  <2>. DEFINE S == {k \in Nat : k + 1 <= n => h[k + 1] = f[k + 1]}
  <2>5. 0 \in S
    <3>1. h[1] = q[1] /\ q[1] \in Bytes
      BY <1>1, <1>3, <2>4
    <3>2. f[1] = f[0] \o q[1] /\ f[0] = <<>>
      <4>1. PICK i \in 1 .. n : i = 1 /\ i - 1 = 0
        BY <1>3
      <4>2. f[i] = f[i - 1] \o q[i] /\ f[0] = <<>>
        BY <1>1 DEF Flattens, Part
      <4>. QED
        BY <4>1, <4>2
    <3>. QED
      BY <3>1, <3>2, Nothing
  <2>6. ASSUME NEW k \in Nat, k \in S PROVE k + 1 \in S
    <3>1. SUFFICES ASSUME (k + 1) + 1 <= n PROVE h[(k + 1) + 1] = f[(k + 1) + 1]
      OBVIOUS
    <3>2. PICK i \in 1 .. n : i = (k + 1) + 1 /\ i # 1 /\ i - 1 = k + 1
      BY <1>1, <3>1
    <3>3. h[i] = h[i - 1] \o q[i]
      BY <1>1, <2>4, <3>2
    <3>4. f[i] = f[i - 1] \o q[i]
      BY <1>1 DEF Flattens, Part
    <3>5. h[k + 1] = f[k + 1]
      BY <1>1, <2>6, <3>1
    <3>. QED
      BY <3>2, <3>3, <3>4, <3>5
  <2>. HIDE DEF S
  <2>7. n - 1 \in S
    BY <1>1, <1>3, <2>5, <2>6, Induction
  <2>8. h[n] = f[n]
    BY <1>1, <1>3, <2>7 DEF S
  <2>. QED
    BY <1>1, <2>2, <2>8
<1>. QED
  BY <1>2, <1>3

\* If they are in a buffer together, each of them is, behind the ones before.
LEMMA FlatArrives ==
  ASSUME NEW q \in Seq(Bytes), NEW f, Flattens(f, q), NEW b \in Bytes, NEW pos,
         At(b, pos, f[Len(q)])
  PROVE  \A i \in 1 .. Len(q) : At(b, pos + Len(f[i - 1]), q[i])
<1>1. PICK n \in Nat : n = Len(q) /\ \A i \in 1 .. n : q[i] \in Bytes
  BY LenProperties, ElementOfSeq
<1>2. Part(f, q, n)
  BY <1>1 DEF Flattens
<1>. DEFINE Each(k) == \A i \in 1 .. k : At(b, pos + Len(f[i - 1]), q[i])
            S == {k \in Nat : k <= n /\ At(b, pos, f[k]) => Each(k)}
<1>3. 0 \in S
  OBVIOUS
<1>4. ASSUME NEW k \in Nat, k \in S PROVE k + 1 \in S
  <2>1. SUFFICES ASSUME k + 1 <= n, At(b, pos, f[k + 1]) PROVE Each(k + 1)
    OBVIOUS
  <2>2. /\ f[k] \in Bytes /\ q[k + 1] \in Bytes /\ f[k + 1] = f[k] \o q[k + 1]
    <3>1. PICK i \in 1 .. n : i = k + 1 /\ i - 1 = k /\ k \in 0 .. n
      BY <1>1, <2>1
    <3>2. f[i] = f[i - 1] \o q[i] /\ f[k] \in Bytes
      BY <1>2, <3>1 DEF Part
    <3>. QED
      BY <1>1, <3>1, <3>2
  <2>3. At(b, pos, f[k]) /\ At(b, pos + Len(f[k]), q[k + 1])
    BY <2>1, <2>2, AtParts
  <2>4. Each(k)
    <3>1. k <= n
      BY <1>1, <2>1
    <3>. QED
      BY <1>4, <2>3, <3>1
  <2>5. ASSUME NEW i \in 1 .. k + 1 PROVE At(b, pos + Len(f[i - 1]), q[i])
    <3>1. CASE i = k + 1
      <4>1. i - 1 = k
        BY <3>1
      <4>. QED
        BY <2>3, <3>1, <4>1
    <3>2. CASE i # k + 1
      <4>1. i \in 1 .. k
        BY <3>2
      <4>. QED
        BY <2>4, <4>1
    <3>. QED
      BY <3>1, <3>2
  <2>. QED
    BY <2>5
<1>5. n \in S
  <2>. HIDE DEF S
  <2>. QED
    BY <1>3, <1>4, Induction
<1>. QED
  BY <1>1, <1>5

\* What the first i and the next are together, and how long.
LEMMA PartLengths ==
  ASSUME NEW q \in Seq(Bytes), NEW f, Flattens(f, q)
  PROVE  /\ \A i \in 0 .. Len(q) : f[i] \in Bytes /\ Len(f[i]) \in Nat
         /\ Len(f[0]) = 0
         /\ \A i \in 1 .. Len(q) : Len(f[i]) = Len(f[i - 1]) + Len(q[i])
<1>1. PICK n \in Nat : n = Len(q) /\ \A i \in 1 .. n : q[i] \in Bytes
  BY LenProperties, ElementOfSeq
<1>2. Part(f, q, n)
  BY <1>1 DEF Flattens
<1>3. \A i \in 0 .. n : f[i] \in Bytes /\ Len(f[i]) \in Nat
  BY <1>2, LenProperties DEF Part, Bytes
<1>4. Len(f[0]) = 0
  BY <1>2, Nothing DEF Part
<1>5. ASSUME NEW i \in 1 .. n PROVE Len(f[i]) = Len(f[i - 1]) + Len(q[i])
  <2>1. i - 1 \in 0 .. n /\ f[i] = f[i - 1] \o q[i]
    BY <1>2 DEF Part
  <2>2. f[i - 1] \in Bytes /\ q[i] \in Bytes
    BY <1>1, <1>3, <2>1
  <2>. QED
    BY <2>1, <2>2, Joined
<1>. QED
  BY <1>1, <1>3, <1>4, <1>5

LEMMA Words ==
  ASSUME NEW q \in Seq(Bytes), NEW f, Flattens(f, q), \A i \in 1 .. Len(q) : Len(q[i]) = 4
  PROVE  \A i \in 0 .. Len(q) : Len(f[i]) = 4 * i
<1>1. PICK n \in Nat : n = Len(q)
  BY LenProperties
<1>. DEFINE S == {k \in Nat : k <= n => Len(f[k]) = 4 * k}
<1>2. 0 \in S
  <2>1. Len(f[0]) = 0
    BY PartLengths
  <2>. QED
    BY <2>1
<1>3. ASSUME NEW k \in Nat, k \in S PROVE k + 1 \in S
  <2>1. SUFFICES ASSUME k + 1 <= n PROVE Len(f[k + 1]) = 4 * (k + 1)
    OBVIOUS
  <2>2. PICK i \in 1 .. n : i = k + 1 /\ i - 1 = k
    BY <2>1
  <2>3. Len(f[i]) = Len(f[i - 1]) + Len(q[i]) /\ Len(q[i]) = 4
    BY <1>1, PartLengths
  <2>4. Len(f[k]) = 4 * k
    BY <1>3, <2>1
  <2>. QED
    BY <2>2, <2>3, <2>4
<1>4. \A k \in Nat : k \in S
  <2>. HIDE DEF S
  <2>. QED
    BY <1>2, <1>3, Induction
<1>. QED
  BY <1>1, <1>4

-----------------------------------------------------------------------------
(* Arrays of argument types.                                               *)

\* types has n argument types and the 0 at the end.
IsTypes(types, n) ==
  /\ n \in Nat /\ n <= MaxInt
  /\ types \in [1 .. n + 1 -> Int] /\ types[n + 1] = 0
  /\ \A i \in 1 .. n : types[i] \in Word \ {0}

LEMMA Counted ==
  ASSUME NEW n, NEW types, IsTypes(types, n)
  PROVE  NumberOfArgs(types) = n
<1>1. n \in Nat /\ types \in [1 .. n + 1 -> Int] /\ types[n + 1] = 0
      /\ \A i \in 1 .. n : types[i] # 0
  BY DEF IsTypes
<1>2. Len(types) - 1 = n
  BY <1>1
<1>. DEFINE P(k) == types[k + 1] = 0 /\ \A i \in 1 .. k : types[i] # 0
<1>3. n \in 0 .. n /\ P(n)
  BY <1>1
<1>4. ASSUME NEW k \in 0 .. n, P(k) PROVE k = n
  <2>1. k + 1 \notin 1 .. n
    BY <1>1, <1>4
  <2>. QED
    BY <1>1, <2>1
<1>5. NumberOfArgs(types) = CHOOSE k \in 0 .. n : P(k)
  BY <1>2 DEF NumberOfArgs
<1>. HIDE DEF P
<1>. QED
  BY <1>3, <1>4, <1>5

\* An array of types is read as it was written.
LEMMA TypesArrive ==
  ASSUME NEW n, NEW types, IsTypes(types, n)
  PROVE  /\ EncodeTypes(types) \in Bytes
         /\ \A b \in Bytes : \A pos : At(b, pos, EncodeTypes(types)) =>
              /\ DecodeTypes(b, pos) = types
              /\ AfterTypes(b, pos) = pos + Len(EncodeTypes(types))
<1>1. /\ n \in Nat /\ n \in Word /\ types \in [1 .. n + 1 -> Int] /\ types[n + 1] = 0
      /\ \A i \in 1 .. n : types[i] \in Word
  <2>1. n \in Word
    BY SMT DEF IsTypes, Word, MaxInt
  <2>. QED
    BY <2>1 DEF IsTypes
<1>2. PICK q : q = [i \in 1 .. n |-> EncodeInteger(types[i])]
  OBVIOUS
<1>3. /\ q \in Seq(Bytes) /\ Len(q) = n
      /\ \A i \in 1 .. n : q[i] = EncodeInteger(types[i]) /\ Len(q[i]) = 4
  <2>1. \A i \in 1 .. n : EncodeInteger(types[i]) \in Bytes /\ Len(EncodeInteger(types[i])) = 4
    BY <1>1, IntegerArrives
  <2>. QED
    BY <1>1, <1>2, <2>1
<1>4. PICK f : Flattens(f, q)
  BY <1>3, FlattensExists
<1>5. \A i \in 0 .. n : Len(f[i]) = 4 * i /\ f[i] \in Bytes
  BY <1>3, <1>4, Words, PartLengths
<1>6. PICK e \in Bytes, t \in Bytes :
         e = EncodeInteger(n) /\ Len(e) = 4 /\ t = FlattenSeq(q) /\ t = f[n] /\ Len(t) = 4 * n
  <2>1. FlattenSeq(q) = f[n] /\ f[n] \in Bytes /\ Len(f[n]) = 4 * n
    BY <1>1, <1>3, <1>4, <1>5, FlattenIsLast
  <2>. QED
    BY <1>1, <2>1, IntegerArrives
<1>7. PICK u \in Bytes : u = EncodeTypes(types) /\ u = e \o t /\ Len(u) = 4 + 4 * n
  <2>1. EncodeTypes(types) = e \o t
    BY <1>2, <1>6, Counted DEF EncodeTypes
  <2>2. e \o t \in Bytes /\ Len(e \o t) = Len(e) + Len(t)
    BY Joined
  <2>. QED
    BY <1>6, <2>1, <2>2
<1>8. ASSUME NEW b \in Bytes, NEW pos, At(b, pos, u)
      PROVE  DecodeTypes(b, pos) = types /\ AfterTypes(b, pos) = pos + (4 + 4 * n)
  <2>1. At(b, pos, e) /\ At(b, pos + 4, f[n]) /\ pos \in Nat
    <3>1. At(b, pos, e \o t)
      BY <1>7, <1>8
    <3>2. At(b, pos, e) /\ At(b, pos + Len(e), t)
      BY <3>1, AtParts
    <3>3. pos \in Nat
      BY <1>8 DEF At
    <3>. QED
      BY <1>6, <3>2, <3>3
  <2>2. DecodeInteger(b, pos) = n
    BY <1>1, <1>6, <2>1, IntegerArrives
  <2>3. \A i \in 1 .. n : At(b, (pos + 4) + Len(f[i - 1]), q[i])
    BY <1>3, <1>4, <2>1, FlatArrives
  <2>4. ASSUME NEW i \in 1 .. n PROVE DecodeInteger(b, pos + 4 * i) = types[i]
    <3>1. Len(f[i - 1]) = 4 * (i - 1)
      <4>1. i - 1 \in 0 .. n
        BY <1>1
      <4>. QED
        BY <1>5, <4>1
    <3>2. (pos + 4) + 4 * (i - 1) = pos + 4 * i
      BY <1>1, <2>1
    <3>3. At(b, pos + 4 * i, EncodeInteger(types[i]))
      BY <1>3, <2>3, <3>1, <3>2
    <3>. QED
      BY <1>1, <3>3, IntegerArrives
  <2>5. DecodeTypes(b, pos) = [i \in 1 .. n + 1 |-> IF i <= n THEN types[i] ELSE 0]
    BY <2>2, <2>4 DEF DecodeTypes
  <2>6. \A i \in 1 .. n + 1 : types[i] = IF i <= n THEN types[i] ELSE 0
    BY <1>1
  <2>7. DecodeTypes(b, pos) = types
    BY <1>1, <2>5, <2>6
  <2>8. AfterTypes(b, pos) = pos + (4 + 4 * n)
    BY <1>1, <2>1, <2>2 DEF AfterTypes
  <2>. QED
    BY <2>7, <2>8
<1>. QED
  BY <1>7, <1>8

-----------------------------------------------------------------------------
(* Argument types and signatures.                                          *)

LEMMA SixteenBits ==
  MaxShort = 65535
BY SMT DEF MaxShort

LEMMA ShortIsNatural ==
  MaxShort \in Nat
BY SMT DEF MaxShort

\* The int that has direction d, data type y and length l, and what it has.
Composed(d, y, l) == d * 1073741824 + y * 65536 + l

LEMMA Fields ==
  ASSUME NEW d \in {-2, 1, -1}, NEW y \in 1 .. 6, NEW l \in Nat, l <= MaxShort,
         NEW t, t = Composed(d, y, l)
  PROVE  /\ t \in Word \ {0}
         /\ LengthField(t) = l /\ GetArgType(t) = y
         /\ DirectionBits(t) = (CASE d = -2 -> 2 [] d = 1 -> 1 [] d = -1 -> 3)
<1>1. l \in Nat /\ l <= 65535
  BY SMT, SixteenBits
<1>2. t = d * 1073741824 + y * 65536 + l
  BY SMT DEF Composed
<1>3. PICK m \in Int : m = d * 16384 + y /\ t = 65536 * m + l
  BY SMT, <1>1, <1>2
<1>4. t \in Int /\ t # 0 /\ -2147483648 <= t /\ t <= 2147483647
  BY SMT, <1>1, <1>2
<1>5. t % 65536 = l /\ t \div 65536 = m
  BY SMT, <1>1, <1>3
<1>6. m % 256 = y
  BY SMT, <1>3
<1>7. t \div 1073741824 = d
  BY SMT, <1>1, <1>2
<1>8. (d = -2 => d % 4 = 2) /\ (d = 1 => d % 4 = 1) /\ (d = -1 => d % 4 = 3)
  BY SMT
<1>9. t \in Word \ {0}
  BY SMT, <1>4 DEF Word, MaxInt
<1>10. LengthField(t) = l /\ GetArgType(t) = y
  BY SMT, <1>5, <1>6 DEF LengthField, GetArgType
<1>11. DirectionBits(t) = (CASE d = -2 -> 2 [] d = 1 -> 1 [] d = -1 -> 3)
  BY SMT, <1>7, <1>8 DEF DirectionBits
<1>. QED
  BY <1>9, <1>10, <1>11

\* The int of a parameter has all that the parameter is.
LEMMA ArgTypeFacts ==
  ASSUME NEW p \in Parameter
  PROVE  /\ ArgType(p) \in Word \ {0}
         /\ LengthField(ArgType(p)) = p.length
         /\ TypeNumber(p.type) \in 1 .. 6 /\ GetArgType(ArgType(p)) = TypeNumber(p.type)
         /\ IsOnlyInput(ArgType(p)) <=> p.direction = "input"
         /\ IsOnlyOutput(ArgType(p)) <=> p.direction = "output"
         /\ IsInputOutput(ArgType(p)) <=> p.direction = "both"
         /\ NBytes(ArgType(p)) \in Nat
<1>1. /\ p.direction \in Direction /\ p.type \in DataType
      /\ p.length \in Nat /\ p.length <= MaxShort
  BY ShortIsNatural DEF Parameter
<1>2. PICK y \in 1 .. 6 : y = TypeNumber(p.type)
  BY <1>1 DEF DataType, TypeNumber
<1>3. PICK d \in {-2, 1, -1} :
         /\ d = (CASE p.direction = "input" -> -2 [] p.direction = "output" -> 1
                   [] p.direction = "both" -> -1)
         /\ d = -2 <=> p.direction = "input"
         /\ d = 1 <=> p.direction = "output"
         /\ d = -1 <=> p.direction = "both"
  BY <1>1 DEF Direction
<1>4. PICK t : t = ArgType(p) /\ t = Composed(d, y, p.length)
  <2>1. ArgType(p) = Composed(d, y, p.length)
    <3>1. CASE p.direction = "input"
      BY <1>2, <1>3, <3>1, SMT DEF ArgType, Composed
    <3>2. CASE p.direction = "output"
      BY <1>2, <1>3, <3>2, SMT DEF ArgType, Composed
    <3>3. CASE p.direction = "both"
      BY <1>2, <1>3, <3>3, SMT DEF ArgType, Composed
    <3>. QED
      BY <1>1, <3>1, <3>2, <3>3 DEF Direction
  <2>. QED
    BY <2>1
<1>5. /\ t \in Word \ {0} /\ LengthField(t) = p.length /\ GetArgType(t) = y
      /\ DirectionBits(t) = (CASE d = -2 -> 2 [] d = 1 -> 1 [] d = -1 -> 3)
  BY <1>1, <1>4, Fields
<1>6. /\ IsOnlyInput(t) <=> p.direction = "input"
      /\ IsOnlyOutput(t) <=> p.direction = "output"
      /\ IsInputOutput(t) <=> p.direction = "both"
  <2>1. /\ d = -2 => DirectionBits(t) = 2
        /\ d = 1 => DirectionBits(t) = 1
        /\ d = -1 => DirectionBits(t) = 3
    BY <1>5, SMT
  <2>2. d = -2 \/ d = 1 \/ d = -1
    BY <1>3
  <2>3. PICK z : z = DirectionBits(t)
    OBVIOUS
  <2>4. /\ d = -2 <=> z = 2
        /\ d = 1 <=> z = 1
        /\ d = -1 <=> z = 3
    BY <2>1, <2>2, <2>3
  <2>. QED
    BY <1>3, <2>3, <2>4 DEF IsOnlyInput, IsOnlyOutput, IsInputOutput
<1>7. NBytes(t) \in Nat
  <2>1. GetSizeOfArgType(y) \in Nat
    BY DEF GetSizeOfArgType
  <2>2. GetArgLength(t) \in Nat
    BY <1>1, <1>5 DEF GetArgLength
  <2>3. \A i, j \in Nat : i * j \in Nat
    OBVIOUS
  <2>. QED
    BY <1>5, <2>1, <2>2, <2>3 DEF NBytes
<1>. QED
  BY <1>2, <1>4, <1>5, <1>6, <1>7

LEMMA FunctionFacts ==
  ASSUME NEW f \in Function
  PROVE  /\ Len(f.params) \in Nat /\ \A i \in 1 .. Len(f.params) : f.params[i] \in Parameter
         /\ IsTypes(ArgTypes(f), Len(f.params))
         /\ \A i \in 1 .. Len(f.params) : ArgTypes(f)[i] = ArgType(f.params[i])
         /\ f.name \in Bytes /\ Len(f.name) <= MaxInt
<1>1. /\ f.name \in Seq(0 .. 255) /\ f.params \in Seq(Parameter)
      /\ Len(f.name) <= MaxInt /\ Len(f.params) <= MaxInt
  BY MarshallingAssumption
<1>2. PICK n \in Nat : n = Len(f.params) /\ n <= MaxInt
  BY <1>1, LenProperties
<1>3. \A i \in 1 .. n : f.params[i] \in Parameter
  BY <1>1, <1>2, ElementOfSeq
<1>4. \A i \in 1 .. n : ArgTypes(f)[i] = ArgType(f.params[i])
  BY <1>2 DEF ArgTypes
<1>5. \A i \in 1 .. n : ArgType(f.params[i]) \in Word \ {0} /\ ArgType(f.params[i]) \in Int
  <2>1. \A x \in Word : x \in Int
    BY DEF Word
  <2>. QED
    BY <1>3, <2>1, ArgTypeFacts
<1>6. ArgTypes(f) \in [1 .. n + 1 -> Int] /\ ArgTypes(f)[n + 1] = 0
  BY <1>2, <1>5 DEF ArgTypes
<1>7. IsTypes(ArgTypes(f), n)
  BY <1>2, <1>4, <1>5, <1>6 DEF IsTypes
<1>. QED
  BY <1>1, <1>2, <1>3, <1>4, <1>7 DEF Bytes

\* What of a parameter is in a signature.
Element(p) ==
  <<IF p.length = 0 THEN "SCALAR" ELSE "ARRAY",
    CASE p.direction = "input" -> "INPUT" [] p.direction = "output" -> "OUTPUT"
      [] p.direction = "both" -> "BOTH",
    TypeNumber(p.type)>>

LEMMA Elements ==
  ASSUME NEW p \in Parameter, NEW q \in Parameter
  PROVE  Element(p) = Element(q) <=> SameParameter(p, q)
<1>1. /\ p.direction \in Direction /\ p.type \in DataType
      /\ q.direction \in Direction /\ q.type \in DataType
  BY DEF Parameter
<1>2. TypeNumber(p.type) = TypeNumber(q.type) <=> p.type = q.type
  BY <1>1 DEF DataType, TypeNumber
<1>3. Element(p)[2] = Element(q)[2] <=> p.direction = q.direction
  BY <1>1 DEF Direction, Element
<1>4. Element(p)[1] = Element(q)[1] <=> (p.length = 0 <=> q.length = 0)
  BY DEF Element
<1>5. Element(p) = Element(q) <=> \A i \in {1, 2, 3} : Element(p)[i] = Element(q)[i]
  BY DEF Element
<1>6. Element(p)[3] = TypeNumber(p.type) /\ Element(q)[3] = TypeNumber(q.type)
  BY DEF Element
<1>. QED
  BY <1>2, <1>3, <1>4, <1>5, <1>6 DEF SameParameter

LEMMA SignatureOfFunction ==
  ASSUME NEW f \in Function
  PROVE  SignatureOf(f.name, ArgTypes(f)) =
           <<f.name, [i \in 1 .. Len(f.params) |-> Element(f.params[i])]>>
<1>1. PICK n \in Nat : n = Len(f.params) /\ \A i \in 1 .. n : f.params[i] \in Parameter
  BY FunctionFacts
<1>2. NumberOfArgs(ArgTypes(f)) = n
  BY <1>1, FunctionFacts, Counted
<1>3. ASSUME NEW i \in 1 .. n
      PROVE  <<IF LengthField(ArgTypes(f)[i]) = 0 THEN "SCALAR" ELSE "ARRAY",
               CASE IsOnlyInput(ArgTypes(f)[i]) -> "INPUT"
                 [] IsOnlyOutput(ArgTypes(f)[i]) -> "OUTPUT"
                 [] IsInputOutput(ArgTypes(f)[i]) -> "BOTH",
               GetArgType(ArgTypes(f)[i])>> = Element(f.params[i])
  <2>1. PICK p \in Parameter : p = f.params[i] /\ ArgTypes(f)[i] = ArgType(p)
    BY <1>1, FunctionFacts
  <2>2. p.direction \in Direction
    BY DEF Parameter
  <2>. QED
    BY <2>1, <2>2, ArgTypeFacts DEF Element, Direction
<1>. QED
  BY <1>1, <1>2, <1>3 DEF SignatureOf

\* signature_of_arg_types tells exactly the functions apart that are not the same
\* but for the lengths of arrays: signature.cc, and the claim of signature.h:10-12.
THEOREM SameSignature ==
  ASSUME NEW f \in Function, NEW g \in Function
  PROVE  SignatureOf(f.name, ArgTypes(f)) = SignatureOf(g.name, ArgTypes(g))
           <=> SameFunction(f, g)
<1>1. PICK n \in Nat, m \in Nat :
         /\ n = Len(f.params) /\ \A i \in 1 .. n : f.params[i] \in Parameter
         /\ m = Len(g.params) /\ \A i \in 1 .. m : g.params[i] \in Parameter
  BY FunctionFacts
<1>2. PICK F, G : /\ F = [i \in 1 .. n |-> Element(f.params[i])]
                  /\ G = [i \in 1 .. m |-> Element(g.params[i])]
  OBVIOUS
<1>3. SignatureOf(f.name, ArgTypes(f)) = SignatureOf(g.name, ArgTypes(g))
        <=> f.name = g.name /\ F = G
  <2>1. /\ SignatureOf(f.name, ArgTypes(f)) = <<f.name, F>>
        /\ SignatureOf(g.name, ArgTypes(g)) = <<g.name, G>>
    BY <1>1, <1>2, SignatureOfFunction
  <2>. QED
    BY <2>1
<1>4. F = G => n = m
  <2>1. DOMAIN F = 1 .. n /\ DOMAIN G = 1 .. m
    BY <1>2
  <2>2. 1 .. n = 1 .. m => n = m
    <3> SUFFICES ASSUME 1 .. n = 1 .. m PROVE n = m
      OBVIOUS
    <3>1. \A i \in Int : 1 <= i /\ i <= n <=> 1 <= i /\ i <= m
      OBVIOUS
    <3>. QED
      BY <3>1
  <2>. QED
    BY <2>1, <2>2
<1>5. n = m => (F = G <=> \A i \in 1 .. n : Element(f.params[i]) = Element(g.params[i]))
  BY <1>2
<1>6. n = m => \A i \in 1 .. n :
        Element(f.params[i]) = Element(g.params[i]) <=> SameParameter(f.params[i], g.params[i])
  BY <1>1, Elements
<1>. QED
  BY <1>1, <1>3, <1>4, <1>5, <1>6 DEF SameFunction

-----------------------------------------------------------------------------
(* Arguments.                                                              *)

\* data has, for each of the n argument types, as many bytes as it takes.
IsData(data, types, n) ==
  /\ data \in Seq(Bytes) /\ Len(data) = n
  /\ \A i \in 1 .. n : Len(data[i]) = NBytes(types[i])

\* All of the bytes of an argument are sent.
LEMMA DataSent ==
  ASSUME NEW n, NEW types, IsTypes(types, n), NEW data, IsData(data, types, n)
  PROVE  [i \in 1 .. NumberOfArgs(types) |-> SubSeq(data[i], 1, NBytes(types[i]))] = data
<1>1. /\ n \in Nat /\ n = Len(data) /\ data \in [1 .. n -> Bytes]
      /\ \A i \in 1 .. n : data[i] \in Bytes /\ Len(data[i]) = NBytes(types[i])
  BY LenProperties, ElementOfSeq DEF IsTypes, IsData
<1>2. ASSUME NEW i \in 1 .. n PROVE SubSeq(data[i], 1, NBytes(types[i])) = data[i]
  <2>1. PICK s \in Bytes : s = data[i] /\ Len(s) = NBytes(types[i]) /\ Len(s) \in Nat
    BY <1>1, LenProperties DEF Bytes
  <2>2. SubSeq(s, 0 + 1, 0 + Len(s)) = s
    BY AtStart, AtTaken
  <2>3. 0 + 1 = 1 /\ 0 + Len(s) = Len(s)
    BY <2>1
  <2>. QED
    BY <2>1, <2>2, <2>3
<1>3. NumberOfArgs(types) = n
  BY Counted
<1>. QED
  BY <1>1, <1>2, <1>3

\* Arguments are read as they were written.
LEMMA DataArrives ==
  ASSUME NEW n, NEW types, IsTypes(types, n), NEW data, IsData(data, types, n),
         NEW b \in Bytes, NEW pos, At(b, pos, FlattenSeq(data))
  PROVE  DecodeArgs(b, pos, types) = data
<1>1. /\ n \in Nat /\ n = Len(data) /\ data \in Seq(Bytes) /\ data \in [1 .. n -> Bytes]
      /\ \A i \in 1 .. n : data[i] \in Bytes /\ Len(data[i]) = NBytes(types[i])
  BY LenProperties, ElementOfSeq DEF IsTypes, IsData
<1>2. PICK f : Flattens(f, data)
  BY <1>1, FlattensExists
<1>3. /\ Len(f[0]) = 0 /\ \A i \in 0 .. n : Len(f[i]) \in Nat
      /\ \A i \in 1 .. n : Len(f[i]) = Len(f[i - 1]) + NBytes(types[i])
      /\ \A i \in 1 .. n : At(b, pos + Len(f[i - 1]), data[i])
  <2>1. FlattenSeq(data) = f[n]
    BY <1>1, <1>2, FlattenIsLast
  <2>2. /\ Len(f[0]) = 0 /\ \A i \in 0 .. n : Len(f[i]) \in Nat
        /\ \A i \in 1 .. n : Len(f[i]) = Len(f[i - 1]) + Len(data[i])
    BY <1>1, <1>2, PartLengths
  <2>3. \A i \in 1 .. n : At(b, pos + Len(f[i - 1]), data[i])
    BY <1>1, <1>2, <2>1, FlatArrives
  <2>. QED
    BY <1>1, <2>2, <2>3
<1>4. pos \in Nat
  BY DEF At
<1>5. PICK e : e = [k \in 0 .. n |-> pos + Len(f[k])]
  OBVIOUS
<1>6. /\ e[0] = pos /\ \A i \in 0 .. n : e[i] \in Nat
      /\ \A i \in 1 .. n : e[i] = e[i - 1] + NBytes(types[i])
      /\ \A i \in 1 .. n : At(b, e[i - 1], data[i])
  <2>1. e[0] = pos /\ \A i \in 0 .. n : e[i] \in Nat
    BY <1>1, <1>3, <1>4, <1>5
  <2>2. ASSUME NEW i \in 1 .. n
        PROVE  e[i] = e[i - 1] + NBytes(types[i]) /\ At(b, e[i - 1], data[i])
    <3>1. i - 1 \in 0 .. n /\ i \in 0 .. n
      BY <1>1
    <3>2. e[i] = pos + Len(f[i]) /\ e[i - 1] = pos + Len(f[i - 1])
      BY <1>5, <3>1
    <3>3. PICK x \in Nat, y \in Nat, z \in Nat :
             x = Len(f[i - 1]) /\ y = Len(f[i]) /\ z = NBytes(types[i]) /\ y = x + z
      <4>1. Len(data[i]) \in Nat /\ Len(data[i]) = NBytes(types[i])
        BY <1>1, LenProperties DEF Bytes
      <4>. QED
        BY <1>3, <3>1, <4>1
    <3>4. pos + y = (pos + x) + z
      BY <1>4, <3>3
    <3>. QED
      BY <1>3, <3>2, <3>3, <3>4
  <2>. QED
    BY <2>1, <2>2
<1>. DEFINE Step(h) == h = [i \in 1 .. NumberOfArgs(types) + 1 |->
                              IF i = 1 THEN pos ELSE h[i - 1] + NBytes(types[i - 1])]
<1>7. PICK h : h = CHOOSE h1 : Step(h1)
  OBVIOUS
<1>8. NumberOfArgs(types) = n
  BY Counted
<1>9. DecodeArgs(b, pos, types) = [i \in 1 .. n |-> SubSeq(b, h[i] + 1, h[i + 1])]
  BY <1>7, <1>8 DEF DecodeArgs
<1>10. Step([i \in 1 .. n + 1 |-> e[i - 1]])
  <2>. DEFINE g == [i \in 1 .. n + 1 |-> e[i - 1]]
  <2>1. ASSUME NEW i \in 1 .. n + 1
        PROVE  e[i - 1] = IF i = 1 THEN pos ELSE g[i - 1] + NBytes(types[i - 1])
    <3>1. CASE i = 1
      <4>1. i - 1 = 0
        BY <3>1
      <4>. QED
        BY <1>6, <3>1, <4>1
    <3>2. CASE i # 1
      <4>1. PICK j \in 1 .. n : j = i - 1 /\ j \in 1 .. n + 1
        BY <1>1, <3>2
      <4>2. e[j] = e[j - 1] + NBytes(types[j]) /\ g[j] = e[j - 1]
        BY <1>6, <4>1
      <4>. QED
        BY <3>2, <4>1, <4>2
    <3>. QED
      BY <3>1, <3>2
  <2>. QED
    BY <1>8, <2>1
<1>11. Step(h)
  <2>. HIDE DEF Step
  <2>. QED
    BY <1>7, <1>10
<1>. DEFINE S == {k \in Nat : k <= n => h[k + 1] = e[k]}
<1>12. 0 \in S
  <2>1. PICK i \in 1 .. n + 1 : i = 1 /\ i = 0 + 1
    BY <1>1
  <2>. QED
    BY <1>6, <1>8, <1>11, <2>1
<1>13. ASSUME NEW k \in Nat, k \in S PROVE k + 1 \in S
  <2>1. SUFFICES ASSUME k + 1 <= n PROVE h[(k + 1) + 1] = e[k + 1]
    OBVIOUS
  <2>2. PICK j \in 1 .. n : j = k + 1 /\ j - 1 = k /\ j + 1 \in 1 .. n + 1 /\ j + 1 # 1 /\ (j + 1) - 1 = j
    BY <1>1, <2>1
  <2>3. h[j + 1] = h[j] + NBytes(types[j])
    BY <1>8, <1>11, <2>2
  <2>4. h[j] = e[j - 1]
    BY <1>1, <1>13, <2>1, <2>2
  <2>5. h[j + 1] = e[j]
    BY <1>6, <2>3, <2>4
  <2>. QED
    BY <2>2, <2>5
<1>14. \A k \in Nat : k \in S
  <2>. HIDE DEF S
  <2>. QED
    BY <1>12, <1>13, Induction
<1>15. ASSUME NEW i \in 1 .. n PROVE SubSeq(b, h[i] + 1, h[i + 1]) = data[i]
  <2>1. h[i] = e[i - 1] /\ h[i + 1] = e[i]
    <3>1. PICK k \in Nat : k = i - 1 /\ k + 1 = i /\ k <= n /\ i \in Nat /\ i <= n
      BY <1>1
    <3>2. k \in S /\ i \in S
      BY <1>14, <3>1
    <3>. QED
      BY <3>1, <3>2
  <2>2. SubSeq(b, e[i - 1] + 1, e[i - 1] + Len(data[i])) = data[i]
    BY <1>1, <1>6, AtTaken
  <2>. QED
    BY <1>1, <1>6, <2>1, <2>2
<1>. QED
  BY <1>1, <1>9, <1>15

-----------------------------------------------------------------------------
(* Messages.                                                               *)

LEMMA OneByte ==
  ASSUME NEW x \in 0 .. 255
  PROVE  <<x>> \in Bytes /\ Len(<<x>>) = 1 /\ <<x>>[1] = x
BY DEF Bytes

\* A message is its tag and what comes after.
LEMMA Tagged ==
  ASSUME NEW x \in 0 .. 255, NEW s \in Bytes
  PROVE  <<x>> \o s \in Bytes /\ (<<x>> \o s)[1] = x
<1>1. PICK t \in Bytes : t = <<x>> /\ Len(t) = 1 /\ t[1] = x
  BY OneByte
<1>2. t \o s \in Bytes /\ \A i \in 1 .. Len(t) : (t \o s)[i] = t[i]
  BY Joined
<1>3. 1 \in 1 .. Len(t)
  BY <1>1
<1>. QED
  BY <1>1, <1>2, <1>3

LEMMA Tags ==
  /\ RegisterTag \in 0 .. 255 /\ LocateRequestTag \in 0 .. 255
  /\ LocateSuccessTag \in 0 .. 255 /\ LocateFailureTag \in 0 .. 255
  /\ ExecuteTag \in 0 .. 255 /\ ExecuteFailureTag \in 0 .. 255
  /\ LocateSuccessTag # LocateFailureTag /\ ExecuteTag # ExecuteFailureTag
BY DEF RegisterTag, LocateRequestTag, LocateSuccessTag, LocateFailureTag, ExecuteTag,
       ExecuteFailureTag

LEMMA TagPut ==
  ASSUME NEW x \in 0 .. 255
  PROVE  \E t \in Bytes : t = <<x>> /\ Len(t) = 1 /\ t[1] = x
BY OneByte

LEMMA Put ==
  ASSUME NEW s \in Bytes, NEW t \in Bytes, Len(s) > 0
  PROVE  \E u \in Bytes : /\ u = s \o t /\ Len(u) = Len(s) + Len(t)
                          /\ Len(u) > 0 /\ u[1] = s[1]
<1>1. PICK u \in Bytes : /\ u = s \o t /\ Len(u) = Len(s) + Len(t)
                         /\ Len(s) \in Nat /\ Len(t) \in Nat
                         /\ \A i \in 1 .. Len(s) : u[i] = s[i]
  <2>1. s \o t \in Bytes
    BY Joined
  <2>2. /\ Len(s \o t) = Len(s) + Len(t) /\ Len(s) \in Nat /\ Len(t) \in Nat
        /\ \A i \in 1 .. Len(s) : (s \o t)[i] = s[i]
    BY Joined
  <2>. QED
    BY <2>1, <2>2
<1>2. 1 \in 1 .. Len(s) /\ Len(u) > 0
  BY <1>1
<1>. QED
  BY <1>1, <1>2

LEMMA LocateSuccessArrives ==
  ASSUME NEW host \in Bytes, Len(host) <= MaxInt, NEW port \in Word
  PROVE  /\ LocateSuccess(host, port) \in Bytes
         /\ LocateSuccess(host, port)[1] = LocateSuccessTag
         /\ DecodeLocateSuccess(LocateSuccess(host, port)) = [host |-> host, port |-> port]
<1>1. PICK t \in Bytes : t = <<LocateSuccessTag>> /\ Len(t) = 1 /\ t[1] = LocateSuccessTag
  BY Tags, TagPut
<1>2. PICK h \in Bytes : h = EncodeString(host)
  BY StringArrives
<1>3. PICK p \in Bytes : p = EncodeInteger(port)
  BY IntegerArrives
<1>4. PICK u \in Bytes : u = t \o h /\ Len(u) = Len(t) + Len(h) /\ Len(u) > 0 /\ u[1] = t[1]
  <2>1. Len(t) > 0
    BY <1>1
  <2>. QED
    BY <2>1, Put
<1>5. PICK b \in Bytes : b = u \o p /\ Len(b) = Len(u) + Len(p) /\ Len(b) > 0 /\ b[1] = u[1]
  BY <1>4, Put
<1>6. b = LocateSuccess(host, port)
  BY <1>1, <1>2, <1>3, <1>4, <1>5 DEF LocateSuccess
<1>7. At(b, 0, u) /\ At(b, 0 + Len(u), p)
  BY <1>5, AtStart, AtParts
<1>8. At(b, 0 + Len(t), h)
  BY <1>4, <1>7, AtParts
<1>9. 0 + Len(t) = 1 /\ 0 + Len(u) = 1 + Len(h)
  BY <1>1, <1>4, LenProperties DEF Bytes
<1>10. DecodeString(b, 1) = host /\ AfterString(b, 1) = 1 + Len(h)
  <2>1. At(b, 1, EncodeString(host))
    BY <1>2, <1>8, <1>9
  <2>2. DecodeString(b, 1) = host /\ AfterString(b, 1) = 1 + Len(EncodeString(host))
    BY <2>1, StringArrives
  <2>. QED
    BY <1>2, <2>2
<1>11. DecodeInteger(b, AfterString(b, 1)) = port
  BY <1>3, <1>7, <1>9, <1>10, IntegerArrives
<1>. QED
  BY <1>1, <1>4, <1>5, <1>6, <1>10, <1>11 DEF DecodeLocateSuccess

\* A name and the types after it, of which REGISTER, LOCATE_REQUEST and
\* EXECUTE are made.
LEMMA NameAndTypesArrive ==
  ASSUME NEW s \in Bytes, NEW name \in Bytes, Len(name) <= MaxInt,
         NEW n, NEW types, IsTypes(types, n)
  PROVE  /\ s \o EncodeString(name) \o EncodeTypes(types) \in Bytes
         /\ \A b \in Bytes : At(b, 0, s \o EncodeString(name) \o EncodeTypes(types)) =>
              /\ DecodeString(b, Len(s)) = name
              /\ DecodeTypes(b, AfterString(b, Len(s))) = types
              /\ AfterTypes(b, AfterString(b, Len(s)))
                   = Len(s \o EncodeString(name) \o EncodeTypes(types))
<1>1. PICK m \in Bytes : m = EncodeString(name)
  BY StringArrives
<1>2. PICK e \in Bytes : e = EncodeTypes(types)
  BY TypesArrive
<1>3. PICK u \in Bytes : u = s \o m /\ Len(u) = Len(s) + Len(m)
  BY Joined
<1>4. PICK v \in Bytes : v = u \o e /\ Len(v) = Len(u) + Len(e)
  BY Joined
<1>5. Len(s) \in Nat /\ Len(m) \in Nat /\ Len(e) \in Nat /\ Len(u) \in Nat
  BY LenProperties DEF Bytes
<1>6. ASSUME NEW b \in Bytes, At(b, 0, v)
      PROVE  /\ DecodeString(b, Len(s)) = name
             /\ DecodeTypes(b, AfterString(b, Len(s))) = types
             /\ AfterTypes(b, AfterString(b, Len(s))) = Len(v)
  <2>1. At(b, 0, u) /\ At(b, 0 + Len(u), e)
    BY <1>4, <1>6, AtParts
  <2>2. At(b, 0 + Len(s), m)
    BY <1>3, <2>1, AtParts
  <2>3. 0 + Len(s) = Len(s) /\ 0 + Len(u) = Len(u)
    BY <1>5
  <2>4. DecodeString(b, Len(s)) = name /\ AfterString(b, Len(s)) = Len(u)
    <3>1. At(b, Len(s), EncodeString(name))
      BY <1>1, <2>2, <2>3
    <3>2. /\ DecodeString(b, Len(s)) = name
          /\ AfterString(b, Len(s)) = Len(s) + Len(EncodeString(name))
      BY <3>1, StringArrives
    <3>. QED
      BY <1>1, <1>3, <3>2
  <2>5. At(b, Len(u), EncodeTypes(types))
    BY <1>2, <2>1, <2>3
  <2>6. /\ DecodeTypes(b, Len(u)) = types
        /\ AfterTypes(b, Len(u)) = Len(u) + Len(EncodeTypes(types))
    BY <2>5, TypesArrive
  <2>. QED
    BY <1>2, <1>4, <2>4, <2>6
<1>. QED
  BY <1>1, <1>2, <1>3, <1>4, <1>6

LEMMA LocateRequestArrives ==
  ASSUME NEW name \in Bytes, Len(name) <= MaxInt, NEW n, NEW types, IsTypes(types, n)
  PROVE  /\ LocateRequest(name, types) \in Bytes
         /\ DecodeLocateRequest(LocateRequest(name, types)) = [name |-> name, types |-> types]
<1>1. PICK t \in Bytes : t = <<LocateRequestTag>> /\ Len(t) = 1 /\ t[1] = LocateRequestTag
  BY Tags, TagPut
<1>2. PICK b \in Bytes : b = t \o EncodeString(name) \o EncodeTypes(types)
  BY NameAndTypesArrive
<1>3. b = LocateRequest(name, types)
  BY <1>1, <1>2 DEF LocateRequest
<1>4. DecodeString(b, 1) = name /\ DecodeTypes(b, AfterString(b, 1)) = types
  <2>1. At(b, 0, t \o EncodeString(name) \o EncodeTypes(types))
    BY <1>2, AtStart
  <2>2. /\ DecodeString(b, Len(t)) = name
        /\ DecodeTypes(b, AfterString(b, Len(t))) = types
    BY <2>1, NameAndTypesArrive
  <2>. QED
    BY <1>1, <2>2
<1>. QED
  BY <1>3, <1>4 DEF DecodeLocateRequest

LEMMA RegisterArrives ==
  ASSUME NEW host \in Bytes, Len(host) <= MaxInt, NEW port \in Word,
         NEW name \in Bytes, Len(name) <= MaxInt, NEW n, NEW types, IsTypes(types, n)
  PROVE  /\ Register(host, port, name, types) \in Bytes
         /\ DecodeRegister(Register(host, port, name, types))
              = [host |-> host, port |-> port, name |-> name, types |-> types]
<1>1. PICK t \in Bytes : t = <<RegisterTag>> /\ Len(t) = 1 /\ t[1] = RegisterTag
  BY Tags, TagPut
<1>2. PICK h \in Bytes : h = EncodeString(host)
  BY StringArrives
<1>3. PICK p \in Bytes : p = EncodeInteger(port) /\ Len(p) = 4
  BY IntegerArrives
<1>4. PICK u \in Bytes : u = t \o h /\ Len(u) = Len(t) + Len(h) /\ Len(u) > 0 /\ u[1] = t[1]
  <2>1. Len(t) > 0
    BY <1>1
  <2>. QED
    BY <2>1, Put
<1>5. PICK v \in Bytes : v = u \o p /\ Len(v) = Len(u) + Len(p) /\ Len(v) > 0 /\ v[1] = u[1]
  BY <1>4, Put
<1>6. PICK b \in Bytes : b = v \o EncodeString(name) \o EncodeTypes(types)
  BY NameAndTypesArrive
<1>7. b = Register(host, port, name, types)
  BY <1>1, <1>2, <1>3, <1>4, <1>5, <1>6 DEF Register
<1>8. PICK m \in Bytes, e \in Bytes : m = EncodeString(name) /\ e = EncodeTypes(types)
  BY StringArrives, TypesArrive
<1>9. At(b, 0, v)
  <2>1. v \o m \in Bytes /\ b = (v \o m) \o e
    BY <1>6, <1>8, Joined
  <2>2. At(b, 0, v \o m)
    BY <2>1, AtStart, AtParts
  <2>. QED
    BY <1>8, <2>2, AtParts
<1>10. At(b, 0, u) /\ At(b, 0 + Len(u), p)
  BY <1>5, <1>9, AtParts
<1>11. At(b, 0 + Len(t), h)
  BY <1>4, <1>10, AtParts
<1>12. 0 + Len(t) = 1 /\ 0 + Len(u) = 1 + Len(h) /\ (1 + Len(h)) + 4 = Len(v)
  BY <1>1, <1>3, <1>4, <1>5, LenProperties DEF Bytes
<1>13. DecodeString(b, 1) = host /\ AfterString(b, 1) = 1 + Len(h)
  <2>1. At(b, 1, EncodeString(host))
    BY <1>2, <1>11, <1>12
  <2>2. DecodeString(b, 1) = host /\ AfterString(b, 1) = 1 + Len(EncodeString(host))
    BY <2>1, StringArrives
  <2>. QED
    BY <1>2, <2>2
<1>14. DecodeInteger(b, 1 + Len(h)) = port
  BY <1>3, <1>10, <1>12, IntegerArrives
<1>15. /\ DecodeString(b, Len(v)) = name
       /\ DecodeTypes(b, AfterString(b, Len(v))) = types
  <2>1. At(b, 0, v \o EncodeString(name) \o EncodeTypes(types))
    BY <1>6, AtStart
  <2>. QED
    BY <2>1, NameAndTypesArrive
<1>. QED
  BY <1>7, <1>12, <1>13, <1>14, <1>15 DEF DecodeRegister

LEMMA ExecuteArrives ==
  ASSUME NEW name \in Bytes, Len(name) <= MaxInt, NEW n, NEW types, IsTypes(types, n),
         NEW data, IsData(data, types, n)
  PROVE  /\ Execute(name, types, data) \in Bytes
         /\ Execute(name, types, data)[1] = ExecuteTag
         /\ DecodeExecute(Execute(name, types, data))
              = [name |-> name, types |-> types, args |-> data]
<1>1. PICK t \in Bytes : t = <<ExecuteTag>> /\ Len(t) = 1 /\ t[1] = ExecuteTag
  BY Tags, TagPut
<1>2. PICK m \in Bytes, e \in Bytes : m = EncodeString(name) /\ e = EncodeTypes(types)
  BY StringArrives, TypesArrive
<1>3. PICK u \in Bytes : u = t \o m /\ Len(u) = Len(t) + Len(m) /\ Len(u) > 0 /\ u[1] = t[1]
  <2>1. Len(t) > 0
    BY <1>1
  <2>. QED
    BY <2>1, Put
<1>4. PICK v \in Bytes : v = u \o e /\ Len(v) = Len(u) + Len(e) /\ Len(v) > 0 /\ v[1] = u[1]
  BY <1>3, Put
<1>5. PICK d \in Bytes : d = FlattenSeq(data)
  <2>1. data \in Seq(Bytes)
    BY DEF IsData
  <2>2. PICK f : Flattens(f, data)
    BY <2>1, FlattensExists
  <2>3. FlattenSeq(data) = f[Len(data)] /\ Len(data) \in Nat
    BY <2>1, <2>2, FlattenIsLast, LenProperties
  <2>4. Len(data) \in 0 .. Len(data)
    BY <2>3
  <2>5. f[Len(data)] \in Bytes
    BY <2>1, <2>2, <2>4, PartLengths
  <2>. QED
    BY <2>3, <2>5
<1>6. PICK b \in Bytes : b = v \o d /\ Len(b) = Len(v) + Len(d) /\ Len(b) > 0 /\ b[1] = v[1]
  BY <1>4, Put
<1>7. b = Execute(name, types, data)
  BY <1>1, <1>2, <1>3, <1>4, <1>5, <1>6, DataSent DEF Execute
<1>8. At(b, 0, v) /\ At(b, 0 + Len(v), d)
  BY <1>6, AtStart, AtParts
<1>9. /\ DecodeString(b, 1) = name
      /\ DecodeTypes(b, AfterString(b, 1)) = types
      /\ AfterTypes(b, AfterString(b, 1)) = Len(v)
  <2>1. v = t \o EncodeString(name) \o EncodeTypes(types)
    BY <1>2, <1>3, <1>4
  <2>. QED
    <3>1. At(b, 0, t \o EncodeString(name) \o EncodeTypes(types))
      BY <1>8, <2>1
    <3>2. /\ DecodeString(b, Len(t)) = name
          /\ DecodeTypes(b, AfterString(b, Len(t))) = types
          /\ AfterTypes(b, AfterString(b, Len(t)))
               = Len(t \o EncodeString(name) \o EncodeTypes(types))
      BY <3>1, NameAndTypesArrive
    <3>. QED
      BY <1>1, <2>1, <3>2
<1>10. DecodeArgs(b, Len(v), types) = data
  <2>1. 0 + Len(v) = Len(v)
    BY LenProperties DEF Bytes
  <2>. QED
    BY <1>5, <1>8, <2>1, DataArrives
<1>. QED
  BY <1>1, <1>3, <1>4, <1>6, <1>7, <1>9, <1>10 DEF DecodeExecute

\* A status message has its tag, and of its status the lowest byte.
LEMMA StatusArrives ==
  ASSUME NEW tag \in 0 .. 255, NEW status \in Int
  PROVE  /\ StatusMessage(tag, status) \in Bytes /\ StatusMessage(tag, status)[1] = tag
         /\ DecodeStatus(StatusMessage(tag, status)) \in -128 .. 127
         /\ DecodeStatus(StatusMessage(tag, status)) = 0 <=> status % 256 = 0
<1>1. PICK x \in 0 .. 255 : x = status % 256
  OBVIOUS
<1>2. /\ StatusMessage(tag, status) = <<tag, x>> /\ <<tag, x>> \in Bytes
      /\ <<tag, x>>[1] = tag /\ <<tag, x>>[2] = x
  BY <1>1 DEF StatusMessage, Bytes
<1>3. DecodeStatus(<<tag, x>>) = IF x > 127 THEN x - 256 ELSE x
  BY <1>2 DEF DecodeStatus
<1>. QED
  BY <1>1, <1>2, <1>3

-----------------------------------------------------------------------------
(* The call.                                                               *)

LEMMA ClientDataFits ==
  ASSUME NEW f \in Function
  PROVE  IsData(ClientData(f), ArgTypes(f), Len(f.params))
<1>1. PICK n \in Nat : n = Len(f.params) /\ \A i \in 1 .. n : NBytes(ArgTypes(f)[i]) \in Nat
  BY FunctionFacts, ArgTypeFacts
<1>2. ASSUME NEW i \in 1 .. n
      PROVE  /\ [k \in 1 .. NBytes(ArgTypes(f)[i]) |-> (16 * i + k) % 128] \in Bytes
             /\ Len([k \in 1 .. NBytes(ArgTypes(f)[i]) |-> (16 * i + k) % 128])
                  = NBytes(ArgTypes(f)[i])
  <2>1. PICK m \in Nat : m = NBytes(ArgTypes(f)[i])
    BY <1>1
  <2>2. \A k \in 1 .. m : (16 * i + k) % 128 \in 0 .. 255
    OBVIOUS
  <2>3. PICK s : s = [k \in 1 .. m |-> (16 * i + k) % 128]
    OBVIOUS
  <2>4. s \in Bytes /\ Len(s) = m
    BY <2>2, <2>3 DEF Bytes
  <2>. QED
    BY <2>1, <2>3, <2>4
<1>3. /\ ClientData(f) \in Seq(Bytes) /\ Len(ClientData(f)) = n
      /\ \A i \in 1 .. n : ClientData(f)[i]
                             = [k \in 1 .. NBytes(ArgTypes(f)[i]) |-> (16 * i + k) % 128]
  BY <1>1, <1>2 DEF ClientData
<1>. QED
  BY <1>1, <1>2, <1>3 DEF IsData

LEMMA WrittenFits ==
  ASSUME NEW n \in Nat, NEW i \in Nat
  PROVE  Written(n, i) \in Bytes /\ Len(Written(n, i)) = n
<1>1. \A k \in 1 .. n : 128 + ((16 * i + k) % 128) \in 0 .. 255
  OBVIOUS
<1>. QED
  BY <1>1 DEF Written, Bytes

Steps == {"register", "locate", "located", "execute", "reply", "done"}

Kinds ==
  /\ served \in Function /\ called \in Function /\ ran \in BOOLEAN /\ returned \in Int
  /\ wire \in Bytes /\ step \in Steps
  /\ result \in -128 .. 127 \cup {LocateFailureStatus}
  /\ IsData(args, ArgTypes(called), Len(called.params))
  /\ ran => IsData(serverArgs, ArgTypes(called), Len(called.params))

\* Nothing has run before there is a reply, and the arguments of the client are
\* what they were until it has heard it.
Untouched ==
  /\ step \in {"register", "locate", "located", "execute"} => ~ran
  /\ step # "done" => args = ClientData(called)

\* What is on its way, and what the binder knows.
Sent ==
  /\ step = "register" => wire = Register(Host, Port, served.name, ArgTypes(served))
  /\ step = "locate" =>
       /\ wire = LocateRequest(called.name, ArgTypes(called))
       /\ signatures = {<<SignatureOf(served.name, ArgTypes(served)), Host, Port>>}
  /\ step = "execute" => wire = Execute(called.name, ArgTypes(called), ClientData(called))
  /\ step = "reply" =>
       wire = IF ran /\ returned = 0
              THEN Execute(called.name, ArgTypes(called), serverArgs)
              ELSE StatusMessage(ExecuteFailureTag, IF ran THEN returned ELSE UnexpectedMessage)

Inv == Kinds /\ Untouched /\ Sent /\ LocatedIffSame /\ OutputsComeBack /\ ZeroMeansSuccess

LEMMA Address ==
  Host \in Bytes /\ Len(Host) <= MaxInt /\ Port \in Word
<1>1. Port \in 1 .. MaxShort
  BY MarshallingAssumption
<1>2. Port \in Nat /\ Port <= MaxShort
  BY <1>1, ShortIsNatural
<1>3. Port \in Word
  BY <1>2, SixteenBits, SMT DEF MaxInt, Word
<1>. QED
  BY <1>3, MarshallingAssumption DEF Bytes

LEMMA Initially ==
  Init => Inv
<1>. SUFFICES ASSUME Init PROVE Inv
  OBVIOUS
<1>1. /\ served \in Function /\ called \in Function /\ step = "register" /\ ran = FALSE
      /\ wire = Register(Host, Port, served.name, ArgTypes(served))
      /\ returned = 0 /\ args = ClientData(called) /\ result = 0
  BY DEF Init
<1>2. wire \in Bytes
  BY <1>1, Address, FunctionFacts, RegisterArrives
<1>3. Kinds
  <2>1. IsData(args, ArgTypes(called), Len(called.params))
    BY <1>1, ClientDataFits
  <2>2. result \in -128 .. 127 /\ returned \in Int
    <3>1. result = 0 /\ returned = 0
      BY <1>1
    <3>. QED
      BY <3>1
  <2>3. ran \in BOOLEAN
    BY <1>1, Zenon
  <2>4. step \in Steps
    BY <1>1 DEF Steps
  <2>. QED
    BY <1>1, <1>2, <2>1, <2>2, <2>3, <2>4, Zenon DEF Kinds
<1>. QED
  BY <1>1, <1>3 DEF Inv, Untouched, Sent, LocatedIffSame, OutputsComeBack, ZeroMeansSuccess

LEMMA RegisterHandled ==
  Inv /\ HandleRegister => Inv'
<1>. SUFFICES ASSUME Inv, HandleRegister PROVE Inv'
  OBVIOUS
<1>1. /\ step = "register" /\ step' = "locate" /\ Kinds /\ Untouched
      /\ UNCHANGED <<served, called, ran, serverArgs, returned, args, result>>
      /\ wire = Register(Host, Port, served.name, ArgTypes(served))
      /\ wire' = LocateRequest(called.name, ArgTypes(called))
  BY DEF Inv, Sent, HandleRegister, callFrame, serverFrame, clientFrame
<1>2. served \in Function /\ called \in Function
  BY <1>1 DEF Kinds
<1>3. DecodeRegister(wire) = [host |-> Host, port |-> Port, name |-> served.name,
                              types |-> ArgTypes(served)]
  BY <1>1, <1>2, Address, FunctionFacts, RegisterArrives
<1>4. signatures' = {<<SignatureOf(served.name, ArgTypes(served)), Host, Port>>}
  BY <1>3 DEF HandleRegister
<1>5. wire' \in Bytes
  BY <1>1, <1>2, FunctionFacts, LocateRequestArrives
<1>6. Kinds'
  BY <1>1, <1>5 DEF Kinds, Steps
<1>. QED
  BY <1>1, <1>4, <1>6
  DEF Inv, Untouched, Sent, LocatedIffSame, OutputsComeBack, ZeroMeansSuccess

LEMMA LocateHandled ==
  Inv /\ HandleLocate => Inv'
<1>. SUFFICES ASSUME Inv, HandleLocate PROVE Inv'
  OBVIOUS
<1>1. /\ step = "locate" /\ step' = "located" /\ Kinds /\ Untouched
      /\ UNCHANGED <<served, called, ran, serverArgs, returned, args, result>>
      /\ wire = LocateRequest(called.name, ArgTypes(called))
      /\ signatures = {<<SignatureOf(served.name, ArgTypes(served)), Host, Port>>}
  BY DEF Inv, Sent, HandleLocate, callFrame, serverFrame, clientFrame
<1>2. served \in Function /\ called \in Function
  BY <1>1 DEF Kinds
<1>3. DecodeLocateRequest(wire) = [name |-> called.name, types |-> ArgTypes(called)]
  BY <1>1, <1>2, FunctionFacts, LocateRequestArrives
<1>. DEFINE found == {s \in signatures : s[1] = SignatureOf(called.name, ArgTypes(called))}
<1>4. IF found = {} THEN wire' = StatusMessage(LocateFailureTag, 1)
      ELSE \E s \in found : wire' = LocateSuccess(s[2], s[3])
  BY <1>3 DEF HandleLocate
<1>5. wire' = IF SameFunction(served, called) THEN LocateSuccess(Host, Port)
              ELSE StatusMessage(LocateFailureTag, 1)
  <2>1. PICK a, c : /\ a = SignatureOf(served.name, ArgTypes(served))
                    /\ c = SignatureOf(called.name, ArgTypes(called))
    OBVIOUS
  <2>2. a = c <=> SameFunction(served, called)
    BY <1>2, <2>1, SameSignature
  <2>3. CASE a = c
    <3>1. found = {<<a, Host, Port>>}
      BY <1>1, <2>1, <2>3
    <3>. HIDE DEF found
    <3>2. <<a, Host, Port>>[2] = Host /\ <<a, Host, Port>>[3] = Port
      OBVIOUS
    <3>3. \E s \in {<<a, Host, Port>>} : wire' = LocateSuccess(s[2], s[3])
      BY <1>4, <3>1, Zenon
    <3>4. wire' = LocateSuccess(<<a, Host, Port>>[2], <<a, Host, Port>>[3])
      BY <3>3, Zenon
    <3>. QED
      BY <2>2, <2>3, <3>2, <3>4
  <2>4. CASE a # c
    <3>1. found = {}
      BY <1>1, <2>1, <2>4
    <3>. HIDE DEF found
    <3>. QED
      BY <1>4, <2>2, <2>4, <3>1
  <2>. QED
    BY <2>3, <2>4
<1>6. wire' \in Bytes
  <2>1. LocateSuccess(Host, Port) \in Bytes
    BY Address, LocateSuccessArrives
  <2>2. StatusMessage(LocateFailureTag, 1) \in Bytes
    <3>1. 1 \in Int
      OBVIOUS
    <3>. QED
      BY <3>1, Tags, StatusArrives
  <2>. QED
    BY <1>5, <2>1, <2>2
<1>7. Kinds'
  BY <1>1, <1>6 DEF Kinds, Steps
<1>8. SameFunction(served, called)' <=> SameFunction(served, called)
  BY <1>1
<1>. QED
  BY <1>1, <1>5, <1>7, <1>8
  DEF Inv, Untouched, Sent, LocatedIffSame, OutputsComeBack, ZeroMeansSuccess

LEMMA LocateIsHeard ==
  Inv /\ LocateHeard => Inv'
<1>. SUFFICES ASSUME Inv, LocateHeard PROVE Inv'
  OBVIOUS
<1>1. /\ step = "located" /\ Kinds /\ ~ran /\ args = ClientData(called)
      /\ UNCHANGED <<served, called, ran, serverArgs, returned, args>>
  BY DEF Inv, Untouched, LocateHeard, callFrame, serverFrame
<1>2. called \in Function
  BY <1>1 DEF Kinds
<1>3. CASE wire[1] = LocateFailureTag
  <2>1. result' = LocateFailureStatus /\ step' = "done" /\ wire' = wire
    BY <1>3, Tags DEF LocateHeard
  <2>2. Kinds'
    BY <1>1, <2>1 DEF Kinds, Steps
  <2>3. LocateFailureStatus # 0
    BY DEF LocateFailureStatus
  <2>4. OutputsComeBack' /\ ZeroMeansSuccess'
    BY <1>1, <2>1, <2>3 DEF OutputsComeBack, ZeroMeansSuccess
  <2>. QED
    BY <2>1, <2>2, <2>4 DEF Inv, Untouched, Sent, LocatedIffSame
<1>4. CASE wire[1] = LocateSuccessTag
  <2>1. /\ wire' = Execute(called.name, ArgTypes(called), ClientData(called))
        /\ step' = "execute" /\ result' = result
    BY <1>1, <1>4, Tags DEF LocateHeard
  <2>2. wire' \in Bytes
    BY <1>2, <2>1, FunctionFacts, ClientDataFits, ExecuteArrives
  <2>3. Kinds'
    BY <1>1, <2>1, <2>2 DEF Kinds, Steps
  <2>. QED
    BY <1>1, <2>1, <2>3
    DEF Inv, Untouched, Sent, LocatedIffSame, OutputsComeBack, ZeroMeansSuccess
<1>. QED
  BY <1>3, <1>4 DEF LocateHeard

LEMMA ExecuteHandled ==
  Inv /\ HandleExecute => Inv'
<1>. SUFFICES ASSUME Inv, HandleExecute PROVE Inv'
  OBVIOUS
<1>1. /\ step = "execute" /\ step' = "reply" /\ Kinds /\ ~ran /\ args = ClientData(called)
      /\ UNCHANGED <<served, called, args, result>>
      /\ wire = Execute(called.name, ArgTypes(called), ClientData(called))
  BY DEF Inv, Untouched, Sent, HandleExecute, callFrame, clientFrame
<1>2. PICK n \in Nat : /\ called \in Function /\ n = Len(called.params)
                       /\ IsTypes(ArgTypes(called), n) /\ IsData(ClientData(called), ArgTypes(called), n)
  BY <1>1, FunctionFacts, ClientDataFits DEF Kinds
<1>3. DecodeExecute(wire) = [name |-> called.name, types |-> ArgTypes(called),
                             args |-> ClientData(called)]
  BY <1>1, <1>2, FunctionFacts, ExecuteArrives
<1>4. CASE /\ wire' = StatusMessage(ExecuteFailureTag, UnexpectedMessage)
           /\ UNCHANGED <<ran, serverArgs, returned>>
  <2>1. wire' \in Bytes
    <3>1. UnexpectedMessage \in Int
      BY DEF UnexpectedMessage
    <3>. QED
      BY <1>4, <3>1, Tags, StatusArrives
  <2>2. Kinds'
    BY <1>1, <1>4, <2>1 DEF Kinds, Steps
  <2>. QED
    BY <1>1, <1>4, <2>2
    DEF Inv, Untouched, Sent, LocatedIffSame, OutputsComeBack, ZeroMeansSuccess
<1>5. CASE /\ ran' = TRUE /\ returned' \in Return
           /\ \E overwritten \in SUBSET (1 .. Len(ClientData(called))) :
                serverArgs' = [i \in 1 .. Len(ClientData(called)) |->
                                 IF i \in overwritten THEN Written(NBytes(ArgTypes(called)[i]), i)
                                 ELSE ClientData(called)[i]]
           /\ wire' = IF returned' = 0
                      THEN Execute(called.name, ArgTypes(called), serverArgs')
                      ELSE StatusMessage(ExecuteFailureTag, returned')
  <2>1. PICK data : data = ClientData(called) /\ Len(data) = n
    BY <1>2 DEF IsData
  <2>2. PICK overwritten :
           serverArgs' = [i \in 1 .. n |-> IF i \in overwritten
                                           THEN Written(NBytes(ArgTypes(called)[i]), i)
                                           ELSE data[i]]
    BY <1>5, <2>1
  <2>3. \A i \in 1 .. n : /\ NBytes(ArgTypes(called)[i]) \in Nat
                          /\ data[i] \in Bytes /\ Len(data[i]) = NBytes(ArgTypes(called)[i])
    BY <1>2, <2>1, FunctionFacts, ArgTypeFacts, ElementOfSeq DEF IsData
  <2>4. IsData(serverArgs', ArgTypes(called), n)
    <3>1. \A i \in 1 .. n : /\ serverArgs'[i] \in Bytes
                            /\ Len(serverArgs'[i]) = NBytes(ArgTypes(called)[i])
      BY <2>2, <2>3, WrittenFits
    <3>2. serverArgs' \in Seq(Bytes) /\ Len(serverArgs') = n
      BY <1>2, <2>2, <3>1
    <3>. QED
      BY <3>1, <3>2 DEF IsData
  <2>5. returned' \in Int
    BY <1>5, MarshallingAssumption
  <2>6. wire' \in Bytes
    <3>1. Execute(called.name, ArgTypes(called), serverArgs') \in Bytes
      BY <1>2, <2>4, FunctionFacts, ExecuteArrives
    <3>2. StatusMessage(ExecuteFailureTag, returned') \in Bytes
      BY <2>5, Tags, StatusArrives
    <3>. QED
      BY <1>5, <3>1, <3>2
  <2>7. Kinds'
    BY <1>1, <1>2, <1>5, <2>4, <2>5, <2>6 DEF Kinds, Steps
  <2>. QED
    BY <1>1, <1>5, <2>7
    DEF Inv, Untouched, Sent, LocatedIffSame, OutputsComeBack, ZeroMeansSuccess
<1>6. PICK m : m = DecodeExecute(wire)
  OBVIOUS
<1>7. m.name = called.name /\ m.types = ArgTypes(called) /\ m.args = ClientData(called)
  BY <1>3, <1>6
<1>8. \/ /\ wire' = StatusMessage(ExecuteFailureTag, UnexpectedMessage)
         /\ UNCHANGED <<ran, serverArgs, returned>>
      \/ /\ ran' = TRUE /\ returned' \in Return
         /\ \E overwritten \in SUBSET (1 .. Len(m.args)) :
              serverArgs' = [i \in 1 .. Len(m.args) |->
                               IF i \in overwritten THEN Written(NBytes(m.types[i]), i)
                               ELSE m.args[i]]
         /\ wire' = IF returned' = 0 THEN Execute(m.name, m.types, serverArgs')
                    ELSE StatusMessage(ExecuteFailureTag, returned')
  BY <1>6 DEF HandleExecute, serverFrame
<1>. QED
  BY <1>4, <1>5, <1>7, <1>8

LEMMA ReplyIsHeard ==
  Inv /\ ReplyHeard => Inv'
<1>. SUFFICES ASSUME Inv, ReplyHeard PROVE Inv'
  OBVIOUS
<1>1. /\ step = "reply" /\ step' = "done" /\ Kinds /\ args = ClientData(called)
      /\ UNCHANGED <<served, called, ran, serverArgs, returned, wire>>
  BY DEF Inv, Untouched, ReplyHeard, callFrame, serverFrame
<1>2. PICK n \in Nat : /\ called \in Function /\ n = Len(called.params)
                       /\ IsTypes(ArgTypes(called), n) /\ IsData(args, ArgTypes(called), n)
                       /\ \A i \in 1 .. n : /\ called.params[i] \in Parameter
                                            /\ ArgTypes(called)[i] = ArgType(called.params[i])
  BY <1>1, FunctionFacts DEF Kinds
<1>3. DOMAIN args = 1 .. n /\ args \in Seq(Bytes)
  BY <1>2, LenProperties DEF IsData
<1>4. CASE ran /\ returned = 0
  <2>1. /\ wire = Execute(called.name, ArgTypes(called), serverArgs)
        /\ IsData(serverArgs, ArgTypes(called), n)
    BY <1>1, <1>2, <1>4 DEF Inv, Kinds, Sent
  <2>2. /\ wire[1] = ExecuteTag
        /\ DecodeExecute(wire) = [name |-> called.name, types |-> ArgTypes(called),
                                  args |-> serverArgs]
    BY <1>2, <2>1, FunctionFacts, ExecuteArrives
  <2>3. args' = CopyOutputArgumentsBack(DecodeExecute(wire)) /\ result' = 0
    BY <2>2, Tags DEF ReplyHeard
  <2>4. \A i \in 1 .. n :
           IsOnlyOutput(ArgTypes(called)[i]) \/ IsInputOutput(ArgTypes(called)[i])
             <=> called.params[i].direction # "input"
    <3>1. \A p \in Parameter : p.direction \in {"input", "output", "both"}
      BY DEF Parameter, Direction
    <3>. QED
      BY <1>2, <3>1, ArgTypeFacts
  <2>5. args' = [i \in 1 .. n |-> IF called.params[i].direction # "input"
                                  THEN serverArgs[i] ELSE ClientData(called)[i]]
    BY <1>1, <1>3, <2>2, <2>3, <2>4 DEF CopyOutputArgumentsBack
  <2>6. IsData(args', ArgTypes(called), n)
    <3>1. \A i \in 1 .. n :
             /\ args[i] \in Bytes /\ serverArgs[i] \in Bytes
             /\ Len(args[i]) = NBytes(ArgTypes(called)[i])
             /\ Len(serverArgs[i]) = NBytes(ArgTypes(called)[i])
      BY <1>2, <2>1, ElementOfSeq DEF IsData
    <3>2. \A i \in 1 .. n : args'[i] \in Bytes /\ Len(args'[i]) = NBytes(ArgTypes(called)[i])
      BY <1>1, <2>5, <3>1
    <3>3. args' \in Seq(Bytes) /\ Len(args') = n
      <4>1. args' = [i \in 1 .. n |-> args'[i]]
        BY <2>5
      <4>2. \A i \in 1 .. n : args'[i] \in Bytes
        BY <3>2
      <4>3. [i \in 1 .. n |-> args'[i]] \in Seq(Bytes) /\ Len([i \in 1 .. n |-> args'[i]]) = n
        BY <1>2, <4>2
      <4>. QED
        BY <4>1, <4>3
    <3>. QED
      BY <3>2, <3>3 DEF IsData
  <2>7. Kinds'
    BY <1>1, <1>2, <2>3, <2>6 DEF Kinds, Steps
  <2>8. OutputsComeBack'
    BY <1>1, <1>4, <2>5 DEF OutputsComeBack
  <2>9. ZeroMeansSuccess'
    BY <1>1, <1>4, <2>3 DEF ZeroMeansSuccess
  <2>. QED
    BY <1>1, <2>7, <2>8, <2>9 DEF Inv, Untouched, Sent, LocatedIffSame
<1>5. CASE ~(ran /\ returned = 0)
  <2>1. PICK status \in Int : /\ status = IF ran THEN returned ELSE UnexpectedMessage
                              /\ wire = StatusMessage(ExecuteFailureTag, status)
    <3>1. wire = StatusMessage(ExecuteFailureTag, IF ran THEN returned ELSE UnexpectedMessage)
      BY <1>1, <1>5 DEF Inv, Sent
    <3>2. UnexpectedMessage \in Int
      BY DEF UnexpectedMessage
    <3>3. returned \in Int
      BY <1>1 DEF Kinds
    <3>. QED
      BY <3>1, <3>2, <3>3, Zenon
  <2>2. /\ wire[1] = ExecuteFailureTag /\ DecodeStatus(wire) \in -128 .. 127
        /\ DecodeStatus(wire) = 0 <=> status % 256 = 0
    <3>1. ExecuteFailureTag \in 0 .. 255
      BY Tags
    <3>2. /\ StatusMessage(ExecuteFailureTag, status)[1] = ExecuteFailureTag
          /\ DecodeStatus(StatusMessage(ExecuteFailureTag, status)) \in -128 .. 127
          /\ DecodeStatus(StatusMessage(ExecuteFailureTag, status)) = 0 <=> status % 256 = 0
      BY <3>1, StatusArrives
    <3>. QED
      BY <2>1, <3>2, Zenon
  <2>3. result' = DecodeStatus(wire) /\ args' = args
    BY <2>2, Tags DEF ReplyHeard
  <2>4. Kinds'
    BY <1>1, <2>2, <2>3 DEF Kinds, Steps
  <2>5. OutputsComeBack'
    BY <1>1, <1>5, <2>3 DEF OutputsComeBack
  <2>6. UnexpectedMessage % 256 # 0
    BY DEF UnexpectedMessage
  <2>7. ZeroMeansSuccess'
    BY <1>1, <1>5, <2>1, <2>2, <2>3, <2>6 DEF ZeroMeansSuccess, Kinds
  <2>. QED
    BY <1>1, <2>4, <2>5, <2>7 DEF Inv, Untouched, Sent, LocatedIffSame
<1>. QED
  BY <1>4, <1>5

LEMMA Always ==
  Spec => []Inv
<1>1. Inv /\ [Next]_vars => Inv'
  <2>1. ASSUME Inv, UNCHANGED vars PROVE Inv'
    BY <2>1 DEF vars, Inv, Kinds, Untouched, Sent, LocatedIffSame, OutputsComeBack,
                ZeroMeansSuccess
  <2>. QED
    BY <2>1, RegisterHandled, LocateHandled, LocateIsHeard, ExecuteHandled, ReplyIsHeard
    DEF Next, Done
<1>. QED
  BY <1>1, Initially, PTL DEF Spec

-----------------------------------------------------------------------------
(* Theorems.                                                               *)

\* What is sent are bytes, the arguments keep their sizes, and what rpcCall
\* returns is a code of its own or fits a char.
THEOREM TypeCorrect ==
  Spec => []TypeOK
<1>1. Inv => TypeOK
  <2>. SUFFICES ASSUME Inv PROVE TypeOK
    OBVIOUS
  <2>1. Kinds
    BY DEF Inv
  <2>2. ASSUME NEW i \in DOMAIN args
        PROVE  args[i] \in Seq(0 .. 255) /\ Len(args[i]) = NBytes(ArgTypes(called)[i])
    <3>1. PICK n : n = Len(called.params) /\ IsData(args, ArgTypes(called), n)
      BY <2>1 DEF Kinds
    <3>2. args \in Seq(Bytes) /\ i \in 1 .. n /\ n = Len(args)
      BY <3>1, LenProperties DEF IsData
    <3>3. args[i] \in Bytes
      BY <3>2, ElementOfSeq
    <3>. QED
      BY <3>1, <3>2, <3>3 DEF IsData, Bytes
  <2>. QED
    BY <2>1, <2>2 DEF Kinds, TypeOK, Bytes, Steps
<1>. QED
  BY <1>1, Always, PTL

\* A function is located if and only if it is the one that was registered, and
\* at the address the server gave: signature.cc, binder.cc.
THEOREM LocatesTheSame ==
  Spec => []LocatedIffSame
<1>1. Inv => LocatedIffSame
  BY DEF Inv
<1>. QED
  BY <1>1, Always, PTL

\* Every field that a Serializer reads is the one that was written.
THEOREM ReadAsWritten ==
  Spec => []MessagesArrive
<1>1. Inv => MessagesArrive
  <2>. SUFFICES ASSUME Inv PROVE MessagesArrive
    OBVIOUS
  <2>1. served \in Function /\ called \in Function /\ Sent /\ LocatedIffSame
    BY DEF Inv, Kinds
  <2>2. step = "register" =>
          DecodeRegister(wire) = [host |-> Host, port |-> Port, name |-> served.name,
                                  types |-> ArgTypes(served)]
    BY <2>1, Address, FunctionFacts, RegisterArrives DEF Sent
  <2>3. step = "locate" =>
          DecodeLocateRequest(wire) = [name |-> called.name, types |-> ArgTypes(called)]
    BY <2>1, FunctionFacts, LocateRequestArrives DEF Sent
  <2>4. ASSUME step = "located", wire[1] = LocateSuccessTag
        PROVE  DecodeLocateSuccess(wire) = [host |-> Host, port |-> Port]
    <3>1. StatusMessage(LocateFailureTag, 1)[1] = LocateFailureTag
      <4>1. 1 \in Int
        OBVIOUS
      <4>. QED
        BY <4>1, Tags, StatusArrives
    <3>2. wire = LocateSuccess(Host, Port)
      BY <2>1, <2>4, <3>1, Tags DEF LocatedIffSame
    <3>. QED
      BY <3>2, Address, LocateSuccessArrives
  <2>5. step = "execute" =>
          DecodeExecute(wire) = [name |-> called.name, types |-> ArgTypes(called),
                                 args |-> ClientData(called)]
    BY <2>1, FunctionFacts, ClientDataFits, ExecuteArrives DEF Sent
  <2>. QED
    BY <2>2, <2>3, <2>4, <2>5 DEF MessagesArrive
<1>. QED
  BY <1>1, Always, PTL

\* The client's outputs are what a successful skeleton left, everything else is
\* what it was: copy_output_arguments_back and what it is given.
THEOREM OutputsAreCopiedBack ==
  Spec => []OutputsComeBack
<1>1. Inv => OutputsComeBack
  BY DEF Inv
<1>. QED
  BY <1>1, Always, PTL

\* rpcCall returns 0 for a skeleton that succeeded, and otherwise only for one
\* whose code is 0 in its lowest byte.
THEOREM ZeroIsSuccess ==
  Spec => []ZeroMeansSuccess
<1>1. Inv => ZeroMeansSuccess
  BY DEF Inv
<1>. QED
  BY <1>1, Always, PTL

=============================================================================
