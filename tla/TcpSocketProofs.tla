-------------------------- MODULE TcpSocketProofs --------------------------
(***************************************************************************)
(* Theorems about TcpSocket, for any connections, any number and length of *)
(* messages, any capacity of a socket and any base of the bytes: that recv *)
(* returns the messages that were sent, whole and in order, if the bytes of*)
(* a length arrive together.                                               *)
(***************************************************************************)
EXTENDS TcpSocket, SequenceTheorems, TLAPS

-----------------------------------------------------------------------------
(* What a stream carries.                                                  *)

Bytes == Seq(Nat)

\* The bytes of a message on the wire.
Frame(m) == Encode(Len(m)) \o m

\* rest[j] is what follows the first j messages of ms on the wire.
IsWire(rest, ms) ==
  /\ rest \in [0 .. Len(ms) -> Bytes]
  /\ rest[Len(ms)] = <<>>
  /\ \A j \in 1 .. Len(ms) : rest[j - 1] = Frame(ms[j]) \o rest[j]
  /\ \A i, j \in 0 .. Len(ms) : i <= j => Len(rest[j]) <= Len(rest[i])

\* The first a bytes of the wire do not end within the length of a message.
Whole(a, rest, ms) ==
  \A j \in 1 .. Len(ms) : a # Len(rest[0]) - Len(rest[j - 1]) + 1

\* Stream s is the wire of ms but for what is lost at its end, and its first a
\* bytes are there.
Carries(s, a, ms, rest, lost) ==
  /\ IsWire(rest, ms)
  /\ lost \in Bytes /\ s \o lost = rest[0]
  /\ a \in 0 .. Len(s) /\ Whole(a, rest, ms)

-----------------------------------------------------------------------------
(* Lengths and sequences.                                                  *)

LEMMA Numbers ==
  /\ Base \in Nat /\ Base > 1 /\ MaxSent \in Nat /\ MaxLength \in Nat
  /\ Capacity \in Nat
<1>1. Base \in Nat /\ Base > 1 /\ Base - 1 \in Nat /\ Capacity \in Nat
  BY TcpSocketAssumption
<1>2. \A b \in Nat : b * b - 1 \in Int
  OBVIOUS
<1>. QED
  BY <1>1, <1>2, TcpSocketAssumption

\* Decode is the inverse of Encode.
LEMMA Decoding ==
  ASSUME NEW n \in Nat
  PROVE  /\ Encode(n) \in Bytes /\ Len(Encode(n)) = 2
         /\ \A s \in Bytes : Len(s) = 2 /\ s[1] = Encode(n)[1] /\ s[2] = Encode(n)[2]
                               => Decode(s) = n /\ s = Encode(n)
<1>1. /\ n % Base \in Nat /\ n \div Base \in Nat
      /\ n = (n % Base) + Base * (n \div Base)
  BY Numbers
<1>2. /\ Encode(n) \in Bytes /\ Len(Encode(n)) = 2
      /\ Encode(n)[1] = n % Base /\ Encode(n)[2] = n \div Base
  BY <1>1 DEF Encode, Bytes
<1>3. ASSUME NEW s \in Bytes, Len(s) = 2, s[1] = Encode(n)[1], s[2] = Encode(n)[2]
      PROVE  Decode(s) = n /\ s = Encode(n)
  <2>1. Decode(s) = n
    BY <1>1, <1>2, <1>3 DEF Decode
  <2>2. \A i \in 1 .. 2 : i = 1 \/ i = 2
    OBVIOUS
  <2>3. s = Encode(n)
    BY <1>2, <1>3, <2>2, SeqEqual DEF Bytes
  <2>. QED
    BY <2>1, <2>3
<1>. QED
  BY <1>2, <1>3

LEMMA MessageIsSeq ==
  ASSUME NEW m \in Message
  PROVE  m \in Bytes /\ Len(m) \in 0 .. MaxLength
<1>1. PICK k \in 1 .. MaxSent, n \in 0 .. MaxLength : m = Content(k, n)
  BY DEF Message
<1>2. k \in Nat /\ n \in Nat
  BY <1>1, Numbers
<1>3. [i \in 1 .. n |-> k] \in [1 .. n -> Nat]
  BY <1>2
<1>4. Content(k, n) \in Seq(Nat) /\ Len(Content(k, n)) = n
  BY <1>2, <1>3 DEF Content
<1>. QED
  BY <1>1, <1>4 DEF Bytes

LEMMA Joined ==
  ASSUME NEW s \in Bytes, NEW t \in Bytes
  PROVE  /\ s \o t \in Bytes /\ Len(s) \in Nat /\ Len(t) \in Nat
         /\ Len(s \o t) = Len(s) + Len(t)
         /\ \A i \in 1 .. Len(s) : (s \o t)[i] = s[i]
         /\ \A i \in 1 .. Len(t) : (s \o t)[Len(s) + i] = t[i]
<1>1. Len(s) \in Nat /\ Len(t) \in Nat
  BY LenProperties DEF Bytes
<1>2. /\ s \o t \in Bytes /\ Len(s \o t) = Len(s) + Len(t)
      /\ \A i \in 1 .. Len(s) + Len(t) :
           (s \o t)[i] = IF i <= Len(s) THEN s[i] ELSE t[i - Len(s)]
  BY ConcatProperties DEF Bytes
<1>3. ASSUME NEW i \in 1 .. Len(s) PROVE (s \o t)[i] = s[i]
  BY <1>1, <1>2
<1>4. ASSUME NEW i \in 1 .. Len(t) PROVE (s \o t)[Len(s) + i] = t[i]
  <2>1. Len(s) + i \in 1 .. Len(s) + Len(t) /\ ~(Len(s) + i <= Len(s)) /\ (Len(s) + i) - Len(s) = i
    BY <1>1
  <2>. QED
    BY <1>2, <2>1
<1>. QED
  BY <1>1, <1>2, <1>3, <1>4

\* Regrouping three sequences; by its name, where many are at hand.
Associative(s, t, u) == (s \o t) \o u = s \o (t \o u)

LEMMA Associates ==
  ASSUME NEW s \in Bytes, NEW t \in Bytes, NEW u \in Bytes
  PROVE  (s \o t) \o u = s \o (t \o u)
BY ConcatAssociative, SMTT(30) DEF Bytes

LEMMA Association ==
  ASSUME NEW s \in Bytes, NEW t \in Bytes, NEW u \in Bytes
  PROVE  Associative(s, t, u)
BY Associates DEF Associative

LEMMA Nothing ==
  /\ <<>> \in Bytes /\ Len(<<>>) = 0
  /\ \A s \in Bytes : <<>> \o s = s /\ s \o <<>> = s /\ (Len(s) = 0 => s = <<>>)
<1>1. <<>> \in Bytes /\ Len(<<>>) = 0
  BY EmptySeq DEF Bytes
<1>2. ASSUME NEW s \in Bytes
      PROVE  <<>> \o s = s /\ s \o <<>> = s /\ (Len(s) = 0 => s = <<>>)
  <2>1. <<>> \o s = s /\ s \o <<>> = s
    BY ConcatEmptySeq DEF Bytes
  <2>2. Len(s) = 0 => s = <<>>
    BY EmptySeq DEF Bytes
  <2>. QED
    BY <2>1, <2>2
<1>. QED
  BY <1>1, <1>2

\* Equal concatenations with beginnings of one length have the same parts.
LEMMA Cancelled ==
  ASSUME NEW f \in Bytes, NEW t \in Bytes, NEW g \in Bytes, NEW u \in Bytes,
         Len(f) = Len(g), f \o t = g \o u
  PROVE  f = g /\ t = u
<1>1. \A i \in 1 .. Len(f) : f[i] = g[i]
  BY Joined
<1>2. f = g
  BY <1>1, SeqEqual DEF Bytes
<1>. QED
  BY <1>2, ConcatSimplifications DEF Bytes

LEMMA FrameIsSeq ==
  ASSUME NEW m \in Bytes
  PROVE  /\ Frame(m) \in Bytes /\ Len(Frame(m)) = 2 + Len(m) /\ Len(m) \in Nat
         /\ Frame(m)[1] = Encode(Len(m))[1] /\ Frame(m)[2] = Encode(Len(m))[2]
<1>1. Len(m) \in Nat
  BY LenProperties DEF Bytes
<1>2. PICK e \in Bytes : e = Encode(Len(m)) /\ Len(e) = 2
  BY <1>1, Decoding
<1>3. e \o m \in Bytes /\ Len(e \o m) = Len(e) + Len(m)
  BY Joined
<1>4. (e \o m)[1] = e[1] /\ (e \o m)[2] = e[2]
  <2>1. 1 \in 1 .. Len(e) /\ 2 \in 1 .. Len(e)
    BY <1>2
  <2>. QED
    BY <2>1, Joined
<1>. QED
  BY <1>1, <1>2, <1>3, <1>4 DEF Frame

\* Taking k elements of a sequence, and the rest.
LEMMA Splitting ==
  ASSUME NEW S, NEW s \in Seq(S), NEW k \in 0 .. Len(s)
  PROVE  /\ Take(s, k) \in Seq(S) /\ Drop(s, k) \in Seq(S)
         /\ Len(Take(s, k)) = k /\ Len(Drop(s, k)) = Len(s) - k
         /\ Take(s, k) \o Drop(s, k) = s
         /\ \A i \in 1 .. k : Take(s, k)[i] = s[i]
         /\ \A i \in 1 .. Len(s) - k : Drop(s, k)[i] = s[k + i]
<1>1. Len(s) \in Nat /\ k \in Nat /\ \A i \in 1 .. Len(s) : s[i] \in S
  BY ElementOfSeq
<1>2. /\ Take(s, k) \in Seq(S) /\ Len(Take(s, k)) = k
      /\ \A i \in 1 .. k : Take(s, k)[i] = s[i]
  BY <1>1, SubSeqProperties DEF Take
<1>3. /\ Drop(s, k) \in Seq(S) /\ Len(Drop(s, k)) = Len(s) - k
      /\ \A i \in 1 .. Len(s) - k : Drop(s, k)[i] = s[k + i]
  BY <1>1, SubSeqProperties DEF Drop
<1>4. Take(s, k) \o Drop(s, k) = s
  <2>1. 1 \in 1 .. Len(s) + 1 /\ k \in 1 - 1 .. Len(s) /\ Len(s) \in k .. Len(s)
    BY <1>1
  <2>2. SubSeq(s, 1, k) \o SubSeq(s, k + 1, Len(s)) = SubSeq(s, 1, Len(s))
    BY <2>1, ConcatAdjacentSubSeq
  <2>. QED
    BY <2>2, SubSeqFull DEF Take, Drop
<1>. QED
  BY <1>2, <1>3, <1>4

LEMMA Appended ==
  ASSUME NEW s \in Seq(Message), NEW m \in Message, NEW k \in 0 .. Len(s)
  PROVE  Drop(Append(s, m), k) = Append(Drop(s, k), m)
<1>1. PICK n \in Nat : n = Len(s)
  BY LenProperties
<1>2. /\ Append(s, m) \in Seq(Message) /\ Len(Append(s, m)) = n + 1
      /\ Append(s, m)[n + 1] = m /\ \A i \in 1 .. n : Append(s, m)[i] = s[i]
  BY <1>1, AppendProperties
<1>3. /\ Drop(s, k) \in Seq(Message) /\ Len(Drop(s, k)) = n - k
      /\ \A i \in 1 .. n - k : Drop(s, k)[i] = s[k + i]
  BY <1>1, Splitting
<1>4. /\ Append(Drop(s, k), m) \in Seq(Message)
      /\ Len(Append(Drop(s, k), m)) = n - k + 1
      /\ Append(Drop(s, k), m)[n - k + 1] = m
      /\ \A i \in 1 .. n - k : Append(Drop(s, k), m)[i] = s[k + i]
  <2>1. PICK d \in Seq(Message) : d = Drop(s, k)
    BY <1>3
  <2>2. /\ Append(d, m) \in Seq(Message) /\ Len(Append(d, m)) = Len(d) + 1
        /\ Append(d, m)[Len(d) + 1] = m /\ \A i \in 1 .. Len(d) : Append(d, m)[i] = d[i]
    BY AppendProperties
  <2>. QED
    BY <1>3, <2>1, <2>2
<1>5. /\ Drop(Append(s, m), k) \in Seq(Message)
      /\ Len(Drop(Append(s, m), k)) = (n + 1) - k
      /\ \A i \in 1 .. (n + 1) - k : Drop(Append(s, m), k)[i] = Append(s, m)[k + i]
  <2>1. PICK d \in Seq(Message) : d = Append(s, m) /\ Len(d) = n + 1
    BY <1>2
  <2>2. k \in 0 .. Len(d)
    BY <1>1, <2>1
  <2>3. /\ Drop(d, k) \in Seq(Message) /\ Len(Drop(d, k)) = Len(d) - k
        /\ \A i \in 1 .. Len(d) - k : Drop(d, k)[i] = d[k + i]
    BY <2>2, Splitting
  <2>. QED
    BY <2>1, <2>3
<1>6. ASSUME NEW i \in 1 .. n - k + 1
      PROVE  Append(Drop(s, k), m)[i] = Drop(Append(s, m), k)[i]
  <2>1. i \in 1 .. (n + 1) - k /\ k \in 0 .. n
    BY <1>1
  <2>2. CASE i = n - k + 1
    <3>1. k + i = n + 1
      BY <2>1, <2>2
    <3>. QED
      BY <1>2, <1>4, <1>5, <2>1, <2>2, <3>1
  <2>3. CASE i # n - k + 1
    <3>1. i \in 1 .. n - k /\ k + i \in 1 .. n
      BY <2>1, <2>3
    <3>. QED
      BY <1>2, <1>4, <1>5, <2>1, <3>1
  <2>. QED
    BY <2>2, <2>3
<1>7. Len(Append(Drop(s, k), m)) = Len(Drop(Append(s, m), k))
  BY <1>1, <1>4, <1>5
<1>8. \A i \in 1 .. Len(Append(Drop(s, k), m)) : i \in 1 .. n - k + 1
  BY <1>4
<1>. QED
  BY <1>4, <1>5, <1>6, <1>7, <1>8, SeqEqual

-----------------------------------------------------------------------------
(* How a stream grows and shrinks.                                         *)

\* Of one message and what follows it.
LEMMA WireFacts ==
  ASSUME NEW ms \in Seq(Message), NEW rest, IsWire(rest, ms)
  PROVE  /\ Len(ms) \in Nat /\ \A j \in 0 .. Len(ms) : rest[j] \in Bytes /\ Len(rest[j]) \in Nat
         /\ Len(rest[Len(ms)]) = 0
         /\ \A j \in 1 .. Len(ms) : /\ ms[j] \in Message /\ Len(ms[j]) \in Nat
                                    /\ Frame(ms[j]) \in Bytes /\ Len(Frame(ms[j])) = 2 + Len(ms[j])
                                    /\ Len(rest[j - 1]) = 2 + Len(ms[j]) + Len(rest[j])
<1>1. Len(ms) \in Nat /\ \A j \in 0 .. Len(ms) : rest[j] \in Bytes /\ Len(rest[j]) \in Nat
  BY LenProperties DEF IsWire, Bytes
<1>2. Len(rest[Len(ms)]) = 0
  BY DEF IsWire
<1>3. ASSUME NEW j \in 1 .. Len(ms)
      PROVE  /\ ms[j] \in Message /\ Len(ms[j]) \in Nat
             /\ Frame(ms[j]) \in Bytes /\ Len(Frame(ms[j])) = 2 + Len(ms[j])
             /\ Len(rest[j - 1]) = 2 + Len(ms[j]) + Len(rest[j])
  <2>1. ms[j] \in Message
    BY ElementOfSeq
  <2>2. Len(ms[j]) \in Nat /\ Frame(ms[j]) \in Bytes /\ Len(Frame(ms[j])) = 2 + Len(ms[j])
    BY <2>1, MessageIsSeq, FrameIsSeq
  <2>3. j \in 0 .. Len(ms) /\ rest[j] \in Bytes /\ rest[j - 1] = Frame(ms[j]) \o rest[j]
    BY <1>1 DEF IsWire
  <2>4. Len(Frame(ms[j]) \o rest[j]) = Len(Frame(ms[j])) + Len(rest[j])
    BY <2>2, <2>3, Joined
  <2>. QED
    BY <2>1, <2>2, <2>3, <2>4
<1>. QED
  BY <1>1, <1>2, <1>3

LEMMA FirstMessage ==
  ASSUME NEW ms \in Seq(Message), NEW rest, IsWire(rest, ms), ms # <<>>
  PROVE  /\ ms[1] \in Message /\ Len(ms[1]) \in Nat /\ Frame(ms[1]) \in Bytes
         /\ Len(Frame(ms[1])) = 2 + Len(ms[1])
         /\ rest[0] \in Bytes /\ rest[1] \in Bytes
         /\ rest[0] = Frame(ms[1]) \o rest[1]
         /\ Len(rest[0]) = 2 + Len(ms[1]) + Len(rest[1])
<1>1. Len(ms) \in Nat \ {0}
  BY EmptySeq
<1>2. PICK j \in 1 .. Len(ms) : j = 1
  BY <1>1
<1>3. j - 1 = 0 /\ j - 1 \in 0 .. Len(ms) /\ j \in 0 .. Len(ms)
  BY <1>1, <1>2
<1>4. rest[j - 1] = Frame(ms[j]) \o rest[j]
  BY DEF IsWire
<1>5. /\ ms[j] \in Message /\ Len(ms[j]) \in Nat /\ Frame(ms[j]) \in Bytes
      /\ Len(Frame(ms[j])) = 2 + Len(ms[j])
      /\ Len(rest[j - 1]) = 2 + Len(ms[j]) + Len(rest[j])
  BY WireFacts
<1>6. rest[j - 1] \in Bytes /\ rest[j] \in Bytes
  BY <1>3, WireFacts
<1>. QED
  BY <1>2, <1>3, <1>4, <1>5, <1>6

\* A message more is sent ...
LEMMA Extended ==
  ASSUME NEW ms \in Seq(Message), NEW m \in Message, NEW s \in Bytes, NEW a, NEW rest,
         Carries(s, a, ms, rest, <<>>)
  PROVE  \E rest1 : Carries(s \o Frame(m), a, Append(ms, m), rest1, <<>>)
<1>1. PICK n \in Nat : n = Len(ms)
  BY LenProperties
<1>2. /\ Append(ms, m) \in Seq(Message) /\ Len(Append(ms, m)) = n + 1
      /\ Append(ms, m)[n + 1] = m /\ \A j \in 1 .. n : Append(ms, m)[j] = ms[j]
  BY <1>1, AppendProperties
<1>3. PICK f \in Bytes : f = Frame(m) /\ Len(f) = 2 + Len(m) /\ Len(m) \in Nat
  BY MessageIsSeq, FrameIsSeq
<1>4. /\ IsWire(rest, ms) /\ a \in 0 .. Len(s) /\ Whole(a, rest, ms) /\ rest[0] = s
  BY ConcatEmptySeq DEF Carries, Bytes
<1>5. /\ \A j \in 0 .. n : rest[j] \in Bytes /\ Len(rest[j]) \in Nat
      /\ rest[n] = <<>> /\ Len(rest[n]) = 0 /\ Len(s) \in Nat
      /\ \A j \in 1 .. n : rest[j - 1] = Frame(ms[j]) \o rest[j] /\ Frame(ms[j]) \in Bytes
      /\ \A i, j \in 0 .. n : i <= j => Len(rest[j]) <= Len(rest[i])
  BY <1>1, <1>4, WireFacts, Joined DEF IsWire
<1>6. PICK rest1 : rest1 = [j \in 0 .. n + 1 |-> IF j = n + 1 THEN <<>> ELSE rest[j] \o f]
  OBVIOUS
<1>7. \A j \in 0 .. n : rest[j] \o f \in Bytes /\ Len(rest[j] \o f) = Len(rest[j]) + 2 + Len(m)
  <2> SUFFICES ASSUME NEW j \in 0 .. n
               PROVE  rest[j] \o f \in Bytes /\ Len(rest[j] \o f) = Len(rest[j]) + 2 + Len(m)
    OBVIOUS
  <2>1. rest[j] \in Bytes /\ Len(rest[j]) \in Nat
    BY <1>5
  <2>2. rest[j] \o f \in Bytes /\ Len(rest[j] \o f) = Len(rest[j]) + Len(f)
    BY <2>1, Joined
  <2>3. \A x \in Nat : x + Len(f) = x + 2 + Len(m)
    BY <1>3
  <2>. QED
    BY <2>1, <2>2, <2>3
<1>8. /\ rest1[n + 1] = <<>> /\ \A j \in 0 .. n : rest1[j] = rest[j] \o f
      /\ rest1 \in [0 .. n + 1 -> Bytes]
  <2>1. <<>> \in Bytes
    BY EmptySeq DEF Bytes
  <2>2. \A j \in 0 .. n : j # n + 1 /\ j \in 0 .. n + 1
    OBVIOUS
  <2>3. \A j \in 0 .. n + 1 : j = n + 1 \/ j \in 0 .. n
    OBVIOUS
  <2>. QED
    BY <1>6, <1>7, <2>1, <2>2, <2>3
<1>9. /\ Len(rest1[n + 1]) = 0
      /\ \A j \in 0 .. n : Len(rest1[j]) = Len(rest[j]) + 2 + Len(m)
  BY <1>7, <1>8, Nothing
<1>10. IsWire(rest1, Append(ms, m))
  <2>1. ASSUME NEW j \in 1 .. n + 1
        PROVE  rest1[j - 1] = Frame(Append(ms, m)[j]) \o rest1[j]
    <3>1. CASE j = n + 1
      <4>1. rest1[n] = <<>> \o f /\ <<>> \o f = f /\ f \o <<>> = f
        <5>1. n \in 0 .. n
          OBVIOUS
        <5>. QED
          BY <1>5, <1>8, <5>1, Nothing
      <4>2. j - 1 = n /\ Append(ms, m)[j] = m /\ rest1[j] = <<>>
        BY <1>2, <1>8, <3>1
      <4>. QED
        BY <1>3, <4>1, <4>2
    <3>2. CASE j # n + 1
      <4>1. j \in 1 .. n /\ j - 1 \in 0 .. n /\ j \in 0 .. n
        BY <3>2
      <4>2. rest1[j - 1] = (Frame(ms[j]) \o rest[j]) \o f /\ rest1[j] = rest[j] \o f
        BY <1>5, <1>8, <4>1
      <4>3. (Frame(ms[j]) \o rest[j]) \o f = Frame(ms[j]) \o (rest[j] \o f)
        <5>1. Frame(ms[j]) \in Bytes /\ rest[j] \in Bytes
          BY <1>5, <4>1
        <5>. QED
          BY <5>1, Associates
      <4>. QED
        BY <1>2, <4>1, <4>2, <4>3
    <3>. QED
      BY <3>1, <3>2
  <2>2. ASSUME NEW i \in 0 .. n + 1, NEW j \in 0 .. n + 1, i <= j
        PROVE  Len(rest1[j]) <= Len(rest1[i])
    <3>1. CASE j = n + 1
      <4>1. i = n + 1 \/ i \in 0 .. n
        OBVIOUS
      <4>. QED
        BY <1>3, <1>5, <1>9, <3>1, <4>1
    <3>2. CASE j # n + 1
      <4>1. i \in 0 .. n /\ j \in 0 .. n
        BY <2>2, <3>2
      <4>2. Len(rest[j]) <= Len(rest[i]) /\ Len(rest[j]) \in Nat /\ Len(rest[i]) \in Nat
        BY <1>5, <2>2, <4>1
      <4>3. /\ Len(rest1[j]) = Len(rest[j]) + 2 + Len(m)
            /\ Len(rest1[i]) = Len(rest[i]) + 2 + Len(m)
        BY <1>9, <4>1
      <4>. QED
        BY <1>3, <4>2, <4>3
    <3>. QED
      BY <3>1, <3>2
  <2>. QED
    BY <1>2, <1>8, <2>1, <2>2 DEF IsWire
<1>11. Whole(a, rest1, Append(ms, m))
  <2> SUFFICES ASSUME NEW j \in 1 .. n + 1
               PROVE  a # Len(rest1[0]) - Len(rest1[j - 1]) + 1
    BY <1>2 DEF Whole
  <2>1. j - 1 \in 0 .. n /\ 0 \in 0 .. n
    OBVIOUS
  <2>2. Len(rest1[0]) - Len(rest1[j - 1]) = Len(rest[0]) - Len(rest[j - 1])
    <3>1. Len(rest[0]) \in Nat /\ Len(rest[j - 1]) \in Nat
      BY <1>5, <2>1
    <3>2. /\ Len(rest1[0]) = Len(rest[0]) + 2 + Len(m)
          /\ Len(rest1[j - 1]) = Len(rest[j - 1]) + 2 + Len(m)
      BY <1>9, <2>1
    <3>. QED
      BY <1>3, <3>1, <3>2
  <2>3. CASE j = n + 1
    <3>1. Len(rest[j - 1]) = 0 /\ Len(rest[0]) = Len(s)
      BY <1>4, <1>5, <2>3
    <3>2. a # Len(s) - 0 + 1
      BY <1>4, <1>5
    <3>. QED
      BY <2>2, <3>1, <3>2
  <2>4. CASE j # n + 1
    <3>1. j \in 1 .. Len(ms)
      BY <1>1, <2>4
    <3>2. a # Len(rest[0]) - Len(rest[j - 1]) + 1
      BY <1>4, <3>1 DEF Whole
    <3>. QED
      BY <2>2, <3>2
  <2>. QED
    BY <2>3, <2>4
<1>12. a \in 0 .. Len(s \o f)
  BY <1>3, <1>4, Joined
<1>13. <<>> \in Bytes /\ s \o f \in Bytes /\ (s \o f) \o <<>> = s \o f /\ rest1[0] = s \o f
  <2>1. <<>> \in Bytes /\ s \o f \in Bytes
    BY Nothing, Joined
  <2>2. (s \o f) \o <<>> = s \o f
    BY <2>1, Nothing
  <2>3. 0 \in 0 .. n
    OBVIOUS
  <2>. QED
    BY <1>4, <1>8, <2>1, <2>2, <2>3
<1>. QED
  BY <1>3, <1>10, <1>11, <1>12, <1>13 DEF Carries

\* ... some more of the last one arrives ...
LEMMA Arrived ==
  ASSUME NEW ms \in Seq(Message), NEW s \in Bytes, NEW a, NEW rest,
         Carries(s, a, ms, rest, <<>>),
         NEW b \in 0 .. Len(s), a <= b, ms # <<>>, Len(s) - b <= Len(ms[Len(ms)])
  PROVE  Carries(s, b, ms, rest, <<>>)
<1>1. IsWire(rest, ms) /\ rest[0] = s
  BY ConcatEmptySeq DEF Carries, Bytes
<1>2. PICK n \in Nat : n = Len(ms) /\ n > 0
  BY LenProperties, EmptySeq
<1>3. Whole(b, rest, ms)
  <2> SUFFICES ASSUME NEW j \in 1 .. n PROVE b # Len(rest[0]) - Len(rest[j - 1]) + 1
    BY <1>2 DEF Whole
  <2>1. j - 1 \in 0 .. n /\ n - 1 \in 0 .. n /\ j - 1 <= n - 1 /\ n \in 1 .. n
    BY <1>2
  <2>2. Len(rest[n - 1]) <= Len(rest[j - 1])
    BY <1>1, <1>2, <2>1 DEF IsWire
  <2>3. /\ Len(rest[n - 1]) = 2 + Len(ms[n]) + Len(rest[n]) /\ Len(rest[n]) = 0
        /\ Len(ms[n]) \in Nat /\ Len(rest[j - 1]) \in Nat
    BY <1>1, <1>2, <2>1, WireFacts
  <2>4. Len(s) \in Nat /\ Len(s) - b <= Len(ms[n])
    BY <1>2, Joined
  <2>. QED
    BY <1>1, <2>2, <2>3, <2>4
<1>. QED
  BY <1>3 DEF Carries

\* ... the end of a stream is lost, and what is left of it ends within the first
\* message or not at all ...
LEMMA Shortened ==
  ASSUME NEW ms \in Seq(Message), NEW s \in Bytes, NEW t \in Bytes, NEW a, NEW rest,
         NEW lost, Carries(s \o t, a, ms, rest, lost), NEW b \in 0 .. Len(s),
         b = a \/ b = 0 \/ (ms # <<>> /\ 2 <= b /\ b <= 2 + Len(ms[1]))
  PROVE  Carries(s, b, ms, rest, t \o lost)
<1>1. /\ IsWire(rest, ms) /\ lost \in Bytes /\ (s \o t) \o lost = rest[0]
      /\ Whole(a, rest, ms)
  BY DEF Carries
<1>2. t \o lost \in Bytes /\ s \o (t \o lost) = rest[0]
  BY <1>1, Joined, Associates
<1>3. PICK n \in Nat : n = Len(ms)
  BY LenProperties
<1>4. Whole(b, rest, ms)
  <2> SUFFICES ASSUME NEW j \in 1 .. n, b # a
               PROVE  b # Len(rest[0]) - Len(rest[j - 1]) + 1
    BY <1>1, <1>3 DEF Whole
  <2>1. j - 1 \in 0 .. n /\ 0 \in 0 .. n /\ 1 \in 0 .. n /\ 1 \in 1 .. n
    OBVIOUS
  <2>2. Len(rest[0]) \in Nat /\ Len(rest[j - 1]) \in Nat /\ Len(rest[1]) \in Nat
    BY <1>1, <1>3, <2>1, WireFacts
  <2>3. Len(rest[j - 1]) <= Len(rest[0])
    BY <1>1, <1>3, <2>1, <2>2 DEF IsWire
  <2>4. ASSUME j # 1 PROVE Len(rest[j - 1]) <= Len(rest[1])
    <3>1. 1 <= j - 1
      BY <2>4
    <3>. QED
      BY <1>1, <1>3, <2>1, <3>1 DEF IsWire
  <2>5. ms # <<>>
    BY <1>3, Nothing
  <2>6. Len(rest[0]) = 2 + Len(ms[1]) + Len(rest[1]) /\ Len(ms[1]) \in Nat
    BY <1>1, <2>5, FirstMessage
  <2>7. CASE b = 0
    BY <2>2, <2>3, <2>7
  <2>8. CASE 2 <= b /\ b <= 2 + Len(ms[1])
    <3>1. b \in Int
      BY Joined
    <3>2. CASE j = 1
      BY <2>2, <2>8, <3>1, <3>2
    <3>3. CASE j # 1
      <4>1. Len(rest[j - 1]) <= Len(rest[1])
        BY <2>4, <3>3
      <4>2. \A x, y, z, l \in Nat :
              x = 2 + l + z /\ y <= z /\ b <= 2 + l => b # x - y + 1
        BY <3>1
      <4>. QED
        BY <2>2, <2>6, <2>8, <4>1, <4>2
    <3>. QED
      BY <3>2, <3>3
  <2>. QED
    BY <2>7, <2>8
<1>. QED
  BY <1>1, <1>2, <1>4 DEF Carries

\* ... the length of the first message can be read once something is there ...
LEMMA LengthThere ==
  ASSUME NEW ms \in Seq(Message), NEW s \in Bytes, NEW a, NEW rest, NEW lost,
         Carries(s, a, ms, rest, lost), a # 0
  PROVE  /\ ms # <<>> /\ ms[1] \in Message /\ a >= 2
         /\ s[1] = Encode(Len(ms[1]))[1] /\ s[2] = Encode(Len(ms[1]))[2]
<1>1. /\ IsWire(rest, ms) /\ lost \in Bytes /\ s \o lost = rest[0]
      /\ a \in 0 .. Len(s) /\ Whole(a, rest, ms) /\ Len(s) \in Nat
  BY Joined DEF Carries
<1>2. PICK n \in Nat : n = Len(ms)
  BY LenProperties
<1>3. Len(s) + Len(lost) = Len(rest[0]) /\ Len(lost) \in Nat
  BY <1>1, Joined
<1>4. n # 0
  <2> SUFFICES ASSUME n = 0 PROVE FALSE
    OBVIOUS
  <2>1. Len(rest[0]) = 0
    BY <1>1, <1>2, WireFacts
  <2>. QED
    BY <1>1, <1>3, <2>1
<1>5. ms # <<>> /\ 1 \in 1 .. n /\ 0 \in 0 .. n /\ 1 \in 0 .. n /\ ms[1] \in Message
  BY <1>2, <1>4, EmptySeq, ElementOfSeq
<1>6. a >= 2
  <2>1. a # Len(rest[0]) - Len(rest[1 - 1]) + 1 /\ 1 - 1 = 0 /\ Len(rest[0]) \in Nat
    BY <1>1, <1>2, <1>5, WireFacts DEF Whole
  <2>2. a # 1
    BY <2>1
  <2>. QED
    BY <1>1, <2>2
<1>7. rest[0] = Frame(ms[1]) \o rest[1] /\ rest[1] \in Bytes
  BY <1>1, <1>5, FirstMessage
<1>8. PICK f \in Bytes : /\ f = Frame(ms[1]) /\ Len(f) = 2 + Len(ms[1]) /\ Len(ms[1]) \in Nat
                         /\ f[1] = Encode(Len(ms[1]))[1] /\ f[2] = Encode(Len(ms[1]))[2]
  BY <1>5, MessageIsSeq, FrameIsSeq
<1>9. s \o lost = f \o rest[1]
  BY <1>1, <1>7, <1>8
<1>10. /\ 1 \in 1 .. Len(s) /\ 2 \in 1 .. Len(s) /\ 1 \in 1 .. Len(f) /\ 2 \in 1 .. Len(f)
  BY <1>1, <1>6, <1>8
<1>11. s[1] = (s \o lost)[1] /\ s[2] = (s \o lost)[2]
  BY <1>1, <1>10, Joined
<1>12. f[1] = (f \o rest[1])[1] /\ f[2] = (f \o rest[1])[2]
  BY <1>7, <1>10, Joined
<1>. QED
  BY <1>5, <1>6, <1>8, <1>9, <1>11, <1>12

\* ... and the first message is received.
LEMMA Popped ==
  ASSUME NEW ms \in Seq(Message), ms # <<>>, NEW f \in Bytes, NEW t \in Bytes, NEW a,
         NEW rest, NEW lost, Carries(f \o t, a, ms, rest, lost),
         Len(f) = 2 + Len(ms[1]), Len(f) <= a,
         NEW ms1 \in Seq(Message), Len(ms1) = Len(ms) - 1,
         \A j \in 1 .. Len(ms1) : ms1[j] = ms[j + 1]
  PROVE  /\ f = Frame(ms[1])
         /\ \E rest1 : Carries(t, a - Len(f), ms1, rest1, lost)
<1>1. PICK n \in Nat : n = Len(ms1) /\ Len(ms) = n + 1
  BY LenProperties
<1>2. /\ IsWire(rest, ms) /\ lost \in Bytes /\ (f \o t) \o lost = rest[0]
      /\ a \in 0 .. Len(f \o t) /\ Whole(a, rest, ms)
  BY DEF Carries
<1>3. /\ \A j \in 0 .. n + 1 : rest[j] \in Bytes /\ Len(rest[j]) \in Nat
      /\ rest[n + 1] = <<>>
      /\ \A j \in 1 .. n + 1 : /\ rest[j - 1] = Frame(ms[j]) \o rest[j]
                               /\ Len(rest[j - 1]) = 2 + Len(ms[j]) + Len(rest[j])
                               /\ Frame(ms[j]) \in Bytes /\ Len(Frame(ms[j])) = 2 + Len(ms[j])
      /\ \A i, j \in 0 .. n + 1 : i <= j => Len(rest[j]) <= Len(rest[i])
  BY <1>1, <1>2, WireFacts DEF IsWire
<1>4. /\ rest[0] = Frame(ms[1]) \o rest[1] /\ rest[1] \in Bytes
      /\ Frame(ms[1]) \in Bytes /\ Len(Frame(ms[1])) = Len(f)
      /\ Len(rest[0]) = Len(f) + Len(rest[1])
  BY <1>2, FirstMessage
<1>5. f \o (t \o lost) = rest[0] /\ t \o lost \in Bytes
  BY <1>2, Joined, Associates
<1>6. f = Frame(ms[1]) /\ t \o lost = rest[1]
  <2>1. PICK g \in Bytes : g = Frame(ms[1])
    BY <1>4
  <2>2. PICK u \in Bytes, v \in Bytes : u = rest[1] /\ v = t \o lost
    BY <1>4, <1>5
  <2>3. f \o v = g \o u /\ Len(f) = Len(g)
    BY <1>4, <1>5, <2>1, <2>2
  <2>4. f = g /\ v = u
    BY <2>3, Cancelled
  <2>. QED
    BY <2>1, <2>2, <2>4
<1>7. PICK rest1 : rest1 = [j \in 0 .. n |-> rest[j + 1]]
  OBVIOUS
<1>8. \A j \in 0 .. n : rest1[j] = rest[j + 1] /\ j + 1 \in 0 .. n + 1
  BY <1>7
<1>9. IsWire(rest1, ms1)
  <2>1. rest1 \in [0 .. n -> Bytes]
    BY <1>3, <1>7
  <2>2. rest1[n] = <<>>
    BY <1>3, <1>8
  <2>3. ASSUME NEW j \in 1 .. n
        PROVE  rest1[j - 1] = Frame(ms1[j]) \o rest1[j]
    <3>1. j - 1 \in 0 .. n /\ j \in 0 .. n /\ j + 1 \in 1 .. n + 1 /\ (j - 1) + 1 = j /\ (j + 1) - 1 = j
      OBVIOUS
    <3>2. rest[(j + 1) - 1] = Frame(ms[j + 1]) \o rest[j + 1]
      BY <1>3, <3>1
    <3>3. rest1[j - 1] = rest[(j - 1) + 1] /\ rest1[j] = rest[j + 1] /\ ms1[j] = ms[j + 1]
      BY <1>1, <1>8, <3>1
    <3>. QED
      BY <3>1, <3>2, <3>3
  <2>4. ASSUME NEW i \in 0 .. n, NEW j \in 0 .. n, i <= j
        PROVE  Len(rest1[j]) <= Len(rest1[i])
    <3>1. i + 1 <= j + 1 /\ i + 1 \in 0 .. n + 1 /\ j + 1 \in 0 .. n + 1
      BY <2>4
    <3>. QED
      BY <1>3, <1>8, <3>1
  <2>. QED
    BY <1>1, <2>1, <2>2, <2>3, <2>4 DEF IsWire
<1>10. rest1[0] = rest[1]
  <2>1. 0 \in 0 .. n /\ 0 + 1 = 1
    OBVIOUS
  <2>. QED
    BY <1>8, <2>1
<1>11. /\ a \in Nat /\ Len(f) \in Nat /\ Len(t) \in Nat /\ a - Len(f) \in 0 .. Len(t)
  BY <1>2, Joined
<1>12. Whole(a - Len(f), rest1, ms1)
  <2> SUFFICES ASSUME NEW j \in 1 .. n
               PROVE  a - Len(f) # Len(rest1[0]) - Len(rest1[j - 1]) + 1
    BY <1>1 DEF Whole
  <2>1. j + 1 \in 1 .. n + 1 /\ (j + 1) - 1 = j /\ j - 1 \in 0 .. n /\ (j - 1) + 1 = j /\ j \in 0 .. n + 1
    OBVIOUS
  <2>2. a # Len(rest[0]) - Len(rest[(j + 1) - 1]) + 1
    BY <1>1, <1>2, <2>1 DEF Whole
  <2>3. rest1[j - 1] = rest[j]
    BY <1>8, <2>1
  <2>4. Len(rest[j]) \in Nat /\ Len(rest[1]) \in Nat
    BY <1>3, <2>1
  <2>5. a # (Len(f) + Len(rest[1])) - Len(rest[j]) + 1
    BY <1>4, <2>1, <2>2
  <2>6. \A x, y, z \in Nat : a # (x + y) - z + 1 => a - x # y - z + 1
    BY <1>11
  <2>7. a - Len(f) # Len(rest[1]) - Len(rest[j]) + 1
    BY <1>11, <2>4, <2>5, <2>6
  <2>. QED
    BY <1>10, <2>3, <2>7
<1>. QED
  BY <1>2, <1>6, <1>9, <1>10, <1>11, <1>12 DEF Carries

-----------------------------------------------------------------------------
(* The inductive invariant.                                                *)

\* The messages that were sent and not received.
Pending(c) == Drop(sent[c], Len(received[c]))

\* What recv has read of a message it has not returned.
Held(c) == IF pc = "body" /\ current = c THEN Encode(length) \o response ELSE <<>>

\* What has been sent and not been received, in bytes, and how much of it has
\* arrived.
Stream(c) == Held(c) \o (inbox[c] \o left[c])
Here(c) == Len(Held(c)) + Len(inbox[c])

Types ==
  /\ sent \in [Conn -> Seq(Message)] /\ received \in [Conn -> Seq(Message)]
  /\ left \in [Conn -> Bytes] /\ inbox \in [Conn -> Bytes]
  /\ peer \in [Conn -> {"up", "gone", "closed"}]
  /\ pc \in {"select", "serve", "length", "body"}
  /\ round \subseteq Conn /\ current \in Conn
  /\ length \in 0 .. MaxLength /\ response \in Bytes /\ Len(response) <= length

Bounds ==
  \A c \in Conn :
    /\ Len(inbox[c]) <= Capacity
    /\ Len(left[c]) <= LengthBytes + MaxLength
    /\ Len(received[c]) <= Len(sent[c])
    /\ peer[c] # "up" => left[c] = <<>>

\* No connection of the round has been seen to end, and recv is in the body of
\* the first message it has not returned.
Reading ==
  /\ \A c \in round : peer[c] # "closed"
  /\ pc \in {"length", "body"} => peer[current] # "closed" /\ current \notin round
  /\ pc = "body" => /\ Pending(current) # <<>>
                    /\ length = Len(Pending(current)[1])
                    /\ Len(response) < length

\* The stream of a connection carries what is pending, and loses nothing of it
\* while its sender is up.
Framed(c) ==
  \E rest, lost :
    /\ Carries(Stream(c), Here(c), Pending(c), rest, lost)
    /\ peer[c] = "up" => lost = <<>>

Streams == \A c \in Conn : peer[c] # "closed" => Framed(c)

Inv == Types /\ Bounds /\ Reading /\ Streams

LEMMA StateFacts ==
  ASSUME Types, Bounds, NEW c \in Conn
  PROVE  /\ sent[c] \in Seq(Message) /\ received[c] \in Seq(Message)
         /\ Len(sent[c]) \in Nat /\ Len(received[c]) \in 0 .. Len(sent[c])
         /\ Pending(c) \in Seq(Message) /\ Len(Pending(c)) = Len(sent[c]) - Len(received[c])
         /\ \A i \in 1 .. Len(Pending(c)) : Pending(c)[i] = sent[c][Len(received[c]) + i]
         /\ left[c] \in Bytes /\ inbox[c] \in Bytes /\ Held(c) \in Bytes
         /\ inbox[c] \o left[c] \in Bytes /\ Stream(c) \in Bytes
         /\ Len(left[c]) \in Nat /\ Len(inbox[c]) \in Nat /\ Len(Held(c)) \in Nat
         /\ Len(Stream(c)) = Here(c) + Len(left[c]) /\ Here(c) \in Nat
<1>1. /\ sent[c] \in Seq(Message) /\ received[c] \in Seq(Message)
      /\ Len(sent[c]) \in Nat /\ Len(received[c]) \in Nat /\ Len(received[c]) <= Len(sent[c])
  BY LenProperties DEF Types, Bounds
<1>2. PICK k \in 0 .. Len(sent[c]) : k = Len(received[c])
  BY <1>1
<1>3. /\ Drop(sent[c], k) \in Seq(Message) /\ Len(Drop(sent[c], k)) = Len(sent[c]) - k
      /\ \A i \in 1 .. Len(sent[c]) - k : Drop(sent[c], k)[i] = sent[c][k + i]
  BY <1>1, Splitting
<1>4. left[c] \in Bytes /\ inbox[c] \in Bytes
  BY DEF Types
<1>5. Held(c) \in Bytes
  <2>1. length \in Nat /\ response \in Bytes
    BY Numbers DEF Types
  <2>2. Encode(length) \o response \in Bytes
    BY <2>1, Decoding, Joined
  <2>. QED
    BY <2>2, Nothing DEF Held
<1>6. /\ inbox[c] \o left[c] \in Bytes
      /\ Len(inbox[c] \o left[c]) = Len(inbox[c]) + Len(left[c])
      /\ Len(inbox[c]) \in Nat /\ Len(left[c]) \in Nat
  BY <1>4, Joined
<1>7. /\ Stream(c) \in Bytes /\ Len(Held(c)) \in Nat
      /\ Len(Stream(c)) = Len(Held(c)) + Len(inbox[c] \o left[c])
  BY <1>5, <1>6, Joined DEF Stream
<1>8. Len(Stream(c)) = Here(c) + Len(left[c]) /\ Here(c) \in Nat
  <2>1. PICK x \in Nat, y \in Nat, z \in Nat :
          x = Len(Held(c)) /\ y = Len(inbox[c]) /\ z = Len(left[c])
    BY <1>6, <1>7
  <2>2. Len(Stream(c)) = x + (y + z) /\ Here(c) = x + y
    BY <1>6, <1>7, <2>1 DEF Here
  <2>3. x + (y + z) = (x + y) + z /\ x + y \in Nat
    OBVIOUS
  <2>. QED
    BY <2>1, <2>2, <2>3
<1>. QED
  BY <1>1, <1>2, <1>3, <1>4, <1>5, <1>6, <1>7, <1>8 DEF Pending

\* A connection that a step leaves alone.
LEMMA Untouched ==
  ASSUME NEW c \in Conn, sent'[c] = sent[c], received'[c] = received[c],
         inbox'[c] = inbox[c], left'[c] = left[c], Held(c)' = Held(c)
  PROVE  /\ Pending(c)' = Pending(c) /\ Stream(c)' = Stream(c) /\ Here(c)' = Here(c)
         /\ peer'[c] = peer[c] => (Framed(c)' <=> Framed(c))
<1>1. Pending(c)' = Pending(c) /\ Stream(c)' = Stream(c) /\ Here(c)' = Here(c)
  BY DEF Pending, Stream, Here
<1>. QED
  BY <1>1 DEF Framed

-----------------------------------------------------------------------------
(* The sender and the network.                                             *)

LEMMA InitInv == Init => Inv
<1> SUFFICES ASSUME Init PROVE Inv
  OBVIOUS
<1>1. <<>> \in Seq(Message) /\ <<>> \in Bytes /\ Len(<<>>) = 0
  BY EmptySeq, Nothing
<1>2. Types
  BY <1>1, Numbers DEF Init, Types
<1>3. Bounds
  BY <1>1, Numbers DEF Init, Bounds, LengthBytes
<1>4. Reading
  BY DEF Init, Reading
<1>5. ASSUME NEW c \in Conn PROVE Framed(c)
  <2>1. sent[c] = <<>> /\ received[c] = <<>> /\ inbox[c] = <<>> /\ left[c] = <<>> /\ Held(c) = <<>>
    BY DEF Init, Held
  <2>2. Pending(c) \in Seq(Message) /\ Len(Pending(c)) = 0
    BY <1>1, <1>2, <1>3, <2>1, StateFacts
  <2>3. Stream(c) = <<>> /\ Here(c) = 0
    BY <1>1, <2>1, Nothing DEF Stream, Here
  <2>4. PICK rest : rest = [j \in 0 .. 0 |-> <<>>]
    OBVIOUS
  <2>5. rest \in [0 .. 0 -> Bytes] /\ rest[0] = <<>> /\ \A i \in 0 .. 0 : i = 0
    BY <1>1, <2>4
  <2>6. IsWire(rest, Pending(c)) /\ Whole(0, rest, Pending(c))
    BY <1>1, <2>2, <2>5 DEF IsWire, Whole
  <2>7. Carries(<<>>, 0, Pending(c), rest, <<>>)
    BY <1>1, <2>5, <2>6, Nothing DEF Carries
  <2>. QED
    BY <2>3, <2>7 DEF Framed
<1>. QED
  BY <1>2, <1>3, <1>4, <1>5 DEF Inv, Streams

LEMMA SendInv ==
  ASSUME Inv, NEW c \in Conn, Send(c)
  PROVE  Inv' /\ \E m \in Message : sent' = [sent EXCEPT ![c] = Append(@, m)]
<1>1. PICK n \in 0 .. MaxLength :
        /\ sent' = [sent EXCEPT ![c] = Append(@, Content(Len(sent[c]) + 1, n))]
        /\ left' = [left EXCEPT ![c] = Encode(n) \o Content(Len(sent[c]) + 1, n)]
  BY DEF Send
<1>2. /\ peer[c] = "up" /\ left[c] = <<>> /\ Len(sent[c]) < MaxSent
      /\ UNCHANGED <<inbox, peer, received, pc, round, current, length, response>>
  BY DEF Send, receiverFrame, recvVars
<1>3. Types /\ Bounds /\ Reading /\ Streams
  BY DEF Inv
<1>4. PICK m \in Message : m = Content(Len(sent[c]) + 1, n) /\ Len(m) = n
  <2>1. Len(sent[c]) + 1 \in 1 .. MaxSent
    BY <1>2, <1>3, StateFacts, Numbers
  <2>2. Content(Len(sent[c]) + 1, n) \in Message
    BY <2>1 DEF Message
  <2>3. Len(Content(Len(sent[c]) + 1, n)) = n
    BY <2>1, Numbers DEF Content
  <2>. QED
    BY <2>2, <2>3
<1>5. /\ sent' = [sent EXCEPT ![c] = Append(@, m)] /\ left' = [left EXCEPT ![c] = Frame(m)]
  BY <1>1, <1>4 DEF Frame
<1>6. Frame(m) \in Bytes /\ Len(Frame(m)) = 2 + Len(m) /\ Len(m) \in 0 .. MaxLength
  BY MessageIsSeq, FrameIsSeq
<1>7. /\ Append(sent[c], m) \in Seq(Message) /\ Len(Append(sent[c], m)) = Len(sent[c]) + 1
      /\ Append(sent[c], m)[Len(sent[c]) + 1] = m
      /\ \A i \in 1 .. Len(sent[c]) : Append(sent[c], m)[i] = sent[c][i]
  BY <1>3, StateFacts, AppendProperties
<1>8. /\ sent' \in [Conn -> Seq(Message)] /\ left' \in [Conn -> Bytes]
      /\ sent'[c] = Append(sent[c], m) /\ left'[c] = Frame(m)
      /\ \A d \in Conn \ {c} : sent'[d] = sent[d] /\ left'[d] = left[d]
  BY <1>3, <1>5, <1>6, <1>7 DEF Types
<1>9. Types'
  BY <1>2, <1>3, <1>8 DEF Types
<1>10. Bounds'
  <2> SUFFICES ASSUME NEW d \in Conn
               PROVE  /\ Len(inbox'[d]) <= Capacity
                      /\ Len(left'[d]) <= LengthBytes + MaxLength
                      /\ Len(received'[d]) <= Len(sent'[d])
                      /\ peer'[d] # "up" => left'[d] = <<>>
    BY DEF Bounds
  <2>1. CASE d = c
    <3>1. Len(sent[c]) \in Nat /\ Len(received[c]) \in Nat /\ Len(received[c]) <= Len(sent[c])
      BY <1>3, StateFacts
    <3>2. Len(sent'[c]) = Len(sent[c]) + 1 /\ Len(left'[c]) = 2 + Len(m)
      BY <1>6, <1>7, <1>8
    <3>. QED
      BY <1>2, <1>3, <1>6, <2>1, <3>1, <3>2, Numbers DEF Bounds, LengthBytes
  <2>2. CASE d # c
    BY <1>2, <1>3, <1>8, <2>2 DEF Bounds
  <2>. QED
    BY <2>1, <2>2
<1>11. \A d \in Conn : Held(d)' = Held(d)
  BY <1>2 DEF Held
<1>12. Pending(c)' = Append(Pending(c), m)
  <2>1. PICK s \in Seq(Message) : s = sent[c] /\ Len(received[c]) \in 0 .. Len(s)
    BY <1>3, StateFacts
  <2>2. PICK k \in 0 .. Len(s) : k = Len(received[c])
    BY <2>1
  <2>3. Drop(Append(s, m), k) = Append(Drop(s, k), m)
    BY Appended
  <2>. QED
    BY <1>2, <1>8, <2>1, <2>2, <2>3 DEF Pending
<1>13. Framed(c)'
  <2>1. PICK rest, lost : /\ Carries(Stream(c), Here(c), Pending(c), rest, lost)
                          /\ peer[c] = "up" => lost = <<>>
    BY <1>2, <1>3 DEF Streams, Framed
  <2>2. Carries(Stream(c), Here(c), Pending(c), rest, <<>>)
    BY <1>2, <2>1
  <2>3. PICK rest1 : Carries(Stream(c) \o Frame(m), Here(c), Append(Pending(c), m), rest1, <<>>)
    BY <1>3, <2>2, StateFacts, Extended
  <2>4. Stream(c)' = Stream(c) \o Frame(m)
    <3>1. Held(c) \in Bytes /\ inbox[c] \in Bytes /\ Frame(m) \in Bytes
      BY <1>3, <1>6, StateFacts
    <3>2. Stream(c) = Held(c) \o inbox[c]
      BY <1>2, <3>1, Nothing DEF Stream
    <3>3. Stream(c)' = Held(c) \o (inbox[c] \o Frame(m))
      BY <1>2, <1>8, <1>11 DEF Stream
    <3>4. Held(c) \o (inbox[c] \o Frame(m)) = (Held(c) \o inbox[c]) \o Frame(m)
      BY <3>1, Associates
    <3>. QED
      BY <3>2, <3>3, <3>4
  <2>5. Here(c)' = Here(c)
    BY <1>2, <1>11 DEF Here
  <2>. QED
    BY <1>12, <2>3, <2>4, <2>5 DEF Framed
<1>14. Streams'
  <2> SUFFICES ASSUME NEW d \in Conn, peer'[d] # "closed" PROVE Framed(d)'
    BY DEF Streams
  <2>1. CASE d = c
    BY <1>13, <2>1
  <2>2. CASE d # c
    BY <1>2, <1>3, <1>8, <1>11, <2>2, Untouched DEF Streams
  <2>. QED
    BY <2>1, <2>2
<1>15. Reading'
  <2>1. \A d \in Conn : Pending(d) # <<>> => Pending(d)' # <<>> /\ Pending(d)'[1] = Pending(d)[1]
    <3> SUFFICES ASSUME NEW d \in Conn, Pending(d) # <<>>
                 PROVE  Pending(d)' # <<>> /\ Pending(d)'[1] = Pending(d)[1]
      OBVIOUS
    <3>1. CASE d = c
      <4>1. Pending(c) \in Seq(Message) /\ Len(Pending(c)) \in Nat \ {0}
        BY <1>3, <3>1, StateFacts, EmptySeq
      <4>2. 1 \in 1 .. Len(Pending(c))
        BY <4>1
      <4>. QED
        BY <1>12, <3>1, <4>1, <4>2, AppendProperties
    <3>2. CASE d # c
      BY <1>2, <1>8, <1>11, <3>2, Untouched
    <3>. QED
      BY <3>1, <3>2
  <2>2. current \in Conn
    BY <1>3 DEF Types
  <2>. QED
    BY <1>2, <1>3, <2>1, <2>2 DEF Reading
<1>. QED
  BY <1>5, <1>9, <1>10, <1>14, <1>15 DEF Inv

LEMMA SomePending ==
  ASSUME NEW ms \in Seq(Message), NEW s \in Bytes, NEW a, NEW rest, NEW lost,
         Carries(s, a, ms, rest, lost), Len(s) > 0
  PROVE  ms # <<>>
<1> SUFFICES ASSUME ms = <<>> PROVE FALSE
  OBVIOUS
<1>1. IsWire(rest, ms) /\ lost \in Bytes /\ s \o lost = rest[0]
  BY DEF Carries
<1>2. Len(ms) = 0
  BY Nothing
<1>3. Len(rest[0]) = 0
  BY <1>1, <1>2, WireFacts
<1>4. Len(s \o lost) = Len(s) + Len(lost) /\ Len(s) \in Nat /\ Len(lost) \in Nat
  BY <1>1, Joined
<1>. QED
  BY <1>1, <1>3, <1>4

LEMMA ArriveInv ==
  ASSUME ~SplitsLength, Inv, NEW c \in Conn, Arrive(c)
  PROVE  Inv'
<1>1. PICK k \in 1 .. Len(left[c]) :
        /\ k >= LengthLeft(c) /\ Len(inbox[c]) + k <= Capacity
        /\ inbox' = [inbox EXCEPT ![c] = @ \o Take(left[c], k)]
        /\ left' = [left EXCEPT ![c] = Drop(@, k)]
  BY DEF Arrive
<1>2. /\ peer[c] = "up" /\ left[c] # <<>>
      /\ UNCHANGED <<sent, peer, received, pc, round, current, length, response>>
  BY DEF Arrive, receiverFrame, recvVars
<1>3. Types /\ Bounds /\ Reading /\ Streams
  BY DEF Inv
<1>4. PICK b \in Bytes, l \in Bytes, h \in Bytes : b = inbox[c] /\ l = left[c] /\ h = Held(c)
  BY <1>3, StateFacts
<1>5. PICK x \in Bytes, y \in Bytes :
        /\ x = Take(l, k) /\ y = Drop(l, k) /\ x \o y = l
        /\ Len(x) = k /\ Len(y) = Len(l) - k /\ k \in Nat /\ Len(l) \in Nat /\ k > 0
  <2>1. k \in 0 .. Len(l) /\ Len(l) \in Nat
    BY <1>4, Joined
  <2>2. /\ Take(l, k) \in Bytes /\ Drop(l, k) \in Bytes /\ Take(l, k) \o Drop(l, k) = l
        /\ Len(Take(l, k)) = k /\ Len(Drop(l, k)) = Len(l) - k
    BY <2>1, Splitting DEF Bytes
  <2>3. k \in Nat /\ k > 0
    BY <2>1
  <2>. QED
    BY <2>1, <2>2, <2>3
<1>6. b \o x \in Bytes /\ Len(b \o x) = Len(b) + Len(x) /\ Len(b) \in Nat
  BY Joined
<1>7. /\ inbox' \in [Conn -> Bytes] /\ left' \in [Conn -> Bytes]
      /\ inbox'[c] = b \o x /\ left'[c] = y
      /\ \A d \in Conn \ {c} : inbox'[d] = inbox[d] /\ left'[d] = left[d]
  BY <1>1, <1>3, <1>4, <1>5, <1>6 DEF Types
<1>8. Types'
  BY <1>2, <1>3, <1>7 DEF Types
<1>9. Bounds'
  <2> SUFFICES ASSUME NEW d \in Conn
               PROVE  /\ Len(inbox'[d]) <= Capacity
                      /\ Len(left'[d]) <= LengthBytes + MaxLength
                      /\ Len(received'[d]) <= Len(sent'[d])
                      /\ peer'[d] # "up" => left'[d] = <<>>
    BY DEF Bounds
  <2>1. CASE d = c
    <3>1. Len(inbox'[c]) <= Capacity
      BY <1>1, <1>4, <1>5, <1>6, <1>7
    <3>2. Len(l) <= LengthBytes + MaxLength
      BY <1>3, <1>4 DEF Bounds
    <3>3. Len(left'[c]) <= LengthBytes + MaxLength
      BY <1>5, <1>7, <3>2, Numbers DEF LengthBytes
    <3>. QED
      BY <1>2, <1>3, <2>1, <3>1, <3>3 DEF Bounds
  <2>2. CASE d # c
    BY <1>2, <1>3, <1>7, <2>2 DEF Bounds
  <2>. QED
    BY <2>1, <2>2
<1>10. \A d \in Conn : Held(d)' = Held(d) /\ Pending(d)' = Pending(d)
  BY <1>2 DEF Held, Pending
<1>11. Framed(c)'
  <2>1. PICK rest, lost : /\ Carries(Stream(c), Here(c), Pending(c), rest, lost)
                          /\ peer[c] = "up" => lost = <<>>
    BY <1>2, <1>3 DEF Streams, Framed
  <2>2. PICK s \in Bytes, ms \in Seq(Message), a \in Nat :
          s = Stream(c) /\ ms = Pending(c) /\ a = Here(c) /\ Len(s) = a + Len(l)
    BY <1>3, <1>4, StateFacts
  <2>3. Carries(s, a, ms, rest, <<>>)
    BY <1>2, <2>1, <2>2
  <2>4. ms # <<>>
    <3>1. Len(s) > 0
      BY <1>1, <1>4, <1>5, <2>2
    <3>. QED
      BY <2>3, <3>1, SomePending
  <2>5. ms[Len(ms)] = sent[c][Len(sent[c])]
    <3>1. Len(ms) \in Nat \ {0}
      BY <2>4, EmptySeq
    <3>2. PICK n \in 1 .. Len(ms) : n = Len(ms)
      BY <3>1
    <3>3. /\ ms[n] = sent[c][Len(received[c]) + n] /\ n = Len(sent[c]) - Len(received[c])
          /\ Len(sent[c]) \in Nat /\ Len(received[c]) \in 0 .. Len(sent[c])
      BY <1>3, <2>2, <3>2, StateFacts
    <3>4. Len(received[c]) + n = Len(sent[c])
      BY <3>3
    <3>. QED
      BY <3>2, <3>3, <3>4
  <2>6. Len(l) - k <= Len(ms[Len(ms)])
    <3>1. PICK w \in Nat : w = Len(ms[Len(ms)])
      <4>1. Len(ms) \in 1 .. Len(ms)
        BY <2>4, EmptySeq
      <4>2. ms[Len(ms)] \in Message
        BY <4>1, ElementOfSeq
      <4>. QED
        BY <4>2, MessageIsSeq
    <3>2. LengthLeft(c) = IF Len(l) > w THEN Len(l) - w ELSE 0
      BY <1>4, <2>5, <3>1 DEF LengthLeft
    <3>3. k >= IF Len(l) > w THEN Len(l) - w ELSE 0
      BY <1>1, <3>2
    <3>4. Len(l) - k <= w
      BY <1>5, <3>3
    <3>. QED
      BY <3>1, <3>4
  <2>7. Carries(s, a + k, ms, rest, <<>>)
    <3>1. a + k \in 0 .. Len(s) /\ a <= a + k /\ Len(s) - (a + k) <= Len(ms[Len(ms)])
      <4>1. PICK n \in Nat, i \in Nat : n = Len(l) /\ i = k /\ i <= n
        BY <1>4, <1>5
      <4>2. a + i \in 0 .. a + n /\ a <= a + i /\ (a + n) - (a + i) = n - i
        BY <4>1
      <4>. QED
        BY <2>2, <2>6, <4>1, <4>2
    <3>. QED
      BY <2>3, <2>4, <3>1, Arrived
  <2>8. Stream(c)' = s
    <3>1. Stream(c)' = h \o ((b \o x) \o y)
      BY <1>4, <1>7, <1>10 DEF Stream
    <3>2. (b \o x) \o y = b \o l
      <4>1. Associative(b, x, y)
        BY Association, Zenon
      <4>. QED
        BY <1>5, <4>1 DEF Associative
    <3>. QED
      BY <1>4, <2>2, <3>1, <3>2 DEF Stream
  <2>9. Here(c)' = a + k
    <3>1. a = Len(h) + Len(b) /\ Here(c)' = Len(h) + (Len(b) + k)
      BY <1>4, <1>5, <1>6, <1>7, <1>10, <2>2 DEF Here
    <3>2. Len(h) \in Nat /\ Len(b) \in Nat
      BY Joined
    <3>3. Len(h) + (Len(b) + k) = (Len(h) + Len(b)) + k
      BY <1>5, <3>2
    <3>. QED
      BY <3>1, <3>3
  <2>. QED
    BY <1>10, <2>2, <2>7, <2>8, <2>9 DEF Framed
<1>12. Streams'
  <2> SUFFICES ASSUME NEW d \in Conn, peer'[d] # "closed" PROVE Framed(d)'
    BY DEF Streams
  <2>1. CASE d = c
    BY <1>11, <2>1
  <2>2. CASE d # c
    BY <1>2, <1>3, <1>7, <1>10, <2>2, Untouched DEF Streams
  <2>. QED
    BY <2>1, <2>2
<1>13. Reading'
  <2>1. current \in Conn
    BY <1>3 DEF Types
  <2>. QED
    BY <1>2, <1>3, <1>10, <2>1 DEF Reading
<1>. QED
  BY <1>8, <1>9, <1>12, <1>13 DEF Inv

LEMMA DieInv ==
  ASSUME Inv, NEW c \in Conn, Die(c)
  PROVE  Inv'
<1>1. /\ peer[c] = "up" /\ peer' = [peer EXCEPT ![c] = "gone"]
      /\ left' = [left EXCEPT ![c] = <<>>]
      /\ inbox' = inbox \/ inbox' = [inbox EXCEPT ![c] = <<>>]
      /\ UNCHANGED <<sent, received, pc, round, current, length, response>>
  BY DEF Die, receiverFrame, recvVars
<1>2. Types /\ Bounds /\ Reading /\ Streams
  BY DEF Inv
<1>3. PICK b \in Bytes, l \in Bytes, h \in Bytes : b = inbox[c] /\ l = left[c] /\ h = Held(c)
  BY <1>2, StateFacts
<1>4. /\ inbox' \in [Conn -> Bytes] /\ left' \in [Conn -> Bytes]
      /\ peer' \in [Conn -> {"up", "gone", "closed"}]
      /\ left'[c] = <<>> /\ inbox'[c] \in {b, <<>>} /\ peer'[c] = "gone"
      /\ \A d \in Conn \ {c} : inbox'[d] = inbox[d] /\ left'[d] = left[d] /\ peer'[d] = peer[d]
  BY <1>1, <1>2, <1>3, Nothing DEF Types
<1>5. Types'
  BY <1>1, <1>2, <1>4 DEF Types
<1>6. Bounds'
  <2> SUFFICES ASSUME NEW d \in Conn
               PROVE  /\ Len(inbox'[d]) <= Capacity
                      /\ Len(left'[d]) <= LengthBytes + MaxLength
                      /\ Len(received'[d]) <= Len(sent'[d])
                      /\ peer'[d] # "up" => left'[d] = <<>>
    BY DEF Bounds
  <2>1. CASE d = c
    <3>1. Len(b) <= Capacity
      BY <1>2, <1>3 DEF Bounds
    <3>2. Len(inbox'[c]) <= Capacity /\ Len(left'[c]) = 0
      BY <1>4, <3>1, Nothing, Numbers
    <3>. QED
      BY <1>1, <1>2, <1>4, <2>1, <3>2, Numbers DEF Bounds, LengthBytes
  <2>2. CASE d # c
    BY <1>1, <1>2, <1>4, <2>2 DEF Bounds
  <2>. QED
    BY <2>1, <2>2
<1>7. \A d \in Conn : Held(d)' = Held(d) /\ Pending(d)' = Pending(d)
  BY <1>1 DEF Held, Pending
<1>8. Framed(c)'
  <2>1. PICK rest, lost : Carries(Stream(c), Here(c), Pending(c), rest, lost)
    BY <1>1, <1>2 DEF Streams, Framed
  <2>2. PICK ms \in Seq(Message), a \in Nat : ms = Pending(c) /\ a = Here(c)
    BY <1>2, StateFacts
  <2>3. a = Len(h) + Len(b) /\ Len(h) \in Nat /\ Len(b) \in Nat
    BY <1>3, <2>2, Joined DEF Here
  <2>4. /\ h \o b \in Bytes /\ Len(h \o b) = a /\ b \o l \in Bytes
        /\ Stream(c) = h \o (b \o l) /\ (h \o b) \o l = h \o (b \o l)
    BY <1>3, <2>3, Joined, Associates DEF Stream
  <2>5. CASE inbox'[c] = b
    <3>1. Stream(c)' = h \o b
      <4>1. Stream(c)' = h \o (b \o <<>>) /\ b \o <<>> = b
        BY <1>3, <1>4, <1>7, <2>5, Nothing DEF Stream
      <4>. QED
        BY <4>1
    <3>2. Here(c)' = a
      BY <1>3, <1>7, <2>3, <2>5 DEF Here
    <3>3. Carries(h \o b, a, ms, rest, l \o lost)
      <4>1. PICK s \in Bytes : s = h \o b
        BY <2>4
      <4>2. Carries(s \o l, a, ms, rest, lost) /\ a \in 0 .. Len(s)
        <5>1. s \o l = Stream(c)
          BY <2>4, <4>1
        <5>2. a \in 0 .. Len(s)
          BY <2>4, <4>1
        <5>. QED
          BY <2>1, <2>2, <5>1, <5>2
      <4>3. Carries(s, a, ms, rest, l \o lost)
        BY <4>2, Shortened
      <4>. QED
        BY <4>1, <4>3
    <3>. QED
      BY <1>4, <1>7, <2>2, <3>1, <3>2, <3>3 DEF Framed
  <2>6. CASE inbox'[c] = <<>>
    <3>1. Stream(c)' = h
      <4>1. Stream(c)' = h \o (<<>> \o <<>>) /\ <<>> \o <<>> = <<>> /\ h \o <<>> = h
        BY <1>3, <1>4, <1>7, <2>6, Nothing DEF Stream
      <4>. QED
        BY <4>1
    <3>2. Here(c)' = Len(h)
      <4>1. Here(c)' = Len(h) + 0
        BY <1>3, <1>7, <2>6, Nothing DEF Here
      <4>. QED
        BY <2>3, <4>1
    <3>3. Len(h) = 0 \/ (ms # <<>> /\ 2 <= Len(h) /\ Len(h) <= 2 + Len(ms[1]))
      <4>1. CASE pc = "body" /\ current = c
        <5>1. h = Encode(length) \o response /\ ms # <<>> /\ length = Len(ms[1]) /\ Len(response) < length
          BY <1>2, <1>3, <2>2, <4>1 DEF Held, Reading
        <5>2. length \in Nat /\ response \in Bytes
          BY <1>2, Numbers DEF Types
        <5>3. Len(h) = 2 + Len(response) /\ Len(response) \in Nat
          <6>1. PICK e \in Bytes : e = Encode(length) /\ Len(e) = 2
            BY <5>2, Decoding
          <6>2. Len(e \o response) = Len(e) + Len(response) /\ Len(response) \in Nat
            BY <5>2, Joined
          <6>. QED
            BY <5>1, <6>1, <6>2
        <5>. QED
          BY <5>1, <5>2, <5>3
      <4>2. CASE ~(pc = "body" /\ current = c)
        BY <1>3, <4>2, Nothing DEF Held
      <4>. QED
        BY <4>1, <4>2
    <3>4. Carries(h, Len(h), ms, rest, (b \o l) \o lost)
      <4>1. PICK t \in Bytes : t = b \o l
        BY <2>4
      <4>2. Carries(h \o t, a, ms, rest, lost)
        BY <2>1, <2>2, <2>4, <4>1
      <4>3. PICK n \in 0 .. Len(h) : n = Len(h)
        BY <2>3
      <4>4. n = a \/ n = 0 \/ (ms # <<>> /\ 2 <= n /\ n <= 2 + Len(ms[1]))
        BY <3>3, <4>3
      <4>5. Carries(h, n, ms, rest, t \o lost)
        BY <4>2, <4>4, Shortened
      <4>. QED
        BY <4>1, <4>3, <4>5
    <3>. QED
      BY <1>4, <1>7, <2>2, <3>1, <3>2, <3>4 DEF Framed
  <2>. QED
    BY <1>4, <2>5, <2>6
<1>9. Streams'
  <2> SUFFICES ASSUME NEW d \in Conn, peer'[d] # "closed" PROVE Framed(d)'
    BY DEF Streams
  <2>1. CASE d = c
    BY <1>8, <2>1
  <2>2. CASE d # c
    BY <1>1, <1>2, <1>4, <1>7, <2>2, Untouched DEF Streams
  <2>. QED
    BY <2>1, <2>2
<1>10. Reading'
  <2>1. current \in Conn /\ round \subseteq Conn
    BY <1>2 DEF Types
  <2>2. \A d \in Conn : peer[d] # "closed" => peer'[d] # "closed"
    BY <1>4
  <2>. QED
    BY <1>1, <1>2, <1>7, <2>1, <2>2 DEF Reading
<1>. QED
  BY <1>5, <1>6, <1>9, <1>10 DEF Inv

-----------------------------------------------------------------------------
(* The receiver.                                                           *)

LEMMA OneLess ==
  ASSUME NEW s \in Seq(Message), NEW k \in Nat, k < Len(s)
  PROVE  /\ Drop(s, k) \in Seq(Message) /\ Drop(s, k)[1] = s[k + 1]
         /\ Drop(s, k + 1) \in Seq(Message)
         /\ Len(Drop(s, k + 1)) = Len(Drop(s, k)) - 1
         /\ \A j \in 1 .. Len(Drop(s, k + 1)) : Drop(s, k + 1)[j] = Drop(s, k)[j + 1]
<1>1. PICK n \in Nat : n = Len(s) /\ k < n
  BY LenProperties
<1>2. PICK i \in 0 .. Len(s) : i = k + 1
  BY <1>1
<1>3. /\ Drop(s, i) \in Seq(Message) /\ Len(Drop(s, i)) = n - i
      /\ \A j \in 1 .. n - i : Drop(s, i)[j] = s[i + j]
  BY <1>1, Splitting
<1>4. k \in 0 .. Len(s)
  BY <1>1
<1>5. /\ Drop(s, k) \in Seq(Message) /\ Len(Drop(s, k)) = n - k
      /\ \A j \in 1 .. n - k : Drop(s, k)[j] = s[k + j]
  BY <1>1, <1>4, Splitting
<1>6. 1 \in 1 .. n - k /\ n - i = (n - k) - 1
  BY <1>1, <1>2
<1>7. ASSUME NEW j \in 1 .. n - i
      PROVE  Drop(s, i)[j] = Drop(s, k)[j + 1]
  <2>1. j + 1 \in 1 .. n - k /\ i + j = k + (j + 1)
    BY <1>1, <1>2
  <2>2. Drop(s, k)[j + 1] = s[k + (j + 1)]
    BY <1>5, <2>1
  <2>. QED
    BY <1>3, <2>1, <2>2
<1>8. k + 1 = i /\ Len(Drop(s, i)) = Len(Drop(s, k)) - 1 /\ Drop(s, k)[1] = s[k + 1]
  BY <1>2, <1>3, <1>5, <1>6
<1>. QED
  BY <1>3, <1>5, <1>7, <1>8

\* When the first message is complete, it is what was read, and the rest of the
\* stream carries the others.
Completes(s, k, f, t, m, a, lost) ==
  /\ m = s[k + 1] /\ m \in Message
  /\ \E rest1 : Carries(t, a - Len(f), Drop(s, k + 1), rest1, lost)

LEMMA Completed ==
  ASSUME NEW s \in Seq(Message), NEW k \in Nat, k < Len(s),
         NEW f \in Bytes, NEW t \in Bytes, NEW m \in Bytes, NEW a \in Nat,
         f = Encode(Len(m)) \o m, Len(m) = Len(s[k + 1]), Len(f) <= a,
         NEW rest, NEW lost, Carries(f \o t, a, Drop(s, k), rest, lost)
  PROVE  Completes(s, k, f, t, m, a, lost)
<1>1. PICK ms \in Seq(Message) :
        /\ ms = Drop(s, k) /\ ms[1] = s[k + 1] /\ ms # <<>> /\ ms[1] \in Message
  <2>1. Drop(s, k) \in Seq(Message) /\ Drop(s, k)[1] = s[k + 1]
    BY OneLess
  <2>2. k \in 0 .. Len(s) /\ Len(s) \in Nat
    BY LenProperties
  <2>3. Len(Drop(s, k)) = Len(s) - k
    BY <2>2, Splitting
  <2>4. Len(Drop(s, k)) # 0 /\ k + 1 \in 1 .. Len(s)
    BY <2>2, <2>3
  <2>5. s[k + 1] \in Message /\ Drop(s, k) # <<>>
    BY <2>4, Nothing, ElementOfSeq
  <2>. QED
    BY <2>1, <2>5
<1>2. PICK ms1 \in Seq(Message) : /\ ms1 = Drop(s, k + 1) /\ Len(ms1) = Len(ms) - 1
                                  /\ \A j \in 1 .. Len(ms1) : ms1[j] = ms[j + 1]
  <2>1. /\ Drop(s, k + 1) \in Seq(Message)
        /\ Len(Drop(s, k + 1)) = Len(Drop(s, k)) - 1
        /\ \A j \in 1 .. Len(Drop(s, k + 1)) : Drop(s, k + 1)[j] = Drop(s, k)[j + 1]
    BY OneLess
  <2>. QED
    BY <1>1, <2>1
<1>3. PICK g \in Bytes : g = ms[1] /\ Len(g) = Len(m)
  BY <1>1, MessageIsSeq
<1>4. PICK e \in Bytes : e = Encode(Len(m)) /\ Len(e) = 2 /\ Len(m) \in Nat
  BY FrameIsSeq, Decoding
<1>5. Len(f) = 2 + Len(ms[1])
  <2>1. Len(e \o m) = Len(e) + Len(m)
    BY Joined
  <2>. QED
    BY <1>3, <1>4, <2>1
<1>6. f = Frame(ms[1]) /\ \E rest1 : Carries(t, a - Len(f), ms1, rest1, lost)
  <2>1. Carries(f \o t, a, ms, rest, lost)
    BY <1>1
  <2>. QED
    BY <1>1, <1>2, <1>5, <2>1, Popped
<1>7. m = g
  <2>1. e \o m = e \o g
    BY <1>3, <1>4, <1>6 DEF Frame
  <2>. QED
    BY <1>3, <2>1, Cancelled
<1>. QED
  BY <1>1, <1>2, <1>3, <1>6, <1>7 DEF Completes

\* Regrouping four.
Regroups(e, r, x, u) == (e \o r) \o (x \o u) = (e \o (r \o x)) \o u

LEMMA Regrouped ==
  ASSUME NEW e \in Bytes, NEW r \in Bytes, NEW x \in Bytes, NEW u \in Bytes
  PROVE  Regroups(e, r, x, u)
<1>1. (e \o r) \o (x \o u) = e \o (r \o (x \o u))
  <2>1. PICK v \in Bytes : v = x \o u
    BY Joined, Zenon
  <2>2. Associative(e, r, v)
    BY Association, Zenon
  <2>. QED
    BY <2>1, <2>2 DEF Associative
<1>2. r \o (x \o u) = (r \o x) \o u
  <2>1. Associative(r, x, u)
    BY Association, Zenon
  <2>. QED
    BY <2>1 DEF Associative
<1>3. (e \o (r \o x)) \o u = e \o ((r \o x) \o u)
  <2>1. PICK m \in Bytes : m = r \o x
    BY Joined, Zenon
  <2>2. Associative(e, m, u)
    BY Association, Zenon
  <2>. QED
    BY <2>1, <2>2 DEF Associative
<1>. QED
  BY <1>1, <1>2, <1>3 DEF Regroups

\* The first k bytes of what has arrived, b, are taken; l is still on its way.
Divides(b, l, k) ==
  /\ Take(b, k) \in Bytes /\ Len(Take(b, k)) = k
  /\ Drop(b, k) \in Bytes /\ Len(Drop(b, k)) = Len(b) - k
  /\ Drop(b, k) \o l \in Bytes
  /\ Take(b, k) \o (Drop(b, k) \o l) = b \o l

LEMMA Divided ==
  ASSUME NEW b \in Bytes, NEW l \in Bytes, NEW k \in 0 .. Len(b)
  PROVE  Divides(b, l, k)
<1>1. PICK x \in Bytes, y \in Bytes :
        /\ x = Take(b, k) /\ y = Drop(b, k) /\ x \o y = b
        /\ Len(x) = k /\ Len(y) = Len(b) - k
  BY Splitting DEF Bytes
<1>2. y \o l \in Bytes
  BY Joined
<1>3. (x \o y) \o l = x \o (y \o l)
  BY Associates
<1>. QED
  BY <1>1, <1>2, <1>3 DEF Divides

\* They are some more of a body, r, of which the length is e.
Piece(e, r, b, l, k) ==
  \E m, y \in Bytes :
    /\ m = r \o Take(b, k) /\ y = Drop(b, k) /\ e \o m \in Bytes
    /\ Len(m) = Len(r) + k /\ Len(y) = Len(b) - k
    /\ (e \o r) \o (b \o l) = (e \o m) \o (y \o l)
    /\ Len(e \o r) + Len(b) = Len(e \o m) + Len(y)

LEMMA BodyPiece ==
  ASSUME NEW e \in Bytes, NEW r \in Bytes, NEW b \in Bytes, NEW l \in Bytes,
         NEW k \in 0 .. Len(b)
  PROVE  Piece(e, r, b, l, k)
<1>1. PICK x \in Bytes, y \in Bytes, u \in Bytes :
        /\ x = Take(b, k) /\ y = Drop(b, k) /\ u = y \o l /\ x \o u = b \o l
        /\ Len(x) = k /\ Len(y) = Len(b) - k
  <2>1. Divides(b, l, k)
    BY Divided, Zenon
  <2>. QED
    BY <2>1 DEF Divides
<1>2. /\ r \o x \in Bytes /\ Len(r \o x) = Len(r) + Len(x)
  BY Joined
<1>3. PICK m \in Bytes : m = r \o x /\ Len(m) = Len(r) + Len(x)
  BY <1>2
<1>4. /\ e \o m \in Bytes /\ Len(e \o m) = Len(e) + Len(m)
      /\ e \o r \in Bytes /\ Len(e \o r) = Len(e) + Len(r)
      /\ Len(e) \in Nat /\ Len(r) \in Nat /\ Len(b) \in Nat
  BY Joined
<1>5. Len(e \o r) + Len(b) = Len(e \o m) + Len(y)
  <2>1. PICK p \in Nat, q \in Nat, n \in Nat, j \in Nat :
          p = Len(e) /\ q = Len(r) /\ n = Len(b) /\ j = k
    BY <1>4
  <2>2. (p + q) + n = (p + (q + j)) + (n - j)
    OBVIOUS
  <2>. QED
    BY <1>1, <1>3, <1>4, <2>1, <2>2
<1>6. (e \o r) \o (b \o l) = (e \o m) \o (y \o l)
  <2>1. Regroups(e, r, x, u)
    BY Regrouped, Zenon
  <2>. QED
    BY <1>1, <1>3, <2>1 DEF Regroups
<1>. QED
  BY <1>1, <1>3, <1>4, <1>5, <1>6 DEF Piece

\* recv has read frame f as far as body m, of a message of n bytes, and y is
\* what it leaves.
LEMMA ContinueInv ==
  ASSUME Inv, pc \in {"length", "body"},
         NEW m \in Bytes, NEW n \in Nat, NEW f \in Bytes, NEW y \in Bytes,
         f = Encode(n) \o m, Len(m) <= n, Len(y) <= Capacity,
         Stream(current) = f \o (y \o left[current]), Here(current) = Len(f) + Len(y),
         Pending(current) # <<>>, n = Len(Pending(current)[1]),
         Continue(m, n), inbox' = [inbox EXCEPT ![current] = y],
         UNCHANGED <<senderFrame, peer, round, current>>
  PROVE  Inv' /\ (received' = received \/ Channel!Receive(current))
<1>1. Types /\ Bounds /\ Reading /\ Streams /\ current \in Conn
  BY DEF Inv, Types
<1>2. PICK c \in Conn : c = current
  BY <1>1
<1>3. /\ length' = n /\ response' = m /\ current' = c /\ round' = round
      /\ sent' = sent /\ left' = left /\ peer' = peer
  BY <1>2 DEF Continue, senderFrame
<1>4. PICK ms \in Seq(Message), l \in Bytes : ms = Pending(c) /\ l = left[c] /\ ms # <<>>
  BY <1>1, <1>2, StateFacts
<1>5. PICK g \in Message : g = ms[1] /\ n = Len(g) /\ g \in Bytes
  <2>1. 1 \in 1 .. Len(ms)
    BY <1>4, EmptySeq
  <2>2. ms[1] \in Message
    BY <2>1, ElementOfSeq
  <2>. QED
    BY <1>2, <1>4, <2>2, MessageIsSeq
<1>6. n \in 0 .. MaxLength
  BY <1>5, MessageIsSeq
<1>7. /\ inbox' \in [Conn -> Bytes] /\ inbox'[c] = y
      /\ \A d \in Conn \ {c} : inbox'[d] = inbox[d]
  BY <1>1, <1>2 DEF Types
<1>8. PICK e \in Bytes : e = Encode(n) /\ Len(e) = 2
  BY Decoding
<1>9. /\ f = e \o m /\ Len(f) = 2 + Len(m) /\ Len(m) \in Nat /\ Len(y) \in Nat
      /\ y \o l \in Bytes
  <2>1. Len(e \o m) = Len(e) + Len(m) /\ Len(m) \in Nat
    BY Joined
  <2>2. Len(y) \in Nat /\ y \o l \in Bytes
    BY Joined
  <2>. QED
    BY <1>8, <2>1, <2>2
<1>10. peer[c] # "closed" /\ c \notin round
  BY <1>1, <1>2 DEF Reading
<1>11. PICK rest, lost : /\ Carries(f \o (y \o l), Len(f) + Len(y), ms, rest, lost)
                         /\ peer[c] = "up" => lost = <<>>
  BY <1>1, <1>2, <1>4, <1>10 DEF Streams, Framed
<1>12. ASSUME NEW d \in Conn, d # c, pc' # "body" \/ current' = c
       PROVE  Held(d)' = Held(d)
  BY <1>2, <1>12 DEF Held
<1>13. CASE Len(m) # n
  <2>1. pc' = "body" /\ received' = received
    BY <1>13 DEF Continue
  <2>2. Types'
    BY <1>1, <1>2, <1>3, <1>6, <1>7, <2>1 DEF Types
  <2>3. Bounds'
    <3> SUFFICES ASSUME NEW d \in Conn
                 PROVE  /\ Len(inbox'[d]) <= Capacity
                        /\ Len(left'[d]) <= LengthBytes + MaxLength
                        /\ Len(received'[d]) <= Len(sent'[d])
                        /\ peer'[d] # "up" => left'[d] = <<>>
      BY DEF Bounds
    <3>1. Len(inbox'[d]) <= Capacity
      BY <1>1, <1>7 DEF Bounds
    <3>. QED
      BY <1>1, <1>3, <2>1, <3>1 DEF Bounds
  <2>4. \A d \in Conn : Pending(d)' = Pending(d)
    BY <1>3, <2>1 DEF Pending
  <2>5. Reading'
    <3>1. Len(m) < n
      BY <1>9, <1>13
    <3>. QED
      BY <1>1, <1>2, <1>3, <1>4, <1>10, <2>1, <2>4, <3>1 DEF Reading
  <2>6. Framed(c)'
    <3>1. Held(c)' = f
      BY <1>3, <1>8, <1>9, <2>1 DEF Held
    <3>2. Stream(c)' = f \o (y \o l) /\ Here(c)' = Len(f) + Len(y)
      BY <1>3, <1>4, <1>7, <3>1 DEF Stream, Here
    <3>. QED
      BY <1>3, <1>4, <1>11, <2>4, <3>2 DEF Framed
  <2>7. Streams'
    <3> SUFFICES ASSUME NEW d \in Conn, peer'[d] # "closed" PROVE Framed(d)'
      BY DEF Streams
    <3>1. CASE d = c
      BY <2>6, <3>1
    <3>2. CASE d # c
      BY <1>1, <1>3, <1>7, <1>12, <2>1, <3>2, Untouched DEF Streams
    <3>. QED
      BY <3>1, <3>2
  <2>. QED
    BY <2>1, <2>2, <2>3, <2>5, <2>7 DEF Inv
<1>14. CASE Len(m) = n
  <2>1. /\ received' = [received EXCEPT ![c] = Append(@, m)] /\ pc' \in {"select", "serve"}
    BY <1>2, <1>14 DEF Continue, Served
  <2>2. PICK s \in Seq(Message), k \in Nat :
          s = sent[c] /\ k = Len(received[c]) /\ ms = Drop(s, k) /\ k < Len(s)
    <3>0. /\ sent[c] \in Seq(Message) /\ Len(sent[c]) \in Nat
          /\ Len(received[c]) \in Nat /\ Len(Pending(c)) = Len(sent[c]) - Len(received[c])
      <4>1. Types /\ Bounds
        BY <1>1
      <4>. QED
        BY <4>1, StateFacts
    <3>1. PICK p \in Nat, q \in Nat : p = Len(sent[c]) /\ q = Len(received[c])
      BY <3>0
    <3>2. sent[c] \in Seq(Message) /\ Len(Pending(c)) = p - q
      BY <3>0, <3>1
    <3>3. Len(ms) \in Nat \ {0}
      BY <1>4, EmptySeq
    <3>4. q < p
      BY <1>4, <3>2, <3>3
    <3>. QED
      BY <1>4, <3>1, <3>2, <3>4 DEF Pending
  <2>3. g = s[k + 1]
    BY <1>5, <2>2, OneLess
  <2>4. PICK t \in Bytes, a \in Nat :
          t = y \o l /\ a = Len(f) + Len(y) /\ Len(f) <= a /\ a - Len(f) = Len(y)
    <3>1. PICK p \in Nat, q \in Nat : p = Len(f) /\ q = Len(y)
      BY LenProperties DEF Bytes
    <3>2. p + q \in Nat /\ p <= p + q /\ (p + q) - p = q
      OBVIOUS
    <3>. QED
      BY <1>9, <3>1, <3>2
  <2>5. m = g /\ \E rest1 : Carries(t, Len(y), Drop(s, k + 1), rest1, lost)
    <3>1. Carries(f \o t, a, Drop(s, k), rest, lost)
      BY <1>11, <2>2, <2>4
    <3>2. f = Encode(Len(m)) \o m /\ Len(m) = Len(s[k + 1])
      BY <1>5, <1>8, <1>9, <1>14, <2>3
    <3>3. k < Len(s) /\ Len(f) <= a
      BY <2>2, <2>4
    <3>4. Completes(s, k, f, t, m, a, lost)
      BY <3>1, <3>2, <3>3, Completed, Zenon
    <3>. QED
      BY <2>3, <2>4, <3>4 DEF Completes
  <2>6. m = g
    BY <2>5
  <2>7. /\ Append(received[c], g) \in Seq(Message)
        /\ Len(Append(received[c], g)) = k + 1
    BY <1>1, <2>2, StateFacts, AppendProperties
  <2>8. /\ received' \in [Conn -> Seq(Message)] /\ received'[c] = Append(received[c], g)
        /\ \A d \in Conn \ {c} : received'[d] = received[d]
    BY <1>1, <2>1, <2>6, <2>7 DEF Types
  <2>9. Types'
    BY <1>1, <1>2, <1>3, <1>6, <1>7, <2>1, <2>8 DEF Types
  <2>10. Bounds'
    <3> SUFFICES ASSUME NEW d \in Conn
                 PROVE  /\ Len(inbox'[d]) <= Capacity
                        /\ Len(left'[d]) <= LengthBytes + MaxLength
                        /\ Len(received'[d]) <= Len(sent'[d])
                        /\ peer'[d] # "up" => left'[d] = <<>>
      BY DEF Bounds
    <3>1. Len(inbox'[d]) <= Capacity
      BY <1>1, <1>7 DEF Bounds
    <3>2. Len(received'[d]) <= Len(sent'[d])
      <4>1. CASE d = c
        <5>1. Len(s) \in Nat /\ k + 1 <= Len(s)
          BY <2>2, LenProperties
        <5>. QED
          BY <1>3, <2>2, <2>7, <2>8, <4>1, <5>1
      <4>2. CASE d # c
        BY <1>1, <1>3, <2>8, <4>2 DEF Bounds
      <4>. QED
        BY <4>1, <4>2
    <3>. QED
      BY <1>1, <1>3, <3>1, <3>2 DEF Bounds
  <2>11. Reading'
    BY <1>1, <1>3, <2>1 DEF Reading
  <2>12. Framed(c)'
    <3>1. Held(c)' = <<>>
      BY <2>1 DEF Held
    <3>2. Stream(c)' = y \o l
      <4>1. Stream(c)' = <<>> \o (y \o l)
        BY <1>3, <1>4, <1>7, <3>1 DEF Stream
      <4>. QED
        BY <1>9, <4>1, Nothing
    <3>3. Here(c)' = Len(y)
      <4>1. Here(c)' = 0 + Len(y)
        BY <1>7, <3>1, Nothing DEF Here
      <4>. QED
        BY <1>9, <4>1
    <3>4. Pending(c)' = Drop(s, k + 1)
      BY <1>3, <2>2, <2>7, <2>8 DEF Pending
    <3>. QED
      BY <1>3, <1>11, <2>4, <2>5, <3>2, <3>3, <3>4 DEF Framed
  <2>13. Streams'
    <3> SUFFICES ASSUME NEW d \in Conn, peer'[d] # "closed" PROVE Framed(d)'
      BY DEF Streams
    <3>1. CASE d = c
      BY <2>12, <3>1
    <3>2. CASE d # c
      BY <1>1, <1>3, <1>7, <1>12, <2>1, <2>8, <3>2, Untouched DEF Streams
    <3>. QED
      BY <3>1, <3>2
  <2>14. Channel!Receive(current)
    <3>1. received' = [received EXCEPT ![c] = Append(@, sent[c][Len(@) + 1])]
      BY <2>1, <2>2, <2>3, <2>6
    <3>. QED
      BY <1>2, <1>3, <2>2, <3>1 DEF Channel!Receive
  <2>. QED
    BY <2>9, <2>10, <2>11, <2>13, <2>14 DEF Inv
<1>. QED
  BY <1>13, <1>14

\* The length is there as a whole.
LEMMA RecvLengthInv ==
  ASSUME Inv, RecvLength
  PROVE  Inv' /\ (received' = received \/ Channel!Receive(current))
<1>1. Types /\ Bounds /\ Reading /\ Streams /\ current \in Conn
  BY DEF Inv, Types
<1>2. /\ pc = "length" /\ inbox[current] # <<>>
      /\ UNCHANGED <<senderFrame, peer, round, current>>
  BY DEF RecvLength
<1>3. PICK b \in Bytes, l \in Bytes : b = inbox[current] /\ l = left[current] /\ Len(b) \in Nat \ {0}
  <2>1. inbox[current] \in Bytes /\ left[current] \in Bytes
    BY <1>1, StateFacts
  <2>2. Len(inbox[current]) # 0 /\ Len(inbox[current]) \in Nat
    BY <1>2, <2>1, Nothing, LenProperties DEF Bytes
  <2>. QED
    BY <2>1, <2>2
<1>4. Held(current) = <<>>
  BY <1>2 DEF Held
<1>5. /\ Stream(current) = b \o l /\ b \o l \in Bytes /\ Here(current) = Len(b)
      /\ Len(<<>>) = 0
  <2>1. b \o l \in Bytes
    BY Joined
  <2>2. Stream(current) = <<>> \o (b \o l) /\ Here(current) = 0 + Len(b)
    BY <1>3, <1>4, Nothing DEF Stream, Here
  <2>. QED
    BY <1>3, <2>1, <2>2, Nothing
<1>6. PICK ms \in Seq(Message) : ms = Pending(current)
  BY <1>1, StateFacts
<1>7. PICK rest, lost : Carries(b \o l, Len(b), ms, rest, lost)
  <2>1. peer[current] # "closed"
    BY <1>1, <1>2 DEF Reading
  <2>. QED
    BY <1>1, <1>5, <1>6, <2>1 DEF Streams, Framed
<1>8. /\ ms # <<>> /\ ms[1] \in Message /\ Len(b) >= 2
      /\ (b \o l)[1] = Encode(Len(ms[1]))[1] /\ (b \o l)[2] = Encode(Len(ms[1]))[2]
  <2>1. PICK s \in Bytes, a \in Nat : s = b \o l /\ a = Len(b) /\ a # 0
    BY <1>3, <1>5
  <2>2. Carries(s, a, ms, rest, lost)
    BY <1>7, <2>1
  <2>3. /\ ms # <<>> /\ ms[1] \in Message /\ a >= 2
        /\ s[1] = Encode(Len(ms[1]))[1] /\ s[2] = Encode(Len(ms[1]))[2]
    BY <2>1, <2>2, LengthThere
  <2>. QED
    BY <2>1, <2>3
<1>9. Least(LengthBytes, Len(b)) = 2
  <2>1. PICK q \in Nat : q = Len(b) /\ q >= 2
    BY <1>3, <1>8
  <2>2. Least(2, q) = 2
    BY <2>1 DEF Least
  <2>. QED
    BY <2>1, <2>2 DEF LengthBytes
<1>10. PICK x \in Bytes, y \in Bytes :
         /\ x = Take(b, 2) /\ y = Drop(b, 2) /\ x \o y = b
         /\ Len(x) = 2 /\ Len(y) = Len(b) - 2 /\ x[1] = b[1] /\ x[2] = b[2]
  <2>1. 2 \in 0 .. Len(b) /\ 1 \in 1 .. 2 /\ 2 \in 1 .. 2
    BY <1>3, <1>8
  <2>. QED
    BY <2>1, Splitting DEF Bytes
<1>11. PICK n \in Nat : n = Len(ms[1])
  BY <1>8, MessageIsSeq
<1>12. x = Encode(n) /\ Decode(x) = n
  <2>1. 1 \in 1 .. Len(b) /\ 2 \in 1 .. Len(b)
    BY <1>3, <1>8
  <2>2. (b \o l)[1] = b[1] /\ (b \o l)[2] = b[2]
    BY <2>1, Joined
  <2>. QED
    BY <1>8, <1>10, <1>11, <2>2, Decoding
<1>13. /\ inbox' = [inbox EXCEPT ![current] = y]
       /\ \E stack \in [1 .. 2 - 2 -> 0 .. Base - 1] : Continue(<<>>, Decode(x \o stack))
  BY <1>3, <1>9, <1>10 DEF RecvLength, LengthBytes
<1>14. Continue(<<>>, n)
  <2>1. PICK stack \in [1 .. 2 - 2 -> 0 .. Base - 1] : Continue(<<>>, Decode(x \o stack))
    BY <1>13
  <2>2. stack = <<>>
    OBVIOUS
  <2>3. x \o stack = x
    BY <2>2, Nothing
  <2>. QED
    BY <1>12, <2>1, <2>3
<1>15. <<>> \in Bytes /\ x = Encode(n) \o <<>> /\ Len(<<>>) <= n
  BY <1>12, Nothing
<1>16. Stream(current) = x \o (y \o left[current])
  <2>1. (x \o y) \o l = x \o (y \o l)
    BY Associates
  <2>. QED
    BY <1>3, <1>5, <1>10, <2>1
<1>17. Here(current) = Len(x) + Len(y) /\ Len(y) <= Capacity
  <2>1. Len(b) <= Capacity
    BY <1>1, <1>3 DEF Bounds
  <2>. QED
    BY <1>3, <1>5, <1>10, <2>1, Numbers
<1>. QED
  BY <1>2, <1>6, <1>8, <1>11, <1>13, <1>14, <1>15, <1>16, <1>17, ContinueInv

LEMMA RecvBodyInv ==
  ASSUME Inv, RecvBody
  PROVE  Inv' /\ (received' = received \/ Channel!Receive(current))
<1>1. Types /\ Bounds /\ Reading /\ Streams /\ current \in Conn
  BY DEF Inv, Types
<1>2. /\ pc = "body" /\ inbox[current] # <<>>
      /\ UNCHANGED <<senderFrame, peer, round, current>>
  BY DEF RecvBody
<1>3. PICK b \in Bytes, l \in Bytes, r \in Bytes :
        /\ b = inbox[current] /\ l = left[current] /\ r = response
        /\ Len(b) \in Nat /\ Len(r) \in Nat
  <2>1. inbox[current] \in Bytes /\ left[current] \in Bytes /\ response \in Bytes
    BY <1>1, StateFacts DEF Types
  <2>. QED
    BY <2>1, LenProperties DEF Bytes
<1>4. PICK n \in Nat : n = length /\ Len(r) < n
  BY <1>1, <1>2, <1>3, Numbers DEF Types, Reading
<1>5. PICK e \in Bytes : e = Encode(n) /\ Len(e) = 2
  BY Decoding
<1>6. Held(current) = e \o r
  BY <1>2, <1>3, <1>4, <1>5 DEF Held
<1>7. PICK k \in 0 .. Len(b) :
         k = Least(length - Len(response), Len(inbox[current])) /\ k <= n - Len(r)
  <2>1. PICK p \in Nat, q \in Nat : p = n - Len(r) /\ q = Len(b)
    BY <1>3, <1>4
  <2>2. Least(p, q) \in 0 .. q /\ Least(p, q) <= p
    BY DEF Least
  <2>. QED
    BY <1>3, <1>4, <2>1, <2>2
<1>8. PICK m \in Bytes, y \in Bytes :
        /\ m = r \o Take(b, k) /\ y = Drop(b, k)
        /\ Len(m) = Len(r) + k /\ Len(y) = Len(b) - k
        /\ e \o m \in Bytes
        /\ (e \o r) \o (b \o l) = (e \o m) \o (y \o l)
        /\ Len(e \o r) + Len(b) = Len(e \o m) + Len(y)
  <2>1. Piece(e, r, b, l, k)
    BY BodyPiece, Zenon
  <2>. QED
    BY <2>1 DEF Piece
<1>9. /\ inbox' = [inbox EXCEPT ![current] = y] /\ Continue(m, n)
  BY <1>3, <1>4, <1>7, <1>8 DEF RecvBody
<1>10. Stream(current) = (e \o m) \o (y \o left[current])
  BY <1>3, <1>6, <1>8 DEF Stream
<1>11. Here(current) = Len(e \o m) + Len(y)
  BY <1>3, <1>6, <1>8 DEF Here
<1>12. Len(m) <= n /\ Len(y) <= Capacity
  <2>1. Len(b) <= Capacity
    BY <1>1, <1>3 DEF Bounds
  <2>2. PICK p \in Nat, q \in Nat, j \in Nat :
          p = Len(r) /\ q = Len(b) /\ j = k /\ j <= n - p /\ q <= Capacity
    BY <1>3, <1>7, <2>1
  <2>3. p + j <= n /\ q - j <= Capacity
    BY <2>2, Numbers
  <2>. QED
    BY <1>8, <2>2, <2>3
<1>13. Pending(current) # <<>> /\ n = Len(Pending(current)[1])
  BY <1>1, <1>2, <1>4 DEF Reading
<1>14. PICK f \in Bytes : f = e \o m
  BY <1>8
<1>. QED
  BY <1>2, <1>5, <1>9, <1>10, <1>11, <1>12, <1>13, <1>14, ContinueInv

\* The steps that read nothing.
LEMMA ServeInv ==
  ASSUME Inv, ConnectionsWithData \/ Serve \/ RecvFails
  PROVE  Inv' /\ received' = received /\ sent' = sent
<1>1. Types /\ Bounds /\ Reading /\ Streams /\ current \in Conn
  BY DEF Inv, Types
<1>2. UNCHANGED <<sent, left, received, inbox, length, response>>
  BY DEF ConnectionsWithData, Serve, RecvFails, senderFrame, recvVars
<1>3. /\ peer' \in [Conn -> {"up", "gone", "closed"}]
      /\ \A c \in Conn : peer'[c] = peer[c] \/ (peer'[c] = "closed" /\ peer[c] = "gone")
      /\ pc' \in {"select", "serve", "length"} /\ round' \subseteq Conn /\ current' \in Conn
  BY <1>1 DEF ConnectionsWithData, Serve, RecvFails, senderFrame, recvVars, Types, Served
<1>4. Types'
  BY <1>1, <1>2, <1>3 DEF Types
<1>5. Bounds'
  BY <1>1, <1>2, <1>3 DEF Bounds
<1>6. Reading'
  <2>1. CASE ConnectionsWithData
    BY <1>3, <2>1 DEF ConnectionsWithData, Readable, Reading
  <2>2. CASE Serve
    BY <1>1, <2>2 DEF Serve, Reading
  <2>3. CASE RecvFails
    <3>1. /\ round' = round /\ current \notin round /\ pc' \in {"select", "serve"}
          /\ peer' = [peer EXCEPT ![current] = "closed"]
      BY <1>1, <2>3 DEF RecvFails, Reading, Served
    <3>2. \A c \in round : peer'[c] = peer[c]
      BY <1>1, <3>1 DEF Types
    <3>. QED
      BY <1>1, <3>1, <3>2 DEF Reading
  <2>. QED
    BY <2>1, <2>2, <2>3
<1>7. \A c \in Conn : peer'[c] # "closed" => Held(c)' = Held(c)
  <2>1. CASE ConnectionsWithData \/ Serve
    BY <1>3, <2>1 DEF Held, ConnectionsWithData, Serve
  <2>2. CASE RecvFails
    <3>1. peer'[current] = "closed" /\ pc' \in {"select", "serve"}
      BY <1>1, <2>2 DEF RecvFails, Types, Served
    <3>. QED
      BY <3>1 DEF Held
  <2>. QED
    BY <2>1, <2>2
<1>8. Streams'
  <2> SUFFICES ASSUME NEW d \in Conn, peer'[d] # "closed" PROVE Framed(d)'
    BY DEF Streams
  <2>. QED
    BY <1>1, <1>2, <1>3, <1>7, Untouched DEF Streams
<1>. QED
  BY <1>2, <1>4, <1>5, <1>6, <1>8 DEF Inv

-----------------------------------------------------------------------------
(* The theorems.                                                           *)

LEMMA StepInv ==
  ASSUME ~SplitsLength, Inv, [Next]_vars
  PROVE  Inv' /\ [Channel!Next]_(Channel!vars)
<1>1. CASE \E c \in Conn : Send(c)
  <2>1. PICK c \in Conn : Send(c)
    BY <1>1
  <2>2. Inv' /\ (\E m \in Message : sent' = [sent EXCEPT ![c] = Append(@, m)])
    BY <2>1, SendInv
  <2>3. received' = received
    BY <2>1 DEF Send, receiverFrame
  <2>. QED
    BY <2>2, <2>3 DEF Channel!Next, Channel!Send
<1>2. CASE \E c \in Conn : Arrive(c) \/ Die(c)
  <2>1. Inv'
    BY <1>2, ArriveInv, DieInv
  <2>2. sent' = sent /\ received' = received
    BY <1>2 DEF Arrive, Die, receiverFrame
  <2>. QED
    BY <2>1, <2>2 DEF Channel!vars
<1>3. CASE RecvLength \/ RecvBody
  <2>1. Inv' /\ (received' = received \/ Channel!Receive(current))
    BY <1>3, RecvLengthInv, RecvBodyInv
  <2>2. sent' = sent /\ current \in Conn
    BY <1>3 DEF RecvLength, RecvBody, senderFrame, Inv, Types
  <2>. QED
    BY <2>1, <2>2 DEF Channel!vars, Channel!Next
<1>4. CASE ConnectionsWithData \/ Serve \/ RecvFails
  BY <1>4, ServeInv DEF Channel!vars
<1>5. CASE UNCHANGED vars
  <2>1. Inv'
    <3>1. /\ UNCHANGED <<sent, received, left, inbox, peer, pc, round, current, length, response>>
      BY <1>5 DEF vars, streamVars, recvVars
    <3>. QED
      BY <3>1 DEF Inv, Types, Bounds, Reading, Streams, Framed, Stream, Here, Pending, Held
  <2>. QED
    BY <1>5, <2>1 DEF vars, Channel!vars
<1>. QED
  BY <1>1, <1>2, <1>3, <1>4, <1>5 DEF Next, Receiver, Quiet

\* What is on its way on a connection are the messages that were sent and not
\* received, each with its length, but for what dies with the sender: if the
\* bytes of a length arrive together (tcp_socket.cc).
THEOREM Invariance == ASSUME ~SplitsLength PROVE Spec => []Inv
<1>1. Inv /\ [Next]_vars => Inv'
  BY StepInv
<1>. QED
  BY <1>1, InitInv, PTL DEF Spec

\* Every variable has its type: recv reads no length that was not sent, and no
\* byte of the next message.
THEOREM TypeCorrect == ASSUME ~SplitsLength PROVE Spec => []TypeOK
<1>1. Inv => TypeOK
  BY DEF Inv, Types, Bounds, TypeOK
<1>. QED
  BY <1>1, Invariance, PTL

\* recv returns the messages that were sent, whole and in order, whatever the
\* pieces in which they arrive and whoever dies when.
THEOREM TcpSocketImplementsMessageChannel ==
  ASSUME ~SplitsLength PROVE Spec => ImplementsMessageChannel
<1>1. Init => Channel!Init
  BY DEF Init, Channel!Init
<1>2. Inv /\ [Next]_vars => [Channel!Next]_(Channel!vars)
  BY StepInv
<1>. QED
  BY <1>1, <1>2, Invariance, PTL DEF Spec, ImplementsMessageChannel, Channel!Spec

=============================================================================
