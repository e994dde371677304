---------------------------- MODULE FramingProofs ----------------------------
(***************************************************************************)
(* What holds of Framing for any commands, replies and noise.              *)
(***************************************************************************)
EXTENDS Framing, SequenceTheorems, WellFoundedInduction, TLAPS

-----------------------------------------------------------------------------
(* Bytes, checksums and the frames made of them.                            *)

Token == Bytes \cup {Sum(b) : b \in Seq(Bytes)}
IsSum(t) == t[1] = 256
Body(p) == <<<<Len(p)>>>> \o AsBytes(p)
Texts == {p \in Seq(0 .. 255) : Len(p) <= 255}

LEMMA ByteFacts ==
    ASSUME NEW n \in 0 .. 255
    PROVE  /\ <<n>> \in Bytes /\ <<n>> \in Token /\ <<n>>[1] = n
           /\ ~IsSum(<<n>>) /\ Value(<<n>>) = n
BY DEF Bytes, Token, IsSum, Value

LEMMA MarkFacts ==
    /\ A5 \in Bytes /\ x5A \in Bytes /\ A5 \in Token /\ x5A \in Token
    /\ ~IsSum(A5) /\ ~IsSum(x5A) /\ A5 # x5A
<1>1. A5[1] = 165 /\ x5A[1] = 90
  BY DEF A5, x5A
<1> QED BY <1>1, ByteFacts DEF A5, x5A

LEMMA TextFacts ==
    ASSUME NEW p \in Texts
    PROVE  p \in Seq(0 .. 255) /\ Len(p) \in Nat /\ Len(p) \in 0 .. 255
<1>1. p \in Seq(0 .. 255) /\ Len(p) <= 255
  BY DEF Texts
<1>2. Len(p) \in Nat
  BY <1>1, LenProperties
<1>3. \A n \in Nat : n <= 255 => n \in 0 .. 255
  OBVIOUS
<1> QED BY <1>1, <1>2, <1>3, Zenon

LEMMA Prefixed ==
    ASSUME NEW S, NEW x \in S, NEW q \in Seq(S)
    PROVE  /\ <<x>> \o q \in Seq(S) /\ Len(<<x>> \o q) = Len(q) + 1 /\ (<<x>> \o q)[1] = x
           /\ \A i \in 1 .. Len(q) : (<<x>> \o q)[i + 1] = q[i]
<1> DEFINE a == <<x>>
<1>1. a \in Seq(S) /\ Len(a) = 1 /\ a[1] = x
  OBVIOUS
<1>2. q \in Seq(S)
  OBVIOUS
<1>3. Len(q) \in Nat
  BY LenProperties
<1> HIDE DEF a
<1>4. /\ a \o q \in Seq(S) /\ Len(a \o q) = Len(a) + Len(q)
      /\ \A i \in 1 .. Len(a) + Len(q) :
            (a \o q)[i] = IF i <= Len(a) THEN a[i] ELSE q[i - Len(a)]
  BY <1>1, <1>2, ConcatProperties
<1> DEFINE n == Len(q)
           t == a \o q
<1>5. n \in Nat /\ t \in Seq(S) /\ Len(t) = n + 1
  BY <1>1, <1>3, <1>4
<1>6. \A i \in 1 .. 1 + n : t[i] = IF i <= 1 THEN a[i] ELSE q[i - 1]
  BY <1>1, <1>4
<1> HIDE DEF n, t
<1>7. t[1] = x
  <2>1. 1 \in 1 .. 1 + n
    BY <1>5
  <2> QED BY <1>1, <1>6, <2>1
<1>8. ASSUME NEW i \in 1 .. n PROVE t[i + 1] = q[i]
  <2>1. i + 1 \in 1 .. 1 + n /\ ~(i + 1 <= 1) /\ i + 1 - 1 = i
    BY <1>5
  <2> QED BY <1>6, <2>1
<1> QED BY <1>5, <1>7, <1>8 DEF n, t, a

(* A checksum is the checksum of one sequence.                              *)
LEMMA SumIs ==
    ASSUME NEW b \in Seq(Token)
    PROVE  /\ Len(Sum(b)) = Len(b) + 1 /\ Sum(b)[1] = 256
           /\ \A i \in 1 .. Len(b) : Sum(b)[i + 1] = b[i]
<1> DEFINE S == {256} \cup Token
<1>1. 256 \in S /\ b \in Seq(S)
  OBVIOUS
<1> HIDE DEF S
<1> QED BY <1>1, Prefixed DEF Sum

LEMMA SumsDiffer ==
    ASSUME NEW a \in Seq(Token), NEW b \in Seq(Token), Sum(a) = Sum(b)
    PROVE  a = b
<1>1. Len(a) = Len(b) /\ Len(a) \in Nat /\ Len(b) \in Nat
  BY SumIs
<1>2. \A i \in 1 .. Len(a) : a[i] = b[i]
  BY <1>1, SumIs
<1> QED BY <1>1, <1>2, SeqEqual

LEMMA TokenFacts ==
    ASSUME NEW t \in Token
    PROVE  /\ Value(t) \in Nat /\ (~IsSum(t) => t \in Bytes)
           /\ IsSum(t) => \E b \in Seq(Bytes) : t = Sum(b)
<1>1. CASE t \in Bytes
  <2>1. PICK n \in 0 .. 255 : t = <<n>>
    BY <1>1 DEF Bytes
  <2>2. ~IsSum(<<n>>) /\ Value(<<n>>) = n
    BY ByteFacts
  <2>3. ~IsSum(t) /\ Value(t) \in Nat
    BY <2>1, <2>2
  <2> QED BY <1>1, <2>3
<1>2. CASE t \in {Sum(b) : b \in Seq(Bytes)}
  <2>1. PICK b \in Seq(Bytes) : t = Sum(b)
    BY <1>2
  <2>2. b \in Seq(Token)
    BY DEF Token
  <2>3. t[1] = 256
    BY <2>1, <2>2, SumIs
  <2> QED BY <2>1, <2>3, FramingAssumption DEF IsSum, Value, FramingAssumption
<1> QED BY <1>1, <1>2 DEF Token

LEMMA AsBytesFacts ==
    ASSUME NEW p \in Seq(0 .. 255)
    PROVE  /\ AsBytes(p) \in Seq(Bytes) /\ AsBytes(p) \in Seq(Token)
           /\ Len(AsBytes(p)) = Len(p) /\ DOMAIN AsBytes(p) = 1 .. Len(p)
           /\ \A i \in 1 .. Len(p) : AsBytes(p)[i] = <<p[i]>> /\ p[i] \in 0 .. 255
<1>1. p \in [1 .. Len(p) -> 0 .. 255] /\ Len(p) \in Nat
  BY LenProperties
<1>2. AsBytes(p) \in [1 .. Len(p) -> Bytes]
  BY <1>1 DEF AsBytes, Bytes
<1>3. AsBytes(p) \in Seq(Bytes)
  BY <1>1, <1>2
<1>4. AsBytes(p) \in Seq(Token)
  BY <1>3 DEF Token
<1>5. \A i \in 1 .. Len(p) : AsBytes(p)[i] = <<p[i]>> /\ p[i] \in 0 .. 255
  BY <1>1 DEF AsBytes
<1> QED BY <1>1, <1>2, <1>3, <1>4, <1>5

LEMMA AsBytesDiffer ==
    ASSUME NEW p \in Seq(0 .. 255), NEW q \in Seq(0 .. 255), AsBytes(p) = AsBytes(q)
    PROVE  p = q
<1>1. Len(p) = Len(q) /\ Len(p) \in Nat
  BY AsBytesFacts
<1>2. ASSUME NEW i \in 1 .. Len(p) PROVE p[i] = q[i]
  <2>1. <<p[i]>> = <<q[i]>>
    BY <1>1, AsBytesFacts
  <2> QED BY <2>1
<1> QED BY <1>1, <1>2, SeqEqual

LEMMA BodyFacts ==
    ASSUME NEW p \in Texts
    PROVE  /\ Body(p) \in Seq(Bytes) /\ Body(p) \in Seq(Token)
           /\ Len(Body(p)) = Len(p) + 1 /\ Body(p)[1] = <<Len(p)>>
           /\ \A i \in 1 .. Len(p) : Body(p)[i + 1] = <<p[i]>>
<1> DEFINE x == <<Len(p)>>
           b == AsBytes(p)
<1>1. p \in Seq(0 .. 255) /\ Len(p) \in 0 .. 255
  BY TextFacts
<1>2. x \in Bytes
  BY <1>1, ByteFacts
<1>3. b \in Seq(Bytes) /\ Len(b) = Len(p) /\ \A i \in 1 .. Len(p) : b[i] = <<p[i]>>
  BY <1>1, AsBytesFacts
<1>4. Body(p) = <<x>> \o b
  BY DEF Body
<1> HIDE DEF x, b
<1>5. /\ Body(p) \in Seq(Bytes) /\ Len(Body(p)) = Len(b) + 1 /\ Body(p)[1] = x
      /\ \A i \in 1 .. Len(b) : Body(p)[i + 1] = b[i]
  BY <1>2, <1>3, <1>4, Prefixed
<1>6. Body(p) \in Seq(Token)
  BY <1>5 DEF Token
<1>7. \A i \in 1 .. Len(p) : Body(p)[i + 1] = <<p[i]>>
  BY <1>3, <1>5
<1> QED BY <1>3, <1>5, <1>6, <1>7 DEF x

LEMMA PackFacts ==
    ASSUME NEW p \in Texts
    PROVE  /\ Pack(p) \in Seq(Token) /\ Len(Pack(p)) = Len(p) + 4
           /\ Pack(p)[1] = A5 /\ Pack(p)[2] = x5A /\ Pack(p)[3] = <<Len(p)>>
           /\ \A i \in 1 .. Len(p) : Pack(p)[i + 3] = <<p[i]>>
           /\ Pack(p)[Len(p) + 4] = Sum(Body(p))
<1> DEFINE m == <<A5, x5A>>
           b == Body(p)
           c == <<Sum(b)>>
           n == Len(p)
<1>1. n \in 0 .. 255
  BY TextFacts
<1>2. b \in Seq(Bytes) /\ b \in Seq(Token) /\ Len(b) = n + 1 /\ b[1] = <<n>>
      /\ \A i \in 1 .. n : b[i + 1] = <<p[i]>>
  BY BodyFacts
<1>3. Sum(b) \in Token
  BY <1>2 DEF Token
<1> HIDE DEF b, n
<1>4. m \in Seq(Token) /\ Len(m) = 2 /\ m[1] = A5 /\ m[2] = x5A
  BY MarkFacts
<1>5. c \in Seq(Token) /\ Len(c) = 1 /\ c[1] = Sum(b)
  BY <1>3
<1> HIDE DEF m, c
<1>6. /\ m \o b \in Seq(Token) /\ Len(m \o b) = n + 3
      /\ \A i \in 1 .. n + 3 : (m \o b)[i] = IF i <= 2 THEN m[i] ELSE b[i - 2]
  <2>1. /\ m \o b \in Seq(Token) /\ Len(m \o b) = Len(m) + Len(b)
        /\ \A i \in 1 .. Len(m) + Len(b) :
              (m \o b)[i] = IF i <= Len(m) THEN m[i] ELSE b[i - Len(m)]
    BY <1>2, <1>4, ConcatProperties
  <2>2. Len(m) + Len(b) = n + 3
    BY <1>1, <1>2, <1>4
  <2> QED BY <1>4, <2>1, <2>2
<1> DEFINE h == m \o b
<1>7. h \in Seq(Token) /\ Len(h) = n + 3
  BY <1>6
<1>8. /\ h \o c \in Seq(Token) /\ Len(h \o c) = n + 4
      /\ \A i \in 1 .. n + 4 : (h \o c)[i] = IF i <= n + 3 THEN h[i] ELSE c[i - (n + 3)]
  <2> HIDE DEF h
  <2>1. /\ h \o c \in Seq(Token) /\ Len(h \o c) = Len(h) + Len(c)
        /\ \A i \in 1 .. Len(h) + Len(c) :
              (h \o c)[i] = IF i <= Len(h) THEN h[i] ELSE c[i - Len(h)]
    BY <1>5, <1>7, ConcatProperties
  <2>2. Len(h) + Len(c) = n + 4
    BY <1>1, <1>5, <1>7
  <2> QED BY <1>7, <2>1, <2>2
<1>9. h[1] = A5 /\ h[2] = x5A /\ h[3] = <<n>> /\ \A i \in 1 .. n : h[i + 3] = <<p[i]>>
  <2>1. h[1] = A5 /\ h[2] = x5A
    BY <1>1, <1>4, <1>6
  <2>2. h[3] = b[1]
    BY <1>1, <1>6
  <2>3. ASSUME NEW i \in 1 .. n PROVE h[i + 3] = b[i + 1]
    <3>1. i + 3 \in 1 .. n + 3 /\ ~(i + 3 <= 2) /\ i + 3 - 2 = i + 1
      BY <1>1
    <3> QED BY <1>6, <3>1
  <2> HIDE DEF h
  <2> QED BY <1>2, <2>1, <2>2, <2>3
<1>10. Pack(p) = h \o c
  BY DEF Pack, Body, m, b, c
<1> HIDE DEF h
<1>11. Pack(p)[n + 4] = Sum(b)
  <2>1. ASSUME NEW k \in 1 .. n + 4, k = n + 4 PROVE (h \o c)[k] = Sum(b)
    <3>1. ~(k <= n + 3) /\ k - (n + 3) = 1
      BY <1>1, <2>1
    <3>2. (h \o c)[k] = c[1]
      BY <1>8, <3>1
    <3> QED BY <1>5, <3>2
  <2>2. n + 4 \in 1 .. n + 4
    BY <1>1
  <2> QED BY <1>10, <2>1, <2>2
<1>12. \A i \in 1 .. n + 3 : Pack(p)[i] = h[i]
  BY <1>1, <1>8, <1>10
<1>13. Pack(p)[1] = A5 /\ Pack(p)[2] = x5A /\ Pack(p)[3] = <<n>>
  BY <1>1, <1>9, <1>12
<1>14. ASSUME NEW i \in 1 .. n PROVE Pack(p)[i + 3] = <<p[i]>>
  <2>1. i + 3 \in 1 .. n + 3
    BY <1>1
  <2> QED BY <1>9, <1>12, <2>1
<1> QED BY <1>8, <1>10, <1>11, <1>13, <1>14 DEF n, b

-----------------------------------------------------------------------------
(* Frames in a stream of bytes: where the checksum of the one that begins   *)
(* at i would be, those whose checksum fits, and what they carry.           *)

SumPlace(s, i) == i + 3 + Value(s[i + 2])
Replies(s) ==
    {i \in Magics(s) :
        /\ i + 2 <= Len(s) /\ SumPlace(s, i) <= Len(s)
        /\ s[SumPlace(s, i)] = Sum(SubSeq(s, i + 2, SumPlace(s, i) - 1))}
Text(s, i) == SubSeq(s, i + 3, SumPlace(s, i) - 1)

LEMMA PartFacts ==
    ASSUME NEW s \in Seq(Token), NEW a \in Nat, NEW b \in Nat,
           1 <= a, a <= b + 1, b <= Len(s)
    PROVE  /\ SubSeq(s, a, b) \in Seq(Token) /\ Len(SubSeq(s, a, b)) = b - a + 1
           /\ \A i \in 1 .. b - a + 1 : SubSeq(s, a, b)[i] = s[a + i - 1]
<1>1. Len(s) \in Nat
  BY LenProperties
<1>2. \A i \in a .. b : s[i] \in Token
  BY <1>1, ElementOfSeq
<1>3. a \in Int /\ b \in Int
  OBVIOUS
<1>4. /\ SubSeq(s, a, b) \in Seq(Token)
      /\ Len(SubSeq(s, a, b)) = IF a <= b THEN b - a + 1 ELSE 0
      /\ \A i \in 1 .. b - a + 1 : SubSeq(s, a, b)[i] = s[a + i - 1]
  BY <1>2, <1>3, SubSeqProperties
<1>5. (IF a <= b THEN b - a + 1 ELSE 0) = b - a + 1
  OBVIOUS
<1> QED BY <1>4, <1>5

LEMMA FromFacts ==
    ASSUME NEW s \in Seq(Token), NEW k \in 1 .. Len(s) + 1
    PROVE  /\ From(s, k) \in Seq(Token) /\ Len(From(s, k)) = Len(s) - k + 1
           /\ Len(From(s, k)) \in Nat
           /\ \A i \in 1 .. Len(s) - k + 1 : From(s, k)[i] = s[k + i - 1]
<1>1. Len(s) \in Nat
  BY LenProperties
<1>2. k \in Nat /\ 1 <= k /\ k <= Len(s) + 1 /\ Len(s) <= Len(s)
  BY <1>1
<1>3. /\ From(s, k) \in Seq(Token) /\ Len(From(s, k)) = Len(s) - k + 1
      /\ \A i \in 1 .. Len(s) - k + 1 : From(s, k)[i] = s[k + i - 1]
  BY <1>1, <1>2, PartFacts DEF From
<1>4. Len(From(s, k)) \in Nat
  BY <1>3, LenProperties
<1> QED BY <1>3, <1>4

LEMMA FromFirst == ASSUME NEW s \in Seq(Token) PROVE From(s, 1) = s
<1>1. Len(s) \in Nat
  BY LenProperties
<1>2. 1 \in 1 .. Len(s) + 1
  BY <1>1
<1>3. From(s, 1) \in Seq(Token) /\ Len(From(s, 1)) = Len(s)
  BY <1>1, <1>2, FromFacts
<1>4. ASSUME NEW i \in 1 .. Len(s) PROVE From(s, 1)[i] = s[i]
  <2>1. i \in 1 .. Len(s) - 1 + 1 /\ 1 + i - 1 = i
    BY <1>1
  <2> QED BY <1>2, <2>1, FromFacts
<1> QED BY <1>3, <1>4, SeqEqual

LEMMA MagicFacts ==
    ASSUME NEW s \in Seq(Token), NEW i \in Magics(s)
    PROVE  /\ i \in Nat /\ 1 <= i /\ i + 1 <= Len(s) /\ Len(s) \in Nat
           /\ i \in 1 .. Len(s) + 1
           /\ s[i] = A5 /\ s[i + 1] = x5A
           /\ i + 2 <= Len(s) =>
                 /\ s[i + 2] \in Token /\ Value(s[i + 2]) \in Nat
                 /\ SumPlace(s, i) \in Nat /\ i + 3 <= SumPlace(s, i)
<1>1. Len(s) \in Nat
  BY LenProperties
<1>2. i \in 1 .. Len(s) - 1 /\ s[i] = A5 /\ s[i + 1] = x5A
  BY DEF Magics
<1>3. /\ i \in Nat /\ 1 <= i /\ i + 1 <= Len(s) /\ i \in 1 .. Len(s) + 1
  BY <1>1, <1>2
<1>4. ASSUME i + 2 <= Len(s)
      PROVE  /\ s[i + 2] \in Token /\ Value(s[i + 2]) \in Nat
             /\ SumPlace(s, i) \in Nat /\ i + 3 <= SumPlace(s, i)
  <2>1. i + 2 \in 1 .. Len(s)
    BY <1>1, <1>3, <1>4
  <2>2. s[i + 2] \in Token
    BY <2>1, ElementOfSeq
  <2>3. Value(s[i + 2]) \in Nat
    BY <2>2, TokenFacts
  <2> QED BY <1>3, <2>2, <2>3 DEF SumPlace
<1> QED BY <1>1, <1>2, <1>3, <1>4

(* What both decoders look at, from where a frame begins.                   *)
LEMMA WindowFacts ==
    ASSUME NEW s \in Seq(Token), NEW i \in Magics(s)
    PROVE  /\ HasHeader(From(s, i)) <=> i + 2 <= Len(s)
           /\ i + 2 <= Len(s) => Length(From(s, i)) = Value(s[i + 2])
           /\ Whole(From(s, i)) <=> i + 2 <= Len(s) /\ SumPlace(s, i) <= Len(s)
           /\ Whole(From(s, i)) =>
                 /\ Intact(From(s, i)) <=> i \in Replies(s)
                 /\ Content(From(s, i)) = Text(s, i)
                 /\ SumPlace(s, i) + 1 \in 1 .. Len(s) + 1
                 /\ AfterFrame(From(s, i)) = From(s, SumPlace(s, i) + 1)
<1> DEFINE b == From(s, i)
           n == Value(s[i + 2])
           e == SumPlace(s, i)
<1>1. /\ i \in Nat /\ 1 <= i /\ i + 1 <= Len(s) /\ Len(s) \in Nat /\ i \in 1 .. Len(s) + 1
      /\ s[i] = A5 /\ s[i + 1] = x5A
  BY MagicFacts
<1>2. /\ b \in Seq(Token) /\ Len(b) = Len(s) - i + 1 /\ Len(b) \in Nat
      /\ \A j \in 1 .. Len(s) - i + 1 : b[j] = s[i + j - 1]
  BY <1>1, FromFacts
<1> HIDE DEF b
<1>3. b[1] = A5 /\ b[2] = x5A
  <2>1. 1 \in 1 .. Len(s) - i + 1 /\ 2 \in 1 .. Len(s) - i + 1 /\ i + 1 - 1 = i /\ i + 2 - 1 = i + 1
    BY <1>1
  <2> QED BY <1>1, <1>2, <2>1
<1>4. HasHeader(b) <=> i + 2 <= Len(s)
  BY <1>1, <1>2, <1>3 DEF HasHeader
<1>5. ASSUME i + 2 <= Len(s) PROVE Length(b) = n
  <2>1. 3 \in 1 .. Len(s) - i + 1 /\ i + 3 - 1 = i + 2
    BY <1>1, <1>5
  <2>2. b[3] = s[i + 2]
    BY <1>2, <2>1
  <2> QED BY <2>2 DEF Length
<1>6. i + 2 <= Len(s) => n \in Nat /\ e \in Nat /\ e = i + n + 3
  BY <1>1, MagicFacts DEF SumPlace
<1> HIDE DEF n, e
<1>7. Whole(b) <=> i + 2 <= Len(s) /\ e <= Len(s)
  <2>1. CASE i + 2 <= Len(s)
    <3>1. HasHeader(b) /\ Length(b) = n /\ Len(b) = Len(s) - i + 1
      BY <1>2, <1>4, <1>5, <2>1
    <3>2. Len(s) - i + 1 >= n + 4 <=> e <= Len(s)
      BY <1>1, <1>6, <2>1
    <3> QED BY <2>1, <3>1, <3>2 DEF Whole
  <2>2. CASE ~(i + 2 <= Len(s))
    BY <1>4, <2>2 DEF Whole
  <2> QED BY <2>1, <2>2
<1>8. ASSUME i + 2 <= Len(s), e <= Len(s)
      PROVE  /\ Intact(b) <=> i \in Replies(s)
             /\ Content(b) = Text(s, i)
             /\ e + 1 \in 1 .. Len(s) + 1
             /\ AfterFrame(b) = From(s, e + 1)
  <2>1. n \in Nat /\ e \in Nat /\ e = i + n + 3 /\ Length(b) = n
    BY <1>5, <1>6, <1>8
  <2>2. ASSUME NEW x \in Nat, NEW y \in Nat, 1 <= x, x <= y + 1, y <= Len(b)
        PROVE  SubSeq(b, x, y) = SubSeq(s, x + i - 1, y + i - 1)
    <3>1. /\ x + i - 1 \in Nat /\ y + i - 1 \in Nat /\ 1 <= x + i - 1
          /\ x + i - 1 <= y + i - 1 + 1 /\ y + i - 1 <= Len(s)
          /\ (y + i - 1) - (x + i - 1) + 1 = y - x + 1
      BY <1>1, <1>2, <2>2
    <3>2. /\ SubSeq(b, x, y) \in Seq(Token) /\ Len(SubSeq(b, x, y)) = y - x + 1
          /\ \A j \in 1 .. y - x + 1 : SubSeq(b, x, y)[j] = b[x + j - 1]
      BY <1>2, <2>2, PartFacts
    <3> DEFINE c == x + i - 1
               d == y + i - 1
    <3>3. c \in Nat /\ d \in Nat /\ 1 <= c /\ c <= d + 1 /\ d <= Len(s) /\ d - c + 1 = y - x + 1
      BY <3>1
    <3> HIDE DEF c, d
    <3>4. /\ SubSeq(s, c, d) \in Seq(Token) /\ Len(SubSeq(s, c, d)) = y - x + 1
          /\ \A j \in 1 .. y - x + 1 : SubSeq(s, c, d)[j] = s[c + j - 1]
      BY <3>3, PartFacts
    <3>5. ASSUME NEW j \in 1 .. y - x + 1 PROVE SubSeq(b, x, y)[j] = SubSeq(s, c, d)[j]
      <4>1. x + j - 1 \in 1 .. Len(s) - i + 1 /\ i + (x + j - 1) - 1 = c + j - 1
        BY <1>1, <1>2, <2>2 DEF c
      <4> QED BY <1>2, <3>2, <3>4, <4>1
    <3> QED BY <3>2, <3>4, <3>5, SeqEqual DEF c, d
  <2>3. e + 1 \in 1 .. Len(s) + 1
    BY <1>1, <1>8, <2>1
  <2>4. b[n + 4] = s[e]
    <3>1. n + 4 \in 1 .. Len(s) - i + 1 /\ i + (n + 4) - 1 = e
      BY <1>1, <1>8, <2>1
    <3> QED BY <1>2, <3>1
  <2>5. SubSeq(b, 3, n + 3) = SubSeq(s, i + 2, e - 1)
    <3>1. /\ 3 \in Nat /\ n + 3 \in Nat /\ 1 <= 3 /\ 3 <= n + 3 + 1 /\ n + 3 <= Len(b)
          /\ 3 + i - 1 = i + 2 /\ n + 3 + i - 1 = e - 1
      BY <1>1, <1>2, <1>8, <2>1
    <3> QED BY <2>2, <3>1
  <2>6. SubSeq(b, 4, n + 3) = SubSeq(s, i + 3, e - 1)
    <3>1. /\ 4 \in Nat /\ n + 3 \in Nat /\ 1 <= 4 /\ 4 <= n + 3 + 1 /\ n + 3 <= Len(b)
          /\ 4 + i - 1 = i + 3 /\ n + 3 + i - 1 = e - 1
      BY <1>1, <1>2, <1>8, <2>1
    <3> QED BY <2>2, <3>1
  <2>7. SubSeq(b, n + 5, Len(b)) = SubSeq(s, e + 1, Len(s))
    <3>1. /\ n + 5 \in Nat /\ Len(b) \in Nat /\ 1 <= n + 5 /\ n + 5 <= Len(b) + 1
          /\ Len(b) <= Len(b) /\ n + 5 + i - 1 = e + 1 /\ Len(b) + i - 1 = Len(s)
      BY <1>1, <1>2, <1>8, <2>1
    <3> QED BY <2>2, <3>1
  <2>8. Intact(b) <=> s[e] = Sum(SubSeq(s, i + 2, e - 1))
    BY <2>1, <2>4, <2>5 DEF Intact
  <2>9. i \in Replies(s) <=> s[e] = Sum(SubSeq(s, i + 2, e - 1))
    BY <1>8 DEF Replies, e
  <2>10. Content(b) = Text(s, i)
    BY <2>1, <2>6 DEF Content, Text, e
  <2>11. AfterFrame(b) = From(s, e + 1)
    BY <2>1, <2>7 DEF AfterFrame, From
  <2> QED BY <2>3, <2>8, <2>9, <2>10, <2>11
<1> QED BY <1>4, <1>5, <1>7, <1>8 DEF b, n, e

(* A checksum that fits says what the frame carries.                        *)
LEMMA TextIs ==
    ASSUME NEW s \in Seq(Token), NEW i \in Replies(s), NEW p \in Texts,
           s[SumPlace(s, i)] = Sum(Body(p))
    PROVE  Text(s, i) = AsBytes(p)
<1> DEFINE e == SumPlace(s, i)
           w == SubSeq(s, i + 2, e - 1)
           t == SubSeq(s, i + 3, e - 1)
<1>1. /\ i \in Magics(s) /\ i + 2 <= Len(s) /\ e <= Len(s) /\ s[e] = Sum(w)
  BY DEF Replies
<1>2. /\ i \in Nat /\ 1 <= i /\ Len(s) \in Nat /\ e \in Nat /\ i + 3 <= e
  BY <1>1, MagicFacts
<1>3. s[e] = Sum(Body(p))
  OBVIOUS
<1> HIDE DEF e
<1>4. /\ w \in Seq(Token) /\ Len(w) = e - i - 2
      /\ \A j \in 1 .. e - i - 2 : w[j] = s[i + 2 + j - 1]
  <2>1. /\ i + 2 \in Nat /\ e - 1 \in Nat /\ 1 <= i + 2 /\ i + 2 <= e - 1 + 1
        /\ e - 1 <= Len(s) /\ e - 1 - (i + 2) + 1 = e - i - 2
    BY <1>1, <1>2
  <2> QED BY <2>1, PartFacts
<1>5. /\ t \in Seq(Token) /\ Len(t) = e - i - 3
      /\ \A j \in 1 .. e - i - 3 : t[j] = s[i + 3 + j - 1]
  <2>1. /\ i + 3 \in Nat /\ e - 1 \in Nat /\ 1 <= i + 3 /\ i + 3 <= e - 1 + 1
        /\ e - 1 <= Len(s) /\ e - 1 - (i + 3) + 1 = e - i - 3
    BY <1>1, <1>2
  <2> QED BY <2>1, PartFacts
<1> HIDE DEF w, t
<1>6. /\ Body(p) \in Seq(Token) /\ Len(Body(p)) = Len(p) + 1
      /\ \A j \in 1 .. Len(p) : Body(p)[j + 1] = <<p[j]>>
  BY BodyFacts
<1>7. w = Body(p)
  BY <1>1, <1>3, <1>4, <1>6, SumsDiffer
<1>8. p \in Seq(0 .. 255) /\ Len(p) \in Nat
  BY TextFacts
<1>9. /\ AsBytes(p) \in Seq(Token) /\ Len(AsBytes(p)) = Len(p)
      /\ \A j \in 1 .. Len(p) : AsBytes(p)[j] = <<p[j]>>
  BY <1>8, AsBytesFacts
<1>10. Len(t) = Len(p) /\ e - i - 3 = Len(p) /\ e - i - 2 = Len(p) + 1
  <2> DEFINE n == Len(p)
  <2>1. e - i - 2 = n + 1 /\ n \in Nat /\ Len(t) = e - i - 3
    BY <1>4, <1>5, <1>6, <1>7, <1>8, Zenon
  <2> HIDE DEF n
  <2>2. e - i - 3 = n
    BY <1>2, <2>1
  <2> QED BY <2>1, <2>2 DEF n
<1>11. ASSUME NEW j \in 1 .. Len(p) PROVE t[j] = AsBytes(p)[j]
  <2>1. t[j] = s[i + 3 + j - 1]
    BY <1>5, <1>10
  <2>2. j + 1 \in 1 .. e - i - 2 /\ i + 2 + (j + 1) - 1 = i + 3 + j - 1
    BY <1>2, <1>8, <1>10
  <2>3. w[j + 1] = s[i + 3 + j - 1]
    BY <1>4, <2>2
  <2> QED BY <1>6, <1>7, <1>9, <2>1, <2>3
<1>12. t = AsBytes(p)
  BY <1>5, <1>9, <1>10, <1>11, SeqEqual
<1> QED BY <1>12 DEF Text, t, e

(* The rest of a stream, from k on.                                         *)
LEMMA RestFacts ==
    ASSUME NEW s \in Seq(Token), NEW k \in 1 .. Len(s) + 1
    PROVE  /\ \A j \in Magics(From(s, k)) :
                 /\ k + j - 1 \in Magics(s)
                 /\ j + 2 <= Len(From(s, k)) <=> k + j - 1 + 2 <= Len(s)
                 /\ j + 2 <= Len(From(s, k)) =>
                       /\ From(s, k)[j + 2] = s[k + j - 1 + 2]
                       /\ SumPlace(From(s, k), j) + k - 1 = SumPlace(s, k + j - 1)
           /\ \A i \in Magics(s) : i >= k => i - k + 1 \in Magics(From(s, k))
<1> DEFINE b == From(s, k)
<1>1. /\ b \in Seq(Token) /\ Len(b) = Len(s) - k + 1 /\ Len(b) \in Nat
      /\ \A j \in 1 .. Len(s) - k + 1 : b[j] = s[k + j - 1]
  BY FromFacts
<1>2. Len(s) \in Nat /\ k \in Nat /\ 1 <= k /\ k <= Len(s) + 1
  <2>1. Len(s) \in Nat
    BY LenProperties
  <2> QED BY <2>1
<1> HIDE DEF b
<1>3. ASSUME NEW j \in Magics(b)
      PROVE  /\ k + j - 1 \in Magics(s)
             /\ j + 2 <= Len(b) <=> k + j - 1 + 2 <= Len(s)
             /\ j + 2 <= Len(b) =>
                   /\ b[j + 2] = s[k + j - 1 + 2]
                   /\ SumPlace(b, j) + k - 1 = SumPlace(s, k + j - 1)
  <2>1. j \in Nat /\ 1 <= j /\ j + 1 <= Len(b) /\ b[j] = A5 /\ b[j + 1] = x5A
    BY <1>1, MagicFacts
  <2>2. /\ j \in 1 .. Len(s) - k + 1 /\ j + 1 \in 1 .. Len(s) - k + 1
        /\ k + (j + 1) - 1 = k + j - 1 + 1
    BY <1>1, <1>2, <2>1
  <2>3. s[k + j - 1] = A5 /\ s[k + j - 1 + 1] = x5A
    BY <1>1, <2>1, <2>2
  <2>4. k + j - 1 \in 1 .. Len(s) - 1
    BY <1>1, <1>2, <2>1
  <2>5. k + j - 1 \in Magics(s)
    BY <2>3, <2>4 DEF Magics
  <2>6. j + 2 <= Len(b) <=> k + j - 1 + 2 <= Len(s)
    BY <1>1, <1>2, <2>1
  <2>7. ASSUME j + 2 <= Len(b)
        PROVE  /\ b[j + 2] = s[k + j - 1 + 2]
               /\ SumPlace(b, j) + k - 1 = SumPlace(s, k + j - 1)
    <3>1. j + 2 \in 1 .. Len(s) - k + 1 /\ k + (j + 2) - 1 = k + j - 1 + 2
      BY <1>1, <1>2, <2>1, <2>7
    <3>2. b[j + 2] = s[k + j - 1 + 2]
      BY <1>1, <3>1
    <3>3. Value(b[j + 2]) \in Nat
      BY <1>1, <2>7, MagicFacts
    <3>4. SumPlace(b, j) + k - 1 = SumPlace(s, k + j - 1)
      BY <1>2, <2>1, <3>2, <3>3 DEF SumPlace
    <3> QED BY <3>2, <3>4
  <2> QED BY <2>5, <2>6, <2>7
<1>4. ASSUME NEW i \in Magics(s), i >= k PROVE i - k + 1 \in Magics(b)
  <2>1. i \in Nat /\ 1 <= i /\ i + 1 <= Len(s) /\ s[i] = A5 /\ s[i + 1] = x5A
    BY MagicFacts
  <2>2. /\ i - k + 1 \in 1 .. Len(s) - k + 1 /\ i - k + 1 + 1 \in 1 .. Len(s) - k + 1
        /\ k + (i - k + 1) - 1 = i /\ k + (i - k + 1 + 1) - 1 = i + 1
        /\ i - k + 1 \in 1 .. Len(b) - 1
    BY <1>1, <1>2, <1>4, <2>1
  <2>3. b[i - k + 1] = A5 /\ b[i - k + 1 + 1] = x5A
    BY <1>1, <2>1, <2>2
  <2> QED BY <2>2, <2>3 DEF Magics
<1> QED BY <1>3, <1>4 DEF b

LEMMA RestReplies ==
    ASSUME NEW s \in Seq(Token), NEW k \in 1 .. Len(s) + 1
    PROVE  /\ \A j \in Replies(From(s, k)) :
                 k + j - 1 \in Replies(s) /\ Text(From(s, k), j) = Text(s, k + j - 1)
           /\ \A i \in Replies(s) : i >= k => i - k + 1 \in Replies(From(s, k))
<1> DEFINE b == From(s, k)
<1>1. /\ b \in Seq(Token) /\ Len(b) = Len(s) - k + 1 /\ Len(b) \in Nat
      /\ \A j \in 1 .. Len(s) - k + 1 : b[j] = s[k + j - 1]
  BY FromFacts
<1>2. Len(s) \in Nat /\ k \in Nat /\ 1 <= k /\ k <= Len(s) + 1
  <2>1. Len(s) \in Nat
    BY LenProperties
  <2> QED BY <2>1
<1>3. /\ \A j \in Magics(b) :
            /\ k + j - 1 \in Magics(s)
            /\ j + 2 <= Len(b) <=> k + j - 1 + 2 <= Len(s)
            /\ j + 2 <= Len(b) =>
                  /\ b[j + 2] = s[k + j - 1 + 2]
                  /\ SumPlace(b, j) + k - 1 = SumPlace(s, k + j - 1)
      /\ \A i \in Magics(s) : i >= k => i - k + 1 \in Magics(b)
  BY RestFacts
<1> HIDE DEF b
\* The same frame, seen in both.
<1>4. ASSUME NEW j \in Magics(b), NEW i \in Magics(s), i = k + j - 1, j + 2 <= Len(b),
             SumPlace(b, j) <= Len(b) \/ SumPlace(s, i) <= Len(s)
      PROVE  /\ i + 2 <= Len(s) /\ SumPlace(s, i) <= Len(s) /\ SumPlace(b, j) <= Len(b)
             /\ b[SumPlace(b, j)] = s[SumPlace(s, i)]
             /\ SubSeq(b, j + 2, SumPlace(b, j) - 1) = SubSeq(s, i + 2, SumPlace(s, i) - 1)
             /\ Text(b, j) = Text(s, i)
  <2> DEFINE d == SumPlace(b, j)
             e == SumPlace(s, i)
  <2>1. /\ j \in Nat /\ 1 <= j /\ j + 1 <= Len(b) /\ d \in Nat /\ j + 3 <= d
    BY <1>1, <1>4, MagicFacts
  <2>2. i \in Nat /\ 1 <= i /\ i + 1 <= Len(s) /\ i + 2 <= Len(s) /\ e \in Nat /\ i + 3 <= e
    BY <1>3, <1>4, MagicFacts
  <2>3. d + k - 1 = e /\ i = k + j - 1 /\ (d <= Len(b) \/ e <= Len(s))
    BY <1>3, <1>4
  <2> HIDE DEF d, e
  <2>4. d <= Len(b) /\ e <= Len(s)
    BY <1>1, <1>2, <2>1, <2>2, <2>3
  <2>5. b[d] = s[e]
    <3>1. d \in 1 .. Len(s) - k + 1 /\ k + d - 1 = e
      BY <1>1, <1>2, <2>1, <2>3, <2>4
    <3> QED BY <1>1, <3>1
  <2>6. ASSUME NEW x \in {2, 3}
        PROVE  SubSeq(b, j + x, d - 1) = SubSeq(s, i + x, e - 1)
    <3> DEFINE u == j + x
               v == d - 1
               f == i + x
               g == e - 1
               n == d - j - x
    <3>1. /\ u \in Nat /\ v \in Nat /\ 1 <= u /\ u <= v + 1 /\ v <= Len(b) /\ v - u + 1 = n
          /\ f \in Nat /\ g \in Nat /\ 1 <= f /\ f <= g + 1 /\ g <= Len(s) /\ g - f + 1 = n
          /\ f = u + k - 1 /\ g <= Len(s)
      BY <1>1, <1>2, <2>1, <2>2, <2>3, <2>4
    <3> HIDE DEF u, v, f, g, n
    <3>2. /\ SubSeq(b, u, v) \in Seq(Token) /\ Len(SubSeq(b, u, v)) = n
          /\ \A m \in 1 .. n : SubSeq(b, u, v)[m] = b[u + m - 1]
      <4>1. /\ SubSeq(b, u, v) \in Seq(Token) /\ Len(SubSeq(b, u, v)) = v - u + 1
            /\ \A m \in 1 .. v - u + 1 : SubSeq(b, u, v)[m] = b[u + m - 1]
        BY <1>1, <3>1, PartFacts
      <4> QED BY <3>1, <4>1, Zenon
    <3>3. /\ SubSeq(s, f, g) \in Seq(Token) /\ Len(SubSeq(s, f, g)) = n
          /\ \A m \in 1 .. n : SubSeq(s, f, g)[m] = s[f + m - 1]
      <4>1. /\ SubSeq(s, f, g) \in Seq(Token) /\ Len(SubSeq(s, f, g)) = g - f + 1
            /\ \A m \in 1 .. g - f + 1 : SubSeq(s, f, g)[m] = s[f + m - 1]
        BY <1>1, <3>1, PartFacts
      <4> QED BY <3>1, <4>1, Zenon
    <3>4. ASSUME NEW m \in 1 .. n PROVE SubSeq(b, u, v)[m] = SubSeq(s, f, g)[m]
      <4>1. /\ u + m - 1 \in 1 .. Len(s) - k + 1
            /\ k + (u + m - 1) - 1 = f + m - 1
        BY <1>1, <1>2, <3>1
      <4> QED BY <1>1, <3>2, <3>3, <4>1
    <3>5. SubSeq(b, u, v) = SubSeq(s, f, g)
      BY <3>2, <3>3, <3>4, SeqEqual
    <3> QED BY <3>5 DEF u, v, f, g
  <2>7. /\ SubSeq(b, j + 2, d - 1) = SubSeq(s, i + 2, e - 1)
        /\ SubSeq(b, j + 3, d - 1) = SubSeq(s, i + 3, e - 1)
    BY <2>6
  <2> QED BY <2>2, <2>4, <2>5, <2>7 DEF Text, d, e
<1>5. ASSUME NEW j \in Replies(b)
      PROVE  k + j - 1 \in Replies(s) /\ Text(b, j) = Text(s, k + j - 1)
  <2>1. /\ j \in Magics(b) /\ j + 2 <= Len(b) /\ SumPlace(b, j) <= Len(b)
        /\ b[SumPlace(b, j)] = Sum(SubSeq(b, j + 2, SumPlace(b, j) - 1))
    BY DEF Replies
  <2>2. k + j - 1 \in Magics(s)
    BY <1>3, <2>1
  <2> DEFINE i == k + j - 1
  <2>3. /\ i + 2 <= Len(s) /\ SumPlace(s, i) <= Len(s)
        /\ b[SumPlace(b, j)] = s[SumPlace(s, i)]
        /\ SubSeq(b, j + 2, SumPlace(b, j) - 1) = SubSeq(s, i + 2, SumPlace(s, i) - 1)
        /\ Text(b, j) = Text(s, i)
    BY <1>4, <2>1, <2>2
  <2> HIDE DEF i
  <2>4. i \in Replies(s)
    BY <2>1, <2>2, <2>3 DEF Replies, i
  <2> QED BY <2>3, <2>4 DEF i
<1>6. ASSUME NEW i \in Replies(s), i >= k PROVE i - k + 1 \in Replies(b)
  <2>1. /\ i \in Magics(s) /\ i + 2 <= Len(s) /\ SumPlace(s, i) <= Len(s)
        /\ s[SumPlace(s, i)] = Sum(SubSeq(s, i + 2, SumPlace(s, i) - 1))
    BY DEF Replies
  <2> DEFINE j == i - k + 1
  <2>2. j \in Magics(b)
    BY <1>3, <1>6, <2>1
  <2>3. i \in Nat /\ j \in Nat /\ i = k + j - 1
    BY <1>2, <1>6, <2>1, MagicFacts
  <2> HIDE DEF j
  <2>4. j + 2 <= Len(b)
    BY <1>3, <2>1, <2>2, <2>3
  <2>5. /\ SumPlace(b, j) <= Len(b)
        /\ b[SumPlace(b, j)] = s[SumPlace(s, i)]
        /\ SubSeq(b, j + 2, SumPlace(b, j) - 1) = SubSeq(s, i + 2, SumPlace(s, i) - 1)
    BY <1>4, <2>1, <2>2, <2>3, <2>4
  <2>6. j \in Replies(b)
    BY <2>1, <2>2, <2>4, <2>5 DEF Replies
  <2> QED BY <2>6 DEF j
<1> QED BY <1>5, <1>6 DEF b

-----------------------------------------------------------------------------
(* A stream that grows.                                                     *)

Apart(s, q) == s # <<>> /\ q # <<>> => ~(s[Len(s)] = A5 /\ q[1] = x5A)
Starts(q) == q # <<>> => ~IsSum(q[1])

(* Where a candidate begins its checksum has room, or comes next, and no    *)
(* other begins before that place.                                          *)
Tidy(s) ==
    \A i \in Magics(s) :
        /\ i + 2 <= Len(s) /\ SumPlace(s, i) <= Len(s) + 1
        /\ \A k \in Magics(s) : k > i => k + 1 >= SumPlace(s, i)

LEMMA JoinFacts ==
    ASSUME NEW s \in Seq(Token), NEW q \in Seq(Token)
    PROVE  /\ s \o q \in Seq(Token) /\ Len(s \o q) = Len(s) + Len(q)
           /\ Len(s) \in Nat /\ Len(q) \in Nat
           /\ \A i \in 1 .. Len(s) : (s \o q)[i] = s[i]
           /\ \A i \in 1 .. Len(q) : (s \o q)[Len(s) + i] = q[i]
           /\ Len(s) + 1 \in 1 .. Len(s \o q) + 1 /\ From(s \o q, Len(s) + 1) = q
<1> DEFINE t == s \o q
<1>1. Len(s) \in Nat /\ Len(q) \in Nat
  BY LenProperties
<1>2. /\ t \in Seq(Token) /\ Len(t) = Len(s) + Len(q)
      /\ \A i \in 1 .. Len(s) + Len(q) :
            t[i] = IF i <= Len(s) THEN s[i] ELSE q[i - Len(s)]
  BY ConcatProperties
<1> HIDE DEF t
<1>3. \A i \in 1 .. Len(s) : t[i] = s[i]
  BY <1>1, <1>2
<1>4. ASSUME NEW i \in 1 .. Len(q) PROVE t[Len(s) + i] = q[i]
  <2>1. /\ Len(s) + i \in 1 .. Len(s) + Len(q) /\ ~(Len(s) + i <= Len(s))
        /\ Len(s) + i - Len(s) = i
    BY <1>1
  <2> QED BY <1>2, <2>1
<1>5. ASSUME NEW k, k = Len(s) + 1 PROVE k \in 1 .. Len(t) + 1 /\ From(t, k) = q
  <2>1. k \in 1 .. Len(t) + 1 /\ Len(t) - k + 1 = Len(q)
    BY <1>1, <1>2, <1>5
  <2>2. /\ From(t, k) \in Seq(Token) /\ Len(From(t, k)) = Len(t) - k + 1
        /\ \A i \in 1 .. Len(t) - k + 1 : From(t, k)[i] = t[k + i - 1]
    BY <1>2, <2>1, FromFacts
  <2>3. /\ Len(From(t, k)) = Len(q)
        /\ \A i \in 1 .. Len(q) : From(t, k)[i] = t[k + i - 1]
    BY <2>1, <2>2, Zenon
  <2>4. ASSUME NEW i \in 1 .. Len(q) PROVE From(t, k)[i] = q[i]
    <3>1. k + i - 1 = Len(s) + i
      BY <1>1, <1>5
    <3> QED BY <1>4, <2>3, <3>1
  <2> QED BY <2>1, <2>2, <2>3, <2>4, SeqEqual
<1> QED BY <1>1, <1>2, <1>3, <1>4, <1>5 DEF t

LEMMA JoinMagics ==
    ASSUME NEW s \in Seq(Token), NEW q \in Seq(Token)
    PROVE  /\ \A i \in Magics(s) :
                 /\ i \in Magics(s \o q)
                 /\ i + 2 <= Len(s) =>
                       (s \o q)[i + 2] = s[i + 2] /\ SumPlace(s \o q, i) = SumPlace(s, i)
                 /\ i + 2 <= Len(s) /\ SumPlace(s, i) <= Len(s) =>
                       /\ i \in Replies(s) <=> i \in Replies(s \o q)
                       /\ Text(s \o q, i) = Text(s, i)
           /\ \A i \in Magics(s \o q) :
                 /\ i + 1 <= Len(s) => i \in Magics(s)
                 /\ i = Len(s) => ~Apart(s, q)
                 /\ i > Len(s) => i - Len(s) \in Magics(q)
           /\ \A i \in Magics(q) : Len(s) + i \in Magics(s \o q)
<1> DEFINE t == s \o q
           n == Len(s)
<1>1. /\ t \in Seq(Token) /\ Len(t) = n + Len(q) /\ n \in Nat /\ Len(q) \in Nat
      /\ \A i \in 1 .. n : t[i] = s[i]
      /\ \A i \in 1 .. Len(q) : t[n + i] = q[i]
      /\ n + 1 \in 1 .. Len(t) + 1 /\ From(t, n + 1) = q
  BY JoinFacts
<1> HIDE DEF t
<1>2. ASSUME NEW i \in Magics(s)
      PROVE  /\ i \in Magics(t)
             /\ i + 2 <= n => t[i + 2] = s[i + 2] /\ SumPlace(t, i) = SumPlace(s, i)
             /\ i + 2 <= n /\ SumPlace(s, i) <= n =>
                   (i \in Replies(s) <=> i \in Replies(t)) /\ Text(t, i) = Text(s, i)
  <2>1. i \in Nat /\ 1 <= i /\ i + 1 <= n /\ s[i] = A5 /\ s[i + 1] = x5A
    BY MagicFacts
  <2>2. i \in 1 .. n /\ i + 1 \in 1 .. n /\ i \in 1 .. Len(t) - 1
    BY <1>1, <2>1
  <2>3. i \in Magics(t)
    BY <1>1, <2>1, <2>2 DEF Magics
  <2>4. ASSUME i + 2 <= n PROVE t[i + 2] = s[i + 2] /\ SumPlace(t, i) = SumPlace(s, i)
    <3>1. i + 2 \in 1 .. n
      BY <2>1, <2>4
    <3>2. t[i + 2] = s[i + 2]
      BY <1>1, <3>1
    <3> QED BY <3>2 DEF SumPlace
  <2>5. ASSUME i + 2 <= n, SumPlace(s, i) <= n
        PROVE  (i \in Replies(s) <=> i \in Replies(t)) /\ Text(t, i) = Text(s, i)
    <3> DEFINE e == SumPlace(s, i)
    <3>1. e \in Nat /\ i + 3 <= e /\ e <= n /\ SumPlace(t, i) = e /\ t[i + 2] = s[i + 2]
      BY <2>4, <2>5, MagicFacts
    <3>2. /\ i \in Replies(s) <=> s[e] = Sum(SubSeq(s, i + 2, e - 1))
          /\ Text(s, i) = SubSeq(s, i + 3, e - 1)
      BY <2>5 DEF Replies, Text
    <3> HIDE DEF e
    <3>3. i + 2 <= Len(t) /\ e <= Len(t)
      BY <1>1, <2>1, <2>5, <3>1
    <3>4. /\ i \in Replies(t) <=> t[e] = Sum(SubSeq(t, i + 2, e - 1))
          /\ Text(t, i) = SubSeq(t, i + 3, e - 1)
      BY <2>3, <3>1, <3>3 DEF Replies, Text
    <3>5. ASSUME NEW u \in Nat, NEW v \in Nat, 1 <= u, u <= v + 1, v <= n
          PROVE  SubSeq(s, u, v) = SubSeq(t, u, v)
      <4>1. /\ SubSeq(s, u, v) \in Seq(Token) /\ Len(SubSeq(s, u, v)) = v - u + 1
            /\ \A m \in 1 .. v - u + 1 : SubSeq(s, u, v)[m] = s[u + m - 1]
        BY <1>1, <3>5, PartFacts
      <4>2. v <= Len(t)
        BY <1>1, <3>5
      <4>3. /\ SubSeq(t, u, v) \in Seq(Token) /\ Len(SubSeq(t, u, v)) = v - u + 1
            /\ \A m \in 1 .. v - u + 1 : SubSeq(t, u, v)[m] = t[u + m - 1]
        BY <1>1, <3>5, <4>2, PartFacts
      <4>4. ASSUME NEW m \in 1 .. v - u + 1 PROVE SubSeq(s, u, v)[m] = SubSeq(t, u, v)[m]
        <5>1. u + m - 1 \in 1 .. n
          BY <1>1, <3>5
        <5> QED BY <1>1, <4>1, <4>3, <5>1
      <4> QED BY <4>1, <4>3, <4>4, SeqEqual
    <3>6. SubSeq(s, i + 2, e - 1) = SubSeq(t, i + 2, e - 1)
      <4>1. i + 2 \in Nat /\ e - 1 \in Nat /\ 1 <= i + 2 /\ i + 2 <= e - 1 + 1 /\ e - 1 <= n
        BY <1>1, <2>1, <3>1
      <4> QED BY <3>5, <4>1
    <3>7. SubSeq(s, i + 3, e - 1) = SubSeq(t, i + 3, e - 1)
      <4>1. i + 3 \in Nat /\ e - 1 \in Nat /\ 1 <= i + 3 /\ i + 3 <= e - 1 + 1 /\ e - 1 <= n
        BY <1>1, <2>1, <3>1
      <4> QED BY <3>5, <4>1
    <3>8. s[e] = t[e]
      <4>1. e \in 1 .. n
        BY <1>1, <2>1, <3>1
      <4> QED BY <1>1, <4>1
    <3> QED BY <3>2, <3>4, <3>6, <3>7, <3>8
  <2> QED BY <2>3, <2>4, <2>5
<1>3. ASSUME NEW i \in Magics(t)
      PROVE  /\ i + 1 <= n => i \in Magics(s)
             /\ i = n => ~Apart(s, q)
             /\ i > n => i - n \in Magics(q)
  <2>1. i \in Nat /\ 1 <= i /\ i + 1 <= Len(t) /\ t[i] = A5 /\ t[i + 1] = x5A
    BY <1>1, MagicFacts
  <2>2. ASSUME i + 1 <= n PROVE i \in Magics(s)
    <3>1. i \in 1 .. n /\ i + 1 \in 1 .. n /\ i \in 1 .. n - 1
      BY <1>1, <2>1, <2>2
    <3>2. s[i] = A5 /\ s[i + 1] = x5A
      BY <1>1, <2>1, <3>1
    <3> QED BY <3>1, <3>2 DEF Magics
  <2>3. ASSUME i = n PROVE ~Apart(s, q)
    <3>1. n \in 1 .. n /\ 1 \in 1 .. Len(q)
      BY <1>1, <2>1, <2>3
    <3>2. s[n] = A5 /\ q[1] = x5A
      BY <1>1, <2>1, <2>3, <3>1
    <3>3. s # <<>> /\ q # <<>>
      BY <3>1, EmptySeq
    <3> QED BY <3>2, <3>3 DEF Apart
  <2>4. ASSUME i > n PROVE i - n \in Magics(q)
    <3>1. i >= n + 1 /\ i - (n + 1) + 1 = i - n
      BY <1>1, <2>1, <2>4
    <3>2. i - (n + 1) + 1 \in Magics(From(t, n + 1))
      BY <1>1, <3>1, RestFacts
    <3> QED BY <1>1, <3>1, <3>2, Zenon
  <2> QED BY <2>2, <2>3, <2>4
<1>4. ASSUME NEW i \in Magics(q) PROVE n + i \in Magics(t)
  <2>1. n + 1 + i - 1 \in Magics(t)
    <3>1. i \in Magics(From(t, n + 1))
      BY <1>1, Zenon
    <3> QED BY <1>1, <3>1, RestFacts
  <2>2. n + 1 + i - 1 = n + i
    <3>1. i \in Nat
      BY MagicFacts
    <3> QED BY <1>1, <3>1
  <2> QED BY <2>1, <2>2, Zenon
<1> QED BY <1>2, <1>3, <1>4 DEF t

LEMMA SumToken ==
    ASSUME NEW s \in Seq(Token), NEW i \in Replies(s)
    PROVE  IsSum(s[SumPlace(s, i)])
<1>1. /\ i \in Magics(s) /\ i + 2 <= Len(s) /\ SumPlace(s, i) <= Len(s)
      /\ s[SumPlace(s, i)] = Sum(SubSeq(s, i + 2, SumPlace(s, i) - 1))
  BY DEF Replies
<1> DEFINE e == SumPlace(s, i)
<1>2. /\ i \in Nat /\ 1 <= i /\ Len(s) \in Nat /\ e \in Nat /\ i + 3 <= e
  BY <1>1, MagicFacts
<1>3. e <= Len(s) /\ s[e] = Sum(SubSeq(s, i + 2, e - 1))
  BY <1>1
<1> HIDE DEF e
<1>4. SubSeq(s, i + 2, e - 1) \in Seq(Token)
  <2>1. i + 2 \in Nat /\ e - 1 \in Nat /\ 1 <= i + 2 /\ i + 2 <= e - 1 + 1 /\ e - 1 <= Len(s)
    BY <1>2, <1>3
  <2> QED BY <2>1, PartFacts
<1> DEFINE w == SubSeq(s, i + 2, e - 1)
<1>5. w \in Seq(Token) /\ s[e] = Sum(w)
  BY <1>3, <1>4
<1> HIDE DEF w
<1>6. s[e][1] = 256
  <2>1. Sum(w)[1] = 256
    BY <1>5, SumIs
  <2> QED BY <1>5, <2>1
<1> QED BY <1>6 DEF IsSum, e

(* What comes after a tidy stream, when no candidate begins across the seam *)
(* and none gets its checksum by it.                                        *)
LEMMA JoinTidy ==
    ASSUME NEW s \in Seq(Token), NEW q \in Seq(Token),
           Tidy(s), Tidy(q), Apart(s, q), Starts(q)
    PROVE  /\ Tidy(s \o q)
           /\ Magics(s \o q) = Magics(s) \cup {Len(s) + i : i \in Magics(q)}
           /\ Replies(s \o q) = Replies(s) \cup {Len(s) + i : i \in Replies(q)}
           /\ \A i \in Replies(s) : Text(s \o q, i) = Text(s, i)
           /\ \A i \in Replies(q) : Text(s \o q, Len(s) + i) = Text(q, i)
<1> DEFINE t == s \o q
           n == Len(s)
<1>1. /\ t \in Seq(Token) /\ Len(t) = n + Len(q) /\ n \in Nat /\ Len(q) \in Nat
      /\ \A i \in 1 .. n : t[i] = s[i]
      /\ \A i \in 1 .. Len(q) : t[n + i] = q[i]
      /\ n + 1 \in 1 .. Len(t) + 1 /\ From(t, n + 1) = q
  BY JoinFacts
<1>2. /\ \A i \in Magics(s) :
            /\ i \in Magics(t)
            /\ i + 2 <= n => t[i + 2] = s[i + 2] /\ SumPlace(t, i) = SumPlace(s, i)
            /\ i + 2 <= n /\ SumPlace(s, i) <= n =>
                  (i \in Replies(s) <=> i \in Replies(t)) /\ Text(t, i) = Text(s, i)
      /\ \A i \in Magics(t) :
            /\ i + 1 <= n => i \in Magics(s)
            /\ i = n => ~Apart(s, q)
            /\ i > n => i - n \in Magics(q)
      /\ \A i \in Magics(q) : n + i \in Magics(t)
  BY JoinMagics
<1> HIDE DEF t
<1>3. ASSUME NEW i \in Magics(t)
      PROVE  i \in Magics(s) \/ (i - n \in Magics(q) /\ i = n + (i - n))
  <2>1. i \in Nat
    BY <1>1, MagicFacts
  <2>2. i + 1 <= n \/ i = n \/ i > n
    BY <1>1, <2>1
  <2>3. i = n + (i - n)
    BY <1>1, <2>1
  <2> QED BY <1>2, <2>2, <2>3, Zenon
<1>4. Magics(t) = Magics(s) \cup {n + i : i \in Magics(q)}
  BY <1>2, <1>3
\* The magics of the part that came.
<1>5. ASSUME NEW i \in Magics(q)
      PROVE  /\ i \in Nat /\ 1 <= i /\ n + i \in Magics(t) /\ i + 2 <= Len(q)
             /\ SumPlace(q, i) \in Nat /\ SumPlace(q, i) <= Len(q) + 1
             /\ SumPlace(t, n + i) = n + SumPlace(q, i)
             /\ \A k \in Magics(q) : k > i => k + 1 >= SumPlace(q, i)
  <2>1. i \in Nat /\ 1 <= i /\ i + 2 <= Len(q) /\ SumPlace(q, i) \in Nat
        /\ SumPlace(q, i) <= Len(q) + 1
        /\ \A k \in Magics(q) : k > i => k + 1 >= SumPlace(q, i)
    BY MagicFacts DEF Tidy
  <2>2. i \in Magics(From(t, n + 1)) /\ i + 2 <= Len(From(t, n + 1))
    BY <1>1, <2>1, Zenon
  <2>3. SumPlace(From(t, n + 1), i) + (n + 1) - 1 = SumPlace(t, n + 1 + i - 1)
    BY <1>1, <2>2, RestFacts
  <2>4. SumPlace(q, i) + (n + 1) - 1 = SumPlace(t, n + 1 + i - 1)
    BY <1>1, <2>3, Zenon
  <2>5. SumPlace(q, i) + (n + 1) - 1 = n + SumPlace(q, i) /\ n + 1 + i - 1 = n + i
    BY <1>1, <2>1
  <2>6. SumPlace(t, n + i) = n + SumPlace(q, i)
    BY <2>4, <2>5, Zenon
  <2> QED BY <1>2, <2>1, <2>6
<1>6. ASSUME NEW i \in Magics(s)
      PROVE  /\ i \in Nat /\ 1 <= i /\ i + 2 <= n
             /\ SumPlace(t, i) \in Nat /\ SumPlace(t, i) <= n + 1
             /\ SumPlace(t, i) = SumPlace(s, i)
             /\ \A k \in Magics(s) : k > i => k + 1 >= SumPlace(t, i)
  <2>1. i \in Nat /\ 1 <= i /\ i + 2 <= n /\ SumPlace(s, i) \in Nat /\ SumPlace(s, i) <= n + 1
        /\ \A k \in Magics(s) : k > i => k + 1 >= SumPlace(s, i)
    BY MagicFacts DEF Tidy
  <2>2. SumPlace(t, i) = SumPlace(s, i)
    BY <1>2, <2>1
  <2> QED BY <2>1, <2>2
<1>7. ASSUME NEW i \in Magics(t)
      PROVE  /\ i + 2 <= Len(t) /\ SumPlace(t, i) <= Len(t) + 1
             /\ \A k \in Magics(t) : k > i => k + 1 >= SumPlace(t, i)
  <2>1. CASE i \in Magics(s)
    <3>1. /\ i \in Nat /\ i + 2 <= n /\ SumPlace(t, i) \in Nat /\ SumPlace(t, i) <= n + 1
          /\ \A k \in Magics(s) : k > i => k + 1 >= SumPlace(t, i)
      BY <1>6, <2>1
    <3>2. i + 2 <= Len(t) /\ SumPlace(t, i) <= Len(t) + 1
      BY <1>1, <3>1
    <3>3. ASSUME NEW k \in Magics(t), k > i PROVE k + 1 >= SumPlace(t, i)
      <4>1. CASE k \in Magics(s)
        BY <3>1, <3>3, <4>1
      <4>2. CASE k - n \in Magics(q) /\ k = n + (k - n)
        <5>1. k - n \in Nat /\ 1 <= k - n
          BY <1>5, <4>2
        <5>2. k \in Nat
          BY <1>1, MagicFacts
        <5> QED BY <1>1, <3>1, <5>1, <5>2
      <4> QED BY <1>3, <4>1, <4>2
    <3> QED BY <3>2, <3>3
  <2>2. CASE i - n \in Magics(q) /\ i = n + (i - n)
    <3>1. PICK j \in Magics(q) : i = n + j
      BY <2>2
    <3>2. /\ j \in Nat /\ 1 <= j /\ j + 2 <= Len(q) /\ SumPlace(q, j) \in Nat
          /\ SumPlace(q, j) <= Len(q) + 1 /\ SumPlace(t, i) = n + SumPlace(q, j)
          /\ \A k \in Magics(q) : k > j => k + 1 >= SumPlace(q, j)
      BY <1>5, <3>1
    <3>3. i + 2 <= Len(t) /\ SumPlace(t, i) <= Len(t) + 1
      BY <1>1, <3>1, <3>2
    <3>4. ASSUME NEW k \in Magics(t), k > i PROVE k + 1 >= SumPlace(t, i)
      <4>1. CASE k \in Magics(s)
        <5>1. k \in Nat /\ k + 2 <= n
          BY <1>6, <4>1
        <5> QED BY <1>1, <3>1, <3>2, <3>4, <5>1
      <4>2. CASE k - n \in Magics(q) /\ k = n + (k - n)
        <5>1. PICK m \in Magics(q) : k = n + m
          BY <4>2
        <5>2. m \in Nat /\ m > j
          BY <1>1, <1>5, <3>1, <3>2, <3>4, <5>1
        <5>3. m + 1 >= SumPlace(q, j)
          BY <3>2, <5>2
        <5> QED BY <1>1, <3>2, <5>1, <5>2, <5>3
      <4> QED BY <1>3, <4>1, <4>2
    <3> QED BY <3>3, <3>4
  <2> QED BY <1>3, <2>1, <2>2
<1>8. ASSUME NEW i \in Replies(s) PROVE i \in Replies(t) /\ Text(t, i) = Text(s, i)
  <2>1. i \in Magics(s) /\ i + 2 <= n /\ SumPlace(s, i) <= n
    BY DEF Replies
  <2> QED BY <1>2, <2>1
<1>9. ASSUME NEW i \in Replies(q) PROVE n + i \in Replies(t) /\ Text(t, n + i) = Text(q, i)
  <2>1. i \in Replies(From(t, n + 1))
    BY <1>1, Zenon
  <2>2. n + 1 + i - 1 \in Replies(t) /\ Text(From(t, n + 1), i) = Text(t, n + 1 + i - 1)
    BY <1>1, <2>1, RestReplies
  <2>3. n + 1 + i - 1 = n + i
    <3>1. i \in Magics(q)
      BY DEF Replies
    <3> QED BY <1>1, <1>5, <3>1
  <2> QED BY <1>1, <2>2, <2>3, Zenon
<1>10. ASSUME NEW i \in Replies(t) PROVE i \in Replies(s) \/ \E j \in Replies(q) : i = n + j
  <2>1. i \in Magics(t) /\ SumPlace(t, i) <= Len(t)
    BY DEF Replies
  <2>2. CASE i \in Magics(s)
    <3>1. /\ i \in Nat /\ i + 2 <= n /\ SumPlace(t, i) \in Nat /\ SumPlace(t, i) <= n + 1
          /\ SumPlace(t, i) = SumPlace(s, i)
      BY <1>6, <2>2
    <3>2. CASE SumPlace(t, i) = n + 1
      <4>1. 1 \in 1 .. Len(q) /\ q # <<>>
        <5>1. Len(q) >= 1
          BY <1>1, <2>1, <3>2
        <5> QED BY <1>1, <5>1
      <4>2. t[n + 1] = q[1]
        BY <1>1, <4>1
      <4>3. IsSum(t[n + 1])
        BY <1>1, <3>2, SumToken
      <4> QED BY <4>1, <4>2, <4>3 DEF Starts
    <3>3. CASE SumPlace(t, i) # n + 1
      <4>1. \A x, m \in Nat : x <= m + 1 /\ x # m + 1 => x <= m
        OBVIOUS
      <4>2. n \in Nat /\ SumPlace(t, i) <= n
        BY <1>1, <3>1, <3>3, <4>1
      <4> QED BY <1>2, <2>2, <3>1, <4>2
    <3> QED BY <3>2, <3>3
  <2>3. CASE i - n \in Magics(q) /\ i = n + (i - n)
    <3>1. PICK j \in Magics(q) : i = n + j
      BY <2>3
    <3>2. j \in Nat /\ 1 <= j
      BY MagicFacts
    <3>3. i >= n + 1 /\ i - (n + 1) + 1 = j
      BY <1>1, <3>1, <3>2
    <3>4. i - (n + 1) + 1 \in Replies(From(t, n + 1))
      BY <1>1, <3>3, RestReplies
    <3>5. j \in Replies(q)
      BY <1>1, <3>3, <3>4, Zenon
    <3> QED BY <3>1, <3>5
  <2> QED BY <1>3, <2>1, <2>2, <2>3
<1>11. Tidy(t)
  BY <1>7 DEF Tidy
<1>12. Replies(t) = Replies(s) \cup {n + i : i \in Replies(q)}
  BY <1>8, <1>9, <1>10
<1> QED BY <1>4, <1>8, <1>9, <1>11, <1>12 DEF t

-----------------------------------------------------------------------------
(* A stream that is read.                                                   *)

LEMMA RestTidy ==
    ASSUME NEW s \in Seq(Token), NEW k \in 1 .. Len(s) + 1, Tidy(s)
    PROVE  Tidy(From(s, k))
<1> DEFINE b == From(s, k)
<1>1. /\ b \in Seq(Token) /\ Len(b) = Len(s) - k + 1 /\ Len(b) \in Nat
      /\ \A j \in 1 .. Len(s) - k + 1 : b[j] = s[k + j - 1]
  BY FromFacts
<1>2. Len(s) \in Nat /\ k \in Nat /\ 1 <= k /\ k <= Len(s) + 1
  <2>1. Len(s) \in Nat
    BY LenProperties
  <2> QED BY <2>1
<1>3. \A j \in Magics(b) :
         /\ k + j - 1 \in Magics(s)
         /\ j + 2 <= Len(b) <=> k + j - 1 + 2 <= Len(s)
         /\ j + 2 <= Len(b) =>
               /\ b[j + 2] = s[k + j - 1 + 2]
               /\ SumPlace(b, j) + k - 1 = SumPlace(s, k + j - 1)
  BY RestFacts
<1> HIDE DEF b
<1>4. ASSUME NEW j \in Magics(b)
      PROVE  /\ j + 2 <= Len(b) /\ SumPlace(b, j) <= Len(b) + 1
             /\ \A m \in Magics(b) : m > j => m + 1 >= SumPlace(b, j)
  <2> DEFINE i == k + j - 1
             d == SumPlace(b, j)
             e == SumPlace(s, i)
  <2>1. /\ i + 2 <= Len(s) /\ e <= Len(s) + 1 /\ \A m \in Magics(s) : m > i => m + 1 >= e
    BY <1>3 DEF Tidy
  <2>2. j + 2 <= Len(b) /\ d + k - 1 = e
    BY <1>3, <2>1
  <2>3. j \in Nat /\ 1 <= j /\ d \in Nat /\ j + 3 <= d
    BY <1>1, <2>2, MagicFacts
  <2>4. i = k + j - 1
    OBVIOUS
  <2> HIDE DEF i, d, e
  <2>5. d <= Len(b) + 1
    BY <1>1, <1>2, <2>1, <2>2, <2>3, <2>4
  <2>6. ASSUME NEW m \in Magics(b), m > j PROVE m + 1 >= d
    <3>1. m \in Nat /\ k + m - 1 \in Magics(s)
      BY <1>1, <1>3, MagicFacts
    <3> DEFINE x == k + m - 1
    <3>2. x \in Magics(s) /\ x > i /\ x = k + m - 1
      BY <1>2, <2>3, <2>4, <2>6, <3>1
    <3> HIDE DEF x
    <3>3. x + 1 >= e
      BY <2>1, <3>2
    <3> QED BY <1>2, <2>2, <2>3, <3>1, <3>2, <3>3
  <2> QED BY <2>2, <2>5, <2>6 DEF d
<1> QED BY <1>4 DEF Tidy, b

(* Where next_frame stops.                                                  *)
SearchAt(s) ==
    LET left == Magics(s) \ Rejected(s)
    IN  IF left # {} THEN Min(left) ELSE Max({1, Len(s)})

LEMMA LeastOf ==
    ASSUME NEW T \in SUBSET Nat, T # {}
    PROVE  Min(T) \in T /\ \A n \in T : Min(T) <= n
<1>1. PICK m \in T : \A n \in T : ~ (<<n, m>> \in OpToRel(<, Nat))
  BY WFMin, NatLessThanWellFounded
<1>2. ASSUME NEW n \in T PROVE m <= n
  <2>1. <<n, m>> \in OpToRel(<, Nat) <=> n < m
    BY DEF OpToRel
  <2>2. ~ (<<n, m>> \in OpToRel(<, Nat))
    BY <1>1
  <2>3. ~ (n < m)
    BY <2>1, <2>2, Zenon
  <2> QED BY <2>3
<1>3. \E x \in T : \A n \in T : x <= n
  BY <1>2
<1> QED BY <1>3 DEF Min

LEMMA MostOf ==
    ASSUME NEW n \in Nat
    PROVE  /\ Max({1, n}) \in Nat /\ 1 <= Max({1, n}) /\ n <= Max({1, n})
           /\ Max({1, n}) <= n + 1
<1>1. \E x \in {1, n} : \A y \in {1, n} : x >= y
  <2>1. CASE n = 0
    BY <2>1
  <2>2. CASE n # 0
    BY <2>2
  <2> QED BY <2>1, <2>2
<1>2. Max({1, n}) \in {1, n} /\ \A y \in {1, n} : Max({1, n}) >= y
  BY <1>1 DEF Max
<1> QED BY <1>2

LEMMA SearchFacts ==
    ASSUME NEW s \in Seq(Token)
    PROVE  /\ SearchAt(s) \in 1 .. Len(s) + 1 /\ Searched(s) = From(s, SearchAt(s))
           /\ FrameReady(s) =>
                 /\ SearchAt(s) \in Replies(s)
                 /\ Content(Searched(s)) = Text(s, SearchAt(s))
                 /\ SumPlace(s, SearchAt(s)) + 1 \in 1 .. Len(s) + 1
                 /\ AfterFrame(Searched(s)) = From(s, SumPlace(s, SearchAt(s)) + 1)
           /\ Tidy(s) /\ ~FrameReady(s) => Replies(s) = {}
<1> DEFINE left == Magics(s) \ Rejected(s)
<1>1. Len(s) \in Nat
  BY LenProperties
<1>2. Searched(s) = From(s, SearchAt(s))
  BY DEF Searched, SearchAt
<1>3. CASE left # {}
  <2>1. left \in SUBSET Nat
    BY MagicFacts
  <2> DEFINE m == Min(left)
  <2>2. m \in left /\ \A n \in left : m <= n
    BY <1>3, <2>1, LeastOf
  <2>3. SearchAt(s) = m
    BY <1>3 DEF SearchAt
  <2> HIDE DEF m
  <2>4. m \in Magics(s) /\ m \notin Rejected(s)
    BY <2>2
  <2>5. /\ m \in Nat /\ 1 <= m /\ m + 1 <= Len(s) /\ m \in 1 .. Len(s) + 1
    BY <2>4, MagicFacts
  <2>6. /\ Whole(From(s, m)) <=> m + 2 <= Len(s) /\ SumPlace(s, m) <= Len(s)
        /\ Whole(From(s, m)) =>
              /\ Intact(From(s, m)) <=> m \in Replies(s)
              /\ Content(From(s, m)) = Text(s, m)
              /\ SumPlace(s, m) + 1 \in 1 .. Len(s) + 1
              /\ AfterFrame(From(s, m)) = From(s, SumPlace(s, m) + 1)
    BY <2>4, WindowFacts
  <2>7. FrameReady(s) <=> Whole(From(s, m))
    BY <1>2, <2>3 DEF FrameReady
  <2>8. FrameReady(s) => m \in Replies(s)
    BY <2>4, <2>6, <2>7 DEF Rejected
  <2>9. ASSUME Tidy(s), ~FrameReady(s), NEW r \in Replies(s) PROVE FALSE
    <3>1. r \in Magics(s) /\ r \notin Rejected(s)
      <4>1. r \in Magics(s)
        BY DEF Replies
      <4>2. Whole(From(s, r)) => Intact(From(s, r))
        BY <4>1, WindowFacts
      <4> QED BY <4>1, <4>2 DEF Rejected
    <3>2. m <= r
      BY <2>2, <3>1
    <3>3. ~Whole(From(s, m)) /\ Whole(From(s, r))
      <4>1. r + 2 <= Len(s) /\ SumPlace(s, r) <= Len(s)
        BY DEF Replies
      <4> QED BY <2>7, <2>9, <3>1, <4>1, WindowFacts
    <3>4. /\ m + 2 <= Len(s) /\ SumPlace(s, m) <= Len(s) + 1
          /\ \A k \in Magics(s) : k > m => k + 1 >= SumPlace(s, m)
      BY <2>4, <2>9 DEF Tidy
    <3>5. SumPlace(s, m) \in Nat
      BY <2>4, <3>4, MagicFacts
    <3>6. SumPlace(s, m) = Len(s) + 1
      BY <1>1, <2>6, <3>3, <3>4, <3>5
    <3>7. r \in Nat /\ r + 1 <= Len(s) /\ r # m
      BY <3>1, <3>3, MagicFacts
    <3>8. r > m
      BY <2>5, <3>2, <3>7
    <3>9. r + 1 >= SumPlace(s, m)
      BY <3>1, <3>4, <3>8
    <3> QED BY <1>1, <3>6, <3>7, <3>9
  <2>10. SearchAt(s) \in 1 .. Len(s) + 1
    BY <2>3, <2>5
  <2>11. FrameReady(s) =>
           /\ Content(Searched(s)) = Text(s, SearchAt(s))
           /\ SumPlace(s, SearchAt(s)) + 1 \in 1 .. Len(s) + 1
           /\ AfterFrame(Searched(s)) = From(s, SumPlace(s, SearchAt(s)) + 1)
    BY <1>2, <2>3, <2>6, <2>7
  <2> QED BY <1>2, <2>3, <2>8, <2>9, <2>10, <2>11
<1>4. CASE left = {}
  <2> DEFINE m == Max({1, Len(s)})
  <2>1. SearchAt(s) = m
    BY <1>4 DEF SearchAt
  <2>2. m \in Nat /\ 1 <= m /\ Len(s) <= m /\ m <= Len(s) + 1
    BY <1>1, MostOf
  <2> HIDE DEF m
  <2>3. m \in 1 .. Len(s) + 1
    BY <1>1, <2>2
  <2>4. Len(From(s, m)) = Len(s) - m + 1
    BY <2>3, FromFacts
  <2>5. ~(Len(From(s, m)) >= 3)
    BY <1>1, <2>2, <2>4
  <2>6. ~FrameReady(s)
    BY <1>2, <2>1, <2>5 DEF FrameReady, Whole, HasHeader
  <2>7. ASSUME NEW r \in Replies(s) PROVE FALSE
    <3>1. r \in Magics(s)
      BY DEF Replies
    <3>2. Whole(From(s, r)) => Intact(From(s, r))
      BY <3>1, WindowFacts
    <3> QED BY <1>4, <3>1, <3>2 DEF Rejected
  <2> QED BY <1>2, <2>1, <2>3, <2>6, <2>7
<1> QED BY <1>3, <1>4

(* The search passes over no reply, one that is not complete yet included.  *)
LEMMA SearchSafe ==
    ASSUME NEW s \in Seq(Token), NEW q \in Seq(Token), NEW r \in Replies(s \o q),
           ~FrameReady(s)
    PROVE  SearchAt(s) <= r
<1> DEFINE left == Magics(s) \ Rejected(s)
           t == s \o q
<1>1. Len(s) \in Nat /\ t \in Seq(Token)
  BY JoinFacts
<1>2. r \in Magics(t)
  BY DEF Replies
<1>3. r \in Nat /\ 1 <= r
  BY <1>1, <1>2, MagicFacts
<1>4. r + 1 <= Len(s) => r \in Magics(s)
  BY <1>2, JoinMagics
<1>5. ASSUME r + 1 <= Len(s) PROVE r \in left
  <2>1. r \in Magics(s)
    BY <1>4, <1>5
  <2>2. ASSUME Whole(From(s, r)) PROVE Intact(From(s, r))
    <3>1. r + 2 <= Len(s) /\ SumPlace(s, r) <= Len(s)
      BY <2>1, <2>2, WindowFacts
    <3>2. r \in Replies(s) <=> r \in Replies(t)
      BY <2>1, <3>1, JoinMagics
    <3> QED BY <2>1, <2>2, <3>2, WindowFacts
  <2> QED BY <2>1, <2>2 DEF Rejected
<1>6. CASE left # {}
  <2>1. left \in SUBSET Nat
    BY MagicFacts
  <2>2. Min(left) \in left /\ \A n \in left : Min(left) <= n
    BY <1>6, <2>1, LeastOf
  <2>3. Min(left) \in Nat /\ Min(left) + 1 <= Len(s)
    BY <2>2, MagicFacts
  <2>4. SearchAt(s) = Min(left)
    BY <1>6 DEF SearchAt
  <2>5. CASE r + 1 <= Len(s)
    BY <1>5, <2>2, <2>4, <2>5
  <2>6. CASE ~(r + 1 <= Len(s))
    BY <1>1, <1>3, <2>3, <2>4, <2>6
  <2> QED BY <2>5, <2>6
<1>7. CASE left = {}
  <2>1. SearchAt(s) = Max({1, Len(s)})
    BY <1>7 DEF SearchAt
  <2>2. Max({1, Len(s)}) \in {1, Len(s)}
    <3>1. \E x \in {1, Len(s)} : \A y \in {1, Len(s)} : x >= y
      <4>1. CASE Len(s) = 0
        BY <4>1
      <4>2. CASE Len(s) # 0
        BY <1>1, <4>2
      <4> QED BY <4>1, <4>2
    <3> QED BY <3>1 DEF Max
  <2>3. ~(r + 1 <= Len(s))
    BY <1>5, <1>7
  <2> QED BY <1>1, <1>3, <2>1, <2>2, <2>3
<1> QED BY <1>6, <1>7

LEMMA Regroup ==
    ASSUME NEW f \in Seq(Token), NEW a \in Seq(Token), NEW z \in Seq(Token)
    PROVE  (f \o a) \o z = f \o (a \o z)
<1>1. \A S : \A x, y, w \in Seq(S) : (x \o y) \o w = x \o (y \o w)
  BY ConcatAssociative
<1> QED BY <1>1

LEMMA FromJoin ==
    ASSUME NEW s \in Seq(Token), NEW d \in Seq(Token), NEW k \in 1 .. Len(s) + 1
    PROVE  From(s, k) \o d = From(s \o d, k) /\ k \in 1 .. Len(s \o d) + 1
<1> DEFINE f == From(s, k)
           t == s \o d
           g == From(t, k)
<1>1. k \in 1 .. Len(s) + 1
  OBVIOUS
<1>2. /\ t \in Seq(Token) /\ Len(t) = Len(s) + Len(d) /\ Len(s) \in Nat /\ Len(d) \in Nat
      /\ \A i \in 1 .. Len(s) : t[i] = s[i]
      /\ \A i \in 1 .. Len(d) : t[Len(s) + i] = d[i]
  BY JoinFacts
<1> HIDE DEF t
<1>3. k \in 1 .. Len(t) + 1
  BY <1>1, <1>2
<1>4. /\ f \in Seq(Token) /\ Len(f) = Len(s) - k + 1 /\ Len(f) \in Nat
      /\ \A i \in 1 .. Len(s) - k + 1 : f[i] = s[k + i - 1]
  BY <1>1, FromFacts
<1>5. /\ g \in Seq(Token) /\ Len(g) = Len(t) - k + 1 /\ Len(g) \in Nat
      /\ \A i \in 1 .. Len(t) - k + 1 : g[i] = t[k + i - 1]
  BY <1>2, <1>3, FromFacts
<1> HIDE DEF f, g
<1>6. /\ f \o d \in Seq(Token) /\ Len(f \o d) = Len(f) + Len(d)
      /\ \A i \in 1 .. Len(f) : (f \o d)[i] = f[i]
      /\ \A i \in 1 .. Len(d) : (f \o d)[Len(f) + i] = d[i]
  BY <1>4, JoinFacts
<1>7. Len(f \o d) = Len(g)
  BY <1>1, <1>2, <1>4, <1>5, <1>6
<1>8. ASSUME NEW i \in 1 .. Len(g) PROVE (f \o d)[i] = g[i]
  <2>1. CASE i <= Len(f)
    <3>1. /\ i \in 1 .. Len(f) /\ i \in 1 .. Len(s) - k + 1 /\ i \in 1 .. Len(t) - k + 1
          /\ k + i - 1 \in 1 .. Len(s)
      <4>1. /\ i \in Nat /\ 1 <= i /\ k \in Nat /\ 1 <= k /\ i <= Len(s) - k + 1
            /\ i <= Len(t) - k + 1 /\ Len(s) \in Nat /\ Len(t) \in Nat /\ Len(f) \in Nat
        BY <1>1, <1>2, <1>4, <1>5, <2>1
      <4> QED BY <2>1, <4>1
    <3> QED BY <1>2, <1>4, <1>5, <1>6, <3>1
  <2>2. CASE ~(i <= Len(f))
    <3> DEFINE j == i - Len(f)
    <3>1. /\ j \in 1 .. Len(d) /\ Len(f) + j = i /\ i \in 1 .. Len(t) - k + 1
          /\ k + i - 1 = Len(s) + j
      BY <1>1, <1>2, <1>4, <1>5, <2>2
    <3> HIDE DEF j
    <3>2. (f \o d)[i] = d[j] /\ t[k + i - 1] = d[j]
      BY <1>2, <1>6, <3>1
    <3> QED BY <1>5, <3>1, <3>2
  <2> QED BY <2>1, <2>2
<1>9. f \o d = g
  BY <1>5, <1>6, <1>7, <1>8, SeqEqual
<1> QED BY <1>3, <1>9 DEF f, g, t

LEMMA Halves ==
    ASSUME NEW d \in Seq(Token), NEW n \in 1 .. Len(d)
    PROVE  /\ SubSeq(d, 1, n) \in Seq(Token) /\ From(d, n + 1) \in Seq(Token)
           /\ SubSeq(d, 1, n) \o From(d, n + 1) = d
<1> DEFINE a == SubSeq(d, 1, n)
           z == From(d, n + 1)
<1>1. Len(d) \in Nat
  BY LenProperties
<1>2. /\ 1 \in Nat /\ n \in Nat /\ 1 <= n + 1 /\ n <= Len(d) /\ n + 1 \in 1 .. Len(d) + 1
      /\ 1 <= n
  BY <1>1
<1>3. /\ a \in Seq(Token) /\ Len(a) = n - 1 + 1
      /\ \A i \in 1 .. n - 1 + 1 : a[i] = d[1 + i - 1]
  BY <1>2, PartFacts
<1>4. /\ z \in Seq(Token) /\ Len(z) = Len(d) - (n + 1) + 1
      /\ \A i \in 1 .. Len(d) - (n + 1) + 1 : z[i] = d[n + 1 + i - 1]
  BY <1>2, FromFacts
<1> HIDE DEF a, z
<1>5. /\ a \o z \in Seq(Token) /\ Len(a \o z) = Len(a) + Len(z)
      /\ \A i \in 1 .. Len(a) : (a \o z)[i] = a[i]
      /\ \A i \in 1 .. Len(z) : (a \o z)[Len(a) + i] = z[i]
  BY <1>3, <1>4, JoinFacts
<1>6. Len(a) = n /\ Len(z) = Len(d) - n /\ Len(a \o z) = Len(d)
  BY <1>1, <1>2, <1>3, <1>4, <1>5
<1>7. ASSUME NEW i \in 1 .. Len(d) PROVE (a \o z)[i] = d[i]
  <2>1. CASE i <= n
    <3>1. i \in 1 .. Len(a) /\ i \in 1 .. n - 1 + 1 /\ 1 + i - 1 = i
      BY <1>2, <1>6, <2>1
    <3> QED BY <1>3, <1>5, <3>1
  <2>2. CASE ~(i <= n)
    <3> DEFINE j == i - n
    <3>1. /\ j \in 1 .. Len(z) /\ j \in 1 .. Len(d) - (n + 1) + 1 /\ Len(a) + j = i
          /\ n + 1 + j - 1 = i
      BY <1>1, <1>2, <1>6, <2>2
    <3> HIDE DEF j
    <3> QED BY <1>4, <1>5, <3>1
  <2> QED BY <2>1, <2>2
<1>8. a \o z = d
  BY <1>5, <1>6, <1>7, SeqEqual
<1> QED BY <1>3, <1>4, <1>8 DEF a, z

(* Reading n bytes of what has arrived.                                     *)
LEMMA ReadFacts ==
    ASSUME NEW s \in Seq(Token), NEW d \in Seq(Token), NEW n \in 1 .. Len(d)
    PROVE  /\ (Searched(s) \o SubSeq(d, 1, n)) \o From(d, n + 1) = From(s \o d, SearchAt(s))
           /\ SearchAt(s) \in 1 .. Len(s \o d) + 1
<1>1. SearchAt(s) \in 1 .. Len(s) + 1 /\ Searched(s) = From(s, SearchAt(s))
  BY SearchFacts
<1>2. Searched(s) \in Seq(Token)
  BY <1>1, FromFacts
<1>3. /\ SubSeq(d, 1, n) \in Seq(Token) /\ From(d, n + 1) \in Seq(Token)
      /\ SubSeq(d, 1, n) \o From(d, n + 1) = d
  BY Halves
<1>4. (Searched(s) \o SubSeq(d, 1, n)) \o From(d, n + 1)
          = Searched(s) \o (SubSeq(d, 1, n) \o From(d, n + 1))
  BY <1>2, <1>3, Regroup
<1>5. Searched(s) \o d = From(s \o d, SearchAt(s)) /\ SearchAt(s) \in 1 .. Len(s \o d) + 1
  BY <1>1, FromJoin, Zenon
<1> QED BY <1>3, <1>4, <1>5, Zenon

-----------------------------------------------------------------------------
(* What is sent, and the types.                                             *)

LEMMA Alphabet ==
    /\ \A c \in Commands : Payload[c] \in Texts /\ Reply[c] \in Texts
    /\ \A n \in Noise : n \in Seq(0 .. 255)
    /\ \A c, d \in Commands : c # d => Payload[c] # Payload[d]
<1>1. ASSUME NEW c \in Commands PROVE Payload[c] \in Texts /\ Reply[c] \in Texts
  <2>1. /\ Payload[c] \in Seq(0 .. 255) /\ Reply[c] \in Seq(0 .. 255)
        /\ Len(Payload[c]) <= RxMax /\ Len(Reply[c]) <= 255 /\ RxMax \in 0 .. 255
    BY FramingAssumption DEF FramingAssumption
  <2>2. Len(Payload[c]) \in Nat
    BY <2>1, LenProperties
  <2>3. \A n \in Nat : \A m \in 0 .. 255 : n <= m => n <= 255
    OBVIOUS
  <2>4. Len(Payload[c]) <= 255
    BY <2>1, <2>2, <2>3, Zenon
  <2> QED BY <2>1, <2>4, Zenon DEF Texts
<1> QED BY <1>1, FramingAssumption DEF FramingAssumption

LEMMA PartIn ==
    ASSUME NEW S, NEW s \in Seq(S), NEW a \in Nat, NEW b \in Nat, 1 <= a, b <= Len(s)
    PROVE  SubSeq(s, a, b) \in Seq(S)
<1>1. \A i \in a .. b : s[i] \in S
  <2>1. Len(s) \in Nat
    BY LenProperties
  <2> QED BY <2>1, ElementOfSeq
<1> QED BY <1>1, SubSeqProperties

LEMMA FromIn ==
    ASSUME NEW S, NEW s \in Seq(S), NEW k \in 1 .. Len(s) + 1
    PROVE  From(s, k) \in Seq(S)
<1>1. Len(s) \in Nat /\ k \in Nat /\ 1 <= k /\ Len(s) <= Len(s)
  <2>1. Len(s) \in Nat
    BY LenProperties
  <2> QED BY <2>1
<1> QED BY <1>1, PartIn DEF From

LEMMA AllIn ==
    ASSUME NEW S, NEW s \in Seq(Token), \A i \in 1 .. Len(s) : s[i] \in S
    PROVE  s \in Seq(S)
<1>1. Len(s) \in Int /\ 1 \in Int
  BY LenProperties
<1>2. SubSeq(s, 1, Len(s)) \in Seq(S)
  BY <1>1, SubSeqProperties
<1> QED BY <1>2, SubSeqFull

LEMMA SeqIn == ASSUME NEW S, NEW T, S \subseteq T PROVE Seq(S) \subseteq Seq(T)
BY SeqMonotonic

LEMMA WithoutFacts ==
    ASSUME NEW S, NEW s \in Seq(S), NEW i \in 1 .. Len(s)
    PROVE  /\ Without(s, i) \in Seq(S) /\ Len(Without(s, i)) = Len(s) - 1
           /\ \A j \in 1 .. i - 1 : Without(s, i)[j] = s[j]
           /\ \A j \in i .. Len(s) - 1 : Without(s, i)[j] = s[j + 1]
<1> DEFINE a == SubSeq(s, 1, i - 1)
           b == From(s, i + 1)
<1>1. Len(s) \in Nat /\ \A j \in 1 .. Len(s) : s[j] \in S
  BY LenProperties, ElementOfSeq
<1>2. a \in Seq(S) /\ Len(a) = i - 1 /\ \A j \in 1 .. i - 1 : a[j] = s[j]
  <2>1. \A j \in 1 .. i - 1 : s[j] \in S
    BY <1>1
  <2>2. /\ a \in Seq(S) /\ Len(a) = IF 1 <= i - 1 THEN i - 1 - 1 + 1 ELSE 0
        /\ \A j \in 1 .. i - 1 - 1 + 1 : a[j] = s[1 + j - 1]
    BY <2>1, SubSeqProperties
  <2>3. Len(a) = i - 1
    BY <1>1, <2>2
  <2>4. ASSUME NEW j \in 1 .. i - 1 PROVE a[j] = s[j]
    <3>1. j \in 1 .. i - 1 - 1 + 1 /\ 1 + j - 1 = j
      BY <1>1
    <3> QED BY <2>2, <3>1
  <2> QED BY <2>2, <2>3, <2>4
<1>3. b \in Seq(S) /\ Len(b) = Len(s) - i /\ \A j \in 1 .. Len(s) - i : b[j] = s[i + j]
  <2>1. \A j \in i + 1 .. Len(s) : s[j] \in S
    BY <1>1
  <2>2. i + 1 \in Int /\ Len(s) \in Int
    BY <1>1
  <2>3. /\ b \in Seq(S) /\ Len(b) = IF i + 1 <= Len(s) THEN Len(s) - (i + 1) + 1 ELSE 0
        /\ \A j \in 1 .. Len(s) - (i + 1) + 1 : b[j] = s[i + 1 + j - 1]
    BY <2>1, <2>2, SubSeqProperties DEF From
  <2>4. Len(b) = Len(s) - i
    BY <1>1, <2>3
  <2>5. ASSUME NEW j \in 1 .. Len(s) - i PROVE b[j] = s[i + j]
    <3>1. j \in 1 .. Len(s) - (i + 1) + 1 /\ i + 1 + j - 1 = i + j
      BY <1>1
    <3> QED BY <2>3, <3>1
  <2> QED BY <2>3, <2>4, <2>5
<1> HIDE DEF a, b
<1>4. /\ a \o b \in Seq(S) /\ Len(a \o b) = Len(a) + Len(b)
      /\ \A j \in 1 .. Len(a) + Len(b) :
            (a \o b)[j] = IF j <= Len(a) THEN a[j] ELSE b[j - Len(a)]
  BY <1>2, <1>3, ConcatProperties
<1>5. Len(a \o b) = Len(s) - 1
  BY <1>1, <1>2, <1>3, <1>4
<1>6. ASSUME NEW j \in 1 .. i - 1 PROVE (a \o b)[j] = s[j]
  <2>1. j \in 1 .. Len(a) + Len(b) /\ j <= Len(a)
    BY <1>1, <1>2, <1>3
  <2> QED BY <1>2, <1>4, <2>1
<1>7. ASSUME NEW j \in i .. Len(s) - 1 PROVE (a \o b)[j] = s[j + 1]
  <2> DEFINE m == j - (i - 1)
  <2>1. /\ j \in 1 .. Len(a) + Len(b) /\ ~(j <= Len(a)) /\ j - Len(a) = m
        /\ m \in 1 .. Len(s) - i /\ i + m = j + 1
    BY <1>1, <1>2, <1>3
  <2> HIDE DEF m
  <2>2. (a \o b)[j] = b[m]
    BY <1>4, <2>1
  <2> QED BY <1>3, <2>1, <2>2
<1>8. Without(s, i) = a \o b
  BY DEF Without, a, b
<1> QED BY <1>4, <1>5, <1>6, <1>7, <1>8

(* A frame holds one checksum, its last byte.                               *)
LEMMA PackSum ==
    ASSUME NEW p \in Texts, NEW i \in 1 .. Len(p) + 4
    PROVE  /\ IsSum(Pack(p)[i]) => i = Len(p) + 4
           /\ i = Len(p) + 4 => Pack(p)[i] = Sum(Body(p)) /\ IsSum(Pack(p)[i])
<1>1. /\ Len(p) \in 0 .. 255 /\ p \in Seq(0 .. 255)
  BY TextFacts
<1>2. /\ Pack(p)[1] = A5 /\ Pack(p)[2] = x5A /\ Pack(p)[3] = <<Len(p)>>
      /\ \A j \in 1 .. Len(p) : Pack(p)[j + 3] = <<p[j]>>
      /\ Pack(p)[Len(p) + 4] = Sum(Body(p))
  BY PackFacts
<1>3. CASE i \in 1 .. 3
  <2>1. ~IsSum(A5) /\ ~IsSum(x5A) /\ ~IsSum(<<Len(p)>>)
    BY <1>1, ByteFacts, MarkFacts
  <2>2. i = 1 \/ i = 2 \/ i = 3
    BY <1>3
  <2>3. i # Len(p) + 4
    BY <1>1, <1>3
  <2> QED BY <1>2, <2>1, <2>2, <2>3, Zenon
<1>4. CASE i \in 4 .. Len(p) + 3
  <2> DEFINE j == i - 3
  <2>1. j \in 1 .. Len(p) /\ i = j + 3 /\ i # Len(p) + 4
    BY <1>1, <1>4
  <2> HIDE DEF j
  <2>2. p[j] \in 0 .. 255
    BY <1>1, <2>1, AsBytesFacts
  <2>3. ~IsSum(<<p[j]>>)
    BY <2>2, ByteFacts
  <2>4. Pack(p)[i] = <<p[j]>>
    BY <1>2, <2>1
  <2> QED BY <2>1, <2>3, <2>4
<1>5. CASE i = Len(p) + 4
  <2>1. Body(p) \in Seq(Token)
    BY BodyFacts
  <2>2. Sum(Body(p))[1] = 256
    BY <2>1, SumIs
  <2>3. IsSum(Sum(Body(p)))
    BY <2>2 DEF IsSum
  <2> QED BY <1>2, <1>5, <2>3, Zenon
<1>6. i \in 1 .. 3 \/ i \in 4 .. Len(p) + 3 \/ i = Len(p) + 4
  BY <1>1
<1> QED BY <1>3, <1>4, <1>5, <1>6

LEMMA SentFacts ==
    /\ \A c \in Commands : Pack(Payload[c]) \in Seq(Sent) /\ Pack(Reply[c]) \in Seq(Answered)
    /\ \A n \in Noise : AsBytes(n) \in Seq(Noisy)
    /\ Sent \subseteq Token /\ Answered \subseteq Token /\ Noisy \subseteq Bytes
    /\ \A t \in Answered \cup Noisy :
          IsSum(t) => \E c \in Commands : t = Sum(Body(Reply[c]))
<1>1. ASSUME NEW c \in Commands
      PROVE  /\ Payload[c] \in Texts /\ Reply[c] \in Texts
             /\ Pack(Payload[c]) \in Seq(Token) /\ Pack(Reply[c]) \in Seq(Token)
             /\ DOMAIN Pack(Payload[c]) = 1 .. Len(Pack(Payload[c]))
             /\ DOMAIN Pack(Reply[c]) = 1 .. Len(Pack(Reply[c]))
             /\ Len(Pack(Reply[c])) = Len(Reply[c]) + 4
  <2>1. Payload[c] \in Texts /\ Reply[c] \in Texts
    BY Alphabet
  <2>2. /\ Pack(Payload[c]) \in Seq(Token) /\ Pack(Reply[c]) \in Seq(Token)
        /\ Len(Pack(Reply[c])) = Len(Reply[c]) + 4
    BY <2>1, PackFacts
  <2> QED BY <2>1, <2>2, LenProperties
<1>2. ASSUME NEW c \in Commands
      PROVE  Pack(Payload[c]) \in Seq(Sent) /\ Pack(Reply[c]) \in Seq(Answered)
  <2>1. ASSUME NEW i \in 1 .. Len(Pack(Payload[c])) PROVE Pack(Payload[c])[i] \in Sent
    <3>1. i \in DOMAIN Pack(Payload[c])
      BY <1>1
    <3> QED BY <3>1 DEF Sent
  <2>2. ASSUME NEW i \in 1 .. Len(Pack(Reply[c])) PROVE Pack(Reply[c])[i] \in Answered
    <3>1. i \in DOMAIN Pack(Reply[c])
      BY <1>1
    <3> QED BY <3>1 DEF Answered
  <2> QED BY <1>1, <2>1, <2>2, AllIn
<1>3. ASSUME NEW n \in Noise PROVE AsBytes(n) \in Seq(Noisy)
  <2>1. n \in Seq(0 .. 255)
    BY Alphabet
  <2>2. DOMAIN n = 1 .. Len(n)
    BY <2>1, LenProperties
  <2>3. AsBytes(n) \in Seq(Token) /\ Len(AsBytes(n)) = Len(n)
    BY <2>1, AsBytesFacts
  <2>4. ASSUME NEW i \in 1 .. Len(AsBytes(n)) PROVE AsBytes(n)[i] \in Noisy
    <3>1. i \in DOMAIN n
      BY <2>2, <2>3
    <3> QED BY <3>1 DEF Noisy
  <2> QED BY <2>3, <2>4, AllIn
<1>4. ASSUME NEW t \in Sent PROVE t \in Token
  <2>1. PICK c \in Commands : \E i \in DOMAIN Pack(Payload[c]) : t = Pack(Payload[c])[i]
    BY DEF Sent
  <2>2. PICK i \in DOMAIN Pack(Payload[c]) : t = Pack(Payload[c])[i]
    BY <2>1
  <2> QED BY <1>1, <2>2, ElementOfSeq
<1>5. ASSUME NEW t \in Answered
      PROVE  t \in Token /\ (IsSum(t) => \E c \in Commands : t = Sum(Body(Reply[c])))
  <2>1. PICK c \in Commands : \E i \in DOMAIN Pack(Reply[c]) : t = Pack(Reply[c])[i]
    BY DEF Answered
  <2>2. PICK i \in DOMAIN Pack(Reply[c]) : t = Pack(Reply[c])[i]
    BY <2>1
  <2>3. t \in Token
    BY <1>1, <2>2, ElementOfSeq
  <2>4. i \in 1 .. Len(Reply[c]) + 4
    BY <1>1
  <2>5. IsSum(t) => t = Sum(Body(Reply[c]))
    BY <1>1, <2>2, <2>4, PackSum
  <2> QED BY <2>3, <2>5
<1>6. ASSUME NEW t \in Noisy PROVE t \in Bytes /\ ~IsSum(t)
  <2>1. PICK n \in Noise : \E i \in DOMAIN n : t = AsBytes(n)[i]
    BY DEF Noisy
  <2>2. n \in Seq(0 .. 255)
    BY Alphabet
  <2>3. PICK i \in DOMAIN n : t = AsBytes(n)[i]
    BY <2>1
  <2>4. i \in 1 .. Len(n)
    BY <2>2, LenProperties
  <2>5. t = <<n[i]>> /\ n[i] \in 0 .. 255
    BY <2>2, <2>3, <2>4, AsBytesFacts
  <2>6. <<n[i]>> \in Bytes /\ ~IsSum(<<n[i]>>)
    BY <2>5, ByteFacts
  <2> QED BY <2>5, <2>6
<1> QED BY <1>2, <1>3, <1>4, <1>5, <1>6

ToDevice == Sent \cup Noisy
ToHost == Answered \cup Noisy
Stream == hbuf \o down

(* A flush that has not ended may drop one frame more; a program that is    *)
(* not running has read nothing.                                            *)
TypeInv ==
    /\ TypeOK
    /\ proc = "opening" => flushed < MaxFlush
    /\ proc = "down" => hbuf = <<>>

LEMMA Alphabets ==
    /\ ToDevice \subseteq Token /\ ToHost \subseteq Token
    /\ \A c \in Commands : Pack(Payload[c]) \in Seq(ToDevice) /\ Pack(Reply[c]) \in Seq(ToHost)
    /\ \A n \in Noise : AsBytes(n) \in Seq(ToDevice) /\ AsBytes(n) \in Seq(ToHost)
<1>1. ToDevice \subseteq Token /\ ToHost \subseteq Token
  BY SentFacts DEF ToDevice, ToHost, Token
<1>2. /\ Seq(Sent) \subseteq Seq(ToDevice) /\ Seq(Noisy) \subseteq Seq(ToDevice)
      /\ Seq(Answered) \subseteq Seq(ToHost) /\ Seq(Noisy) \subseteq Seq(ToHost)
  BY SeqIn DEF ToDevice, ToHost
<1> QED BY <1>1, <1>2, SentFacts

LEMMA Buffers ==
    ASSUME TypeInv
    PROVE  /\ up \in Seq(ToDevice) /\ down \in Seq(ToHost) /\ hbuf \in Seq(ToHost)
           /\ up \in Seq(Token) /\ down \in Seq(Token) /\ hbuf \in Seq(Token)
           /\ Stream \in Seq(Token)
<1>1. up \in Seq(ToDevice) /\ down \in Seq(ToHost) /\ hbuf \in Seq(ToHost)
  BY DEF TypeInv, TypeOK, ToDevice, ToHost
<1>2. up \in Seq(Token) /\ down \in Seq(Token) /\ hbuf \in Seq(Token)
  BY <1>1, Alphabets, SeqIn
<1>3. Stream \in Seq(Token)
  BY <1>2, JoinFacts DEF Stream
<1> QED BY <1>1, <1>2, <1>3

LEMMA ConcatIn ==
    ASSUME NEW S, NEW s \in Seq(S), NEW q \in Seq(S)
    PROVE  s \o q \in Seq(S)
BY ConcatProperties

(* Where the device goes on reading.                                        *)
LEMMA HuntPlace ==
    ASSUME NEW s \in Seq(Token)
    PROVE  \E k \in 1 .. Len(s) + 1 : Hunted(s) = From(s, k)
<1>1. Len(s) \in Nat
  BY LenProperties
<1>2. CASE Magics(s) # {}
  <2>1. Magics(s) \in SUBSET Nat
    BY MagicFacts
  <2>2. Min(Magics(s)) \in Magics(s)
    BY <1>2, <2>1, LeastOf
  <2>3. Min(Magics(s)) \in 1 .. Len(s) + 1
    BY <2>2, MagicFacts
  <2> QED BY <1>2, <2>3 DEF Hunted
<1>3. CASE Magics(s) = {} /\ s # <<>> /\ s[Len(s)] = A5
  <2> DEFINE k == Len(s)
             b == From(s, k)
  <2>1. Hunted(s) = <<A5>>
    BY <1>3 DEF Hunted
  <2>2. k \in 1 .. Len(s) + 1 /\ Len(s) - k + 1 = 1 /\ k + 1 - 1 = k
    BY <1>1, <1>3, EmptySeq
  <2> HIDE DEF k
  <2>3. b \in Seq(Token) /\ Len(b) = 1 /\ b[1] = s[k]
    <3>1. /\ b \in Seq(Token) /\ Len(b) = Len(s) - k + 1
          /\ \A i \in 1 .. Len(s) - k + 1 : b[i] = s[k + i - 1]
      BY <2>2, FromFacts
    <3> HIDE DEF b
    <3>2. 1 \in 1 .. Len(s) - k + 1
      BY <2>2
    <3>3. b[1] = s[k + 1 - 1]
      BY <3>1, <3>2
    <3> QED BY <2>2, <3>1, <3>3
  <2>4. b[1] = A5
    BY <1>3, <2>3 DEF k
  <2> HIDE DEF b
  <2> DEFINE a == <<A5>>
  <2>5. a \in Seq(Token) /\ Len(a) = 1 /\ a[1] = A5
    BY MarkFacts
  <2> HIDE DEF a
  <2>6. b = a
    BY <2>3, <2>4, <2>5, SeqEqual
  <2> QED BY <2>1, <2>2, <2>6 DEF b, a
<1>4. CASE Magics(s) = {} /\ ~(s # <<>> /\ s[Len(s)] = A5)
  <2>1. Hunted(s) = <<>>
    BY <1>4 DEF Hunted
  <2> DEFINE k == Len(s) + 1
             b == From(s, k)
  <2>2. k \in 1 .. Len(s) + 1 /\ Len(s) - k + 1 = 0
    BY <1>1
  <2> HIDE DEF k
  <2>3. b \in Seq(Token) /\ Len(b) = 0
    BY <2>2, FromFacts
  <2>4. b = <<>>
    BY <2>3, EmptySeq
  <2> QED BY <2>1, <2>2, <2>4
<1> QED BY <1>2, <1>3, <1>4

LEMMA WindowAtFirst ==
    ASSUME NEW s \in Seq(Token), HasHeader(s)
    PROVE  1 \in Magics(s)
<1>1. Len(s) \in Nat
  BY LenProperties
<1> QED BY <1>1 DEF HasHeader, Magics

(* The frame at the front.                                                  *)
LEMMA FrontFacts ==
    ASSUME NEW s \in Seq(Token), HasHeader(s)
    PROVE  /\ 1 \in Magics(s) /\ From(s, 1) = s /\ 4 \in 1 .. Len(s) + 1
           /\ Length(s) = Value(s[3]) /\ Length(s) \in Nat /\ SumPlace(s, 1) = Length(s) + 4
           /\ Whole(s) <=> SumPlace(s, 1) <= Len(s)
           /\ Whole(s) =>
                 /\ Intact(s) <=> 1 \in Replies(s)
                 /\ Content(s) = Text(s, 1)
                 /\ Length(s) + 5 \in 1 .. Len(s) + 1
                 /\ AfterFrame(s) = From(s, Length(s) + 5)
<1>1. 1 \in Magics(s) /\ From(s, 1) = s
  BY WindowAtFirst, FromFirst
<1>2. Len(s) \in Nat /\ 1 + 2 <= Len(s) /\ Len(s) >= 3
  <2>1. Len(s) \in Nat
    BY LenProperties
  <2> QED BY <2>1 DEF HasHeader
<1>3. Value(s[1 + 2]) \in Nat /\ SumPlace(s, 1) \in Nat
  BY <1>1, <1>2, MagicFacts
<1>4. Length(s) = Value(s[3]) /\ Length(s) \in Nat /\ SumPlace(s, 1) = Length(s) + 4
  BY <1>3 DEF Length, SumPlace
<1>5. /\ Whole(From(s, 1)) <=> 1 + 2 <= Len(s) /\ SumPlace(s, 1) <= Len(s)
      /\ Whole(From(s, 1)) =>
            /\ Intact(From(s, 1)) <=> 1 \in Replies(s)
            /\ Content(From(s, 1)) = Text(s, 1)
            /\ SumPlace(s, 1) + 1 \in 1 .. Len(s) + 1
            /\ AfterFrame(From(s, 1)) = From(s, SumPlace(s, 1) + 1)
  BY <1>1, WindowFacts
<1>6. 4 \in 1 .. Len(s) + 1
  BY <1>2
<1>7. SumPlace(s, 1) + 1 = Length(s) + 5
  BY <1>4
<1>8. Whole(s) <=> SumPlace(s, 1) <= Len(s)
  BY <1>1, <1>2, <1>5
<1>9. Whole(s) =>
         /\ Intact(s) <=> 1 \in Replies(s)
         /\ Content(s) = Text(s, 1)
         /\ Length(s) + 5 \in 1 .. Len(s) + 1
         /\ AfterFrame(s) = From(s, Length(s) + 5)
  BY <1>1, <1>5, <1>7
<1> QED BY <1>1, <1>4, <1>6, <1>8, <1>9

(* What a frame that fits carries is one of the replies.                    *)
LEMMA Answers ==
    ASSUME NEW s \in Seq(ToHost), NEW i \in Replies(s)
    PROVE  \E c \in Commands : Text(s, i) = AsBytes(Reply[c])
<1>1. s \in Seq(Token)
  BY Alphabets, SeqIn
<1>2. /\ i \in Magics(s) /\ i + 2 <= Len(s) /\ SumPlace(s, i) <= Len(s)
  BY DEF Replies
<1>3. SumPlace(s, i) \in 1 .. Len(s)
  <2>1. SumPlace(s, i) \in Nat /\ i + 3 <= SumPlace(s, i) /\ i \in Nat /\ Len(s) \in Nat
    BY <1>1, <1>2, MagicFacts
  <2> QED BY <1>2, <2>1
<1>4. s[SumPlace(s, i)] \in Answered \cup Noisy
  BY <1>3, ElementOfSeq DEF ToHost
<1>5. IsSum(s[SumPlace(s, i)])
  BY <1>1, SumToken
<1>6. PICK c \in Commands : s[SumPlace(s, i)] = Sum(Body(Reply[c]))
  BY <1>4, <1>5, SentFacts
<1>7. Reply[c] \in Texts
  BY Alphabet
<1> QED BY <1>1, <1>6, <1>7, TextIs

LEMMA SeqDomain == ASSUME NEW S, NEW s \in Seq(S) PROVE DOMAIN s = 1 .. Len(s) /\ Len(s) \in Nat
BY LenProperties

LEMMA TypeStep == ASSUME TypeInv, [Next]_vars PROVE TypeInv'
<1> USE DEF hostVars, history, vars
<1>1. /\ up \in Seq(ToDevice) /\ down \in Seq(ToHost) /\ hbuf \in Seq(ToHost)
      /\ up \in Seq(Token) /\ down \in Seq(Token) /\ hbuf \in Seq(Token)
  BY Buffers
<1>2. /\ dev \in Commands \cup {None}
      /\ proc \in {"down", "opening", "idle", "waiting"}
      /\ flushed \in 0 .. MaxFlush /\ asked \in Commands \cup {None}
      /\ got \in {None} \cup {AsBytes(Reply[c]) : c \in Commands}
      /\ carried \in Commands \cup {None} /\ faulted \in BOOLEAN /\ lost \in 0 .. 2
      /\ faults \in 0 .. MaxFaults
      /\ proc = "opening" => flushed < MaxFlush
      /\ proc = "down" => hbuf = <<>>
  BY DEF TypeInv, TypeOK
<1>3. MaxFlush \in Nat \ {0} /\ MaxFaults \in Nat
  BY FramingAssumption DEF FramingAssumption
<1>4. <<>> \in Seq(ToDevice) /\ <<>> \in Seq(ToHost)
  BY EmptySeq
<1> DEFINE Lines == up' \in Seq(ToDevice) /\ down' \in Seq(ToHost) /\ hbuf' \in Seq(ToHost)
           Rest == /\ dev' \in Commands \cup {None}
                   /\ proc' \in {"down", "opening", "idle", "waiting"}
                   /\ flushed' \in 0 .. MaxFlush /\ asked' \in Commands \cup {None}
                   /\ got' \in {None} \cup {AsBytes(Reply[c]) : c \in Commands}
                   /\ carried' \in Commands \cup {None} /\ faulted' \in BOOLEAN /\ lost' \in 0 .. 2
                   /\ faults' \in 0 .. MaxFaults
                   /\ proc' = "opening" => flushed' < MaxFlush
                   /\ proc' = "down" => hbuf' = <<>>
<1>5. SUFFICES Lines /\ Rest
  <2>1. TypeOK' <=> (TypeOK)'
    OBVIOUS
  <2> QED BY DEF TypeInv, TypeOK, ToDevice, ToHost
<1>6. CASE UNCHANGED vars
  BY <1>1, <1>2, <1>6
<1>7. CASE Hunt
  <2>1. PICK k \in 1 .. Len(up) + 1 : Hunted(up) = From(up, k)
    BY <1>1, HuntPlace
  <2>2. up' \in Seq(ToDevice)
    BY <1>1, <1>7, <2>1, FromIn DEF Hunt
  <2> QED BY <1>1, <1>2, <1>7, <2>2 DEF Hunt
<1>8. CASE Oversize
  <2>1. HasHeader(up) /\ up' = From(up, 4)
    BY <1>8 DEF Oversize
  <2>2. 4 \in 1 .. Len(up) + 1
    BY <1>1, <2>1, FrontFacts
  <2>3. up' \in Seq(ToDevice)
    BY <1>1, <2>1, <2>2, FromIn
  <2> QED BY <1>1, <1>2, <1>8, <2>3 DEF Oversize
<1>9. ASSUME Whole(up), up' = AfterFrame(up) PROVE up' \in Seq(ToDevice)
  <2>1. HasHeader(up)
    BY <1>9 DEF Whole
  <2>2. Length(up) + 5 \in 1 .. Len(up) + 1 /\ AfterFrame(up) = From(up, Length(up) + 5)
    BY <1>1, <1>9, <2>1, FrontFacts
  <2> QED BY <1>1, <1>9, <2>2, FromIn
<1>10. CASE Mismatch
  <2>1. up' \in Seq(ToDevice)
    BY <1>9, <1>10 DEF Mismatch
  <2> QED BY <1>1, <1>2, <1>10, <2>1 DEF Mismatch
<1>11. ASSUME NEW c \in Commands, Deliver(c) PROVE Lines /\ Rest
  <2>1. up' \in Seq(ToDevice)
    BY <1>9, <1>11 DEF Deliver
  <2> QED BY <1>1, <1>2, <1>11, <2>1 DEF Deliver
<1>12. CASE Respond
  <2>1. dev \in Commands /\ down' = down \o Pack(Reply[dev])
    BY <1>2, <1>12 DEF Respond
  <2>2. down' \in Seq(ToHost)
    BY <1>1, <2>1, Alphabets, ConcatIn
  <2> QED BY <1>1, <1>2, <1>12, <2>2 DEF Respond
<1>13. ASSUME NEW noise \in Noise, Open(noise) PROVE Lines /\ Rest
  <2>1. up' = up \o AsBytes(noise) /\ AsBytes(noise) \in Seq(ToDevice)
    BY <1>13, Alphabets DEF Open
  <2>2. up' \in Seq(ToDevice)
    BY <1>1, <2>1, ConcatIn
  <2>3. 0 \in 0 .. MaxFlush /\ 0 < MaxFlush
    BY <1>3
  <2>4. Lines
    BY <1>1, <1>4, <1>13, <2>2 DEF Open
  <2> QED BY <1>2, <1>13, <2>3, <2>4 DEF Open
<1>14. Searched(hbuf) \in Seq(ToHost)
  BY <1>1, SearchFacts, FromIn
<1>15. ASSUME NEW n \in 1 .. Len(down), Read(n) PROVE Lines /\ Rest
  <2>1. hbuf' = Searched(hbuf) \o SubSeq(down, 1, n) /\ down' = From(down, n + 1)
    BY <1>15 DEF Read
  <2>2. 1 \in Nat /\ n \in Nat /\ n <= Len(down) /\ n + 1 \in 1 .. Len(down) + 1
    BY <1>1, SeqDomain
  <2>3. SubSeq(down, 1, n) \in Seq(ToHost)
    BY <1>1, <2>2, PartIn
  <2>4. hbuf' \in Seq(ToHost)
    BY <1>14, <2>1, <2>3, ConcatIn
  <2>5. down' \in Seq(ToHost)
    BY <1>1, <2>1, <2>2, FromIn
  <2> QED BY <1>1, <1>2, <1>15, <2>4, <2>5 DEF Read
<1>16. ASSUME FrameReady(hbuf)
       PROVE  /\ AfterFrame(Searched(hbuf)) \in Seq(ToHost)
              /\ Content(Searched(hbuf)) \in {AsBytes(Reply[c]) : c \in Commands}
  <2>1. /\ SearchAt(hbuf) \in Replies(hbuf)
        /\ Content(Searched(hbuf)) = Text(hbuf, SearchAt(hbuf))
        /\ SumPlace(hbuf, SearchAt(hbuf)) + 1 \in 1 .. Len(hbuf) + 1
        /\ AfterFrame(Searched(hbuf)) = From(hbuf, SumPlace(hbuf, SearchAt(hbuf)) + 1)
    BY <1>1, <1>16, SearchFacts
  <2>2. AfterFrame(Searched(hbuf)) \in Seq(ToHost)
    BY <1>1, <2>1, FromIn
  <2>3. \E c \in Commands : Content(Searched(hbuf)) = AsBytes(Reply[c])
    BY <1>1, <2>1, Answers
  <2> QED BY <2>2, <2>3
<1>17. CASE Flush
  <2>1. hbuf' \in Seq(ToHost)
    BY <1>16, <1>17 DEF Flush
  <2>2. flushed + 1 \in 0 .. MaxFlush /\ (flushed + 1 # MaxFlush => flushed + 1 < MaxFlush)
    BY <1>2, <1>3, <1>17 DEF Flush
  <2>3. /\ flushed' \in 0 .. MaxFlush /\ asked' \in Commands \cup {None}
        /\ proc' \in {"opening", "idle"} /\ (proc' = "opening" => flushed' < MaxFlush)
    BY <1>2, <1>17, <2>2 DEF Flush
  <2>4. Lines
    BY <1>1, <1>17, <2>1 DEF Flush
  <2> QED BY <1>2, <1>17, <2>3, <2>4 DEF Flush
<1>18. CASE FlushEnds
  BY <1>1, <1>2, <1>14, <1>18 DEF FlushEnds
<1>19. ASSUME NEW c \in Commands, Send(c) PROVE Lines /\ Rest
  <2>1. up' = up \o Pack(Payload[c]) /\ Pack(Payload[c]) \in Seq(ToDevice)
    BY <1>19, Alphabets DEF Send
  <2>2. up' \in Seq(ToDevice)
    BY <1>1, <2>1, ConcatIn
  <2> QED BY <1>1, <1>2, <1>19, <2>2 DEF Send
<1>20. CASE Take
  <2>1. /\ hbuf' \in Seq(ToHost)
        /\ got' \in {None} \cup {AsBytes(Reply[c]) : c \in Commands}
    BY <1>16, <1>20 DEF Take
  <2>2. 0 \in 0 .. 2
    OBVIOUS
  <2>3. Lines
    BY <1>1, <1>20, <2>1 DEF Take
  <2> QED BY <1>2, <1>20, <2>1, <2>2, <2>3 DEF Take
<1>21. CASE TimeOut
  <2>1. {lost + 1, 2} \in SUBSET Nat /\ {lost + 1, 2} # {}
    BY <1>2
  <2>2. Min({lost + 1, 2}) \in {lost + 1, 2} /\ Min({lost + 1, 2}) <= 2
    BY <2>1, LeastOf
  <2>3. lost' \in 0 .. 2
    BY <1>2, <1>21, <2>2 DEF TimeOut
  <2>4. Lines
    BY <1>1, <1>14, <1>21 DEF TimeOut
  <2> QED BY <1>2, <1>21, <2>3, <2>4 DEF TimeOut
<1>22. ASSUME Fault PROVE faults' \in 0 .. MaxFaults /\ faulted' \in BOOLEAN /\ lost' \in 0 .. 2
  BY <1>2, <1>3, <1>22 DEF Fault
<1>23. CASE Die
  <2>1. Lines
    BY <1>1, <1>4, <1>23 DEF Die
  <2> QED BY <1>2, <1>22, <1>23, <2>1 DEF Die
<1>24. CASE Unplug
  <2>1. Lines
    BY <1>1, <1>4, <1>24 DEF Unplug
  <2> QED BY <1>2, <1>22, <1>24, <2>1 DEF Unplug
<1>25. ASSUME RespondShort PROVE Lines /\ Rest
  <2>1. dev \in Commands
    BY <1>2, <1>25 DEF RespondShort
  <2> DEFINE q == Pack(Reply[dev])
  <2>2. q \in Seq(ToHost) /\ DOMAIN q = 1 .. Len(q)
    BY <2>1, Alphabets, SeqDomain
  <2>3. PICK i \in DOMAIN q : down' = down \o Without(q, i)
    BY <1>25 DEF RespondShort
  <2>4. Without(q, i) \in Seq(ToHost)
    BY <2>2, WithoutFacts
  <2>5. down' \in Seq(ToHost)
    BY <1>1, <2>3, <2>4, ConcatIn
  <2>6. Lines
    BY <1>1, <1>25, <2>5 DEF RespondShort
  <2> QED BY <1>2, <1>22, <1>25, <2>6 DEF RespondShort
<1>26. CASE Unencodable
  <2>1. Lines
    BY <1>1, <1>26 DEF Unencodable
  <2> QED BY <1>2, <1>22, <1>26, <2>1 DEF Unencodable
<1>27. ASSUME NEW c \in Commands, DieSending(c) PROVE Lines /\ Rest
  <2> DEFINE q == Pack(Payload[c])
  <2>1. q \in Seq(ToDevice) /\ Len(q) \in Nat
    BY Alphabets, SeqDomain
  <2>2. PICK n \in 1 .. Len(q) - 1 : up' = up \o SubSeq(q, 1, n)
    BY <1>27 DEF DieSending
  <2> HIDE DEF q
  <2>3. 1 \in Nat /\ n \in Nat /\ n <= Len(q)
    BY <2>1
  <2>4. SubSeq(q, 1, n) \in Seq(ToDevice)
    BY <2>1, <2>3, PartIn
  <2>5. up' \in Seq(ToDevice)
    BY <1>1, <2>2, <2>4, ConcatIn
  <2>6. Lines
    BY <1>1, <1>4, <1>27, <2>5 DEF DieSending
  <2> QED BY <1>2, <1>22, <1>27, <2>6 DEF DieSending
<1>28. ASSUME NEW c \in Commands, SendShort(c) PROVE Lines /\ Rest
  <2> DEFINE q == Pack(Payload[c])
  <2>1. q \in Seq(ToDevice) /\ DOMAIN q = 1 .. Len(q)
    BY Alphabets, SeqDomain
  <2>2. PICK i \in DOMAIN q : up' = up \o Without(q, i)
    BY <1>28 DEF SendShort
  <2>3. Without(q, i) \in Seq(ToDevice)
    BY <2>1, WithoutFacts
  <2>4. up' \in Seq(ToDevice)
    BY <1>1, <2>2, <2>3, ConcatIn
  <2>5. Lines
    BY <1>1, <1>28, <2>4 DEF SendShort
  <2> QED BY <1>2, <1>22, <1>28, <2>5 DEF SendShort
<1>29. ASSUME NEW noise \in Noise, Reset(noise) PROVE Lines /\ Rest
  <2>1. down' = down \o AsBytes(noise) /\ AsBytes(noise) \in Seq(ToHost)
    BY <1>29, Alphabets DEF Reset
  <2>2. down' \in Seq(ToHost)
    BY <1>1, <2>1, ConcatIn
  <2>3. Lines
    BY <1>1, <1>4, <1>29, <2>2 DEF Reset
  <2> QED BY <1>2, <1>22, <1>29, <2>3 DEF Reset
<1>30. CASE Device
  BY <1>7, <1>8, <1>10, <1>11, <1>12, <1>30 DEF Device
<1>31. CASE Client
  BY <1>13, <1>15, <1>17, <1>18, <1>19, <1>20, <1>21, <1>31 DEF Client
<1>32. CASE Faults
  BY <1>23, <1>24, <1>25, <1>26, <1>27, <1>28, <1>29, <1>32 DEF Faults
<1> QED BY <1>6, <1>30, <1>31, <1>32 DEF Next

LEMMA TypeInit == ASSUME Init PROVE TypeInv
<1>1. MaxFlush \in Nat \ {0} /\ MaxFaults \in Nat
  BY FramingAssumption DEF FramingAssumption
<1>2. <<>> \in Seq(Sent \cup Noisy) /\ <<>> \in Seq(Answered \cup Noisy)
  BY EmptySeq
<1>3. 0 \in 0 .. MaxFlush /\ 0 \in 0 .. MaxFaults /\ 0 \in 0 .. 2
  BY <1>1
<1> QED BY <1>2, <1>3 DEF Init, TypeInv, TypeOK

LEMMA Typed == Spec => []TypeInv
BY TypeInit, TypeStep, PTL DEF Spec

(* What is on the line came from one end of it; a call returns what the     *)
(* device says to some command.  For any commands, noise and number of      *)
(* faults, whatever the bytes of payloads and replies are.                  *)
THEOREM TypeCorrect == Spec => []TypeOK
<1>1. TypeInv => TypeOK
  BY DEF TypeInv
<1> QED BY <1>1, Typed, PTL

-----------------------------------------------------------------------------
(* The checksums that may still make the device carry a command out: those  *)
(* that the frame it waits for does not cover.                              *)

Windowed(s) == HasHeader(s) /\ Length(s) <= RxMax
Ends(s) == IF Windowed(s) THEN Length(s) + 4 ELSE 1
Live(s) == {i \in 1 .. Len(s) : i >= Ends(s) /\ IsSum(s[i])}

LEMMA EndsFacts ==
    ASSUME NEW s \in Seq(Token)
    PROVE  Ends(s) \in Nat /\ 1 <= Ends(s)
<1>1. CASE Windowed(s)
  <2>1. Length(s) \in Nat
    BY <1>1, FrontFacts DEF Windowed
  <2> QED BY <1>1, <2>1 DEF Ends
<1>2. CASE ~Windowed(s)
  BY <1>2 DEF Ends
<1> QED BY <1>1, <1>2

LEMMA LiveRest ==
    ASSUME NEW s \in Seq(Token), NEW k \in 1 .. Len(s) + 1, Ends(s) <= k,
           NEW j \in Live(From(s, k))
    PROVE  k + j - 1 \in Live(s) /\ k + j - 1 >= k /\ From(s, k)[j] = s[k + j - 1]
<1> DEFINE b == From(s, k)
<1>1. /\ b \in Seq(Token) /\ Len(b) = Len(s) - k + 1 /\ Len(b) \in Nat
      /\ \A i \in 1 .. Len(s) - k + 1 : b[i] = s[k + i - 1]
  BY FromFacts
<1>2. Len(s) \in Nat /\ k \in Nat /\ 1 <= k /\ k <= Len(s) + 1
  <2>1. Len(s) \in Nat
    BY LenProperties
  <2> QED BY <2>1
<1>3. j \in 1 .. Len(b) /\ IsSum(b[j])
  BY DEF Live
<1> HIDE DEF b
<1>4. Ends(s) \in Nat
  BY EndsFacts
<1>5. /\ j \in 1 .. Len(s) - k + 1 /\ k + j - 1 \in 1 .. Len(s) /\ k + j - 1 >= Ends(s)
      /\ k + j - 1 >= k
  BY <1>1, <1>2, <1>3, <1>4
<1>6. b[j] = s[k + j - 1]
  BY <1>1, <1>5
<1> QED BY <1>3, <1>5, <1>6 DEF Live, b

LEMMA LiveJoin ==
    ASSUME NEW s \in Seq(Token), NEW q \in Seq(Token), NEW i \in Live(s \o q)
    PROVE  \/ i \in Live(s) /\ (s \o q)[i] = s[i]
           \/ \E j \in 1 .. Len(q) : i = Len(s) + j /\ (s \o q)[i] = q[j] /\ IsSum(q[j])
<1> DEFINE t == s \o q
           n == Len(s)
<1>1. /\ t \in Seq(Token) /\ Len(t) = n + Len(q) /\ n \in Nat /\ Len(q) \in Nat
      /\ \A m \in 1 .. n : t[m] = s[m]
      /\ \A m \in 1 .. Len(q) : t[n + m] = q[m]
  BY JoinFacts
<1>2. i \in 1 .. Len(t) /\ i >= Ends(t) /\ IsSum(t[i])
  BY DEF Live
<1> HIDE DEF t
<1>3. CASE i <= n
  <2>1. i \in 1 .. n
    BY <1>1, <1>2, <1>3
  <2>2. t[i] = s[i]
    BY <1>1, <2>1
  <2>3. i >= Ends(s)
    <3>1. CASE Windowed(s)
      <4>1. HasHeader(s) /\ Length(s) <= RxMax
        BY <3>1 DEF Windowed
      <4>2. Len(s) >= 3 /\ s[1] = A5 /\ s[2] = x5A
        BY <4>1 DEF HasHeader
      <4>3. 1 \in 1 .. n /\ 2 \in 1 .. n /\ 3 \in 1 .. n /\ Len(t) >= 3
        BY <1>1, <4>2
      <4>4. t[1] = A5 /\ t[2] = x5A /\ t[3] = s[3]
        BY <1>1, <4>2, <4>3
      <4>5. HasHeader(t) /\ Length(t) = Length(s)
        BY <4>3, <4>4 DEF HasHeader, Length
      <4>6. Ends(t) = Ends(s)
        BY <3>1, <4>1, <4>5 DEF Ends, Windowed
      <4> QED BY <1>2, <4>6
    <3>2. CASE ~Windowed(s)
      BY <2>1, <3>2 DEF Ends
    <3> QED BY <3>1, <3>2
  <2> QED BY <1>2, <2>1, <2>2, <2>3 DEF Live, t
<1>4. CASE ~(i <= n)
  <2> DEFINE j == i - n
  <2>1. j \in 1 .. Len(q) /\ i = n + j
    BY <1>1, <1>2, <1>4
  <2> HIDE DEF j
  <2>2. t[i] = q[j]
    BY <1>1, <2>1
  <2> QED BY <1>2, <2>1, <2>2 DEF t
<1> QED BY <1>3, <1>4

(* The device skips bytes only when it has no frame to wait for.            *)
LEMMA HuntEnds ==
    ASSUME NEW s \in Seq(Token), Hunted(s) # s
    PROVE  Ends(s) = 1
<1>1. ASSUME HasHeader(s) PROVE FALSE
  <2>1. 1 \in Magics(s) /\ From(s, 1) = s
    BY <1>1, FrontFacts
  <2>2. Magics(s) \in SUBSET Nat
    BY MagicFacts
  <2>3. Min(Magics(s)) \in Magics(s) /\ Min(Magics(s)) <= 1
    BY <2>1, <2>2, LeastOf
  <2>4. Min(Magics(s)) = 1
    <3>1. Min(Magics(s)) \in Nat /\ 1 <= Min(Magics(s))
      BY <2>3, MagicFacts
    <3> QED BY <2>3, <3>1
  <2>5. Hunted(s) = s
    BY <2>1, <2>4 DEF Hunted
  <2> QED BY <2>5
<1> QED BY <1>1 DEF Ends, Windowed

LEMMA FewBytes ==
    ASSUME NEW s \in Seq(Token), NEW i \in Live(s),
           \A k \in 1 .. Len(s) : s[k] \in {A5, x5A}
    PROVE  FALSE
<1>1. i \in 1 .. Len(s) /\ IsSum(s[i])
  BY DEF Live
<1> QED BY <1>1, MarkFacts

(* A device that waits has nothing left that it could carry out.            *)
LEMMA WaitsFor ==
    ASSUME NEW s \in Seq(Token), Hunted(s) = s,
           HasHeader(s) => Length(s) <= RxMax /\ ~Whole(s)
    PROVE  /\ Live(s) = {}
           /\ Magics(s) = {} => s \in {<<>>, <<A5>>}
<1>1. Len(s) \in Nat
  BY LenProperties
<1>2. CASE Magics(s) = {}
  <2>1. s \in {<<>>, <<A5>>}
    BY <1>2 DEF Hunted
  <2>2. CASE s = <<>>
    BY <2>1, <2>2 DEF Live
  <2>3. CASE s = <<A5>>
    <3>1. \A k \in 1 .. Len(s) : s[k] = A5
      BY <2>3
    <3>2. \A k \in 1 .. Len(s) : s[k] \in {A5, x5A}
      BY <3>1
    <3> QED BY <2>1, <3>2, FewBytes
  <2> QED BY <2>1, <2>2, <2>3
<1>3. CASE Magics(s) # {}
  <2> DEFINE m == Min(Magics(s))
  <2>1. Magics(s) \in SUBSET Nat
    BY MagicFacts
  <2>2. m \in Magics(s)
    BY <1>3, <2>1, LeastOf
  <2>3. Hunted(s) = From(s, m)
    BY <1>3 DEF Hunted
  <2> HIDE DEF m
  <2>4. /\ m \in Nat /\ 1 <= m /\ m + 1 <= Len(s) /\ m \in 1 .. Len(s) + 1
        /\ s[m] = A5 /\ s[m + 1] = x5A
    BY <2>2, MagicFacts
  <2>5. Len(From(s, m)) = Len(s) - m + 1
    BY <2>4, FromFacts
  <2>6. m = 1
    <3>1. From(s, m) = s
      BY <2>3, Zenon
    <3>2. Len(s) = Len(s) - m + 1
      BY <2>5, <3>1, Zenon
    <3> QED BY <1>1, <2>4, <3>2
  <2>7. s[1] = A5 /\ s[2] = x5A /\ Len(s) >= 2
    BY <1>1, <2>4, <2>6
  <2>8. CASE HasHeader(s)
    <3>1. Length(s) \in Nat /\ Ends(s) = Length(s) + 4
      BY <2>8, FrontFacts DEF Ends, Windowed
    <3>2. ~(Len(s) >= Length(s) + 4)
      BY <2>8 DEF Whole
    <3>3. ASSUME NEW i \in Live(s) PROVE FALSE
      <4>1. i \in 1 .. Len(s) /\ i >= Ends(s)
        BY DEF Live
      <4> QED BY <1>1, <3>1, <3>2, <4>1
    <3> QED BY <1>3, <3>3
  <2>9. CASE ~HasHeader(s)
    <3>1. Len(s) = 2
      <4>1. ~(Len(s) >= 3)
        BY <2>7, <2>9, Zenon DEF HasHeader
      <4>2. Len(s) >= 2
        BY <2>7
      <4>3. \A n \in Nat : n >= 2 /\ ~(n >= 3) => n = 2
        OBVIOUS
      <4> QED BY <1>1, <4>1, <4>2, <4>3, Zenon
    <3>2. \A k \in 1 .. Len(s) : s[k] \in {A5, x5A}
      BY <2>7, <3>1
    <3> QED BY <1>3, <3>2, FewBytes
  <2> QED BY <2>8, <2>9
<1> QED BY <1>2, <1>3

(* What a frame that fits is to the device.                                 *)
LEMMA FrontLive ==
    ASSUME NEW s \in Seq(Token), Whole(s), Length(s) <= RxMax, Intact(s)
    PROVE  /\ Ends(s) \in Live(s) /\ Ends(s) = SumPlace(s, 1) /\ 1 \in Replies(s)
           /\ Content(s) = Text(s, 1)
           /\ Ends(s) + 1 \in 1 .. Len(s) + 1 /\ AfterFrame(s) = From(s, Ends(s) + 1)
<1>1. HasHeader(s)
  BY DEF Whole
<1>2. /\ Length(s) \in Nat /\ SumPlace(s, 1) = Length(s) + 4 /\ SumPlace(s, 1) <= Len(s)
      /\ 1 \in Replies(s) /\ Content(s) = Text(s, 1)
      /\ Length(s) + 5 \in 1 .. Len(s) + 1 /\ AfterFrame(s) = From(s, Length(s) + 5)
  BY <1>1, FrontFacts
<1>3. Ends(s) = Length(s) + 4
  BY <1>1 DEF Ends, Windowed
<1>4. IsSum(s[SumPlace(s, 1)])
  BY <1>2, SumToken
<1>5. Len(s) \in Nat
  BY LenProperties
<1>6. Ends(s) \in 1 .. Len(s) /\ Ends(s) >= Ends(s) /\ Ends(s) = SumPlace(s, 1)
  BY <1>2, <1>3, <1>5
<1>7. Ends(s) \in Live(s)
  BY <1>4, <1>6 DEF Live
<1>8. Ends(s) + 1 = Length(s) + 5
  BY <1>2, <1>3
<1> QED BY <1>2, <1>6, <1>7, <1>8

(* A frame, one that lost a byte, one that was cut: the checksum is last.   *)
LEMMA ShortSum ==
    ASSUME NEW p \in Texts, NEW i \in 1 .. Len(Pack(p)),
           NEW j \in 1 .. Len(Without(Pack(p), i)), IsSum(Without(Pack(p), i)[j])
    PROVE  /\ j = Len(Without(Pack(p), i))
           /\ Without(Pack(p), i)[j] = Sum(Body(p))
<1> DEFINE f == Pack(p)
           w == Without(f, i)
<1>1. f \in Seq(Token) /\ Len(f) = Len(p) + 4 /\ Len(p) \in Nat
  BY PackFacts, TextFacts
<1>2. \A k \in 1 .. Len(p) + 4 :
         /\ IsSum(f[k]) => k = Len(p) + 4
         /\ k = Len(p) + 4 => f[k] = Sum(Body(p)) /\ IsSum(f[k])
  BY PackSum
<1> HIDE DEF f
<1>3. /\ w \in Seq(Token) /\ Len(w) = Len(f) - 1
      /\ \A k \in 1 .. i - 1 : w[k] = f[k]
      /\ \A k \in i .. Len(f) - 1 : w[k] = f[k + 1]
  BY <1>1, WithoutFacts DEF f
<1>4. i \in 1 .. Len(f) /\ j \in 1 .. Len(w) /\ IsSum(w[j])
  BY DEF f
<1> HIDE DEF w
<1>5. CASE j < i
  <2>1. j \in 1 .. i - 1 /\ j \in 1 .. Len(p) + 4 /\ j # Len(p) + 4
    BY <1>1, <1>3, <1>4, <1>5
  <2> QED BY <1>2, <1>3, <1>4, <2>1
<1>6. CASE ~(j < i)
  <2> DEFINE k == j + 1
  <2>1. j \in i .. Len(f) - 1 /\ k = j + 1 /\ k \in 1 .. Len(p) + 4
    BY <1>1, <1>3, <1>4, <1>6
  <2>2. w[j] = f[k]
    BY <1>3, <2>1
  <2> HIDE DEF k
  <2>3. k = Len(p) + 4 /\ f[k] = Sum(Body(p))
    BY <1>2, <1>4, <2>1, <2>2
  <2>4. j = Len(w)
    BY <1>1, <1>3, <1>4, <2>1, <2>3
  <2> QED BY <2>2, <2>3, <2>4 DEF w, f
<1> QED BY <1>5, <1>6

LEMMA CutSum ==
    ASSUME NEW p \in Texts, NEW n \in 1 .. Len(Pack(p)) - 1,
           NEW j \in 1 .. Len(SubSeq(Pack(p), 1, n))
    PROVE  /\ SubSeq(Pack(p), 1, n) \in Seq(Token)
           /\ ~IsSum(SubSeq(Pack(p), 1, n)[j])
<1> DEFINE f == Pack(p)
           w == SubSeq(f, 1, n)
<1>1. f \in Seq(Token) /\ Len(f) = Len(p) + 4 /\ Len(p) \in Nat
  BY PackFacts, TextFacts
<1>2. \A k \in 1 .. Len(p) + 4 : IsSum(f[k]) => k = Len(p) + 4
  BY PackSum
<1> HIDE DEF f
<1>3. n \in Nat /\ n + 1 <= Len(f) /\ 1 <= n
  BY <1>1 DEF f
<1>4. /\ w \in Seq(Token) /\ Len(w) = n - 1 + 1
      /\ \A k \in 1 .. n - 1 + 1 : w[k] = f[1 + k - 1]
  <2>1. 1 \in Nat /\ n \in Nat /\ 1 <= n + 1 /\ n <= Len(f)
    BY <1>1, <1>3
  <2> QED BY <1>1, <2>1, PartFacts
<1>5. j \in 1 .. Len(w)
  BY DEF f
<1> HIDE DEF w
<1>6. j \in 1 .. n - 1 + 1 /\ 1 + j - 1 = j /\ j \in 1 .. Len(p) + 4 /\ j # Len(p) + 4
  BY <1>1, <1>3, <1>4, <1>5
<1>7. w[j] = f[j]
  BY <1>4, <1>6
<1>8. ~IsSum(w[j])
  BY <1>2, <1>6, <1>7
<1> QED BY <1>4, <1>8 DEF w, f

LEMMA NoiseFacts ==
    ASSUME NEW n \in Noise
    PROVE  /\ AsBytes(n) \in Seq(Token)
           /\ \A j \in 1 .. Len(AsBytes(n)) : ~IsSum(AsBytes(n)[j])
<1>1. n \in Seq(0 .. 255)
  BY Alphabet
<1>2. /\ AsBytes(n) \in Seq(Token) /\ Len(AsBytes(n)) = Len(n)
      /\ \A i \in 1 .. Len(n) : AsBytes(n)[i] = <<n[i]>> /\ n[i] \in 0 .. 255
  BY <1>1, AsBytesFacts
<1>3. ASSUME NEW j \in 1 .. Len(n) PROVE ~IsSum(AsBytes(n)[j])
  <2>1. ~IsSum(<<n[j]>>)
    BY <1>2, ByteFacts
  <2> QED BY <1>2, <2>1
<1> QED BY <1>2, <1>3

-----------------------------------------------------------------------------
(* What comes on the line to the host: noise, frames, frames cut short.     *)

LEMMA NoMagics ==
    ASSUME NEW q, Magics(q) = {}
    PROVE  Tidy(q) /\ Replies(q) = {}
BY DEF Tidy, Replies

LEMMA NoiseJoins ==
    ASSUME Unmistakable, NEW s \in Seq(Token), Tidy(s), NEW n \in Noise
    PROVE  /\ Tidy(s \o AsBytes(n)) /\ Magics(s \o AsBytes(n)) = Magics(s)
           /\ Replies(s \o AsBytes(n)) = Replies(s)
           /\ \A i \in Replies(s) : Text(s \o AsBytes(n), i) = Text(s, i)
<1> DEFINE q == AsBytes(n)
<1>1. n \in Seq(0 .. 255) /\ Magics(q) = {} /\ (n # <<>> => n[1] # 90)
  BY Alphabet DEF Unmistakable
<1>2. /\ q \in Seq(Token) /\ Len(q) = Len(n) /\ Len(n) \in Nat
      /\ \A i \in 1 .. Len(n) : q[i] = <<n[i]>> /\ n[i] \in 0 .. 255
  BY <1>1, AsBytesFacts, LenProperties
<1>3. \A j \in 1 .. Len(q) : ~IsSum(q[j])
  BY NoiseFacts
<1> HIDE DEF q
<1>4. Tidy(q) /\ Replies(q) = {}
  BY <1>1, NoMagics
<1>5. ASSUME q # <<>> PROVE q[1] # x5A /\ ~IsSum(q[1])
  <2>1. Len(n) # 0
    BY <1>2, <1>5, EmptySeq
  <2>2. 1 \in 1 .. Len(n) /\ 1 \in 1 .. Len(q) /\ n # <<>>
    BY <1>2, <2>1
  <2>3. q[1] = <<n[1]>> /\ n[1] # 90
    BY <1>1, <1>2, <2>2
  <2>4. <<n[1]>>[1] = n[1] /\ x5A[1] = 90
    BY DEF x5A
  <2>5. q[1] # x5A
    BY <2>3, <2>4
  <2> QED BY <1>3, <2>2, <2>5
<1>6. Apart(s, q) /\ Starts(q)
  BY <1>5 DEF Apart, Starts
<1>7. /\ Tidy(s \o q)
      /\ Magics(s \o q) = Magics(s) \cup {Len(s) + i : i \in Magics(q)}
      /\ Replies(s \o q) = Replies(s) \cup {Len(s) + i : i \in Replies(q)}
      /\ \A i \in Replies(s) : Text(s \o q, i) = Text(s, i)
  BY <1>2, <1>4, <1>6, JoinTidy
<1>8. Magics(s \o q) = Magics(s) /\ Replies(s \o q) = Replies(s)
  BY <1>1, <1>4, <1>7
<1> QED BY <1>7, <1>8 DEF q

(* A frame by itself.                                                       *)
LEMMA PackFrame ==
    ASSUME NEW p \in Texts
    PROVE  /\ Pack(p) \in Seq(Token) /\ Len(Pack(p)) = Len(p) + 4 /\ Len(p) \in Nat
           /\ 1 \in Replies(Pack(p)) /\ 1 \in Magics(Pack(p))
           /\ SumPlace(Pack(p), 1) = Len(Pack(p)) /\ Text(Pack(p), 1) = AsBytes(p)
           /\ HasHeader(Pack(p)) /\ Whole(Pack(p)) /\ Length(Pack(p)) = Len(p)
           /\ Intact(Pack(p)) /\ AfterFrame(Pack(p)) = <<>>
<1> DEFINE f == Pack(p)
           n == Len(p)
           b == SubSeq(f, 3, n + 3)
<1>1. n \in 0 .. 255 /\ n \in Nat
  BY TextFacts
<1>2. /\ f \in Seq(Token) /\ Len(f) = n + 4
      /\ f[1] = A5 /\ f[2] = x5A /\ f[3] = <<n>>
      /\ \A i \in 1 .. n : f[i + 3] = <<p[i]>>
      /\ f[n + 4] = Sum(Body(p))
  BY PackFacts
<1>3. /\ Body(p) \in Seq(Token) /\ Len(Body(p)) = n + 1 /\ Body(p)[1] = <<n>>
      /\ \A i \in 1 .. n : Body(p)[i + 1] = <<p[i]>>
  BY BodyFacts
<1> HIDE DEF f
<1>4. Value(f[3]) = n
  BY <1>1, <1>2, ByteFacts
<1> HIDE DEF n
<1>5. 1 \in Magics(f)
  <2>1. 1 \in 1 .. Len(f) - 1
    BY <1>1, <1>2
  <2> QED BY <1>2, <2>1 DEF Magics
<1>6. SumPlace(f, 1) = n + 4
  BY <1>1, <1>4 DEF SumPlace
<1>7. /\ b \in Seq(Token) /\ Len(b) = n + 1
      /\ \A j \in 1 .. n + 1 : b[j] = f[j + 2]
  <2> DEFINE v == n + 3
  <2>1. 3 \in Nat /\ v \in Nat /\ 1 <= 3 /\ 3 <= v + 1 /\ v <= Len(f) /\ v - 3 + 1 = n + 1
    BY <1>1, <1>2
  <2>2. /\ b \in Seq(Token) /\ Len(b) = n + 1
        /\ \A j \in 1 .. n + 1 : b[j] = f[3 + j - 1]
    <3> HIDE DEF v
    <3>1. /\ SubSeq(f, 3, v) \in Seq(Token) /\ Len(SubSeq(f, 3, v)) = v - 3 + 1
          /\ \A j \in 1 .. v - 3 + 1 : SubSeq(f, 3, v)[j] = f[3 + j - 1]
      BY <1>2, <2>1, PartFacts
    <3> QED BY <2>1, <3>1, Zenon DEF b, v
  <2> HIDE DEF b
  <2>3. ASSUME NEW j \in 1 .. n + 1 PROVE b[j] = f[j + 2]
    <3>1. 3 + j - 1 = j + 2
      BY <1>1
    <3> QED BY <2>2, <3>1
  <2> QED BY <2>2, <2>3
<1> HIDE DEF b
<1>8. ASSUME NEW j \in 1 .. n + 1 PROVE b[j] = Body(p)[j]
  <2>1. CASE j = 1
    <3>1. b[j] = f[3]
      BY <1>7, <2>1
    <3> QED BY <1>2, <1>3, <2>1, <3>1
  <2>2. CASE j # 1
    <3> DEFINE k == j - 1
    <3>1. k \in 1 .. n /\ j = k + 1 /\ j + 2 = k + 3
      BY <1>1, <2>2
    <3> HIDE DEF k
    <3>2. f[k + 3] = Body(p)[k + 1]
      BY <1>2, <1>3, <3>1
    <3> QED BY <1>7, <3>1, <3>2
  <2> QED BY <2>1, <2>2
<1>9. b = Body(p)
  BY <1>3, <1>7, <1>8, SeqEqual
<1>10. 1 \in Replies(f)
  <2> DEFINE e == SumPlace(f, 1)
  <2>1. e = n + 4 /\ e - 1 = n + 3 /\ 1 + 2 = 3 /\ 1 + 2 <= Len(f) /\ e <= Len(f)
    BY <1>1, <1>2, <1>6
  <2>2. f[n + 4] = Sum(SubSeq(f, 3, n + 3))
    BY <1>2, <1>9 DEF b
  <2> HIDE DEF e
  <2>3. SubSeq(f, 1 + 2, e - 1) = SubSeq(f, 3, n + 3)
    BY <2>1
  <2>4. f[e] = f[n + 4]
    BY <2>1
  <2>5. f[e] = Sum(SubSeq(f, 1 + 2, e - 1))
    BY <2>2, <2>3, <2>4
  <2> QED BY <1>5, <2>1, <2>5, Zenon DEF Replies, e
<1>11. f[SumPlace(f, 1)] = Sum(Body(p))
  BY <1>2, <1>6
<1>12. Text(f, 1) = AsBytes(p)
  BY <1>2, <1>10, <1>11, TextIs
<1>13. HasHeader(f)
  BY <1>1, <1>2 DEF HasHeader
<1>14. Length(f) = n
  BY <1>4 DEF Length
<1>15. Whole(f) /\ Intact(f)
  <2>1. SumPlace(f, 1) <= Len(f)
    BY <1>1, <1>2, <1>6
  <2> QED BY <1>2, <1>10, <1>13, <2>1, FrontFacts
<1>16. AfterFrame(f) = <<>>
  <2>1. Length(f) + 5 \in 1 .. Len(f) + 1 /\ AfterFrame(f) = From(f, Length(f) + 5)
    BY <1>2, <1>13, <1>15, FrontFacts
  <2> DEFINE k == Length(f) + 5
  <2>2. k \in 1 .. Len(f) + 1 /\ Len(f) - k + 1 = 0
    BY <1>1, <1>2, <1>14
  <2> HIDE DEF k
  <2>3. From(f, k) \in Seq(Token) /\ Len(From(f, k)) = 0
    BY <1>2, <2>2, FromFacts
  <2>4. From(f, k) = <<>>
    BY <2>3, EmptySeq
  <2> QED BY <2>1, <2>4 DEF k
<1> QED BY <1>1, <1>2, <1>5, <1>6, <1>10, <1>12, <1>13, <1>14, <1>15, <1>16 DEF f, n

(* A stream with at most one reply in it, that to c, and no magic after it. *)
Holds(s, c) ==
    /\ Tidy(s) /\ \A i, j \in Replies(s) : i = j
    /\ \A i \in Replies(s) : Text(s, i) = AsBytes(Reply[c]) /\ \A j \in Magics(s) : j <= i

LEMMA FrameJoins ==
    ASSUME Unmistakable, NEW s \in Seq(Token), Tidy(s), Replies(s) = {}, NEW c \in Commands
    PROVE  Holds(s \o Pack(Reply[c]), c) /\ Replies(s \o Pack(Reply[c])) # {}
<1> DEFINE q == Pack(Reply[c])
           n == Len(s)
<1>1. /\ q \in Seq(Token) /\ 1 \in Replies(q) /\ 1 \in Magics(q) /\ SumPlace(q, 1) = Len(q)
      /\ Text(q, 1) = AsBytes(Reply[c]) /\ Len(q) \in Nat /\ Len(q) >= 4
  <2>1. Reply[c] \in Texts
    BY Alphabet
  <2>2. Len(q) = Len(Reply[c]) + 4 /\ Len(Reply[c]) \in Nat
    BY <2>1, PackFrame
  <2>3. Len(q) \in Nat /\ Len(q) >= 4
    BY <2>2
  <2> QED BY <2>1, <2>3, PackFrame
<1>2. Magics(q) \subseteq {1}
  BY DEF Unmistakable
<1>3. q[1] = A5
  BY <1>1, MagicFacts
<1> HIDE DEF q
<1>4. Magics(q) = {1} /\ Replies(q) = {1}
  BY <1>1, <1>2 DEF Replies
<1>5. Tidy(q)
  <2>1. 1 + 2 <= Len(q) /\ SumPlace(q, 1) <= Len(q) + 1
    BY <1>1
  <2> QED BY <1>4, <2>1 DEF Tidy
<1>6. Apart(s, q) /\ Starts(q)
  BY <1>3, MarkFacts DEF Apart, Starts
<1>7. /\ Tidy(s \o q)
      /\ Magics(s \o q) = Magics(s) \cup {n + i : i \in Magics(q)}
      /\ Replies(s \o q) = Replies(s) \cup {n + i : i \in Replies(q)}
      /\ \A i \in Replies(q) : Text(s \o q, n + i) = Text(q, i)
  BY <1>1, <1>5, <1>6, JoinTidy
<1>8. Magics(s \o q) = Magics(s) \cup {n + 1} /\ Replies(s \o q) = {n + 1}
  BY <1>4, <1>7
<1>9. Text(s \o q, n + 1) = AsBytes(Reply[c])
  BY <1>1, <1>7
<1>10. ASSUME NEW j \in Magics(s \o q) PROVE j <= n + 1
  <2>1. j \in Nat /\ n \in Nat /\ (j = n + 1 \/ (j \in Magics(s) /\ j + 1 <= n))
    <3>1. n \in Nat
      BY LenProperties
    <3>2. CASE j = n + 1
      BY <3>1, <3>2
    <3>3. CASE j \in Magics(s)
      BY <3>1, <3>3, MagicFacts
    <3> QED BY <1>8, <3>2, <3>3
  <2> QED BY <2>1
<1> QED BY <1>7, <1>8, <1>9, <1>10 DEF Holds, q

(* A frame that lost a byte, its LEN aside.                                 *)
LEMMA ShortFacts ==
    ASSUME Unmistakable, NEW c \in Commands, NEW i \in 1 .. Len(Pack(Reply[c])), i # 3
    PROVE  /\ Without(Pack(Reply[c]), i) \in Seq(Token) /\ Without(Pack(Reply[c]), i) # <<>>
           /\ Tidy(Without(Pack(Reply[c]), i)) /\ Replies(Without(Pack(Reply[c]), i)) = {}
           /\ Starts(Without(Pack(Reply[c]), i))
           /\ i # 1 => Without(Pack(Reply[c]), i)[1] = A5
<1> DEFINE p == Reply[c]
           f == Pack(p)
           q == Without(f, i)
<1>1. p \in Texts
  BY Alphabet
<1>2. /\ f \in Seq(Token) /\ Len(f) = Len(p) + 4 /\ Len(p) \in Nat
      /\ f[1] = A5 /\ f[2] = x5A /\ f[3] = <<Len(p)>>
  BY <1>1, PackFacts, PackFrame
<1>3. i \in 1 .. 2 => Magics(q) = {}
  BY DEF Unmistakable
<1>4. i \in 4 .. Len(f) => Magics(q) \subseteq {1}
  BY DEF Unmistakable
<1>5. Value(f[3]) = Len(p)
  BY <1>1, <1>2, TextFacts, ByteFacts
<1> HIDE DEF f, p
<1>6. i \in 1 .. Len(f)
  BY DEF f, p
<1>7. /\ q \in Seq(Token) /\ Len(q) = Len(f) - 1
      /\ \A j \in 1 .. i - 1 : q[j] = f[j]
      /\ \A j \in i .. Len(f) - 1 : q[j] = f[j + 1]
  BY <1>2, <1>6, WithoutFacts
<1> HIDE DEF q
<1>8. q # <<>>
  <2>1. Len(q) # 0
    BY <1>2, <1>7
  <2> QED BY <2>1, EmptySeq
<1>9. CASE i = 1
  <2>1. Tidy(q) /\ Replies(q) = {}
    BY <1>3, <1>9, NoMagics
  <2>2. q[1] = x5A
    <3>1. 1 \in i .. Len(f) - 1 /\ 1 + 1 = 2
      BY <1>2, <1>9
    <3>2. q[1] = f[1 + 1]
      BY <1>7, <3>1
    <3> QED BY <1>2, <3>1, <3>2, Zenon
  <2>3. Starts(q)
    BY <2>2, MarkFacts DEF Starts
  <2> QED BY <1>7, <1>8, <1>9, <2>1, <2>3 DEF q, f, p
<1>10. ASSUME i # 1 PROVE q[1] = A5 /\ Starts(q)
  <2>1. 1 \in 1 .. i - 1
    BY <1>2, <1>6, <1>10
  <2>2. q[1] = A5
    BY <1>2, <1>7, <2>1
  <2> QED BY <2>2, MarkFacts DEF Starts
<1>11. CASE i = 2
  <2>1. Tidy(q) /\ Replies(q) = {}
    BY <1>3, <1>11, NoMagics
  <2> QED BY <1>7, <1>8, <1>10, <1>11, <2>1 DEF q, f, p
<1>12. CASE i # 1 /\ i # 2
  <2>1. i \in 4 .. Len(f) /\ 3 \in 1 .. i - 1
    BY <1>2, <1>6, <1>12
  <2>2. Magics(q) \subseteq {1} /\ q[1 + 2] = f[3]
    BY <1>4, <1>7, <2>1
  <2>3. SumPlace(q, 1) = Len(p) + 4
    BY <1>2, <1>5, <2>2 DEF SumPlace
  <2>4. 1 + 2 <= Len(q) /\ SumPlace(q, 1) = Len(q) + 1 /\ Len(q) \in Nat
    BY <1>2, <1>7, <2>3
  <2>5. 1 + 2 <= Len(q) /\ SumPlace(q, 1) <= Len(q) + 1 /\ ~(SumPlace(q, 1) <= Len(q))
    BY <2>4
  <2>6. Replies(q) = {}
    BY <2>2, <2>5 DEF Replies
  <2>7. Tidy(q)
    BY <2>2, <2>5 DEF Tidy
  <2> QED BY <1>7, <1>8, <1>10, <1>12, <2>6, <2>7 DEF q, f, p
<1> QED BY <1>9, <1>11, <1>12

(* What an A5 left on the line and a frame without its own make together is *)
(* that frame.                                                              *)
LEMMA SeamJoins ==
    ASSUME Unmistakable, NEW s \in Seq(Token), Tidy(s), Replies(s) = {}, NEW c \in Commands,
           s # <<>>, s[Len(s)] = A5
    PROVE  Holds(s \o Without(Pack(Reply[c]), 1), c)
<1> DEFINE p == Reply[c]
           f == Pack(p)
           q == Without(f, 1)
           t == s \o q
           n == Len(s)
<1>1. p \in Texts
  BY Alphabet
<1>2. /\ f \in Seq(Token) /\ Len(f) \in Nat /\ Len(f) >= 4
      /\ 1 \in Replies(f) /\ SumPlace(f, 1) = Len(f) /\ Text(f, 1) = AsBytes(p)
      /\ f[1] = A5 /\ f[2] = x5A
  <2>1. Len(f) = Len(p) + 4 /\ Len(p) \in Nat
    BY <1>1, PackFrame
  <2>2. Len(f) \in Nat /\ Len(f) >= 4
    BY <2>1
  <2> QED BY <1>1, <2>2, PackFrame, PackFacts
<1>3. Magics(f) \subseteq {1}
  BY DEF Unmistakable
<1> HIDE DEF f, p
<1>4. q \in Seq(Token) /\ Len(q) = Len(f) - 1 /\ \A j \in 1 .. Len(f) - 1 : q[j] = f[j + 1]
  <2>1. 1 \in 1 .. Len(f)
    BY <1>2
  <2> QED BY <1>2, <2>1, WithoutFacts
<1> HIDE DEF q
<1>5. /\ t \in Seq(Token) /\ Len(t) = n + Len(q) /\ n \in Nat /\ Len(q) \in Nat
      /\ \A i \in 1 .. n : t[i] = s[i]
      /\ \A i \in 1 .. Len(q) : t[n + i] = q[i]
  BY <1>4, JoinFacts
<1>6. /\ \A i \in Magics(s) :
            /\ i \in Magics(t)
            /\ i + 2 <= n => t[i + 2] = s[i + 2] /\ SumPlace(t, i) = SumPlace(s, i)
            /\ i + 2 <= n /\ SumPlace(s, i) <= n => (i \in Replies(s) <=> i \in Replies(t))
      /\ \A i \in Magics(t) : i + 1 <= n => i \in Magics(s)
  BY <1>4, JoinMagics
<1> HIDE DEF t
<1>7. n >= 1 /\ n \in 1 .. n /\ n \in 1 .. Len(t) + 1 /\ Len(t) - n + 1 = Len(f)
  <2>1. n # 0
    BY EmptySeq
  <2> QED BY <1>2, <1>4, <1>5, <2>1
\* The frame, from the A5 on.
<1>8. From(t, n) = f
  <2> DEFINE b == From(t, n)
  <2>1. /\ b \in Seq(Token) /\ Len(b) = Len(t) - n + 1
        /\ \A i \in 1 .. Len(t) - n + 1 : b[i] = t[n + i - 1]
    BY <1>5, <1>7, FromFacts
  <2> HIDE DEF b
  <2>2. Len(b) = Len(f) /\ \A i \in 1 .. Len(f) : b[i] = t[n + i - 1]
    BY <1>7, <2>1, Zenon
  <2>3. ASSUME NEW i \in 1 .. Len(f) PROVE b[i] = f[i]
    <3>1. CASE i = 1
      <4>1. n + i - 1 = n
        BY <1>5, <3>1
      <4>2. t[n] = A5
        BY <1>5, <1>7
      <4> QED BY <1>2, <2>2, <3>1, <4>1, <4>2
    <3>2. CASE i # 1
      <4> DEFINE j == i - 1
      <4>1. j \in 1 .. Len(f) - 1 /\ j \in 1 .. Len(q) /\ n + i - 1 = n + j /\ i = j + 1
        BY <1>2, <1>4, <1>5, <3>2
      <4> HIDE DEF j
      <4>2. t[n + j] = f[j + 1]
        BY <1>4, <1>5, <4>1
      <4> QED BY <2>2, <4>1, <4>2
    <3> QED BY <3>1, <3>2
  <2>4. b = f
    BY <1>2, <2>1, <2>2, <2>3, SeqEqual
  <2> QED BY <2>4 DEF b
<1>9. /\ \A i \in Magics(t) : i >= n => i - n + 1 \in Magics(f)
      /\ \A i \in Replies(t) : i >= n => i - n + 1 \in Replies(f)
      /\ n + 1 - 1 \in Replies(t) /\ Text(f, 1) = Text(t, n + 1 - 1)
      /\ SumPlace(f, 1) + n - 1 = SumPlace(t, n + 1 - 1)
  <2>1. /\ \A i \in Magics(t) : i >= n => i - n + 1 \in Magics(From(t, n))
        /\ \A j \in Magics(From(t, n)) :
              j + 2 <= Len(From(t, n)) => SumPlace(From(t, n), j) + n - 1 = SumPlace(t, n + j - 1)
    BY <1>5, <1>7, RestFacts
  <2>2. /\ \A i \in Replies(t) : i >= n => i - n + 1 \in Replies(From(t, n))
        /\ \A j \in Replies(From(t, n)) :
              n + j - 1 \in Replies(t) /\ Text(From(t, n), j) = Text(t, n + j - 1)
    BY <1>5, <1>7, RestReplies
  <2>3. 1 \in Magics(f) /\ 1 + 2 <= Len(f)
    BY <1>2 DEF Replies
  <2> QED BY <1>2, <1>8, <2>1, <2>2, <2>3, Zenon
<1>10. n + 1 - 1 = n
  BY <1>5
<1>11. n \in Replies(t) /\ Text(t, n) = AsBytes(p) /\ SumPlace(t, n) = Len(t)
  <2>1. Len(f) + n - 1 = Len(t)
    <3>1. \A x, y, z \in Nat : x - y + 1 = z => z + y - 1 = x
      OBVIOUS
    <3>2. Len(t) \in Nat /\ n \in Nat /\ Len(f) \in Nat /\ Len(t) - n + 1 = Len(f)
      BY <1>2, <1>5, <1>7, LenProperties
    <3> QED BY <3>1, <3>2, Zenon
  <2> QED BY <1>2, <1>9, <1>10, <2>1, Zenon
<1>12. ASSUME NEW i \in Magics(t)
       PROVE  /\ i \in Nat /\ i <= n
              /\ i # n => /\ i \in Magics(s) /\ i + 2 <= n
                          /\ SumPlace(t, i) = SumPlace(s, i) /\ SumPlace(s, i) \in Nat
                          /\ SumPlace(s, i) <= n + 1
                          /\ \A k \in Magics(s) : k > i => k + 1 >= SumPlace(s, i)
  <2>1. i \in Nat /\ i + 1 <= Len(t)
    BY <1>5, MagicFacts
  <2>2. CASE i >= n
    <3>1. i - n + 1 = 1
      BY <1>3, <1>9, <2>2
    <3>2. i = n
      BY <1>5, <2>1, <3>1
    <3> QED BY <1>5, <3>2
  <2>3. CASE ~(i >= n)
    <3>1. i + 1 <= n
      BY <1>5, <2>1, <2>3
    <3>2. i \in Magics(s)
      BY <1>6, <3>1
    <3>3. /\ i + 2 <= n /\ SumPlace(s, i) \in Nat /\ SumPlace(s, i) <= n + 1
          /\ \A k \in Magics(s) : k > i => k + 1 >= SumPlace(s, i)
      BY <3>2, MagicFacts DEF Tidy
    <3>4. SumPlace(t, i) = SumPlace(s, i)
      BY <1>6, <3>2, <3>3
    <3> QED BY <1>5, <2>1, <3>1, <3>2, <3>3, <3>4
  <2> QED BY <2>2, <2>3
<1>13. ASSUME NEW i \in Replies(t) PROVE i = n
  <2>1. i \in Magics(t) /\ SumPlace(t, i) <= Len(t)
    BY DEF Replies
  <2>2. ASSUME i # n PROVE FALSE
    <3>1. /\ i \in Magics(s) /\ i + 2 <= n /\ SumPlace(t, i) = SumPlace(s, i)
          /\ SumPlace(s, i) \in Nat /\ SumPlace(s, i) <= n + 1
      BY <1>12, <2>1, <2>2
    <3>2. CASE SumPlace(s, i) <= n
      BY <1>6, <3>1, <3>2
    <3>3. CASE ~(SumPlace(s, i) <= n)
      <4>1. SumPlace(t, i) = n + 1
        BY <1>5, <3>1, <3>3
      <4>2. IsSum(t[n + 1])
        BY <1>5, <4>1, SumToken
      <4>3. 1 \in 1 .. Len(q) /\ 1 \in 1 .. Len(f) - 1 /\ 1 + 1 = 2
        BY <1>2, <1>4
      <4>4. t[n + 1] = f[1 + 1]
        BY <1>4, <1>5, <4>3
      <4>5. t[n + 1] = x5A
        BY <1>2, <4>3, <4>4, Zenon
      <4> QED BY <4>2, <4>5, MarkFacts
    <3> QED BY <3>2, <3>3
  <2> QED BY <2>2
<1>14. ASSUME NEW i \in Magics(t)
       PROVE  /\ i + 2 <= Len(t) /\ SumPlace(t, i) <= Len(t) + 1
              /\ \A k \in Magics(t) : k > i => k + 1 >= SumPlace(t, i)
  <2>1. CASE i = n
    <3>1. \A k \in Magics(t) : ~(k > i)
      BY <1>5, <1>12, <2>1
    <3>2. i + 2 <= Len(t) /\ SumPlace(t, i) <= Len(t) + 1
      BY <1>2, <1>4, <1>5, <1>11, <2>1
    <3> QED BY <3>1, <3>2
  <2>2. CASE i # n
    <3>1. /\ i \in Magics(s) /\ i + 2 <= n /\ SumPlace(t, i) = SumPlace(s, i) /\ i \in Nat
          /\ SumPlace(s, i) \in Nat /\ SumPlace(s, i) <= n + 1
          /\ \A k \in Magics(s) : k > i => k + 1 >= SumPlace(s, i)
      BY <1>12, <2>2
    <3>2. i + 2 <= Len(t) /\ SumPlace(t, i) <= Len(t) + 1
      BY <1>5, <3>1
    <3>3. ASSUME NEW k \in Magics(t), k > i PROVE k + 1 >= SumPlace(t, i)
      <4>1. CASE k = n
        BY <1>5, <3>1, <4>1
      <4>2. CASE k # n
        <5>1. k \in Magics(s)
          BY <1>12, <4>2
        <5> QED BY <3>1, <3>3, <5>1
      <4> QED BY <4>1, <4>2
    <3> QED BY <3>2, <3>3
  <2> QED BY <2>1, <2>2
<1>15. Tidy(t)
  BY <1>14 DEF Tidy
<1>16. \A i \in Replies(t) : Text(t, i) = AsBytes(Reply[c]) /\ \A j \in Magics(t) : j <= i
  BY <1>11, <1>12, <1>13 DEF p
<1> QED BY <1>13, <1>15, <1>16 DEF Holds, t, q, f, p

LEMMA ShortJoins ==
    ASSUME Unmistakable, NEW s \in Seq(Token), Tidy(s), Replies(s) = {}, NEW c \in Commands,
           NEW i \in 1 .. Len(Pack(Reply[c])), i # 3
    PROVE  Holds(s \o Without(Pack(Reply[c]), i), c)
<1> DEFINE q == Without(Pack(Reply[c]), i)
<1>1. /\ q \in Seq(Token) /\ q # <<>> /\ Tidy(q) /\ Replies(q) = {} /\ Starts(q)
      /\ i # 1 => q[1] = A5
  BY ShortFacts
<1>2. CASE Apart(s, q)
  <2> HIDE DEF q
  <2>1. Tidy(s \o q) /\ Replies(s \o q) = Replies(s) \cup {Len(s) + j : j \in Replies(q)}
    BY <1>1, <1>2, JoinTidy
  <2>2. Replies(s \o q) = {}
    BY <1>1, <2>1
  <2> QED BY <2>1, <2>2 DEF Holds, q
<1>3. CASE ~Apart(s, q)
  <2>1. s # <<>> /\ s[Len(s)] = A5 /\ q[1] = x5A
    BY <1>3 DEF Apart
  <2>2. i = 1
    BY <1>1, <2>1, MarkFacts
  <2> QED BY <2>1, <2>2, SeamJoins
<1> QED BY <1>2, <1>3

-----------------------------------------------------------------------------
(* The state of the call as a whole: at most one checksum may still get it  *)
(* carried out, then none; at most one reply is on its way, its own.  While *)
(* the host waits, nothing follows the command on the line to the device.   *)

OneCall ==
    /\ \A i, j \in Live(up) : i = j
    /\ Live(up) # {} => dev = None /\ Replies(Stream) = {} /\ asked # None /\ carried = None
    /\ \A i \in Live(up) : up[i] = Sum(Body(Payload[asked]))
    /\ dev # None => Replies(Stream) = {} /\ dev = asked /\ carried = asked
    /\ Holds(Stream, asked)
    /\ Replies(Stream) # {} => asked # None /\ carried = asked
    /\ carried # None /\ asked # None => carried = asked
    /\ proc = "idle" => asked = None
    /\ proc = "waiting" => asked # None
    /\ proc = "waiting" /\ carried # None => up = <<>>
    /\ proc = "waiting" => Live(up) \subseteq {Len(up)}

LEMMA EmptyLine ==
    /\ <<>> \in Seq(Token) /\ Live(<<>>) = {} /\ Magics(<<>>) = {}
    /\ Tidy(<<>>) /\ Replies(<<>>) = {}
    /\ \A c : Holds(<<>>, c)
<1>1. <<>> \in Seq(Token) /\ Len(<<>>) = 0
  BY EmptySeq
<1>2. Live(<<>>) = {} /\ Magics(<<>>) = {}
  BY <1>1 DEF Live, Magics
<1>3. Tidy(<<>>) /\ Replies(<<>>) = {}
  BY <1>2, NoMagics
<1> QED BY <1>1, <1>2, <1>3 DEF Holds

LEMMA HoldsNone ==
    ASSUME NEW s, NEW c, Tidy(s), Replies(s) = {}
    PROVE  Holds(s, c)
BY DEF Holds

LEMMA HoldsRest ==
    ASSUME NEW s \in Seq(Token), NEW c, NEW k \in 1 .. Len(s) + 1, Holds(s, c)
    PROVE  /\ Holds(From(s, k), c)
           /\ Replies(s) = {} => Replies(From(s, k)) = {}
           /\ \A r \in Replies(s) : k > r => Magics(From(s, k)) = {} /\ Replies(From(s, k)) = {}
<1> DEFINE b == From(s, k)
<1>1. b \in Seq(Token) /\ Tidy(b) /\ Len(s) \in Nat /\ k \in Nat
  <2>1. Len(s) \in Nat
    BY LenProperties
  <2> QED BY <2>1, FromFacts, RestTidy DEF Holds
<1>2. /\ \A j \in Replies(b) : k + j - 1 \in Replies(s) /\ Text(b, j) = Text(s, k + j - 1)
      /\ \A j \in Magics(b) : k + j - 1 \in Magics(s)
  BY RestReplies, RestFacts
<1> HIDE DEF b
<1>3. Replies(b) \subseteq Magics(b) /\ \A j \in Magics(b) : j \in Nat /\ 1 <= j
  BY <1>1, MagicFacts DEF Replies
<1>4. ASSUME NEW i \in Replies(b), NEW j \in Replies(b) PROVE i = j
  <2>1. k + i - 1 = k + j - 1
    BY <1>2 DEF Holds
  <2> QED BY <1>1, <1>3, <2>1
<1>5. ASSUME NEW i \in Replies(b)
      PROVE  Text(b, i) = AsBytes(Reply[c]) /\ \A j \in Magics(b) : j <= i
  <2>1. Text(b, i) = AsBytes(Reply[c])
    BY <1>2 DEF Holds
  <2>2. ASSUME NEW j \in Magics(b) PROVE j <= i
    <3>1. k + j - 1 <= k + i - 1
      BY <1>2 DEF Holds
    <3> QED BY <1>1, <1>3, <3>1
  <2> QED BY <2>1, <2>2
<1>6. Replies(s) = {} => Replies(b) = {}
  BY <1>2
<1>7. ASSUME NEW r \in Replies(s), k > r PROVE Magics(b) = {} /\ Replies(b) = {}
  <2>1. ASSUME NEW j \in Magics(b) PROVE FALSE
    <3>1. k + j - 1 <= r
      BY <1>2 DEF Holds
    <3>2. r \in Nat
      BY MagicFacts DEF Replies
    <3> QED BY <1>1, <1>3, <1>7, <3>1, <3>2
  <2> QED BY <1>3, <2>1
<1>8. Holds(b, c)
  BY <1>1, <1>4, <1>5 DEF Holds
<1> QED BY <1>6, <1>7, <1>8 DEF b

(* What the device skips.                                                   *)
LEMMA Skipped ==
    ASSUME TypeInv, OneCall, NEW k \in 1 .. Len(up) + 1, Ends(up) <= k
    PROVE  /\ From(up, k) \in Seq(Token)
           /\ \A i, j \in Live(From(up, k)) : i = j
           /\ Live(up) = {} => Live(From(up, k)) = {}
           /\ \A i \in Live(From(up, k)) : From(up, k)[i] = Sum(Body(Payload[asked]))
           /\ up = <<>> => From(up, k) = <<>>
           /\ Live(up) \subseteq {Len(up)} => Live(From(up, k)) \subseteq {Len(From(up, k))}
           /\ \A i \in Live(up) : k > i => Live(From(up, k)) = {}
<1> DEFINE b == From(up, k)
<1>1. up \in Seq(Token)
  BY Buffers
<1>2. b \in Seq(Token) /\ Len(b) = Len(up) - k + 1 /\ Len(b) \in Nat /\ Len(up) \in Nat /\ k \in Nat
  <2>1. Len(up) \in Nat
    BY <1>1, LenProperties
  <2> QED BY <1>1, <2>1, FromFacts
<1>3. \A j \in Live(b) : k + j - 1 \in Live(up) /\ k + j - 1 >= k /\ b[j] = up[k + j - 1]
  BY <1>1, LiveRest
<1> HIDE DEF b
<1>4. \A j \in Live(b) : j \in Nat /\ j \in 1 .. Len(b)
  BY <1>2 DEF Live
<1>5. \A i, j \in Live(up) : i = j
  BY DEF OneCall
<1>6. \A i \in Live(up) : up[i] = Sum(Body(Payload[asked]))
  BY DEF OneCall
<1>7. ASSUME NEW i \in Live(b), NEW j \in Live(b) PROVE i = j
  <2>1. k + i - 1 = k + j - 1
    BY <1>3, <1>5
  <2> QED BY <1>2, <1>4, <2>1
<1>8. Live(up) = {} => Live(b) = {}
  BY <1>3
<1>9. \A i \in Live(b) : b[i] = Sum(Body(Payload[asked]))
  BY <1>3, <1>6
<1>10. ASSUME up = <<>> PROVE b = <<>>
  <2>1. Len(up) = 0
    BY <1>10
  <2>2. Len(b) = 0
    BY <1>2, <2>1
  <2> QED BY <1>2, <2>2, EmptySeq
<1>11. ASSUME Live(up) \subseteq {Len(up)}, NEW j \in Live(b) PROVE j = Len(b)
  <2>1. k + j - 1 = Len(up)
    BY <1>3, <1>11
  <2> QED BY <1>2, <1>4, <2>1
<1>12. ASSUME NEW i \in Live(up), k > i, NEW j \in Live(b) PROVE FALSE
  <2>1. k + j - 1 = i
    BY <1>3, <1>5
  <2> QED BY <1>2, <1>4, <1>12, <2>1
<1> QED BY <1>2, <1>7, <1>8, <1>9, <1>10, <1>11, <1>12 DEF b

(* A frame the client has: the call's.  Nothing else is on the line.        *)
LEMMA Taken ==
    ASSUME TypeInv, OneCall, FrameReady(hbuf)
    PROVE  /\ Replies(Stream) # {} /\ asked # None /\ carried = asked /\ asked \in Commands
           /\ dev = None /\ Live(up) = {}
           /\ Content(Searched(hbuf)) = AsBytes(Reply[asked])
           /\ AfterFrame(Searched(hbuf)) \o down \in Seq(Token)
           /\ Magics(AfterFrame(Searched(hbuf)) \o down) = {}
           /\ Replies(AfterFrame(Searched(hbuf)) \o down) = {}
           /\ \A c : Holds(AfterFrame(Searched(hbuf)) \o down, c)
<1> DEFINE r == SearchAt(hbuf)
           k == SumPlace(hbuf, r) + 1
<1>1. hbuf \in Seq(Token) /\ down \in Seq(Token) /\ Stream \in Seq(Token)
  BY Buffers
<1>2. /\ r \in Replies(hbuf) /\ Content(Searched(hbuf)) = Text(hbuf, r)
      /\ k \in 1 .. Len(hbuf) + 1 /\ AfterFrame(Searched(hbuf)) = From(hbuf, k)
  BY <1>1, SearchFacts
<1>3. r \in Magics(hbuf) /\ r + 2 <= Len(hbuf) /\ SumPlace(hbuf, r) <= Len(hbuf)
  BY <1>2 DEF Replies
<1>4. r \in Nat /\ k > r /\ k \in Nat
  <2>1. r \in Nat /\ SumPlace(hbuf, r) \in Nat /\ r + 3 <= SumPlace(hbuf, r)
    BY <1>1, <1>3, MagicFacts
  <2> QED BY <2>1
<1> HIDE DEF r, k
<1>5. r \in Replies(Stream) /\ Text(Stream, r) = Text(hbuf, r)
  BY <1>1, <1>2, <1>3, JoinMagics DEF Stream
<1>6. /\ AfterFrame(Searched(hbuf)) \o down = From(Stream, k)
      /\ k \in 1 .. Len(Stream) + 1
  <2>1. From(hbuf, k) \o down = From(Stream, k) /\ k \in 1 .. Len(Stream) + 1
    BY <1>1, <1>2, FromJoin, Zenon DEF Stream
  <2> QED BY <1>2, <2>1, Zenon
<1>7. Holds(Stream, asked)
  BY DEF OneCall
<1>8. /\ Magics(From(Stream, k)) = {} /\ Replies(From(Stream, k)) = {}
      /\ Tidy(From(Stream, k)) /\ From(Stream, k) \in Seq(Token)
  <2>1. Magics(From(Stream, k)) = {} /\ Replies(From(Stream, k)) = {}
    BY <1>1, <1>4, <1>5, <1>6, <1>7, HoldsRest
  <2> QED BY <1>1, <1>6, <2>1, NoMagics, FromFacts
<1>9. \A c : Holds(From(Stream, k), c)
  BY <1>8, HoldsNone
<1>10. /\ asked # None /\ carried = asked /\ dev = None /\ Live(up) = {}
  BY <1>5 DEF OneCall
<1>11. Text(Stream, r) = AsBytes(Reply[asked])
  BY <1>5, <1>7 DEF Holds
<1>12. asked \in Commands
  BY <1>10 DEF TypeInv, TypeOK
<1>13. Content(Searched(hbuf)) = AsBytes(Reply[asked])
  BY <1>2, <1>5, <1>11
<1> QED BY <1>5, <1>6, <1>8, <1>9, <1>10, <1>12, <1>13

(* When nothing comes nothing is on its way either.                         *)
LEMMA Quiet ==
    ASSUME Unmistakable, TypeInv, OneCall, NothingComes
    PROVE  /\ dev = None /\ Live(up) = {} /\ Replies(Stream) = {}
           /\ Magics(up) = {} => up \in {<<>>, <<A5>>}
           /\ \A c : Holds(Searched(hbuf) \o down, c)
           /\ Replies(Searched(hbuf) \o down) = {}
           /\ Magics(Stream) = {} => Magics(Searched(hbuf) \o down) = {}
           /\ Hunted(up) = up /\ (HasHeader(up) => Length(up) <= RxMax /\ ~Whole(up))
<1>1. hbuf \in Seq(Token) /\ down \in Seq(Token) /\ Stream \in Seq(Token) /\ up \in Seq(Token)
  BY Buffers
<1>2. ~FrameReady(hbuf) /\ down = <<>> /\ DeviceWaits
  BY DEF NothingComes, Unmistakable
<1>3. dev = None /\ Live(up) = {} /\ (Magics(up) = {} => up \in {<<>>, <<A5>>})
  BY <1>1, <1>2, WaitsFor DEF DeviceWaits
<1>4. Stream = hbuf
  BY <1>1, <1>2, ConcatEmptySeq DEF Stream
<1>5. Tidy(hbuf) /\ Holds(hbuf, asked)
  BY <1>4 DEF OneCall, Holds
<1>6. Replies(hbuf) = {} /\ SearchAt(hbuf) \in 1 .. Len(hbuf) + 1
      /\ Searched(hbuf) = From(hbuf, SearchAt(hbuf))
  BY <1>1, <1>2, <1>5, SearchFacts
<1>7. Searched(hbuf) \in Seq(Token) /\ Tidy(Searched(hbuf)) /\ Replies(Searched(hbuf)) = {}
  BY <1>1, <1>5, <1>6, FromFacts, HoldsRest, RestTidy
<1>8. Searched(hbuf) \o down = Searched(hbuf)
  BY <1>2, <1>7, ConcatEmptySeq
<1>9. \A c : Holds(Searched(hbuf), c)
  BY <1>7, HoldsNone
<1>10. Magics(hbuf) = {} => Magics(Searched(hbuf)) = {}
  <2>1. \A j \in Magics(From(hbuf, SearchAt(hbuf))) : SearchAt(hbuf) + j - 1 \in Magics(hbuf)
    BY <1>1, <1>6, RestFacts
  <2> QED BY <1>6, <2>1
<1> QED BY <1>2, <1>3, <1>4, <1>6, <1>7, <1>8, <1>9, <1>10 DEF DeviceWaits

(* What the device takes is the command asked for.                          *)
LEMMA Delivered ==
    ASSUME TypeInv, OneCall, NEW c \in Commands, Deliver(c), asked \in Commands
    PROVE  c = asked
<1>1. up \in Seq(Token)
  BY Buffers
<1>2. /\ Ends(up) \in Live(up) /\ Ends(up) = SumPlace(up, 1) /\ 1 \in Replies(up)
      /\ Content(up) = Text(up, 1)
  BY <1>1, FrontLive DEF Deliver
<1>3. up[SumPlace(up, 1)] = Sum(Body(Payload[asked]))
  BY <1>2 DEF OneCall
<1>4. Payload[asked] \in Texts /\ Payload[c] \in Texts
  BY Alphabet
<1>5. Text(up, 1) = AsBytes(Payload[asked])
  BY <1>1, <1>2, <1>3, <1>4, TextIs
<1>6. AsBytes(Payload[c]) = AsBytes(Payload[asked])
  BY <1>2, <1>5 DEF Deliver
<1>7. Payload[c] = Payload[asked]
  BY <1>4, <1>6, AsBytesDiffer, TextFacts
<1> QED BY <1>7, Alphabet

(* One step of it, one case for each action.                                *)
LEMMA OneCallStep ==
    ASSUME Unmistakable, TypeInv, OneCall, [Next]_vars
    PROVE  OneCall'
<1> USE DEF hostVars, history, vars
<1>1. /\ up \in Seq(Token) /\ down \in Seq(Token) /\ hbuf \in Seq(Token)
      /\ Stream \in Seq(Token) /\ Stream = hbuf \o down
  BY Buffers DEF Stream
<1>2. /\ dev \in Commands \cup {None} /\ asked \in Commands \cup {None}
      /\ carried \in Commands \cup {None} /\ None \notin Commands
      /\ proc \in {"down", "opening", "idle", "waiting"}
      /\ proc = "down" => hbuf = <<>>
  BY FramingAssumption DEF TypeInv, TypeOK, FramingAssumption
<1>3. /\ \A i, j \in Live(up) : i = j
      /\ Live(up) # {} =>
            dev = None /\ Replies(Stream) = {} /\ asked # None /\ carried = None
      /\ \A i \in Live(up) : up[i] = Sum(Body(Payload[asked]))
      /\ dev # None => Replies(Stream) = {} /\ dev = asked /\ carried = asked
      /\ Holds(Stream, asked) /\ Tidy(Stream)
      /\ Replies(Stream) # {} => asked # None /\ carried = asked
      /\ carried # None /\ asked # None => carried = asked
      /\ proc = "idle" => asked = None
      /\ proc = "waiting" => asked # None
      /\ proc = "waiting" /\ carried # None => up = <<>>
      /\ proc = "waiting" => Live(up) \subseteq {Len(up)}
  BY DEF OneCall, Holds
<1> DEFINE S == hbuf' \o down'
           Line == /\ \A i, j \in Live(up') : i = j
                   /\ Live(up') # {} =>
                         dev' = None /\ Replies(S) = {} /\ asked' # None /\ carried' = None
                   /\ \A i \in Live(up') : up'[i] = Sum(Body(Payload[asked']))
           Rest == /\ dev' # None => Replies(S) = {} /\ dev' = asked' /\ carried' = asked'
                   /\ Holds(S, asked')
                   /\ Replies(S) # {} => asked' # None /\ carried' = asked'
                   /\ carried' # None /\ asked' # None => carried' = asked'
                   /\ proc' = "idle" => asked' = None
                   /\ proc' = "waiting" => asked' # None
                   /\ proc' = "waiting" /\ carried' # None => up' = <<>>
                   /\ proc' = "waiting" => Live(up') \subseteq {Len(up')}
<1>4. SUFFICES Line /\ Rest
  BY DEF OneCall, Stream
<1>5. ASSUME hbuf' = hbuf, down' = down PROVE S = Stream
  BY <1>1, <1>5
<1> HIDE DEF S
<1>6. CASE UNCHANGED vars
  BY <1>3, <1>5, <1>6
\* What the device skips was of no use to it.
<1>7. ASSUME NEW k \in 1 .. Len(up) + 1, Ends(up) <= k, up' = From(up, k),
             UNCHANGED <<down, dev, hostVars, history>>
      PROVE  Line /\ Rest
  <2>1. /\ \A i, j \in Live(up') : i = j
        /\ Live(up) = {} => Live(up') = {}
        /\ \A i \in Live(up') : up'[i] = Sum(Body(Payload[asked]))
        /\ up = <<>> => up' = <<>>
        /\ Live(up) \subseteq {Len(up)} => Live(up') \subseteq {Len(up')}
    BY <1>7, Skipped
  <2>2. S = Stream
    BY <1>5, <1>7
  <2> QED BY <1>3, <1>7, <2>1, <2>2
<1>8. CASE Hunt
  <2>1. Hunted(up) # up /\ up' = Hunted(up)
    BY <1>8 DEF Hunt
  <2>2. PICK k \in 1 .. Len(up) + 1 : Hunted(up) = From(up, k)
    BY <1>1, HuntPlace
  <2>3. Ends(up) <= k
    <3>1. Ends(up) = 1
      BY <1>1, <2>1, HuntEnds
    <3> QED BY <3>1
  <2> QED BY <1>7, <1>8, <2>1, <2>2, <2>3 DEF Hunt
<1>9. CASE Oversize
  <2>1. HasHeader(up) /\ Length(up) > RxMax /\ up' = From(up, 4)
    BY <1>9 DEF Oversize
  <2>2. 4 \in 1 .. Len(up) + 1 /\ Length(up) \in Nat /\ RxMax \in Nat
    BY <1>1, <2>1, FrontFacts, FramingAssumption DEF FramingAssumption
  <2>3. ~Windowed(up)
    BY <2>1, <2>2 DEF Windowed
  <2>4. Ends(up) <= 4
    BY <2>3 DEF Ends
  <2> QED BY <1>7, <1>9, <2>1, <2>2, <2>4 DEF Oversize
<1>10. CASE Mismatch
  <2>1. Whole(up) /\ Length(up) <= RxMax /\ up' = AfterFrame(up)
    BY <1>10 DEF Mismatch
  <2>2. HasHeader(up)
    BY <2>1 DEF Whole
  <2> DEFINE k == Length(up) + 5
  <2>3. k \in 1 .. Len(up) + 1 /\ AfterFrame(up) = From(up, k) /\ Length(up) \in Nat
    BY <1>1, <2>1, <2>2, FrontFacts
  <2>4. Ends(up) <= k
    BY <2>1, <2>2, <2>3 DEF Ends, Windowed
  <2> HIDE DEF k
  <2> QED BY <1>7, <1>10, <2>1, <2>3, <2>4 DEF Mismatch
\* The one checksum left is that of the command asked for.
<1>11. ASSUME NEW c \in Commands, Deliver(c) PROVE Line /\ Rest
  <2> DEFINE k == Ends(up) + 1
  <2>1. /\ Ends(up) \in Live(up) /\ k \in 1 .. Len(up) + 1 /\ AfterFrame(up) = From(up, k)
    BY <1>1, <1>11, FrontLive DEF Deliver
  <2>2. Ends(up) \in Nat /\ k > Ends(up) /\ Ends(up) <= k
    <3>1. Ends(up) \in Nat
      BY <1>1, EndsFacts
    <3> QED BY <3>1
  <2> HIDE DEF k
  <2>3. /\ up' = From(up, k) /\ dev' = c /\ carried' = c
        /\ UNCHANGED <<down, hbuf, asked, proc>>
    BY <1>11, <2>1 DEF Deliver
  <2>4. Live(up') = {}
    BY <2>1, <2>2, <2>3, Skipped
  <2>5. asked # None /\ Replies(Stream) = {} /\ asked \in Commands
    BY <1>2, <1>3, <2>1
  <2>6. c = asked
    BY <1>11, <2>5, Delivered
  <2>7. ASSUME proc = "waiting" PROVE up' = <<>>
    <3>1. Ends(up) = Len(up)
      BY <1>3, <2>1, <2>7
    <3>2. k = Len(up) + 1 /\ Len(up) \in Nat
      BY <1>1, <3>1, LenProperties DEF k
    <3>3. Len(From(up, k)) = Len(up) - k + 1 /\ From(up, k) \in Seq(Token)
      BY <1>1, <2>1, FromFacts
    <3>4. Len(From(up, k)) = 0
      BY <3>2, <3>3
    <3> QED BY <2>3, <3>3, <3>4, EmptySeq
  <2>8. S = Stream
    BY <1>5, <2>3
  <2> QED BY <1>2, <1>3, <2>3, <2>4, <2>5, <2>6, <2>7, <2>8
\* What the device answers is all there is on the line to the host.
<1>12. ASSUME NEW q \in Seq(Token), hbuf' = hbuf, down' = down \o q PROVE S = Stream \o q
  BY <1>1, <1>12, Regroup DEF S
<1>13. CASE Respond
  <2>1. dev \in Commands /\ dev = asked /\ carried = asked /\ asked # None /\ Replies(Stream) = {}
    BY <1>2, <1>3, <1>13 DEF Respond
  <2> DEFINE q == Pack(Reply[dev])
  <2>2. q \in Seq(Token)
    BY <2>1, Alphabet, PackFacts
  <2>3. S = Stream \o q
    BY <1>12, <1>13, <2>2 DEF Respond
  <2>4. Holds(S, asked)
    BY <1>1, <1>3, <2>1, <2>3, FrameJoins
  <2>5. Live(up) = {}
    BY <1>3, <2>1
  <2> QED BY <1>3, <1>13, <2>1, <2>4, <2>5 DEF Respond
<1>14. ASSUME NEW noise \in Noise, up' = up \o AsBytes(noise)
       PROVE  /\ Live(up') \subseteq Live(up) /\ \A i \in Live(up') : up'[i] = up[i]
  <2>1. AsBytes(noise) \in Seq(Token) /\ \A j \in 1 .. Len(AsBytes(noise)) : ~IsSum(AsBytes(noise)[j])
    BY NoiseFacts
  <2> QED BY <1>1, <1>14, <2>1, LiveJoin
<1>15. ASSUME NEW noise \in Noise, Open(noise) PROVE Line /\ Rest
  <2>1. /\ Live(up') \subseteq Live(up) /\ \A i \in Live(up') : up'[i] = up[i]
    BY <1>14, <1>15 DEF Open
  <2>2. hbuf' = hbuf /\ down' = down
    BY <1>2, <1>15 DEF Open
  <2>3. S = Stream
    BY <1>5, <2>2
  <2> QED BY <1>3, <1>15, <2>1, <2>3 DEF Open
<1>16. ASSUME NEW n \in 1 .. Len(down), Read(n) PROVE Line /\ Rest
  <2> DEFINE k == SearchAt(hbuf)
  <2>1. S = From(Stream, k) /\ k \in 1 .. Len(Stream) + 1
    BY <1>1, <1>16, ReadFacts DEF Read, S
  <2> HIDE DEF k
  <2>2. Holds(S, asked) /\ (Replies(Stream) = {} => Replies(S) = {})
    BY <1>1, <1>3, <2>1, HoldsRest
  <2> QED BY <1>3, <1>16, <2>2 DEF Read
<1>17. CASE Flush
  <2>1. /\ Replies(S) = {} /\ \A c : Holds(S, c)
        /\ dev = None /\ Live(up) = {} /\ asked # None /\ carried = asked
    BY <1>17, Taken DEF Flush, S
  <2> QED BY <1>3, <1>17, <2>1 DEF Flush
<1>18. CASE FlushEnds
  <2>1. Replies(S) = {} /\ (\A c : Holds(S, c)) /\ dev = None /\ Live(up) = {}
    BY <1>18, Quiet DEF FlushEnds, S
  <2> QED BY <1>3, <1>18, <2>1 DEF FlushEnds
<1>19. CASE Take
  <2>1. Replies(S) = {} /\ (\A c : Holds(S, c)) /\ dev = None /\ Live(up) = {}
    BY <1>19, Taken DEF Take, S
  <2> QED BY <1>3, <1>19, <2>1 DEF Take
<1>20. CASE TimeOut
  <2>1. Replies(S) = {} /\ (\A c : Holds(S, c)) /\ dev = None /\ Live(up) = {}
    BY <1>20, Quiet DEF TimeOut, S
  <2> QED BY <1>3, <1>20, <2>1 DEF TimeOut
\* A command, whole or not, brings at most its own checksum, at its end.
<1>21. ASSUME proc = "idle"
       PROVE  /\ asked = None /\ dev = None /\ Live(up) = {} /\ Replies(Stream) = {}
              /\ \A c : Holds(Stream, c)
  <2>1. asked = None /\ dev = None /\ Live(up) = {} /\ Replies(Stream) = {}
    BY <1>3, <1>21
  <2> QED BY <1>3, <2>1, HoldsNone
<1>22. ASSUME NEW c \in Commands, NEW q \in Seq(Token), proc = "idle",
              \A j \in 1 .. Len(q) : IsSum(q[j]) => j = Len(q) /\ q[j] = Sum(Body(Payload[c])),
              up' = up \o q, dev' = dev, hbuf' = hbuf, down' = down,
              asked' = c, carried' = None, proc' = "waiting"
       PROVE  Line /\ Rest
  <2>1. asked = None /\ dev = None /\ Live(up) = {} /\ Replies(Stream) = {} /\ Holds(Stream, c)
    BY <1>21, <1>22
  <2>2. S = Stream /\ c # None
    BY <1>2, <1>5, <1>22
  <2>3. Len(up') = Len(up) + Len(q)
    BY <1>1, <1>22, JoinFacts
  <2>4. ASSUME NEW i \in Live(up') PROVE i = Len(up') /\ up'[i] = Sum(Body(Payload[c]))
    <3>1. PICK j \in 1 .. Len(q) : i = Len(up) + j /\ up'[i] = q[j] /\ IsSum(q[j])
      BY <1>1, <1>22, <2>1, <2>4, LiveJoin
    <3> QED BY <1>22, <2>3, <3>1
  <2> QED BY <1>22, <2>1, <2>2, <2>4
<1>23. ASSUME NEW c \in Commands, Send(c) PROVE Line /\ Rest
  <2> DEFINE q == Pack(Payload[c])
  <2>1. Payload[c] \in Texts
    BY Alphabet
  <2>2. q \in Seq(Token) /\ Len(q) = Len(Payload[c]) + 4
    BY <2>1, PackFacts
  <2>3. \A j \in 1 .. Len(q) : IsSum(q[j]) => j = Len(q) /\ q[j] = Sum(Body(Payload[c]))
    BY <2>1, <2>2, PackSum
  <2> HIDE DEF q
  <2> QED BY <1>22, <1>23, <2>2, <2>3 DEF Send, q
<1>24. CASE Die
  <2> DEFINE k == Len(hbuf) + 1
  <2>1. k \in 1 .. Len(Stream) + 1 /\ From(Stream, k) = down
    BY <1>1, JoinFacts
  <2>2. S = down
    BY <1>1, <1>24, ConcatEmptySeq DEF Die, S
  <2> HIDE DEF k
  <2>3. Holds(S, asked) /\ (Replies(Stream) = {} => Replies(S) = {})
    BY <1>1, <1>3, <2>1, <2>2, HoldsRest
  <2> QED BY <1>3, <1>24, <2>3 DEF Die, Fault
<1>25. ASSUME NEW c \in Commands, DieSending(c) PROVE Line /\ Rest
  <2>1. Payload[c] \in Texts
    BY Alphabet
  <2>2. PICK n \in 1 .. Len(Pack(Payload[c])) - 1 : up' = up \o SubSeq(Pack(Payload[c]), 1, n)
    BY <1>25 DEF DieSending
  <2> DEFINE q == SubSeq(Pack(Payload[c]), 1, n)
  <2>3. q \in Seq(Token) /\ \A j \in 1 .. Len(q) : ~IsSum(q[j])
    <3>1. \A j \in 1 .. Len(q) : ~IsSum(q[j])
      BY <2>1, CutSum
    <3>2. Pack(Payload[c]) \in Seq(Token)
      BY <2>1, PackFacts
    <3>3. 1 \in Nat /\ n \in Nat /\ 1 <= 1 /\ n <= Len(Pack(Payload[c]))
      <4>1. Len(Pack(Payload[c])) \in Nat
        BY <3>2, LenProperties
      <4> QED BY <4>1
    <3> QED BY <3>1, <3>2, <3>3, PartIn
  <2> HIDE DEF q
  <2>4. up' = up \o q
    BY <2>2 DEF q
  <2>5. proc = "idle" /\ hbuf' = <<>>
    BY <1>25 DEF DieSending
  <2>6. asked = None /\ dev = None /\ Live(up) = {} /\ Replies(Stream) = {} /\ Holds(Stream, asked)
    BY <1>21, <2>5
  <2>7. Live(up') = {}
    BY <1>1, <2>3, <2>4, <2>6, LiveJoin
  <2> DEFINE k == Len(hbuf) + 1
  <2>8. k \in 1 .. Len(Stream) + 1 /\ From(Stream, k) = down
    BY <1>1, JoinFacts
  <2>9. S = down
    BY <1>1, <1>25, ConcatEmptySeq DEF DieSending, S
  <2> HIDE DEF k
  <2>10. Holds(S, asked) /\ Replies(S) = {}
    BY <1>1, <2>6, <2>8, <2>9, HoldsRest
  <2> QED BY <1>3, <1>25, <2>6, <2>7, <2>10 DEF DieSending, Fault
<1>26. CASE Unplug
  <2>1. S = <<>> /\ up' = <<>>
    BY <1>26, EmptyLine, ConcatEmptySeq DEF Unplug, S
  <2> QED BY <1>3, <1>26, <2>1, EmptyLine DEF Unplug, Fault
<1>27. ASSUME NEW noise \in Noise, Reset(noise) PROVE Line /\ Rest
  <2>1. AsBytes(noise) \in Seq(Token)
    BY NoiseFacts
  <2>2. S = Stream \o AsBytes(noise)
    BY <1>12, <1>27, <2>1 DEF Reset
  <2>3. /\ Tidy(S) /\ Magics(S) = Magics(Stream) /\ Replies(S) = Replies(Stream)
        /\ \A i \in Replies(Stream) : Text(S, i) = Text(Stream, i)
    BY <1>1, <1>3, <2>2, NoiseJoins
  <2>4. Holds(S, asked)
    BY <1>3, <2>3 DEF Holds
  <2> QED BY <1>3, <1>27, <2>3, <2>4, EmptyLine DEF Reset, Fault
<1>28. ASSUME NEW c \in Commands, SendShort(c) PROVE Line /\ Rest
  <2>1. Payload[c] \in Texts
    BY Alphabet
  <2>2. Pack(Payload[c]) \in Seq(Token)
    BY <2>1, PackFacts
  <2>3. DOMAIN Pack(Payload[c]) = 1 .. Len(Pack(Payload[c]))
    BY <2>2, LenProperties
  <2>4. PICK i \in 1 .. Len(Pack(Payload[c])) : up' = up \o Without(Pack(Payload[c]), i)
    BY <1>28, <2>3 DEF SendShort
  <2> DEFINE q == Without(Pack(Payload[c]), i)
  <2>5. q \in Seq(Token)
    BY <2>2, WithoutFacts
  <2>6. \A j \in 1 .. Len(q) : IsSum(q[j]) => j = Len(q) /\ q[j] = Sum(Body(Payload[c]))
    BY <2>1, ShortSum
  <2>7. up' = up \o q
    BY <2>4
  <2> HIDE DEF q
  <2> QED BY <1>22, <1>28, <2>5, <2>6, <2>7 DEF SendShort
<1>29. ASSUME RespondShort PROVE Line /\ Rest
  <2>1. dev \in Commands /\ dev = asked /\ carried = asked /\ asked # None /\ Replies(Stream) = {}
    BY <1>2, <1>3, <1>29 DEF RespondShort
  <2> DEFINE f == Pack(Reply[dev])
  <2>2. f \in Seq(Token) /\ DOMAIN f = 1 .. Len(f)
    <3>1. f \in Seq(Token)
      BY <2>1, Alphabet, PackFacts
    <3> QED BY <3>1, LenProperties
  <2>3. PICK i \in 1 .. Len(f) : i # 3 /\ down' = down \o Without(f, i)
    BY <1>29, <2>2 DEF RespondShort, Unmistakable
  <2>4. Without(f, i) \in Seq(Token)
    BY <2>2, WithoutFacts
  <2>5. S = Stream \o Without(f, i)
    BY <1>12, <1>29, <2>3, <2>4 DEF RespondShort
  <2>6. Holds(S, asked)
    BY <1>1, <1>3, <2>1, <2>3, <2>5, ShortJoins
  <2>7. Live(up) = {}
    BY <1>3, <2>1
  <2> QED BY <1>3, <1>29, <2>1, <2>6, <2>7 DEF RespondShort, Fault
<1>30. CASE Unencodable
  <2>1. S = Stream
    BY <1>5, <1>30 DEF Unencodable
  <2>2. dev # None
    BY <1>30 DEF Unencodable
  <2> QED BY <1>3, <1>30, <2>1, <2>2 DEF Unencodable, Fault
<1>31. CASE Device
  BY <1>8, <1>9, <1>10, <1>11, <1>13, <1>31 DEF Device
<1>32. CASE Client
  BY <1>15, <1>16, <1>17, <1>18, <1>19, <1>20, <1>23, <1>32 DEF Client
<1>33. CASE Faults
  BY <1>24, <1>25, <1>26, <1>27, <1>28, <1>29, <1>30, <1>33 DEF Faults
<1> QED BY <1>6, <1>31, <1>32, <1>33 DEF Next


LEMMA OneCallInit == ASSUME Init PROVE OneCall
<1>1. <<>> \in Seq(Token)
  BY EmptyLine
<1>2. <<>> \o <<>> = <<>>
  BY <1>1, ConcatEmptySeq
<1>3. Stream = <<>>
  BY <1>2 DEF Init, Stream
<1> QED BY <1>3, EmptyLine DEF Init, OneCall

LEMMA OneAtATime == ASSUME Unmistakable PROVE Spec => [](TypeInv /\ OneCall)
<1>1. Init => TypeInv /\ OneCall
  BY TypeInit, OneCallInit
<1>2. TypeInv /\ OneCall /\ [Next]_vars => (TypeInv /\ OneCall)'
  BY TypeStep, OneCallStep
<1> QED BY <1>1, <1>2, PTL DEF Spec

LEMMA RpcStep ==
    ASSUME Unmistakable, TypeInv, OneCall, [Next]_vars
    PROVE  [R!Next]_(R!vars)
<1> USE DEF hostVars, history, vars
<1>1. /\ asked \in Commands \cup {None} /\ None \notin Commands
  BY FramingAssumption DEF TypeInv, TypeOK, FramingAssumption
<1>2. /\ proc = "idle" => asked = None
      /\ proc = "waiting" => asked # None
      /\ Live(up) # {} => asked # None /\ carried = None
  BY DEF OneCall
<1> DEFINE Same == asked' = asked /\ carried' = carried /\ got' = got
           Asks(c) == asked = None /\ asked' = c /\ carried' = None /\ got' = None
           GivesUp == asked # None /\ asked' = None /\ carried' = carried /\ got' = got
           Carries == /\ asked # None /\ carried = None
                      /\ carried' = asked /\ asked' = asked /\ got' = got
           Returns == /\ asked \in Commands /\ asked # None /\ carried = asked
                      /\ asked' = None /\ carried' = carried /\ got' = AsBytes(Reply[asked])
<1>3. SUFFICES Same \/ (\E c \in Commands : Asks(c)) \/ GivesUp \/ Carries \/ Returns
  <2>1. Same => UNCHANGED R!vars
    BY DEF R!vars
  <2>2. \A c \in Commands : Asks(c) => R!Ask(c)
    BY DEF R!Ask
  <2>3. GivesUp => R!GiveUp
    BY DEF R!GiveUp
  <2>4. Carries => R!CarryOut
    BY DEF R!CarryOut
  <2>5. Returns => R!Return
    BY DEF R!Return
  <2> QED BY <2>1, <2>2, <2>3, <2>4, <2>5 DEF R!Next
<1>4. CASE UNCHANGED vars
  BY <1>4
<1>5. ASSUME NEW c \in Commands, Deliver(c) PROVE Carries
  <2>1. up \in Seq(Token)
    BY Buffers
  <2>2. Ends(up) \in Live(up)
    BY <1>5, <2>1, FrontLive DEF Deliver
  <2>3. asked # None /\ carried = None /\ asked \in Commands
    BY <1>1, <1>2, <2>2
  <2>4. c = asked
    BY <1>5, <2>3, Delivered
  <2> QED BY <1>5, <2>3, <2>4 DEF Deliver
<1>6. CASE Device
  <2>1. Hunt \/ Oversize \/ Mismatch \/ Respond => Same
    BY DEF Hunt, Oversize, Mismatch, Respond
  <2> QED BY <1>5, <1>6, <2>1 DEF Device
<1>7. CASE Flush
  <2>1. asked # None
    BY <1>7, Taken DEF Flush
  <2> QED BY <1>7, <2>1 DEF Flush
<1>8. CASE FlushEnds
  BY <1>8 DEF FlushEnds
<1>9. CASE Take
  <2>1. /\ asked \in Commands /\ asked # None /\ carried = asked
        /\ Content(Searched(hbuf)) = AsBytes(Reply[asked])
    BY <1>9, Taken DEF Take
  <2> QED BY <1>9, <2>1 DEF Take
<1>10. CASE TimeOut
  BY <1>2, <1>10 DEF TimeOut
<1>11. CASE Client
  <2>1. ASSUME NEW noise \in Noise, Open(noise) PROVE Same
    BY <2>1 DEF Open
  <2>2. ASSUME NEW n \in 1 .. Len(down), Read(n) PROVE Same
    BY <2>2 DEF Read
  <2>3. ASSUME NEW c \in Commands, Send(c) PROVE Asks(c)
    BY <1>2, <2>3 DEF Send
  <2> QED BY <1>7, <1>8, <1>9, <1>10, <1>11, <2>1, <2>2, <2>3 DEF Client
<1>12. CASE Faults
  <2>1. Die \/ Unplug \/ RespondShort \/ Unencodable => Same
    BY DEF Die, Unplug, RespondShort, Unencodable
  <2>2. ASSUME NEW noise \in Noise, Reset(noise) PROVE Same
    BY <2>2 DEF Reset
  <2>3. ASSUME NEW c \in Commands, DieSending(c) PROVE Same
    BY <2>3 DEF DieSending
  <2>4. ASSUME NEW c \in Commands, SendShort(c) PROVE Asks(c)
    BY <1>2, <2>4 DEF SendShort
  <2> QED BY <1>12, <2>1, <2>2, <2>3, <2>4 DEF Faults
<1> QED BY <1>4, <1>6, <1>11, <1>12 DEF Next

(* The channel is a sequence of calls (api/host_api.cpp, api/_transport.py, *)
(* api/client.py): a command is carried out at most once and only for the   *)
(* caller that still waits for it, and what a call returns is the device's  *)
(* answer to its own command.  For any commands, whatever bytes are lost,   *)
(* programs killed and devices restarted, as long as no time-out comes      *)
(* before the device is done, no LEN of a reply is lost, and the frames to  *)
(* the host are unmistakable.                                               *)
THEOREM CallsAreCalls == Unmistakable => (Spec => ImplementsRpc)
<1> SUFFICES ASSUME Unmistakable PROVE Spec => ImplementsRpc
  OBVIOUS
<1>1. Init => R!Init
  BY DEF Init, R!Init
<1>2. TypeInv /\ OneCall /\ [Next]_vars => [R!Next]_(R!vars)
  BY RpcStep
<1>3. Spec => [](TypeInv /\ OneCall)
  BY OneAtATime
<1> QED BY <1>1, <1>2, <1>3, PTL DEF Spec, ImplementsRpc, R!Spec

-----------------------------------------------------------------------------
(* Both ends are in step while nothing was lost since the last answer: the  *)
(* line to the device is clear but for an A5 until a command is sent, and   *)
(* then it, the device or the line to the host has what the caller awaits.  *)
InStep ==
    ~faulted =>
        /\ proc \in {"down", "opening"} => dev = None /\ Replies(Stream) = {}
        /\ proc = "down" => up = <<>>
        /\ proc = "opening" => Magics(up) = {}
        /\ proc = "idle" => up \in {<<>>, <<A5>>}
        /\ proc = "waiting" =>
              \/ up \in {Pack(Payload[asked]), <<A5>> \o Pack(Payload[asked])}
              \/ dev # None
              \/ Replies(Stream) # {}

LEMMA ClearLine ==
    ASSUME NEW s \in {<<>>, <<A5>>}
    PROVE  s \in Seq(Token) /\ Magics(s) = {} /\ Hunted(s) = s /\ ~HasHeader(s)
<1>1. CASE s = <<>>
  <2>1. s \in Seq(Token) /\ Magics(s) = {} /\ Len(s) = 0
    BY <1>1, EmptyLine
  <2> QED BY <1>1, <2>1 DEF Hunted, HasHeader
<1>2. CASE s = <<A5>>
  <2>1. s \in Seq(Token) /\ Len(s) = 1 /\ s[1] = A5 /\ s # <<>>
    BY <1>2, MarkFacts
  <2>2. Magics(s) = {}
    BY <2>1 DEF Magics
  <2>3. s[Len(s)] = A5
    BY <2>1
  <2>4. Hunted(s) = s
    BY <1>2, <2>1, <2>2, <2>3 DEF Hunted
  <2> QED BY <2>1, <2>2, <2>4 DEF HasHeader
<1> QED BY <1>1, <1>2

(* A command on a clear line, or behind an A5, which keeps the scan armed.  *)
LEMMA Armed ==
    ASSUME NEW p \in Texts
    PROVE  /\ Hunted(Pack(p)) = Pack(p)
           /\ <<A5>> \o Pack(p) \in Seq(Token)
           /\ Hunted(<<A5>> \o Pack(p)) = Pack(p) /\ <<A5>> \o Pack(p) # Pack(p)
           /\ ~HasHeader(<<A5>> \o Pack(p))
<1> DEFINE f == Pack(p)
           a == <<A5>>
           g == a \o f
<1>1. f \in Seq(Token) /\ 1 \in Magics(f) /\ Len(f) \in Nat
  <2>1. f \in Seq(Token) /\ 1 \in Magics(f)
    BY PackFrame
  <2> QED BY <2>1, MagicFacts
<1>2. a \in Seq(Token) /\ Len(a) = 1 /\ a[1] = A5
  BY MarkFacts
<1>3. f[1] = A5
  BY <1>1, MagicFacts
<1>4. A5 # x5A
  BY MarkFacts
<1> HIDE DEF f, a
<1>5. Hunted(f) = f
  <2>1. Magics(f) \in SUBSET Nat
    BY <1>1, MagicFacts
  <2>2. Min(Magics(f)) \in Magics(f) /\ Min(Magics(f)) <= 1
    BY <1>1, <2>1, LeastOf
  <2>3. Min(Magics(f)) = 1
    <3>1. Min(Magics(f)) \in Nat /\ 1 <= Min(Magics(f))
      BY <1>1, <2>2, MagicFacts
    <3> QED BY <2>2, <3>1
  <2> QED BY <1>1, <2>3, FromFirst DEF Hunted
<1>6. /\ g \in Seq(Token) /\ Len(g) = Len(a) + Len(f)
      /\ \A i \in 1 .. Len(a) : g[i] = a[i]
      /\ \A i \in 1 .. Len(f) : g[Len(a) + i] = f[i]
      /\ From(g, Len(a) + 1) = f
  BY <1>1, <1>2, JoinFacts
<1>7. \A i \in Magics(f) : Len(a) + i \in Magics(g)
  BY <1>1, <1>2, JoinMagics
<1> HIDE DEF g
<1>8. Len(g) = 1 + Len(f) /\ g[1] = A5 /\ g[2] = A5 /\ From(g, 2) = f /\ 2 \in Magics(g)
  <2>1. 1 \in 1 .. Len(a) /\ 1 \in 1 .. Len(f) /\ Len(a) + 1 = 2
    <3>1. Len(f) # 0
      BY <1>1, MagicFacts
    <3> QED BY <1>1, <1>2, <3>1
  <2>2. g[1] = a[1] /\ g[Len(a) + 1] = f[1] /\ Len(a) + 1 \in Magics(g)
    BY <1>1, <1>6, <1>7, <2>1
  <2> QED BY <1>2, <1>3, <1>6, <2>1, <2>2
<1>9. Hunted(g) = f
  <2>1. Magics(g) \in SUBSET Nat
    BY <1>6, MagicFacts
  <2>2. Min(Magics(g)) \in Magics(g) /\ Min(Magics(g)) <= 2
    BY <1>8, <2>1, LeastOf
  <2>3. 1 \notin Magics(g)
    <3>1. g[1 + 1] # x5A
      BY <1>4, <1>8
    <3> QED BY <3>1 DEF Magics
  <2>4. Min(Magics(g)) = 2
    <3>1. Min(Magics(g)) \in Nat /\ 1 <= Min(Magics(g)) /\ Min(Magics(g)) # 1
      BY <1>6, <2>2, <2>3, MagicFacts
    <3> QED BY <2>2, <3>1
  <2> QED BY <1>8, <2>4 DEF Hunted
<1>10. g # f
  BY <1>1, <1>8
<1>11. ~HasHeader(g)
  BY <1>4, <1>8 DEF HasHeader
<1> QED BY <1>5, <1>6, <1>9, <1>10, <1>11 DEF f, a, g

(* A chunk read leaves the reply there is.                                  *)
LEMMA ReadKeeps ==
    ASSUME TypeInv, OneCall, ~FrameReady(hbuf), NEW r \in Replies(Stream)
    PROVE  Replies(From(Stream, SearchAt(hbuf))) # {}
<1> DEFINE k == SearchAt(hbuf)
<1>1. hbuf \in Seq(Token) /\ down \in Seq(Token) /\ Stream \in Seq(Token)
  BY Buffers
<1>2. k \in 1 .. Len(hbuf) + 1
  BY <1>1, SearchFacts
<1>3. k <= r
  BY <1>1, SearchSafe DEF Stream
<1> HIDE DEF k
<1>4. k \in 1 .. Len(Stream) + 1
  BY <1>1, <1>2, FromJoin DEF Stream
<1>5. r \in Nat /\ k \in Nat
  BY <1>1, <1>2, MagicFacts DEF Replies
<1>6. r >= k
  BY <1>3, <1>5
<1>7. r - k + 1 \in Replies(From(Stream, k))
  BY <1>1, <1>4, <1>6, RestReplies
<1> QED BY <1>7 DEF k

LEMMA InStepInit == ASSUME Init PROVE InStep
<1>1. <<>> \o <<>> = <<>>
  BY EmptyLine, ConcatEmptySeq
<1>2. Stream = <<>>
  BY <1>1 DEF Init, Stream
<1> QED BY <1>2, EmptyLine DEF Init, InStep

(* A caller in step that waits is not left with nothing to come.            *)
LEMMA InStepWaits ==
    ASSUME Unmistakable, TypeInv, OneCall, InStep, ~faulted, proc = "waiting", NothingComes
    PROVE  FALSE
<1>1. /\ dev = None /\ Replies(Stream) = {} /\ Hunted(up) = up
      /\ HasHeader(up) => Length(up) <= RxMax /\ ~Whole(up)
  BY Quiet
<1>2. up \in {Pack(Payload[asked]), <<A5>> \o Pack(Payload[asked])}
  BY <1>1 DEF InStep
<1>3. asked \in Commands
  BY DEF TypeInv, TypeOK, OneCall
<1>4. Payload[asked] \in Texts
  BY <1>3, Alphabet
<1>5. up = Pack(Payload[asked])
  BY <1>1, <1>2, <1>4, Armed
<1>6. HasHeader(up) /\ Whole(up)
  BY <1>4, <1>5, PackFrame
<1> QED BY <1>1, <1>6

LEMMA InStepStep ==
    ASSUME Unmistakable, TypeInv, OneCall, InStep, [Next]_vars
    PROVE  InStep'
<1> USE DEF hostVars, history, vars
<1>1. /\ up \in Seq(Token) /\ down \in Seq(Token) /\ hbuf \in Seq(Token)
      /\ Stream \in Seq(Token) /\ Stream = hbuf \o down
  BY Buffers DEF Stream
<1>2. /\ dev \in Commands \cup {None} /\ asked \in Commands \cup {None} /\ None \notin Commands
      /\ proc \in {"down", "opening", "idle", "waiting"} /\ faulted \in BOOLEAN
      /\ proc = "down" => hbuf = <<>>
  BY FramingAssumption DEF TypeInv, TypeOK, FramingAssumption
<1>3. /\ dev # None => Replies(Stream) = {} /\ dev = asked
      /\ Holds(Stream, asked) /\ Tidy(Stream)
      /\ proc = "idle" => asked = None
      /\ proc = "waiting" => asked # None
      /\ proc = "waiting" /\ carried # None => up = <<>>
  BY DEF OneCall, Holds
<1>4. ASSUME ~faulted
      PROVE  /\ proc \in {"down", "opening"} => dev = None /\ Replies(Stream) = {}
             /\ proc = "down" => up = <<>>
             /\ proc = "opening" => Magics(up) = {}
             /\ proc = "idle" => up \in {<<>>, <<A5>>}
             /\ proc = "waiting" =>
                   \/ up \in {Pack(Payload[asked]), <<A5>> \o Pack(Payload[asked])}
                   \/ dev # None
                   \/ Replies(Stream) # {}
  BY <1>4 DEF InStep
<1> DEFINE S == hbuf' \o down'
           Goal == /\ proc' \in {"down", "opening"} => dev' = None /\ Replies(S) = {}
                   /\ proc' = "down" => up' = <<>>
                   /\ proc' = "opening" => Magics(up') = {}
                   /\ proc' = "idle" => up' \in {<<>>, <<A5>>}
                   /\ proc' = "waiting" =>
                         \/ up' \in {Pack(Payload[asked']), <<A5>> \o Pack(Payload[asked'])}
                         \/ dev' # None
                         \/ Replies(S) # {}
<1>5. SUFFICES ASSUME ~faulted' PROVE Goal
  BY DEF InStep, Stream
<1>6. ASSUME hbuf' = hbuf, down' = down PROVE S = Stream
  BY <1>1, <1>6
<1> HIDE DEF S
<1>7. CASE UNCHANGED vars
  BY <1>4, <1>5, <1>6, <1>7
\* With a magic at its front the line holds the command, or what it held is
\* not what the caller waits for.
<1>8. ASSUME ~faulted, dev = None, HasHeader(up)
      PROVE  /\ proc = "waiting"
             /\ \/ up = Pack(Payload[asked]) /\ Whole(up) /\ Intact(up) /\ Length(up) <= RxMax
                \/ Replies(Stream) # {}
  <2>1. 1 \in Magics(up)
    BY <1>1, <1>8, FrontFacts
  <2>2. proc = "waiting"
    BY <1>2, <1>4, <1>8, <2>1, ClearLine, EmptyLine
  <2>3. asked \in Commands
    BY <1>2, <1>3, <2>2
  <2>4. Payload[asked] \in Texts /\ Len(Payload[asked]) <= RxMax
    BY <2>3, Alphabet, FramingAssumption DEF FramingAssumption
  <2>5. up # <<A5>> \o Pack(Payload[asked])
    BY <1>8, <2>4, Armed
  <2>6. CASE up = Pack(Payload[asked])
    BY <2>2, <2>4, <2>6, PackFrame
  <2> QED BY <1>4, <1>8, <2>2, <2>5, <2>6
<1>9. CASE Hunt
  <2>1. ~faulted /\ dev = None /\ Hunted(up) # up /\ up' = Hunted(up)
    BY <1>5, <1>9 DEF Hunt
  <2>2. S = Stream
    BY <1>6, <1>9 DEF Hunt
  <2>3. up \notin {<<>>, <<A5>>}
    BY <2>1, ClearLine
  <2>4. proc \in {"opening", "waiting"}
    BY <1>2, <1>4, <2>1, <2>3
  <2>5. CASE proc = "opening"
    <3>1. PICK k \in 1 .. Len(up) + 1 : Hunted(up) = From(up, k)
      BY <1>1, HuntPlace
    <3>2. \A j \in Magics(From(up, k)) : k + j - 1 \in Magics(up)
      BY <1>1, RestFacts
    <3>3. Magics(up') = {}
      BY <1>4, <2>1, <2>5, <3>1, <3>2
    <3> QED BY <1>4, <1>9, <2>1, <2>2, <2>5, <3>3 DEF Hunt
  <2>6. CASE proc = "waiting"
    <3>1. Payload[asked] \in Texts
      BY <1>2, <1>3, <2>6, Alphabet
    <3>2. CASE up \in {Pack(Payload[asked]), <<A5>> \o Pack(Payload[asked])}
      <4>1. up' = Pack(Payload[asked])
        BY <2>1, <3>1, <3>2, Armed
      <4> QED BY <1>9, <2>6, <4>1 DEF Hunt
    <3>3. CASE Replies(Stream) # {}
      BY <1>9, <2>2, <2>6, <3>3 DEF Hunt
    <3> QED BY <1>4, <2>1, <2>6, <3>2, <3>3
  <2> QED BY <2>4, <2>5, <2>6
<1>10. CASE Oversize
  <2>1. ~faulted /\ dev = None /\ HasHeader(up) /\ Length(up) > RxMax
    BY <1>5, <1>10 DEF Oversize
  <2>2. Length(up) \in Nat /\ RxMax \in Nat
    BY <1>1, <2>1, FrontFacts, FramingAssumption DEF FramingAssumption
  <2>3. proc = "waiting" /\ Replies(Stream) # {}
    BY <1>8, <2>1, <2>2
  <2> QED BY <1>6, <1>10, <2>3 DEF Oversize
<1>11. CASE Mismatch
  <2>1. ~faulted /\ dev = None /\ HasHeader(up) /\ ~Intact(up)
    BY <1>5, <1>11 DEF Mismatch, Whole
  <2>2. proc = "waiting" /\ Replies(Stream) # {}
    BY <1>8, <2>1
  <2> QED BY <1>6, <1>11, <2>2 DEF Mismatch
<1>12. ASSUME NEW c \in Commands, Deliver(c) PROVE Goal
  <2>1. ~faulted /\ dev = None /\ HasHeader(up) /\ dev' = c /\ proc' = proc
    BY <1>5, <1>12 DEF Deliver, Whole
  <2>2. proc = "waiting" /\ c # None
    BY <1>2, <1>8, <2>1
  <2> QED BY <2>1, <2>2
<1>13. CASE Respond
  <2>1. ~faulted /\ dev # None /\ dev \in Commands /\ down' = down \o Pack(Reply[dev])
        /\ hbuf' = hbuf /\ proc' = proc
    BY <1>2, <1>5, <1>13 DEF Respond
  <2>2. proc = "waiting"
    BY <1>2, <1>3, <1>4, <2>1
  <2>3. Pack(Reply[dev]) \in Seq(Token)
    BY <2>1, Alphabet, PackFacts
  <2>4. S = Stream \o Pack(Reply[dev])
    BY <1>1, <2>1, <2>3, Regroup DEF S
  <2>5. Replies(S) # {}
    BY <1>1, <1>3, <2>1, <2>4, FrameJoins
  <2> QED BY <2>1, <2>2, <2>5
<1>14. ASSUME NEW noise \in Noise, Open(noise) PROVE Goal
  <2>1. ~faulted /\ proc = "down" /\ proc' = "opening" /\ up' = up \o AsBytes(noise)
        /\ dev' = dev /\ down' = down /\ hbuf' = <<>>
    BY <1>5, <1>14 DEF Open
  <2>2. hbuf' = hbuf /\ S = Stream
    BY <1>2, <1>6, <2>1
  <2>3. AsBytes(noise) \in Seq(Token) /\ Magics(AsBytes(noise)) = {}
    BY NoiseFacts DEF Unmistakable
  <2>4. up' = AsBytes(noise)
    BY <1>4, <2>1, <2>3, ConcatEmptySeq
  <2> QED BY <1>4, <2>1, <2>2, <2>3, <2>4
<1>15. ASSUME NEW n \in 1 .. Len(down), Read(n) PROVE Goal
  <2> DEFINE k == SearchAt(hbuf)
  <2>1. S = From(Stream, k) /\ k \in 1 .. Len(Stream) + 1
    BY <1>1, <1>15, ReadFacts DEF Read, S
  <2>2. Replies(Stream) # {} => Replies(From(Stream, k)) # {}
    BY <1>15, ReadKeeps DEF Read
  <2> HIDE DEF k
  <2>3. Replies(Stream) = {} => Replies(S) = {}
    BY <1>1, <1>3, <2>1, HoldsRest
  <2>4. UNCHANGED <<up, dev, proc, asked, faulted>>
    BY <1>15 DEF Read
  <2> QED BY <1>2, <1>4, <1>5, <2>1, <2>2, <2>3, <2>4
<1>16. CASE Flush
  <2>1. ~faulted /\ proc = "opening" /\ Replies(Stream) # {}
    BY <1>5, <1>16, Taken DEF Flush
  <2> QED BY <1>4, <2>1
<1>17. CASE FlushEnds
  <2>1. ~faulted /\ proc = "opening" /\ proc' = "idle" /\ up' = up
    BY <1>5, <1>17 DEF FlushEnds
  <2>2. up \in {<<>>, <<A5>>}
    BY <1>4, <1>17, <2>1, Quiet DEF FlushEnds
  <2> QED BY <2>1, <2>2
<1>18. CASE Take
  <2>1. carried # None
    BY <1>18, Taken DEF Take
  <2>2. proc' = "idle" /\ up' = up /\ up = <<>>
    BY <1>3, <1>18, <2>1 DEF Take
  <2> QED BY <2>2
<1>19. CASE TimeOut
  <2>1. ~faulted /\ proc = "waiting"
    BY <1>5, <1>19 DEF TimeOut
  <2> QED BY <1>19, <2>1, InStepWaits DEF TimeOut
<1>20. ASSUME NEW c \in Commands, Send(c) PROVE Goal
  <2>1. /\ ~faulted /\ proc = "idle" /\ proc' = "waiting" /\ asked' = c
        /\ up' = up \o Pack(Payload[c])
    BY <1>5, <1>20 DEF Send
  <2>2. Pack(Payload[c]) \in Seq(Token)
    BY Alphabet, PackFacts
  <2>3. up = <<>> => up' = Pack(Payload[c])
    BY <2>1, <2>2, ConcatEmptySeq
  <2> QED BY <1>4, <2>1, <2>3
<1>21. CASE Faults
  BY <1>5, <1>21 DEF Faults, Die, Unplug, RespondShort, Unencodable, DieSending, SendShort,
                     Reset, Fault
<1>22. CASE Device
  BY <1>9, <1>10, <1>11, <1>12, <1>13, <1>22 DEF Device
<1>23. CASE Client
  BY <1>14, <1>15, <1>16, <1>17, <1>18, <1>19, <1>20, <1>23 DEF Client
<1> QED BY <1>7, <1>21, <1>22, <1>23 DEF Next

LEMMA InStepTogether == ASSUME Unmistakable PROVE Spec => [](TypeInv /\ OneCall /\ InStep)
<1>1. Init => InStep
  BY InStepInit
<1>2. TypeInv /\ OneCall /\ InStep /\ [Next]_vars => InStep'
  BY InStepStep
<1>3. Spec => [](TypeInv /\ OneCall)
  BY OneAtATime
<1> QED BY <1>1, <1>2, <1>3, PTL DEF Spec

(* A call times out only after a fault: whatever arrives before it and      *)
(* however its bytes are cut into chunks, a call on an undisturbed link is  *)
(* answered (link_sync_magic, next_frame).  Under the conditions of         *)
(* CallsAreCalls.                                                           *)
THEOREM NothingLost == Unmistakable => (Spec => NothingLostUnprovoked)
<1> SUFFICES ASSUME Unmistakable PROVE Spec => NothingLostUnprovoked
  OBVIOUS
<1>1. TypeInv /\ OneCall /\ InStep => [TimeOut => faulted]_vars
  BY InStepWaits DEF TypeInv, TypeOK, TimeOut
<1>2. Spec => [](TypeInv /\ OneCall /\ InStep)
  BY InStepTogether
<1> QED BY <1>1, <1>2, PTL DEF NothingLostUnprovoked
=============================================================================
