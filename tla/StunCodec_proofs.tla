--------------------------- MODULE StunCodec_proofs ---------------------------
(***************************************************************************)
(* The codec returns what the bytes mean, for all datagrams, and writes    *)
(* every request so that it reads back.  Any bytes are a datagram.         *)
(***************************************************************************)
EXTENDS StunCodec, SequenceTheorems, TLAPS

\* Membership of an interval, told by the order.
LEMMA UpTo == ASSUME NEW top \in Nat, NEW n PROVE n \in 0..top <=> n \in Nat /\ n <= top
OBVIOUS

\* A byte is a number up to 255.
LEMMA ByteRange == \A n : n \in Byte <=> n \in Nat /\ n <= 255
<1> DEFINE top == 255
<1>1. top <= 255 /\ 255 <= top /\ top \in Nat /\ Byte = 0..top
  BY DEF Byte
<1> HIDE DEF top
<1> QED
  BY <1>1, UpTo

\* A u16 is a number up to 65535.
LEMMA U16Range == U16_MAX \in Nat /\ \A n : n \in 0..U16_MAX <=> n \in Nat /\ n <= 65535
<1>1. U16_MAX \in Nat /\ U16_MAX <= 65535 /\ 65535 <= U16_MAX
  BY DEF U16_MAX
<1> QED
  BY <1>1, UpTo

\* A sequence of bytes is a function from its positions to bytes.
LEMMA ByteSeq ==
  ASSUME NEW s \in Seq(Byte)
  PROVE  /\ Len(s) \in Nat
         /\ DOMAIN s = 1..Len(s)
         /\ \A i \in 1..Len(s) : s[i] \in Byte
BY LenProperties

\* A part of a sequence of bytes.
LEMMA Slice ==
  ASSUME NEW s \in Seq(Byte), NEW m \in Nat \ {0}, NEW n \in Nat, m <= n + 1, n <= Len(s)
  PROVE  /\ SubSeq(s, m, n) \in Seq(Byte)
         /\ Len(SubSeq(s, m, n)) = n + 1 - m
         /\ \A i \in 1..(n + 1 - m) : SubSeq(s, m, n)[i] = s[m + i - 1]
<1>1. \A i \in m..n : s[i] \in Byte
  BY ByteSeq
<1>2. m \in Int /\ n \in Int /\ n - m + 1 = n + 1 - m
  OBVIOUS
<1>3. /\ SubSeq(s, m, n) \in Seq(Byte)
      /\ Len(SubSeq(s, m, n)) = IF m <= n THEN n - m + 1 ELSE 0
      /\ \A i \in 1..(n - m + 1) : SubSeq(s, m, n)[i] = s[m + i - 1]
  BY <1>1, <1>2, SubSeqProperties
<1> QED
  BY <1>2, <1>3

\* A part of a part.
LEMMA SliceOfSlice ==
  ASSUME NEW s \in Seq(Byte), NEW a \in Nat, NEW b \in Nat, a <= b, b <= Len(s),
         NEW m \in Nat \ {0}, NEW n \in Nat, m <= n + 1, n <= b - a
  PROVE  SubSeq(SubSeq(s, a + 1, b), m, n) = SubSeq(s, a + m, a + n)
<1> DEFINE t == SubSeq(s, a + 1, b)
           u == SubSeq(t, m, n)
           v == SubSeq(s, a + m, a + n)
<1>1. t \in Seq(Byte) /\ Len(t) = b - a /\ \A i \in 1..(b - a) : t[i] = s[a + i]
  <2>1. a + 1 \in Nat \ {0} /\ a + 1 <= b + 1 /\ b + 1 - (a + 1) = b - a
    OBVIOUS
  <2>2. \A i \in 1..(b - a) : (a + 1) + i - 1 = a + i
    OBVIOUS
  <2> QED
    BY <2>1, <2>2, Slice
<1>2. u \in Seq(Byte) /\ Len(u) = n + 1 - m /\ \A i \in 1..(n + 1 - m) : u[i] = t[m + i - 1]
  <2> HIDE DEF t
  <2> QED
    BY <1>1, Slice
<1>3. v \in Seq(Byte) /\ Len(v) = n + 1 - m
      /\ \A i \in 1..(n + 1 - m) : v[i] = s[(a + m) + i - 1]
  <2>1. a + m \in Nat \ {0} /\ a + n \in Nat /\ a + m <= a + n + 1 /\ a + n <= Len(s)
        /\ (a + n) + 1 - (a + m) = n + 1 - m
    BY ByteSeq
  <2> QED
    BY <2>1, Slice
<1>4. \A i \in 1..Len(u) : u[i] = v[i]
  <2> SUFFICES ASSUME NEW i \in 1..(n + 1 - m) PROVE u[i] = v[i]
    BY <1>2
  <2>1. m + i - 1 \in 1..(b - a) /\ a + (m + i - 1) = (a + m) + i - 1
    OBVIOUS
  <2> HIDE DEF t, u, v
  <2> QED
    BY <1>1, <1>2, <1>3, <2>1
<1> HIDE DEF t, u, v
<1>5. u = v
  BY <1>2, <1>3, <1>4, SeqEqual
<1> QED
  BY <1>5 DEF t, u, v

\* A part of a beginning of a sequence of bytes.
LEMMA SliceOfPrefix ==
  ASSUME NEW s \in Seq(Byte), NEW k \in Nat, k <= Len(s),
         NEW m \in Nat \ {0}, NEW n \in Nat, m <= n + 1, n <= k
  PROVE  SubSeq(SubSeq(s, 1, k), m, n) = SubSeq(s, m, n)
<1>1. 0 + 1 = 1 /\ 0 + m = m /\ 0 + n = n /\ k - 0 = k /\ 0 <= k
  OBVIOUS
<1>2. SubSeq(SubSeq(s, 0 + 1, k), m, n) = SubSeq(s, 0 + m, 0 + n)
  BY <1>1, SliceOfSlice
<1> QED
  BY <1>1, <1>2

\* Two bytes hold a 16-bit number, the high byte first.
LEMMA BigEndianFacts ==
  ASSUME NEW n \in 0..U16_MAX
  PROVE  /\ BigEndian(n) \in Seq(Byte) /\ Len(BigEndian(n)) = 2
         /\ BigEndian(n)[1] = n \div 256 /\ BigEndian(n)[2] = n % 256
         /\ n \div 256 \in Byte /\ n % 256 \in Byte
         /\ 256 * (n \div 256) + (n % 256) = n
<1>1. n \in Nat /\ n <= 65535
  BY U16Range
<1>2. n % 256 \in Nat /\ n % 256 <= 255 /\ n \div 256 \in Nat
      /\ 256 * (n \div 256) + (n % 256) = n
  BY <1>1, SMT
<1>3. ASSUME NEW q \in Nat, NEW r \in Nat, 256 * q + r = n
      PROVE  q <= 255
  BY <1>1, <1>3, SMT
<1>4. n \div 256 \in Byte /\ n % 256 \in Byte
  BY <1>2, <1>3, ByteRange
<1> QED
  BY <1>2, <1>4 DEF BigEndian

\* Where the parts of a concatenation are.
LEMMA Joined ==
  ASSUME NEW s \in Seq(Byte), NEW t \in Seq(Byte)
  PROVE  /\ s \o t \in Seq(Byte)
         /\ Len(s \o t) = Len(s) + Len(t)
         /\ \A i \in 1..Len(s) : (s \o t)[i] = s[i]
         /\ \A i \in 1..Len(t) : (s \o t)[Len(s) + i] = t[i]
         /\ SubSeq(s \o t, 1, Len(s)) = s
         /\ SubSeq(s \o t, Len(s) + 1, Len(s) + Len(t)) = t
<1> DEFINE j == s \o t
<1>1. /\ j \in Seq(Byte) /\ Len(j) = Len(s) + Len(t)
      /\ \A i \in 1..(Len(s) + Len(t)) : j[i] = IF i <= Len(s) THEN s[i] ELSE t[i - Len(s)]
  BY ConcatProperties
<1> HIDE DEF j
<1>2. Len(s) \in Nat /\ Len(t) \in Nat
  BY ByteSeq
<1>3. \A i \in 1..Len(s) : j[i] = s[i]
  BY <1>1, <1>2
<1>4. \A i \in 1..Len(t) : j[Len(s) + i] = t[i]
  <2> SUFFICES ASSUME NEW i \in 1..Len(t) PROVE j[Len(s) + i] = t[i]
    OBVIOUS
  <2>1. Len(s) + i \in 1..(Len(s) + Len(t)) /\ ~(Len(s) + i <= Len(s)) /\ Len(s) + i - Len(s) = i
    BY <1>2
  <2> QED
    BY <1>1, <2>1
<1>5. SubSeq(j, 1, Len(s)) = s
  <2>1. 1 \in Nat \ {0} /\ 1 <= Len(s) + 1 /\ Len(s) <= Len(j) /\ Len(s) + 1 - 1 = Len(s)
        /\ \A i \in 1..Len(s) : 1 + i - 1 = i
    BY <1>1, <1>2
  <2>2. SubSeq(j, 1, Len(s)) \in Seq(Byte) /\ Len(SubSeq(j, 1, Len(s))) = Len(s)
        /\ \A i \in 1..Len(s) : SubSeq(j, 1, Len(s))[i] = j[i]
    BY <1>1, <1>2, <2>1, Slice
  <2> QED
    BY <2>2, <1>3, SeqEqual
<1>6. SubSeq(j, Len(s) + 1, Len(s) + Len(t)) = t
  <2> DEFINE r == SubSeq(j, Len(s) + 1, Len(s) + Len(t))
  <2>1. /\ Len(s) + 1 \in Nat \ {0} /\ Len(s) + Len(t) \in Nat
        /\ Len(s) + 1 <= Len(s) + Len(t) + 1 /\ Len(s) + Len(t) <= Len(j)
        /\ Len(s) + Len(t) + 1 - (Len(s) + 1) = Len(t)
        /\ \A i \in 1..Len(t) : Len(s) + 1 + i - 1 = Len(s) + i
    BY <1>1, <1>2
  <2>2. r \in Seq(Byte) /\ Len(r) = Len(t) /\ \A i \in 1..Len(t) : r[i] = j[Len(s) + i]
    BY <1>1, <2>1, Slice
  <2> HIDE DEF r
  <2>3. r = t
    BY <2>2, <1>4, SeqEqual
  <2> QED
    BY <2>3 DEF r
<1> QED
  BY <1>1, <1>3, <1>4, <1>5, <1>6 DEF j

Headers == [typ : 0..U16_MAX, length : 0..U16_MAX, id1 : Bytes({8}), id2 : Bytes({8})]

\* The fields of a message are where decode_const reads them.
LEMMA MessageFields ==
  ASSUME NEW h \in Headers, NEW body \in Seq(Byte)
  PROVE  LET m == Message(h, body)
         IN  /\ m \in Seq(Byte) /\ Len(m) = 20 + Len(body)
             /\ U16At(m, 0) = h.typ /\ U16At(m, 2) = h.length
             /\ SubSeq(m, 5, 12) = h.id1 /\ SubSeq(m, 13, 20) = h.id2
             /\ SubSeq(m, 5, 20) = h.id1 \o h.id2
             /\ SubSeq(m, 21, Len(m)) = body
<1> DEFINE a == BigEndian(h.typ)
           b == BigEndian(h.length)
           ab == a \o b
           abi == ab \o h.id1
           abij == abi \o h.id2
           m == abij \o body
<1>1. h.typ \in 0..U16_MAX /\ h.length \in 0..U16_MAX
      /\ h.id1 \in Seq(Byte) /\ Len(h.id1) = 8 /\ h.id2 \in Seq(Byte) /\ Len(h.id2) = 8
  BY DEF Headers, Bytes
<1>2. a \in Seq(Byte) /\ Len(a) = 2 /\ b \in Seq(Byte) /\ Len(b) = 2
      /\ 256 * a[1] + a[2] = h.typ /\ 256 * b[1] + b[2] = h.length
  BY <1>1, BigEndianFacts, SMTT(30)
<1> HIDE DEF a, b
<1>3. ab \in Seq(Byte) /\ Len(ab) = 4
      /\ ab[1] = a[1] /\ ab[2] = a[2] /\ ab[3] = b[1] /\ ab[4] = b[2]
  <2>1. ab \in Seq(Byte) /\ Len(ab) = Len(a) + Len(b)
        /\ (\A i \in 1..Len(a) : ab[i] = a[i]) /\ (\A i \in 1..Len(b) : ab[Len(a) + i] = b[i])
    BY <1>2, Joined, ZenonT(60)
  <2> HIDE DEF ab
  <2> QED
    BY <1>2, <2>1
<1> HIDE DEF ab
<1>4. abi \in Seq(Byte) /\ Len(abi) = 12 /\ SubSeq(abi, 5, 12) = h.id1
      /\ \A i \in 1..4 : abi[i] = ab[i]
  <2>1. /\ abi \in Seq(Byte) /\ Len(abi) = Len(ab) + Len(h.id1)
        /\ \A i \in 1..Len(ab) : abi[i] = ab[i]
        /\ SubSeq(abi, 1, Len(ab)) = ab
        /\ SubSeq(abi, Len(ab) + 1, Len(ab) + Len(h.id1)) = h.id1
    BY <1>1, <1>3, Joined, ZenonT(60)
  <2> HIDE DEF abi
  <2>2. Len(ab) = 4
    BY <1>3
  <2> QED
    BY <1>1, <2>1, <2>2
<1> HIDE DEF abi
<1>5. abij \in Seq(Byte) /\ Len(abij) = 20 /\ SubSeq(abij, 13, 20) = h.id2
      /\ SubSeq(abij, 1, 12) = abi /\ \A i \in 1..12 : abij[i] = abi[i]
  <2>1. /\ abij \in Seq(Byte) /\ Len(abij) = Len(abi) + Len(h.id2)
        /\ \A i \in 1..Len(abi) : abij[i] = abi[i]
        /\ SubSeq(abij, 1, Len(abi)) = abi
        /\ SubSeq(abij, Len(abi) + 1, Len(abi) + Len(h.id2)) = h.id2
    BY <1>1, <1>4, Joined, ZenonT(60)
  <2> HIDE DEF abij
  <2>2. Len(abi) = 12
    BY <1>4
  <2> QED
    BY <1>1, <2>1, <2>2
<1> HIDE DEF abij
<1>6. m \in Seq(Byte) /\ Len(m) = 20 + Len(body) /\ SubSeq(m, 21, Len(m)) = body
      /\ SubSeq(m, 1, 20) = abij /\ \A i \in 1..20 : m[i] = abij[i]
  <2>1. /\ m \in Seq(Byte) /\ Len(m) = Len(abij) + Len(body)
        /\ \A i \in 1..Len(abij) : m[i] = abij[i]
        /\ SubSeq(m, 1, Len(abij)) = abij
        /\ SubSeq(m, Len(abij) + 1, Len(abij) + Len(body)) = body
    BY <1>5, Joined, ZenonT(60)
  <2> HIDE DEF m
  <2>2. Len(abij) = 20
    BY <1>5
  <2> QED
    BY <1>1, <2>1, <2>2
<1> HIDE DEF m
<1>7. U16At(m, 0) = h.typ /\ U16At(m, 2) = h.length
  <2>1. ASSUME NEW i \in 1..4 PROVE m[i] = ab[i]
    <3>1. i \in 1..12 /\ i \in 1..20
      OBVIOUS
    <3> QED
      BY <3>1, <1>4, <1>5, <1>6, Zenon
  <2>2. m[0 + 1] = a[1] /\ m[0 + 2] = a[2] /\ m[2 + 1] = b[1] /\ m[2 + 2] = b[2]
    BY <2>1, <1>3
  <2> QED
    BY <1>2, <2>2 DEF U16At
<1>8. SubSeq(m, 5, 12) = h.id1
  <2>1. SubSeq(SubSeq(m, 1, 20), 5, 12) = SubSeq(m, 5, 12)
    BY <1>6, ByteSeq, SliceOfPrefix
  <2>2. SubSeq(SubSeq(abij, 1, 12), 5, 12) = SubSeq(abij, 5, 12)
    BY <1>5, SliceOfPrefix
  <2>3. SubSeq(abi, 5, 12) = h.id1 /\ SubSeq(abij, 1, 12) = abi /\ SubSeq(m, 1, 20) = abij
    BY <1>4, <1>5, <1>6, Zenon
  <2> QED
    BY <2>1, <2>2, <2>3
<1>9. SubSeq(m, 13, 20) = h.id2
  <2>1. SubSeq(SubSeq(m, 1, 20), 13, 20) = SubSeq(m, 13, 20)
    BY <1>6, ByteSeq, SliceOfPrefix
  <2>2. SubSeq(abij, 13, 20) = h.id2 /\ SubSeq(m, 1, 20) = abij
    BY <1>5, <1>6, Zenon
  <2> QED
    BY <2>1, <2>2, Zenon
<1>10. SubSeq(m, 5, 20) = h.id1 \o h.id2
  <2>1. 5 \in 1..(Len(m) + 1) /\ 12 \in 4..Len(m) /\ 20 \in 12..Len(m) /\ 5 - 1 = 4 /\ 12 + 1 = 13
    BY <1>6, ByteSeq
  <2>2. SubSeq(m, 5, 12) \o SubSeq(m, 13, 20) = SubSeq(m, 5, 20)
    BY <1>6, <2>1, ConcatAdjacentSubSeq
  <2> QED
    BY <1>8, <1>9, <2>2, Zenon
<1> QED
  BY <1>6, <1>7, <1>8, <1>9, <1>10, Zenon DEF m, abij, abi, ab, a, b, Message

-----------------------------------------------------------------------------
(* Reading one attribute.                                                  *)

\* Two bytes of a sequence make a 16-bit number.
LEMMA U16AtType ==
  ASSUME NEW s \in Seq(Byte), NEW pos \in Nat, pos + 2 <= Len(s)
  PROVE  U16At(s, pos) \in Nat /\ U16At(s, pos) <= 65535
<1>1. pos + 1 \in 1..Len(s) /\ pos + 2 \in 1..Len(s)
  BY ByteSeq
<1>2. s[pos + 1] \in Byte /\ s[pos + 2] \in Byte
  BY <1>1, ByteSeq
<1>3. s[pos + 1] \in Nat /\ s[pos + 1] <= 255 /\ s[pos + 2] \in Nat /\ s[pos + 2] <= 255
  BY <1>2, ByteRange
<1> QED
  BY <1>3 DEF U16At

\* Padding to a multiple of four bytes.
LEMMA Padding ==
  ASSUME NEW n \in Nat
  PROVE  LET padded == 4 * ((n + 3) \div 4)
         IN  padded \in Nat /\ n <= padded /\ padded <= n + 3 /\ padded % 4 = 0
OBVIOUS

\* At the cursor, the body begins with wire.
At(body, pos, wire) ==
  /\ body \in Seq(Byte) /\ wire \in Seq(Byte) /\ pos \in Nat
  /\ pos + Len(wire) <= Len(body)
  /\ wire = SubSeq(body, pos + 1, pos + Len(wire))

\* The head of an attribute is the same in the body and in the wire.
LEMMA HeadRead ==
  ASSUME NEW body, NEW pos, NEW wire, At(body, pos, wire), Len(wire) >= 4
  PROVE  /\ U16At(body, pos) = Type(wire)
         /\ U16At(body, pos + 2) = U16At(wire, 2)
         /\ U16At(wire, 2) \in Nat
<1> USE DEF At
<1>1. Len(wire) \in Nat /\ Len(body) \in Nat
  BY ByteSeq
<1>2. /\ pos + 1 \in Nat \ {0} /\ pos + Len(wire) \in Nat /\ pos + 1 <= pos + Len(wire) + 1
      /\ (pos + Len(wire)) + 1 - (pos + 1) = Len(wire)
  BY <1>1
<1>3. \A i \in 1..Len(wire) : wire[i] = body[(pos + 1) + i - 1]
  BY <1>1, <1>2, Slice
<1>4. /\ wire[0 + 1] = body[pos + 1] /\ wire[0 + 2] = body[pos + 2]
      /\ wire[2 + 1] = body[pos + 2 + 1] /\ wire[2 + 2] = body[pos + 2 + 2]
  <2>1. 1 \in 1..Len(wire) /\ 2 \in 1..Len(wire) /\ 3 \in 1..Len(wire) /\ 4 \in 1..Len(wire)
    BY <1>1
  <2>2. /\ (pos + 1) + 1 - 1 = pos + 1 /\ (pos + 1) + 2 - 1 = pos + 2
        /\ (pos + 1) + 3 - 1 = pos + 2 + 1 /\ (pos + 1) + 4 - 1 = pos + 2 + 2
    OBVIOUS
  <2>3. wire[1] = body[pos + 1] /\ wire[2] = body[pos + 2]
        /\ wire[3] = body[pos + 2 + 1] /\ wire[4] = body[pos + 2 + 2]
    BY <1>3, <2>1, <2>2
  <2> QED
    BY <2>3
<1>5. U16At(body, pos) = Type(wire) /\ U16At(body, pos + 2) = U16At(wire, 2)
  BY <1>4 DEF U16At, Type
<1>6. U16At(wire, 2) \in Nat
  BY U16AtType
<1> QED
  BY <1>5, <1>6

\* Attribute::read takes a whole attribute and moves to its end.
LEMMA WholeRead ==
  ASSUME NEW body, NEW pos, NEW wire, NEW key, At(body, pos, wire),
         Len(wire) >= 4, Len(wire) = PaddedEnd(wire)
  PROVE  ReadAttribute(body, pos, key) =
           [attr |-> ReadValue(Type(wire), Value(wire), key), pos |-> pos + Len(wire)]
<1> DEFINE length == U16At(wire, 2)
<1>1. Len(wire) \in Nat /\ Len(body) \in Nat /\ pos \in Nat /\ pos + Len(wire) <= Len(body)
      /\ body \in Seq(Byte)
  BY ByteSeq DEF At
<1>2. U16At(body, pos) = Type(wire) /\ U16At(body, pos + 2) = length /\ length \in Nat
  BY HeadRead
<1> HIDE DEF length
<1>3. Len(wire) = 4 + 4 * ((length + 3) \div 4)
  BY DEF PaddedEnd, length
<1>4. 4 * ((length + 3) \div 4) \in Nat /\ length <= 4 * ((length + 3) \div 4)
  BY <1>2, Padding
<1>5. 4 + length <= Len(wire) /\ pos + 4 + 4 * ((length + 3) \div 4) = pos + Len(wire)
  BY <1>1, <1>2, <1>3, <1>4
<1>6. SubSeq(body, pos + 4 + 1, pos + 4 + length) = Value(wire)
  <2>1. /\ pos + Len(wire) \in Nat /\ pos <= pos + Len(wire) /\ 5 <= (4 + length) + 1
        /\ 4 + length \in Nat /\ 4 + length <= (pos + Len(wire)) - pos
        /\ pos + 5 = pos + 4 + 1 /\ pos + (4 + length) = pos + 4 + length
    BY <1>1, <1>2, <1>5
  <2>2. SubSeq(SubSeq(body, pos + 1, pos + Len(wire)), 5, 4 + length) =
          SubSeq(body, pos + 5, pos + (4 + length))
    <3>1. ASSUME NEW end \in Nat, NEW n \in Nat, pos <= end, end <= Len(body), 5 <= n + 1,
                 n <= end - pos
          PROVE  SubSeq(SubSeq(body, pos + 1, end), 5, n) = SubSeq(body, pos + 5, pos + n)
      BY <1>1, <3>1, SliceOfSlice
    <3> QED
      BY <1>1, <2>1, <3>1, Zenon
  <2>3. SubSeq(body, pos + 1, pos + Len(wire)) = wire
    BY DEF At
  <2> QED
    BY <2>1, <2>2, <2>3, Zenon DEF Value, length
<1>7. ~(pos + 4 > Len(body)) /\ ~(pos + 4 + 4 * ((length + 3) \div 4) > Len(body))
  BY <1>1, <1>2, <1>4, <1>5
<1> QED
  BY <1>2, <1>5, <1>6, <1>7, Zenon DEF ReadAttribute

\* An attribute that the body cuts short is an error.
LEMMA StumpRead ==
  ASSUME NEW body, NEW pos, NEW wire, NEW key, At(body, pos, wire),
         pos + Len(wire) = Len(body), Len(wire) < 4 \/ Len(wire) < PaddedEnd(wire)
  PROVE  ReadAttribute(body, pos, key).attr = Err
<1>1. Len(wire) \in Nat /\ Len(body) \in Nat /\ pos \in Nat
  BY ByteSeq DEF At
<1>2. CASE Len(wire) < 4
  <2>1. pos + 4 > Len(body)
    BY <1>1, <1>2
  <2> QED
    BY <2>1 DEF ReadAttribute
<1>3. CASE Len(wire) >= 4
  <2>1. U16At(body, pos + 2) = U16At(wire, 2) /\ U16At(wire, 2) \in Nat
    BY <1>3, HeadRead
  <2>2. Len(wire) < 4 + 4 * ((U16At(wire, 2) + 3) \div 4)
    BY <1>1, <1>3 DEF PaddedEnd
  <2>3. 4 * ((U16At(wire, 2) + 3) \div 4) \in Nat
    BY <2>1, Padding
  <2>4. pos + 4 + 4 * ((U16At(body, pos + 2) + 3) \div 4) > Len(body)
    BY <1>1, <2>1, <2>2, <2>3
  <2> QED
    BY <2>4 DEF ReadAttribute
<1> QED
  BY <1>1, <1>2, <1>3

\* The IP address and the port of a socket address.
LEMMA SocketAddrFacts ==
  ASSUME NEW addr \in SocketAddr
  PROVE  /\ addr = [ip |-> addr.ip, port |-> addr.port]
         /\ addr.ip \in Seq(Byte) /\ Len(addr.ip) \in {4, 16} /\ DOMAIN addr.ip = 1..Len(addr.ip)
         /\ addr.port \in 0..U16_MAX
<1>1. addr \in [ip : Bytes({4, 16}), port : 0..U16_MAX]
  BY DEF SocketAddr
<1>2. addr.ip \in Seq(Byte) /\ Len(addr.ip) \in {4, 16}
  BY <1>1 DEF Bytes
<1> QED
  BY <1>1, <1>2, ByteSeq

\* Attribute::read_address returns the address that the value holds.
LEMMA PlainRead ==
  ASSUME NEW value \in Seq(Byte), NEW addr \in SocketAddr, Holds(value, addr)
  PROVE  ReadAddress(value) = Ok(addr)
<1>1. Len(addr.ip) \in Nat /\ addr.ip \in Seq(Byte)
  BY SocketAddrFacts
<1>2. AddressShaped(value) /\ Len(value) = 4 + Len(addr.ip) /\ U16At(value, 2) = addr.port
      /\ \A i \in 1..Len(addr.ip) : value[i + 4] = addr.ip[i]
  BY SocketAddrFacts DEF Holds
<1>3. SubSeq(value, 5, Len(value)) = addr.ip
  <2>1. /\ SubSeq(value, 5, Len(value)) \in Seq(Byte)
        /\ Len(SubSeq(value, 5, Len(value))) = Len(value) + 1 - 5
        /\ \A i \in 1..(Len(value) + 1 - 5) : SubSeq(value, 5, Len(value))[i] = value[5 + i - 1]
    BY <1>1, <1>2, Slice
  <2>2. Len(value) + 1 - 5 = Len(addr.ip) /\ \A i \in 1..Len(addr.ip) : 5 + i - 1 = i + 4
    BY <1>1, <1>2
  <2> QED
    BY <1>1, <1>2, <2>1, <2>2, SeqEqual
<1> QED
  BY <1>2, <1>3, SocketAddrFacts, Zenon DEF ReadAddress

\* The exclusive or that read_xor_address takes undoes the mask.
LEMMA MaskedRead ==
  ASSUME NEW value \in Seq(Byte), NEW addr \in SocketAddr,
         NEW key \in Seq(Byte), Len(key) = 16, HoldsMasked(value, addr, key)
  PROVE  ReadXorAddress(value, key) = Ok(addr)
<1> DEFINE ip == [i \in 1..(Len(value) - 4) |-> ByteXor(value[i + 4], key[i])]
<1>1. Len(addr.ip) \in {4, 16} /\ addr.ip \in Seq(Byte) /\ addr.port \in 0..U16_MAX
  BY SocketAddrFacts
<1>2. /\ AddressShaped(value) /\ Len(value) = 4 + Len(addr.ip)
      /\ value[3] = ByteXor(addr.port \div 256, key[1])
      /\ value[4] = ByteXor(addr.port % 256, key[2])
      /\ \A i \in 1..Len(addr.ip) : value[i + 4] = ByteXor(addr.ip[i], key[i])
  BY SocketAddrFacts DEF HoldsMasked
<1>3. \A i \in 1..16 : key[i] \in Byte
  BY ByteSeq, Zenon
<1>4. Len(value) - 4 = Len(addr.ip)
  BY <1>1, <1>2
<1>5. ASSUME NEW i \in 1..Len(addr.ip)
      PROVE  ByteXor(value[i + 4], key[i]) = addr.ip[i]
  <2>1. i \in 1..16
    <3>1. ASSUME NEW n \in Nat, n <= 16, NEW j \in 1..n PROVE j \in 1..16
      BY <3>1
    <3>2. Len(addr.ip) \in Nat /\ Len(addr.ip) <= 16
      <4>1. \A n : n \in {4, 16} => n \in Nat /\ n <= 16
        OBVIOUS
      <4> QED
        BY <1>1, <4>1, Zenon
    <3> QED
      BY <3>1, <3>2
  <2>2. addr.ip[i] \in Byte /\ key[i] \in Byte
    BY <1>1, <1>3, <2>1, ByteSeq, Zenon
  <2> QED
    BY <1>2, <2>2, XorAssumption
<1>6. ip = addr.ip
  <2>1. addr.ip = [i \in 1..Len(addr.ip) |-> addr.ip[i]]
    BY <1>1, LenProperties
  <2> QED
    BY <1>4, <1>5, <2>1, Zenon
<1>7. 256 * ByteXor(value[3], key[1]) + ByteXor(value[4], key[2]) = addr.port
  <2>1. /\ addr.port \div 256 \in Byte /\ addr.port % 256 \in Byte
        /\ 256 * (addr.port \div 256) + (addr.port % 256) = addr.port
    BY <1>1, BigEndianFacts
  <2>2. key[1] \in Byte /\ key[2] \in Byte
    BY <1>3
  <2>3. ByteXor(value[3], key[1]) = addr.port \div 256 /\ ByteXor(value[4], key[2]) = addr.port % 256
    BY <1>2, <2>1, <2>2, XorAssumption
  <2> QED
    BY <2>1, <2>3
<1> HIDE DEF ip
<1>8. ReadXorAddress(value, key) =
        Ok([ip |-> ip, port |-> 256 * ByteXor(value[3], key[1]) + ByteXor(value[4], key[2])])
  BY <1>2 DEF ReadXorAddress, ip
<1> QED
  BY <1>6, <1>7, <1>8, SocketAddrFacts

Kinds == {"MappedAddress", "SourceAddress", "ChangedAddress", "ReflectedFrom"}

\* The addresses that read_binding_response keeps, and the types of attributes.
LEMMA KindFacts ==
  /\ DOMAIN NothingFound = Kinds
  /\ \A k \in Kinds : NothingFound[k] = None
  /\ AddressType["MappedAddress"] = 1 /\ AddressType["SourceAddress"] = 4
  /\ AddressType["ChangedAddress"] = 5 /\ AddressType["ReflectedFrom"] = 11
  /\ AddressType["ResponseAddress"] = 2
  /\ AddressTypes = {1, 4, 5, 11, 32}
<1>1. DOMAIN NothingFound = Kinds /\ \A k \in Kinds : NothingFound[k] = None
  BY DEF NothingFound, Optional, Kinds
<1>2. /\ AddressType["MappedAddress"] = 1 /\ AddressType["SourceAddress"] = 4
      /\ AddressType["ChangedAddress"] = 5 /\ AddressType["ReflectedFrom"] = 11
      /\ AddressType["ResponseAddress"] = 2
  BY DEF AddressType, MAPPED_ADDRESS, SOURCE_ADDRESS, CHANGED_ADDRESS, REFLECTED_FROM,
     RESPONSE_ADDRESS
<1>3. AddressTypes = {1, 4, 5, 11, 32}
  BY <1>1, <1>2 DEF AddressTypes, Kinds, XOR_MAPPED_ADDRESS
<1> QED
  BY <1>1, <1>2, <1>3

Codes ==
  /\ MAPPED_ADDRESS = 1 /\ RESPONSE_ADDRESS = 2 /\ CHANGE_REQUEST = 3 /\ SOURCE_ADDRESS = 4
  /\ CHANGED_ADDRESS = 5 /\ USERNAME = 6 /\ MESSAGE_INTEGRITY = 8 /\ REFLECTED_FROM = 11
  /\ XOR_MAPPED_ADDRESS = 32

\* The type codes of stun/codec.rs.
LEMMA CodeFacts == Codes
BY DEF Codes, MAPPED_ADDRESS, RESPONSE_ADDRESS, CHANGE_REQUEST, SOURCE_ADDRESS, CHANGED_ADDRESS,
   USERNAME, MESSAGE_INTEGRITY, REFLECTED_FROM, XOR_MAPPED_ADDRESS

\* The value of a whole attribute.
LEMMA ValueType ==
  ASSUME NEW wire \in Seq(Byte), Len(wire) >= 4, Len(wire) = PaddedEnd(wire)
  PROVE  /\ Value(wire) \in Seq(Byte) /\ Len(Value(wire)) = U16At(wire, 2)
         /\ Type(wire) \in Nat /\ Type(wire) <= 65535
<1>1. Len(wire) \in Nat /\ U16At(wire, 2) \in Nat /\ U16At(wire, 0) \in Nat /\ U16At(wire, 0) <= 65535
  BY ByteSeq, U16AtType
<1>2. 4 + U16At(wire, 2) <= Len(wire)
  BY <1>1, Padding DEF PaddedEnd
<1>3. 4 + U16At(wire, 2) \in Nat /\ 5 <= 4 + U16At(wire, 2) + 1
      /\ (4 + U16At(wire, 2)) + 1 - 5 = U16At(wire, 2)
  BY <1>1
<1> QED
  BY <1>1, <1>2, <1>3, Slice DEF Value, Type

\* What the decoder's loop makes of the attribute that a piece is.
Reads(p, attr) ==
  /\ p.kind \in Kinds => attr.ok /\ attr.val = [kind |-> p.kind, val |-> p.val]
  /\ p.kind = "ignored" => attr.ok /\ attr.val.kind \in {"MessageIntegrity", "UnknownOptional"}
  /\ p.kind = "refused" /\ attr.ok => attr.val.kind \in {"ResponseAddress", "ChangeRequest"}

\* The match of Attribute::read gives what a whole attribute says.
LEMMA ValueRead ==
  ASSUME NEW p, NEW key \in Seq(Byte), Len(key) = 16, p.wire \in Seq(Byte),
         Len(p.wire) >= 4, Len(p.wire) = PaddedEnd(p.wire), Says(p, key)
  PROVE  Reads(p, ReadValue(Type(p.wire), Value(p.wire), key))
<1> DEFINE typ == Type(p.wire)
           value == Value(p.wire)
           attr == ReadValue(typ, value, key)
<1>1. value \in Seq(Byte) /\ typ \in Nat
  BY ValueType
<1>2. Codes
  BY CodeFacts
<1> USE DEF Codes
<1>3. \/ /\ p.kind \in Kinds /\ p.val \in SocketAddr
         /\ \/ typ = AddressType[p.kind] /\ Holds(value, p.val)
            \/ typ = 32 /\ p.kind = "MappedAddress" /\ HoldsMasked(value, p.val, key)
      \/ p.kind = "ignored" /\ (typ > 32767 \/ (typ = 8 /\ Len(value) = 20))
      \/ /\ p.kind = "refused" /\ typ <= 32767 /\ (typ = 8 => Len(value) # 20)
         /\ typ \in {1, 4, 5, 11, 32} => ~AddressShaped(value)
  BY <1>2, KindFacts DEF Says
<1> HIDE DEF typ, value
<1>10. ASSUME typ \notin {1, 2, 3, 4, 5, 8, 11, 32}
       PROVE  attr = IF typ <= 32767 THEN Err ELSE Ok([kind |-> "UnknownOptional"])
  BY <1>2, <1>10 DEF ReadValue
<1>4. CASE p.kind \in Kinds /\ p.val \in SocketAddr /\ typ = AddressType[p.kind]
           /\ Holds(value, p.val)
  <2>1. ReadAddress(value) = Ok(p.val)
    BY <1>1, <1>4, PlainRead
  <2>2. attr = Ok([kind |-> p.kind, val |-> p.val])
    <3>1. CASE p.kind = "MappedAddress"
      BY <1>2, <1>4, <2>1, <3>1, KindFacts DEF ReadValue, Ok
    <3>2. CASE p.kind = "SourceAddress"
      BY <1>2, <1>4, <2>1, <3>2, KindFacts DEF ReadValue, Ok
    <3>3. CASE p.kind = "ChangedAddress"
      BY <1>2, <1>4, <2>1, <3>3, KindFacts DEF ReadValue, Ok
    <3>4. CASE p.kind = "ReflectedFrom"
      BY <1>2, <1>4, <2>1, <3>4, KindFacts DEF ReadValue, Ok
    <3> QED
      BY <1>4, <3>1, <3>2, <3>3, <3>4 DEF Kinds
  <2> QED
    BY <1>4, <2>2 DEF Reads, Ok, Kinds, typ, value
<1>5. CASE p.kind = "MappedAddress" /\ p.val \in SocketAddr /\ typ = 32
           /\ HoldsMasked(value, p.val, key)
  <2>1. ReadXorAddress(value, key) = Ok(p.val)
    BY <1>1, <1>5, MaskedRead
  <2>2. attr = Ok([kind |-> p.kind, val |-> p.val])
    BY <1>2, <1>5, <2>1 DEF ReadValue, Ok
  <2> QED
    BY <1>5, <2>2 DEF Reads, Ok, Kinds, typ, value
<1>6. CASE p.kind = "ignored" /\ (typ > 32767 \/ (typ = 8 /\ Len(value) = 20))
  <2>1. attr.ok /\ attr.val.kind \in {"MessageIntegrity", "UnknownOptional"}
    <3>1. CASE typ = 8 /\ Len(value) = 20
      BY <1>2, <3>1 DEF ReadValue, Ok
    <3>2. CASE typ > 32767
      <4>1. typ \notin {1, 2, 3, 4, 5, 8, 11, 32} /\ ~(typ <= 32767)
        BY <1>1, <3>2, SMT
      <4>2. attr = Ok([kind |-> "UnknownOptional"])
        BY <1>10, <4>1
      <4> QED
        BY <4>2 DEF Ok
    <3> QED
      BY <1>6, <3>1, <3>2
  <2> QED
    BY <1>6, <2>1 DEF Reads, Kinds, typ, value
<1>7. CASE /\ p.kind = "refused" /\ typ <= 32767 /\ (typ = 8 => Len(value) # 20)
           /\ typ \in {1, 4, 5, 11, 32} => ~AddressShaped(value)
  <2>1. attr.ok => attr.val.kind \in {"ResponseAddress", "ChangeRequest"}
    <3>1. CASE typ \in {1, 4, 5, 11, 32}
      <4>1. ReadAddress(value) = Err /\ ReadXorAddress(value, key) = Err /\ ~Err.ok
        BY <1>7, <3>1 DEF ReadAddress, ReadXorAddress, Err
      <4>2. CASE typ = 32
        BY <1>2, <4>1, <4>2 DEF ReadValue
      <4>3. CASE typ = 1
        BY <1>2, <4>1, <4>3 DEF ReadValue
      <4>4. CASE typ = 4
        BY <1>2, <4>1, <4>4 DEF ReadValue
      <4>5. CASE typ = 5
        BY <1>2, <4>1, <4>5 DEF ReadValue
      <4>6. CASE typ = 11
        BY <1>2, <4>1, <4>6 DEF ReadValue
      <4> QED
        BY <3>1, <4>2, <4>3, <4>4, <4>5, <4>6
    <3>2. CASE typ = 2
      BY <1>2, <3>2 DEF ReadValue, Err, Ok
    <3>3. CASE typ = 3
      BY <1>2, <3>3 DEF ReadValue, Err, Ok
    <3>4. CASE typ = 8
      BY <1>2, <1>7, <3>4 DEF ReadValue, Err
    <3>5. CASE typ \notin {1, 2, 3, 4, 5, 8, 11, 32}
      BY <1>7, <1>10, <3>5 DEF Err
    <3> QED
      BY <3>1, <3>2, <3>3, <3>4, <3>5
  <2> QED
    BY <1>7, <2>1 DEF Reads, Kinds, typ, value
<1> QED
  BY <1>3, <1>4, <1>5, <1>6, <1>7

-----------------------------------------------------------------------------
(* The header.                                                             *)

\* The first half of a transaction id, which holds the cookie.
LEMMA FirstIdFacts == FIRST_ID \in Seq(Byte) /\ Len(FIRST_ID) = 8
<1>1. \A n \in {33, 18, 164, 66, 0} : n \in Byte
  BY ByteRange
<1>2. MAGIC_COOKIE \in Seq(Byte) /\ Len(MAGIC_COOKIE) = 4
  BY <1>1 DEF MAGIC_COOKIE
<1>3. <<0, 0, 0, 0>> \in Seq(Byte) /\ Len(<<0, 0, 0, 0>>) = 4
  BY <1>1
<1> HIDE DEF MAGIC_COOKIE
<1> QED
  BY <1>2, <1>3, Joined DEF FIRST_ID

\* The key of read_xor_address: cookie and id.
LEMMA KeyFacts ==
  ASSUME NEW id \in Bytes({8})
  PROVE  FIRST_ID \o id \in Seq(Byte) /\ Len(FIRST_ID \o id) = 16
<1>1. id \in Seq(Byte) /\ Len(id) = 8
  BY DEF Bytes
<1>2. FIRST_ID \o id \in Seq(Byte) /\ Len(FIRST_ID \o id) = Len(FIRST_ID) + Len(id)
  BY <1>1, FirstIdFacts, Joined, Zenon
<1> QED
  BY <1>1, <1>2, FirstIdFacts

\* A datagram that is long enough and has the header of an answer.
Answer(d) == Len(d.bytes) >= 20 /\ d.header = AnswerHeader(d)

Whole(d) ==
  /\ d.header \in Headers /\ d.body \in Seq(Byte)
  /\ Len(d.bytes) = 20 + Len(d.body)
  /\ U16At(d.bytes, 0) = d.header.typ /\ U16At(d.bytes, 2) = d.header.length
  /\ SubSeq(d.bytes, 5, 12) = d.header.id1 /\ SubSeq(d.bytes, 13, 20) = d.header.id2
  /\ SubSeq(d.bytes, 5, 20) = d.header.id1 \o d.header.id2
  /\ SubSeq(d.bytes, 21, Len(d.bytes)) = d.body

\* The parts of a datagram are where decode_const finds them.
LEMMA WholeDatagram ==
  ASSUME NEW d, IsDatagram(d), Len(d.bytes) >= 20
  PROVE  Whole(d)
<1>1. d.header \in Headers /\ d.body \in Seq(Byte) /\ d.bytes = Message(d.header, d.body)
  BY DEF IsDatagram, Headers
<1>2. LET m == Message(d.header, d.body)
      IN  /\ Len(m) = 20 + Len(d.body)
          /\ U16At(m, 0) = d.header.typ /\ U16At(m, 2) = d.header.length
          /\ SubSeq(m, 5, 12) = d.header.id1 /\ SubSeq(m, 13, 20) = d.header.id2
          /\ SubSeq(m, 5, 20) = d.header.id1 \o d.header.id2
          /\ SubSeq(m, 21, Len(m)) = d.body
  <2> HIDE DEF Message
  <2> QED
    BY <1>1, MessageFields, Zenon
<1> QED
  BY <1>1, <1>2, Zenon DEF Whole

\* decode_const tells foreign, malformed and answering headers apart.
LEMMA HeaderRead ==
  ASSUME NEW d, IsDatagram(d)
  PROVE  Header(d.id, d.bytes) =
           IF Len(d.bytes) < 20 THEN "error"
           ELSE IF d.header.id2 # d.id THEN "foreign"
           ELSE IF d.header = AnswerHeader(d) THEN "response" ELSE "error"
<1>1. Len(d.bytes) \in Nat
  BY ByteSeq DEF IsDatagram
<1>2. CASE Len(d.bytes) < 20
  BY <1>2 DEF Header
<1>3. CASE Len(d.bytes) >= 20 /\ d.header.id2 # d.id
  <2>1. SubSeq(d.bytes, 13, 20) # d.id
    BY <1>3, WholeDatagram, Zenon DEF Whole
  <2> QED
    BY <1>1, <1>3, <2>1 DEF Header
<1>4. CASE Len(d.bytes) >= 20 /\ d.header.id2 = d.id
  <2>1. Whole(d)
    BY <1>4, WholeDatagram
  <2>2. Header(d.id, d.bytes) =
          IF /\ d.header.id1 = FIRST_ID /\ Len(d.bytes) = 20 + d.header.length
             /\ d.header.typ = BINDING_RESPONSE
            THEN "response" ELSE "error"
    <3>1. /\ SubSeq(d.bytes, 13, 20) = d.id /\ SubSeq(d.bytes, 5, 12) = d.header.id1
          /\ U16At(d.bytes, 0) = d.header.typ /\ U16At(d.bytes, 2) = d.header.length
      BY <1>4, <2>1, Zenon DEF Whole
    <3>2. ~(Len(d.bytes) < 20)
      BY <1>1, <1>4
    <3> QED
      BY <3>1, <3>2, Zenon DEF Header
  <2>3. Len(d.bytes) = 20 + d.header.length <=> d.header.length = Len(d.body)
    <3>1. d.header.length \in Nat /\ Len(d.body) \in Nat /\ Len(d.bytes) = 20 + Len(d.body)
      BY <2>1, ByteSeq, U16Range, SMTT(30) DEF Whole, Headers
    <3> QED
      BY <3>1, SMTT(30)
  <2>4. d.header = [typ |-> d.header.typ, length |-> d.header.length, id1 |-> d.header.id1,
                    id2 |-> d.header.id2]
    BY <2>1, Zenon DEF Whole, Headers
  <2>5. d.header = AnswerHeader(d) <=>
          /\ d.header.id1 = FIRST_ID /\ d.header.length = Len(d.body)
          /\ d.header.typ = BINDING_RESPONSE
    <3>1. d.header = AnswerHeader(d) =>
            /\ d.header.id1 = FIRST_ID /\ d.header.length = Len(d.body)
            /\ d.header.typ = BINDING_RESPONSE
      BY DEF AnswerHeader
    <3> QED
      BY <1>4, <2>4, <3>1 DEF AnswerHeader
  <2> QED
    BY <1>1, <1>4, <2>2, <2>3, <2>5
<1> QED
  BY <1>1, <1>2, <1>3, <1>4

-----------------------------------------------------------------------------
(* The loop over the attributes.                                           *)

\* The first address of a kind among the first n pieces is o.
FoundIn(pieces, n, k, o) ==
  \/ o = None /\ \A i \in 1..n : pieces[i].kind # k
  \/ \E i \in 1..n : /\ o = Some(pieces[i].val) /\ pieces[i].kind = k
                     /\ \A j \in 1..(i - 1) : pieces[j].kind # k

\* The loop has read the first n pieces.
HasRead(n) ==
  /\ cursor = call.starts[n + 1]
  /\ \A i \in 1..n : call.pieces[i].kind # "refused"
  /\ DOMAIN found = Kinds
  /\ \A k \in Kinds : FoundIn(call.pieces, n, k, found[k])
  /\ found = [k \in Kinds |-> found[k]]

\* The inductive invariant.
CodecInv ==
  /\ phase \in {"encode", "encoded", "header", "attributes", "decoded"}
  /\ phase \in {"encode", "encoded"} => call \in Requests
  /\ phase \in {"header", "attributes", "decoded"} => call \in Datagrams
  /\ phase = "encoded" => result = Some(Encode(call.id, call.req))
  /\ phase = "header" => cursor = 0 /\ found = NothingFound
  /\ phase = "attributes" => Answer(call) /\ \E n \in 0..Len(call.pieces) : HasRead(n)
  /\ phase = "decoded" => result = Some(Meaning(call))

\* What the body of an answer is cut into.
Piece == [kind : Kinds \cup {"ignored", "refused"}, val : SocketAddr \cup {None}, wire : Seq(Byte)]

\* What is known of a datagram with the header of an answer.
LEMMA AnswerFacts ==
  ASSUME NEW d, IsDatagram(d), Answer(d)
  PROVE  /\ d.body \in Seq(Byte) /\ SubSeq(d.bytes, 21, Len(d.bytes)) = d.body
         /\ SubSeq(d.bytes, 5, 20) = FIRST_ID \o d.id /\ d.id \in Bytes({8})
         /\ d.pieces \in Seq(Piece) /\ d.starts \in Seq(0..Len(d.body))
         /\ Len(d.starts) = Len(d.pieces) + 1
         /\ Cut(d.body, d.starts, d.pieces, FIRST_ID \o d.id)
         /\ d.header.id2 = d.id
<1>1. Whole(d)
  BY WholeDatagram DEF Answer
<1>2. d.header.id1 = FIRST_ID /\ d.header.id2 = d.id
  BY DEF Answer, AnswerHeader
<1> QED
  BY <1>1, <1>2, KindFacts, Zenon DEF IsDatagram, Answer, Whole, Piece

\* Attribute::read at the start of a piece gives what the piece says, and leaves
\* the cursor at the start of the next one.
LEMMA PieceRead ==
  ASSUME NEW d, IsDatagram(d), Answer(d), NEW i \in 1..Len(d.pieces)
  PROVE  LET read == ReadAttribute(d.body, d.starts[i], FIRST_ID \o d.id)
         IN  /\ d.pieces[i] \in Piece
             /\ Reads(d.pieces[i], read.attr)
             /\ d.pieces[i].kind # "refused" => read.pos = d.starts[i + 1]
<1> DEFINE p == d.pieces[i]
           pos == d.starts[i]
           key == FIRST_ID \o d.id
           read == ReadAttribute(d.body, pos, key)
<1>1. key \in Seq(Byte) /\ Len(key) = 16
  BY AnswerFacts, KeyFacts
<1>2. Len(d.pieces) \in Nat /\ p \in Piece /\ DOMAIN d.pieces = 1..Len(d.pieces)
  BY AnswerFacts, LenProperties, ElementOfSeq
<1>3. pos \in 0..Len(d.body) /\ d.starts[i + 1] \in 0..Len(d.body)
  <2>1. i \in 1..Len(d.starts) /\ i + 1 \in 1..Len(d.starts)
    BY AnswerFacts, <1>2
  <2> QED
    BY <2>1, AnswerFacts, ElementOfSeq, Zenon
<1>4. Len(d.body) \in Nat
  BY AnswerFacts, ByteSeq
<1>5. /\ p.wire # <<>> /\ d.starts[i + 1] = pos + Len(p.wire)
      /\ p.wire = SubSeq(d.body, pos + 1, d.starts[i + 1])
      /\ IF Len(p.wire) < 4 \/ Len(p.wire) < PaddedEnd(p.wire)
           THEN i = Len(d.pieces) /\ p.kind = "refused"
           ELSE Len(p.wire) = PaddedEnd(p.wire) /\ Says(p, key)
      /\ d.starts[Len(d.pieces) + 1] = Len(d.body)
  BY <1>2, AnswerFacts, Zenon DEF Cut
<1>6. p.wire \in Seq(Byte)
  BY <1>2 DEF Piece
<1> HIDE DEF key, p, pos
<1>7. At(d.body, pos, p.wire)
  BY <1>3, <1>4, <1>5, <1>6, AnswerFacts, SMTT(30) DEF At
<1>8. Len(p.wire) \in Nat
  BY <1>6, ByteSeq
<1>9. CASE Len(p.wire) < 4 \/ Len(p.wire) < PaddedEnd(p.wire)
  <2>1. p.kind = "refused" /\ pos + Len(p.wire) = Len(d.body)
    BY <1>5, <1>9, Zenon
  <2>2. read.attr = Err
    BY <1>7, <1>9, <2>1, StumpRead
  <2>3. Reads(p, read.attr)
    BY <2>1, <2>2 DEF Reads, Err, Kinds
  <2> QED
    BY <1>2, <2>1, <2>3 DEF p, pos, key
<1>10. CASE ~(Len(p.wire) < 4 \/ Len(p.wire) < PaddedEnd(p.wire))
  <2>1. Len(p.wire) >= 4 /\ Len(p.wire) = PaddedEnd(p.wire) /\ Says(p, key)
    <3>1. Len(p.wire) >= 4
      BY <1>8, <1>10
    <3> QED
      BY <1>5, <1>10, <3>1, Zenon
  <2>2. read = [attr |-> ReadValue(Type(p.wire), Value(p.wire), key), pos |-> pos + Len(p.wire)]
    BY <1>7, <2>1, WholeRead
  <2>3. Reads(p, ReadValue(Type(p.wire), Value(p.wire), key))
    BY <1>1, <1>6, <2>1, ValueRead
  <2>4. Reads(p, read.attr) /\ read.pos = d.starts[i + 1]
    <3>1. d.starts[i + 1] = pos + Len(p.wire)
      BY <1>5
    <3> HIDE DEF read
    <3>2. read.attr = ReadValue(Type(p.wire), Value(p.wire), key) /\ read.pos = pos + Len(p.wire)
      BY <2>2
    <3> QED
      BY <2>3, <3>1, <3>2, Zenon
  <2> QED
    BY <1>2, <2>4 DEF p, pos, key
<1> QED
  BY <1>9, <1>10

\* One more piece: the first address of its kind stays.
LEMMA FoundOneMore ==
  ASSUME NEW pieces, NEW n \in Nat, NEW k, NEW o, FoundIn(pieces, n, k, o)
  PROVE  /\ pieces[n + 1].kind # k \/ o.some => FoundIn(pieces, n + 1, k, o)
         /\ pieces[n + 1].kind = k /\ ~o.some =>
              FoundIn(pieces, n + 1, k, Some(pieces[n + 1].val))
<1>1. ~None.some /\ \A v : Some(v).some
  BY DEF None, Some
<1>2. CASE o = None /\ \A i \in 1..n : pieces[i].kind # k
  <2>1. pieces[n + 1].kind # k => \A i \in 1..(n + 1) : pieces[i].kind # k
    BY <1>2
  <2>2. pieces[n + 1].kind = k =>
          /\ n + 1 \in 1..(n + 1) /\ \A j \in 1..((n + 1) - 1) : pieces[j].kind # k
    BY <1>2
  <2> QED
    BY <1>1, <1>2, <2>1, <2>2 DEF FoundIn
<1>3. CASE \E i \in 1..n : /\ o = Some(pieces[i].val) /\ pieces[i].kind = k
                           /\ \A j \in 1..(i - 1) : pieces[j].kind # k
  <2>1. PICK i \in 1..n : /\ o = Some(pieces[i].val) /\ pieces[i].kind = k
                          /\ \A j \in 1..(i - 1) : pieces[j].kind # k
    BY <1>3
  <2>2. i \in 1..(n + 1)
    OBVIOUS
  <2> QED
    BY <1>1, <2>1, <2>2 DEF FoundIn
<1> QED
  BY <1>2, <1>3 DEF FoundIn

\* At the end of the body, that is the first address of all.
LEMMA FoundAll ==
  ASSUME NEW pieces \in Seq(Piece), NEW k, NEW o, FoundIn(pieces, Len(pieces), k, o)
  PROVE  o = First(pieces, k)
<1> DEFINE IsFirst(i) == pieces[i].kind = k /\ \A j \in 1..(i - 1) : pieces[j].kind # k
<1>1. Len(pieces) \in Nat /\ DOMAIN pieces = 1..Len(pieces)
  BY LenProperties
<1>2. First(pieces, k) = IF \E i \in 1..Len(pieces) : IsFirst(i)
                           THEN Some(pieces[CHOOSE i \in 1..Len(pieces) : IsFirst(i)].val) ELSE None
  BY <1>1 DEF First
<1>3. CASE o = None /\ \A i \in 1..Len(pieces) : pieces[i].kind # k
  BY <1>2, <1>3
<1>4. CASE \E i \in 1..Len(pieces) : o = Some(pieces[i].val) /\ IsFirst(i)
  <2>1. PICK i \in 1..Len(pieces) : o = Some(pieces[i].val) /\ IsFirst(i)
    BY <1>4
  <2>2. PICK c \in 1..Len(pieces) : c = (CHOOSE x \in 1..Len(pieces) : IsFirst(x)) /\ IsFirst(c)
    BY <2>1
  <2>3. c = i
    <3>1. ~(c < i) /\ ~(i < c)
      <4>1. c < i => c \in 1..(i - 1)
        BY <1>1
      <4>2. i < c => i \in 1..(c - 1)
        BY <1>1
      <4> QED
        BY <2>1, <2>2, <4>1, <4>2
    <3> QED
      BY <1>1, <3>1
  <2> QED
    BY <1>2, <2>1, <2>2, <2>3
<1> QED
  BY <1>3, <1>4 DEF FoundIn

\* One round of the loop reads one more piece, or refuses the message.
LEMMA AttributeStep ==
  ASSUME CodecInv, DecodeAttribute
  PROVE  CodecInv'
<1> DEFINE key == FIRST_ID \o call.id
           read == ReadAttribute(call.body, cursor, key)
           attr == read.attr.val
<1>1. phase = "attributes" /\ call \in Datagrams /\ Answer(call) /\ call' = call
  BY DEF CodecInv, DecodeAttribute
<1>2. PICK n \in 0..Len(call.pieces) : HasRead(n)
  BY <1>1 DEF CodecInv
<1>3. IsDatagram(call)
  BY <1>1, CallAssumption
<1>4. Body = call.body /\ XorKey = key /\ call.body \in Seq(Byte) /\ Len(call.pieces) \in Nat
  BY <1>1, <1>3, AnswerFacts, LenProperties, Zenon DEF Body, XorKey
<1>5. n + 1 \in 1..Len(call.pieces) /\ n \in Nat /\ n + 1 \in 0..Len(call.pieces)
  <2>1. cursor < Len(call.body)
    BY <1>4, Zenon DEF DecodeAttribute
  <2>2. call.starts[Len(call.pieces) + 1] = Len(call.body) /\ Len(call.body) \in Nat
    BY <1>1, <1>3, AnswerFacts, ByteSeq, Zenon DEF Cut
  <2>3. n # Len(call.pieces)
    BY <1>2, <2>1, <2>2 DEF HasRead
  <2> QED
    BY <1>4, <2>3
<1> DEFINE p == call.pieces[n + 1]
<1>6. p \in Piece /\ Reads(p, read.attr)
      /\ (p.kind # "refused" => read.pos = call.starts[(n + 1) + 1])
  <2>1. cursor = call.starts[n + 1]
    BY <1>2 DEF HasRead
  <2> QED
    BY <1>1, <1>3, <1>5, <2>1, PieceRead
<1>7. /\ cursor' = read.pos
      /\ \/ /\ read.attr.ok /\ attr.kind \in DOMAIN found
            /\ found' = IF found[attr.kind].some THEN found
                        ELSE [found EXCEPT ![attr.kind] = Some(attr.val)]
            /\ UNCHANGED <<phase, result>>
         \/ /\ read.attr.ok /\ attr.kind \in {"MessageIntegrity", "UnknownOptional"}
            /\ UNCHANGED <<phase, result, found>>
         \/ /\ read.attr.ok => attr.kind \in {"ResponseAddress", "ChangeRequest"}
            /\ phase' = "decoded" /\ result' = Some(Err)
            /\ UNCHANGED found
  BY <1>4, Zenon DEF DecodeAttribute, Return
<1>8. DOMAIN found = Kinds /\ found = [k \in Kinds |-> found[k]]
  BY <1>2 DEF HasRead
<1> HIDE DEF read, key, p
<1>9. p.kind \in Kinds \cup {"ignored", "refused"}
  BY <1>6 DEF Piece
<1>10. CASE p.kind \in Kinds
  <2>1. read.attr.ok /\ attr.kind = p.kind /\ attr.val = p.val /\ p.kind # "refused"
    BY <1>6, <1>10 DEF Reads, Kinds
  <2>2. /\ found' = IF found[p.kind].some THEN found ELSE [found EXCEPT ![p.kind] = Some(p.val)]
        /\ UNCHANGED <<phase, result>>
    BY <1>7, <1>10, <2>1 DEF Kinds
  <2>3. DOMAIN found' = Kinds /\ found' = [k \in Kinds |-> found'[k]]
    BY <1>8, <2>2
  <2>4. ASSUME NEW k \in Kinds PROVE FoundIn(call.pieces, n + 1, k, found'[k])
    <3>1. FoundIn(call.pieces, n, k, found[k])
      BY <1>2 DEF HasRead
    <3>2. CASE k # p.kind \/ found[k].some
      <4>1. found'[k] = found[k]
        BY <1>8, <2>2, <3>2
      <4> QED
        BY <1>5, <3>1, <3>2, <4>1, FoundOneMore, Zenon DEF p
    <3>3. CASE k = p.kind /\ ~found[k].some
      <4>1. found'[k] = Some(p.val)
        BY <1>8, <2>2, <3>3
      <4> QED
        BY <1>5, <3>1, <3>3, <4>1, FoundOneMore DEF p
    <3> QED
      BY <3>2, <3>3
  <2>5. ASSUME NEW i \in 1..(n + 1) PROVE call.pieces[i].kind # "refused"
    BY <1>2, <1>5, <2>1 DEF HasRead, p
  <2>6. HasRead(n + 1)'
    BY <1>1, <1>6, <1>7, <2>1, <2>3, <2>4, <2>5 DEF HasRead
  <2> QED
    BY <1>1, <1>5, <2>2, <2>6 DEF CodecInv
<1>11. CASE p.kind = "ignored"
  <2>1. read.attr.ok /\ attr.kind \in {"MessageIntegrity", "UnknownOptional"}
        /\ p.kind # "refused" /\ p.kind \notin Kinds
    BY <1>6, <1>11 DEF Reads, Kinds
  <2>2. UNCHANGED <<phase, result, found>>
    BY <1>7, <1>8, <2>1 DEF Kinds
  <2>3. ASSUME NEW k \in Kinds PROVE FoundIn(call.pieces, n + 1, k, found[k])
    <3>1. FoundIn(call.pieces, n, k, found[k])
      BY <1>2 DEF HasRead
    <3> QED
      BY <1>5, <2>1, <3>1, FoundOneMore DEF p
  <2>4. ASSUME NEW i \in 1..(n + 1) PROVE call.pieces[i].kind # "refused"
    BY <1>2, <1>5, <2>1 DEF HasRead, p
  <2>5. HasRead(n + 1)'
    BY <1>1, <1>6, <1>7, <1>8, <2>1, <2>2, <2>3, <2>4, Zenon DEF HasRead
  <2> QED
    BY <1>1, <1>5, <2>2, <2>5 DEF CodecInv
<1>12. CASE p.kind = "refused"
  <2>1. read.attr.ok => attr.kind \in {"ResponseAddress", "ChangeRequest"}
    BY <1>6, <1>12 DEF Reads
  <2>2. phase' = "decoded" /\ result' = Some(Err)
    BY <1>7, <1>8, <2>1 DEF Kinds
  <2>3. Meaning(call) = Err
    <3>1. \E i \in DOMAIN call.pieces : call.pieces[i].kind = "refused"
      BY <1>1, <1>3, <1>5, <1>12, AnswerFacts, LenProperties DEF p
    <3>2. call.header.id2 = call.id
      BY <1>1, <1>3, AnswerFacts
    <3> QED
      BY <3>1, <3>2 DEF Meaning
  <2> QED
    BY <1>1, <2>2, <2>3 DEF CodecInv
<1> QED
  BY <1>9, <1>10, <1>11, <1>12, SMTT(30)

\* The header decides, or the loop begins at the first piece.
LEMMA HeaderStep ==
  ASSUME CodecInv, DecodeHeader
  PROVE  CodecInv'
<1>1. phase = "header" /\ call \in Datagrams /\ cursor = 0 /\ found = NothingFound
      /\ call' = call /\ cursor' = cursor /\ found' = found
  BY DEF CodecInv, DecodeHeader
<1>2. IsDatagram(call)
  BY <1>1, CallAssumption
<1>3. Len(call.bytes) \in Nat
  BY <1>2, ByteSeq DEF IsDatagram
<1>4. CASE Header(call.id, call.bytes) # "response"
  <2>1. phase' = "decoded" /\ result' = Some(Meaning(call))
    <3>1. CASE Header(call.id, call.bytes) = "foreign"
      <4>1. ~(Len(call.bytes) < 20) /\ call.header.id2 # call.id
        BY <1>2, <3>1, HeaderRead
      <4> QED
        BY <3>1, <4>1 DEF DecodeHeader, Return, Meaning
    <3>2. CASE Header(call.id, call.bytes) = "error"
      <4>1. Len(call.bytes) < 20
            \/ (~(Len(call.bytes) < 20) /\ call.header.id2 = call.id /\ call.header # AnswerHeader(call))
        BY <1>2, <3>2, HeaderRead
      <4>2. Meaning(call) = Err
        BY <4>1 DEF Meaning
      <4> QED
        BY <3>2, <4>2 DEF DecodeHeader, Return
    <3> QED
      BY <1>2, <1>4, <3>1, <3>2, HeaderRead
  <2> QED
    BY <1>1, <2>1 DEF CodecInv
<1>5. CASE Header(call.id, call.bytes) = "response"
  <2>1. Answer(call)
    <3>1. ~(Len(call.bytes) < 20) /\ call.header = AnswerHeader(call)
      BY <1>2, <1>5, HeaderRead
    <3> QED
      BY <1>3, <3>1 DEF Answer
  <2>2. phase' = "attributes" /\ result' = result
    BY <1>5 DEF DecodeHeader
  <2>3. HasRead(0)'
    <3>1. call.starts[0 + 1] = 0
      BY <1>2, <2>1, AnswerFacts DEF Cut
    <3>2. DOMAIN found = Kinds /\ found = [k \in Kinds |-> found[k]]
          /\ \A k \in Kinds : found[k] = None
      BY <1>1, KindFacts DEF NothingFound, Optional, Kinds
    <3>3. \A k \in Kinds : FoundIn(call.pieces, 0, k, found[k])
      BY <3>2 DEF FoundIn
    <3>4. \A i \in 1..0 : call.pieces[i].kind # "refused"
      OBVIOUS
    <3> QED
      BY <1>1, <3>1, <3>2, <3>3, <3>4 DEF HasRead
  <2>4. 0 \in 0..Len(call.pieces)
    BY <1>2, <2>1, AnswerFacts, LenProperties
  <2> QED
    BY <1>1, <2>1, <2>2, <2>3, <2>4 DEF CodecInv, Answer, AnswerHeader
<1> QED
  BY <1>4, <1>5

\* At the end of the body all pieces are read.
LEMMA EndStep ==
  ASSUME CodecInv, DecodeEnd
  PROVE  CodecInv'
<1>1. phase = "attributes" /\ call \in Datagrams /\ Answer(call) /\ call' = call
  BY DEF CodecInv, DecodeEnd
<1>2. PICK n \in 0..Len(call.pieces) : HasRead(n)
  BY <1>1 DEF CodecInv
<1>3. IsDatagram(call)
  BY <1>1, CallAssumption
<1>4. Body = call.body /\ Len(call.body) \in Nat /\ Len(call.pieces) \in Nat
      /\ call.pieces \in Seq(Piece) /\ DOMAIN call.pieces = 1..Len(call.pieces)
  BY <1>1, <1>3, AnswerFacts, LenProperties, Zenon DEF Body
<1>5. n = Len(call.pieces)
  <2> SUFFICES ASSUME n + 1 \in 1..Len(call.pieces) PROVE FALSE
    BY <1>4
  <2>1. cursor >= Len(call.body) /\ cursor = call.starts[n + 1]
    BY <1>2, <1>4 DEF DecodeEnd, HasRead
  <2> DEFINE wire == call.pieces[n + 1].wire
  <2>2. wire \in Seq(Byte) /\ wire # <<>> /\ call.starts[(n + 1) + 1] = call.starts[n + 1] + Len(wire)
    <3>1. call.pieces[n + 1] \in Piece
      BY <1>4, ElementOfSeq
    <3>2. Cut(call.body, call.starts, call.pieces, FIRST_ID \o call.id)
      BY <1>1, <1>3, AnswerFacts
    <3> QED
      BY <1>4, <3>1, <3>2, Zenon DEF Cut, Piece
  <2>3. call.starts[(n + 1) + 1] \in 0..Len(call.body) /\ call.starts[n + 1] \in 0..Len(call.body)
    <3>1. (n + 1) + 1 \in 1..Len(call.starts) /\ n + 1 \in 1..Len(call.starts)
      BY <1>1, <1>3, <1>4, AnswerFacts
    <3> QED
      BY <1>1, <1>3, <3>1, AnswerFacts, ElementOfSeq, Zenon
  <2>4. Len(wire) \in Nat \ {0}
    BY <2>2, EmptySeq
  <2> HIDE DEF wire
  <2> QED
    BY <1>4, <2>1, <2>2, <2>3, <2>4
<1>6. \A k \in Kinds : found[k] = First(call.pieces, k)
  BY <1>2, <1>4, <1>5, FoundAll DEF HasRead
<1>7. found = [k \in DOMAIN NothingFound |-> First(call.pieces, k)]
  BY <1>2, <1>6, KindFacts DEF HasRead
<1>8. Meaning(call) = IF found["MappedAddress"].some THEN Ok(Some(found)) ELSE Err
  <2>1. ~(\E i \in DOMAIN call.pieces : call.pieces[i].kind = "refused")
    BY <1>2, <1>4, <1>5 DEF HasRead
  <2>2. call.header.id2 = call.id /\ call.header = AnswerHeader(call) /\ ~(Len(call.bytes) < 20)
    <3>1. Len(call.bytes) \in Nat
      BY <1>3, ByteSeq DEF IsDatagram
    <3> QED
      BY <1>1, <1>3, <3>1, AnswerFacts DEF Answer
  <2>3. found["MappedAddress"] = First(call.pieces, "MappedAddress")
    BY <1>6 DEF Kinds
  <2> QED
    BY <1>7, <2>1, <2>2, <2>3, Zenon DEF Meaning
<1>9. phase' = "decoded" /\ result' = Some(Meaning(call))
  BY <1>8 DEF DecodeEnd, Return
<1> QED
  BY <1>1, <1>9 DEF CodecInv

\* Every step of the codec keeps CodecInv.
LEMMA CodecStep == CodecInv /\ [Next]_vars => CodecInv'
<1> SUFFICES ASSUME CodecInv, [Next]_vars PROVE CodecInv'
  OBVIOUS
<1>1. CASE EncodeRequest
  BY <1>1 DEF CodecInv, EncodeRequest
<1>2. CASE UNCHANGED vars
  BY <1>2 DEF CodecInv, vars, HasRead
<1> QED
  BY <1>1, <1>2, HeaderStep, AttributeStep, EndStep DEF Next

\* Every call starts in CodecInv.
LEMMA CodecInit == Init => CodecInv
BY DEF Init, CodecInv

\* decode_const returns what the bytes of a datagram mean, whatever arrives: any
\* number of attributes, of any length and in any order, whole or cut short.
THEOREM AlwaysDecodesTheMeaning == Spec => []DecodesTheMeaning
<1>1. CodecInv => DecodesTheMeaning
  BY DEF CodecInv, DecodesTheMeaning
<1> QED
  BY <1>1, CodecInit, CodecStep, PTL DEF Spec

-----------------------------------------------------------------------------
(* Encoding.                                                               *)

Wire(typ, opaque) == BigEndian(typ) \o BigEndian(Len(opaque)) \o opaque

\* The type, the length and the value of an attribute are where Attribute::read
\* looks for them.
LEMMA WireFields ==
  ASSUME NEW typ \in 0..U16_MAX, NEW opaque \in Seq(Byte), Len(opaque) \in 0..U16_MAX
  PROVE  LET w == Wire(typ, opaque)
         IN  /\ w \in Seq(Byte) /\ Len(w) = 4 + Len(opaque)
             /\ Type(w) = typ /\ U16At(w, 2) = Len(opaque) /\ Value(w) = opaque
<1> DEFINE a == BigEndian(typ)
           b == BigEndian(Len(opaque))
           ab == a \o b
           w == ab \o opaque
<1>1. Len(opaque) \in Nat
  BY ByteSeq
<1>2. a \in Seq(Byte) /\ Len(a) = 2 /\ b \in Seq(Byte) /\ Len(b) = 2
      /\ 256 * a[1] + a[2] = typ /\ 256 * b[1] + b[2] = Len(opaque)
  BY <1>1, BigEndianFacts
<1> HIDE DEF a, b
<1>3. ab \in Seq(Byte) /\ Len(ab) = 4
      /\ ab[1] = a[1] /\ ab[2] = a[2] /\ ab[3] = b[1] /\ ab[4] = b[2]
  <2>1. ab \in Seq(Byte) /\ Len(ab) = Len(a) + Len(b)
        /\ (\A i \in 1..Len(a) : ab[i] = a[i]) /\ (\A i \in 1..Len(b) : ab[Len(a) + i] = b[i])
    BY <1>2, Joined, ZenonT(60)
  <2> HIDE DEF ab
  <2> QED
    BY <1>2, <2>1
<1> HIDE DEF ab
<1>4. /\ w \in Seq(Byte) /\ Len(w) = 4 + Len(opaque)
      /\ \A i \in 1..4 : w[i] = ab[i]
      /\ SubSeq(w, 5, 4 + Len(opaque)) = opaque
  <2>1. /\ w \in Seq(Byte) /\ Len(w) = Len(ab) + Len(opaque)
        /\ \A i \in 1..Len(ab) : w[i] = ab[i]
        /\ SubSeq(w, Len(ab) + 1, Len(ab) + Len(opaque)) = opaque
    BY <1>3, Joined, Zenon
  <2> HIDE DEF w
  <2>2. Len(ab) = 4
    BY <1>3
  <2> QED
    BY <2>1, <2>2
<1> HIDE DEF w
<1>5. w[0 + 1] = a[1] /\ w[0 + 2] = a[2] /\ w[2 + 1] = b[1] /\ w[2 + 2] = b[2]
  BY <1>3, <1>4
<1>6. U16At(w, 0) = typ /\ U16At(w, 2) = Len(opaque)
  BY <1>2, <1>5 DEF U16At
<1>7. Type(w) = typ /\ Value(w) = opaque
  BY <1>4, <1>6 DEF Type, Value
<1>8. w = Wire(typ, opaque)
  BY DEF w, ab, a, b, Wire
<1> QED
  BY <1>4, <1>6, <1>7, <1>8

Part(present, kind, val) ==
  IF present THEN EncodeAttribute([kind |-> kind, val |-> val]) ELSE Ok(<<>>)

\* Attribute::encode_address writes what Attribute::read_address reads.
LEMMA AddressEncoded ==
  ASSUME NEW addr \in SocketAddr
  PROVE  LET e == EncodeAttribute([kind |-> "ResponseAddress", val |-> addr])
         IN  IF Len(addr.ip) = 4
               THEN /\ e.ok /\ e.val \in Seq(Byte) /\ Len(e.val) = 12 /\ PaddedEnd(e.val) = 12
                    /\ \A key : ReadValue(Type(e.val), Value(e.val), key) =
                                  Ok([kind |-> "ResponseAddress", val |-> addr])
               ELSE e = Err
<1> DEFINE attr == [kind |-> "ResponseAddress", val |-> addr]
           e == EncodeAttribute(attr)
           port == BigEndian(addr.port)
           head == <<0, 1>> \o port
           v == head \o addr.ip
<1>1. addr.ip \in Seq(Byte) /\ Len(addr.ip) \in Nat /\ addr.port \in 0..U16_MAX
  BY SocketAddrFacts, ByteSeq
<1>2. CASE Len(addr.ip) # 4
  <2>1. EncodeAddress(addr) = Err
    BY <1>2 DEF EncodeAddress
  <2>2. e = Err
    BY <2>1 DEF EncodeAttribute, AddressType, Err
  <2> QED
    BY <1>2, <2>2
<1>3. CASE Len(addr.ip) = 4
  <2>1. port \in Seq(Byte) /\ Len(port) = 2 /\ 256 * port[1] + port[2] = addr.port
    BY <1>1, BigEndianFacts
  <2> HIDE DEF port
  <2>2. <<0, 1>> \in Seq(Byte) /\ Len(<<0, 1>>) = 2 /\ <<0, 1>>[2] = 1
    BY ByteRange
  <2>3. head \in Seq(Byte) /\ Len(head) = 4 /\ head[2] = 1 /\ head[3] = port[1] /\ head[4] = port[2]
    <3> DEFINE z == <<0, 1>>
    <3>1. z \in Seq(Byte) /\ Len(z) = 2 /\ z[2] = 1
      BY <2>2
    <3> HIDE DEF z
    <3>2. z \o port \in Seq(Byte) /\ Len(z \o port) = Len(z) + Len(port)
          /\ (\A i \in 1..Len(z) : (z \o port)[i] = z[i])
          /\ (\A i \in 1..Len(port) : (z \o port)[Len(z) + i] = port[i])
      BY <2>1, <3>1, Joined, ZenonT(60)
    <3>3. z \o port \in Seq(Byte) /\ Len(z \o port) = 4 /\ (z \o port)[2] = 1
          /\ (z \o port)[3] = port[1] /\ (z \o port)[4] = port[2]
      BY <2>1, <3>1, <3>2
    <3> QED
      BY <3>3 DEF z
  <2> HIDE DEF head
  <2>4. v \in Seq(Byte) /\ Len(v) = 8 /\ (\A i \in 1..4 : v[i] = head[i])
        /\ (\A i \in 1..4 : v[4 + i] = addr.ip[i])
    <3>1. v \in Seq(Byte) /\ Len(v) = Len(head) + Len(addr.ip)
          /\ (\A i \in 1..Len(head) : v[i] = head[i])
          /\ (\A i \in 1..Len(addr.ip) : v[Len(head) + i] = addr.ip[i])
      BY <1>1, <2>3, Joined, Zenon
    <3> HIDE DEF v
    <3>2. Len(head) = 4 /\ Len(addr.ip) = 4
      BY <1>3, <2>3
    <3> QED
      BY <3>1, <3>2
  <2>5. EncodeAddress(addr) = Ok(v)
    BY <1>3 DEF EncodeAddress, v, head, port
  <2> HIDE DEF v
  <2>6. Holds(v, addr)
    <3>1. v[2] = 1 /\ v[3] = port[1] /\ v[4] = port[2]
      BY <2>3, <2>4
    <3>2. U16At(v, 2) = addr.port
      BY <2>1, <3>1 DEF U16At
    <3>3. \A i \in DOMAIN addr.ip : v[i + 4] = addr.ip[i]
      <4>1. DOMAIN addr.ip = 1..4 /\ \A i \in 1..4 : i + 4 = 4 + i
        BY <1>1, <1>3, ByteSeq
      <4> QED
        BY <2>4, <4>1
    <3> QED
      BY <1>3, <2>4, <3>1, <3>2, <3>3 DEF Holds, AddressShaped
  <2>7. ReadAddress(v) = Ok(addr)
    BY <2>4, <2>6, PlainRead
  <2>8. ~(Len(v) > U16_MAX) /\ 2 \in 0..U16_MAX /\ Len(v) \in 0..U16_MAX
    <3>1. 8 \in 0..U16_MAX /\ 2 \in 0..U16_MAX
      BY U16Range
    <3> QED
      BY <2>4, <3>1, U16Range
  <2>9. e = Ok(Wire(2, v))
    <3>1. AddressType["ResponseAddress"] = 2 /\ "ResponseAddress" \in DOMAIN AddressType
      BY KindFacts DEF AddressType
    <3>2. EncodeAddress(addr).ok /\ EncodeAddress(addr).val = v
      BY <2>5 DEF Ok
    <3> QED
      BY <2>8, <3>1, <3>2, Zenon DEF EncodeAttribute, Wire
  <2>10. LET w == Wire(2, v)
         IN  w \in Seq(Byte) /\ Len(w) = 12 /\ Type(w) = 2 /\ U16At(w, 2) = 8 /\ Value(w) = v
    <3>1. LET w == Wire(2, v)
          IN  /\ w \in Seq(Byte) /\ Len(w) = 4 + Len(v)
              /\ Type(w) = 2 /\ U16At(w, 2) = Len(v) /\ Value(w) = v
      BY <2>4, <2>8, WireFields, Zenon
    <3> QED
      BY <2>4, <3>1
  <2>11. e.ok /\ e.val = Wire(2, v)
    BY <2>9 DEF Ok
  <2> HIDE DEF e
  <2>12. PaddedEnd(e.val) = 12
    BY <2>10, <2>11 DEF PaddedEnd
  <2>13. ASSUME NEW key PROVE ReadValue(2, v, key) = Ok([kind |-> "ResponseAddress", val |-> addr])
    <3> DEFINE typ == 2
    <3>1. typ = 2
      OBVIOUS
    <3> HIDE DEF typ
    <3>3. ReadValue(typ, v, key) = Ok([kind |-> "ResponseAddress", val |-> addr])
      BY <2>7, <3>1, CodeFacts DEF ReadValue, Ok, Codes
    <3> QED
      BY <3>1, <3>3
  <2> QED
    BY <1>3, <2>10, <2>11, <2>12, <2>13 DEF e
<1> QED
  BY <1>2, <1>3

\* Attribute::encode_change_request writes what Attribute::read reads.
LEMMA ChangeEncoded ==
  ASSUME NEW c \in {"Ip", "Port", "IpAndPort"}
  PROVE  LET e == EncodeAttribute([kind |-> "ChangeRequest", val |-> c])
         IN  /\ e.ok /\ e.val \in Seq(Byte) /\ Len(e.val) = 8 /\ PaddedEnd(e.val) = 8
             /\ \A key : ReadValue(Type(e.val), Value(e.val), key) =
                           Ok([kind |-> "ChangeRequest", val |-> c])
<1> DEFINE e == EncodeAttribute([kind |-> "ChangeRequest", val |-> c])
           v == <<0, 0, 0, ChangeRequestBits[c]>>
           w == Wire(3, v)
<1>1. ChangeRequestBits["Ip"] = 32 /\ ChangeRequestBits["Port"] = 64
      /\ ChangeRequestBits["IpAndPort"] = 96
  BY DEF ChangeRequestBits
<1>2. v \in Seq(Byte) /\ Len(v) = 4
  <2>1. 0 \in Byte /\ ChangeRequestBits[c] \in Byte
    BY <1>1, ByteRange
  <2> QED
    BY <2>1
<1>3. EncodeChangeRequest(c) = v
  BY DEF EncodeChangeRequest
<1> HIDE DEF v
<1>4. ~(Len(v) > U16_MAX) /\ 3 \in 0..U16_MAX /\ Len(v) \in 0..U16_MAX
  <2>1. 4 \in 0..U16_MAX /\ 3 \in 0..U16_MAX
    BY U16Range
  <2> QED
    BY <1>2, <2>1, U16Range
<1>5. e = Ok(w)
  <2>1. "ChangeRequest" \notin DOMAIN AddressType /\ CHANGE_REQUEST = 3
    BY DEF AddressType, CHANGE_REQUEST
  <2>2. Ok(v).ok /\ Ok(v).val = v
    BY DEF Ok
  <2> QED
    BY <1>3, <1>4, <2>1, <2>2, Zenon DEF EncodeAttribute, Wire
<1>6. w \in Seq(Byte) /\ Len(w) = 8 /\ Type(w) = 3 /\ U16At(w, 2) = 4 /\ Value(w) = v
  <2>1. w \in Seq(Byte) /\ Len(w) = 4 + Len(v)
        /\ Type(w) = 3 /\ U16At(w, 2) = Len(v) /\ Value(w) = v
    BY <1>2, <1>4, WireFields, Zenon
  <2> HIDE DEF w
  <2> QED
    BY <1>2, <2>1
<1> HIDE DEF w
<1>7. PaddedEnd(w) = 8
  BY <1>6 DEF PaddedEnd
<1>8. ASSUME NEW key PROVE ReadValue(3, v, key) = Ok([kind |-> "ChangeRequest", val |-> c])
  <2> DEFINE typ == 3
  <2>1. typ = 3
    OBVIOUS
  <2> HIDE DEF typ
  <2>2. ReadValue(typ, v, key) =
          CASE v = <<0, 0, 0, 32>> -> Ok([kind |-> "ChangeRequest", val |-> "Ip"])
            [] v = <<0, 0, 0, 64>> -> Ok([kind |-> "ChangeRequest", val |-> "Port"])
            [] v = <<0, 0, 0, 96>> -> Ok([kind |-> "ChangeRequest", val |-> "IpAndPort"])
            [] OTHER -> Err
    BY <1>1, <2>1, CodeFacts DEF ReadValue, Codes
  <2>3. <<0, 0, 0, 32>> # <<0, 0, 0, 64>> /\ <<0, 0, 0, 32>> # <<0, 0, 0, 96>>
        /\ <<0, 0, 0, 64>> # <<0, 0, 0, 96>>
    OBVIOUS
  <2>4. CASE c = "Ip"
    BY <1>1, <2>1, <2>2, <2>3, <2>4 DEF v
  <2>5. CASE c = "Port"
    BY <1>1, <2>1, <2>2, <2>3, <2>5 DEF v
  <2>6. CASE c = "IpAndPort"
    BY <1>1, <2>1, <2>2, <2>3, <2>6 DEF v
  <2> QED
    BY <2>4, <2>5, <2>6
<1>9. e.ok /\ e.val = w
  BY <1>5 DEF Ok
<1> QED
  BY <1>6, <1>7, <1>8, <1>9

\* A user name is padded with zeros to a multiple of four bytes, and refused when
\* it does not fit.
LEMMA NameEncoded ==
  ASSUME NEW u \in Seq(Byte)
  PROVE  LET e == EncodeAttribute([kind |-> "Username", val |-> u])
             padded == 4 * ((Len(u) + 3) \div 4)
         IN  IF padded > U16_MAX THEN e = Err
             ELSE /\ e.ok /\ e.val \in Seq(Byte) /\ Len(e.val) = 4 + padded
                  /\ PaddedEnd(e.val) = 4 + padded
                  /\ Type(e.val) = USERNAME /\ Value(e.val) \in Seq(Byte)
                  /\ Len(Value(e.val)) = padded
                  /\ \A i \in 1..padded : Value(e.val)[i] = IF i <= Len(u) THEN u[i] ELSE 0
<1> DEFINE e == EncodeAttribute([kind |-> "Username", val |-> u])
           padded == 4 * ((Len(u) + 3) \div 4)
           zeros == [i \in 1..((4 - (Len(u) % 4)) % 4) |-> 0]
           v == u \o zeros
           w == Wire(6, v)
<1>1. Len(u) \in Nat
  BY ByteSeq
<1>2. padded \in Nat /\ Len(u) <= padded /\ padded % 4 = 0 /\ padded <= Len(u) + 3
  BY <1>1, Padding
<1>3. (4 - (Len(u) % 4)) % 4 = padded - Len(u)
  <2>1. ASSUME NEW n \in Nat PROVE (4 - (n % 4)) % 4 = 4 * ((n + 3) \div 4) - n
    OBVIOUS
  <2> QED
    BY <1>1, <2>1
<1> HIDE DEF padded
<1>4. zeros \in Seq(Byte) /\ Len(zeros) = padded - Len(u)
      /\ \A i \in 1..(padded - Len(u)) : zeros[i] = 0
  <2>1. ASSUME NEW n \in Nat
        PROVE  /\ [i \in 1..n |-> 0] \in Seq(Byte) /\ Len([i \in 1..n |-> 0]) = n
               /\ \A i \in 1..n : [j \in 1..n |-> 0][i] = 0
    BY ByteRange
  <2>2. padded - Len(u) \in Nat
    BY <1>1, <1>2
  <2> QED
    BY <1>3, <2>1, <2>2, Zenon
<1> HIDE DEF zeros
<1>5. /\ v \in Seq(Byte) /\ Len(v) = padded
      /\ \A i \in 1..padded : v[i] = IF i <= Len(u) THEN u[i] ELSE 0
  <2>1. /\ v \in Seq(Byte) /\ Len(v) = Len(u) + Len(zeros)
        /\ \A i \in 1..Len(u) : v[i] = u[i]
        /\ \A i \in 1..Len(zeros) : v[Len(u) + i] = zeros[i]
    BY <1>4, Joined, Zenon
  <2> HIDE DEF v
  <2>2. Len(v) = padded
    BY <1>1, <1>2, <1>4, <2>1
  <2>3. ASSUME NEW i \in 1..padded PROVE v[i] = IF i <= Len(u) THEN u[i] ELSE 0
    <3>1. CASE i <= Len(u)
      BY <1>1, <2>1, <3>1
    <3>2. CASE ~(i <= Len(u))
      <4>1. i - Len(u) \in 1..(padded - Len(u)) /\ Len(u) + (i - Len(u)) = i
        BY <1>1, <1>2, <3>2
      <4>2. v[Len(u) + (i - Len(u))] = zeros[i - Len(u)] /\ zeros[i - Len(u)] = 0
        BY <1>4, <2>1, <4>1
      <4> QED
        BY <3>2, <4>1, <4>2
    <3> QED
      BY <3>1, <3>2
  <2> QED
    BY <2>1, <2>2, <2>3
<1>6. PadUsername(u) = v
  BY DEF PadUsername, v, zeros
<1> HIDE DEF v
<1>7. /\ "Username" \notin DOMAIN AddressType /\ USERNAME = 6 /\ Ok(v).ok /\ Ok(v).val = v
  BY DEF AddressType, USERNAME, Ok
<1>8. CASE padded > U16_MAX
  <2>1. e = Err
    BY <1>5, <1>6, <1>7, <1>8, Zenon DEF EncodeAttribute
  <2> QED
    BY <1>8, <2>1 DEF padded
<1>9. CASE ~(padded > U16_MAX)
  <2>1. Len(v) \in 0..U16_MAX /\ 6 \in 0..U16_MAX /\ ~(Len(v) > U16_MAX)
    <3>1. 6 \in 0..U16_MAX /\ U16_MAX \in Nat
      BY U16Range
    <3> QED
      BY <1>2, <1>5, <1>9, <3>1
  <2>2. e.ok /\ e.val = w
    <3>1. e = Ok(w)
      BY <1>6, <1>7, <2>1, Zenon DEF EncodeAttribute, Wire
    <3> QED
      BY <3>1 DEF Ok
  <2>3. w \in Seq(Byte) /\ Len(w) = 4 + Len(v) /\ Type(w) = 6 /\ U16At(w, 2) = Len(v) /\ Value(w) = v
    BY <1>5, <2>1, WireFields
  <2> HIDE DEF w
  <2>4. PaddedEnd(w) = 4 + padded
    <3>1. ASSUME NEW n \in Nat, n % 4 = 0 PROVE 4 * ((n + 3) \div 4) = n
      BY <3>1
    <3>2. U16At(w, 2) = padded
      BY <1>5, <2>3
    <3> QED
      BY <1>2, <3>1, <3>2 DEF PaddedEnd
  <2> HIDE DEF e
  <2> QED
    BY <1>5, <1>7, <1>9, <2>2, <2>3, <2>4, Zenon DEF e, padded
<1> QED
  BY <1>8, <1>9

\* The attributes of a request are one after the other in the body.
LEMMA Parts ==
  ASSUME NEW a \in Seq(Byte), NEW c \in Seq(Byte), NEW u \in Seq(Byte)
  PROVE  LET body == a \o c \o u
         IN  /\ body \in Seq(Byte) /\ Len(body) = Len(a) + Len(c) + Len(u)
             /\ At(body, 0, a) /\ At(body, Len(a), c)
             /\ SubSeq(body, Len(a) + Len(c) + 1, Len(body)) = u
<1> DEFINE ac == a \o c
           body == ac \o u
<1>1. Len(a) \in Nat /\ Len(c) \in Nat /\ Len(u) \in Nat
  BY ByteSeq
<1>2. /\ ac \in Seq(Byte) /\ Len(ac) = Len(a) + Len(c) /\ SubSeq(ac, 1, Len(a)) = a
      /\ SubSeq(ac, Len(a) + 1, Len(a) + Len(c)) = c
  BY Joined
<1> HIDE DEF ac
<1>3. /\ body \in Seq(Byte) /\ Len(body) = Len(ac) + Len(u) /\ SubSeq(body, 1, Len(ac)) = ac
      /\ SubSeq(body, Len(ac) + 1, Len(ac) + Len(u)) = u
  BY <1>2, Joined, Zenon
<1> HIDE DEF body
<1>4. Len(body) = Len(a) + Len(c) + Len(u)
  BY <1>1, <1>2, <1>3
<1>5. ASSUME NEW m \in Nat \ {0}, NEW n \in Nat, m <= n + 1, n <= Len(ac)
      PROVE  SubSeq(ac, m, n) = SubSeq(body, m, n)
  <2>1. Len(ac) \in Nat /\ Len(ac) <= Len(body)
    BY <1>1, <1>2, <1>3
  <2>2. SubSeq(SubSeq(body, 1, Len(ac)), m, n) = SubSeq(body, m, n)
    BY <1>3, <1>5, <2>1, SliceOfPrefix
  <2> QED
    BY <1>3, <2>2, Zenon
<1>6. SubSeq(body, 1, Len(a)) = a
  <2>1. 1 \in Nat \ {0} /\ 1 <= Len(a) + 1 /\ Len(a) <= Len(ac)
    BY <1>1, <1>2
  <2>2. SubSeq(ac, 1, Len(a)) = SubSeq(body, 1, Len(a))
    BY <1>1, <1>5, <2>1, Zenon
  <2> QED
    BY <1>2, <2>2
<1>7. SubSeq(body, Len(a) + 1, Len(a) + Len(c)) = c
  <2>1. /\ Len(a) + 1 \in Nat \ {0} /\ Len(a) + Len(c) \in Nat
        /\ Len(a) + 1 <= Len(a) + Len(c) + 1 /\ Len(a) + Len(c) <= Len(ac)
    BY <1>1, <1>2
  <2>2. SubSeq(ac, Len(a) + 1, Len(a) + Len(c)) = SubSeq(body, Len(a) + 1, Len(a) + Len(c))
    BY <1>5, <2>1, Zenon
  <2> QED
    BY <1>2, <2>2
<1>8. At(body, 0, a)
  BY <1>1, <1>3, <1>4, <1>6 DEF At
<1>9. At(body, Len(a), c)
  BY <1>1, <1>3, <1>4, <1>7 DEF At
<1>10. SubSeq(body, Len(a) + Len(c) + 1, Len(body)) = u
  BY <1>1, <1>2, <1>3, <1>4
<1> QED
  BY <1>3, <1>4, <1>8, <1>9, <1>10 DEF body, ac

BindRequests == [kind : {"Bind"},
                 response_address : {None} \cup [some : {TRUE}, val : SocketAddr],
                 change_request : {"None"} \cup DOMAIN ChangeRequestBits,
                 username : {None} \cup [some : {TRUE}, val : Seq(Byte)]]

\* The value of an Option that is Some.
LEMMA OptionValue ==
  ASSUME NEW S, NEW o \in {None} \cup [some : {TRUE}, val : S], o.some
  PROVE  o.val \in S
<1>1. o # None
  BY DEF None
<1>2. o \in [some : {TRUE}, val : S]
  BY <1>1, Zenon
<1> QED
  BY <1>2

AddressPart(req) == Part(req.response_address.some, "ResponseAddress", req.response_address.val)
ChangePart(req) == Part(req.change_request # "None", "ChangeRequest", req.change_request)
NamePart(req) == Part(req.username.some, "Username", req.username.val)

\* What a part of a request is on the wire, in the order of BindRequest::encode.
LEMMA AddressPartFacts ==
  ASSUME NEW req \in BindRequests
  PROVE  LET a == AddressPart(req)
             addr == req.response_address.val
         IN  IF req.response_address.some /\ Len(addr.ip) = 16 THEN a = Err
             ELSE /\ a.ok /\ a.val \in Seq(Byte) /\ Len(a.val) = AddressLen(req)
                  /\ req.response_address.some =>
                       /\ PaddedEnd(a.val) = 12
                       /\ \A key : ReadValue(Type(a.val), Value(a.val), key) =
                                     Ok([kind |-> "ResponseAddress", val |-> addr])
<1>1. CASE ~req.response_address.some
  <2>1. AddressPart(req) = Ok(<<>>)
    BY <1>1 DEF AddressPart, Part
  <2>2. Ok(<<>>).ok /\ Ok(<<>>).val = <<>> /\ <<>> \in Seq(Byte) /\ Len(<<>>) = 0
    BY DEF Ok
  <2> QED
    BY <1>1, <2>1, <2>2, Zenon DEF AddressLen
<1>2. CASE req.response_address.some
  <2>1. req.response_address.val \in SocketAddr
    <3>1. req.response_address \in {None} \cup [some : {TRUE}, val : SocketAddr]
      BY Zenon DEF BindRequests
    <3> QED
      BY <1>2, <3>1, OptionValue, Zenon
  <2>2. Len(req.response_address.val.ip) \in {4, 16}
    BY <2>1, SocketAddrFacts
  <2>3. AddressPart(req) = EncodeAttribute([kind |-> "ResponseAddress", val |-> req.response_address.val])
        /\ AddressLen(req) = 12
    BY <1>2 DEF AddressPart, Part, AddressLen
  <2>4. LET a == AddressPart(req)
        IN  IF Len(req.response_address.val.ip) = 4
              THEN /\ a.ok /\ a.val \in Seq(Byte) /\ Len(a.val) = 12 /\ PaddedEnd(a.val) = 12
                   /\ \A key : ReadValue(Type(a.val), Value(a.val), key) =
                                 Ok([kind |-> "ResponseAddress", val |-> req.response_address.val])
              ELSE a = Err
    BY <2>1, <2>3, AddressEncoded, Zenon
  <2>5. CASE Len(req.response_address.val.ip) = 4
    <3>1. ~(Len(req.response_address.val.ip) = 16)
      BY <2>5
    <3> QED
      BY <1>2, <2>3, <2>4, <2>5, <3>1, Zenon
  <2>6. CASE Len(req.response_address.val.ip) = 16
    <3>1. ~(Len(req.response_address.val.ip) = 4)
      BY <2>6
    <3> QED
      BY <1>2, <2>4, <2>6, <3>1, Zenon
  <2> QED
    BY <2>2, <2>5, <2>6
<1> QED
  BY <1>1, <1>2

\* The change request of a request, written and read back.
LEMMA ChangePartFacts ==
  ASSUME NEW req \in BindRequests
  PROVE  LET c == ChangePart(req)
         IN  /\ c.ok /\ c.val \in Seq(Byte) /\ Len(c.val) = ChangeLen(req)
             /\ req.change_request # "None" =>
                  /\ PaddedEnd(c.val) = 8
                  /\ \A key : ReadValue(Type(c.val), Value(c.val), key) =
                                Ok([kind |-> "ChangeRequest", val |-> req.change_request])
<1>1. CASE req.change_request = "None"
  <2>1. ChangePart(req) = Ok(<<>>)
    BY <1>1, SMTT(30) DEF ChangePart, Part
  <2>2. Ok(<<>>).ok /\ Ok(<<>>).val = <<>> /\ <<>> \in Seq(Byte) /\ Len(<<>>) = 0
    BY DEF Ok
  <2> QED
    BY <1>1, <2>1, <2>2, Zenon DEF ChangeLen
<1>2. CASE req.change_request # "None"
  <2>1. req.change_request \in {"Ip", "Port", "IpAndPort"}
    BY <1>2 DEF BindRequests, ChangeRequestBits
  <2>2. ChangePart(req) = EncodeAttribute([kind |-> "ChangeRequest", val |-> req.change_request])
        /\ ChangeLen(req) = 8
    BY <1>2, SMTT(30) DEF ChangePart, Part, ChangeLen
  <2> QED
    BY <2>1, <2>2, ChangeEncoded
<1> QED
  BY <1>1, <1>2

\* The user name of a request, written with its padding.
LEMMA NamePartFacts ==
  ASSUME NEW req \in BindRequests
  PROVE  LET u == NamePart(req)
             name == req.username.val
         IN  /\ UsernameLen(req) \in Nat
             /\ IF req.username.some /\ UsernameLen(req) - 4 > U16_MAX THEN u = Err
                ELSE /\ u.ok /\ u.val \in Seq(Byte) /\ Len(u.val) = UsernameLen(req)
                     /\ req.username.some =>
                          /\ PaddedEnd(u.val) = UsernameLen(req) /\ Type(u.val) = USERNAME
                          /\ Value(u.val) \in Seq(Byte) /\ Len(Value(u.val)) >= Len(name)
                          /\ \A i \in DOMAIN Value(u.val) :
                               Value(u.val)[i] = IF i <= Len(name) THEN name[i] ELSE 0
<1>1. CASE ~req.username.some
  <2>1. NamePart(req) = Ok(<<>>)
    BY <1>1, SMTT(30) DEF NamePart, Part
  <2>2. Ok(<<>>).ok /\ Ok(<<>>).val = <<>> /\ <<>> \in Seq(Byte) /\ Len(<<>>) = 0
    BY DEF Ok
  <2> QED
    BY <1>1, <2>1, <2>2, Zenon DEF UsernameLen
<1>2. CASE req.username.some
  <2> DEFINE name == req.username.val
             padded == 4 * ((Len(name) + 3) \div 4)
             e == EncodeAttribute([kind |-> "Username", val |-> name])
  <2>1. name \in Seq(Byte)
    <3>1. req.username \in {None} \cup [some : {TRUE}, val : Seq(Byte)]
      BY Zenon DEF BindRequests
    <3> QED
      BY <1>2, <3>1, OptionValue, Zenon
  <2>2. NamePart(req) = e /\ UsernameLen(req) = 4 + padded
    BY <1>2 DEF NamePart, Part, UsernameLen
  <2>3. Len(name) \in Nat
    BY <2>1, ByteSeq
  <2>4. padded \in Nat /\ Len(name) <= padded
    BY <2>3, Padding, Zenon
  <2>5. IF padded > U16_MAX THEN e = Err
        ELSE /\ e.ok /\ e.val \in Seq(Byte) /\ Len(e.val) = 4 + padded
             /\ PaddedEnd(e.val) = 4 + padded
             /\ Type(e.val) = USERNAME /\ Value(e.val) \in Seq(Byte)
             /\ Len(Value(e.val)) = padded
             /\ \A i \in 1..padded : Value(e.val)[i] = IF i <= Len(name) THEN name[i] ELSE 0
    BY <2>1, NameEncoded, Zenon
  <2> HIDE DEF padded, e, name
  <2>6. UsernameLen(req) - 4 = padded /\ UsernameLen(req) \in Nat
    BY <2>2, <2>4, SMTT(30)
  <2>7. CASE padded > U16_MAX
    BY <1>2, <2>2, <2>5, <2>6, <2>7, SMTT(30)
  <2>8. CASE ~(padded > U16_MAX)
    <3>1. DOMAIN Value(e.val) = 1..padded /\ Len(Value(e.val)) >= Len(name)
      BY <2>3, <2>4, <2>5, <2>8, ByteSeq
    <3> QED
      BY <1>2, <2>2, <2>5, <2>6, <2>8, <3>1 DEF name
  <2> QED
    BY <2>7, <2>8
<1> QED
  BY <1>1, <1>2

\* BindRequest::encode and StunCodec::encode, put together.
LEMMA BindEncoded ==
  ASSUME NEW id \in Bytes({8}), NEW req \in BindRequests
  PROVE  LET r == Encode(id, req)
             msg == r.val
             body == SubSeq(msg, 21, Len(msg))
         IN  IF \/ req.response_address.some /\ Len(req.response_address.val.ip) = 16
                \/ AddressLen(req) + ChangeLen(req) + UsernameLen(req) > U16_MAX
               THEN r = Err
               ELSE /\ r.ok
                    /\ msg = Message([typ |-> BINDING_REQUEST, length |-> Len(body),
                                      id1 |-> FIRST_ID, id2 |-> id], body)
                    /\ ReadsBack(body, req, FIRST_ID \o id)
<1> DEFINE a == AddressPart(req)
           c == ChangePart(req)
           u == NamePart(req)
           m == EncodeBindRequest(req)
           total == AddressLen(req) + ChangeLen(req) + UsernameLen(req)
           v6 == req.response_address.some /\ Len(req.response_address.val.ip) = 16
<1>1. m = IF a.ok /\ c.ok /\ u.ok THEN Ok(a.val \o c.val \o u.val) ELSE Err
  BY DEF EncodeBindRequest, AddressPart, ChangePart, NamePart, Part
<1>2. Encode(id, req) =
        IF ~m.ok \/ Len(m.val) > U16_MAX THEN Err
        ELSE Ok(BigEndian(BINDING_REQUEST) \o BigEndian(Len(m.val)) \o FIRST_ID \o id \o m.val)
  BY SMTT(30) DEF Encode, BindRequests
<1>3. AddressLen(req) \in Nat /\ ChangeLen(req) \in Nat /\ UsernameLen(req) \in Nat
      /\ U16_MAX \in Nat /\ total \in Nat
  BY NamePartFacts, U16Range DEF AddressLen, ChangeLen
<1>4. ~Err.ok
  BY DEF Err
<1>5. CASE v6
  <2>1. a = Err
    BY <1>5, AddressPartFacts, Zenon
  <2>2. m = Err
    BY <1>1, <1>4, <2>1
  <2> QED
    BY <1>2, <1>4, <1>5, <2>2, Zenon
<1>6. CASE ~v6 /\ req.username.some /\ UsernameLen(req) - 4 > U16_MAX
  <2>1. u = Err
    BY <1>6, NamePartFacts, Zenon
  <2>2. m = Err
    BY <1>1, <1>4, <2>1
  <2>3. total > U16_MAX
    BY <1>3, <1>6, SMTT(30)
  <2> QED
    BY <1>2, <1>4, <2>2, <2>3, Zenon
<1>7. CASE ~v6 /\ ~(req.username.some /\ UsernameLen(req) - 4 > U16_MAX)
  <2>1. a.ok /\ a.val \in Seq(Byte) /\ Len(a.val) = AddressLen(req)
    BY <1>7, AddressPartFacts, Zenon
  <2>2. c.ok /\ c.val \in Seq(Byte) /\ Len(c.val) = ChangeLen(req)
    BY ChangePartFacts, Zenon
  <2>3. u.ok /\ u.val \in Seq(Byte) /\ Len(u.val) = UsernameLen(req)
    BY <1>7, NamePartFacts, Zenon
  <2> DEFINE b == a.val \o c.val \o u.val
  <2>4. m.ok /\ m.val = b
    <3>1. m = Ok(b)
      BY <1>1, <2>1, <2>2, <2>3, Zenon
    <3> HIDE DEF m, b
    <3> QED
      BY <3>1 DEF Ok
  <2>5. /\ b \in Seq(Byte) /\ Len(b) = Len(a.val) + Len(c.val) + Len(u.val)
        /\ At(b, 0, a.val) /\ At(b, Len(a.val), c.val)
        /\ SubSeq(b, Len(a.val) + Len(c.val) + 1, Len(b)) = u.val
    BY <2>1, <2>2, <2>3, Parts, Zenon
  <2> HIDE DEF a, c, u, m, b, v6
  <2>6. Len(b) = total
    BY <2>1, <2>2, <2>3, <2>5
  <2>7. CASE total > U16_MAX
    BY <1>2, <2>4, <2>6, <2>7, Zenon
  <2>8. CASE ~(total > U16_MAX)
    <3> DEFINE h == [typ |-> BINDING_REQUEST, length |-> Len(b), id1 |-> FIRST_ID, id2 |-> id]
               msg == Message(h, b)
    <3>1. Encode(id, req) = Ok(msg)
      <4>1. Encode(id, req) =
              Ok(BigEndian(BINDING_REQUEST) \o BigEndian(Len(b)) \o FIRST_ID \o id \o b)
        BY <1>2, <2>4, <2>6, <2>8, Zenon
      <4>2. h.typ = BINDING_REQUEST /\ h.length = Len(b) /\ h.id1 = FIRST_ID /\ h.id2 = id
        OBVIOUS
      <4> HIDE DEF h
      <4> QED
        BY <4>1, <4>2, Zenon DEF Message
    <3>2. h \in Headers
      <4>1. Len(b) \in 0..U16_MAX
        BY <1>3, <2>6, <2>8
      <4>2. BINDING_REQUEST \in 0..U16_MAX
        BY U16Range DEF BINDING_REQUEST
      <4>3. FIRST_ID \in Bytes({8})
        BY FirstIdFacts DEF Bytes
      <4> QED
        BY <4>1, <4>2, <4>3 DEF Headers
    <3>3. SubSeq(msg, 21, Len(msg)) = b
      BY <2>5, <3>2, MessageFields, Zenon
    <3>4. ReadsBack(b, req, FIRST_ID \o id)
      <4> DEFINE key == FIRST_ID \o id
      <4>1. req.response_address.some =>
              ReadAttribute(b, 0, key) =
                [attr |-> Ok([kind |-> "ResponseAddress", val |-> req.response_address.val]),
                 pos |-> AddressLen(req)]
        <5> SUFFICES ASSUME req.response_address.some
                     PROVE  ReadAttribute(b, 0, key) =
                       [attr |-> Ok([kind |-> "ResponseAddress", val |-> req.response_address.val]),
                        pos |-> AddressLen(req)]
          OBVIOUS
        <5>1. AddressLen(req) = 12
          BY DEF AddressLen
        <5>2. /\ PaddedEnd(a.val) = 12
              /\ ReadValue(Type(a.val), Value(a.val), key) =
                   Ok([kind |-> "ResponseAddress", val |-> req.response_address.val])
          BY <1>7, AddressPartFacts, Zenon DEF a, v6
        <5>3. Len(a.val) >= 4 /\ Len(a.val) = PaddedEnd(a.val) /\ 0 + Len(a.val) = 12
          BY <2>1, <5>1, <5>2
        <5>4. ReadAttribute(b, 0, key) =
                [attr |-> ReadValue(Type(a.val), Value(a.val), key), pos |-> 0 + Len(a.val)]
          <6> DEFINE wire == a.val
          <6>1. At(b, 0, wire) /\ Len(wire) >= 4 /\ Len(wire) = PaddedEnd(wire)
            BY <2>5, <5>3
          <6> HIDE DEF wire, key, h, msg
          <6>2. ReadAttribute(b, 0, key) =
                  [attr |-> ReadValue(Type(wire), Value(wire), key), pos |-> 0 + Len(wire)]
            BY <6>1, WholeRead
          <6> QED
            BY <6>2 DEF wire
        <5> QED
          BY <5>1, <5>2, <5>3, <5>4
      <4>2. req.change_request # "None" =>
              ReadAttribute(b, AddressLen(req), key) =
                [attr |-> Ok([kind |-> "ChangeRequest", val |-> req.change_request]),
                 pos |-> AddressLen(req) + ChangeLen(req)]
        <5> SUFFICES ASSUME req.change_request # "None"
                     PROVE  ReadAttribute(b, AddressLen(req), key) =
                       [attr |-> Ok([kind |-> "ChangeRequest", val |-> req.change_request]),
                        pos |-> AddressLen(req) + ChangeLen(req)]
          OBVIOUS
        <5>1. ChangeLen(req) = 8
          BY DEF ChangeLen
        <5>2. /\ PaddedEnd(c.val) = 8
              /\ ReadValue(Type(c.val), Value(c.val), key) =
                   Ok([kind |-> "ChangeRequest", val |-> req.change_request])
          BY ChangePartFacts, Zenon DEF c
        <5>3. Len(c.val) >= 4 /\ Len(c.val) = PaddedEnd(c.val)
          BY <2>2, <5>1, <5>2
        <5>4. ReadAttribute(b, Len(a.val), key) =
                [attr |-> ReadValue(Type(c.val), Value(c.val), key), pos |-> Len(a.val) + Len(c.val)]
          <6> DEFINE wire == c.val
                     pos == Len(a.val)
          <6>1. At(b, pos, wire) /\ Len(wire) >= 4 /\ Len(wire) = PaddedEnd(wire)
            BY <2>5, <5>3
          <6> HIDE DEF wire, pos, key, h, msg
          <6>2. ReadAttribute(b, pos, key) =
                  [attr |-> ReadValue(Type(wire), Value(wire), key), pos |-> pos + Len(wire)]
            BY <6>1, WholeRead
          <6> QED
            BY <6>2 DEF wire, pos
        <5> QED
          BY <2>1, <2>2, <5>2, <5>4
      <4>3. SubSeq(b, AddressLen(req) + ChangeLen(req) + 1, Len(b)) = u.val
        BY <2>1, <2>2, <2>5
      <4>4. req.username.some =>
              /\ PaddedEnd(u.val) = Len(u.val) /\ Type(u.val) = USERNAME
              /\ Len(Value(u.val)) >= Len(req.username.val)
              /\ \A i \in DOMAIN Value(u.val) :
                   Value(u.val)[i] = IF i <= Len(req.username.val) THEN req.username.val[i] ELSE 0
        BY <1>7, <2>3, NamePartFacts, Zenon DEF u
      <4>5. Len(b) = AddressLen(req) + ChangeLen(req) + UsernameLen(req)
        BY <2>6
      <4> HIDE DEF key, total
      <4> QED
        BY <4>1, <4>2, <4>3, <4>4, <4>5, Zenon DEF ReadsBack, key
    <3> HIDE DEF msg
    <3>5. Encode(id, req).ok /\ Encode(id, req).val = msg
      BY <3>1 DEF Ok
    <3>6. msg = Message([typ |-> BINDING_REQUEST, length |-> Len(b), id1 |-> FIRST_ID, id2 |-> id], b)
      BY DEF msg
    <3> HIDE DEF h, total
    <3> QED
      BY <1>7, <2>8, <3>3, <3>4, <3>5, <3>6, Zenon DEF v6, total
  <2> QED
    BY <2>7, <2>8
<1> QED
  BY <1>5, <1>6, <1>7, Zenon

\* encode writes every request it can write as a well-formed message that reads
\* back, for user names of any length, and refuses exactly the others.
THEOREM AlwaysEncodesTheRequest == Spec => []EncodesTheRequest
<1>1. CodecInv => EncodesTheRequest
  <2> SUFFICES ASSUME CodecInv, phase = "encoded"
               PROVE  EncodesTheRequest
    BY DEF EncodesTheRequest
  <2>1. call \in Requests /\ result = Some(Encode(call.id, call.req))
    BY DEF CodecInv
  <2>2. IsRequest(call) /\ result.val = Encode(call.id, call.req)
    BY <2>1, CallAssumption DEF Some
  <2>3. CASE call.req = [kind |-> "SharedSecret"]
    <3>1. call.req.kind = "SharedSecret"
      BY <2>3
    <3>2. result = Some(Err)
      BY <2>1, <3>1 DEF Encode
    <3> QED
      BY <3>1, <3>2, Zenon DEF EncodesTheRequest
  <2>4. CASE call.req \in BindRequests
    <3>1. call.id \in Bytes({8}) /\ call.req.kind # "SharedSecret"
      BY <2>2, <2>4, Zenon DEF IsRequest, BindRequests
    <3> QED
      BY <2>1, <2>2, <2>4, <3>1, BindEncoded, Zenon DEF EncodesTheRequest
  <2> QED
    BY <2>2, <2>3, <2>4, Zenon DEF IsRequest, BindRequests
<1> QED
  BY <1>1, CodecInit, CodecStep, PTL DEF Spec

-------------------------------------------------------------------------------
(* Every datagram has a meaning.                                           *)

\* Two bytes are the 16-bit number they hold, written again.
LEMMA TwoBytes ==
  ASSUME NEW x \in Byte, NEW y \in Byte
  PROVE  256 * x + y \in 0..U16_MAX /\ (256 * x + y) \div 256 = x /\ (256 * x + y) % 256 = y
<1>1. x \in Nat /\ x <= 255 /\ y \in Nat /\ y <= 255
  BY ByteRange
<1>2. 256 * x + y \in Nat /\ 256 * x + y <= 65535
  BY <1>1
<1>3. (256 * x + y) \div 256 = x /\ (256 * x + y) % 256 = y
  BY <1>1, SMT
<1> QED
  BY <1>2, <1>3, U16Range

\* A beginning of a sequence of bytes, put together from a shorter one.
LEMMA Prefix ==
  ASSUME NEW s \in Seq(Byte), NEW m \in Nat, NEW n \in Nat, m <= n, n <= Len(s)
  PROVE  SubSeq(s, 1, m) \o SubSeq(s, m + 1, n) = SubSeq(s, 1, n)
<1> DEFINE a == SubSeq(s, 1, m)
           b == SubSeq(s, m + 1, n)
           c == SubSeq(s, 1, n)
<1>0. Len(s) \in Nat
  BY ByteSeq
<1>1. a \in Seq(Byte) /\ Len(a) = m /\ \A i \in 1..m : a[i] = s[i]
  <2>1. 1 \in Nat \ {0} /\ 1 <= m + 1 /\ m <= Len(s) /\ m + 1 - 1 = m
        /\ \A i \in 1..m : 1 + i - 1 = i
    BY <1>0
  <2> QED
    BY <2>1, Slice
<1>2. b \in Seq(Byte) /\ Len(b) = n - m /\ \A i \in 1..(n - m) : b[i] = s[m + i]
  <2>1. m + 1 \in Nat \ {0} /\ m + 1 <= n + 1 /\ n + 1 - (m + 1) = n - m
        /\ \A i \in 1..(n - m) : (m + 1) + i - 1 = m + i
    OBVIOUS
  <2>2. /\ b \in Seq(Byte) /\ Len(b) = n + 1 - (m + 1)
        /\ \A i \in 1..(n + 1 - (m + 1)) : b[i] = s[(m + 1) + i - 1]
    BY <2>1, Slice
  <2> HIDE DEF b
  <2> QED
    BY <2>1, <2>2, Zenon
<1>3. c \in Seq(Byte) /\ Len(c) = n /\ \A i \in 1..n : c[i] = s[i]
  <2>1. 1 \in Nat \ {0} /\ 1 <= n + 1 /\ n + 1 - 1 = n /\ \A i \in 1..n : 1 + i - 1 = i
    OBVIOUS
  <2> QED
    BY <2>1, Slice
<1> HIDE DEF a, b, c
<1>4. /\ a \o b \in Seq(Byte) /\ Len(a \o b) = Len(a) + Len(b)
      /\ \A i \in 1..Len(a) : (a \o b)[i] = a[i]
      /\ \A i \in 1..Len(b) : (a \o b)[Len(a) + i] = b[i]
  BY <1>1, <1>2, Joined, Zenon
<1>5. Len(a \o b) = n /\ \A i \in 1..n : (a \o b)[i] = c[i]
  <2>1. Len(a \o b) = n
    BY <1>1, <1>2, <1>4
  <2> SUFFICES ASSUME NEW i \in 1..n PROVE (a \o b)[i] = c[i]
    BY <2>1
  <2>2. CASE i <= m
    <3>1. i \in 1..m
      BY <2>2
    <3> QED
      BY <1>1, <1>3, <1>4, <3>1, Zenon
  <2>3. CASE ~(i <= m)
    <3>1. i - m \in 1..(n - m) /\ m + (i - m) = i
      BY <2>3
    <3>2. (a \o b)[i] = b[i - m] /\ b[i - m] = s[i]
      BY <1>1, <1>2, <1>4, <3>1, Zenon
    <3> QED
      BY <1>3, <3>2
  <2> QED
    BY <2>2, <2>3, Zenon
<1>6. a \o b = c
  BY <1>3, <1>4, <1>5, SeqEqual, SMTT(30)
<1> QED
  BY <1>6 DEF a, b, c

\* Two bytes of a sequence, written again from the number they hold.
LEMMA PairAt ==
  ASSUME NEW s \in Seq(Byte), NEW pos \in Nat, pos + 2 <= Len(s)
  PROVE  /\ U16At(s, pos) \in 0..U16_MAX
         /\ SubSeq(s, pos + 1, pos + 2) = BigEndian(U16At(s, pos))
<1> DEFINE pair == SubSeq(s, pos + 1, pos + 2)
           n == 256 * s[pos + 1] + s[pos + 2]
<1>1. s[pos + 1] \in Byte /\ s[pos + 2] \in Byte
  BY ByteSeq
<1>2. n \in 0..U16_MAX /\ n \div 256 = s[pos + 1] /\ n % 256 = s[pos + 2]
  <2> DEFINE x == s[pos + 1]
             y == s[pos + 2]
  <2>1. x \in Byte /\ y \in Byte /\ n = 256 * x + y
    BY <1>1
  <2> HIDE DEF x, y, n
  <2>2. 256 * x + y \in 0..U16_MAX /\ (256 * x + y) \div 256 = x /\ (256 * x + y) % 256 = y
    BY <2>1, TwoBytes
  <2> QED
    BY <2>1, <2>2 DEF x, y
<1>3. pair \in Seq(Byte) /\ Len(pair) = 2 /\ pair[1] = s[pos + 1] /\ pair[2] = s[pos + 2]
  <2>1. /\ pos + 1 \in Nat \ {0} /\ pos + 2 \in Nat /\ pos + 1 <= (pos + 2) + 1
        /\ (pos + 2) + 1 - (pos + 1) = 2
        /\ (pos + 1) + 1 - 1 = pos + 1 /\ (pos + 1) + 2 - 1 = pos + 2
        /\ 1 \in 1..2 /\ 2 \in 1..2
    OBVIOUS
  <2> QED
    BY <2>1, Slice
<1> HIDE DEF pair, n
<1>4. BigEndian(n) \in Seq(Byte) /\ Len(BigEndian(n)) = 2
      /\ BigEndian(n)[1] = s[pos + 1] /\ BigEndian(n)[2] = s[pos + 2]
  BY <1>2, BigEndianFacts
<1>5. \A i \in 1..Len(pair) : pair[i] = BigEndian(n)[i]
  BY <1>3, <1>4
<1>6. pair = BigEndian(n)
  BY <1>3, <1>4, <1>5, SeqEqual
<1>7. U16At(s, pos) = n
  BY DEF U16At, n
<1> QED
  BY <1>2, <1>6, <1>7 DEF pair

\* Any twenty bytes and more are a message of some header and body.
LEMMA AnyMessage ==
  ASSUME NEW s \in Seq(Byte), Len(s) >= 20
  PROVE  \E h \in Headers, body \in Seq(Byte) : s = Message(h, body)
<1> DEFINE h == [typ |-> U16At(s, 0), length |-> U16At(s, 2),
                 id1 |-> SubSeq(s, 5, 12), id2 |-> SubSeq(s, 13, 20)]
           body == SubSeq(s, 21, Len(s))
<1>1. Len(s) \in Nat
  BY ByteSeq
<1>2. /\ U16At(s, 0) \in 0..U16_MAX /\ SubSeq(s, 1, 2) = BigEndian(U16At(s, 0))
      /\ U16At(s, 2) \in 0..U16_MAX /\ SubSeq(s, 3, 4) = BigEndian(U16At(s, 2))
  <2>1. 0 + 2 <= Len(s) /\ 2 + 2 <= Len(s) /\ 0 + 1 = 1 /\ 0 + 2 = 2 /\ 2 + 1 = 3 /\ 2 + 2 = 4
    BY <1>1
  <2> QED
    BY <2>1, PairAt
<1>3. /\ SubSeq(s, 5, 12) \in Seq(Byte) /\ Len(SubSeq(s, 5, 12)) = 8
      /\ SubSeq(s, 13, 20) \in Seq(Byte) /\ Len(SubSeq(s, 13, 20)) = 8
      /\ body \in Seq(Byte)
  BY <1>1, Slice, SMTT(30)
<1>4. h \in Headers
  BY <1>2, <1>3 DEF Headers, Bytes
<1>5. /\ SubSeq(s, 1, 2) \o SubSeq(s, 3, 4) = SubSeq(s, 1, 4)
      /\ SubSeq(s, 1, 4) \o SubSeq(s, 5, 12) = SubSeq(s, 1, 12)
      /\ SubSeq(s, 1, 12) \o SubSeq(s, 13, 20) = SubSeq(s, 1, 20)
      /\ SubSeq(s, 1, 20) \o body = SubSeq(s, 1, Len(s))
  <2>1. /\ 2 <= 4 /\ 4 <= Len(s) /\ 12 <= Len(s) /\ 20 <= Len(s) /\ Len(s) <= Len(s)
        /\ 4 <= 12 /\ 12 <= 20 /\ 2 + 1 = 3 /\ 4 + 1 = 5 /\ 12 + 1 = 13 /\ 20 + 1 = 21
    BY <1>1
  <2>2. SubSeq(s, 1, 2) \o SubSeq(s, 2 + 1, 4) = SubSeq(s, 1, 4)
    BY <2>1, Prefix
  <2>3. SubSeq(s, 1, 4) \o SubSeq(s, 4 + 1, 12) = SubSeq(s, 1, 12)
    BY <2>1, Prefix
  <2>4. SubSeq(s, 1, 12) \o SubSeq(s, 12 + 1, 20) = SubSeq(s, 1, 20)
    BY <2>1, Prefix
  <2>5. SubSeq(s, 1, 20) \o SubSeq(s, 20 + 1, Len(s)) = SubSeq(s, 1, Len(s))
    BY <1>1, <2>1, Prefix, Zenon
  <2> QED
    BY <2>1, <2>2, <2>3, <2>4, <2>5
<1>6. SubSeq(s, 1, Len(s)) = s
  <2>1. /\ SubSeq(s, 1, Len(s)) \in Seq(Byte) /\ Len(SubSeq(s, 1, Len(s))) = Len(s) + 1 - 1
        /\ \A i \in 1..(Len(s) + 1 - 1) : SubSeq(s, 1, Len(s))[i] = s[1 + i - 1]
    BY <1>1, Slice
  <2>2. Len(s) + 1 - 1 = Len(s) /\ \A i \in 1..Len(s) : 1 + i - 1 = i
    BY <1>1
  <2> QED
    BY <2>1, <2>2, SeqEqual
<1>7. h.typ = U16At(s, 0) /\ h.length = U16At(s, 2) /\ h.id1 = SubSeq(s, 5, 12) /\ h.id2 = SubSeq(s, 13, 20)
  OBVIOUS
<1> HIDE DEF h, body
<1>8. Message(h, body) = s
  BY <1>2, <1>5, <1>6, <1>7, Zenon DEF Message
<1> QED
  BY <1>3, <1>4, <1>8

\* A value of an address's shape holds an address.
LEMMA AnyPlain ==
  ASSUME NEW value \in Seq(Byte), AddressShaped(value)
  PROVE  \E addr \in SocketAddr : Holds(value, addr)
<1> DEFINE ip == SubSeq(value, 5, Len(value))
           addr == [ip |-> ip, port |-> U16At(value, 2)]
<1>1. Len(value) \in Nat /\ (Len(value) = 8 \/ Len(value) = 20)
  BY ByteSeq DEF AddressShaped
<1>2. ip \in Seq(Byte) /\ Len(ip) = Len(value) - 4 /\ \A i \in 1..(Len(value) - 4) : ip[i] = value[i + 4]
  <2>1. \A n \in Nat : n = 8 \/ n = 20 => /\ 5 <= n + 1 /\ n + 1 - 5 = n - 4
                                           /\ \A i \in 1..(n - 4) : 5 + i - 1 = i + 4
    OBVIOUS
  <2>2. /\ 5 <= Len(value) + 1 /\ Len(value) + 1 - 5 = Len(value) - 4
        /\ \A i \in 1..(Len(value) - 4) : 5 + i - 1 = i + 4
    BY <1>1, <2>1, Zenon
  <2>3. /\ ip \in Seq(Byte) /\ Len(ip) = Len(value) + 1 - 5
        /\ \A i \in 1..(Len(value) + 1 - 5) : ip[i] = value[5 + i - 1]
    BY <1>1, <2>2, Slice
  <2> HIDE DEF ip
  <2> QED
    BY <2>2, <2>3, Zenon
<1>3. U16At(value, 2) \in 0..U16_MAX
  <2>1. \A n \in Nat : n = 8 \/ n = 20 => 2 + 2 <= n
    OBVIOUS
  <2> QED
    BY <1>1, <2>1, PairAt
<1>4. Len(ip) \in {4, 16} /\ Len(value) = 4 + Len(ip) /\ DOMAIN ip = 1..(Len(value) - 4)
  <2> HIDE DEF ip
  <2>1. Len(ip) \in {4, 16} /\ Len(value) = 4 + Len(ip)
    BY <1>1, <1>2
  <2>2. DOMAIN ip = 1..(Len(value) - 4)
    BY <1>2, ByteSeq
  <2> QED
    BY <2>1, <2>2
<1> HIDE DEF ip
<1>5. addr \in SocketAddr
  BY <1>2, <1>3, <1>4, Zenon DEF SocketAddr, Bytes
<1>6. addr.ip = ip /\ addr.port = U16At(value, 2)
  OBVIOUS
<1> HIDE DEF addr
<1>7. Holds(value, addr)
  BY <1>2, <1>4, <1>6 DEF Holds
<1> QED
  BY <1>5, <1>7

\* A value of an address's shape holds an address masked with the key.
LEMMA AnyMasked ==
  ASSUME NEW value \in Seq(Byte), AddressShaped(value), NEW key \in Seq(Byte), Len(key) = 16
  PROVE  \E addr \in SocketAddr : HoldsMasked(value, addr, key)
<1> DEFINE top == Len(value) - 4
           ip == [i \in 1..top |-> ByteXor(value[i + 4], key[i])]
           x == ByteXor(value[3], key[1])
           y == ByteXor(value[4], key[2])
           addr == [ip |-> ip, port |-> 256 * x + y]
<1>1. Len(value) \in Nat /\ (Len(value) = 8 \/ Len(value) = 20)
  BY ByteSeq DEF AddressShaped
<1>2. top \in {4, 16} /\ top \in Nat /\ Len(value) = 4 + top
  <2>1. \A n \in Nat : n = 8 \/ n = 20 => n - 4 \in {4, 16} /\ n - 4 \in Nat /\ n = 4 + (n - 4)
    OBVIOUS
  <2> QED
    BY <1>1, <2>1, Zenon
<1>3. /\ \A i \in 1..top : value[i + 4] \in Byte /\ key[i] \in Byte
      /\ value[3] \in Byte /\ value[4] \in Byte /\ key[1] \in Byte /\ key[2] \in Byte
  <2>1. PICK n \in Nat : n = Len(value) /\ top = n - 4 /\ (n = 8 \/ n = 20)
    BY <1>1, Zenon
  <2>2. \A i \in 1..16 : key[i] \in Byte
    BY ByteSeq, Zenon
  <2>3. /\ \A i \in 1..top : i + 4 \in 1..Len(value) /\ i \in 1..16
        /\ 3 \in 1..Len(value) /\ 4 \in 1..Len(value)
    <3> HIDE DEF top
    <3>1. (\A i \in 1..(n - 4) : i + 4 \in 1..n /\ i \in 1..16) /\ 3 \in 1..n /\ 4 \in 1..n
      <4>1. ASSUME NEW k \in Nat, k = 8 \/ k = 20
            PROVE  (\A i \in 1..(k - 4) : i + 4 \in 1..k /\ i \in 1..16) /\ 3 \in 1..k /\ 4 \in 1..k
        BY <4>1
      <4>2. n = 8 \/ n = 20
        BY <2>1
      <4> QED
        BY <4>1, <4>2
    <3> QED
      BY <2>1, <3>1, Zenon
  <2>4. \A i \in 1..Len(value) : value[i] \in Byte
    BY ByteSeq
  <2> HIDE DEF top
  <2>5. \A i \in 1..top : value[i + 4] \in Byte /\ key[i] \in Byte
    BY <2>2, <2>3, <2>4, Zenon
  <2>6. 1 \in 1..16 /\ 2 \in 1..16
    OBVIOUS
  <2> QED
    BY <2>2, <2>3, <2>4, <2>5, <2>6, Zenon
<1>5. x \in Byte /\ y \in Byte /\ ByteXor(x, key[1]) = value[3] /\ ByteXor(y, key[2]) = value[4]
  BY <1>3, XorAssumption
<1> HIDE DEF top
<1>6. ip \in Seq(Byte) /\ Len(ip) = top /\ DOMAIN ip = 1..top
      /\ \A i \in 1..top : value[i + 4] = ByteXor(ip[i], key[i])
  <2>1. \A i \in 1..top : ip[i] \in Byte /\ value[i + 4] = ByteXor(ip[i], key[i])
    BY <1>3, XorAssumption
  <2>2. ip \in [1..top -> Byte]
    BY <2>1, Zenon
  <2> HIDE DEF ip
  <2>3. ip \in Seq(Byte)
    BY <1>2, <2>2, SeqDef
  <2>4. Len(ip) = top
    BY <1>2, <2>2, <2>3, LenProperties
  <2> QED
    BY <2>1, <2>2, <2>3, <2>4
<1> HIDE DEF ip, x, y
<1>7. 256 * x + y \in 0..U16_MAX /\ (256 * x + y) \div 256 = x /\ (256 * x + y) % 256 = y
  BY <1>5, TwoBytes
<1>8. addr \in SocketAddr
  BY <1>2, <1>6, <1>7, Zenon DEF SocketAddr, Bytes
<1>9. addr.ip = ip /\ addr.port = 256 * x + y
  OBVIOUS
<1> HIDE DEF addr
<1>10. HoldsMasked(value, addr, key)
  <2>1. /\ value[3] = ByteXor(addr.port \div 256, key[1])
        /\ value[4] = ByteXor(addr.port % 256, key[2])
    BY <1>5, <1>7, <1>9, SMTT(30)
  <2>2. /\ Len(value) = 4 + Len(addr.ip)
        /\ \A i \in DOMAIN addr.ip : value[i + 4] = ByteXor(addr.ip[i], key[i])
    BY <1>2, <1>6, <1>9, Zenon
  <2> QED
    BY <2>1, <2>2, Zenon DEF HoldsMasked
<1> QED
  BY <1>8, <1>10

\* Every whole attribute says something.
LEMMA AnyAttribute ==
  ASSUME NEW wire \in Seq(Byte), Len(wire) >= 4, Len(wire) = PaddedEnd(wire),
         NEW key \in Seq(Byte), Len(key) = 16
  PROVE  \E p \in Piece : p.wire = wire /\ Says(p, key)
<1> DEFINE typ == Type(wire)
           value == Value(wire)
<1>1. value \in Seq(Byte) /\ typ \in Nat
  BY ValueType
<1>2. \A kind \in Kinds \cup {"ignored", "refused"}, val \in SocketAddr \cup {None} :
        \E p \in Piece : p.kind = kind /\ p.val = val /\ p.wire = wire
  <2> SUFFICES ASSUME NEW kind \in Kinds \cup {"ignored", "refused"},
                      NEW val \in SocketAddr \cup {None}
               PROVE  \E p \in Piece : p.kind = kind /\ p.val = val /\ p.wire = wire
    BY Zenon
  <2>1. [kind |-> kind, val |-> val, wire |-> wire] \in Piece
    BY DEF Piece
  <2> QED
    BY <2>1, Zenon
<1>3. \A p : p.wire = wire => Type(p.wire) = typ /\ Value(p.wire) = value
  OBVIOUS
<1> HIDE DEF typ, value
<1>5. ASSUME NEW kind \in Kinds, typ = AddressType[kind], AddressShaped(value)
      PROVE  \E p \in Piece : p.wire = wire /\ Says(p, key)
  <2>1. PICK addr \in SocketAddr : Holds(value, addr)
    BY <1>1, <1>5, AnyPlain
  <2>2. PICK p \in Piece : p.kind = kind /\ p.val = addr /\ p.wire = wire
    BY <1>2
  <2>3. p.kind \in DOMAIN NothingFound /\ p.val \in SocketAddr
        /\ Type(p.wire) = AddressType[p.kind] /\ Holds(Value(p.wire), p.val)
    BY <1>3, <1>5, <2>1, <2>2, KindFacts
  <2>4. Says(p, key)
    BY <2>3 DEF Says
  <2> QED
    BY <2>2, <2>4
<1>6. ASSUME typ = XOR_MAPPED_ADDRESS, AddressShaped(value)
      PROVE  \E p \in Piece : p.wire = wire /\ Says(p, key)
  <2>1. PICK addr \in SocketAddr : HoldsMasked(value, addr, key)
    BY <1>1, <1>6, AnyMasked
  <2>2. "MappedAddress" \in Kinds
    BY DEF Kinds
  <2>3. PICK p \in Piece : p.kind = "MappedAddress" /\ p.val = addr /\ p.wire = wire
    BY <1>2, <2>2, SMTT(30)
  <2>4. p.kind \in DOMAIN NothingFound /\ p.val \in SocketAddr
        /\ Type(p.wire) = XOR_MAPPED_ADDRESS /\ HoldsMasked(Value(p.wire), p.val, key)
    BY <1>3, <1>6, <2>1, <2>2, <2>3, KindFacts
  <2>5. Says(p, key)
    BY <2>3, <2>4 DEF Says
  <2> QED
    BY <2>3, <2>5
<1>7. ASSUME typ > 32767 \/ (typ = MESSAGE_INTEGRITY /\ Len(value) = 20)
      PROVE  \E p \in Piece : p.wire = wire /\ Says(p, key)
  <2>1. PICK p \in Piece : p.kind = "ignored" /\ p.wire = wire
    <3>1. [kind |-> "ignored", val |-> None, wire |-> wire] \in Piece
      BY SMTT(30) DEF Piece
    <3> QED
      BY <3>1, Zenon
  <2>2. Type(p.wire) > 32767 \/ (Type(p.wire) = MESSAGE_INTEGRITY /\ Len(Value(p.wire)) = 20)
    BY <1>3, <1>7, <2>1
  <2>3. Says(p, key)
    BY <2>1, <2>2 DEF Says
  <2> QED
    BY <2>1, <2>3
<1>8. ASSUME typ <= 32767, typ = MESSAGE_INTEGRITY => Len(value) # 20,
             typ \in AddressTypes => ~AddressShaped(value)
      PROVE  \E p \in Piece : p.wire = wire /\ Says(p, key)
  <2>1. PICK p \in Piece : p.kind = "refused" /\ p.wire = wire
    <3>1. [kind |-> "refused", val |-> None, wire |-> wire] \in Piece
      BY DEF Piece
    <3> QED
      BY <3>1, Zenon
  <2>2. /\ Type(p.wire) <= 32767 /\ (Type(p.wire) = MESSAGE_INTEGRITY => Len(Value(p.wire)) # 20)
        /\ (Type(p.wire) \in AddressTypes => ~AddressShaped(Value(p.wire)))
    BY <1>3, <1>8, <2>1
  <2>3. Says(p, key)
    BY <2>1, <2>2 DEF Says
  <2> QED
    BY <2>1, <2>3
<1>9. typ \in AddressTypes => typ = XOR_MAPPED_ADDRESS \/ \E kind \in Kinds : typ = AddressType[kind]
  BY KindFacts, Zenon DEF AddressTypes
<1>10. typ > 32767 \/ typ <= 32767
  BY <1>1, SMTT(30)
<1> QED
  BY <1>5, <1>6, <1>7, <1>8, <1>9, <1>10

\* The first piece's bytes start the body, and each one's follow the bytes of the
\* one before it.
Placed(body, starts, pieces) ==
  /\ pieces \in Seq(Piece) /\ starts \in Seq(0..Len(body)) /\ Len(starts) = Len(pieces) + 1
  /\ starts[1] = 0
  /\ \A i \in 1..Len(pieces) :
       LET wire == pieces[i].wire
       IN  /\ wire # <<>> /\ starts[i + 1] = starts[i] + Len(wire)
           /\ wire = SubSeq(body, starts[i] + 1, starts[i + 1])

\* An attribute that is all there.
Complete(p, key) == Len(p.wire) >= 4 /\ Len(p.wire) = PaddedEnd(p.wire) /\ Says(p, key)

\* The pieces of a body with one more at their end.
Grown(body, pieces, pos, p, ends, more) ==
  /\ Placed(body, ends, more)
  /\ Len(more) = Len(pieces) + 1
  /\ \A i \in 1..Len(pieces) : more[i] = pieces[i]
  /\ more[Len(more)] = p
  /\ ends[Len(ends)] = pos + Len(p.wire)

\* One more piece after the pieces of a body.
LEMMA PlacedOneMore ==
  ASSUME NEW body \in Seq(Byte), NEW starts, NEW pieces, Placed(body, starts, pieces),
         NEW pos, pos = starts[Len(starts)],
         NEW p \in Piece, p.wire # <<>>, At(body, pos, p.wire),
         NEW more, more = Append(pieces, p),
         NEW ends, ends = Append(starts, pos + Len(p.wire))
  PROVE  Grown(body, pieces, pos, p, ends, more)
<1> DEFINE n == Len(pieces)
           end == pos + Len(p.wire)
<1>1. n \in Nat /\ pieces \in Seq(Piece) /\ starts \in Seq(0..Len(body)) /\ Len(starts) = n + 1
  BY LenProperties DEF Placed
<1>2. pos \in Nat /\ Len(p.wire) \in Nat /\ Len(body) \in Nat /\ end <= Len(body)
      /\ p.wire = SubSeq(body, pos + 1, end)
  BY ByteSeq DEF At
<1>3. end \in 0..Len(body)
  BY <1>2
<1>a. ends = Append(starts, end)
  OBVIOUS
<1> HIDE DEF end
<1>4. /\ more \in Seq(Piece) /\ Len(more) = n + 1 /\ more[n + 1] = p
      /\ \A i \in 1..n : more[i] = pieces[i]
  BY <1>1, AppendProperties
<1>5. /\ ends \in Seq(0..Len(body)) /\ Len(ends) = (n + 1) + 1 /\ ends[(n + 1) + 1] = end
      /\ \A i \in 1..(n + 1) : ends[i] = starts[i]
  <2>1. /\ ends \in Seq(0..Len(body)) /\ Len(ends) = Len(starts) + 1 /\ ends[Len(starts) + 1] = end
        /\ \A i \in 1..Len(starts) : ends[i] = starts[i]
    BY <1>1, <1>3, <1>a, AppendProperties
  <2> QED
    BY <1>1, <2>1
<1>6. ends[1] = 0
  <2>1. 1 \in 1..(n + 1)
    BY <1>1
  <2> QED
    BY <1>5, <2>1 DEF Placed
<1>7. ASSUME NEW i \in 1..(n + 1)
      PROVE  /\ more[i].wire # <<>> /\ ends[i + 1] = ends[i] + Len(more[i].wire)
             /\ more[i].wire = SubSeq(body, ends[i] + 1, ends[i + 1])
  <2>1. CASE i \in 1..n
    <3>1. i \in 1..(n + 1) /\ i + 1 \in 1..(n + 1)
      BY <1>1, <2>1
    <3>2. more[i] = pieces[i] /\ ends[i] = starts[i] /\ ends[i + 1] = starts[i + 1]
      BY <1>4, <1>5, <2>1, <3>1, Zenon
    <3>3. /\ pieces[i].wire # <<>> /\ starts[i + 1] = starts[i] + Len(pieces[i].wire)
          /\ pieces[i].wire = SubSeq(body, starts[i] + 1, starts[i + 1])
      BY <2>1, Zenon DEF Placed
    <3> QED
      BY <3>2, <3>3, Zenon
  <2>2. CASE i = n + 1
    <3>1. more[i] = p /\ ends[i + 1] = end /\ ends[i] = pos
      <4>1. n + 1 \in 1..(n + 1)
        BY <1>1
      <4> QED
        BY <1>1, <1>4, <1>5, <2>2, <4>1
    <3> QED
      BY <1>2, <3>1, Zenon DEF end
  <2>3. i \in 1..n \/ i = n + 1
    BY <1>1
  <2> QED
    BY <2>1, <2>2, <2>3, Zenon
<1>8. Placed(body, ends, more)
  BY <1>4, <1>5, <1>6, <1>7, Zenon DEF Placed
<1>9. more[Len(more)] = p /\ ends[Len(ends)] = end
  BY <1>4, <1>5
<1> QED
  BY <1>4, <1>8, <1>9 DEF end, n, Grown

\* Pieces that reach the end of the body cut it; the last one may be incomplete.
LEMMA PlacedCuts ==
  ASSUME NEW body \in Seq(Byte), NEW starts, NEW pieces, NEW key, Placed(body, starts, pieces),
         starts[Len(starts)] = Len(body),
         \A i \in 1..Len(pieces) :
            \/ Complete(pieces[i], key)
            \/ /\ i = Len(pieces) /\ pieces[i].kind = "refused"
               /\ Len(pieces[i].wire) < 4 \/ Len(pieces[i].wire) < PaddedEnd(pieces[i].wire)
  PROVE  Cut(body, starts, pieces, key)
<1>1. pieces \in Seq(Piece) /\ Len(pieces) \in Nat /\ DOMAIN pieces = 1..Len(pieces)
  BY LenProperties DEF Placed
<1>2. starts[1] = 0 /\ starts[Len(pieces) + 1] = Len(body)
  BY DEF Placed
<1>3. ASSUME NEW i \in 1..Len(pieces)
      PROVE  LET wire == pieces[i].wire
             IN  /\ wire # <<>> /\ starts[i + 1] = starts[i] + Len(wire)
                 /\ wire = SubSeq(body, starts[i] + 1, starts[i + 1])
                 /\ IF Len(wire) < 4 \/ Len(wire) < PaddedEnd(wire)
                      THEN i = Len(pieces) /\ pieces[i].kind = "refused"
                      ELSE Len(wire) = PaddedEnd(wire) /\ Says(pieces[i], key)
  <2> DEFINE wire == pieces[i].wire
  <2>1. /\ wire # <<>> /\ starts[i + 1] = starts[i] + Len(wire)
        /\ wire = SubSeq(body, starts[i] + 1, starts[i + 1])
    BY DEF Placed
  <2>2. Len(wire) \in Nat
    <3>1. pieces[i] \in Piece
      BY <1>1, ElementOfSeq, Zenon
    <3>2. wire \in Seq(Byte)
      BY <3>1, SMTT(30) DEF Piece
    <3> QED
      BY <3>2, ByteSeq
  <2>3. IF Len(wire) < 4 \/ Len(wire) < PaddedEnd(wire)
          THEN i = Len(pieces) /\ pieces[i].kind = "refused"
          ELSE Len(wire) = PaddedEnd(wire) /\ Says(pieces[i], key)
    <3>1. CASE Complete(pieces[i], key)
      <4>1. Len(wire) >= 4 /\ Len(wire) = PaddedEnd(wire) /\ Says(pieces[i], key)
        BY <3>1, SMTT(30) DEF Complete
      <4>2. ~(Len(wire) < 4 \/ Len(wire) < PaddedEnd(wire))
        BY <2>2, <4>1, SMTT(30)
      <4> QED
        BY <4>1, <4>2
    <3>2. CASE ~Complete(pieces[i], key)
      <4>1. /\ i = Len(pieces) /\ pieces[i].kind = "refused"
            /\ Len(wire) < 4 \/ Len(wire) < PaddedEnd(wire)
        BY <3>2, SMTT(30)
      <4> QED
        BY <4>1, SMTT(30)
    <3> QED
      BY <3>1, <3>2, SMTT(30)
  <2> HIDE DEF wire
  <2> QED
    BY <2>1, <2>3, Zenon DEF wire
<1> QED
  BY <1>1, <1>2, <1>3, Zenon DEF Cut

\* At every place before its end, the body goes on with a whole attribute or with
\* one that is incomplete.
LEMMA NextPiece ==
  ASSUME NEW body \in Seq(Byte), NEW pos \in Nat, pos < Len(body),
         NEW key \in Seq(Byte), Len(key) = 16
  PROVE  \E p \in Piece :
           /\ p.wire # <<>> /\ At(body, pos, p.wire)
           /\ \/ Complete(p, key)
              \/ /\ pos + Len(p.wire) = Len(body) /\ p.kind = "refused"
                 /\ Len(p.wire) < 4 \/ Len(p.wire) < PaddedEnd(p.wire)
<1> DEFINE rest == SubSeq(body, pos + 1, Len(body))
<1>1. Len(body) \in Nat
  BY ByteSeq
<1>2. ASSUME NEW len \in Nat, len > 0, pos + len <= Len(body)
      PROVE  LET wire == SubSeq(body, pos + 1, pos + len)
             IN  wire \in Seq(Byte) /\ Len(wire) = len /\ wire # <<>> /\ At(body, pos, wire)
  <2> DEFINE wire == SubSeq(body, pos + 1, pos + len)
  <2>1. pos + 1 \in Nat \ {0} /\ pos + len \in Nat /\ pos + 1 <= (pos + len) + 1
        /\ (pos + len) + 1 - (pos + 1) = len
    BY <1>2
  <2>2. wire \in Seq(Byte) /\ Len(wire) = len
    BY <1>2, <2>1, Slice
  <2>3. wire # <<>>
    <3> HIDE DEF wire
    <3> QED
      BY <1>2, <2>2
  <2>4. At(body, pos, wire)
    <3>1. wire = SubSeq(body, pos + 1, pos + Len(wire))
      BY <2>2
    <3> HIDE DEF wire
    <3> QED
      BY <1>2, <2>2, <3>1 DEF At
  <2> QED
    BY <2>2, <2>3, <2>4
<1>3. rest \in Seq(Byte) /\ Len(rest) = Len(body) - pos /\ rest # <<>> /\ At(body, pos, rest)
  <2> DEFINE len == Len(body) - pos
  <2>1. len \in Nat /\ len > 0 /\ pos + len <= Len(body) /\ pos + len = Len(body)
    BY <1>1
  <2> HIDE DEF len
  <2>2. LET wire == SubSeq(body, pos + 1, pos + len)
        IN  wire \in Seq(Byte) /\ Len(wire) = len /\ wire # <<>> /\ At(body, pos, wire)
    BY <1>2, <2>1, Zenon
  <2> QED
    BY <2>1, <2>2, Zenon DEF len
<1> HIDE DEF rest
<1>4. CASE Len(rest) < 4 \/ Len(rest) < PaddedEnd(rest)
  <2> DEFINE p == [kind |-> "refused", val |-> None, wire |-> rest]
  <2>1. p \in Piece /\ p.wire = rest /\ p.kind = "refused"
    BY <1>3 DEF Piece
  <2>2. pos + Len(rest) = Len(body)
    BY <1>1, <1>3
  <2> HIDE DEF p
  <2> QED
    BY <1>3, <1>4, <2>1, <2>2, Zenon
<1>5. CASE ~(Len(rest) < 4 \/ Len(rest) < PaddedEnd(rest))
  <2>1. Len(rest) \in Nat /\ Len(rest) >= 4 /\ U16At(rest, 2) \in Nat
        /\ U16At(body, pos + 2) = U16At(rest, 2)
    <3>1. Len(rest) \in Nat /\ Len(rest) >= 4
      BY <1>3, <1>5, ByteSeq
    <3> QED
      BY <1>3, <3>1, HeadRead
  <2> DEFINE len == PaddedEnd(rest)
             wire == SubSeq(body, pos + 1, pos + len)
  <2>2. len \in Nat /\ len >= 4 /\ len <= Len(rest)
    <3>1. PaddedEnd(rest) \in Nat /\ PaddedEnd(rest) >= 4
      BY <2>1, Padding DEF PaddedEnd
    <3> QED
      BY <1>5, <2>1, <3>1
  <2> HIDE DEF len
  <2>3. len > 0 /\ pos + len <= Len(body)
    BY <1>1, <1>3, <2>2
  <2>4. wire \in Seq(Byte) /\ Len(wire) = len /\ wire # <<>> /\ At(body, pos, wire)
    BY <1>2, <2>2, <2>3, Zenon
  <2> HIDE DEF wire
  <2>5. Len(wire) >= 4 /\ Len(wire) = PaddedEnd(wire)
    <3>1. Len(wire) >= 4
      BY <2>2, <2>4
    <3>2. U16At(body, pos + 2) = U16At(wire, 2)
      BY <2>4, <3>1, HeadRead
    <3>3. PaddedEnd(wire) = PaddedEnd(rest)
      BY <2>1, <3>2 DEF PaddedEnd
    <3> QED
      BY <2>4, <3>1, <3>3 DEF len
  <2>6. PICK p \in Piece : p.wire = wire /\ Says(p, key)
    BY <2>4, <2>5, AnyAttribute
  <2>7. Complete(p, key)
    BY <2>5, <2>6 DEF Complete
  <2> QED
    BY <2>4, <2>6, <2>7
<1> QED
  BY <1>4, <1>5

\* For Least only.
WF == INSTANCE WellFoundedInduction

\* A set of natural numbers has a least one.
LEMMA Least ==
  ASSUME NEW S \in SUBSET Nat, S # {}
  PROVE  \E n \in S : \A m \in S : n <= m
<1>1. PICK n \in S : \A m \in S : ~(<<m, n>> \in WF!OpToRel(<, Nat))
  BY WF!NatLessThanWellFounded, WF!WFMin, Zenon
<1>2. ASSUME NEW k \in Nat, NEW l \in Nat, k < l
      PROVE  <<k, l>> \in WF!OpToRel(<, Nat)
  BY <1>2 DEF WF!OpToRel
<1>3. ASSUME NEW m \in S
      PROVE  n <= m
  <2>1. ~(m < n)
    BY <1>1, <1>2, Zenon
  <2> QED
    BY <2>1
<1> QED
  BY <1>3

\* Every body can be cut.
LEMMA AnyBody ==
  ASSUME NEW body \in Seq(Byte), NEW key \in Seq(Byte), Len(key) = 16
  PROVE  \E starts, pieces : /\ pieces \in Seq(Piece) /\ starts \in Seq(0..Len(body))
                             /\ Len(starts) = Len(pieces) + 1
                             /\ Cut(body, starts, pieces, key)
<1> DEFINE Begun(starts, pieces) ==
             Placed(body, starts, pieces) /\ \A i \in 1..Len(pieces) : Complete(pieces[i], key)
           left == {n \in Nat : \E starts, pieces :
                      Begun(starts, pieces) /\ starts[Len(starts)] + n = Len(body)}
<1>1. Len(body) \in Nat
  BY ByteSeq
<1>2. Len(body) \in left
  <2>1. /\ <<>> \in Seq(Piece) /\ Len(<<>>) = 0 /\ <<0>> \in Seq(0..Len(body)) /\ Len(<<0>>) = 1
        /\ <<0>>[1] = 0
    <3>1. 0 \in 0..Len(body)
      BY <1>1
    <3> QED
      BY <3>1
  <2> DEFINE starts == <<0>>
             pieces == <<>>
  <2>2. /\ pieces \in Seq(Piece) /\ starts \in Seq(0..Len(body)) /\ Len(pieces) = 0
        /\ Len(starts) = 1 /\ starts[1] = 0 /\ Len(starts) = Len(pieces) + 1
    BY <2>1
  <2> HIDE DEF starts, pieces
  <2>3. ~\E i : i \in 1..Len(pieces)
    BY <2>2
  <2>4. Placed(body, starts, pieces)
    BY <2>2, <2>3, Zenon DEF Placed
  <2>5. Begun(starts, pieces)
    BY <2>3, <2>4
  <2>6. starts[Len(starts)] + Len(body) = Len(body)
    BY <1>1, <2>2
  <2> HIDE DEF Begun
  <2> QED
    BY <1>1, <2>5, <2>6
<1>3. PICK n \in left : \A m \in left : n <= m
  BY <1>2, Least, Zenon
<1>4. PICK starts, pieces : n \in Nat /\ Begun(starts, pieces) /\ starts[Len(starts)] + n = Len(body)
  BY <1>3
<1> HIDE DEF left
<1>5. /\ Placed(body, starts, pieces) /\ \A i \in 1..Len(pieces) : Complete(pieces[i], key)
      /\ pieces \in Seq(Piece) /\ starts \in Seq(0..Len(body))
      /\ Len(pieces) \in Nat /\ Len(starts) = Len(pieces) + 1
  BY <1>4, LenProperties DEF Placed
<1> DEFINE pos == starts[Len(starts)]
<1>6. pos \in 0..Len(body)
  <2>1. Len(starts) \in 1..Len(starts)
    BY <1>5
  <2> QED
    BY <1>5, <2>1, ElementOfSeq
<1>7. pos \in Nat /\ pos + n = Len(body) /\ n \in Nat
  BY <1>1, <1>4, <1>6
<1>8. CASE n = 0
  <2>1. starts[Len(starts)] = Len(body)
    BY <1>7, <1>8, SMTT(30)
  <2>2. Cut(body, starts, pieces, key)
    BY <1>5, <2>1, PlacedCuts
  <2> QED
    BY <1>5, <2>2
<1>9. CASE n # 0
  <2>1. pos < Len(body)
    BY <1>1, <1>7, <1>9
  <2>2. PICK p \in Piece :
           /\ p.wire # <<>> /\ At(body, pos, p.wire)
           /\ \/ Complete(p, key)
              \/ /\ pos + Len(p.wire) = Len(body) /\ p.kind = "refused"
                 /\ Len(p.wire) < 4 \/ Len(p.wire) < PaddedEnd(p.wire)
    BY <1>7, <2>1, NextPiece, Zenon
  <2> DEFINE more == Append(pieces, p)
             ends == Append(starts, pos + Len(p.wire))
  <2>a. pos = starts[Len(starts)] /\ more = Append(pieces, p) /\ ends = Append(starts, pos + Len(p.wire))
    OBVIOUS
  <2> HIDE DEF more, ends, pos, Begun
  <2>3. /\ Placed(body, ends, more)
        /\ Len(more) = Len(pieces) + 1
        /\ \A i \in 1..Len(pieces) : more[i] = pieces[i]
        /\ more[Len(more)] = p
        /\ ends[Len(ends)] = pos + Len(p.wire)
    <3>1. Placed(body, starts, pieces) /\ p.wire # <<>> /\ At(body, pos, p.wire)
      BY <1>5, <2>2
    <3>2. Grown(body, pieces, pos, p, ends, more)
      BY <2>a, <3>1, PlacedOneMore, Zenon
    <3> QED
      BY <3>2, SMTT(30) DEF Grown
  <2>4. \A i \in 1..Len(more) : i \in 1..Len(pieces) \/ i = Len(more)
    BY <1>5, <2>3
  <2>5. \A i \in 1..Len(more) : i = Len(more) \/ Complete(more[i], key)
    BY <1>5, <2>3, <2>4
  <2>6. Len(p.wire) \in Nat /\ Len(p.wire) > 0
    <3>1. p.wire \in Seq(Byte) /\ p.wire # <<>>
      BY <2>2 DEF Piece
    <3> QED
      BY <3>1, EmptySeq, LenProperties
  <2>7. CASE Complete(p, key)
    <3> DEFINE m == n - Len(p.wire)
    <3>1. \A i \in 1..Len(more) : Complete(more[i], key)
      BY <2>3, <2>5, <2>7
    <3>2. Begun(ends, more)
      BY <2>3, <3>1 DEF Begun
    <3>3. pos + Len(p.wire) <= Len(body)
      BY <2>2 DEF At
    <3>4. m \in Nat /\ (pos + Len(p.wire)) + m = Len(body) /\ ~(n <= m)
      <4>1. ASSUME NEW x \in Nat, NEW k \in Nat, k > 0, NEW b \in Nat, x + n = b, x + k <= b
            PROVE  n - k \in Nat /\ (x + k) + (n - k) = b /\ ~(n <= n - k)
        BY <1>7, <4>1, SMTT(30)
      <4> QED
        BY <1>1, <1>7, <2>6, <3>3, <4>1, Zenon
    <3> HIDE DEF m
    <3>5. m \in left
      BY <2>3, <3>2, <3>4 DEF left
    <3> QED
      BY <1>3, <3>4, <3>5, SMTT(30)
  <2>8. CASE ~Complete(p, key)
    <3>1. ends[Len(ends)] = Len(body)
      BY <2>2, <2>3, <2>8, SMTT(30)
    <3>2. \A i \in 1..Len(more) :
            \/ Complete(more[i], key)
            \/ /\ i = Len(more) /\ more[i].kind = "refused"
               /\ Len(more[i].wire) < 4 \/ Len(more[i].wire) < PaddedEnd(more[i].wire)
      BY <2>2, <2>3, <2>5, <2>8, SMTT(30)
    <3>3. Cut(body, ends, more, key)
      BY <2>3, <3>1, <3>2, PlacedCuts
    <3>4. more \in Seq(Piece) /\ ends \in Seq(0..Len(body)) /\ Len(ends) = Len(more) + 1
      BY <2>3 DEF Placed
    <3> QED
      BY <3>3, <3>4, SMTT(30)
  <2> QED
    BY <2>7, <2>8
<1> QED
  BY <1>8, <1>9

\* What DecodesTheMeaning says of datagrams it says of all bytes that may arrive,
\* and of every id that a lookup waits for: any bytes have a meaning.
THEOREM EveryDatagram ==
  \A id \in Bytes({8}), bytes \in Seq(Byte) :
     \E d : d.id = id /\ d.bytes = bytes /\ IsDatagram(d)
<1> SUFFICES ASSUME NEW id \in Bytes({8}), NEW bytes \in Seq(Byte)
             PROVE  \E d : d.id = id /\ d.bytes = bytes /\ IsDatagram(d)
  OBVIOUS
<1>1. CASE ~(Len(bytes) >= 20)
  <2> DEFINE d == [id |-> id, bytes |-> bytes]
  <2>1. d.id = id /\ d.bytes = bytes
    OBVIOUS
  <2> HIDE DEF d
  <2>2. IsDatagram(d)
    BY <1>1, <2>1, Zenon DEF IsDatagram
  <2> QED
    BY <2>1, <2>2
<1>2. CASE Len(bytes) >= 20
  <2>1. PICK h \in Headers, body \in Seq(Byte) : bytes = Message(h, body)
    BY <1>2, AnyMessage
  <2>2. FIRST_ID \o id \in Seq(Byte) /\ Len(FIRST_ID \o id) = 16
    BY KeyFacts
  <2>3. PICK starts, pieces : /\ pieces \in Seq(Piece) /\ starts \in Seq(0..Len(body))
                              /\ Len(starts) = Len(pieces) + 1
                              /\ Cut(body, starts, pieces, FIRST_ID \o id)
    BY <2>2, AnyBody, Zenon
  <2> DEFINE d == [id |-> id, bytes |-> bytes, header |-> h, body |-> body,
                   starts |-> starts, pieces |-> pieces]
  <2>4. /\ d.id = id /\ d.bytes = bytes /\ d.header = h /\ d.body = body
        /\ d.starts = starts /\ d.pieces = pieces
    OBVIOUS
  <2> HIDE DEF d
  <2>5. Piece = [kind : DOMAIN NothingFound \cup {"ignored", "refused"},
                 val : SocketAddr \cup {None}, wire : Seq(Byte)]
    BY KindFacts DEF Piece
  <2>6. h \in [typ : 0..U16_MAX, length : 0..U16_MAX, id1 : Bytes({8}), id2 : Bytes({8})]
    BY DEF Headers
  <2>7. IsDatagram(d)
    BY <2>1, <2>3, <2>4, <2>5, <2>6, Zenon DEF IsDatagram
  <2> QED
    BY <2>4, <2>7
<1> QED
  BY <1>1, <1>2
=============================================================================
