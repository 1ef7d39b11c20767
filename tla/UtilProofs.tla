----------------------------- MODULE UtilProofs ------------------------------
(***************************************************************************)
(* Proofs about Util, for every input and every width of a mask element.   *)
(***************************************************************************)
EXTENDS Util, TLAPS

(* Swapping the bytes of 16 bits twice changes nothing.                    *)
LEMMA Byteswap16Involutive ==
    \A v \in U16 : byteswap16(v) \in U16 /\ byteswap16(byteswap16(v)) = v
BY SMTT(60) DEF U16, byteswap16

(* The same for 32 bits: the halves are swapped, and the bytes in each.    *)
LEMMA Byteswap32Involutive ==
    \A v \in U32 : byteswap32(v) \in U32 /\ byteswap32(byteswap32(v)) = v
<1> SUFFICES ASSUME NEW v \in U32
             PROVE  byteswap32(v) \in U32 /\ byteswap32(byteswap32(v)) = v
  BY SMTT(60)
<1> DEFINE lo == v % 65536  hi == v \div 65536
<1>1. lo \in U16 /\ hi \in Nat /\ v = hi * 65536 + lo
  BY SMTT(60) DEF U16, U32
<1> DEFINE a == byteswap16(lo)  b == byteswap16(hi)
<1>3. byteswap32(v) = a * 65536 + b
  BY SMTT(60) DEF byteswap32
<1> HIDE DEF lo, hi, a, b
<1>0. hi \in U16
  BY <1>1, SMTT(60) DEF U16, U32
<1>2. /\ byteswap16(lo) \in U16 /\ byteswap16(byteswap16(lo)) = lo
      /\ byteswap16(hi) \in U16 /\ byteswap16(byteswap16(hi)) = hi
  BY <1>0, <1>1, Byteswap16Involutive, SMTT(60)
<1>4. /\ a * 65536 + b \in U32
      /\ (a * 65536 + b) % 65536 = b /\ (a * 65536 + b) \div 65536 = a
  <2>1. a \in U16 /\ b \in U16
    BY <1>2, SMTT(60) DEF a, b
  <2> QED
    BY <2>1, SMTT(60) DEF U16, U32
<1>5. byteswap32(a * 65536 + b) = byteswap16(b) * 65536 + byteswap16(a)
  BY <1>4, SMTT(60) DEF byteswap32
<1> QED
  BY <1>1, <1>2, <1>3, <1>4, <1>5, SMTT(60) DEF a, b

(* hton and ntoh undo each other on machines of either byte order: header  *)
(* fields, and TCP's sequence numbers among them, are read as they were    *)
(* written (util.c:84).                                                    *)
THEOREM NetworkOrder ==
    /\ \A v \in U16 : hton16(v) \in U16 /\ ntoh16(hton16(v)) = v
    /\ \A v \in U32 : hton32(v) \in U32 /\ ntoh32(hton32(v)) = v
BY Byteswap16Involutive, Byteswap32Involutive, SMTT(60)
DEF hton16, ntoh16, hton32, ntoh32

-----------------------------------------------------------------------------
(* The checksum.                                                           *)

(* Two folds bring any 32-bit sum into 16 bits, and 0 only comes from 0:   *)
(* cksum16 drops nothing when it narrows its sum.                          *)
THEOREM TwoFoldsSuffice ==
    \A s \in U32 : fold(fold(s)) \in U16 /\ (fold(fold(s)) = 0 <=> s = 0)
BY SMTT(60) DEF U16, U32, fold

(* Folding keeps the sum modulo 65535.                                     *)
LEMMA FoldCongruent ==
    ASSUME NEW s \in U32
    PROVE  \E k \in Nat : s = fold(fold(s)) + 65535 * k
<1>1. \A t \in Nat : fold(t) \in Nat /\ \E q \in Nat : t = fold(t) + 65535 * q
  <2> SUFFICES ASSUME NEW t \in Nat
               PROVE  /\ fold(t) \in Nat
                      /\ \E q \in Nat : t = fold(t) + 65535 * q
    BY SMTT(60)
  <2>1. /\ fold(t) \in Nat /\ (t \div 65536) \in Nat
        /\ t = fold(t) + 65535 * (t \div 65536)
    BY SMTT(60) DEF fold
  <2> QED
    BY <2>1, SMTT(60)
<1>2. s \in Nat
  BY SMTT(60) DEF U32
<1>3. PICK p \in Nat : s = fold(s) + 65535 * p
  BY <1>1, <1>2, SMTT(60)
<1>4. PICK q \in Nat : fold(s) = fold(fold(s)) + 65535 * q
  BY <1>1, <1>2, SMTT(60)
<1>5. fold(fold(s)) \in Nat /\ fold(s) \in Nat
  BY <1>1, <1>2, SMTT(60)
<1> DEFINE k == p + q
<1>6. k \in Nat /\ s = fold(fold(s)) + 65535 * k
  BY <1>3, <1>4, <1>5, SMTT(60)
<1> HIDE DEF k
<1> QED
  BY <1>6, SMTT(60)

(* What the receiver finds when words adding up to t, with the checksum    *)
(* field zero, are sent with the checksum of a sum s: it accepts exactly   *)
(* when s and t agree modulo 65535.                                        *)
LEMMA AcceptedWhen ==
    ASSUME NEW s \in U32, NEW t \in SumRange
    PROVE  cksum16(t + cksum16(s)) = 0 <=>
             \E k \in Int : t - s = 65535 * k
<1> DEFINE a == fold(fold(s))  c == cksum16(s)  b == fold(fold(t + c))
<1>1. a \in U16 /\ c = 65535 - a /\ c \in U16
  BY TwoFoldsSuffice, SMTT(60) DEF cksum16, U16
<1>2. t + c \in U32 /\ t + c # 0
  BY <1>1, SMTT(60) DEF U16, U32, SumRange
<1>3. b \in U16 /\ b # 0 /\ cksum16(t + c) = 65535 - b
  <2>1. b \in U16 /\ b # 0
    BY <1>2, TwoFoldsSuffice, SMTT(60)
  <2> QED
    BY <2>1, SMTT(60) DEF cksum16, U16
<1>4. PICK i \in Nat : s = a + 65535 * i
  BY FoldCongruent, SMTT(60)
<1>5. PICK j \in Nat : t + c = b + 65535 * j
  BY <1>2, FoldCongruent, SMTT(60)
<1> HIDE DEF a, b, c
<1>6. t - s = b + 65535 * (j - 1 - i)
  BY <1>1, <1>3, <1>4, <1>5, SMTT(60) DEF U16, U32, SumRange
<1>7. (b = 65535) <=> \E k \in Int : t - s = 65535 * k
  <2>1. ASSUME b = 65535 PROVE \E k \in Int : t - s = 65535 * k
    <3> DEFINE m == j - i
    <3>1. m \in Int /\ t - s = 65535 * m
      BY <1>6, <2>1, SMTT(60)
    <3> HIDE DEF m
    <3> QED
      BY <3>1, SMTT(60)
  <2>2. ASSUME NEW k \in Int, t - s = 65535 * k PROVE b = 65535
    BY <1>3, <1>6, <2>2, SMTT(60) DEF U16
  <2> QED
    BY <2>1, <2>2, SMTT(60)
<1> QED
  BY <1>3, <1>7, SMTT(60) DEF c, U16

(* A header that arrives as it was sent passes ip_rx's and tcp_rx's check: *)
(* the checksum of words that include their checksum is 0.                 *)
THEOREM ChecksumAccepted ==
    \A t \in SumRange : cksum16(t + cksum16(t)) = 0
<1> SUFFICES ASSUME NEW t \in SumRange
             PROVE  cksum16(t + cksum16(t)) = 0
  BY SMTT(60)
<1>1. t \in U32 /\ t - t = 65535 * 0
  BY SMTT(60) DEF U32, SumRange
<1> QED
  BY <1>1, AcceptedWhen, SMTT(60)

(* One changed word is noticed, unless 0 and 65535 are exchanged.          *)
THEOREM ChangeNoticed ==
    \A t \in SumRange, v, w \in U16 :
        /\ t + v \in SumRange /\ t + w \in SumRange
        /\ v # w /\ {v, w} # {0, 65535}
        => cksum16((t + w) + cksum16(t + v)) # 0
<1> SUFFICES ASSUME NEW t \in SumRange, NEW v \in U16, NEW w \in U16,
                    t + v \in SumRange, t + w \in SumRange, v # w, {v, w} # {0, 65535}
             PROVE  cksum16((t + w) + cksum16(t + v)) # 0
  BY SMTT(60)
<1>1. t + v \in U32
  BY SMTT(60) DEF SumRange, U32
<1>2. ~ (v = 0 /\ w = 65535) /\ ~ (v = 65535 /\ w = 0)
  BY SMTT(60)
<1>3. ~ \E k \in Int : (t + w) - (t + v) = 65535 * k
  BY <1>2, SMTT(60) DEF U16, SumRange
<1> QED
  BY <1>1, <1>3, AcceptedWhen, SMTT(60)

(* A segment that tcp_tx sends passes the check of tcp_rx at the peer if   *)
(* and only if the two addresses agree in their lower halves (the first    *)
(* two octets, on a little-endian machine), 0 and 65535 being the same to  *)
(* the checksum: tcp.c:275 adds self's lower half twice.  r is the sum of  *)
(* the segment's words.                                                    *)
THEOREM TcpChecksumAccepted ==
    \A self, peer \in U32, len \in U16, r \in SumRange :
        LET s == TcpTxPseudo(self, peer, len) + r
            t == TcpRxPseudo(self, peer, len) + r
        IN  s \in SumRange /\ t \in SumRange =>
              (cksum16(t + cksum16(s)) = 0 <=>
                 \/ self % 65536 = peer % 65536
                 \/ {self % 65536, peer % 65536} = {0, 65535})
<1> SUFFICES ASSUME NEW self \in U32, NEW peer \in U32, NEW len \in U16,
                    NEW r \in SumRange,
                    TcpTxPseudo(self, peer, len) + r \in SumRange,
                    TcpRxPseudo(self, peer, len) + r \in SumRange
             PROVE  cksum16((TcpRxPseudo(self, peer, len) + r)
                        + cksum16(TcpTxPseudo(self, peer, len) + r)) = 0
                    <=> \/ self % 65536 = peer % 65536
                        \/ {self % 65536, peer % 65536} = {0, 65535}
  BY SMTT(60)
<1> DEFINE a == self \div 65536  b == self % 65536
           c == peer \div 65536  d == peer % 65536
           e == hton16(6)  f == hton16(len)
           s == TcpTxPseudo(self, peer, len) + r
           t == TcpRxPseudo(self, peer, len) + r
<1>1. /\ a \in Int /\ b \in U16 /\ c \in Int /\ d \in U16
  BY SMTT(60) DEF U16, U32
<1>2. e \in Int /\ f \in Int /\ r \in Int
  BY SMTT(60) DEF U16, hton16, byteswap16, SumRange
<1>3. s = a + b + c + b + e + f + r /\ t = a + b + c + d + e + f + r
  BY SMTT(60) DEF TcpTxPseudo, TcpRxPseudo
<1> HIDE DEF a, b, c, d, e, f
<1>4. t - s = d - b
  BY <1>1, <1>2, <1>3, SMTT(60) DEF U16
<1>5. s \in U32 /\ t \in SumRange
  BY SMTT(60) DEF SumRange, U32
<1> HIDE DEF s, t
<1>6. (\E k \in Int : t - s = 65535 * k) <=> (b = d \/ {b, d} = {0, 65535})
  <2>1. ASSUME NEW k \in Int, d - b = 65535 * k
        PROVE  b = d \/ (b = 0 /\ d = 65535) \/ (b = 65535 /\ d = 0)
    BY <1>1, <2>1, SMTT(60) DEF U16
  <2>2. /\ b = d => d - b = 65535 * 0
        /\ b = 0 /\ d = 65535 => d - b = 65535 * 1
        /\ b = 65535 /\ d = 0 => d - b = 65535 * (-1)
    BY <1>1, SMTT(60) DEF U16
  <2>3. {b, d} = {0, 65535} <=> (b = 0 /\ d = 65535) \/ (b = 65535 /\ d = 0)
    BY SMTT(60)
  <2> QED
    BY <1>4, <2>1, <2>2, <2>3, SMTT(60)
<1>7. cksum16(t + cksum16(s)) = 0 <=> \E k \in Int : t - s = 65535 * k
  BY <1>5, AcceptedWhen, SMTT(60)
<1> QED
  BY <1>6, <1>7, SMTT(60) DEF b, d, s, t

-----------------------------------------------------------------------------
(* Masks.                                                                  *)

(* Division by the width of an element.                                    *)
LEMMA DivWord ==
    ASSUME NEW x \in Nat
    PROVE  /\ x \div WORD \in Nat /\ x % WORD \in Nat
           /\ x % WORD < WORD /\ x = (x \div WORD) * WORD + (x % WORD)
BY WordAssumption, SMTT(60)

(* A product with WORD grows by WORD or more from one factor to the next.  *)
LEMMA MulMono ==
    ASSUME NEW x \in Nat, NEW y \in Nat
    PROVE  /\ x * WORD \in Nat
           /\ x < y => x * WORD + WORD <= y * WORD
BY WordAssumption, SMTT(60)

(* A bit is in one part of the range when its element and its place in the *)
(* element are.                                                            *)
LEMMA RangeParts ==
    ASSUME NEW offset \in Nat, NEW len \in Nat \ {0}
    PROVE  FirstBits(offset, len) \cup WholeBits(offset, len)
             \cup LastBits(offset, len) = offset .. offset + len - 1
<1> DEFINE o == so(offset)  s == sb(offset)  n == bl(offset, len)
           r == rest(offset, len)  w == r \div WORD  l == r % WORD
<1>1. o \in Nat /\ s \in Nat /\ s < WORD /\ offset = o * WORD + s
  BY DivWord, SMTT(60) DEF so, sb
<1>2. /\ n \in Nat /\ n > 0 /\ s + n <= WORD /\ len = n + r /\ r \in Nat
      /\ r > 0 => s + n = WORD
  BY <1>1, WordAssumption, SMTT(60) DEF bl, rest
<1>3. w \in Nat /\ l \in Nat /\ l < WORD /\ r = w * WORD + l
  BY <1>2, DivWord, SMTT(60)
<1>4. /\ FirstBits(offset, len) = o * WORD + s .. o * WORD + s + n - 1
      /\ WholeBits(offset, len) =
           UNION {(o + i) * WORD + 0 .. (o + i) * WORD + 0 + WORD - 1 :
                    i \in 1 .. w}
      /\ LastBits(offset, len) =
           (o + w + 1) * WORD + 0 .. (o + w + 1) * WORD + 0 + l - 1
  BY SMTT(60) DEF FirstBits, WholeBits, LastBits, ElementBits
<1> HIDE DEF o, s, n, r, w, l
<1>5. \A i \in Nat : (o + i) * WORD = o * WORD + i * WORD
                     /\ (o + i + 1) * WORD = o * WORD + i * WORD + WORD
                     /\ i * WORD \in Nat
  BY <1>1, WordAssumption, SMTT(60)
<1>6. o * WORD \in Nat /\ WORD \in Nat /\ w * WORD \in Nat
  BY <1>1, <1>3, MulMono, WordAssumption, SMTT(60)
<1> DEFINE p == o * WORD  q == w * WORD
<1>7. FirstBits(offset, len) = offset .. offset + n - 1
  BY <1>1, <1>4, SMTT(60)
<1>8. LastBits(offset, len) = p + q + WORD .. p + q + WORD + l - 1
  BY <1>3, <1>4, <1>5, <1>6, SMTT(60)
<1>9. WholeBits(offset, len) = p + WORD .. p + WORD + q - 1
  <2>1. ASSUME NEW i \in 1 .. w, NEW u \in (o + i) * WORD + 0 ..
                                    (o + i) * WORD + 0 + WORD - 1
        PROVE  u \in p + WORD .. p + WORD + q - 1
    <3>1. i \in Nat /\ i - 1 \in Nat /\ i <= w
      BY <1>3, SMTT(60)
    <3>2. (o + i) * WORD = p + i * WORD /\ i * WORD = (i - 1) * WORD + WORD
          /\ i * WORD \in Nat /\ (i - 1) * WORD \in Nat
      BY <1>1, <1>5, <3>1, WordAssumption, SMTT(60)
    <3>3. i * WORD <= q
      BY <1>3, <3>1, MulMono, WordAssumption, SMTT(60)
    <3> QED
      BY <1>6, <3>1, <3>2, <3>3, SMTT(60)
  <2>2. ASSUME NEW u \in p + WORD .. p + WORD + q - 1
        PROVE  \E i \in 1 .. w : u \in (o + i) * WORD + 0 ..
                                    (o + i) * WORD + 0 + WORD - 1
    <3> DEFINE x == u - p  i == x \div WORD
    <3>1. x \in Nat /\ x >= WORD /\ x < q + WORD /\ u = p + x
      BY <1>6, SMTT(60)
    <3>2. i \in Nat /\ x >= i * WORD /\ x < i * WORD + WORD
      <4>1. x % WORD \in Nat /\ x % WORD < WORD /\ i \in Nat
            /\ x = i * WORD + (x % WORD) /\ i * WORD \in Nat
        BY <3>1, DivWord, MulMono, SMTT(60)
      <4> DEFINE m == x % WORD  y == i * WORD
      <4>2. m \in Nat /\ m < WORD /\ x = y + m /\ y \in Nat
        BY <4>1, SMTT(60)
      <4> HIDE DEF x, i, m, y
      <4>3. x >= y /\ x < y + WORD
        BY <1>6, <4>2, SMTT(60)
      <4> QED
        BY <4>1, <4>3, SMTT(60) DEF y
    <3> HIDE DEF x, i
    <3>3. i \in 1 .. w
      <4>1. i # 0
        BY <1>6, <3>1, <3>2, SMTT(60)
      <4>2. ~ (w < i)
        <5>1. w < i => q + WORD <= i * WORD
          BY <1>3, <3>2, MulMono, SMTT(60)
        <5> QED
          BY <1>5, <1>6, <3>1, <3>2, <5>1, SMTT(60)
      <4> QED
        BY <1>3, <3>2, <4>1, <4>2, SMTT(60)
    <3>4. (o + i) * WORD = p + i * WORD /\ i * WORD \in Nat
      BY <1>5, <3>2, SMTT(60)
    <3> QED
      BY <1>6, <3>1, <3>2, <3>3, <3>4, SMTT(60)
  <2> QED
    BY <1>4, <2>1, <2>2, SMTT(60)
<1> HIDE DEF p, q
<1>10. p \in Nat /\ q \in Nat /\ offset = p + s /\ r = q + l
  BY <1>1, <1>3, <1>6, SMTT(60) DEF p, q
<1> QED
  <2>1. CASE r = 0
    <3>1. q = 0 /\ l = 0 /\ n = len
      BY <1>2, <1>3, <1>10, <2>1, SMTT(60)
    <3> QED
      BY <1>2, <1>6, <1>7, <1>8, <1>9, <1>10, <3>1, SMTT(60)
  <2>2. CASE r > 0
    BY <1>1, <1>2, <1>3, <1>6, <1>7, <1>8, <1>9, <1>10, <2>2, SMTT(60)
  <2> QED
    BY <1>2, <2>1, <2>2, SMTT(60)

(* maskset sets the bits offset .. offset+len-1 and no other, wherever the *)
(* range begins and ends in its elements.                                  *)
THEOREM MasksetExact ==
    ASSUME NEW mask, NEW offset \in Nat, NEW len \in Nat \ {0}
    PROVE  maskset(mask, offset, len) = mask \cup (offset .. offset + len - 1)
BY RangeParts, SMTT(60) DEF maskset

(* maskchk finds out whether all bits offset .. offset+len-1 are set.      *)
THEOREM MaskchkExact ==
    ASSUME NEW mask, NEW offset \in Nat, NEW len \in Nat \ {0}
    PROVE  maskchk(mask, offset, len) <=> offset .. offset + len - 1 \subseteq mask
BY RangeParts, SMTT(60) DEF maskchk
=============================================================================
