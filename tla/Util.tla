-------------------------------- MODULE Util ---------------------------------
(***************************************************************************)
(* util.c: byte order, the Internet checksum and bit masks, and the sums   *)
(* that TCP's checksum starts from.                                        *)
(*                                                                         *)
(* A mask is the set of the numbers of its bits, WORD of them in each of   *)
(* its elements.                                                           *)
(***************************************************************************)
EXTENDS Integers

CONSTANTS
    WORD,       \* bits in an element of a mask (32)
    ENDIAN      \* byteorder(): 1234 for little-endian, 4321 for big-endian

ASSUME WordAssumption == WORD \in Nat \ {0}
ASSUME OrderAssumption == ENDIAN \in {1234, 4321}

U16 == {v \in Nat : v <= 65535}
U32 == {v \in Nat : v \div 65536 <= 65535}

(* Sums of words that leave room for one more.                             *)
SumRange == {v \in Nat : v # 0 /\ v + 65535 \in U32}

byteswap16(v) == (v % 256) * 256 + (v \div 256)

byteswap32(v) ==
    byteswap16(v % 65536) * 65536 + byteswap16(v \div 65536)

hton16(h) == IF ENDIAN = 1234 THEN byteswap16(h) ELSE h
ntoh16(n) == IF ENDIAN = 1234 THEN byteswap16(n) ELSE n
hton32(h) == IF ENDIAN = 1234 THEN byteswap32(h) ELSE h
ntoh32(n) == IF ENDIAN = 1234 THEN byteswap32(n) ELSE n

-----------------------------------------------------------------------------
(* The checksum of 16-bit words that add up to sum.                        *)

fold(sum) == (sum % 65536) + (sum \div 65536)

cksum16(sum) == 65535 - (fold(fold(sum)) % 65536)

(* The pseudo headers of tcp_tx and tcp_rx, for addresses in network       *)
(* order, the protocol number and the length of the segment.               *)
TcpTxPseudo(self, peer, len) ==
    (self \div 65536) + (self % 65536) + (peer \div 65536) + (self % 65536)
        + hton16(6) + hton16(len)

TcpRxPseudo(src, dst, len) ==
    (src \div 65536) + (src % 65536) + (dst \div 65536) + (dst % 65536)
        + hton16(6) + hton16(len)

-----------------------------------------------------------------------------
(* Masks.  The range offset .. offset+len-1, len > 0, touches the end of   *)
(* one element, whole ones, and the start of another.                      *)

(* Bits sb .. sb+n-1 of element w.                                         *)
ElementBits(w, sb, n) == w * WORD + sb .. w * WORD + sb + n - 1

so(offset) == offset \div WORD
sb(offset) == offset % WORD
bl(offset, len) == IF len > WORD - sb(offset) THEN WORD - sb(offset) ELSE len
rest(offset, len) == len - bl(offset, len)

(* The three parts of the range.                                           *)
FirstBits(offset, len) == ElementBits(so(offset), sb(offset), bl(offset, len))

WholeBits(offset, len) ==
    UNION {ElementBits(so(offset) + i, 0, WORD) :
             i \in 1 .. rest(offset, len) \div WORD}

LastBits(offset, len) ==
    ElementBits(so(offset) + rest(offset, len) \div WORD + 1, 0,
                rest(offset, len) % WORD)

maskset(mask, offset, len) ==
    mask \cup FirstBits(offset, len) \cup WholeBits(offset, len)
         \cup LastBits(offset, len)

maskchk(mask, offset, len) ==
    /\ FirstBits(offset, len) \subseteq mask
    /\ WholeBits(offset, len) \subseteq mask
    /\ LastBits(offset, len) \subseteq mask
=============================================================================
