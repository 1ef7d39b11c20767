-------------------------- MODULE IpTransferProofs ---------------------------
(***************************************************************************)
(* Proofs about IpTransfer: it implements IpService, for every number of   *)
(* senders, receive threads and datagrams of every size.                   *)
(*                                                                         *)
(* The invariant follows a unit from the wire to the handler: a list       *)
(* object marks only units that were sent, so a datagram can only be       *)
(* complete if every piece of it was sent, which ip_tx's failure excludes. *)
(***************************************************************************)
EXTENDS IpTransfer, IpFragmentProofs

(* The units of g in the pieces W, and those that were sent.               *)
Units(W, g) ==
    {u \in Unit : \E w \in W : w.g = g /\ u \in w.off .. w.off + w.n - 1}

Covered(g) == Units(wire, g)

Full(g) == 0 .. Size[g] - 1 \subseteq Units(wire, g)

MasksSent(s) ==
    \A j \in DOMAIN s, h \in Datagram :
        s[j].key = Key[h] => s[j].mask \subseteq Covered(h)

RxSent ==
    \A d \in Dev : rx[d].pc # "idle" =>
        \E g \in Datagram : rx[d].pay = Whole(g) /\ Full(g)

DeliveredSent ==
    \A m \in delivered : \E g \in Datagram : m = Whole(g) /\ Full(g)

(* The receiver.                                                           *)
ReceiverInv ==
    /\ IInv
    /\ MasksSent(fragments)
    /\ RxSent
    /\ DeliveredSent

(* The senders: one call for each datagram, which has sent what is done;   *)
(* a failed one left something out.                                        *)
SenderTypeOK ==
    /\ id \in 0 .. ID_MOD - 1
    /\ issued \in 0 .. ID_MOD
    /\ tx \in [Sender -> {NoTx} \cup
                  [pc : {"id", "loop"}, g : Datagram, id : 0 .. ID_MOD - 1,
                   done : 0 .. MaxUnits]]
    /\ result \in [Datagram -> {"none", "sending", "ok", "error"}]
    /\ wire \subseteq {w \in [g : Datagram, id : 0 .. ID_MOD - 1, off : Unit,
                             n : 1 .. PIECE] : w.off + w.n <= Size[w.g]}

Calling(x) == tx[x].pc # "idle"

SenderInv ==
    /\ SenderTypeOK
    /\ \A x \in Sender : Calling(x) =>
         /\ result[tx[x].g] = "sending"
         /\ Covered(tx[x].g) \subseteq 0 .. tx[x].done - 1
         /\ tx[x].done <= Size[tx[x].g]
         /\ tx[x].pc = "id" => tx[x].done = 0
    /\ \A x, y \in Sender :
         Calling(x) /\ Calling(y) /\ tx[x].g = tx[y].g => x = y
    /\ \A g \in Datagram :
         /\ result[g] = "none" => Covered(g) = {}
         /\ result[g] = "error" => ~Full(g)

-----------------------------------------------------------------------------
(* A thread that calls ip_tx has a datagram.                               *)
LEMMA CallerType ==
    ASSUME SenderTypeOK, NEW x \in Sender, Calling(x)
    PROVE  /\ tx[x] \in [pc : {"id", "loop"}, g : Datagram,
                         id : 0 .. ID_MOD - 1, done : 0 .. MaxUnits]
           /\ tx[x].g \in Datagram /\ tx[x].done \in 0 .. MaxUnits
           /\ tx[x].id \in 0 .. ID_MOD - 1
           /\ Size[tx[x].g] \in 1 .. MaxUnits /\ MaxUnits \in Nat
<1>1. tx[x] \in [pc : {"id", "loop"}, g : Datagram,
                 id : 0 .. ID_MOD - 1, done : 0 .. MaxUnits]
  BY SMTT(60) DEF SenderTypeOK, Calling, NoTx
<1> QED
  BY <1>1, BoundAssumption, DatagramAssumption, ZenonT(60)

(* Different datagrams stay different when they are handed over.           *)
LEMMA WholeInjective ==
    ASSUME NEW g \in Datagram, NEW h \in Datagram, Whole(g) = Whole(h)
    PROVE  g = h
<1>1. Key[g] = Key[h]
  BY ZenonT(60) DEF Whole, Piece
<1> QED
  BY <1>1, DatagramAssumption, ZenonT(60)

(* The objects that detach and the patrol leave were there before.         *)
LEMMA KeptObjects ==
    ASSUME NEW s, s \in Seq(Fragment)
    PROVE  /\ \A i \in DOMAIN s : \A j \in DOMAIN ip_fragment_detach(s, i) :
                \E k \in DOMAIN s : ip_fragment_detach(s, i)[j] = s[k]
           /\ \A j \in DOMAIN ip_fragment_patrol(s) :
                \E k \in DOMAIN s : ip_fragment_patrol(s)[j] = s[k]
<1>1. Len(s) \in Nat /\ DOMAIN s = 1 .. Len(s)
  BY SMTT(60)
<1>2. ASSUME NEW i \in DOMAIN s, NEW j \in DOMAIN ip_fragment_detach(s, i)
      PROVE  \E k \in DOMAIN s : ip_fragment_detach(s, i)[j] = s[k]
  <2>1. j \in 1 .. Len(s) - 1
    BY ZenonT(60) DEF ip_fragment_detach
  <2>2. ip_fragment_detach(s, i)[j] = IF j < i THEN s[j] ELSE s[j + 1]
    BY <2>1, ZenonT(60) DEF ip_fragment_detach
  <2>3. j \in DOMAIN s /\ j + 1 \in DOMAIN s
    BY <1>1, <2>1, SMTT(60)
  <2> QED
    BY <2>2, <2>3, ZenonT(60)
<1>3. ASSUME NEW j \in DOMAIN ip_fragment_patrol(s)
      PROVE  \E k \in DOMAIN s : ip_fragment_patrol(s)[j] = s[k]
  <2>1. CASE Len(s) > 0 /\ Expired(s[Len(s)])
    <3>1. ip_fragment_patrol(s) = [k \in 1 .. Len(s) - 1 |-> s[k]]
      BY <2>1, ZenonT(60) DEF ip_fragment_patrol
    <3>2. j \in DOMAIN s /\ ip_fragment_patrol(s)[j] = s[j]
      BY <1>1, <3>1, SMTT(60)
    <3> QED
      BY <3>2, ZenonT(60)
  <2>2. CASE ~(Len(s) > 0 /\ Expired(s[Len(s)]))
    BY <2>2, ZenonT(60) DEF ip_fragment_patrol
  <2> QED
    BY <2>1, <2>2, ZenonT(60)
<1> QED
  BY <1>2, <1>3, ZenonT(60)

(* Storing a piece that was sent.                                          *)
LEMMA StoreInSent ==
    ASSUME IInv, RxSent, UNCHANGED wire,
           NEW d \in Dev, NEW g \in Datagram, NEW off \in Unit,
           NEW n \in 1 .. MaxUnits, off + n <= Size[g],
           off .. off + n - 1 \subseteq Covered(g),
           NEW s, NEW i \in DOMAIN s, ListBut(s, i), PartOf(s[i], g),
           MasksSent(s), NEW cnt, StoreIn(d, s, i, cnt, g, off, n)
    PROVE  MasksSent(fragments)' /\ RxSent'
<1> DEFINE f == Stored(s[i], g, off, n)
<1>1. s[i] \in Fragment /\ s \in Seq(Fragment)
  BY SMTT(60) DEF ListBut
<1>2. f \in Fragment /\ PartOf(f, g)
  BY <1>1, StoredPart, ZenonT(60) DEF IInv, TypeOK
<1>3. f.mask \subseteq Covered(g)
  <2>1. off \in Nat /\ n \in Nat \ {0}
    BY BoundAssumption, SMTT(60) DEF Unit
  <2>2. f.mask = s[i].mask \cup (off .. off + n - 1)
    <3>1. f.mask = maskset(s[i].mask, off, n)
      BY ZenonT(60) DEF Stored
    <3> QED
      BY <2>1, <3>1, MasksetExact, ZenonT(60)
  <2>3. s[i].mask \subseteq Covered(g)
    BY ZenonT(60) DEF MasksSent, PartOf
  <2> QED
    BY <2>2, <2>3, ZenonT(60)
<1>4. \A h \in Datagram : Covered(h)' = Covered(h)
  BY ZenonT(60) DEF Covered
<1>5. \A h \in Datagram : f.key = Key[h] => f.mask \subseteq Covered(h)
  <2>1. f.key = Key[g]
    BY <1>2, ZenonT(60) DEF PartOf
  <2>2. \A h \in Datagram : Key[g] = Key[h] => g = h
    BY DatagramAssumption, ZenonT(60)
  <2> QED
    BY <1>3, <2>1, <2>2, ZenonT(60)
<1> HIDE DEF f
<1>6. CASE ~Complete(f)
  <2>1. fragments' = [s EXCEPT ![i] = f] /\ UNCHANGED rx
    BY <1>6, ZenonT(60) DEF StoreIn, f
  <2>2. DOMAIN fragments' = DOMAIN s
        /\ \A j \in DOMAIN s : fragments'[j] = IF j = i THEN f ELSE s[j]
    BY <1>1, <2>1, ZenonT(60)
  <2>3. MasksSent(fragments)'
    BY <1>4, <1>5, <2>2, SMTT(60) DEF MasksSent
  <2> QED
    BY <1>4, <2>1, <2>3, ZenonT(60) DEF RxSent, Full
<1>7. CASE Complete(f)
  <2> DEFINE pay == [key |-> f.key, len |-> f.len, data |-> f.data]
  <2>1. /\ fragments' = ip_fragment_detach(s, i)
        /\ rx' = [rx EXCEPT ![d] = [pc |-> "owner", pay |-> pay]]
    BY <1>7, ZenonT(60) DEF StoreIn, f
  <2>2. pay = Whole(g)
    BY <1>2, <1>7, CompleteWhole, ZenonT(60)
  <2>3. Full(g)
    <3>1. f.len \in Nat
      BY <1>2, BoundAssumption, SMTT(60) DEF Fragment
    <3>2. f.len # 0 /\ 0 .. f.len - 1 \subseteq f.mask
      BY <1>7, <3>1, CompleteSet, ZenonT(60)
    <3> QED
      BY <1>2, <1>3, <3>2, ZenonT(60) DEF Full, Covered, PartOf
  <2> HIDE DEF pay
  <2>4. MasksSent(fragments)'
    BY <1>1, <1>4, <2>1, KeptObjects, SMTT(60) DEF MasksSent
  <2>5. RxSent'
    BY <1>4, <2>1, <2>2, <2>3, ZenonT(60) DEF RxSent, Full, IInv, TypeOK
  <2> QED
    BY <2>4, <2>5, ZenonT(60)
<1> QED
  BY <1>6, <1>7, ZenonT(60)

(* ip_rx of a piece that was sent.                                         *)
LEMMA IpRxSent ==
    ASSUME ReceiverInv, UNCHANGED wire,
           NEW d \in Dev, NEW g \in Datagram, NEW off \in Unit,
           NEW n \in 1 .. MaxUnits, off + n <= Size[g],
           off .. off + n - 1 \subseteq Covered(g), NEW df \in BOOLEAN,
           ip_rx(d, g, off, n, df)
    PROVE  ReceiverInv'
<1> DEFINE s == ip_fragment_patrol(fragments)
<1>1. IInv'
  BY IpRxInv, ZenonT(60) DEF ReceiverInv
<1>2. ListInv(s) /\ MasksSent(s)
  <2>1. fragments \in Seq(Fragment) /\ MasksSent(fragments)
    BY ZenonT(60) DEF ReceiverInv, IInv, ListInv
  <2>2. MasksSent(s)
    BY <2>1, KeptObjects, SMTT(60) DEF MasksSent
  <2> QED
    BY <2>2, PatrolList, ZenonT(60) DEF ReceiverInv, IInv
<1>3. \A h \in Datagram : Covered(h)' = Covered(h)
  BY ZenonT(60) DEF Covered
<1> HIDE DEF s
<1>4. DeliveredSent'
  <2>1. UNCHANGED delivered
    BY ZenonT(60) DEF ip_rx, RxDirect, RxCorrupt, RxRefused, RxAborts, RxKnown, RxNew
  <2> QED
    BY <1>3, <2>1, ZenonT(60) DEF DeliveredSent, Full, ReceiverInv
<1>5. CASE RxDirect(d, g, off, n, df)
  <2>1. off = 0 /\ n = Size[g]
    BY <1>5, DatagramAssumption, BoundAssumption, SMTT(60)
    DEF RxDirect, ToReassemble, Unit
  <2>2. rx' = [rx EXCEPT ![d] = [pc |-> "direct", pay |-> Whole(g)]]
    BY <1>5, <2>1, ZenonT(60) DEF RxDirect, Whole
  <2>3. Full(g)
    BY <2>1, SMTT(60) DEF Full, Covered
  <2>4. RxSent'
    BY <1>3, <2>2, <2>3, ZenonT(60) DEF RxSent, Full, ReceiverInv, IInv, TypeOK
  <2>5. MasksSent(fragments)'
    BY <1>3, <1>5, SMTT(60) DEF RxDirect, MasksSent, ReceiverInv
  <2> QED
    BY <1>1, <1>4, <2>4, <2>5, ZenonT(60) DEF ReceiverInv
<1>6. CASE RxCorrupt(d, g, off, n, df)
  <2>1. PICK i \in 1 .. Len(fragments) - 1 :
          fragments' = [j \in 1 .. i - 1 |-> fragments[j]]
    BY <1>6, ZenonT(60) DEF RxCorrupt
  <2>2. UNCHANGED rx
    BY <1>6, ZenonT(60) DEF RxCorrupt
  <2>3. Len(fragments) \in Nat /\ DOMAIN fragments = 1 .. Len(fragments)
    BY SMTT(60) DEF ReceiverInv, IInv, ListInv
  <2>4. /\ DOMAIN fragments' \subseteq DOMAIN fragments
        /\ \A j \in DOMAIN fragments' : fragments'[j] = fragments[j]
    BY <2>1, <2>3, SMTT(60)
  <2>5. MasksSent(fragments)'
    BY <1>3, <2>4, ZenonT(60) DEF MasksSent, ReceiverInv
  <2>6. RxSent'
    BY <1>3, <2>2, ZenonT(60) DEF RxSent, Full, ReceiverInv
  <2> QED
    BY <1>1, <1>4, <2>5, <2>6, ZenonT(60) DEF ReceiverInv
<1>7. CASE RxRefused(d, g, off, n, df) \/ RxAborts(d, g, off, n, df)
  <2>1. fragments' = s /\ UNCHANGED rx
    BY <1>7, ZenonT(60) DEF RxRefused, RxAborts, s
  <2>2. MasksSent(fragments)'
    BY <1>2, <1>3, <2>1, ZenonT(60) DEF MasksSent, ReceiverInv
  <2>3. RxSent'
    BY <1>3, <2>1, ZenonT(60) DEF RxSent, Full, ReceiverInv
  <2> QED
    BY <1>1, <1>4, <2>2, <2>3, ZenonT(60) DEF ReceiverInv
<1>8. CASE RxKnown(d, g, off, n, df)
  <2>1. PICK i \in DOMAIN s : /\ s[i].key = Key[g]
                              /\ StoreIn(d, s, i, count, g, off, n)
    BY <1>8, ZenonT(60) DEF RxKnown, FirstListed, Matches, s
  <2>2. ListBut(s, i) /\ Part(s[i])
    BY <1>2, ZenonT(60) DEF ListInv, ListBut
  <2>3. PICK h \in Datagram : PartOf(s[i], h)
    BY <2>2, ZenonT(60) DEF Part
  <2>4. h = g
    BY <2>1, <2>3, DatagramAssumption, ZenonT(60) DEF PartOf
  <2>5. MasksSent(fragments)' /\ RxSent'
    BY <1>2, <2>1, <2>2, <2>3, <2>4, StoreInSent, ZenonT(60) DEF ReceiverInv
  <2> QED
    BY <1>1, <1>4, <2>5, ZenonT(60) DEF ReceiverInv
<1>9. CASE RxNew(d, g, off, n, df)
  <2> DEFINE f == NewFragment(Key[g])
             r == <<f>> \o s
  <2>1. /\ \A j \in DOMAIN s : s[j].key # Key[g]
        /\ StoreIn(d, r, 1, count + 1, g, off, n)
    BY <1>9, ZenonT(60) DEF RxNew, NotListed, Matches, s
  <2>2. f \in Fragment /\ f.key = Key[g] /\ f.mask = {} /\ PartOf(f, g)
    BY BoundAssumption, DatagramAssumption, SMTT(60)
    DEF NewFragment, Fragment, PartOf, Blank, Data, ReceiverInv, IInv, TypeOK
  <2> HIDE DEF f
  <2>3. ListBut(r, 1) /\ 1 \in DOMAIN r /\ r[1] = f
    BY <1>2, <2>1, <2>2, ConsList, SMTT(60)
  <2>4. MasksSent(r)
    <3>1. s \in Seq(Fragment) /\ Len(s) \in Nat /\ DOMAIN s = 1 .. Len(s)
      BY <1>2, SMTT(60) DEF ListInv
    <3>2. DOMAIN r = 1 .. Len(s) + 1
          /\ \A j \in 2 .. Len(s) + 1 : r[j] = s[j - 1] /\ j - 1 \in DOMAIN s
      BY <2>2, <3>1, SMTT(60)
    <3> HIDE DEF r
    <3>3. ASSUME NEW j \in DOMAIN r, NEW h \in Datagram, r[j].key = Key[h]
          PROVE  r[j].mask \subseteq Covered(h)
      <4>1. CASE j = 1
        BY <2>2, <2>3, <4>1, ZenonT(60)
      <4>2. CASE j # 1
        <5>1. j - 1 \in DOMAIN s /\ r[j] = s[j - 1]
          BY <3>1, <3>2, <4>2, SMTT(60)
        <5> QED
          BY <1>2, <3>3, <5>1, ZenonT(60) DEF MasksSent
      <4> QED
        BY <4>1, <4>2, ZenonT(60)
    <3> QED
      BY <3>3, ZenonT(60) DEF MasksSent
  <2> HIDE DEF r
  <2>5. MasksSent(fragments)' /\ RxSent'
    BY <2>1, <2>2, <2>3, <2>4, StoreInSent, ZenonT(60) DEF ReceiverInv
  <2> QED
    BY <1>1, <1>4, <2>5, ZenonT(60) DEF ReceiverInv
<1> QED
  BY <1>5, <1>6, <1>7, <1>8, <1>9, ZenonT(60) DEF ip_rx

(* The end of ip_rx.                                                       *)
LEMMA DeliverSent ==
    ASSUME ReceiverInv, UNCHANGED wire, NEW d \in Dev, Deliver(d)
    PROVE  /\ ReceiverInv'
           /\ \E g \in Datagram : Full(g) /\ delivered' = delivered \cup {Whole(g)}
<1>1. IInv'
  BY DeliverInv, ZenonT(60) DEF ReceiverInv
<1>2. \A h \in Datagram : Covered(h)' = Covered(h)
  BY ZenonT(60) DEF Covered
<1>3. PICK g \in Datagram : rx[d].pay = Whole(g) /\ Full(g)
  BY ZenonT(60) DEF Deliver, ReceiverInv, RxSent
<1>4. delivered' = delivered \cup {Whole(g)}
  BY <1>3, ZenonT(60) DEF Deliver
<1>5. MasksSent(fragments)'
  BY <1>2, SMTT(60) DEF Deliver, MasksSent, ReceiverInv
<1>6. RxSent'
  BY <1>2, ZenonT(60) DEF Deliver, RxSent, Full, Idle, ReceiverInv, IInv, TypeOK
<1>7. DeliveredSent'
  BY <1>2, <1>3, <1>4, ZenonT(60) DEF DeliveredSent, Full, ReceiverInv
<1> QED
  BY <1>1, <1>3, <1>4, <1>5, <1>6, <1>7, ZenonT(60) DEF ReceiverInv

-----------------------------------------------------------------------------
(* The senders.                                                            *)

(* A step that sends nothing leaves what was sent.                         *)
LEMMA CoveredUnchanged ==
    ASSUME UNCHANGED wire
    PROVE  \A g \in Datagram : Units(wire', g) = Units(wire, g)
BY ZenonT(60)

(* One more piece.                                                         *)
LEMMA PieceSent ==
    ASSUME SenderInv, NEW x \in Sender, TxPiece(x)
    PROVE  /\ SenderTypeOK'
           /\ slen(x) \in Nat \ {0} /\ tx[x].done + slen(x) <= Size[tx[x].g]
           /\ \A g \in Datagram : Units(wire, g) \subseteq Units(wire', g)
           /\ \A g \in Datagram : g # tx[x].g => Units(wire', g) = Units(wire, g)
           /\ Units(wire', tx[x].g) \subseteq
                Units(wire, tx[x].g) \cup
                  (tx[x].done .. tx[x].done + slen(x) - 1)
<1> DEFINE w == [g |-> tx[x].g, id |-> tx[x].id,
                 off |-> tx[x].done % OFF_MOD, n |-> slen(x)]
<1>1. Calling(x) /\ tx[x].pc = "loop" /\ tx[x].done < Size[tx[x].g]
  BY ZenonT(60) DEF TxPiece, ip_tx_core, Calling
<1>2. /\ tx[x] \in [pc : {"id", "loop"}, g : Datagram,
                     id : 0 .. ID_MOD - 1, done : 0 .. MaxUnits]
      /\ tx[x].g \in Datagram /\ tx[x].done \in 0 .. MaxUnits
      /\ tx[x].id \in 0 .. ID_MOD - 1
      /\ Size[tx[x].g] \in 1 .. MaxUnits /\ MaxUnits \in Nat
  BY <1>1, CallerType, ZenonT(60) DEF SenderInv, Covered, Full
<1>3. /\ slen(x) \in 1 .. PIECE /\ PIECE \in Nat
      /\ tx[x].done + slen(x) <= Size[tx[x].g]
  BY <1>1, <1>2, SenderAssumption, SMTT(60) DEF slen
<1>4. wire' = wire \cup {w} /\ tx' = [tx EXCEPT ![x].done = @ + slen(x)]
      /\ UNCHANGED <<id, issued, result>>
  BY ZenonT(60) DEF TxPiece, ip_tx_core
<1>5. w \in [g : Datagram, id : 0 .. ID_MOD - 1, off : Unit, n : 1 .. PIECE]
      /\ w.off + w.n <= Size[w.g] /\ w.g = tx[x].g /\ w.off = tx[x].done
      /\ w.n = slen(x)
  <2>1. tx[x].done % OFF_MOD = tx[x].done
    BY <1>1, <1>2, SenderAssumption, SMTT(60)
  <2> QED
    BY <1>1, <1>2, <1>3, <2>1, SMTT(60) DEF Unit
<1>6. tx' \in [Sender -> {NoTx} \cup
                  [pc : {"id", "loop"}, g : Datagram, id : 0 .. ID_MOD - 1,
                   done : 0 .. MaxUnits]]
  <2>1. tx[x].done + slen(x) \in 0 .. MaxUnits
    BY <1>2, <1>3, SMTT(60)
  <2>2. [tx[x] EXCEPT !.done = @ + slen(x)] \in
          [pc : {"id", "loop"}, g : Datagram, id : 0 .. ID_MOD - 1,
           done : 0 .. MaxUnits]
    BY <1>2, <2>1, ZenonT(60)
  <2> QED
    BY <1>4, <2>2, ZenonT(60) DEF SenderInv, SenderTypeOK
<1> HIDE DEF w
<1>7. SenderTypeOK'
  BY <1>4, <1>5, <1>6, ZenonT(60) DEF SenderInv, SenderTypeOK
<1> DEFINE new == tx[x].done .. tx[x].done + slen(x) - 1
<1>8. ASSUME NEW g \in Datagram
      PROVE  Units(wire', g) = Units(wire, g) \cup {u \in Unit : g = tx[x].g /\ u \in new}
  <2>1. ASSUME NEW u \in Unit
        PROVE  (\E v \in wire' : v.g = g /\ u \in v.off .. v.off + v.n - 1)
               <=> \/ \E v \in wire : v.g = g /\ u \in v.off .. v.off + v.n - 1
                   \/ g = tx[x].g /\ u \in new
    <3>1. w.g = g /\ u \in w.off .. w.off + w.n - 1 <=> g = tx[x].g /\ u \in new
      BY <1>5, ZenonT(60)
    <3> HIDE DEF new
    <3> QED
      BY <1>4, <3>1, ZenonT(60)
  <2> HIDE DEF new
  <2> QED
    BY <2>1, ZenonT(60) DEF Units
<1> HIDE DEF new
<1>9. Units(wire', tx[x].g) \subseteq Units(wire, tx[x].g) \cup new
  BY <1>2, <1>8, ZenonT(60)
<1>10. \A g \in Datagram : /\ Units(wire, g) \subseteq Units(wire', g)
                           /\ g # tx[x].g => Units(wire', g) = Units(wire, g)
  BY <1>8, ZenonT(60)
<1>11. slen(x) \in Nat \ {0}
  BY <1>3, SMTT(60)
<1> QED
  BY <1>3, <1>7, <1>9, <1>10, <1>11, ZenonT(60) DEF new

(* Every step of a sender keeps the senders' invariant.                    *)
LEMMA CallInv ==
    ASSUME SenderInv, NEW x \in Sender, NEW g \in Datagram, ip_tx(x, g)
    PROVE  SenderInv'
<1> DEFINE t == [pc |-> "id", g |-> g, id |-> 0, done |-> 0]
<1>1. /\ tx' = [tx EXCEPT ![x] = t] /\ result[g] = "none"
      /\ result' = [result EXCEPT ![g] = "sending"]
      /\ UNCHANGED <<id, issued, wire>> /\ tx[x].pc = "idle"
  BY ZenonT(60) DEF ip_tx
<1>2. /\ t \in [pc : {"id", "loop"}, g : Datagram, id : 0 .. ID_MOD - 1,
                 done : 0 .. MaxUnits]
      /\ t.g = g /\ t.done = 0 /\ t.pc = "id" /\ Size[g] \in Nat /\ 0 <= Size[g]
  BY BoundAssumption, SenderAssumption, DatagramAssumption, SMTT(60)
<1> HIDE DEF t
<1>3. SenderTypeOK'
  BY <1>1, <1>2, ZenonT(60) DEF SenderInv, SenderTypeOK
<1>4. \A h \in Datagram : Units(wire', h) = Units(wire, h)
  BY <1>1, CoveredUnchanged, ZenonT(60)
<1>5. \A y \in Sender : Calling(y) => tx[y].g \in Datagram /\ tx[y].g # g
  BY <1>1, CallerType, ZenonT(60) DEF SenderInv, Covered, Full
<1>6. \A y \in Sender : tx'[y] = IF y = x THEN t ELSE tx[y]
  BY <1>1, ZenonT(60) DEF SenderInv, SenderTypeOK
<1>7. \A h \in Datagram : result'[h] = IF h = g THEN "sending" ELSE result[h]
  BY <1>1, ZenonT(60) DEF SenderInv, SenderTypeOK
<1>8. ASSUME NEW y \in Sender, Calling(y)'
      PROVE  /\ result'[tx'[y].g] = "sending"
             /\ Units(wire', tx'[y].g) \subseteq 0 .. tx'[y].done - 1
             /\ tx'[y].done <= Size[tx'[y].g]
             /\ tx'[y].pc = "id" => tx'[y].done = 0
  <2>1. CASE y = x
    BY <1>1, <1>2, <1>4, <1>6, <1>7, <2>1, SMTT(60) DEF SenderInv, Covered, Full
  <2>2. CASE y # x
    BY <1>4, <1>5, <1>6, <1>7, <1>8, <2>2, SMTT(60) DEF SenderInv, Covered, Full, Calling
  <2> QED
    BY <2>1, <2>2, ZenonT(60)
<1>9. ASSUME NEW y \in Sender, NEW z \in Sender, Calling(y)', Calling(z)',
             tx'[y].g = tx'[z].g
      PROVE  y = z
  BY <1>2, <1>5, <1>6, <1>9, SMTT(60) DEF SenderInv, Covered, Full, Calling
<1>10. \A h \in Datagram : /\ result'[h] = "none" => Units(wire', h) = {}
                           /\ result'[h] = "error" =>
                                ~(0 .. Size[h] - 1 \subseteq Units(wire', h))
  BY <1>4, <1>7, ZenonT(60) DEF SenderInv, Covered, Full
<1> QED
  BY <1>3, <1>8, <1>9, <1>10, ZenonT(60) DEF SenderInv, Covered, Full

(* ip_generate_id keeps the senders' invariant.                            *)
LEMMA GenerateInv ==
    ASSUME SenderInv, NEW x \in Sender, ip_generate_id(x)
    PROVE  SenderInv'
<1> DEFINE t == [pc |-> "loop", g |-> tx[x].g, id |-> id, done |-> 0]
<1>1. /\ tx' = [tx EXCEPT ![x] = t] /\ tx[x].pc = "id" /\ issued < ID_MOD
      /\ id' = (id + 1) % ID_MOD /\ issued' = issued + 1
      /\ UNCHANGED <<result, wire>>
  BY ZenonT(60) DEF ip_generate_id
<1>2. Calling(x)
  BY <1>1, ZenonT(60) DEF Calling
<1>3. tx[x].g \in Datagram /\ tx[x].done = 0 /\ MaxUnits \in Nat
  BY <1>1, <1>2, CallerType, ZenonT(60) DEF SenderInv
<1>4. /\ t \in [pc : {"id", "loop"}, g : Datagram, id : 0 .. ID_MOD - 1,
                 done : 0 .. MaxUnits]
      /\ t.g = tx[x].g /\ t.done = tx[x].done /\ t.pc = "loop"
  BY <1>3, SMTT(60) DEF SenderInv, SenderTypeOK
<1> HIDE DEF t
<1>5. id' \in 0 .. ID_MOD - 1 /\ issued' \in 0 .. ID_MOD
  BY <1>1, SenderAssumption, SMTT(60) DEF SenderInv, SenderTypeOK
<1>6. SenderTypeOK'
  BY <1>1, <1>4, <1>5, ZenonT(60) DEF SenderInv, SenderTypeOK
<1>7. \A h \in Datagram : Units(wire', h) = Units(wire, h)
  BY <1>1, CoveredUnchanged, ZenonT(60)
<1>8. \A y \in Sender : /\ Calling(y)' => Calling(y)
                        /\ tx'[y].g = tx[y].g /\ tx'[y].done = tx[y].done
                        /\ tx'[y].pc = "id" => tx[y].pc = "id"
  BY <1>1, <1>2, <1>4, ZenonT(60) DEF SenderInv, SenderTypeOK, Calling
<1>9. \A y \in Sender : Calling(y) => tx[y].g \in Datagram
  BY CallerType, ZenonT(60) DEF SenderInv, Covered, Full
<1> QED
  BY <1>1, <1>6, <1>7, <1>8, <1>9, SMTT(60) DEF SenderInv, Covered, Full

(* So does the next piece: what was sent grows with done.                  *)
LEMMA PieceInv ==
    ASSUME SenderInv, NEW x \in Sender, TxPiece(x)
    PROVE  SenderInv'
<1> DEFINE h == tx[x].g
<1>1. /\ SenderTypeOK'
      /\ slen(x) \in Nat \ {0} /\ tx[x].done + slen(x) <= Size[h]
      /\ \A g \in Datagram : Units(wire, g) \subseteq Units(wire', g)
      /\ \A g \in Datagram : g # h => Units(wire', g) = Units(wire, g)
      /\ Units(wire', h) \subseteq
           Units(wire, h) \cup (tx[x].done .. tx[x].done + slen(x) - 1)
  BY PieceSent, ZenonT(60)
<1>2. /\ Calling(x) /\ tx[x].pc = "loop" /\ UNCHANGED result
      /\ tx' = [tx EXCEPT ![x].done = @ + slen(x)]
  BY ZenonT(60) DEF TxPiece, ip_tx_core, Calling
<1>3. /\ h \in Datagram /\ tx[x].done \in Nat /\ result[h] = "sending"
      /\ Units(wire, h) \subseteq 0 .. tx[x].done - 1
      /\ tx[x] \in [pc : {"id", "loop"}, g : Datagram, id : 0 .. ID_MOD - 1,
                     done : 0 .. MaxUnits]
  BY <1>2, CallerType, SMTT(60) DEF SenderInv, Covered, Full
<1>4. \A y \in Sender :
        /\ Calling(y)' => Calling(y)
        /\ tx'[y].g = tx[y].g /\ tx'[y].pc = tx[y].pc
        /\ tx'[y].done = IF y = x THEN tx[x].done + slen(x) ELSE tx[y].done
  BY <1>2, <1>3, ZenonT(60) DEF SenderInv, SenderTypeOK, Calling
<1>5. Units(wire', h) \subseteq 0 .. tx[x].done + slen(x) - 1
  BY <1>1, <1>3, SMTT(60)
<1>6. \A y \in Sender : Calling(y) /\ y # x => tx[y].g \in Datagram /\ tx[y].g # h
  BY <1>2, CallerType, ZenonT(60) DEF SenderInv, Covered, Full
<1> HIDE DEF h
<1>7. ASSUME NEW y \in Sender, Calling(y)'
      PROVE  /\ result'[tx'[y].g] = "sending"
             /\ Units(wire', tx'[y].g) \subseteq 0 .. tx'[y].done - 1
             /\ tx'[y].done <= Size[tx'[y].g]
             /\ tx'[y].pc = "id" => tx'[y].done = 0
  <2>1. CASE y = x
    BY <1>1, <1>2, <1>3, <1>4, <1>5, <2>1, SMTT(60) DEF h
  <2>2. CASE y # x
    BY <1>1, <1>2, <1>4, <1>6, <1>7, <2>2, SMTT(60) DEF SenderInv, Covered, Full
  <2> QED
    BY <2>1, <2>2, ZenonT(60)
<1>8. \A y, z \in Sender :
        Calling(y)' /\ Calling(z)' /\ tx'[y].g = tx'[z].g => y = z
  BY <1>4, SMTT(60) DEF SenderInv, Covered, Full
<1>9. \A g \in Datagram : /\ result'[g] = "none" => Units(wire', g) = {}
                          /\ result'[g] = "error" =>
                               ~(0 .. Size[g] - 1 \subseteq Units(wire', g))
  BY <1>1, <1>2, <1>3, ZenonT(60) DEF SenderInv, Covered, Full
<1> QED
  BY <1>1, <1>7, <1>8, <1>9, ZenonT(60) DEF SenderInv, Covered, Full

(* So does the return of ip_tx: a failed call left units out.              *)
LEMMA ReturnInv ==
    ASSUME SenderInv, NEW x \in Sender, TxFails(x) \/ TxReturns(x)
    PROVE  SenderInv'
<1> DEFINE h == tx[x].g
<1>1. PICK r \in {"ok", "error"} :
        /\ result' = [result EXCEPT ![h] = r]
        /\ r = "error" => tx[x].done < Size[h]
  BY ZenonT(60) DEF TxFails, TxReturns
<1>2. Calling(x) /\ tx' = [tx EXCEPT ![x] = NoTx] /\ UNCHANGED <<id, issued, wire>>
  BY ZenonT(60) DEF TxFails, TxReturns, Calling
<1>3. /\ h \in Datagram /\ tx[x].done \in Nat /\ Size[h] \in Nat
      /\ result[h] = "sending" /\ Units(wire, h) \subseteq 0 .. tx[x].done - 1
  BY <1>2, CallerType, SMTT(60) DEF SenderInv, Covered, Full
<1>4. \A g \in Datagram : Units(wire', g) = Units(wire, g)
  BY <1>2, CoveredUnchanged, ZenonT(60)
<1>5. r = "error" => ~(0 .. Size[h] - 1 \subseteq Units(wire, h))
  BY <1>1, <1>3, SMTT(60)
<1>6. \A y \in Sender : Calling(y)' => y # x /\ Calling(y) /\ tx'[y] = tx[y]
  BY <1>2, ZenonT(60) DEF SenderInv, SenderTypeOK, Calling, NoTx
<1>7. \A y \in Sender : Calling(y) /\ y # x => tx[y].g \in Datagram /\ tx[y].g # h
  BY <1>2, CallerType, ZenonT(60) DEF SenderInv, Covered, Full
<1> HIDE DEF h
<1>8. \A g \in Datagram : result'[g] = IF g = h THEN r ELSE result[g]
  BY <1>1, ZenonT(60) DEF SenderInv, SenderTypeOK
<1>9. SenderTypeOK'
  BY <1>1, <1>2, <1>3, ZenonT(60) DEF SenderInv, SenderTypeOK
<1> QED
  BY <1>3, <1>4, <1>5, <1>6, <1>7, <1>8, <1>9, SMTT(60) DEF SenderInv, Covered, Full

-----------------------------------------------------------------------------
TransferInv == ReceiverInv /\ SenderInv

(* What has arrived was sent before: more pieces change nothing for the    *)
(* receiver.                                                               *)
LEMMA SendingInv ==
    ASSUME ReceiverInv, UNCHANGED vars,
           \A g \in Datagram : Units(wire, g) \subseteq Units(wire', g)
    PROVE  ReceiverInv'
<1>1. IInv'
  BY NextInv, ZenonT(60) DEF ReceiverInv
<1>2. UNCHANGED <<fragments, rx, delivered>>
  BY ZenonT(60) DEF vars
<1>3. \A g \in Datagram : Full(g) => 0 .. Size[g] - 1 \subseteq Units(wire', g)
  BY ZenonT(60) DEF Full
<1>4. MasksSent(fragments)'
  BY <1>2, ZenonT(60) DEF MasksSent, Covered, ReceiverInv
<1>5. RxSent' /\ DeliveredSent'
  BY <1>2, <1>3, ZenonT(60) DEF RxSent, DeliveredSent, Full, ReceiverInv
<1> QED
  BY <1>1, <1>4, <1>5, ZenonT(60) DEF ReceiverInv

(* ip_rx of a piece from the wire keeps the receiver's invariant.          *)
LEMMA ReceiveInv ==
    ASSUME TransferInv, NEW d \in Dev, Receive(d)
    PROVE  ReceiverInv'
<1>1. PICK w \in wire : ip_rx(d, w.g, w.off, w.n, FALSE)
  BY ZenonT(60) DEF Receive
<1>2. /\ w \in [g : Datagram, id : 0 .. ID_MOD - 1, off : Unit, n : 1 .. PIECE]
      /\ w.off + w.n <= Size[w.g]
  BY ZenonT(60) DEF TransferInv, SenderInv, SenderTypeOK
<1>3. /\ w.g \in Datagram /\ w.off \in Unit /\ w.n \in 1 .. MaxUnits
      /\ w.off + w.n <= MaxUnits
  BY <1>2, BoundAssumption, DatagramAssumption, SenderAssumption, SMTT(60) DEF Unit
<1>4. w.off .. w.off + w.n - 1 \subseteq Covered(w.g)
  BY <1>3, BoundAssumption, SMTT(60) DEF Covered, Units, Unit
<1>5. UNCHANGED wire
  BY ZenonT(60) DEF Receive, tvars
<1>6. FALSE \in BOOLEAN
  BY ZenonT(60)
<1> QED
  BY <1>1, <1>2, <1>3, <1>4, <1>5, <1>6, IpRxSent, ZenonT(60) DEF TransferInv

(* A step of the receiver leaves the senders' invariant.                   *)
LEMMA SenderStays ==
    ASSUME SenderInv, UNCHANGED tvars
    PROVE  SenderInv'
<1>1. UNCHANGED <<id, issued, tx, result, wire>>
  BY ZenonT(60) DEF tvars
<1> QED
  BY <1>1, ZenonT(60) DEF SenderInv, SenderTypeOK, Calling, Covered, Full

(* The invariant holds at first.                                           *)
LEMMA TransferInitInv == TransferInit => TransferInv
<1> SUFFICES ASSUME TransferInit PROVE TransferInv
  BY ZenonT(60)
<1>1. ReceiverInv
  BY InitInv, SMTT(60)
  DEF TransferInit, ReceiverInv, Init, MasksSent, RxSent, DeliveredSent, Idle
<1>2. \A g \in Datagram : Units(wire, g) = {}
  BY ZenonT(60) DEF TransferInit, Units
<1>3. SenderTypeOK
  BY SenderAssumption, SMTT(60) DEF TransferInit, SenderTypeOK
<1> QED
  BY <1>1, <1>2, <1>3, ZenonT(60)
  DEF TransferInit, TransferInv, SenderInv, Calling, NoTx, Covered

(* Every step keeps it.                                                    *)
LEMMA TransferNextInv == TransferInv /\ [TransferNext]_tvs => TransferInv'
<1> SUFFICES ASSUME TransferInv, [TransferNext]_tvs PROVE TransferInv'
  BY ZenonT(60)
<1>1. ASSUME UNCHANGED vars, UNCHANGED wire
      PROVE  ReceiverInv'
  BY <1>1, CoveredUnchanged, SendingInv, ZenonT(60) DEF TransferInv
<1>2. ASSUME NEW x \in Sender, NEW g \in Datagram, ip_tx(x, g)
      PROVE  TransferInv'
  <2>1. UNCHANGED <<vars, wire>>
    BY <1>2, ZenonT(60) DEF ip_tx
  <2>2. SenderInv'
    BY <1>2, CallInv, ZenonT(60) DEF TransferInv
  <2> QED
    BY <1>1, <2>1, <2>2, ZenonT(60) DEF TransferInv
<1>3. ASSUME NEW x \in Sender, ip_generate_id(x)
      PROVE  TransferInv'
  <2>1. UNCHANGED <<vars, wire>>
    BY <1>3, ZenonT(60) DEF ip_generate_id
  <2>2. SenderInv'
    BY <1>3, GenerateInv, ZenonT(60) DEF TransferInv
  <2> QED
    BY <1>1, <2>1, <2>2, ZenonT(60) DEF TransferInv
<1>4. ASSUME NEW x \in Sender, TxPiece(x)
      PROVE  TransferInv'
  <2>1. UNCHANGED vars
    BY <1>4, ZenonT(60) DEF TxPiece, ip_tx_core
  <2> QED
    BY <1>4, <2>1, PieceSent, PieceInv, SendingInv, ZenonT(60) DEF TransferInv
<1>5. ASSUME NEW x \in Sender, TxFails(x) \/ TxReturns(x)
      PROVE  TransferInv'
  <2>1. UNCHANGED <<vars, wire>>
    BY <1>5, ZenonT(60) DEF TxFails, TxReturns
  <2>2. SenderInv'
    BY <1>5, ReturnInv, ZenonT(60) DEF TransferInv
  <2> QED
    BY <1>1, <2>1, <2>2, SMTT(60) DEF TransferInv
<1>6. ASSUME NEW d \in Dev, Receive(d)
      PROVE  TransferInv'
  <2>1. UNCHANGED tvars
    BY <1>6, ZenonT(60) DEF Receive
  <2> QED
    BY <1>6, <2>1, ReceiveInv, SenderStays, ZenonT(60) DEF TransferInv
<1>7. ASSUME NEW d \in Dev, Deliver(d), UNCHANGED tvars
      PROVE  TransferInv'
  BY <1>7, DeliverSent, SenderStays, ZenonT(60) DEF TransferInv, tvars
<1>8. CASE Tick /\ UNCHANGED tvars
  <2>1. IInv'
    BY <1>8, NextInv, ZenonT(60) DEF Next, TransferInv, ReceiverInv
  <2>2. UNCHANGED <<fragments, rx, delivered, wire>>
    BY <1>8, ZenonT(60) DEF Tick, tvars
  <2>3. MasksSent(fragments)' /\ RxSent' /\ DeliveredSent'
    BY <2>2, ZenonT(60)
    DEF TransferInv, ReceiverInv, MasksSent, RxSent, DeliveredSent, Covered, Full
  <2> QED
    BY <1>8, <2>1, <2>3, SenderStays, ZenonT(60) DEF TransferInv, ReceiverInv
<1>9. CASE UNCHANGED tvs
  BY <1>1, <1>9, SenderStays, ZenonT(60) DEF TransferInv, tvs, tvars
<1> QED
  BY <1>2, <1>3, <1>4, <1>5, <1>6, <1>7, <1>8, <1>9, ZenonT(60) DEF TransferNext

(* Only units that were sent are in the list, and only datagrams of which  *)
(* every unit was sent are handed over.                                    *)
THEOREM TransferInvariance == TransferSpec => []TransferInv
BY TransferInitInv, TransferNextInv, PTL DEF TransferSpec

(* ip_tx sends no unit from behind its datagram.                           *)
THEOREM TransferTypeCorrect == TransferSpec => []TransferTypeOK
<1>1. TransferInv => TransferTypeOK
  BY ZenonT(60)
  DEF TransferInv, ReceiverInv, SenderInv, IInv, SenderTypeOK, TransferTypeOK
<1> QED
  BY <1>1, TransferInvariance, PTL

-----------------------------------------------------------------------------
(* A datagram that was handed over was sent to its last unit ...           *)
LEMMA GivenFull ==
    ASSUME TransferInv, NEW g \in Given
    PROVE  g \in Datagram /\ Full(g)
<1>1. g \in Datagram /\ Whole(g) \in delivered
  BY ZenonT(60) DEF Given
<1>2. PICK h \in Datagram : Whole(g) = Whole(h) /\ Full(h)
  BY <1>1, ZenonT(60) DEF TransferInv, ReceiverInv, DeliveredSent
<1> QED
  BY <1>1, <1>2, WholeInjective, ZenonT(60)

(* ... so its ip_tx was called and has not failed.                         *)
LEMMA FullCalled ==
    ASSUME TransferInv, NEW g \in Datagram, Full(g)
    PROVE  result[g] \in {"sending", "ok"}
<1>1. 0 \in Units(wire, g)
  BY BoundAssumption, DatagramAssumption, SMTT(60) DEF Full
<1> QED
  BY <1>1, ZenonT(60) DEF TransferInv, SenderInv, SenderTypeOK, Covered

(* A step that neither returns from ip_tx nor hands over is no step of the *)
(* service.                                                                *)
LEMMA GivenSame ==
    ASSUME UNCHANGED delivered
    PROVE  Given' = Given
BY ZenonT(60) DEF Given

(* Each step of the hosts is a step of the service or none.                *)
LEMMA ServiceStep ==
    TransferInv /\ [TransferNext]_tvs => [Service!Next]_<<result, Given>>
<1> SUFFICES ASSUME TransferInv, [TransferNext]_tvs
             PROVE  Service!Next \/ UNCHANGED <<result, Given>>
  BY ZenonT(60)
<1> USE DEF Service!Next
<1>1. ASSUME NEW x \in Sender, NEW g \in Datagram, ip_tx(x, g)
      PROVE  Service!Next
  <2>1. result[g] = "none" /\ result' = [result EXCEPT ![g] = "sending"]
        /\ UNCHANGED delivered
    BY <1>1, ZenonT(60) DEF ip_tx, vars
  <2>2. Given' = Given
    BY <2>1, GivenSame, ZenonT(60)
  <2>3. Service!Send(g)
    BY <2>1, <2>2, ZenonT(60) DEF Service!Send
  <2> QED
    BY <2>3, ZenonT(60)
<1>2. ASSUME NEW x \in Sender, ip_generate_id(x) \/ TxPiece(x)
      PROVE  UNCHANGED <<result, Given>>
  <2>1. UNCHANGED <<result, delivered>>
    BY <1>2, ZenonT(60) DEF ip_generate_id, TxPiece, ip_tx_core, vars
  <2> QED
    BY <2>1, GivenSame, ZenonT(60)
<1>3. ASSUME NEW x \in Sender, tx[x].pc = "loop"
      PROVE  /\ tx[x].g \in Datagram /\ result[tx[x].g] = "sending"
             /\ Covered(tx[x].g) \subseteq 0 .. tx[x].done - 1
             /\ tx[x].done \in Nat /\ Size[tx[x].g] \in Nat
  BY <1>3, CallerType, SMTT(60) DEF TransferInv, SenderInv, Calling
<1>4. ASSUME NEW x \in Sender, TxReturns(x)
      PROVE  Service!Next
  <2>1. result' = [result EXCEPT ![tx[x].g] = "ok"] /\ UNCHANGED delivered
        /\ tx[x].pc = "loop"
    BY <1>4, ZenonT(60) DEF TxReturns, vars
  <2>2. Given' = Given
    BY <2>1, GivenSame, ZenonT(60)
  <2>3. Service!Succeed(tx[x].g)
    BY <1>3, <2>1, <2>2, ZenonT(60) DEF Service!Succeed
  <2> QED
    BY <1>3, <2>1, <2>3, ZenonT(60)
<1>5. ASSUME NEW x \in Sender, TxFails(x)
      PROVE  Service!Next
  <2>1. result' = [result EXCEPT ![tx[x].g] = "error"] /\ UNCHANGED delivered
        /\ tx[x].pc = "loop" /\ tx[x].done < Size[tx[x].g]
    BY <1>5, ZenonT(60) DEF TxFails, vars
  <2>2. ~Full(tx[x].g)
    BY <1>3, <2>1, SMTT(60) DEF Full, Covered
  <2>3. tx[x].g \notin Given
    BY <2>2, GivenFull, ZenonT(60)
  <2>4. Given' = Given
    BY <2>1, GivenSame, ZenonT(60)
  <2>5. Service!Fail(tx[x].g)
    BY <1>3, <2>1, <2>3, <2>4, ZenonT(60) DEF Service!Fail
  <2> QED
    BY <1>3, <2>1, <2>5, ZenonT(60)
<1>6. ASSUME NEW d \in Dev, Receive(d)
      PROVE  UNCHANGED <<result, Given>>
  <2>1. PICK w \in wire : ip_rx(d, w.g, w.off, w.n, FALSE)
    BY <1>6, ZenonT(60) DEF Receive
  <2>2. UNCHANGED delivered
    BY <2>1, ZenonT(60)
    DEF ip_rx, RxDirect, RxCorrupt, RxRefused, RxAborts, RxKnown, RxNew
  <2>3. UNCHANGED result
    BY <1>6, ZenonT(60) DEF Receive, tvars
  <2> QED
    BY <2>2, <2>3, GivenSame, ZenonT(60)
<1>7. ASSUME NEW d \in Dev, Deliver(d), UNCHANGED tvars
      PROVE  Service!Next
  <2>1. UNCHANGED <<result, wire>>
    BY <1>7, ZenonT(60) DEF tvars
  <2>2. PICK g \in Datagram :
          Full(g) /\ delivered' = delivered \cup {Whole(g)}
    BY <1>7, <2>1, DeliverSent, ZenonT(60) DEF TransferInv
  <2>3. Given' = Given \cup {g}
    BY <2>2, WholeInjective, ZenonT(60) DEF Given
  <2> QED
    BY <2>1, <2>2, <2>3, FullCalled, ZenonT(60) DEF Service!Give
<1>8. CASE Tick /\ UNCHANGED tvars
  BY <1>8, GivenSame, ZenonT(60) DEF Tick, tvars
<1>9. CASE UNCHANGED tvs
  BY <1>9, GivenSame, ZenonT(60) DEF tvs, tvars, vars
<1> QED
  BY <1>1, <1>2, <1>4, <1>5, <1>6, <1>7, <1>8, <1>9, ZenonT(60) DEF TransferNext

(* Two hosts with this stack and any network between them provide          *)
(* IpService: a datagram whose ip_tx failed is never handed over, before   *)
(* or after, and whatever is handed over was sent.                         *)
THEOREM ServiceRefined == TransferSpec => ServiceProvided
<1>1. TransferInit => Service!Init
  BY ZenonT(60) DEF TransferInit, Init, Service!Init, Given
<1> QED
  BY <1>1, ServiceStep, TransferInvariance, PTL
  DEF TransferSpec, ServiceProvided, Service!Spec

-----------------------------------------------------------------------------
(* How many ids ago v was given, if it was, when the counter is at c.      *)
Age(c, v) == IF v < c THEN c - v ELSE c - v + ID_MOD

Sending(x) == tx[x].pc = "loop"

(* The ids in use are among the last ones given, and each is used for one  *)
(* datagram.                                                               *)
IdInv ==
    /\ \A x \in Sender : Sending(x) => Age(id, tx[x].id) <= issued
    /\ \A w \in wire : Age(id, w.id) <= issued
    /\ \A x, y \in Sender :
         Sending(x) /\ Sending(y) /\ tx[x].id = tx[y].id => x = y
    /\ \A x \in Sender, w \in wire :
         Sending(x) => (tx[x].id = w.id <=> tx[x].g = w.g)
    /\ IdsUnique

(* No piece of a datagram is out whose units are not.                      *)
LEMMA NoPieces ==
    ASSUME SenderTypeOK, NEW g \in Datagram, Covered(g) = {}
    PROVE  \A w \in wire : w.g # g
<1> SUFFICES ASSUME NEW w \in wire, w.g = g PROVE FALSE
  BY ZenonT(60)
<1>1. w.off \in Unit /\ w.n \in 1 .. PIECE /\ MaxUnits \in Nat /\ PIECE \in Nat
  BY BoundAssumption, SenderAssumption, ZenonT(60) DEF SenderTypeOK
<1>2. w.off \in w.off .. w.off + w.n - 1
  BY <1>1, SMTT(60) DEF Unit
<1> QED
  BY <1>1, <1>2, ZenonT(60) DEF Covered, Units

(* Another id makes every other one older and is new itself, also at the   *)
(* wrap of the counter.                                                    *)
LEMMA NextAge ==
    ASSUME id \in 0 .. ID_MOD - 1, id' = (id + 1) % ID_MOD
    PROVE  /\ Age(id, id) = ID_MOD
           /\ \A v \in 0 .. ID_MOD - 1 :
                /\ Age(id, v) \in Nat
                /\ Age(id', v) = IF v = id THEN 1 ELSE Age(id, v) + 1
<1>1. ID_MOD \in Nat \ {0}
  BY SenderAssumption, ZenonT(60)
<1>2. id' = IF id + 1 = ID_MOD THEN 0 ELSE id + 1
  BY <1>1, SMTT(60)
<1> QED
  BY <1>1, <1>2, SMTT(60) DEF Age

(* A step that gives no id and sends nothing.                              *)
LEMMA IdsKept ==
    ASSUME IdInv, UNCHANGED <<id, issued, wire>>,
           \A x \in Sender : Sending(x)' =>
               Sending(x) /\ tx'[x].id = tx[x].id /\ tx'[x].g = tx[x].g
    PROVE  IdInv'
BY SMTT(60) DEF IdInv, IdsUnique

(* The id that ip_generate_id gives is not in use.                         *)
LEMMA GenerateIds ==
    ASSUME SenderInv, IdInv, NEW x \in Sender, ip_generate_id(x)
    PROVE  IdInv'
<1>1. /\ tx[x].pc = "id" /\ issued < ID_MOD /\ issued' = issued + 1
      /\ tx' = [tx EXCEPT ![x] =
                  [pc |-> "loop", g |-> tx[x].g, id |-> id, done |-> 0]]
      /\ id' = (id + 1) % ID_MOD /\ UNCHANGED wire
  BY ZenonT(60) DEF ip_generate_id
<1>2. /\ id \in 0 .. ID_MOD - 1 /\ issued \in Nat /\ ID_MOD \in Nat
      /\ \A w \in wire : w.id \in 0 .. ID_MOD - 1
      /\ \A y \in Sender : Sending(y) => tx[y].id \in 0 .. ID_MOD - 1
  BY CallerType, SenderAssumption, SMTT(60)
  DEF SenderInv, SenderTypeOK, Sending, Calling
<1>3. \A w \in wire : w.g # tx[x].g
  <2>1. /\ tx[x].g \in Datagram /\ tx[x].done = 0
        /\ Covered(tx[x].g) \subseteq 0 .. tx[x].done - 1
    BY <1>1, CallerType, ZenonT(60) DEF SenderInv, Calling
  <2>2. Covered(tx[x].g) = {}
    BY <2>1, SMTT(60)
  <2> QED
    BY <2>1, <2>2, NoPieces, ZenonT(60) DEF SenderInv
<1>4. \A v \in 0 .. ID_MOD - 1 :
         Age(id, v) <= issued => v # id /\ Age(id', v) <= issued'
  BY <1>1, <1>2, NextAge, SMTT(60)
<1>5. Age(id', id) <= issued'
  BY <1>1, <1>2, NextAge, SMTT(60)
<1>6. \A y \in Sender :
        IF y = x THEN Sending(y)' /\ tx'[y].id = id /\ tx'[y].g = tx[x].g
        ELSE tx'[y] = tx[y] /\ (Sending(y)' <=> Sending(y))
  BY <1>1, ZenonT(60) DEF SenderInv, SenderTypeOK, Sending
<1>7. \A y \in Sender : Sending(y)' => Age(id', tx'[y].id) <= issued'
  BY <1>2, <1>4, <1>5, <1>6, ZenonT(60) DEF IdInv
<1>8. \A w \in wire' : Age(id', w.id) <= issued' /\ w.id # id /\ w.g # tx[x].g
  BY <1>1, <1>2, <1>3, <1>4, ZenonT(60) DEF IdInv
<1>9. \A y \in Sender : y # x /\ Sending(y) => tx[y].id # id
  BY <1>2, <1>4, ZenonT(60) DEF IdInv
<1>10. \A y, z \in Sender :
         Sending(y)' /\ Sending(z)' /\ tx'[y].id = tx'[z].id => y = z
  BY <1>6, <1>9, ZenonT(60) DEF IdInv
<1>11. \A y \in Sender, w \in wire' :
         Sending(y)' => (tx'[y].id = w.id <=> tx'[y].g = w.g)
  BY <1>1, <1>6, <1>8, SMTT(60) DEF IdInv
<1>12. IdsUnique'
  BY <1>1, ZenonT(60) DEF IdInv, IdsUnique
<1> QED
  BY <1>7, <1>8, <1>10, <1>11, <1>12, ZenonT(60) DEF IdInv

(* A piece has its call's id and datagram.                                 *)
LEMMA PieceIds ==
    ASSUME SenderInv, IdInv, NEW x \in Sender, TxPiece(x)
    PROVE  IdInv'
<1> DEFINE w == [g |-> tx[x].g, id |-> tx[x].id,
                 off |-> tx[x].done % OFF_MOD, n |-> slen(x)]
<1>1. /\ Sending(x) /\ wire' = wire \cup {w} /\ UNCHANGED <<id, issued>>
      /\ tx' = [tx EXCEPT ![x].done = @ + slen(x)]
  BY ZenonT(60) DEF TxPiece, ip_tx_core, Sending
<1>2. w.g = tx[x].g /\ w.id = tx[x].id
  BY ZenonT(60)
<1> HIDE DEF w
<1>3. tx[x] \in [pc : {"id", "loop"}, g : Datagram,
                 id : 0 .. ID_MOD - 1, done : 0 .. MaxUnits]
  BY <1>1, CallerType, ZenonT(60) DEF SenderInv, Sending, Calling
<1>4. \A y \in Sender : /\ Sending(y)' <=> Sending(y)
                        /\ tx'[y].id = tx[y].id /\ tx'[y].g = tx[y].g
  BY <1>1, <1>3, ZenonT(60) DEF SenderInv, SenderTypeOK, Sending
<1>5. \A y \in Sender :
        Sending(y) => (tx[y].id = tx[x].id <=> tx[y].g = tx[x].g)
  BY <1>1, ZenonT(60) DEF IdInv, SenderInv, Sending, Calling
<1> QED
  BY <1>1, <1>2, <1>4, <1>5, SMTT(60) DEF IdInv, IdsUnique

(* Every step keeps the invariant on ids.                                  *)
LEMMA IdStep == TransferInv /\ IdInv /\ [TransferNext]_tvs => IdInv'
<1> SUFFICES ASSUME TransferInv, IdInv, [TransferNext]_tvs PROVE IdInv'
  BY ZenonT(60)
<1>1. ASSUME NEW x \in Sender,
             \/ \E g \in Datagram : ip_tx(x, g)
             \/ TxFails(x) \/ TxReturns(x)
      PROVE  IdInv'
  <2>1. /\ UNCHANGED <<id, issued, wire>>
        /\ \A y \in Sender : y # x => tx'[y] = tx[y]
        /\ ~Sending(x)'
    BY <1>1, SMTT(60) DEF ip_tx, TxFails, TxReturns, NoTx, Sending,
                          TransferInv, SenderInv, SenderTypeOK
  <2>2. \A y \in Sender : Sending(y)' =>
               Sending(y) /\ tx'[y].id = tx[y].id /\ tx'[y].g = tx[y].g
    BY <2>1, ZenonT(60) DEF TransferInv, SenderInv, SenderTypeOK, Sending
  <2> QED
    BY <2>1, <2>2, IdsKept, ZenonT(60)
<1>2. ASSUME NEW x \in Sender, ip_generate_id(x)
      PROVE  IdInv'
  BY <1>2, GenerateIds, ZenonT(60) DEF TransferInv
<1>3. ASSUME NEW x \in Sender, TxPiece(x)
      PROVE  IdInv'
  BY <1>3, PieceIds, ZenonT(60) DEF TransferInv
<1>4. ASSUME UNCHANGED tvars
      PROVE  IdInv'
  BY <1>4, IdsKept, ZenonT(60) DEF tvars, Sending
<1>5. ASSUME NEW d \in Dev, Receive(d)
      PROVE  UNCHANGED tvars
  BY <1>5, ZenonT(60) DEF Receive
<1> QED
  BY <1>1, <1>2, <1>3, <1>4, <1>5, ZenonT(60) DEF TransferNext, tvs

(* Concurrent calls of ip_tx never use one id for two datagrams, also when *)
(* the counter wraps, as long as it is not called ID_MOD times.            *)
THEOREM IdsDistinct == TransferSpec => []IdsUnique
<1>1. TransferInit => IdInv
  BY SMTT(60) DEF TransferInit, IdInv, IdsUnique, Sending, NoTx
<1>2. IdInv => IdsUnique
  BY ZenonT(60) DEF IdInv
<1> QED
  BY <1>1, <1>2, IdStep, TransferInvariance, PTL DEF TransferSpec

-----------------------------------------------------------------------------
(* What arrives from this stack's ip_tx is among what IpFragment lets      *)
(* arrive from any sender.                                                 *)
LEMMA ReceiverStep ==
    TransferInv /\ [TransferNext]_tvs => [Next]_vars
<1> SUFFICES ASSUME TransferInv, [TransferNext]_tvs
             PROVE  Next \/ UNCHANGED vars
  BY ZenonT(60)
<1>1. ASSUME NEW x \in Sender,
             \/ \E g \in Datagram : ip_tx(x, g)
             \/ ip_generate_id(x) \/ TxPiece(x) \/ TxFails(x) \/ TxReturns(x)
      PROVE  UNCHANGED vars
  BY <1>1, ZenonT(60) DEF ip_tx, ip_generate_id, TxPiece, TxFails, TxReturns
<1>2. ASSUME NEW d \in Dev, Receive(d)
      PROVE  Next
  <2>1. PICK w \in wire : ip_rx(d, w.g, w.off, w.n, FALSE)
    BY <1>2, ZenonT(60) DEF Receive
  <2>2. w \in {v \in [g : Datagram, id : 0 .. ID_MOD - 1, off : Unit,
                      n : 1 .. PIECE] : v.off + v.n <= Size[v.g]}
    BY ZenonT(60) DEF TransferInv, SenderInv, SenderTypeOK
  <2>3. /\ w.g \in Datagram /\ w.off \in Unit /\ w.n \in 1 .. PIECE
        /\ w.off + w.n <= Size[w.g]
    BY <2>2, SMTT(60)
  <2>4. w.n \in 1 .. MaxUnits
    BY <2>3, BoundAssumption, DatagramAssumption, SenderAssumption, SMTT(60)
    DEF Unit
  <2>5. Arrives(d)
    BY <2>1, <2>3, <2>4, ZenonT(60) DEF Arrives
  <2> QED
    BY <2>5, ZenonT(60) DEF Next
<1>3. ASSUME NEW d \in Dev, Deliver(d)
      PROVE  Next
  BY <1>3, ZenonT(60) DEF Next
<1>4. CASE Tick
  BY <1>4, ZenonT(60) DEF Next
<1>5. CASE UNCHANGED tvs
  BY <1>5, ZenonT(60) DEF tvs
<1> QED
  BY <1>1, <1>2, <1>3, <1>4, <1>5, ZenonT(60) DEF TransferNext

(* The composition implements IpFragment: the receiver of two hosts with   *)
(* this stack behaves as ip_rx does towards any sender, so all that is     *)
(* proved of IpFragment holds of it.                                       *)
THEOREM ReceiverRefined == TransferSpec => Spec
<1>1. TransferInit => Init
  BY ZenonT(60) DEF TransferInit
<1> QED
  BY <1>1, ReceiverStep, TransferInvariance, PTL DEF TransferSpec, Spec

(* What reaches the receiver's protocols between two such hosts is intact, *)
(* only a patrol that meets an expired object takes away pieces received,  *)
(* and the count of objects bounds the list.                               *)
THEOREM TransferReassembly ==
    TransferSpec => [](DeliveredIntact /\ CountBoundsList) /\ PartsKept
BY ReceiverRefined, Reassembly, CountSound, PartsStay, PTL

=============================================================================
