--------------------------- MODULE IpFragmentProofs ---------------------------
(***************************************************************************)
(* Proofs about IpFragment, for every number of datagrams, threads and     *)
(* list objects, and every way to cut, lose, repeat and reorder pieces.    *)
(***************************************************************************)
EXTENDS IpFragment, UtilProofs

(* A list object holds units of datagram g only, each in its place.        *)
PartOf(f, g) ==
    /\ f.key = Key[g]
    /\ f.len \in {0, Size[g]}
    /\ \A u \in Unit : f.data[u] = IF u \in f.mask THEN <<g, u>> ELSE Zero
    /\ f.mask \subseteq 0 .. Size[g] - 1

Part(f) == (\E g \in Datagram : PartOf(f, g) /\ f.mask # {}) /\ ~Complete(f)

(* The list, and the list while ip_fragment_process works on object i.     *)
ListBut(s, i) ==
    /\ s \in Seq(Fragment)
    /\ \A j \in DOMAIN s \ {i} : Part(s[j])
    /\ \A j, k \in DOMAIN s : s[j].key = s[k].key => j = k

ListInv(s) ==
    /\ s \in Seq(Fragment)
    /\ \A j \in DOMAIN s : Part(s[j])
    /\ \A j, k \in DOMAIN s : s[j].key = s[k].key => j = k

(* The thread that took an object off the list has a whole datagram.       *)
RxIntact ==
    \A d \in Dev : rx[d].pc # "idle" => \E g \in Datagram : rx[d].pay = Whole(g)

IInv ==
    /\ TypeOK
    /\ ListInv(fragments)
    /\ CountBoundsList
    /\ RxIntact
    /\ DeliveredIntact

-----------------------------------------------------------------------------
(* Lists.                                                                  *)

(* ip_fragment_detach keeps the invariant of the list.                     *)
LEMMA DetachList ==
    ASSUME NEW s, NEW i \in DOMAIN s, ListBut(s, i)
    PROVE  /\ ListInv(ip_fragment_detach(s, i))
           /\ Len(ip_fragment_detach(s, i)) = Len(s) - 1
<1> DEFINE r == ip_fragment_detach(s, i)
<1>1. /\ Len(s) \in Nat /\ i \in 1 .. Len(s) /\ DOMAIN s = 1 .. Len(s)
      /\ \A j \in 1 .. Len(s) : s[j] \in Fragment
  BY SMTT(60) DEF ListBut
<1>2. \A j \in 1 .. Len(s) - 1 :
        r[j] = IF j < i THEN s[j] ELSE s[j + 1]
  BY SMTT(60) DEF ip_fragment_detach
<1>3. r \in Seq(Fragment) /\ Len(r) = Len(s) - 1 /\ DOMAIN r = 1 .. Len(s) - 1
  BY <1>1, SMTT(60) DEF ip_fragment_detach
<1> HIDE DEF r
<1>4. ASSUME NEW j \in DOMAIN r PROVE Part(r[j])
  <2>1. CASE j < i
    BY <1>1, <1>2, <1>3, <2>1, SMTT(60) DEF ListBut
  <2>2. CASE ~(j < i)
    <3>1. r[j] = s[j + 1] /\ j + 1 \in DOMAIN s /\ j + 1 # i
      BY <1>1, <1>2, <1>3, <2>2, SMTT(60)
    <3> QED
      BY <3>1, SMTT(60) DEF ListBut
  <2> QED
    BY <2>1, <2>2, SMTT(60)
<1>5. ASSUME NEW j \in DOMAIN r, NEW k \in DOMAIN r, r[j].key = r[k].key
      PROVE  j = k
  <2> DEFINE m(x) == IF x < i THEN x ELSE x + 1
  <2>1. /\ j \in Int /\ k \in Int /\ m(j) \in DOMAIN s /\ m(k) \in DOMAIN s
        /\ r[j] = s[m(j)] /\ r[k] = s[m(k)]
    BY <1>1, <1>2, <1>3, SMTT(60)
  <2>2. m(j) = m(k)
    BY <1>5, <2>1, SMTT(60) DEF ListBut
  <2> QED
    BY <1>1, <2>1, <2>2, SMTT(60)
<1> QED
  BY <1>3, <1>4, <1>5, SMTT(60) DEF ListInv, r

(* ip_fragment_patrol keeps the invariant of the list.                     *)
LEMMA PatrolList ==
    ASSUME NEW s, ListInv(s)
    PROVE  /\ ListInv(ip_fragment_patrol(s))
           /\ Len(ip_fragment_patrol(s)) <= Len(s)
<1> DEFINE r == [j \in 1 .. Len(s) - 1 |-> s[j]]
<1>1. CASE Len(s) > 0 /\ Expired(s[Len(s)])
  <2>1. /\ Len(s) \in Nat /\ DOMAIN s = 1 .. Len(s)
        /\ \A j \in 1 .. Len(s) : s[j] \in Fragment
    BY SMTT(60) DEF ListInv
  <2>2. r \in Seq(Fragment) /\ Len(r) = Len(s) - 1 /\ DOMAIN r = 1 .. Len(s) - 1
    BY <1>1, <2>1, SMTT(60)
  <2>3. ListInv(r)
    BY <2>1, <2>2, SMTT(60) DEF ListInv
  <2> QED
    BY <1>1, <2>1, <2>2, <2>3, SMTT(60) DEF ip_fragment_patrol
<1>2. CASE ~(Len(s) > 0 /\ Expired(s[Len(s)]))
  BY <1>2, SMTT(60) DEF ip_fragment_patrol, ListInv
<1> QED
  BY <1>1, <1>2, SMTT(60)

(* The part of the list in front of object i keeps the invariant.          *)
LEMMA FrontList ==
    ASSUME NEW s, ListInv(s), NEW i \in 1 .. Len(s) - 1
    PROVE  LET r == [j \in 1 .. i - 1 |-> s[j]]
           IN  ListInv(r) /\ Len(r) = i - 1 /\ Len(r) <= Len(s)
<1> DEFINE r == [j \in 1 .. i - 1 |-> s[j]]
<1>1. /\ Len(s) \in Nat /\ DOMAIN s = 1 .. Len(s)
      /\ \A j \in 1 .. Len(s) : s[j] \in Fragment
  BY SMTT(60) DEF ListInv
<1>2. r \in Seq(Fragment) /\ Len(r) = i - 1 /\ DOMAIN r = 1 .. i - 1
  BY <1>1, SMTT(60)
<1>3. ListInv(r)
  BY <1>1, <1>2, SMTT(60) DEF ListInv
<1> QED
  BY <1>1, <1>2, <1>3, SMTT(60)

(* maskchk decides whether all of the object has arrived.                  *)
LEMMA CompleteSet ==
    ASSUME NEW f, f.len \in Nat
    PROVE  Complete(f) <=> f.len # 0 /\ 0 .. f.len - 1 \subseteq f.mask
<1>1. CASE f.len = 0
  BY <1>1, SMTT(60) DEF Complete
<1>2. CASE f.len # 0
  <2>1. maskchk(f.mask, 0, f.len) <=> 0 .. 0 + f.len - 1 \subseteq f.mask
    BY <1>2, MaskchkExact, SMTT(60)
  <2> QED
    BY <1>2, <2>1, SMTT(60) DEF Complete
<1> QED
  BY <1>1, <1>2, SMTT(60)

(* Storing a piece of g in an object of g.                                 *)
LEMMA StoredPart ==
    ASSUME now \in Nat, NEW g \in Datagram, NEW f \in Fragment, PartOf(f, g),
           NEW off \in Unit, NEW n \in 1 .. MaxUnits, off + n <= Size[g]
    PROVE  LET h == Stored(f, g, off, n)
           IN  /\ h \in Fragment
               /\ PartOf(h, g)
               /\ h.mask # {}
               /\ h.timestamp = now
<1> DEFINE new == off .. off + n - 1
           h == Stored(f, g, off, n)
<1>1. /\ Size[g] \in 1 .. MaxUnits /\ MaxUnits \in Nat
      /\ new \subseteq Unit /\ new # {} /\ new \subseteq 0 .. Size[g] - 1
      /\ f.mask \subseteq Unit
  BY BoundAssumption, DatagramAssumption, SMTT(60) DEF Unit, Fragment
<1>0. maskset(f.mask, off, n) = f.mask \cup new
  <2>1. off \in Nat /\ n \in Nat \ {0}
    BY BoundAssumption, SMTT(60) DEF Unit
  <2> QED
    BY <2>1, MasksetExact, SMTT(60)
<1>2. /\ h.key = f.key /\ h.timestamp = now
      /\ h.mask = f.mask \cup new
      /\ h.len = IF off + n = Size[g] THEN off + n ELSE f.len
      /\ h.data = [u \in Unit |-> IF u \in new THEN <<g, u>> ELSE f.data[u]]
      /\ h = [key |-> h.key, len |-> h.len, data |-> h.data, mask |-> h.mask,
              timestamp |-> h.timestamp]
  BY <1>0, SMTT(60) DEF Stored
<1> HIDE DEF h
<1>3. h.data \in Data
  BY <1>1, <1>2, SMTT(60) DEF Fragment, Data
<1>4. h \in Fragment
  BY <1>1, <1>2, <1>3, SMTT(60) DEF Fragment, PartOf
<1>5. PartOf(h, g)
  BY <1>1, <1>2, SMTT(60) DEF PartOf
<1> QED
  BY <1>1, <1>2, <1>4, <1>5, SMTT(60) DEF h

(* A new object in front keeps the invariant of the list.                  *)
LEMMA ConsList ==
    ASSUME NEW s, ListInv(s), NEW f \in Fragment,
           \A j \in DOMAIN s : s[j].key # f.key
    PROVE  LET r == <<f>> \o s
           IN  /\ ListBut(r, 1) /\ 1 \in DOMAIN r
               /\ r[1] = f /\ Len(r) = Len(s) + 1
<1> DEFINE r == <<f>> \o s
<1>1. /\ s \in Seq(Fragment) /\ Len(s) \in Nat /\ DOMAIN s = 1 .. Len(s)
      /\ \A j \in 1 .. Len(s) : s[j] \in Fragment
  BY SMTT(60) DEF ListInv
<1>2. /\ r \in Seq(Fragment) /\ Len(r) = Len(s) + 1
      /\ DOMAIN r = 1 .. Len(s) + 1
  BY <1>1, SMTT(60)
<1>3. r[1] = f /\ \A j \in 2 .. Len(s) + 1 : r[j] = s[j - 1]
  BY <1>1, SMTT(60)
<1> HIDE DEF r
<1>4. ASSUME NEW j \in 2 .. Len(s) + 1
      PROVE  j - 1 \in DOMAIN s /\ Part(r[j]) /\ r[j].key # f.key
  BY <1>1, <1>3, SMTT(60) DEF ListInv
<1>5. ASSUME NEW j \in DOMAIN r, NEW k \in DOMAIN r, r[j].key = r[k].key
      PROVE  j = k
  <2>1. CASE j = 1 \/ k = 1
    BY <1>1, <1>2, <1>3, <1>4, <1>5, <2>1, SMTT(60)
  <2>2. CASE j # 1 /\ k # 1
    <3>1. /\ j \in 2 .. Len(s) + 1 /\ k \in 2 .. Len(s) + 1
      BY <1>1, <1>2, <2>2, SMTT(60)
    <3>2. j - 1 = k - 1
      BY <1>3, <1>4, <1>5, <3>1, SMTT(60) DEF ListInv
    <3> QED
      BY <1>1, <3>1, <3>2, SMTT(60)
  <2> QED
    BY <2>1, <2>2, SMTT(60)
<1> QED
  BY <1>1, <1>2, <1>3, <1>4, <1>5, SMTT(60) DEF ListBut, r

(* A complete object of g is datagram g.                                   *)
LEMMA CompleteWhole ==
    ASSUME NEW g \in Datagram, NEW f \in Fragment, PartOf(f, g), Complete(f)
    PROVE  [key |-> f.key, len |-> f.len, data |-> f.data] = Whole(g)
<1>1. f.len = Size[g] /\ f.key = Key[g] /\ f.mask = 0 .. Size[g] - 1
  <2>1. f.len \in Nat
    BY BoundAssumption, SMTT(60) DEF Fragment
  <2>2. f.len # 0 /\ 0 .. f.len - 1 \subseteq f.mask
    BY <2>1, CompleteSet, SMTT(60)
  <2> QED
    BY <2>2, ZenonT(60) DEF PartOf
<1>2. Size[g] \in 1 .. MaxUnits /\ MaxUnits \in Nat
  BY BoundAssumption, DatagramAssumption, SMTT(60)
<1>3. f.data = [u \in Unit |-> IF u < Size[g] THEN <<g, 0 + u>> ELSE Zero]
  <2>1. f.data \in [Unit -> (Datagram \X Unit) \cup {Zero}]
    BY SMTT(60) DEF Fragment, Data
  <2>2. ASSUME NEW u \in Unit
        PROVE  f.data[u] = IF u < Size[g] THEN <<g, 0 + u>> ELSE Zero
    BY <1>1, <1>2, SMTT(60) DEF PartOf, Unit
  <2> QED
    BY <2>1, <2>2, ZenonT(60)
<1> QED
  BY <1>1, <1>3, SMTT(60) DEF Whole, Piece

(* A whole datagram is a payload.                                          *)
LEMMA WholeType == \A g \in Datagram : Whole(g) \in Payload
<1> SUFFICES ASSUME NEW g \in Datagram PROVE Whole(g) \in Payload
  BY SMTT(60)
<1>1. Size[g] \in 1 .. MaxUnits /\ MaxUnits \in Nat /\ Key[g] \in Id
  BY BoundAssumption, DatagramAssumption, SMTT(60)
<1>2. [u \in Unit |-> IF u < Size[g] THEN <<g, 0 + u>> ELSE Zero] \in Data
  BY <1>1, SMTT(60) DEF Data, Unit
<1> QED
  BY <1>1, <1>2, SMTT(60) DEF Whole, Piece, Payload

(* StoreIn keeps the list, the count and the receive threads sound.        *)
LEMMA StoreInSound ==
    ASSUME IInv, NEW d \in Dev, NEW g \in Datagram, NEW off \in Unit,
           NEW n \in 1 .. MaxUnits, off + n <= Size[g],
           NEW s, NEW i \in DOMAIN s, ListBut(s, i), PartOf(s[i], g),
           NEW cnt \in Nat, Len(s) <= cnt, cnt <= IP_FRAGMENT_NUM_MAX,
           StoreIn(d, s, i, cnt, g, off, n)
    PROVE  /\ ListInv(fragments)'
           /\ count' \in Nat /\ CountBoundsList'
           /\ rx' \in [Dev -> RxState] /\ RxIntact'
<1> DEFINE f == Stored(s[i], g, off, n)
<1>1. /\ s \in Seq(Fragment) /\ Len(s) \in Nat /\ DOMAIN s = 1 .. Len(s)
      /\ s[i] \in Fragment
  BY SMTT(60) DEF ListBut
<1>2. f \in Fragment /\ PartOf(f, g) /\ f.mask # {} /\ f.key = s[i].key
  <2>1. f.key = s[i].key
    BY SMTT(60) DEF Stored
  <2> QED
    BY <1>1, <2>1, StoredPart, SMTT(60) DEF IInv, TypeOK
<1> HIDE DEF f
<1>4. CASE ~Complete(f)
  <2>0. Part(f)
    BY <1>2, <1>4, SMTT(60) DEF Part
  <2>1. fragments' = [s EXCEPT ![i] = f] /\ count' = cnt /\ UNCHANGED rx
    BY <1>4, SMTT(60) DEF StoreIn, f
  <2>2. /\ fragments' \in Seq(Fragment) /\ Len(fragments') = Len(s)
        /\ DOMAIN fragments' = DOMAIN s
        /\ \A j \in DOMAIN s : fragments'[j] = IF j = i THEN f ELSE s[j]
    BY <1>1, <1>2, <2>1, SMTT(60)
  <2>3. ListInv(fragments')
    BY <1>2, <2>0, <2>2, ZenonT(60) DEF ListBut, ListInv
  <2> QED
    BY <2>1, <2>2, <2>3, ZenonT(60) DEF CountBoundsList, RxIntact, IInv, TypeOK
<1>5. CASE Complete(f)
  <2> DEFINE pay == [key |-> f.key, len |-> f.len, data |-> f.data]
  <2>1. /\ fragments' = ip_fragment_detach(s, i) /\ count' = cnt - 1
        /\ rx' = [rx EXCEPT ![d] = [pc |-> "owner", pay |-> pay]]
    BY <1>5, SMTT(60) DEF StoreIn, CountAfter, f
  <2>2. ListInv(fragments') /\ Len(fragments') = Len(s) - 1
    BY <2>1, DetachList, SMTT(60)
  <2>3. pay = Whole(g) /\ pay \in Payload
    BY <1>2, <1>5, CompleteWhole, WholeType, SMTT(60)
  <2> HIDE DEF pay
  <2>4. rx' \in [Dev -> RxState]
    BY <2>1, <2>3, SMTT(60) DEF IInv, TypeOK, RxState
  <2>5. RxIntact'
    BY <2>1, <2>3, SMTT(60) DEF IInv, TypeOK, RxIntact
  <2>6. count' \in Nat /\ CountBoundsList'
    BY <1>1, <2>1, <2>2, BoundAssumption, SMTT(60) DEF CountBoundsList
  <2> QED
    BY <2>2, <2>4, <2>5, <2>6, SMTT(60)
<1> QED
  BY <1>4, <1>5, SMTT(60)

-----------------------------------------------------------------------------
(* The invariant holds with the empty list.                                *)
LEMMA InitInv == Init => IInv
<1> SUFFICES ASSUME Init PROVE IInv
  BY SMTT(60)
<1>1. TypeOK
  BY SMTT(60) DEF Init, TypeOK, RxState, Idle
<1>2. ListInv(fragments) /\ CountBoundsList
  BY BoundAssumption, SMTT(60) DEF Init, ListInv, CountBoundsList
<1>3. RxIntact /\ DeliveredIntact
  BY SMTT(60) DEF Init, RxIntact, DeliveredIntact, Idle
<1> QED
  BY <1>1, <1>2, <1>3, SMTT(60) DEF IInv

(* A step of ip_rx on a piece of a datagram.                               *)
LEMMA IpRxInv ==
    ASSUME IInv, NEW d \in Dev, NEW g \in Datagram, NEW off \in Unit,
           NEW n \in 1 .. MaxUnits, off + n <= Size[g], NEW df \in BOOLEAN,
           ip_rx(d, g, off, n, df)
    PROVE  IInv'
<1> DEFINE s == ip_fragment_patrol(fragments)
<1>1. ListInv(s) /\ Len(s) <= Len(fragments) /\ Len(s) \in Nat
  BY PatrolList, SMTT(60) DEF IInv, ListInv
<1>2. count \in Nat /\ Len(fragments) <= count /\ Len(fragments) \in Nat
  BY SMTT(60) DEF IInv, CountBoundsList, TypeOK, ListInv
<1> HIDE DEF s
<1>3. CASE RxDirect(d, g, off, n, df)
  <2>1. off = 0 /\ n = Size[g]
    BY <1>3, DatagramAssumption, BoundAssumption, SMTT(60)
    DEF RxDirect, ToReassemble, Unit
  <2>2. rx' = [rx EXCEPT ![d] = [pc |-> "direct", pay |-> Whole(g)]]
    BY <1>3, <2>1, ZenonT(60) DEF RxDirect, Whole
  <2>3. rx' \in [Dev -> RxState]
    BY <2>2, WholeType, SMTT(60) DEF IInv, TypeOK, RxState
  <2>4. RxIntact'
    BY <2>2, SMTT(60) DEF IInv, TypeOK, RxIntact
  <2> QED
    BY <1>3, <2>3, <2>4, SMTT(60)
    DEF RxDirect, IInv, TypeOK, CountBoundsList, DeliveredIntact
<1>4. CASE RxCorrupt(d, g, off, n, df)
  <2>1. PICK i \in 1 .. Len(fragments) - 1 :
          fragments' = [j \in 1 .. i - 1 |-> fragments[j]]
    BY <1>4, ZenonT(60) DEF RxCorrupt
  <2>2. ListInv(fragments') /\ Len(fragments') <= Len(fragments)
    BY <2>1, FrontList, ZenonT(60) DEF IInv
  <2>3. status' = "corrupt" /\ UNCHANGED <<now, count, heap, rx, delivered>>
    BY <1>4, ZenonT(60) DEF RxCorrupt
  <2>4. TypeOK'
    BY <2>2, <2>3, SMTT(60) DEF IInv, TypeOK, ListInv
  <2>5. CountBoundsList'
    <3>1. Len(fragments') \in Nat
      BY <2>2, SMTT(60) DEF ListInv
    <3> QED
      BY <1>2, <2>2, <2>3, <3>1, SMTT(60) DEF IInv, CountBoundsList
  <2> QED
    BY <2>2, <2>3, <2>4, <2>5, ZenonT(60)
    DEF IInv, RxIntact, DeliveredIntact, ListInv
<1>5. CASE RxRefused(d, g, off, n, df) \/ RxAborts(d, g, off, n, df)
  <2>1. /\ fragments' = s /\ UNCHANGED <<now, count, heap, rx, delivered>>
        /\ status' \in {status, "aborted"}
    BY <1>5, SMTT(60) DEF RxRefused, RxAborts, s
  <2>2. TypeOK'
    BY <1>1, <2>1, SMTT(60) DEF IInv, TypeOK, ListInv
  <2>3. CountBoundsList'
    BY <1>1, <1>2, <2>1, SMTT(60) DEF IInv, CountBoundsList
  <2> QED
    BY <1>1, <2>1, <2>2, <2>3, ZenonT(60) DEF IInv, RxIntact, DeliveredIntact
<1>6. CASE RxKnown(d, g, off, n, df)
  <2>1. PICK i \in DOMAIN s : /\ s[i].key = Key[g]
                              /\ StoreIn(d, s, i, count, g, off, n)
    BY <1>6, SMTT(60) DEF RxKnown, FirstListed, Matches, s
  <2>2. ListBut(s, i) /\ PartOf(s[i], g)
    <3>1. ListBut(s, i) /\ Part(s[i])
      BY <1>1, ZenonT(60) DEF ListInv, ListBut
    <3>2. PICK h \in Datagram : PartOf(s[i], h)
      BY <3>1, SMTT(60) DEF Part
    <3>3. h = g
      BY <2>1, <3>2, DatagramAssumption, ZenonT(60) DEF PartOf
    <3> QED
      BY <3>1, <3>2, <3>3, SMTT(60)
  <2>3. /\ ListInv(fragments)'
        /\ count' \in Nat /\ CountBoundsList'
        /\ rx' \in [Dev -> RxState] /\ RxIntact'
    BY <1>1, <1>2, <2>1, <2>2, StoreInSound, SMTT(60) DEF IInv, CountBoundsList
  <2> QED
    BY <1>6, <2>3, ZenonT(60) DEF RxKnown, IInv, TypeOK, ListInv, DeliveredIntact
<1>7. CASE RxNew(d, g, off, n, df)
  <2> DEFINE f == NewFragment(Key[g])
             r == <<f>> \o s
  <2>1. /\ \A j \in DOMAIN s : s[j].key # Key[g]
        /\ StoreIn(d, r, 1, count + 1, g, off, n)
        /\ count < IP_FRAGMENT_NUM_MAX
        /\ UNCHANGED <<now, status, delivered>>
        /\ heap' \in {heap, "overrun"}
    BY <1>7, ZenonT(60) DEF RxNew, NotListed, Matches, HasRoom, HeapAfterAlloc, s
  <2>2. f \in Fragment /\ f.key = Key[g] /\ PartOf(f, g)
    BY BoundAssumption, DatagramAssumption, SMTT(60)
    DEF NewFragment, Fragment, PartOf, Blank, Data, IInv, TypeOK
  <2> HIDE DEF f
  <2>3. /\ ListBut(r, 1) /\ 1 \in DOMAIN r /\ r[1] = f
        /\ Len(r) = Len(s) + 1
    BY <1>1, <2>1, <2>2, ConsList, ZenonT(60)
  <2> HIDE DEF r
  <2>4. /\ count + 1 \in Nat /\ Len(r) <= count + 1
        /\ count + 1 <= IP_FRAGMENT_NUM_MAX
    BY <1>1, <1>2, <2>1, <2>3, BoundAssumption, SMTT(60)
  <2>5. /\ ListInv(fragments)'
        /\ count' \in Nat /\ CountBoundsList'
        /\ rx' \in [Dev -> RxState] /\ RxIntact'
    BY <2>1, <2>2, <2>3, <2>4, StoreInSound, ZenonT(60)
  <2> QED
    BY <2>1, <2>5, ZenonT(60) DEF IInv, TypeOK, ListInv, DeliveredIntact
<1> QED
  BY <1>3, <1>4, <1>5, <1>6, <1>7, ZenonT(60) DEF ip_rx

(* The end of ip_rx keeps the invariant.                                   *)
LEMMA DeliverInv ==
    ASSUME IInv, NEW d \in Dev, Deliver(d)
    PROVE  IInv'
<1>1. PICK g \in Datagram : rx[d].pay = Whole(g)
  BY ZenonT(60) DEF IInv, RxIntact, Deliver
<1>2. TypeOK'
  BY <1>1, WholeType, ZenonT(60) DEF IInv, TypeOK, Deliver, RxState, Idle
<1>3. RxIntact' /\ DeliveredIntact'
  BY <1>1, SMTT(60) DEF IInv, TypeOK, RxIntact, DeliveredIntact, Deliver, Idle
<1> QED
  BY <1>2, <1>3, SMTT(60) DEF IInv, CountBoundsList, Deliver

(* Every step of ip_rx keeps the invariant.                                *)
LEMMA NextInv == IInv /\ [Next]_vars => IInv'
<1> SUFFICES ASSUME IInv, [Next]_vars PROVE IInv'
  BY SMTT(60)
<1>1. CASE Tick
  BY <1>1, SMTT(60)
  DEF Tick, IInv, TypeOK, CountBoundsList, RxIntact, DeliveredIntact
<1>2. ASSUME NEW d \in Dev, Arrives(d) PROVE IInv'
  BY <1>2, IpRxInv, SMTT(60) DEF Arrives
<1>3. ASSUME NEW d \in Dev, Deliver(d) PROVE IInv'
  BY <1>3, DeliverInv, ZenonT(60)
<1>4. CASE UNCHANGED vars
  BY <1>4, SMTT(60)
  DEF vars, IInv, TypeOK, CountBoundsList, RxIntact, DeliveredIntact
<1> QED
  BY <1>1, <1>2, <1>3, <1>4, SMTT(60) DEF Next

(* The inductive invariant of reassembly holds in every behaviour.         *)
THEOREM Invariance == Spec => []IInv
BY InitInv, NextInv, PTL DEF Spec

(* The variables of the reassembly keep their types.                       *)
THEOREM TypeCorrect == Spec => []TypeOK
BY Invariance, PTL DEF IInv

(* A protocol handler is only given datagrams as they were sent.           *)
THEOREM Reassembly == Spec => []DeliveredIntact
BY Invariance, PTL DEF IInv

(* The static count never wraps, and covers the list.                      *)
THEOREM CountSound == Spec => []CountBoundsList
BY Invariance, PTL DEF IInv

(* The objects of the list are those of distinct datagrams.                *)
THEOREM KeysDistinct == Spec => []KeysUnique
<1>1. IInv => KeysUnique
  BY ZenonT(60) DEF IInv, ListInv, KeysUnique
<1> QED
  BY <1>1, Invariance, PTL

(* They hold units of their own datagram only, in their places.            *)
THEOREM PartsOwn == Spec => []ListedPartsOwn
<1>1. IInv => ListedPartsOwn
  BY SMTT(60) DEF IInv, ListInv, ListedPartsOwn, Part, PartOf
<1> QED
  BY <1>1, Invariance, PTL

(* A datagram leaves the list in the step that completes it.               *)
THEOREM NoneComplete == Spec => []NoneCompleteListed
<1>1. IInv => NoneCompleteListed
  <2> SUFFICES ASSUME IInv, NEW i \in DOMAIN fragments, fragments[i].len # 0
               PROVE  \E u \in 0 .. fragments[i].len - 1 :
                        u \notin fragments[i].mask
    BY SMTT(60) DEF NoneCompleteListed
  <2>1. fragments[i] \in Fragment /\ ~Complete(fragments[i])
    BY SMTT(60) DEF IInv, ListInv, Part
  <2>2. fragments[i].len \in Nat
    BY <2>1, BoundAssumption, SMTT(60) DEF Fragment
  <2> QED
    BY <2>1, <2>2, CompleteSet, SMTT(60)
<1> QED
  BY <1>1, Invariance, PTL

(* A patrol that is harmless leaves no expired object.                     *)
LEMMA PatrolFresh ==
    ASSUME NEW s, ListInv(s), PatrolHarmless(s)
    PROVE  \A j \in DOMAIN ip_fragment_patrol(s) :
             ~Expired(ip_fragment_patrol(s)[j])
<1>1. s \in Seq(Fragment) /\ Len(s) \in Nat /\ DOMAIN s = 1 .. Len(s)
  BY SMTT(60) DEF ListInv
<1>2. CASE Len(s) > 0 /\ Expired(s[Len(s)])
  BY <1>1, <1>2, SMTT(60) DEF ip_fragment_patrol, PatrolHarmless
<1>3. CASE ~(Len(s) > 0 /\ Expired(s[Len(s)]))
  <2> SUFFICES ASSUME NEW j \in DOMAIN s PROVE ~Expired(s[j])
    BY <1>3, SMTT(60) DEF ip_fragment_patrol
  <2>1. j \in 1 .. Len(s) - 1 \/ (j = Len(s) /\ Len(s) > 0)
    BY <1>1, SMTT(60)
  <2> QED
    BY <1>3, <2>1, SMTT(60) DEF PatrolHarmless
<1> QED
  BY <1>2, <1>3, SMTT(60)

(* Storing a piece refreshes its object and touches no other.              *)
LEMMA StoreInFresh ==
    ASSUME IInv, NEW d \in Dev, NEW g \in Datagram, NEW off \in Unit,
           NEW n \in 1 .. MaxUnits, NEW s \in Seq(Fragment),
           NEW i \in DOMAIN s, NEW cnt \in Nat,
           \A j \in DOMAIN s : ~Expired(s[j]),
           StoreIn(d, s, i, cnt, g, off, n)
    PROVE  \A j \in DOMAIN fragments' : ~Expired(fragments'[j])
<1> DEFINE f == Stored(s[i], g, off, n)
<1>1. ~Expired(f)
  BY BoundAssumption, SMTT(60) DEF Stored, Expired, IInv, TypeOK
<1> HIDE DEF f
<1>2. Len(s) \in Nat /\ DOMAIN s = 1 .. Len(s)
  BY SMTT(60)
<1>3. CASE fragments' = [s EXCEPT ![i] = f]
  BY <1>1, <1>3, SMTT(60)
<1>4. CASE fragments' = ip_fragment_detach(s, i)
  <2> SUFFICES ASSUME NEW j \in 1 .. Len(s) - 1
               PROVE  ~Expired(IF j < i THEN s[j] ELSE s[j + 1])
    BY <1>4, SMTT(60) DEF ip_fragment_detach
  <2>1. j \in DOMAIN s /\ j + 1 \in DOMAIN s
    BY <1>2, SMTT(60)
  <2> QED
    BY <2>1, SMTT(60)
<1> QED
  BY <1>3, <1>4, ZenonT(60) DEF StoreIn, f

(* ip_fragment_process leaves no expired object in the list.               *)
THEOREM PatrolComplete == Spec => NoneExpiredAfterReceive
<1>1. IInv /\ [Next]_vars => [NoneExpiredStep]_vars
  <2> SUFFICES ASSUME IInv, Next, fragments' # fragments
               PROVE  \A j \in DOMAIN fragments' :
                        now - fragments'[j].timestamp
                          <= IP_FRAGMENT_TIMEOUT_SEC
    BY ZenonT(60) DEF NoneExpiredStep
  <2>1. PICK d \in Dev : Arrives(d)
    BY SMTT(60) DEF Next, Tick, Deliver
  <2>2. PICK g \in Datagram, off \in Unit, n \in 1 .. MaxUnits, df \in BOOLEAN :
          off + n <= Size[g] /\ ip_rx(d, g, off, n, df)
    BY <2>1, SMTT(60) DEF Arrives
  <2>3. IInv'
    BY NextInv, ZenonT(60)
  <2> DEFINE s == ip_fragment_patrol(fragments)
  <2>4. PatrolHarmless(fragments) \/ RxCorrupt(d, g, off, n, df)
    BY <2>2, ZenonT(60)
    DEF ip_rx, RxDirect, RxRefused, RxAborts, RxKnown, RxNew
  <2>5. /\ s \in Seq(Fragment)
        /\ PatrolHarmless(fragments) => \A j \in DOMAIN s : ~Expired(s[j])
    BY PatrolFresh, PatrolList, SMTT(60) DEF IInv, ListInv
  <2>6. count \in Nat /\ count + 1 \in Nat
    BY SMTT(60) DEF IInv, TypeOK
  <2> HIDE DEF s
  <2>7. \A j \in DOMAIN fragments' : ~Expired(fragments'[j])
    <3>1. CASE fragments' = s /\ PatrolHarmless(fragments)
      BY <2>5, <3>1, ZenonT(60)
    <3>2. CASE RxKnown(d, g, off, n, df)
      BY <2>5, <2>6, <3>2, StoreInFresh, SMTT(60) DEF RxKnown, s
    <3>4. CASE RxCorrupt(d, g, off, n, df)
      <4>1. PICK i \in 1 .. Len(fragments) - 1 :
              /\ \A j \in 1 .. i - 1 : ~Expired(fragments[j])
              /\ fragments' = [j \in 1 .. i - 1 |-> fragments[j]]
        BY <3>4, ZenonT(60) DEF RxCorrupt
      <4> QED
        BY <4>1, ZenonT(60)
    <3>3. CASE RxNew(d, g, off, n, df)
      <4> DEFINE f == NewFragment(Key[g])
                 r == <<f>> \o s
      <4>1. StoreIn(d, r, 1, count + 1, g, off, n)
        BY <3>3, ZenonT(60) DEF RxNew, s
      <4>2. f \in Fragment /\ ~Expired(f)
        BY BoundAssumption, DatagramAssumption, SMTT(60)
        DEF NewFragment, Fragment, Blank, Data, IInv, TypeOK, Expired
      <4> HIDE DEF f
      <4>3. /\ r \in Seq(Fragment) /\ 1 \in DOMAIN r
            /\ DOMAIN r = 1 .. Len(s) + 1
            /\ \A j \in DOMAIN r : r[j] = IF j = 1 THEN f ELSE s[j - 1]
        BY <2>5, <4>2, SMTT(60)
      <4>5. \A j \in DOMAIN s : ~Expired(s[j])
        BY <2>5, <3>3, ZenonT(60) DEF RxNew
      <4>4. ASSUME NEW j \in DOMAIN r PROVE ~Expired(r[j])
        <5>1. Len(s) \in Nat /\ DOMAIN s = 1 .. Len(s)
          BY <2>5, SMTT(60)
        <5>2. j = 1 \/ j - 1 \in DOMAIN s
          BY <4>3, <5>1, SMTT(60)
        <5> QED
          BY <4>2, <4>3, <4>5, <5>2, SMTT(60)
      <4> HIDE DEF r
      <4> QED
        BY <2>6, <4>1, <4>3, <4>4, StoreInFresh, ZenonT(60)
    <3> QED
      BY <2>2, <3>1, <3>2, <3>3, <3>4, ZenonT(60)
      DEF ip_rx, RxDirect, RxRefused, RxAborts, s
  <2>8. \A j \in DOMAIN fragments' : fragments'[j].timestamp \in Nat
    <3>1. fragments' \in Seq(Fragment)
      BY <2>3, SMTT(60) DEF IInv, TypeOK
    <3>2. \A j \in DOMAIN fragments' : fragments'[j] \in Fragment
      BY <3>1, SMTT(60)
    <3> QED
      BY <3>2, SMTT(60) DEF Fragment
  <2>9. now \in Nat /\ IP_FRAGMENT_TIMEOUT_SEC \in Nat
    BY BoundAssumption, SMTT(60) DEF IInv, TypeOK
  <2> QED
    BY <2>7, <2>8, <2>9, SMTT(60) DEF Expired
<1> QED
  BY <1>1, Invariance, PTL DEF Spec, NoneExpiredAfterReceive

-----------------------------------------------------------------------------
(* List t has an object with all that object f has.                        *)
KeptIn(f, t) ==
    \E j \in DOMAIN t :
        /\ t[j].key = f.key
        /\ f.mask \subseteq t[j].mask
        /\ f.len # 0 => t[j].len = f.len

(* An object that is in the list as it was is kept.                        *)
LEMMA SameKept ==
    ASSUME NEW t, NEW j \in DOMAIN t
    PROVE  KeptIn(t[j], t)
BY ZenonT(60) DEF KeptIn

(* The patrol unlinks expired objects only, when it is harmless.           *)
LEMMA PatrolKeeps ==
    ASSUME NEW s \in Seq(Fragment), NEW k \in DOMAIN s, ~Expired(s[k])
    PROVE  /\ k \in DOMAIN ip_fragment_patrol(s)
           /\ ip_fragment_patrol(s)[k] = s[k]
<1>1. Len(s) \in Nat /\ DOMAIN s = 1 .. Len(s)
  BY SMTT(60)
<1>2. CASE Len(s) > 0 /\ Expired(s[Len(s)])
  <2>1. k \in 1 .. Len(s) - 1
    BY <1>1, <1>2, SMTT(60)
  <2> QED
    BY <1>2, <2>1, SMTT(60) DEF ip_fragment_patrol
<1>3. CASE ~(Len(s) > 0 /\ Expired(s[Len(s)]))
  BY <1>3, ZenonT(60) DEF ip_fragment_patrol
<1> QED
  BY <1>2, <1>3, ZenonT(60)

(* Detaching an object keeps the others.                                   *)
LEMMA DetachKeeps ==
    ASSUME NEW s \in Seq(Fragment), NEW i \in DOMAIN s,
           NEW k \in DOMAIN s \ {i}
    PROVE  KeptIn(s[k], ip_fragment_detach(s, i))
<1> DEFINE r == ip_fragment_detach(s, i)
           j == IF k < i THEN k ELSE k - 1
<1>1. /\ Len(s) \in Nat /\ DOMAIN s = 1 .. Len(s)
      /\ i \in 1 .. Len(s) /\ k \in 1 .. Len(s) /\ k # i
  BY SMTT(60)
<1>2. j \in 1 .. Len(s) - 1 /\ s[k] = IF j < i THEN s[j] ELSE s[j + 1]
  BY <1>1, SMTT(60)
<1> HIDE DEF j
<1>3. j \in DOMAIN r /\ r[j] = s[k]
  BY <1>2, ZenonT(60) DEF ip_fragment_detach
<1> HIDE DEF r
<1>4. KeptIn(s[k], r)
  BY <1>3, SameKept, ZenonT(60)
<1> QED
  BY <1>4, ZenonT(60) DEF r

(* A stored piece takes nothing from its object.                           *)
LEMMA StoredKeeps ==
    ASSUME NEW g \in Datagram, NEW f \in Fragment, PartOf(f, g),
           NEW off \in Unit, NEW n \in 1 .. MaxUnits
    PROVE  LET h == Stored(f, g, off, n)
           IN  /\ h.key = f.key
               /\ f.mask \subseteq h.mask
               /\ f.len # 0 => h.len = f.len
<1> DEFINE h == Stored(f, g, off, n)
<1>1. off \in Nat /\ n \in Nat \ {0}
  BY BoundAssumption, SMTT(60) DEF Unit
<1>2. f.mask \subseteq maskset(f.mask, off, n)
  BY <1>1, MasksetExact, SMTT(60)
<1>3. /\ h.key = f.key /\ h.mask = maskset(f.mask, off, n)
      /\ h.len = IF off + n = Size[g] THEN off + n ELSE f.len
  BY ZenonT(60) DEF Stored
<1> HIDE DEF h
<1>4. f.len # 0 => h.len = f.len
  BY <1>3, SMTT(60) DEF PartOf
<1> QED
  BY <1>2, <1>3, <1>4, ZenonT(60) DEF h

(* Storing a piece keeps every object, or hands the one it went to over.   *)
LEMMA StoreInKeeps ==
    ASSUME IInv, NEW d \in Dev, NEW g \in Datagram, NEW off \in Unit,
           NEW n \in 1 .. MaxUnits, off + n <= Size[g],
           NEW s, NEW i \in DOMAIN s, ListBut(s, i), PartOf(s[i], g),
           NEW cnt, StoreIn(d, s, i, cnt, g, off, n), NEW k \in DOMAIN s
    PROVE  \/ KeptIn(s[k], fragments')
           \/ rx'[d].pc = "owner" /\ rx'[d].pay.key = s[k].key
<1> DEFINE f == Stored(s[i], g, off, n)
<1>1. s \in Seq(Fragment) /\ s[i] \in Fragment
  BY SMTT(60) DEF ListBut
<1>2. /\ f.key = s[i].key
      /\ s[i].mask \subseteq f.mask
      /\ s[i].len # 0 => f.len = s[i].len
  BY <1>1, StoredKeeps, ZenonT(60)
<1> HIDE DEF f
<1>3. CASE ~Complete(f)
  <2>1. fragments' = [s EXCEPT ![i] = f]
    BY <1>3, ZenonT(60) DEF StoreIn, f
  <2>2. /\ DOMAIN fragments' = DOMAIN s
        /\ \A j \in DOMAIN s : fragments'[j] = IF j = i THEN f ELSE s[j]
    BY <1>1, <2>1, SMTT(60)
  <2>3. CASE k = i
    BY <1>2, <2>2, <2>3, ZenonT(60) DEF KeptIn
  <2>4. CASE k # i
    BY <2>2, <2>4, ZenonT(60) DEF KeptIn
  <2> QED
    BY <2>3, <2>4, ZenonT(60)
<1>4. CASE Complete(f)
  <2> DEFINE pay == [key |-> f.key, len |-> f.len, data |-> f.data]
  <2>1. /\ fragments' = ip_fragment_detach(s, i)
        /\ rx' = [rx EXCEPT ![d] = [pc |-> "owner", pay |-> pay]]
    BY <1>4, ZenonT(60) DEF StoreIn, f
  <2>2. CASE k = i
    <3>1. rx'[d] = [pc |-> "owner", pay |-> pay]
      BY <2>1, ZenonT(60) DEF IInv, TypeOK
    <3>2. pay.key = f.key
      BY ZenonT(60)
    <3> HIDE DEF pay
    <3> QED
      BY <1>2, <2>2, <3>1, <3>2, SMTT(60)
  <2>3. CASE k # i
    BY <1>1, <2>1, <2>3, DetachKeeps, ZenonT(60)
  <2> QED
    BY <2>2, <2>3, ZenonT(60)
<1> QED
  BY <1>3, <1>4, ZenonT(60)

(* The object of a listed datagram holds units of the datagram.            *)
LEMMA ListedPartOf ==
    ASSUME NEW s, ListInv(s), NEW i \in DOMAIN s, NEW g \in Datagram,
           s[i].key = Key[g]
    PROVE  ListBut(s, i) /\ PartOf(s[i], g)
<1>1. ListBut(s, i) /\ Part(s[i])
  BY ZenonT(60) DEF ListInv, ListBut
<1>2. PICK h \in Datagram : PartOf(s[i], h)
  BY <1>1, ZenonT(60) DEF Part
<1>3. h = g
  BY <1>2, DatagramAssumption, ZenonT(60) DEF PartOf
<1> QED
  BY <1>1, <1>2, <1>3, ZenonT(60)

(* The object that ip_fragment_alloc makes is one of its datagram, and in  *)
(* front of the list it takes nothing from the others.                     *)
LEMMA NewListed ==
    ASSUME IInv, NEW g \in Datagram, NEW s, ListInv(s), NotListed(s, Key[g])
    PROVE  LET r == <<NewFragment(Key[g])>> \o s
           IN  /\ 1 \in DOMAIN r /\ ListBut(r, 1) /\ PartOf(r[1], g)
               /\ Len(r) = Len(s) + 1
               /\ \A k \in DOMAIN s : k + 1 \in DOMAIN r /\ r[k + 1] = s[k]
<1> DEFINE f == NewFragment(Key[g])
           r == <<f>> \o s
<1>1. f \in Fragment /\ f.key = Key[g] /\ PartOf(f, g)
  BY BoundAssumption, DatagramAssumption, SMTT(60)
  DEF NewFragment, Fragment, PartOf, Blank, Data, IInv, TypeOK
<1> HIDE DEF f
<1>2. \A j \in DOMAIN s : s[j].key # f.key
  BY <1>1, ZenonT(60) DEF NotListed, Matches
<1>3. ListBut(r, 1) /\ 1 \in DOMAIN r /\ r[1] = f /\ Len(r) = Len(s) + 1
  BY <1>1, <1>2, ConsList, ZenonT(60)
<1>4. s \in Seq(Fragment)
  BY ZenonT(60) DEF ListInv
<1>5. \A k \in DOMAIN s : k + 1 \in DOMAIN r /\ r[k + 1] = s[k]
  BY <1>1, <1>4, SMTT(60)
<1> HIDE DEF r
<1> QED
  BY <1>1, <1>3, <1>5, ZenonT(60) DEF f, r

(* What has arrived of a datagram is lost only when its object, or one in  *)
(* front of it in the list, has expired: no piece and no completed         *)
(* datagram costs another one anything.                                    *)
THEOREM PartsStay == Spec => PartsKept
<1>1. IInv /\ [Next]_vars => [PartsKeptStep]_vars
  <2> SUFFICES ASSUME IInv, Next, NEW k \in DOMAIN fragments,
                      \A j \in 1 .. k : ~Expired(fragments[j])
               PROVE  \/ KeptIn(fragments[k], fragments')
                      \/ \E d \in Dev :
                           /\ rx[d] = Idle
                           /\ rx'[d].pc = "owner"
                           /\ rx'[d].pay.key = fragments[k].key
    BY ZenonT(60) DEF PartsKeptStep, KeptIn
  <2>4. /\ fragments \in Seq(Fragment) /\ Len(fragments) \in Nat
        /\ k \in 1 .. Len(fragments) /\ ~Expired(fragments[k])
    BY SMTT(60) DEF IInv, ListInv
  <2>1. ASSUME fragments' = fragments PROVE KeptIn(fragments[k], fragments')
    BY <2>1, SameKept, ZenonT(60)
  <2>2. ASSUME NEW d \in Dev, Arrives(d), fragments' # fragments
        PROVE  \/ KeptIn(fragments[k], fragments')
               \/ /\ rx[d] = Idle
                  /\ rx'[d].pc = "owner"
                  /\ rx'[d].pay.key = fragments[k].key
    <3> DEFINE s == ip_fragment_patrol(fragments)
    <3>1. PICK g \in Datagram, off \in Unit, n \in 1 .. MaxUnits,
               df \in BOOLEAN :
            off + n <= Size[g] /\ ip_rx(d, g, off, n, df)
      BY <2>2, ZenonT(60) DEF Arrives
    <3>2. k \in DOMAIN s /\ s[k] = fragments[k] /\ ListInv(s)
      BY <2>4, PatrolKeeps, PatrolList, ZenonT(60) DEF IInv
    <3>3. rx[d] = Idle
      BY <3>1, ZenonT(60) DEF ip_rx
    <3> HIDE DEF s
    <3>4. CASE fragments' = s
      BY <3>2, <3>4, SameKept, ZenonT(60)
    <3>5. CASE RxKnown(d, g, off, n, df)
      <4>1. PICK i \in DOMAIN s : /\ s[i].key = Key[g]
                                  /\ StoreIn(d, s, i, count, g, off, n)
        BY <3>5, ZenonT(60) DEF RxKnown, FirstListed, Matches, s
      <4>2. ListBut(s, i) /\ PartOf(s[i], g)
        BY <3>2, <4>1, ListedPartOf, ZenonT(60)
      <4>3. \/ KeptIn(s[k], fragments')
            \/ rx'[d].pc = "owner" /\ rx'[d].pay.key = s[k].key
        BY <3>1, <3>2, <4>1, <4>2, StoreInKeeps, SMTT(60)
      <4> QED
        BY <3>2, <3>3, <4>3, ZenonT(60)
    <3>6. CASE RxNew(d, g, off, n, df)
      <4> DEFINE r == <<NewFragment(Key[g])>> \o s
      <4>1. NotListed(s, Key[g]) /\ StoreIn(d, r, 1, count + 1, g, off, n)
        BY <3>6, ZenonT(60) DEF RxNew, s
      <4>2. /\ 1 \in DOMAIN r /\ ListBut(r, 1) /\ PartOf(r[1], g)
            /\ k + 1 \in DOMAIN r /\ r[k + 1] = s[k]
        BY <3>2, <4>1, NewListed, ZenonT(60)
      <4> HIDE DEF r
      <4>3. \/ KeptIn(r[k + 1], fragments')
            \/ rx'[d].pc = "owner" /\ rx'[d].pay.key = r[k + 1].key
        BY <3>1, <4>1, <4>2, StoreInKeeps, SMTT(60)
      <4> QED
        BY <3>2, <3>3, <4>2, <4>3, ZenonT(60)
    <3>7. CASE RxCorrupt(d, g, off, n, df)
      <4>1. PICK i \in 1 .. Len(fragments) - 1 :
              /\ Expired(fragments[i])
              /\ fragments' = [j \in 1 .. i - 1 |-> fragments[j]]
        BY <3>7, ZenonT(60) DEF RxCorrupt
      <4>2. i \notin 1 .. k
        BY <4>1, ZenonT(60)
      <4>3. k \in 1 .. i - 1
        BY <2>4, <4>2, SMTT(60)
      <4>4. k \in DOMAIN fragments' /\ fragments'[k] = fragments[k]
        BY <4>1, <4>3, ZenonT(60)
      <4> QED
        BY <4>4, SameKept, ZenonT(60)
    <3> QED
      BY <2>2, <3>1, <3>4, <3>5, <3>6, <3>7, ZenonT(60)
      DEF ip_rx, RxDirect, RxRefused, RxAborts, s
  <2>3. Tick \/ (\E d \in Dev : Deliver(d)) => fragments' = fragments
    BY ZenonT(60) DEF Tick, Deliver
  <2> QED
    BY <2>1, <2>2, <2>3, ZenonT(60) DEF Next
<1> QED
  BY <1>1, Invariance, PTL DEF Spec, PartsKept

-----------------------------------------------------------------------------
(* When the limit on partial datagrams is exact.  RefusedOnlyWhenFull and  *)
(* PatrolFreesExpiredOnly fail in the code; both need an expired object.   *)

(* Nothing in the list has expired.                                        *)
NoneExpired == \A i \in DOMAIN fragments : ~Expired(fragments[i])

(* count is the length of the list, and no freed memory was used.          *)
CountExact == count = Len(fragments) /\ status # "corrupt"

(* Storing a piece counts as many objects as it leaves in the list.        *)
LEMMA StoreInCounts ==
    ASSUME NEW d, NEW g, NEW off, NEW n, NEW s \in Seq(Fragment),
           NEW i \in DOMAIN s, StoreIn(d, s, i, Len(s), g, off, n)
    PROVE  count' = Len(fragments')
<1> DEFINE f == Stored(s[i], g, off, n)
<1>1. Len(s) \in Nat /\ DOMAIN s = 1 .. Len(s) /\ i \in 1 .. Len(s)
  BY SMTT(60)
<1> HIDE DEF f
<1>2. CASE fragments' = [s EXCEPT ![i] = f] /\ count' = Len(s)
  <2>1. fragments' = [j \in 1 .. Len(s) |-> IF j = i THEN f ELSE s[j]]
    BY <1>1, <1>2, ZenonT(60)
  <2>2. Len(fragments') = Len(s)
    BY <1>1, <2>1, SMTT(60)
  <2> QED
    BY <1>2, <2>2, ZenonT(60)
<1>3. CASE fragments' = ip_fragment_detach(s, i) /\ count' = CountAfter(Len(s))
  <2>1. Len(fragments') = Len(s) - 1
    BY <1>1, <1>3, SMTT(60) DEF ip_fragment_detach
  <2> QED
    BY <1>3, <2>1, SMTT(60) DEF CountAfter
<1> QED
  BY <1>2, <1>3, ZenonT(60) DEF StoreIn, f

(* While nothing expires, every step keeps the count exact.                *)
LEMMA CountStep == IInv /\ NoneExpired /\ CountExact /\ [Next]_vars => CountExact'
<1> SUFFICES ASSUME IInv, NoneExpired, CountExact, [Next]_vars
             PROVE  CountExact'
  BY ZenonT(60)
<1>1. fragments \in Seq(Fragment) /\ ListInv(fragments)
  BY ZenonT(60) DEF IInv, ListInv
<1>2. Len(fragments) \in Nat /\ DOMAIN fragments = 1 .. Len(fragments)
  BY <1>1, SMTT(60)
<1>3. PatrolHarmless(fragments)
  BY <1>2, SMTT(60) DEF PatrolHarmless, NoneExpired
<1>4. ip_fragment_patrol(fragments) = fragments
  <2>1. ~(Len(fragments) > 0 /\ Expired(fragments[Len(fragments)]))
    BY <1>2, SMTT(60) DEF NoneExpired
  <2> QED
    BY <2>1, ZenonT(60) DEF ip_fragment_patrol
<1>5. ASSUME UNCHANGED <<fragments, count>>, status' # "corrupt"
      PROVE  CountExact'
  BY <1>5, ZenonT(60) DEF CountExact
<1>6. ASSUME NEW d \in Dev, Arrives(d) PROVE CountExact'
  <2>1. PICK g \in Datagram, off \in Unit, n \in 1 .. MaxUnits, df \in BOOLEAN :
          ip_rx(d, g, off, n, df)
    BY <1>6, ZenonT(60) DEF Arrives
  <2>2. CASE RxDirect(d, g, off, n, df)
    BY <1>5, <2>2, ZenonT(60) DEF RxDirect, CountExact
  <2>3. CASE RxCorrupt(d, g, off, n, df)
    BY <1>3, <2>3, ZenonT(60) DEF RxCorrupt, PatrolHarmless
  <2>4. CASE RxRefused(d, g, off, n, df)
    BY <1>4, <1>5, <2>4, ZenonT(60) DEF RxRefused, CountExact
  <2>5. CASE RxAborts(d, g, off, n, df)
    <3>1. /\ fragments' = ip_fragment_patrol(fragments) /\ count' = count
          /\ status' = "aborted"
      BY <2>5, ZenonT(60) DEF RxAborts
    <3>2. status' # "corrupt"
      BY <3>1, SMTT(60)
    <3> QED
      BY <1>4, <1>5, <3>1, <3>2, ZenonT(60)
  <2>6. CASE RxKnown(d, g, off, n, df)
    <3>1. PICK i \in DOMAIN fragments :
            StoreIn(d, fragments, i, count, g, off, n)
      BY <1>4, <2>6, ZenonT(60) DEF RxKnown
    <3>2. count' = Len(fragments')
      BY <1>1, <3>1, StoreInCounts, ZenonT(60) DEF CountExact
    <3> QED
      BY <2>6, <3>2, ZenonT(60) DEF RxKnown, CountExact
  <2>7. CASE RxNew(d, g, off, n, df)
    <3> DEFINE r == <<NewFragment(Key[g])>> \o fragments
    <3>1. /\ NotListed(fragments, Key[g])
          /\ StoreIn(d, r, 1, count + 1, g, off, n)
      BY <1>4, <2>7, ZenonT(60) DEF RxNew
    <3>2. 1 \in DOMAIN r /\ ListBut(r, 1) /\ Len(r) = Len(fragments) + 1
      BY <1>1, <3>1, NewListed, ZenonT(60)
    <3> HIDE DEF r
    <3>3. r \in Seq(Fragment) /\ count + 1 = Len(r)
      BY <3>2, ZenonT(60) DEF ListBut, CountExact
    <3>4. count' = Len(fragments')
      BY <3>1, <3>2, <3>3, StoreInCounts, ZenonT(60)
    <3> QED
      BY <2>7, <3>4, ZenonT(60) DEF RxNew, CountExact
  <2> QED
    BY <2>1, <2>2, <2>3, <2>4, <2>5, <2>6, <2>7, ZenonT(60) DEF ip_rx
<1>7. ASSUME NEW d \in Dev, Deliver(d) PROVE CountExact'
  <2>1. UNCHANGED <<fragments, count>> /\ status' \in {"run", "aborted"}
    BY <1>7, ZenonT(60) DEF Deliver
  <2>2. status' # "corrupt"
    BY <2>1, SMTT(60)
  <2> QED
    BY <1>5, <2>1, <2>2, ZenonT(60)
<1>8. Tick \/ UNCHANGED vars => UNCHANGED <<fragments, count, status>>
  BY ZenonT(60) DEF Tick, vars
<1> QED
  BY <1>5, <1>6, <1>7, <1>8, ZenonT(60) DEF Next, CountExact

(* As long as no object of the list expires, ip_fragment_process refuses a *)
(* datagram for want of room only when IP_FRAGMENT_NUM_MAX of them are     *)
(* being reassembled, and the patrol frees nothing that is still in use:   *)
(* the leak of count and the wrong free have no other cause.               *)
THEOREM LimitExact ==
    Spec /\ []NoneExpired => [](RefusedOnlyWhenFull /\ PatrolFreesExpiredOnly)
<1>1. Init => CountExact
  <2> SUFFICES ASSUME Init PROVE CountExact
    BY ZenonT(60)
  <2>1. Len(fragments) = 0 /\ count = 0 /\ status = "run"
    BY SMTT(60) DEF Init
  <2> QED
    BY <2>1, SMTT(60) DEF CountExact
<1>2. CountExact => RefusedOnlyWhenFull /\ PatrolFreesExpiredOnly
  BY ZenonT(60) DEF CountExact, RefusedOnlyWhenFull, PatrolFreesExpiredOnly
<1> QED
  BY <1>1, <1>2, CountStep, Invariance, PTL DEF Spec

(* What has arrived is in the list still, or a thread goes on with it.     *)
NothingLostStep ==
    \A i \in DOMAIN fragments :
        \/ KeptIn(fragments[i], fragments')
        \/ \E d \in Dev :
             /\ rx[d] = Idle
             /\ rx'[d].pc = "owner" /\ rx'[d].pay.key = fragments[i].key

(* As long as no object of the list expires, nothing that has arrived of   *)
(* any datagram is lost before the datagram is complete.                   *)
THEOREM NothingLost == Spec /\ []NoneExpired => [][NothingLostStep]_vars
<1>1. IInv /\ NoneExpired /\ [PartsKeptStep]_vars => [NothingLostStep]_vars
  <2> SUFFICES ASSUME IInv, NoneExpired, PartsKeptStep,
                      NEW i \in DOMAIN fragments
               PROVE  \/ KeptIn(fragments[i], fragments')
                      \/ \E d \in Dev :
                           /\ rx[d] = Idle
                           /\ rx'[d].pc = "owner"
                           /\ rx'[d].pay.key = fragments[i].key
    BY ZenonT(60) DEF NothingLostStep
  <2>1. \A j \in 1 .. i : j \in DOMAIN fragments
    BY SMTT(60) DEF IInv, ListInv
  <2> QED
    BY <2>1, ZenonT(60) DEF PartsKeptStep, NoneExpired, KeptIn
<1> QED
  BY <1>1, Invariance, PartsStay, PTL DEF PartsKept

===============================================================================
