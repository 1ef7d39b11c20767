----------------------------- MODULE ArpRxProofs ----------------------------
(***************************************************************************)
(* The inductive invariant of Arp, and that the initial states and both    *)
(* halves of arp_rx satisfy it, for every table size, number of threads,   *)
(* set of packets and set of announced bindings.                           *)
(***************************************************************************)
EXTENDS Arp, FiniteSetTheorems, TLAPS

(* What arp_rx carries from its first critical section to its second was   *)
(* announced by a station.                                                 *)
RxAnnounced ==
    \A d \in Dev : rx[d].pc = "learn" => <<rx[d].spa, rx[d].sha>> \in Announce

(* The table's part of the inductive invariant.                            *)
TableInv ==
    /\ FreeEntriesBlank
    /\ HeldPacketPending
    /\ TableAnnounced
    /\ OneQueryPerAddress

(* The inductive invariant.                                                *)
IInv ==
    /\ TypeOK
    /\ RxAnnounced
    /\ TableInv
    /\ HeldExactlyOnce
    /\ WaitersOwnPackets
    /\ SentExactlyOnce
    /\ SentToAnnounced

-----------------------------------------------------------------------------
(* The entries that arp.c's table operations write, field by field.        *)

(* The fields of a blank entry, and its type.                              *)
LEMMA BlankFields ==
    /\ BlankEntry \in Entry
    /\ ~BlankEntry.used /\ BlankEntry.ha = AnyHA /\ BlankEntry.data = NoData
BY AddressAssumption, PacketAssumption, SMTT(60) DEF BlankEntry, Entry, AnyHA

(* What arp_entry_clear leaves is an entry.                                *)
LEMMA ClearType == \A e : arp_entry_clear(e) \in Entry
BY BlankFields, SMTT(60) DEF arp_entry_clear

(* The fields of an entry that arp_table_insert filled in.                 *)
LEMMA InsertedFields ==
    ASSUME now \in Nat, NEW e \in Entry, NEW pa \in PA, NEW ha \in HA
    PROVE  LET f == Inserted(e, pa, ha)
           IN  /\ f \in Entry
               /\ f.used /\ f.pa = pa /\ f.ha = ha
               /\ f.data = e.data /\ f.netif = e.netif
BY ZenonT(60) DEF Inserted, Entry

(* The fields of an entry that arp_table_update resolved.                  *)
LEMMA UpdatedFields ==
    ASSUME now \in Nat, NEW e \in Entry, NEW ha \in HA
    PROVE  LET f == Updated(e, ha)
           IN  /\ f \in Entry
               /\ f.used = e.used /\ f.pa = e.pa /\ f.ha = ha
               /\ f.data = NoData /\ f.netif = e.netif
BY ZenonT(60) DEF Updated, Entry

(* The fields of an entry that arp_resolve made for a packet.              *)
LEMMA QueriedFields ==
    ASSUME now \in Nat, NEW e \in Entry, NEW p \in Packet
    PROVE  LET f == Queried(e, p)
           IN  /\ f \in Entry
               /\ f.used /\ f.pa = Dst[p] /\ f.ha = e.ha
               /\ f.data = p /\ f.netif = Via[p]
BY PacketAssumption, ZenonT(60) DEF Queried, Entry

(* A set of numbers that is not empty has a least one.                     *)
LEMMA LeastNumber ==
    ASSUME NEW T, T \subseteq Nat, T # {}
    PROVE  \E x \in T : \A y \in T : x <= y
<1> DEFINE R == {ss \in Nat \X Nat : ss[1] < ss[2]}
<1>1. IsWellFoundedOn(R, Nat)
  BY NatLessThanWellFounded, ZenonT(60) DEF OpToRel
<1> HIDE DEF R
<1>2. PICK x \in T : \A y \in T : <<y, x>> \notin R
  BY <1>1, WFMin, ZenonT(60)
<1>3. ASSUME NEW y \in T, y < x PROVE FALSE
  <2>1. <<y, x>> \in Nat \X Nat /\ <<y, x>>[1] = y /\ <<y, x>>[2] = x
    BY ZenonT(60)
  <2>2. <<y, x>> \in R
    BY <1>3, <2>1, ZenonT(60) DEF R
  <2> QED
    BY <1>2, <2>2, ZenonT(60)
<1> QED
  BY <1>2, <1>3, SMTT(60)

(* arp_table_select finds an entry whenever the address has one.           *)
LEMMA SelectFinds ==
    ASSUME NEW t, NEW pa, ~NotInTable(t, pa)
    PROVE  \E i \in Slot : arp_table_select(t, pa, i)
<1> DEFINE T == {i \in Slot : t[i].used /\ t[i].pa = pa}
<1>1. T # {} /\ T \subseteq Nat
  BY TimingAssumption, SMTT(60) DEF NotInTable, Slot
<1>2. PICK i \in T : \A j \in T : i <= j
  BY <1>1, LeastNumber, ZenonT(60)
<1>3. \A j \in Slot : j < i => j \notin T
  BY <1>2, TimingAssumption, SMTT(60) DEF Slot
<1> QED
  BY <1>2, <1>3, ZenonT(60) DEF arp_table_select

(* A broadcast only turns waiting callers into signalled ones.             *)
LEMMA BroadcastEffect ==
    ASSUME TypeOK, NEW S
    PROVE  /\ Broadcast(S) \in [Caller -> ClState]
           /\ \A c \in Caller :
                /\ Broadcast(S)[c].pc = "idle" <=> cl[c].pc = "idle"
                /\ Broadcast(S)[c].slot = cl[c].slot
                /\ Broadcast(S)[c].pkt = cl[c].pkt
BY SMTT(60) DEF TypeOK, Broadcast, ClState

-----------------------------------------------------------------------------
(* The invariant holds after arp_init.                                     *)
LEMMA InitInv == Init => IInv
<1> SUFFICES ASSUME Init PROVE IInv
  BY SMTT(60)
<1>1. /\ \A i \in Slot : table[i] = BlankEntry
      /\ \A d \in Dev : rx[d] = IdleRx
      /\ \A c \in Caller : cl[c] = IdleCl
      /\ \A p \in Packet : fate[p] = "new"
  BY SMTT(60) DEF Init
<1>2. IdleRx \in RxState /\ IdleRx.pc = "idle"
  BY AddressAssumption, SMTT(60) DEF IdleRx, RxState, Op
<1>3. IdleCl \in ClState /\ IdleCl.pc = "idle"
  BY TimingAssumption, SMTT(60) DEF IdleCl, ClState
<1>4. TypeOK
  BY <1>2, <1>3, BlankFields, SMTT(60) DEF Init, TypeOK, Fate
<1>5. RxAnnounced
  BY <1>1, <1>2, ZenonT(60) DEF RxAnnounced
<1>6. TableInv
  BY <1>1, BlankFields, SMTT(60)
  DEF TableInv, FreeEntriesBlank, HeldPacketPending, TableAnnounced,
      OneQueryPerAddress
<1>7. HeldExactlyOnce
  BY <1>1, BlankFields, SMTT(60) DEF HeldExactlyOnce
<1>8. WaitersOwnPackets
  BY <1>1, <1>3, SMTT(60) DEF WaitersOwnPackets
<1>9. SentExactlyOnce /\ SentToAnnounced
  BY <1>1, SMTT(60) DEF Init, SentExactlyOnce, SentToAnnounced
<1> QED
  BY <1>4, <1>5, <1>6, <1>7, <1>8, <1>9, SMTT(60) DEF IInv

(* What the first half of arp_rx does to each entry: the one updated (hit) *)
(* was in use for the sender's address and did not expire; those swept     *)
(* become blank; the others stay.                                          *)
RxEffect(d, spa, sha, ours, op, swept, hit) ==
    /\ swept \cap hit = {}
    /\ \A i, j \in hit : i = j
    /\ \A i \in swept : table[i].used /\ table'[i] = BlankEntry
    /\ \A i \in hit : /\ table[i].used /\ table[i].pa = spa
                      /\ table'[i] = Updated(table[i], sha)
    /\ \A i \in Slot \ (swept \cup hit) : table'[i] = table[i]
    /\ table' \in [Slot -> Entry]
    /\ cl' = Broadcast(swept \cup hit)
    /\ frames' = frames \cup
         {Frame(table[i].data, sha, table[i].netif, "table") :
            i \in {k \in hit : table[k].data # NoData}}
    /\ fate' = [p \in Packet |->
         IF \E i \in swept : table[i].data = p THEN "dropped"
         ELSE IF \E i \in hit : table[i].data = p THEN "sent"
         ELSE fate[p]]
    /\ UNCHANGED now
    /\ timestamp' \in {timestamp, now}
    /\ \E m \in BOOLEAN :
         /\ m \/ hit = {}
         /\ rx' = [rx EXCEPT ![d] =
              IF ~ours THEN IdleRx
              ELSE [pc |-> "learn", spa |-> spa, sha |-> sha, op |-> op,
                    merge |-> m]]
    /\ hit = {} => \A i \in Slot : ~(table'[i].used /\ table'[i].pa = spa)
    /\ rx[d].pc = "idle"
    /\ arpOut' = {}

(* What the first half of arp_rx does to each slot, packet and frame.      *)
LEMMA ArpRxEffect ==
    ASSUME IInv, NEW d \in Dev, NEW spa \in PA, NEW sha \in HA,
           NEW ours \in BOOLEAN, NEW op \in Op, ArpRx(d, spa, sha, ours, op)
    PROVE  \E swept, hit \in SUBSET Slot :
               RxEffect(d, spa, sha, ours, op, swept, hit)
<1> DEFINE swept == Swept
           t == [i \in Slot |-> IF i \in swept THEN arp_entry_clear(table[i])
                                ELSE table[i]]
           hit == {i \in Slot : arp_table_select(t, spa, i)}
           out == {i \in hit : t[i].data # NoData}
<1>1. swept \subseteq Slot /\ \A i \in swept : table[i].used
  BY SMTT(60) DEF Swept, Expired
<1>2. \A i \in Slot : t[i] = IF i \in swept THEN BlankEntry ELSE table[i]
  BY SMTT(60) DEF arp_entry_clear
<1> HIDE DEF swept
<1>3. \A i \in hit : /\ i \in Slot /\ i \notin swept /\ t[i] = table[i]
                     /\ table[i].used /\ table[i].pa = spa
  BY <1>2, BlankFields, ZenonT(60) DEF arp_table_select
<1>4. \A i, j \in hit : i = j
  <2> SUFFICES ASSUME NEW i \in hit, NEW j \in hit, i # j PROVE FALSE
    BY SMTT(60)
  <2>1. i < j \/ j < i
    BY TimingAssumption, SMTT(60) DEF Slot
  <2> QED
    BY <2>1, SMTT(60) DEF arp_table_select
<1>5. /\ table' = [i \in Slot |-> IF i \in hit THEN Updated(t[i], sha)
                                 ELSE t[i]]
      /\ cl' = Broadcast(swept \cup hit)
      /\ frames' = frames \cup
           {Frame(t[i].data, sha, OutDev(t[i], d), "table") : i \in out}
      /\ fate' = [p \in Packet |->
           IF \E i \in swept : table[i].data = p THEN "dropped"
           ELSE IF \E i \in out : t[i].data = p THEN "sent"
           ELSE fate[p]]
      /\ rx' = [rx EXCEPT ![d] =
           IF ~ours THEN IdleRx
           ELSE [pc |-> "learn", spa |-> spa, sha |-> sha, op |-> op,
                 merge |-> hit # {}]]
      /\ UNCHANGED now /\ arpOut' = {}
      /\ timestamp' \in {timestamp, now}
      /\ rx[d].pc = "idle"
  BY ZenonT(60) DEF ArpRx, swept
<1>5a. ASSUME hit = {}, NEW i \in Slot PROVE ~(t[i].used /\ t[i].pa = spa)
  BY <1>5a, SelectFinds, ZenonT(60) DEF NotInTable
<1> HIDE DEF t, hit
<1>6. \A i \in hit : Updated(t[i], sha) = Updated(table[i], sha)
  BY <1>3, ZenonT(60)
<1>7. table' \in [Slot -> Entry]
  <2>1. \A i \in Slot : t[i] \in Entry
    BY <1>2, BlankFields, ZenonT(60) DEF IInv, TypeOK
  <2>2. \A i \in Slot : Updated(t[i], sha) \in Entry
    BY <2>1, UpdatedFields, ZenonT(60) DEF IInv, TypeOK
  <2> QED
    BY <2>1, <2>2, <1>5, ZenonT(60)
<1>8. /\ swept \cap hit = {}
      /\ \A i \in swept : table'[i] = BlankEntry
      /\ \A i \in hit : table'[i] = Updated(table[i], sha)
      /\ \A i \in Slot \ (swept \cup hit) : table'[i] = table[i]
  BY <1>1, <1>2, <1>3, <1>5, <1>6, ZenonT(60)
<1>9. out = {k \in hit : table[k].data # NoData}
  BY <1>3, ZenonT(60)
<1>10. frames' = frames \cup
         {Frame(table[i].data, sha, table[i].netif, "table") : i \in out}
  BY <1>3, <1>5, ZenonT(60) DEF OutDev
<1>11. fate' = [p \in Packet |->
          IF \E i \in swept : table[i].data = p THEN "dropped"
          ELSE IF \E i \in hit : table[i].data = p THEN "sent"
          ELSE fate[p]]
  <2>1. \A p \in Packet : (\E i \in out : t[i].data = p)
                            <=> (\E i \in hit : table[i].data = p)
    BY <1>3, PacketAssumption, ZenonT(60)
  <2> QED
    BY <2>1, <1>5, ZenonT(60)
<1>12. hit \subseteq Slot /\ (hit # {}) \in BOOLEAN
  BY <1>3, SMTT(60)
<1>12a. hit = {} => \A i \in Slot : ~(table'[i].used /\ table'[i].pa = spa)
  BY <1>5, <1>5a, ZenonT(60)
<1> HIDE DEF out
<1>13. RxEffect(d, spa, sha, ours, op, swept, hit)
  BY <1>1, <1>3, <1>4, <1>5, <1>7, <1>8, <1>9, <1>10, <1>11, <1>12,
     <1>12a, ZenonT(60)
  DEF RxEffect
<1> QED
  BY <1>1, <1>12, <1>13, SMTT(60)

-----------------------------------------------------------------------------
(* Each action preserves the inductive invariant.                          *)

(* The first half of arp_rx (patrol and update) keeps the invariant.       *)
LEMMA ReceiveInv ==
    ASSUME IInv, NEW d \in Dev, Receive(d)
    PROVE  IInv'
<1>1. PICK b \in Announce, ours \in BOOLEAN, op \in Op :
        ArpRx(d, b[1], b[2], ours, op)
  BY ZenonT(60) DEF Receive, Op
<1> DEFINE spa == b[1]
           sha == b[2]
<1>2. spa \in PA /\ sha \in HA /\ <<spa, sha>> = b /\ sha # AnyHA
  BY AddressAssumption, SMTT(60) DEF AnyHA
<1> HIDE DEF spa, sha
<1>3. ArpRx(d, spa, sha, ours, op)
  BY <1>1, SMTT(60) DEF spa, sha
<1>4. PICK swept, hit \in SUBSET Slot :
        RxEffect(d, spa, sha, ours, op, swept, hit)
  BY <1>2, <1>3, ArpRxEffect, ZenonT(60)
<1> USE DEF RxEffect
<1>5. \A i \in hit : /\ table'[i].used /\ table'[i].pa = spa
                     /\ table'[i].ha = sha /\ table'[i].data = NoData
  BY <1>2, <1>4, UpdatedFields, SMTT(60) DEF IInv, TypeOK
<1>6. \A i \in Slot : \/ i \in hit
                      \/ table'[i] = BlankEntry
                      \/ table'[i] = table[i]
  BY <1>4, ZenonT(60)
<1>7. cl' \in [Caller -> ClState] /\ \A c \in Caller :
        /\ cl'[c].pc = "idle" <=> cl[c].pc = "idle"
        /\ cl'[c].slot = cl[c].slot
        /\ cl'[c].pkt = cl[c].pkt
  BY <1>4, BroadcastEffect, SMTT(60) DEF IInv
<1>8. \A i \in Slot : table[i].data # NoData =>
        /\ table[i].data \in Packet /\ fate[table[i].data] = "held"
        /\ table[i].netif = Via[table[i].data]
        /\ table[i].pa = Dst[table[i].data]
  BY SMTT(60)
  DEF IInv, TypeOK, Entry, HeldExactlyOnce, TableInv, HeldPacketPending
<1>9. TypeOK'
  <2>1. fate' \in [Packet -> Fate]
    BY <1>4, ZenonT(60) DEF IInv, TypeOK, Fate
  <2>2. rx' \in [Dev -> RxState]
    BY <1>2, <1>4, AddressAssumption, SMTT(60)
    DEF IInv, TypeOK, RxState, IdleRx, Op
  <2>3. frames' \subseteq [pkt : Packet, to : HA \cup {AnyHA}, via : Dev,
                           by : {"table", "cache", "wait"}]
    BY <1>2, <1>4, <1>8, PacketAssumption, SMTT(60) DEF IInv, TypeOK, Frame
  <2>4. now' \in Nat /\ timestamp' \in Nat
    BY <1>4, ZenonT(60) DEF IInv, TypeOK
  <2> QED
    BY <1>4, <1>7, <2>1, <2>2, <2>3, <2>4, ZenonT(60) DEF TypeOK
<1>10. RxAnnounced'
  BY <1>2, <1>4, SMTT(60) DEF IInv, TypeOK, RxAnnounced, IdleRx
<1>11. TableInv'
  <2>1. FreeEntriesBlank'
    BY <1>5, <1>6, ZenonT(60) DEF IInv, TableInv, FreeEntriesBlank
  <2>2. HeldPacketPending'
    BY <1>5, <1>6, BlankFields, SMTT(60) DEF IInv, TableInv, HeldPacketPending
  <2>3. TableAnnounced'
    BY <1>2, <1>5, <1>6, BlankFields, ZenonT(60)
    DEF IInv, TableInv, TableAnnounced
  <2>4. OneQueryPerAddress'
    BY <1>2, <1>5, <1>6, BlankFields, SMTT(60)
    DEF IInv, TableInv, OneQueryPerAddress
  <2> QED
    BY <2>1, <2>2, <2>3, <2>4, ZenonT(60) DEF TableInv
<1>12. HeldExactlyOnce'
  <2>1. ASSUME NEW p \in Packet, fate'[p] = "held"
        PROVE  \E i \in Slot : table'[i].data = p
    <3>1. /\ fate[p] = "held" 
          /\ \A i \in swept \cup hit : table[i].data # p
      BY <1>4, <2>1, ZenonT(60)
    <3>2. PICK i \in Slot : table[i].data = p
      BY <3>1, ZenonT(60) DEF IInv, HeldExactlyOnce
    <3> QED
      BY <1>4, <3>1, <3>2, ZenonT(60)
  <2>2. ASSUME NEW i \in Slot, table'[i].data # NoData
        PROVE  table'[i] = table[i] /\ i \notin swept \cup hit
    BY <1>4, <1>5, <1>6, <2>2, BlankFields, ZenonT(60)
  <2>3. ASSUME NEW i \in Slot, table'[i].data # NoData
        PROVE  fate'[table'[i].data] = "held"
    <3>1. \A j \in swept \cup hit : table[j].data # table[i].data
      BY <2>2, <2>3, ZenonT(60) DEF IInv, HeldExactlyOnce
    <3> QED
      BY <1>4, <1>8, <2>2, <2>3, <3>1, SMTT(60)
  <2> QED
    BY <2>1, <2>2, <2>3, SMTT(60) DEF IInv, HeldExactlyOnce
<1>12a. ASSUME NEW p \in Packet, fate[p] # "held" PROVE fate'[p] = fate[p]
  <2>1. \A i \in Slot : table[i].data # p
    BY <1>8, <1>12a, PacketAssumption, ZenonT(60)
  <2> QED
    BY <1>4, <2>1, ZenonT(60)
<1>13. WaitersOwnPackets'
  <2>1. \A p \in Packet : fate[p] = "waiting" => fate'[p] = "waiting"
    BY <1>12a, ZenonT(60)
  <2> QED
    BY <1>7, <2>1, SMTT(60) DEF IInv, WaitersOwnPackets
<1>14. \A f \in frames' : f \in frames \/ \E i \in hit :
         /\ table[i].data \in Packet
         /\ f = Frame(table[i].data, sha, table[i].netif, "table")
  <2>1. frames' = frames \cup
          {Frame(table[i].data, sha, table[i].netif, "table") :
             i \in {k \in hit : table[k].data # NoData}}
    BY <1>4, ZenonT(60)
  <2>2. hit \subseteq Slot
    BY <1>4, ZenonT(60)
  <2> QED
    BY <1>8, <2>1, <2>2, ZenonT(60)
<1>15. SentExactlyOnce'
  <2>1. \A f \in frames : fate[f.pkt] = "sent" /\ f.pkt \in Packet
    BY ZenonT(60) DEF IInv, TypeOK, SentExactlyOnce
  <2>2. ASSUME NEW f \in frames', NEW g \in frames', f.pkt = g.pkt
        PROVE  f = g
    <3>1. ASSUME NEW h \in frames', h \notin frames
          PROVE  \E i \in hit : /\ table[i].data = h.pkt /\ h.pkt \in Packet
                                /\ h = Frame(h.pkt, sha, table[i].netif, "table")
      BY <1>14, <3>1, SMTT(60) DEF Frame
    <3>2. \A h \in frames' : h \notin frames => fate[h.pkt] = "held"
      BY <1>8, <3>1, PacketAssumption, SMTT(60)
    <3>3. CASE f \in frames /\ g \in frames
      BY <2>2, <3>3, ZenonT(60) DEF IInv, SentExactlyOnce
    <3>4. f \in frames <=> g \in frames
      BY <2>1, <2>2, <3>2, ZenonT(60)
    <3>5. CASE f \notin frames /\ g \notin frames
      <4>1. PICK i \in hit : /\ table[i].data = f.pkt /\ f.pkt \in Packet
                             /\ f = Frame(f.pkt, sha, table[i].netif, "table")
        BY <3>1, <3>5, ZenonT(60)
      <4>2. PICK j \in hit : /\ table[j].data = g.pkt
                             /\ g = Frame(g.pkt, sha, table[j].netif, "table")
        BY <3>1, <3>5, ZenonT(60)
      <4>3. i = j
        BY <1>8, <2>2, <4>1, <4>2, PacketAssumption, SMTT(60)
        DEF IInv, HeldExactlyOnce
      <4> QED
        BY <2>2, <4>1, <4>2, <4>3, ZenonT(60)
    <3> QED
      BY <3>3, <3>4, <3>5, ZenonT(60)
  <2>3. ASSUME NEW f \in frames' PROVE fate'[f.pkt] = "sent"
    <3>1. CASE f \in frames
      BY <1>12a, <2>1, <3>1, ZenonT(60)
    <3>2. CASE f \notin frames
      <4>1. PICK i \in hit :
              /\ table[i].data \in Packet
              /\ f = Frame(table[i].data, sha, table[i].netif, "table")
        BY <1>14, <3>2, ZenonT(60)
      <4>2. \A j \in swept : table[j].data # table[i].data
        BY <1>4, <4>1, PacketAssumption, SMTT(60) DEF IInv, HeldExactlyOnce
      <4> QED
        BY <1>4, <4>1, <4>2, ZenonT(60) DEF Frame
    <3> QED
      BY <3>1, <3>2, ZenonT(60)
  <2>4. ASSUME NEW p \in Packet, fate'[p] = "sent"
        PROVE  \E f \in frames' : f.pkt = p
    <3>1. CASE \E i \in hit : table[i].data = p
      <4>1. PICK i \in hit : table[i].data = p
        BY <3>1, ZenonT(60)
      <4>2. Frame(p, sha, table[i].netif, "table") \in frames'
        BY <1>4, <4>1, PacketAssumption, ZenonT(60)
      <4> QED
        BY <4>2, ZenonT(60) DEF Frame
    <3>2. CASE fate[p] = "sent"
      BY <1>4, <3>2, ZenonT(60) DEF IInv, SentExactlyOnce
    <3> QED
      BY <1>4, <2>4, <3>1, <3>2, ZenonT(60)
  <2> QED
    BY <2>2, <2>3, <2>4, ZenonT(60) DEF SentExactlyOnce
<1>16. SentToAnnounced'
  <2> SUFFICES ASSUME NEW f \in frames', f.by \in {"table", "cache"}
               PROVE  <<Dst[f.pkt], f.to>> \in Announce /\ f.via = Via[f.pkt]
    BY ZenonT(60) DEF SentToAnnounced
  <2>1. CASE f \in frames
    BY <2>1, ZenonT(60) DEF IInv, SentToAnnounced
  <2>2. CASE f \notin frames
    <3>1. PICK i \in hit :
            /\ table[i].data \in Packet
            /\ f = Frame(table[i].data, sha, table[i].netif, "table")
      BY <1>14, <2>2, ZenonT(60)
    <3>2. table[i].netif = Via[table[i].data] /\ Dst[table[i].data] = spa
      BY <1>4, <1>8, <3>1, PacketAssumption, ZenonT(60)
    <3>3. <<spa, sha>> \in Announce
      BY <1>2, SMTT(60)
    <3> QED
      BY <3>1, <3>2, <3>3, ZenonT(60) DEF Frame
  <2> QED
    BY <2>1, <2>2, ZenonT(60)
<1> QED
  BY <1>9, <1>10, <1>11, <1>12, <1>13, <1>15, <1>16, SMTT(60) DEF IInv

(* The second half of arp_rx (insert and reply) keeps the invariant.       *)
LEMMA ArpRxFinishInv ==
    ASSUME IInv, NEW d \in Dev, ArpRxFinish(d)
    PROVE  IInv'
<1>1. /\ rx[d].spa \in PA /\ rx[d].sha \in HA
      /\ <<rx[d].spa, rx[d].sha>> \in Announce
      /\ rx[d].sha # AnyHA
  BY AddressAssumption, ZenonT(60) DEF IInv, RxAnnounced, ArpRxFinish, AnyHA
<1>2. UNCHANGED <<now, timestamp, fate, frames>>
  BY ZenonT(60) DEF ArpRxFinish
<1>3. rx' \in [Dev -> RxState] /\ RxAnnounced'
  BY AddressAssumption, ZenonT(60)
  DEF ArpRxFinish, IInv, TypeOK, RxState, IdleRx, Op, RxAnnounced
<1>4. arpOut' \subseteq [via : Dev, op : Op, tpa : PA, tha : HA \cup {AnyHA}]
  BY <1>1, SMTT(60) DEF ArpRxFinish, arp_send_reply, Message, Op
<1>5. CASE UNCHANGED <<table, cl>>
  <2>1. TypeOK'
    BY <1>2, <1>3, <1>4, <1>5, ZenonT(60) DEF IInv, TypeOK
  <2>2. FreeEntriesBlank' /\ HeldPacketPending'
    BY <1>5, ZenonT(60) DEF IInv, TableInv, FreeEntriesBlank, HeldPacketPending
  <2>3. TableAnnounced'
    BY <1>5, ZenonT(60) DEF IInv, TableInv, TableAnnounced
  <2>4. OneQueryPerAddress'
    BY <1>5, ZenonT(60) DEF IInv, TableInv, OneQueryPerAddress
  <2>5. HeldExactlyOnce'
    BY <1>2, <1>5, ZenonT(60) DEF IInv, HeldExactlyOnce
  <2>6. WaitersOwnPackets'
    BY <1>2, <1>5, ZenonT(60) DEF IInv, WaitersOwnPackets
  <2>7. SentExactlyOnce' /\ SentToAnnounced'
    BY <1>2, ZenonT(60) DEF IInv, SentExactlyOnce, SentToAnnounced
  <2> QED
    BY <1>3, <2>1, <2>2, <2>3, <2>4, <2>5, <2>6, <2>7, ZenonT(60)
    DEF IInv, TableInv
<1>6. CASE ~UNCHANGED <<table, cl>>
  <2>1. PICK i \in Slot :
          /\ ~table[i].used
          /\ table' = [table EXCEPT ![i] =
                         Inserted(table[i], rx[d].spa, rx[d].sha)]
          /\ cl' = Broadcast({i})
    BY <1>6, ZenonT(60) DEF ArpRxFinish, arp_table_freespace
  <2>2. table[i] = BlankEntry
    BY <2>1, ZenonT(60) DEF IInv, TableInv, FreeEntriesBlank
  <2>3. /\ table' \in [Slot -> Entry]
        /\ table'[i].used /\ table'[i].pa = rx[d].spa
        /\ table'[i].ha = rx[d].sha /\ table'[i].data = NoData
        /\ \A j \in Slot \ {i} : table'[j] = table[j]
    <3>1. now \in Nat /\ table \in [Slot -> Entry] /\ table[i] \in Entry
      BY <2>1, ZenonT(60) DEF IInv, TypeOK
    <3>2. LET f == Inserted(table[i], rx[d].spa, rx[d].sha)
          IN  /\ f \in Entry /\ f.used /\ f.pa = rx[d].spa
              /\ f.ha = rx[d].sha /\ f.data = table[i].data
      BY <1>1, <3>1, InsertedFields, SMTT(60)
    <3>3. table[i].data = NoData
      BY <2>2, BlankFields, ZenonT(60)
    <3> QED
      BY <2>1, <3>1, <3>2, <3>3, ZenonT(60)
  <2>4. cl' \in [Caller -> ClState] /\ \A c \in Caller :
          /\ cl'[c].pc = "idle" <=> cl[c].pc = "idle"
          /\ cl'[c].slot = cl[c].slot
          /\ cl'[c].pkt = cl[c].pkt
    BY <2>1, BroadcastEffect, SMTT(60) DEF IInv
  <2>5. TypeOK'
    BY <1>2, <1>3, <1>4, <2>3, <2>4, ZenonT(60) DEF IInv, TypeOK
  <2>6. FreeEntriesBlank'
    BY <2>3, ZenonT(60) DEF IInv, TableInv, FreeEntriesBlank
  <2>7. HeldPacketPending'
    BY <2>3, SMTT(60) DEF IInv, TableInv, HeldPacketPending
  <2>8. TableAnnounced'
    BY <1>1, <2>3, ZenonT(60) DEF IInv, TableInv, TableAnnounced
  <2>9. OneQueryPerAddress'
    BY <1>1, <2>3, ZenonT(60) DEF IInv, TableInv, OneQueryPerAddress
  <2>10. HeldExactlyOnce'
    BY <1>2, <2>2, <2>3, BlankFields, PacketAssumption, SMTT(60)
    DEF IInv, HeldExactlyOnce
  <2>11. WaitersOwnPackets'
    BY <1>2, <2>4, SMTT(60) DEF IInv, WaitersOwnPackets
  <2>12. SentExactlyOnce' /\ SentToAnnounced'
    BY <1>2, SMTT(60) DEF IInv, SentExactlyOnce, SentToAnnounced
  <2> QED
    BY <1>3, <2>5, <2>6, <2>7, <2>8, <2>9, <2>10, <2>11, <2>12, ZenonT(60)
    DEF IInv, TableInv
<1> QED
  BY <1>5, <1>6, SMTT(60)

=============================================================================
