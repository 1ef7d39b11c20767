------------------------------ MODULE ArpProofs ------------------------------
(***************************************************************************)
(* The theorems about Arp: the steps of arp_resolve and of the clock keep  *)
(* the invariant of ArpRxProofs, and with arp_rx's they give the           *)
(* properties.                                                             *)
(***************************************************************************)
EXTENDS ArpRxProofs

(* A step that leaves the table, the packets' fates and the frames alone,  *)
(* and changes a caller only in how its wait ends.                         *)
LEMMA WaitStepInv ==
    ASSUME IInv, TypeOK',
           UNCHANGED <<table, rx, fate, frames>>,
           \A c \in Caller : /\ cl'[c].pc = "idle" <=> cl[c].pc = "idle"
                             /\ cl'[c].slot = cl[c].slot
                             /\ cl'[c].pkt = cl[c].pkt
    PROVE  IInv'
<1>1. RxAnnounced' /\ TableInv' /\ HeldExactlyOnce'
  BY SMTT(60)
  DEF IInv, RxAnnounced, TableInv, FreeEntriesBlank, HeldPacketPending,
      TableAnnounced, OneQueryPerAddress, HeldExactlyOnce
<1>2. WaitersOwnPackets'
  BY SMTT(60) DEF IInv, WaitersOwnPackets
<1>3. SentExactlyOnce' /\ SentToAnnounced'
  BY SMTT(60) DEF IInv, SentExactlyOnce, SentToAnnounced
<1> QED
  BY <1>1, <1>2, <1>3, ZenonT(60) DEF IInv

(* The end of a wait, by timeout or spuriously, keeps the invariant.       *)
LEMMA TimedOutInv ==
    ASSUME IInv, NEW c \in Caller, TimedOut(c) \/ SpuriousWakeup(c)
    PROVE  IInv'
<1>1. /\ cl[c].pc = "waiting"
      /\ \E r \in {"timedout", "signalled"} : cl' = [cl EXCEPT ![c].pc = r]
      /\ UNCHANGED <<now, timestamp, table, rx, fate, frames>>
      /\ arpOut' = {}
  BY SMTT(60) DEF TimedOut, SpuriousWakeup
<1>2. TypeOK'
  BY <1>1, SMTT(60) DEF IInv, TypeOK, ClState
<1>3. \A k \in Caller : /\ cl'[k].pc = "idle" <=> cl[k].pc = "idle"
                        /\ cl'[k].slot = cl[k].slot
                        /\ cl'[k].pkt = cl[k].pkt
  BY <1>1, SMTT(60) DEF IInv, TypeOK, ClState
<1> QED
  BY <1>1, <1>2, <1>3, WaitStepInv, SMTT(60)

(* The clock keeps the invariant.                                          *)
LEMMA TickInv == IInv /\ Tick => IInv'
<1> SUFFICES ASSUME IInv, Tick PROVE IInv'
  BY SMTT(60)
<1>1. TypeOK'
  BY SMTT(60) DEF IInv, TypeOK, Tick
<1> QED
  BY <1>1, WaitStepInv, SMTT(60) DEF Tick

(* A stuttering step keeps the invariant.                                  *)
LEMMA StutterInv == IInv /\ UNCHANGED vars => IInv'
<1> SUFFICES ASSUME IInv, UNCHANGED vars PROVE IInv'
  BY SMTT(60)
<1>1. TypeOK'
  BY SMTT(60) DEF IInv, TypeOK, vars
<1> QED
  BY <1>1, WaitStepInv, SMTT(60) DEF vars

(* arp_resolve with a known binding keeps the invariant.                   *)
LEMMA ResolveFoundInv ==
    ASSUME IInv, NEW c \in Caller, NEW p \in Packet, ResolveFound(c, p)
    PROVE  IInv'
<1>1. PICK i \in Slot :
        /\ table[i].used /\ table[i].pa = Dst[p] /\ table[i].ha # AnyHA
        /\ frames' = frames \cup {Frame(p, table[i].ha, Via[p], "cache")}
  BY SMTT(60) DEF ResolveFound, arp_table_select
<1>2. /\ fate[p] = "new" /\ fate' = [fate EXCEPT ![p] = "sent"]
      /\ UNCHANGED <<now, timestamp, table, rx, cl>>
      /\ arpOut' = {}
  BY SMTT(60) DEF ResolveFound, Calls
<1>3. \A f \in frames : f.pkt \in Packet /\ f.pkt # p
  BY <1>2, SMTT(60) DEF IInv, TypeOK, SentExactlyOnce
<1>4. TypeOK'
  <2>1. frames' \subseteq [pkt : Packet, to : HA \cup {AnyHA}, via : Dev,
                           by : {"table", "cache", "wait"}]
    BY <1>1, PacketAssumption, SMTT(60) DEF IInv, TypeOK, Entry, Frame
  <2> QED
    BY <1>2, <2>1, SMTT(60) DEF IInv, TypeOK, Fate
<1>5. RxAnnounced' /\ TableInv'
  BY <1>2, SMTT(60)
  DEF IInv, RxAnnounced, TableInv, FreeEntriesBlank, HeldPacketPending,
      TableAnnounced, OneQueryPerAddress
<1>6. HeldExactlyOnce'
  BY <1>2, SMTT(60) DEF IInv, TypeOK, Entry, HeldExactlyOnce
<1>7. WaitersOwnPackets'
  BY <1>2, SMTT(60) DEF IInv, TypeOK, WaitersOwnPackets
<1>8. SentExactlyOnce'
  <2> DEFINE new == Frame(p, table[i].ha, Via[p], "cache")
  <2>1. new.pkt = p /\ frames' = frames \cup {new}
    BY <1>1, SMTT(60) DEF Frame
  <2> HIDE DEF new
  <2>2. fate'[p] = "sent" /\ \A q \in Packet \ {p} : fate'[q] = fate[q]
    BY <1>2, ZenonT(60) DEF IInv, TypeOK
  <2> QED
    BY <1>3, <2>1, <2>2, ZenonT(60) DEF IInv, SentExactlyOnce
<1>9. SentToAnnounced'
  BY <1>1, <1>2, SMTT(60)
  DEF IInv, TableInv, TableAnnounced, SentToAnnounced, Frame
<1> QED
  BY <1>4, <1>5, <1>6, <1>7, <1>8, <1>9, ZenonT(60) DEF IInv

(* arp_resolve that starts to wait keeps the invariant.                    *)
LEMMA ResolveWaitInv ==
    ASSUME IInv, NEW c \in Caller, NEW p \in Packet, ResolveWait(c, p)
    PROVE  IInv'
<1>1. PICK i \in Slot :
        cl' = [cl EXCEPT ![c] = [pc |-> "waiting", slot |-> i, pkt |-> p,
                                 deadline |-> now + 1]]
  BY ZenonT(60) DEF ResolveWait
<1>2. /\ fate[p] = "new" /\ fate' = [fate EXCEPT ![p] = "waiting"]
      /\ UNCHANGED <<now, timestamp, table, rx, frames>>
      /\ arpOut' = arp_send_request(p)
  BY ZenonT(60) DEF ResolveWait, Calls
<1>3. TypeOK'
  <2>1. arpOut' \subseteq [via : Dev, op : Op, tpa : PA, tha : HA \cup {AnyHA}]
    BY <1>2, PacketAssumption, SMTT(60) DEF arp_send_request, Message, Op
  <2>2. cl' \in [Caller -> ClState]
    BY <1>1, SMTT(60) DEF IInv, TypeOK, ClState
  <2> QED
    BY <1>2, <2>1, <2>2, SMTT(60) DEF IInv, TypeOK, Fate
<1>4. RxAnnounced' /\ TableInv'
  BY <1>2, ZenonT(60)
  DEF IInv, RxAnnounced, TableInv, FreeEntriesBlank, HeldPacketPending,
      TableAnnounced, OneQueryPerAddress
<1>5. HeldExactlyOnce'
  BY <1>2, SMTT(60) DEF IInv, TypeOK, Entry, HeldExactlyOnce
<1>6. WaitersOwnPackets'
  BY <1>1, <1>2, ZenonT(60) DEF IInv, TypeOK, WaitersOwnPackets
<1>7. SentExactlyOnce' /\ SentToAnnounced'
  BY <1>2, SMTT(60) DEF IInv, TypeOK, SentExactlyOnce, SentToAnnounced
<1> QED
  BY <1>3, <1>4, <1>5, <1>6, <1>7, SMTT(60) DEF IInv

(* arp_resolve that makes an entry keeps the invariant.                    *)
LEMMA ResolveQueryInv ==
    ASSUME IInv, NEW c \in Caller, NEW p \in Packet, ResolveQuery(c, p)
    PROVE  IInv'
<1>1. PICK i \in Slot : /\ ~table[i].used
                        /\ table' = [table EXCEPT ![i] = Queried(table[i], p)]
  BY ZenonT(60) DEF ResolveQuery, arp_table_freespace
<1>2. /\ fate[p] = "new" /\ fate' = [fate EXCEPT ![p] = "held"]
      /\ UNCHANGED <<now, timestamp, rx, cl, frames>>
      /\ arpOut' = arp_send_request(p)
      /\ \A j \in Slot : ~(table[j].used /\ table[j].pa = Dst[p])
  BY SMTT(60) DEF ResolveQuery, Calls, NotInTable
<1>3. table[i] = BlankEntry
  BY <1>1, ZenonT(60) DEF IInv, TableInv, FreeEntriesBlank
<1>4. /\ table' \in [Slot -> Entry]
      /\ table'[i].used /\ table'[i].pa = Dst[p] /\ table'[i].ha = AnyHA
      /\ table'[i].data = p /\ table'[i].netif = Via[p]
      /\ \A j \in Slot \ {i} : table'[j] = table[j]
  <2>1. now \in Nat /\ table \in [Slot -> Entry] /\ table[i] \in Entry
    BY SMTT(60) DEF IInv, TypeOK
  <2>2. LET f == Queried(table[i], p)
        IN  /\ f \in Entry /\ f.used /\ f.pa = Dst[p] /\ f.ha = table[i].ha
            /\ f.data = p /\ f.netif = Via[p]
    BY <2>1, QueriedFields, SMTT(60)
  <2>3. table[i].ha = AnyHA
    BY <1>3, BlankFields, ZenonT(60)
  <2> QED
    BY <1>1, <2>1, <2>2, <2>3, SMTT(60)
<1>5. TypeOK'
  <2>1. arpOut' \subseteq [via : Dev, op : Op, tpa : PA, tha : HA \cup {AnyHA}]
    BY <1>2, PacketAssumption, SMTT(60) DEF arp_send_request, Message, Op
  <2> QED
    BY <1>2, <1>4, <2>1, ZenonT(60) DEF IInv, TypeOK, Fate
<1>6. RxAnnounced'
  BY <1>2, SMTT(60) DEF IInv, RxAnnounced
<1>7. TableInv'
  <2>1. FreeEntriesBlank'
    BY <1>4, ZenonT(60) DEF IInv, TableInv, FreeEntriesBlank
  <2>2. HeldPacketPending'
    BY <1>4, SMTT(60) DEF IInv, TableInv, HeldPacketPending
  <2>3. TableAnnounced'
    BY <1>4, ZenonT(60) DEF IInv, TableInv, TableAnnounced
  <2>4. OneQueryPerAddress'
    BY <1>2, <1>4, SMTT(60) DEF IInv, TableInv, OneQueryPerAddress
  <2> QED
    BY <2>1, <2>2, <2>3, <2>4, ZenonT(60) DEF TableInv
<1>8. HeldExactlyOnce'
  <2>1. fate'[p] = "held" /\ \A q \in Packet \ {p} : fate'[q] = fate[q]
    BY <1>2, ZenonT(60) DEF IInv, TypeOK
  <2>2. \A j \in Slot : table[j].data # p
    BY <1>2, PacketAssumption, SMTT(60) DEF IInv, HeldExactlyOnce
  <2>3. \A j \in Slot : table[j].data \in Packet \cup {NoData}
    BY ZenonT(60) DEF IInv, TypeOK, Entry
  <2> QED
    BY <1>3, <1>4, <2>1, <2>2, <2>3, BlankFields, PacketAssumption, SMTT(60)
    DEF IInv, HeldExactlyOnce
<1>9. WaitersOwnPackets'
  BY <1>2, ZenonT(60) DEF IInv, TypeOK, WaitersOwnPackets
<1>10. SentExactlyOnce' /\ SentToAnnounced'
  BY <1>2, SMTT(60) DEF IInv, TypeOK, SentExactlyOnce, SentToAnnounced
<1> QED
  BY <1>5, <1>6, <1>7, <1>8, <1>9, <1>10, SMTT(60) DEF IInv

(* arp_resolve that fails at once keeps the invariant.                     *)
LEMMA ResolveErrorInv ==
    ASSUME IInv, NEW c \in Caller, NEW p \in Packet, ResolveError(c, p)
    PROVE  IInv'
<1>1. /\ fate[p] = "new" /\ fate' = [fate EXCEPT ![p] = "failed"]
      /\ UNCHANGED <<now, timestamp, table, rx, cl, frames>>
      /\ arpOut' = {}
  BY SMTT(60) DEF ResolveError, Calls
<1>2. TypeOK'
  BY <1>1, ZenonT(60) DEF IInv, TypeOK, Fate
<1>3. RxAnnounced' /\ TableInv'
  BY <1>1, ZenonT(60)
  DEF IInv, RxAnnounced, TableInv, FreeEntriesBlank, HeldPacketPending,
      TableAnnounced, OneQueryPerAddress
<1>4. HeldExactlyOnce'
  BY <1>1, SMTT(60) DEF IInv, TypeOK, Entry, HeldExactlyOnce
<1>5. WaitersOwnPackets'
  BY <1>1, ZenonT(60) DEF IInv, TypeOK, WaitersOwnPackets
<1>6. SentExactlyOnce' /\ SentToAnnounced'
  BY <1>1, SMTT(60) DEF IInv, TypeOK, SentExactlyOnce, SentToAnnounced
<1> QED
  BY <1>2, <1>3, <1>4, <1>5, <1>6, ZenonT(60) DEF IInv

(* The error return after the wait keeps the invariant.                    *)
LEMMA ResumeErrorInv ==
    ASSUME IInv, NEW c \in Caller, ResumeError(c)
    PROVE  IInv'
<1> DEFINE i == cl[c].slot
           w == cl[c].pkt
<1>1. /\ i \in Slot /\ w \in Packet /\ fate[w] = "waiting"
      /\ \A k \in Caller \ {c} : cl[k].pc # "idle" => cl[k].pkt # w
  BY ZenonT(60) DEF ResumeError, IInv, WaitersOwnPackets
<1>2. /\ fate' = [p \in Packet |->
           IF p = w THEN "failed"
           ELSE IF table[i].used /\ table[i].data = p THEN "dropped"
           ELSE fate[p]]
      /\ cl' = [cl EXCEPT ![c] = IdleCl]
      /\ UNCHANGED <<now, timestamp, rx, frames>>
      /\ arpOut' = {}
  BY ZenonT(60) DEF ResumeError
<1>3. /\ table'[i] = BlankEntry
      /\ \A j \in Slot \ {i} : table'[j] = table[j]
      /\ table' \in [Slot -> Entry]
  BY <1>1, BlankFields, ZenonT(60)
  DEF ResumeError, arp_entry_clear, IInv, TypeOK, TableInv, FreeEntriesBlank
<1> HIDE DEF i, w
<1>4. TypeOK'
  <2>1. cl' \in [Caller -> ClState]
    BY <1>2, TimingAssumption, ZenonT(60) DEF IInv, TypeOK, ClState, IdleCl
  <2>2. fate' \in [Packet -> Fate]
    BY <1>2, ZenonT(60) DEF IInv, TypeOK, Fate
  <2> QED
    BY <1>2, <1>3, <2>1, <2>2, ZenonT(60) DEF IInv, TypeOK
<1>5. RxAnnounced'
  BY <1>2, SMTT(60) DEF IInv, RxAnnounced
<1>6. TableInv'
  <2>1. FreeEntriesBlank'
    BY <1>3, ZenonT(60) DEF IInv, TableInv, FreeEntriesBlank
  <2>2. HeldPacketPending'
    BY <1>3, BlankFields, SMTT(60) DEF IInv, TableInv, HeldPacketPending
  <2>3. TableAnnounced'
    BY <1>3, BlankFields, ZenonT(60) DEF IInv, TableInv, TableAnnounced
  <2>4. OneQueryPerAddress'
    BY <1>3, BlankFields, ZenonT(60) DEF IInv, TableInv, OneQueryPerAddress
  <2> QED
    BY <2>1, <2>2, <2>3, <2>4, SMTT(60) DEF TableInv
<1>7. table[i].data # NoData => table[i].used
  BY <1>1, ZenonT(60) DEF IInv, TableInv, HeldPacketPending
<1>8. HeldExactlyOnce'
  <2>1. \A j \in Slot : /\ table[j].data \in Packet \cup {NoData}
                        /\ table[j].data # w
    BY <1>1, PacketAssumption, ZenonT(60)
    DEF IInv, TypeOK, Entry, HeldExactlyOnce
  <2>2. \A p \in Packet : fate'[p] = "held" =>
          fate[p] = "held" /\ table[i].data # p
    BY <1>2, <1>7, PacketAssumption, ZenonT(60)
  <2>3. \A j \in Slot \ {i} : table[j].data # NoData =>
          fate'[table[j].data] = "held"
    BY <1>1, <1>2, <2>1, ZenonT(60) DEF IInv, HeldExactlyOnce
  <2> QED
    BY <1>1, <1>3, <2>1, <2>2, <2>3, BlankFields, SMTT(60)
    DEF IInv, HeldExactlyOnce
<1>9. \A p \in Packet : table[i].data = p => fate[p] = "held"
  BY <1>1, PacketAssumption, ZenonT(60) DEF IInv, HeldExactlyOnce
<1>10. \A p \in Packet : fate[p] # "held" /\ p # w => fate'[p] = fate[p]
  BY <1>2, <1>9, ZenonT(60)
<1>11. WaitersOwnPackets'
  <2>1. cl'[c].pc = "idle" /\ \A k \in Caller \ {c} : cl'[k] = cl[k]
    BY <1>2, SMTT(60) DEF IInv, TypeOK, IdleCl
  <2>2. \A p \in Packet \ {w} : fate[p] = "waiting" => fate'[p] = "waiting"
    BY <1>10, ZenonT(60)
  <2> QED
    BY <1>1, <2>1, <2>2, SMTT(60) DEF IInv, WaitersOwnPackets
<1>12. SentExactlyOnce' /\ SentToAnnounced'
  <2>1. \A p \in Packet : fate'[p] = "sent" <=> fate[p] = "sent"
    BY <1>1, <1>2, <1>10, SMTT(60)
  <2> QED
    BY <1>2, <2>1, ZenonT(60) DEF IInv, TypeOK, SentExactlyOnce, SentToAnnounced
<1> QED
  BY <1>4, <1>5, <1>6, <1>8, <1>11, <1>12, ZenonT(60) DEF IInv

(* The successful return after the wait keeps the invariant.               *)
LEMMA ResumeFoundInv ==
    ASSUME IInv, NEW c \in Caller, ResumeFound(c)
    PROVE  IInv'
<1> DEFINE i == cl[c].slot
           w == cl[c].pkt
           new == Frame(w, table[i].ha, Via[w], "wait")
<1>1. /\ i \in Slot /\ w \in Packet /\ fate[w] = "waiting"
      /\ \A k \in Caller \ {c} : cl[k].pc # "idle" => cl[k].pkt # w
  BY ZenonT(60) DEF ResumeFound, IInv, WaitersOwnPackets
<1>2. /\ fate' = [fate EXCEPT ![w] = "sent"]
      /\ cl' = [cl EXCEPT ![c] = IdleCl]
      /\ frames' = frames \cup {new}
      /\ UNCHANGED <<now, timestamp, table, rx>>
      /\ arpOut' = {}
  BY ZenonT(60) DEF ResumeFound
<1>3. /\ new \in [pkt : Packet, to : HA \cup {AnyHA}, via : Dev,
                  by : {"table", "cache", "wait"}]
      /\ new.pkt = w /\ new.by = "wait"
  BY <1>1, PacketAssumption, ZenonT(60) DEF IInv, TypeOK, Entry, Frame
<1> HIDE DEF i, w, new
<1>4. TypeOK'
  <2>1. cl' \in [Caller -> ClState]
    BY <1>2, TimingAssumption, ZenonT(60) DEF IInv, TypeOK, ClState, IdleCl
  <2> QED
    BY <1>1, <1>2, <1>3, <2>1, ZenonT(60) DEF IInv, TypeOK, Fate
<1>5. RxAnnounced' /\ TableInv'
  BY <1>2, ZenonT(60)
  DEF IInv, RxAnnounced, TableInv, FreeEntriesBlank, HeldPacketPending,
      TableAnnounced, OneQueryPerAddress
<1>6. fate'[w] = "sent" /\ \A q \in Packet \ {w} : fate'[q] = fate[q]
  BY <1>1, <1>2, ZenonT(60) DEF IInv, TypeOK
<1>7. HeldExactlyOnce'
  <2>1. \A j \in Slot : table[j].data \in Packet \cup {NoData}
    BY ZenonT(60) DEF IInv, TypeOK, Entry
  <2> QED
    BY <1>1, <1>2, <1>6, <2>1, SMTT(60) DEF IInv, HeldExactlyOnce
<1>8. WaitersOwnPackets'
  <2>1. cl'[c].pc = "idle" /\ \A k \in Caller \ {c} : cl'[k] = cl[k]
    BY <1>2, ZenonT(60) DEF IInv, TypeOK, IdleCl
  <2>2. \A k \in Caller : cl'[k].pc # "idle" =>
          /\ cl'[k] = cl[k] /\ k # c
          /\ cl[k].slot \in Slot /\ cl[k].pkt \in Packet
          /\ fate[cl[k].pkt] = "waiting" /\ cl[k].pkt # w
    BY <1>1, <2>1, ZenonT(60) DEF IInv, WaitersOwnPackets
  <2>3. \A k \in Caller : cl'[k].pc # "idle" => fate'[cl[k].pkt] = "waiting"
    BY <1>6, <2>2, ZenonT(60)
  <2>4. \A j, k \in Caller : cl[j].pc # "idle" /\ cl[k].pc # "idle"
                               /\ cl[j].pkt = cl[k].pkt => j = k
    BY ZenonT(60) DEF IInv, WaitersOwnPackets
  <2> QED
    BY <2>2, <2>3, <2>4, SMTT(60) DEF WaitersOwnPackets
<1>9. SentExactlyOnce'
  <2>1. \A f \in frames : f.pkt \in Packet /\ f.pkt # w
    BY <1>1, ZenonT(60) DEF IInv, TypeOK, SentExactlyOnce
  <2> QED
    BY <1>2, <1>3, <1>6, <2>1, SMTT(60) DEF IInv, SentExactlyOnce
<1>10. SentToAnnounced'
  BY <1>2, <1>3, ZenonT(60) DEF IInv, SentToAnnounced
<1> QED
  BY <1>4, <1>5, <1>7, <1>8, <1>9, <1>10, ZenonT(60) DEF IInv

-----------------------------------------------------------------------------
(* Every step of the ARP layer keeps the invariant.                        *)
LEMMA NextInv == IInv /\ [Next]_vars => IInv'
<1> SUFFICES ASSUME IInv, [Next]_vars PROVE IInv'
  BY SMTT(60)
<1>1. ASSUME NEW d \in Dev, Receive(d) PROVE IInv'
  BY <1>1, ReceiveInv, SMTT(60)
<1>2. ASSUME NEW d \in Dev, ArpRxFinish(d) PROVE IInv'
  BY <1>2, ArpRxFinishInv, SMTT(60)
<1>3. ASSUME NEW c \in Caller, NEW p \in Packet, arp_resolve(c, p) PROVE IInv'
  BY <1>3, ResolveFoundInv, ResolveWaitInv, ResolveQueryInv, ResolveErrorInv,
     SMTT(60)
  DEF arp_resolve
<1>4. ASSUME NEW c \in Caller, TimedOut(c) \/ SpuriousWakeup(c) PROVE IInv'
  BY <1>4, TimedOutInv, SMTT(60)
<1>5. ASSUME NEW c \in Caller, Resume(c) PROVE IInv'
  BY <1>5, ResumeErrorInv, ResumeFoundInv, SMTT(60) DEF Resume
<1>6. CASE Tick
  BY <1>6, TickInv, SMTT(60)
<1>7. CASE UNCHANGED vars
  BY <1>7, StutterInv, SMTT(60)
<1> QED
  BY <1>1, <1>2, <1>3, <1>4, <1>5, <1>6, <1>7, SMTT(60) DEF Next

(* The inductive invariant of the ARP layer holds in every behaviour.      *)
THEOREM Invariance == Spec => []IInv
BY InitInv, NextInv, PTL DEF Spec

(* The ARP layer's variables keep their types, for every table size.       *)
THEOREM TypeCorrect == Spec => []TypeOK
BY Invariance, PTL DEF IInv

(* A slot that arp_table_freespace hands out is blank.                     *)
THEOREM FreeBlank == Spec => []FreeEntriesBlank
BY Invariance, PTL DEF IInv, TableInv

(* A packet saved in the table belongs to its entry, which still waits for *)
(* a hardware address.                                                     *)
THEOREM HeldPending == Spec => []HeldPacketPending
BY Invariance, PTL DEF IInv, TableInv

(* arp_rx and arp_table_update bind an address only to what a station      *)
(* announced for it.                                                       *)
THEOREM BindingsAnnounced == Spec => []TableAnnounced
BY Invariance, PTL DEF IInv, TableInv

(* An address has one outstanding request at most.                         *)
THEOREM OneQuery == Spec => []OneQueryPerAddress
BY Invariance, PTL DEF IInv, TableInv

(* A packet arp_resolve took over is in exactly one entry.                 *)
THEOREM PacketsHeldOnce == Spec => []HeldExactlyOnce
BY Invariance, PTL DEF IInv

(* A packet is transmitted at most once, and only if no error was reported *)
(* for it.                                                                 *)
THEOREM PacketsSentOnce == Spec => []SentExactlyOnce
BY Invariance, PTL DEF IInv

(* arp_table_update and a lookup that finds a binding send a packet only   *)
(* to a hardware address announced for its next hop.                       *)
THEOREM PacketsSentToAnnounced == Spec => []SentToAnnounced
BY Invariance, PTL DEF IInv

(* A binding in the table is not lost to any interleaving of receivers and *)
(* callers: only age, or a caller whose wait timed out, removes it.        *)
THEOREM BindingsKept == Spec => BindingKept
<1>1. IInv /\ [Next]_vars => [BindingKeptStep]_vars
  <2> SUFFICES ASSUME IInv, Next, NEW i \in Slot,
                      table[i].used, table[i].ha # AnyHA, ~table'[i].used
               PROVE  \/ now - table[i].timestamp > ARP_TABLE_TIMEOUT_SEC
                      \/ \E c \in Caller :
                           cl[c].pc = "timedout" /\ cl[c].slot = i
    BY ZenonT(60) DEF BindingKeptStep
  <2>1. ASSUME NEW d \in Dev, Receive(d)
        PROVE  now - table[i].timestamp > ARP_TABLE_TIMEOUT_SEC
    <3>1. PICK b \in Announce, ours \in BOOLEAN, op \in Op :
            ArpRx(d, b[1], b[2], ours, op)
      BY <2>1, ZenonT(60) DEF Receive, Op
    <3> DEFINE t == [j \in Slot |-> IF j \in Swept
                                    THEN arp_entry_clear(table[j])
                                    ELSE table[j]]
               hit == {j \in Slot : arp_table_select(t, b[1], j)}
    <3>2. table'[i] = IF i \in hit THEN Updated(t[i], b[2]) ELSE t[i]
      BY <3>1, ZenonT(60) DEF ArpRx
    <3>3. CASE i \in Swept
      BY <3>3, ZenonT(60) DEF Swept, Expired
    <3>4. CASE i \notin Swept
      <4>1. t[i] = table[i]
        BY <3>4, ZenonT(60)
      <4>2. b[2] \in HA
        BY AddressAssumption, ZenonT(60)
      <4>3. Updated(table[i], b[2]).used
        BY <4>2, UpdatedFields, SMTT(60) DEF IInv, TypeOK
      <4> QED
        BY <3>2, <4>1, <4>3, ZenonT(60)
    <3> QED
      BY <3>3, <3>4, SMTT(60)
  <2>2. ASSUME NEW d \in Dev, ArpRxFinish(d) PROVE FALSE
    BY <2>2, ZenonT(60) DEF ArpRxFinish, arp_table_freespace, IInv, TypeOK
  <2>3. ASSUME NEW c \in Caller, NEW p \in Packet, arp_resolve(c, p)
        PROVE  FALSE
    BY <2>3, ZenonT(60)
    DEF arp_resolve, ResolveFound, ResolveWait, ResolveQuery, ResolveError,
        arp_table_freespace, IInv, TypeOK
  <2>4. ASSUME NEW c \in Caller, TimedOut(c) \/ SpuriousWakeup(c) PROVE FALSE
    BY <2>4, ZenonT(60) DEF TimedOut, SpuriousWakeup
  <2>5. ASSUME NEW c \in Caller, Resume(c)
        PROVE  cl[c].pc = "timedout" /\ cl[c].slot = i
    <3>1. ResumeError(c)
      BY <2>5, ZenonT(60) DEF Resume, ResumeFound
    <3>2. cl[c].slot = i
      BY <3>1, ZenonT(60) DEF ResumeError, IInv, TypeOK
    <3> QED
      BY <3>1, <3>2, ZenonT(60) DEF ResumeError, GivesUp
  <2>6. CASE Tick
    BY <2>6, SMTT(60) DEF Tick
  <2> QED
    BY <2>1, <2>2, <2>3, <2>4, <2>5, <2>6, ZenonT(60) DEF Next
<1> QED
  BY <1>1, Invariance, PTL DEF Spec, BindingKept

(* After a broadcast nobody waits on the slots it was for.                 *)
LEMMA BroadcastWakes ==
    ASSUME TypeOK, NEW S, NEW c \in Caller, Broadcast(S)[c].pc = "waiting"
    PROVE  /\ cl[c].pc = "waiting" /\ cl[c].slot \notin S
           /\ Broadcast(S)[c] = cl[c]
<1>1. Broadcast(S)[c] = IF cl[c].pc = "waiting" /\ cl[c].slot \in S
                        THEN [cl[c] EXCEPT !.pc = "signalled"]
                        ELSE cl[c]
  BY ZenonT(60) DEF Broadcast
<1>2. [cl[c] EXCEPT !.pc = "signalled"].pc = "signalled"
  BY ZenonT(60) DEF TypeOK, ClState
<1> QED
  BY <1>1, <1>2, SMTT(60)

(* A step after which every thread that still waits did so before, on an   *)
(* entry that got no hardware address.                                     *)
LEMMA AsleepKept ==
    ASSUME IInv, NoLostWakeup,
           \A c \in Caller : cl'[c].pc = "waiting" =>
             /\ cl[c].pc = "waiting" /\ cl'[c].slot = cl[c].slot
             /\ \/ table'[cl[c].slot] = table[cl[c].slot]
                \/ table'[cl[c].slot].ha = AnyHA
    PROVE  NoLostWakeup'
BY ZenonT(60) DEF NoLostWakeup

(* Filling in an entry wakes everybody who waits on its slot.              *)
LEMMA WakeupStep == IInv /\ NoLostWakeup /\ [Next]_vars => NoLostWakeup'
<1> SUFFICES ASSUME IInv, NoLostWakeup, [Next]_vars PROVE NoLostWakeup'
  BY ZenonT(60)
<1>1. \A c \in Caller : cl[c].pc = "waiting" => cl[c].slot \in Slot
  <2>1. \A c \in Caller : cl[c].pc = "waiting" => cl[c].pc # "idle"
    BY SMTT(60)
  <2> QED
    BY <2>1, ZenonT(60) DEF IInv, WaitersOwnPackets
<1>2. ASSUME NEW d \in Dev, Receive(d) PROVE NoLostWakeup'
  <2>1. PICK b \in Announce, ours \in BOOLEAN, op \in Op :
          ArpRx(d, b[1], b[2], ours, op)
    BY <1>2, ZenonT(60) DEF Receive, Op
  <2>2. b[1] \in PA /\ b[2] \in HA
    BY AddressAssumption, ZenonT(60)
  <2>3. PICK swept, hit \in SUBSET Slot :
          RxEffect(d, b[1], b[2], ours, op, swept, hit)
    BY <2>1, <2>2, ArpRxEffect, ZenonT(60)
  <2>4. /\ cl' = Broadcast(swept \cup hit)
        /\ \A i \in Slot \ (swept \cup hit) : table'[i] = table[i]
    BY <2>3, ZenonT(60) DEF RxEffect
  <2>5. \A c \in Caller : cl'[c].pc = "waiting" =>
          cl[c].pc = "waiting" /\ cl[c].slot \notin swept \cup hit
          /\ cl'[c] = cl[c]
    BY <2>4, BroadcastWakes, ZenonT(60) DEF IInv
  <2> QED
    BY <1>1, <2>4, <2>5, AsleepKept, ZenonT(60)
<1>3. ASSUME NEW d \in Dev, ArpRxFinish(d) PROVE NoLostWakeup'
  <2>1. CASE UNCHANGED <<table, cl>>
    BY <2>1, AsleepKept, ZenonT(60)
  <2>2. ASSUME NEW i \in Slot, NEW e, table' = [table EXCEPT ![i] = e],
               cl' = Broadcast({i})
        PROVE  NoLostWakeup'
    <3>1. \A j \in Slot : j # i => table'[j] = table[j]
      BY <2>2, ZenonT(60) DEF IInv, TypeOK
    <3>2. \A c \in Caller : cl'[c].pc = "waiting" =>
            cl[c].pc = "waiting" /\ cl[c].slot # i /\ cl'[c] = cl[c]
      BY <2>2, BroadcastWakes, ZenonT(60) DEF IInv
    <3> QED
      BY <1>1, <3>1, <3>2, AsleepKept, ZenonT(60)
  <2> QED
    BY <1>3, <2>1, <2>2, ZenonT(60) DEF ArpRxFinish
<1>4. ASSUME NEW c \in Caller, NEW p \in Packet, ResolveWait(c, p)
      PROVE  NoLostWakeup'
  <2>1. PICK i \in Slot :
          /\ table[i].ha = AnyHA
          /\ cl' = [cl EXCEPT ![c] = [pc |-> "waiting", slot |-> i,
                                      pkt |-> p, deadline |-> now + 1]]
    BY <1>4, ZenonT(60) DEF ResolveWait
  <2>2. cl'[c].slot = i /\ \A k \in Caller \ {c} : cl'[k] = cl[k]
    BY <2>1, SMTT(60) DEF IInv, TypeOK
  <2>3. UNCHANGED table
    BY <1>4, ZenonT(60) DEF ResolveWait
  <2> QED
    BY <2>1, <2>2, <2>3, ZenonT(60) DEF NoLostWakeup
<1>5. ASSUME NEW c \in Caller, NEW p \in Packet, ResolveQuery(c, p)
      PROVE  NoLostWakeup'
  <2>1. PICK i \in Slot : /\ ~table[i].used
                          /\ table' = [table EXCEPT ![i] = Queried(table[i], p)]
    BY <1>5, ZenonT(60) DEF ResolveQuery, arp_table_freespace
  <2>2. table[i].ha = AnyHA
    BY <2>1, BlankFields, ZenonT(60) DEF IInv, TableInv, FreeEntriesBlank
  <2>3. Queried(table[i], p).ha = AnyHA
    BY <2>2, QueriedFields, SMTT(60) DEF IInv, TypeOK
  <2>4. \A j \in Slot : table'[j] = table[j] \/ table'[j].ha = AnyHA
    BY <2>1, <2>3, ZenonT(60) DEF IInv, TypeOK
  <2>5. UNCHANGED cl
    BY <1>5, ZenonT(60) DEF ResolveQuery
  <2> QED
    BY <1>1, <2>4, <2>5, AsleepKept, ZenonT(60)
<1>6. ASSUME NEW c \in Caller, NEW r, r.pc # "waiting",
             cl' = [cl EXCEPT ![c] = r],
             \A j \in Slot : table'[j] = table[j] \/ table'[j].ha = AnyHA
      PROVE  NoLostWakeup'
  <2>1. \A k \in Caller : cl'[k].pc = "waiting" => cl'[k] = cl[k]
    BY <1>6, ZenonT(60) DEF IInv, TypeOK
  <2> QED
    BY <1>1, <1>6, <2>1, AsleepKept, ZenonT(60)
<1>7. IdleCl.pc # "waiting"
  BY SMTT(60) DEF IdleCl
<1>8. ASSUME NEW c \in Caller, ResumeError(c) PROVE NoLostWakeup'
  <2>1. \A j \in Slot : table'[j] = table[j] \/ table'[j].ha = AnyHA
    <3>1. \A e : arp_entry_clear(e).ha = AnyHA
      BY BlankFields, ZenonT(60) DEF arp_entry_clear
    <3> QED
      BY <1>8, <3>1, ZenonT(60) DEF ResumeError, IInv, TypeOK
  <2> QED
    BY <1>6, <1>7, <1>8, <2>1, ZenonT(60) DEF ResumeError
<1>9. ASSUME NEW c \in Caller, ResumeFound(c) PROVE NoLostWakeup'
  BY <1>6, <1>7, <1>9, ZenonT(60) DEF ResumeFound
<1>10. ASSUME NEW c \in Caller, TimedOut(c) \/ SpuriousWakeup(c)
       PROVE  NoLostWakeup'
  <2>1. PICK r \in {"timedout", "signalled"} : cl' = [cl EXCEPT ![c].pc = r]
    BY <1>10, ZenonT(60) DEF TimedOut, SpuriousWakeup
  <2>2. [cl[c] EXCEPT !.pc = r].pc = r
    BY ZenonT(60) DEF IInv, TypeOK, ClState
  <2>3. r # "waiting"
    BY <2>1, SMTT(60)
  <2>4. cl' = [cl EXCEPT ![c] = [cl[c] EXCEPT !.pc = r]]
    BY <2>1, ZenonT(60)
  <2>5. UNCHANGED table
    BY <1>10, ZenonT(60) DEF TimedOut, SpuriousWakeup
  <2> QED
    BY <1>6, <2>2, <2>3, <2>4, <2>5, ZenonT(60)
<1>11. ASSUME UNCHANGED <<table, cl>> PROVE NoLostWakeup'
  BY <1>11, AsleepKept, ZenonT(60)
<1>12. \A c \in Caller, p \in Packet :
         ResolveFound(c, p) \/ ResolveError(c, p) => UNCHANGED <<table, cl>>
  BY ZenonT(60) DEF ResolveFound, ResolveError
<1>13. Tick \/ UNCHANGED vars => UNCHANGED <<table, cl>>
  BY ZenonT(60) DEF Tick, vars
<1> QED
  BY <1>2, <1>3, <1>4, <1>5, <1>8, <1>9, <1>10, <1>11, <1>12, <1>13, ZenonT(60)
  DEF Next, arp_resolve, Resume

(* No thread sleeps in arp_resolve on an entry that has its answer, for    *)
(* any number of threads, slots and recycled entries.                      *)
THEOREM WakeupsReach == Spec => []NoLostWakeup
<1>1. Init => NoLostWakeup
  <2> SUFFICES ASSUME Init, NEW c \in Caller PROVE cl[c].pc # "waiting"
    BY ZenonT(60) DEF NoLostWakeup
  <2> QED
    BY SMTT(60) DEF Init, IdleCl
<1> QED
  BY <1>1, WakeupStep, Invariance, PTL DEF Spec

(* Nobody waits for an address that nobody asked for.                      *)
THEOREM WaitersAsked == Spec => AskedWhenWaiting
<1>1. IInv /\ [Next]_vars => [AskedStep]_vars
  <2> SUFFICES ASSUME IInv, Next PROVE AskedStep
    BY ZenonT(60)
  <2>1. ASSUME \A i \in Slot : table'[i].used /\ table'[i].ha = AnyHA =>
                 table[i].used,
               \A c \in Caller : cl[c].pc = "idle" => cl'[c].pc = "idle"
        PROVE  AskedStep
    BY <2>1, ZenonT(60) DEF AskedStep
  <2>2. ASSUME NEW d \in Dev, Receive(d) PROVE AskedStep
    <3>1. PICK b \in Announce, ours \in BOOLEAN, op \in Op :
            ArpRx(d, b[1], b[2], ours, op)
      BY <2>2, ZenonT(60) DEF Receive, Op
    <3>2. b[1] \in PA /\ b[2] \in HA
      BY AddressAssumption, ZenonT(60)
    <3>3. PICK swept, hit \in SUBSET Slot :
            RxEffect(d, b[1], b[2], ours, op, swept, hit)
      BY <3>1, <3>2, ArpRxEffect, ZenonT(60)
    <3>4. \A i \in Slot : table'[i].used => table[i].used
      BY <3>3, ZenonT(60) DEF RxEffect
    <3>5. cl' = Broadcast(swept \cup hit)
      BY <3>3, ZenonT(60) DEF RxEffect
    <3>6. \A c \in Caller : cl[c].pc = "idle" => cl'[c].pc = "idle"
      BY <3>5, BroadcastEffect, ZenonT(60) DEF IInv
    <3> QED
      BY <2>1, <3>4, <3>6, ZenonT(60)
  <2>3. ASSUME NEW d \in Dev, ArpRxFinish(d) PROVE AskedStep
    <3>1. CASE UNCHANGED <<table, cl>>
      BY <2>1, <3>1, ZenonT(60)
    <3>2. CASE ~UNCHANGED <<table, cl>>
      <4>1. PICK i \in Slot :
              /\ table' = [table EXCEPT ![i] =
                             Inserted(table[i], rx[d].spa, rx[d].sha)]
              /\ cl' = Broadcast({i})
        BY <2>3, <3>2, ZenonT(60) DEF ArpRxFinish
      <4>2. rx[d].spa \in PA /\ rx[d].sha \in HA /\ rx[d].sha # AnyHA
        BY <2>3, AddressAssumption, ZenonT(60)
        DEF ArpRxFinish, IInv, RxAnnounced, AnyHA
      <4>3. Inserted(table[i], rx[d].spa, rx[d].sha).ha = rx[d].sha
        BY <4>2, InsertedFields, SMTT(60) DEF IInv, TypeOK
      <4>4. \A j \in Slot : table'[j].ha = AnyHA => table'[j] = table[j]
        BY <4>1, <4>2, <4>3, ZenonT(60) DEF IInv, TypeOK
      <4>5. \A c \in Caller : cl[c].pc = "idle" => cl'[c].pc = "idle"
        BY <4>1, BroadcastEffect, ZenonT(60) DEF IInv
      <4> QED
        BY <2>1, <4>4, <4>5, ZenonT(60)
    <3> QED
      BY <3>1, <3>2, ZenonT(60)
  <2>4. ASSUME NEW c \in Caller, NEW p \in Packet, ResolveWait(c, p)
        PROVE  AskedStep
    <3>1. PICK i \in Slot :
            /\ table[i].pa = Dst[p]
            /\ cl' = [cl EXCEPT ![c] = [pc |-> "waiting", slot |-> i,
                                        pkt |-> p, deadline |-> now + 1]]
      BY <2>4, ZenonT(60) DEF ResolveWait, arp_table_select
    <3>2. UNCHANGED table /\ arpOut' = arp_send_request(p)
      BY <2>4, ZenonT(60) DEF ResolveWait
    <3>3. /\ cl'[c].slot = i /\ cl'[c].pkt = p
          /\ \A k \in Caller \ {c} : cl'[k] = cl[k]
      BY <3>1, SMTT(60) DEF IInv, TypeOK
    <3>4. Message(Via[p], ARP_OP_REQUEST, Dst[p], AnyHA) \in arpOut'
      BY <3>2, ZenonT(60) DEF arp_send_request
    <3>5. ASSUME NEW k \in Caller, cl[k].pc = "idle", cl'[k].pc = "waiting"
          PROVE  Message(Via[cl'[k].pkt], ARP_OP_REQUEST,
                         table[cl'[k].slot].pa, AnyHA) \in arpOut'
      <4>1. k = c
        BY <3>3, <3>5, ZenonT(60)
      <4> QED
        BY <3>1, <3>3, <3>4, <4>1, ZenonT(60)
    <3> QED
      BY <3>2, <3>5, ZenonT(60) DEF AskedStep
  <2>5. ASSUME NEW c \in Caller, NEW p \in Packet, ResolveQuery(c, p)
        PROVE  AskedStep
    <3>1. PICK i \in Slot : table' = [table EXCEPT ![i] = Queried(table[i], p)]
      BY <2>5, ZenonT(60) DEF ResolveQuery
    <3>2. UNCHANGED cl /\ arpOut' = arp_send_request(p)
      BY <2>5, ZenonT(60) DEF ResolveQuery
    <3>3. /\ table'[i].netif = Via[p] /\ table'[i].pa = Dst[p]
          /\ \A j \in Slot \ {i} : table'[j] = table[j]
      BY <3>1, QueriedFields, SMTT(60) DEF IInv, TypeOK
    <3>4. Message(Via[p], ARP_OP_REQUEST, Dst[p], AnyHA) \in arpOut'
      BY <3>2, ZenonT(60) DEF arp_send_request
    <3>5. ASSUME NEW j \in Slot, ~table[j].used, table'[j].used
          PROVE  Message(table'[j].netif, ARP_OP_REQUEST, table'[j].pa, AnyHA)
                   \in arpOut'
      <4>1. j = i
        BY <3>3, <3>5, ZenonT(60)
      <4> QED
        BY <3>3, <3>4, <4>1, ZenonT(60)
    <3> QED
      BY <3>2, <3>5, ZenonT(60) DEF AskedStep
  <2>6. ASSUME NEW c \in Caller, ResumeError(c) PROVE AskedStep
    <3>1. \A i \in Slot : table'[i].used => table[i].used
      BY <2>6, ZenonT(60) DEF ResumeError, IInv, TypeOK
    <3>2. \A k \in Caller : cl[k].pc = "idle" => cl'[k].pc = "idle"
      BY <2>6, ZenonT(60) DEF ResumeError, IdleCl, IInv, TypeOK
    <3> QED
      BY <2>1, <3>1, <3>2, ZenonT(60)
  <2>7. ASSUME NEW c \in Caller,
               TimedOut(c) \/ SpuriousWakeup(c) \/ ResumeFound(c)
        PROVE  AskedStep
    <3>1. UNCHANGED table
      BY <2>7, ZenonT(60) DEF TimedOut, SpuriousWakeup, ResumeFound
    <3>2. \A k \in Caller : cl[k].pc = "idle" => cl'[k].pc = "idle"
      BY <2>7, SMTT(60)
      DEF TimedOut, SpuriousWakeup, ResumeFound, IdleCl, IInv, TypeOK, ClState
    <3> QED
      BY <2>1, <3>1, <3>2, ZenonT(60)
  <2>8. ASSUME UNCHANGED <<table, cl>> PROVE AskedStep
    BY <2>1, <2>8, ZenonT(60)
  <2>9. \A c \in Caller, p \in Packet :
          ResolveFound(c, p) \/ ResolveError(c, p) => UNCHANGED <<table, cl>>
    BY ZenonT(60) DEF ResolveFound, ResolveError
  <2>10. Tick => UNCHANGED <<table, cl>>
    BY ZenonT(60) DEF Tick
  <2> QED
    BY <2>2, <2>3, <2>4, <2>5, <2>6, <2>7, <2>8, <2>9, <2>10, ZenonT(60)
    DEF Next, arp_resolve, Resume
<1> QED
  BY <1>1, Invariance, PTL DEF Spec, AskedWhenWaiting

-----------------------------------------------------------------------------
(* How many entries an address can have.  arp_rx looks the sender up in    *)
(* one critical section and inserts it in another, so what counts is the   *)
(* entries together with the receivers that are between the two.           *)

(* The receivers that will insert an entry for pa.                         *)
Learners(pa) ==
    {d \in IPDev : rx[d].pc = "learn" /\ ~rx[d].merge /\ rx[d].spa = pa}

Bounded(E, L) == Cardinality(E) + Cardinality(L) <= Cardinality(IPDev) + 1

(* Only a device with a netif learns, and the bound with the inserts that  *)
(* are still to come: inductive with IInv.                                 *)
DupInv ==
    /\ \A d \in Dev : rx[d].pc = "learn" => d \in IPDev
    /\ \A pa \in PA : Bounded(EntriesFor(pa), Learners(pa))

(* Sets of slots and of devices with a netif are finite.                   *)
LEMMA Finite ==
    /\ \A E \in SUBSET Slot : IsFiniteSet(E) /\ Cardinality(E) \in Nat
    /\ \A L \in SUBSET IPDev : IsFiniteSet(L) /\ Cardinality(L) \in Nat
    /\ Cardinality(IPDev) \in Nat
<1>1. IsFiniteSet(Slot)
  <2>1. 0 \in Int /\ ARP_TABLE_SIZE - 1 \in Int
    BY TimingAssumption, SMTT(60)
  <2> QED
    BY <2>1, FS_Interval, ZenonT(60) DEF Slot
<1> QED
  BY <1>1, FiniteAssumption, FS_Subset, FS_CardinalityType, ZenonT(60)

(* Entries freed and receivers done keep the bound.                        *)
LEMMA BoundedShrink ==
    ASSUME NEW E \in SUBSET Slot, NEW L \in SUBSET IPDev, Bounded(E, L),
           NEW E2 \in SUBSET E, NEW L2 \in SUBSET L
    PROVE  Bounded(E2, L2)
<1>1. IsFiniteSet(E) /\ IsFiniteSet(L)
  BY Finite, ZenonT(60)
<1>2. Cardinality(E2) <= Cardinality(E) /\ Cardinality(L2) <= Cardinality(L)
  BY <1>1, FS_Subset, ZenonT(60)
<1>3. /\ E2 \in SUBSET Slot /\ L2 \in SUBSET IPDev
  BY ZenonT(60)
<1>4. /\ Cardinality(E) \in Nat /\ Cardinality(E2) \in Nat
      /\ Cardinality(L) \in Nat /\ Cardinality(L2) \in Nat
      /\ Cardinality(IPDev) \in Nat
  BY <1>3, Finite, ZenonT(60)
<1> QED
  BY <1>2, <1>4, SMTT(60) DEF Bounded

(* An address with one entry at most is within the bound.                  *)
LEMMA BoundedSingle ==
    ASSUME NEW i, NEW E \in SUBSET {i}, NEW L \in SUBSET IPDev
    PROVE  Bounded(E, L)
<1>1. IsFiniteSet({i}) /\ Cardinality({i}) = 1
  BY FS_Singleton, ZenonT(60)
<1>2. Cardinality(E) <= 1 /\ Cardinality(E) \in Nat
  BY <1>1, FS_Subset, FS_CardinalityType, ZenonT(60)
<1>3. Cardinality(L) <= Cardinality(IPDev)
  BY FiniteAssumption, FS_Subset, ZenonT(60)
<1>4. Cardinality(L) \in Nat /\ Cardinality(IPDev) \in Nat
  BY Finite, ZenonT(60)
<1> QED
  BY <1>2, <1>3, <1>4, SMTT(60) DEF Bounded

(* A receiver that becomes an entry keeps the bound.                       *)
LEMMA BoundedInsert ==
    ASSUME NEW E \in SUBSET Slot, NEW L \in SUBSET IPDev, Bounded(E, L),
           NEW i \in Slot, i \notin E, NEW d \in L
    PROVE  Bounded(E \cup {i}, L \ {d})
<1>1. /\ IsFiniteSet(E) /\ IsFiniteSet(L)
      /\ Cardinality(E) \in Nat /\ Cardinality(L) \in Nat
      /\ Cardinality(IPDev) \in Nat
  BY Finite, ZenonT(60)
<1>2. Cardinality(E \cup {i}) = Cardinality(E) + 1
  BY <1>1, FS_AddElement, ZenonT(60)
<1>3. Cardinality(L \ {d}) = Cardinality(L) - 1
  BY <1>1, FS_RemoveElement, ZenonT(60)
<1> QED
  BY <1>1, <1>2, <1>3, SMTT(60) DEF Bounded

(* A step that gives no address a new entry and no receiver a new insert.  *)
LEMMA ShrinkStep ==
    ASSUME DupInv, rx' = rx,
           \A i \in Slot : table'[i].used =>
               table[i].used /\ table'[i].pa = table[i].pa
    PROVE  DupInv'
<1>1. ASSUME NEW pa \in PA PROVE Bounded(EntriesFor(pa), Learners(pa))'
  <2>1. /\ EntriesFor(pa)' \in SUBSET EntriesFor(pa)
        /\ EntriesFor(pa) \in SUBSET Slot
    BY ZenonT(60) DEF EntriesFor
  <2>2. Learners(pa)' = Learners(pa) /\ Learners(pa) \in SUBSET IPDev
    BY ZenonT(60) DEF Learners
  <2>3. Bounded(EntriesFor(pa)', Learners(pa)')
    BY <2>1, <2>2, BoundedShrink, ZenonT(60) DEF DupInv
  <2> QED
    BY <2>3, ZenonT(60) DEF Bounded
<1> QED
  BY <1>1, ZenonT(60) DEF DupInv

(* The first half of arp_rx: a receiver that found no entry and will       *)
(* insert one has seen the address without any.                            *)
LEMMA ReceiveDup ==
    ASSUME IInv, DupInv, NEW d \in Dev, Receive(d)
    PROVE  DupInv'
<1>1. PICK b \in Announce, ours \in BOOLEAN, op \in Op :
        ArpRx(d, b[1], b[2], ours, op) /\ (ours => d \in IPDev)
  BY ZenonT(60) DEF Receive, Op
<1> DEFINE spa == b[1]
           sha == b[2]
<1>2. spa \in PA /\ sha \in HA
  BY AddressAssumption, ZenonT(60)
<1>3. PICK swept, hit \in SUBSET Slot :
        RxEffect(d, spa, sha, ours, op, swept, hit)
  BY <1>1, <1>2, ArpRxEffect, ZenonT(60)
<1> HIDE DEF spa, sha
<1>4. PICK m \in BOOLEAN :
        /\ m \/ hit = {}
        /\ rx' = [rx EXCEPT ![d] =
             IF ~ours THEN IdleRx
             ELSE [pc |-> "learn", spa |-> spa, sha |-> sha, op |-> op,
                   merge |-> m]]
  BY <1>3, ZenonT(60) DEF RxEffect
<1>5. /\ \A e \in Dev \ {d} : rx'[e] = rx[e]
      /\ rx'[d].pc = "learn" => ours /\ rx'[d].spa = spa /\ rx'[d].merge = m
  BY <1>4, ZenonT(60) DEF IInv, TypeOK, IdleRx
<1>6. \A e \in Dev : rx'[e].pc = "learn" => e \in IPDev
  BY <1>1, <1>5, ZenonT(60) DEF DupInv
<1>7. \A i \in Slot : table'[i].used =>
        table[i].used /\ table'[i].pa = table[i].pa
  <2>1. \A i \in hit : table[i].used /\ table'[i].pa = table[i].pa
    <3>1. \A i \in hit : table[i].used /\ table'[i] = Updated(table[i], sha)
      BY <1>3, ZenonT(60) DEF RxEffect
    <3> QED
      BY <1>2, <3>1, UpdatedFields, SMTT(60) DEF IInv, TypeOK
  <2>2. /\ \A i \in swept : table'[i] = BlankEntry
        /\ \A i \in Slot \ (swept \cup hit) : table'[i] = table[i]
    BY <1>3, ZenonT(60) DEF RxEffect
  <2> QED
    BY <2>1, <2>2, BlankFields, ZenonT(60)
<1>8. ASSUME NEW pa \in PA PROVE Bounded(EntriesFor(pa)', Learners(pa)')
  <2>1. /\ EntriesFor(pa)' \in SUBSET EntriesFor(pa)
        /\ EntriesFor(pa) \in SUBSET Slot
    BY <1>7, ZenonT(60) DEF EntriesFor
  <2>2. /\ Learners(pa)' \in SUBSET IPDev
        /\ Learners(pa) \in SUBSET IPDev
    BY ZenonT(60) DEF Learners
  <2>3. CASE pa = spa /\ hit = {}
    <3>1. \A i \in Slot : ~(table'[i].used /\ table'[i].pa = spa)
      BY <1>3, <2>3, ZenonT(60) DEF RxEffect
    <3>2. EntriesFor(pa)' \in SUBSET {0}
      BY <2>3, <3>1, ZenonT(60) DEF EntriesFor
    <3> QED
      BY <2>2, <3>2, BoundedSingle, ZenonT(60)
  <2>4. CASE ~(pa = spa /\ hit = {})
    <3>1. Learners(pa)' \in SUBSET Learners(pa)
      BY <1>4, <1>5, <2>4, AddressAssumption, ZenonT(60) DEF Learners
    <3> QED
      BY <2>1, <2>2, <3>1, BoundedShrink, ZenonT(60) DEF DupInv
  <2> QED
    BY <2>3, <2>4, ZenonT(60)
<1> QED
  BY <1>6, <1>8, ZenonT(60) DEF DupInv, Bounded

(* The second half of arp_rx: the receiver becomes an entry, or gives up.  *)
LEMMA ArpRxFinishDup ==
    ASSUME IInv, DupInv, NEW d \in Dev, ArpRxFinish(d)
    PROVE  DupInv'
<1>1. /\ rx[d].pc = "learn" /\ rx'[d].pc = "idle"
      /\ \A e \in Dev \ {d} : rx'[e] = rx[e]
  BY ZenonT(60) DEF ArpRxFinish, IInv, TypeOK, IdleRx
<1>2. \A e \in Dev : rx'[e].pc = "learn" => e \in IPDev
  BY <1>1, ZenonT(60) DEF DupInv
<1>3. ASSUME NEW pa \in PA
      PROVE  /\ Learners(pa)' = Learners(pa) \ {d}
             /\ Learners(pa) \in SUBSET IPDev
             /\ EntriesFor(pa) \in SUBSET Slot
             /\ Bounded(EntriesFor(pa), Learners(pa))
  <2>1. Learners(pa)' = Learners(pa) \ {d}
    BY <1>1, AddressAssumption, ZenonT(60) DEF Learners
  <2> QED
    BY <2>1, ZenonT(60) DEF Learners, EntriesFor, DupInv
<1>4. ASSUME NEW pa \in PA, EntriesFor(pa)' = EntriesFor(pa)
      PROVE  Bounded(EntriesFor(pa)', Learners(pa)')
  <2>1. Learners(pa) \ {d} \in SUBSET Learners(pa)
    BY ZenonT(60)
  <2>2. Bounded(EntriesFor(pa), Learners(pa) \ {d})
    BY <1>3, <2>1, BoundedShrink, ZenonT(60)
  <2> QED
    BY <1>3, <1>4, <2>2, ZenonT(60)
<1>5. ASSUME NEW pa \in PA PROVE Bounded(EntriesFor(pa)', Learners(pa)')
  <2>1. CASE UNCHANGED table
    BY <1>4, <2>1, ZenonT(60) DEF EntriesFor
  <2>2. CASE ~UNCHANGED table
    <3>1. PICK i \in Slot :
            /\ ~rx[d].merge /\ ~table[i].used
            /\ table' = [table EXCEPT ![i] =
                           Inserted(table[i], rx[d].spa, rx[d].sha)]
      BY <2>2, ZenonT(60) DEF ArpRxFinish, arp_table_freespace, ToLearn
    <3>2. rx[d].spa \in PA /\ rx[d].sha \in HA
      BY <1>1, AddressAssumption, ZenonT(60) DEF IInv, RxAnnounced
    <3>3. /\ table'[i].used /\ table'[i].pa = rx[d].spa
          /\ \A j \in Slot \ {i} : table'[j] = table[j]
      BY <3>1, <3>2, InsertedFields, SMTT(60) DEF IInv, TypeOK
    <3>4. CASE pa = rx[d].spa
      <4>1. EntriesFor(pa)' = EntriesFor(pa) \cup {i} /\ i \notin EntriesFor(pa)
        BY <3>1, <3>3, <3>4, ZenonT(60) DEF EntriesFor
      <4>2. d \in Learners(pa)
        BY <1>1, <3>1, <3>4, ZenonT(60) DEF Learners, DupInv
      <4>3. Bounded(EntriesFor(pa) \cup {i}, Learners(pa) \ {d})
        BY <1>3, <4>1, <4>2, BoundedInsert, ZenonT(60)
      <4> QED
        BY <1>3, <4>1, <4>3, ZenonT(60)
    <3>5. CASE pa # rx[d].spa
      <4>1. EntriesFor(pa)' = EntriesFor(pa)
        BY <3>1, <3>3, <3>5, ZenonT(60) DEF EntriesFor
      <4> QED
        BY <1>4, <4>1, ZenonT(60)
    <3> QED
      BY <3>4, <3>5, ZenonT(60)
  <2> QED
    BY <2>1, <2>2, ZenonT(60)
<1> QED
  BY <1>2, <1>5, ZenonT(60) DEF DupInv, Bounded

(* arp_resolve makes an entry only for an address that has none.           *)
LEMMA ResolveQueryDup ==
    ASSUME IInv, DupInv, NEW c \in Caller, NEW p \in Packet,
           ResolveQuery(c, p)
    PROVE  DupInv'
<1>1. PICK i \in Slot : /\ ~table[i].used
                        /\ table' = [table EXCEPT ![i] = Queried(table[i], p)]
  BY ZenonT(60) DEF ResolveQuery, arp_table_freespace
<1>2. /\ rx' = rx
      /\ \A j \in Slot : ~(table[j].used /\ table[j].pa = Dst[p])
  BY ZenonT(60) DEF ResolveQuery, NotInTable
<1>3. /\ table'[i].pa = Dst[p]
      /\ \A j \in Slot \ {i} : table'[j] = table[j]
  BY <1>1, QueriedFields, SMTT(60) DEF IInv, TypeOK
<1>4. ASSUME NEW pa \in PA PROVE Bounded(EntriesFor(pa)', Learners(pa)')
  <2>1. Learners(pa)' = Learners(pa) /\ Learners(pa) \in SUBSET IPDev
    BY <1>2, ZenonT(60) DEF Learners
  <2>2. CASE pa = Dst[p]
    <3>1. EntriesFor(pa)' \in SUBSET {i}
      BY <1>2, <1>3, <2>2, ZenonT(60) DEF EntriesFor
    <3> QED
      BY <2>1, <3>1, BoundedSingle, ZenonT(60)
  <2>3. CASE pa # Dst[p]
    <3>1. EntriesFor(pa)' \in SUBSET EntriesFor(pa)
      BY <1>3, <2>3, ZenonT(60) DEF EntriesFor
    <3>2. EntriesFor(pa) \in SUBSET Slot
      BY ZenonT(60) DEF EntriesFor
    <3> QED
      BY <2>1, <3>1, <3>2, BoundedShrink, ZenonT(60) DEF DupInv
  <2> QED
    BY <2>2, <2>3, ZenonT(60)
<1> QED
  BY <1>2, <1>4, ZenonT(60) DEF DupInv, Bounded

(* The table starts with no entries and no receivers.                      *)
LEMMA InitDup == Init => DupInv
<1> SUFFICES ASSUME Init PROVE DupInv
  BY ZenonT(60)
<1>1. \A i \in Slot : ~table[i].used
  BY BlankFields, ZenonT(60) DEF Init
<1>2. \A d \in Dev : rx[d].pc # "learn"
  BY ZenonT(60) DEF Init, IdleRx
<1>3. \A pa \in PA : /\ EntriesFor(pa) \in SUBSET {0}
                     /\ Learners(pa) \in SUBSET IPDev
  BY <1>1, ZenonT(60) DEF EntriesFor, Learners
<1> QED
  BY <1>2, <1>3, BoundedSingle, ZenonT(60) DEF DupInv

(* Every step keeps the bound on entries and pending inserts.              *)
LEMMA NextDup == IInv /\ DupInv /\ [Next]_vars => DupInv'
<1> SUFFICES ASSUME IInv, DupInv, [Next]_vars PROVE DupInv'
  BY ZenonT(60)
<1>1. ASSUME NEW c \in Caller, ResumeError(c) PROVE DupInv'
  <2>1. /\ \A i \in Slot : table'[i].used => table'[i] = table[i]
        /\ rx' = rx
    BY <1>1, BlankFields, ZenonT(60)
    DEF ResumeError, arp_entry_clear, IInv, TypeOK
  <2> QED
    BY <2>1, ShrinkStep, ZenonT(60)
<1>2. ASSUME UNCHANGED <<table, rx>> PROVE DupInv'
  BY <1>2, ShrinkStep, ZenonT(60)
<1>3. \A c \in Caller, p \in Packet :
        ResolveFound(c, p) \/ ResolveWait(c, p) \/ ResolveError(c, p)
          => UNCHANGED <<table, rx>>
  BY ZenonT(60) DEF ResolveFound, ResolveWait, ResolveError
<1>4. \A c \in Caller : TimedOut(c) \/ SpuriousWakeup(c) \/ ResumeFound(c)
        => UNCHANGED <<table, rx>>
  BY ZenonT(60) DEF TimedOut, SpuriousWakeup, ResumeFound
<1>5. Tick \/ UNCHANGED vars => UNCHANGED <<table, rx>>
  BY ZenonT(60) DEF Tick, vars
<1> QED
  BY <1>1, <1>2, <1>3, <1>4, <1>5, ReceiveDup, ArpRxFinishDup,
     ResolveQueryDup, ZenonT(60)
  DEF Next, arp_resolve, Resume

(* An address never has more entries than devices with a netif, and one    *)
(* more: the unlock between arp_rx's lookup and its insert duplicates a    *)
(* binding, but not without limit.                                         *)
THEOREM DuplicatesLimited == Spec => []DuplicatesBounded
<1>1. DupInv => DuplicatesBounded
  <2> SUFFICES ASSUME DupInv, NEW pa \in PA
               PROVE  Cardinality(EntriesFor(pa)) <= Cardinality(IPDev) + 1
    BY ZenonT(60) DEF DuplicatesBounded
  <2>1. EntriesFor(pa) \in SUBSET Slot /\ Learners(pa) \in SUBSET IPDev
    BY ZenonT(60) DEF EntriesFor, Learners
  <2>2. /\ Cardinality(EntriesFor(pa)) \in Nat
        /\ Cardinality(Learners(pa)) \in Nat /\ Cardinality(IPDev) \in Nat
    BY <2>1, Finite, ZenonT(60)
  <2>3. Bounded(EntriesFor(pa), Learners(pa))
    BY ZenonT(60) DEF DupInv
  <2> QED
    BY <2>2, <2>3, SMTT(60) DEF Bounded
<1>2. Spec => []DupInv
  BY Invariance, InitDup, NextDup, PTL DEF Spec
<1> QED
  BY <1>1, <1>2, PTL

-----------------------------------------------------------------------------
(* Arp implements ArpService.                                              *)

(* Frames handed to a driver appear in Sent, and nothing else does.        *)
LEMMA SentAdds ==
    ASSUME NEW F, frames' = frames \cup F
    PROVE  Sent' = Sent \cup {<<f.pkt, f.via, f.to>> : f \in F}
BY ZenonT(60) DEF Sent

(* One more frame, of packet p through its device.                         *)
LEMMA SentOne ==
    ASSUME NEW p, NEW ha, NEW by,
           frames' = frames \cup {Frame(p, ha, Via[p], by)}
    PROVE  Sent' = Sent \cup {Service!Transmission(p, ha)}
<1> DEFINE f == Frame(p, ha, Via[p], by)
<1>1. f.pkt = p /\ f.via = Via[p] /\ f.to = ha
  BY ZenonT(60) DEF Frame
<1> HIDE DEF f
<1>2. {<<g.pkt, g.via, g.to>> : g \in {f}} = {<<p, Via[p], ha>>}
  BY <1>1, ZenonT(60)
<1>3. frames' = frames \cup {f}
  BY ZenonT(60) DEF f
<1> QED
  BY <1>2, <1>3, SentAdds, ZenonT(60) DEF Service!Transmission

(* A step of the first half of arp_rx is an answer to the service.         *)
LEMMA ReceiveServes ==
    ASSUME IInv, NEW d \in Dev, Receive(d)
    PROVE  \E b \in Announce, S, old \in SUBSET Packet :
               Service!Answer(b, S, old)
<1>1. PICK b \in Announce, ours \in BOOLEAN, op \in Op :
        ArpRx(d, b[1], b[2], ours, op)
  BY ZenonT(60) DEF Receive, Op
<1>2. b[1] \in PA /\ b[2] \in HA
  BY AddressAssumption, ZenonT(60)
<1>3. PICK swept, hit \in SUBSET Slot :
        RxEffect(d, b[1], b[2], ours, op, swept, hit)
  BY <1>1, <1>2, ArpRxEffect, ZenonT(60)
<1>4. /\ swept \cap hit = {}
      /\ \A i, j \in hit : i = j
      /\ \A i \in hit : table[i].pa = b[1]
      /\ frames' = frames \cup
           {Frame(table[i].data, b[2], table[i].netif, "table") :
              i \in {k \in hit : table[k].data # NoData}}
      /\ fate' = [p \in Packet |->
           IF \E i \in swept : table[i].data = p THEN "dropped"
           ELSE IF \E i \in hit : table[i].data = p THEN "sent"
           ELSE fate[p]]
  BY <1>3, ZenonT(60) DEF RxEffect
<1> DEFINE S == {p \in Packet : \E i \in hit : table[i].data = p}
           old == {p \in Packet : \E i \in swept : table[i].data = p}
           F == {Frame(table[i].data, b[2], table[i].netif, "table") :
                   i \in {k \in hit : table[k].data # NoData}}
<1>5. \A i \in Slot : table[i].data # NoData =>
        /\ table[i].data \in Packet /\ fate[table[i].data] = "held"
        /\ table[i].netif = Via[table[i].data]
        /\ table[i].pa = Dst[table[i].data]
  BY SMTT(60)
  DEF IInv, TypeOK, Entry, HeldExactlyOnce, TableInv, HeldPacketPending
<1>6. \A p \in S \cup old : fate[p] = "held"
  BY <1>5, PacketAssumption, ZenonT(60)
<1>7. \A p, q \in S : p = q
  BY <1>4, ZenonT(60)
<1>8. S \cap old = {}
  <2>1. \A i \in hit, j \in swept :
          ~(table[i].data # NoData /\ table[i].data = table[j].data)
    BY <1>4, ZenonT(60) DEF IInv, HeldExactlyOnce
  <2> QED
    BY <2>1, PacketAssumption, ZenonT(60)
<1>9. \A p \in S : Dst[p] = b[1]
  BY <1>4, <1>5, PacketAssumption, ZenonT(60)
<1>10. fate' = [p \in Packet |-> IF p \in old THEN "dropped"
                                ELSE IF p \in S THEN "sent"
                                ELSE fate[p]]
  BY <1>4, ZenonT(60)
<1>11. Sent' = Sent \cup {Service!Transmission(p, b[2]) : p \in S}
  <2>1. Sent' = Sent \cup {<<f.pkt, f.via, f.to>> : f \in F}
    BY <1>4, SentAdds, ZenonT(60)
  <2>2. ASSUME NEW f \in F
        PROVE  \E p \in S : <<f.pkt, f.via, f.to>> = <<p, Via[p], b[2]>>
    <3>1. PICK i \in hit :
            /\ table[i].data # NoData
            /\ f = Frame(table[i].data, b[2], table[i].netif, "table")
      BY ZenonT(60)
    <3>2. f.pkt = table[i].data /\ f.via = table[i].netif /\ f.to = b[2]
      BY <3>1, ZenonT(60) DEF Frame
    <3>3. table[i].data \in S /\ table[i].netif = Via[table[i].data]
      BY <1>5, <3>1, ZenonT(60)
    <3> QED
      BY <3>2, <3>3, ZenonT(60)
  <2>3. ASSUME NEW p \in S
        PROVE  \E f \in F : <<f.pkt, f.via, f.to>> = <<p, Via[p], b[2]>>
    <3>1. PICK i \in hit : table[i].data = p
      BY ZenonT(60)
    <3>2. table[i].data # NoData /\ table[i].netif = Via[p]
      BY <1>5, <3>1, PacketAssumption, ZenonT(60)
    <3>3. Frame(p, b[2], Via[p], "table") \in F
      BY <3>1, <3>2, ZenonT(60)
    <3> QED
      BY <3>3, ZenonT(60) DEF Frame
  <2> HIDE DEF S, F
  <2>4. {<<f.pkt, f.via, f.to>> : f \in F} = {<<p, Via[p], b[2]>> : p \in S}
    <3> DEFINE A == {<<f.pkt, f.via, f.to>> : f \in F}
               B == {<<p, Via[p], b[2]>> : p \in S}
    <3>1. ASSUME NEW x \in A PROVE x \in B
      <4>1. PICK f \in F : x = <<f.pkt, f.via, f.to>>
        BY ZenonT(60)
      <4>2. PICK p \in S : <<f.pkt, f.via, f.to>> = <<p, Via[p], b[2]>>
        BY <2>2, ZenonT(60)
      <4> QED
        BY <4>1, <4>2, SMTT(60)
    <3>2. ASSUME NEW x \in B PROVE x \in A
      <4>1. PICK p \in S : x = <<p, Via[p], b[2]>>
        BY ZenonT(60)
      <4>2. PICK f \in F : <<f.pkt, f.via, f.to>> = <<p, Via[p], b[2]>>
        BY <2>3, ZenonT(60)
      <4> QED
        BY <4>1, <4>2, SMTT(60)
    <3> HIDE DEF A, B
    <3>3. A = B
      BY <3>1, <3>2, ZenonT(60)
    <3> QED
      BY <3>3, ZenonT(60) DEF A, B
  <2> QED
    BY <2>1, <2>4, ZenonT(60) DEF Service!Transmission
<1>12. S \in SUBSET Packet /\ old \in SUBSET Packet
  BY ZenonT(60)
<1> HIDE DEF S, old
<1>13. Service!Answer(b, S, old)
  BY <1>6, <1>7, <1>8, <1>9, <1>10, <1>11, ZenonT(60) DEF Service!Answer
<1> QED
  BY <1>12, <1>13, ZenonT(60)

(* The error return after a wait is the service giving up.                 *)
LEMMA ResumeErrorServes ==
    ASSUME IInv, NEW c \in Caller, ResumeError(c)
    PROVE  \E p \in Packet, old \in SUBSET Packet : Service!GiveUp(p, old)
<1> DEFINE i == cl[c].slot
           w == cl[c].pkt
           old == {p \in Packet : table[i].used /\ table[i].data = p}
<1>1. i \in Slot /\ w \in Packet /\ fate[w] = "waiting"
  BY ZenonT(60) DEF ResumeError, IInv, WaitersOwnPackets
<1>2. fate' = [p \in Packet |->
        IF p = w THEN "failed"
        ELSE IF table[i].used /\ table[i].data = p THEN "dropped"
        ELSE fate[p]]
  BY ZenonT(60) DEF ResumeError
<1>3. Sent' = Sent
  BY ZenonT(60) DEF ResumeError, Sent
<1> HIDE DEF i, w
<1>4. \A q \in old : fate[q] = "held"
  BY <1>1, PacketAssumption, ZenonT(60) DEF IInv, HeldExactlyOnce
<1>5. \A q, r \in old : q = r
  BY ZenonT(60)
<1>6. fate' = [p \in Packet |-> IF p = w THEN "failed"
                               ELSE IF p \in old THEN "dropped"
                               ELSE fate[p]]
  BY <1>2, ZenonT(60)
<1>7. old \in SUBSET Packet
  BY ZenonT(60)
<1> HIDE DEF old
<1>8. Service!GiveUp(w, old)
  BY <1>1, <1>3, <1>4, <1>5, <1>6, ZenonT(60) DEF Service!GiveUp
<1> QED
  BY <1>1, <1>7, <1>8, ZenonT(60)

(* The second half of an announced binding is an address of the service.   *)
LEMMA AnnouncedAddress ==
    ASSUME NEW pa, NEW ha, <<pa, ha>> \in Announce
    PROVE  ha \in Service!Addresses
<1>1. <<pa, ha>>[2] = ha
  BY ZenonT(60)
<1> QED
  BY <1>1, SMTT(60) DEF Service!Addresses

(* A hardware address of the table is announced, or still unknown.         *)
LEMMA TableAddress ==
    ASSUME IInv, NEW i \in Slot, table[i].used
    PROVE  table[i].ha \in Service!Addresses \cup {AnyHA}
<1>1. CASE table[i].ha # AnyHA
  <2>1. <<table[i].pa, table[i].ha>> \in Announce
    BY <1>1, ZenonT(60) DEF IInv, TableInv, TableAnnounced
  <2> QED
    BY <2>1, AnnouncedAddress, ZenonT(60)
<1> QED
  BY <1>1, ZenonT(60)

(* Every step of the ARP layer is a step of the service, or none.          *)
LEMMA ServiceStep == IInv /\ [Next]_vars => [Service!Next]_<<fate, Sent>>
<1> SUFFICES ASSUME IInv, [Next]_vars
             PROVE  Service!Next \/ UNCHANGED <<fate, Sent>>
  BY ZenonT(60)
<1>1. ASSUME NEW d \in Dev, Receive(d) PROVE Service!Next
  BY <1>1, ReceiveServes, ZenonT(60) DEF Service!Next
<1>2. ASSUME NEW c \in Caller, NEW p \in Packet, ResolveFound(c, p)
      PROVE  Service!Next
  <2>1. PICK i \in Slot :
          /\ table[i].used /\ table[i].pa = Dst[p] /\ table[i].ha # AnyHA
          /\ frames' = frames \cup {Frame(p, table[i].ha, Via[p], "cache")}
    BY <1>2, ZenonT(60) DEF ResolveFound, arp_table_select
  <2>2. fate[p] = "new" /\ fate' = [fate EXCEPT ![p] = "sent"]
    BY <1>2, ZenonT(60) DEF ResolveFound, Calls
  <2>3. <<Dst[p], table[i].ha>> \in Announce
    BY <2>1, ZenonT(60) DEF IInv, TableInv, TableAnnounced
  <2>4. Sent' = Sent \cup {Service!Transmission(p, table[i].ha)}
    BY <2>1, SentOne, ZenonT(60)
  <2>5. Service!SendNow(p, table[i].ha)
    BY <2>2, <2>3, <2>4, ZenonT(60) DEF Service!SendNow
  <2>6. table[i].ha \in Service!Addresses
    BY <2>3, AnnouncedAddress, ZenonT(60)
  <2> QED
    BY <2>5, <2>6, ZenonT(60) DEF Service!Next
<1>3. ASSUME NEW c \in Caller, NEW p \in Packet,
             \/ ResolveWait(c, p) \/ ResolveQuery(c, p) \/ ResolveError(c, p)
      PROVE  Service!Next
  <2>1. PICK f \in {"held", "waiting", "failed"} :
          fate' = [fate EXCEPT ![p] = f]
    BY <1>3, ZenonT(60) DEF ResolveWait, ResolveQuery, ResolveError
  <2>2. fate[p] = "new" /\ frames' = frames
    BY <1>3, ZenonT(60) DEF ResolveWait, ResolveQuery, ResolveError, Calls
  <2>3. Service!Take(p, f)
    BY <2>1, <2>2, ZenonT(60) DEF Service!Take, Sent
  <2> QED
    BY <2>3, ZenonT(60) DEF Service!Next
<1>4. ASSUME NEW c \in Caller, ResumeError(c) PROVE Service!Next
  BY <1>4, ResumeErrorServes, ZenonT(60) DEF Service!Next
<1>5. ASSUME NEW c \in Caller, ResumeFound(c) PROVE Service!Next
  <2> DEFINE i == cl[c].slot
             w == cl[c].pkt
  <2>1. i \in Slot /\ w \in Packet /\ fate[w] = "waiting"
    BY <1>5, ZenonT(60) DEF ResumeFound, IInv, WaitersOwnPackets
  <2>2. /\ table[i].used
        /\ fate' = [fate EXCEPT ![w] = "sent"]
        /\ frames' = frames \cup {Frame(w, table[i].ha, Via[w], "wait")}
    BY <1>5, ZenonT(60) DEF ResumeFound, GivesUp
  <2> HIDE DEF i, w
  <2>3. table[i].ha \in Service!Addresses \cup {AnyHA}
    BY <2>1, <2>2, TableAddress, ZenonT(60)
  <2>4. Sent' = Sent \cup {Service!Transmission(w, table[i].ha)}
    BY <2>2, SentOne, ZenonT(60)
  <2>5. Service!Proceed(w, table[i].ha)
    BY <2>1, <2>2, <2>3, <2>4, ZenonT(60) DEF Service!Proceed
  <2> QED
    BY <2>1, <2>3, <2>5, ZenonT(60) DEF Service!Next
<1>6. ASSUME UNCHANGED <<fate, frames>> PROVE UNCHANGED <<fate, Sent>>
  BY <1>6, ZenonT(60) DEF Sent
<1>7. \A d \in Dev : ArpRxFinish(d) => UNCHANGED <<fate, frames>>
  BY ZenonT(60) DEF ArpRxFinish
<1>8. \A c \in Caller :
        TimedOut(c) \/ SpuriousWakeup(c) => UNCHANGED <<fate, frames>>
  BY ZenonT(60) DEF TimedOut, SpuriousWakeup
<1>9. Tick \/ UNCHANGED vars => UNCHANGED <<fate, frames>>
  BY ZenonT(60) DEF Tick, vars
<1> QED
  BY <1>1, <1>2, <1>3, <1>4, <1>5, <1>6, <1>7, <1>8, <1>9, ZenonT(60)
  DEF Next, arp_resolve, Resume

(* For every table size and any number of threads, the ARP layer gives     *)
(* ip_tx_netdev the packet life cycle of ArpService.                       *)
THEOREM ServiceRefined == Spec => ServiceImplemented
<1>1. Init => Service!Init
  BY ZenonT(60) DEF Init, Service!Init, Sent
<1>2. IInv /\ [Next]_vars => [Service!Next]_<<fate, Sent>>
  BY ServiceStep, ZenonT(60)
<1> QED
  BY <1>1, <1>2, Invariance, PTL DEF Spec, ServiceImplemented, Service!Spec

-----------------------------------------------------------------------------
(* When arp_resolve's wait can be trusted.  FoundAfterWaitAnnounced fails  *)
(* in the code; what follows shows that there is only one way to it.       *)

(* A step clears no entry that a thread waits for, and goes on waiting     *)
(* for.                                                                    *)
WaitedEntryKept ==
    \A c \in Caller : cl[c].pc # "idle" /\ cl'[c].pc # "idle" =>
        table'[cl[c].slot].used

(* A waiting thread's slot still holds the entry it waits for.             *)
WaitInv ==
    \A c \in Caller : cl[c].pc # "idle" =>
        table[cl[c].slot].used /\ table[cl[c].slot].pa = Dst[cl[c].pkt]

(* An entry that stays in use keeps its address.                           *)
LEMMA EntryKeepsAddress ==
    ASSUME IInv, [Next]_vars, NEW i \in Slot, table[i].used, table'[i].used
    PROVE  table'[i].pa = table[i].pa
<1>1. ASSUME NEW d \in Dev, Receive(d) PROVE table'[i].pa = table[i].pa
  <2>1. PICK b \in Announce, ours \in BOOLEAN, op \in Op :
          ArpRx(d, b[1], b[2], ours, op)
    BY <1>1, ZenonT(60) DEF Receive, Op
  <2>2. b[1] \in PA /\ b[2] \in HA
    BY AddressAssumption, ZenonT(60)
  <2>3. PICK swept, hit \in SUBSET Slot :
          RxEffect(d, b[1], b[2], ours, op, swept, hit)
    BY <2>1, <2>2, ArpRxEffect, ZenonT(60)
  <2>4. \/ table'[i] = BlankEntry
        \/ table'[i] = Updated(table[i], b[2])
        \/ table'[i] = table[i]
    BY <2>3, ZenonT(60) DEF RxEffect
  <2>5. Updated(table[i], b[2]).pa = table[i].pa
    BY <2>2, UpdatedFields, SMTT(60) DEF IInv, TypeOK
  <2> QED
    BY <2>4, <2>5, BlankFields, ZenonT(60)
<1>2. ASSUME NEW d \in Dev, ArpRxFinish(d) PROVE table'[i] = table[i]
  BY <1>2, ZenonT(60) DEF ArpRxFinish, arp_table_freespace, IInv, TypeOK
<1>3. ASSUME NEW c \in Caller, NEW p \in Packet, arp_resolve(c, p)
      PROVE  table'[i] = table[i]
  BY <1>3, ZenonT(60)
  DEF arp_resolve, ResolveFound, ResolveWait, ResolveQuery, ResolveError,
      arp_table_freespace, IInv, TypeOK
<1>4. ASSUME NEW c \in Caller,
             TimedOut(c) \/ SpuriousWakeup(c) \/ ResumeFound(c)
      PROVE  table'[i] = table[i]
  BY <1>4, ZenonT(60) DEF TimedOut, SpuriousWakeup, ResumeFound
<1>5. ASSUME NEW c \in Caller, ResumeError(c) PROVE table'[i] = table[i]
  BY <1>5, BlankFields, ZenonT(60)
  DEF ResumeError, arp_entry_clear, IInv, TypeOK
<1>6. Tick \/ UNCHANGED vars => table'[i] = table[i]
  BY ZenonT(60) DEF Tick, vars
<1> QED
  BY <1>1, <1>2, <1>3, <1>4, <1>5, <1>6, ZenonT(60) DEF Next, Resume

(* A thread in arp_resolve has started to wait in this step, for an entry  *)
(* of its packet's next hop, or goes on with the wait it was in.           *)
LEMMA WaitContinues ==
    ASSUME IInv, [Next]_vars, NEW c \in Caller, cl'[c].pc # "idle"
    PROVE  \/ /\ cl[c].pc # "idle"
              /\ cl'[c].slot = cl[c].slot /\ cl'[c].pkt = cl[c].pkt
           \/ /\ table' = table
              /\ table[cl'[c].slot].used
              /\ table[cl'[c].slot].pa = Dst[cl'[c].pkt]
<1> DEFINE Same == /\ cl[c].pc # "idle"
                   /\ cl'[c].slot = cl[c].slot /\ cl'[c].pkt = cl[c].pkt
<1>1. ASSUME NEW S, cl' = Broadcast(S) PROVE Same
  BY <1>1, BroadcastEffect, ZenonT(60) DEF IInv
<1>2. ASSUME NEW d \in Dev, Receive(d) PROVE \E S : cl' = Broadcast(S)
  BY <1>2, ZenonT(60) DEF Receive, ArpRx
<1>3. ASSUME NEW d \in Dev, ArpRxFinish(d)
      PROVE  cl' = cl \/ \E S : cl' = Broadcast(S)
  BY <1>3, ZenonT(60) DEF ArpRxFinish
<1>4. ASSUME NEW k \in Caller, NEW p \in Packet, ResolveWait(k, p)
      PROVE  \/ Same
             \/ /\ table' = table
                /\ table[cl'[c].slot].used
                /\ table[cl'[c].slot].pa = Dst[cl'[c].pkt]
  <2>1. PICK i \in Slot :
          /\ table[i].used /\ table[i].pa = Dst[p]
          /\ cl' = [cl EXCEPT ![k] = [pc |-> "waiting", slot |-> i,
                                      pkt |-> p, deadline |-> now + 1]]
    BY <1>4, ZenonT(60) DEF ResolveWait, arp_table_select
  <2>2. table' = table
    BY <1>4, ZenonT(60) DEF ResolveWait
  <2>3. CASE k = c
    <3>1. cl'[c].slot = i /\ cl'[c].pkt = p
      BY <2>1, <2>3, SMTT(60) DEF IInv, TypeOK
    <3> QED
      BY <2>1, <2>2, <3>1, ZenonT(60)
  <2>4. CASE k # c
    BY <2>1, <2>4, ZenonT(60) DEF IInv, TypeOK
  <2> QED
    BY <2>3, <2>4, ZenonT(60)
<1>5. ASSUME NEW k \in Caller, NEW p \in Packet,
             ResolveFound(k, p) \/ ResolveQuery(k, p) \/ ResolveError(k, p)
      PROVE  cl' = cl
  BY <1>5, ZenonT(60) DEF ResolveFound, ResolveQuery, ResolveError
<1>6. ASSUME NEW k \in Caller, TimedOut(k) \/ SpuriousWakeup(k) PROVE Same
  <2>1. /\ cl[k].pc = "waiting"
        /\ \E r \in {"timedout", "signalled"} : cl' = [cl EXCEPT ![k].pc = r]
    BY <1>6, ZenonT(60) DEF TimedOut, SpuriousWakeup
  <2> QED
    BY <2>1, SMTT(60) DEF IInv, TypeOK, ClState
<1>7. ASSUME NEW k \in Caller, Resume(k) PROVE Same
  <2>1. cl' = [cl EXCEPT ![k] = IdleCl]
    BY <1>7, ZenonT(60) DEF Resume, ResumeError, ResumeFound
  <2> QED
    BY <2>1, ZenonT(60) DEF IInv, TypeOK, IdleCl
<1>8. cl' = cl => Same
  BY ZenonT(60)
<1>9. Tick \/ UNCHANGED vars => cl' = cl
  BY ZenonT(60) DEF Tick, vars
<1> HIDE DEF Same
<1>10. Same \/ /\ table' = table
               /\ table[cl'[c].slot].used
               /\ table[cl'[c].slot].pa = Dst[cl'[c].pkt]
  BY <1>1, <1>2, <1>3, <1>4, <1>5, <1>6, <1>7, <1>8, <1>9, ZenonT(60)
  DEF Next, arp_resolve
<1> QED
  BY <1>10, ZenonT(60) DEF Same

(* As long as no waited-for entry is cleared, a wait stays on the entry of *)
(* its packet's next hop.                                                  *)
LEMMA WaitStep ==
    IInv /\ WaitInv /\ [Next]_vars /\ [WaitedEntryKept]_vars => WaitInv'
<1> SUFFICES ASSUME IInv, WaitInv, [Next]_vars, [WaitedEntryKept]_vars,
                    NEW c \in Caller, cl'[c].pc # "idle"
             PROVE  /\ table'[cl'[c].slot].used
                    /\ table'[cl'[c].slot].pa = Dst[cl'[c].pkt]
  BY ZenonT(60) DEF WaitInv
<1>1. CASE /\ table' = table /\ table[cl'[c].slot].used
           /\ table[cl'[c].slot].pa = Dst[cl'[c].pkt]
  BY <1>1, ZenonT(60)
<1>2. CASE /\ cl[c].pc # "idle"
           /\ cl'[c].slot = cl[c].slot /\ cl'[c].pkt = cl[c].pkt
  <2>1. /\ cl[c].slot \in Slot /\ table[cl[c].slot].used
        /\ table[cl[c].slot].pa = Dst[cl[c].pkt]
    BY <1>2, ZenonT(60) DEF IInv, WaitersOwnPackets, WaitInv
  <2>2. table'[cl[c].slot].used
    BY <1>2, <2>1, ZenonT(60) DEF WaitedEntryKept, vars
  <2> QED
    BY <1>2, <2>1, <2>2, EntryKeepsAddress, ZenonT(60)
<1> QED
  BY <1>1, <1>2, WaitContinues, ZenonT(60)

(* A wait that is still on its entry returns an address announced for it.  *)
LEMMA FoundStep ==
    IInv /\ WaitInv /\ FoundAfterWaitAnnounced /\ [Next]_vars
        => FoundAfterWaitAnnounced'
<1> SUFFICES ASSUME IInv, WaitInv, FoundAfterWaitAnnounced, [Next]_vars,
                    NEW f \in frames', f.by = "wait", f.to # AnyHA,
                    f \notin frames
             PROVE  <<Dst[f.pkt], f.to>> \in Announce
  BY ZenonT(60) DEF FoundAfterWaitAnnounced
<1>1. ASSUME NEW d \in Dev, Receive(d) PROVE FALSE
  <2>1. PICK b \in Announce, ours \in BOOLEAN, op \in Op :
          ArpRx(d, b[1], b[2], ours, op)
    BY <1>1, ZenonT(60) DEF Receive, Op
  <2>2. b[1] \in PA /\ b[2] \in HA
    BY AddressAssumption, ZenonT(60)
  <2>3. PICK swept, hit \in SUBSET Slot :
          RxEffect(d, b[1], b[2], ours, op, swept, hit)
    BY <2>1, <2>2, ArpRxEffect, ZenonT(60)
  <2>4. frames' = frames \cup
          {Frame(table[i].data, b[2], table[i].netif, "table") :
             i \in {k \in hit : table[k].data # NoData}}
    BY <2>3, ZenonT(60) DEF RxEffect
  <2>5. PICK i \in hit : f = Frame(table[i].data, b[2], table[i].netif, "table")
    BY <2>4, ZenonT(60)
  <2> QED
    BY <2>5, SMTT(60) DEF Frame
<1>2. ASSUME NEW c \in Caller, NEW p \in Packet, arp_resolve(c, p) PROVE FALSE
  <2>1. PICK i \in Slot :
          frames' = frames \cup {Frame(p, table[i].ha, Via[p], "cache")}
    BY <1>2, ZenonT(60)
    DEF arp_resolve, ResolveFound, ResolveWait, ResolveQuery, ResolveError
  <2>2. f = Frame(p, table[i].ha, Via[p], "cache")
    BY <2>1, ZenonT(60)
  <2> QED
    BY <2>2, SMTT(60) DEF Frame
<1>3. ASSUME NEW c \in Caller, ResumeFound(c)
      PROVE  <<Dst[f.pkt], f.to>> \in Announce
  <2> DEFINE i == cl[c].slot
             w == cl[c].pkt
  <2>1. i \in Slot /\ table[i].used /\ table[i].pa = Dst[w]
    BY <1>3, ZenonT(60) DEF ResumeFound, IInv, WaitersOwnPackets, WaitInv
  <2>2. f = Frame(w, table[i].ha, Via[w], "wait")
    BY <1>3, ZenonT(60) DEF ResumeFound
  <2> HIDE DEF i, w
  <2>3. f.pkt = w /\ f.to = table[i].ha
    BY <2>2, ZenonT(60) DEF Frame
  <2> QED
    BY <2>1, <2>3, ZenonT(60) DEF IInv, TableInv, TableAnnounced
<1>4. \A d \in Dev : ArpRxFinish(d) => frames' = frames
  BY ZenonT(60) DEF ArpRxFinish
<1>5. \A c \in Caller : TimedOut(c) \/ SpuriousWakeup(c) \/ ResumeError(c)
        => frames' = frames
  BY ZenonT(60) DEF TimedOut, SpuriousWakeup, ResumeError
<1>6. Tick \/ UNCHANGED vars => frames' = frames
  BY ZenonT(60) DEF Tick, vars
<1> QED
  BY <1>1, <1>2, <1>3, <1>4, <1>5, <1>6, ZenonT(60) DEF Next, Resume

(* arp_resolve's wait returns the address of another host only if the      *)
(* entry it waits for was cleared meanwhile, by the patrol or by another   *)
(* thread's timeout: in a behaviour where that never happens, every        *)
(* address it returns was announced for the address it was asked for.      *)
THEOREM FoundUnlessCleared ==
    Spec /\ [][WaitedEntryKept]_vars => []FoundAfterWaitAnnounced
<1>1. Init => WaitInv /\ FoundAfterWaitAnnounced
  <2> SUFFICES ASSUME Init PROVE WaitInv /\ FoundAfterWaitAnnounced
    BY ZenonT(60)
  <2>1. frames = {} /\ \A c \in Caller : cl[c].pc = "idle"
    BY ZenonT(60) DEF Init, IdleCl
  <2> QED
    BY <2>1, ZenonT(60) DEF WaitInv, FoundAfterWaitAnnounced
<1> QED
  BY <1>1, WaitStep, FoundStep, Invariance, PTL DEF Spec

=============================================================================
