--------------------------------- MODULE Arp ---------------------------------
(***************************************************************************)
(* The ARP layer (arp.c) with its only client, ip_tx_netdev (ip.c): the    *)
(* table of address bindings, the receive threads that run arp_rx, and the *)
(* threads that call arp_resolve to send an IP packet.                     *)
(*                                                                         *)
(* Every critical section under arp.c's mutex is one action.  arp_rx has   *)
(* two of them (ArpRx and ArpRxFinish), and arp_resolve leaves its own     *)
(* while it waits in pthread_cond_timedwait, so the threads interleave     *)
(* there.  A packet is a model value with a destination and an output      *)
(* device; the history variables fate and frames record what became of it. *)
(***************************************************************************)
EXTENDS Integers, FiniteSets

CONSTANTS
    ARP_TABLE_SIZE,         \* number of entries of arp_table
    ARP_TABLE_TIMEOUT_SEC,  \* age beyond which the patrol clears an entry
    PATROL_SEC,             \* seconds between two patrols (the literal 10)
    MaxTime,                \* bound: the clock stops here
    Dev,                    \* network devices, one receive thread each
    NoDev,                  \* the NULL netif
    Caller,                 \* threads that call arp_resolve
    PA, ZeroPA,             \* protocol (IP) addresses, and 0.0.0.0
    HA, ETHERNET_ADDR_ANY,  \* hardware addresses, and 00:00:00:00:00:00
    IPDev,                  \* the devices that have an IPv4 netif
    Announce,               \* the bindings <<pa, ha>> the stations announce
    Packet, NoData,         \* IP packets, and the NULL data pointer
    Dst, Via                \* each packet's next hop and output device

ASSUME TimingAssumption ==
    /\ ARP_TABLE_SIZE \in Nat
    /\ ARP_TABLE_TIMEOUT_SEC \in Nat
    /\ PATROL_SEC \in Nat
    /\ MaxTime \in Nat

ASSUME AddressAssumption ==
    /\ NoDev \notin Dev
    /\ ZeroPA \in PA
    /\ ETHERNET_ADDR_ANY \notin HA
    /\ IPDev \subseteq Dev
    /\ Announce \subseteq PA \X HA

(* A program has finitely many devices.                                    *)
ASSUME FiniteAssumption == IsFiniteSet(IPDev)

ASSUME PacketAssumption ==
    /\ NoData \notin Packet
    /\ Dst \in [Packet -> PA]
    /\ Via \in [Packet -> Dev]

VARIABLES
    now,        \* time(NULL), in seconds since arp_init
    timestamp,  \* arp.c's static timestamp: when the last patrol ran
    table,      \* arp_table
    rx,         \* each receive thread, between the two halves of arp_rx
    cl,         \* each caller of arp_resolve
    arpOut,     \* the ARP messages the last step handed to a driver
    fate,       \* history: what became of each packet
    frames      \* history: the IP frames handed to a driver

vars == <<now, timestamp, table, rx, cl, arpOut, fate, frames>>

Slot == 0 .. ARP_TABLE_SIZE - 1
AnyHA == ETHERNET_ADDR_ANY
ARP_OP_REQUEST == 1
ARP_OP_REPLY == 2
Op == {ARP_OP_REQUEST, ARP_OP_REPLY}

(* struct arp_entry *)
Entry == [used : BOOLEAN, pa : PA, ha : HA \cup {AnyHA}, timestamp : Nat,
          data : Packet \cup {NoData}, netif : Dev \cup {NoDev}]

(* "held": saved in an entry; "waiting": its sender waits in arp_resolve;  *)
(* "sent": handed to a driver; "dropped": freed with its entry; "failed":  *)
(* arp_resolve returned ARP_RESOLVE_ERROR.                                 *)
Fate == {"new", "held", "waiting", "sent", "dropped", "failed"}

(* An arp_rx between its two critical sections: the message, and merge.    *)
RxState == [pc : {"idle", "learn"}, spa : PA, sha : HA \cup {AnyHA},
            op : Op, merge : BOOLEAN]

(* An arp_resolve: "waiting" on the condition variable of an entry; then   *)
(* "signalled" (ret = 0) or "timedout" (ret = ETIMEDOUT), not yet running. *)
ClState == [pc : {"idle", "waiting", "signalled", "timedout"},
            slot : Slot \cup {ARP_TABLE_SIZE}, pkt : Packet \cup {NoData},
            deadline : Nat]

IdleRx == [pc |-> "idle", spa |-> ZeroPA, sha |-> AnyHA,
           op |-> ARP_OP_REQUEST, merge |-> FALSE]

IdleCl == [pc |-> "idle", slot |-> ARP_TABLE_SIZE, pkt |-> NoData,
           deadline |-> 0]

-----------------------------------------------------------------------------
(* Entries of the table.                                                   *)

BlankEntry == [used |-> FALSE, pa |-> ZeroPA, ha |-> AnyHA, timestamp |-> 0,
               data |-> NoData, netif |-> NoDev]

(* arp_table_freespace returns i: the first entry not in use.              *)
arp_table_freespace(t, i) ==
    ~t[i].used /\ \A j \in Slot : j < i => t[j].used

TableFull(t) == \A i \in Slot : t[i].used

(* arp_table_select returns i: the first entry in use for pa.              *)
arp_table_select(t, pa, i) ==
    /\ t[i].used /\ t[i].pa = pa
    /\ \A j \in Slot : j < i => ~(t[j].used /\ t[j].pa = pa)

NotInTable(t, pa) == \A i \in Slot : ~(t[i].used /\ t[i].pa = pa)

(* Mutants of arp_entry_clear: one field is not reset.                     *)
arp_entry_clear_KeepsHa(e) == [BlankEntry EXCEPT !.ha = e.ha]

arp_entry_clear_KeepsData(e) == [BlankEntry EXCEPT !.data = e.data]

arp_entry_clear(e) == BlankEntry

(* Mutant: the hardware address is not copied.                             *)
Inserted_NoHa(e, pa, ha) ==
    [e EXCEPT !.used = TRUE, !.pa = pa, !.timestamp = now]

(* The entry arp_table_insert fills in; data and netif are left alone.     *)
Inserted(e, pa, ha) ==
    [e EXCEPT !.used = TRUE, !.pa = pa, !.ha = ha, !.timestamp = now]

(* Mutant: the packet pointer survives the free.                           *)
Updated_KeepsData(e, ha) == [e EXCEPT !.ha = ha, !.timestamp = now]

(* The entry after arp_table_update: resolved, and its packet gone.        *)
Updated(e, ha) == [e EXCEPT !.ha = ha, !.timestamp = now, !.data = NoData]

(* The entry arp_resolve creates; ha is left as the free entry had it.     *)
Queried(e, p) ==
    [e EXCEPT !.used = TRUE, !.pa = Dst[p], !.timestamp = now,
              !.data = p, !.netif = Via[p]]

(* pthread_cond_broadcast on the condition variables of the slots S.       *)
Broadcast(S) ==
    [c \in Caller |-> IF cl[c].pc = "waiting" /\ cl[c].slot \in S
                      THEN [cl[c] EXCEPT !.pc = "signalled"]
                      ELSE cl[c]]

(* dev->ops->tx of packet p to hardware address ha through device d.       *)
Frame(p, ha, d, by) == [pkt |-> p, to |-> ha, via |-> d, by |-> by]

(* An ARP message sent through d: the address and hardware address of its  *)
(* target.                                                                 *)
Message(d, op, pa, ha) == [via |-> d, op |-> op, tpa |-> pa, tha |-> ha]

(* Mutant: only a repeated request is sent.                                *)
arp_send_request_OnlyRepeats(p) ==
    IF NotInTable(table, Dst[p]) THEN {}
    ELSE {Message(Via[p], ARP_OP_REQUEST, Dst[p], AnyHA)}

arp_send_request(p) == {Message(Via[p], ARP_OP_REQUEST, Dst[p], AnyHA)}

(* The end of arp_rx: only a request is answered.                          *)
arp_send_reply(d) ==
    IF rx[d].op = ARP_OP_REQUEST
    THEN {Message(d, ARP_OP_REPLY, rx[d].spa, rx[d].sha)}
    ELSE {}

-----------------------------------------------------------------------------
Init ==
    /\ now = 0
    /\ timestamp = 0
    /\ table = [i \in Slot |-> BlankEntry]
    /\ rx = [d \in Dev |-> IdleRx]
    /\ cl = [c \in Caller |-> IdleCl]
    /\ arpOut = {}
    /\ fate = [p \in Packet |-> "new"]
    /\ frames = {}

(* Mutant: an entry expires one second early.                              *)
Expired_Early(e) == e.used /\ now - e.timestamp >= ARP_TABLE_TIMEOUT_SEC

Expired(e) == e.used /\ now - e.timestamp > ARP_TABLE_TIMEOUT_SEC

(* The slots arp_table_patrol clears, when arp_rx runs it at all.          *)
Swept ==
    IF now - timestamp > PATROL_SEC
    THEN {i \in Slot : Expired(table[i])}
    ELSE {}

(* Mutant: the saved packet leaves through the device the answer came from. *)
OutDev_Receiver(e, d) == d

(* Mutant: the entry is reset before its netif is read.                    *)
OutDev_Cleared(e, d) == arp_entry_clear(e).netif

(* The device arp_table_update sends the saved packet through.             *)
OutDev(e, d) == e.netif

(* The first half of arp_rx on device d, up to the unlock: the patrol when *)
(* it is due, then arp_table_update.  The message is one that passes the   *)
(* validation; any other leaves everything unchanged.  Whether it is ours, *)
(* its target the unicast address of d's netif, is found after the unlock, *)
(* but netifs never change: the thread returns here when it is not.        *)
ArpRx(d, spa, sha, ours, op) ==
    LET swept == Swept
        t == [i \in Slot |-> IF i \in swept THEN arp_entry_clear(table[i])
                             ELSE table[i]]
        hit == {i \in Slot : arp_table_select(t, spa, i)}
        out == {i \in hit : t[i].data # NoData}
    IN  /\ rx[d].pc = "idle"
        /\ timestamp' = IF now - timestamp > PATROL_SEC THEN now ELSE timestamp
        /\ table' = [i \in Slot |-> IF i \in hit THEN Updated(t[i], sha)
                                    ELSE t[i]]
        /\ cl' = Broadcast(swept \cup hit)
        /\ frames' = frames \cup
             {Frame(t[i].data, sha, OutDev(t[i], d), "table") : i \in out}
        /\ fate' = [p \in Packet |->
             IF \E i \in swept : table[i].data = p THEN "dropped"
             ELSE IF \E i \in out : t[i].data = p THEN "sent"
             ELSE fate[p]]
        /\ rx' = [rx EXCEPT ![d] =
             IF ~ours THEN IdleRx
             ELSE [pc |-> "learn", spa |-> spa, sha |-> sha, op |-> op,
                   merge |-> hit # {}]]
        /\ arpOut' = {}
        /\ UNCHANGED <<now>>

(* Mutant: the sender is inserted although its entry was just updated.     *)
ToLearn_Always(d) == TRUE

ToLearn(d) == ~rx[d].merge

(* Mutant: the insertion wakes nobody.                                     *)
ArpRxFinish_NoBroadcast(d) ==
    /\ rx[d].pc = "learn"
    /\ rx' = [rx EXCEPT ![d] = IdleRx]
    /\ \/ /\ ToLearn(d)
          /\ \E i \in Slot :
               /\ arp_table_freespace(table, i)
               /\ table' = [table EXCEPT ![i] =
                              Inserted(table[i], rx[d].spa, rx[d].sha)]
       \/ /\ ~ToLearn(d) \/ TableFull(table)
          /\ UNCHANGED table
    /\ arpOut' = arp_send_reply(d)
    /\ UNCHANGED <<now, timestamp, cl, fate, frames>>

(* The second half of arp_rx: a message for this machine that updated no   *)
(* entry is inserted, when there is room; a request is answered.           *)
ArpRxFinish(d) ==
    /\ rx[d].pc = "learn"
    /\ rx' = [rx EXCEPT ![d] = IdleRx]
    /\ \/ /\ ToLearn(d)
          /\ \E i \in Slot :
               /\ arp_table_freespace(table, i)
               /\ table' = [table EXCEPT ![i] =
                              Inserted(table[i], rx[d].spa, rx[d].sha)]
               /\ cl' = Broadcast({i})
       \/ /\ ~ToLearn(d) \/ TableFull(table)
          /\ UNCHANGED <<table, cl>>
    /\ arpOut' = arp_send_reply(d)
    /\ UNCHANGED <<now, timestamp, fate, frames>>

-----------------------------------------------------------------------------
(* arp_resolve called by ip_tx_netdev for packet p on thread c.            *)

Calls(c, p) == cl[c].pc = "idle" /\ fate[p] = "new" /\ now < MaxTime

(* The binding is known: ARP_RESOLVE_FOUND, and ip_tx_netdev transmits.    *)
ResolveFound(c, p) ==
    /\ Calls(c, p)
    /\ \E i \in Slot :
         /\ arp_table_select(table, Dst[p], i)
         /\ table[i].ha # AnyHA
         /\ frames' = frames \cup {Frame(p, table[i].ha, Via[p], "cache")}
    /\ fate' = [fate EXCEPT ![p] = "sent"]
    /\ arpOut' = {}
    /\ UNCHANGED <<now, timestamp, table, rx, cl>>

(* A request is outstanding: repeat it, and wait one second at most.       *)
ResolveWait(c, p) ==
    /\ Calls(c, p)
    /\ \E i \in Slot :
         /\ arp_table_select(table, Dst[p], i)
         /\ table[i].ha = AnyHA
         /\ cl' = [cl EXCEPT ![c] = [pc |-> "waiting", slot |-> i, pkt |-> p,
                                     deadline |-> now + 1]]
    /\ arpOut' = arp_send_request(p)
    /\ fate' = [fate EXCEPT ![p] = "waiting"]
    /\ UNCHANGED <<now, timestamp, table, rx, frames>>

(* Nothing known: save the packet in a new entry, ask, and return          *)
(* ARP_RESOLVE_QUERY; the packet leaves when the answer arrives.           *)
ResolveQuery(c, p) ==
    /\ Calls(c, p)
    /\ NotInTable(table, Dst[p])
    /\ \E i \in Slot :
         /\ arp_table_freespace(table, i)
         /\ table' = [table EXCEPT ![i] = Queried(table[i], p)]
    /\ arpOut' = arp_send_request(p)
    /\ fate' = [fate EXCEPT ![p] = "held"]
    /\ UNCHANGED <<now, timestamp, rx, cl, frames>>

(* No entry and no room for one, or malloc fails: ARP_RESOLVE_ERROR.       *)
ResolveError(c, p) ==
    /\ Calls(c, p)
    /\ NotInTable(table, Dst[p])
    /\ fate' = [fate EXCEPT ![p] = "failed"]
    /\ arpOut' = {}
    /\ UNCHANGED <<now, timestamp, table, rx, cl, frames>>

(* Mutant: a wait without a timeout.                                       *)
TimedOut_Never(c) == FALSE /\ UNCHANGED <<vars, cl[c]>>

(* pthread_cond_timedwait ends: its deadline has passed...                 *)
TimedOut(c) ==
    /\ cl[c].pc = "waiting"
    /\ now >= cl[c].deadline
    /\ cl' = [cl EXCEPT ![c].pc = "timedout"]
    /\ arpOut' = {}
    /\ UNCHANGED <<now, timestamp, table, rx, fate, frames>>

(* ... or it returns 0 without a broadcast, as POSIX allows.               *)
SpuriousWakeup(c) ==
    /\ cl[c].pc = "waiting"
    /\ cl' = [cl EXCEPT ![c].pc = "signalled"]
    /\ arpOut' = {}
    /\ UNCHANGED <<now, timestamp, table, rx, fate, frames>>

(* The condition of arp_resolve's error return after the wait.             *)
GivesUp(c) == ~table[cl[c].slot].used \/ cl[c].pc = "timedout"

(* The rest of arp_resolve, once it holds the mutex again: an error, which *)
(* clears the entry if it is still in use, ...                             *)
ResumeError(c) ==
    LET i == cl[c].slot
    IN  /\ cl[c].pc \in {"signalled", "timedout"}
        /\ GivesUp(c)
        /\ table' = [table EXCEPT ![i] = IF @.used THEN arp_entry_clear(@)
                                         ELSE @]
        /\ fate' = [p \in Packet |->
             IF p = cl[c].pkt THEN "failed"
             ELSE IF table[i].used /\ table[i].data = p THEN "dropped"
             ELSE fate[p]]
        /\ cl' = [cl EXCEPT ![c] = IdleCl]
        /\ arpOut' = {}
        /\ UNCHANGED <<now, timestamp, rx, frames>>

(* ... or ARP_RESOLVE_FOUND with whatever the entry holds now.             *)
ResumeFound(c) ==
    LET i == cl[c].slot
        p == cl[c].pkt
    IN  /\ cl[c].pc \in {"signalled", "timedout"}
        /\ ~GivesUp(c)
        /\ frames' = frames \cup {Frame(p, table[i].ha, Via[p], "wait")}
        /\ fate' = [fate EXCEPT ![p] = "sent"]
        /\ cl' = [cl EXCEPT ![c] = IdleCl]
        /\ arpOut' = {}
        /\ UNCHANGED <<now, timestamp, table, rx>>

Tick ==
    /\ now < MaxTime
    /\ now' = now + 1
    /\ arpOut' = {}
    /\ UNCHANGED <<timestamp, table, rx, cl, fate, frames>>

Receive(d) ==
    \E b \in Announce :
        \/ \E op \in Op : d \in IPDev /\ ArpRx(d, b[1], b[2], TRUE, op)
        \/ ArpRx(d, b[1], b[2], FALSE, ARP_OP_REQUEST)

arp_resolve(c, p) ==
    \/ ResolveFound(c, p)
    \/ ResolveWait(c, p)
    \/ ResolveQuery(c, p)
    \/ ResolveError(c, p)

Resume(c) == ResumeError(c) \/ ResumeFound(c)

Next ==
    \/ \E d \in Dev : Receive(d) \/ ArpRxFinish(d)
    \/ \E c \in Caller, p \in Packet : arp_resolve(c, p)
    \/ \E c \in Caller : TimedOut(c) \/ SpuriousWakeup(c) \/ Resume(c)
    \/ Tick

Spec == Init /\ [][Next]_vars

(* The clock advances, and a thread that has work to do gets to run.       *)
Fairness ==
    /\ WF_vars(Tick)
    /\ \A d \in Dev : WF_vars(ArpRxFinish(d))
    /\ \A c \in Caller : WF_vars(TimedOut(c)) /\ WF_vars(Resume(c))

FairSpec == Spec /\ Fairness

-----------------------------------------------------------------------------
(* Properties.                                                             *)

(* Every variable keeps its type: the arp_table entries, the two halves of *)
(* arp_rx and the waits of arp_resolve.                                    *)
TypeOK ==
    /\ now \in Nat
    /\ timestamp \in Nat
    /\ table \in [Slot -> Entry]
    /\ rx \in [Dev -> RxState]
    /\ cl \in [Caller -> ClState]
    /\ arpOut \subseteq [via : Dev, op : Op, tpa : PA, tha : HA \cup {AnyHA}]
    /\ fate \in [Packet -> Fate]
    /\ frames \subseteq [pkt : Packet, to : HA \cup {AnyHA}, via : Dev,
                         by : {"table", "cache", "wait"}]

(* An entry that is not in use is blank.  arp_table_insert leaves data and *)
(* netif alone, and arp_resolve leaves ha alone, when they fill one in.    *)
FreeEntriesBlank == \A i \in Slot : ~table[i].used => table[i] = BlankEntry

(* A packet saved in the table is still to be sent: its entry is in use,   *)
(* has no hardware address yet, and is for the packet's own next hop and   *)
(* device, whatever arp_rx and other callers did to the slot before.       *)
HeldPacketPending ==
    \A i \in Slot : table[i].data # NoData =>
        /\ table[i].used
        /\ table[i].ha = AnyHA
        /\ table[i].pa = Dst[table[i].data]
        /\ table[i].netif = Via[table[i].data]

(* arp_resolve promised ARP_RESOLVE_QUERY callers to send their packet: it *)
(* is in exactly one entry, and no entry keeps a packet that was sent,     *)
(* dropped or given back.                                                  *)
HeldExactlyOnce ==
    /\ \A p \in Packet : fate[p] = "held" =>
         \E i \in Slot : table[i].data = p
    /\ \A i \in Slot : table[i].data # NoData => fate[table[i].data] = "held"
    /\ \A i, j \in Slot :
         table[i].data = table[j].data /\ table[i].data # NoData => i = j

(* An address of the table is bound to a hardware address that a station   *)
(* announced for it, across updates, recycled slots and duplicates.        *)
TableAnnounced ==
    \A i \in Slot : table[i].used /\ table[i].ha # AnyHA =>
        <<table[i].pa, table[i].ha>> \in Announce

(* The two halves of arp_rx and arp_resolve may give an address several    *)
(* entries, but only one of them is without a hardware address: the one    *)
(* that arp_table_update will complete is the one that was queried.        *)
OneQueryPerAddress ==
    \A i, j \in Slot :
        /\ table[i].used /\ table[i].ha = AnyHA
        /\ table[j].used /\ table[j].ha = AnyHA
        /\ table[i].pa = table[j].pa
        => i = j

AskedStep ==
    /\ \A i \in Slot :
         ~table[i].used /\ table'[i].used /\ table'[i].ha = AnyHA =>
             Message(table'[i].netif, ARP_OP_REQUEST, table'[i].pa, AnyHA)
                 \in arpOut'
    /\ \A c \in Caller :
         cl[c].pc = "idle" /\ cl'[c].pc = "waiting" =>
             Message(Via[cl'[c].pkt], ARP_OP_REQUEST,
                     table[cl'[c].slot].pa, AnyHA) \in arpOut'

(* arp_resolve never leaves an entry waiting, nor starts to wait for one,  *)
(* without a request for the address going out on the packet's device.     *)
AskedWhenWaiting == [][AskedStep]_vars

EntriesFor(pa) == {i \in Slot : table[i].used /\ table[i].pa = pa}

(* arp_rx looks an address up and inserts it in two critical sections, so  *)
(* an address can have several entries; but never more than one per device *)
(* with an IPv4 netif, and one made by arp_resolve.                        *)
DuplicatesBounded ==
    \A pa \in PA : Cardinality(EntriesFor(pa)) <= Cardinality(IPDev) + 1

(* A packet has one frame if it was sent and none otherwise: no packet is  *)
(* sent by arp_table_update and again after arp_resolve, or sent although  *)
(* arp_resolve reported an error for it.                                   *)
SentExactlyOnce ==
    /\ \A f, g \in frames : f.pkt = g.pkt => f = g
    /\ \A f \in frames : fate[f.pkt] = "sent"
    /\ \A p \in Packet : fate[p] = "sent" => \E f \in frames : f.pkt = p

(* A packet that waited in the table, or whose address was known when      *)
(* arp_resolve was called, goes to a hardware address announced for its    *)
(* next hop, through its own device, even if the answer came from another. *)
SentToAnnounced ==
    \A f \in frames : f.by \in {"table", "cache"} =>
        <<Dst[f.pkt], f.to>> \in Announce /\ f.via = Via[f.pkt]

(* A thread that waits in arp_resolve still owns its packet: nobody else   *)
(* waits with it, and its fate is not decided by what happens to the entry *)
(* meanwhile (cleared, recycled, resolved).                                *)
WaitersOwnPackets ==
    /\ \A c \in Caller : cl[c].pc # "idle" =>
         /\ cl[c].slot \in Slot
         /\ cl[c].pkt \in Packet
         /\ fate[cl[c].pkt] = "waiting"
    /\ \A c, k \in Caller :
         cl[c].pc # "idle" /\ cl[k].pc # "idle" /\ cl[c].pkt = cl[k].pkt
         => c = k

BindingKeptStep ==
    \A i \in Slot :
        table[i].used /\ table[i].ha # AnyHA /\ ~table'[i].used =>
            \/ now - table[i].timestamp > ARP_TABLE_TIMEOUT_SEC
            \/ \E c \in Caller : cl[c].pc = "timedout" /\ cl[c].slot = i

(* A known binding only leaves the table because it is too old or because  *)
(* a caller that waited for it gave up.                                    *)
BindingKept == [][BindingKeptStep]_vars

(* arp_resolve returns: no broadcast has to arrive for it, because its     *)
(* wait has a deadline.                                                    *)
CallReturns == \A c \in Caller : cl[c].pc = "waiting" ~> cl[c].pc = "idle"

(* No thread sleeps on an entry that has its answer.  A caller that gave   *)
(* up clears the entry without waking the others that wait for it          *)
(* (arp.c:329), so a slot can be recycled under a sleeping thread:         *)
(* whoever fills it in has to wake them all, arp_table_insert as well.     *)
NoLostWakeup ==
    \A c \in Caller : cl[c].pc = "waiting" => table[cl[c].slot].ha = AnyHA

(* "wait until reply come with timeout" (arp.c:324): a hardware address    *)
(* that arp_resolve returns after the wait is one announced for the        *)
(* address it was asked for.                                               *)
FoundAfterWaitAnnounced ==
    \A f \in frames : f.by = "wait" /\ f.to # AnyHA =>
        <<Dst[f.pkt], f.to>> \in Announce

-----------------------------------------------------------------------------
(* The frames as ArpService sees them: not how the address was found.      *)
Sent == {<<f.pkt, f.via, f.to>> : f \in frames}

Service == INSTANCE ArpService WITH sent <- Sent

(* The table, its patrols and the interleavings of arp_rx and arp_resolve  *)
(* implement the life of a packet that ip_tx_netdev relies on: refused,    *)
(* sent once through its own device, or lost while it waits, and never     *)
(* taken back once it was decided.                                         *)
ServiceImplemented == Service!Spec

=============================================================================
