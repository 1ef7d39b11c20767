------------------------------ MODULE ArpService -----------------------------
(***************************************************************************)
(* What arp_resolve and arp_rx promise ip_tx_netdev for every packet,      *)
(* without the table, the clock and the threads.  A packet is refused,     *)
(* sent at once, saved until an answer comes, or its caller waits.  It is  *)
(* sent at most once, through its own device.  One that nobody waited for  *)
(* is sent to a hardware address announced for its next hop; one whose     *)
(* caller waited, to whatever address the wait returned.                   *)
(***************************************************************************)
CONSTANTS
    Packet, Dst, Via,   \* the packets, their next hops and devices
    Announce,           \* the bindings <<pa, ha>> the stations announce
    AnyHA               \* the address an entry has before an answer

VARIABLES
    fate,   \* what became of each packet
    sent    \* the frames handed to a driver: packet, device and address

Addresses == {b[2] : b \in Announce}

Transmission(p, ha) == <<p, Via[p], ha>>

Init ==
    /\ fate = [p \in Packet |-> "new"]
    /\ sent = {}

(* arp_resolve saves the packet, makes its caller wait, or fails.          *)
Take(p, f) ==
    /\ fate[p] = "new"
    /\ fate' = [fate EXCEPT ![p] = f]
    /\ UNCHANGED sent

(* The next hop's address is known.                                        *)
SendNow(p, ha) ==
    /\ fate[p] = "new"
    /\ <<Dst[p], ha>> \in Announce
    /\ fate' = [fate EXCEPT ![p] = "sent"]
    /\ sent' = sent \cup {Transmission(p, ha)}

(* A station announces b: one saved packet at most is sent, to it, and     *)
(* saved packets that are too old are dropped.                             *)
Answer(b, S, old) ==
    /\ \A p \in S \cup old : fate[p] = "held"
    /\ \A p, q \in S : p = q
    /\ S \cap old = {}
    /\ \A p \in S : Dst[p] = b[1]
    /\ fate' = [p \in Packet |-> IF p \in old THEN "dropped"
                                 ELSE IF p \in S THEN "sent"
                                 ELSE fate[p]]
    /\ sent' = sent \cup {Transmission(p, b[2]) : p \in S}

(* The wait for p ends with an error, and takes a saved packet with it.    *)
GiveUp(p, old) ==
    /\ fate[p] = "waiting"
    /\ \A q \in old : fate[q] = "held"
    /\ \A q, r \in old : q = r
    /\ fate' = [q \in Packet |-> IF q = p THEN "failed"
                                 ELSE IF q \in old THEN "dropped"
                                 ELSE fate[q]]
    /\ UNCHANGED sent

(* The wait for p ends with an address that the table holds.               *)
Proceed(p, ha) ==
    /\ fate[p] = "waiting"
    /\ ha \in Addresses \cup {AnyHA}
    /\ fate' = [fate EXCEPT ![p] = "sent"]
    /\ sent' = sent \cup {Transmission(p, ha)}

Next ==
    \/ \E p \in Packet, f \in {"held", "waiting", "failed"} : Take(p, f)
    \/ \E p \in Packet, ha \in Addresses : SendNow(p, ha)
    \/ \E b \in Announce, S, old \in SUBSET Packet : Answer(b, S, old)
    \/ \E p \in Packet, old \in SUBSET Packet : GiveUp(p, old)
    \/ \E p \in Packet, ha \in Addresses \cup {AnyHA} : Proceed(p, ha)

Spec == Init /\ [][Next]_<<fate, sent>>
=============================================================================
