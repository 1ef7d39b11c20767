------------------------------- MODULE Stack --------------------------------
(***************************************************************************)
(* The threads of the whole stack and what they block on: the receive      *)
(* thread of each device (Ethernet), application threads in                *)
(* tcp_api_connect, the TCP mutex they share, and the timed wait for an    *)
(* address that arp_resolve does while its caller holds that mutex.        *)
(*                                                                         *)
(* The protocols are reduced to what a thread may block on or dereference; *)
(* the modules Arp, IpFragment and Tcp model them.  An address is unknown, *)
(* asked for (with one packet held, to be sent through the device that     *)
(* asked) or known.  The ARP mutex is only held inside one action.         *)
(*                                                                         *)
(* Use of the interface, from the programs under test/: an interface is    *)
(* registered on an open device, a connection is started while the device  *)
(* of the default interface is open, and a device is closed when no other  *)
(* application thread is sending.                                          *)
(***************************************************************************)
EXTENDS Ethernet

CONSTANTS
    App,        \* application threads that connect
    PA,         \* addresses of peers
    Netif       \* the IP interfaces that may be allocated

ASSUME ThreadAssumption ==
    /\ Dev \cap App = {}
    /\ NULL \notin Dev \cup App \cup Netif
    /\ PA # {}

VARIABLES
    ifs,            \* the IPv4 interface listed on each device
    default_netif,  \* what ip_netif_by_peer returns
    freed,          \* interfaces freed because the device had one already
    arp,            \* the ARP table's view of each address
    mutex,          \* the holder of the TCP mutex
    pc,             \* where each thread is in the TCP and ARP code
    dst,            \* the address a thread sends to
    out             \* the device a waiting thread will send through

svars == <<ifs, default_netif, freed, arp, mutex, pc, dst, out>>
vars == <<evars, svars>>

(* A receive thread is named by its device.                                *)
Thread == Dev \cup App

Unknown == [st |-> "unknown", via |-> NULL]

(* Where a thread is between locking and unlocking the TCP mutex.          *)
Holding == {"locked", "arpwait", "woken", "timedout"}

TypeOK ==
    /\ EthernetTypeOK
    /\ ifs \in [Dev -> Netif \cup {NULL}]
    /\ default_netif \in Netif \cup {NULL}
    /\ freed \subseteq Netif
    /\ arp \in [PA -> [st : {"unknown", "asked", "known"},
                       via : Dev \cup {NULL}]]
    /\ mutex \in Thread \cup {NULL}
    /\ pc \in [Thread -> Holding \cup {"idle", "lock", "synsent"}]
    /\ dst \in [Thread -> PA]
    /\ out \in [Thread -> Dev \cup {NULL}]

Init ==
    /\ EthernetInit
    /\ ifs = [d \in Dev |-> NULL]
    /\ default_netif = NULL
    /\ freed = {}
    /\ arp = [p \in PA |-> Unknown]
    /\ mutex = NULL
    /\ pc = [x \in Thread |-> "idle"]
    /\ dst = [x \in Thread |-> CHOOSE p \in PA : TRUE]
    /\ out = [x \in Thread |-> NULL]

-----------------------------------------------------------------------------
(* Interfaces.                                                             *)

(* Mutant: the device, not its interface, becomes the default.             *)
ip_netif_register_Device(d) ==
    /\ Idle
    /\ priv[d] # NULL
    /\ default_netif' = d
    /\ UNCHANGED <<evars, ifs, freed, arp, mutex, pc, dst, out>>

(* A device has one interface of each family; a second one is refused, and *)
(* ip_netif_register frees it.                                             *)
netdev_add_netif(d, n) ==
    IF ifs[d] = NULL
    THEN ifs' = [ifs EXCEPT ![d] = n] /\ UNCHANGED freed
    ELSE freed' = freed \cup {n} /\ UNCHANGED ifs

(* The new interface becomes the default one before netdev_add_netif can   *)
(* refuse it.                                                              *)
ip_netif_register(d) ==
    LET unused == {n \in Netif \ freed : \A e \in Dev : ifs[e] # n}
        n == CHOOSE n \in unused : TRUE
    IN  /\ Idle
        /\ priv[d] # NULL
        /\ unused # {}
        /\ default_netif' = n
        /\ netdev_add_netif(d, n)
        /\ UNCHANGED <<evars, arp, mutex, pc, dst, out>>

(* The device of a listed interface.                                       *)
DeviceOf(n) == CHOOSE d \in Dev : ifs[d] = n

(* Mutant: an answer leaves by the default interface, too.                 *)
Out_Default(x) ==
    IF default_netif \in freed THEN x ELSE DeviceOf(default_netif)

(* The device a thread sends through: a receive thread answers through its *)
(* own (cb->iface is the interface the segment came by), a connection      *)
(* through the default interface's.                                        *)
Out(x) == IF x \in Dev THEN x ELSE DeviceOf(default_netif)

-----------------------------------------------------------------------------
(* Taking and releasing the TCP mutex.                                     *)

tcp_api_connect(t, p) ==
    /\ Idle
    /\ pc[t] = "idle"
    /\ default_netif \in Netif \ freed => CanTransmit(DeviceOf(default_netif))
    /\ pc' = [pc EXCEPT ![t] = "lock"]
    /\ dst' = [dst EXCEPT ![t] = p]
    /\ UNCHANGED <<evars, ifs, default_netif, freed, arp, mutex, out>>

Lock(x) ==
    /\ status = "run"
    /\ pc[x] = "lock"
    /\ mutex = NULL
    /\ mutex' = x
    /\ pc' = [pc EXCEPT ![x] = "locked"]
    /\ UNCHANGED <<evars, ifs, default_netif, freed, arp, dst, out>>

(* The thread leaves its critical section.  Each return has an unlock of   *)
(* its own (tcp.c:426, 450, 460, 466, 478); they are not told apart here.  *)
(* A receive thread is back in ethernet_rx_thread's loop.                  *)
Leave(x, to) ==
    /\ mutex' = NULL
    /\ pc' = [pc EXCEPT ![x] = to]
    /\ out' = [out EXCEPT ![x] = NULL]
    /\ IF x \in Dev THEN RxReturn(x) ELSE UNCHANGED evars
    /\ UNCHANGED <<ifs, default_netif, freed, dst>>

(* The segment was handed to the device or is held by ARP: a connection    *)
(* waits for its state to change, which releases the mutex.                *)
Sent(x) == Leave(x, IF x \in Dev THEN "idle" ELSE "synsent")

Failed(x) == Leave(x, "idle")

-----------------------------------------------------------------------------
(* Sending inside the critical section: tcp_tx, ip_tx, arp_resolve.        *)

Sending(x) ==
    /\ status = "run"
    /\ pc[x] = "locked"

(* Mutant: an error return of tcp_api_connect keeps the mutex.             *)
ConnectRefused_KeepsMutex(x) ==
    /\ Sending(x)
    /\ x \in App
    /\ pc' = [pc EXCEPT ![x] = "idle"]
    /\ UNCHANGED <<evars, ifs, default_netif, freed, arp, mutex, dst, out>>

(* tcp_api_connect returns -1: no interface, no port, no free table entry. *)
ConnectRefused(x) ==
    /\ Sending(x)
    /\ x \in App
    /\ Failed(x)
    /\ UNCHANGED arp

(* A refused interface is still the default one.                           *)
ConnectStale(x) ==
    /\ Sending(x)
    /\ x \in App
    /\ default_netif \in freed
    /\ Undefined("stale_netif")
    /\ UNCHANGED svars

(* The device a packet leaves by is closed.                                *)
SendClosed(d) == ethernet_tx_closed(d) /\ UNCHANGED svars

(* Every case transmits: the packet, or a request for the address.         *)
Resolve(x) ==
    /\ Sending(x)
    /\ x \in App => default_netif \in Netif \ freed
    /\ IF ~CanTransmit(Out(x)) THEN SendClosed(Out(x))
       ELSE \/ /\ arp[dst[x]].st = "known"
               /\ Sent(x)
               /\ UNCHANGED arp
            \/ /\ arp[dst[x]].st = "unknown"
               /\ arp' = [arp EXCEPT ![dst[x]] =
                            [st |-> "asked", via |-> Out(x)]]
               /\ Sent(x)
            \/ /\ arp[dst[x]].st = "asked"
               /\ pc' = [pc EXCEPT ![x] = "arpwait"]
               /\ out' = [out EXCEPT ![x] = Out(x)]
               /\ UNCHANGED <<evars, ifs, default_netif, freed, arp, mutex,
                              dst>>

(* Mutant: arp_resolve waits without a timeout.                            *)
TimedOut_Never(x) == FALSE

TimedOut(x) ==
    /\ status = "run"
    /\ pc[x] = "arpwait"
    /\ pc' = [pc EXCEPT ![x] = "timedout"]
    /\ UNCHANGED <<evars, ifs, default_netif, freed, arp, mutex, dst, out>>

(* pthread_cond_timedwait has returned.  A timeout clears the entry, and   *)
(* what it held; an entry cleared meanwhile is an error; otherwise the     *)
(* packet is sent.                                                         *)
ArpResume(x) ==
    /\ status = "run"
    /\ \/ /\ pc[x] = "timedout"
          /\ arp' = [arp EXCEPT ![dst[x]] = Unknown]
          /\ Failed(x)
       \/ /\ pc[x] = "woken"
          /\ arp[dst[x]].st = "unknown"
          /\ Failed(x)
          /\ UNCHANGED arp
       \/ /\ pc[x] = "woken"
          /\ arp[dst[x]].st # "unknown"
          /\ IF ~CanTransmit(out[x]) THEN SendClosed(out[x])
             ELSE Sent(x) /\ UNCHANGED arp

-----------------------------------------------------------------------------
(* What the receive threads do with a frame.                               *)

(* Waiters for the addresses in P are woken.                               *)
Woken(P) == [x \in Thread |-> IF pc[x] = "arpwait" /\ dst[x] \in P
                              THEN "woken" ELSE pc[x]]

(* arp_rx with the sender address p: the sweep may drop entries, then the  *)
(* entry asked for is completed and its packet sent; an address not in the *)
(* table is added when the message asks for this host.                     *)
arp_rx(d, p) ==
    /\ "arp" \in protos
    /\ \E swept \in SUBSET PA, add \in BOOLEAN :
         LET t == [q \in PA |-> IF q \in swept THEN Unknown ELSE arp[q]]
             hit == t[p].st # "unknown"
         IN  /\ add => ~hit /\ ifs[d] # NULL
             /\ t[p].st = "asked" => CanTransmit(t[p].via)
             /\ arp' = IF hit \/ add
                       THEN [t EXCEPT ![p] = [st |-> "known", via |-> NULL]]
                       ELSE t
             /\ pc' = Woken(IF hit \/ add THEN swept \cup {p} ELSE swept)
    /\ RxStep(d, "poll", "test")
    /\ UNCHANGED <<ifs, default_netif, freed, mutex, dst, out>>

(* The packet is held for a device that was closed since.                  *)
arp_rx_closed(d, p) ==
    /\ "arp" \in protos
    /\ rx[d].pc = "poll"
    /\ arp[p].st = "asked"
    /\ SendClosed(arp[p].via)

(* ip_rx hands a segment to tcp_rx, which locks the TCP mutex.             *)
tcp_rx(d, p) ==
    /\ {"ip", "tcp"} \subseteq protos
    /\ ifs[d] # NULL
    /\ RxFrame(d, "ip")
    /\ pc' = [pc EXCEPT ![d] = "lock"]
    /\ dst' = [dst EXCEPT ![d] = p]
    /\ UNCHANGED <<ifs, default_netif, freed, arp, mutex, out>>

(* A segment that is not answered.  Nobody signals a connection.           *)
tcp_rx_quiet(d) ==
    /\ Sending(d)
    /\ Failed(d)
    /\ UNCHANGED arp

(* pthread_cond_wait returns without a signal, with the mutex, after the   *)
(* state changed, and so does tcp_api_connect; with the state unchanged it *)
(* waits again, which is no step.                                          *)
ConnectReturns(t) ==
    /\ status = "run"
    /\ pc[t] = "synsent"
    /\ mutex = NULL
    /\ pc' = [pc EXCEPT ![t] = "idle"]
    /\ UNCHANGED <<evars, ifs, default_netif, freed, arp, mutex, dst, out>>

-----------------------------------------------------------------------------
(* The device calls.                                                       *)

Quiet == \A t \in App : pc[t] \in {"idle", "synsent"}

Close(d) == Quiet /\ ethernet_close(d) /\ UNCHANGED svars

Join(d) == Joined(d) /\ UNCHANGED svars

Devices ==
    \/ ethernet_init
    \/ \E p \in Proto : netdev_proto_register(p)
    \/ \E d \in Dev : \/ netdev_alloc(d) \/ ethernet_open(d)
                      \/ ethernet_run(d) \/ ethernet_stop(d)
                      \/ BadJoin(d)
                      \/ RxStart(d) \/ RxTest(d) \/ RxNothing(d)

Next ==
    \/ Devices /\ UNCHANGED svars
    \/ \E d \in Dev : \/ Close(d) \/ Join(d)
                      \/ ip_netif_register(d) \/ tcp_rx_quiet(d)
    \/ \E d \in Dev, p \in PA : \/ arp_rx(d, p) \/ arp_rx_closed(d, p)
                                \/ tcp_rx(d, p)
    \/ \E t \in App, p \in PA : tcp_api_connect(t, p)
    \/ \E t \in App : ConnectReturns(t)
    \/ \E x \in Thread : \/ Lock(x) \/ ConnectRefused(x) \/ ConnectStale(x)
                         \/ Resolve(x) \/ TimedOut(x) \/ ArpResume(x)

Spec == Init /\ [][Next]_vars

(* What the scheduler and the clock guarantee.  A thread that can run does *)
(* run: poll returns within a second, a wait for an address ends within a  *)
(* second, a join returns once the thread has ended.  A thread that finds  *)
(* the mutex free time and again gets it.                                  *)
Runs(x) ==
    \/ x \in Dev /\ (RxStart(x) \/ RxTest(x) \/ RxNothing(x)) /\ UNCHANGED svars
    \/ x \in Dev /\ tcp_rx_quiet(x)
    \/ ConnectRefused(x) \/ Resolve(x) \/ TimedOut(x) \/ ArpResume(x)

Fairness ==
    /\ WF_vars(\E d \in Dev : Join(d))
    /\ \A x \in Thread : SF_vars(Lock(x)) /\ WF_vars(Runs(x))

FairSpec == Spec /\ Fairness

-----------------------------------------------------------------------------
(* Properties.                                                             *)

(* While a device has a receive thread, the memory that thread works on is *)
(* the device's: neither ethernet_stop nor ethernet_close, with any        *)
(* reopening in between, frees it under the thread (ethernet.c:104).       *)
ReceiverHasDevice ==
    /\ status # "freed_priv"
    /\ \A d \in Dev : rx[d].pc # "none" =>
         /\ priv[d] # NULL
         /\ rx[d].pc # "start" => rx[d].priv = priv[d]

(* The only ways into undefined behaviour: a packet that ARP holds for a   *)
(* device outlives the device (arp.c sends it through entry->netif), the   *)
(* handle of a thread that could not be created is joined (ethernet.c:174, *)
(* and then the device has no receive thread that this would lose),        *)
(* or a connection uses an interface that ip_netif_register freed          *)
(* (ip.c:260 makes it the default one before it is refused).               *)
UndefinedOnlyKnown ==
    /\ status = "closed_device" =>
         \E p \in PA : arp[p].st = "asked" /\ ~CanTransmit(arp[p].via)
    /\ status = "bad_join" =>
         \E d \in Dev : thread[d] = "undefined" /\ rx[d].pc = "none"
    /\ status = "stale_netif" => freed # {}

(* The TCP mutex is held by the thread that is between locking and         *)
(* unlocking it, on every path out of tcp_api_connect and tcp_rx, also     *)
(* while that thread waits for an address.                                 *)
MutexHeldInside ==
    \A x \in Thread : pc[x] \in Holding <=> mutex = x

(* A receive thread ends only when ethernet_stop or ethernet_close waits   *)
(* for it: a terminate flag set for an earlier thread never ends a later   *)
(* one.                                                                    *)
ReceivesUntilAsked ==
    [][\A d \in Dev : rx[d].pc = "test" /\ rx'[d].pc = "done"
                        => call[d] # "none"]_vars

(* ethernet_stop and ethernet_close return, although the receive thread    *)
(* they wait for may be blocked on the TCP mutex whose holder waits for an *)
(* address only a receive thread could provide.                            *)
JoinReturns ==
    (\E d \in Dev : call[d] # "none") ~> (Idle \/ status # "run")

(* Whoever holds the TCP mutex releases it, although it may wait for an    *)
(* address with the mutex held (tcp.c:465) on the only thread that         *)
(* receives answers (ip.c:386).                                            *)
MutexReleased == mutex # NULL ~> (mutex = NULL \/ status # "run")
=============================================================================
