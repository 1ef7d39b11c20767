----------------------------- MODULE StackProofs -----------------------------
(***************************************************************************)
(* Proofs about Stack, for every number of devices, threads, interfaces,   *)
(* peers and reopenings: the safety properties, each a part of an          *)
(* inductive invariant (StackTxProofs).  It says of the devices who may    *)
(* use priv, and of the threads which device they will send through.       *)
(***************************************************************************)
EXTENDS StackTxProofs

(* arp_rx: the sweep, the answer, and the threads they wake.               *)
LEMMA ArpRxInv ==
    ASSUME EthInv, StackInv, NEW d \in Dev, NEW p \in PA, arp_rx(d, p)
    PROVE  EthInv' /\ StackInv'
<1>1. /\ RxStep(d, "poll", "test")
      /\ UNCHANGED <<ifs, default_netif, freed, mutex, dst, out>>
  BY ZenonT(60) DEF arp_rx
<1>2. /\ EthInv' /\ rx[d].pc = "poll" /\ \A e \in Dev \ {d} : rx'[e] = rx[e]
  BY <1>1, RxStepInv, ZenonT(60)
<1>3. UNCHANGED <<priv, call>> /\ status' = "run"
  BY <1>1, ZenonT(60) DEF RxStep
<1>4. PICK P : pc' = Woken(P)
  BY ZenonT(60) DEF arp_rx
<1>5. arp' \in [PA -> ArpEntry]
  <2> DEFINE t(S) == [q \in PA |-> IF q \in S THEN Unknown ELSE arp[q]]
             k == [st |-> "known", via |-> NULL]
  <2>1. PICK swept \in SUBSET PA : arp' = [t(swept) EXCEPT ![p] = k]
                                  \/ arp' = t(swept)
    BY ZenonT(60) DEF arp_rx
  <2>2. Unknown \in ArpEntry /\ k \in ArpEntry
    BY ZenonT(60) DEF Unknown, ArpEntry
  <2> HIDE DEF k
  <2>3. arp \in [PA -> ArpEntry]
    BY ZenonT(60) DEF StackInv, StackTypeOK
  <2>4. t(swept) \in [PA -> ArpEntry]
    BY <2>2, <2>3, ZenonT(60)
  <2> HIDE DEF t
  <2> QED
    BY <2>1, <2>2, <2>4, ZenonT(60)
<1>6. /\ pc \in [Thread -> Place]
      /\ \A x \in Thread : \/ pc'[x] = pc[x]
                           \/ pc[x] = "arpwait" /\ pc'[x] = "woken"
  <2>1. pc' = [x \in Thread |-> IF pc[x] = "arpwait" /\ dst[x] \in P
                               THEN "woken" ELSE pc[x]]
    BY <1>4, ZenonT(60) DEF Woken
  <2>2. \A x \in Thread : pc'[x] = IF pc[x] = "arpwait" /\ dst[x] \in P
                                   THEN "woken" ELSE pc[x]
    BY <2>1, ZenonT(60)
  <2>3. pc \in [Thread -> Place]
    BY ZenonT(60) DEF StackInv, StackTypeOK
  <2> QED
    BY <2>2, <2>3, ZenonT(60)
<1>7. /\ {"arpwait", "woken"} \subseteq Holding \cap Waits
      /\ "woken" \in Place /\ {"arpwait", "woken"} \cap Still = {}
      /\ "woken" \notin {"idle", "lock", "locked"} /\ "arpwait" # "idle"
  BY ZenonT(60) DEF Holding, Waits, Place, Still
<1>8. \A x \in Thread : /\ pc'[x] \in Place
                        /\ pc'[x] \in Holding <=> pc[x] \in Holding
                        /\ pc'[x] \in Waits => pc[x] \in Waits
                        /\ pc[x] \in Still => pc'[x] = pc[x]
                        /\ pc'[x] = "idle" <=> pc[x] = "idle"
                        /\ pc'[x] \in {"lock", "locked"} => pc'[x] = pc[x]
                        /\ pc'[x] # pc[x] => pc'[x] \in Holding
  BY <1>6, <1>7, ZenonT(60)
<1>9. MutexHeldInside'
  BY <1>1, <1>8, MutexKept, ZenonT(60)
<1>10. Dev \subseteq Thread /\ App \subseteq Thread
  BY ZenonT(60) DEF Thread
<1>11. StackTypeOK'
  <2>1. pc' \in [Thread -> Place]
    <3>1. pc' = [x \in Thread |-> IF pc[x] = "arpwait" /\ dst[x] \in P
                                 THEN "woken" ELSE pc[x]]
      BY <1>4, ZenonT(60) DEF Woken
    <3> QED
      BY <1>6, <1>7, <3>1, ZenonT(60)
  <2> QED
    BY <1>1, <1>5, <2>1, ZenonT(60) DEF StackInv, StackTypeOK
<1>12. \A e \in Dev : pc'[e] # "idle" =>
         pc'[e] \in Holding \cup {"lock"} /\ rx'[e].pc = "handler"
  <2>1. \A e \in Dev : pc'[e] # "idle" =>
          pc[e] \in Holding \cup {"lock"} /\ rx[e].pc = "handler"
    BY <1>8, <1>10, ZenonT(60) DEF StackInv
  <2>2. \A e \in Dev : rx[e].pc = "handler" => rx'[e].pc = "handler"
    BY <1>2, ZenonT(60)
  <2> QED
    BY <1>8, <1>10, <2>1, <2>2, ZenonT(60)
<1>13. \A e \in Dev : call'[e] = "close" => \A t \in App : pc'[t] \in Still
  BY <1>3, <1>8, <1>10, ZenonT(60) DEF StackInv
<1>14. \A t \in App :
         pc'[t] \in {"lock", "locked"} /\ default_netif' \in Netif \ freed' =>
           priv'[Listed(ifs', default_netif')] # NULL
  BY <1>1, <1>3, <1>8, <1>10, ZenonT(60) DEF StackInv
<1>15. \A x \in Thread : pc'[x] \in Waits =>
         /\ out'[x] \in Dev
         /\ x \in Dev => out'[x] = x
         /\ x \in App => priv'[out'[x]] # NULL
  BY <1>1, <1>3, <1>8, ZenonT(60) DEF StackInv
<1>16. default_netif' \in Netif \ freed' => Listed(ifs', default_netif') \in Dev
  BY <1>1, ZenonT(60) DEF StackInv
<1>17. UndefinedOnlyKnown'
  BY <1>3, ZenonT(60) DEF UndefinedOnlyKnown
<1>18. StackInv'
  BY <1>9, <1>11, <1>12, <1>13, <1>14, <1>15, <1>16, <1>17, ZenonT(60) DEF StackInv
<1> QED
  BY <1>2, <1>18, ZenonT(60)

(* A packet held for a device that was closed is the one known way to      *)
(* transmit through a closed device.                                       *)
LEMMA ArpRxClosedInv ==
    ASSUME EthInv, StackInv, NEW d \in Dev, NEW p \in PA, arp_rx_closed(d, p)
    PROVE  EthInv' /\ StackInv'
<1>1. /\ arp[p].st = "asked" /\ ~CanTransmit(arp[p].via)
      /\ Undefined("closed_device") /\ UNCHANGED svars
  BY ZenonT(60) DEF arp_rx_closed, SendClosed, ethernet_tx_closed
<1>2. "closed_device" \in Status \ {"freed_priv"}
  BY ZenonT(60) DEF Status
<1>3. status' = "closed_device" /\ UNCHANGED <<priv, arp>>
  BY <1>1, ZenonT(60) DEF Undefined, svars
<1>4. UndefinedOnlyKnown'
  BY <1>1, <1>3, ZenonT(60) DEF UndefinedOnlyKnown, CanTransmit
<1> QED
  BY <1>1, <1>2, <1>4, UndefinedInv, ZenonT(60)

(* So is a connection over a refused interface.                            *)
LEMMA ConnectStaleInv ==
    ASSUME EthInv, StackInv, NEW x \in Thread, ConnectStale(x)
    PROVE  EthInv' /\ StackInv'
<1>1. /\ default_netif \in freed /\ Undefined("stale_netif") /\ UNCHANGED svars
  BY ZenonT(60) DEF ConnectStale
<1>2. "stale_netif" \in Status \ {"freed_priv"}
  BY ZenonT(60) DEF Status
<1>3. status' = "stale_netif" /\ UNCHANGED freed
  BY <1>1, ZenonT(60) DEF Undefined, svars
<1>4. UndefinedOnlyKnown'
  BY <1>1, <1>3, ZenonT(60) DEF UndefinedOnlyKnown
<1> QED
  BY <1>1, <1>2, <1>4, UndefinedInv, ZenonT(60)

(* tcp_rx, up to the lock.                                                 *)
LEMMA TcpRxInv ==
    ASSUME EthInv, StackInv, NEW d \in Dev, NEW p \in PA, tcp_rx(d, p)
    PROVE  EthInv' /\ StackInv'
<1>1. /\ RxStep(d, "poll", "handler") /\ pc' = [pc EXCEPT ![d] = "lock"]
      /\ dst' = [dst EXCEPT ![d] = p]
      /\ UNCHANGED <<ifs, default_netif, freed, arp, mutex, out>>
  BY ZenonT(60) DEF tcp_rx, RxFrame
<1>2. /\ EthInv' /\ rx[d].pc = "poll" /\ rx'[d].pc = "handler"
      /\ \A e \in Dev \ {d} : rx'[e] = rx[e]
  BY <1>1, RxStepInv, ZenonT(60)
<1>3. UNCHANGED <<priv, call>> /\ status' = "run"
  BY <1>1, ZenonT(60) DEF RxStep
<1>4. /\ d \in Thread /\ d \notin App /\ pc[d] = "idle" /\ StackTypeOK
  BY <1>2, ThreadAssumption, ZenonT(60) DEF Thread, StackInv
<1>5. /\ pc' \in [Thread -> Place]
      /\ pc'[d] = "lock" /\ \A y \in Thread \ {d} : pc'[y] = pc[y]
  BY <1>1, <1>4, Moves, ZenonT(60) DEF Place
<1>6. /\ {"idle", "lock"} \cap Holding = {} /\ "lock" \notin Waits
      /\ "lock" \in Place
  BY ZenonT(60) DEF Holding, Waits, Place
<1>7. MutexHeldInside'
  BY <1>1, <1>4, <1>5, <1>6, MutexKept, ZenonT(60)
<1>8. dst' \in [Thread -> PA]
  BY <1>1, <1>4, ZenonT(60) DEF StackTypeOK
<1>9. StackInv'
  BY <1>1, <1>2, <1>3, <1>4, <1>5, <1>6, <1>7, <1>8, ThreadStep, ZenonT(60)
  DEF StackTypeOK
<1> QED
  BY <1>2, <1>9, ZenonT(60)

(* A connection's wait ends.                                               *)
LEMMA ConnectReturnsInv ==
    ASSUME EthInv, StackInv, NEW t \in App, ConnectReturns(t)
    PROVE  EthInv' /\ StackInv'
<1>1. /\ status = "run" /\ pc[t] = "synsent" /\ pc' = [pc EXCEPT ![t] = "idle"]
      /\ UNCHANGED <<evars, ifs, default_netif, freed, arp, mutex, dst, out>>
  BY ZenonT(60) DEF ConnectReturns
<1>2. UNCHANGED <<drivers, protos, devices, priv, opened, thread, terminate,
                  rx, call, status>>
  BY <1>1, ZenonT(60) DEF evars
<1>3. EthInv'
  BY <1>2, EthStays, ZenonT(60) DEF EthInv, EthernetTypeOK
<1>4. StackTypeOK /\ t \in Thread /\ t \notin Dev
  BY ThreadAssumption, ZenonT(60) DEF StackInv, Thread
<1>5. /\ pc' \in [Thread -> Place]
      /\ pc'[t] = "idle" /\ \A y \in Thread \ {t} : pc'[y] = pc[y]
  BY <1>1, <1>4, Moves, ZenonT(60) DEF Place
<1>6. /\ {"idle", "synsent"} \cap Holding = {} /\ "idle" \notin Waits
      /\ "idle" \in Place /\ "idle" \in Still
  BY ZenonT(60) DEF Holding, Waits, Place, Still
<1>7. MutexHeldInside'
  BY <1>1, <1>4, <1>5, <1>6, MutexKept, ZenonT(60)
<1>8. StackInv'
  BY <1>1, <1>2, <1>4, <1>5, <1>6, <1>7, ThreadStep, ZenonT(60) DEF StackTypeOK
<1> QED
  BY <1>3, <1>8, ZenonT(60)

(* A segment that is not answered.                                         *)
LEMMA QuietRxInv ==
    ASSUME EthInv, StackInv, NEW d \in Dev, tcp_rx_quiet(d)
    PROVE  EthInv' /\ StackInv'
<1>1. status = "run" /\ pc[d] = "locked" /\ Leave(d, "idle") /\ UNCHANGED arp
  BY ZenonT(60) DEF tcp_rx_quiet, Sending, Failed
<1>2. d \in Thread /\ "locked" \in Holding /\ arp \in [PA -> ArpEntry]
  BY ZenonT(60) DEF Thread, Holding, StackInv, StackTypeOK
<1> QED
  BY <1>1, <1>2, LeaveInv, ZenonT(60)

(* ip_netif_register: the default interface belongs to an open device, or  *)
(* is one that was refused.                                                *)
LEMMA RegisterNetifInv ==
    ASSUME EthInv, StackInv, NEW d \in Dev, ip_netif_register(d)
    PROVE  EthInv' /\ StackInv'
<1>1. PICK n \in Netif \ freed :
        /\ \A e \in Dev : ifs[e] # n
        /\ default_netif' = n
        /\ IF ifs[d] = NULL
           THEN ifs' = [ifs EXCEPT ![d] = n] /\ UNCHANGED freed
           ELSE freed' = freed \cup {n} /\ UNCHANGED ifs
  BY ZenonT(60) DEF ip_netif_register, netdev_add_netif
<1>2. /\ status = "run" /\ priv[d] # NULL
      /\ UNCHANGED <<evars, arp, mutex, pc, dst, out>>
  BY ZenonT(60) DEF ip_netif_register, netdev_add_netif, Idle
<1>3. UNCHANGED <<drivers, protos, devices, priv, opened, thread, terminate,
                  rx, call, status>>
  BY <1>2, ZenonT(60) DEF evars
<1>4. EthInv'
  BY <1>3, EthStays, ZenonT(60) DEF EthInv, EthernetTypeOK
<1>5. StackTypeOK'
  BY <1>1, <1>2, SMTT(60) DEF StackInv, StackTypeOK
<1>6. n \notin freed' => ifs'[d] = n /\ \A e \in Dev : ifs'[e] = n => e = d
  BY <1>1, SMTT(60) DEF StackInv, StackTypeOK
<1>7. n \notin freed' => Listed(ifs', n) = d
  BY <1>6, ZenonT(60) DEF Listed
<1>8. MutexHeldInside'
  BY <1>2, MutexKept, ZenonT(60)
<1>9. UndefinedOnlyKnown'
  BY <1>2, <1>3, ZenonT(60) DEF UndefinedOnlyKnown
<1>10. /\ default_netif' \in Netif \ freed' => Listed(ifs', default_netif') \in Dev
       /\ default_netif' \in Netif \ freed' =>
            priv'[Listed(ifs', default_netif')] # NULL
  BY <1>1, <1>2, <1>3, <1>7, ZenonT(60)
<1>11. StackInv'
  BY <1>2, <1>3, <1>5, <1>8, <1>9, <1>10, ZenonT(60) DEF StackInv
<1> QED
  BY <1>4, <1>11, ZenonT(60)

(* The device calls and the receive loop.                                  *)
LEMMA DevicesInv ==
    ASSUME EthInv, StackInv, Devices, UNCHANGED svars
    PROVE  EthInv' /\ StackInv'
<1>1. ASSUME \A d \in Dev : rx[d].pc = "handler" => rx'[d].pc = "handler",
             \A d \in Dev : priv[d] # NULL => priv'[d] = priv[d],
             \A d \in Dev : call'[d] = "close" => call[d] = "close",
             \/ status' = "run"
             \/ /\ status' = "bad_join"
                /\ \E d \in Dev : thread'[d] = "undefined" /\ rx'[d].pc = "none"
      PROVE  StackInv'
  <2>1. UndefinedOnlyKnown'
    BY <1>1, ZenonT(60) DEF UndefinedOnlyKnown
  <2> QED
    BY <1>1, <2>1, DeviceStep, ZenonT(60)
<1>2. CASE \/ ethernet_init
           \/ \E p \in Proto : netdev_proto_register(p)
           \/ \E d \in Dev : netdev_alloc(d)
  <2>1. UNCHANGED <<priv, rx, call>> /\ status' = "run"
    BY <1>2, ZenonT(60)
    DEF ethernet_init, netdev_driver_register, netdev_proto_register,
        netdev_alloc, Idle
  <2> QED
    BY <1>1, <1>2, <2>1, RegisterInv, ZenonT(60)
<1>3. ASSUME NEW d \in Dev, ethernet_open(d)
      PROVE  EthInv' /\ StackInv'
  <2>1. UNCHANGED <<rx, call>> /\ status' = "run"
    BY <1>3, ZenonT(60) DEF ethernet_open, Idle
  <2> QED
    BY <1>1, <1>3, <2>1, OpenInv, ZenonT(60)
<1>4. ASSUME NEW d \in Dev, ethernet_run(d)
      PROVE  EthInv' /\ StackInv'
  <2>1. /\ UNCHANGED <<priv, call>> /\ status' = "run" /\ rx[d].pc = "none"
        /\ \A e \in Dev \ {d} : rx'[e] = rx[e]
    BY <1>4, SMTT(60) DEF ethernet_run, Idle, EthInv, EthernetTypeOK
  <2> QED
    BY <1>1, <1>4, <2>1, RunInv, ZenonT(60)
<1>5. ASSUME NEW d \in Dev, ethernet_stop(d)
      PROVE  EthInv' /\ StackInv'
  <2>1. /\ UNCHANGED <<priv, rx>> /\ status' = "run"
        /\ \A e \in Dev : call'[e] = "close" => call[e] = "close"
    BY <1>5, SMTT(60) DEF ethernet_stop, Idle, EthInv, EthernetTypeOK
  <2> QED
    BY <1>1, <1>5, <2>1, StopInv, ZenonT(60)
<1>6. ASSUME NEW d \in Dev, BadJoin(d)
      PROVE  EthInv' /\ StackInv'
  <2>1. /\ UNCHANGED <<drivers, protos, devices, priv, opened, thread,
                       terminate, rx, call>>
        /\ status' = "bad_join" /\ thread[d] = "undefined"
    BY <1>6, ZenonT(60) DEF BadJoin, Undefined
  <2>2. "bad_join" \in Status \ {"freed_priv"}
    BY ZenonT(60) DEF Status
  <2>3. thread'[d] = "undefined" /\ rx'[d].pc = "none"
    BY <2>1, ZenonT(60) DEF EthInv
  <2> QED
    BY <1>1, <2>1, <2>2, <2>3, EthStays, ZenonT(60)
<1>7. ASSUME NEW d \in Dev, RxStart(d)
      PROVE  EthInv' /\ StackInv'
  <2>1. /\ UNCHANGED <<priv, call>> /\ status' = "run" /\ rx[d].pc = "start"
        /\ \A e \in Dev \ {d} : rx'[e] = rx[e]
    BY <1>7, ZenonT(60) DEF RxStart, EthInv, EthernetTypeOK
  <2> QED
    BY <1>1, <1>7, <2>1, RxStartInv, ZenonT(60)
<1>8. ASSUME NEW d \in Dev, RxTest(d)
      PROVE  EthInv' /\ StackInv'
  <2>1. /\ EthInv' /\ rx[d].pc = "test" /\ \A e \in Dev \ {d} : rx'[e] = rx[e]
        /\ RxStep(d, "test", IF terminate[d] = 1 THEN "done" ELSE "poll")
    BY <1>8, RxTestInv, ZenonT(60)
  <2>2. UNCHANGED <<priv, call>> /\ status' = "run"
    BY <2>1, ZenonT(60) DEF RxStep
  <2> QED
    BY <1>1, <2>1, <2>2, ZenonT(60)
<1>9. ASSUME NEW d \in Dev, RxNothing(d)
      PROVE  EthInv' /\ StackInv'
  <2>1. RxStep(d, "poll", "test")
    BY <1>9, ZenonT(60) DEF RxNothing
  <2>2. UNCHANGED <<priv, call>> /\ status' = "run"
    BY <2>1, ZenonT(60) DEF RxStep
  <2>3. /\ EthInv' /\ rx[d].pc = "poll" /\ \A e \in Dev \ {d} : rx'[e] = rx[e]
    BY <2>1, RxStepInv, ZenonT(60)
  <2> QED
    BY <1>1, <2>2, <2>3, ZenonT(60)
<1> QED
  BY <1>2, <1>3, <1>4, <1>5, <1>6, <1>7, <1>8, <1>9, ZenonT(60) DEF Devices

(* ethernet_close, before and after its join: no connection is sending,    *)
(* and the receive thread has left its handler.                            *)
LEMMA CloseInv ==
    ASSUME EthInv, StackInv, NEW d \in Dev, Close(d) \/ Join(d)
    PROVE  EthInv' /\ StackInv'
<1>1. CASE Close(d)
  <2>1. /\ Quiet /\ ethernet_close(d) /\ UNCHANGED svars /\ UNCHANGED rx
        /\ status' = "run"
    BY <1>1, ZenonT(60) DEF Close, ethernet_close, Idle
  <2>2. UndefinedOnlyKnown'
    BY <2>1, ZenonT(60) DEF UndefinedOnlyKnown
  <2> QED
    BY <2>1, <2>2, StopInv, DeviceStep, ZenonT(60)
<1>2. CASE Join(d)
  <2>1. Joined(d) /\ UNCHANGED svars
    BY <1>2, ZenonT(60) DEF Join
  <2>2. Joined(d) /\ UNCHANGED svars /\ status' = "run" /\ EthInv'
    <3>1. status' = "run"
      BY <2>1, ZenonT(60) DEF Joined
    <3> QED
      BY <2>1, <3>1, JoinedInv, ZenonT(60)
  <2>3. \A e \in Dev : rx[e].pc = "handler" => rx'[e].pc = "handler"
    <3>1. rx[d].pc # "handler" \/ thread[d] # "rx"
      BY <2>2, ZenonT(60) DEF Joined, Joins
    <3>2. thread[d] = "rx" \/ rx[d].pc = "none"
      BY ZenonT(60) DEF EthInv
    <3> QED
      BY <2>2, <3>1, <3>2, SMTT(60) DEF Joined, EthInv, EthernetTypeOK
  <2>4. \A e \in Dev : priv[e] # NULL =>
          priv'[e] = priv[e] \/ (e = d /\ call[d] = "close")
    <3>1. call[d] \in {"stop", "close"} /\ priv \in [Dev -> Nat]
      BY <2>2, ZenonT(60) DEF Joined, EthInv, EthernetTypeOK
    <3>2. CASE call[d] = "stop"
      BY <2>2, <3>2, ZenonT(60) DEF Joined
    <3>3. CASE call[d] = "close"
      BY <2>2, <3>1, <3>3, ZenonT(60) DEF Joined
    <3> QED
      BY <3>1, <3>2, <3>3, ZenonT(60)
  <2>5. call[d] = "close" => Quiet
    BY ZenonT(60) DEF StackInv, Quiet, Still
  <2>6. \A e \in Dev : call'[e] = "close" => call[e] = "close"
    BY <2>2, SMTT(60) DEF Joined, EthInv, EthernetTypeOK
  <2>7. UndefinedOnlyKnown'
    BY <2>2, ZenonT(60) DEF UndefinedOnlyKnown
  <2> QED
    BY <2>2, <2>3, <2>4, <2>5, <2>6, <2>7, DeviceStep, ZenonT(60)
<1> QED
  BY <1>1, <1>2, ZenonT(60)

-----------------------------------------------------------------------------
Inv == EthInv /\ StackInv

(* The invariant holds at first ...                                        *)
LEMMA StackInitInv == Init => Inv
<1> SUFFICES ASSUME Init PROVE Inv
  BY ZenonT(60)
<1>1. EthInv
  <2>1. NoRx \in [pc : RxPc, priv : Nat] /\ NoRx.pc = "none" /\ NULL \in Nat
    BY ZenonT(60) DEF NoRx, RxPc, NULL
  <2>2. EthernetTypeOK
    BY <2>1, ZenonT(60) DEF Init, EthernetInit, EthernetTypeOK, Status
  <2> QED
    BY <2>1, <2>2, ZenonT(60) DEF Init, EthernetInit, EthInv
<1>2. (CHOOSE p \in PA : TRUE) \in PA
  BY ThreadAssumption, ZenonT(60)
<1>3. StackTypeOK
  <2>1. Unknown \in ArpEntry /\ "idle" \in Place
    BY ZenonT(60) DEF Unknown, ArpEntry, Place
  <2> QED
    BY <1>2, <2>1, ZenonT(60) DEF Init, StackTypeOK
<1>4. MutexHeldInside
  BY ThreadAssumption, ZenonT(60) DEF Init, MutexHeldInside, Holding, Thread
<1>5. \A x \in Thread : pc[x] = "idle"
  BY ZenonT(60) DEF Init
<1>6. Dev \subseteq Thread /\ App \subseteq Thread
  BY ZenonT(60) DEF Thread
<1>7. default_netif \notin Netif /\ status = "run"
  BY ThreadAssumption, ZenonT(60) DEF Init, EthernetInit
<1>8. UndefinedOnlyKnown
  BY <1>7, ZenonT(60) DEF UndefinedOnlyKnown
<1>9. "idle" \notin Waits \cup {"lock", "locked"} /\ "idle" \in Still
  BY ZenonT(60) DEF Waits, Still
<1>10. StackInv
  BY <1>3, <1>4, <1>5, <1>6, <1>7, <1>8, <1>9, ZenonT(60) DEF StackInv
<1> QED
  BY <1>1, <1>10, ZenonT(60) DEF Inv

(* ... and every step keeps it.                                            *)
LEMMA StackNextInv == Inv /\ [Next]_vars => Inv'
<1> SUFFICES ASSUME EthInv, StackInv, [Next]_vars PROVE EthInv' /\ StackInv'
  BY ZenonT(60) DEF Inv
<1>1. CASE Devices /\ UNCHANGED svars
  BY <1>1, DevicesInv, ZenonT(60)
<1>2. ASSUME NEW d \in Dev,
             \/ Close(d) \/ Join(d) \/ ip_netif_register(d) \/ tcp_rx_quiet(d)
      PROVE  EthInv' /\ StackInv'
  BY <1>2, CloseInv, RegisterNetifInv, QuietRxInv, ZenonT(60)
<1>3. ASSUME NEW d \in Dev, NEW p \in PA,
             arp_rx(d, p) \/ arp_rx_closed(d, p) \/ tcp_rx(d, p)
      PROVE  EthInv' /\ StackInv'
  BY <1>3, ArpRxInv, ArpRxClosedInv, TcpRxInv, ZenonT(60)
<1>4. ASSUME NEW t \in App, ConnectReturns(t) \/ \E p \in PA : tcp_api_connect(t, p)
      PROVE  EthInv' /\ StackInv'
  BY <1>4, ConnectReturnsInv, ConnectInv, ZenonT(60)
<1>5. ASSUME NEW x \in Thread, ConnectRefused(x)
      PROVE  EthInv' /\ StackInv'
  <2>1. /\ status = "run" /\ pc[x] = "locked" /\ x \in App /\ UNCHANGED arp
        /\ Leave(x, "idle")
    BY <1>5, ZenonT(60) DEF ConnectRefused, Sending, Failed
  <2>2. arp' \in [PA -> ArpEntry] /\ pc[x] \in Holding
    BY <2>1, ZenonT(60) DEF StackInv, StackTypeOK, Holding
  <2> QED
    BY <2>1, <2>2, LeaveInv, ZenonT(60)
<1>6. ASSUME NEW x \in Thread,
             \/ Lock(x) \/ ConnectStale(x) \/ Resolve(x) \/ TimedOut(x)
             \/ ArpResume(x)
      PROVE  EthInv' /\ StackInv'
  BY <1>6, LockInv, ConnectStaleInv, ResolveInv, TimedOutInv, ArpResumeInv,
     ZenonT(60)
<1>7. CASE UNCHANGED vars
  <2>1. UNCHANGED <<drivers, protos, devices, priv, opened, thread, terminate,
                    rx, call, status>> /\ UNCHANGED svars
    BY <1>7, ZenonT(60) DEF vars, evars
  <2>2. EthInv'
    BY <2>1, EthStays, ZenonT(60) DEF EthInv, EthernetTypeOK
  <2>3. UndefinedOnlyKnown'
    BY <2>1, ZenonT(60) DEF StackInv, UndefinedOnlyKnown, CanTransmit, svars
  <2> QED
    BY <2>1, <2>2, <2>3, DeviceStep, ZenonT(60)
<1> QED
  BY <1>1, <1>2, <1>3, <1>4, <1>5, <1>6, <1>7, ZenonT(60) DEF Next

(* The inductive invariant.                                                *)
THEOREM StackInvariance == Spec => []Inv
BY StackInitInv, StackNextInv, PTL DEF Spec

(* Every variable of the stack's threads and devices keeps its type.       *)
THEOREM StackTypes == Spec => []TypeOK
<1>1. Inv => TypeOK
  BY ZenonT(60)
  DEF Inv, EthInv, StackInv, StackTypeOK, TypeOK, Place, ArpEntry
<1> QED
  BY <1>1, StackInvariance, PTL

(* No receive thread ever works on a freed or foreign priv, however often  *)
(* its device is stopped, closed and opened again.                         *)
THEOREM ReceiverSafe == Spec => []ReceiverHasDevice
<1>1. Inv => ReceiverHasDevice
  BY ZenonT(60) DEF Inv, EthInv, ReceiverHasDevice
<1> QED
  BY <1>1, StackInvariance, PTL

(* The TCP mutex is held by the thread inside its critical section.        *)
THEOREM MutexSound == Spec => []MutexHeldInside
<1>1. Inv => MutexHeldInside
  BY ZenonT(60) DEF Inv, StackInv
<1> QED
  BY <1>1, StackInvariance, PTL

(* A packet that is sent or was waited for never meets a closed device:    *)
(* only one held by ARP does, and only a refused interface is used freed.  *)
THEOREM UndefinedKnown == Spec => []UndefinedOnlyKnown
<1>1. Inv => UndefinedOnlyKnown
  BY ZenonT(60) DEF Inv, StackInv
<1> QED
  BY <1>1, StackInvariance, PTL

-----------------------------------------------------------------------------
(* A receive thread is only done because of its loop test.                 *)
LEMMA DoneByTest ==
    ASSUME EthInv, Next, NEW d \in Dev, rx[d].pc # "done", rx'[d].pc = "done"
    PROVE  RxTest(d)
<1>1. rx \in [Dev -> [pc : RxPc, priv : Nat]]
  BY ZenonT(60) DEF EthInv, EthernetTypeOK
<1>2. ASSUME NEW e \in Dev, NEW from, NEW to, RxStep(e, from, to), to # "done"
      PROVE  FALSE
  BY <1>1, <1>2, ZenonT(60) DEF RxStep
<1>3. ASSUME UNCHANGED evars PROVE FALSE
  BY <1>3, ZenonT(60) DEF evars
<1>4. ASSUME NEW what, Undefined(what) PROVE FALSE
  BY <1>4, ZenonT(60) DEF Undefined
<1>5. ASSUME NEW x, NEW to, Leave(x, to) PROVE FALSE
  <2>1. CASE x \in Dev
    BY <1>2, <1>5, <2>1, ZenonT(60) DEF Leave, RxReturn
  <2>2. CASE x \notin Dev
    BY <1>3, <1>5, <2>2, ZenonT(60) DEF Leave
  <2> QED
    BY <2>1, <2>2, ZenonT(60)
<1>6. CASE Devices
  <2>1. ASSUME UNCHANGED rx PROVE FALSE
    BY <2>1, ZenonT(60)
  <2>2. ASSUME \/ ethernet_init \/ \E p \in Proto : netdev_proto_register(p)
               \/ \E e \in Dev : \/ netdev_alloc(e) \/ ethernet_open(e)
                                 \/ ethernet_stop(e)
        PROVE  FALSE
    BY <2>1, <2>2, ZenonT(60)
    DEF ethernet_init, netdev_driver_register, netdev_proto_register,
        netdev_alloc, ethernet_open, ethernet_stop
  <2>3. ASSUME NEW e \in Dev, ethernet_run(e) \/ RxStart(e) PROVE FALSE
    BY <1>1, <2>3, SMTT(60) DEF ethernet_run, RxStart
  <2>4. ASSUME NEW e \in Dev, BadJoin(e) PROVE FALSE
    BY <1>4, <2>4, ZenonT(60) DEF BadJoin
  <2>5. ASSUME NEW e \in Dev, RxNothing(e) PROVE FALSE
    BY <1>2, <2>5, ZenonT(60) DEF RxNothing
  <2>6. ASSUME NEW e \in Dev, RxTest(e), e # d PROVE FALSE
    <3>1. rx'[d] = rx[d]
      BY <2>6, RxTestInv, ZenonT(60)
    <3> QED
      BY <3>1, ZenonT(60)
  <2> QED
    BY <1>6, <2>2, <2>3, <2>4, <2>5, <2>6, ZenonT(60) DEF Devices
<1>7. ASSUME NEW e \in Dev,
             Close(e) \/ Join(e) \/ ip_netif_register(e) \/ tcp_rx_quiet(e)
      PROVE  FALSE
  <2>1. CASE Close(e)
    BY <2>1, ZenonT(60) DEF Close, ethernet_close
  <2>2. CASE Join(e)
    BY <1>1, <2>2, ZenonT(60) DEF Join, Joined, NoRx
  <2>3. CASE ip_netif_register(e)
    BY <1>3, <2>3, ZenonT(60) DEF ip_netif_register, netdev_add_netif
  <2>4. CASE tcp_rx_quiet(e)
    BY <1>5, <2>4, ZenonT(60) DEF tcp_rx_quiet, Failed
  <2> QED
    BY <1>7, <2>1, <2>2, <2>3, <2>4, ZenonT(60)
<1>8. ASSUME NEW e \in Dev, NEW p \in PA,
             arp_rx(e, p) \/ arp_rx_closed(e, p) \/ tcp_rx(e, p)
      PROVE  FALSE
  <2>1. CASE arp_rx_closed(e, p)
    BY <1>4, <2>1, ZenonT(60) DEF arp_rx_closed, SendClosed, ethernet_tx_closed
  <2>2. CASE arp_rx(e, p) \/ tcp_rx(e, p)
    <3>1. RxStep(e, "poll", "test") \/ RxStep(e, "poll", "handler")
      BY <2>2, ZenonT(60) DEF arp_rx, tcp_rx, RxFrame
    <3> QED
      BY <1>2, <3>1, ZenonT(60)
  <2> QED
    BY <1>8, <2>1, <2>2, ZenonT(60)
<1>9. ASSUME NEW t \in App, ConnectReturns(t) \/ \E p \in PA : tcp_api_connect(t, p)
      PROVE  FALSE
  BY <1>3, <1>9, ZenonT(60) DEF ConnectReturns, tcp_api_connect
<1>10. ASSUME NEW x \in Thread,
             \/ Lock(x) \/ ConnectRefused(x) \/ ConnectStale(x) \/ Resolve(x)
             \/ TimedOut(x) \/ ArpResume(x)
      PROVE  FALSE
  <2>1. CASE Lock(x) \/ TimedOut(x)
    BY <1>3, <2>1, ZenonT(60) DEF Lock, TimedOut
  <2>2. CASE ConnectStale(x)
    BY <1>4, <2>2, ZenonT(60) DEF ConnectStale
  <2>3. ASSUME NEW e, SendClosed(e) PROVE FALSE
    BY <1>4, <2>3, ZenonT(60) DEF SendClosed, ethernet_tx_closed
  <2>4. ASSUME Sent(x) \/ Failed(x) PROVE FALSE
    BY <1>5, <2>4, ZenonT(60) DEF Sent, Failed
  <2>5. CASE ConnectRefused(x)
    BY <2>4, <2>5, ZenonT(60) DEF ConnectRefused
  <2>6. CASE Resolve(x)
    BY <1>3, <2>3, <2>4, <2>6, ZenonT(60) DEF Resolve
  <2>7. CASE ArpResume(x)
    BY <2>3, <2>4, <2>7, ZenonT(60) DEF ArpResume
  <2> QED
    BY <1>10, <2>1, <2>2, <2>5, <2>6, <2>7, ZenonT(60)
<1> QED
  BY <1>6, <1>7, <1>8, <1>9, <1>10, ZenonT(60) DEF Next

(* A receive thread ends only while ethernet_stop or ethernet_close waits  *)
(* for it: the flag of an earlier stop never ends a later thread.          *)
THEOREM ReceivesOn == Spec => ReceivesUntilAsked
<1>1. ASSUME Inv, [Next]_vars
      PROVE  [\A d \in Dev : rx[d].pc = "test" /\ rx'[d].pc = "done"
                               => call[d] # "none"]_vars
  <2> SUFFICES ASSUME Next, NEW d \in Dev, rx[d].pc = "test", rx'[d].pc = "done"
               PROVE  call[d] # "none"
    BY <1>1, ZenonT(60)
  <2>1. EthInv /\ rx[d].pc # "done"
    BY <1>1, ZenonT(60) DEF Inv
  <2>2. RxTest(d)
    BY <2>1, DoneByTest, ZenonT(60)
  <2>3. RxStep(d, "test", IF terminate[d] = 1 THEN "done" ELSE "poll")
    BY <2>1, <2>2, RxTestInv, ZenonT(60)
  <2>4. terminate[d] = 1
    <3>1. rx \in [Dev -> [pc : RxPc, priv : Nat]]
      BY <2>1, ZenonT(60) DEF EthInv, EthernetTypeOK
    <3> QED
      BY <2>3, <3>1, ZenonT(60) DEF RxStep
  <2> QED
    BY <2>1, <2>4, ZenonT(60) DEF EthInv
<1> QED
  BY <1>1, StackInvariance, PTL DEF Spec, ReceivesUntilAsked

-----------------------------------------------------------------------------
(* Use of the stack that avoids the three known causes of undefined        *)
(* behaviour: no device is given a second interface, pthread_create does   *)
(* not fail, and a device goes away only when ARP holds no packet for it.  *)
CleanUse ==
    /\ freed' = {}
    /\ \A d \in Dev :
         /\ thread'[d] # "undefined"
         /\ priv[d] # NULL /\ priv'[d] = NULL
              => \A p \in PA : arp[p].st = "asked" => arp[p].via # d

HeldOpen ==
    \A p \in PA : arp[p].st = "asked" =>
        arp[p].via \in Dev /\ CanTransmit(arp[p].via)

CleanInv ==
    /\ HeldOpen
    /\ status = "run"

(* A step asks for an address through an open device, or leaves the        *)
(* questions that are open as they are.                                    *)
LEMMA AskedThroughOpen ==
    ASSUME Inv, Next, NEW p \in PA, arp'[p].st = "asked"
    PROVE  \/ arp'[p] = arp[p]
           \/ /\ arp'[p].via \in Dev /\ CanTransmit(arp'[p].via)
              /\ UNCHANGED priv
<1>1. CASE UNCHANGED arp
  BY <1>1, ZenonT(60)
<1>2. arp \in [PA -> ArpEntry]
  BY ZenonT(60) DEF Inv, StackInv, StackTypeOK
<1>3. \/ UNCHANGED svars
      \/ UNCHANGED arp
      \/ \E d \in Dev, q \in PA : arp_rx(d, q)
      \/ \E x \in Thread : Resolve(x) \/ ArpResume(x)
  BY ZenonT(60)
  DEF Next, Close, Join, ip_netif_register, tcp_rx_quiet, arp_rx_closed,
      SendClosed, tcp_rx, tcp_api_connect, ConnectReturns, Lock,
      ConnectRefused, ConnectStale, TimedOut
<1>4. ASSUME NEW d \in Dev, NEW q \in PA, arp_rx(d, q)
      PROVE  arp'[p] = arp[p]
  <2> DEFINE t(S) == [r \in PA |-> IF r \in S THEN Unknown ELSE arp[r]]
             k == [st |-> "known", via |-> NULL]
  <2>1. PICK swept \in SUBSET PA : arp' = [t(swept) EXCEPT ![q] = k]
                                  \/ arp' = t(swept)
    BY <1>4, ZenonT(60) DEF arp_rx
  <2>2. arp'[p] \in {k, Unknown, arp[p]}
    BY <2>1, ZenonT(60)
  <2>3. k.st # "asked" /\ Unknown.st # "asked"
    BY ZenonT(60) DEF Unknown
  <2> QED
    BY <2>2, <2>3, ZenonT(60)
<1>5. ASSUME NEW x \in Thread, Resolve(x)
      PROVE  \/ arp'[p] = arp[p]
             \/ /\ arp'[p].via \in Dev /\ CanTransmit(arp'[p].via)
                /\ UNCHANGED priv
  <2>1. CASE UNCHANGED arp
    BY <2>1, ZenonT(60)
  <2>2. CASE UNCHANGED svars
    BY <2>2, ZenonT(60) DEF svars
  <2>3. ASSUME arp' = [arp EXCEPT ![dst[x]] = [st |-> "asked", via |-> Out(x)]],
               Sent(x)
        PROVE  \/ arp'[p] = arp[p]
               \/ /\ arp'[p].via \in Dev /\ CanTransmit(arp'[p].via)
                  /\ UNCHANGED priv
    <3>1. Out(x) \in Dev /\ CanTransmit(Out(x))
      BY <1>5, SendsOpen, ZenonT(60) DEF Inv, Resolve, Sending
    <3>2. UNCHANGED priv
      BY <2>3, ZenonT(60) DEF Sent, Leave, RxReturn, RxStep, evars
    <3>3. arp'[p] = arp[p] \/ arp'[p] = [st |-> "asked", via |-> Out(x)]
      BY <1>2, <2>3, ZenonT(60)
    <3>4. [st |-> "asked", via |-> Out(x)].via = Out(x)
      BY ZenonT(60)
    <3> QED
      BY <3>1, <3>2, <3>3, <3>4, ZenonT(60)
  <2> QED
    BY <1>5, <2>1, <2>2, <2>3, ZenonT(60) DEF Resolve, SendClosed
<1>6. ASSUME NEW x \in Thread, ArpResume(x)
      PROVE  arp'[p] = arp[p]
  <2>1. CASE arp' = [arp EXCEPT ![dst[x]] = Unknown]
    <3>1. arp'[p] = arp[p] \/ arp'[p] = Unknown
      BY <1>2, <2>1, ZenonT(60)
    <3>2. Unknown.st # "asked"
      BY ZenonT(60) DEF Unknown
    <3> QED
      BY <3>1, <3>2, ZenonT(60)
  <2>2. CASE UNCHANGED arp
    BY <2>2, ZenonT(60)
  <2>3. CASE UNCHANGED svars
    BY <2>3, ZenonT(60) DEF svars
  <2> QED
    BY <1>6, <2>1, <2>2, <2>3, ZenonT(60) DEF ArpResume, SendClosed
<1> QED
  BY <1>1, <1>3, <1>4, <1>5, <1>6, ZenonT(60) DEF svars

(* With clean use, every address asked for was asked for through a device  *)
(* that is still open.                                                     *)
LEMMA CleanStep ==
    ASSUME Inv, Inv', CleanInv, [Next]_vars, [CleanUse]_vars
    PROVE  CleanInv'
<1>1. CASE UNCHANGED vars
  BY <1>1, ZenonT(60) DEF CleanInv, HeldOpen, CanTransmit, vars, evars, svars
<1>2. CASE Next /\ CleanUse
  <2>1. HeldOpen'
    <3> SUFFICES ASSUME NEW p \in PA, arp'[p].st = "asked"
                 PROVE  arp'[p].via \in Dev /\ priv'[arp'[p].via] # NULL
      BY ZenonT(60) DEF HeldOpen, CanTransmit
    <3>1. CASE arp'[p] = arp[p]
      BY <1>2, <3>1, ZenonT(60) DEF CleanInv, HeldOpen, CanTransmit, CleanUse
    <3>2. CASE /\ arp'[p].via \in Dev /\ CanTransmit(arp'[p].via)
               /\ UNCHANGED priv
      BY <3>2, ZenonT(60) DEF CanTransmit
    <3> QED
      BY <1>2, <3>1, <3>2, AskedThroughOpen, ZenonT(60)
  <2>2. UndefinedOnlyKnown' /\ status' \in Status /\ status' # "freed_priv"
    BY ZenonT(60) DEF Inv, StackInv, EthInv, EthernetTypeOK
  <2>3. status' # "closed_device"
    BY <2>1, <2>2, ZenonT(60) DEF UndefinedOnlyKnown, HeldOpen
  <2>4. status' # "bad_join" /\ status' # "stale_netif"
    BY <1>2, <2>2, ZenonT(60) DEF UndefinedOnlyKnown, CleanUse
  <2> QED
    BY <2>1, <2>2, <2>3, <2>4, ZenonT(60) DEF CleanInv, Status
<1> QED
  BY <1>1, <1>2, ZenonT(60) DEF vars

(* A program that gives each device one interface, whose threads can be    *)
(* created and that closes a device only when ARP holds no packet for it   *)
(* never runs into undefined behaviour, whatever its threads, the devices  *)
(* and the network interleave: there is no other cause.                    *)
THEOREM CleanUseDefined ==
    Spec /\ [][CleanUse]_vars => [](status = "run")
<1>1. Init => CleanInv
  BY SMTT(60) DEF Init, EthernetInit, CleanInv, HeldOpen, Unknown
<1>2. Inv /\ Inv' /\ CleanInv /\ [Next]_vars /\ [CleanUse]_vars => CleanInv'
  BY CleanStep, ZenonT(60)
<1>3. CleanInv => status = "run"
  BY ZenonT(60) DEF CleanInv
<1> QED
  BY <1>1, <1>2, <1>3, StackInvariance, PTL DEF Spec
=============================================================================
