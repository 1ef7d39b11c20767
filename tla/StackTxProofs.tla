---------------------------- MODULE StackTxProofs ----------------------------
(***************************************************************************)
(* Proofs about Stack: its inductive invariant, and that the device calls, *)
(* the receive threads' own steps and the sending side keep it.            *)
(***************************************************************************)
EXTENDS Stack, TLAPS

(* The devices: a receive thread works on its device's priv and can be     *)
(* joined, and only a device that a call waits for is told to terminate.   *)
EthInv ==
    /\ EthernetTypeOK
    /\ status # "freed_priv"
    /\ \A d \in Dev : rx[d].pc # "none" => thread[d] = "rx" /\ priv[d] # NULL
    /\ \A d \in Dev : rx[d].pc \notin {"none", "start"} => rx[d].priv = priv[d]
    /\ \A d \in Dev : priv[d] # NULL /\ terminate[d] = 1 => call[d] # "none"

-----------------------------------------------------------------------------
(* The device calls and the receive threads keep it.                       *)

(* A step that leaves the devices alone, or names undefined behaviour of   *)
(* another kind.                                                           *)
LEMMA EthStays ==
    ASSUME EthInv, status' \in Status \ {"freed_priv"},
           UNCHANGED <<drivers, protos, devices, priv, opened, thread,
                       terminate, rx, call>>
    PROVE  EthInv'
BY ZenonT(60) DEF EthInv, EthernetTypeOK

(* Registration and allocation.                                            *)
LEMMA RegisterInv ==
    ASSUME EthInv,
           \/ ethernet_init
           \/ \E p \in Proto : netdev_proto_register(p)
           \/ \E d \in Dev : netdev_alloc(d)
    PROVE  EthInv'
<1>1. UNCHANGED <<priv, opened, thread, terminate, rx, call, status>>
  BY ZenonT(60) DEF ethernet_init, netdev_driver_register,
                    netdev_proto_register, netdev_alloc
<1>2. /\ drivers' \subseteq {"ethernet"} /\ protos' \subseteq Proto
      /\ devices' \subseteq Dev
  <2>1. /\ drivers \subseteq {"ethernet"} /\ protos \subseteq Proto
        /\ devices \subseteq Dev
    BY ZenonT(60) DEF EthInv, EthernetTypeOK
  <2>2. CASE ethernet_init
    BY <2>1, <2>2, ZenonT(60) DEF ethernet_init, netdev_driver_register
  <2>3. ASSUME NEW p \in Proto, netdev_proto_register(p)
        PROVE  /\ drivers' = drivers /\ protos' \subseteq Proto
               /\ devices' = devices
    BY <2>1, <2>3, ZenonT(60) DEF netdev_proto_register
  <2>4. ASSUME NEW d \in Dev, netdev_alloc(d)
        PROVE  /\ drivers' = drivers /\ protos' = protos
               /\ devices' \subseteq Dev
    BY <2>1, <2>4, ZenonT(60) DEF netdev_alloc
  <2> QED
    BY <2>1, <2>2, <2>3, <2>4, ZenonT(60)
<1> QED
  BY <1>1, <1>2, ZenonT(60) DEF EthInv, EthernetTypeOK

(* ethernet_open gives the device a new priv.                              *)
LEMMA OpenInv ==
    ASSUME EthInv, NEW d \in Dev, ethernet_open(d)
    PROVE  EthInv' /\ \A e \in Dev : priv[e] # NULL => priv'[e] = priv[e]
<1>1. /\ priv[d] = NULL /\ priv' = [priv EXCEPT ![d] = opened[d] + 1]
      /\ thread' = [thread EXCEPT ![d] = "self"]
      /\ terminate' = [terminate EXCEPT ![d] = 0]
      /\ opened' = [opened EXCEPT ![d] = @ + 1]
      /\ UNCHANGED <<drivers, protos, devices, rx, call, status>>
  BY ZenonT(60) DEF ethernet_open
<1>2. rx[d].pc = "none"
  BY <1>1, ZenonT(60) DEF EthInv
<1>3. priv' \in [Dev -> Nat] /\ opened' \in [Dev -> Nat]
  BY <1>1, SMTT(60) DEF EthInv, EthernetTypeOK
<1>4. /\ thread' \in [Dev -> {"self", "rx", "undefined"}]
      /\ terminate' \in [Dev -> {0, 1}]
  BY <1>1, ZenonT(60) DEF EthInv, EthernetTypeOK
<1>5. EthernetTypeOK'
  BY <1>1, <1>3, <1>4, ZenonT(60) DEF EthInv, EthernetTypeOK
<1>6. /\ \A e \in Dev \ {d} : priv'[e] = priv[e] /\ thread'[e] = thread[e]
      /\ \A e \in Dev \ {d} : terminate'[e] = terminate[e]
      /\ terminate'[d] = 0
  BY <1>1, SMTT(60) DEF EthInv, EthernetTypeOK
<1> QED
  BY <1>1, <1>2, <1>5, <1>6, SMTT(60) DEF EthInv

(* ethernet_run starts the receive thread, or fails to.                    *)
LEMMA RunInv ==
    ASSUME EthInv, NEW d \in Dev, ethernet_run(d)
    PROVE  EthInv'
<1>1. /\ priv[d] # NULL /\ rx[d].pc = "none"
      /\ UNCHANGED <<drivers, protos, devices, priv, opened, terminate, call,
                     status>>
      /\ \/ /\ thread' = [thread EXCEPT ![d] = "rx"]
            /\ rx' = [rx EXCEPT ![d] = [pc |-> "start", priv |-> NULL]]
         \/ /\ thread' = [thread EXCEPT ![d] = "undefined"]
            /\ UNCHANGED rx
  BY ZenonT(60) DEF ethernet_run
<1>2. /\ thread' \in [Dev -> {"self", "rx", "undefined"}]
      /\ rx' \in [Dev -> [pc : RxPc, priv : Nat]]
  <2>1. [pc |-> "start", priv |-> NULL] \in [pc : RxPc, priv : Nat]
    BY ZenonT(60) DEF RxPc, NULL
  <2> QED
    BY <1>1, <2>1, SMTT(60) DEF EthInv, EthernetTypeOK
<1>3. EthernetTypeOK'
  BY <1>1, <1>2, ZenonT(60) DEF EthInv, EthernetTypeOK
<1>4. \A e \in Dev : \/ e # d /\ rx'[e] = rx[e] /\ thread'[e] = thread[e]
                     \/ e = d /\ rx'[e].pc = "none"
                     \/ e = d /\ rx'[e].pc = "start" /\ thread'[e] = "rx"
  BY <1>1, SMTT(60) DEF EthInv, EthernetTypeOK
<1> QED
  BY <1>1, <1>3, <1>4, SMTT(60) DEF EthInv

(* ethernet_stop and ethernet_close up to the join.  Only a device without *)
(* receive thread is closed at once.                                       *)
LEMMA StopInv ==
    ASSUME EthInv, NEW d \in Dev, ethernet_stop(d) \/ ethernet_close(d)
    PROVE  EthInv'
<1>1. UNCHANGED <<drivers, protos, devices, opened, thread, rx, status>>
  BY ZenonT(60) DEF ethernet_stop, ethernet_close
<1>2. CASE ~UNCHANGED call
  <2>1. PICK c \in {"stop", "close"} :
          /\ call' = [call EXCEPT ![d] = c] /\ UNCHANGED priv
          /\ terminate' = [terminate EXCEPT ![d] = 1]
    BY <1>2, ZenonT(60) DEF ethernet_stop, ethernet_close
  <2>2. /\ call' \in [Dev -> {"none", "stop", "close"}]
        /\ terminate' \in [Dev -> {0, 1}]
    BY <2>1, ZenonT(60) DEF EthInv, EthernetTypeOK
  <2>3. \A e \in Dev : \/ e = d /\ call'[e] # "none"
                       \/ call'[e] = call[e] /\ terminate'[e] = terminate[e]
    BY <2>1, SMTT(60) DEF EthInv, EthernetTypeOK
  <2>4. EthernetTypeOK'
    BY <1>1, <2>1, <2>2, ZenonT(60) DEF EthInv, EthernetTypeOK
  <2> QED
    BY <1>1, <2>1, <2>3, <2>4, SMTT(60) DEF EthInv
<1>3. CASE UNCHANGED call
  <2>1. thread[d] = "self" /\ priv' = [priv EXCEPT ![d] = NULL]
        /\ UNCHANGED terminate
    <3>1. ~ethernet_stop(d)
      BY <1>3, SMTT(60) DEF ethernet_stop, Idle, EthInv, EthernetTypeOK
    <3>2. thread[d] # "self" => call' = [call EXCEPT ![d] = "close"]
                                /\ call[d] = "none"
      BY <3>1, ZenonT(60) DEF ethernet_close, Idle
    <3> QED
      BY <1>3, <3>1, <3>2, ZenonT(60) DEF ethernet_close, EthInv, EthernetTypeOK
  <2>2. rx[d].pc = "none"
    BY <2>1, ZenonT(60) DEF EthInv
  <2>3. priv' \in [Dev -> Nat]
        /\ \A e \in Dev : IF e = d THEN priv'[e] = NULL ELSE priv'[e] = priv[e]
    BY <2>1, ZenonT(60) DEF EthInv, EthernetTypeOK, NULL
  <2>4. EthernetTypeOK'
    BY <1>1, <1>3, <2>1, <2>3, ZenonT(60) DEF EthInv, EthernetTypeOK
  <2> QED
    BY <1>1, <1>3, <2>1, <2>2, <2>3, <2>4, ZenonT(60) DEF EthInv
<1> QED
  BY <1>2, <1>3, ZenonT(60)

(* What they do after it: the receive thread is gone when priv is freed.   *)
LEMMA JoinedInv ==
    ASSUME EthInv, NEW d \in Dev, Joined(d)
    PROVE  EthInv'
<1>1. /\ call[d] # "none" /\ call' = [call EXCEPT ![d] = "none"]
      /\ rx' = [rx EXCEPT ![d] = IF thread[d] = "rx" THEN NoRx ELSE @]
      /\ UNCHANGED <<drivers, protos, devices, opened, status>>
      /\ IF call[d] = "stop"
         THEN /\ thread' = [thread EXCEPT ![d] = "self"]
              /\ terminate' = [terminate EXCEPT ![d] = 0]
              /\ UNCHANGED priv
         ELSE /\ priv' = [priv EXCEPT ![d] = NULL]
              /\ UNCHANGED <<thread, terminate>>
  BY ZenonT(60) DEF Joined
<1>2. NoRx \in [pc : RxPc, priv : Nat] /\ NoRx.pc = "none" /\ NULL \in Nat
  BY ZenonT(60) DEF NoRx, RxPc, NULL
<1>3. /\ call' \in [Dev -> {"none", "stop", "close"}]
      /\ rx' \in [Dev -> [pc : RxPc, priv : Nat]]
      /\ \A e \in Dev \ {d} : rx'[e] = rx[e] /\ call'[e] = call[e]
      /\ rx'[d].pc = "none"
  BY <1>1, <1>2, SMTT(60) DEF EthInv, EthernetTypeOK
<1>4. /\ thread' \in [Dev -> {"self", "rx", "undefined"}]
      /\ terminate' \in [Dev -> {0, 1}] /\ priv' \in [Dev -> Nat]
      /\ \A e \in Dev \ {d} : /\ thread'[e] = thread[e] /\ priv'[e] = priv[e]
                             /\ terminate'[e] = terminate[e]
      /\ priv'[d] = NULL \/ terminate'[d] = 0
  <2>1. CASE call[d] = "stop"
    BY <1>1, <2>1, SMTT(60) DEF EthInv, EthernetTypeOK
  <2>2. CASE call[d] # "stop"
    BY <1>1, <1>2, <2>2, SMTT(60) DEF EthInv, EthernetTypeOK
  <2> QED
    BY <2>1, <2>2, ZenonT(60)
<1>5. EthernetTypeOK'
  BY <1>1, <1>3, <1>4, ZenonT(60) DEF EthInv, EthernetTypeOK
<1> QED
  BY <1>1, <1>3, <1>4, <1>5, SMTT(60) DEF EthInv

(* A step of a receive thread.                                             *)
LEMMA RxStepInv ==
    ASSUME EthInv, NEW d \in Dev, NEW from \in {"test", "poll", "handler"},
           NEW to \in {"test", "poll", "handler", "done"}, RxStep(d, from, to)
    PROVE  /\ EthInv'
           /\ rx[d].pc = from /\ rx'[d].pc = to
           /\ \A e \in Dev \ {d} : rx'[e] = rx[e]
<1>1. /\ rx[d].pc = from /\ rx' = [rx EXCEPT ![d].pc = to]
      /\ UNCHANGED <<drivers, protos, devices, priv, opened, thread,
                     terminate, call, status>>
  BY ZenonT(60) DEF RxStep
<1>2. rx \in [Dev -> [pc : RxPc, priv : Nat]]
  BY ZenonT(60) DEF EthInv, EthernetTypeOK
<1>3. /\ rx' \in [Dev -> [pc : RxPc, priv : Nat]]
      /\ rx'[d].pc = to /\ rx'[d].priv = rx[d].priv
      /\ \A e \in Dev \ {d} : rx'[e] = rx[e]
  BY <1>1, <1>2, ZenonT(60) DEF RxPc
<1>4. EthernetTypeOK'
  BY <1>1, <1>3, ZenonT(60) DEF EthInv, EthernetTypeOK
<1> QED
  BY <1>1, <1>3, <1>4, SMTT(60) DEF EthInv

(* It starts with its device's priv, ...                                   *)
LEMMA RxStartInv ==
    ASSUME EthInv, NEW d \in Dev, RxStart(d)
    PROVE  EthInv'
<1>1. /\ rx[d].pc = "start"
      /\ rx' = [rx EXCEPT ![d] = [pc |-> "test", priv |-> priv[d]]]
      /\ UNCHANGED <<drivers, protos, devices, priv, opened, thread,
                     terminate, call, status>>
  BY ZenonT(60) DEF RxStart
<1>2. [pc |-> "test", priv |-> priv[d]] \in [pc : RxPc, priv : Nat]
  BY ZenonT(60) DEF EthInv, EthernetTypeOK, RxPc
<1>3. /\ rx' \in [Dev -> [pc : RxPc, priv : Nat]]
      /\ rx'[d].pc = "test" /\ rx'[d].priv = priv[d]
      /\ \A e \in Dev \ {d} : rx'[e] = rx[e]
  BY <1>1, <1>2, SMTT(60) DEF EthInv, EthernetTypeOK
<1>4. EthernetTypeOK'
  BY <1>1, <1>3, ZenonT(60) DEF EthInv, EthernetTypeOK
<1> QED
  BY <1>1, <1>3, <1>4, ZenonT(60) DEF EthInv

(* ... which is there whenever it tests the flag.                          *)
LEMMA RxTestInv ==
    ASSUME EthInv, NEW d \in Dev, RxTest(d)
    PROVE  /\ EthInv' /\ rx[d].pc = "test"
           /\ RxStep(d, "test", IF terminate[d] = 1 THEN "done" ELSE "poll")
           /\ \A e \in Dev \ {d} : rx'[e] = rx[e]
<1>1. rx[d].pc = "test"
  BY ZenonT(60) DEF RxTest, RxStep
<1>2. rx[d].priv # NULL /\ rx[d].priv = priv[d]
  BY <1>1, ZenonT(60) DEF EthInv
<1>3. RxStep(d, "test", IF terminate[d] = 1 THEN "done" ELSE "poll")
  BY <1>2, ZenonT(60) DEF RxTest
<1> QED
  BY <1>1, <1>3, RxStepInv, ZenonT(60)

-----------------------------------------------------------------------------
(* The threads.                                                            *)

Place == Holding \cup {"idle", "lock", "synsent"}
ArpEntry == [st : {"unknown", "asked", "known"}, via : Dev \cup {NULL}]

StackTypeOK ==
    /\ ifs \in [Dev -> Netif \cup {NULL}]
    /\ default_netif \in Netif \cup {NULL}
    /\ freed \subseteq Netif
    /\ arp \in [PA -> ArpEntry]
    /\ mutex \in Thread \cup {NULL}
    /\ pc \in [Thread -> Place]
    /\ dst \in [Thread -> PA]
    /\ out \in [Thread -> Dev \cup {NULL}]

Waits == {"arpwait", "woken", "timedout"}
Still == {"idle", "synsent"}

(* DeviceOf, for any list of interfaces.                                   *)
Listed(f, n) == CHOOSE d \in Dev : f[d] = n

(* A receive thread in the TCP code is in its handler; no connection is in *)
(* the sending code while a device is being closed; the default interface, *)
(* unless refused, belongs to a device, open while a connection is about   *)
(* to use it; and a thread that waits for an address has chosen a device   *)
(* that stays open.                                                        *)
StackInv ==
    /\ StackTypeOK
    /\ MutexHeldInside
    /\ \A d \in Dev : pc[d] # "idle" =>
         pc[d] \in Holding \cup {"lock"} /\ rx[d].pc = "handler"
    /\ \A d \in Dev : call[d] = "close" => \A t \in App : pc[t] \in Still
    /\ default_netif \in Netif \ freed => Listed(ifs, default_netif) \in Dev
    /\ \A t \in App :
         pc[t] \in {"lock", "locked"} /\ default_netif \in Netif \ freed =>
           priv[Listed(ifs, default_netif)] # NULL
    /\ \A x \in Thread : pc[x] \in Waits =>
         /\ out[x] \in Dev
         /\ x \in Dev => out[x] = x
         /\ x \in App => priv[out[x]] # NULL
    /\ UndefinedOnlyKnown

(* A step of the devices alone.                                            *)
LEMMA DeviceStep ==
    ASSUME StackInv, UNCHANGED svars, UndefinedOnlyKnown',
           \A d \in Dev : rx[d].pc = "handler" => rx'[d].pc = "handler",
           \A d \in Dev : priv[d] # NULL => priv'[d] # NULL \/ Quiet,
           \A d \in Dev : call'[d] = "close" => call[d] = "close" \/ Quiet
    PROVE  StackInv'
<1>1. UNCHANGED <<ifs, default_netif, freed, arp, mutex, pc, dst, out>>
  BY ZenonT(60) DEF svars
<1>2. StackTypeOK'
  BY <1>1, ZenonT(60) DEF StackInv, StackTypeOK
<1>3. MutexHeldInside'
  BY <1>1, ZenonT(60) DEF StackInv, MutexHeldInside
<1>4. Quiet => \A t \in App : pc[t] \in Still
  BY ZenonT(60) DEF Quiet, Still
<1>5. \A t \in App : pc[t] \in Still => pc[t] \notin Waits \cup {"lock", "locked"}
  BY ZenonT(60) DEF Still, Waits
<1>6. \A d \in Dev : call'[d] = "close" => \A t \in App : pc'[t] \in Still
  BY <1>1, <1>4, ZenonT(60) DEF StackInv
<1>7. \A x \in Thread : pc'[x] \in Waits =>
         /\ out'[x] \in Dev
         /\ x \in Dev => out'[x] = x
         /\ x \in App => priv'[out'[x]] # NULL
  BY <1>1, <1>4, <1>5, SMTT(60) DEF StackInv
<1>8. \A t \in App :
         pc'[t] \in {"lock", "locked"} /\ default_netif' \in Netif \ freed' =>
           priv'[Listed(ifs', default_netif')] # NULL
  BY <1>1, <1>4, <1>5, ZenonT(60) DEF StackInv
<1>9. \A d \in Dev : pc'[d] # "idle" =>
         pc'[d] \in Holding \cup {"lock"} /\ rx'[d].pc = "handler"
  BY <1>1, ZenonT(60) DEF StackInv
<1>10. default_netif' \in Netif \ freed' => Listed(ifs', default_netif') \in Dev
  BY <1>1, ZenonT(60) DEF StackInv
<1> QED
  BY <1>2, <1>3, <1>6, <1>7, <1>8, <1>9, <1>10, ZenonT(60) DEF StackInv

(* A step of one thread.                                                   *)
LEMMA ThreadStep ==
    ASSUME StackInv, NEW x \in Thread,
           NEW to \in Place,
           pc' \in [Thread -> Place],
           pc'[x] = to, \A y \in Thread \ {x} : pc'[y] = pc[y],
           UNCHANGED <<ifs, default_netif, freed, priv, call>>, status' = "run",
           arp' \in [PA -> ArpEntry],
           dst' \in [Thread -> PA],
           out' \in [Thread -> Dev \cup {NULL}],
           \A y \in Thread \ {x} : out'[y] = out[y],
           to \in Waits => /\ out'[x] \in Dev
                           /\ x \in Dev => out'[x] = x
                           /\ x \in App => priv[out'[x]] # NULL,
           mutex' \in Thread \cup {NULL}, MutexHeldInside',
           \A d \in Dev \ {x} : rx'[d] = rx[d],
           x \in Dev /\ to # "idle" =>
               to \in Holding \cup {"lock"} /\ rx'[x].pc = "handler",
           x \in App /\ to \notin Still =>
               pc[x] \notin Still \/ \A d \in Dev : call[d] # "close",
           x \in App /\ to \in {"lock", "locked"}
             /\ default_netif \in Netif \ freed =>
               priv[Listed(ifs, default_netif)] # NULL
    PROVE  StackInv'
<1>1. StackTypeOK'
  BY ZenonT(60) DEF StackInv, StackTypeOK
<1>2. Dev \subseteq Thread /\ App \subseteq Thread
  BY ZenonT(60) DEF Thread
<1>3. \A d \in Dev : call'[d] = "close" => \A t \in App : pc'[t] \in Still
  BY <1>2, SMTT(60) DEF StackInv
<1>4. \A y \in Thread : pc'[y] \in Waits =>
         /\ out'[y] \in Dev
         /\ y \in Dev => out'[y] = y
         /\ y \in App => priv'[out'[y]] # NULL
  BY SMTT(60) DEF StackInv
<1>5. \A t \in App :
         pc'[t] \in {"lock", "locked"} /\ default_netif' \in Netif \ freed' =>
           priv'[Listed(ifs', default_netif')] # NULL
  BY <1>2, SMTT(60) DEF StackInv
<1>6. \A d \in Dev : pc'[d] # "idle" =>
         pc'[d] \in Holding \cup {"lock"} /\ rx'[d].pc = "handler"
  BY <1>2, SMTT(60) DEF StackInv
<1>7. default_netif' \in Netif \ freed' => Listed(ifs', default_netif') \in Dev
  BY ZenonT(60) DEF StackInv
<1>8. UndefinedOnlyKnown'
  BY ZenonT(60) DEF UndefinedOnlyKnown
<1> QED
  BY <1>1, <1>3, <1>4, <1>5, <1>6, <1>7, <1>8, ZenonT(60) DEF StackInv

(* A thread that sends has an open device to send through ...              *)
LEMMA SendsOpen ==
    ASSUME EthInv, StackInv, NEW x \in Thread, pc[x] = "locked",
           x \in App => default_netif \in Netif \ freed
    PROVE  Out(x) \in Dev /\ CanTransmit(Out(x))
<1>1. DeviceOf(default_netif) = Listed(ifs, default_netif)
  BY ZenonT(60) DEF DeviceOf, Listed
<1>2. CASE x \in Dev
  BY <1>2, ZenonT(60) DEF EthInv, StackInv, Out, CanTransmit
<1>3. CASE x \in App /\ x \notin Dev
  BY <1>1, <1>3, ZenonT(60) DEF StackInv, Out, CanTransmit
<1> QED
  BY <1>2, <1>3, ZenonT(60) DEF Thread

(* ... and keeps it while it waits for an address.                         *)
LEMMA WaitsOpen ==
    ASSUME EthInv, StackInv, NEW x \in Thread, pc[x] \in Waits
    PROVE  CanTransmit(out[x])
<1>1. CASE x \in Dev
  BY <1>1, ZenonT(60) DEF EthInv, StackInv, CanTransmit, Waits
<1>2. CASE x \in App
  BY <1>2, ZenonT(60) DEF StackInv, CanTransmit
<1> QED
  BY <1>1, <1>2, ZenonT(60) DEF Thread

(* A thread moves.                                                         *)
LEMMA Moves ==
    ASSUME StackInv, NEW x \in Thread,
           NEW to \in Place,
           pc' = [pc EXCEPT ![x] = to]
    PROVE  /\ pc' \in [Thread -> Place]
           /\ pc'[x] = to
           /\ \A y \in Thread \ {x} : pc'[y] = pc[y]
BY ZenonT(60) DEF StackInv, StackTypeOK

-----------------------------------------------------------------------------
(* The mutex follows the threads: who enters takes it from nobody, ...     *)
LEMMA MutexTaken ==
    ASSUME StackInv, NEW x \in Thread, mutex = NULL, mutex' = x,
           pc'[x] = "locked", \A y \in Thread \ {x} : pc'[y] = pc[y]
    PROVE  MutexHeldInside'
<1>1. \A y \in Thread : pc[y] \notin Holding
  BY ThreadAssumption, SMTT(60) DEF StackInv, MutexHeldInside, Thread
<1>2. "locked" \in Holding
  BY ZenonT(60) DEF Holding
<1> QED
  BY <1>1, <1>2, ZenonT(60) DEF MutexHeldInside

(* ... who leaves gives it back, ...                                       *)
LEMMA MutexGiven ==
    ASSUME StackInv, NEW x \in Thread, pc[x] \in Holding, mutex' = NULL,
           pc'[x] \notin Holding,
           \A y \in Thread \ {x} :
               pc'[y] = pc[y] \/ pc'[y] \notin Holding
    PROVE  MutexHeldInside'
<1>1. \A y \in Thread \ {x} : pc[y] \notin Holding
  BY SMTT(60) DEF StackInv, MutexHeldInside
<1>2. \A y \in Thread : y # NULL
  BY ThreadAssumption, ZenonT(60) DEF Thread
<1> QED
  BY <1>1, <1>2, ZenonT(60) DEF MutexHeldInside

(* ... and nobody else changes it.                                         *)
LEMMA MutexKept ==
    ASSUME StackInv, UNCHANGED mutex,
           \A y \in Thread : pc'[y] \in Holding <=> pc[y] \in Holding
    PROVE  MutexHeldInside'
BY ZenonT(60) DEF StackInv, MutexHeldInside

(* pthread_mutex_lock.                                                     *)
LEMMA LockInv ==
    ASSUME EthInv, StackInv, NEW x \in Thread, Lock(x)
    PROVE  EthInv' /\ StackInv'
<1>1. /\ status = "run" /\ pc[x] = "lock" /\ mutex = NULL /\ mutex' = x
      /\ pc' = [pc EXCEPT ![x] = "locked"]
      /\ UNCHANGED <<evars, ifs, default_netif, freed, arp, dst, out>>
  BY ZenonT(60) DEF Lock
<1>2. UNCHANGED <<drivers, protos, devices, priv, opened, thread, terminate,
                  rx, call, status>>
  BY <1>1, ZenonT(60) DEF evars
<1>3. EthInv'
  BY <1>2, EthStays, ZenonT(60) DEF EthInv, EthernetTypeOK
<1>4. /\ pc' \in [Thread -> Place]
      /\ pc'[x] = "locked" /\ \A y \in Thread \ {x} : pc'[y] = pc[y]
  <2>1. "locked" \in Holding
    BY ZenonT(60) DEF Holding
  <2> QED
    BY <1>1, <2>1, Moves, ZenonT(60) DEF Place
<1>5. MutexHeldInside'
  BY <1>4, <1>1, MutexTaken, ZenonT(60)
<1>6. "locked" \in Holding /\ "locked" \notin Waits /\ pc[x] \notin Still
  BY <1>1, ZenonT(60) DEF Holding, Waits, Still
<1>7. StackTypeOK
  BY ZenonT(60) DEF StackInv
<1>8. x \in Dev => rx[x].pc = "handler"
  BY <1>1, ZenonT(60) DEF StackInv
<1>9. x \in App /\ default_netif \in Netif \ freed =>
        priv[Listed(ifs, default_netif)] # NULL
  BY <1>1, ZenonT(60) DEF StackInv
<1>10. StackInv'
  BY <1>4, <1>1, <1>2, <1>5, <1>6, <1>7, <1>8, <1>9, ThreadStep, SMTT(60)
  DEF StackTypeOK
<1> QED
  BY <1>3, <1>10, ZenonT(60)

(* tcp_api_connect, up to the lock.                                        *)
LEMMA ConnectInv ==
    ASSUME EthInv, StackInv, NEW t \in App, NEW p \in PA, tcp_api_connect(t, p)
    PROVE  EthInv' /\ StackInv'
<1>1. /\ status = "run" /\ pc[t] = "idle" /\ UNCHANGED mutex
      /\ \A d \in Dev : call[d] = "none"
      /\ pc' = [pc EXCEPT ![t] = "lock"]
      /\ dst' = [dst EXCEPT ![t] = p]
      /\ UNCHANGED <<evars, ifs, default_netif, freed, arp, out>>
  BY ZenonT(60) DEF tcp_api_connect, Idle
<1>2. UNCHANGED <<drivers, protos, devices, priv, opened, thread, terminate,
                  rx, call, status>>
  BY <1>1, ZenonT(60) DEF evars
<1>3. EthInv'
  BY <1>2, EthStays, ZenonT(60) DEF EthInv, EthernetTypeOK
<1>4. StackTypeOK /\ t \in Thread /\ t \notin Dev
  BY ThreadAssumption, ZenonT(60) DEF StackInv, Thread
<1>5. /\ pc' \in [Thread -> Place]
      /\ pc'[t] = "lock" /\ \A y \in Thread \ {t} : pc'[y] = pc[y]
  BY <1>1, <1>4, Moves, ZenonT(60) DEF Place
<1>6. dst' \in [Thread -> PA]
  BY <1>1, <1>4, ZenonT(60) DEF StackTypeOK
<1>7. /\ "lock" \notin Holding /\ "idle" \notin Holding /\ "lock" \notin Waits
  BY ZenonT(60) DEF Holding, Waits
<1>8. MutexHeldInside'
  BY <1>5, <1>1, <1>7, MutexKept, ZenonT(60)
<1>9. DeviceOf(default_netif) = Listed(ifs, default_netif)
  BY ZenonT(60) DEF DeviceOf, Listed
<1>10. default_netif \in Netif \ freed => priv[Listed(ifs, default_netif)] # NULL
  BY <1>9, ZenonT(60) DEF tcp_api_connect, CanTransmit
<1>11. StackInv'
  BY <1>5, <1>1, <1>2, <1>4, <1>6, <1>7, <1>8, <1>10, ThreadStep, ZenonT(60)
  DEF StackTypeOK
<1> QED
  BY <1>3, <1>11, ZenonT(60)

(* The end of a critical section.                                          *)
LEMMA LeaveInv ==
    ASSUME EthInv, StackInv, status = "run", NEW x \in Thread, pc[x] \in Holding,
           NEW to \in {"idle", "synsent"}, x \in Dev => to = "idle",
           Leave(x, to),
           arp' \in [PA -> ArpEntry]
    PROVE  EthInv' /\ StackInv'
<1>1. /\ mutex' = NULL /\ pc' = [pc EXCEPT ![x] = to]
      /\ out' = [out EXCEPT ![x] = NULL]
      /\ UNCHANGED <<ifs, default_netif, freed, dst>>
  BY ZenonT(60) DEF Leave
<1>2. /\ EthInv' /\ UNCHANGED <<priv, call, status>>
      /\ \A d \in Dev \ {x} : rx'[d] = rx[d]
  <2>1. CASE x \in Dev
    <3>1. RxStep(x, "handler", "test")
      BY <2>1, ZenonT(60) DEF Leave, RxReturn
    <3>2. UNCHANGED <<priv, call, status>>
      BY <3>1, ZenonT(60) DEF RxStep
    <3> QED
      BY <2>1, <3>1, <3>2, RxStepInv, ZenonT(60)
  <2>2. CASE x \notin Dev
    <3>1. UNCHANGED <<drivers, protos, devices, priv, opened, thread,
                      terminate, rx, call, status>>
      BY <2>2, ZenonT(60) DEF Leave, evars
    <3> QED
      BY <3>1, EthStays, ZenonT(60) DEF EthInv, EthernetTypeOK
  <2> QED
    BY <2>1, <2>2, ZenonT(60)
<1>3. /\ pc' \in [Thread -> Place]
      /\ pc'[x] = to /\ \A y \in Thread \ {x} : pc'[y] = pc[y]
  BY <1>1, Moves, ZenonT(60) DEF Place
<1>4. /\ out' \in [Thread -> Dev \cup {NULL}]
      /\ \A y \in Thread \ {x} : out'[y] = out[y]
      /\ dst \in [Thread -> PA]
  BY <1>1, ZenonT(60) DEF StackInv, StackTypeOK
<1>5. to \notin Holding /\ to \in Still /\ to \notin Waits \cup {"lock", "locked"}
  BY ZenonT(60) DEF Holding, Still, Waits
<1>6. MutexHeldInside'
  BY <1>3, <1>1, <1>5, MutexGiven, ZenonT(60)
<1>7. StackInv'
  BY <1>3, <1>1, <1>2, <1>4, <1>5, <1>6, ThreadStep, ZenonT(60)
<1> QED
  BY <1>2, <1>7, ZenonT(60)

(* Undefined behaviour that UndefinedOnlyKnown names.                      *)
LEMMA UndefinedInv ==
    ASSUME EthInv, StackInv, NEW what \in Status \ {"freed_priv"},
           Undefined(what), UNCHANGED svars, UndefinedOnlyKnown'
    PROVE  EthInv' /\ StackInv'
<1>1. /\ status' = what
      /\ UNCHANGED <<drivers, protos, devices, priv, opened, thread,
                     terminate, rx, call>>
  BY ZenonT(60) DEF Undefined
<1>2. EthInv'
  BY <1>1, EthStays, ZenonT(60)
<1>3. StackInv'
  BY <1>1, DeviceStep, ZenonT(60)
<1> QED
  BY <1>2, <1>3, ZenonT(60)

(* tcp_tx inside the critical section: the packet leaves, or it or its     *)
(* thread waits for the address.                                           *)
LEMMA ResolveInv ==
    ASSUME EthInv, StackInv, NEW x \in Thread, Resolve(x)
    PROVE  EthInv' /\ StackInv'
<1>1. /\ status = "run" /\ pc[x] = "locked"
      /\ x \in App => default_netif \in Netif \ freed
  BY ZenonT(60) DEF Resolve, Sending
<1>2. Out(x) \in Dev /\ CanTransmit(Out(x))
  BY <1>1, SendsOpen, ZenonT(60)
<1>3. /\ arp \in [PA -> ArpEntry]
      /\ dst[x] \in PA
  BY ZenonT(60) DEF StackInv, StackTypeOK
<1>4. /\ "locked" \in Holding /\ "arpwait" \in Holding /\ "arpwait" \in Waits
      /\ "locked" \notin Still /\ "arpwait" \notin {"lock", "locked"}
  BY ZenonT(60) DEF Holding, Waits, Still
<1>5. CASE Sent(x) /\ arp' \in [PA -> ArpEntry]
  BY <1>1, <1>4, <1>5, LeaveInv, ZenonT(60) DEF Sent
<1>6. CASE /\ pc' = [pc EXCEPT ![x] = "arpwait"]
           /\ out' = [out EXCEPT ![x] = Out(x)]
           /\ UNCHANGED <<evars, ifs, default_netif, freed, arp, mutex, dst>>
  <2>1. UNCHANGED <<drivers, protos, devices, priv, opened, thread, terminate,
                    rx, call, status>>
    BY <1>6, ZenonT(60) DEF evars
  <2>2. EthInv'
    BY <2>1, EthStays, SMTT(60) DEF EthInv, EthernetTypeOK
  <2>3. /\ pc' \in [Thread -> Place]
        /\ pc'[x] = "arpwait" /\ \A y \in Thread \ {x} : pc'[y] = pc[y]
    BY <1>4, <1>6, Moves, ZenonT(60) DEF Place
  <2>4. MutexHeldInside'
    BY <1>1, <1>4, <1>6, <2>3, MutexKept, ZenonT(60)
  <2>5. /\ out' \in [Thread -> Dev \cup {NULL}] /\ out'[x] = Out(x)
        /\ \A y \in Thread \ {x} : out'[y] = out[y]
    BY <1>2, <1>6, ZenonT(60) DEF StackInv, StackTypeOK
  <2>6. x \in Dev => Out(x) = x /\ rx[x].pc = "handler"
    BY <1>1, ZenonT(60) DEF Out, StackInv
  <2>7. dst' \in [Thread -> PA] /\ mutex' \in Thread \cup {NULL}
    BY <1>6, ZenonT(60) DEF StackInv, StackTypeOK
  <2>8. priv[Out(x)] # NULL
    BY <1>2, ZenonT(60) DEF CanTransmit
  <2>9. /\ UNCHANGED <<ifs, default_netif, freed, priv, call>>
        /\ status' = "run" /\ arp' \in [PA -> ArpEntry]
        /\ \A d \in Dev \ {x} : rx'[d] = rx[d]
        /\ "arpwait" \in Holding \cup {"lock"}
    BY <1>1, <1>3, <1>4, <1>6, <2>1, <2>6, ZenonT(60)
  <2>10. /\ "arpwait" \in Place /\ out'[x] \in Dev
         /\ x \in Dev => out'[x] = x /\ rx'[x].pc = "handler"
         /\ x \in App => priv[out'[x]] # NULL
         /\ pc[x] \notin Still
    BY <1>1, <1>2, <1>4, <2>1, <2>3, <2>5, <2>6, <2>8, SMTT(60)
  <2>11. StackInv'
    BY <1>4, <2>3, <2>4, <2>5, <2>7, <2>9, <2>10, ThreadStep, ZenonT(60)
  <2> QED
    BY <2>2, <2>11, SMTT(60)
<1>7. [st |-> "asked", via |-> Out(x)] \in
        ArpEntry
  BY <1>2, ZenonT(60) DEF ArpEntry
<1>8. CASE /\ arp' = [arp EXCEPT ![dst[x]] = [st |-> "asked", via |-> Out(x)]]
           /\ Sent(x)
  BY <1>3, <1>5, <1>7, <1>8, ZenonT(60)
<1>9. CASE Sent(x) /\ UNCHANGED arp
  BY <1>3, <1>5, <1>9, ZenonT(60)
<1> QED
  BY <1>2, <1>6, <1>8, <1>9, ZenonT(60) DEF Resolve

(* The wait for an address times out ...                                   *)
LEMMA TimedOutInv ==
    ASSUME EthInv, StackInv, NEW x \in Thread, TimedOut(x)
    PROVE  EthInv' /\ StackInv'
<1>1. /\ status = "run" /\ pc[x] = "arpwait"
      /\ pc' = [pc EXCEPT ![x] = "timedout"]
      /\ UNCHANGED <<evars, ifs, default_netif, freed, arp, mutex, dst, out>>
  BY ZenonT(60) DEF TimedOut
<1>2. UNCHANGED <<drivers, protos, devices, priv, opened, thread, terminate,
                  rx, call, status>>
  BY <1>1, ZenonT(60) DEF evars
<1>3. EthInv'
  BY <1>2, EthStays, SMTT(60) DEF EthInv, EthernetTypeOK
<1>4. /\ {"arpwait", "timedout"} \subseteq Holding \cap Waits
      /\ "arpwait" \notin Still /\ "timedout" \notin {"lock", "locked"}
  BY ZenonT(60) DEF Holding, Waits, Still
<1>5. /\ pc' \in [Thread -> Place]
      /\ pc'[x] = "timedout" /\ \A y \in Thread \ {x} : pc'[y] = pc[y]
  BY <1>1, <1>4, Moves, ZenonT(60) DEF Place
<1>6. MutexHeldInside'
  BY <1>1, <1>4, <1>5, MutexKept, ZenonT(60)
<1>7. /\ StackTypeOK /\ out[x] \in Dev
      /\ x \in Dev => out[x] = x /\ rx[x].pc = "handler"
      /\ x \in App => priv[out[x]] # NULL
  BY <1>1, <1>4, ZenonT(60) DEF StackInv
<1>8. /\ UNCHANGED <<ifs, default_netif, freed, priv, call>>
      /\ status' = "run" /\ arp' \in [PA -> ArpEntry]
      /\ dst' \in [Thread -> PA] /\ out' \in [Thread -> Dev \cup {NULL}]
      /\ mutex' \in Thread \cup {NULL}
      /\ \A y \in Thread \ {x} : out'[y] = out[y]
      /\ \A d \in Dev \ {x} : rx'[d] = rx[d]
  BY <1>1, <1>2, <1>7, ZenonT(60) DEF StackTypeOK
<1>9. /\ "timedout" \in Place /\ "timedout" \in Holding \cup {"lock"}
      /\ pc[x] \notin Still /\ out'[x] \in Dev
      /\ x \in Dev => out'[x] = x /\ rx'[x].pc = "handler"
      /\ x \in App => priv[out'[x]] # NULL
  BY <1>1, <1>2, <1>4, <1>5, <1>7, ZenonT(60)
<1>10. StackInv'
  BY <1>4, <1>5, <1>6, <1>8, <1>9, ThreadStep, ZenonT(60)
<1> QED
  BY <1>3, <1>10, SMTT(60)

(* ... or the thread that waited goes on.                                  *)
LEMMA ArpResumeInv ==
    ASSUME EthInv, StackInv, NEW x \in Thread, ArpResume(x)
    PROVE  EthInv' /\ StackInv'
<1>1. status = "run" /\ pc[x] \in {"timedout", "woken"}
  BY ZenonT(60) DEF ArpResume
<1>2. pc[x] \in Holding /\ pc[x] \in Waits
  BY <1>1, ZenonT(60) DEF Holding, Waits
<1>3. CanTransmit(out[x])
  BY <1>2, WaitsOpen, ZenonT(60)
<1>4. /\ arp \in [PA -> ArpEntry]
      /\ dst[x] \in PA
      /\ Unknown \in ArpEntry
  BY ZenonT(60) DEF StackInv, StackTypeOK, Unknown, ArpEntry
<1>5. arp' \in [PA -> ArpEntry]
  <2>1. CASE arp' = [arp EXCEPT ![dst[x]] = Unknown]
    BY <1>4, <2>1, ZenonT(60)
  <2>2. CASE UNCHANGED arp
    BY <1>4, <2>2, ZenonT(60)
  <2> QED
    BY <1>3, <2>1, <2>2, ZenonT(60) DEF ArpResume
<1>6. Failed(x) \/ Sent(x)
  BY <1>3, ZenonT(60) DEF ArpResume
<1>7. PICK to \in {"idle", "synsent"} :
        Leave(x, to) /\ (x \in Dev => to = "idle")
  BY <1>6, ZenonT(60) DEF Failed, Sent
<1> QED
  BY <1>1, <1>2, <1>5, <1>7, LeaveInv, ZenonT(60)
=============================================================================
