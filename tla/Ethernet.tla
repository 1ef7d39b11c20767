------------------------------ MODULE Ethernet ------------------------------
(***************************************************************************)
(* The network devices: the registries of net.c and the life cycle of an   *)
(* Ethernet device and of its receive thread (ethernet.c over raw.c and    *)
(* raw/).                                                                  *)
(*                                                                         *)
(* Device calls are made by one application thread, in the order of the    *)
(* programs under test/: protocols are registered first (no lock guards    *)
(* the lists), a device is opened once it is allocated, run when it is     *)
(* open and has no receive thread, stopped or closed while open.           *)
(* ethernet_stop and ethernet_close wait for the receive thread with       *)
(* pthread_join, so each is two actions around the wait.  A call that      *)
(* fails without changing anything (a type registered twice, no memory, a  *)
(* raw device that does not open: what was allocated is freed again) is no *)
(* step.                                                                   *)
(*                                                                         *)
(* Undefined behaviour stops the model: status then names what the code    *)
(* did.                                                                    *)
(***************************************************************************)
EXTENDS Integers

CONSTANTS
    Dev,        \* the devices that may be allocated
    Proto,      \* the protocols that may be registered
    MAX_OPEN    \* bound on the number of times each device is opened

ASSUME DeviceAssumption == MAX_OPEN \in [Dev -> Nat]

VARIABLES
    drivers,    \* the drivers registered, by device type
    protos,     \* the protocols with a handler
    devices,    \* the devices allocated
    priv,       \* dev->priv: 0 for NULL, n for the n-th one this device had
    opened,     \* how many times each device was opened
    thread,     \* priv->thread: the opener, the receive thread, undefined
    terminate,  \* priv->terminate
    rx,         \* the receive threads: where they are, and their priv
    call,       \* the call on each device the application waits in
    status      \* "run", or the undefined behaviour met

evars == <<drivers, protos, devices, priv, opened, thread, terminate, rx,
           call, status>>

NULL == 0

Status == {"run", "freed_priv", "closed_device", "bad_join", "stale_netif"}
RxPc == {"none", "start", "test", "poll", "handler", "done"}

EthernetTypeOK ==
    /\ drivers \subseteq {"ethernet"}
    /\ protos \subseteq Proto
    /\ devices \subseteq Dev
    /\ opened \in [Dev -> Nat]
    /\ priv \in [Dev -> Nat]
    /\ thread \in [Dev -> {"self", "rx", "undefined"}]
    /\ terminate \in [Dev -> {0, 1}]
    /\ rx \in [Dev -> [pc : RxPc, priv : Nat]]
    /\ call \in [Dev -> {"none", "stop", "close"}]
    /\ status \in Status

NoRx == [pc |-> "none", priv |-> NULL]

EthernetInit ==
    /\ drivers = {}
    /\ protos = {}
    /\ devices = {}
    /\ priv = [d \in Dev |-> NULL]
    /\ opened = [d \in Dev |-> 0]
    /\ thread = [d \in Dev |-> "self"]
    /\ terminate = [d \in Dev |-> 0]
    /\ rx = [d \in Dev |-> NoRx]
    /\ call = [d \in Dev |-> "none"]
    /\ status = "run"

(* The program does something undefined.                                   *)
Undefined(what) ==
    /\ status = "run"
    /\ status' = what
    /\ UNCHANGED <<drivers, protos, devices, priv, opened, thread, terminate,
                   rx, call>>

Idle == status = "run" /\ \A d \in Dev : call[d] = "none"

-----------------------------------------------------------------------------
(* Registration (net.c).                                                   *)

netdev_driver_register(type) ==
    /\ type \notin drivers
    /\ drivers' = drivers \cup {type}

ethernet_init ==
    /\ Idle
    /\ netdev_driver_register("ethernet")
    /\ UNCHANGED <<protos, devices, priv, opened, thread, terminate, rx, call,
                   status>>

(* ip_add_protocol does the same for the protocols above IP ("tcp").       *)
netdev_proto_register(p) ==
    /\ Idle
    /\ p \notin protos
    /\ protos' = protos \cup {p}
    /\ UNCHANGED <<drivers, devices, priv, opened, thread, terminate, rx,
                   call, status>>

netdev_alloc(d) ==
    /\ Idle
    /\ "ethernet" \in drivers /\ protos = Proto
    /\ d \notin devices
    /\ devices' = devices \cup {d}
    /\ UNCHANGED <<drivers, protos, priv, opened, thread, terminate, rx, call,
                   status>>

-----------------------------------------------------------------------------
(* The life cycle of a device.                                             *)

(* The opener's own thread stands for "no receive thread".                 *)
ethernet_open(d) ==
    /\ Idle
    /\ d \in devices
    /\ priv[d] = NULL
    /\ opened[d] < MAX_OPEN[d]
    /\ opened' = [opened EXCEPT ![d] = @ + 1]
    /\ priv' = [priv EXCEPT ![d] = opened[d] + 1]
    /\ thread' = [thread EXCEPT ![d] = "self"]
    /\ terminate' = [terminate EXCEPT ![d] = 0]
    /\ UNCHANGED <<drivers, protos, devices, rx, call, status>>

(* pthread_create writes priv->thread; when it fails it leaves an          *)
(* unspecified value there.                                                *)
ethernet_run(d) ==
    /\ Idle
    /\ priv[d] # NULL
    /\ rx[d].pc = "none"
    /\ \/ /\ thread' = [thread EXCEPT ![d] = "rx"]
          /\ rx' = [rx EXCEPT ![d] = [pc |-> "start", priv |-> NULL]]
       \/ /\ thread' = [thread EXCEPT ![d] = "undefined"]
          /\ UNCHANGED rx
    /\ UNCHANGED <<drivers, protos, devices, priv, opened, terminate, call,
                   status>>

(* Mutant: the receive thread is not told to end.                          *)
ethernet_stop_NoFlag(d) ==
    /\ Idle
    /\ priv[d] # NULL
    /\ call' = [call EXCEPT ![d] = "stop"]
    /\ UNCHANGED <<drivers, protos, devices, priv, opened, thread, terminate,
                   rx, status>>

ethernet_stop(d) ==
    /\ Idle
    /\ priv[d] # NULL
    /\ terminate' = [terminate EXCEPT ![d] = 1]
    /\ call' = [call EXCEPT ![d] = "stop"]
    /\ UNCHANGED <<drivers, protos, devices, priv, opened, thread, rx, status>>

(* Mutant: close does not wait for the receive thread.                     *)
ethernet_close_NoJoin(d) ==
    /\ Idle
    /\ priv[d] # NULL
    /\ priv' = [priv EXCEPT ![d] = NULL]
    /\ UNCHANGED <<drivers, protos, devices, opened, thread, terminate, rx,
                   call, status>>

(* A device whose thread is the caller has no receive thread to wait for.  *)
ethernet_close(d) ==
    /\ Idle
    /\ priv[d] # NULL
    /\ IF thread[d] = "self"
       THEN /\ priv' = [priv EXCEPT ![d] = NULL]
            /\ UNCHANGED <<terminate, call>>
       ELSE /\ terminate' = [terminate EXCEPT ![d] = 1]
            /\ call' = [call EXCEPT ![d] = "close"]
            /\ UNCHANGED priv
    /\ UNCHANGED <<drivers, protos, devices, opened, thread, rx,
                   status>>

(* pthread_join(priv->thread) returns: the receive thread has ended, or    *)
(* the thread is the caller's own (EDEADLK, not looked at), or the handle  *)
(* is undefined and the call happens to fail.                              *)
Joins(d) == thread[d] = "rx" => rx[d].pc = "done"

(* Mutant: stop leaves the terminate flag set.                             *)
Joined_NoReset(d) ==
    /\ status = "run"
    /\ call[d] = "stop"
    /\ Joins(d)
    /\ rx' = [rx EXCEPT ![d] = NoRx]
    /\ thread' = [thread EXCEPT ![d] = "self"]
    /\ call' = [call EXCEPT ![d] = "none"]
    /\ UNCHANGED <<drivers, protos, devices, priv, opened, terminate, status>>

(* What ethernet_stop and ethernet_close do after the join.                *)
Joined(d) ==
    /\ status = "run"
    /\ call[d] # "none"
    /\ Joins(d)
    /\ rx' = [rx EXCEPT ![d] = IF thread[d] = "rx" THEN NoRx ELSE @]
    /\ IF call[d] = "stop"
       THEN /\ thread' = [thread EXCEPT ![d] = "self"]
            /\ terminate' = [terminate EXCEPT ![d] = 0]
            /\ UNCHANGED priv
       ELSE /\ priv' = [priv EXCEPT ![d] = NULL]
            /\ UNCHANGED <<thread, terminate>>
    /\ call' = [call EXCEPT ![d] = "none"]
    /\ UNCHANGED <<drivers, protos, devices, opened, status>>

(* Joining an undefined thread handle.                                     *)
BadJoin(d) ==
    /\ call[d] # "none"
    /\ thread[d] = "undefined"
    /\ Undefined("bad_join")

-----------------------------------------------------------------------------
(* The receive thread, ethernet_rx_thread.                                 *)

RxStep(d, from, to) ==
    /\ status = "run"
    /\ rx[d].pc = from
    /\ rx' = [rx EXCEPT ![d].pc = to]
    /\ UNCHANGED <<drivers, protos, devices, priv, opened, thread, terminate,
                   call, status>>

(* It reads dev->priv once.                                                *)
RxStart(d) ==
    /\ status = "run"
    /\ rx[d].pc = "start"
    /\ rx' = [rx EXCEPT ![d] = [pc |-> "test", priv |-> priv[d]]]
    /\ UNCHANGED <<drivers, protos, devices, priv, opened, thread, terminate,
                   call, status>>

(* Its loop test and the call of the raw device go through the pointer it  *)
(* read, which must still be the device's.                                 *)
RxTest(d) ==
    IF rx[d].priv # NULL /\ rx[d].priv = priv[d]
    THEN RxStep(d, "test", IF terminate[d] = 1 THEN "done" ELSE "poll")
    ELSE /\ rx[d].pc = "test"
         /\ Undefined("freed_priv")

(* poll times out after a second, poll or read fails, or the frame is      *)
(* dropped: too short, for another station, of a type without handler.     *)
RxNothing(d) == RxStep(d, "poll", "test")

(* A frame for this station: netdev_rx_handler calls the handler of its    *)
(* type, if there is one.                                                  *)
RxFrame(d, p) ==
    /\ p \in protos
    /\ RxStep(d, "poll", "handler")

RxReturn(d) == RxStep(d, "handler", "test")

(* ethernet_tx follows dev->priv.                                          *)
CanTransmit(d) == priv[d] # NULL

ethernet_tx_closed(d) == ~CanTransmit(d) /\ Undefined("closed_device")
=============================================================================
