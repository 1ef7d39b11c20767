----------------------------- MODULE IpTransfer ------------------------------
(***************************************************************************)
(* Datagrams from one host to another, both running this stack: the        *)
(* threads of the sender in ip_tx, the network, and ip_rx with its         *)
(* reassembly at the receiver (IpFragment).                                *)
(*                                                                         *)
(* ip_tx cuts a datagram at the device's mtu.  The network keeps every     *)
(* piece that was sent: it may arrive never, once or repeatedly, and in    *)
(* any order.  A packet that ARP holds is on its way, too.                 *)
(*                                                                         *)
(* The receiver only compares ids, so IpFragment's Key[g] may stand for    *)
(* the id that g was sent with: IdsUnique shows that they correspond.      *)
(***************************************************************************)
EXTENDS IpFragment

CONSTANTS
    Sender,     \* threads that call ip_tx
    PIECE,      \* units in mtu - IP_HDR_SIZE_MIN bytes, (1500 - 20) / 8
    OFF_MOD,    \* number of values of the 13-bit offset, in units (8192)
    ID_FIRST,   \* ip_generate_id's first value (128)
    ID_MOD,     \* number of values of its uint16_t (65536)
    None        \* no datagram

(* ip_tx does not check the length that it is given: that no datagram is   *)
(* longer than the offset can say is left to its callers.                  *)
ASSUME SenderAssumption ==
    /\ PIECE \in Nat \ {0}
    /\ OFF_MOD \in Nat /\ MaxUnits <= OFF_MOD
    /\ ID_MOD \in Nat \ {0}
    /\ ID_FIRST \in 0 .. ID_MOD - 1
    /\ None \notin Datagram

VARIABLES
    id,         \* ip_generate_id's static id
    issued,     \* history: how many ids it has given
    tx,         \* each sender: the datagram, its id, and the bytes done
    result,     \* what ip_tx returned for each datagram
    wire        \* the pieces sent

tvars == <<id, issued, tx, result, wire>>

NoTx == [pc |-> "idle", g |-> None, id |-> 0, done |-> 0]

TransferInit ==
    /\ Init
    /\ id = ID_FIRST
    /\ issued = 0
    /\ tx = [x \in Sender |-> NoTx]
    /\ result = [g \in Datagram |-> "none"]
    /\ wire = {}

-----------------------------------------------------------------------------
(* ip_tx is called with datagram g.                                        *)
ip_tx(x, g) ==
    /\ tx[x].pc = "idle"
    /\ result[g] = "none"
    /\ tx' = [tx EXCEPT ![x] = [pc |-> "id", g |-> g, id |-> 0, done |-> 0]]
    /\ result' = [result EXCEPT ![g] = "sending"]
    /\ UNCHANGED <<vars, id, issued, wire>>

(* Mutant: no mutex, so a call may read the value another one has read.    *)
ip_generate_id_Unlocked(x) ==
    /\ tx[x].pc = "id"
    /\ issued < ID_MOD
    /\ \E read \in {id, (id + ID_MOD - 1) % ID_MOD} :
         tx' = [tx EXCEPT ![x].pc = "loop", ![x].id = read]
    /\ id' = (id + 1) % ID_MOD
    /\ issued' = issued + 1
    /\ UNCHANGED <<vars, result, wire>>

(* Bound: ID_MOD calls.                                                    *)
ip_generate_id(x) ==
    /\ tx[x].pc = "id"
    /\ issued < ID_MOD
    /\ tx' = [tx EXCEPT ![x] =
                [pc |-> "loop", g |-> tx[x].g, id |-> id, done |-> 0]]
    /\ id' = (id + 1) % ID_MOD
    /\ issued' = issued + 1
    /\ UNCHANGED <<vars, result, wire>>

(* Mutant: every piece has the full length.                                *)
slen_Full(x) == PIECE

(* The length of the next piece of x's datagram.                           *)
slen(x) == LET left == Size[tx[x].g] - tx[x].done
           IN  IF left < PIECE THEN left ELSE PIECE

(* The packet that ip_tx_core builds for it; the offset has 13 bits.       *)
ip_tx_core(x) ==
    [g |-> tx[x].g, id |-> tx[x].id, off |-> tx[x].done % OFF_MOD,
     n |-> slen(x)]

(* One turn of the loop: the packet goes to ARP or to the device.          *)
TxPiece(x) ==
    /\ tx[x].pc = "loop"
    /\ tx[x].done < Size[tx[x].g]
    /\ wire' = wire \cup {ip_tx_core(x)}
    /\ tx' = [tx EXCEPT ![x].done = @ + slen(x)]
    /\ UNCHANGED <<vars, id, issued, result>>

(* Mutant: a failure is reported although every piece was sent.            *)
TxFails_AfterLast(x) ==
    /\ tx[x].pc = "loop"
    /\ result' = [result EXCEPT ![tx[x].g] = "error"]
    /\ tx' = [tx EXCEPT ![x] = NoTx]
    /\ UNCHANGED <<vars, id, issued, wire>>

(* ip_tx_core fails (no answer from ARP, or the device does not take the   *)
(* packet) and ip_tx gives up.                                             *)
TxFails(x) ==
    /\ tx[x].pc = "loop"
    /\ tx[x].done < Size[tx[x].g]
    /\ result' = [result EXCEPT ![tx[x].g] = "error"]
    /\ tx' = [tx EXCEPT ![x] = NoTx]
    /\ UNCHANGED <<vars, id, issued, wire>>

TxReturns(x) ==
    /\ tx[x].pc = "loop"
    /\ tx[x].done >= Size[tx[x].g]
    /\ result' = [result EXCEPT ![tx[x].g] = "ok"]
    /\ tx' = [tx EXCEPT ![x] = NoTx]
    /\ UNCHANGED <<vars, id, issued, wire>>

(* A piece arrives.                                                        *)
Receive(d) ==
    /\ \E w \in wire : ip_rx(d, w.g, w.off, w.n, FALSE)
    /\ UNCHANGED tvars

TransferNext ==
    \/ \E x \in Sender : \/ \E g \in Datagram : ip_tx(x, g)
                         \/ ip_generate_id(x) \/ TxPiece(x)
                         \/ TxFails(x) \/ TxReturns(x)
    \/ \E d \in Dev : Receive(d) \/ (Deliver(d) /\ UNCHANGED tvars)
    \/ Tick /\ UNCHANGED tvars

tvs == <<vars, tvars>>

TransferSpec == TransferInit /\ [][TransferNext]_tvs

-----------------------------------------------------------------------------
(* Properties.                                                             *)

(* Every variable keeps its type, and every piece lies inside its datagram *)
(* and the mtu: ip_tx sends no byte from behind its buffer.                *)
TransferTypeOK ==
    /\ TypeOK
    /\ id \in 0 .. ID_MOD - 1
    /\ issued \in 0 .. ID_MOD
    /\ tx \in [Sender -> {NoTx} \cup
                  [pc : {"id", "loop"}, g : Datagram, id : 0 .. ID_MOD - 1,
                   done : 0 .. MaxUnits]]
    /\ result \in [Datagram -> {"none", "sending", "ok", "error"}]
    /\ wire \subseteq {w \in [g : Datagram, id : 0 .. ID_MOD - 1, off : Unit,
                             n : 1 .. PIECE] : w.off + w.n <= Size[w.g]}

Given == {g \in Datagram : Whole(g) \in delivered}

Service == INSTANCE IpService WITH given <- Given

(* Whatever the senders' threads interleave, whatever the network loses,   *)
(* repeats and reorders and whenever ip_tx gives up half way (ip.c:471):   *)
(* the protocols see IpService.  In particular a datagram of which ip_tx   *)
(* reported a failure is never handed over at the other end.               *)
ServiceProvided == Service!Spec

(* Pieces with the same id are pieces of one datagram: concurrent calls of *)
(* ip_tx never share an id, also when the 16-bit counter wraps, up to      *)
(* ID_MOD calls (ip.c:442).                                                *)
IdsUnique == \A v, w \in wire : v.id = w.id <=> v.g = w.g
=============================================================================
