--------------------------------- MODULE Tcp ---------------------------------
(***************************************************************************)
(* The TCP layer (tcp.c): the table of control blocks, the application     *)
(* calls tcp_api_open and tcp_api_connect on any number of threads, and    *)
(* tcp_rx with its event processing on the receive threads.                *)
(*                                                                         *)
(* All of it runs under one mutex, which only pthread_cond_wait in         *)
(* tcp_api_connect gives up, so a call or a segment is one step up to      *)
(* there.  Nothing in the code puts a control block into LISTEN (bind and  *)
(* listen are declared only) or past ESTABLISHED; the branches for a       *)
(* listener are not reachable and not modelled.  The window and urgent     *)
(* fields are never read, and irs is always rcv.nxt - 1.                   *)
(***************************************************************************)
EXTENDS Integers, FiniteSets

CONSTANTS
    TCP_CB_TABLE_SIZE,
    PORT_MIN, PORT_MAX,     \* TCP_SOURCE_PORT_MIN and TCP_SOURCE_PORT_MAX
    OFFSET,                 \* time(NULL) % OFFSET is added to PORT_MIN (1024)
    SEQ,                    \* number of sequence numbers (2^32)
    Thread,                 \* threads that call the API
    Iface, NoIface,         \* IPv4 interfaces, and NULL
    DefaultIface,           \* what ip_netif_by_peer returns
    Peer, NoPeer,           \* remote (address, port) pairs, and (0, 0)
    PeerSeq,                \* initial sequence numbers of the peers
    StrayAck,               \* ack fields of segments without the ACK bit
    PayloadLen,             \* lengths of what segments carry
    MaxConnect              \* bound: number of SYNs sent by connect

Soc == 0 .. TCP_CB_TABLE_SIZE - 1
Port == PORT_MIN .. PORT_MAX
SeqNo == 0 .. SEQ - 1

ASSUME TcpAssumption ==
    /\ TCP_CB_TABLE_SIZE \in Nat
    /\ PORT_MIN \in Nat \ {0} /\ PORT_MAX \in Nat /\ OFFSET \in Nat
    /\ SEQ \in Nat /\ SEQ > 1
    /\ NoIface \notin Iface /\ DefaultIface \in Iface
    /\ NoPeer \notin Peer
    /\ PeerSeq \subseteq SeqNo /\ StrayAck \subseteq SeqNo
    /\ PayloadLen \subseteq Nat
    /\ MaxConnect \in Nat

VARIABLES
    cb,     \* cb_table
    cl,     \* each thread: in tcp_api_connect's wait, or not
    syns,   \* history: <<port, peer, iss>> of the SYNs connect sent
    out     \* the segments the last step handed to ip_tx

vars == <<cb, cl, syns, out>>

State == {"CLOSED", "SYN_SENT", "SYN_RCVD", "ESTABLISHED"}

(* struct tcp_cb *)
Cb == [used : BOOLEAN, state : State, iface : Iface \cup {NoIface},
       port : Port \cup {0}, peer : Peer \cup {NoPeer},
       iss : SeqNo, una : SeqNo, snd_nxt : SeqNo, rcv_nxt : SeqNo]

FreshCb == [used |-> FALSE, state |-> "CLOSED", iface |-> NoIface,
            port |-> 0, peer |-> NoPeer,
            iss |-> 0, una |-> 0, snd_nxt |-> 0, rcv_nxt |-> 0]

(* "waiting" in pthread_cond_wait; "woken" once it has returned.  What a   *)
(* call returns to the application is not kept.                            *)
ClState == [pc : {"idle", "waiting", "woken"}, soc : Soc \cup {-1}]
Idle == [pc |-> "idle", soc |-> -1]

Flags == SUBSET {"SYN", "ACK", "RST"}

(* A segment we send; hdr.src is the control block's port.                 *)
Segment == [src : Port \cup {0}, dst : Peer, flg : Flags,
            seq : SeqNo, ack : SeqNo]

tcp_tx(b, seq, ack, flg) ==
    {[src |-> b.port, dst |-> b.peer, flg |-> flg, seq |-> seq, ack |-> ack]}

(* Mutant: the sum is not reduced to 32 bits.                              *)
Add_NoWrap(x, n) == x + n

(* Addition on uint32_t.                                                   *)
Add(x, n) == (x + n) % SEQ

Init ==
    /\ cb = [s \in Soc |-> FreshCb]
    /\ cl = [t \in Thread |-> Idle]
    /\ syns = {}
    /\ out = {}

-----------------------------------------------------------------------------
(* tcp_api_open: the first unused control block, with what it still holds. *)
Opened(b) == [b EXCEPT !.used = TRUE, !.state = "CLOSED"]

tcp_api_open(t) ==
    /\ cl[t].pc = "idle"
    /\ \/ \E s \in Soc :
            /\ ~cb[s].used /\ \A r \in Soc : r < s => cb[r].used
            /\ cb' = [cb EXCEPT ![s] = Opened(cb[s])]
       \/ /\ \A s \in Soc : cb[s].used
          /\ UNCHANGED cb
    /\ out' = {}
    /\ UNCHANGED <<cl, syns>>

(* The port search from PORT_MIN + offset finds p: the first port no used  *)
(* control block has.                                                      *)
PortUsed(p) == \E s \in Soc : cb[s].used /\ cb[s].port = p

FoundPort(p, offset) ==
    /\ p >= PORT_MIN + offset
    /\ ~PortUsed(p)
    /\ \A q \in Port : q >= PORT_MIN + offset /\ q < p => PortUsed(q)

(* Mutant: any socket in use can be connected again.                       *)
CanConnect_Used(s) == cb[s].used

CanConnect(s) == cb[s].used /\ cb[s].state = "CLOSED"

(* Mutant: an initial sequence number of 32 bits.                          *)
InitialSeq_Wide == SeqNo

(* random() returns 31 bits.                                               *)
InitialSeq == {n \in SeqNo : 2 * n < SEQ}

(* The control block when connect sends its SYN ...                        *)
Connecting(b, p, peer, iss) ==
    [b EXCEPT !.port = p, !.peer = peer, !.iface = DefaultIface, !.iss = iss]

(* ... and when it starts to wait for the answer.                          *)
SynSent(b) ==
    [b EXCEPT !.una = b.iss, !.snd_nxt = Add(b.iss, 1), !.state = "SYN_SENT"]

(* tcp_api_connect fails before it sends: wrong state, or no free port.    *)
ConnectRefused(t, s) ==
    /\ cl[t].pc = "idle"
    /\ \/ ~CanConnect(s)
       \/ /\ CanConnect(s) /\ cb[s].port = 0
          /\ \E o \in 0 .. OFFSET - 1 : \A p \in Port : ~FoundPort(p, o)
    /\ out' = {}
    /\ UNCHANGED <<cb, cl, syns>>

(* Otherwise it sends the SYN; when ip_tx fails it returns an error and    *)
(* keeps port and peer, else it waits.                                     *)
ConnectSends(t, s, peer, iss) ==
    /\ cl[t].pc = "idle"
    /\ CanConnect(s)
    /\ \E p \in Port :
         /\ \/ cb[s].port # 0 /\ p = cb[s].port
            \/ cb[s].port = 0 /\ \E o \in 0 .. OFFSET - 1 : FoundPort(p, o)
         /\ LET b == Connecting(cb[s], p, peer, iss)
            IN  \/ /\ cb' = [cb EXCEPT ![s] = b]
                   /\ out' = {}
                   /\ UNCHANGED <<cl, syns>>
                \/ /\ cb' = [cb EXCEPT ![s] = SynSent(b)]
                   /\ cl' = [cl EXCEPT ![t] = [pc |-> "waiting", soc |-> s]]
                   /\ out' = tcp_tx(b, iss, 0, {"SYN"})
                   /\ syns' = syns \cup {<<p, peer, iss>>}

(* pthread_cond_wait returns.  No code signals cond, so this is a spurious *)
(* wakeup.                                                                 *)
Wakeup(t) ==
    /\ cl[t].pc = "waiting"
    /\ cl' = [cl EXCEPT ![t].pc = "woken"]
    /\ out' = {}
    /\ UNCHANGED <<cb, syns>>

(* The loop around pthread_cond_wait, and the return.                      *)
Resume(t) ==
    /\ cl[t].pc = "woken"
    /\ cl' = [cl EXCEPT ![t] =
         IF cb[cl[t].soc].state = "SYN_SENT"
         THEN [cl[t] EXCEPT !.pc = "waiting"]
         ELSE Idle]
    /\ out' = {}
    /\ UNCHANGED <<cb, syns>>

-----------------------------------------------------------------------------
(* tcp_rx.                                                                 *)

Free(b) == ~b.used /\ b.state = "CLOSED"

(* The segment from peer to port dst on interface e is for block b.        *)
Matches(b, e, peer, dst) ==
    /\ ~Free(b)
    /\ b.iface = NoIface \/ b.iface = e
    /\ b.port = dst
    /\ b.peer = peer

(* Mutant: an acknowledgment of anything is good enough.                   *)
Unacceptable_Never(b, ack) == FALSE

(* Mutant: snd.nxt itself is taken to be beyond what was sent.             *)
Unacceptable_AtNxt(b, ack) == ack <= b.iss \/ ack >= b.snd_nxt

(* The test of the ACK bit in SYN_SENT, on uint32_t.                       *)
Unacceptable(b, ack) == ack <= b.iss \/ ack > b.snd_nxt

(* tcp_event_segment_arrives: <<the block afterwards, the segments sent>>. *)
InClosed(b, flg, seq, ack, plen) ==
    <<b, IF "RST" \in flg THEN {}
         ELSE IF "ACK" \in flg THEN tcp_tx(b, ack, 0, {"RST"})
         ELSE tcp_tx(b, 0, Add(seq, plen), {"RST", "ACK"})>>

(* Mutant: una is compared before it takes the ack field.                  *)
SynArrives_OldUna(b, seq, ack) ==
    LET r == [b EXCEPT !.rcv_nxt = Add(seq, 1), !.una = ack]
    IN  IF b.una > b.iss
        THEN <<[r EXCEPT !.state = "ESTABLISHED"],
               tcp_tx(b, b.snd_nxt, Add(seq, 1), {"ACK"})>>
        ELSE <<[r EXCEPT !.state = "SYN_RCVD"],
               tcp_tx(b, b.iss, Add(seq, 1), {"SYN", "ACK"})>>

(* A SYN in SYN_SENT; una takes the ack field whether or not ACK is set.   *)
SynArrives(b, seq, ack) ==
    LET r == [b EXCEPT !.rcv_nxt = Add(seq, 1), !.una = ack]
    IN  IF ack > b.iss
        THEN <<[r EXCEPT !.state = "ESTABLISHED"],
               tcp_tx(b, b.snd_nxt, Add(seq, 1), {"ACK"})>>
        ELSE <<[r EXCEPT !.state = "SYN_RCVD"],
               tcp_tx(b, b.iss, Add(seq, 1), {"SYN", "ACK"})>>

(* Mutant: the freed block keeps its state.                                *)
ResetArrives_KeepsState(b) == [b EXCEPT !.used = FALSE]

(* A reset: port, peer and interface stay in the freed block.              *)
ResetArrives(b) == [b EXCEPT !.state = "CLOSED", !.used = FALSE]

InSynSent(b, flg, seq, ack) ==
    IF "ACK" \in flg /\ Unacceptable(b, ack)
    THEN <<b, tcp_tx(b, ack, 0, {"RST"})>>
    ELSE IF "RST" \in flg
    THEN <<IF "ACK" \in flg /\ b.una <= ack /\ ack <= b.snd_nxt
           THEN ResetArrives(b) ELSE b, {}>>
    ELSE IF "SYN" \in flg THEN SynArrives(b, seq, ack)
    ELSE <<b, {}>>

tcp_event_segment_arrives(b, flg, seq, ack, plen) ==
    CASE b.state = "CLOSED" -> InClosed(b, flg, seq, ack, plen)
      [] b.state = "SYN_SENT" -> InSynSent(b, flg, seq, ack)
      [] OTHER -> <<b, {}>>

(* A segment for a control block.                                          *)
RxFound(e, peer, dst, flg, seq, ack, plen) ==
    \E s \in Soc :
        /\ Matches(cb[s], e, peer, dst)
        /\ \A r \in Soc : r < s => ~Matches(cb[r], e, peer, dst)
        /\ LET res == tcp_event_segment_arrives(cb[s], flg, seq, ack, plen)
           IN  cb' = [cb EXCEPT ![s] = res[1]] /\ out' = res[2]

(* A segment for none: the last free block takes the peer and, as it is    *)
(* CLOSED, answers with a reset from port 0; without one it is dropped.    *)
RxUnknown(e, peer, dst, flg, seq, ack, plen) ==
    /\ \A s \in Soc : ~Matches(cb[s], e, peer, dst)
    /\ \/ \E s \in Soc :
            /\ Free(cb[s]) /\ \A r \in Soc : r > s => ~Free(cb[r])
            /\ LET b == [cb[s] EXCEPT !.iface = e, !.used = FALSE, !.port = 0,
                                      !.peer = peer]
                   res == tcp_event_segment_arrives(b, flg, seq, ack, plen)
               IN  cb' = [cb EXCEPT ![s] = res[1]] /\ out' = res[2]
       \/ /\ \A s \in Soc : ~Free(cb[s])
          /\ out' = {}
          /\ UNCHANGED cb

tcp_rx(e, peer, dst, flg, seq, ack, plen) ==
    /\ \/ RxFound(e, peer, dst, flg, seq, ack, plen)
       \/ RxUnknown(e, peer, dst, flg, seq, ack, plen)
    /\ UNCHANGED <<cl, syns>>

(* What the network may deliver, at any time and any number of times: a    *)
(* peer acknowledges only SYNs it was sent, and the ack field of a segment *)
(* without the ACK bit, which means nothing, holds any number of StrayAck. *)
Arrives(e, peer) ==
    \E dst \in Port, flg \in Flags, seq \in PeerSeq, plen \in PayloadLen :
        \/ /\ "ACK" \notin flg
           /\ \E ack \in StrayAck : tcp_rx(e, peer, dst, flg, seq, ack, plen)
        \/ /\ "ACK" \in flg
           /\ \E y \in syns :
                /\ y[1] = dst /\ y[2] = peer
                /\ tcp_rx(e, peer, dst, flg, seq, Add(y[3], 1), plen)

(* MaxConnect bounds how many different SYNs are sent.                     *)
Call(t) ==
    \/ tcp_api_open(t)
    \/ \E s \in Soc : ConnectRefused(t, s)
    \/ /\ Cardinality(syns) < MaxConnect
       /\ \E s \in Soc, peer \in Peer, iss \in InitialSeq :
            ConnectSends(t, s, peer, iss)

Next ==
    \/ \E t \in Thread : Call(t) \/ Wakeup(t) \/ Resume(t)
    \/ \E e \in Iface, peer \in Peer : Arrives(e, peer)

Spec == Init /\ [][Next]_vars

(* A thread that can run does run.  A spurious wakeup is owed to nobody.   *)
FairSpec == Spec /\ \A t \in Thread : WF_vars(Resume(t))

-----------------------------------------------------------------------------
(* The types of the variables.                                             *)
TypeOK ==
    /\ cb \in [Soc -> Cb]
    /\ cl \in [Thread -> ClState]
    /\ syns \subseteq Port \X Peer \X SeqNo
    /\ out \subseteq Segment

Live(b) == b.state # "CLOSED"

(* A block with a connection is one that tcp_api_open handed out, that has *)
(* a port and a peer, and whose SYN with its own initial number was sent   *)
(* from there to there; its interface is the one the route gave.  So a     *)
(* block whose connection was reset is free for tcp_rx and tcp_api_open.   *)
LiveSound ==
    \A s \in Soc : Live(cb[s]) =>
        /\ cb[s].used
        /\ cb[s].iface = DefaultIface
        /\ <<cb[s].port, cb[s].peer, cb[s].iss>> \in syns
        /\ cb[s].snd_nxt = Add(cb[s].iss, 1)

(* The plain comparisons on uint32_t in SYN_SENT accept the answer to our  *)
(* SYN whatever the initial number: 31 bits of random() never wrap.        *)
SynAckAcceptable ==
    \A s \in Soc : cb[s].state = "SYN_SENT" =>
        ~Unacceptable(cb[s], Add(cb[s].iss, 1))

(* What a peer answered to an earlier SYN of the same port, however late   *)
(* it comes and whether it acknowledges, accepts or resets, changes        *)
(* nothing: the comparisons with iss and snd.nxt let no number pass but    *)
(* the one this connection waits for.                                      *)
OldAnswersIgnored ==
    \A s \in Soc, y \in syns :
        /\ cb[s].state = "SYN_SENT"
        /\ y[1] = cb[s].port /\ y[2] = cb[s].peer /\ y[3] # cb[s].iss
        => \A flg \in Flags, seq \in PeerSeq, plen \in PayloadLen :
             "ACK" \in flg =>
               tcp_event_segment_arrives(cb[s], flg, seq, Add(y[3], 1), plen)[1]
                 = cb[s]

(* No segment makes us send a reset that ends our own live connection (its *)
(* sequence number is the one the peer expects), unless an earlier block   *)
(* with the same port and peer took the segment.                           *)
NoSelfReset ==
    \A g \in out, s \in Soc :
        /\ g.flg = {"RST"} /\ Live(cb[s])
        /\ g.src = cb[s].port /\ g.dst = cb[s].peer /\ g.seq = cb[s].snd_nxt
        => \E r \in Soc : /\ r < s /\ cb[r].used
                          /\ cb[r].port = g.src /\ cb[r].peer = g.dst

(* How many answers a segment with these flags may still cause.            *)
AnswersLeft(flg) ==
    IF "RST" \in flg THEN IF "ACK" \in flg THEN 1 ELSE 0
    ELSE IF "SYN" \in flg THEN IF "ACK" \in flg THEN 3 ELSE 4
    ELSE 2

(* Whatever arrives at whichever block, the answer has fewer answers left  *)
(* than the segment: two hosts with this stack never answer each other's   *)
(* answers for ever, although in SYN_SENT a reset with a wrong             *)
(* acknowledgment is itself answered with a reset (tcp.c:181).             *)
AnswersEnd ==
    \A s \in Soc, flg \in Flags, seq, ack \in SeqNo, plen \in PayloadLen :
        \A g \in tcp_event_segment_arrives(cb[s], flg, seq, ack, plen)[2] :
            AnswersLeft(g.flg) < AnswersLeft(flg)

ConnectionStableStep ==
    \A s \in Soc : Live(cb[s]) =>
        /\ cb'[s].port = cb[s].port /\ cb'[s].peer = cb[s].peer
        /\ cb'[s].iss = cb[s].iss /\ cb'[s].snd_nxt = cb[s].snd_nxt
        /\ cb[s].state = "SYN_SENT" \/ cb'[s] = cb[s]

(* No call on any thread and no segment of any peer changes the addresses  *)
(* or the send numbers of a block that has a connection, and past SYN_SENT *)
(* nothing changes it at all.                                              *)
ConnectionStable == [][ConnectionStableStep]_vars

(* What the comment on the step to ESTABLISHED says, "our SYN has been     *)
(* ACKed": the number una took is the one that acknowledges this SYN.      *)
EstablishedAcked ==
    \A s \in Soc : cb[s].state = "ESTABLISHED" =>
        cb[s].una = Add(cb[s].iss, 1) /\ cb[s].una > cb[s].iss

(* What the comment on tcp_api_connect's loop says, "wait until state      *)
(* change": once the state has changed, the wait ends.                     *)
ConnectWaitEnds ==
    \A t \in Thread :
        (cl[t].pc = "waiting" /\ cb[cl[t].soc].state = "ESTABLISHED")
            ~> (cl[t].pc = "idle")

(* What the comment on the port search says, "find port number which is    *)
(* not used": two sockets in use never have the same port.                 *)
PortsUnique ==
    \A s, r \in Soc :
        s # r /\ cb[s].used /\ cb[r].used /\ cb[s].port # 0
            => cb[s].port # cb[r].port

=============================================================================
