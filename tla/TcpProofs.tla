------------------------------ MODULE TcpProofs ------------------------------
(***************************************************************************)
(* Proofs about Tcp, for every table size, port range, number of threads   *)
(* and peers, and every sequence space.                                    *)
(*                                                                         *)
(* What tcp_event_segment_arrives does to one block is a lemma about the   *)
(* block alone (EventSound); the invariant of the table follows from it    *)
(* and from which block tcp_rx selects.                                    *)
(***************************************************************************)
EXTENDS Tcp, TLAPS

(* What holds of every block: initial numbers have 31 bits, a block with a *)
(* port has the interface of the route, and the send numbers of a          *)
(* connection follow its initial number.                                   *)
BlockInv(b) ==
    /\ b \in Cb
    /\ b.iss \in InitialSeq
    /\ b.port # 0 => b.iface = DefaultIface
    /\ Live(b) => b.used /\ b.snd_nxt = Add(b.iss, 1)

SynKnown(b) == Live(b) => <<b.port, b.peer, b.iss>> \in syns

Blocks == \A s \in Soc : BlockInv(cb[s]) /\ SynKnown(cb[s])

IInv == TypeOK /\ Blocks /\ NoSelfReset

(* A sum on sequence numbers is one.                                       *)
LEMMA AddType ==
    ASSUME NEW x \in SeqNo, NEW n \in Nat
    PROVE  Add(x, n) \in SeqNo
  BY TcpAssumption, SMTT(60) DEF Add, SeqNo

(* An initial number of 31 bits does not wrap when the SYN is counted.     *)
LEMMA AddIss ==
    ASSUME NEW x \in InitialSeq
    PROVE  x \in Nat /\ x \in SeqNo /\ Add(x, 1) = x + 1
  <1>1. x \in Nat /\ x + 1 < SEQ /\ SEQ \in Nat
    BY TcpAssumption, SMTT(60) DEF InitialSeq, SeqNo
  <1>2. (x + 1) % SEQ = x + 1
    BY <1>1, SMTT(60)
  <1> QED  BY <1>1, <1>2, SMTT(60) DEF Add, InitialSeq

(* What tcp_tx sends has the port and the peer of the block.               *)
LEMMA TxType ==
    ASSUME NEW b \in Cb, b.peer \in Peer, NEW seq \in SeqNo, NEW ack \in SeqNo,
           NEW flg \in Flags
    PROVE  tcp_tx(b, seq, ack, flg) \subseteq Segment
  BY SMTT(60) DEF tcp_tx, Segment, Cb

(* What a segment may do to a block.                                       *)
Kept(b, r) ==
    /\ r.port = b.port /\ r.peer = b.peer /\ r.iface = b.iface
    /\ r.iss = b.iss /\ r.snd_nxt = b.snd_nxt
    /\ Live(r) => Live(b)
    /\ b.state = "SYN_SENT" \/ r = b

OwnReset(b, S) ==
    \A g \in S : /\ g.src = b.port /\ g.dst = b.peer
                 /\ g.flg = {"RST"} /\ Live(b) => g.seq # b.snd_nxt

EventOk(b, res) ==
    /\ BlockInv(res[1])
    /\ Kept(b, res[1])
    /\ res[2] \subseteq Segment
    /\ OwnReset(b, res[2])
    /\ res[2] # {} => res[1].used = b.used

(* A SYN in SYN_SENT, whatever its ack field holds.                        *)
LEMMA SynSound ==
    ASSUME NEW b, BlockInv(b), b.peer \in Peer, b.state = "SYN_SENT",
           NEW seq \in SeqNo, NEW ack \in SeqNo
    PROVE  EventOk(b, SynArrives(b, seq, ack))
  <1> DEFINE sum == Add(seq, 1)
             r == [b EXCEPT !.rcv_nxt = sum, !.una = ack]
             e == [r EXCEPT !.state = "ESTABLISHED"]
             v == [r EXCEPT !.state = "SYN_RCVD"]
  <1>1. sum \in SeqNo /\ b \in Cb /\ b.iss \in InitialSeq /\ b.used
    BY AddType, SMTT(60) DEF BlockInv, Live
  <1>2. b.iss \in Nat /\ b.iss \in SeqNo /\ b.snd_nxt = b.iss + 1
        /\ Add(b.iss, 1) = b.iss + 1 /\ ack \in Nat /\ b.snd_nxt \in SeqNo
    BY <1>1, AddIss, SMTT(60) DEF BlockInv, Live, SeqNo, Cb
  <1> HIDE DEF sum
  <1>3. CASE ack > b.iss
    <2>1. SynArrives(b, seq, ack) = <<e, tcp_tx(b, b.snd_nxt, sum, {"ACK"})>>
      BY <1>3, SMTT(60) DEF SynArrives, sum
    <2>3. BlockInv(e) /\ Kept(b, e)
      BY <1>1, <1>2, ZenonT(60) DEF BlockInv, Kept, Cb, State, Live
    <2>6. e.used = b.used
      BY <1>1, ZenonT(60) DEF Cb
    <2>4. tcp_tx(b, b.snd_nxt, sum, {"ACK"}) \subseteq Segment
      BY <1>1, <1>2, TxType, SMTT(60) DEF Flags
    <2>5. OwnReset(b, tcp_tx(b, b.snd_nxt, sum, {"ACK"}))
      BY SMTT(60) DEF OwnReset, tcp_tx
    <2> HIDE DEF e
    <2> QED  BY <2>1, <2>3, <2>4, <2>5, <2>6, SMTT(60) DEF EventOk
  <1>4. CASE ~(ack > b.iss)
    <2>1. SynArrives(b, seq, ack) = <<v, tcp_tx(b, b.iss, sum, {"SYN", "ACK"})>>
      BY <1>4, SMTT(60) DEF SynArrives, sum
    <2>3. BlockInv(v) /\ Kept(b, v)
      BY <1>1, <1>2, ZenonT(60) DEF BlockInv, Kept, Cb, State, Live
    <2>6. v.used = b.used
      BY <1>1, ZenonT(60) DEF Cb
    <2>4. tcp_tx(b, b.iss, sum, {"SYN", "ACK"}) \subseteq Segment
      BY <1>1, <1>2, TxType, SMTT(60) DEF Flags
    <2>5. OwnReset(b, tcp_tx(b, b.iss, sum, {"SYN", "ACK"}))
      <3>1. {"SYN", "ACK"} # {"RST"}
        BY SMTT(60)
      <3> QED  BY <3>1, SMTT(60) DEF OwnReset, tcp_tx
    <2> HIDE DEF v
    <2> QED  BY <2>1, <2>3, <2>4, <2>5, <2>6, SMTT(60) DEF EventOk
  <1> QED  BY <1>3, <1>4, SMTT(60)

(* A block that stays as it is and sends nothing.                          *)
LEMMA SilentSound ==
    ASSUME NEW b, BlockInv(b)
    PROVE  EventOk(b, <<b, {}>>)
  BY SMTT(60) DEF EventOk, Kept, OwnReset

(* What a segment does to the block tcp_rx gives it to.                    *)
LEMMA EventSound ==
    ASSUME NEW b, BlockInv(b), b.peer \in Peer, NEW flg \in Flags,
           NEW seq \in SeqNo, NEW ack \in SeqNo, NEW plen \in Nat
    PROVE  EventOk(b, tcp_event_segment_arrives(b, flg, seq, ack, plen))
  <1>1. /\ b \in Cb /\ ack \in SeqNo /\ Add(seq, plen) \in SeqNo /\ 0 \in SeqNo
        /\ b.state \in State
    BY AddType, TcpAssumption, SMTT(60) DEF BlockInv, Cb, SeqNo
  <1>2. CASE b.state = "CLOSED"
    <2>1. tcp_event_segment_arrives(b, flg, seq, ack, plen)
            = InClosed(b, flg, seq, ack, plen)
      BY <1>2, SMTT(60) DEF tcp_event_segment_arrives
    <2>2. EventOk(b, <<b, tcp_tx(b, ack, 0, {"RST"})>>)
      <3>1. tcp_tx(b, ack, 0, {"RST"}) \subseteq Segment
        BY <1>1, TxType, SMTT(60) DEF Flags
      <3> QED  BY <3>1, <1>2, SMTT(60)
      DEF EventOk, Kept, OwnReset, tcp_tx, Live
    <2>3. EventOk(b, <<b, tcp_tx(b, 0, Add(seq, plen), {"RST", "ACK"})>>)
      <3>1. tcp_tx(b, 0, Add(seq, plen), {"RST", "ACK"}) \subseteq Segment
        BY <1>1, TxType, SMTT(60) DEF Flags
      <3> QED  BY <3>1, <1>2, SMTT(60)
      DEF EventOk, Kept, OwnReset, tcp_tx, Live
    <2> QED  BY <2>1, <2>2, <2>3, SilentSound, SMTT(60) DEF InClosed
  <1>3. CASE b.state = "SYN_SENT"
    <2>1. tcp_event_segment_arrives(b, flg, seq, ack, plen)
            = InSynSent(b, flg, seq, ack)
      BY <1>3, SMTT(60) DEF tcp_event_segment_arrives
    <2>2. CASE "ACK" \in flg /\ Unacceptable(b, ack)
      <3>1. tcp_tx(b, ack, 0, {"RST"}) \subseteq Segment
        BY <1>1, TxType, SMTT(60) DEF Flags
      <3>2. ack # b.snd_nxt
        <4>1. b.iss \in Nat /\ b.snd_nxt = b.iss + 1 /\ ack \in Nat
          BY <1>1, <1>3, AddIss, SMTT(60) DEF BlockInv, Live, SeqNo
        <4> QED  BY <4>1, <2>2, SMTT(60) DEF Unacceptable
      <3>3. EventOk(b, <<b, tcp_tx(b, ack, 0, {"RST"})>>)
        BY <3>1, <3>2, SMTT(60) DEF EventOk, Kept, OwnReset, tcp_tx
      <3> QED  BY <2>1, <2>2, <3>3, SMTT(60) DEF InSynSent
    <2>3. CASE ~("ACK" \in flg /\ Unacceptable(b, ack)) /\ "RST" \in flg
      <3>1. EventOk(b, <<ResetArrives(b), {}>>)
        <4>1. BlockInv(ResetArrives(b)) /\ Kept(b, ResetArrives(b))
          BY <1>1, <1>3, ZenonT(60)
          DEF BlockInv, Kept, ResetArrives, Live, Cb, State
        <4> QED  BY <4>1, SMTT(60) DEF EventOk, OwnReset
      <3> QED  BY <2>1, <2>3, <3>1, SilentSound, SMTT(60) DEF InSynSent
    <2>4. CASE /\ ~("ACK" \in flg /\ Unacceptable(b, ack))
               /\ "RST" \notin flg /\ "SYN" \in flg
      <3>1. EventOk(b, SynArrives(b, seq, ack))
        BY <1>1, <1>3, SynSound, SMTT(60)
      <3> QED  BY <2>1, <2>4, <3>1, SMTT(60) DEF InSynSent
    <2>5. CASE /\ ~("ACK" \in flg /\ Unacceptable(b, ack))
               /\ "RST" \notin flg /\ "SYN" \notin flg
      BY <2>1, <2>5, SilentSound, SMTT(60) DEF InSynSent
    <2> QED  BY <2>2, <2>3, <2>4, <2>5, SMTT(60)
  <1>4. CASE b.state # "CLOSED" /\ b.state # "SYN_SENT"
    BY <1>4, SilentSound, SMTT(60) DEF tcp_event_segment_arrives
  <1> QED  BY <1>2, <1>3, <1>4, SMTT(60)

-----------------------------------------------------------------------------
(* The invariant holds of the zeroed table.                                *)
LEMMA InitSound == Init => IInv
  <1> SUFFICES ASSUME Init PROVE IInv
    BY SMTT(60)
  <1>1. 0 \in SeqNo /\ 0 \in InitialSeq
    BY TcpAssumption, SMTT(60) DEF SeqNo, InitialSeq
  <1>2. FreshCb \in Cb
    BY <1>1, SMTT(60) DEF FreshCb, Cb, State
  <1>3. TypeOK
    BY <1>2, ZenonT(60) DEF Init, TypeOK, Idle, ClState
  <1>4. Blocks
    BY <1>1, <1>2, ZenonT(60) DEF Init, Blocks, BlockInv, SynKnown, FreshCb, Live
  <1>5. NoSelfReset
    BY SMTT(60) DEF Init, NoSelfReset
  <1> QED  BY <1>3, <1>4, <1>5, SMTT(60) DEF IInv

(* tcp_api_open gives out a closed block and disturbs no connection.       *)
LEMMA OpenSound ==
    ASSUME IInv, NEW t \in Thread, tcp_api_open(t)
    PROVE  IInv' /\ ConnectionStableStep
  <1>1. cl' \in [Thread -> ClState]
    BY SMTT(60) DEF IInv, TypeOK, tcp_api_open, ClState
  <1>2. CASE UNCHANGED cb
    BY <1>1, <1>2, SMTT(60)
    DEF IInv, TypeOK, Blocks, BlockInv, SynKnown, Live, NoSelfReset,
        tcp_api_open, ConnectionStableStep
  <1>3. ASSUME NEW s \in Soc, ~cb[s].used, cb' = [cb EXCEPT ![s] = Opened(cb[s])]
        PROVE  IInv' /\ ConnectionStableStep
    <2>1. BlockInv(cb[s]) /\ cb[s] \in Cb /\ ~Live(cb[s])
      BY <1>3, SMTT(60) DEF IInv, Blocks, BlockInv
    <2>2. BlockInv(Opened(cb[s])) /\ ~Live(Opened(cb[s]))
      BY <2>1, ZenonT(60) DEF BlockInv, Opened, Live, Cb, State
    <2>3. cb' \in [Soc -> Cb]
      BY <1>3, <2>2, SMTT(60) DEF IInv, TypeOK, BlockInv
    <2>4. \A x \in Soc : x # s => cb'[x] = cb[x]
      BY <1>3, SMTT(60) DEF IInv, TypeOK
    <2>5. cb'[s] = Opened(cb[s])
      BY <1>3, SMTT(60) DEF IInv, TypeOK
    <2>6. TypeOK'
      BY <1>1, <2>3, SMTT(60) DEF IInv, TypeOK, tcp_api_open
    <2>7. Blocks'
      BY <2>2, <2>4, <2>5, SMTT(60)
      DEF IInv, Blocks, SynKnown, tcp_api_open, BlockInv, Live
    <2>8. NoSelfReset'
      BY ZenonT(60) DEF NoSelfReset, tcp_api_open
    <2>9. ConnectionStableStep
      BY <2>1, <2>4, ZenonT(60) DEF ConnectionStableStep
    <2> QED  BY <2>6, <2>7, <2>8, <2>9, ZenonT(60) DEF IInv
  <1> QED  BY <1>2, <1>3, SMTT(60) DEF tcp_api_open

(* A call that fails before it sends, a wakeup and a return change no      *)
(* block and send nothing.                                                 *)
LEMMA QuietSound ==
    ASSUME IInv, NEW t \in Thread,
           \/ \E s \in Soc : ConnectRefused(t, s)
           \/ Wakeup(t)
           \/ Resume(t)
    PROVE  IInv' /\ ConnectionStableStep
  <1>1. UNCHANGED <<cb, syns>> /\ out' = {}
    BY SMTT(60) DEF ConnectRefused, Wakeup, Resume
  <1>2. cl[t] \in ClState /\ cl \in [Thread -> ClState]
    BY SMTT(60) DEF IInv, TypeOK
  <1>3. cl' \in [Thread -> ClState]
    <2>1. CASE \E s \in Soc : ConnectRefused(t, s)
      BY <1>2, <2>1, SMTT(60) DEF ConnectRefused, ClState
    <2>2. CASE Wakeup(t)
      BY <1>2, <2>2, SMTT(60) DEF Wakeup, ClState
    <2>3. CASE Resume(t)
      <3>1. Idle \in ClState /\ [cl[t] EXCEPT !.pc = "waiting"] \in ClState
        BY <1>2, SMTT(60) DEF Idle, ClState
      <3> QED  BY <1>2, <2>3, <3>1, SMTT(60) DEF Resume
    <2> QED  BY <2>1, <2>2, <2>3, SMTT(60)
  <1> QED  BY <1>1, <1>3, SMTT(60)
  DEF IInv, TypeOK, Blocks, BlockInv, SynKnown, Live, NoSelfReset,
      ConnectionStableStep

(* tcp_api_connect starts from a closed block.                             *)
LEMMA ConnectSound ==
    ASSUME IInv, NEW t \in Thread, NEW s \in Soc, NEW peer \in Peer,
           NEW iss \in InitialSeq, ConnectSends(t, s, peer, iss)
    PROVE  IInv' /\ ConnectionStableStep
  <1>1. PICK p \in Port :
          LET b == Connecting(cb[s], p, peer, iss)
          IN  \/ /\ cb' = [cb EXCEPT ![s] = b]
                 /\ out' = {}
                 /\ UNCHANGED <<cl, syns>>
              \/ /\ cb' = [cb EXCEPT ![s] = SynSent(b)]
                 /\ cl' = [cl EXCEPT ![t] = [pc |-> "waiting", soc |-> s]]
                 /\ out' = tcp_tx(b, iss, 0, {"SYN"})
                 /\ syns' = syns \cup {<<p, peer, iss>>}
    BY SMTT(60) DEF ConnectSends
  <1> DEFINE b == Connecting(cb[s], p, peer, iss)
  <1>2. /\ BlockInv(cb[s]) /\ cb[s] \in Cb
        /\ cb[s].used /\ cb[s].state = "CLOSED"
        /\ iss \in SeqNo /\ Add(iss, 1) \in SeqNo /\ 0 \in SeqNo
    BY AddIss, AddType, TcpAssumption, SMTT(60)
    DEF IInv, Blocks, BlockInv, ConnectSends, CanConnect, SeqNo
  <1>3. /\ b \in Cb /\ b.port = p /\ b.peer = peer /\ b.iss = iss /\ b.used
        /\ b.iface = DefaultIface /\ b.state = "CLOSED"
    BY <1>2, TcpAssumption, ZenonT(60) DEF Connecting, Cb
  <1> HIDE DEF b
  <1>4. BlockInv(b) /\ ~Live(b)
    BY <1>3, SMTT(60) DEF BlockInv, Live
  <1>5. /\ SynSent(b) \in Cb /\ SynSent(b).port = p /\ SynSent(b).peer = peer
        /\ SynSent(b).iss = iss /\ SynSent(b).used
        /\ SynSent(b).iface = DefaultIface /\ SynSent(b).state = "SYN_SENT"
        /\ SynSent(b).snd_nxt = Add(iss, 1)
    BY <1>2, <1>3, ZenonT(60) DEF SynSent, Cb, State
  <1>6. BlockInv(SynSent(b))
    BY <1>5, ZenonT(60) DEF BlockInv
  <1>7. tcp_tx(b, iss, 0, {"SYN"}) \subseteq Segment
    BY <1>2, <1>3, TxType, SMTT(60) DEF Flags
  <1>8. \A x \in Soc : x # s => cb'[x] = cb[x]
    BY <1>1, ZenonT(60) DEF IInv, TypeOK
  <1>9. ConnectionStableStep
    BY <1>2, <1>8, SMTT(60) DEF ConnectionStableStep, Live
  <1>10. CASE /\ cb' = [cb EXCEPT ![s] = b]
              /\ out' = {}
              /\ UNCHANGED <<cl, syns>>
    <2>1. TypeOK'
      BY <1>3, <1>10, SMTT(60) DEF IInv, TypeOK, ClState
    <2>2. cb'[s] = b
      BY <1>10, SMTT(60) DEF IInv, TypeOK
    <2>3. Blocks'
      BY <1>4, <1>8, <1>10, <2>2, SMTT(60)
      DEF IInv, Blocks, SynKnown, BlockInv, Live
    <2> QED  BY <1>9, <1>10, <2>1, <2>3, SMTT(60) DEF IInv, NoSelfReset
  <1>11. CASE /\ cb' = [cb EXCEPT ![s] = SynSent(b)]
              /\ cl' = [cl EXCEPT ![t] = [pc |-> "waiting", soc |-> s]]
              /\ out' = tcp_tx(b, iss, 0, {"SYN"})
              /\ syns' = syns \cup {<<p, peer, iss>>}
    <2>1. TypeOK'
      BY <1>2, <1>5, <1>7, <1>11, SMTT(60) DEF IInv, TypeOK, ClState
    <2>2. cb'[s] = SynSent(b)
      BY <1>11, ZenonT(60) DEF IInv, TypeOK
    <2>3. SynKnown(cb[s])' /\ BlockInv(cb[s])'
      BY <1>5, <1>6, <1>11, <2>2, SMTT(60) DEF SynKnown, BlockInv, Live
    <2>4. \A x \in Soc : x # s => SynKnown(cb[x])' /\ BlockInv(cb[x])'
      BY <1>8, <1>11, SMTT(60) DEF IInv, Blocks, SynKnown, BlockInv, Live
    <2>5. Blocks'
      BY <2>3, <2>4, ZenonT(60) DEF Blocks
    <2>6. NoSelfReset'
      BY <1>11, SMTT(60) DEF NoSelfReset, tcp_tx
    <2> QED  BY <1>9, <2>1, <2>5, <2>6, ZenonT(60) DEF IInv
  <1> QED  BY <1>1, <1>10, <1>11, SMTT(60) DEF b

(* A segment for a block: the first match, so a live block with the same   *)
(* port and peer comes later in the table.                                 *)
LEMMA FoundSound ==
    ASSUME IInv, NEW e \in Iface, NEW peer \in Peer, NEW dst \in Port,
           NEW flg \in Flags, NEW seq \in SeqNo, NEW ack \in SeqNo,
           NEW plen \in Nat, RxFound(e, peer, dst, flg, seq, ack, plen),
           UNCHANGED <<cl, syns>>
    PROVE  IInv' /\ ConnectionStableStep
  <1>1. PICK s \in Soc :
          /\ Matches(cb[s], e, peer, dst)
          /\ \A r \in Soc : r < s => ~Matches(cb[r], e, peer, dst)
          /\ LET res == tcp_event_segment_arrives(cb[s], flg, seq, ack, plen)
             IN  cb' = [cb EXCEPT ![s] = res[1]] /\ out' = res[2]
    BY ZenonT(60) DEF RxFound
  <1> DEFINE res == tcp_event_segment_arrives(cb[s], flg, seq, ack, plen)
  <1>2. cb' = [cb EXCEPT ![s] = res[1]] /\ out' = res[2]
    BY <1>1, SMTT(60)
  <1>3. EventOk(cb[s], res)
    BY <1>1, EventSound, ZenonT(60) DEF IInv, Blocks, Matches
  <1> HIDE DEF res
  <1>4. /\ cb'[s] = res[1]
        /\ \A x \in Soc : x # s => cb'[x] = cb[x]
    BY <1>2, ZenonT(60) DEF IInv, TypeOK
  <1>5. TypeOK'
    BY <1>2, <1>3, SMTT(60) DEF IInv, TypeOK, EventOk, BlockInv
  <1>6. Blocks'
    <2>1. BlockInv(cb[s])' /\ SynKnown(cb[s])'
      BY <1>3, <1>4, SMTT(60)
      DEF IInv, Blocks, EventOk, Kept, SynKnown, BlockInv, Live
    <2>2. \A x \in Soc : x # s => BlockInv(cb[x])' /\ SynKnown(cb[x])'
      BY <1>4, SMTT(60) DEF IInv, Blocks, SynKnown, BlockInv, Live
    <2> QED  BY <2>1, <2>2, ZenonT(60) DEF Blocks
  <1>7. ConnectionStableStep
    BY <1>3, <1>4, ZenonT(60) DEF ConnectionStableStep, EventOk, Kept
  <1>8. NoSelfReset'
    <2> SUFFICES ASSUME NEW g \in out', NEW x \in Soc,
                        g.flg = {"RST"}, Live(cb'[x]), g.src = cb'[x].port,
                        g.dst = cb'[x].peer, g.seq = cb'[x].snd_nxt
                 PROVE  /\ s < x /\ cb'[s].used
                        /\ cb'[s].port = g.src /\ cb'[s].peer = g.dst
      BY ZenonT(60) DEF NoSelfReset, Live
    <2>1. /\ g.src = cb[s].port /\ g.dst = cb[s].peer
          /\ Live(cb[s]) => g.seq # cb[s].snd_nxt
      BY <1>2, <1>3, ZenonT(60) DEF EventOk, OwnReset
    <2>2. x # s
      BY <1>3, <1>4, <2>1, SMTT(60) DEF EventOk, Kept
    <2>3. /\ cb'[x] = cb[x] /\ Live(cb[x])
          /\ <<cb[x].port, cb[x].peer, cb[x].iss>> \in syns
      BY <1>4, <2>2, ZenonT(60) DEF IInv, Blocks, SynKnown
    <2>4. cb[x].port # 0
      BY <2>3, TcpAssumption, SMTT(60) DEF IInv, TypeOK, Port
    <2>5. cb[x].iface = DefaultIface /\ cb[s].iface = DefaultIface
      BY <2>1, <2>3, <2>4, ZenonT(60) DEF IInv, Blocks, BlockInv
    <2>6. Matches(cb[x], e, peer, dst)
      BY <1>1, <2>1, <2>3, <2>5, TcpAssumption, ZenonT(60)
      DEF Matches, Free, Live
    <2>7. s < x
      BY <1>1, <2>2, <2>6, TcpAssumption, SMTT(60) DEF Soc
    <2>8. cb[s].used /\ cb'[s].used
      BY <1>1, <1>2, <1>3, <1>4, SMTT(60)
      DEF Matches, Free, EventOk, IInv, Blocks, BlockInv, Live
    <2> QED  BY <1>3, <1>4, <2>1, <2>7, <2>8, ZenonT(60) DEF EventOk, Kept
  <1> QED  BY <1>5, <1>6, <1>7, <1>8, SMTT(60) DEF IInv

(* A segment for no block: only a free one is written, and what it answers *)
(* with comes from port 0.                                                 *)
LEMMA UnknownSound ==
    ASSUME IInv, NEW e \in Iface, NEW peer \in Peer, NEW dst \in Port,
           NEW flg \in Flags, NEW seq \in SeqNo, NEW ack \in SeqNo,
           NEW plen \in Nat, RxUnknown(e, peer, dst, flg, seq, ack, plen),
           UNCHANGED <<cl, syns>>
    PROVE  IInv' /\ ConnectionStableStep
  <1>1. CASE UNCHANGED cb /\ out' = {}
    BY <1>1, SMTT(60)
    DEF IInv, TypeOK, Blocks, BlockInv, SynKnown, Live, NoSelfReset,
        ConnectionStableStep
  <1>2. ASSUME NEW s \in Soc, Free(cb[s]),
               LET b == [cb[s] EXCEPT !.iface = e, !.used = FALSE, !.port = 0,
                                      !.peer = peer]
                   res == tcp_event_segment_arrives(b, flg, seq, ack, plen)
               IN  cb' = [cb EXCEPT ![s] = res[1]] /\ out' = res[2]
        PROVE  IInv' /\ ConnectionStableStep
    <2> DEFINE b == [cb[s] EXCEPT !.iface = e, !.used = FALSE, !.port = 0,
                                  !.peer = peer]
               res == tcp_event_segment_arrives(b, flg, seq, ack, plen)
    <2>1. cb' = [cb EXCEPT ![s] = res[1]] /\ out' = res[2]
      BY <1>2, SMTT(60)
    <2>2. BlockInv(b) /\ b.peer = peer /\ b.port = 0 /\ ~Live(b)
      BY <1>2, ZenonT(60) DEF IInv, Blocks, BlockInv, Free, Live, Cb
    <2> HIDE DEF b
    <2>3. EventOk(b, res)
      BY <2>2, EventSound, SMTT(60)
    <2> HIDE DEF res
    <2>4. /\ cb'[s] = res[1] /\ ~Live(cb'[s])
          /\ \A x \in Soc : x # s => cb'[x] = cb[x]
      BY <2>1, <2>2, <2>3, ZenonT(60) DEF IInv, TypeOK, EventOk, Kept
    <2>5. TypeOK'
      BY <2>1, <2>3, ZenonT(60) DEF IInv, TypeOK, EventOk, BlockInv
    <2>6. Blocks'
      <3>1. BlockInv(cb[s])' /\ SynKnown(cb[s])'
        BY <2>3, <2>4, ZenonT(60) DEF EventOk, SynKnown, BlockInv, Live
      <3>2. \A x \in Soc : x # s => BlockInv(cb[x])' /\ SynKnown(cb[x])'
        BY <2>4, SMTT(60) DEF IInv, Blocks, SynKnown, BlockInv, Live
      <3> QED  BY <3>1, <3>2, SMTT(60) DEF Blocks
    <2>7. ConnectionStableStep
      BY <1>2, <2>4, ZenonT(60) DEF ConnectionStableStep, Free, Live
    <2>8. NoSelfReset'
      <3>1. \A g \in out' : g.src = 0
        BY <2>1, <2>2, <2>3, ZenonT(60) DEF EventOk, OwnReset
      <3>2. ASSUME NEW x \in Soc, Live(cb'[x])
            PROVE  cb'[x].port # 0
        <4>1. <<cb'[x].port, cb'[x].peer, cb'[x].iss>> \in syns'
          BY <2>6, <3>2, ZenonT(60) DEF Blocks, SynKnown, Live
        <4>2. cb'[x].port \in Port
          BY <4>1, <2>5, ZenonT(60) DEF TypeOK
        <4> QED  BY <4>2, TcpAssumption, SMTT(60) DEF Port
      <3> QED  BY <3>1, <3>2, ZenonT(60) DEF NoSelfReset, Live
    <2> QED  BY <2>5, <2>6, <2>7, <2>8, SMTT(60) DEF IInv
  <1> QED  BY <1>1, <1>2, ZenonT(60) DEF RxUnknown

(* A segment acknowledges a SYN that was sent, or has a stray ack field.   *)
LEMMA ArrivesGood ==
    ASSUME IInv, NEW e \in Iface, NEW peer \in Peer, Arrives(e, peer)
    PROVE  \E dst \in Port, flg \in Flags, seq \in SeqNo, plen \in Nat,
              ack \in SeqNo : /\ "ACK" \notin flg => ack \in StrayAck
                             /\ tcp_rx(e, peer, dst, flg, seq, ack, plen)
  <1>1. PICK dst \in Port, flg \in Flags, seq \in PeerSeq, plen \in PayloadLen :
          \/ /\ "ACK" \notin flg
             /\ \E ack \in StrayAck : tcp_rx(e, peer, dst, flg, seq, ack, plen)
          \/ /\ "ACK" \in flg
             /\ \E y \in syns :
                  /\ y[1] = dst /\ y[2] = peer
                  /\ tcp_rx(e, peer, dst, flg, seq, Add(y[3], 1), plen)
    BY ZenonT(60) DEF Arrives
  <1>2. /\ seq \in SeqNo /\ plen \in Nat
        /\ \A ack \in StrayAck : ack \in SeqNo
    BY TcpAssumption, ZenonT(60)
  <1>3. \A y \in syns : Add(y[3], 1) \in SeqNo
    BY AddType, SMTT(60) DEF IInv, TypeOK
  <1> QED  BY <1>1, <1>2, <1>3, ZenonT(60)

(* What the network delivers keeps the invariant.                          *)
LEMMA ArrivesSound ==
    ASSUME IInv, NEW e \in Iface, NEW peer \in Peer, Arrives(e, peer)
    PROVE  IInv' /\ ConnectionStableStep
  <1>1. PICK dst \in Port, flg \in Flags, seq \in SeqNo, plen \in Nat,
             ack \in SeqNo : tcp_rx(e, peer, dst, flg, seq, ack, plen)
    BY ArrivesGood, ZenonT(60)
  <1> QED  BY <1>1, FoundSound, UnknownSound, ZenonT(60) DEF tcp_rx

(* Every step keeps the invariant and disturbs no connection.              *)
LEMMA NextSound ==
    ASSUME IInv, [Next]_vars
    PROVE  IInv' /\ [ConnectionStableStep]_vars
  <1>1. CASE UNCHANGED vars
    BY <1>1, SMTT(60)
    DEF vars, IInv, TypeOK, Blocks, BlockInv, SynKnown, Live, NoSelfReset
  <1>2. ASSUME NEW t \in Thread, Call(t) \/ Wakeup(t) \/ Resume(t)
        PROVE  IInv' /\ ConnectionStableStep
    BY <1>2, OpenSound, QuietSound, ConnectSound, SMTT(60) DEF Call
  <1>3. ASSUME NEW e \in Iface, NEW peer \in Peer, Arrives(e, peer)
        PROVE  IInv' /\ ConnectionStableStep
    BY <1>3, ArrivesSound, SMTT(60)
  <1> QED  BY <1>1, <1>2, <1>3, ZenonT(60) DEF Next

(* The properties the runs check follow from the invariant.                *)
LEMMA Consequences ==
    ASSUME IInv
    PROVE  LiveSound /\ SynAckAcceptable
  <1>1. LiveSound
    <2> SUFFICES ASSUME NEW s \in Soc, Live(cb[s])
                 PROVE  /\ cb[s].used
                        /\ cb[s].iface = DefaultIface
                        /\ <<cb[s].port, cb[s].peer, cb[s].iss>> \in syns
                        /\ cb[s].snd_nxt = Add(cb[s].iss, 1)
      BY SMTT(60) DEF LiveSound
    <2>1. BlockInv(cb[s]) /\ <<cb[s].port, cb[s].peer, cb[s].iss>> \in syns
      BY SMTT(60) DEF IInv, Blocks, SynKnown
    <2>2. cb[s].port # 0
      BY <2>1, TcpAssumption, SMTT(60) DEF IInv, TypeOK, Port
    <2> QED  BY <2>1, <2>2, ZenonT(60) DEF BlockInv
  <1>2. ASSUME NEW s \in Soc
        PROVE  /\ Add(cb[s].iss, 1) = cb[s].iss + 1 /\ cb[s].iss \in Nat
               /\ Live(cb[s]) => cb[s].snd_nxt = Add(cb[s].iss, 1)
    BY AddIss, ZenonT(60) DEF IInv, Blocks, BlockInv
  <1>3. SynAckAcceptable
    BY <1>2, SMTT(60) DEF SynAckAcceptable, Unacceptable, Live
  <1> QED  BY <1>1, <1>3, ZenonT(60)

-----------------------------------------------------------------------------
(* The inductive invariant of the TCP layer holds in every behaviour.      *)
THEOREM Invariance == Spec => []IInv
  <1>1. IInv /\ [Next]_vars => IInv'
    BY NextSound, SMTT(60)
  <1> QED  BY InitSound, <1>1, PTL DEF Spec

(* Every variable keeps its type.                                          *)
THEOREM TypeCorrect == Spec => []TypeOK
  <1>1. IInv => TypeOK
    BY SMTT(60) DEF IInv
  <1> QED  BY Invariance, <1>1, PTL

(* A block with a connection is in use, and its own SYN was sent.          *)
THEOREM ConnectionsSound == Spec => []LiveSound
  <1>1. IInv => LiveSound
    BY Consequences, SMTT(60)
  <1> QED  BY Invariance, <1>1, PTL

(* The answer to our SYN passes the uint32_t comparisons, for every        *)
(* sequence space and every number random() returns.                       *)
THEOREM SynAckAccepted == Spec => []SynAckAcceptable
  <1>1. IInv => SynAckAcceptable
    BY Consequences, SMTT(60)
  <1> QED  BY Invariance, <1>1, PTL

(* We reset our own live connection only when an earlier block shares its  *)
(* port and peer.                                                          *)
THEOREM ResetsSound == Spec => []NoSelfReset
  <1>1. IInv => NoSelfReset
    BY SMTT(60) DEF IInv
  <1> QED  BY Invariance, <1>1, PTL

(* No step of any thread or peer disturbs a connection.                    *)
THEOREM ConnectionsKept == Spec => ConnectionStable
  <1>1. IInv /\ [Next]_vars => [ConnectionStableStep]_vars
    BY NextSound, SMTT(60)
  <1> QED  BY Invariance, <1>1, PTL DEF Spec, ConnectionStable
-----------------------------------------------------------------------------
(* The initial numbers of all SYNs sent have 31 bits, like those of the    *)
(* blocks.                                                                 *)
SynNumbers == \A y \in syns : y[3] \in InitialSeq

LEMMA SynNumbersKept == Spec => []SynNumbers
  <1>1. Init => SynNumbers
    BY ZenonT(60) DEF Init, SynNumbers
  <1>2. ASSUME SynNumbers, [Next]_vars
        PROVE  SynNumbers'
    <2>1. CASE UNCHANGED syns
      BY <1>2, <2>1, ZenonT(60) DEF SynNumbers
    <2>2. ASSUME NEW t \in Thread, NEW s \in Soc, NEW peer \in Peer,
                 NEW iss \in InitialSeq, ConnectSends(t, s, peer, iss)
          PROVE  SynNumbers'
      <3>1. UNCHANGED syns \/ \E p \in Port : syns' = syns \cup {<<p, peer, iss>>}
        BY <2>2, ZenonT(60) DEF ConnectSends
      <3> QED  BY <1>2, <2>1, <3>1, SMTT(60) DEF SynNumbers
    <2>3. ASSUME NEW t \in Thread,
                 \/ tcp_api_open(t)
                 \/ \E s \in Soc : ConnectRefused(t, s)
                 \/ Wakeup(t)
                 \/ Resume(t)
          PROVE  UNCHANGED syns
      BY <2>3, ZenonT(60) DEF tcp_api_open, ConnectRefused, Wakeup, Resume
    <2>4. ASSUME NEW e \in Iface, NEW peer \in Peer, Arrives(e, peer)
          PROVE  UNCHANGED syns
      BY <2>4, ZenonT(60) DEF Arrives, tcp_rx
    <2>5. CASE UNCHANGED vars
      BY <2>1, <2>5, ZenonT(60) DEF vars
    <2> QED  BY <1>2, <2>1, <2>2, <2>3, <2>4, <2>5, ZenonT(60) DEF Next, Call
  <1> QED  BY <1>1, <1>2, PTL DEF Spec

(* Late answers to an earlier SYN of the same port and peer, in any number *)
(* and order, leave a new connection as it is: for every sequence space    *)
(* the comparisons on uint32_t refuse every number but the one it waits    *)
(* for.                                                                    *)
THEOREM OldAnswersHarmless == Spec => []OldAnswersIgnored
  <1>1. ASSUME IInv, SynNumbers
        PROVE  OldAnswersIgnored
    <2> SUFFICES ASSUME NEW s \in Soc, NEW y \in syns,
                        cb[s].state = "SYN_SENT", y[3] # cb[s].iss,
                        NEW flg \in Flags, NEW seq \in PeerSeq,
                        NEW plen \in PayloadLen, "ACK" \in flg
                 PROVE  tcp_event_segment_arrives(
                          cb[s], flg, seq, Add(y[3], 1), plen)[1] = cb[s]
      BY ZenonT(60) DEF OldAnswersIgnored
    <2>1. /\ cb[s].iss \in InitialSeq /\ y[3] \in InitialSeq
          /\ cb[s].snd_nxt = Add(cb[s].iss, 1)
      BY <1>1, SMTT(60) DEF IInv, Blocks, BlockInv, Live, SynNumbers
    <2>2. /\ cb[s].iss \in Nat /\ Add(cb[s].iss, 1) = cb[s].iss + 1
          /\ y[3] \in Nat /\ Add(y[3], 1) = y[3] + 1
      BY <2>1, AddIss, ZenonT(60)
    <2>3. Unacceptable(cb[s], Add(y[3], 1))
      BY <2>1, <2>2, SMTT(60) DEF Unacceptable
    <2>4. tcp_event_segment_arrives(cb[s], flg, seq, Add(y[3], 1), plen)
            = <<cb[s], tcp_tx(cb[s], Add(y[3], 1), 0, {"RST"})>>
      BY <2>3, SMTT(60) DEF tcp_event_segment_arrives, InSynSent
    <2> QED  BY <2>4, SMTT(60)
  <1> QED  BY <1>1, Invariance, SynNumbersKept, PTL

-----------------------------------------------------------------------------
(* What tcp_tx sends has the flags it was given.                           *)
LEMMA TxFlags ==
    ASSUME NEW b, NEW seq, NEW ack, NEW flg, NEW g \in tcp_tx(b, seq, ack, flg)
    PROVE  g.flg = flg
  BY SMTT(60) DEF tcp_tx

(* The answers of this stack: a reset, a reset with an acknowledgment, an  *)
(* acknowledgment, and the second half of a simultaneous open.             *)
LEMMA AnswerRanks ==
    /\ AnswersLeft({"RST"}) = 0 /\ AnswersLeft({"RST", "ACK"}) = 1
    /\ AnswersLeft({"ACK"}) = 2 /\ AnswersLeft({"SYN", "ACK"}) = 3
  BY SMTT(60) DEF AnswersLeft

(* The answer to a segment has fewer answers left than the segment, for    *)
(* every block and not only for those the table reaches.                   *)
LEMMA AnswerLess ==
    ASSUME NEW b \in Cb, NEW flg \in Flags, NEW seq \in SeqNo,
           NEW ack \in SeqNo, NEW plen \in Nat,
           NEW g \in tcp_event_segment_arrives(b, flg, seq, ack, plen)[2]
    PROVE  AnswersLeft(g.flg) < AnswersLeft(flg)
  <1>1. CASE b.state = "CLOSED"
    <2>1. /\ "RST" \notin flg
          /\ \/ "ACK" \in flg /\ g \in tcp_tx(b, ack, 0, {"RST"})
             \/ "ACK" \notin flg
                /\ g \in tcp_tx(b, 0, Add(seq, plen), {"RST", "ACK"})
      BY <1>1, SMTT(60) DEF tcp_event_segment_arrives, InClosed
    <2>2. AnswersLeft(flg) > 1
      BY <2>1, SMTT(60) DEF AnswersLeft
    <2>3. g.flg = {"RST"} \/ g.flg = {"RST", "ACK"}
      BY <2>1, TxFlags, ZenonT(60)
    <2>4. AnswersLeft(g.flg) \in {0, 1}
      BY <2>3, AnswerRanks, ZenonT(60)
    <2> QED  BY <2>2, <2>4, SMTT(60) DEF AnswersLeft
  <1>2. CASE b.state = "SYN_SENT"
    <2>1. g \in InSynSent(b, flg, seq, ack)[2]
      BY <1>2, SMTT(60) DEF tcp_event_segment_arrives
    <2>2. CASE "ACK" \in flg /\ Unacceptable(b, ack)
      <3>1. g \in tcp_tx(b, ack, 0, {"RST"})
        BY <2>1, <2>2, SMTT(60) DEF InSynSent
      <3>2. AnswersLeft(g.flg) = 0
        <4>1. g.flg = {"RST"}
          BY <3>1, TxFlags, ZenonT(60)
        <4> QED  BY <4>1, AnswerRanks, ZenonT(60)
      <3>3. AnswersLeft(flg) > 0
        BY <2>2, SMTT(60) DEF AnswersLeft
      <3> QED  BY <3>2, <3>3, SMTT(60)
    <2>3. CASE ~("ACK" \in flg /\ Unacceptable(b, ack))
      <3>1. /\ "RST" \notin flg /\ "SYN" \in flg
            /\ g \in SynArrives(b, seq, ack)[2]
        BY <2>1, <2>3, SMTT(60) DEF InSynSent
      <3>2. CASE ack > b.iss
        <4>1. g \in tcp_tx(b, b.snd_nxt, Add(seq, 1), {"ACK"})
          BY <3>1, <3>2, SMTT(60) DEF SynArrives
        <4>2. AnswersLeft(g.flg) = 2
          <5>1. g.flg = {"ACK"}
            BY <4>1, TxFlags, ZenonT(60)
          <5> QED  BY <5>1, AnswerRanks, ZenonT(60)
        <4> QED  BY <3>1, <4>2, SMTT(60) DEF AnswersLeft
      <3>3. CASE ~(ack > b.iss)
        <4>1. "ACK" \notin flg
          BY <2>3, <3>3, TcpAssumption, SMTT(60) DEF Unacceptable, SeqNo, Cb
        <4>2. g \in tcp_tx(b, b.iss, Add(seq, 1), {"SYN", "ACK"})
          BY <3>1, <3>3, SMTT(60) DEF SynArrives
        <4>3. AnswersLeft(g.flg) = 3
          <5>1. g.flg = {"SYN", "ACK"}
            BY <4>2, TxFlags, ZenonT(60)
          <5> QED  BY <5>1, AnswerRanks, ZenonT(60)
        <4>4. AnswersLeft(flg) = 4
          BY <3>1, <4>1, SMTT(60) DEF AnswersLeft
        <4> QED  BY <4>3, <4>4, SMTT(60)
      <3> QED  BY <3>2, <3>3, ZenonT(60)
    <2> QED  BY <2>2, <2>3, ZenonT(60)
  <1>3. CASE b.state # "CLOSED" /\ b.state # "SYN_SENT"
    BY <1>3, SMTT(60) DEF tcp_event_segment_arrives
  <1> QED  BY <1>1, <1>2, <1>3, ZenonT(60)

(* Two hosts with this stack never answer each other's answers for ever:   *)
(* what tcp_event_segment_arrives sends causes fewer answers than what it  *)
(* received, and no segment causes more than four.                         *)
THEOREM AnswersBounded == Spec => []AnswersEnd
  <1>1. ASSUME IInv
        PROVE  AnswersEnd
    <2>1. \A plen \in PayloadLen : plen \in Nat
      BY TcpAssumption, ZenonT(60)
    <2>2. \A s \in Soc : cb[s] \in Cb
      BY <1>1, ZenonT(60) DEF IInv, TypeOK
    <2> QED  BY <2>1, <2>2, AnswerLess, ZenonT(60) DEF AnswersEnd
  <1> QED  BY Invariance, <1>1, PTL

-----------------------------------------------------------------------------
(* The cause of the clash of ports that the model checker finds: a reset   *)
(* frees a block and leaves the port in it (tcp.c:198), and tcp_api_open   *)
(* hands the block out again with that port.                               *)
FreedBlocksBlank == \A s \in Soc : ~cb[s].used => cb[s].port = 0

(* A segment does not change a block's port and takes no block into use.   *)
LEMMA EventKeepsPort ==
    ASSUME NEW b, BlockInv(b), NEW res, EventOk(b, res)
    PROVE  res[1].port = b.port /\ (res[1].used => b.used)
  BY ZenonT(60) DEF EventOk, Kept, BlockInv, Live

(* A step keeps the ports of the used blocks apart unless it hands out a   *)
(* block that still has one.                                               *)
LEMMA PortsStep ==
    ASSUME IInv, FreedBlocksBlank, PortsUnique, [Next]_vars
    PROVE  PortsUnique'
  <1>1. CASE UNCHANGED cb
    BY <1>1, ZenonT(60) DEF PortsUnique
  <1>2. ASSUME NEW s \in Soc, NEW b, cb' = [cb EXCEPT ![s] = b],
               \/ b.port = 0
               \/ b.port = cb[s].port /\ (b.used => cb[s].used)
               \/ ~PortUsed(b.port)
        PROVE  PortsUnique'
    <2>1. cb'[s] = b /\ \A x \in Soc : x # s => cb'[x] = cb[x]
      BY <1>2, ZenonT(60) DEF IInv, TypeOK
    <2> QED  BY <1>2, <2>1, SMTT(60) DEF PortsUnique, PortUsed
  <1>3. ASSUME NEW t \in Thread, tcp_api_open(t)
        PROVE  PortsUnique'
    <2>1. CASE UNCHANGED cb
      BY <1>1, <2>1
    <2>2. ASSUME NEW s \in Soc, ~cb[s].used,
                 cb' = [cb EXCEPT ![s] = Opened(cb[s])]
          PROVE  PortsUnique'
      <3>1. Opened(cb[s]).port = 0
        <4>1. cb[s] \in Cb /\ cb[s].port = 0
          BY <2>2, ZenonT(60) DEF FreedBlocksBlank, IInv, TypeOK
        <4> QED  BY <4>1, ZenonT(60) DEF Opened, Cb
      <3> QED  BY <1>2, <2>2, <3>1, ZenonT(60)
    <2> QED  BY <1>3, <2>1, <2>2, ZenonT(60) DEF tcp_api_open
  <1>4. ASSUME NEW t \in Thread, NEW s \in Soc, NEW peer \in Peer,
               NEW iss \in InitialSeq, ConnectSends(t, s, peer, iss)
        PROVE  PortsUnique'
    <2>1. PICK p \in Port :
            /\ p = cb[s].port \/ ~PortUsed(p)
            /\ LET b == Connecting(cb[s], p, peer, iss)
               IN  \/ cb' = [cb EXCEPT ![s] = b]
                   \/ cb' = [cb EXCEPT ![s] = SynSent(b)]
      BY <1>4, ZenonT(60) DEF ConnectSends, FoundPort
    <2>2. cb[s] \in Cb /\ cb[s].used
      BY <1>4, ZenonT(60) DEF IInv, TypeOK, ConnectSends, CanConnect
    <2>3. /\ Connecting(cb[s], p, peer, iss).port = p
          /\ SynSent(Connecting(cb[s], p, peer, iss)).port = p
      BY <2>2, ZenonT(60) DEF Connecting, SynSent, Cb
    <2> QED  BY <1>2, <2>1, <2>2, <2>3, ZenonT(60)
  <1>5. ASSUME NEW e \in Iface, NEW peer \in Peer, NEW dst \in Port,
               NEW flg \in Flags, NEW seq \in SeqNo, NEW ack \in SeqNo,
               NEW plen \in Nat,
               tcp_rx(e, peer, dst, flg, seq, ack, plen)
        PROVE  PortsUnique'
    <2>1. CASE RxFound(e, peer, dst, flg, seq, ack, plen)
      <3>1. PICK s \in Soc :
              /\ Matches(cb[s], e, peer, dst)
              /\ cb' = [cb EXCEPT ![s] = tcp_event_segment_arrives(
                                           cb[s], flg, seq, ack, plen)[1]]
        BY <2>1, ZenonT(60) DEF RxFound
      <3>2. BlockInv(cb[s]) /\ cb[s].peer \in Peer
        BY <3>1, ZenonT(60) DEF IInv, Blocks, Matches
      <3>3. EventOk(cb[s], tcp_event_segment_arrives(cb[s], flg, seq, ack, plen))
        BY <1>5, <3>2, EventSound, ZenonT(60)
      <3> QED  BY <1>2, <3>1, <3>2, <3>3, EventKeepsPort, ZenonT(60)
    <2>2. CASE RxUnknown(e, peer, dst, flg, seq, ack, plen)
      <3>1. ASSUME NEW s \in Soc, Free(cb[s]),
                   cb' = [cb EXCEPT ![s] = tcp_event_segment_arrives(
                            [cb[s] EXCEPT !.iface = e, !.used = FALSE,
                                          !.port = 0, !.peer = peer],
                            flg, seq, ack, plen)[1]]
            PROVE  PortsUnique'
        <4> DEFINE b == [cb[s] EXCEPT !.iface = e, !.used = FALSE, !.port = 0,
                                      !.peer = peer]
        <4>1. BlockInv(b) /\ b.peer = peer /\ b.port = 0
          BY <3>1, ZenonT(60) DEF IInv, Blocks, BlockInv, Free, Live, Cb
        <4>2. cb' = [cb EXCEPT ![s] =
                       tcp_event_segment_arrives(b, flg, seq, ack, plen)[1]]
          BY <3>1, ZenonT(60)
        <4> HIDE DEF b
        <4>3. EventOk(b, tcp_event_segment_arrives(b, flg, seq, ack, plen))
          BY <1>5, <4>1, EventSound, ZenonT(60)
        <4> QED  BY <1>2, <4>1, <4>2, <4>3, EventKeepsPort, ZenonT(60)
      <3> QED  BY <1>1, <2>2, <3>1, ZenonT(60) DEF RxUnknown
    <2> QED  BY <1>5, <2>1, <2>2, ZenonT(60) DEF tcp_rx
  <1>6. ASSUME NEW e \in Iface, NEW peer \in Peer, Arrives(e, peer)
        PROVE  PortsUnique'
    <2>1. PICK dst \in Port, flg \in Flags, seq \in SeqNo, plen \in Nat,
               ack \in SeqNo : tcp_rx(e, peer, dst, flg, seq, ack, plen)
      BY <1>6, ArrivesGood, ZenonT(60)
    <2> QED  BY <1>5, <2>1, ZenonT(60)
  <1>7. ASSUME NEW t \in Thread,
               \/ \E s \in Soc : ConnectRefused(t, s)
               \/ Wakeup(t)
               \/ Resume(t)
        PROVE  PortsUnique'
    BY <1>1, <1>7, ZenonT(60) DEF ConnectRefused, Wakeup, Resume
  <1>8. CASE UNCHANGED vars
    BY <1>1, <1>8, ZenonT(60) DEF vars
  <1> QED  BY <1>3, <1>4, <1>6, <1>7, <1>8, ZenonT(60) DEF Next, Call

(* The port left in a freed block is the only cause: as long as no block   *)
(* is freed with its port, no two sockets in use have the same one, for    *)
(* any number of sockets, threads and ports.                               *)
THEOREM PortsApart == Spec /\ []FreedBlocksBlank => []PortsUnique
  <1>1. Init => PortsUnique
    BY SMTT(60) DEF Init, FreshCb, PortsUnique
  <1>2. IInv /\ FreedBlocksBlank /\ PortsUnique /\ [Next]_vars => PortsUnique'
    BY PortsStep, ZenonT(60)
  <1> QED  BY <1>1, <1>2, Invariance, PTL DEF Spec

-----------------------------------------------------------------------------
(* The cause of a connection that is ESTABLISHED without an acknowledgment *)
(* of its SYN: una takes the ack field of a segment whose ACK bit is clear *)
(* (tcp.c:209).                                                            *)
Acked(b) == b.state = "ESTABLISHED" => b.una = Add(b.iss, 1)

(* A segment that acknowledges something, or has 0 in its ack field, leads *)
(* to ESTABLISHED only with the number this connection waits for.          *)
LEMMA EventAcked ==
    ASSUME NEW b, BlockInv(b), Acked(b), NEW flg \in Flags,
           NEW seq \in SeqNo, NEW ack \in SeqNo, "ACK" \notin flg => ack = 0,
           NEW plen \in Nat
    PROVE  Acked(tcp_event_segment_arrives(b, flg, seq, ack, plen)[1])
  <1> DEFINE res == tcp_event_segment_arrives(b, flg, seq, ack, plen)
  <1>1. CASE res[1] = b
    BY <1>1, ZenonT(60)
  <1>2. CASE b.state = "CLOSED"
    BY <1>1, <1>2, SMTT(60) DEF tcp_event_segment_arrives, InClosed
  <1>3. CASE b.state # "CLOSED" /\ b.state # "SYN_SENT"
    BY <1>1, <1>3, SMTT(60) DEF tcp_event_segment_arrives
  <1>4. CASE b.state = "SYN_SENT"
    <2>1. res = InSynSent(b, flg, seq, ack)
      BY <1>4, SMTT(60) DEF tcp_event_segment_arrives
    <2>2. CASE res[1] = ResetArrives(b)
      <3>1. ResetArrives(b).state = "CLOSED"
        BY ZenonT(60) DEF ResetArrives, BlockInv, Cb
      <3> QED  BY <2>2, <3>1, SMTT(60) DEF Acked
    <2>3. CASE /\ res = SynArrives(b, seq, ack)
               /\ ~("ACK" \in flg /\ Unacceptable(b, ack))
      <3>1. /\ b \in Cb /\ b.iss \in Nat /\ b.snd_nxt = b.iss + 1
            /\ Add(b.iss, 1) = b.iss + 1 /\ ack \in Nat
        BY <1>4, AddIss, SMTT(60) DEF BlockInv, Live, SeqNo
      <3>2. CASE ack > b.iss
        <4>1. ack = b.iss + 1
          BY <2>3, <3>1, <3>2, SMTT(60) DEF Unacceptable
        <4>2. res[1].una = ack /\ res[1].iss = b.iss
          BY <2>3, <3>1, <3>2, SMTT(60) DEF SynArrives, Cb
        <4> QED  BY <3>1, <4>1, <4>2, ZenonT(60) DEF Acked
      <3>3. CASE ~(ack > b.iss)
        <4>1. res[1].state = "SYN_RCVD"
          BY <2>3, <3>1, <3>3, SMTT(60) DEF SynArrives, Cb
        <4> QED  BY <4>1, SMTT(60) DEF Acked
      <3> QED  BY <3>2, <3>3
    <2> HIDE DEF res
    <2>4. \/ res[1] = b \/ res[1] = ResetArrives(b)
          \/ /\ res = SynArrives(b, seq, ack)
             /\ ~("ACK" \in flg /\ Unacceptable(b, ack))
      BY <2>1, SMTT(60) DEF InSynSent
    <2> QED  BY <1>1, <2>2, <2>3, <2>4, ZenonT(60) DEF res
  <1> QED  BY <1>2, <1>3, <1>4, ZenonT(60)

AllAcked == \A s \in Soc : Acked(cb[s])

(* With nothing but 0 in the ack field of segments without ACK, no step    *)
(* establishes a connection whose SYN is not acknowledged.                 *)
LEMMA AckedStep ==
    ASSUME StrayAck \subseteq {0}, IInv, AllAcked, [Next]_vars
    PROVE  AllAcked'
  <1>1. CASE UNCHANGED cb
    BY <1>1, ZenonT(60) DEF AllAcked, Acked
  <1>2. ASSUME NEW s \in Soc, NEW b, cb' = [cb EXCEPT ![s] = b], Acked(b)
        PROVE  AllAcked'
    <2>1. cb'[s] = b /\ \A x \in Soc : x # s => cb'[x] = cb[x]
      BY <1>2, ZenonT(60) DEF IInv, TypeOK
    <2> QED  BY <1>2, <2>1, ZenonT(60) DEF AllAcked, Acked
  <1>3. ASSUME NEW t \in Thread, tcp_api_open(t)
        PROVE  AllAcked'
    <2>1. ASSUME NEW s \in Soc
          PROVE  Acked(Opened(cb[s]))
      <3>1. Opened(cb[s]).state = "CLOSED"
        BY ZenonT(60) DEF Opened, IInv, TypeOK, Cb
      <3> QED  BY <3>1, SMTT(60) DEF Acked
    <2> QED  BY <1>1, <1>2, <1>3, <2>1, ZenonT(60) DEF tcp_api_open
  <1>4. ASSUME NEW t \in Thread, NEW s \in Soc, NEW peer \in Peer,
               NEW iss \in InitialSeq, ConnectSends(t, s, peer, iss)
        PROVE  AllAcked'
    <2>1. PICK p \in Port :
            LET b == Connecting(cb[s], p, peer, iss)
            IN  \/ cb' = [cb EXCEPT ![s] = b]
                \/ cb' = [cb EXCEPT ![s] = SynSent(b)]
      BY <1>4, ZenonT(60) DEF ConnectSends
    <2>2. cb[s] \in Cb /\ cb[s].state = "CLOSED"
      BY <1>4, ZenonT(60) DEF IInv, TypeOK, ConnectSends, CanConnect
    <2>3. /\ Connecting(cb[s], p, peer, iss).state = "CLOSED"
          /\ SynSent(Connecting(cb[s], p, peer, iss)).state = "SYN_SENT"
      BY <2>2, ZenonT(60) DEF Connecting, SynSent, Cb
    <2>4. /\ Acked(Connecting(cb[s], p, peer, iss))
          /\ Acked(SynSent(Connecting(cb[s], p, peer, iss)))
      BY <2>3, SMTT(60) DEF Acked
    <2> QED  BY <1>2, <2>1, <2>4, ZenonT(60)
  <1>5. ASSUME NEW e \in Iface, NEW peer \in Peer, NEW dst \in Port,
               NEW flg \in Flags, NEW seq \in SeqNo, NEW ack \in SeqNo,
               "ACK" \notin flg => ack = 0, NEW plen \in Nat,
               tcp_rx(e, peer, dst, flg, seq, ack, plen)
        PROVE  AllAcked'
    <2>1. CASE RxFound(e, peer, dst, flg, seq, ack, plen)
      <3>1. PICK s \in Soc :
              cb' = [cb EXCEPT ![s] = tcp_event_segment_arrives(
                                        cb[s], flg, seq, ack, plen)[1]]
        BY <2>1, ZenonT(60) DEF RxFound
      <3>2. Acked(tcp_event_segment_arrives(cb[s], flg, seq, ack, plen)[1])
        BY <1>5, EventAcked, ZenonT(60) DEF IInv, Blocks, AllAcked
      <3> QED  BY <1>2, <3>1, <3>2, ZenonT(60)
    <2>2. CASE RxUnknown(e, peer, dst, flg, seq, ack, plen)
      <3>1. ASSUME NEW s \in Soc, Free(cb[s]),
                   cb' = [cb EXCEPT ![s] = tcp_event_segment_arrives(
                            [cb[s] EXCEPT !.iface = e, !.used = FALSE,
                                          !.port = 0, !.peer = peer],
                            flg, seq, ack, plen)[1]]
            PROVE  AllAcked'
        <4> DEFINE b == [cb[s] EXCEPT !.iface = e, !.used = FALSE, !.port = 0,
                                      !.peer = peer]
        <4>1. BlockInv(b) /\ b.state = "CLOSED"
          BY <3>1, ZenonT(60) DEF IInv, Blocks, BlockInv, Free, Live, Cb
        <4>2. cb' = [cb EXCEPT ![s] =
                       tcp_event_segment_arrives(b, flg, seq, ack, plen)[1]]
          BY <3>1, ZenonT(60)
        <4> HIDE DEF b
        <4>3. Acked(b)
          BY <4>1, SMTT(60) DEF Acked
        <4>4. Acked(tcp_event_segment_arrives(b, flg, seq, ack, plen)[1])
          BY <1>5, <4>1, <4>3, EventAcked, ZenonT(60)
        <4> QED  BY <1>2, <4>2, <4>4, ZenonT(60)
      <3> QED  BY <1>1, <2>2, <3>1, ZenonT(60) DEF RxUnknown
    <2> QED  BY <1>5, <2>1, <2>2, ZenonT(60) DEF tcp_rx
  <1>6. ASSUME NEW e \in Iface, NEW peer \in Peer, Arrives(e, peer)
        PROVE  AllAcked'
    <2>1. PICK dst \in Port, flg \in Flags, seq \in SeqNo, plen \in Nat,
               ack \in SeqNo : /\ "ACK" \notin flg => ack \in StrayAck
                              /\ tcp_rx(e, peer, dst, flg, seq, ack, plen)
      BY <1>6, ArrivesGood, ZenonT(60)
    <2>2. "ACK" \notin flg => ack = 0
      BY <2>1, ZenonT(60)
    <2> QED  BY <1>5, <2>1, <2>2, ZenonT(60)
  <1>7. ASSUME NEW t \in Thread,
               \/ \E s \in Soc : ConnectRefused(t, s)
               \/ Wakeup(t)
               \/ Resume(t)
        PROVE  AllAcked'
    BY <1>1, <1>7, ZenonT(60) DEF ConnectRefused, Wakeup, Resume
  <1>8. CASE UNCHANGED vars
    BY <1>1, <1>8, ZenonT(60) DEF vars
  <1> QED  BY <1>3, <1>4, <1>6, <1>7, <1>8, ZenonT(60) DEF Next, Call

(* The stray field is the only cause: when segments without the ACK bit    *)
(* have 0 in their ack field, every ESTABLISHED connection had its SYN     *)
(* acknowledged, in spite of delayed and repeated segments of earlier      *)
(* connections of the same port.                                           *)
THEOREM EstablishedUnlessStray ==
    ASSUME StrayAck \subseteq {0}
    PROVE  Spec => []EstablishedAcked
  <1>1. Init => AllAcked
    BY SMTT(60) DEF Init, FreshCb, AllAcked, Acked
  <1>2. IInv /\ AllAcked /\ [Next]_vars => AllAcked'
    BY AckedStep, ZenonT(60)
  <1>3. ASSUME IInv, AllAcked
        PROVE  EstablishedAcked
    <2>1. ASSUME NEW s \in Soc
          PROVE  Add(cb[s].iss, 1) = cb[s].iss + 1 /\ cb[s].iss \in Nat
      BY <1>3, AddIss, ZenonT(60) DEF IInv, Blocks, BlockInv
    <2> QED  BY <1>3, <2>1, SMTT(60) DEF AllAcked, Acked, EstablishedAcked
  <1> QED  BY <1>1, <1>2, <1>3, Invariance, PTL DEF Spec

=============================================================================
