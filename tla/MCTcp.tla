-------------------------------- MODULE MCTcp --------------------------------
(***************************************************************************)
(* Small instances of Tcp.  random() gives the lower half of the sequence  *)
(* numbers; the peers start with the last one, which wraps.  The ack field *)
(* of a segment without the ACK bit is 0 or the last number.               *)
(***************************************************************************)
EXTENDS Tcp, TLC

CONSTANTS t1, t2, e1, e2, pr1, pr2

MCPeerSeq == {SEQ - 1}
MCStrayAck == {0, SEQ - 1}

Symmetry == Permutations(Thread)
=============================================================================
