------------------------------ MODULE IpService ------------------------------
(***************************************************************************)
(* What IP promises the protocols above it (ip_tx and the handlers that    *)
(* ip_rx calls): a datagram that is given to a handler was sent, as a      *)
(* whole; a datagram whose ip_tx fails is given to no handler, neither     *)
(* before nor after the failure.  Datagrams may be lost, and given twice.  *)
(***************************************************************************)
CONSTANT Datagram

VARIABLES
    result,     \* what ip_tx says of each datagram
    given       \* the datagrams given to a handler

Init ==
    /\ result = [g \in Datagram |-> "none"]
    /\ given = {}

Send(g) ==
    /\ result[g] = "none"
    /\ result' = [result EXCEPT ![g] = "sending"]
    /\ UNCHANGED given

Succeed(g) ==
    /\ result[g] = "sending"
    /\ result' = [result EXCEPT ![g] = "ok"]
    /\ UNCHANGED given

Fail(g) ==
    /\ result[g] = "sending"
    /\ g \notin given
    /\ result' = [result EXCEPT ![g] = "error"]
    /\ UNCHANGED given

Give(g) ==
    /\ result[g] \in {"sending", "ok"}
    /\ given' = given \cup {g}
    /\ UNCHANGED result

Next == \E g \in Datagram : Send(g) \/ Succeed(g) \/ Fail(g) \/ Give(g)

Spec == Init /\ [][Next]_<<result, given>>
=============================================================================
