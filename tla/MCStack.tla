------------------------------ MODULE MCStack -------------------------------
(* Stack for TLC.                                                          *)
EXTENDS Stack, TLC

CONSTANTS d1, d2, a1, p1, n1, n2

MCDev == {d1, d2}
MCApp == {a1}
MCPA == {p1}
MCNetif == {n1, n2}
MCOpen == d1 :> 2 @@ d2 :> 1
MCProto == {"arp", "ip", "tcp"}
=============================================================================
