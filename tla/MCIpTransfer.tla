---------------------------- MODULE MCIpTransfer -----------------------------
(* IpTransfer for TLC.                                                     *)
EXTENDS IpTransfer, TLC

CONSTANTS g1, g2, g3

MCDatagram == {g1, g2, g3}
MCKey == [g \in MCDatagram |-> g]
MCSize == (g1 :> 3) @@ (g2 :> 3) @@ (g3 :> 1)

(* g1 and g2 have the same size.                                           *)
Symmetry ==
    Permutations(Sender) \cup Permutations(Dev) \cup Permutations({g1, g2})
=============================================================================
