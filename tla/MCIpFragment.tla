----------------------------- MODULE MCIpFragment -----------------------------
(* The instance of IpFragment that TLC checks.                             *)
EXTENDS IpFragment, TLC

CONSTANTS g1, g2, g3, k1, k2, k3

MCDatagram == {g1, g2, g3}
MCKey == (g1 :> k1) @@ (g2 :> k2) @@ (g3 :> k3)
MCSize == (g1 :> 3) @@ (g2 :> 2) @@ (g3 :> 1)
MCId == {k1, k2, k3}

Symmetry == Permutations(Dev)

=============================================================================
