-------------------------------- MODULE MCArp --------------------------------
(***************************************************************************)
(* The instance of Arp that TLC checks: one device that has an address and *)
(* learns, one that does not; a station a that changes its hardware        *)
(* address and a station b.                                                *)
(***************************************************************************)
EXTENDS Arp, TLC

CONSTANTS d1, d2, a, b, zero, h1, h2, h3, p1, p2, p3

MCDev == {d1, d2}
MCPA == {zero, a, b}
MCHA == {h1, h2, h3}
MCIPDev == {d1}
MCAnnounce == {<<a, h1>>, <<a, h2>>, <<b, h3>>}
MCPacket == {p1, p2, p3}
MCDst == (p1 :> a) @@ (p2 :> a) @@ (p3 :> b)
MCVia == (p1 :> d1) @@ (p2 :> d1) @@ (p3 :> d2)

(* Fewer packets and bindings, for the runs with more entries. *)
MCFewPacket == {p1, p2, p3}
MCFewAnnounce == {<<a, h1>>}
MCFewDst == (p1 :> a) @@ (p2 :> a) @@ (p3 :> a)
MCFewVia == (p1 :> d1) @@ (p2 :> d2) @@ (p3 :> d1)

(* The callers are interchangeable; p1 and p2 have the same next hop and *)
(* device, and a announces both h1 and h2. *)
Symmetry ==
    Permutations(Caller) \cup Permutations({p1, p2})
        \cup Permutations({h1, h2})

=============================================================================
