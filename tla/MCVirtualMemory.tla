-------------------------- MODULE MCVirtualMemory ---------------------------
(* Three levels of two-slot tables and a fourth VPN field that the mode    *)
(* ignores; four table pages where the addresses need five, so that map()  *)
(* runs out of tables half way down one of them, whichever comes last;     *)
(* data page 4 exists, page 5 does not.                                    *)
EXTENDS VirtualMemory, TLC

VA(a, b, c, d) == (0 :> a) @@ (1 :> b) @@ (2 :> c) @@ (3 :> d)

(* A page, its alias above the mode's fields, its neighbour, and a page    *)
(* that needs two tables more when there is room for only one.             *)
MCVAs == {VA(0, 0, 0, 0), VA(0, 0, 0, 1), VA(1, 0, 0, 0), VA(0, 0, 1, 0)}

MCFlagSets == {{"R", "W", "U"}, {"W", "X", "U"}}

MCGuestWords == {createPTE(4, {"V", "R", "W", "U", "A", "D"})}
=============================================================================
