------------------------------- MODULE MCMmu --------------------------------
(* Three levels of two-slot tables, one VPN field more than the mode uses. *)
(* satp points to page 0 or to no page; slots that the address can read    *)
(* point back to page 0, to pages 1 and 2, to a page that is not there, or *)
(* hold good and bad leaves of every superpage alignment.                  *)
EXTENDS MmuReference, TLC

MCPteChoices ==
    {createPTE(p, {"V"}) : p \in {0, 1, 2, 5}} \cup
    {ZeroPTE,
     createPTE(1, {"V", "R", "W", "A", "D"}),
     createPTE(4, {"V", "R", "W", "X", "U", "A", "D"}),
     createPTE(2, {"V", "X", "A", "D"}),
     createPTE(4, {"V", "R", "U"}),
     createPTE(4, {"V", "W", "X", "A", "D"}),
     [createPTE(4, {"V", "R", "U", "A", "D"}) EXCEPT !.rsv = TRUE]}

Page(a, b) == (0 :> a) @@ (1 :> b)

MCMemories ==
    {(0 :> Page(x, r)) @@ (1 :> Page(m, ZeroPTE)) @@ (2 :> Page(ZeroPTE, l)) :
        r \in MCPteChoices, m \in MCPteChoices, l \in MCPteChoices,
        x \in {ZeroPTE, createPTE(1, {"V"})}}

VA(a, b, c, d) == (0 :> a) @@ (1 :> b) @@ (2 :> c) @@ (3 :> d)

MCRequests == Levels \X AccessTypes \X {VA(1, 0, 1, 1)}
=============================================================================
