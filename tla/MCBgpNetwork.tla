---------------------------- MODULE MCBgpNetwork ----------------------------
(***************************************************************************)
(* Instances of BgpNetwork.  A ring of four routers in three ASes, 1 and 2 *)
(* being in the same one, and a triangle of three.                         *)
(***************************************************************************)
EXTENDS BgpNetwork, TLC

MCRing == {1, 2, 3, 4}
MCRingLink == {<<1, 2>>, <<1, 3>>, <<2, 4>>, <<3, 4>>}
MCRingAS == <<10, 10, 30, 40>>

\* Costs differ by direction; the way through AS 10 is the shorter one from 3 to 4.
MCRingCost ==
    (<<1, 2>> :> 1) @@ (<<2, 1>> :> 3) @@ (<<1, 3>> :> 1) @@ (<<3, 1>> :> 2)
    @@ (<<2, 4>> :> 3) @@ (<<4, 2>> :> 1) @@ (<<3, 4>> :> 7) @@ (<<4, 3>> :> 1)
MCBase == 3 :> 1

MCTriangle == {1, 2, 3}
MCTriangleLink == {<<1, 2>>, <<1, 3>>, <<2, 3>>}
MCTriangleAS == <<10, 20, 30>>
MCTriangleCost ==
    [l \in MCTriangleLink \cup {<<l[2], l[1]>> : l \in MCTriangleLink} |->
        IF l \in {<<1, 2>>, <<2, 1>>} THEN 2 ELSE 1]
MCTriangleBase == 3 :> 1

MCDefault == {}
MCAlways == {"ALWAYS_COMPARE_MED"}
=============================================================================
