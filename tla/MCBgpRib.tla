------------------------------ MODULE MCBgpRib ------------------------------
(***************************************************************************)
(* Instances of BgpRib for TLC.  Three attribute sets are enough: a1 and   *)
(* a2 are accepted (so that a route can change and be repeated), bad is    *)
(* what an input policy denies.  a2 is not announced to p2.                *)
(***************************************************************************)
EXTENDS BgpRib

CONSTANTS a1, a2, bad, p1, p2, n1, n2

MCInPolicy == [q \in Peer |-> [a \in Attr |-> IF a = bad THEN NoAttr ELSE a]]
MCOutPolicy == [q \in Peer |-> [a \in Attr |-> IF a = bad \/ (a = a2 /\ q = p2)
                                               THEN NoAttr ELSE a]]
MCNoLimit == [q \in Peer |-> 9]
MCOne == [q \in Peer |-> 1]
=============================================================================
