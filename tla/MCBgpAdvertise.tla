--------------------------- MODULE MCBgpAdvertise ---------------------------
(***************************************************************************)
(* BgpAdvertise with small sets of prefixes and attributes.                *)
(***************************************************************************)
EXTENDS BgpAdvertise

CONSTANTS p1, p2, p3, a1, a2

MCPrefix == {p1, p2, p3}
MCAttr == {a1, a2}
=============================================================================
