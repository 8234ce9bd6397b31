----------------------------- MODULE MCBgpDamp -----------------------------
(***************************************************************************)
(* bgp dampening 1 200 800 2: a half-life of 60 seconds, suppressed for at *)
(* most 120.  Penalties are in units of 20.  bgp_damp_parameter_set        *)
(* computes decay_array[i] = 0.5^(i/12), a ceiling of 200 * 2^2, which the *)
(* penalty of a first withdrawal, 1000, exceeds, 13 lists, and the         *)
(* penalties at which the list is one further away.                        *)
(***************************************************************************)
EXTENDS BgpDamp

MCDecayArray == <<100, 94, 89, 84, 79, 75, 71, 67, 63, 59, 56, 53,
                  50, 47, 45, 42, 40, 37, 35, 33, 31, 30, 28, 26>>
MCSlots == <<11, 12, 13, 15, 17, 19, 21>>
=============================================================================
