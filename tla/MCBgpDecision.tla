--------------------------- MODULE MCBgpDecision ---------------------------
(***************************************************************************)
(* An instance of BgpDecision: four sources that differ in different       *)
(* checks.                                                                 *)
(***************************************************************************)
EXTENDS BgpDecision

CONSTANTS q1, q2, q3, q4

MCFour == {q1, q2, q3, q4}
MCRouterId == (q1 :> 3) @@ (q2 :> 1) @@ (q3 :> 2) @@ (q4 :> 4)
MCAddress == (q1 :> 1) @@ (q2 :> 2) @@ (q3 :> 3) @@ (q4 :> 4)
MCMixed == (q1 :> "EBGP") @@ (q2 :> "EBGP") @@ (q3 :> "IBGP") @@ (q4 :> "INTERNAL")

Plain == [med |-> 0, weight |-> 0, pref |-> None, sub |-> "NORMAL", hops |-> 1,
          confeds |-> 0, left |-> 1, leftConfed |-> None, origin |-> 0,
          originator |-> None, cluster |-> 0]

\* Something different per source: MED and weight; MED and neighbouring AS; the
\* preference, and the IGP metric; a local route without MED.
MCChecks ==
    (q1 :> {[Plain EXCEPT !.med = m, !.weight = w] : m \in {0, 1}, w \in {0, 1}})
    @@ (q2 :> {[Plain EXCEPT !.med = m, !.left = a] : m \in {0, 1}, a \in {1, 2}})
    @@ (q3 :> {[Plain EXCEPT !.pref = p, !.left = 2] : p \in {None, 2}})
    @@ (q4 :> {[Plain EXCEPT !.med = None, !.hops = 0, !.left = None,
                             !.sub = "AGGREGATE"]})

\* always-compare-med, with the preference for the oldest route; deterministic-med
\* without it.
MCConfigs == {{"ALWAYS_COMPARE_MED", "MED_MISSING_AS_WORST"},
              {"DETERMINISTIC_MED", "COMPARE_ROUTER_ID"}}
=============================================================================
