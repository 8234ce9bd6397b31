------------------------------ MODULE BgpInfo ------------------------------
(***************************************************************************)
(* The flags of a struct bgp_info and the prefix count they drive          *)
(* (bgpd/bgp_route.c, bgpd/bgp_route.h).  Every change of a flag that      *)
(* decides whether a route is usable goes through bgp_info_set_flag or     *)
(* bgp_info_unset_flag, which keep peer->pcount in step with the COUNTED   *)
(* flags.  The operators below take and return a record [ri, pc]: the      *)
(* route and the prefix count of its peer.                                 *)
(*                                                                         *)
(* HISTORY and DAMPED are set by route flap damping only (BgpDamp).        *)
(***************************************************************************)
EXTENDS Integers

CONSTANTS Attr,    \* interned path attribute sets (struct attr)
          NoAttr   \* a NULL struct attr pointer

ASSUME NoAttrAssumption == NoAttr \notin Attr

Flag == {"VALID", "REMOVED", "SELECTED", "ATTR_CHANGED", "IGP_CHANGED",
         "COUNTED", "STALE", "HISTORY", "DAMPED"}

UNUSEABLE == {"HISTORY", "DAMPED", "REMOVED"}

(***************************************************************************)
(* A route of the table, or NoInfo where the peer has none for the prefix. *)
(***************************************************************************)
NoInfo == [attr |-> NoAttr, flags |-> {}]

Info == [attr : Attr \cup {NoAttr}, flags : SUBSET Flag]

Present(ri) == ri.attr # NoAttr

Has(ri, flag) == flag \in ri.flags

(***************************************************************************)
(* BGP_INFO_HOLDDOWN: the route takes no part in the decision process.     *)
(***************************************************************************)
HOLDDOWN(ri) == ~Has(ri, "VALID") \/ ri.flags \cap UNUSEABLE # {}

Usable(ri) == Present(ri) /\ ~HOLDDOWN(ri)

SET_FLAG(x, flag) == [ri |-> [attr |-> x.ri.attr, flags |-> x.ri.flags \cup {flag}],
                      pc |-> x.pc]

UNSET_FLAG(x, flag) == [ri |-> [attr |-> x.ri.attr, flags |-> x.ri.flags \ {flag}],
                        pc |-> x.pc]

\* Fault: a held-down route is uncounted every time it is looked at.
bgp_pcount_adjust_repeated(x) ==
    IF HOLDDOWN(x.ri)
    THEN [UNSET_FLAG(x, "COUNTED") EXCEPT !.pc = @ - 1]
    ELSE IF ~Has(x.ri, "COUNTED")
         THEN [SET_FLAG(x, "COUNTED") EXCEPT !.pc = @ + 1]
         ELSE x

(***************************************************************************)
(* The decrement is skipped at zero: "slight hack, but more robust against *)
(* errors".                                                                *)
(***************************************************************************)
bgp_pcount_adjust(x) ==
    IF HOLDDOWN(x.ri) /\ Has(x.ri, "COUNTED")
    THEN [UNSET_FLAG(x, "COUNTED") EXCEPT !.pc = IF @ > 0 THEN @ - 1 ELSE @]
    ELSE IF ~HOLDDOWN(x.ri) /\ ~Has(x.ri, "COUNTED")
         THEN [SET_FLAG(x, "COUNTED") EXCEPT !.pc = @ + 1]
         ELSE x

bgp_info_set_flag(x, flag) ==
    IF flag \in {"VALID"} \cup UNUSEABLE
    THEN bgp_pcount_adjust(SET_FLAG(x, flag))
    ELSE SET_FLAG(x, flag)

bgp_info_unset_flag(x, flag) ==
    IF flag \in {"VALID"} \cup UNUSEABLE
    THEN bgp_pcount_adjust(UNSET_FLAG(x, flag))
    ELSE UNSET_FLAG(x, flag)

(***************************************************************************)
(* VALID is cleared without an adjustment: the REMOVED flag has already    *)
(* taken the route out of the count.                                       *)
(***************************************************************************)
bgp_info_delete(x) == UNSET_FLAG(bgp_info_set_flag(x, "REMOVED"), "VALID")

\* Fault: the route is counted here, although it is not marked COUNTED.
bgp_info_restore_counted(x) ==
    [SET_FLAG(UNSET_FLAG(x, "REMOVED"), "VALID") EXCEPT !.pc = @ + 1]

(***************************************************************************)
(* A route that is announced again before its deletion was processed.      *)
(***************************************************************************)
bgp_info_restore(x) == SET_FLAG(bgp_info_unset_flag(x, "REMOVED"), "VALID")
=============================================================================
