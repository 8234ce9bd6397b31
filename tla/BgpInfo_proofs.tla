--------------------------- MODULE BgpInfo_proofs ---------------------------
(***************************************************************************)
(* What the flag operators of BgpInfo do to a route and to the prefix      *)
(* count of its peer, for every attribute set and every count.             *)
(***************************************************************************)
EXTENDS BgpInfo, TLAPS

\* The flags that decide about the use of a route.
Deciding == {"VALID"} \cup UNUSEABLE

Routes == [ri : Info, pc : Nat]

\* 1 when the route is counted.
Counts(ri) == IF Has(ri, "COUNTED") THEN 1 ELSE 0

\* A counted route leaves room for the decrement that uncounts it.
Covered(x) == x.pc >= Counts(x.ri)

\* y is x with other flags, and the count moved with the COUNTED flag.
Tracks(x, y) ==
    /\ y \in Routes
    /\ y.ri.attr = x.ri.attr
    /\ Covered(y)
    /\ y.pc - Counts(y.ri) = x.pc - Counts(x.ri)

\* A plain SET_FLAG or UNSET_FLAG of a flag other than COUNTED changes the
\* named flag and nothing else.
LEMMA PlainFlag ==
    ASSUME NEW x \in Routes, NEW f \in Flag \ {"COUNTED"}, Covered(x)
    PROVE  /\ Tracks(x, SET_FLAG(x, f))
           /\ SET_FLAG(x, f).ri.flags = x.ri.flags \cup {f}
           /\ Tracks(x, UNSET_FLAG(x, f))
           /\ UNSET_FLAG(x, f).ri.flags = x.ri.flags \ {f}
BY DEF Routes, Info, Covered, Tracks, Counts, Has, SET_FLAG, UNSET_FLAG

\* bgp_pcount_adjust makes COUNTED agree with the use of the route and leaves
\* the other flags alone.
LEMMA Adjusted ==
    ASSUME NEW x \in Routes, Covered(x)
    PROVE  LET y == bgp_pcount_adjust(x)
           IN  /\ Tracks(x, y)
               /\ \A f \in Flag \ {"COUNTED"} : Has(y.ri, f) <=> Has(x.ri, f)
               /\ Has(y.ri, "COUNTED") <=> ~HOLDDOWN(y.ri)
<1> DEFINE y == bgp_pcount_adjust(x)
<1>1. CASE HOLDDOWN(x.ri) /\ Has(x.ri, "COUNTED")
  <2>1. y = [ri |-> [attr |-> x.ri.attr, flags |-> x.ri.flags \ {"COUNTED"}],
             pc |-> x.pc - 1]
    BY <1>1 DEF bgp_pcount_adjust, UNSET_FLAG, Routes, Covered, Counts
  <2>2. Tracks(x, y)
    BY <2>1, <1>1 DEF Routes, Info, Covered, Tracks, Counts, Has
  <2> QED
    BY <2>1, <2>2, <1>1 DEF Routes, Info, Has, HOLDDOWN, UNUSEABLE, Flag
<1>2. CASE ~HOLDDOWN(x.ri) /\ ~Has(x.ri, "COUNTED")
  <2>1. y = [ri |-> [attr |-> x.ri.attr, flags |-> x.ri.flags \cup {"COUNTED"}],
             pc |-> x.pc + 1]
    BY <1>2 DEF bgp_pcount_adjust, SET_FLAG, Routes
  <2>2. Tracks(x, y)
    BY <2>1, <1>2 DEF Routes, Info, Covered, Tracks, Counts, Has, Flag
  <2> QED
    BY <2>1, <2>2, <1>2 DEF Routes, Info, Has, HOLDDOWN, UNUSEABLE, Flag
<1>3. CASE HOLDDOWN(x.ri) <=> ~Has(x.ri, "COUNTED")
  <2>1. y = x
    BY <1>3 DEF bgp_pcount_adjust
  <2> QED
    BY <2>1, <1>3 DEF Tracks
<1> QED
  BY <1>1, <1>2, <1>3

\* bgp_info_set_flag and bgp_info_unset_flag change the named flag, COUNTED
\* and nothing else; for a flag that decides about the use of the route,
\* COUNTED agrees with that use afterwards.
LEMMA FlagSet ==
    ASSUME NEW x \in Routes, NEW f \in Flag \ {"COUNTED"}, Covered(x)
    PROVE  LET y == bgp_info_set_flag(x, f)
           IN  /\ Tracks(x, y)
               /\ Has(y.ri, f)
               /\ \A g \in Flag \ {"COUNTED", f} : Has(y.ri, g) <=> Has(x.ri, g)
               /\ f \in Deciding => (Has(y.ri, "COUNTED") <=> ~HOLDDOWN(y.ri))
               /\ f \notin Deciding
                    => (Has(y.ri, "COUNTED") <=> Has(x.ri, "COUNTED"))
<1> DEFINE z == SET_FLAG(x, f)
           y == bgp_info_set_flag(x, f)
<1>1. /\ Tracks(x, z) /\ z \in Routes /\ Covered(z)
      /\ z.ri.flags = x.ri.flags \cup {f}
  BY PlainFlag DEF Tracks
<1>2. Has(z.ri, f) /\ \A g \in Flag \ {f} : Has(z.ri, g) <=> Has(x.ri, g)
  BY <1>1 DEF Has
<1>3. CASE f \in Deciding
  <2>1. y = bgp_pcount_adjust(z)
    BY <1>3 DEF bgp_info_set_flag, Deciding
  <2>2. /\ Tracks(z, y)
        /\ \A g \in Flag \ {"COUNTED"} : Has(y.ri, g) <=> Has(z.ri, g)
        /\ Has(y.ri, "COUNTED") <=> ~HOLDDOWN(y.ri)
    BY <1>1, <2>1, Adjusted
  <2>3. Tracks(x, y)
    BY <1>1, <2>2 DEF Tracks, Routes, Counts
  <2> QED
    BY <1>2, <1>3, <2>2, <2>3
<1>4. CASE f \notin Deciding
  <2>1. y = z
    BY <1>4 DEF bgp_info_set_flag, Deciding
  <2> QED
    BY <1>1, <1>2, <1>4, <2>1 DEF Flag
<1> QED
  BY <1>3, <1>4

\* The same for the removal of a flag.
LEMMA FlagUnset ==
    ASSUME NEW x \in Routes, NEW f \in Flag \ {"COUNTED"}, Covered(x)
    PROVE  LET y == bgp_info_unset_flag(x, f)
           IN  /\ Tracks(x, y)
               /\ ~Has(y.ri, f)
               /\ \A g \in Flag \ {"COUNTED", f} : Has(y.ri, g) <=> Has(x.ri, g)
               /\ f \in Deciding => (Has(y.ri, "COUNTED") <=> ~HOLDDOWN(y.ri))
               /\ f \notin Deciding
                    => (Has(y.ri, "COUNTED") <=> Has(x.ri, "COUNTED"))
<1> DEFINE z == UNSET_FLAG(x, f)
           y == bgp_info_unset_flag(x, f)
<1>1. /\ Tracks(x, z) /\ z \in Routes /\ Covered(z)
      /\ z.ri.flags = x.ri.flags \ {f}
  BY PlainFlag DEF Tracks
<1>2. ~Has(z.ri, f) /\ \A g \in Flag \ {f} : Has(z.ri, g) <=> Has(x.ri, g)
  BY <1>1 DEF Has
<1>3. CASE f \in Deciding
  <2>1. y = bgp_pcount_adjust(z)
    BY <1>3 DEF bgp_info_unset_flag, Deciding
  <2>2. /\ Tracks(z, y)
        /\ \A g \in Flag \ {"COUNTED"} : Has(y.ri, g) <=> Has(z.ri, g)
        /\ Has(y.ri, "COUNTED") <=> ~HOLDDOWN(y.ri)
    BY <1>1, <2>1, Adjusted
  <2>3. Tracks(x, y)
    BY <1>1, <2>2 DEF Tracks, Routes, Counts
  <2> QED
    BY <1>2, <1>3, <2>2, <2>3
<1>4. CASE f \notin Deciding
  <2>1. y = z
    BY <1>4 DEF bgp_info_unset_flag, Deciding
  <2> QED
    BY <1>1, <1>2, <1>4, <2>1 DEF Flag
<1> QED
  BY <1>3, <1>4

\* bgp_info_delete leaves a route that is REMOVED, not VALID and not counted.
LEMMA Deleted ==
    ASSUME NEW x \in Routes, Covered(x)
    PROVE  LET y == bgp_info_delete(x)
           IN  /\ Tracks(x, y)
               /\ Has(y.ri, "REMOVED")
               /\ ~Has(y.ri, "VALID") /\ ~Has(y.ri, "COUNTED")
               /\ \A g \in Flag \ {"COUNTED", "REMOVED", "VALID"} :
                      Has(y.ri, g) <=> Has(x.ri, g)
<1> DEFINE z == bgp_info_set_flag(x, "REMOVED")
           y == UNSET_FLAG(z, "VALID")
<1>1. /\ Tracks(x, z) /\ z \in Routes /\ Covered(z)
      /\ Has(z.ri, "REMOVED") /\ ~Has(z.ri, "COUNTED")
      /\ \A g \in Flag \ {"COUNTED", "REMOVED"} : Has(z.ri, g) <=> Has(x.ri, g)
  BY FlagSet DEF Flag, Deciding, Tracks, HOLDDOWN, UNUSEABLE, Has
<1>2. Tracks(z, y) /\ y.ri.flags = z.ri.flags \ {"VALID"}
  BY <1>1, PlainFlag DEF Flag
<1>3. Tracks(x, y)
  BY <1>1, <1>2 DEF Tracks, Routes, Counts
<1>4. /\ ~Has(y.ri, "VALID")
      /\ \A g \in Flag \ {"VALID"} : Has(y.ri, g) <=> Has(z.ri, g)
  BY <1>2 DEF Has
<1> QED
  BY <1>1, <1>3, <1>4 DEF bgp_info_delete, Flag

\* bgp_info_restore brings a route back VALID and not REMOVED; whether it is
\* counted is left to the flag operation that follows.
LEMMA Restored ==
    ASSUME NEW x \in Routes, Covered(x)
    PROVE  LET y == bgp_info_restore(x)
           IN  /\ Tracks(x, y)
               /\ ~Has(y.ri, "REMOVED") /\ Has(y.ri, "VALID")
               /\ \A g \in Flag \ {"COUNTED", "REMOVED", "VALID"} :
                      Has(y.ri, g) <=> Has(x.ri, g)
<1> DEFINE z == bgp_info_unset_flag(x, "REMOVED")
           y == SET_FLAG(z, "VALID")
<1>1. /\ Tracks(x, z) /\ z \in Routes /\ Covered(z)
      /\ ~Has(z.ri, "REMOVED")
      /\ \A g \in Flag \ {"COUNTED", "REMOVED"} : Has(z.ri, g) <=> Has(x.ri, g)
  BY FlagUnset DEF Flag, Tracks
<1>2. Tracks(z, y) /\ y.ri.flags = z.ri.flags \cup {"VALID"}
  BY <1>1, PlainFlag DEF Flag
<1>3. Tracks(x, y)
  BY <1>1, <1>2 DEF Tracks, Routes, Counts
<1>4. /\ Has(y.ri, "VALID")
      /\ \A g \in Flag \ {"VALID"} : Has(y.ri, g) <=> Has(z.ri, g)
  BY <1>2 DEF Has
<1> QED
  BY <1>1, <1>3, <1>4 DEF bgp_info_restore, Flag
=============================================================================
