---------------------------- MODULE BgpRib_proofs ----------------------------
(***************************************************************************)
(* Theorems about BgpRib, for any number of peers, prefixes, attribute     *)
(* sets and any policy.                                                    *)
(***************************************************************************)
EXTENDS BgpRib, BgpInfo_proofs, FiniteSetTheorems

(***************************************************************************)
(* The prefix count.  RibOK is the part of the state the flag operators    *)
(* change, with what is inductive about it.                                *)
(***************************************************************************)
Consistent(ri) ==
    /\ Has(ri, "COUNTED") <=> Usable(ri)
    /\ ~Present(ri) => ri.flags = {}

CountedOf(q) == {p \in Prefix : Has(rib[p][q], "COUNTED")}

RibOK ==
    /\ rib \in [Prefix -> [Peer -> Info]]
    /\ pcount \in [Peer -> Nat]
    /\ scheduled \in [Prefix -> Nat]
    /\ \A p \in Prefix, q \in Peer : Consistent(rib[p][q])
    /\ \A q \in Peer : pcount[q] = Cardinality(CountedOf(q))

\* What every step but that of the process queue leaves alone: who is selected,
\* which routes there are, and that a newly removed route has its node queued.
Kept ==
    \A p \in Prefix :
        /\ scheduled'[p] >= scheduled[p]
        /\ \A q \in Peer :
              /\ Has(rib'[p][q], "SELECTED") <=> Has(rib[p][q], "SELECTED")
              /\ Present(rib[p][q]) => Present(rib'[p][q])
              /\ Has(rib'[p][q], "REMOVED")
                    => Has(rib[p][q], "REMOVED") \/ scheduled'[p] > 0

\* The counted routes of a peer are finitely many.
LEMMA CountedFinite ==
    ASSUME NEW q \in Peer
    PROVE  IsFiniteSet(CountedOf(q)) /\ Cardinality(CountedOf(q)) \in Nat
BY PrefixAssumption, FS_Subset, FS_CardinalityType DEF CountedOf

\* A route of the table can be given to the flag operators: its peer's count
\* covers it.
LEMMA RouteCovered ==
    ASSUME RibOK, NEW p \in Prefix, NEW q \in Peer
    PROVE  Route(p, q) \in Routes /\ Covered(Route(p, q))
<1>1. Route(p, q) \in Routes /\ Route(p, q).pc = pcount[q] /\ Route(p, q).ri = rib[p][q]
  BY DEF RibOK, Route, Routes
<1>2. CASE Has(rib[p][q], "COUNTED")
  <2>1. p \in CountedOf(q)
    BY <1>2 DEF CountedOf
  <2>2. Cardinality(CountedOf(q)) # 0
    BY <2>1, CountedFinite, FS_EmptySet
  <2> QED
    BY <1>1, <2>2, CountedFinite DEF RibOK, Covered, Counts
<1>3. CASE ~Has(rib[p][q], "COUNTED")
  BY <1>1, <1>3 DEF RibOK, Covered, Counts
<1> QED
  BY <1>2, <1>3

\* Replacing one route keeps the books when the count moved with its COUNTED
\* flag.
LEMMA OneRoute ==
    ASSUME RibOK, NEW p \in Prefix, NEW q \in Peer, NEW y \in Routes,
           y.pc - Counts(y.ri) = pcount[q] - Counts(rib[p][q]),
           Consistent(y.ri), SetRoute(p, q, y), Present(y.ri),
           Has(y.ri, "SELECTED") <=> Has(rib[p][q], "SELECTED"),
           Has(y.ri, "REMOVED") => Has(rib[p][q], "REMOVED") \/ bgp_process(p),
           bgp_process(p) \/ UNCHANGED scheduled
    PROVE  RibOK' /\ Kept
<1>0. pcount[q] \in Nat /\ y.pc \in Nat
  BY DEF RibOK, Routes
<1>1. /\ rib' \in [Prefix -> [Peer -> Info]]
      /\ pcount' \in [Peer -> Nat]
      /\ rib'[p][q] = y.ri /\ pcount'[q] = y.pc
      /\ \A u \in Prefix, v \in Peer : u # p \/ v # q => rib'[u][v] = rib[u][v]
      /\ \A v \in Peer \ {q} : pcount'[v] = pcount[v]
  BY DEF RibOK, SetRoute, Routes
<1>2. \A u \in Prefix, v \in Peer : Consistent(rib'[u][v])
  BY <1>1 DEF RibOK
<1>3. ASSUME NEW v \in Peer PROVE pcount'[v] = Cardinality(CountedOf(v)')
  <2>1. CASE v # q
    BY <1>1, <2>1 DEF RibOK, CountedOf
  <2>2. CASE v = q
    <3>1. CountedOf(q)' = IF Has(y.ri, "COUNTED") THEN CountedOf(q) \cup {p}
                                                  ELSE CountedOf(q) \ {p}
      BY <1>1 DEF CountedOf
    <3>2. p \in CountedOf(q) <=> Has(rib[p][q], "COUNTED")
      BY DEF CountedOf
    <3>3. CASE Has(y.ri, "COUNTED")
      <4>1. Cardinality(CountedOf(q)') = IF Has(rib[p][q], "COUNTED")
                THEN Cardinality(CountedOf(q)) ELSE Cardinality(CountedOf(q)) + 1
        BY <3>1, <3>2, <3>3, CountedFinite, FS_AddElement
      <4>2. y.pc = IF Has(rib[p][q], "COUNTED") THEN pcount[q] ELSE pcount[q] + 1
        BY <1>0, <3>3 DEF Counts
      <4> QED
        BY <1>1, <2>2, <4>1, <4>2 DEF RibOK
    <3>4. CASE ~Has(y.ri, "COUNTED")
      <4>1. Cardinality(CountedOf(q)') = IF Has(rib[p][q], "COUNTED")
                THEN Cardinality(CountedOf(q)) - 1 ELSE Cardinality(CountedOf(q))
        BY <3>1, <3>2, <3>4, CountedFinite, FS_RemoveElement
      <4>2. y.pc = IF Has(rib[p][q], "COUNTED") THEN pcount[q] - 1 ELSE pcount[q]
        BY <1>0, <3>4 DEF Counts
      <4> QED
        BY <1>1, <2>2, <4>1, <4>2 DEF RibOK
    <3> QED
      BY <3>3, <3>4
  <2> QED
    BY <2>1, <2>2
<1>4. /\ scheduled' \in [Prefix -> Nat]
      /\ \A u \in Prefix : scheduled'[u] >= scheduled[u]
      /\ bgp_process(p) => scheduled'[p] > 0
  <2>1. scheduled \in [Prefix -> Nat]
    BY DEF RibOK
  <2>2. CASE bgp_process(p)
    BY <2>1, <2>2 DEF bgp_process
  <2>3. CASE ~bgp_process(p)
    BY <2>1, <2>3
  <2> QED
    BY <2>2, <2>3
<1>5. Kept
  BY <1>1, <1>4 DEF Kept
<1> QED
  BY <1>1, <1>2, <1>3, <1>4, <1>5 DEF RibOK

\* bgp_rib_remove keeps the books.
LEMMA RemoveRoute ==
    ASSUME RibOK, NEW p \in Prefix, NEW q \in Peer, Present(rib[p][q]),
           bgp_rib_remove(p, q)
    PROVE  RibOK' /\ Kept
<1> DEFINE x == Route(p, q)
           y == bgp_info_delete(x)
<1>1. x \in Routes /\ Covered(x) /\ x.ri = rib[p][q] /\ x.pc = pcount[q]
  BY RouteCovered DEF Route
<1>2. /\ Tracks(x, y)
      /\ Has(y.ri, "REMOVED")
      /\ ~Has(y.ri, "VALID") /\ ~Has(y.ri, "COUNTED")
      /\ Has(y.ri, "SELECTED") <=> Has(x.ri, "SELECTED")
  BY <1>1, Deleted DEF Flag
<1>3. Consistent(y.ri) /\ Present(y.ri)
  BY <1>1, <1>2 DEF Consistent, Tracks, Present, Usable, HOLDDOWN
<1>4. SetRoute(p, q, y) /\ bgp_process(p)
  BY DEF bgp_rib_remove
<1> HIDE DEF y
<1> QED
  BY <1>1, <1>2, <1>3, <1>4, OneRoute DEF Tracks

\* The next-hop check ends with COUNTED in agreement with the use of a route.
LEMMA CheckedNexthop ==
    ASSUME NEW x \in Routes, Covered(x), Present(x.ri), NEW reachable \in BOOLEAN
    PROVE  LET y == CheckNexthop(x, reachable)
           IN  /\ Tracks(x, y)
               /\ Consistent(y.ri)
               /\ \A g \in Flag \ {"COUNTED", "VALID"} : Has(y.ri, g) <=> Has(x.ri, g)
<1>1. CASE reachable
  <2> DEFINE y == bgp_info_set_flag(x, "VALID")
  <2>1. /\ Tracks(x, y) /\ (Has(y.ri, "COUNTED") <=> ~HOLDDOWN(y.ri))
        /\ \A g \in Flag \ {"COUNTED", "VALID"} : Has(y.ri, g) <=> Has(x.ri, g)
    BY FlagSet DEF Flag, Deciding, UNUSEABLE
  <2> QED
    BY <1>1, <2>1 DEF CheckNexthop, Consistent, Usable, Present, Tracks
<1>2. CASE ~reachable
  <2> DEFINE y == bgp_info_unset_flag(x, "VALID")
  <2>1. /\ Tracks(x, y) /\ (Has(y.ri, "COUNTED") <=> ~HOLDDOWN(y.ri))
        /\ \A g \in Flag \ {"COUNTED", "VALID"} : Has(y.ri, g) <=> Has(x.ri, g)
    BY FlagUnset DEF Flag, Deciding, UNUSEABLE
  <2> QED
    BY <1>2, <2>1 DEF CheckNexthop, Consistent, Usable, Present, Tracks
<1> QED
  BY <1>1, <1>2

\* Flags that do not decide about the use of a route do not disturb the books.
LEMMA SameUse ==
    ASSUME NEW x \in Routes, NEW y \in Routes, y.ri.attr = x.ri.attr,
           Consistent(x.ri), Present(x.ri),
           \A g \in Deciding \cup {"COUNTED"} : Has(y.ri, g) <=> Has(x.ri, g)
    PROVE  Consistent(y.ri)
BY DEF Consistent, Usable, Present, HOLDDOWN, Deciding, UNUSEABLE, Has, Routes, Info

\* A chain of flag operations tracks the count.
LEMMA TracksTrans ==
    ASSUME NEW x \in Routes, NEW y, NEW z, Tracks(x, y), Tracks(y, z)
    PROVE  Tracks(x, z)
BY DEF Tracks, Routes, Counts

\* A repeated announcement keeps the books.
LEMMA DuplicateRoute ==
    ASSUME RibOK, NEW p \in Prefix, NEW q \in Peer, NEW attr \in Attr,
           bgp_update_duplicate(p, q, attr)
    PROVE  RibOK' /\ Kept
<1> DEFINE r == Route(p, q)
           x == bgp_info_unset_flag(r, "ATTR_CHANGED")
           y == bgp_info_unset_flag(x, "STALE")
<1>1. /\ r \in Routes /\ Covered(r) /\ r.ri = rib[p][q] /\ r.pc = pcount[q]
      /\ Consistent(r.ri) /\ Present(r.ri)
  BY RouteCovered DEF Route, RibOK, bgp_update_duplicate, Duplicate
<1>2. /\ Tracks(r, x) /\ x \in Routes /\ Covered(x) /\ x.ri.attr = r.ri.attr
      /\ \A g \in Deciding \cup {"COUNTED", "SELECTED"} : Has(x.ri, g) <=> Has(r.ri, g)
  <2>1. /\ Tracks(r, x)
        /\ \A g \in Flag \ {"COUNTED", "ATTR_CHANGED"} : Has(x.ri, g) <=> Has(r.ri, g)
        /\ Has(x.ri, "COUNTED") <=> Has(r.ri, "COUNTED")
    BY <1>1, FlagUnset DEF Flag, Deciding, UNUSEABLE
  <2> HIDE DEF x
  <2> QED
    BY <2>1 DEF Tracks, Flag, Deciding, UNUSEABLE
<1>3. Consistent(x.ri) /\ Present(x.ri)
  BY <1>1, <1>2, SameUse DEF Present
<1> HIDE DEF x
<1>4. /\ Tracks(x, y) /\ y \in Routes /\ y.ri.attr = x.ri.attr
      /\ \A g \in Deciding \cup {"COUNTED", "SELECTED"} : Has(y.ri, g) <=> Has(x.ri, g)
  <2>1. /\ Tracks(x, y)
        /\ \A g \in Flag \ {"COUNTED", "STALE"} : Has(y.ri, g) <=> Has(x.ri, g)
        /\ Has(y.ri, "COUNTED") <=> Has(x.ri, "COUNTED")
    BY <1>2, FlagUnset DEF Flag, Deciding, UNUSEABLE
  <2> HIDE DEF y
  <2> QED
    BY <2>1 DEF Tracks, Flag, Deciding, UNUSEABLE
<1>5. Consistent(y.ri) /\ Present(y.ri)
  BY <1>2, <1>3, <1>4, SameUse DEF Present
<1>6. /\ SetRoute(p, q, x) \/ SetRoute(p, q, y)
      /\ bgp_process(p) \/ UNCHANGED scheduled
  BY DEF bgp_update_duplicate, x
<1>7. Tracks(r, y)
  BY <1>1, <1>2, <1>4, TracksTrans
<1> HIDE DEF y, r
<1> QED
  BY <1>1, <1>2, <1>3, <1>4, <1>5, <1>6, <1>7, OneRoute DEF Tracks, Deciding, UNUSEABLE

\* An implicit withdraw keeps the books, also for a route brought back from
\* REMOVED.
LEMMA ImplicitRoute ==
    ASSUME RibOK, NEW p \in Prefix, NEW q \in Peer, NEW attr \in Attr,
           NEW reachable \in BOOLEAN, bgp_update_implicit(p, q, attr, reachable)
    PROVE  RibOK' /\ Kept
<1> DEFINE r == Route(p, q)
           restored == IF Has(r.ri, "REMOVED") THEN bgp_info_restore(r) ELSE r
           fresh == bgp_info_unset_flag(restored, "STALE")
           changed == bgp_info_set_flag(fresh, "ATTR_CHANGED")
           updated == Replaced(r, InPolicy[q][attr])
           y == CheckNexthop(updated, reachable)
<1>1. /\ r \in Routes /\ Covered(r) /\ r.ri = rib[p][q] /\ r.pc = pcount[q]
  BY RouteCovered DEF Route
<1>2. /\ Tracks(r, restored) /\ ~Has(restored.ri, "REMOVED")
      /\ Has(restored.ri, "SELECTED") <=> Has(r.ri, "SELECTED")
  BY <1>1, Restored DEF Tracks, Flag
<1> HIDE DEF restored
<1>3. /\ Tracks(restored, fresh) /\ ~Has(fresh.ri, "REMOVED")
      /\ Has(fresh.ri, "SELECTED") <=> Has(r.ri, "SELECTED")
  BY <1>2, FlagUnset DEF Tracks, Flag
<1> HIDE DEF fresh
<1>4. /\ Tracks(fresh, changed) /\ ~Has(changed.ri, "REMOVED")
      /\ Has(changed.ri, "SELECTED") <=> Has(r.ri, "SELECTED")
  BY <1>3, FlagSet DEF Tracks, Flag
<1>5. Tracks(r, changed)
  BY <1>1, <1>2, <1>3, <1>4, TracksTrans DEF Tracks
<1>6. InPolicy[q][attr] \in Attr
  BY PolicyAssumption DEF bgp_update_implicit
<1> HIDE DEF changed
<1> HIDE DEF updated
<1>7a. updated = [changed EXCEPT !.ri.attr = InPolicy[q][attr]]
  BY DEF updated, Replaced, changed, fresh, restored
<1>7. /\ updated \in Routes /\ updated.ri.flags = changed.ri.flags
      /\ updated.pc = changed.pc /\ updated.ri.attr = InPolicy[q][attr]
  BY <1>5, <1>6, <1>7a DEF Tracks, Routes, Info
<1>8. Covered(updated) /\ Present(updated.ri)
  BY <1>5, <1>6, <1>7, NoAttrAssumption DEF Tracks, Covered, Counts, Has, Present
<1>9. /\ Tracks(updated, y) /\ Consistent(y.ri) /\ Present(y.ri)
      /\ \A g \in {"SELECTED", "REMOVED"} : Has(y.ri, g) <=> Has(updated.ri, g)
  BY <1>7, <1>8, CheckedNexthop DEF Flag, Tracks, Present
<1>10. y.pc - Counts(y.ri) = pcount[q] - Counts(rib[p][q])
  BY <1>1, <1>5, <1>7, <1>9 DEF Tracks, Counts, Has
<1>11. SetRoute(p, q, y) /\ bgp_process(p)
  BY DEF bgp_update_implicit, updated
<1>12. Has(y.ri, "SELECTED") <=> Has(rib[p][q], "SELECTED")
  BY <1>1, <1>4, <1>7, <1>9 DEF Has
<1> HIDE DEF y
<1> QED
  BY <1>9, <1>10, <1>11, <1>12, OneRoute DEF Tracks

\* A new route keeps the books, within maximum-prefix or over it.
LEMMA NewRoute ==
    ASSUME RibOK, NEW p \in Prefix, NEW q \in Peer, NEW attr \in Attr,
           NEW reachable \in BOOLEAN, bgp_update_new(p, q, attr, reachable)
    PROVE  RibOK' /\ Kept
<1> DEFINE new == [attr |-> InPolicy[q][attr], flags |-> {}]
           x == [ri |-> new, pc |-> pcount[q]]
           y == CheckNexthop(x, reachable)
<1>1. InPolicy[q][attr] \in Attr
  BY PolicyAssumption DEF bgp_update_new
<1>2. x \in Routes /\ Covered(x) /\ Present(x.ri) /\ Counts(x.ri) = 0
  BY <1>1, NoAttrAssumption DEF RibOK, Routes, Info, Covered, Counts, Has, Present
<1>3. /\ Tracks(x, y) /\ Consistent(y.ri) /\ Present(y.ri)
      /\ ~Has(y.ri, "SELECTED") /\ ~Has(y.ri, "REMOVED")
  BY <1>2, CheckedNexthop DEF Tracks, Present, Flag, Has
<1>4. Counts(rib[p][q]) = 0 /\ ~Has(rib[p][q], "SELECTED")
  BY DEF bgp_update_new, RibOK, Consistent, Counts, Has
<1>5. y \in Routes /\ y.pc - Counts(y.ri) = pcount[q] - Counts(rib[p][q])
  BY <1>2, <1>3, <1>4 DEF Tracks
<1>6. SetRoute(p, q, y) /\ (bgp_process(p) \/ UNCHANGED scheduled)
  BY DEF bgp_update_new
<1> HIDE DEF y
<1> QED
  BY <1>3, <1>4, <1>5, <1>6, OneRoute

\* bgp_clear_stale_route keeps the books: every stale route that was counted
\* is taken out of the count once.
LEMMA ClearStale ==
    ASSUME RibOK, NEW q \in Peer, bgp_clear_stale_route(q)
    PROVE  RibOK' /\ Kept
<1> DEFINE gone == StaleNodes(q)
           counted == {p \in gone : Has(rib[p][q], "COUNTED")}
           y(p) == bgp_info_delete(Route(p, q))
<1>1. gone \subseteq Prefix /\ \A p \in gone : Present(rib[p][q])
  BY DEF StaleNodes
<1>2. ASSUME NEW p \in gone
      PROVE  /\ y(p).ri \in Info /\ Consistent(y(p).ri) /\ ~Has(y(p).ri, "COUNTED")
             /\ Present(y(p).ri)
             /\ Has(y(p).ri, "SELECTED") <=> Has(rib[p][q], "SELECTED")
  <2>1. Route(p, q) \in Routes /\ Covered(Route(p, q)) /\ Route(p, q).ri = rib[p][q]
    BY <1>1, RouteCovered DEF Route
  <2>2. /\ Tracks(Route(p, q), y(p))
        /\ ~Has(y(p).ri, "VALID") /\ ~Has(y(p).ri, "COUNTED")
        /\ Has(y(p).ri, "SELECTED") <=> Has(rib[p][q], "SELECTED")
    BY <2>1, Deleted DEF Flag
  <2>3. y(p).ri.attr # NoAttr
    BY <1>1, <2>1, <2>2 DEF Tracks, Present
  <2> HIDE DEF y
  <2> QED
    BY <2>2, <2>3 DEF Tracks, Routes, Consistent, Present, Usable, HOLDDOWN
<1>3. rib' = [p \in Prefix |-> IF p \in gone THEN [rib[p] EXCEPT ![q] = y(p).ri]
                                             ELSE rib[p]]
  BY DEF bgp_clear_stale_route
<1>4. pcount' = [pcount EXCEPT ![q] = IF @ >= Cardinality(counted)
                                      THEN @ - Cardinality(counted) ELSE 0]
  BY DEF bgp_clear_stale_route
<1> HIDE DEF gone, y
<1>5. /\ rib' \in [Prefix -> [Peer -> Info]]
      /\ \A p \in gone : rib'[p][q] = y(p).ri
      /\ \A p \in Prefix, v \in Peer : p \notin gone \/ v # q => rib'[p][v] = rib[p][v]
  BY <1>1, <1>2, <1>3 DEF RibOK
<1>6. \A p \in Prefix, v \in Peer : Consistent(rib'[p][v])
  BY <1>2, <1>5 DEF RibOK
<1>7. counted \subseteq CountedOf(q) /\ CountedOf(q)' = CountedOf(q) \ counted
  BY <1>1, <1>2, <1>5 DEF CountedOf
<1>8. /\ IsFiniteSet(counted) /\ Cardinality(counted) \in Nat
      /\ Cardinality(counted) <= pcount[q]
  BY <1>7, CountedFinite, FS_Subset, FS_CardinalityType DEF RibOK
<1>9. CountedOf(q) \cap counted = counted
  BY <1>7
<1>10. Cardinality(CountedOf(q)') = pcount[q] - Cardinality(counted)
  <2>1. Cardinality(CountedOf(q) \ counted)
            = Cardinality(CountedOf(q)) - Cardinality(CountedOf(q) \cap counted)
    BY CountedFinite, FS_Difference
  <2> QED
    BY <1>7, <1>9, <2>1 DEF RibOK
<1> HIDE DEF counted
<1>11. \A v \in Peer \ {q} : CountedOf(v)' = CountedOf(v)
  BY <1>5 DEF CountedOf
<1>12. pcount' \in [Peer -> Nat] /\ \A v \in Peer : pcount'[v] = Cardinality(CountedOf(v)')
  BY <1>4, <1>8, <1>10, <1>11 DEF RibOK
<1>13. /\ scheduled' \in [Prefix -> Nat]
       /\ \A p \in Prefix : scheduled'[p] >= scheduled[p]
       /\ \A p \in gone : scheduled'[p] > 0
  <2>1. scheduled' = [p \in Prefix |-> IF p \in gone THEN scheduled[p] + 1
                                                   ELSE scheduled[p]]
    BY DEF bgp_clear_stale_route, gone
  <2> QED
    BY <1>1, <2>1 DEF RibOK
<1>14. Kept
  BY <1>2, <1>5, <1>13 DEF Kept
<1> QED
  BY <1>5, <1>6, <1>12, <1>13, <1>14 DEF RibOK

\* What the scan makes of a route is consistent again.
LEMMA ScannedRoute ==
    ASSUME RibOK, NEW p \in Prefix, NEW q \in Peer, NEW unreachable, NEW changed
    PROVE  LET z == Scanned(p, q, unreachable, changed)
           IN  /\ z.ri \in Info
               /\ Consistent(z.ri)
               /\ z.ri.attr = rib[p][q].attr
               /\ \A g \in {"REMOVED", "SELECTED", "STALE", "ATTR_CHANGED"} :
                      Has(z.ri, g) <=> Has(rib[p][q], g)
<1> DEFINE x == Route(p, q)
           y == IF <<p, q>> \in changed THEN SET_FLAG(x, "IGP_CHANGED")
                                        ELSE UNSET_FLAG(x, "IGP_CHANGED")
           valid == <<p, q>> \notin unreachable
           z == Scanned(p, q, unreachable, changed)
<1>1. /\ x \in Routes /\ Covered(x) /\ x.ri = rib[p][q] /\ Consistent(x.ri)
      /\ x.ri \in Info
  BY RouteCovered DEF Route, RibOK
<1>2. CASE ~Present(x.ri)
  BY <1>1, <1>2 DEF Scanned
<1>3. CASE Present(x.ri)
  <2>1. /\ y \in Routes /\ Covered(y) /\ y.ri.attr = x.ri.attr
        /\ \A g \in Flag \ {"IGP_CHANGED"} : Has(y.ri, g) <=> Has(x.ri, g)
    BY <1>1, PlainFlag DEF Tracks, Flag, Has
  <2>2. Present(y.ri) /\ Consistent(y.ri)
    BY <1>1, <1>3, <2>1, SameUse DEF Present, Flag, Deciding, UNUSEABLE
  <2>3. z = IF valid = Has(x.ri, "VALID") THEN y ELSE CheckNexthop(y, valid)
    BY <1>3 DEF Scanned
  <2> HIDE DEF y, z
  <2>4. CASE valid = Has(x.ri, "VALID")
    <3>1. z = y
      BY <2>3, <2>4
    <3> QED
      BY <1>1, <2>1, <2>2, <3>1 DEF Routes, Flag, z
  <2>5. CASE valid # Has(x.ri, "VALID")
    <3>1. z = CheckNexthop(y, valid)
      BY <2>3, <2>5
    <3>2. /\ Tracks(y, z) /\ Consistent(z.ri)
          /\ \A g \in Flag \ {"COUNTED", "VALID"} : Has(z.ri, g) <=> Has(y.ri, g)
      BY <2>1, <2>2, <3>1, CheckedNexthop
    <3>3. /\ z.ri \in Info /\ z.ri.attr = rib[p][q].attr
          /\ \A g \in {"REMOVED", "SELECTED", "STALE", "ATTR_CHANGED"} :
                 Has(z.ri, g) <=> Has(rib[p][q], g)
      BY <1>1, <2>1, <3>2 DEF Tracks, Routes, Flag
    <3> QED
      BY <3>2, <3>3 DEF z
  <2> QED
    BY <2>4, <2>5
<1> QED
  BY <1>2, <1>3

\* bgp_scan keeps the books.
LEMMA ScanRoutes ==
    ASSUME RibOK, NEW unreachable, NEW changed, bgp_scan(unreachable, changed)
    PROVE  RibOK' /\ Kept
<1> DEFINE z(p, q) == Scanned(p, q, unreachable, changed).ri
<1>1. rib' = [p \in Prefix |-> [q \in Peer |-> z(p, q)]]
  BY DEF bgp_scan
<1>2. \A p \in Prefix, q \in Peer :
         /\ z(p, q) \in Info /\ Consistent(z(p, q))
         /\ Present(rib[p][q]) => Present(z(p, q))
         /\ \A g \in {"SELECTED", "REMOVED"} : Has(z(p, q), g) <=> Has(rib[p][q], g)
  BY ScannedRoute DEF Present
<1> HIDE DEF z
<1>3. /\ rib' \in [Prefix -> [Peer -> Info]]
      /\ \A p \in Prefix, q \in Peer : rib'[p][q] = z(p, q) /\ Consistent(rib'[p][q])
  BY <1>1, <1>2
<1>4. ASSUME NEW q \in Peer
      PROVE  pcount'[q] \in Nat /\ pcount'[q] = Cardinality(CountedOf(q)')
  <2> DEFINE up == {p \in Prefix : ~Has(rib[p][q], "COUNTED") /\ Has(z(p, q), "COUNTED")}
             down == {p \in Prefix : Has(rib[p][q], "COUNTED") /\ ~Has(z(p, q), "COUNTED")}
             kept == CountedOf(q) \ down
             sum == pcount[q] + Cardinality(up) - Cardinality(down)
  <2>1. pcount'[q] = IF sum >= 0 THEN sum ELSE 0
    BY DEF bgp_scan, z
  <2>2. CountedOf(q)' = kept \cup up
    BY <1>3 DEF CountedOf
  <2>3. CountedOf(q) \cap down = down /\ kept \cap up = {}
    BY DEF CountedOf
  <2>4. /\ IsFiniteSet(up) /\ IsFiniteSet(down) /\ IsFiniteSet(kept)
        /\ Cardinality(up) \in Nat /\ Cardinality(down) \in Nat
        /\ Cardinality(kept) \in Nat
    BY PrefixAssumption, CountedFinite, FS_Subset, FS_Difference, FS_CardinalityType
  <2>5. Cardinality(kept) = pcount[q] - Cardinality(down)
    <3>1. Cardinality(kept) = Cardinality(CountedOf(q)) - Cardinality(CountedOf(q) \cap down)
      BY CountedFinite, FS_Difference
    <3> QED
      BY <2>3, <3>1 DEF RibOK
  <2>6. Cardinality(kept \cup up) = Cardinality(kept) + Cardinality(up) - Cardinality(kept \cap up)
    BY <2>4, FS_Union
  <2>7. Cardinality(kept \cap up) = 0
    BY <2>3, FS_EmptySet
  <2> HIDE DEF up, down, kept
  <2> QED
    BY <2>1, <2>2, <2>4, <2>5, <2>6, <2>7 DEF RibOK
<1>5. pcount' \in [Peer -> Nat]
  <2>1. pcount' = [q \in Peer |-> pcount'[q]]
    BY DEF bgp_scan
  <2> QED
    BY <1>4, <2>1
<1>6. scheduled' \in [Prefix -> Nat] /\ \A p \in Prefix : scheduled'[p] >= scheduled[p]
  BY DEF bgp_scan, RibOK
<1>7. Kept
  BY <1>2, <1>3, <1>6 DEF Kept
<1> QED
  BY <1>3, <1>4, <1>5, <1>6, <1>7 DEF RibOK

\* old_select finds the selected route if there is one.
LEMMA OldSelect ==
    ASSUME NEW p \in Prefix
    PROVE  \/ old_select(p) \in Peer /\ Has(rib[p][old_select(p)], "SELECTED")
           \/ old_select(p) = NoPeer /\ \A q \in Peer : ~Has(rib[p][q], "SELECTED")
BY DEF old_select

\* What one run of bgp_process_main makes of the routes of its node: those
\* waiting for it are reaped, the others keep everything but SELECTED and
\* ATTR_CHANGED, and the new best route is the only selected one.
Processed(p, new) ==
    \A q \in Peer :
        /\ rib'[p][q] \in Info
        /\ \/ rib'[p][q] = NoInfo /\ Has(rib[p][q], "REMOVED")
           \/ /\ rib'[p][q].attr = rib[p][q].attr
              /\ \A g \in Flag \ {"SELECTED", "ATTR_CHANGED"} :
                     Has(rib'[p][q], g) <=> Has(rib[p][q], g)
        /\ ~Has(rib'[p][q], "REMOVED")
        /\ Has(rib'[p][q], "SELECTED") <=> q = new

\* bgp_process_main_same and bgp_process_main_select leave a node Processed.
LEMMA ProcessNode ==
    ASSUME RibOK, OneSelected, NEW p \in Prefix, NEW new \in new_select(p),
           bgp_process_main_same(p, new) \/ bgp_process_main_select(p, new)
    PROVE  /\ new \in Peer \cup {NoPeer}
           /\ new \in Peer => Usable(rib[p][new])
           /\ Processed(p, new)
           /\ rib' \in [Prefix -> [Peer -> Info]]
           /\ \A u \in Prefix \ {p} : rib'[u] = rib[u]
<1>1. \/ new \in Peer /\ Usable(rib[p][new])
      \/ new = NoPeer
  BY DEF new_select
<1>2. new \in Peer => ~Has(rib[p][new], "REMOVED")
  BY <1>1, NoPeerAssumption DEF Usable, HOLDDOWN, UNUSEABLE, Has
<1>3. rib \in [Prefix -> [Peer -> Info]]
  BY DEF RibOK
<1>4. \A q \in Peer : Has(rib[p][q], "SELECTED") <=> q = old_select(p)
  BY OldSelect, NoPeerAssumption DEF OneSelected
<1>5. NoInfo \in Info /\ \A g : ~Has(NoInfo, g)
  BY DEF NoInfo, Info, Has
<1>6. CASE bgp_process_main_same(p, new)
  <2>1. new \in Peer /\ old_select(p) = new
    BY <1>1, <1>6 DEF bgp_process_main_same, NothingToDo
  <2>2. \A q \in Peer : Reaped(p)[q] = IF Has(rib[p][q], "REMOVED") /\ q # new
                                       THEN NoInfo ELSE rib[p][q]
    BY <2>1 DEF Reaped
  <2>3. Reaped(p) \in [Peer -> Info]
    BY <1>3, <1>5 DEF Reaped
  <2>4. rib' = [rib EXCEPT ![p] = Reaped(p)]
    BY <1>6 DEF bgp_process_main_same
  <2>5. /\ rib' \in [Prefix -> [Peer -> Info]] /\ rib'[p] = Reaped(p)
        /\ \A u \in Prefix \ {p} : rib'[u] = rib[u]
    BY <1>3, <2>3, <2>4
  <2>6. Processed(p, new)
    BY <1>2, <1>4, <1>5, <2>1, <2>2, <2>5 DEF Processed
  <2> QED
    BY <1>1, <2>5, <2>6, NoPeerAssumption
<1>7. CASE bgp_process_main_select(p, new)
  <2> DEFINE best == [rib[p][new] EXCEPT !.flags = (@ \cup {"SELECTED"}) \ {"ATTR_CHANGED"}]
             former(q) == [rib[p][q] EXCEPT !.flags = @ \ {"SELECTED"}]
  <2>1. new \in Peer => /\ best \in Info /\ best.attr = rib[p][new].attr
                        /\ Has(best, "SELECTED")
                        /\ \A g \in Flag \ {"SELECTED", "ATTR_CHANGED"} :
                               Has(best, g) <=> Has(rib[p][new], g)
    BY <1>3 DEF Info, Has, Flag
  <2>2. \A q \in Peer : /\ former(q) \in Info /\ former(q).attr = rib[p][q].attr
                        /\ ~Has(former(q), "SELECTED")
                        /\ \A g \in Flag \ {"SELECTED"} : Has(former(q), g) <=> Has(rib[p][q], g)
    BY <1>3 DEF Info, Has
  <2>3. Selected(p, new) =
           [q \in Peer |-> IF q = new THEN best
                           ELSE IF q = old_select(p)
                                THEN IF Has(rib[p][q], "REMOVED") THEN NoInfo ELSE former(q)
                                ELSE IF Has(rib[p][q], "REMOVED") THEN NoInfo ELSE rib[p][q]]
    BY DEF Selected, Reaped
  <2> HIDE DEF best, former
  <2>4. Selected(p, new) \in [Peer -> Info]
    BY <1>3, <1>5, <2>1, <2>2, <2>3
  <2>5. rib' = [rib EXCEPT ![p] = Selected(p, new)]
    BY <1>7 DEF bgp_process_main_select
  <2>6. /\ rib' \in [Prefix -> [Peer -> Info]] /\ rib'[p] = Selected(p, new)
        /\ \A u \in Prefix \ {p} : rib'[u] = rib[u]
    BY <1>3, <2>4, <2>5
  <2>7. ASSUME NEW q \in Peer
        PROVE  /\ rib'[p][q] \in Info
               /\ \/ rib'[p][q] = NoInfo /\ Has(rib[p][q], "REMOVED")
                  \/ /\ rib'[p][q].attr = rib[p][q].attr
                     /\ \A g \in Flag \ {"SELECTED", "ATTR_CHANGED"} :
                            Has(rib'[p][q], g) <=> Has(rib[p][q], g)
               /\ ~Has(rib'[p][q], "REMOVED")
               /\ Has(rib'[p][q], "SELECTED") <=> q = new
    <3>1. CASE q = new
      BY <1>2, <2>1, <2>3, <2>6, <3>1 DEF Flag
    <3>2. CASE q # new /\ Has(rib[p][q], "REMOVED")
      BY <1>5, <2>3, <2>6, <3>2
    <3>3. CASE q # new /\ ~Has(rib[p][q], "REMOVED") /\ q = old_select(p)
      BY <2>2, <2>3, <2>6, <3>3 DEF Flag
    <3>4. CASE q # new /\ ~Has(rib[p][q], "REMOVED") /\ q # old_select(p)
      BY <1>3, <1>4, <2>3, <2>6, <3>4
    <3> QED
      BY <3>1, <3>2, <3>3, <3>4
  <2> QED
    BY <1>1, <2>6, <2>7, NoPeerAssumption DEF Processed
<1> QED
  BY <1>6, <1>7

\* The process queue keeps the books: what it reaps was not counted.
LEMMA ProcessRibOK ==
    ASSUME RibOK, OneSelected, NEW p \in Prefix, bgp_process_main(p)
    PROVE  RibOK'
<1>1. PICK new \in new_select(p) :
          bgp_process_main_same(p, new) \/ bgp_process_main_select(p, new)
  BY DEF bgp_process_main
<1>2. /\ Processed(p, new)
      /\ rib' \in [Prefix -> [Peer -> Info]]
      /\ \A u \in Prefix \ {p} : rib'[u] = rib[u]
  BY <1>1, ProcessNode
<1>3. /\ pcount' = pcount /\ pcount \in [Peer -> Nat]
      /\ scheduled' \in [Prefix -> Nat]
  BY DEF bgp_process_main, RibOK
<1>4. ASSUME NEW q \in Peer
      PROVE  /\ Consistent(rib'[p][q])
             /\ Has(rib'[p][q], "COUNTED") <=> Has(rib[p][q], "COUNTED")
  <2>1. Consistent(rib[p][q])
    BY DEF RibOK
  <2>2. CASE rib'[p][q] = NoInfo /\ Has(rib[p][q], "REMOVED")
    <3>1. ~Has(rib[p][q], "COUNTED")
      BY <2>1, <2>2 DEF Consistent, Usable, HOLDDOWN, UNUSEABLE, Has
    <3> QED
      BY <2>2, <3>1 DEF Consistent, NoInfo, Has, Present, Usable
  <2>3. CASE ~(rib'[p][q] = NoInfo /\ Has(rib[p][q], "REMOVED"))
    <3>1. /\ rib'[p][q].attr = rib[p][q].attr /\ rib'[p][q] \in Info
          /\ \A g \in Deciding \cup {"COUNTED"} :
                 Has(rib'[p][q], g) <=> Has(rib[p][q], g)
          /\ Has(rib'[p][q], "SELECTED") => Has(rib[p][q], "SELECTED") \/ q = new
      BY <1>2, <2>3 DEF Processed, Flag, Deciding, UNUSEABLE
    <3>2. CASE Present(rib[p][q])
      BY <2>1, <3>1, <3>2 DEF Consistent, Usable, Present, HOLDDOWN, Deciding, UNUSEABLE, Has
    <3>3. CASE ~Present(rib[p][q])
      <4>1. rib[p][q].flags = {} /\ rib[p][q].attr = NoAttr
        BY <2>1, <3>3 DEF Consistent, Present
      <4>2. q # new
        BY <1>1, <3>3, NoPeerAssumption DEF new_select, Usable
      <4>3. ~Has(rib[p][q], "REMOVED") /\ ~Has(rib[p][q], "SELECTED")
        BY <4>1 DEF Has
      <4>4. rib'[p][q] = rib[p][q]
        <5>1. q # old_select(p)
          BY <4>3, OldSelect, NoPeerAssumption
        <5> QED
          BY <1>1, <4>2, <4>3, <5>1 DEF bgp_process_main_same, bgp_process_main_select,
                                    Selected, Reaped, RibOK
      <4> QED
        BY <2>1, <4>4
    <3> QED
      BY <3>2, <3>3
  <2> QED
    BY <2>2, <2>3
<1>5. \A u \in Prefix, q \in Peer :
         /\ Consistent(rib'[u][q])
         /\ Has(rib'[u][q], "COUNTED") <=> Has(rib[u][q], "COUNTED")
  BY <1>2, <1>4 DEF RibOK
<1>6. \A q \in Peer : CountedOf(q)' = CountedOf(q)
  BY <1>5 DEF CountedOf
<1> QED
  BY <1>2, <1>3, <1>5, <1>6 DEF RibOK

\* A step that leaves the table alone.
LEMMA Untouched ==
    ASSUME RibOK, UNCHANGED ribVars
    PROVE  RibOK' /\ Kept
<1>1. rib' = rib /\ pcount' = pcount /\ scheduled' = scheduled
  BY DEF ribVars
<1>2. \A q \in Peer : CountedOf(q)' = CountedOf(q)
  BY <1>1 DEF CountedOf
<1>3. \A p \in Prefix : scheduled[p] \in Nat
  BY DEF RibOK
<1> QED
  BY <1>1, <1>2, <1>3 DEF RibOK, Kept

\* bgp_clear_route_node keeps the books, whether it removes the route or
\* keeps it as a stale one.
LEMMA ClearNode ==
    ASSUME RibOK, NEW p \in Prefix, NEW q \in Peer, bgp_clear_route_node(p, q)
    PROVE  RibOK' /\ Kept
<1> DEFINE x == Route(p, q)
           y == bgp_info_set_flag(x, "STALE")
<1>1. CASE ~Present(rib[p][q])
  BY <1>1, Untouched DEF bgp_clear_route_node
<1>2. CASE Present(rib[p][q]) /\ bgp_rib_remove(p, q)
  BY <1>2, RemoveRoute
<1>3. CASE Present(rib[p][q]) /\ SetRoute(p, q, y) /\ UNCHANGED scheduled
  <2>1. x \in Routes /\ Covered(x) /\ x.ri = rib[p][q] /\ x.pc = pcount[q]
    BY RouteCovered DEF Route
  <2>2. /\ Tracks(x, y) /\ y \in Routes /\ y.ri.attr = x.ri.attr
        /\ \A g \in Deciding \cup {"COUNTED", "SELECTED"} :
               Has(y.ri, g) <=> Has(x.ri, g)
    <3>1. /\ Tracks(x, y)
          /\ \A g \in Flag \ {"COUNTED", "STALE"} : Has(y.ri, g) <=> Has(x.ri, g)
          /\ Has(y.ri, "COUNTED") <=> Has(x.ri, "COUNTED")
      BY <2>1, FlagSet DEF Flag, Deciding, UNUSEABLE
    <3> HIDE DEF y
    <3> QED
      BY <3>1 DEF Tracks, Flag, Deciding, UNUSEABLE
  <2>3. Consistent(x.ri) /\ Present(x.ri)
    BY <1>3, <2>1 DEF RibOK
  <2> HIDE DEF x, y
  <2>4. Consistent(y.ri) /\ Present(y.ri)
    BY <2>1, <2>2, <2>3, SameUse DEF Present
  <2> QED
    BY <1>3, <2>1, <2>2, <2>4, OneRoute DEF Tracks, Deciding, UNUSEABLE
<1> QED
  BY <1>1, <1>2, <1>3 DEF bgp_clear_route_node

\* Every step but that of the process queue keeps the books, the selection and
\* what zebra was given.
LEMMA RibStep ==
    ASSUME RibOK, [Next]_vars
    PROVE  (RibOK' /\ Kept /\ fib' = fib) \/ \E p \in Prefix : bgp_process_main(p)
<1>1. CASE UNCHANGED vars
  <2>1. UNCHANGED ribVars /\ fib' = fib
    BY <1>1 DEF vars
  <2> QED
    BY <2>1, Untouched
<1>2. ASSUME NEW p \in Prefix, NEW q \in Peer, Update(p, q)
      PROVE  RibOK' /\ Kept /\ fib' = fib
  <2>1. CASE bgp_withdraw(p, q)
    BY <2>1, RemoveRoute, Untouched DEF bgp_withdraw
  <2>2. ASSUME NEW attr \in Attr, bgp_update_filtered(p, q, attr)
        PROVE  RibOK' /\ Kept /\ fib' = fib
    BY <2>2, RemoveRoute, Untouched DEF bgp_update_filtered
  <2>3. ASSUME NEW attr \in Attr, bgp_update_duplicate(p, q, attr)
        PROVE  RibOK' /\ Kept /\ fib' = fib
    <3>1. fib' = fib
      BY <2>3 DEF bgp_update_duplicate
    <3> QED
      BY <2>3, <3>1, DuplicateRoute
  <2>4. ASSUME NEW attr \in Attr, NEW reachable \in Reachable(q),
               \/ bgp_update_implicit(p, q, attr, reachable)
               \/ bgp_update_new(p, q, attr, reachable)
        PROVE  RibOK' /\ Kept /\ fib' = fib
    <3>1. fib' = fib
      BY <2>4 DEF bgp_update_implicit, bgp_update_new
    <3>2. reachable \in BOOLEAN
      BY DEF Reachable
    <3> QED
      BY <2>4, <3>1, <3>2, ImplicitRoute, NewRoute
  <2> QED
    BY <1>2, <2>1, <2>2, <2>3, <2>4 DEF Update
<1>3. ASSUME NEW q \in Peer, Session(q)
      PROVE  RibOK' /\ Kept /\ fib' = fib
  <2>1. ASSUME NEW capable, NEW preserved, bgp_establish(q, capable, preserved)
        PROVE  RibOK' /\ Kept /\ fib' = fib
    BY <2>1, ClearStale, Untouched DEF bgp_establish
  <2>2. ASSUME \/ bgp_open_send(q) \/ bgp_stop_unestablished(q)
               \/ bgp_announce_route(q) \/ \E closed \in BOOLEAN : session_lost(q, closed)
               \/ bgp_stop(q) \/ bgp_clearing_completed(q) \/ peer_clear(q)
        PROVE  UNCHANGED ribVars /\ fib' = fib
    BY <2>2 DEF bgp_open_send, bgp_stop_unestablished, bgp_announce_route, session_lost,
                bgp_stop, bgp_clearing_completed, peer_clear
  <2> QED
    BY <1>3, <2>1, <2>2, Untouched DEF Session
<1>4. ASSUME NEW q \in Peer, GracefulRestart(q)
      PROVE  RibOK' /\ Kept /\ fib' = fib
  <2>1. /\ bgp_clear_stale_route(q) \/ UNCHANGED ribVars
        /\ fib' = fib
    BY <1>4 DEF GracefulRestart, bgp_graceful_restart_timer_expire,
                bgp_graceful_stale_timer_expire, bgp_update_receive_eor
  <2> QED
    BY <2>1, ClearStale, Untouched
<1>5. ASSUME NEW p \in Prefix, NEW q \in Peer,
             \/ bgp_clear_route_node(p, q)
             \/ bgp_withdraw_packet(p, q)
             \/ bgp_update_packet(p, q)
      PROVE  RibOK' /\ Kept /\ fib' = fib
  <2>1. fib' = fib /\ (bgp_clear_route_node(p, q) \/ UNCHANGED ribVars)
    BY <1>5 DEF bgp_clear_route_node, bgp_withdraw_packet, bgp_update_packet
  <2> QED
    BY <2>1, ClearNode, Untouched
<1>6. ASSUME Scan PROVE RibOK' /\ Kept /\ fib' = fib
  <2>1. PICK unreachable, changed : bgp_scan(unreachable, changed)
    BY <1>6 DEF Scan
  <2>2. fib' = fib
    BY <2>1 DEF bgp_scan
  <2> QED
    BY <2>1, <2>2, ScanRoutes
<1> QED
  BY <1>1, <1>2, <1>3, <1>4, <1>5, <1>6 DEF Next

(***************************************************************************)
(* The selection.  Each invariant below needs the others: a route is reaped *)
(* at the right time only because at most one is selected, and zebra's     *)
(* table follows the selection only because a selected route is never      *)
(* reaped without it.                                                      *)
(***************************************************************************)
SelectionOK ==
    /\ RibOK
    /\ fib \in [Prefix -> Attr \cup {NoAttr}]
    /\ OneSelected
    /\ RemovedIsScheduled
    /\ FibHasSelected

\* The process queue leaves its node with one selected route, nothing to reap,
\* and zebra told.
LEMMA ProcessSelectionOK ==
    ASSUME SelectionOK, NEW p \in Prefix, bgp_process_main(p)
    PROVE  SelectionOK'
<1>0. /\ fib \in [Prefix -> Attr \cup {NoAttr}]
      /\ RibOK /\ OneSelected /\ RemovedIsScheduled /\ FibHasSelected
  BY DEF SelectionOK
<1>1. PICK new \in new_select(p) :
          bgp_process_main_same(p, new) \/ bgp_process_main_select(p, new)
  BY DEF bgp_process_main
<1>2. /\ new \in Peer \cup {NoPeer}
      /\ new \in Peer => Usable(rib[p][new])
      /\ Processed(p, new)
      /\ \A u \in Prefix \ {p} : rib'[u] = rib[u]
  BY <1>0, <1>1, ProcessNode
<1>3. RibOK'
  BY <1>0, ProcessRibOK
<1>4. \A q \in Peer : /\ ~Has(rib'[p][q], "REMOVED")
                      /\ Has(rib'[p][q], "SELECTED") <=> q = new
  BY <1>2 DEF Processed
<1>5. OneSelected'
  <2>1. new \in Peer => Present(rib'[p][new])
    <3>1. \A g : ~Has(NoInfo, g)
      BY DEF Has, NoInfo
    <3> QED
      BY <1>2, <1>4, <3>1 DEF Processed, Usable, Present
  <2> QED
    BY <1>0, <1>2, <1>4, <2>1 DEF OneSelected
<1>6. RemovedIsScheduled'
  BY <1>0, <1>2, <1>4 DEF RemovedIsScheduled, bgp_process_main, RibOK
<1>7. FibHasSelected' /\ fib' \in [Prefix -> Attr \cup {NoAttr}]
  <2>0. new \in Peer => rib[p][new].attr \in Attr
    BY <1>0, <1>2 DEF RibOK, Info, Usable, Present
  <2>1. /\ fib' \in [Prefix -> Attr \cup {NoAttr}]
        /\ \A u \in Prefix \ {p} : fib'[u] = fib[u]
        /\ new = NoPeer => fib'[p] = NoAttr
        /\ new # NoPeer => fib'[p] # NoAttr
    <3>1. CASE bgp_process_main_same(p, new)
      <4>1. new \in Peer /\ old_select(p) = new
        BY <1>2, <3>1 DEF bgp_process_main_same, NothingToDo
      <4>2. fib' = fib \/ fib' = [fib EXCEPT ![p] = rib[p][new].attr]
        BY <3>1 DEF bgp_process_main_same
      <4>3. fib[p] # NoAttr /\ rib[p][new].attr # NoAttr
        BY <1>0, <1>2, <4>1, OldSelect, NoPeerAssumption DEF FibHasSelected, Usable, Present
      <4> QED
        BY <1>0, <2>0, <4>1, <4>2, <4>3, NoPeerAssumption
    <3>2. CASE bgp_process_main_select(p, new)
      <4> DEFINE attr == AttrOf(p, new)
      <4>1. fib' = IF new # NoPeer \/ old_select(p) # NoPeer
                   THEN [fib EXCEPT ![p] = attr] ELSE fib
        BY <3>2 DEF bgp_process_main_select, FibUpdate
      <4>2. old_select(p) = NoPeer => fib[p] = NoAttr
        BY <1>0, OldSelect, NoPeerAssumption DEF FibHasSelected
      <4>3. new # NoPeer => attr # NoAttr
        BY <1>2 DEF Usable, Present, AttrOf
      <4>4. attr \in Attr \cup {NoAttr}
        BY <1>2, <2>0 DEF AttrOf
      <4> HIDE DEF attr
      <4>5. CASE new # NoPeer
        BY <1>0, <4>1, <4>3, <4>4, <4>5
      <4>6. CASE new = NoPeer
        BY <1>0, <4>1, <4>2, <4>6 DEF attr, AttrOf
      <4> QED
        BY <4>5, <4>6
    <3> QED
      BY <1>1, <3>1, <3>2
  <2> QED
    BY <1>0, <1>2, <1>4, <2>1, NoPeerAssumption DEF FibHasSelected
<1> QED
  BY <1>3, <1>5, <1>6, <1>7 DEF SelectionOK

\* SelectionOK is inductive.
LEMMA SelectionStep ==
    ASSUME SelectionOK, [Next]_vars
    PROVE  SelectionOK'
<1>1. CASE \E p \in Prefix : bgp_process_main(p)
  BY <1>1, ProcessSelectionOK
<1>2. CASE RibOK' /\ Kept /\ fib' = fib
  <2>1. OneSelected'
    BY <1>2 DEF SelectionOK, Kept, OneSelected
  <2>2. RemovedIsScheduled'
    BY <1>2 DEF SelectionOK, Kept, RemovedIsScheduled, RibOK
  <2>3. FibHasSelected'
    BY <1>2 DEF SelectionOK, Kept, FibHasSelected
  <2> QED
    BY <1>2, <2>1, <2>2, <2>3 DEF SelectionOK
<1> QED
  BY <1>1, <1>2, RibStep DEF SelectionOK

\* The empty table is in order.
LEMMA SelectionInit == Init => SelectionOK
<1> SUFFICES ASSUME Init PROVE SelectionOK
  OBVIOUS
<1>1. \A p \in Prefix, q \in Peer : rib[p][q] = NoInfo /\ Consistent(rib[p][q])
  BY DEF Init, Consistent, NoInfo, Present, Usable, Has
<1>2. \A p \in Prefix, q \in Peer : \A g : ~Has(rib[p][q], g)
  BY <1>1 DEF NoInfo, Has
<1>3. \A q \in Peer : CountedOf(q) = {}
  BY <1>2 DEF CountedOf
<1>4. NoInfo \in Info
  BY DEF NoInfo, Info
<1>5. RibOK
  BY <1>1, <1>3, <1>4, FS_EmptySet DEF Init, RibOK
<1> QED
  BY <1>2, <1>5 DEF Init, SelectionOK, OneSelected, RemovedIsScheduled, FibHasSelected

\* SelectionOK holds in every reachable state.
LEMMA SelectionAlways == Spec => []SelectionOK
BY SelectionInit, SelectionStep, PTL DEF Spec

(***************************************************************************)
(* The types of the sessions and of the adjacencies.                       *)
(***************************************************************************)
SessionTypes ==
    /\ status \in [Peer -> Status]
    /\ clearq \in [Peer -> SUBSET Prefix]
    /\ events \in [Peer -> SUBSET Event]
    /\ nsf \subseteq Peer /\ nsfWait \subseteq Peer /\ staleTimer \subseteq Peer
    /\ prefixLimit \subseteq Peer /\ overflow \subseteq Peer

AdjTypes ==
    /\ adjIn \in [Prefix -> [Peer -> Attr \cup {NoAttr}]]
    /\ adjOut \in [Prefix -> [Peer -> AdjOut]]

\* The variables of the sessions keep their types.
LEMMA SessionTypesStep ==
    ASSUME SessionTypes, [Next]_vars
    PROVE  SessionTypes'
<1> USE DEF SessionTypes
<1>1. CASE UNCHANGED vars
  BY <1>1 DEF vars, grVars, limitVars
<1>2. ASSUME NEW p \in Prefix, bgp_process_main(p) PROVE SessionTypes'
  BY <1>2 DEF bgp_process_main, grVars, limitVars
<1>3. ASSUME NEW p \in Prefix, NEW q \in Peer, Update(p, q) PROVE SessionTypes'
  <2>1. ASSUME NEW attr \in Attr, NEW reachable, bgp_update_new(p, q, attr, reachable)
        PROVE  SessionTypes'
    BY <2>1 DEF bgp_update_new, grVars, limitVars, Event
  <2> QED
    BY <1>3, <2>1 DEF Update, bgp_withdraw, bgp_update_filtered, bgp_update_duplicate,
                      bgp_update_implicit, grVars, limitVars
<1>4. ASSUME NEW q \in Peer, Session(q) PROVE SessionTypes'
  <2>1. CASE bgp_open_send(q) \/ bgp_stop_unestablished(q) \/ bgp_clearing_completed(q)
    BY <2>1 DEF bgp_open_send, bgp_stop_unestablished, bgp_clearing_completed,
                grVars, limitVars, Status
  <2>2. ASSUME NEW capable, NEW preserved, bgp_establish(q, capable, preserved)
        PROVE  SessionTypes'
    BY <2>2 DEF bgp_establish, limitVars, Status
  <2>3. CASE bgp_announce_route(q) \/ peer_clear(q)
    BY <2>3 DEF bgp_announce_route, peer_clear, grVars, limitVars
  <2>4. ASSUME NEW closed \in BOOLEAN, session_lost(q, closed) PROVE SessionTypes'
    BY <2>4 DEF session_lost, limitVars, Event
  <2>5. CASE bgp_stop(q)
    BY <2>5 DEF bgp_stop, bgp_clear_node_complete, StaleTimerOnStop, Status, Event
  <2> QED
    BY <1>4, <2>1, <2>2, <2>3, <2>4, <2>5 DEF Session
<1>5. ASSUME NEW q \in Peer, GracefulRestart(q) PROVE SessionTypes'
  BY <1>5 DEF GracefulRestart, bgp_graceful_restart_timer_expire,
              bgp_graceful_stale_timer_expire, bgp_update_receive_eor, grVars, limitVars
<1>6. ASSUME NEW p \in Prefix, NEW q \in Peer, bgp_clear_route_node(p, q)
      PROVE  SessionTypes'
  BY <1>6 DEF bgp_clear_route_node, bgp_clear_node_complete, grVars, limitVars, Event
<1>7. ASSUME NEW p \in Prefix, NEW q \in Peer,
             bgp_withdraw_packet(p, q) \/ bgp_update_packet(p, q)
      PROVE  SessionTypes'
  BY <1>7 DEF bgp_withdraw_packet, bgp_update_packet, grVars, limitVars
<1>8. CASE Scan
  BY <1>8 DEF Scan, bgp_scan, OverLimit, grVars, Event
<1> QED
  BY <1>1, <1>2, <1>3, <1>4, <1>5, <1>6, <1>7, <1>8 DEF Next

\* What is queued for a peer is an attribute set or a withdrawal.
LEMMA AnnounceType ==
    ASSUME NEW adj \in AdjOut, NEW from \in Peer \cup {NoPeer}, NEW to \in Peer,
           NEW attr, from \in Peer => attr \in Attr
    PROVE  Announce(adj, from, attr, to) \in AdjOut
<1> DEFINE out == IF from = NoPeer THEN NoAttr ELSE bgp_announce_check(from, attr, to)
<1>1. out \in Attr \cup {NoAttr}
  BY PolicyAssumption, NoPeerAssumption DEF bgp_announce_check
<1> HIDE DEF out
<1>2. bgp_adj_out_unset(adj) \in AdjOut
  BY DEF bgp_adj_out_unset, AdjOut, NoAdjOut
<1>3. out # NoAttr => bgp_adj_out_set(adj, out) \in AdjOut
  BY <1>1 DEF bgp_adj_out_set, AdjOut
<1> QED
  BY <1>2, <1>3 DEF Announce, out

\* Sending the table to a peer keeps the types of the adjacencies.
LEMMA AnnounceTableType ==
    ASSUME AdjTypes, RibOK, OneSelected, NEW q \in Peer, bgp_announce_table(q)
    PROVE  adjOut' \in [Prefix -> [Peer -> AdjOut]]
<1>1. ASSUME NEW p \in Prefix, old_select(p) \in Peer
      PROVE  Announce(adjOut[p][q], old_select(p), rib[p][old_select(p)].attr, q) \in AdjOut
  <2>1. rib[p][old_select(p)].attr \in Attr
    BY <1>1, OldSelect, NoPeerAssumption DEF OneSelected, RibOK, Info, Present
  <2> QED
    BY <1>1, <2>1, AnnounceType DEF AdjTypes
<1> QED
  BY <1>1 DEF bgp_announce_table, AdjTypes

\* The adjacencies keep their types.
LEMMA AdjTypesStep ==
    ASSUME AdjTypes, SelectionOK, [Next]_vars
    PROVE  AdjTypes'
<1>0. RibOK /\ OneSelected
  BY DEF SelectionOK
<1>1. CASE UNCHANGED vars
  BY <1>1 DEF vars, adjVars, AdjTypes
<1>2. ASSUME NEW p \in Prefix, bgp_process_main(p) PROVE AdjTypes'
  <2>1. PICK new \in new_select(p) :
            bgp_process_main_same(p, new) \/ bgp_process_main_select(p, new)
    BY <1>2 DEF bgp_process_main
  <2>2. new \in Peer \cup {NoPeer} /\ (new \in Peer => rib[p][new].attr \in Attr)
    BY <1>0, <2>1, ProcessNode DEF RibOK, Info, Usable, Present
  <2>3. CASE bgp_process_main_same(p, new)
    BY <1>2, <2>3 DEF bgp_process_main, bgp_process_main_same, AdjTypes
  <2>4. CASE bgp_process_main_select(p, new)
    <3> DEFINE attr == AttrOf(p, new)
    <3>1. adjOut' = [adjOut EXCEPT ![p] =
                  [q \in Peer |-> IF status[q] = "Established"
                                  THEN Announce(adjOut[p][q], new, attr, q)
                                  ELSE adjOut[p][q]]]
      BY <2>4 DEF bgp_process_main_select
    <3>2. new \in Peer => attr \in Attr
      BY <2>2, NoPeerAssumption DEF AttrOf
    <3> HIDE DEF attr
    <3>3. \A q \in Peer : Announce(adjOut[p][q], new, attr, q) \in AdjOut
      BY <2>2, <3>2, AnnounceType DEF AdjTypes
    <3> QED
      BY <1>2, <3>1, <3>3 DEF bgp_process_main, AdjTypes
  <2> QED
    BY <2>1, <2>3, <2>4
<1>3. ASSUME NEW p \in Prefix, NEW q \in Peer, Update(p, q) PROVE AdjTypes'
  <2>1. CASE bgp_withdraw(p, q)
    BY <2>1 DEF bgp_withdraw, AdjTypes
  <2>2. ASSUME NEW attr \in Attr, bgp_adj_in_set(p, q, attr), adjOut' = adjOut
        PROVE  AdjTypes'
    BY <2>2 DEF bgp_adj_in_set, AdjTypes
  <2>3. ASSUME NEW attr \in Attr, NEW reachable,
               \/ bgp_update_filtered(p, q, attr)
               \/ bgp_update_duplicate(p, q, attr)
               \/ bgp_update_implicit(p, q, attr, reachable)
               \/ bgp_update_new(p, q, attr, reachable)
        PROVE  bgp_adj_in_set(p, q, attr) /\ adjOut' = adjOut
    BY <2>3 DEF bgp_update_filtered, bgp_update_duplicate, bgp_update_implicit, bgp_update_new
  <2> QED
    BY <1>3, <2>1, <2>2, <2>3 DEF Update
<1>4. ASSUME NEW q \in Peer, Session(q) PROVE AdjTypes'
  <2>1. ASSUME NEW capable, NEW preserved, bgp_establish(q, capable, preserved)
        PROVE  AdjTypes'
    BY <1>0, <2>1, AnnounceTableType DEF bgp_establish, AdjTypes
  <2>2. CASE bgp_announce_route(q)
    BY <1>0, <2>2, AnnounceTableType DEF bgp_announce_route, AdjTypes
  <2>3. CASE bgp_stop(q)
    <3>1. adjIn' = Cleared(adjIn, NoAttr, q) /\ adjOut' = Cleared(adjOut, NoAdjOut, q)
      BY <2>3 DEF bgp_stop
    <3>2. NoAdjOut \in AdjOut
      BY DEF NoAdjOut, AdjOut
    <3> QED
      BY <3>1, <3>2 DEF Cleared, AdjTypes
  <2>4. ASSUME \/ bgp_open_send(q) \/ bgp_stop_unestablished(q)
               \/ \E closed \in BOOLEAN : session_lost(q, closed)
               \/ bgp_clearing_completed(q) \/ peer_clear(q)
        PROVE  AdjTypes'
    BY <2>4 DEF bgp_open_send, bgp_stop_unestablished, session_lost,
                bgp_clearing_completed, peer_clear, adjVars, AdjTypes
  <2> QED
    BY <1>4, <2>1, <2>2, <2>3, <2>4 DEF Session
<1>5. ASSUME NEW q \in Peer, GracefulRestart(q) PROVE AdjTypes'
  BY <1>5 DEF GracefulRestart, bgp_graceful_restart_timer_expire,
              bgp_graceful_stale_timer_expire, bgp_update_receive_eor, adjVars, AdjTypes
<1>6. ASSUME NEW p \in Prefix, NEW q \in Peer, bgp_clear_route_node(p, q) PROVE AdjTypes'
  BY <1>6 DEF bgp_clear_route_node, adjVars, AdjTypes
<1>7. ASSUME NEW p \in Prefix, NEW q \in Peer,
             bgp_withdraw_packet(p, q) \/ bgp_update_packet(p, q)
      PROVE  AdjTypes'
  <2>1. adjIn' = adjIn /\ NoAdjOut \in AdjOut
    BY <1>7 DEF bgp_withdraw_packet, bgp_update_packet, NoAdjOut, AdjOut
  <2>2. PICK a \in AdjOut : adjOut' = [adjOut EXCEPT ![p][q] = a]
    <3>1. CASE bgp_withdraw_packet(p, q)
      BY <2>1, <3>1 DEF bgp_withdraw_packet
    <3>2. CASE bgp_update_packet(p, q)
      <4>1. adjOut' = [adjOut EXCEPT ![p][q] = [attr |-> adjOut[p][q].adv, adv |-> NoAttr]]
        BY <3>2 DEF bgp_update_packet, AdjTypes
      <4>2. [attr |-> adjOut[p][q].adv, adv |-> NoAttr] \in AdjOut
        BY <3>2 DEF bgp_update_packet, AdjOut
      <4> QED
        BY <4>1, <4>2
    <3> QED
      BY <1>7, <3>1, <3>2
  <2> QED
    BY <2>1, <2>2 DEF AdjTypes
<1>8. CASE Scan
  BY <1>8 DEF Scan, bgp_scan, adjVars, AdjTypes
<1> QED
  BY <1>1, <1>2, <1>3, <1>4, <1>5, <1>6, <1>7, <1>8 DEF Next

-----------------------------------------------------------------------------
(***************************************************************************)
(* The theorems.                                                           *)
(***************************************************************************)

\* Every variable keeps its type: a peer's prefix count is never negative and
\* every queued advertisement is an attribute set or a withdrawal.
THEOREM TypeCorrect == Spec => []TypeOK
<1>1. Init => SessionTypes /\ AdjTypes
  BY DEF Init, SessionTypes, AdjTypes, Status, Event, AdjOut, NoAdjOut
<1>2. SelectionOK /\ SessionTypes /\ AdjTypes => TypeOK
  BY DEF SelectionOK, RibOK, SessionTypes, AdjTypes, TypeOK
<1>3. SessionTypes /\ [Next]_vars => SessionTypes'
  BY SessionTypesStep
<1>4. AdjTypes /\ SelectionOK /\ [Next]_vars => AdjTypes'
  BY AdjTypesStep
<1> QED
  BY <1>1, <1>2, <1>3, <1>4, SelectionAlways, PTL DEF Spec

\* peer->pcount is the number of the peer's usable routes, in every reachable
\* state: no sequence of announcements, removals, restores, scans, graceful
\* restarts and clearings makes bgp_pcount_adjust lose or double a route.
THEOREM PrefixCountCorrect == Spec => []PrefixCount
<1>1. SelectionOK => PrefixCount
  BY DEF SelectionOK, RibOK, CountedOf, PrefixCount, Consistent
<1> QED
  BY <1>1, SelectionAlways, PTL

\* At most one route of a node is selected, and it is on the node's list: the
\* process queue never reaps the selected route without replacing it.
THEOREM SelectionCorrect == Spec => []OneSelected
<1>1. SelectionOK => OneSelected
  BY DEF SelectionOK
<1> QED
  BY <1>1, SelectionAlways, PTL

\* A route that bgp_info_delete marked has its node on the process queue until
\* it is reaped or restored.
THEOREM RemovedIsScheduledCorrect == Spec => []RemovedIsScheduled
<1>1. SelectionOK => RemovedIsScheduled
  BY DEF SelectionOK
<1> QED
  BY <1>1, SelectionAlways, PTL

\* Zebra holds a route for exactly the prefixes with a selected one.
THEOREM FibHasSelectedCorrect == Spec => []FibHasSelected
<1>1. SelectionOK => FibHasSelected
  BY DEF SelectionOK
<1> QED
  BY <1>1, SelectionAlways, PTL

-----------------------------------------------------------------------------
(***************************************************************************)
(* What holds of a node once nothing of it waits on the process queue, and *)
(* what holds of a session once it is cleared.                             *)
(***************************************************************************)

(***************************************************************************)
(* How a step that is not the process queue's changes one route.           *)
(***************************************************************************)

\* The flags of a set are the same before and after.
SameFlags(p, q, flags) == \A g \in flags : Has(rib'[p][q], g) <=> Has(rib[p][q], g)

\* bgp_rib_remove: the route stays, marked, and its node is queued.
Removes(p, q) ==
    /\ rib'[p][q].attr = rib[p][q].attr
    /\ Has(rib'[p][q], "REMOVED")
    /\ SameFlags(p, q, {"SELECTED", "STALE", "ATTR_CHANGED"})
    /\ scheduled'[p] > 0

\* Implicit withdraw.
Replaces(p, q) ==
    /\ status[q] = "Established"
    /\ ~Has(rib'[p][q], "STALE") /\ Has(rib'[p][q], "ATTR_CHANGED")
    /\ SameFlags(p, q, {"SELECTED"})
    /\ scheduled'[p] > 0

\* The same attributes again.
Repeats(p, q) ==
    /\ status[q] = "Established"
    /\ EarlyRepeats \/ scheduled[p] = 0
    /\ rib'[p][q].attr = rib[p][q].attr
    /\ ~Has(rib'[p][q], "STALE") /\ ~Has(rib'[p][q], "ATTR_CHANGED")
    /\ SameFlags(p, q, {"SELECTED", "REMOVED"})
    /\ Usable(rib'[p][q]) <=> Usable(rib[p][q])
    /\ Has(rib[p][q], "STALE") => scheduled'[p] > 0

\* A route where there was none.
Adds(p, q) ==
    /\ status[q] = "Established"
    /\ rib'[p][q].flags \subseteq {"VALID", "COUNTED"}
    /\ scheduled'[p] > 0 \/ "BGP_Stop" \in events'[q]

\* The route of a restarting peer is kept as a stale one.
Keeps(p, q) ==
    /\ p \in clearq[q] /\ q \in nsfWait /\ q \in nsf
    /\ rib'[p][q].attr = rib[p][q].attr
    /\ Has(rib'[p][q], "STALE")
    /\ SameFlags(p, q, {"SELECTED", "REMOVED", "ATTR_CHANGED"})
    /\ Usable(rib'[p][q]) <=> Usable(rib[p][q])

\* The next-hop scan.
Scans(p, q) ==
    /\ rib'[p][q].attr = rib[p][q].attr
    /\ SameFlags(p, q, {"SELECTED", "REMOVED", "STALE", "ATTR_CHANGED"})
    /\ scheduled'[p] > 0

Moves(p, q) ==
    \/ rib'[p][q] = rib[p][q]
    \/ Removes(p, q)
    \/ Replaces(p, q)
    \/ Repeats(p, q)
    \/ Adds(p, q)
    \/ Keeps(p, q)
    \/ Scans(p, q)

\* SetRoute changes one route.
LEMMA SetOne ==
    ASSUME RibOK, NEW p \in Prefix, NEW q \in Peer, NEW y, SetRoute(p, q, y)
    PROVE  /\ rib'[p][q] = y.ri
           /\ \A u \in Prefix, v \in Peer : u # p \/ v # q => rib'[u][v] = rib[u][v]
BY DEF RibOK, SetRoute

\* bgp_process leaves its node on the queue.
LEMMA Queued ==
    ASSUME RibOK, NEW p \in Prefix, bgp_process(p)
    PROVE  scheduled'[p] > 0
BY DEF RibOK, bgp_process

\* bgp_rib_remove moves one route.
LEMMA RemoveMoves ==
    ASSUME RibOK, NEW p \in Prefix, NEW q \in Peer, bgp_rib_remove(p, q)
    PROVE  \A u \in Prefix, v \in Peer : Moves(u, v)
<1> DEFINE x == Route(p, q)
           y == bgp_info_delete(x)
<1>1. x \in Routes /\ Covered(x) /\ x.ri = rib[p][q]
  BY RouteCovered DEF Route
<1>2. /\ y.ri.attr = x.ri.attr /\ Has(y.ri, "REMOVED")
      /\ \A g \in {"SELECTED", "STALE", "ATTR_CHANGED"} : Has(y.ri, g) <=> Has(x.ri, g)
  BY <1>1, Deleted DEF Tracks, Flag
<1>3. SetRoute(p, q, y) /\ bgp_process(p)
  BY DEF bgp_rib_remove
<1> HIDE DEF y, x
<1>4. Removes(p, q)
  BY <1>1, <1>2, <1>3, SetOne, Queued DEF Removes, SameFlags
<1> QED
  BY <1>3, <1>4, SetOne DEF Moves

\* A repeated announcement moves one route.
LEMMA DuplicateMoves ==
    ASSUME RibOK, NEW p \in Prefix, NEW q \in Peer, NEW attr \in Attr,
           bgp_update_duplicate(p, q, attr)
    PROVE  \A u \in Prefix, v \in Peer : Moves(u, v)
<1> DEFINE r == Route(p, q)
           x == bgp_info_unset_flag(r, "ATTR_CHANGED")
           y == bgp_info_unset_flag(x, "STALE")
           kept == {"SELECTED", "REMOVED", "HISTORY", "DAMPED", "VALID"}
<1>1. r \in Routes /\ Covered(r) /\ r.ri = rib[p][q]
  BY RouteCovered DEF Route
<1>2. /\ x \in Routes /\ Covered(x) /\ x.ri.attr = r.ri.attr
      /\ ~Has(x.ri, "ATTR_CHANGED") /\ (Has(x.ri, "STALE") <=> Has(r.ri, "STALE"))
      /\ \A g \in kept : Has(x.ri, g) <=> Has(r.ri, g)
  BY <1>1, FlagUnset DEF Tracks, Flag
<1> HIDE DEF x
<1>3. /\ y.ri.attr = x.ri.attr
      /\ ~Has(y.ri, "ATTR_CHANGED") /\ ~Has(y.ri, "STALE")
      /\ \A g \in kept : Has(y.ri, g) <=> Has(x.ri, g)
  BY <1>2, FlagUnset DEF Tracks, Flag
<1> HIDE DEF y
<1>4. PICK z \in {x, y} : /\ SetRoute(p, q, z)
                          /\ Has(rib[p][q], "STALE") => z = y /\ bgp_process(p)
  BY DEF bgp_update_duplicate, x, y
<1>5. rib'[p][q] = z.ri
  BY <1>4, SetOne
<1>6. /\ rib'[p][q].attr = rib[p][q].attr
      /\ ~Has(rib'[p][q], "STALE") /\ ~Has(rib'[p][q], "ATTR_CHANGED")
      /\ \A g \in kept : Has(rib'[p][q], g) <=> Has(rib[p][q], g)
  BY <1>1, <1>2, <1>3, <1>4, <1>5
<1>7. Usable(rib'[p][q]) <=> Usable(rib[p][q])
  BY <1>6 DEF Usable, Present, HOLDDOWN, UNUSEABLE, Has
<1>8. Has(rib[p][q], "STALE") => scheduled'[p] > 0
  BY <1>4, Queued
<1>9. status[q] = "Established" /\ (EarlyRepeats \/ scheduled[p] = 0)
  BY DEF bgp_update_duplicate, Readable
<1>10. Repeats(p, q)
  BY <1>6, <1>7, <1>8, <1>9 DEF Repeats, SameFlags
<1> QED
  BY <1>4, <1>10, SetOne DEF Moves

\* An implicit withdraw moves one route.
LEMMA ImplicitMoves ==
    ASSUME RibOK, NEW p \in Prefix, NEW q \in Peer, NEW attr \in Attr,
           NEW reachable \in BOOLEAN, bgp_update_implicit(p, q, attr, reachable)
    PROVE  \A u \in Prefix, v \in Peer : Moves(u, v)
<1> DEFINE r == Route(p, q)
           restored == IF Has(r.ri, "REMOVED") THEN bgp_info_restore(r) ELSE r
           fresh == bgp_info_unset_flag(restored, "STALE")
           changed == bgp_info_set_flag(fresh, "ATTR_CHANGED")
           updated == Replaced(r, InPolicy[q][attr])
           y == CheckNexthop(updated, reachable)
<1>1. r \in Routes /\ Covered(r) /\ r.ri = rib[p][q]
  BY RouteCovered DEF Route
<1>2. /\ restored \in Routes /\ Covered(restored)
      /\ Has(restored.ri, "SELECTED") <=> Has(r.ri, "SELECTED")
  BY <1>1, Restored DEF Tracks, Flag
<1> HIDE DEF restored
<1>3. /\ fresh \in Routes /\ Covered(fresh) /\ ~Has(fresh.ri, "STALE")
      /\ Has(fresh.ri, "SELECTED") <=> Has(r.ri, "SELECTED")
  BY <1>2, FlagUnset DEF Tracks, Flag
<1> HIDE DEF fresh
<1>4. /\ changed \in Routes /\ Covered(changed)
      /\ ~Has(changed.ri, "STALE") /\ Has(changed.ri, "ATTR_CHANGED")
      /\ Has(changed.ri, "SELECTED") <=> Has(r.ri, "SELECTED")
  BY <1>3, FlagSet DEF Tracks, Flag
<1>6. InPolicy[q][attr] \in Attr
  BY PolicyAssumption DEF bgp_update_implicit
<1> HIDE DEF changed
<1> HIDE DEF updated
<1>7a. updated = [changed EXCEPT !.ri.attr = InPolicy[q][attr]]
  BY DEF updated, Replaced, changed, fresh, restored
<1>7. /\ updated \in Routes /\ updated.ri.flags = changed.ri.flags
      /\ updated.pc = changed.pc /\ updated.ri.attr = InPolicy[q][attr]
  BY <1>4, <1>6, <1>7a DEF Routes, Info
<1>8. Covered(updated) /\ Present(updated.ri)
  BY <1>4, <1>6, <1>7, NoAttrAssumption DEF Covered, Counts, Has, Present
<1>9. \A g \in {"SELECTED", "STALE", "ATTR_CHANGED"} : Has(y.ri, g) <=> Has(updated.ri, g)
  BY <1>7, <1>8, CheckedNexthop DEF Flag
<1>10. SetRoute(p, q, y) /\ bgp_process(p) /\ status[q] = "Established"
  BY DEF bgp_update_implicit, updated, Readable
<1>11. /\ ~Has(y.ri, "STALE") /\ Has(y.ri, "ATTR_CHANGED")
       /\ Has(y.ri, "SELECTED") <=> Has(rib[p][q], "SELECTED")
  BY <1>1, <1>4, <1>7, <1>9 DEF Has
<1> HIDE DEF y
<1>12. Replaces(p, q)
  BY <1>10, <1>11, SetOne, Queued DEF Replaces, SameFlags
<1> QED
  BY <1>10, <1>12, SetOne DEF Moves

\* A new route moves one route.
LEMMA NewMoves ==
    ASSUME RibOK, SessionTypes, NEW p \in Prefix, NEW q \in Peer, NEW attr \in Attr,
           NEW reachable \in BOOLEAN, bgp_update_new(p, q, attr, reachable)
    PROVE  \A u \in Prefix, v \in Peer : Moves(u, v)
<1> DEFINE new == [attr |-> InPolicy[q][attr], flags |-> {}]
           x == [ri |-> new, pc |-> pcount[q]]
           y == CheckNexthop(x, reachable)
<1>1. InPolicy[q][attr] \in Attr
  BY PolicyAssumption DEF bgp_update_new
<1>2. x \in Routes /\ Covered(x) /\ Present(x.ri) /\ \A g : ~Has(x.ri, g)
  BY <1>1, NoAttrAssumption DEF RibOK, Routes, Info, Covered, Counts, Has, Present
<1>3. y \in Routes /\ \A g \in Flag \ {"COUNTED", "VALID"} : ~Has(y.ri, g)
  BY <1>2, CheckedNexthop DEF Tracks
<1>4. /\ SetRoute(p, q, y) /\ status[q] = "Established"
      /\ \/ bgp_process(p)
         \/ events' = [events EXCEPT ![q] = @ \cup {"BGP_Stop"}]
  BY DEF bgp_update_new, Readable
<1> HIDE DEF y
<1>5. y.ri.flags \subseteq {"VALID", "COUNTED"}
  BY <1>3 DEF Routes, Info, Has
<1>6. scheduled'[p] > 0 \/ "BGP_Stop" \in events'[q]
  <2>1. CASE bgp_process(p)
    BY <2>1, Queued
  <2>2. CASE events' = [events EXCEPT ![q] = @ \cup {"BGP_Stop"}]
    BY <2>2 DEF SessionTypes
  <2> QED
    BY <1>4, <2>1, <2>2
<1>7. Adds(p, q)
  BY <1>4, <1>5, <1>6, SetOne DEF Adds
<1> QED
  BY <1>4, <1>7, SetOne DEF Moves

\* bgp_clear_stale_route removes the stale routes of one peer: none of them is
\* left that is not marked.
LEMMA ClearStaleMoves ==
    ASSUME RibOK, NEW q \in Peer, bgp_clear_stale_route(q)
    PROVE  /\ \A u \in Prefix, v \in Peer : rib'[u][v] = rib[u][v] \/ Removes(u, v)
           /\ \A u \in Prefix : Has(rib'[u][q], "STALE") => Has(rib'[u][q], "REMOVED")
<1> DEFINE gone == StaleNodes(q)
           y(p) == bgp_info_delete(Route(p, q))
<1>1. gone \subseteq Prefix
  BY DEF StaleNodes
<1>2. ASSUME NEW p \in gone
      PROVE  /\ y(p).ri.attr = rib[p][q].attr /\ Has(y(p).ri, "REMOVED")
             /\ \A g \in {"SELECTED", "STALE", "ATTR_CHANGED"} :
                    Has(y(p).ri, g) <=> Has(rib[p][q], g)
  <2>1. Route(p, q) \in Routes /\ Covered(Route(p, q)) /\ Route(p, q).ri = rib[p][q]
    BY <1>1, RouteCovered DEF Route
  <2> QED
    BY <2>1, Deleted DEF Tracks, Flag
<1>3. rib' = [p \in Prefix |-> IF p \in gone THEN [rib[p] EXCEPT ![q] = y(p).ri]
                                             ELSE rib[p]]
  BY DEF bgp_clear_stale_route
<1>4. scheduled' = [p \in Prefix |-> IF p \in gone THEN scheduled[p] + 1 ELSE scheduled[p]]
  BY DEF bgp_clear_stale_route
<1>5. \A p \in Prefix : Has(rib[p][q], "STALE") => p \in gone
  BY DEF RibOK, Consistent, Has, StaleNodes
<1> HIDE DEF gone, y
<1>6. /\ \A p \in gone : rib'[p][q] = y(p).ri
      /\ \A p \in Prefix, v \in Peer : p \notin gone \/ v # q => rib'[p][v] = rib[p][v]
  BY <1>1, <1>3 DEF RibOK
<1>7. \A p \in gone : scheduled'[p] > 0
  BY <1>1, <1>4 DEF RibOK
<1>8. \A p \in gone : Removes(p, q)
  BY <1>2, <1>6, <1>7 DEF Removes, SameFlags
<1> QED
  BY <1>5, <1>6, <1>8 DEF Removes

\* One item of the clear queue moves one route, and one that is still in use
\* afterwards is the stale one of a peer that is waited for.
LEMMA ClearNodeMoves ==
    ASSUME RibOK, NEW p \in Prefix, NEW q \in Peer, bgp_clear_route_node(p, q)
    PROVE  /\ \A u \in Prefix, v \in Peer : Moves(u, v)
           /\ Present(rib'[p][q]) /\ ~Has(rib'[p][q], "REMOVED")
                => Has(rib'[p][q], "STALE") /\ q \in nsfWait /\ q \in nsf
<1> DEFINE x == Route(p, q)
           y == bgp_info_set_flag(x, "STALE")
           kept == {"SELECTED", "ATTR_CHANGED", "REMOVED", "HISTORY", "DAMPED", "VALID"}
<1>1. CASE ~Present(rib[p][q])
  <2>1. rib' = rib
    BY <1>1 DEF bgp_clear_route_node, ribVars
  <2> QED
    BY <1>1, <2>1 DEF Moves
<1>2. CASE bgp_rib_remove(p, q)
  <2>1. Has(rib'[p][q], "REMOVED")
    <3>1. x \in Routes /\ Covered(x)
      BY RouteCovered
    <3>2. Has(bgp_info_delete(x).ri, "REMOVED")
      BY <3>1, Deleted
    <3> QED
      BY <1>2, <3>2, SetOne DEF bgp_rib_remove
  <2> QED
    BY <1>2, <2>1, RemoveMoves
<1>3. CASE KeepStale(p, q) /\ SetRoute(p, q, y)
  <2>1. x \in Routes /\ Covered(x) /\ x.ri = rib[p][q]
    BY RouteCovered DEF Route
  <2>2. /\ y.ri.attr = x.ri.attr /\ Has(y.ri, "STALE")
        /\ \A g \in kept : Has(y.ri, g) <=> Has(x.ri, g)
    BY <2>1, FlagSet DEF Tracks, Flag
  <2> HIDE DEF y, x
  <2>3. rib'[p][q] = y.ri
    BY <1>3, SetOne
  <2>4. Usable(rib'[p][q]) <=> Usable(rib[p][q])
    BY <2>1, <2>2, <2>3 DEF Usable, Present, HOLDDOWN, UNUSEABLE, Has
  <2>5. p \in clearq[q] /\ q \in nsfWait /\ q \in nsf
    BY <1>3 DEF bgp_clear_route_node, KeepStale
  <2>6. Keeps(p, q)
    BY <2>1, <2>2, <2>3, <2>4, <2>5 DEF Keeps, SameFlags
  <2> QED
    BY <1>3, <2>2, <2>3, <2>5, <2>6, SetOne DEF Moves
<1> QED
  BY <1>1, <1>2, <1>3 DEF bgp_clear_route_node

\* The scan moves routes of nodes that it queues.
LEMMA ScanMoves ==
    ASSUME RibOK, NEW unreachable, NEW changed, bgp_scan(unreachable, changed)
    PROVE  \A u \in Prefix, v \in Peer : Moves(u, v)
<1> SUFFICES ASSUME NEW p \in Prefix, NEW q \in Peer
             PROVE  Moves(p, q)
  OBVIOUS
<1> DEFINE z == Scanned(p, q, unreachable, changed)
<1>1. rib'[p][q] = z.ri
  BY DEF bgp_scan
<1>2. CASE ~Present(rib[p][q])
  <2>1. z = Route(p, q)
    BY <1>2 DEF Scanned, Route
  <2> QED
    BY <1>1, <2>1 DEF Moves, Route
<1>3. CASE Present(rib[p][q])
  <2>1. /\ z.ri.attr = rib[p][q].attr
        /\ \A g \in {"REMOVED", "SELECTED", "STALE", "ATTR_CHANGED"} :
               Has(z.ri, g) <=> Has(rib[p][q], g)
    BY ScannedRoute
  <2>2. Node(p)
    BY <1>3 DEF Node
  <2>3. scheduled'[p] = scheduled[p] + 1
    BY <2>2 DEF bgp_scan
  <2>4. scheduled'[p] > 0
    BY <2>3 DEF RibOK
  <2> HIDE DEF z
  <2> QED
    BY <1>1, <2>1, <2>4 DEF Moves, Scans, SameFlags
<1> QED
  BY <1>2, <1>3

\* A step of BgpRib that is not the process queue's moves routes in one of the
\* seven ways.
LEMMA MoveStep ==
    ASSUME RibOK, SessionTypes, [Next]_vars
    PROVE  \/ \E p \in Prefix : bgp_process_main(p)
           \/ /\ RibOK' /\ Kept /\ fib' = fib
              /\ \A u \in Prefix, v \in Peer : Moves(u, v)
<1> DEFINE M == \A u \in Prefix, v \in Peer : Moves(u, v)
<1>0. ASSUME UNCHANGED ribVars PROVE M
  BY <1>0 DEF ribVars, Moves
<1>s. ASSUME NEW q \in Peer, bgp_clear_stale_route(q) PROVE M
  BY <1>s, ClearStaleMoves DEF Moves
<1> HIDE DEF M
<1>1. ASSUME UNCHANGED vars PROVE M
  BY <1>0, <1>1 DEF vars
<1>2. ASSUME NEW p \in Prefix, NEW q \in Peer, Update(p, q) PROVE M
  <2>1. CASE bgp_withdraw(p, q)
    BY <1>0, <2>1, RemoveMoves DEF bgp_withdraw, M
  <2>2. ASSUME NEW attr \in Attr, bgp_update_filtered(p, q, attr) PROVE M
    BY <1>0, <2>2, RemoveMoves DEF bgp_update_filtered, M
  <2>3. ASSUME NEW attr \in Attr, bgp_update_duplicate(p, q, attr) PROVE M
    BY <2>3, DuplicateMoves DEF M
  <2>4. ASSUME NEW attr \in Attr, NEW reachable \in Reachable(q),
               \/ bgp_update_implicit(p, q, attr, reachable)
               \/ bgp_update_new(p, q, attr, reachable)
        PROVE  M
    <3>1. reachable \in BOOLEAN
      BY DEF Reachable
    <3> QED
      BY <2>4, <3>1, ImplicitMoves, NewMoves DEF M
  <2> QED
    BY <1>2, <2>1, <2>2, <2>3, <2>4 DEF Update
<1>3. ASSUME NEW q \in Peer, Session(q) PROVE M
  <2>1. ASSUME NEW capable, NEW preserved, bgp_establish(q, capable, preserved) PROVE M
    BY <1>0, <1>s, <2>1 DEF bgp_establish
  <2>2. ASSUME \/ bgp_open_send(q) \/ bgp_stop_unestablished(q)
               \/ bgp_announce_route(q) \/ \E closed \in BOOLEAN : session_lost(q, closed)
               \/ bgp_stop(q) \/ bgp_clearing_completed(q) \/ peer_clear(q)
        PROVE  UNCHANGED ribVars
    BY <2>2 DEF bgp_open_send, bgp_stop_unestablished, bgp_announce_route, session_lost,
                bgp_stop, bgp_clearing_completed, peer_clear
  <2> QED
    BY <1>0, <1>3, <2>1, <2>2 DEF Session
<1>4. ASSUME NEW q \in Peer, GracefulRestart(q) PROVE M
  BY <1>0, <1>s, <1>4 DEF GracefulRestart, bgp_graceful_restart_timer_expire,
                          bgp_graceful_stale_timer_expire, bgp_update_receive_eor
<1>5. ASSUME NEW p \in Prefix, NEW q \in Peer,
             \/ bgp_clear_route_node(p, q)
             \/ bgp_withdraw_packet(p, q)
             \/ bgp_update_packet(p, q)
      PROVE  M
  <2>1. bgp_clear_route_node(p, q) \/ UNCHANGED ribVars
    BY <1>5 DEF bgp_withdraw_packet, bgp_update_packet
  <2> QED
    BY <1>0, <2>1, ClearNodeMoves DEF M
<1>6. ASSUME Scan PROVE M
  <2>1. PICK unreachable, changed : bgp_scan(unreachable, changed)
    BY <1>6 DEF Scan
  <2> QED
    BY <2>1, ScanMoves DEF M
<1>7. M \/ \E p \in Prefix : bgp_process_main(p)
  BY <1>1, <1>2, <1>3, <1>4, <1>5, <1>6 DEF Next
<1>8. (RibOK' /\ Kept /\ fib' = fib) \/ \E p \in Prefix : bgp_process_main(p)
  BY RibStep
<1> QED
  BY <1>7, <1>8 DEF M

(***************************************************************************)
(* The end of a session.                                                   *)
(***************************************************************************)

\* A BGP_Stop waits only in Established, the clear queue is in use only in
\* Clearing and its completion event comes after its last item; a peer that is
\* waited for preserves its forwarding state.
SessionOK ==
    \A q \in Peer :
        /\ "BGP_Stop" \in events[q] => status[q] = "Established"
        /\ "Clearing_Completed" \in events[q] => status[q] = "Clearing" /\ clearq[q] = {}
        /\ clearq[q] # {} => status[q] = "Clearing"
        /\ q \in nsfWait => q \in nsf

\* The clearing has visited, or will visit, every route of a session that is
\* not Established; the ones it leaves in use are stale ones of a peer that is
\* waited for.
VisitedOK ==
    \A p \in Prefix, q \in Peer :
        /\ status[q] # "Established" /\ p \notin clearq[q]
        /\ Present(rib[p][q]) /\ ~Has(rib[p][q], "REMOVED")
        => Has(rib[p][q], "STALE") /\ q \in nsfWait

\* The stale timer of a peer that is waited for runs while its routes are
\* cleared, if it is longer than the clearing.
TimedOK ==
    /\ \A q \in Peer : q \in nsfWait /\ clearq[q] # {} => q \in staleTimer
    /\ StaleIsTimed

\* SessionOK is preserved.
LEMMA SessionStep ==
    ASSUME SessionTypes, SessionOK, [Next]_vars
    PROVE  SessionOK'
<1> USE DEF SessionTypes, SessionOK
<1>0. ASSUME UNCHANGED <<status, clearq, events, nsf, nsfWait>> PROVE SessionOK'
  BY <1>0
<1>1. CASE UNCHANGED vars
  BY <1>1 DEF vars, grVars
<1>2. ASSUME NEW p \in Prefix, bgp_process_main(p) PROVE SessionOK'
  BY <1>0, <1>2 DEF bgp_process_main, grVars
<1>3. ASSUME NEW p \in Prefix, NEW q \in Peer, Update(p, q) PROVE SessionOK'
  <2>1. ASSUME NEW attr \in Attr, NEW reachable, bgp_update_new(p, q, attr, reachable)
        PROVE  SessionOK'
    <3>1. /\ events' = events \/ events' = [events EXCEPT ![q] = @ \cup {"BGP_Stop"}]
          /\ UNCHANGED <<status, clearq, nsf, nsfWait>>
          /\ status[q] = "Established"
      BY <2>1 DEF bgp_update_new, grVars, Readable
    <3> QED
      BY <3>1
  <2> QED
    BY <1>0, <1>3, <2>1 DEF Update, bgp_withdraw, bgp_update_filtered, bgp_update_duplicate,
                      bgp_update_implicit, grVars
<1>4. ASSUME NEW q \in Peer, Session(q) PROVE SessionOK'
  <2>1. CASE bgp_open_send(q)
    BY <2>1 DEF bgp_open_send, grVars
  <2>2. CASE bgp_stop_unestablished(q) \/ bgp_clearing_completed(q)
    BY <2>2 DEF bgp_stop_unestablished, bgp_clearing_completed, grVars
  <2>3. ASSUME NEW capable, NEW preserved, bgp_establish(q, capable, preserved)
        PROVE  SessionOK'
    BY <2>3 DEF bgp_establish
  <2>4. CASE bgp_announce_route(q) \/ peer_clear(q)
    BY <1>0, <2>4 DEF bgp_announce_route, peer_clear, grVars
  <2>5. ASSUME NEW closed \in BOOLEAN, session_lost(q, closed) PROVE SessionOK'
    BY <2>5 DEF session_lost
  <2>6. CASE bgp_stop(q)
    BY <2>6 DEF bgp_stop, bgp_clear_node_complete
  <2> QED
    BY <1>4, <2>1, <2>2, <2>3, <2>4, <2>5, <2>6 DEF Session
<1>5. ASSUME NEW q \in Peer, GracefulRestart(q) PROVE SessionOK'
  BY <1>5 DEF GracefulRestart, bgp_graceful_restart_timer_expire,
              bgp_graceful_stale_timer_expire, bgp_update_receive_eor, grVars
<1>6. ASSUME NEW p \in Prefix, NEW q \in Peer, bgp_clear_route_node(p, q)
      PROVE  SessionOK'
  BY <1>6 DEF bgp_clear_route_node, bgp_clear_node_complete, grVars
<1>7. ASSUME NEW p \in Prefix, NEW q \in Peer,
             bgp_withdraw_packet(p, q) \/ bgp_update_packet(p, q)
      PROVE  SessionOK'
  BY <1>0, <1>7 DEF bgp_withdraw_packet, bgp_update_packet, grVars
<1>8. CASE Scan
  BY <1>8 DEF Scan, bgp_scan, OverLimit, grVars
<1> QED
  BY <1>1, <1>2, <1>3, <1>4, <1>5, <1>6, <1>7, <1>8 DEF Next

\* A route that is there and not marked REMOVED after a step was so before,
\* unless the session is Established; it stays stale, and becomes stale only
\* when the clear queue keeps it.
LEMMA UseStep ==
    ASSUME SelectionOK, SessionTypes, [Next]_vars, NEW p \in Prefix, NEW q \in Peer,
           Present(rib'[p][q]), ~Has(rib'[p][q], "REMOVED")
    PROVE  /\ status[q] # "Established"
                => /\ Present(rib[p][q]) /\ ~Has(rib[p][q], "REMOVED")
                   /\ Has(rib[p][q], "STALE") => Has(rib'[p][q], "STALE")
           /\ Has(rib'[p][q], "STALE")
                => \/ Has(rib[p][q], "STALE") /\ ~Has(rib[p][q], "REMOVED")
                   \/ p \in clearq[q] /\ q \in nsfWait /\ q \in nsf
<1>0. RibOK /\ OneSelected
  BY DEF SelectionOK
<1>1. ASSUME NEW u \in Prefix, bgp_process_main(u)
      PROVE  /\ rib'[p][q].attr = rib[p][q].attr
             /\ \A g \in {"STALE", "REMOVED"} : Has(rib'[p][q], g) <=> Has(rib[p][q], g)
  <2>1. PICK new \in new_select(u) :
            bgp_process_main_same(u, new) \/ bgp_process_main_select(u, new)
    BY <1>1 DEF bgp_process_main
  <2>2. Processed(u, new) /\ \A v \in Prefix \ {u} : rib'[v] = rib[v]
    BY <1>0, <1>1, <2>1, ProcessNode
  <2>3. ~Present(NoInfo)
    BY DEF NoInfo, Present
  <2> QED
    BY <2>2, <2>3 DEF Processed, Flag
<1>2. CASE \E u \in Prefix : bgp_process_main(u)
  BY <1>1, <1>2 DEF Present
<1>3. CASE Moves(p, q)
  <2>1. CASE rib'[p][q] = rib[p][q]
    BY <2>1
  <2>2. CASE Removes(p, q)
    BY <2>2 DEF Removes
  <2>3. CASE Replaces(p, q) \/ Repeats(p, q)
    BY <2>3 DEF Replaces, Repeats
  <2>4. CASE Adds(p, q)
    BY <2>4 DEF Adds, Has
  <2>5. CASE Keeps(p, q)
    BY <2>5 DEF Keeps, SameFlags, Present
  <2>6. CASE Scans(p, q)
    BY <2>6 DEF Scans, SameFlags, Present
  <2> QED
    BY <1>3, <2>1, <2>2, <2>3, <2>4, <2>5, <2>6 DEF Moves
<1> QED
  BY <1>0, <1>2, <1>3, MoveStep

\* The steps that change no session.
Elsewhere ==
    \/ \E p \in Prefix : bgp_process_main(p)
    \/ \E p \in Prefix, q \in Peer :
          Update(p, q) \/ bgp_withdraw_packet(p, q) \/ bgp_update_packet(p, q)
    \/ \E q \in Peer : bgp_announce_route(q) \/ peer_clear(q) \/ bgp_update_receive_eor(q)
    \/ Scan

\* They leave the variables of the sessions alone, but for the events.
LEMMA SessionsKept ==
    ASSUME Elsewhere
    PROVE  UNCHANGED <<status, clearq, nsf, nsfWait, staleTimer>>
<1>1. CASE \E p \in Prefix : bgp_process_main(p)
  BY <1>1 DEF bgp_process_main, grVars
<1>2. CASE \E p \in Prefix, q \in Peer : Update(p, q)
  <2>1. PICK p \in Prefix, q \in Peer : Update(p, q)
    BY <1>2
  <2>2. CASE bgp_withdraw(p, q)
    BY <2>2 DEF bgp_withdraw, grVars
  <2>3. ASSUME NEW attr \in Attr, NEW reachable,
               \/ bgp_update_filtered(p, q, attr) \/ bgp_update_duplicate(p, q, attr)
               \/ bgp_update_implicit(p, q, attr, reachable)
               \/ bgp_update_new(p, q, attr, reachable)
        PROVE  UNCHANGED <<status, clearq, nsf, nsfWait, staleTimer>>
    BY <2>3 DEF bgp_update_filtered, bgp_update_duplicate, bgp_update_implicit,
                bgp_update_new, grVars
  <2> QED
    BY <2>1, <2>2, <2>3 DEF Update
<1>3. CASE \E p \in Prefix, q \in Peer : bgp_withdraw_packet(p, q) \/ bgp_update_packet(p, q)
  BY <1>3 DEF bgp_withdraw_packet, bgp_update_packet, grVars
<1>4. CASE \E q \in Peer : bgp_announce_route(q) \/ peer_clear(q) \/ bgp_update_receive_eor(q)
  BY <1>4 DEF bgp_announce_route, peer_clear, bgp_update_receive_eor, grVars
<1>5. CASE Scan
  BY <1>5 DEF Scan, bgp_scan, grVars
<1> QED
  BY <1>1, <1>2, <1>3, <1>4, <1>5 DEF Elsewhere

\* VisitedOK is preserved: no route slips past the clearing.
LEMMA VisitedStep ==
    ASSUME SelectionOK, SessionTypes, SessionOK, VisitedOK, [Next]_vars
    PROVE  VisitedOK'
<1> SUFFICES ASSUME NEW p \in Prefix, NEW q \in Peer,
                    status'[q] # "Established", p \notin clearq'[q],
                    Present(rib'[p][q]), ~Has(rib'[p][q], "REMOVED")
             PROVE  Has(rib'[p][q], "STALE") /\ q \in nsfWait'
  BY DEF VisitedOK
<1>0. RibOK
  BY DEF SelectionOK
<1>u. status[q] # "Established"
        => /\ Present(rib[p][q]) /\ ~Has(rib[p][q], "REMOVED")
           /\ Has(rib[p][q], "STALE") => Has(rib'[p][q], "STALE")
  BY UseStep
<1>v. ASSUME status[q] # "Established", p \notin clearq[q]
      PROVE  Has(rib'[p][q], "STALE") /\ q \in nsfWait
  BY <1>u, <1>v DEF VisitedOK
<1>w. ASSUME UNCHANGED <<status, clearq, nsfWait>>
      PROVE  Has(rib'[p][q], "STALE") /\ q \in nsfWait'
  BY <1>v, <1>w
<1> DEFINE Goal == Has(rib'[p][q], "STALE") /\ q \in nsfWait'
<1> HIDE DEF Goal
<1>1. CASE UNCHANGED vars
  BY <1>1, <1>w DEF vars, grVars, Goal
<1>2. ASSUME Elsewhere PROVE Goal
  BY <1>2, <1>w, SessionsKept DEF Goal
<1>3. ASSUME NEW v \in Peer, Session(v) PROVE Goal
  <2>1. CASE bgp_open_send(v) \/ bgp_stop_unestablished(v) \/ bgp_clearing_completed(v)
    <3>1. UNCHANGED <<clearq, nsfWait>> /\ status[q] # "Established"
      BY <2>1 DEF bgp_open_send, bgp_stop_unestablished, bgp_clearing_completed, grVars,
                  SessionTypes
    <3> QED
      BY <1>v, <3>1 DEF Goal
  <2>2. ASSUME NEW capable, NEW preserved, bgp_establish(v, capable, preserved)
        PROVE  Goal
    <3>1. /\ clearq' = clearq /\ nsfWait' = nsfWait \ {v}
          /\ v # q /\ status'[q] = status[q]
      BY <2>2 DEF bgp_establish, SessionTypes
    <3> QED
      BY <1>v, <3>1 DEF Goal
  <2>3. ASSUME NEW closed \in BOOLEAN, session_lost(v, closed) PROVE Goal
    BY <2>3, <1>v DEF session_lost, Goal
  <2>4. CASE bgp_stop(v)
    <3>1. nsfWait' = nsfWait /\ rib' = rib
      BY <2>4 DEF bgp_stop, ribVars
    <3>2. v # q /\ status'[q] = status[q] /\ clearq'[q] = clearq[q]
      BY <2>4, <3>1 DEF bgp_stop, SessionTypes
    <3> QED
      BY <1>v, <3>1, <3>2 DEF Goal
  <2>5. CASE bgp_announce_route(v) \/ peer_clear(v)
    BY <1>2, <2>5 DEF Elsewhere
  <2> QED
    BY <1>3, <2>1, <2>2, <2>3, <2>4, <2>5 DEF Session
<1>4. ASSUME NEW v \in Peer, GracefulRestart(v) PROVE Goal
  <2>1. CASE bgp_graceful_restart_timer_expire(v)
    <3>1. /\ status' = status /\ clearq' = clearq /\ nsfWait' = nsfWait \ {v}
          /\ v \in nsfWait
      BY <2>1 DEF bgp_graceful_restart_timer_expire
    <3>2. v # q
      <4>1. v \in nsf /\ bgp_clear_stale_route(v)
        BY <2>1, <3>1 DEF bgp_graceful_restart_timer_expire, SessionOK
      <4>2. Has(rib'[p][v], "STALE") => Has(rib'[p][v], "REMOVED")
        BY <1>0, <4>1, ClearStaleMoves
      <4> QED
        BY <1>v, <3>1, <4>2
    <3> QED
      BY <1>v, <3>1, <3>2 DEF Goal
  <2>2. CASE bgp_graceful_stale_timer_expire(v)
    BY <1>w, <2>2 DEF bgp_graceful_stale_timer_expire, Goal
  <2>3. CASE bgp_update_receive_eor(v)
    BY <1>2, <2>3 DEF Elsewhere
  <2> QED
    BY <1>4, <2>1, <2>2, <2>3 DEF GracefulRestart
<1>5. ASSUME NEW u \in Prefix, NEW v \in Peer, bgp_clear_route_node(u, v) PROVE Goal
  <2>1. /\ status' = status /\ nsfWait' = nsfWait
        /\ clearq' = [clearq EXCEPT ![v] = @ \ {u}] /\ u \in clearq[v]
    BY <1>5 DEF bgp_clear_route_node, grVars
  <2>2. CASE u = p /\ v = q
    BY <1>0, <1>5, <2>1, <2>2, ClearNodeMoves DEF Goal
  <2>3. CASE u # p \/ v # q
    <3>1. p \notin clearq[q]
      BY <2>1, <2>3 DEF SessionTypes
    <3> QED
      BY <1>v, <2>1, <3>1 DEF Goal
  <2> QED
    BY <2>2, <2>3
<1> QED
  BY <1>1, <1>2, <1>3, <1>4, <1>5 DEF Next, Elsewhere, Goal

\* TimedOK is preserved when the clearing outlasts no stale timer.
LEMMA TimedStep ==
    ASSUME ~SlowClearing, SelectionOK, SessionTypes, SessionOK, TimedOK, [Next]_vars
    PROVE  TimedOK'
<1>0. RibOK
  BY DEF SelectionOK
<1>p. \A p \in Prefix, q \in Peer : Has(rib[p][q], "STALE") => Present(rib[p][q])
  BY <1>0 DEF RibOK, Consistent, Has
<1>p2. \A p \in Prefix, q \in Peer : Has(rib'[p][q], "STALE") => Present(rib'[p][q])
  <2>1. RibOK'
    BY SelectionStep DEF SelectionOK
  <2> QED
    BY <2>1 DEF RibOK, Consistent, Has
<1> DEFINE Timed(p, q) == (q \in nsf /\ q \in staleTimer) \/ p \in clearq[q]
           Kept2(p, q) == Has(rib'[p][q], "STALE") /\ ~Has(rib'[p][q], "REMOVED")
<1>u. ASSUME NEW p \in Prefix, NEW q \in Peer, Kept2(p, q) PROVE Timed(p, q)
  BY <1>u, <1>p2, UseStep DEF TimedOK, StaleIsTimed
<1>w. ASSUME UNCHANGED <<clearq, nsf, nsfWait, staleTimer>> PROVE TimedOK'
  BY <1>u, <1>w DEF TimedOK, StaleIsTimed
<1>1. CASE UNCHANGED vars
  BY <1>1, <1>w DEF vars, grVars
<1>2. ASSUME Elsewhere PROVE TimedOK'
  BY <1>2, <1>w, SessionsKept
<1>3. ASSUME NEW v \in Peer, Session(v) PROVE TimedOK'
  <2>1. CASE bgp_open_send(v) \/ bgp_stop_unestablished(v) \/ bgp_clearing_completed(v)
    BY <1>w, <2>1 DEF bgp_open_send, bgp_stop_unestablished, bgp_clearing_completed, grVars
  <2>2. ASSUME NEW capable, NEW preserved, bgp_establish(v, capable, preserved)
        PROVE  TimedOK'
    <3>1. /\ clearq' = clearq /\ nsfWait' = nsfWait \ {v}
          /\ clearq[v] = {}
          /\ \A q \in Peer \ {v} : /\ q \in nsf' <=> q \in nsf
                                   /\ q \in staleTimer' <=> q \in staleTimer
      BY <2>2 DEF bgp_establish, SessionTypes, SessionOK
    <3>2. ASSUME NEW p \in Prefix, Kept2(p, v)
          PROVE  v \in nsf' /\ v \in staleTimer'
      <4>1. v \in nsf /\ v \in staleTimer
        BY <1>u, <3>1, <3>2
      <4>2. CASE capable /\ preserved
        BY <2>2, <4>1, <4>2 DEF bgp_establish
      <4>3. CASE ~(capable /\ preserved)
        BY <1>0, <2>2, <3>2, <4>1, <4>3, ClearStaleMoves DEF bgp_establish
      <4> QED
        BY <4>2, <4>3
    <3> QED
      BY <1>u, <3>1, <3>2 DEF TimedOK, StaleIsTimed
  <2>3. ASSUME NEW closed \in BOOLEAN, session_lost(v, closed) PROVE TimedOK'
    <3>1. /\ UNCHANGED <<clearq, nsf, staleTimer>> /\ clearq[v] = {}
          /\ nsfWait' \subseteq nsfWait \cup {v}
      BY <2>3 DEF session_lost, SessionOK
    <3> QED
      BY <1>u, <3>1 DEF TimedOK, StaleIsTimed
  <2>4. CASE bgp_stop(v)
    <3>1. /\ rib' = rib /\ nsfWait' = nsfWait
          /\ nsf' = IF v \in nsfWait THEN nsf ELSE nsf \ {v}
          /\ staleTimer' = IF v \in nsfWait THEN staleTimer \cup {v} ELSE staleTimer \ {v}
          /\ clearq' = [clearq EXCEPT ![v] = @ \cup {p \in Prefix : Present(rib[p][v])}]
      BY <2>4 DEF bgp_stop, ribVars, StaleTimerOnStop
    <3>2. \A q \in Peer \ {v} : clearq'[q] = clearq[q]
      BY <3>1 DEF SessionTypes
    <3>3. \A p \in Prefix : Kept2(p, v) => p \in clearq'[v]
      BY <1>p, <3>1 DEF SessionTypes
    <3> QED
      BY <1>u, <3>1, <3>2, <3>3 DEF TimedOK, StaleIsTimed
  <2>5. CASE bgp_announce_route(v) \/ peer_clear(v)
    BY <1>2, <2>5 DEF Elsewhere
  <2> QED
    BY <1>3, <2>1, <2>2, <2>3, <2>4, <2>5 DEF Session
<1>4. ASSUME NEW v \in Peer, GracefulRestart(v) PROVE TimedOK'
  <2>1. CASE bgp_graceful_restart_timer_expire(v)
    <3>1. /\ UNCHANGED <<clearq, nsf>> /\ nsfWait' = nsfWait \ {v}
          /\ staleTimer' = staleTimer \ {v} /\ v \in nsf /\ bgp_clear_stale_route(v)
      BY <2>1 DEF bgp_graceful_restart_timer_expire, SessionOK
    <3>2. \A p \in Prefix : ~Kept2(p, v)
      BY <1>0, <3>1, ClearStaleMoves
    <3> QED
      BY <1>u, <3>1, <3>2 DEF TimedOK, StaleIsTimed
  <2>2. CASE bgp_graceful_stale_timer_expire(v)
    <3>1. /\ UNCHANGED <<clearq, nsf, nsfWait>> /\ staleTimer' = staleTimer \ {v}
          /\ clearq[v] = {} /\ (v \in nsf => bgp_clear_stale_route(v))
      BY <2>2 DEF bgp_graceful_stale_timer_expire
    <3>2. \A p \in Prefix : ~Kept2(p, v)
      BY <1>0, <1>u, <3>1, ClearStaleMoves
    <3> QED
      BY <1>u, <3>1, <3>2 DEF TimedOK, StaleIsTimed
  <2>3. CASE bgp_update_receive_eor(v)
    BY <1>2, <2>3 DEF Elsewhere
  <2> QED
    BY <1>4, <2>1, <2>2, <2>3 DEF GracefulRestart
<1>5. ASSUME NEW u \in Prefix, NEW v \in Peer, bgp_clear_route_node(u, v) PROVE TimedOK'
  <2>1. /\ UNCHANGED <<nsf, nsfWait, staleTimer>>
        /\ clearq' = [clearq EXCEPT ![v] = @ \ {u}] /\ u \in clearq[v]
    BY <1>5 DEF bgp_clear_route_node, grVars
  <2>2. /\ clearq'[v] = clearq[v] \ {u}
        /\ \A q \in Peer \ {v} : clearq'[q] = clearq[q]
    BY <2>1 DEF SessionTypes
  <2>3. Kept2(u, v) => v \in nsfWait /\ v \in nsf
    BY <1>0, <1>5, <1>p2, ClearNodeMoves
  <2> QED
    BY <1>u, <2>1, <2>2, <2>3 DEF TimedOK, StaleIsTimed
<1> QED
  BY <1>1, <1>2, <1>3, <1>4, <1>5 DEF Next, Elsewhere

(***************************************************************************)
(* The selection of a node that waits for nothing.                         *)
(***************************************************************************)

\* A selected route that cannot be used has its node on the process queue.
UsedOK ==
    \A p \in Prefix, q \in Peer :
        Has(rib[p][q], "SELECTED") /\ ~Usable(rib[p][q]) => scheduled[p] > 0

\* A usable route of a node without a selected one is waited for, or it belongs
\* to a peer that is being stopped, or was stopped and restarts.
WaitingOK ==
    \A p \in Prefix, q \in Peer :
        /\ Usable(rib[p][q])
        /\ \A r \in Peer : ~Has(rib[p][r], "SELECTED")
        => \/ scheduled[p] > 0
           \/ "BGP_Stop" \in events[q] \/ p \in clearq[q]
           \/ Has(rib[p][q], "STALE")

\* The selected route is the one zebra has, unless it is flagged as changed and
\* its node is on the process queue.
FibOK ==
    \A p \in Prefix, q \in Peer :
        Has(rib[p][q], "SELECTED")
            => \/ Has(rib[p][q], "ATTR_CHANGED") /\ scheduled[p] > 0
               \/ ~Has(rib[p][q], "ATTR_CHANGED") /\ fib[p] = rib[p][q].attr

\* What a run of the process queue leaves: the selected route of the node is
\* usable and not flagged, and the others of the node were as usable before.
LEMMA ProcessLeaves ==
    ASSUME SelectionOK, NEW p \in Prefix, bgp_process_main(p)
    PROVE  \E new \in Peer \cup {NoPeer} :
              /\ bgp_process_main_same(p, new) \/ bgp_process_main_select(p, new)
              /\ \A u \in Prefix \ {p} : /\ rib'[u] = rib[u] /\ fib'[u] = fib[u]
                                         /\ scheduled'[u] = scheduled[u]
              /\ \A q \in Peer :
                    /\ Has(rib'[p][q], "SELECTED") <=> q = new
                    /\ Usable(rib'[p][q]) <=> Usable(rib[p][q])
              /\ new = NoPeer => \A q \in Peer : ~Usable(rib[p][q])
              /\ new \in Peer =>
                    /\ Usable(rib[p][new]) /\ ~Has(rib'[p][new], "ATTR_CHANGED")
                    /\ rib'[p][new].attr = rib[p][new].attr
<1>0. RibOK /\ OneSelected /\ fib \in [Prefix -> Attr \cup {NoAttr}]
  BY DEF SelectionOK
<1>1. PICK new \in new_select(p) :
          bgp_process_main_same(p, new) \/ bgp_process_main_select(p, new)
  BY DEF bgp_process_main
<1>2. /\ new \in Peer \cup {NoPeer}
      /\ new \in Peer => Usable(rib[p][new])
      /\ Processed(p, new)
      /\ \A u \in Prefix \ {p} : rib'[u] = rib[u]
  BY <1>0, <1>1, ProcessNode
<1>3. \A u \in Prefix \ {p} : scheduled'[u] = scheduled[u] /\ fib'[u] = fib[u]
  BY <1>0, <1>1 DEF bgp_process_main, bgp_process_main_same, bgp_process_main_select,
                    FibUpdate, RibOK
<1>4. ASSUME NEW q \in Peer PROVE Usable(rib'[p][q]) <=> Usable(rib[p][q])
  <2>1. CASE rib'[p][q] = NoInfo /\ Has(rib[p][q], "REMOVED")
    BY <2>1 DEF Usable, Present, HOLDDOWN, UNUSEABLE, Has, NoInfo
  <2>2. CASE /\ rib'[p][q].attr = rib[p][q].attr
             /\ \A g \in Flag \ {"SELECTED", "ATTR_CHANGED"} :
                    Has(rib'[p][q], g) <=> Has(rib[p][q], g)
    BY <2>2 DEF Usable, Present, HOLDDOWN, UNUSEABLE, Has, Flag
  <2> QED
    BY <1>2, <2>1, <2>2 DEF Processed
<1>5. new = NoPeer => \A q \in Peer : ~Usable(rib[p][q])
  BY NoPeerAssumption DEF new_select
<1>6. ASSUME new \in Peer
      PROVE  /\ ~Has(rib'[p][new], "ATTR_CHANGED")
             /\ rib'[p][new].attr = rib[p][new].attr
  <2>1. CASE bgp_process_main_same(p, new)
    BY <1>0, <1>6, <2>1 DEF bgp_process_main_same, NothingToDo, Reaped, RibOK
  <2>2. CASE bgp_process_main_select(p, new)
    <3>1. rib'[p][new] = [rib[p][new] EXCEPT !.flags = (@ \cup {"SELECTED"}) \ {"ATTR_CHANGED"}]
      BY <1>0, <1>6, <2>2 DEF bgp_process_main_select, Selected, RibOK
    <3> QED
      BY <1>0, <1>6, <3>1 DEF RibOK, Info, Has
  <2> QED
    BY <1>1, <2>1, <2>2
<1> QED
  BY <1>1, <1>2, <1>3, <1>4, <1>5, <1>6 DEF Processed

\* UsedOK is preserved.
LEMMA UsedStep ==
    ASSUME SelectionOK, SessionTypes, UsedOK, [Next]_vars
    PROVE  UsedOK'
<1>0. RibOK
  BY DEF SelectionOK
<1>1. ASSUME NEW u \in Prefix, bgp_process_main(u) PROVE UsedOK'
  BY <1>1, ProcessLeaves, NoPeerAssumption DEF UsedOK
<1>2. ASSUME Kept, \A p \in Prefix, q \in Peer : Moves(p, q), RibOK' PROVE UsedOK'
  <2> SUFFICES ASSUME NEW p \in Prefix, NEW q \in Peer,
                      Has(rib'[p][q], "SELECTED"), ~Usable(rib'[p][q])
               PROVE  scheduled'[p] > 0
    BY DEF UsedOK
  <2>1. /\ Has(rib[p][q], "SELECTED") /\ scheduled'[p] >= scheduled[p]
        /\ scheduled[p] \in Nat /\ scheduled'[p] \in Nat
    BY <1>0, <1>2 DEF Kept, RibOK
  <2>2. CASE Usable(rib'[p][q]) <=> Usable(rib[p][q])
    BY <2>1, <2>2 DEF UsedOK
  <2>3. ~Adds(p, q)
    BY DEF Adds, Has
  <2> QED
    BY <1>2, <2>2, <2>3 DEF Moves, Removes, Replaces, Repeats, Keeps, Scans
<1> QED
  BY <1>0, <1>1, <1>2, MoveStep

\* A waiting BGP_Stop is handled by bgp_stop, which queues every route of the
\* peer for clearing; a queued node leaves the clear queue by being cleared.
LEMMA StopStep ==
    ASSUME SessionTypes, SessionOK, [Next]_vars, NEW p \in Prefix, NEW q \in Peer
    PROVE  /\ "BGP_Stop" \in events[q]
                => \/ "BGP_Stop" \in events'[q]
                   \/ Present(rib'[p][q]) => p \in clearq'[q]
           /\ p \in clearq[q] => p \in clearq'[q] \/ bgp_clear_route_node(p, q)
<1> USE DEF SessionTypes, SessionOK
<1> DEFINE Goal == /\ "BGP_Stop" \in events[q]
                        => \/ "BGP_Stop" \in events'[q]
                           \/ Present(rib'[p][q]) => p \in clearq'[q]
                   /\ p \in clearq[q] => p \in clearq'[q] \/ bgp_clear_route_node(p, q)
<1>0. ASSUME clearq' = clearq, events' = events PROVE Goal
  BY <1>0
<1>1. CASE UNCHANGED vars
  BY <1>1 DEF vars
<1>2. CASE Elsewhere
  <2>1. clearq' = clearq
    BY <1>2, SessionsKept
  <2>2. \A v \in Peer : events[v] \subseteq events'[v]
    <3>1. CASE \E u \in Prefix : bgp_process_main(u)
      BY <3>1 DEF bgp_process_main
    <3>2. ASSUME NEW u \in Prefix, NEW v \in Peer, Update(u, v)
          PROVE  events' = events \/ events' = [events EXCEPT ![v] = @ \cup {"BGP_Stop"}]
      <4>1. CASE bgp_withdraw(u, v)
        BY <4>1 DEF bgp_withdraw
      <4>2. ASSUME NEW attr \in Attr, NEW reachable,
                   \/ bgp_update_filtered(u, v, attr) \/ bgp_update_duplicate(u, v, attr)
                   \/ bgp_update_implicit(u, v, attr, reachable)
            PROVE  events' = events
        BY <4>2 DEF bgp_update_filtered, bgp_update_duplicate, bgp_update_implicit
      <4>3. ASSUME NEW attr \in Attr, NEW reachable, bgp_update_new(u, v, attr, reachable)
            PROVE  events' = events \/ events' = [events EXCEPT ![v] = @ \cup {"BGP_Stop"}]
        BY <4>3 DEF bgp_update_new
      <4> QED
        BY <3>2, <4>1, <4>2, <4>3 DEF Update
    <3>3. CASE \E u \in Prefix, v \in Peer : Update(u, v)
      BY <3>2, <3>3
    <3>4. CASE \E u \in Prefix, v \in Peer :
                  bgp_withdraw_packet(u, v) \/ bgp_update_packet(u, v)
      BY <3>4 DEF bgp_withdraw_packet, bgp_update_packet
    <3>5. CASE \E v \in Peer : bgp_announce_route(v) \/ peer_clear(v) \/ bgp_update_receive_eor(v)
      BY <3>5 DEF bgp_announce_route, peer_clear, bgp_update_receive_eor
    <3>6. CASE Scan
      BY <3>6 DEF Scan, bgp_scan
    <3> QED
      BY <1>2, <3>1, <3>3, <3>4, <3>5, <3>6 DEF Elsewhere
  <2> QED
    BY <2>1, <2>2
<1>3. ASSUME NEW v \in Peer, Session(v) PROVE Goal
  <2>1. CASE bgp_open_send(v)
    BY <1>0, <2>1 DEF bgp_open_send
  <2>2. CASE bgp_stop_unestablished(v) \/ bgp_clearing_completed(v)
    BY <2>2 DEF bgp_stop_unestablished, bgp_clearing_completed
  <2>3. ASSUME NEW capable, NEW preserved, bgp_establish(v, capable, preserved) PROVE Goal
    BY <1>0, <2>3 DEF bgp_establish
  <2>4. ASSUME NEW closed \in BOOLEAN, session_lost(v, closed) PROVE Goal
    BY <2>4 DEF session_lost
  <2>5. CASE bgp_stop(v)
    BY <2>5 DEF bgp_stop, ribVars
  <2>6. CASE bgp_announce_route(v) \/ peer_clear(v)
    BY <1>0, <2>6 DEF bgp_announce_route, peer_clear
  <2> QED
    BY <1>3, <2>1, <2>2, <2>3, <2>4, <2>5, <2>6 DEF Session
<1>4. ASSUME NEW v \in Peer, GracefulRestart(v) PROVE Goal
  BY <1>0, <1>4 DEF GracefulRestart, bgp_graceful_restart_timer_expire,
                    bgp_graceful_stale_timer_expire, bgp_update_receive_eor
<1>5. ASSUME NEW u \in Prefix, NEW v \in Peer, bgp_clear_route_node(u, v) PROVE Goal
  <2>1. /\ clearq' = [clearq EXCEPT ![v] = @ \ {u}]
        /\ events' = [events EXCEPT ![v] = @ \cup bgp_clear_node_complete(clearq'[v])]
    BY <1>5 DEF bgp_clear_route_node
  <2>2. events[q] \subseteq events'[q]
    BY <2>1
  <2>3. p \in clearq[q] /\ p \notin clearq'[q] => u = p /\ v = q
    BY <2>1
  <2> QED
    BY <1>5, <2>2, <2>3
<1> QED
  BY <1>1, <1>2, <1>3, <1>4, <1>5 DEF Next, Elsewhere

\* WaitingOK is preserved.
LEMMA WaitingStep ==
    ASSUME SelectionOK, SessionTypes, SessionOK, WaitingOK, [Next]_vars
    PROVE  WaitingOK'
<1>0. RibOK
  BY DEF SelectionOK
<1>1. ASSUME NEW u \in Prefix, bgp_process_main(u) PROVE WaitingOK'
  <2>1. events' = events /\ clearq' = clearq
    BY <1>1 DEF bgp_process_main
  <2> QED
    BY <1>1, <2>1, ProcessLeaves DEF WaitingOK
<1>2. ASSUME Kept, \A p \in Prefix, q \in Peer : Moves(p, q), RibOK' PROVE WaitingOK'
  <2> SUFFICES ASSUME NEW p \in Prefix, NEW q \in Peer, Usable(rib'[p][q]),
                      \A r \in Peer : ~Has(rib'[p][r], "SELECTED"),
                      ~(scheduled'[p] > 0), ~Has(rib'[p][q], "STALE")
               PROVE  "BGP_Stop" \in events'[q] \/ p \in clearq'[q]
    BY DEF WaitingOK
  <2>1. /\ \A r \in Peer : ~Has(rib[p][r], "SELECTED")
        /\ ~(scheduled[p] > 0)
    BY <1>0, <1>2 DEF Kept, RibOK
  <2>2. Present(rib'[p][q]) /\ ~Has(rib'[p][q], "REMOVED")
    BY DEF Usable, HOLDDOWN, UNUSEABLE, Has
  <2>3. \/ "BGP_Stop" \in events'[q]
        \/ Usable(rib[p][q]) /\ ~Has(rib[p][q], "STALE")
    BY <1>2 DEF Moves, Removes, Replaces, Repeats, Adds, Keeps, Scans
  <2>4. "BGP_Stop" \in events'[q] \/ "BGP_Stop" \in events[q] \/ p \in clearq[q]
    BY <2>1, <2>3 DEF WaitingOK
  <2>5. ~bgp_clear_route_node(p, q)
    BY <1>0, <2>2, ClearNodeMoves
  <2> QED
    BY <2>2, <2>4, <2>5, StopStep
<1> QED
  BY <1>0, <1>1, <1>2, MoveStep

\* FibOK is preserved when no peer repeats what still waits to be processed.
LEMMA FibStep ==
    ASSUME ~EarlyRepeats, SelectionOK, SessionTypes, FibOK, [Next]_vars
    PROVE  FibOK'
<1>0. RibOK /\ OneSelected /\ fib \in [Prefix -> Attr \cup {NoAttr}]
  BY DEF SelectionOK
<1>1. ASSUME NEW u \in Prefix, bgp_process_main(u) PROVE FibOK'
  <2>1. PICK new \in Peer \cup {NoPeer} :
              /\ bgp_process_main_same(u, new) \/ bgp_process_main_select(u, new)
              /\ \A p \in Prefix \ {u} : /\ rib'[p] = rib[p] /\ fib'[p] = fib[p]
                                         /\ scheduled'[p] = scheduled[p]
              /\ \A q \in Peer : Has(rib'[u][q], "SELECTED") <=> q = new
              /\ new \in Peer =>
                    /\ ~Has(rib'[u][new], "ATTR_CHANGED")
                    /\ rib'[u][new].attr = rib[u][new].attr
    BY <1>1, ProcessLeaves
  <2>2. ASSUME new \in Peer PROVE fib'[u] = rib[u][new].attr
    <3>1. CASE bgp_process_main_same(u, new)
      <4>1. Has(rib[u][new], "SELECTED") /\ ~Has(rib[u][new], "ATTR_CHANGED")
        BY <2>2, <3>1, OldSelect, NoPeerAssumption DEF bgp_process_main_same, NothingToDo
      <4> QED
        BY <1>0, <2>2, <3>1, <4>1 DEF FibOK, bgp_process_main_same
    <3>2. CASE bgp_process_main_select(u, new)
      BY <1>0, <2>2, <3>2, NoPeerAssumption DEF bgp_process_main_select, FibUpdate, AttrOf
    <3> QED
      BY <2>1, <3>1, <3>2
  <2>3. ASSUME NEW p \in Prefix, NEW q \in Peer, Has(rib'[p][q], "SELECTED")
        PROVE  \/ Has(rib'[p][q], "ATTR_CHANGED") /\ scheduled'[p] > 0
               \/ ~Has(rib'[p][q], "ATTR_CHANGED") /\ fib'[p] = rib'[p][q].attr
    <3>1. CASE p = u
      BY <2>1, <2>2, <2>3, <3>1
    <3>2. CASE p # u
      BY <2>1, <2>3, <3>2 DEF FibOK
    <3> QED
      BY <3>1, <3>2
  <2> QED
    BY <2>3 DEF FibOK
<1>2. ASSUME Kept, \A p \in Prefix, q \in Peer : Moves(p, q), RibOK', fib' = fib
      PROVE  FibOK'
  <2> SUFFICES ASSUME NEW p \in Prefix, NEW q \in Peer, Has(rib'[p][q], "SELECTED")
               PROVE  \/ Has(rib'[p][q], "ATTR_CHANGED") /\ scheduled'[p] > 0
                      \/ ~Has(rib'[p][q], "ATTR_CHANGED") /\ fib[p] = rib'[p][q].attr
    BY <1>2 DEF FibOK
  <2>1. /\ Has(rib[p][q], "SELECTED") /\ scheduled'[p] >= scheduled[p]
        /\ scheduled[p] \in Nat /\ scheduled'[p] \in Nat
    BY <1>0, <1>2 DEF Kept, RibOK
  <2>2. \/ Has(rib[p][q], "ATTR_CHANGED") /\ scheduled[p] > 0
        \/ ~Has(rib[p][q], "ATTR_CHANGED") /\ fib[p] = rib[p][q].attr
    BY <2>1 DEF FibOK
  <2>3. ~Adds(p, q)
    BY DEF Adds, Has
  <2>4. CASE rib'[p][q] = rib[p][q] \/ Removes(p, q) \/ Keeps(p, q) \/ Scans(p, q)
    <3>1. /\ rib'[p][q].attr = rib[p][q].attr
          /\ Has(rib'[p][q], "ATTR_CHANGED") <=> Has(rib[p][q], "ATTR_CHANGED")
      BY <2>4 DEF Removes, Keeps, Scans, SameFlags
    <3> QED
      BY <2>1, <2>2, <3>1
  <2>5. CASE Replaces(p, q)
    BY <2>5 DEF Replaces
  <2>6. CASE Repeats(p, q)
    BY <2>1, <2>2, <2>6 DEF Repeats
  <2> QED
    BY <1>2, <2>3, <2>4, <2>5, <2>6 DEF Moves
<1> QED
  BY <1>0, <1>1, <1>2, MoveStep

(***************************************************************************)
(* What the neighbours have been told.                                     *)
(***************************************************************************)

\* No change of the selected route of p waits to be announced.
Announced(p) == \A r \in Peer : Has(rib[p][r], "SELECTED") => ~Has(rib[p][r], "ATTR_CHANGED")

\* An established peer has been told about the selected route of every node
\* whose change is announced; any other peer has been told nothing.
ToldOK ==
    \A p \in Prefix, q \in Peer :
        /\ status[q] = "Established" /\ Announced(p)
              => Effective(adjOut[p][q]) = Exported(p, q)
        /\ status[q] # "Established" => Effective(adjOut[p][q]) = NoAttr

\* After Announce the peer will have what bgp_announce_check lets through.
LEMMA AnnounceEffective ==
    ASSUME NEW adj \in AdjOut, NEW from \in Peer \cup {NoPeer}, NEW to \in Peer,
           NEW attr, from \in Peer => attr \in Attr
    PROVE  Effective(Announce(adj, from, attr, to))
              = IF from = NoPeer THEN NoAttr ELSE bgp_announce_check(from, attr, to)
<1> DEFINE out == IF from = NoPeer THEN NoAttr ELSE bgp_announce_check(from, attr, to)
<1>1. out \in Attr \cup {NoAttr}
  BY PolicyAssumption, NoPeerAssumption DEF bgp_announce_check
<1> HIDE DEF out
<1>2. Effective(bgp_adj_out_unset(adj)) = NoAttr
  <2>1. CASE adj.attr # NoAttr
    BY <2>1, WithdrawAssumption DEF bgp_adj_out_unset, AdjOut, Effective
  <2>2. CASE adj.attr = NoAttr
    BY <2>2 DEF bgp_adj_out_unset, NoAdjOut, Effective
  <2> QED
    BY <2>1, <2>2
<1>3. out # NoAttr => Effective(bgp_adj_out_set(adj, out)) = out
  BY <1>1, WithdrawAssumption DEF bgp_adj_out_set, AdjOut, Effective
<1> QED
  BY <1>2, <1>3 DEF Announce, out

\* Who is selected determines what is exported.
LEMMA ExportedIs ==
    ASSUME OneSelected, NEW p \in Prefix, NEW q \in Peer
    PROVE  /\ \A r \in Peer : Has(rib[p][r], "SELECTED")
                 => /\ old_select(p) = r
                    /\ Exported(p, q) = bgp_announce_check(r, rib[p][r].attr, q)
           /\ (\A r \in Peer : ~Has(rib[p][r], "SELECTED"))
                 => old_select(p) = NoPeer /\ Exported(p, q) = NoAttr
<1>1. \A r \in Peer : Has(rib[p][r], "SELECTED") => old_select(p) = r
  BY OldSelect, NoPeerAssumption DEF OneSelected
<1>2. (\A r \in Peer : ~Has(rib[p][r], "SELECTED")) => old_select(p) = NoPeer
  BY OldSelect
<1> QED
  BY <1>1, <1>2, NoPeerAssumption DEF Exported

\* A step that is not the process queue's changes nothing that is exported and
\* announced.
LEMMA ExportKept ==
    ASSUME ~EarlyRepeats, SelectionOK, SelectionOK', FibOK, Kept,
           NEW p \in Prefix, NEW q \in Peer, \A r \in Peer : Moves(p, r), Announced(p)'
    PROVE  Announced(p) /\ Exported(p, q)' = Exported(p, q)
<1>0. RibOK /\ OneSelected /\ OneSelected'
  BY DEF SelectionOK
<1>1. ASSUME NEW r \in Peer, Has(rib[p][r], "SELECTED")
      PROVE  /\ Has(rib'[p][r], "SELECTED") /\ ~Has(rib[p][r], "ATTR_CHANGED")
             /\ rib'[p][r].attr = rib[p][r].attr
  <2>1. Has(rib'[p][r], "SELECTED") /\ ~Has(rib'[p][r], "ATTR_CHANGED")
    BY <1>1 DEF Kept, Announced
  <2>2. ~Adds(p, r) /\ ~Replaces(p, r)
    BY <2>1 DEF Adds, Replaces, Has
  <2>3. CASE rib'[p][r] = rib[p][r] \/ Removes(p, r) \/ Keeps(p, r) \/ Scans(p, r)
    BY <2>1, <2>3 DEF Removes, Keeps, Scans, SameFlags
  <2>4. CASE Repeats(p, r)
    <3>1. scheduled[p] = 0 /\ rib'[p][r].attr = rib[p][r].attr
      BY <2>4 DEF Repeats
    <3>2. ~Has(rib[p][r], "ATTR_CHANGED")
      BY <1>1, <3>1 DEF FibOK
    <3> QED
      BY <2>1, <3>1, <3>2
  <2> QED
    BY <2>2, <2>3, <2>4 DEF Moves
<1>2. \A r \in Peer : Has(rib'[p][r], "SELECTED") <=> Has(rib[p][r], "SELECTED")
  BY DEF Kept
<1>3. Announced(p)
  BY <1>1 DEF Announced
<1>4. old_select(p)' = old_select(p)
  <2>1. \/ old_select(p)' \in Peer /\ Has(rib'[p][old_select(p)'], "SELECTED")
        \/ old_select(p)' = NoPeer /\ \A r \in Peer : ~Has(rib'[p][r], "SELECTED")
    BY DEF old_select
  <2> QED
    BY <1>0, <1>2, <2>1, OldSelect, NoPeerAssumption DEF OneSelected
<1>5. old_select(p) \in Peer
        => rib'[p][old_select(p)].attr = rib[p][old_select(p)].attr
  BY <1>1, OldSelect, NoPeerAssumption
<1>6. old_select(p) \in Peer \/ old_select(p) = NoPeer
  BY OldSelect
<1> QED
  BY <1>3, <1>4, <1>5, <1>6 DEF Exported, bgp_announce_check

\* Sending the table to a peer tells it what is exported, if it had been told
\* that or nothing.
LEMMA TableTold ==
    ASSUME SelectionOK, AdjTypes, NEW q \in Peer, bgp_announce_table(q), NEW p \in Prefix
    PROVE  /\ \A v \in Peer \ {q} : adjOut'[p][v] = adjOut[p][v]
           /\ Effective(adjOut[p][q]) \in {NoAttr, Exported(p, q)}
                 => Effective(adjOut'[p][q]) = Exported(p, q)
<1>0. RibOK /\ OneSelected
  BY DEF SelectionOK
<1> DEFINE best == old_select(p)
           new == IF best \in Peer \ {q}
                  THEN Announce(adjOut[p][q], best, rib[p][best].attr, q)
                  ELSE adjOut[p][q]
<1>1. adjOut'[p] = [adjOut[p] EXCEPT ![q] = new]
  BY DEF bgp_announce_table, AdjTypes
<1>2. adjOut'[p][q] = new /\ \A v \in Peer \ {q} : adjOut'[p][v] = adjOut[p][v]
  BY <1>1 DEF AdjTypes
<1>3. CASE best \in Peer \ {q}
  <2>1. rib[p][best].attr \in Attr
    BY <1>0, <1>3, OldSelect, NoPeerAssumption DEF OneSelected, RibOK, Info, Present
  <2>2. adjOut[p][q] \in AdjOut
    BY DEF AdjTypes
  <2>3. new = Announce(adjOut[p][q], best, rib[p][best].attr, q)
    BY <1>3
  <2> HIDE DEF new, best
  <2>4. Effective(new) = bgp_announce_check(best, rib[p][best].attr, q)
    BY <1>3, <2>1, <2>2, <2>3, AnnounceEffective, NoPeerAssumption
  <2> QED
    BY <1>2, <1>3, <2>4, NoPeerAssumption DEF Exported, best
<1>4. CASE best \notin Peer \ {q}
  <2>1. best = q \/ best = NoPeer
    BY <1>4, OldSelect
  <2>2. Exported(p, q) = NoAttr
    BY <2>1 DEF Exported, bgp_announce_check
  <2> QED
    BY <1>2, <1>4, <2>2
<1> QED
  BY <1>3, <1>4

\* The process queue tells the established peers about the route it selects.
LEMMA ProcessTold ==
    ASSUME SelectionOK, SelectionOK', AdjTypes, ToldOK, NEW u \in Prefix, bgp_process_main(u)
    PROVE  ToldOK'
<1>0. RibOK /\ OneSelected /\ OneSelected'
  BY DEF SelectionOK
<1>1. PICK new \in Peer \cup {NoPeer} :
              /\ bgp_process_main_same(u, new) \/ bgp_process_main_select(u, new)
              /\ \A p \in Prefix \ {u} : rib'[p] = rib[p]
              /\ \A q \in Peer : Has(rib'[u][q], "SELECTED") <=> q = new
              /\ new \in Peer =>
                    /\ Usable(rib[u][new])
                    /\ rib'[u][new].attr = rib[u][new].attr
  BY ProcessLeaves
<1>2. status' = status
  BY DEF bgp_process_main
<1>3. \A p \in Prefix \ {u} : adjOut'[p] = adjOut[p]
  BY <1>1 DEF bgp_process_main_same, bgp_process_main_select, AdjTypes
<1>4. ASSUME NEW p \in Prefix, NEW q \in Peer, p # u
      PROVE  /\ status'[q] = "Established" /\ Announced(p)'
                   => Effective(adjOut'[p][q]) = Exported(p, q)'
             /\ status'[q] # "Established" => Effective(adjOut'[p][q]) = NoAttr
  <2>0. rib'[p] = rib[p]
    BY <1>1, <1>4
  <2>1a. old_select(p)' = old_select(p)
    BY <2>0 DEF old_select
  <2>1b. Exported(p, q)' = Exported(p, q)
    BY <2>0, <2>1a DEF Exported, bgp_announce_check
  <2>1. Exported(p, q)' = Exported(p, q) /\ (Announced(p)' <=> Announced(p))
    BY <2>0, <2>1b DEF Announced
  <2>2. adjOut'[p][q] = adjOut[p][q]
    BY <1>3, <1>4
  <2> QED
    BY <1>2, <2>1, <2>2 DEF ToldOK
<1>5. ASSUME NEW q \in Peer
      PROVE  Exported(u, q)' = IF new = NoPeer THEN NoAttr
                               ELSE bgp_announce_check(new, rib[u][new].attr, q)
  <2>1. \/ old_select(u)' \in Peer /\ Has(rib'[u][old_select(u)'], "SELECTED")
        \/ old_select(u)' = NoPeer /\ \A r \in Peer : ~Has(rib'[u][r], "SELECTED")
    BY DEF old_select
  <2>2. old_select(u)' = new
    BY <1>1, <2>1
  <2> QED
    BY <1>1, <2>2 DEF Exported, bgp_announce_check
<1>6. ASSUME NEW q \in Peer
      PROVE  /\ status[q] = "Established" => Effective(adjOut'[u][q]) = Exported(u, q)'
             /\ status[q] # "Established" => Effective(adjOut'[u][q]) = NoAttr
  <2>1. CASE bgp_process_main_same(u, new)
    <3>1. /\ adjOut' = adjOut /\ new # NoPeer /\ old_select(u) = new
          /\ ~Has(rib[u][new], "ATTR_CHANGED")
      BY <2>1 DEF bgp_process_main_same, NothingToDo
    <3>2. Has(rib[u][new], "SELECTED")
      BY <3>1, OldSelect
    <3>3. Announced(u)
      BY <1>0, <1>1, <3>1, <3>2 DEF Announced, OneSelected
    <3>4. Exported(u, q) = bgp_announce_check(new, rib[u][new].attr, q)
      BY <3>1 DEF Exported
    <3>5. Exported(u, q)' = Exported(u, q)
      BY <1>5, <3>1, <3>4
    <3> QED
      BY <3>1, <3>3, <3>5 DEF ToldOK
  <2>2. CASE bgp_process_main_select(u, new)
    <3> DEFINE attr == AttrOf(u, new)
    <3>1. adjOut'[u][q] = IF status[q] = "Established"
                          THEN Announce(adjOut[u][q], new, attr, q) ELSE adjOut[u][q]
      BY <2>2 DEF bgp_process_main_select, AdjTypes
    <3>2. (new \in Peer => attr \in Attr) /\ (new # NoPeer => attr = rib[u][new].attr)
      BY <1>0, <1>1, NoPeerAssumption DEF AttrOf, RibOK, Info, Usable, Present
    <3>3. adjOut[u][q] \in AdjOut
      BY DEF AdjTypes
    <3> HIDE DEF attr
    <3>4. Effective(Announce(adjOut[u][q], new, attr, q)) = Exported(u, q)'
      <4>1. Effective(Announce(adjOut[u][q], new, attr, q))
               = IF new = NoPeer THEN NoAttr ELSE bgp_announce_check(new, attr, q)
        BY <3>2, <3>3, AnnounceEffective
      <4> QED
        BY <1>5, <3>2, <4>1
    <3> QED
      BY <3>1, <3>4 DEF ToldOK
  <2> QED
    BY <1>1, <2>1, <2>2
<1> QED
  BY <1>2, <1>4, <1>6 DEF ToldOK

\* ToldOK is preserved.
LEMMA ToldStep ==
    ASSUME ~EarlyRepeats, SelectionOK, SelectionOK', SessionTypes, AdjTypes, FibOK, ToldOK,
           [Next]_vars
    PROVE  ToldOK'
<1>0. RibOK /\ OneSelected /\ OneSelected'
  BY DEF SelectionOK
<1>1. CASE \E u \in Prefix : bgp_process_main(u)
  BY <1>1, ProcessTold
<1>2. CASE ~\E u \in Prefix : bgp_process_main(u)
  <2>k. ASSUME NEW p \in Prefix, NEW q \in Peer, Announced(p)'
        PROVE  Announced(p) /\ Exported(p, q)' = Exported(p, q)
    BY <1>0, <1>2, <2>k, MoveStep, ExportKept
  <2>w. ASSUME UNCHANGED <<status, adjOut>> PROVE ToldOK'
    BY <2>k, <2>w DEF ToldOK
  <2>e. ASSUME status' = status,
               \A p \in Prefix, q \in Peer : Effective(adjOut'[p][q]) = Effective(adjOut[p][q])
        PROVE  ToldOK'
    BY <2>e, <2>k DEF ToldOK
  <2>1. CASE UNCHANGED vars
    BY <2>1, <2>w DEF vars, adjVars
  <2>2. ASSUME NEW p \in Prefix, NEW q \in Peer, Update(p, q) PROVE ToldOK'
    <3>1. CASE bgp_withdraw(p, q)
      BY <2>w, <3>1 DEF bgp_withdraw
    <3>2. ASSUME NEW attr \in Attr, NEW reachable,
                 \/ bgp_update_filtered(p, q, attr) \/ bgp_update_duplicate(p, q, attr)
                 \/ bgp_update_implicit(p, q, attr, reachable)
                 \/ bgp_update_new(p, q, attr, reachable)
          PROVE  UNCHANGED <<status, adjOut>>
      BY <3>2 DEF bgp_update_filtered, bgp_update_duplicate, bgp_update_implicit,
                  bgp_update_new
    <3> QED
      BY <2>2, <2>w, <3>1, <3>2 DEF Update
  <2>3. ASSUME NEW q \in Peer, Session(q) PROVE ToldOK'
    <3>1. CASE bgp_open_send(q) \/ bgp_stop_unestablished(q) \/ bgp_clearing_completed(q)
      <4>1. /\ adjOut' = adjOut
            /\ \A v \in Peer : status'[v] = "Established" <=> status[v] = "Established"
        BY <3>1 DEF bgp_open_send, bgp_stop_unestablished, bgp_clearing_completed, adjVars,
                    SessionTypes
      <4> QED
        BY <2>k, <4>1 DEF ToldOK
    <3>2. ASSUME NEW capable, NEW preserved, bgp_establish(q, capable, preserved)
          PROVE  ToldOK'
      <4>1. /\ status[q] = "OpenSent" /\ status'[q] = "Established"
            /\ \A v \in Peer \ {q} : status'[v] = status[v]
            /\ bgp_announce_table(q)
        BY <3>2 DEF bgp_establish, SessionTypes
      <4>2. \A p \in Prefix : Effective(adjOut[p][q]) = NoAttr
        BY <4>1 DEF ToldOK
      <4>3. \A p \in Prefix : /\ Effective(adjOut'[p][q]) = Exported(p, q)
                              /\ \A v \in Peer \ {q} : adjOut'[p][v] = adjOut[p][v]
        BY <4>1, <4>2, TableTold
      <4> QED
        BY <2>k, <4>1, <4>3 DEF ToldOK
    <3>3. CASE bgp_announce_route(q)
      <4>1. status' = status /\ status[q] = "Established" /\ bgp_announce_table(q)
        BY <3>3 DEF bgp_announce_route
      <4>2. \A p \in Prefix : /\ Announced(p) => Effective(adjOut'[p][q]) = Exported(p, q)
                              /\ \A v \in Peer \ {q} : adjOut'[p][v] = adjOut[p][v]
        BY <4>1, TableTold DEF ToldOK
      <4> QED
        BY <2>k, <4>1, <4>2 DEF ToldOK
    <3>4. ASSUME \/ \E closed \in BOOLEAN : session_lost(q, closed)
                 \/ peer_clear(q)
          PROVE  ToldOK'
      BY <2>w, <3>4 DEF session_lost, peer_clear, adjVars
    <3>5. CASE bgp_stop(q)
      <4>1. /\ status' = [status EXCEPT ![q] = "Clearing"] /\ status[q] = "Established"
            /\ adjOut' = Cleared(adjOut, NoAdjOut, q)
        BY <3>5 DEF bgp_stop
      <4>2. status'[q] = "Clearing" /\ \A v \in Peer \ {q} : status'[v] = status[v]
        BY <4>1 DEF SessionTypes
      <4>3. ASSUME NEW p \in Prefix
            PROVE  /\ Effective(adjOut'[p][q]) = NoAttr
                   /\ \A v \in Peer \ {q} : adjOut'[p][v] = adjOut[p][v]
        <5>1. CASE \E r \in Peer : Present(rib[p][r])
          <6>1. adjOut'[p] = [adjOut[p] EXCEPT ![q] = NoAdjOut]
            BY <4>1, <5>1 DEF Cleared
          <6>2. adjOut'[p][q] = NoAdjOut /\ \A v \in Peer \ {q} : adjOut'[p][v] = adjOut[p][v]
            BY <6>1 DEF AdjTypes
          <6>3. Effective(NoAdjOut) = NoAttr
            BY DEF Effective, NoAdjOut
          <6> QED
            BY <6>2, <6>3
        <5>2. CASE ~\E r \in Peer : Present(rib[p][r])
          <6>1. adjOut'[p] = adjOut[p]
            BY <4>1, <5>2 DEF Cleared
          <6>2. \A r \in Peer : ~Has(rib[p][r], "SELECTED")
            BY <1>0, <5>2 DEF OneSelected
          <6>3. Announced(p) /\ Exported(p, q) = NoAttr
            BY <1>0, <6>2, ExportedIs DEF Announced
          <6> QED
            BY <4>1, <6>1, <6>3 DEF ToldOK
        <5> QED
          BY <5>1, <5>2
      <4> QED
        BY <2>k, <4>2, <4>3 DEF ToldOK
    <3> QED
      BY <2>3, <3>1, <3>2, <3>3, <3>4, <3>5 DEF Session
  <2>4. ASSUME NEW q \in Peer, GracefulRestart(q) PROVE ToldOK'
    BY <2>w, <2>4 DEF GracefulRestart, bgp_graceful_restart_timer_expire,
                bgp_graceful_stale_timer_expire, bgp_update_receive_eor, adjVars
  <2>5. ASSUME NEW p \in Prefix, NEW q \in Peer, bgp_clear_route_node(p, q) PROVE ToldOK'
    BY <2>w, <2>5 DEF bgp_clear_route_node, adjVars
  <2>6. ASSUME NEW p \in Prefix, NEW q \in Peer, bgp_withdraw_packet(p, q) PROVE ToldOK'
    <3>1. /\ status' = status /\ adjOut[p][q].adv = Withdraw
          /\ adjOut' = [adjOut EXCEPT ![p][q] = NoAdjOut]
      BY <2>6 DEF bgp_withdraw_packet
    <3>2. /\ adjOut'[p][q] = NoAdjOut
          /\ \A u \in Prefix, v \in Peer : u # p \/ v # q => adjOut'[u][v] = adjOut[u][v]
      BY <3>1 DEF AdjTypes
    <3>3. Effective(adjOut[p][q]) = NoAttr /\ Effective(NoAdjOut) = NoAttr
      BY <3>1, WithdrawAssumption DEF Effective, NoAdjOut
    <3> QED
      BY <2>e, <3>1, <3>2, <3>3
  <2>7. ASSUME NEW p \in Prefix, NEW q \in Peer, bgp_update_packet(p, q) PROVE ToldOK'
    <3> DEFINE sent == [attr |-> adjOut[p][q].adv, adv |-> NoAttr]
    <3>1. /\ status' = status /\ adjOut[p][q].adv \in Attr
          /\ adjOut' = [adjOut EXCEPT ![p][q] = sent]
      BY <2>7 DEF bgp_update_packet, AdjTypes
    <3>2. Effective(adjOut[p][q]) = adjOut[p][q].adv /\ Effective(sent) = adjOut[p][q].adv
      BY <3>1, WithdrawAssumption, NoAttrAssumption DEF Effective
    <3> HIDE DEF sent
    <3>3. /\ adjOut'[p][q] = sent
          /\ \A u \in Prefix, v \in Peer : u # p \/ v # q => adjOut'[u][v] = adjOut[u][v]
      BY <3>1 DEF AdjTypes
    <3> QED
      BY <2>e, <3>1, <3>2, <3>3
  <2>8. CASE Scan
    BY <2>w, <2>8 DEF Scan, bgp_scan, adjVars
  <2> QED
    BY <1>2, <2>1, <2>2, <2>3, <2>4, <2>5, <2>6, <2>7, <2>8 DEF Next
<1> QED
  BY <1>1, <1>2

-----------------------------------------------------------------------------
(***************************************************************************)
(* The theorems.                                                           *)
(***************************************************************************)

TableOK == SelectionOK /\ SessionTypes /\ AdjTypes

\* The types and the selection hold in every reachable state.
LEMMA TableAlways == Spec => []TableOK
<1>1. Init => SessionTypes /\ AdjTypes
  BY DEF Init, SessionTypes, AdjTypes, Status, Event, AdjOut, NoAdjOut
<1>2. SessionTypes /\ [Next]_vars => SessionTypes'
  BY SessionTypesStep
<1>3. AdjTypes /\ SelectionOK /\ [Next]_vars => AdjTypes'
  BY AdjTypesStep
<1> QED
  BY <1>1, <1>2, <1>3, SelectionAlways, PTL DEF Spec, TableOK

\* In the empty table nothing is selected, usable, stale or announced.
LEMMA SettledInit ==
    Init => SessionOK /\ VisitedOK /\ TimedOK /\ UsedOK /\ WaitingOK /\ FibOK /\ ToldOK
<1> SUFFICES ASSUME Init
             PROVE  SessionOK /\ VisitedOK /\ TimedOK /\ UsedOK /\ WaitingOK /\ FibOK /\ ToldOK
  OBVIOUS
<1>1. \A p \in Prefix, q \in Peer :
         /\ ~Present(rib[p][q]) /\ ~Usable(rib[p][q])
         /\ ~Has(rib[p][q], "SELECTED") /\ ~Has(rib[p][q], "STALE")
  BY DEF Init, NoInfo, Present, Usable, Has
<1>2. SessionOK /\ VisitedOK /\ UsedOK /\ WaitingOK /\ FibOK
  BY <1>1 DEF Init, SessionOK, VisitedOK, UsedOK, WaitingOK, FibOK
<1>3. TimedOK
  BY <1>1 DEF Init, TimedOK, StaleIsTimed
<1>4. ToldOK
  <2>1. \A p \in Prefix, q \in Peer : Effective(adjOut[p][q]) = NoAttr
    BY DEF Init, NoAdjOut, Effective
  <2>2. \A p \in Prefix, q \in Peer : status[q] # "Established"
    BY DEF Init
  <2> QED
    BY <2>1, <2>2 DEF ToldOK
<1> QED
  BY <1>2, <1>3, <1>4

\* Once a session has left Clearing, no route of it is in use but the stale
\* ones of a peer that is waited for: bgp_clear_route_node has visited every
\* other, and no route of a new session can come before the last visit.
THEOREM ClearedSessionCorrect == Spec => []ClearedSession
<1> DEFINE I == SessionOK /\ VisitedOK
<1>1. TableOK /\ I /\ [Next]_vars => I'
  BY SessionStep, VisitedStep DEF TableOK
<1>2. I => ClearedSession
  <2> SUFFICES ASSUME I, NEW p \in Prefix, NEW q \in Peer,
                      status[q] \in {"Idle", "OpenSent"}, Usable(rib[p][q])
               PROVE  Has(rib[p][q], "STALE") /\ q \in nsfWait
    BY DEF ClearedSession
  <2>1. Present(rib[p][q]) /\ ~Has(rib[p][q], "REMOVED")
    BY DEF Usable, HOLDDOWN, UNUSEABLE, Has
  <2>2. status[q] # "Established" /\ clearq[q] = {}
    BY DEF SessionOK
  <2> QED
    BY <2>1, <2>2 DEF VisitedOK
<1>3. Init => I
  BY SettledInit
<1> QED
  BY <1>1, <1>2, <1>3, TableAlways, PTL DEF Spec

\* When no stale timer expires before the clearing that it was started for is
\* done, every stale route has a timer or a clearing that will remove it,
\* through any sequence of closes, restarts and timeouts.
THEOREM StaleIsTimedCorrect == ~SlowClearing => (Spec => []StaleIsTimed)
<1> SUFFICES ASSUME ~SlowClearing PROVE Spec => []StaleIsTimed
  OBVIOUS
<1>1. TableOK /\ SessionOK /\ [Next]_vars => SessionOK'
  BY SessionStep DEF TableOK
<1>2. TableOK /\ SessionOK /\ TimedOK /\ [Next]_vars => TimedOK'
  BY TimedStep DEF TableOK
<1>3. Init => SessionOK /\ TimedOK
  BY SettledInit
<1>4. TimedOK => StaleIsTimed
  BY DEF TimedOK
<1> QED
  BY <1>1, <1>2, <1>3, <1>4, TableAlways, PTL DEF Spec

\* A node that is not on the process queue has a usable route selected if it
\* has one, but for the routes of a peer that went over maximum-prefix.
THEOREM SettledSelectionCorrect == Spec => []SettledSelection
<1> DEFINE I == SessionOK /\ UsedOK /\ WaitingOK
<1>1. TableOK /\ I /\ [Next]_vars => I'
  BY SessionStep, UsedStep, WaitingStep DEF TableOK
<1>2. TableOK /\ I => SettledSelection
  <2> SUFFICES ASSUME TableOK, I, NEW p \in Prefix, scheduled[p] = 0
               PROVE  /\ old_select(p) # NoPeer => Usable(rib[p][old_select(p)])
                      /\ old_select(p) = NoPeer =>
                            \A q \in Peer : Usable(rib[p][q])
                                => \/ "BGP_Stop" \in events[q] \/ p \in clearq[q]
                                   \/ Has(rib[p][q], "STALE")
    BY DEF SettledSelection
  <2>1. ~(scheduled[p] > 0)
    OBVIOUS
  <2> QED
    BY <2>1, OldSelect, NoPeerAssumption DEF UsedOK, WaitingOK
<1>3. Init => I
  BY SettledInit
<1> QED
  BY <1>1, <1>2, <1>3, TableAlways, PTL DEF Spec

\* When no peer repeats an announcement that still waits on the process queue,
\* zebra has the attributes of the selected route of every node that is not on
\* the queue.
THEOREM SettledFibCorrect == ~EarlyRepeats => (Spec => []SettledFib)
<1> SUFFICES ASSUME ~EarlyRepeats PROVE Spec => []SettledFib
  OBVIOUS
<1>1. TableOK /\ FibOK /\ [Next]_vars => FibOK'
  BY FibStep DEF TableOK
<1>2. FibOK => SettledFib
  BY OldSelect DEF FibOK, SettledFib
<1>3. Init => FibOK
  BY SettledInit
<1> QED
  BY <1>1, <1>2, <1>3, TableAlways, PTL DEF Spec

\* Under the same condition every established neighbour has been told, or is
\* about to be told, exactly what the selected route of such a node says,
\* whatever the policies are and however often its session was reset.
THEOREM SettledAdjOutCorrect == ~EarlyRepeats => (Spec => []SettledAdjOut)
<1> SUFFICES ASSUME ~EarlyRepeats PROVE Spec => []SettledAdjOut
  OBVIOUS
<1>1. TableOK /\ FibOK /\ [Next]_vars => FibOK'
  BY FibStep DEF TableOK
<1>2. TableOK /\ TableOK' /\ FibOK /\ ToldOK /\ [Next]_vars => ToldOK'
  BY ToldStep DEF TableOK
<1>3. FibOK /\ ToldOK => SettledAdjOut
  <2> SUFFICES ASSUME FibOK, ToldOK, NEW p \in Prefix, NEW q \in Peer,
                      scheduled[p] = 0, status[q] = "Established"
               PROVE  Effective(adjOut[p][q]) = Exported(p, q)
    BY DEF SettledAdjOut
  <2>1. Announced(p)
    BY DEF FibOK, Announced
  <2> QED
    BY <2>1 DEF ToldOK
<1>4. Init => FibOK /\ ToldOK
  BY SettledInit
<1> QED
  BY <1>1, <1>2, <1>3, <1>4, TableAlways, PTL DEF Spec
=============================================================================
