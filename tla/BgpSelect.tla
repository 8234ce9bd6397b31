----------------------------- MODULE BgpSelect -----------------------------
(***************************************************************************)
(* The decision process as an algorithm: how bgp_info_cmp compares two     *)
(* routes and how bgp_best_selection finds the best of a list of them      *)
(* (bgpd/bgp_route.c).  I2BGP compares MED before everything else.  MED is *)
(* comparable only between some pairs of routes, so the comparison need    *)
(* not be transitive, and the place of a route in the list may decide.     *)
(***************************************************************************)
EXTENDS Fifo, FiniteSetsExt

CONSTANTS
    Sort,       \* [peer -> PeerSort] (peer_sort)
    RouterId,   \* [peer -> Nat], peer->remote_id
    Address,    \* [peer -> Nat], peer->su_remote
    None,       \* an attribute, or an AS, that is not there
    MedMax,     \* BGP_MED_MAX
    LocalPref   \* bgp->default_local_pref

VARIABLE
    config      \* bgp->flags

(***************************************************************************)
(* bgp_info_cmp.  A check says 1 when the new route is to be preferred, -1 *)
(* when the existing one is, 0 when it does not decide.                    *)
(***************************************************************************)
Lower(new, exist) == IF new < exist THEN 1 ELSE IF new > exist THEN -1 ELSE 0
Higher(new, exist) == Lower(exist, new)

\* new is told apart from exist by being of this kind; when both are, the new
\* one wins.
Prefer(new, exist) == IF new THEN 1 ELSE IF exist THEN -1 ELSE 0

bgp_med_value(path) ==
    IF path.med # None THEN path.med
    ELSE IF "MED_MISSING_AS_WORST" \in config THEN MedMax ELSE 0

aspath_cmp_left(p1, p2) == p1.left # None /\ p1.left = p2.left
aspath_cmp_left_confed(p1, p2) == p1.leftConfed # None /\ p1.leftConfed = p2.leftConfed
SameNeighbourAS(p1, p2) == aspath_cmp_left(p1, p2) \/ aspath_cmp_left_confed(p1, p2)

MedComparable(p1, p2) ==
    LET internal == p1.hops = 0 /\ p2.hops = 0
        confed == internal /\ p1.confeds > 0 /\ p2.confeds > 0
    IN  \/ "ALWAYS_COMPARE_MED" \in config
        \/ "MED_CONFED" \in config /\ confed
        \/ SameNeighbourAS(p1, p2)
        \/ internal

\* Fault: the higher MED wins.
MedCheck_higher(n, e) ==
    IF MedComparable(n.path, e.path)
    THEN Higher(bgp_med_value(n.path), bgp_med_value(e.path)) ELSE 0

MedCheck(n, e) ==
    IF MedComparable(n.path, e.path)
    THEN Lower(bgp_med_value(n.path), bgp_med_value(e.path)) ELSE 0

WeightCheck(n, e) == Higher(n.path.weight, e.path.weight)

PrefOf(path) == IF path.pref # None THEN path.pref ELSE LocalPref
LocalPrefCheck(n, e) == Higher(PrefOf(n.path), PrefOf(e.path))

LocalCheck(n, e, sub) == Prefer(n.path.sub = sub, e.path.sub = sub)

PathLength(path) ==
    IF "ASPATH_CONFED" \in config THEN path.hops + path.confeds ELSE path.hops
LengthCheck(n, e) ==
    IF "ASPATH_IGNORE" \in config THEN 0
    ELSE Lower(PathLength(n.path), PathLength(e.path))

OriginCheck(n, e) == Lower(n.path.origin, e.path.origin)

SortCheck(n, e) ==
    LET External(r) == Sort[r.peer] = "EBGP"
        Internal(r) == Sort[r.peer] \in {"IBGP", "CONFED"}
    IN  Prefer(External(n) /\ Internal(e), Internal(n) /\ External(e))

IgpCheck(n, e) == Lower(n.igp, e.igp)

\* Fault: of two external routes the one that is not selected wins.
OldestCheck_newest(n, e) ==
    IF "COMPARE_ROUTER_ID" \notin config /\ Sort[n.peer] = "EBGP" /\ Sort[e.peer] = "EBGP"
    THEN Prefer(e.selected, n.selected) ELSE 0

\* "prefer the path that was received first (the oldest one)": the one that is
\* selected.
OldestCheck(n, e) ==
    IF "COMPARE_ROUTER_ID" \notin config /\ Sort[n.peer] = "EBGP" /\ Sort[e.peer] = "EBGP"
    THEN Prefer(n.selected, e.selected) ELSE 0

IdOf(r) == IF r.path.originator # None THEN r.path.originator ELSE RouterId[r.peer]
RouterIdCheck(n, e) == Lower(IdOf(n), IdOf(e))

ClusterCheck(n, e) == Lower(n.path.cluster, e.path.cluster)

AddressCheck(n, e) == Lower(Address[n.peer], Address[e.peer])

\* Fault: the order of the manual, with MED as the sixth check.
Checks_manual(n, e) ==
    << WeightCheck(n, e), LocalPrefCheck(n, e), LocalCheck(n, e, "STATIC"),
       LocalCheck(n, e, "REDISTRIBUTE"), LocalCheck(n, e, "AGGREGATE"),
       LengthCheck(n, e), OriginCheck(n, e), MedCheck(n, e), SortCheck(n, e),
       IgpCheck(n, e), OldestCheck(n, e), RouterIdCheck(n, e), ClusterCheck(n, e),
       AddressCheck(n, e) >>

Checks(n, e) ==
    << MedCheck(n, e), WeightCheck(n, e), LocalPrefCheck(n, e),
       LocalCheck(n, e, "STATIC"), LocalCheck(n, e, "REDISTRIBUTE"),
       LocalCheck(n, e, "AGGREGATE"), LengthCheck(n, e), OriginCheck(n, e),
       SortCheck(n, e), IgpCheck(n, e), OldestCheck(n, e), RouterIdCheck(n, e),
       ClusterCheck(n, e), AddressCheck(n, e) >>

\* The first check that decides; the new route if none does.
bgp_info_cmp(n, e) ==
    LET checks == Checks(n, e)
        deciding == {i \in DOMAIN checks : checks[i] # 0}
    IN  deciding = {} \/ checks[Min(deciding)] = 1

-----------------------------------------------------------------------------
(***************************************************************************)
(* bgp_best_selection.  Indices are places in the list l; 0 is a NULL      *)
(* new_select.                                                             *)
(***************************************************************************)
Usable(l) == Filter([i \in 1..Len(l) |-> i], {i \in 1..Len(l) : l[i].usable})

\* One pass of comparisons along these places.
Best(l, places) ==
    LET best[n \in 0..Len(places)] ==
            IF n = 0 THEN 0
            ELSE LET old == best[n - 1]
                 IN  IF old = 0 \/ bgp_info_cmp(l[places[n]], l[old]) THEN places[n] ELSE old
    IN  best[Len(places)]

\* Fault: the routes of a group are not marked as checked.
GroupWinners_unchecked(l) ==
    LET Group(i) == {j \in ToSet(Usable(l)) :
                        j >= i /\ (j = i \/ SameNeighbourAS(l[i].path, l[j].path))}
    IN  {Best(l, Filter(Usable(l), Group(i))) : i \in ToSet(Usable(l))}

\* deterministic-med: the best route of each neighbouring AS.  A route that is
\* not checked yet gathers those behind it that share its neighbouring AS.
GroupWinners(l) ==
    LET places == Usable(l)
        Group(i, checked) ==
            Filter(places, {j \in ToSet(places) \ checked :
                               j >= i /\ (j = i \/ SameNeighbourAS(l[i].path, l[j].path))})
        after[n \in 0..Len(places)] ==
            IF n = 0 THEN [checked |-> {}, winners |-> {}]
            ELSE LET acc == after[n - 1]
                     group == Group(places[n], acc.checked)
                 IN  IF places[n] \in acc.checked THEN acc
                     ELSE [checked |-> acc.checked \cup ToSet(group),
                           winners |-> acc.winners \cup {Best(l, group)}]
    IN  after[Len(places)].winners

bgp_best_selection(l) ==
    IF "DETERMINISTIC_MED" \in config
    THEN Best(l, Filter(Usable(l), GroupWinners(l)))
    ELSE Best(l, Usable(l))
=============================================================================
