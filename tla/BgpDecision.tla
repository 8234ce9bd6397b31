---------------------------- MODULE BgpDecision ----------------------------
(***************************************************************************)
(* The decision process of one node (bgpd/bgp_route.c): the linked list of *)
(* its routes, in which new routes go to the head and an update keeps its  *)
(* place, and the selection that BgpSelect makes from it.                  *)
(***************************************************************************)
EXTENDS BgpSelect

CONSTANTS
    Peer,       \* where routes come from: neighbours, and each local source;
                \* each has at most one on the node
    Paths,      \* [Peer -> set of paths the peer may announce]
    NexthopVaries, \* peers whose routes' next hops are looked up in the IGP
    Metrics,    \* the IGP metrics of their next hops
    Configs     \* the settings of the bgp instance flags to look at

Flags == {"ALWAYS_COMPARE_MED", "DETERMINISTIC_MED", "COMPARE_ROUTER_ID",
          "MED_MISSING_AS_WORST", "MED_CONFED", "ASPATH_IGNORE", "ASPATH_CONFED"}

\* "INTERNAL": bgp->peer_self, the source of local routes.
PeerSort == {"EBGP", "IBGP", "CONFED", "INTERNAL"}

SubType == {"NORMAL", "STATIC", "REDISTRIBUTE", "AGGREGATE"}

(***************************************************************************)
(* What the comparison looks at.  The AS path is its two lengths and the   *)
(* first AS of its first plain and of its first confederation segment.     *)
(***************************************************************************)
Path == [med : Nat \cup {None}, weight : Nat, pref : Nat \cup {None},
         sub : SubType, hops : Nat, confeds : Nat,
         left : Nat \cup {None}, leftConfed : Nat \cup {None},
         origin : 0..2, originator : Nat \cup {None}, cluster : Nat]

ASSUME PeerAssumption ==
    /\ Sort \in [Peer -> PeerSort]
    /\ RouterId \in [Peer -> Nat] /\ Address \in [Peer -> Nat]
    /\ \A q, r \in Peer : Address[q] = Address[r] => q = r
ASSUME ConfigAssumption == Configs \subseteq SUBSET Flags
ASSUME NumberAssumption == None \notin Nat /\ MedMax \in Nat /\ LocalPref \in Nat
ASSUME VariesAssumption == NexthopVaries \subseteq Peer /\ Metrics \subseteq Nat
ASSUME PathAssumption == \A q \in Peer : Paths[q] \subseteq Path

\* What is not learned from a neighbour comes from a local source, one for each of
\* the network command, redistribution and aggregates.
ASSUME LocalAssumption ==
    \A q \in Peer : \A path \in Paths[q] :
        /\ path.sub # "NORMAL" <=> Sort[q] = "INTERNAL"
        /\ path.sub # "NORMAL" =>
              \A r \in Peer : (\E other \in Paths[r] : other.sub = path.sub) => r = q

VARIABLES
    list,     \* rn->info, head first
    queued,   \* is the node on the process queue?
    changed   \* history: did a route change since the last selection?

vars == <<config, list, queued, changed>>

(***************************************************************************)
(* A route of the list; usable is ~BGP_INFO_HOLDDOWN, igp extra->igpmetric.*)
(***************************************************************************)
Route == [peer : Peer, path : Path, usable : BOOLEAN, igp : Nat, removed : BOOLEAN,
          selected : BOOLEAN]

\* Types, and a peer has at most one route in the list: bgp_update finds it even
\* when it is REMOVED, and reuses it.
TypeOK ==
    /\ config \in Configs /\ list \in Seq(Route) /\ queued \in BOOLEAN /\ changed \in BOOLEAN
    /\ \A i, j \in DOMAIN list : list[i].peer = list[j].peer => i = j

-----------------------------------------------------------------------------
Init == config \in Configs /\ list = <<>> /\ queued = FALSE /\ changed = FALSE

\* Fault: a route that waits to be reaped is not found.
Entry_live(q) == {i \in DOMAIN list : list[i].peer = q /\ ~list[i].removed}

Entry(q) == {i \in DOMAIN list : list[i].peer = q}

\* The outcomes of the next-hop lookup for a route of q.
bgp_nexthop_lookup(q) ==
    IF q \notin NexthopVaries THEN {[valid |-> TRUE, metric |-> 0]}
    ELSE [valid : {TRUE}, metric : Metrics] \cup {[valid |-> FALSE, metric |-> 0]}

\* A route for a peer that has none: bgp_info_add puts it at the head.
bgp_info_add(q, path, nexthop) ==
    /\ Entry(q) = {}
    /\ list' = <<[peer |-> q, path |-> path, usable |-> nexthop.valid,
                  igp |-> nexthop.metric, removed |-> FALSE, selected |-> FALSE]>> \o list
    /\ queued' = TRUE /\ changed' = TRUE /\ UNCHANGED config

\* An implicit withdraw, or a route that comes back before it was reaped: it
\* keeps its place.
bgp_update_implicit(q, path, nexthop) ==
    /\ \E i \in Entry(q) :
          /\ list[i].removed \/ list[i].path # path
          /\ list' = [list EXCEPT ![i].path = path, ![i].usable = nexthop.valid,
                                  ![i].igp = nexthop.metric, ![i].removed = FALSE]
    /\ queued' = TRUE /\ changed' = TRUE /\ UNCHANGED config

bgp_info_delete(q) ==
    /\ \E i \in Entry(q) :
          /\ ~list[i].removed
          /\ list' = [list EXCEPT ![i].usable = FALSE, ![i].removed = TRUE]
    /\ queued' = TRUE /\ changed' = TRUE /\ UNCHANGED config

\* The routes whose next hops the periodic scan looks up.
Scanned == {i \in DOMAIN list : ~list[i].removed /\ list[i].peer \in NexthopVaries}

\* The scan queues the node whether a next hop changed or not.
bgp_scan(found) ==
    /\ list' = [i \in DOMAIN list |->
                   IF i \in Scanned
                   THEN [list[i] EXCEPT !.usable = found[list[i].peer].valid,
                                        !.igp = found[list[i].peer].metric]
                   ELSE list[i]]
    /\ queued' = (queued \/ list # <<>>)
    /\ changed' = (changed \/ list' # list)
    /\ UNCHANGED config

bgp_process_main ==
    /\ queued
    /\ \E best \in {bgp_best_selection(list)} :
          LET marked == [i \in DOMAIN list |-> [list[i] EXCEPT !.selected = (i = best)]]
          IN  list' = Filter(marked, {r \in ToSet(marked) : ~r.removed})
    /\ queued' = FALSE /\ changed' = FALSE /\ UNCHANGED config

Next ==
    \/ \E q \in Peer :
          \/ bgp_info_delete(q)
          \/ \E path \in Paths[q], nexthop \in bgp_nexthop_lookup(q) :
                bgp_info_add(q, path, nexthop) \/ bgp_update_implicit(q, path, nexthop)
    \/ \E found \in [NexthopVaries -> UNION {bgp_nexthop_lookup(q) : q \in NexthopVaries}] :
          bgp_scan(found)
    \/ bgp_process_main

Spec == Init /\ [][Next]_vars

-----------------------------------------------------------------------------
SelectedAt == {i \in DOMAIN list : list[i].selected}

\* A node that is processed again although none of its routes changed, as
\* bgp_scan makes every node, keeps its best route: no flapping.
Stable ==
    ~changed => SelectedAt = {bgp_best_selection(list)} \ {0}

\* With deterministic-med and compare-routerid the best route does not depend on
\* the order in which the routes arrived, that is on their places in the list.
\* Routes with an empty AS path are left out: they share no neighbouring AS, but
\* their MEDs are compared all the same.
OrderFree ==
    /\ ~changed /\ {"DETERMINISTIC_MED", "COMPARE_ROUTER_ID"} \subseteq config
    /\ \A i \in DOMAIN list : list[i].usable => list[i].path.hops > 0
    =>
        \A f \in Bijection(DOMAIN list, DOMAIN list) :
            LET l == [i \in DOMAIN list |-> list[f[i]]]
            IN  SelectedAt = {f[i] : i \in {bgp_best_selection(l)} \ {0}}

\* "Pick the best-MED path among paths advertised from the neighboring AS": no
\* usable route of the same neighbouring AS has a lower MED than the best one.
BestMedOfNeighbour ==
    ~changed /\ "DETERMINISTIC_MED" \in config =>
        \A i \in SelectedAt, j \in DOMAIN list :
            list[j].usable /\ SameNeighbourAS(list[i].path, list[j].path)
                => bgp_med_value(list[i].path) <= bgp_med_value(list[j].path)

Rank(sub) ==
    CASE sub = "STATIC" -> 0 [] sub = "REDISTRIBUTE" -> 1 [] sub = "AGGREGATE" -> 2
      [] OTHER -> 3

\* The merits of a route in the order of the checks, the better the smaller,
\* up to the check for the oldest route.
Merits(r) ==
    << bgp_med_value(r.path), -r.path.weight, -PrefOf(r.path), Rank(r.path.sub),
       IF "ASPATH_IGNORE" \in config THEN 0 ELSE PathLength(r.path), r.path.origin,
       IF Sort[r.peer] = "EBGP" THEN 0 ELSE 1, r.igp >>

Worse(m1, m2) ==
    \E i \in DOMAIN m1 : m1[i] > m2[i] /\ \A j \in 1..(i - 1) : m1[j] = m2[j]

\* With always-compare-med the best route is best in lexicographic order:
\* the pass over the list, which compares each route only with the best one so
\* far, misses none.
BestOverall ==
    ~changed /\ "ALWAYS_COMPARE_MED" \in config =>
        /\ SelectedAt = {} => \A j \in DOMAIN list : ~list[j].usable
        /\ \A i \in SelectedAt, j \in DOMAIN list :
              list[j].usable => ~Worse(Merits(list[i]), Merits(list[j]))
=============================================================================
