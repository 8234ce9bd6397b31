----------------------------- MODULE BgpNetwork -----------------------------
(***************************************************************************)
(* What I2BGP is for: routers that exchange one prefix and add up, in MED, *)
(* the cost of the path it takes.  The sender's out route-map writes the   *)
(* cost of the link into LOCAL_PREF; the receiver takes the cost of the    *)
(* neighbour from the first LOCAL_PREF it sees and adds it to the MED of   *)
(* every update of that neighbour (bgp_attr_med, bgp_attr_local_pref).     *)
(* MED is then sent on to everyone, and compared before everything else by *)
(* the decision process, which is that of BgpSelect, one per router.       *)
(*                                                                         *)
(* A session carries the messages of one TCP connection in order and loses *)
(* the ones under way when an end closes.  BgpRib models one router's      *)
(* table, clearing and process queue in detail, BgpFsm the session.        *)
(***************************************************************************)
EXTENDS Fifo, FiniteSets, FiniteSetsExt

CONSTANTS
    Router,      \* the routers, numbered by their addresses
    Link,        \* the configured neighbours: a set of pairs of routers
    AS,          \* [Router -> autonomous system]
    Cost,        \* [Link, both ways -> Nat]: LOCAL_PREF the out route-map sets
    RouteMap,    \* the routers with an out route-map for their neighbours
    Base,        \* [origins of the prefix -> Nat]: the MED of the network command
    Options,     \* bgp->flags of every router
    MedRange,    \* one more than the largest MED, 2^32 in the code
    MaxWire,     \* bound: updates under way on a session, one way
    MaxChanges,  \* bound: network commands and connections lost
    Self,        \* bgp->peer_self, the source of the local route
    Withdraw,    \* a withdrawal, among the updates
    None         \* no attribute, nothing scheduled, or an AS that is not there

Neighbours(r) == {q \in Router : <<r, q>> \in Link \/ <<q, r>> \in Link}
Origins == DOMAIN Base

ASSUME RouterAssumption == Router \subseteq Nat /\ IsFiniteSet(Router) /\ Self \notin Router
ASSUME LinkAssumption == Link \subseteq Router \X Router /\ \A r \in Router : <<r, r>> \notin Link
ASSUME CostAssumption ==
    /\ AS \in [Router -> Nat] /\ None \notin Nat
    /\ \A r \in Router : \A q \in Neighbours(r) : Cost[<<r, q>>] \in Nat
    /\ Origins \subseteq Router /\ RouteMap \subseteq Router
    /\ Base \in [Origins -> Nat]
ASSUME NameAssumption ==
    /\ Withdraw # None
    /\ \A x \in {Withdraw, None} : x \notin [med : Nat, pref : Nat, aspath : Seq(Nat), via : Seq(Router)]
ASSUME BoundAssumption == MedRange \in Nat \ {0} /\ MaxWire \in Nat \ {0} /\ MaxChanges \in Nat

VARIABLES
    rib,       \* [Router -> sequence of routes], rn->info, head first
    queued,    \* [Router -> BOOLEAN], is the node on the process queue?
    localMed,  \* [Router -> [neighbour -> Nat]], peer->local_med
    adjOut,    \* [Router -> [neighbour -> AdjOut]], rn->adj_out
    wire,      \* [Router -> [neighbour -> updates sent to it and not read]]
    up,        \* [Router -> neighbours with peer->status = Established]
    changes    \* bound: changes so far

vars == <<rib, queued, localMed, adjOut, wire, up, changes>>

(***************************************************************************)
(* The attributes of a route.  via is history: the routers the route came  *)
(* through, the last one first; the AS path does not tell them within an   *)
(* AS.                                                                     *)
(***************************************************************************)
Same(a, b) == a.med = b.med /\ a.pref = b.pref /\ a.aspath = b.aspath

NoAdj == [attr |-> None, adv |-> None]

peer_sort(r, q) ==
    IF q = Self THEN "INTERNAL" ELSE IF AS[q] = AS[r] THEN "IBGP" ELSE "EBGP"

-----------------------------------------------------------------------------
(***************************************************************************)
(* The node of the prefix.                                                 *)
(***************************************************************************)
\* Fault: a route that waits to be reaped is not found.
Entry_live(r, q) == {i \in DOMAIN rib[r] : rib[r][i].peer = q /\ ~rib[r][i].removed}

Entry(r, q) == {i \in DOMAIN rib[r] : rib[r][i].peer = q}
Live(r, q) == {i \in Entry(r, q) : ~rib[r][i].removed}

\* The neighbours a router has configured, and itself: each has its own struct
\* peer.  Identifiers and addresses are the numbers; those of peer_self are 0.
Peers == {<<r, q>> : r \in Router, q \in Router \cup {Self}}
Number == [p \in Peers |-> IF p[2] = Self THEN 0 ELSE p[2]]

\* bgp->default_local_pref: it stands for a LOCAL_PREF that is not set, in the
\* decision process and in what is announced.
DefaultLocalPref == 100

\* The decision process of every router.
Decision ==
    INSTANCE BgpSelect WITH
        Sort <- [p \in Peers |-> peer_sort(p[1], p[2])],
        RouterId <- Number, Address <- Number,
        MedMax <- MedRange - 1, LocalPref <- DefaultLocalPref, config <- Options

\* A route in the terms of the decision process; BGP_ATTR_DEFAULT_WEIGHT is
\* what a local route weighs.
Decided(r, e) ==
    [peer |-> <<r, e.peer>>, usable |-> ~e.removed, igp |-> 0, removed |-> e.removed,
     selected |-> e.selected,
     path |-> [med |-> e.attr.med, weight |-> IF e.peer = Self THEN 32768 ELSE 0,
               pref |-> e.attr.pref, sub |-> IF e.peer = Self THEN "STATIC" ELSE "NORMAL",
               hops |-> Len(e.attr.aspath), confeds |-> 0,
               left |-> IF e.attr.aspath = <<>> THEN None ELSE Head(e.attr.aspath),
               leftConfed |-> None, origin |-> 0, originator |-> None, cluster |-> 0]]

Listed(r) == [i \in DOMAIN rib[r] |-> Decided(r, rib[r][i])]

\* bgp_update and bgp_static_update once a route is accepted: a new one goes to
\* the head of the list; the same one again changes nothing but ATTR_CHANGED.
Store(r, q, attr) ==
    LET new == [peer |-> q, attr |-> attr, changed |-> FALSE, removed |-> FALSE,
                selected |-> FALSE]
        same == {i \in Live(r, q) : Same(rib[r][i].attr, attr)}
    IN  /\ rib' = [rib EXCEPT ![r] =
                      IF Entry(r, q) = {} THEN <<new>> \o @
                      ELSE [i \in DOMAIN @ |->
                               IF i \notin Entry(r, q) THEN @[i]
                               ELSE IF i \in same
                                    THEN [@[i] EXCEPT !.changed = FALSE]
                                    ELSE [@[i] EXCEPT !.attr = attr, !.changed = TRUE,
                                                      !.removed = FALSE]]]
        /\ queued' = [queued EXCEPT ![r] = @ \/ same = {}]

\* The route of a neighbour, if there is one, is marked and its node queued.
bgp_rib_remove(r, q) ==
    /\ rib' = [rib EXCEPT ![r] = [i \in DOMAIN @ |->
                  IF i \in Live(r, q) THEN [@[i] EXCEPT !.removed = TRUE] ELSE @[i]]]
    /\ queued' = [queued EXCEPT ![r] = @ \/ Live(r, q) # {}]

-----------------------------------------------------------------------------
(***************************************************************************)
(* Announcing.                                                             *)
(***************************************************************************)
\* May route e be announced to q?  Not to the one it came from, and not from one
\* internal neighbour to another (there are no reflectors).
bgp_announce_check(r, q, e) ==
    /\ e.peer # q
    /\ ~(e.peer # Self /\ peer_sort(r, e.peer) = "IBGP" /\ peer_sort(r, q) = "IBGP")

\* The LOCAL_PREF after the out route-map.
RouteMapOut(r, q, e) == IF r \in RouteMap THEN Cost[<<r, q>>] ELSE e.attr.pref

\* The attributes announced to q, the AS prepended as bgp_packet_attribute does
\* when the update is written.
Outgoing(r, q, e) ==
    [med |-> e.attr.med, pref |-> RouteMapOut(r, q, e),
     aspath |-> IF peer_sort(r, q) = "EBGP" THEN <<AS[r]>> \o e.attr.aspath ELSE e.attr.aspath,
     via |-> <<r>> \o e.attr.via]

bgp_adj_out_set(adj, attr) == [adj EXCEPT !.adv = attr]
bgp_adj_out_unset(adj) == IF adj.attr = None THEN NoAdj ELSE [adj EXCEPT !.adv = Withdraw]

\* bgp_process_announce_selected for every neighbour; best is 0 when there is no
\* route.
Announced(r, best) ==
    [q \in Neighbours(r) |->
        IF q \notin up[r] THEN adjOut[r][q]
        ELSE IF best # 0 /\ bgp_announce_check(r, q, rib[r][best])
             THEN bgp_adj_out_set(adjOut[r][q], Outgoing(r, q, rib[r][best]))
             ELSE bgp_adj_out_unset(adjOut[r][q])]

Selected(r) == {i \in DOMAIN rib[r] : rib[r][i].selected}

\* bgp_info_reap of the routes that were removed.
Reaped(routes) == Filter(routes, {e \in ToSet(routes) : ~e.removed})

\* The decision process of r.  Nothing happens when the selected route stays and
\* its attributes have not changed.
bgp_process_main(r) ==
    /\ queued[r]
    /\ \E best \in 0..Len(rib[r]) :
          LET same == best \in Selected(r) /\ ~rib[r][best].changed
              marked == [i \in DOMAIN rib[r] |->
                            [rib[r][i] EXCEPT !.selected = (i = best),
                                              !.changed = (@ /\ i # best)]]
          IN  /\ best = Decision!bgp_best_selection(Listed(r))
              /\ rib' = [rib EXCEPT ![r] = Reaped(IF same THEN @ ELSE marked)]
              /\ adjOut' = IF same THEN adjOut ELSE [adjOut EXCEPT ![r] = Announced(r, best)]
    /\ queued' = [queued EXCEPT ![r] = FALSE]
    /\ UNCHANGED <<localMed, wire, up, changes>>

\* Fault: an advertisement that was written is not taken off the FIFO.
bgp_write_kept(r, q) ==
    /\ q \in up[r] /\ adjOut[r][q].adv # None /\ Len(wire[r][q]) < MaxWire
    /\ wire' = [wire EXCEPT ![r][q] = Append(@, adjOut[r][q].adv)]
    /\ adjOut' = [adjOut EXCEPT ![r][q].attr = adjOut[r][q].adv]
    /\ UNCHANGED <<rib, queued, localMed, up, changes>>

\* bgp_write: what is scheduled for q goes onto the connection.
bgp_write(r, q) ==
    /\ q \in up[r] /\ adjOut[r][q].adv # None /\ Len(wire[r][q]) < MaxWire
    /\ LET adv == adjOut[r][q].adv
       IN  /\ wire' = [wire EXCEPT ![r][q] = Append(@, adv)]
           /\ adjOut' = [adjOut EXCEPT ![r][q] =
                            IF adv = Withdraw THEN NoAdj ELSE [attr |-> adv, adv |-> None]]
    /\ UNCHANGED <<rib, queued, localMed, up, changes>>

-----------------------------------------------------------------------------
(***************************************************************************)
(* Receiving.  MED is parsed before LOCAL_PREF, as bgp_packet_attribute    *)
(* writes them.                                                            *)
(***************************************************************************)
\* Fault: the update that tells the cost is not charged.
bgp_attr_parse_uncharged(known, wired) ==
    [cost |-> IF known = 0 THEN wired.pref ELSE known,
     attr |-> [wired EXCEPT !.med = (@ + known) % MedRange]]

\* bgp_attr_med adds the known cost; bgp_attr_local_pref takes it from this update
\* when there is none yet.
bgp_attr_parse(known, wired) ==
    LET cost == IF known = 0 THEN wired.pref ELSE known
    IN  [cost |-> cost, attr |-> [wired EXCEPT !.med = (@ + cost) % MedRange]]

\* The process queue holds a node for 50 ms and a neighbour repeats an update only
\* after its advertisement interval, so a neighbour's route is processed before
\* the next update of that neighbour is read.
Processed(r, q) == queued[r] => \A i \in Entry(r, q) : ~rib[r][i].changed

aspath_loop_check(r, attr) == \E i \in DOMAIN attr.aspath : attr.aspath[i] = AS[r]

\* r reads an update of q.  A filtered route is removed, but its LOCAL_PREF counts.
bgp_update_receive(r, q) ==
    /\ q \in up[r] /\ wire[q][r] # <<>> /\ Processed(r, q)
    /\ LET msg == Head(wire[q][r])
           parsed == bgp_attr_parse(localMed[r][q], msg)
       IN  IF msg = Withdraw
           THEN bgp_rib_remove(r, q) /\ UNCHANGED localMed
           ELSE /\ localMed' = [localMed EXCEPT ![r][q] = parsed.cost]
                /\ IF aspath_loop_check(r, parsed.attr) THEN bgp_rib_remove(r, q)
                   ELSE Store(r, q, parsed.attr)
    /\ wire' = [wire EXCEPT ![q][r] = Tail(@)]
    /\ UNCHANGED <<adjOut, up, changes>>

-----------------------------------------------------------------------------
(***************************************************************************)
(* The network command, and sessions that end and start again.             *)
(***************************************************************************)
Change == changes < MaxChanges /\ changes' = changes + 1

bgp_static_update(r) ==
    /\ r \in Origins /\ Live(r, Self) = {} /\ Change
    /\ Store(r, Self, [med |-> Base[r] % MedRange, pref |-> DefaultLocalPref, aspath |-> <<>>,
                       via |-> <<>>])
    /\ UNCHANGED <<localMed, adjOut, wire, up>>

bgp_static_withdraw(r) ==
    /\ r \in Origins /\ Live(r, Self) # {} /\ Change
    /\ bgp_rib_remove(r, Self)
    /\ UNCHANGED <<localMed, adjOut, wire, up>>

\* r's end of the session with q stops: bgp_clear_route drops the routes of q and
\* what was to be announced to it.  local_med stays.
Stop(r, q) ==
    /\ up' = [up EXCEPT ![r] = @ \ {q}]
    /\ bgp_rib_remove(r, q)
    /\ adjOut' = [adjOut EXCEPT ![r][q] = NoAdj]
    /\ wire' = [wire EXCEPT ![q][r] = <<>>]
    /\ UNCHANGED localMed

\* The connection is lost, and r notices.
Lost(r, q) == q \in up[r] /\ r \in up[q] /\ Change /\ Stop(r, q)

\* The other end notices later.
Noticed(r, q) == q \in up[r] /\ r \notin up[q] /\ Stop(r, q) /\ UNCHANGED changes

\* Fault: the table is not announced when a session starts.
bgp_announce_table_none(r, q) == adjOut[r][q]

bgp_announce_table(r, q) ==
    IF \E i \in Selected(r) : bgp_announce_check(r, q, rib[r][i])
    THEN LET i == CHOOSE i \in Selected(r) : TRUE
         IN  bgp_adj_out_set(adjOut[r][q], Outgoing(r, q, rib[r][i]))
    ELSE adjOut[r][q]

\* Both ends reach Established on a new connection, the routes of the old one
\* being gone: Clearing ends only then.
bgp_establish(r, q) ==
    /\ q \in Neighbours(r) /\ r < q /\ q \notin up[r] /\ r \notin up[q]
    /\ up' = [up EXCEPT ![r] = @ \cup {q}, ![q] = @ \cup {r}]
    /\ wire' = [wire EXCEPT ![r][q] = <<>>, ![q][r] = <<>>]
    /\ adjOut' = [adjOut EXCEPT ![r][q] = bgp_announce_table(r, q),
                                ![q][r] = bgp_announce_table(q, r)]
    /\ UNCHANGED <<rib, queued, localMed, changes>>

-----------------------------------------------------------------------------
Init ==
    /\ rib = [r \in Router |-> <<>>] /\ queued = [r \in Router |-> FALSE]
    /\ localMed = [r \in Router |-> [q \in Neighbours(r) |-> 0]]
    /\ adjOut = [r \in Router |-> [q \in Neighbours(r) |-> NoAdj]]
    /\ wire = [r \in Router |-> [q \in Neighbours(r) |-> <<>>]]
    /\ up = [r \in Router |-> {}] /\ changes = 0

\* What the connections do by themselves.
Transport ==
    \E r \in Router : \E q \in Neighbours(r) :
       bgp_write(r, q) \/ bgp_update_receive(r, q) \/ Noticed(r, q) \/ bgp_establish(r, q)

\* What comes from outside.
Disturbance ==
    \E r \in Router :
       bgp_static_update(r) \/ bgp_static_withdraw(r) \/ \E q \in Neighbours(r) : Lost(r, q)

Next == Transport \/ (\E r \in Router : bgp_process_main(r)) \/ Disturbance

\* The work queue runs: weak fairness of bgp_process_main(r), which is enabled
\* as long as queued[r] holds and is the only step to end that.
QueueRuns == \A r \in Router : []<>~queued[r]

\* Something that can happen on some connection happens; no connection need be
\* treated fairly.
Spec == Init /\ [][Next]_vars /\ WF_vars(Transport) /\ QueueRuns

\* Every thread of every router gets its turn, TCP delivers, a lost connection is
\* noticed by the hold timer and opened again by the start and connect timers.
FairSpec ==
    /\ Init /\ [][Next]_vars /\ QueueRuns
    /\ \A r \in Router : \A q \in Neighbours(r) :
          /\ WF_vars(bgp_write(r, q)) /\ WF_vars(bgp_update_receive(r, q))
          /\ WF_vars(Noticed(r, q)) /\ WF_vars(bgp_establish(r, q))

-----------------------------------------------------------------------------
\* Types, and a neighbour has at most one route in the list, removed ones included.
TypeOK ==
    /\ \A r \in Router :
          /\ \A i \in DOMAIN rib[r] :
                /\ rib[r][i].peer \in Neighbours(r) \cup {Self}
                /\ rib[r][i].attr.med \in 0..(MedRange - 1)
                /\ \A j \in DOMAIN rib[r] : rib[r][i].peer = rib[r][j].peer => i = j
          /\ up[r] \subseteq Neighbours(r)
    /\ queued \in [Router -> BOOLEAN] /\ changes \in 0..MaxChanges

\* The cost of a path, given as the routers it goes through from a router back to
\* the origin: the origin's MED and the cost of each link.
CostOf(path) ==
    LET n == Len(path)
        sum[k \in 1..n] ==
            IF k = 1 THEN Base[path[n]]
            ELSE sum[k - 1] + Cost[<<path[n - k + 2], path[n - k + 1]>>]
    IN  sum[n]

\* MED is the cost of the path: every route of every router carries the origin's
\* MED plus the cost of each link it came over, each charged once, whatever
\* sessions were lost and updates rejected since local_med was learned.
PathCost ==
    \A r \in Router : \A i \in DOMAIN rib[r] :
        rib[r][i].attr.med = CostOf(<<r>> \o rib[r][i].attr.via) % MedRange

\* Nothing is waiting anywhere.
Settled ==
    \A r \in Router :
        /\ ~queued[r]
        /\ \A q \in Neighbours(r) :
              /\ q \in up[r] <=> r \in up[q]
              /\ q \in up[r] => adjOut[r][q].adv = None /\ wire[r][q] = <<>>

\* The paths a route may take to a router: over links whose sessions are up, into
\* no AS twice, and over at most one link within an AS.
PathsTo(r) ==
    {path \in UNION {[1..n -> Router] : n \in 1..Cardinality(Router)} :
        /\ path[1] = r
        /\ \A i \in 1..(Len(path) - 1) : path[i + 1] \in up[path[i]]
        /\ \A i, j \in 1..Len(path) :
              i < j /\ AS[path[i]] = AS[path[j]] => j = i + 1 /\ path[i] # path[j]
        /\ Live(path[Len(path)], Self) # {}}

\* What the decision is for: once nothing is waiting, each router that has a path
\* to the prefix has selected a route of the least cost of all paths there are,
\* and the others have selected none.
SettledIsShortest ==
    Settled => \A r \in Router :
        /\ Selected(r) = {} <=> PathsTo(r) = {}
        /\ \A i \in Selected(r) :
              rib[r][i].attr.med = Min({CostOf(path) : path \in PathsTo(r)})

\* When changes stop, the routers settle, with every session up.
Converges == <>[](Settled /\ \A r \in Router : up[r] = Neighbours(r))
=============================================================================
