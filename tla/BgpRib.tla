------------------------------- MODULE BgpRib -------------------------------
(***************************************************************************)
(* The main routing table of one bgpd instance, for one address family,    *)
(* and the life of a route in it: announced, replaced, repeated, filtered  *)
(* or withdrawn by a peer; invalidated by the next-hop scan; kept stale    *)
(* over a graceful restart; queued, selected and announced by the process  *)
(* queue; cleared when the peer's session ends.                            *)
(*                                                                         *)
(* bgpd is one thread that runs callbacks: packet reads, timers, FSM       *)
(* events and work queue items.  Each action is one such callback, and the *)
(* state left between two callbacks is what the others see.                *)
(***************************************************************************)
EXTENDS BgpInfo, FiniteSets

CONSTANTS
    Peer,           \* the configured neighbours
    NoPeer,         \* no route selected
    Prefix,         \* the destinations (struct bgp_node)
    InPolicy,       \* [Peer -> [Attr -> Attr or NoAttr]]: loop checks, input
                    \* filters and route-map; NoAttr when the route is denied
    OutPolicy,      \* the same for bgp_announce_check towards a peer
    Pmax,           \* neighbor maximum-prefix
    SoftReconfig,   \* peers with soft-reconfiguration inbound
    Graceful,       \* peers that advertise the graceful restart capability
    NexthopVaries,  \* peers whose routes' next hops may become unreachable
    EarlyRepeats,   \* may a peer repeat an announcement that still waits on
                    \* the process queue?
    SlowClearing,   \* may t_gr_stale expire before clear_node_queue is empty?
    Withdraw,       \* a withdrawal waiting to be sent
    MaxQueue        \* bound: the outside world adds no work for a node with
                    \* this many entries on the process queue

ASSUME NoPeerAssumption == NoPeer \notin Peer
ASSUME PrefixAssumption == IsFiniteSet(Prefix)
ASSUME PolicyAssumption ==
    /\ InPolicy \in [Peer -> [Attr -> Attr \cup {NoAttr}]]
    /\ OutPolicy \in [Peer -> [Attr -> Attr \cup {NoAttr}]]
ASSUME PmaxAssumption == Pmax \in [Peer -> Nat]
ASSUME PeerSetsAssumption ==
    /\ SoftReconfig \subseteq Peer
    /\ Graceful \subseteq Peer
    /\ NexthopVaries \subseteq Peer
ASSUME WithdrawAssumption == Withdraw \notin Attr \cup {NoAttr}
ASSUME BoundAssumption ==
    EarlyRepeats \in BOOLEAN /\ SlowClearing \in BOOLEAN /\ MaxQueue \in Nat

VARIABLES
    status,      \* peer->status; "OpenSent" also stands for OpenConfirm
    rib,         \* rib[p][q]: the bgp_info of peer q on node p
    pcount,      \* peer->pcount
    adjIn,       \* adjIn[p][q]: the attributes as received from q
    adjOut,      \* adjOut[p][q]: what was sent to q, and what is to be sent
    scheduled,   \* number of entries of a node on process_main_queue
    clearq,      \* clearq[q]: the nodes on q's clear_node_queue
    events,      \* FSM events waiting for a peer
    nsf,         \* peers with peer->nsf set
    nsfWait,     \* peers with PEER_STATUS_NSF_WAIT
    staleTimer,  \* peers with t_gr_stale running
    prefixLimit, \* peers with PEER_STATUS_PREFIX_LIMIT
    overflow,    \* peers with PEER_STATUS_PREFIX_OVERFLOW
    fib          \* the route last given to zebra

ribVars == <<rib, pcount, scheduled>>
grVars == <<nsf, nsfWait, staleTimer>>
limitVars == <<prefixLimit, overflow>>
adjVars == <<adjIn, adjOut>>
vars == <<status, ribVars, adjVars, clearq, events, grVars, limitVars, fib>>

Status == {"Idle", "OpenSent", "Established", "Clearing"}
Event == {"BGP_Stop", "Clearing_Completed"}

(***************************************************************************)
(* An adjacency in adj_out: attr is what the peer has been told, adv the   *)
(* advertisement that waits in one of the peer's FIFOs.                    *)
(***************************************************************************)
AdjOut == [attr : Attr \cup {NoAttr}, adv : Attr \cup {NoAttr, Withdraw}]
NoAdjOut == [attr |-> NoAttr, adv |-> NoAttr]

TypeOK ==
    /\ status \in [Peer -> Status]
    /\ rib \in [Prefix -> [Peer -> Info]]
    /\ pcount \in [Peer -> Nat]
    /\ adjIn \in [Prefix -> [Peer -> Attr \cup {NoAttr}]]
    /\ adjOut \in [Prefix -> [Peer -> AdjOut]]
    /\ scheduled \in [Prefix -> Nat]
    /\ clearq \in [Peer -> SUBSET Prefix]
    /\ events \in [Peer -> SUBSET Event]
    /\ nsf \subseteq Peer /\ nsfWait \subseteq Peer /\ staleTimer \subseteq Peer
    /\ prefixLimit \subseteq Peer /\ overflow \subseteq Peer
    /\ fib \in [Prefix -> Attr \cup {NoAttr}]

Init ==
    /\ status = [q \in Peer |-> "Idle"]
    /\ rib = [p \in Prefix |-> [q \in Peer |-> NoInfo]]
    /\ pcount = [q \in Peer |-> 0]
    /\ adjIn = [p \in Prefix |-> [q \in Peer |-> NoAttr]]
    /\ adjOut = [p \in Prefix |-> [q \in Peer |-> NoAdjOut]]
    /\ scheduled = [p \in Prefix |-> 0]
    /\ clearq = [q \in Peer |-> {}]
    /\ events = [q \in Peer |-> {}]
    /\ nsf = {} /\ nsfWait = {} /\ staleTimer = {}
    /\ prefixLimit = {} /\ overflow = {}
    /\ fib = [p \in Prefix |-> NoAttr]

-----------------------------------------------------------------------------
(***************************************************************************)
(* Shared pieces of the callbacks.                                         *)
(***************************************************************************)

\* Is there room on the process queue for one more entry of node p?
Room(p) == scheduled[p] < MaxQueue

\* bgp_process: BGP_NODE_PROCESS_SCHEDULED is tested but never set, so every
\* call adds an entry.
bgp_process(p) == scheduled' = [scheduled EXCEPT ![p] = @ + 1]

\* The route of q on p with the prefix count of q, as the flag operators
\* take it, and the assignment of their result.
Route(p, q) == [ri |-> rib[p][q], pc |-> pcount[q]]

SetRoute(p, q, x) ==
    /\ rib' = [rib EXCEPT ![p][q] = x.ri]
    /\ pcount' = [pcount EXCEPT ![q] = x.pc]

\* Fault: the node of a removed route is not queued.
bgp_rib_remove_unqueued(p, q) ==
    /\ SetRoute(p, q, bgp_info_delete(Route(p, q)))
    /\ UNCHANGED scheduled

bgp_rib_remove(p, q) ==
    /\ SetRoute(p, q, bgp_info_delete(Route(p, q)))
    /\ bgp_process(p)

\* The outcomes of the next-hop check of a route of q.
Reachable(q) == IF q \in NexthopVaries THEN BOOLEAN ELSE {TRUE}

CheckNexthop(x, reachable) ==
    IF reachable THEN bgp_info_set_flag(x, "VALID")
                 ELSE bgp_info_unset_flag(x, "VALID")

\* bgp_adj_in_set, for a peer with soft-reconfiguration inbound.
bgp_adj_in_set(p, q, attr) ==
    adjIn' = IF q \in SoftReconfig THEN [adjIn EXCEPT ![p][q] = attr] ELSE adjIn

\* bgp_announce_check: never back to the peer the route came from.
bgp_announce_check(from, attr, to) ==
    IF from = to THEN NoAttr ELSE OutPolicy[to][attr]

\* Fault: taking back what was sent only cancels the waiting advertisement.
bgp_adj_out_unset_silent(adj) == [adj EXCEPT !.adv = NoAttr]

\* bgp_adj_out_set replaces the waiting advertisement; bgp_adj_out_unset
\* queues a withdrawal, or forgets an adjacency that was never sent.
bgp_adj_out_set(adj, attr) == [adj EXCEPT !.adv = attr]
bgp_adj_out_unset(adj) ==
    IF adj.attr # NoAttr THEN [adj EXCEPT !.adv = Withdraw] ELSE NoAdjOut

\* The adjacency of peer `to` once a route with attributes attr, learned from
\* `from`, is its best one (NoPeer: there is none).
Announce(adj, from, attr, to) ==
    LET out == IF from = NoPeer THEN NoAttr ELSE bgp_announce_check(from, attr, to)
    IN  IF out # NoAttr THEN bgp_adj_out_set(adj, out) ELSE bgp_adj_out_unset(adj)

-----------------------------------------------------------------------------
(***************************************************************************)
(* UPDATE messages (bgp_update_main, bgp_withdraw).                        *)
(***************************************************************************)

\* UPDATEs of q are read: the session is up and q has not closed it.  They are
\* still read when a BGP_Stop of ours is waiting.
Readable(q) == status[q] = "Established" /\ q \notin nsfWait

\* Does q announce what its route on p already says?
Duplicate(p, q, attr) ==
    /\ Present(rib[p][q])
    /\ ~Has(rib[p][q], "REMOVED")
    /\ rib[p][q].attr = attr

\* "filtered": the route, if there is one, is removed.
bgp_update_filtered(p, q, attr) ==
    /\ Readable(q) /\ Room(p)
    /\ InPolicy[q][attr] = NoAttr
    /\ bgp_adj_in_set(p, q, attr)
    /\ IF Present(rib[p][q]) THEN bgp_rib_remove(p, q) ELSE UNCHANGED ribVars
    /\ UNCHANGED <<status, adjOut, clearq, events, grVars, limitVars, fib>>

\* "Same attribute comes in": the pending-change flag is dropped, and a stale
\* route is no longer stale.
bgp_update_duplicate(p, q, attr) ==
    /\ Readable(q) /\ Room(p)
    /\ InPolicy[q][attr] # NoAttr
    /\ Duplicate(p, q, InPolicy[q][attr])
    /\ EarlyRepeats \/ scheduled[p] = 0
    /\ bgp_adj_in_set(p, q, attr)
    /\ LET x == bgp_info_unset_flag(Route(p, q), "ATTR_CHANGED")
       IN  IF Has(rib[p][q], "STALE")
           THEN SetRoute(p, q, bgp_info_unset_flag(x, "STALE")) /\ bgp_process(p)
           ELSE SetRoute(p, q, x) /\ UNCHANGED scheduled
    /\ UNCHANGED <<status, adjOut, clearq, events, grVars, limitVars, fib>>

\* Fault: the change of attributes is not flagged.
Replaced_unflagged(x, attr) ==
    LET restored == IF Has(x.ri, "REMOVED") THEN bgp_info_restore(x) ELSE x
        fresh == bgp_info_unset_flag(restored, "STALE")
    IN  [fresh EXCEPT !.ri.attr = attr]

\* The route x with new attributes; one that is waiting to be reaped is
\* restored first.
Replaced(x, attr) ==
    LET restored == IF Has(x.ri, "REMOVED") THEN bgp_info_restore(x) ELSE x
        fresh == bgp_info_unset_flag(restored, "STALE")
        changed == bgp_info_set_flag(fresh, "ATTR_CHANGED")
    IN  [changed EXCEPT !.ri.attr = attr]

\* Implicit withdraw: the existing route takes the new attributes.
bgp_update_implicit(p, q, attr, reachable) ==
    /\ Readable(q) /\ Room(p)
    /\ InPolicy[q][attr] # NoAttr
    /\ Present(rib[p][q])
    /\ ~Duplicate(p, q, InPolicy[q][attr])
    /\ bgp_adj_in_set(p, q, attr)
    /\ SetRoute(p, q, CheckNexthop(Replaced(Route(p, q), InPolicy[q][attr]), reachable))
    /\ bgp_process(p)
    /\ UNCHANGED <<status, adjOut, clearq, events, grVars, limitVars, fib>>

\* A route for a prefix the peer had none for.  Exceeding maximum-prefix sends
\* a NOTIFICATION, which queues BGP_Stop, and the node is not processed.
bgp_update_new(p, q, attr, reachable) ==
    /\ Readable(q) /\ Room(p)
    /\ InPolicy[q][attr] # NoAttr
    /\ ~Present(rib[p][q])
    /\ bgp_adj_in_set(p, q, attr)
    /\ LET new == [attr |-> InPolicy[q][attr], flags |-> {}]
           x == CheckNexthop([ri |-> new, pc |-> pcount[q]], reachable)
       IN  /\ SetRoute(p, q, x)
           /\ \/ /\ x.pc > Pmax[q] /\ q \notin prefixLimit
                 /\ prefixLimit' = prefixLimit \cup {q}
                 /\ overflow' = overflow \cup {q}
                 /\ events' = [events EXCEPT ![q] = @ \cup {"BGP_Stop"}]
                 /\ UNCHANGED scheduled
              \/ /\ x.pc > Pmax[q] /\ q \in prefixLimit
                 /\ bgp_process(p)
                 /\ UNCHANGED <<limitVars, events>>
              \/ /\ x.pc <= Pmax[q]
                 /\ prefixLimit' = prefixLimit \ {q}
                 /\ bgp_process(p)
                 /\ UNCHANGED <<overflow, events>>
    /\ UNCHANGED <<status, adjOut, clearq, grVars, fib>>

bgp_withdraw(p, q) ==
    /\ Readable(q) /\ Room(p)
    /\ adjIn' = [adjIn EXCEPT ![p][q] = NoAttr]
    /\ IF Present(rib[p][q]) THEN bgp_rib_remove(p, q) ELSE UNCHANGED ribVars
    /\ UNCHANGED <<status, adjOut, clearq, events, grVars, limitVars, fib>>

-----------------------------------------------------------------------------
(***************************************************************************)
(* The process queue (bgp_best_selection, bgp_process_main).               *)
(***************************************************************************)

\* The route that carries BGP_INFO_SELECTED.
old_select(p) ==
    IF \E q \in Peer : Has(rib[p][q], "SELECTED")
    THEN CHOOSE q \in Peer : Has(rib[p][q], "SELECTED")
    ELSE NoPeer

\* The routes bgp_info_cmp may leave as the best one: any that is not held
\* down.  Module BgpDecision models the comparison itself.
new_select(p) ==
    IF \E q \in Peer : Usable(rib[p][q])
    THEN {q \in Peer : Usable(rib[p][q])}
    ELSE {NoPeer}

\* Fault: nothing is reaped.
Reaped_never(p) == rib[p]

\* The node after bgp_best_selection: REMOVED routes are reaped, except the
\* one that is still selected.
Reaped(p) ==
    [q \in Peer |-> IF Has(rib[p][q], "REMOVED") /\ q # old_select(p)
                    THEN NoInfo ELSE rib[p][q]]

\* Fault: the former best route stays SELECTED.
Selected_both(p, new) ==
    [q \in Peer |->
        IF q = new
        THEN [rib[p][q] EXCEPT !.flags = (@ \cup {"SELECTED"}) \ {"ATTR_CHANGED"}]
        ELSE IF q = old_select(p) /\ Has(rib[p][q], "REMOVED") THEN NoInfo
             ELSE Reaped(p)[q]]

\* The node once `new` is selected in place of old_select(p).
Selected(p, new) ==
    [q \in Peer |->
        IF q = new
        THEN [rib[p][q] EXCEPT !.flags = (@ \cup {"SELECTED"}) \ {"ATTR_CHANGED"}]
        ELSE IF q = old_select(p)
             THEN IF Has(rib[p][q], "REMOVED") THEN NoInfo
                  ELSE [rib[p][q] EXCEPT !.flags = @ \ {"SELECTED"}]
             ELSE Reaped(p)[q]]

NothingToDo(p, new) ==
    /\ new # NoPeer
    /\ old_select(p) = new
    /\ ~Has(rib[p][new], "ATTR_CHANGED")

bgp_process_main_same(p, new) ==
    /\ NothingToDo(p, new)
    /\ rib' = [rib EXCEPT ![p] = Reaped(p)]
    /\ fib' = IF Has(rib[p][new], "IGP_CHANGED")
              THEN [fib EXCEPT ![p] = rib[p][new].attr] ELSE fib
    /\ UNCHANGED adjOut

\* The attributes of the route of `new`; NoAttr if there is none.
AttrOf(p, new) == IF new = NoPeer THEN NoAttr ELSE rib[p][new].attr

\* Fault: zebra is not told when the last route goes.
FibUpdate_addonly(p, new) ==
    IF new # NoPeer THEN [fib EXCEPT ![p] = AttrOf(p, new)] ELSE fib

\* bgp_zebra_announce, or bgp_zebra_withdraw for the route that goes.
FibUpdate(p, new) ==
    IF new # NoPeer \/ old_select(p) # NoPeer
    THEN [fib EXCEPT ![p] = AttrOf(p, new)] ELSE fib

bgp_process_main_select(p, new) ==
    /\ ~NothingToDo(p, new)
    /\ rib' = [rib EXCEPT ![p] = Selected(p, new)]
    /\ adjOut' = [adjOut EXCEPT ![p] =
          [q \in Peer |-> IF status[q] = "Established"
                          THEN Announce(adjOut[p][q], new, AttrOf(p, new), q)
                          ELSE adjOut[p][q]]]
    /\ fib' = FibUpdate(p, new)

bgp_process_main(p) ==
    /\ scheduled[p] > 0
    /\ scheduled' = [scheduled EXCEPT ![p] = @ - 1]
    /\ \E new \in new_select(p) :
          bgp_process_main_same(p, new) \/ bgp_process_main_select(p, new)
    /\ UNCHANGED <<status, pcount, adjIn, clearq, events, grVars, limitVars>>

-----------------------------------------------------------------------------
(***************************************************************************)
(* bgp_write: withdrawals first, then updates.                             *)
(***************************************************************************)

\* Before Established only withdrawals can go out: synctime is 0, so no
\* update is old enough.
bgp_withdraw_packet(p, q) ==
    /\ status[q] \in {"OpenSent", "Established"}
    /\ adjOut[p][q].adv = Withdraw
    /\ adjOut' = [adjOut EXCEPT ![p][q] = NoAdjOut]
    /\ UNCHANGED <<status, ribVars, adjIn, clearq, events, grVars, limitVars, fib>>

bgp_update_packet(p, q) ==
    /\ status[q] = "Established"
    /\ \A r \in Prefix : adjOut[r][q].adv # Withdraw
    /\ adjOut[p][q].adv \in Attr
    /\ adjOut' = [adjOut EXCEPT ![p][q] = [attr |-> @.adv, adv |-> NoAttr]]
    /\ UNCHANGED <<status, ribVars, adjIn, clearq, events, grVars, limitVars, fib>>

-----------------------------------------------------------------------------
(***************************************************************************)
(* Graceful restart (bgp_clear_stale_route and the two timers).            *)
(***************************************************************************)

\* bgp_clear_stale_route: every stale route of q is removed, and its node
\* queued.
StaleNodes(q) == {p \in Prefix : Present(rib[p][q]) /\ Has(rib[p][q], "STALE")}

bgp_clear_stale_route(q) ==
    LET gone == StaleNodes(q)
        counted == {p \in gone : Has(rib[p][q], "COUNTED")}
    IN  /\ rib' = [p \in Prefix |->
                      IF p \in gone
                      THEN [rib[p] EXCEPT ![q] = bgp_info_delete(Route(p, q)).ri]
                      ELSE rib[p]]
        /\ pcount' = [pcount EXCEPT ![q] =
                         IF @ >= Cardinality(counted) THEN @ - Cardinality(counted) ELSE 0]
        /\ scheduled' = [p \in Prefix |->
                            IF p \in gone THEN scheduled[p] + 1 ELSE scheduled[p]]

\* The restart timer runs from bgp_stop until the session is back.
bgp_graceful_restart_timer_expire(q) ==
    /\ q \in nsfWait /\ status[q] # "Established"
    /\ IF q \in nsf THEN bgp_clear_stale_route(q) ELSE UNCHANGED ribVars
    /\ nsfWait' = nsfWait \ {q}
    /\ staleTimer' = staleTimer \ {q}
    /\ UNCHANGED <<status, adjVars, clearq, events, nsf, limitVars, fib>>

bgp_graceful_stale_timer_expire(q) ==
    /\ q \in staleTimer
    /\ SlowClearing \/ clearq[q] = {}
    /\ IF q \in nsf THEN bgp_clear_stale_route(q) ELSE UNCHANGED ribVars
    /\ staleTimer' = staleTimer \ {q}
    /\ UNCHANGED <<status, adjVars, clearq, events, nsf, nsfWait, limitVars, fib>>

\* End-of-RIB from a restarted peer.
bgp_update_receive_eor(q) ==
    /\ Readable(q)
    /\ q \in nsf /\ StaleNodes(q) # {}
    /\ \A p \in Prefix : Room(p)
    /\ bgp_clear_stale_route(q)
    /\ UNCHANGED <<status, adjVars, clearq, events, grVars, limitVars, fib>>

-----------------------------------------------------------------------------
(***************************************************************************)
(* Sessions (bgp_fsm.c), reduced to what the table sees of them.           *)
(***************************************************************************)

\* The peer answers a connection: OPEN is sent.
bgp_open_send(q) ==
    /\ status[q] = "Idle" /\ q \notin overflow
    /\ status' = [status EXCEPT ![q] = "OpenSent"]
    /\ UNCHANGED <<ribVars, adjVars, clearq, events, grVars, limitVars, fib>>

\* The attempt fails: bgp_stop, and back to Idle without clearing.
bgp_stop_unestablished(q) ==
    /\ status[q] = "OpenSent"
    /\ status' = [status EXCEPT ![q] = "Idle"]
    /\ events' = [events EXCEPT ![q] = {}]
    /\ prefixLimit' = prefixLimit \ {q}
    /\ UNCHANGED <<ribVars, adjVars, clearq, grVars, overflow, fib>>

\* bgp_announce_route: the selected routes learned from other peers.
bgp_announce_table(q) ==
    adjOut' = [p \in Prefix |->
        [adjOut[p] EXCEPT ![q] =
            IF old_select(p) \in Peer \ {q}
            THEN Announce(@, old_select(p), rib[p][old_select(p)].attr, q)
            ELSE @]]

\* bgp_establish: a peer that restarted without keeping its forwarding state,
\* or without the capability, loses its stale routes.
bgp_establish(q, capable, preserved) ==
    /\ status[q] = "OpenSent"
    /\ \A p \in Prefix : Room(p)
    /\ status' = [status EXCEPT ![q] = "Established"]
    /\ nsfWait' = nsfWait \ {q}
    /\ IF q \in nsf /\ ~(capable /\ preserved)
       THEN bgp_clear_stale_route(q) ELSE UNCHANGED ribVars
    /\ nsf' = IF capable THEN nsf \cup {q} ELSE nsf \ {q}
    /\ staleTimer' = IF capable THEN staleTimer ELSE staleTimer \ {q}
    /\ bgp_announce_table(q)
    /\ UNCHANGED <<adjIn, clearq, events, limitVars, fib>>

\* A ROUTE-REFRESH, or clear ip bgp soft out.
bgp_announce_route(q) ==
    /\ status[q] = "Established"
    /\ bgp_announce_table(q)
    /\ UNCHANGED <<status, ribVars, adjIn, clearq, events, grVars, limitVars, fib>>

\* The connection is lost or reset; an NSF-capable peer that closes it is
\* waited for.
session_lost(q, closed) ==
    /\ status[q] = "Established"
    /\ events' = [events EXCEPT ![q] = @ \cup {"BGP_Stop"}]
    /\ nsfWait' = IF closed /\ q \in nsf THEN nsfWait \cup {q} ELSE nsfWait
    /\ UNCHANGED <<status, ribVars, adjVars, clearq, nsf, staleTimer, limitVars, fib>>

\* A node without routes is skipped, whatever its adj_in and adj_out hold.
Cleared(adj, empty, q) ==
    [p \in Prefix |-> IF \E r \in Peer : Present(rib[p][r])
                      THEN [adj[p] EXCEPT ![q] = empty] ELSE adj[p]]

\* Fault: the completion function does not wait for the queue.
bgp_clear_node_complete_early(queue) == {"Clearing_Completed"}

\* The completion function of a clear_node_queue that holds these nodes: the
\* events it adds.
bgp_clear_node_complete(queue) == IF queue = {} THEN {"Clearing_Completed"} ELSE {}

\* Fault: a peer that is waited for gets no stale timer.
StaleTimerOnStop_off(q) == staleTimer \ {q}

\* t_gr_stale after bgp_stop: off, and on again when the peer is waited for.
StaleTimerOnStop(q) ==
    IF q \in nsfWait THEN staleTimer \cup {q} ELSE staleTimer \ {q}

\* BGP_Stop in Established: bgp_stop, then bgp_fsm_change_status (Clearing),
\* which calls bgp_clear_route.
bgp_stop(q) ==
    /\ status[q] = "Established"
    /\ "BGP_Stop" \in events[q]
    /\ status' = [status EXCEPT ![q] = "Clearing"]
    /\ prefixLimit' = prefixLimit \ {q}
    /\ nsf' = IF q \in nsfWait THEN nsf ELSE nsf \ {q}
    /\ staleTimer' = StaleTimerOnStop(q)
    /\ clearq' = [clearq EXCEPT ![q] = @ \cup {p \in Prefix : Present(rib[p][q])}]
    /\ events' = [events EXCEPT ![q] = bgp_clear_node_complete(clearq'[q])]
    /\ adjIn' = Cleared(adjIn, NoAttr, q)
    /\ adjOut' = Cleared(adjOut, NoAdjOut, q)
    /\ UNCHANGED <<ribVars, nsfWait, overflow, fib>>

\* Fault: a route that is already stale is kept once more.
KeepStale_again(p, q) ==
    q \in nsfWait /\ q \in nsf /\ rib[p][q].flags \cap UNUSEABLE = {}

\* Is the route kept, as a stale one, for a peer that is restarting?
KeepStale(p, q) ==
    /\ q \in nsfWait /\ q \in nsf
    /\ ~Has(rib[p][q], "STALE")
    /\ rib[p][q].flags \cap UNUSEABLE = {}

\* Fault: the completion function is not called after a route that is kept.
bgp_clear_route_node_incomplete(p, q) ==
    /\ p \in clearq[q]
    /\ clearq' = [clearq EXCEPT ![q] = @ \ {p}]
    /\ IF Present(rib[p][q]) /\ KeepStale(p, q)
       THEN /\ SetRoute(p, q, bgp_info_set_flag(Route(p, q), "STALE"))
            /\ UNCHANGED <<scheduled, events>>
       ELSE /\ IF Present(rib[p][q]) THEN bgp_rib_remove(p, q) ELSE UNCHANGED ribVars
            /\ events' = [events EXCEPT ![q] = @ \cup bgp_clear_node_complete(clearq'[q])]
    /\ UNCHANGED <<status, adjVars, grVars, limitVars, fib>>

\* One item of the clear_node_queue, and the completion function when it was
\* the last one.
bgp_clear_route_node(p, q) ==
    /\ p \in clearq[q]
    /\ IF ~Present(rib[p][q])
       THEN UNCHANGED ribVars
       ELSE IF KeepStale(p, q)
            THEN SetRoute(p, q, bgp_info_set_flag(Route(p, q), "STALE"))
                 /\ UNCHANGED scheduled
            ELSE bgp_rib_remove(p, q)
    /\ clearq' = [clearq EXCEPT ![q] = @ \ {p}]
    /\ events' = [events EXCEPT ![q] = @ \cup bgp_clear_node_complete(clearq'[q])]
    /\ UNCHANGED <<status, adjVars, grVars, limitVars, fib>>

bgp_clearing_completed(q) ==
    /\ status[q] = "Clearing"
    /\ "Clearing_Completed" \in events[q]
    /\ status' = [status EXCEPT ![q] = "Idle"]
    /\ events' = [events EXCEPT ![q] = {}]
    /\ prefixLimit' = prefixLimit \ {q}
    /\ UNCHANGED <<ribVars, adjVars, clearq, grVars, overflow, fib>>

\* The maximum-prefix restart timer, or clear ip bgp.
peer_clear(q) ==
    /\ q \in overflow
    /\ overflow' = overflow \ {q}
    /\ UNCHANGED <<status, ribVars, adjVars, clearq, events, grVars, prefixLimit, fib>>

-----------------------------------------------------------------------------
(***************************************************************************)
(* The periodic scan (bgp_scan): maximum-prefix of the established peers,  *)
(* then the next hop of every route, and every node is processed.          *)
(***************************************************************************)

\* The routes whose next hop the scan finds unreachable: some of those whose
\* next hop may vary.
Unreachables == SUBSET (Prefix \X NexthopVaries)

\* Fault: the scan checks no prefix count.
OverLimit_ignored == {}

OverLimit == {q \in Peer : status[q] = "Established" /\ pcount[q] > Pmax[q]}

Scanned(p, q, unreachable, changed) ==
    LET x == Route(p, q)
        y == IF <<p, q>> \in changed THEN SET_FLAG(x, "IGP_CHANGED")
                                     ELSE UNSET_FLAG(x, "IGP_CHANGED")
        valid == <<p, q>> \notin unreachable
    IN  IF ~Present(x.ri) THEN x
        ELSE IF valid = Has(x.ri, "VALID") THEN y ELSE CheckNexthop(y, valid)

\* Fault: the scan leaves alone the nodes that no peer has been told about.
Node_announced(p) == \E q \in Peer : adjOut[p][q] # NoAdjOut

\* Nodes of the table: those that something keeps a lock on.
Node(p) == \/ scheduled[p] > 0
           \/ \E q \in Peer : \/ Present(rib[p][q])
                              \/ adjIn[p][q] # NoAttr
                              \/ adjOut[p][q] # NoAdjOut
                              \/ p \in clearq[q]

bgp_scan(unreachable, changed) ==
    /\ \A p \in Prefix : Room(p)
    /\ events' = [q \in Peer |-> IF q \in OverLimit THEN events[q] \cup {"BGP_Stop"}
                                                    ELSE events[q]]
    /\ overflow' = overflow \cup OverLimit
    /\ prefixLimit' = {q \in Peer : IF status[q] = "Established" THEN pcount[q] > Pmax[q]
                                                                 ELSE q \in prefixLimit}
    /\ rib' = [p \in Prefix |-> [q \in Peer |-> Scanned(p, q, unreachable, changed).ri]]
    /\ pcount' = [q \in Peer |->
          LET Counted(p) == Has(rib[p][q], "COUNTED")
              CountedAfter(p) == Has(Scanned(p, q, unreachable, changed).ri, "COUNTED")
              up == {p \in Prefix : ~Counted(p) /\ CountedAfter(p)}
              down == {p \in Prefix : Counted(p) /\ ~CountedAfter(p)}
              sum == pcount[q] + Cardinality(up) - Cardinality(down)
          IN  IF sum >= 0 THEN sum ELSE 0]
    /\ scheduled' = [p \in Prefix |-> IF Node(p) THEN scheduled[p] + 1 ELSE scheduled[p]]
    /\ UNCHANGED <<status, adjVars, clearq, grVars, fib>>

-----------------------------------------------------------------------------
Update(p, q) ==
    \/ bgp_withdraw(p, q)
    \/ \E attr \in Attr :
          \/ bgp_update_filtered(p, q, attr)
          \/ bgp_update_duplicate(p, q, attr)
          \/ \E reachable \in Reachable(q) :
                \/ bgp_update_implicit(p, q, attr, reachable)
                \/ bgp_update_new(p, q, attr, reachable)

Session(q) ==
    \/ bgp_open_send(q)
    \/ bgp_stop_unestablished(q)
    \/ \E capable \in IF q \in Graceful THEN BOOLEAN ELSE {FALSE}, preserved \in BOOLEAN :
          bgp_establish(q, capable, preserved)
    \/ bgp_announce_route(q)
    \/ \E closed \in BOOLEAN : session_lost(q, closed)
    \/ bgp_stop(q)
    \/ bgp_clearing_completed(q)
    \/ peer_clear(q)

GracefulRestart(q) ==
    \/ bgp_graceful_restart_timer_expire(q)
    \/ bgp_graceful_stale_timer_expire(q)
    \/ bgp_update_receive_eor(q)

Scan == \E unreachable \in Unreachables, changed \in Unreachables :
            bgp_scan(unreachable, changed)

Next ==
    \/ \E p \in Prefix : bgp_process_main(p)
    \/ \E q \in Peer : Session(q) \/ GracefulRestart(q)
    \/ \E p \in Prefix, q \in Peer :
          \/ Update(p, q)
          \/ bgp_clear_route_node(p, q)
          \/ bgp_withdraw_packet(p, q)
          \/ bgp_update_packet(p, q)
    \/ Scan

Spec == Init /\ [][Next]_vars

(***************************************************************************)
(* Work queue items, FSM events, timers and writable sockets are all       *)
(* served by thread_fetch in turn; what the neighbours and the operator do *)
(* is up to them.  bgp_stop starts the stale timer anew, so that timer     *)
(* expires unless the session keeps being stopped.  bgp_scan runs every    *)
(* scan-time seconds whatever the length of the process queue: strong      *)
(* fairness, because the bound MaxQueue sometimes disables it here.        *)
(***************************************************************************)
Fairness ==
    /\ \A p \in Prefix : WF_vars(bgp_process_main(p))
    /\ \A p \in Prefix, q \in Peer :
          /\ WF_vars(bgp_clear_route_node(p, q))
          /\ WF_vars(bgp_withdraw_packet(p, q))
    /\ \A q \in Peer :
          /\ WF_vars(bgp_stop(q))
          /\ WF_vars(bgp_clearing_completed(q))
          /\ WF_vars(bgp_graceful_restart_timer_expire(q))
          /\ WF_vars(bgp_graceful_stale_timer_expire(q) \/ bgp_stop(q))
    /\ SF_vars(Scan)

FairSpec == Spec /\ Fairness

-----------------------------------------------------------------------------
(***************************************************************************)
(* Safety.                                                                 *)
(***************************************************************************)

\* The prefix count of a peer (bgp_pcount_adjust) is the number of its routes
\* that are marked COUNTED, and those are exactly its usable ones, whatever
\* mix of deletions, restores, scans and graceful restarts led here.
PrefixCount ==
    \A q \in Peer :
        /\ pcount[q] = Cardinality({p \in Prefix : Has(rib[p][q], "COUNTED")})
        /\ \A p \in Prefix : Has(rib[p][q], "COUNTED") <=> Usable(rib[p][q])

\* bgp_process_main never leaves two routes of a node SELECTED, and a route
\* that carries the flag is still on the node's list.
OneSelected ==
    \A p \in Prefix : \A q, r \in Peer :
        Has(rib[p][q], "SELECTED")
            => Present(rib[p][q]) /\ (Has(rib[p][r], "SELECTED") => q = r)

\* A route that bgp_info_delete has marked waits for bgp_process_main to reap
\* it: its node is on the process queue.
RemovedIsScheduled ==
    \A p \in Prefix, q \in Peer : Has(rib[p][q], "REMOVED") => scheduled[p] > 0

\* Zebra holds a route for a prefix exactly as long as the node has a selected
\* one, through every removal and session reset.
FibHasSelected ==
    \A p \in Prefix :
        fib[p] # NoAttr <=> \E q \in Peer : Has(rib[p][q], "SELECTED")

\* What peer q will have been told about p once its FIFOs are written.
Effective(adj) ==
    CASE adj.adv = NoAttr -> adj.attr
      [] adj.adv = Withdraw -> NoAttr
      [] OTHER -> adj.adv

\* What bgp_announce_check lets q see of the selected route of p.
Exported(p, q) ==
    LET best == old_select(p)
    IN  IF best = NoPeer THEN NoAttr ELSE bgp_announce_check(best, rib[p][best].attr, q)

\* Once nothing of a node waits on the process queue, every established
\* neighbour has been told, or is about to be told, exactly what the selected
\* route says (bgp_process_announce_selected, bgp_adj_out_set and _unset).
SettledAdjOut ==
    \A p \in Prefix, q \in Peer :
        scheduled[p] = 0 /\ status[q] = "Established"
            => Effective(adjOut[p][q]) = Exported(p, q)

\* ... and zebra has the attributes of the selected route.
SettledFib ==
    \A p \in Prefix :
        scheduled[p] = 0 /\ old_select(p) # NoPeer
            => fib[p] = rib[p][old_select(p)].attr

\* ... and a usable route is selected if there is one, unless the node was
\* left out because its peer is being stopped over maximum-prefix, or was when
\* it restarted: the route it had too many is then kept, stale and unprocessed.
SettledSelection ==
    \A p \in Prefix :
        scheduled[p] = 0 =>
            /\ old_select(p) # NoPeer => Usable(rib[p][old_select(p)])
            /\ old_select(p) = NoPeer =>
                  \A q \in Peer : Usable(rib[p][q])
                      => \/ "BGP_Stop" \in events[q] \/ p \in clearq[q]
                         \/ Has(rib[p][q], "STALE")

\* When a session has left Clearing, no route of it is in use except those a
\* restarting peer is given time to announce again: "race with routes from
\* the new session being installed before clear_route_node visits the node".
ClearedSession ==
    \A p \in Prefix, q \in Peer :
        /\ status[q] \in {"Idle", "OpenSent"}
        /\ Usable(rib[p][q])
        => Has(rib[p][q], "STALE") /\ q \in nsfWait

\* A stale route always has a timer, or a clearing, that will remove it.
StaleIsTimed ==
    \A p \in Prefix, q \in Peer :
        Has(rib[p][q], "STALE") /\ ~Has(rib[p][q], "REMOVED")
            => (q \in nsf /\ q \in staleTimer) \/ p \in clearq[q]

-----------------------------------------------------------------------------
(***************************************************************************)
(* Liveness, under FairSpec.                                               *)
(***************************************************************************)

\* A session does not stay in Clearing: the clear queue drains and its
\* completion function moves the FSM on.
ClearingEnds == \A q \in Peer : status[q] = "Clearing" ~> status[q] # "Clearing"

\* A route that was marked REMOVED is reaped or restored.
RemovedIsReaped ==
    \A p \in Prefix, q \in Peer :
        Has(rib[p][q], "REMOVED") ~> ~Has(rib[p][q], "REMOVED")

\* A stale route is refreshed or given up: no flapping of the session keeps
\* it for ever.
StaleEnds ==
    \A p \in Prefix, q \in Peer : Has(rib[p][q], "STALE") ~> ~Has(rib[p][q], "STALE")

\* maximum-prefix is only compared when a peer announces a route it did not
\* have; a route that comes back from REMOVED or becomes reachable can pass the
\* limit unseen, but not for ever: bgp_scan stops the session.
OverLimitEnds ==
    \A q \in Peer :
        status[q] = "Established" /\ pcount[q] > Pmax[q]
            ~> ~(status[q] = "Established" /\ pcount[q] > Pmax[q])
=============================================================================
