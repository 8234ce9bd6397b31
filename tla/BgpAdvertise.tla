---------------------------- MODULE BgpAdvertise ----------------------------
(***************************************************************************)
(* How one neighbour is told of the selected routes: the adjacency of each *)
(* prefix and the two FIFOs (bgpd/bgp_advertise.c), the packets made of    *)
(* them and the write thread (bgp_write_packet and bgp_write in            *)
(* bgpd/bgp_packet.c), and the advertisement timer (bgpd/bgp_fsm.c).       *)
(*                                                                         *)
(* A withdrawal is written as soon as the socket takes it, an update only  *)
(* when its route is older than synctime, the last run of the timer; the   *)
(* updates behind one that must wait also wait.  Updates with the same     *)
(* attributes share a packet.                                              *)
(***************************************************************************)
EXTENDS Fifo, FiniteSets

CONSTANTS
    Prefix, Attr,
    PacketMax,   \* bound: prefixes in a packet
    WriteMax,    \* BGP_WRITE_PACKET_MAX
    RestartRcv,  \* PEER_CAP_RESTART_RCV: the neighbour can restart gracefully
    MaxChanges,  \* bound: changes of routes, sessions closed, keepalives
    Withdrawal,  \* the advertisement that is a withdrawal
    None         \* no route, nothing sent, nothing scheduled

ASSUME AdvertiseAssumption ==
    /\ IsFiniteSet(Prefix)
    /\ PacketMax \in Nat \ {0} /\ WriteMax \in Nat \ {0} /\ MaxChanges \in Nat
    /\ RestartRcv \in BOOLEAN
    /\ None \notin Attr /\ Withdrawal \notin Attr /\ None # Withdrawal

(***************************************************************************)
(* The age of a route: its uptime is this second, before it but not before *)
(* synctime, or before synctime.  While synctime is 0 none is "old".       *)
(***************************************************************************)
Age == {"new", "young", "old"}

VARIABLES
    route,     \* [Prefix -> Attr or None]: the selected route, as it is announced
    age,       \* [Prefix -> Age]: of adv->binfo
    gated,     \* the prefixes whose route is of a peer that can restart
               \* gracefully and has not sent its End-of-RIB
    status,    \* peer->status = Established
    adj,       \* [Prefix -> [attr, adv]]: rn->adj_out of the neighbour
    update, withdraw,  \* the FIFOs of peer->sync, as sequences of prefixes
    synced,    \* peer->synctime # 0
    eorSend,   \* PEER_STATUS_EOR_SEND
    obuf,      \* peer->obuf: packets, the head perhaps partly written
    tWrite,    \* peer->t_write is armed
    loop,      \* 0, or which packet of a run of bgp_write this is
    failed,    \* write() has failed: TCP_fatal_error waits to be run
    known,     \* what the neighbour was told
    changes    \* bound: changes so far

queues == <<adj, update, withdraw>>
vars == <<route, age, gated, status, adj, update, withdraw, synced, eorSend, obuf,
          tWrite, loop, failed, known, changes>>

NoAdj == [attr |-> None, adv |-> None]

\* A packet: what it says, by prefix; End-of-RIB says nothing.
Packet(prefixes, value) == [p \in prefixes |-> value]

\* Types.
TypeOK ==
    /\ route \in [Prefix -> Attr \cup {None}] /\ age \in [Prefix -> Age]
    /\ adj \in [Prefix -> [attr : Attr \cup {None}, adv : Attr \cup {None, Withdrawal}]]
    /\ update \in Seq(Prefix) /\ withdraw \in Seq(Prefix)
    /\ loop \in 0..WriteMax /\ failed \in BOOLEAN /\ changes \in 0..MaxChanges
    /\ \A i \in DOMAIN obuf : DOMAIN obuf[i] \subseteq Prefix

\* A change of routes or of the session; bounded.
Change == changes < MaxChanges /\ changes' = changes + 1

-----------------------------------------------------------------------------
(***************************************************************************)
(* Adjacencies (bgp_advertise.c).                                          *)
(***************************************************************************)
\* Fault: a withdrawal that waits is not cleaned up.
bgp_adj_out_set_left(p, attr) ==
    /\ adj' = [adj EXCEPT ![p].adv = attr]
    /\ update' = Append(Without(update, {p}), p)
    /\ UNCHANGED <<withdraw, tWrite>>

\* Any advertisement of p that waits is cleaned up first, whichever FIFO it is on.
bgp_adj_out_set(p, attr) ==
    /\ adj' = [adj EXCEPT ![p].adv = attr]
    /\ update' = Append(Without(update, {p}), p)
    /\ withdraw' = Without(withdraw, {p})
    /\ UNCHANGED tWrite

\* Fault: a withdrawal waits for the timer, as an update does.
bgp_adj_out_unset_unarmed(p) ==
    /\ update' = Without(update, {p})
    /\ \/ /\ adj[p].attr # None
          /\ adj' = [adj EXCEPT ![p].adv = Withdrawal]
          /\ withdraw' = Append(Without(withdraw, {p}), p)
       \/ /\ adj[p].attr = None
          /\ adj' = [adj EXCEPT ![p] = NoAdj]
          /\ UNCHANGED withdraw
    /\ UNCHANGED tWrite

\* Fault: an update that waits is called off, and the one sent before it forgotten.
bgp_adj_out_unset_called_off(p) ==
    /\ update' = Without(update, {p})
    /\ \/ /\ adj[p].attr # None /\ adj[p].adv = None
          /\ adj' = [adj EXCEPT ![p].adv = Withdrawal]
          /\ withdraw' = Append(withdraw, p)
          /\ tWrite' = TRUE
       \/ /\ adj[p].attr = None \/ adj[p].adv # None
          /\ adj' = [adj EXCEPT ![p] = NoAdj]
          /\ withdraw' = Without(withdraw, {p})
          /\ UNCHANGED tWrite

bgp_adj_out_unset(p) ==
    /\ update' = Without(update, {p})
    /\ \/ /\ adj[p].attr # None
          /\ adj' = [adj EXCEPT ![p].adv = Withdrawal]
          /\ withdraw' = Append(Without(withdraw, {p}), p)
          /\ tWrite' = TRUE
       \/ /\ adj[p].attr = None
          /\ adj' = [adj EXCEPT ![p] = NoAdj]
          /\ UNCHANGED <<withdraw, tWrite>>

-----------------------------------------------------------------------------
(***************************************************************************)
(* Packets.                                                                *)
(***************************************************************************)
\* The packet that bgp_update_packet makes: the head of the FIFO, then those with
\* the same attributes, the latest first (bgp_advertise_add puts them at the head
\* of the list of their attributes), old or not, as many as fit.
Packed ==
    LET head == Head(update)
        others == Filter(Tail(update), {p \in Prefix : adj[p].adv = adj[head].adv})
    IN  <<head>> \o First(Reverse(others), PacketMax - 1)

bgp_update_packet ==
    LET sent == ToSet(Packed)
    IN  /\ obuf' = <<Packet(sent, adj[Head(update)].adv)>>
        /\ adj' = [p \in Prefix |->
                      IF p \in sent THEN [attr |-> adj[p].adv, adv |-> None] ELSE adj[p]]
        /\ update' = Without(update, sent)
        /\ tWrite' = TRUE /\ UNCHANGED <<withdraw, eorSend>>

bgp_withdraw_packet(armed) ==
    LET sent == ToSet(First(withdraw, PacketMax))
    IN  /\ obuf' = <<Packet(sent, None)>>
        /\ adj' = [p \in Prefix |-> IF p \in sent THEN NoAdj ELSE adj[p]]
        /\ withdraw' = Without(withdraw, sent)
        /\ tWrite' = armed /\ UNCHANGED <<update, eorSend>>

\* The head of the update FIFO may be sent: bgp_write_proceed asks only about age.
OldHead == update # <<>> /\ age[Head(update)] = "old"
Sendable == OldHead /\ Head(update) \notin gated

EorDue == RestartRcv /\ synced /\ ~eorSend

HasPacket == obuf # <<>> \/ withdraw # <<>> \/ Sendable \/ EorDue

\* End-of-RIB is sent once, when the timer has run and the head of the FIFO may
\* not be sent: not only when the FIFO is empty.
bgp_update_packet_eor(armed) ==
    /\ obuf' = <<Packet({}, None)>> /\ eorSend' = TRUE /\ tWrite' = armed
    /\ UNCHANGED queues

\* The next packet, when there is one; only an update arms t_write, whether it was
\* armed or not.
bgp_write_packet(armed) ==
    CASE obuf # <<>> -> tWrite' = armed /\ UNCHANGED <<queues, obuf, eorSend>>
      [] obuf = <<>> /\ withdraw # <<>> -> bgp_withdraw_packet(armed)
      [] obuf = <<>> /\ withdraw = <<>> /\ Sendable -> bgp_update_packet
      [] OTHER -> bgp_update_packet_eor(armed)

bgp_write_proceed == obuf # <<>> \/ withdraw # <<>> \/ OldHead

(***************************************************************************)
(* bgp_write.  Its loop is a step per packet made and per packet written,  *)
(* during which nothing else runs: loop # 0.  It begins with t_write off.  *)
(* thread_fetch runs the events that wait before it looks at the sockets   *)
(* again, so TCP_fatal_error comes before the next run of bgp_write.       *)
(***************************************************************************)
bgp_write ==
    /\ status /\ tWrite /\ loop = 0 /\ ~failed
    /\ \/ HasPacket /\ bgp_write_packet(FALSE) /\ loop' = 1
       \/ ~HasPacket /\ tWrite' = FALSE /\ UNCHANGED <<queues, obuf, eorSend, loop>>
    /\ UNCHANGED <<route, age, gated, status, synced, failed, known, changes>>

\* The socket takes the whole packet.
WriteDone ==
    /\ loop > 0 /\ obuf # <<>>
    /\ known' = [p \in Prefix |-> IF p \in DOMAIN Head(obuf) THEN Head(obuf)[p] ELSE known[p]]
    /\ obuf' = Tail(obuf)
    /\ UNCHANGED <<route, age, gated, status, queues, synced, eorSend, tWrite, loop, failed,
                   changes>>

\* The socket takes a part of it, or nothing: bgp_write_proceed finds it in obuf.
WriteBlocked ==
    /\ loop > 0 /\ obuf # <<>>
    /\ loop' = 0 /\ tWrite' = TRUE
    /\ UNCHANGED <<route, age, gated, status, queues, synced, eorSend, obuf, failed, known,
                   changes>>

\* write() fails: bgp_write queues an event, leaves the packet in obuf and does not
\* arm t_write.
WriteFailed ==
    /\ loop > 0 /\ obuf # <<>> /\ Change
    /\ loop' = 0 /\ failed' = TRUE
    /\ UNCHANGED <<route, age, gated, status, queues, synced, eorSend, obuf, tWrite, known>>

\* Fault: the loop does not count.
WriteNext_endless ==
    /\ loop > 0 /\ obuf = <<>>
    /\ \/ HasPacket /\ bgp_write_packet(tWrite) /\ loop' = loop + 1
       \/ /\ ~HasPacket
          /\ loop' = 0 /\ tWrite' = (tWrite \/ bgp_write_proceed)
          /\ UNCHANGED <<queues, obuf, eorSend>>
    /\ UNCHANGED <<route, age, gated, status, synced, failed, known, changes>>

\* The next packet, or the end of the loop.
WriteNext ==
    /\ loop > 0 /\ obuf = <<>>
    /\ \/ loop < WriteMax /\ HasPacket /\ bgp_write_packet(tWrite) /\ loop' = loop + 1
       \/ /\ loop = WriteMax \/ ~HasPacket
          /\ loop' = 0 /\ tWrite' = (tWrite \/ bgp_write_proceed)
          /\ UNCHANGED <<queues, obuf, eorSend>>
    /\ UNCHANGED <<route, age, gated, status, synced, failed, known, changes>>

-----------------------------------------------------------------------------
(***************************************************************************)
(* Routes, time and the session.                                           *)
(***************************************************************************)
\* The decision process selects another route for p, or none, or the selected one
\* has changed (bgp_process_announce_selected).  The route may be any age.
bgp_process(p, attr, years, gate) ==
    /\ loop = 0 /\ Change
    /\ years = "old" => synced
    /\ attr = None => years = "young" /\ ~gate
    /\ route' = [route EXCEPT ![p] = attr] /\ age' = [age EXCEPT ![p] = years]
    /\ gated' = IF gate THEN gated \cup {p} ELSE gated \ {p}
    /\ \/ status /\ attr # None /\ bgp_adj_out_set(p, attr)
       \/ status /\ attr = None /\ bgp_adj_out_unset(p)
       \/ ~status /\ UNCHANGED <<queues, tWrite>>
    /\ UNCHANGED <<status, synced, eorSend, obuf, loop, failed, known>>

\* The selected route is received once more: nothing changes but its uptime.
Duplicate(p) ==
    /\ loop = 0 /\ route[p] # None /\ age[p] # "new" /\ Change
    /\ age' = [age EXCEPT ![p] = "new"]
    /\ UNCHANGED <<route, gated, status, queues, synced, eorSend, obuf, tWrite, loop, failed,
                   known>>

\* The source of routes that wait for it sends End-of-RIB: t_write is not armed.
EorReceived ==
    /\ loop = 0 /\ gated # {} /\ gated' = {}
    /\ UNCHANGED <<route, age, status, queues, synced, eorSend, obuf, tWrite, loop, failed,
                   known, changes>>

\* A second passes.
Tick ==
    /\ loop = 0 /\ \E p \in Prefix : age[p] = "new"
    /\ age' = [p \in Prefix |-> IF age[p] = "new" THEN "young" ELSE age[p]]
    /\ UNCHANGED <<route, gated, status, queues, synced, eorSend, obuf, tWrite, loop, failed,
                   known, changes>>

\* Fault: the timer moves synctime and leaves the writing to the next keepalive.
bgp_routeadv_timer_quiet ==
    /\ status /\ loop = 0
    /\ synced' = TRUE
    /\ age' = [p \in Prefix |-> IF age[p] = "young" THEN "old" ELSE age[p]]
    /\ UNCHANGED <<route, gated, status, queues, eorSend, obuf, tWrite, loop, failed, known,
                   changes>>

\* synctime is now: a route of this second still waits.
bgp_routeadv_timer ==
    /\ status /\ loop = 0
    /\ synced' = TRUE /\ tWrite' = TRUE
    /\ age' = [p \in Prefix |-> IF age[p] = "young" THEN "old" ELSE age[p]]
    /\ UNCHANGED <<route, gated, status, queues, eorSend, obuf, loop, failed, known, changes>>

\* Its packet, which says nothing about routes, is left out.
bgp_keepalive_send ==
    /\ status /\ loop = 0 /\ ~tWrite /\ Change
    /\ tWrite' = TRUE
    /\ UNCHANGED <<route, age, gated, status, queues, synced, eorSend, obuf, loop, failed,
                   known>>

\* The session ends, by TCP_fatal_error when write() has failed.
\* bgp_clear_route_table leaves out the nodes without a route, so a withdrawal may
\* stay scheduled.
bgp_stop(kept) ==
    /\ status /\ loop = 0
    /\ \/ ~failed /\ Change
       \/ failed /\ UNCHANGED changes
    /\ \A p \in kept : route[p] = None /\ adj[p].adv = Withdrawal
    /\ status' = FALSE /\ synced' = FALSE /\ eorSend' = FALSE
    /\ obuf' = <<>> /\ tWrite' = FALSE /\ failed' = FALSE
    /\ adj' = [p \in Prefix |-> IF p \in kept THEN adj[p] ELSE NoAdj]
    /\ update' = <<>> /\ withdraw' = Filter(withdraw, kept)
    /\ age' = [p \in Prefix |-> IF age[p] = "old" THEN "young" ELSE age[p]]
    /\ known' = [p \in Prefix |-> None]
    /\ UNCHANGED <<route, gated, loop>>

\* A new session: a keepalive and the whole table.
bgp_establish ==
    /\ ~status
    /\ LET table == {p \in Prefix : route[p] # None}
       IN  /\ adj' = [p \in Prefix |-> IF p \in table THEN [adj[p] EXCEPT !.adv = route[p]]
                                      ELSE adj[p]]
           /\ update' = SetToSeq(table)
           /\ withdraw' = Without(withdraw, table)
    /\ status' = TRUE /\ tWrite' = TRUE
    /\ UNCHANGED <<route, age, gated, synced, eorSend, obuf, loop, failed, known, changes>>

-----------------------------------------------------------------------------
\* Routes learned before the session.
Init ==
    /\ route \in [Prefix -> Attr \cup {None}]
    /\ age = [p \in Prefix |-> "young"] /\ gated = {}
    /\ status = FALSE /\ adj = [p \in Prefix |-> NoAdj]
    /\ update = <<>> /\ withdraw = <<>> /\ synced = FALSE /\ eorSend = FALSE
    /\ obuf = <<>> /\ tWrite = FALSE /\ loop = 0 /\ failed = FALSE
    /\ known = [p \in Prefix |-> None] /\ changes = 0

Next ==
    \/ bgp_write \/ WriteDone \/ WriteBlocked \/ WriteFailed \/ WriteNext
    \/ \E p \in Prefix, attr \in Attr \cup {None}, years \in Age, gate \in BOOLEAN :
          bgp_process(p, attr, years, gate)
    \/ \E p \in Prefix : Duplicate(p)
    \/ EorReceived \/ Tick \/ bgp_routeadv_timer \/ bgp_keepalive_send
    \/ \E kept \in SUBSET Prefix : bgp_stop(kept)
    \/ bgp_establish

\* The event that a failed write() has queued.
TCP_fatal_error == failed /\ \E kept \in SUBSET Prefix : bgp_stop(kept)

\* The scheduler runs the threads that are ready, bgp_write to its end, events, and
\* the advertisement timer, which arms itself again, time and again; peers that can
\* restart send End-of-RIB; sessions come back; a neighbour that does not close
\* the connection reads it, so that the socket takes a packet in the end.
Fairness ==
    /\ WF_vars(bgp_write) /\ WF_vars(WriteNext) /\ SF_vars(WriteDone)
    /\ WF_vars(Tick) /\ WF_vars(EorReceived) /\ WF_vars(bgp_routeadv_timer)
    /\ WF_vars(TCP_fatal_error) /\ WF_vars(bgp_establish)

Spec == Init /\ [][Next]_vars /\ Fairness

-----------------------------------------------------------------------------
View == INSTANCE NeighbourView WITH want <- route, open <- status, said <- obuf

\* The queues implement the view: whatever waits, is cleaned up, shares a packet or
\* is left over from the last session, a packet says what is selected when it is
\* made, and packets reach the neighbour in order.
ViewRefined == View!Safe

\* Every prefix is known as it is selected time and again, and so for ever when
\* routes stop changing: no update waits for ever behind one that may not be sent.
Informed == View!Live

\* Nothing is forgotten: a prefix for which nothing is scheduled is known to the
\* neighbour as it is selected, once the packets made are written.
NothingForgotten ==
    status /\ obuf = <<>> =>
        \A p \in Prefix : adj[p].adv = None => known[p] = route[p]

\* The two FIFOs and the adjacencies agree: an update is scheduled for exactly the
\* prefixes on the update FIFO, a withdrawal for exactly those on the other, so no
\* advertisement is left on a FIFO that it no longer belongs to, and none is lost.
QueuedIsScheduled ==
    \A p \in Prefix : /\ p \in ToSet(update) <=> adj[p].adv \in Attr
                      /\ p \in ToSet(withdraw) <=> adj[p].adv = Withdrawal

\* No lost wakeup: what may be written at once, a withdrawal or the rest of a
\* packet, never waits for the next timer, unless the session is about to end.
WriterArmed ==
    status /\ ~failed /\ loop = 0 /\ ~tWrite => obuf = <<>> /\ withdraw = <<>>
=============================================================================
