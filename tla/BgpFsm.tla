------------------------------- MODULE BgpFsm -------------------------------
(***************************************************************************)
(* The session of one configured neighbour (bgpd/bgp_fsm.c, the packet     *)
(* handlers of bgp_packet.c that feed it, bgp_accept in bgp_network.c)     *)
(* under the scheduler of lib/thread.c.                                    *)
(*                                                                         *)
(* Everything is a job.  thread_fetch moves an event, an expired timer,    *)
(* the readable sockets and the background work to the ready list and runs *)
(* that list to its end before it looks again.  It takes one event and one *)
(* timer a turn: thread_process and thread_timer_process walk on from the  *)
(* next of a thread that they have just moved to the end of another list.  *)
(* Cancelling a timer or a socket thread takes it off the ready list too;  *)
(* flushing the events of a peer (BGP_EVENT_FLUSH) does not.               *)
(*                                                                         *)
(* An incoming connection gets a dummy peer (the acceptor) until its OPEN  *)
(* is read; its socket is then handed to the configured peer.              *)
(***************************************************************************)
EXTENDS Fifo, FiniteSets

CONSTANTS
    Families,   \* the address families, in the order in which they are cleared
    Configs,    \* configurations of the two ends, see Config
    MaxSockets, \* sockets that become readable in one turn of thread_fetch
    MaxEvents,  \* sockets become readable only below this number of queued events
    MaxClear    \* neighbour and operator act only below this length of the clear queue

Family == ToSet(Families)

Status == {"Idle", "Connect", "Active", "OpenSent", "OpenConfirm", "Established",
           "Clearing"}

Event == {"BGP_Start", "BGP_Stop", "TCP_connection_open", "TCP_connection_closed",
          "TCP_connection_open_failed", "TCP_fatal_error",
          "ConnectRetry_timer_expired", "Hold_Timer_expired",
          "KeepAlive_timer_expired", "Receive_OPEN_message",
          "Receive_KEEPALIVE_message", "Receive_UPDATE_message",
          "Receive_NOTIFICATION_message", "Clearing_Completed"}

GrTimer == {"t_gr_restart", "t_gr_stale"}
Timer == {"t_start", "t_connect", "t_holdtime", "t_keepalive"} \cup GrTimer

\* The jobs of the acceptor: its connection is open, it is stopped, its hold
\* timer expires, it can be read.
AcceptEvent == {"accept_open", "accept_stop"}

Job == Event \cup AcceptEvent \cup Timer
           \cup {"accept_hold", "vty", "read", "accept", "accept_read", "write", "clear"}

Message == {"OPEN", "KEEPALIVE", "UPDATE", "EOR", "NOTIFICATION", "BAD", "CLOSED", "ERROR"}

Config ==
    [passive : BOOLEAN,    \* PEER_FLAG_PASSIVE
     graceful : BOOLEAN,   \* may graceful restart be negotiated?
     holdTime : BOOLEAN,   \* is the hold time not zero?
     localLower : BOOLEAN, \* is the local router-id lower than the neighbour's?
     inOrder : BOOLEAN]    \* does the neighbour send OPEN, KEEPALIVE, then the rest?

ASSUME FsmAssumption ==
    /\ Configs \subseteq Config
    /\ Families \in Seq(ToSet(Families)) /\ Families # <<>> /\ IsInjective(Families)
    /\ {MaxSockets, MaxEvents, MaxClear} \subseteq Nat

VARIABLES
    status,    \* peer->status
    fd,        \* peer->fd: none, connecting (or failed to), open
    reading,   \* is peer->t_read set?
    timers,    \* the timers that are set, those on the ready list included
    events,    \* m->event
    ready,     \* m->ready, the running job first
    shutdown,  \* PEER_FLAG_SHUTDOWN
    nsf,       \* PEER_STATUS_NSF_MODE and peer->nsf
    nsfWait,   \* PEER_STATUS_NSF_WAIT
    routes,    \* [Family -> RouteState], the routes of the neighbour
    clearq,    \* peer->clear_node_queue
    acceptor,  \* status of the dummy peer; "left" when it lost its socket
    config,    \* what is configured and negotiated
    sent       \* messages of the neighbour read on fd: 0, 1 (OPEN), 2 (and KEEPALIVE)

conn == <<fd, reading, sent>>
admin == <<shutdown, config>>
gr == <<nsf, nsfWait>>
table == <<routes, clearq>>
vars == <<status, conn, timers, events, ready, admin, gr, table, acceptor>>

\* Routes of this session, of an earlier one, and those marked STALE.
RouteState == {"none", "new", "old", "stale"}

TypeOK ==
    /\ status \in Status /\ fd \in {"none", "connecting", "open"}
    /\ reading \in BOOLEAN /\ sent \in 0..2
    /\ timers \subseteq Timer
    /\ events \in Seq(Event \cup AcceptEvent) /\ ready \in Seq(Job)
    /\ shutdown \in BOOLEAN /\ config \in Config /\ nsf \in BOOLEAN /\ nsfWait \in BOOLEAN
    /\ routes \in [Family -> RouteState] /\ clearq \in Seq(Family)
    /\ acceptor \in {"none", "left", "Active", "OpenSent"}

-----------------------------------------------------------------------------
(***************************************************************************)
(* The state table.                                                        *)
(***************************************************************************)
Do(func, next) == [func |-> func, next |-> next]

Tcp == {"TCP_connection_open", "TCP_connection_closed", "TCP_connection_open_failed",
        "TCP_fatal_error"}

FSM ==
    [Idle |-> [e \in Event |->
        CASE e = "BGP_Start" -> Do("bgp_start", "Connect")
          [] e \in {"BGP_Stop"} \cup (Tcp \ {"TCP_connection_open_failed"}) ->
                Do("bgp_stop", "Idle")
          [] OTHER -> Do("bgp_ignore", "Idle")],
     Connect |-> [e \in Event |->
        CASE e = "BGP_Start" -> Do("bgp_ignore", "Connect")
          [] e = "TCP_connection_open" -> Do("bgp_connect_success", "OpenSent")
          [] e = "TCP_connection_open_failed" -> Do("bgp_connect_fail", "Active")
          [] e = "TCP_fatal_error" -> Do("bgp_connect_fail", "Idle")
          [] e = "ConnectRetry_timer_expired" -> Do("bgp_reconnect", "Connect")
          [] e \in {"BGP_Stop", "TCP_connection_closed", "Receive_NOTIFICATION_message"} ->
                Do("bgp_stop", "Idle")
          [] OTHER -> Do("bgp_ignore", "Idle")],
     Active |-> [e \in Event |->
        CASE e \in {"BGP_Start", "TCP_connection_open_failed"} -> Do("bgp_ignore", "Active")
          [] e = "TCP_connection_open" -> Do("bgp_connect_success", "OpenSent")
          [] e = "ConnectRetry_timer_expired" -> Do("bgp_start", "Connect")
          [] e \in {"BGP_Stop", "TCP_connection_closed"} -> Do("bgp_stop", "Idle")
          [] e = "Receive_NOTIFICATION_message" -> Do("bgp_stop_with_error", "Idle")
          [] OTHER -> Do("bgp_ignore", "Idle")],
     OpenSent |-> [e \in Event |->
        CASE e = "BGP_Start" -> Do("bgp_ignore", "OpenSent")
          [] e = "BGP_Stop" -> Do("bgp_stop", "Idle")
          [] e \in Tcp -> Do("bgp_stop", "Active")
          [] e = "Hold_Timer_expired" -> Do("bgp_fsm_holdtime_expire", "Idle")
          [] e = "Receive_OPEN_message" -> Do("bgp_fsm_open", "OpenConfirm")
          [] e = "Receive_NOTIFICATION_message" -> Do("bgp_stop_with_error", "Idle")
          [] OTHER -> Do("bgp_ignore", "Idle")],
     OpenConfirm |-> [e \in Event |->
        CASE e \in {"BGP_Start", "KeepAlive_timer_expired"} -> Do("bgp_ignore", "OpenConfirm")
          [] e \in {"BGP_Stop"} \cup Tcp -> Do("bgp_stop", "Idle")
          [] e = "Hold_Timer_expired" -> Do("bgp_fsm_holdtime_expire", "Idle")
          [] e = "Receive_KEEPALIVE_message" -> Do("bgp_establish", "Established")
          [] e = "Receive_NOTIFICATION_message" -> Do("bgp_stop_with_error", "Idle")
          [] OTHER -> Do("bgp_ignore", "Idle")],
     Established |-> [e \in Event |->
        CASE e = "BGP_Start" -> Do("bgp_ignore", "Established")
          [] e = "Hold_Timer_expired" -> Do("bgp_fsm_holdtime_expire", "Clearing")
          [] e = "KeepAlive_timer_expired" -> Do("bgp_fsm_keepalive_expire", "Established")
          [] e = "Receive_KEEPALIVE_message" -> Do("bgp_fsm_keepalive", "Established")
          [] e = "Receive_UPDATE_message" -> Do("bgp_fsm_update", "Established")
          [] e = "Receive_NOTIFICATION_message" -> Do("bgp_stop_with_error", "Clearing")
          [] e = "Clearing_Completed" -> Do("bgp_ignore", "Idle")
          [] OTHER -> Do("bgp_stop", "Clearing")],
     Clearing |-> [e \in Event |->
        CASE e = "BGP_Start" -> Do("bgp_ignore", "Clearing")
          [] e = "Clearing_Completed" -> Do("bgp_clearing_completed", "Idle")
          [] OTHER -> Do("bgp_stop", "Clearing")]]

-----------------------------------------------------------------------------
(***************************************************************************)
(* Helpers.                                                                *)
(***************************************************************************)
\* BGP_EVENT_FLUSH: thread_cancel_event looks at m->event only.
BGP_EVENT_FLUSH(evs) == Without(evs, Event)

\* The timers of status st, given those that are set.
bgp_timer_set(st, wait, set) ==
    (set \cap GrTimer) \cup
    CASE st = "Idle" -> IF shutdown THEN {} ELSE {"t_start"}
      [] st = "Connect" -> {"t_connect"}
      [] st = "Active" -> IF config.passive \/ wait THEN {} ELSE {"t_connect"}
      [] st = "OpenSent" /\ config.holdTime -> {"t_holdtime"}
      [] st \in {"OpenConfirm", "Established"} /\ config.holdTime -> {"t_holdtime", "t_keepalive"}
      [] OTHER -> {}

\* bgp_clear_route_all: the families with routes go to the clear queue.  As long
\* as its thread is not running, each family reports completion at once.
Cleared(f) == routes[f] # "none"
Queued == Filter(Families, {f \in Family : Cleared(f)})
\* Fault: every family completes, whether the thread runs or not.
Completions_always == [i \in DOMAIN Families |-> "Clearing_Completed"]

Completions ==
    LET Early(i) == clearq = <<>> /\ \A j \in 1..i : ~Cleared(Families[j])
    IN  [i \in 1..Cardinality({j \in DOMAIN Families : Early(j)}) |-> "Clearing_Completed"]

bgp_clear_stale_route(rts) == [f \in Family |-> IF rts[f] = "stale" THEN "none" ELSE rts[f]]

\* Routes learned before a session ends are those of an earlier session.
Aged == [f \in Family |-> IF routes[f] = "new" THEN "old" ELSE routes[f]]

(***************************************************************************)
(* What is left to do after the function of the table returned 0: change   *)
(* the status (Clearing clears the routes), set the timers.  evs and set   *)
(* are the events and timers the function left, off the jobs it cancelled. *)
(***************************************************************************)
bgp_fsm_change_status(next, evs) ==
    IF next = "Clearing" /\ status # "Clearing"
    THEN clearq' = clearq \o Queued /\ events' = evs \o Completions
    ELSE events' = evs /\ UNCHANGED clearq

Proceed(next, evs, set, off) ==
    /\ status' = next
    /\ bgp_fsm_change_status(next, evs)
    /\ timers' = bgp_timer_set(next, nsfWait, set)
    /\ ready' = Without(Tail(ready), off \cup (Timer \ set) \cup (set \ timers'))
    /\ UNCHANGED <<admin, acceptor>>

-----------------------------------------------------------------------------
(***************************************************************************)
(* bgp_stop.                                                               *)
(***************************************************************************)
\* Fault: "Can't do this in Clearing; events are used for state transitions".
StopEvents_always == BGP_EVENT_FLUSH(events)

StopEvents == IF status = "Clearing" THEN events ELSE BGP_EVENT_FLUSH(events)

StopTimers(set) ==
    IF status # "Established" THEN set \cap GrTimer
    ELSE IF nsfWait THEN GrTimer ELSE set \cap {"t_gr_restart"}

StopOff == {"read", "write"} \cup (IF status = "Established" THEN {"t_gr_stale"} ELSE {})

Disconnect ==
    /\ fd' = "none" /\ reading' = FALSE /\ sent' = 0
    /\ IF status = "Established"
       THEN nsf' = (nsf /\ nsfWait) /\ routes' = Aged
       ELSE UNCHANGED <<nsf, routes>>
    /\ UNCHANGED nsfWait

bgp_stop(next, set) ==
    Disconnect /\ Proceed(next, StopEvents, StopTimers(set), StopOff)

bgp_clearing_completed(next, set) ==
    Disconnect /\ Proceed(next, BGP_EVENT_FLUSH(events), StopTimers(set), StopOff)

\* The start timer's length, which this doubles, is left out.
bgp_stop_with_error(next, set) == bgp_stop(next, set)

\* The NOTIFICATION's own event is flushed by the bgp_stop that follows.
bgp_fsm_holdtime_expire(next, set) == bgp_stop(next, set)

bgp_ignore(next, set) ==
    Proceed(next, events, set, {}) /\ UNCHANGED <<conn, gr, routes>>

\* Fault: the socket that failed is kept.
bgp_connect_fail_open(next, set) == bgp_ignore(next, set)

bgp_connect_fail(next, set) == bgp_stop(next, set)

(***************************************************************************)
(* bgp_start and bgp_reconnect.  A socket that cannot be made is none of   *)
(* the cases of bgp_start: it is left to the connect timer.                *)
(***************************************************************************)
Outcome == IF config.passive THEN {"passive"} ELSE {"no_socket", "error", "success", "in_progress"}

bgp_connect(outcome, oldFd, oldReading) ==
    /\ fd' = CASE outcome = "no_socket" -> "none"
               [] outcome = "success" -> "open"
               [] outcome \in {"error", "in_progress"} -> "connecting"
               [] OTHER -> oldFd
    /\ reading' = (oldReading \/ outcome = "in_progress")
    /\ sent' = 0

StartEvents(outcome, evs) ==
    CASE outcome \in {"error", "passive"} -> Append(evs, "TCP_connection_open_failed")
      [] outcome = "success" -> Append(evs, "TCP_connection_open")
      [] OTHER -> evs

bgp_start(next, set) ==
    /\ IF shutdown
       THEN /\ timers' = set /\ ready' = Tail(ready)
            /\ UNCHANGED <<status, conn, events, admin, clearq, acceptor>>
       ELSE \E outcome \in Outcome :
               /\ bgp_connect(outcome, fd, reading)
               /\ Proceed(next, StartEvents(outcome, events), set, {})
    /\ UNCHANGED <<gr, routes>>

\* bgp_stop, then bgp_start, whose refusal of a suppressed peer is not looked at.
bgp_reconnect(next, set) ==
    /\ \E outcome \in IF shutdown THEN {"suppressed"} ELSE Outcome :
          /\ bgp_connect(outcome, "none", FALSE)
          /\ Proceed(next, StartEvents(outcome, StopEvents), StopTimers(set), StopOff)
    /\ UNCHANGED <<gr, routes>>

(***************************************************************************)
(* The functions of an open connection.                                    *)
(***************************************************************************)
bgp_connect_success(next, set) ==
    /\ IF fd = "none"
       THEN /\ timers' = set /\ ready' = Tail(ready)
            /\ UNCHANGED <<status, events, admin, clearq, acceptor, reading>>
       ELSE reading' = TRUE /\ Proceed(next, events, set, {})
    /\ UNCHANGED <<fd, sent, gr, routes>>

\* The hold timer is stopped, to be set anew.
HoldAgain(next, set) ==
    Proceed(next, events, set \ {"t_holdtime"}, {}) /\ UNCHANGED <<conn, gr, routes>>

bgp_fsm_open(next, set) == HoldAgain(next, set)
bgp_fsm_keepalive(next, set) == HoldAgain(next, set)
bgp_fsm_update(next, set) == HoldAgain(next, set)
bgp_fsm_keepalive_expire(next, set) == bgp_ignore(next, set)

\* restart: the OPEN offers graceful restart; preserved: and says that the
\* forwarding state was kept.
bgp_establish(next, set) ==
    /\ \E restart \in {FALSE, config.graceful}, preserved \in BOOLEAN :
          /\ nsfWait' = FALSE /\ nsf' = restart
          /\ routes' = IF nsf /\ ~(restart /\ preserved)
                       THEN bgp_clear_stale_route(routes) ELSE routes
          /\ Proceed(next, events,
                     set \ ({"t_gr_restart"} \cup (IF restart THEN {} ELSE {"t_gr_stale"})), {})
    /\ UNCHANGED conn

(***************************************************************************)
(* bgp_event: look up the table, call the function.                        *)
(***************************************************************************)
Call(func, next, set) ==
    \/ func = "bgp_ignore" /\ bgp_ignore(next, set)
    \/ func = "bgp_start" /\ bgp_start(next, set)
    \/ func = "bgp_stop" /\ bgp_stop(next, set)
    \/ func = "bgp_stop_with_error" /\ bgp_stop_with_error(next, set)
    \/ func = "bgp_connect_success" /\ bgp_connect_success(next, set)
    \/ func = "bgp_connect_fail" /\ bgp_connect_fail(next, set)
    \/ func = "bgp_reconnect" /\ bgp_reconnect(next, set)
    \/ func = "bgp_fsm_open" /\ bgp_fsm_open(next, set)
    \/ func = "bgp_fsm_keepalive_expire" /\ bgp_fsm_keepalive_expire(next, set)
    \/ func = "bgp_fsm_holdtime_expire" /\ bgp_fsm_holdtime_expire(next, set)
    \/ func = "bgp_establish" /\ bgp_establish(next, set)
    \/ func = "bgp_fsm_keepalive" /\ bgp_fsm_keepalive(next, set)
    \/ func = "bgp_fsm_update" /\ bgp_fsm_update(next, set)
    \/ func = "bgp_clearing_completed" /\ bgp_clearing_completed(next, set)

bgp_event(e, set) == Call(FSM[status][e].func, FSM[status][e].next, set)

Running(job) == ready # <<>> /\ Head(ready) = job

RunEvent == \E e \in Event : Running(e) /\ bgp_event(e, timers)

TimerEvent ==
    [t_start |-> "BGP_Start", t_connect |-> "ConnectRetry_timer_expired",
     t_holdtime |-> "Hold_Timer_expired", t_keepalive |-> "KeepAlive_timer_expired"]

RunTimer ==
    \E t \in DOMAIN TimerEvent : Running(t) /\ bgp_event(TimerEvent[t], timers \ {t})

bgp_graceful_restart_timer_expire ==
    /\ Running("t_gr_restart")
    /\ routes' = IF nsf THEN bgp_clear_stale_route(routes) ELSE routes
    /\ nsfWait' = FALSE
    /\ timers' = bgp_timer_set(status, FALSE, timers \ GrTimer)
    /\ ready' = Without(Tail(ready), timers \ timers')
    /\ UNCHANGED <<status, conn, events, admin, nsf, clearq, acceptor>>

bgp_graceful_stale_timer_expire ==
    /\ Running("t_gr_stale")
    /\ routes' = IF nsf THEN bgp_clear_stale_route(routes) ELSE routes
    /\ timers' = timers \ {"t_gr_stale"} /\ ready' = Tail(ready)
    /\ UNCHANGED <<status, conn, events, admin, gr, clearq, acceptor>>

-----------------------------------------------------------------------------
(***************************************************************************)
(* Sockets.                                                                *)
(***************************************************************************)
\* The event after a NOTIFICATION was written, or could not be.
NotifyEvent == {"BGP_Stop", "TCP_fatal_error"}

\* The event after an OPEN was checked.
OpenEvent == {"Receive_OPEN_message"} \cup NotifyEvent

bgp_notify_send(evs) ==
    \E e \in NotifyEvent :
        events' = Append(evs, e) /\ ready' = Without(Tail(ready), {"write"})

\* In Connect a readable or writable socket tells how the connect went.
bgp_connect_check ==
    /\ ready # <<>> /\ Head(ready) \in {"read", "write"} /\ status = "Connect"
    /\ \E e \in {"TCP_connection_open", "TCP_connection_open_failed", "TCP_fatal_error"} :
          /\ events' = Append(events, e)
          /\ fd' = IF e = "TCP_connection_open" THEN "open" ELSE fd
    /\ reading' = FALSE /\ ready' = Without(Tail(ready), {"read", "write"})
    /\ UNCHANGED <<status, timers, sent, admin, gr, table, acceptor>>

\* A write that fails; one that succeeds changes nothing here.
bgp_write ==
    /\ Running("write") /\ status # "Connect"
    /\ events' = Append(events, "TCP_fatal_error") /\ ready' = Tail(ready)
    /\ UNCHANGED <<status, conn, timers, admin, gr, table, acceptor>>

\* The neighbour's side of the protocol.
MaySend(m) ==
    CASE m = "OPEN" -> sent = 0
      [] m = "KEEPALIVE" -> sent >= 1
      [] m \in {"UPDATE", "EOR"} -> sent = 2
      [] OTHER -> TRUE

Post(e) == events' = Append(events, e) /\ ready' = Tail(ready)

\* The acceptor stands in the way of an OPEN on the peer's own connection: one
\* of the two is sent a NOTIFICATION.
bgp_open_receive ==
    /\ IF acceptor = "OpenSent" /\ ~config.localLower
       THEN bgp_notify_send(events)
       ELSE \E e \in OpenEvent :
               /\ events' = events \o (IF acceptor = "OpenSent" THEN <<"accept_stop">> ELSE <<>>)
                                  \o <<e>>
               /\ ready' = Tail(ready)
    /\ UNCHANGED <<gr, table>>

\* Only in Established; then routes may come, or End-of-RIB.
bgp_update_receive(m) ==
    \/ status # "Established" /\ bgp_notify_send(events) /\ UNCHANGED <<gr, table>>
    \/ /\ status = "Established"
       /\ \/ /\ m = "UPDATE" /\ Len(clearq) < MaxClear
             /\ \E f \in Family, r \in {"none", "new"} : routes' = [routes EXCEPT ![f] = r]
          \/ m = "EOR" /\ routes' = IF nsf THEN bgp_clear_stale_route(routes) ELSE routes
       /\ Post("Receive_UPDATE_message")
       /\ UNCHANGED <<gr, clearq>>

\* The neighbour closed the connection, or it broke.
bgp_read_packet(e) ==
    /\ nsfWait' = (nsfWait \/ (status = "Established" /\ nsf))
    /\ Post(e)
    /\ UNCHANGED <<nsf, table>>

\* "bgp_read peer's fd is negative value".
ReadNothing ==
    /\ Running("read") /\ status # "Connect" /\ fd = "none"
    /\ reading' = FALSE /\ ready' = Tail(ready)
    /\ UNCHANGED <<status, fd, sent, timers, events, admin, gr, table, acceptor>>

bgp_read ==
    /\ Running("read") /\ status # "Connect" /\ fd # "none"
    /\ \E m \in Message :
          /\ config.inOrder => MaySend(m)
          /\ sent' = CASE m = "OPEN" -> (IF sent = 0 THEN 1 ELSE sent) [] m = "KEEPALIVE" -> 2 [] OTHER -> sent
          /\ \/ m = "OPEN" /\ bgp_open_receive
             \/ m = "KEEPALIVE" /\ Post("Receive_KEEPALIVE_message") /\ UNCHANGED <<gr, table>>
             \/ m \in {"UPDATE", "EOR"} /\ bgp_update_receive(m)
             \/ m = "NOTIFICATION" /\ Post("Receive_NOTIFICATION_message")
                   /\ UNCHANGED <<gr, table>>
             \/ m = "BAD" /\ bgp_notify_send(events) /\ UNCHANGED <<gr, table>>
             \/ m = "CLOSED" /\ bgp_read_packet("TCP_connection_closed")
             \/ m = "ERROR" /\ bgp_read_packet("TCP_fatal_error")
    /\ UNCHANGED <<status, fd, reading, timers, admin, acceptor>>

-----------------------------------------------------------------------------
(***************************************************************************)
(* Incoming connections.                                                   *)
(***************************************************************************)
bgp_accept ==
    /\ Running("accept")
    /\ IF status = "Idle" THEN UNCHANGED <<events, acceptor>>
       ELSE acceptor' = "Active" /\ events' = Append(events, "accept_open")
    /\ ready' = Tail(ready)
    /\ UNCHANGED <<status, conn, timers, admin, gr, table>>

\* TCP_connection_open, and BGP_Stop or an error after a NOTIFICATION, for the
\* acceptor; one that is deleted ignores them.
AcceptorEvent ==
    /\ ready # <<>> /\ Head(ready) \in AcceptEvent
    /\ acceptor' = IF acceptor \in {"none", "left"} THEN acceptor
                   ELSE IF Running("accept_open") THEN "OpenSent" ELSE "left"
    /\ ready' = Tail(ready)
    /\ UNCHANGED <<status, conn, timers, events, admin, gr, table>>

\* Fault: the deleted peer stays in the list of peers.
Deleted_kept == acceptor' = "Deleted" /\ ready' = Tail(ready)

\* peer_delete of the acceptor.
Deleted == acceptor' = "none" /\ ready' = Without(Tail(ready), {"accept_read", "accept_hold"})

\* It is deleted after the first read, whatever was read, and when its hold
\* timer expires.
AcceptorDeleted ==
    /\ ready # <<>> /\ Head(ready) \in {"accept_read", "accept_hold"}
    /\ Deleted /\ events' = Without(events, AcceptEvent)
    /\ UNCHANGED <<status, conn, timers, admin, gr, table>>

\* Is the configured peer ready to take the acceptor's connection?
Colliding == status \in {"OpenSent", "OpenConfirm"}
Transferable ==
    \/ Colliding /\ config.localLower
    \/ status = "Established" /\ nsf
    \/ status \in {"Connect", "Active"}

\* The OPEN on the acceptor's connection: the configured peer is stopped and
\* takes over socket and status.  Timers are left to the event that follows.
Transfer ==
    /\ Running("accept_read") /\ Transferable
    /\ fd' = "open" /\ reading' = TRUE /\ sent' = 1
    /\ nsfWait' = (nsfWait \/ status = "Established")
    /\ nsf' = nsf
    /\ routes' = IF status = "Established" THEN Aged ELSE routes
    /\ timers' = IF status = "Established" THEN GrTimer ELSE timers \cap GrTimer
    /\ \E e \in OpenEvent :
          events' = Append(Without(events, Event \cup AcceptEvent), e)
    /\ status' = "OpenSent"
    /\ acceptor' = "none"
    /\ ready' = Without(Tail(ready), {"accept_read", "accept_hold"} \cup StopOff
                                     \cup (Timer \ GrTimer))
    /\ UNCHANGED <<admin, clearq>>

-----------------------------------------------------------------------------
(***************************************************************************)
(* The clear queue, the operator, the scheduler.                           *)
(***************************************************************************)
\* work_queue_run visits one or more nodes; the last one completes the clearing.
bgp_clear_route_node(f) ==
    IF nsf /\ nsfWait /\ routes[f] \in {"new", "old"} THEN "stale" ELSE "none"

work_queue_run ==
    /\ Running("clear")
    /\ \E n \in 1..Len(clearq) :
          LET visited == {clearq[i] : i \in 1..n}
          IN  /\ routes' = [f \in Family |-> IF f \in visited THEN bgp_clear_route_node(f)
                                             ELSE routes[f]]
              /\ clearq' = SubSeq(clearq, n + 1, Len(clearq))
              /\ events' = IF n = Len(clearq) THEN Append(events, "Clearing_Completed")
                           ELSE events
    /\ ready' = Tail(ready)
    /\ UNCHANGED <<status, conn, timers, admin, gr, acceptor>>

\* peer_nsf_stop clears the routes in whatever status the peer is.
peer_nsf_stop ==
    IF nsfWait
    THEN /\ nsfWait' = FALSE /\ nsf' = FALSE
         /\ timers' = timers \ GrTimer
         /\ clearq' = clearq \o Queued
    ELSE UNCHANGED <<gr, timers, clearq>>

\* neighbor shutdown, no neighbor shutdown, clear ip bgp.
peer_flag_modify_action ==
    /\ Running("vty")
    /\ shutdown' = ~shutdown /\ UNCHANGED config
    /\ LET evs == IF nsfWait /\ ~shutdown THEN events \o Completions ELSE events
       IN  IF status = "Established" /\ ~shutdown
           THEN bgp_notify_send(evs)
           ELSE events' = Append(evs, "BGP_Stop") /\ ready' = Tail(ready)
    /\ IF shutdown THEN UNCHANGED <<gr, timers, clearq>> ELSE peer_nsf_stop
    /\ UNCHANGED <<status, conn, routes, acceptor>>

peer_clear ==
    /\ Running("vty")
    /\ IF shutdown THEN events' = events /\ ready' = Tail(ready)
       ELSE IF status = "Established" THEN bgp_notify_send(events)
       ELSE events' = Append(events, "BGP_Stop") /\ ready' = Tail(ready)
    /\ UNCHANGED <<status, conn, timers, admin, gr, table, acceptor>>

\* Sockets that may become readable, in any order, then writable.
Readable ==
    (IF reading THEN {"read"} ELSE {}) \cup (IF Len(clearq) < MaxClear THEN {"vty"} ELSE {}) \cup
    (IF acceptor = "OpenSent" THEN {"accept_read"}
     ELSE IF acceptor \in {"none", "left"} THEN {"accept"} ELSE {})
Writable == IF reading THEN {<<>>, <<"write">>} ELSE {<<>>}
Expired ==
    {<<>>} \cup {<<t>> : t \in timers}
    \cup (IF acceptor = "OpenSent" /\ config.holdTime THEN {<<"accept_hold">>} ELSE {})
Background == IF clearq # <<>> THEN {<<>>, <<"clear">>} ELSE {<<>>}

thread_fetch ==
    /\ ready = <<>>
    /\ \E expired \in Expired, write \in Writable, background \in Background,
          n \in IF Len(events) < MaxEvents THEN 0..MaxSockets ELSE {0} :
          \E sockets \in [1..n -> Readable] :
             /\ IsInjective(sockets)
             /\ ready' = First(events, 1) \o expired \o sockets \o write \o background
    /\ ready' # <<>>
    /\ events' = SubSeq(events, 2, Len(events))
    /\ UNCHANGED <<status, conn, timers, admin, gr, table, acceptor>>

-----------------------------------------------------------------------------
Init ==
    /\ config \in Configs
    /\ status = "Idle" /\ fd = "none" /\ reading = FALSE /\ sent = 0
    /\ timers = {"t_start"} /\ events = <<>> /\ ready = <<>> /\ shutdown = FALSE
    /\ nsf = FALSE /\ nsfWait = FALSE
    /\ routes = [f \in Family |-> "none"] /\ clearq = <<>> /\ acceptor = "none"

Next ==
    \/ thread_fetch \/ RunEvent \/ RunTimer
    \/ bgp_graceful_restart_timer_expire \/ bgp_graceful_stale_timer_expire
    \/ bgp_connect_check \/ bgp_write \/ ReadNothing \/ bgp_read
    \/ bgp_accept \/ AcceptorEvent \/ AcceptorDeleted \/ Transfer
    \/ work_queue_run \/ peer_flag_modify_action \/ peer_clear

Spec == Init /\ [][Next]_vars

-----------------------------------------------------------------------------
\* No job is under way.
Quiet == events = <<>> /\ ready = <<>>

\* The session is never forgotten (bgp_timer_set, Clearing_Completed): when no job
\* is under way, a timer is set, or the clear queue waits, that moves it on,
\* whatever order events, timers, messages and commands came in.  A passive peer
\* may wait for its neighbour, so may one in NSF_WAIT, and a peer that is shut
\* down for the operator.
NeverStuck ==
    Quiet =>
        CASE status = "Idle" -> shutdown \/ "t_start" \in timers
          [] status = "Connect" -> "t_connect" \in timers
          [] status = "Active" ->
                shutdown \/ config.passive \/ nsfWait \/ "t_connect" \in timers
          [] status = "Clearing" -> clearq # <<>>
          [] OTHER -> config.holdTime => "t_holdtime" \in timers

\* A peer that may connect has no socket and no read thread left, which bgp_connect
\* would overwrite: every way out of a connection goes through bgp_stop.  It does
\* not for a neighbour that sends messages out of turn (bgp_ignore, Idle), nor for
\* a late Clearing_Completed, which takes a graceful restart.
Disconnected ==
    config.inOrder /\ ~config.graceful /\ status \in {"Idle", "Active", "Clearing"} =>
        fd = "none" /\ ~reading

\* bgp_clear_route: the session leaves Clearing only when all its routes are gone
\* and the clear queue is empty, however early Clearing_Completed was posted.
FreshStart ==
    ~config.graceful /\ status \notin {"Established", "Clearing"} =>
        clearq = <<>> /\ \A f \in Family : routes[f] = "none"

\* bgp_clear_route keeps the session in Clearing against a "race with routes from
\* the new session being installed before clear_route_node visits the node": no
\* node waits to be cleared in Established.
ClearedFirst == status = "Established" => clearq = <<>>

\* bgp_start is not called for a peer that is shut down: "Trying to start
\* suppressed peer - this is never supposed to happen!".
NeverStartsSuppressed ==
    \A t \in DOMAIN TimerEvent :
        Running(t) /\ FSM[status][TimerEvent[t]].func = "bgp_start" => ~shutdown
=============================================================================
