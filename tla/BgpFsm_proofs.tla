--------------------------- MODULE BgpFsm_proofs ---------------------------
(***************************************************************************)
(* Proofs about the session of one neighbour: types, a session that is     *)
(* never forgotten, routes that are gone before it starts again, and no    *)
(* connection that is left open.  What the table and each job do is stated *)
(* once, as one of seven kinds of step (StepKinds); the invariants are     *)
(* then kept by every kind.                                                *)
(***************************************************************************)
EXTENDS BgpFsm, Fifo_proofs, SequenceTheorems

-----------------------------------------------------------------------------
(***************************************************************************)
(* The jobs and the state table.                                           *)
(***************************************************************************)
Sockets == {"accept_hold", "vty", "read", "accept", "accept_read", "write", "clear"}

\* Events, timers, sockets and background work are different jobs.
LEMMA JobFacts ==
    /\ Job = Event \cup AcceptEvent \cup Timer \cup Sockets
    /\ Event \cap (AcceptEvent \cup Timer \cup Sockets) = {}
    /\ GrTimer \subseteq Timer /\ OpenEvent \subseteq Event
    /\ {"t_start", "t_connect", "t_holdtime", "t_keepalive"} \subseteq Timer \ GrTimer
BY DEF Job, Event, AcceptEvent, Timer, Sockets, GrTimer, OpenEvent, NotifyEvent

\* What the table says of the status that follows.
TableOK(s, e) ==
    LET func == FSM[s][e].func
        next == FSM[s][e].next
    IN  /\ next \in Status
        /\ func = "bgp_start" => s \in {"Idle", "Active"}
        /\ func = "bgp_connect_success" =>
              s \in {"Connect", "Active"} /\ e = "TCP_connection_open"
        /\ func = "bgp_establish" => s = "OpenConfirm" /\ next = "Established"
        /\ func = "bgp_clearing_completed" => s = "Clearing" /\ e = "Clearing_Completed"
        /\ next = "Established" => s = "Established" \/ func = "bgp_establish"
        /\ next = "Clearing" => s \in {"Established", "Clearing"}
        /\ s = "Established" /\ e # "Clearing_Completed" => next \in {"Established", "Clearing"}
        /\ s = "Clearing" /\ e # "Clearing_Completed" =>
              next = "Clearing" /\ func \in {"bgp_ignore", "bgp_stop"}
        /\ s = "Clearing" /\ e = "Clearing_Completed" =>
              next = "Idle" /\ func = "bgp_clearing_completed"

\* Every entry of the table FSM is as TableOK says.
LEMMA TableFacts ==
    ASSUME NEW s \in Status, NEW e \in Event
    PROVE  TableOK(s, e)
<1> USE DEF TableOK, FSM, Do, Tcp, Event, OpenEvent, NotifyEvent, Status
<1>1. CASE s = "Idle"
  BY <1>1
<1>2. CASE s = "Connect"
  BY <1>2
<1>3. CASE s = "Active"
  BY <1>3
<1>4. CASE s = "OpenSent"
  BY <1>4
<1>5. CASE s = "OpenConfirm"
  BY <1>5
<1>6. CASE s = "Established"
  BY <1>6
<1>7. CASE s = "Clearing"
  BY <1>7
<1> QED
  BY <1>1, <1>2, <1>3, <1>4, <1>5, <1>6, <1>7

-----------------------------------------------------------------------------
(***************************************************************************)
(* What follows a function of the table that returned 0.                   *)
(***************************************************************************)
Queueable == Event \cup AcceptEvent

\* bgp_clear_route_all queues the families with routes.  It completes at once for
\* the first one only if that has no routes and nothing else is being cleared.
LEMMA ClearFacts ==
    ASSUME TypeOK
    PROVE  /\ Queued \in Seq(Family) /\ ToSet(Queued) = {f \in Family : routes[f] # "none"}
           /\ Completions \in Seq(Queueable) /\ ToSet(Completions) \subseteq {"Clearing_Completed"}
           /\ clearq = <<>> /\ routes[Families[1]] = "none"
                 <=> "Clearing_Completed" \in ToSet(Completions)
<1>1. Families \in Seq(Family) /\ Len(Families) \in Nat \ {0} /\ DOMAIN Families = 1..Len(Families)
  BY FsmAssumption DEF Family
<1>2. Queued \in Seq(Family) /\ ToSet(Queued) = {f \in Family : routes[f] # "none"}
  <2> DEFINE T == {f \in Family : routes[f] # "none"}
  <2>1. Queued = Filter(Families, T)
    BY DEF Queued, Cleared
  <2> HIDE DEF T
  <2>2. Queued \in Seq(Family) /\ ToSet(Queued) = ToSet(Families) \cap T
    BY <1>1, <2>1, FilterSet
  <2> QED
    BY <2>2 DEF Family, T
<1> DEFINE Early(i) == clearq = <<>> /\ \A j \in 1..i : ~Cleared(Families[j])
           E == {j \in DOMAIN Families : Early(j)}
           n == Cardinality(E)
<1>3. IsFiniteSet(E) /\ n \in Nat /\ (n = 0 <=> E = {})
  <2>1. IsFiniteSet(1..Len(Families))
    BY <1>1, FS_Interval
  <2>2. E \subseteq 1..Len(Families)
    BY <1>1
  <2> HIDE DEF E
  <2>3. IsFiniteSet(E)
    BY <2>1, <2>2, FS_Subset
  <2> QED
    BY <2>3, FS_CardinalityType, FS_EmptySet
<1>4. Completions = [i \in 1..n |-> "Clearing_Completed"]
  BY DEF Completions
<1>5. E # {} <=> clearq = <<>> /\ routes[Families[1]] = "none"
  BY <1>1 DEF Cleared
<1> HIDE DEF n, E
<1>6. /\ Completions \in Seq({"Clearing_Completed"}) /\ DOMAIN Completions = 1..n
      /\ \A i \in 1..n : Completions[i] = "Clearing_Completed"
  BY <1>3, <1>4
<1>7. ToSet(Completions) = {Completions[i] : i \in 1..n}
  BY <1>6 DEF ToSet
<1>8. ToSet(Completions) = IF n = 0 THEN {} ELSE {"Clearing_Completed"}
  BY <1>3, <1>6, <1>7
<1>9. {"Clearing_Completed"} \subseteq Queueable
  BY DEF Queueable, Event
<1>10. Completions \in Seq(Queueable)
  BY <1>6, <1>9
<1> QED
  BY <1>2, <1>3, <1>5, <1>8, <1>10

\* The events left by the function stay, a Clearing_Completed may be added; no
\* event is taken off the ready list.
LEMMA ProceedFacts ==
    ASSUME TypeOK, ready # <<>>, NEW next \in Status, NEW evs \in Seq(Queueable),
           NEW set \in SUBSET Timer, NEW off \in SUBSET (Job \ Event),
           Proceed(next, evs, set, off)
    PROVE  /\ status' = next /\ UNCHANGED <<shutdown, config, acceptor>>
           /\ timers' = bgp_timer_set(next, nsfWait, set) /\ timers' \in SUBSET Timer
           /\ ready' \in Seq(Job) /\ ToSet(ready') \subseteq ToSet(Tail(ready))
           /\ ToSet(Tail(ready)) \cap Event \subseteq ToSet(ready')
           /\ events' \in Seq(Queueable) /\ ToSet(evs) \subseteq ToSet(events')
           /\ clearq' \in Seq(Family)
           /\ ~(next = "Clearing" /\ status # "Clearing") => clearq' = clearq /\ events' = evs
           /\ next = "Clearing" /\ status # "Clearing" =>
                 /\ ToSet(clearq') = ToSet(clearq) \cup {f \in Family : routes[f] # "none"}
                 /\ ToSet(events') = ToSet(evs) \cup ToSet(Completions)
<1>1. status' = next /\ UNCHANGED <<shutdown, config, acceptor>>
  BY DEF Proceed, admin
<1>2. timers' = bgp_timer_set(next, nsfWait, set)
  BY DEF Proceed
<1>3. timers' \in SUBSET Timer
  BY <1>2 DEF bgp_timer_set, Timer
<1>4. /\ ready' \in Seq(Job) /\ ToSet(ready') \subseteq ToSet(Tail(ready))
      /\ ToSet(Tail(ready)) \cap Event \subseteq ToSet(ready')
  <2> DEFINE T == off \cup (Timer \ set) \cup (set \ timers')
             t == Tail(ready)
  <2>1. t \in Seq(Job)
    BY TailSet DEF TypeOK
  <2>2. ready' = Without(t, T)
    BY DEF Proceed
  <2>3. T \cap Event = {}
    BY JobFacts
  <2> HIDE DEF T, t
  <2>4. ready' \in Seq(Job) /\ ToSet(ready') = ToSet(t) \ T
    BY <2>1, <2>2, WithoutSet
  <2> QED
    BY <2>3, <2>4 DEF t
<1>5. bgp_fsm_change_status(next, evs)
  BY DEF Proceed
<1>6. CASE ~(next = "Clearing" /\ status # "Clearing")
  <2>1. clearq' = clearq /\ events' = evs
    BY <1>5, <1>6 DEF bgp_fsm_change_status
  <2> QED
    BY <1>1, <1>2, <1>3, <1>4, <1>6, <2>1 DEF TypeOK
<1>7. CASE next = "Clearing" /\ status # "Clearing"
  <2>1. clearq' = clearq \o Queued /\ events' = evs \o Completions
    BY <1>5, <1>7 DEF bgp_fsm_change_status
  <2>2. Queued \in Seq(Family) /\ Completions \in Seq(Queueable) /\ clearq \in Seq(Family)
    BY ClearFacts DEF TypeOK
  <2>3. clearq' \in Seq(Family) /\ ToSet(clearq') = ToSet(clearq) \cup ToSet(Queued)
    BY <2>1, <2>2, ConcatSet
  <2>4. events' \in Seq(Queueable) /\ ToSet(events') = ToSet(evs) \cup ToSet(Completions)
    BY <2>1, <2>2, ConcatSet
  <2> QED
    BY <1>1, <1>2, <1>3, <1>4, <1>7, <2>3, <2>4, ClearFacts
<1> QED
  BY <1>6, <1>7

-----------------------------------------------------------------------------
(***************************************************************************)
(* The functions of the table.  One that refuses leaves the status alone;  *)
(* after any other, bgp_event goes on.                                     *)
(***************************************************************************)
Refused(func, set) ==
    /\ (func = "bgp_start" /\ shutdown) \/ func = "bgp_connect_success"
    /\ timers' = set /\ ready' = Tail(ready)
    /\ UNCHANGED <<status, events, admin, clearq, acceptor, gr, routes>>

Moved(func, next) ==
    \E evs \in Seq(Queueable), set \in SUBSET Timer, off \in SUBSET (Job \ Event) :
        /\ Proceed(next, evs, set, off)
        /\ "Clearing_Completed" \in ToSet(evs) =>
              "Clearing_Completed" \in ToSet(events) /\ func # "bgp_clearing_completed"
        /\ status = "Clearing" /\ func \in {"bgp_ignore", "bgp_stop"} => evs = events

\* What a function may do to the connection, to graceful restart and to the routes.
Effects(func) ==
    /\ fd' \in {"none", "connecting", "open"} /\ reading' \in BOOLEAN /\ sent' \in 0..2
    /\ nsf' \in BOOLEAN /\ nsfWait' \in BOOLEAN /\ routes' \in [Family -> RouteState]
    /\ func # "bgp_establish" => nsfWait' = nsfWait
    /\ ~config.graceful /\ ~nsf /\ ~nsfWait => ~nsf' /\ ~nsfWait'
    /\ \A f \in Family : routes[f] = "none" => routes'[f] = "none"

\* What bgp_stop keeps and cancels.
LEMMA StopParts ==
    ASSUME TypeOK, NEW set \in SUBSET Timer
    PROVE  /\ StopEvents \in Seq(Queueable) /\ ToSet(StopEvents) \subseteq ToSet(events)
           /\ status = "Clearing" => StopEvents = events
           /\ StopTimers(set) \in SUBSET Timer /\ StopOff \in SUBSET (Job \ Event)
<1>1. StopEvents \in Seq(Queueable) /\ ToSet(StopEvents) \subseteq ToSet(events)
  BY WithoutSet DEF StopEvents, BGP_EVENT_FLUSH, TypeOK, Queueable
<1>2. status = "Clearing" => StopEvents = events
  BY DEF StopEvents
<1>3. StopTimers(set) \in SUBSET Timer
  BY DEF StopTimers, Timer
<1>4. StopOff \subseteq {"read", "write", "t_gr_stale"}
  BY DEF StopOff
<1>5. {"read", "write"} \subseteq Sockets /\ "t_gr_stale" \in Timer
  BY DEF Sockets, Timer, GrTimer
<1>6. StopOff \subseteq Job \ Event
  BY <1>4, <1>5, JobFacts
<1> QED
  BY <1>1, <1>2, <1>3, <1>6

\* bgp_stop closes the connection and keeps the routes.
LEMMA DisconnectFacts ==
    ASSUME TypeOK, NEW func, Disconnect
    PROVE  Effects(func)
<1>1. /\ routes' \in [Family -> RouteState]
      /\ \A f \in Family : routes[f] = "none" => routes'[f] = "none"
  BY DEF Disconnect, TypeOK, Aged, RouteState
<1>2. /\ fd' = "none" /\ reading' = FALSE /\ sent' = 0 /\ nsfWait' = nsfWait
      /\ nsf' \in BOOLEAN /\ (~nsf => ~nsf')
  BY DEF Disconnect, TypeOK
<1>3. nsfWait' \in BOOLEAN /\ fd' \in {"none", "connecting", "open"} /\ reading' \in BOOLEAN
  BY <1>2 DEF TypeOK
<1>4. sent' \in 0..2
  BY <1>2
<1> QED
  BY <1>1, <1>2, <1>3, <1>4, Zenon DEF Effects

\* bgp_stop and what calls it.
LEMMA StopFacts ==
    ASSUME TypeOK, ready # <<>>, NEW func, func # "bgp_clearing_completed",
           NEW next, NEW set \in SUBSET Timer, bgp_stop(next, set)
    PROVE  Moved(func, next) /\ Effects(func)
<1>1. Proceed(next, StopEvents, StopTimers(set), StopOff) /\ Disconnect
  BY DEF bgp_stop
<1>2. Moved(func, next)
  BY <1>1, StopParts DEF Moved
<1>3. Effects(func)
  BY <1>1, DisconnectFacts
<1> QED
  BY <1>2, <1>3

\* bgp_ignore.
LEMMA IgnoreFacts ==
    ASSUME TypeOK, ready # <<>>, NEW func, func # "bgp_clearing_completed",
           NEW next, NEW set \in SUBSET Timer, bgp_ignore(next, set)
    PROVE  Moved(func, next) /\ Effects(func)
<1>1. events \in Seq(Queueable) /\ {} \in SUBSET (Job \ Event)
  BY DEF TypeOK, Queueable
<1>2. Moved(func, next)
  BY <1>1 DEF Moved, bgp_ignore
<1>3. Effects(func)
  BY DEF Effects, bgp_ignore, conn, gr, TypeOK
<1> QED
  BY <1>2, <1>3

\* The hold timer set anew.
LEMMA HoldFacts ==
    ASSUME TypeOK, ready # <<>>, NEW func, func # "bgp_clearing_completed",
           NEW next, NEW set \in SUBSET Timer, HoldAgain(next, set)
    PROVE  Moved(func, next) /\ Effects(func)
<1>1. /\ events \in Seq(Queueable) /\ {} \in SUBSET (Job \ Event)
      /\ set \ {"t_holdtime"} \in SUBSET Timer
  BY DEF TypeOK, Queueable
<1>2. Moved(func, next)
  BY <1>1 DEF Moved, HoldAgain
<1>3. Effects(func)
  BY DEF Effects, HoldAgain, conn, gr, TypeOK
<1> QED
  BY <1>2, <1>3

\* bgp_start adds the event of how the connect went.
LEMMA StartEventsFacts ==
    ASSUME NEW outcome, NEW evs \in Seq(Queueable)
    PROVE  /\ StartEvents(outcome, evs) \in Seq(Queueable)
           /\ "Clearing_Completed" \in ToSet(StartEvents(outcome, evs))
                 => "Clearing_Completed" \in ToSet(evs)
<1>1. {"TCP_connection_open_failed", "TCP_connection_open"} \subseteq Queueable
  BY DEF Queueable, Event
<1>2. ASSUME NEW e \in {"TCP_connection_open_failed", "TCP_connection_open"}
      PROVE  /\ Append(evs, e) \in Seq(Queueable)
             /\ "Clearing_Completed" \in ToSet(Append(evs, e)) => "Clearing_Completed" \in ToSet(evs)
  BY <1>1, AppendSet
<1> QED
  BY <1>2 DEF StartEvents

\* bgp_start: refused when shut down, else the connect is under way.
LEMMA StartFacts ==
    ASSUME TypeOK, ready # <<>>, NEW next, NEW set \in SUBSET Timer, bgp_start(next, set)
    PROVE  /\ Refused("bgp_start", set) \/ Moved("bgp_start", next)
           /\ Effects("bgp_start")
<1>1. CASE shutdown
  BY <1>1 DEF bgp_start, Refused, Effects, TypeOK, gr, conn
<1>2. CASE ~shutdown
  <2>1. PICK outcome \in Outcome : /\ bgp_connect(outcome, fd, reading)
                                   /\ Proceed(next, StartEvents(outcome, events), set, {})
    BY <1>2 DEF bgp_start
  <2>2. events \in Seq(Queueable) /\ {} \in SUBSET (Job \ Event)
    BY DEF TypeOK, Queueable
  <2>3. Moved("bgp_start", next)
    BY <2>1, <2>2, StartEventsFacts DEF Moved
  <2>4. Effects("bgp_start")
    BY <1>2, <2>1 DEF bgp_start, bgp_connect, Effects, TypeOK, gr
  <2> QED
    BY <2>3, <2>4
<1> QED
  BY <1>1, <1>2

\* bgp_reconnect: stopped and started again.
LEMMA ReconnectFacts ==
    ASSUME TypeOK, ready # <<>>, NEW next, NEW set \in SUBSET Timer, bgp_reconnect(next, set)
    PROVE  Moved("bgp_reconnect", next) /\ Effects("bgp_reconnect")
<1>1. PICK outcome : /\ bgp_connect(outcome, "none", FALSE)
                     /\ Proceed(next, StartEvents(outcome, StopEvents), StopTimers(set), StopOff)
  BY DEF bgp_reconnect
<1>2. Moved("bgp_reconnect", next)
  BY <1>1, StopParts, StartEventsFacts DEF Moved
<1>3. Effects("bgp_reconnect")
  BY <1>1 DEF bgp_reconnect, bgp_connect, Effects, TypeOK, gr
<1> QED
  BY <1>2, <1>3

\* bgp_connect_success: refused without a socket.
LEMMA ConnectSuccessFacts ==
    ASSUME TypeOK, ready # <<>>, NEW next, NEW set \in SUBSET Timer,
           bgp_connect_success(next, set)
    PROVE  /\ Refused("bgp_connect_success", set) \/ Moved("bgp_connect_success", next)
           /\ Effects("bgp_connect_success")
<1>1. CASE fd = "none"
  BY <1>1 DEF bgp_connect_success, Refused, Effects, TypeOK, gr
<1>2. CASE fd # "none"
  <2>1. events \in Seq(Queueable) /\ {} \in SUBSET (Job \ Event)
    BY DEF TypeOK, Queueable
  <2>2. Moved("bgp_connect_success", next)
    BY <1>2, <2>1 DEF bgp_connect_success, Moved
  <2>3. Effects("bgp_connect_success")
    BY <1>2 DEF bgp_connect_success, Effects, TypeOK, gr
  <2> QED
    BY <2>2, <2>3
<1> QED
  BY <1>1, <1>2

\* bgp_establish: graceful restart is on only if it was negotiated.
LEMMA EstablishFacts ==
    ASSUME TypeOK, ready # <<>>, NEW next, NEW set \in SUBSET Timer, bgp_establish(next, set)
    PROVE  Moved("bgp_establish", next) /\ Effects("bgp_establish")
<1>1. PICK restart \in {FALSE, config.graceful}, preserved \in BOOLEAN :
          /\ nsfWait' = FALSE /\ nsf' = restart
          /\ routes' = IF nsf /\ ~(restart /\ preserved)
                       THEN bgp_clear_stale_route(routes) ELSE routes
          /\ Proceed(next, events,
                     set \ ({"t_gr_restart"} \cup (IF restart THEN {} ELSE {"t_gr_stale"})), {})
  BY DEF bgp_establish
<1>2. events \in Seq(Queueable) /\ {} \in SUBSET (Job \ Event)
  BY DEF TypeOK, Queueable
<1>3. set \ ({"t_gr_restart"} \cup (IF restart THEN {} ELSE {"t_gr_stale"})) \in SUBSET Timer
  OBVIOUS
<1>4. Moved("bgp_establish", next)
  BY <1>1, <1>2, <1>3 DEF Moved
<1>5. /\ restart \in BOOLEAN /\ (~config.graceful => ~restart)
      /\ nsfWait' = FALSE /\ nsf' = restart /\ UNCHANGED <<fd, reading, sent>>
  BY <1>1 DEF bgp_establish, conn, TypeOK, Config
<1>6. /\ routes' \in [Family -> RouteState]
      /\ \A f \in Family : routes[f] = "none" => routes'[f] = "none"
  BY <1>1 DEF bgp_clear_stale_route, TypeOK, RouteState
<1>7. Effects("bgp_establish")
  BY <1>5, <1>6 DEF Effects, TypeOK
<1> QED
  BY <1>4, <1>7

\* bgp_clearing_completed: no Clearing_Completed is left among the events.
LEMMA CompletedFacts ==
    ASSUME TypeOK, ready # <<>>, NEW next, NEW set \in SUBSET Timer,
           bgp_clearing_completed(next, set)
    PROVE  Moved("bgp_clearing_completed", next) /\ Effects("bgp_clearing_completed")
<1> DEFINE evs == BGP_EVENT_FLUSH(events)
<1>1. evs \in Seq(Queueable) /\ ToSet(evs) = ToSet(events) \ Event
  BY WithoutSet DEF BGP_EVENT_FLUSH, TypeOK, Queueable
<1>2. "Clearing_Completed" \notin ToSet(evs)
  BY <1>1 DEF Event
<1>3. Proceed(next, evs, StopTimers(set), StopOff) /\ Disconnect
  BY DEF bgp_clearing_completed
<1> HIDE DEF evs
<1>4. Moved("bgp_clearing_completed", next)
  BY <1>1, <1>2, <1>3, StopParts DEF Moved
<1>5. Effects("bgp_clearing_completed")
  BY <1>3, DisconnectFacts
<1> QED
  BY <1>4, <1>5

\* Any function of the table.
LEMMA CallFacts ==
    ASSUME TypeOK, ready # <<>>, NEW func, NEW next, NEW set \in SUBSET Timer,
           Call(func, next, set)
    PROVE  (Refused(func, set) \/ Moved(func, next)) /\ Effects(func)
<1>1. CASE func = "bgp_ignore" /\ bgp_ignore(next, set)
  BY <1>1, IgnoreFacts
<1>2. CASE func = "bgp_start" /\ bgp_start(next, set)
  BY <1>2, StartFacts
<1>3. CASE func = "bgp_stop" /\ bgp_stop(next, set)
  BY <1>3, StopFacts
<1>4. CASE func = "bgp_stop_with_error" /\ bgp_stop_with_error(next, set)
  BY <1>4, StopFacts DEF bgp_stop_with_error
<1>5. CASE func = "bgp_connect_success" /\ bgp_connect_success(next, set)
  BY <1>5, ConnectSuccessFacts
<1>6. CASE func = "bgp_connect_fail" /\ bgp_connect_fail(next, set)
  BY <1>6, StopFacts DEF bgp_connect_fail
<1>7. CASE func = "bgp_reconnect" /\ bgp_reconnect(next, set)
  BY <1>7, ReconnectFacts
<1>8. CASE func = "bgp_fsm_open" /\ bgp_fsm_open(next, set)
  BY <1>8, HoldFacts DEF bgp_fsm_open
<1>9. CASE func = "bgp_fsm_keepalive_expire" /\ bgp_fsm_keepalive_expire(next, set)
  BY <1>9, IgnoreFacts DEF bgp_fsm_keepalive_expire
<1>10. CASE func = "bgp_fsm_holdtime_expire" /\ bgp_fsm_holdtime_expire(next, set)
  BY <1>10, StopFacts DEF bgp_fsm_holdtime_expire
<1>11. CASE func = "bgp_establish" /\ bgp_establish(next, set)
  BY <1>11, EstablishFacts
<1>12. CASE func = "bgp_fsm_keepalive" /\ bgp_fsm_keepalive(next, set)
  BY <1>12, HoldFacts DEF bgp_fsm_keepalive
<1>13. CASE func = "bgp_fsm_update" /\ bgp_fsm_update(next, set)
  BY <1>13, HoldFacts DEF bgp_fsm_update
<1>14. CASE func = "bgp_clearing_completed" /\ bgp_clearing_completed(next, set)
  BY <1>14, CompletedFacts
<1> QED
  BY <1>1, <1>2, <1>3, <1>4, <1>5, <1>6, <1>7, <1>8, <1>9, <1>10, <1>11, <1>12, <1>13, <1>14
     DEF Call

-----------------------------------------------------------------------------
(***************************************************************************)
(* The jobs that are not events of the peer.                               *)
(***************************************************************************)
\* The running job is done; of the rest of the ready list no event is cancelled.
Ran ==
    /\ ready' \in Seq(Job) /\ ToSet(ready') \subseteq ToSet(Tail(ready))
    /\ ToSet(Tail(ready)) \cap Event \subseteq ToSet(ready')

\* Events of the peer were added, and no Clearing_Completed.
Posted ==
    /\ events' \in Seq(Queueable) /\ ToSet(events) \cap Event \subseteq ToSet(events')
    /\ "Clearing_Completed" \in ToSet(events') => "Clearing_Completed" \in ToSet(events)

\* Cancelling jobs that are no events of the peer.
LEMMA RanFacts ==
    ASSUME TypeOK, ready # <<>>, NEW T, T \cap Event = {},
           ready' = Tail(ready) \/ ready' = Without(Tail(ready), T)
    PROVE  Ran
<1> DEFINE t == Tail(ready)
<1>1. t \in Seq(Job)
  BY TailSet DEF TypeOK
<1>2. ready' = t \/ ready' = Without(t, T)
  OBVIOUS
<1> HIDE DEF t
<1>3. Without(t, T) \in Seq(Job) /\ ToSet(Without(t, T)) = ToSet(t) \ T
  BY <1>1, WithoutSet
<1>4. ready' \in Seq(Job) /\ ToSet(ready') \subseteq ToSet(t) /\ ToSet(t) \cap Event \subseteq ToSet(ready')
  BY <1>1, <1>2, <1>3
<1> QED
  BY <1>4 DEF Ran, t

\* A job that cancels nothing.
LEMMA RanTail ==
    ASSUME TypeOK, ready # <<>>, ready' = Tail(ready)
    PROVE  Ran
<1>1. {} \cap Event = {}
  OBVIOUS
<1> QED
  BY <1>1, RanFacts

\* BGP_EVENT_ADD.
LEMMA PostFacts ==
    ASSUME TypeOK, NEW e \in Queueable \ {"Clearing_Completed"}, events' = Append(events, e)
    PROVE  Posted /\ e \in ToSet(events')
<1>1. events \in Seq(Queueable)
  BY DEF TypeOK, Queueable
<1>2. events' \in Seq(Queueable) /\ ToSet(events') = ToSet(events) \cup {e}
  BY <1>1, AppendSet
<1> QED
  BY <1>2 DEF Posted

\* A job that only reads, writes or posts: the status, the timers of the session
\* and the clear queue stay, and routes are learned in Established only.
Aside ==
    /\ ready # <<>> /\ Head(ready) \notin Event /\ Ran /\ Posted
    /\ UNCHANGED <<status, shutdown, config, clearq, nsf>>
    /\ timers' \in {timers, timers \ {"t_gr_stale"}}
    /\ nsfWait' \in {nsfWait, nsfWait \/ (status = "Established" /\ nsf)}
    /\ fd' \in {"none", "connecting", "open"} /\ reading' \in BOOLEAN /\ sent' \in 0..2
    /\ acceptor' \in {"none", "left", "Active", "OpenSent"}
    /\ routes' \in [Family -> RouteState]
    /\ status # "Established" => \A f \in Family : routes[f] = "none" => routes'[f] = "none"

\* A NOTIFICATION is followed by BGP_Stop or by an error.
LEMMA NotifyFacts ==
    ASSUME TypeOK, ready # <<>>, bgp_notify_send(events)
    PROVE  Ran /\ Posted /\ \E e \in OpenEvent : e \in ToSet(events')
<1>1. PICK e \in NotifyEvent :
          events' = Append(events, e) /\ ready' = Without(Tail(ready), {"write"})
  BY DEF bgp_notify_send
<1>2. e \in Queueable \ {"Clearing_Completed"} /\ e \in OpenEvent
  BY DEF NotifyEvent, OpenEvent, Queueable, Event
<1>3. {"write"} \cap Event = {}
  BY DEF Event
<1>4. Posted /\ e \in ToSet(events')
  BY <1>1, <1>2, PostFacts
<1>5. Ran
  BY <1>1, <1>3, RanFacts
<1> QED
  BY <1>2, <1>4, <1>5

\* Stale routes are removed, no route is added.
LEMMA StaleFacts ==
    ASSUME TypeOK, routes' = IF nsf THEN bgp_clear_stale_route(routes) ELSE routes
    PROVE  /\ routes' \in [Family -> RouteState]
           /\ \A f \in Family : routes[f] = "none" => routes'[f] = "none"
BY DEF bgp_clear_stale_route, TypeOK, RouteState

\* How the connect went is posted.
LEMMA AsideConnect ==
    ASSUME TypeOK, bgp_connect_check PROVE Aside
<1>1. PICK e \in {"TCP_connection_open", "TCP_connection_open_failed", "TCP_fatal_error"} :
          events' = Append(events, e) /\ fd' = IF e = "TCP_connection_open" THEN "open" ELSE fd
  BY DEF bgp_connect_check
<1>2. e \in Queueable \ {"Clearing_Completed"} /\ {"read", "write"} \cap Event = {}
  BY DEF Queueable, Event
<1>3. Posted
  BY <1>1, <1>2, PostFacts
<1>4. /\ ready # <<>> /\ Head(ready) \notin Event
      /\ ready' = Without(Tail(ready), {"read", "write"})
  BY <1>2 DEF bgp_connect_check
<1>5. Ran
  BY <1>2, <1>4, RanFacts
<1> QED
  BY <1>1, <1>3, <1>4, <1>5 DEF bgp_connect_check, Aside, TypeOK, admin, gr, table

\* A write that fails is posted.
LEMMA AsideWrite ==
    ASSUME TypeOK, bgp_write PROVE Aside
<1>1. "TCP_fatal_error" \in Queueable \ {"Clearing_Completed"} /\ "write" \notin Event
  BY DEF Queueable, Event
<1>2. Posted
  BY <1>1, PostFacts DEF bgp_write
<1>3. ready # <<>> /\ Head(ready) \notin Event /\ ready' = Tail(ready)
  BY <1>1 DEF bgp_write, Running
<1>4. Ran
  BY <1>3, RanTail
<1> QED
  BY <1>2, <1>3, <1>4 DEF bgp_write, Aside, TypeOK, admin, gr, table, conn

\* Nothing is posted.
LEMMA NoPost ==
    ASSUME TypeOK, events' = events PROVE Posted
BY DEF Posted, TypeOK, Queueable

\* There was nothing to read from.
LEMMA AsideReadNothing ==
    ASSUME TypeOK, ReadNothing PROVE Aside
<1>1. ready # <<>> /\ Head(ready) \notin Event /\ ready' = Tail(ready)
  BY DEF ReadNothing, Running, Event
<1>2. Ran /\ Posted
  BY <1>1, RanTail, NoPost DEF ReadNothing
<1> QED
  BY <1>1, <1>2 DEF ReadNothing, Aside, TypeOK, admin, gr, table

\* The stale timer removes routes.
LEMMA AsideStale ==
    ASSUME TypeOK, bgp_graceful_stale_timer_expire PROVE Aside
<1>1. ready # <<>> /\ Head(ready) \notin Event /\ ready' = Tail(ready)
  BY DEF bgp_graceful_stale_timer_expire, Running, Event
<1>2. Ran /\ Posted
  BY <1>1, RanTail, NoPost DEF bgp_graceful_stale_timer_expire
<1> QED
  BY <1>1, <1>2, StaleFacts
     DEF bgp_graceful_stale_timer_expire, Aside, TypeOK, admin, gr, conn

\* An OPEN on the peer's own connection.
LEMMA OpenFacts ==
    ASSUME TypeOK, ready # <<>>, bgp_open_receive
    PROVE  Ran /\ Posted /\ UNCHANGED <<nsf, nsfWait, routes, clearq>>
<1>1. UNCHANGED <<nsf, nsfWait, routes, clearq>>
  BY DEF bgp_open_receive, gr, table
<1>2. CASE acceptor = "OpenSent" /\ ~config.localLower
  BY <1>1, <1>2, NotifyFacts DEF bgp_open_receive
<1>3. CASE ~(acceptor = "OpenSent" /\ ~config.localLower)
  <2> DEFINE stop == IF acceptor = "OpenSent" THEN <<"accept_stop">> ELSE <<>>
  <2>1. PICK e \in OpenEvent : events' = events \o stop \o <<e>> /\ ready' = Tail(ready)
    BY <1>3 DEF bgp_open_receive
  <2>0. e \in Queueable /\ e # "Clearing_Completed" /\ "accept_stop" \in Queueable
    BY DEF Queueable, AcceptEvent, OpenEvent, NotifyEvent, Event
  <2>2. /\ events \in Seq(Queueable) /\ stop \in Seq(Queueable) /\ <<e>> \in Seq(Queueable)
        /\ ToSet(<<e>>) = {e} /\ ToSet(stop) \subseteq {"accept_stop"}
        /\ e # "Clearing_Completed"
    <3>1. events \in Seq(Queueable)
      BY DEF TypeOK, Queueable
    <3>2. <<e>> \in Seq(Queueable) /\ ToSet(<<e>>) = {e}
      BY <2>0 DEF ToSet
    <3>3. stop \in Seq(Queueable) /\ ToSet(stop) \subseteq {"accept_stop"}
      BY <2>0 DEF ToSet
    <3> QED
      BY <2>0, <3>1, <3>2, <3>3
  <2> HIDE DEF stop
  <2>3. events \o stop \in Seq(Queueable) /\ ToSet(events \o stop) = ToSet(events) \cup ToSet(stop)
    BY <2>2, ConcatSet
  <2> DEFINE both == events \o stop
             last == <<e>>
  <2>4. events' = both \o last /\ both \in Seq(Queueable) /\ last \in Seq(Queueable)
    BY <2>1, <2>2, <2>3
  <2> HIDE DEF both, last
  <2>5. events' \in Seq(Queueable) /\ ToSet(events') = ToSet(both) \cup ToSet(last)
    BY <2>4, ConcatSet
  <2>6. Posted
    BY <2>2, <2>3, <2>5 DEF both, last, Posted
  <2> QED
    BY <1>1, <2>1, <2>6, RanTail
<1> QED
  BY <1>2, <1>3

\* An UPDATE changes routes in Established only.
LEMMA UpdateFacts ==
    ASSUME TypeOK, ready # <<>>, NEW m, bgp_update_receive(m)
    PROVE  /\ Ran /\ Posted /\ UNCHANGED <<nsf, nsfWait, clearq>>
           /\ routes' \in [Family -> RouteState]
           /\ status # "Established" => routes' = routes
<1>1. CASE status # "Established" /\ bgp_notify_send(events) /\ UNCHANGED <<gr, table>>
  BY <1>1, NotifyFacts DEF gr, table, TypeOK
<1>2. CASE /\ status = "Established"
           /\ \/ /\ m = "UPDATE" /\ Len(clearq) < MaxClear
                 /\ \E f \in Family, r \in {"none", "new"} : routes' = [routes EXCEPT ![f] = r]
              \/ m = "EOR" /\ routes' = IF nsf THEN bgp_clear_stale_route(routes) ELSE routes
           /\ Post("Receive_UPDATE_message")
           /\ UNCHANGED <<gr, clearq>>
  <2>1. Ran /\ Posted
    <3>1. "Receive_UPDATE_message" \in Queueable \ {"Clearing_Completed"}
      BY DEF Queueable, Event
    <3>2. events' = Append(events, "Receive_UPDATE_message") /\ ready' = Tail(ready)
      BY <1>2 DEF Post
    <3> QED
      BY <3>1, <3>2, PostFacts, RanTail
  <2>2. routes' \in [Family -> RouteState]
    <3>1. CASE \E f \in Family, r \in {"none", "new"} : routes' = [routes EXCEPT ![f] = r]
      BY <3>1 DEF TypeOK, RouteState
    <3>2. CASE routes' = IF nsf THEN bgp_clear_stale_route(routes) ELSE routes
      BY <3>2, StaleFacts
    <3> QED
      BY <1>2, <3>1, <3>2
  <2> QED
    BY <1>2, <2>1, <2>2 DEF gr
<1> QED
  BY <1>1, <1>2 DEF bgp_update_receive

\* A message is read.
LEMMA AsideRead ==
    ASSUME TypeOK, bgp_read PROVE Aside
<1>1. ready # <<>> /\ Head(ready) \notin Event
  BY DEF bgp_read, Running, Event
<1>2. /\ UNCHANGED <<status, fd, reading, timers, shutdown, config, acceptor>>
      /\ sent' \in 0..2
  BY DEF bgp_read, admin, TypeOK
<1> DEFINE Got == /\ Ran /\ Posted /\ UNCHANGED <<nsf, clearq>>
                  /\ nsfWait' \in {nsfWait, nsfWait \/ (status = "Established" /\ nsf)}
                  /\ routes' \in [Family -> RouteState]
                  /\ status # "Established" => routes' = routes
<1>3. ASSUME NEW e \in {"Receive_KEEPALIVE_message", "Receive_NOTIFICATION_message",
                        "TCP_connection_closed", "TCP_fatal_error"}, Post(e)
      PROVE  Ran /\ Posted
  <2>1. e \in Queueable \ {"Clearing_Completed"}
    BY DEF Queueable, Event
  <2> QED
    BY <1>1, <1>3, <2>1, PostFacts, RanTail DEF Post
<1>4. PICK m \in Message :
             \/ m = "OPEN" /\ bgp_open_receive
             \/ m = "KEEPALIVE" /\ Post("Receive_KEEPALIVE_message") /\ UNCHANGED <<gr, table>>
             \/ m \in {"UPDATE", "EOR"} /\ bgp_update_receive(m)
             \/ m = "NOTIFICATION" /\ Post("Receive_NOTIFICATION_message")
                   /\ UNCHANGED <<gr, table>>
             \/ m = "BAD" /\ bgp_notify_send(events) /\ UNCHANGED <<gr, table>>
             \/ m = "CLOSED" /\ bgp_read_packet("TCP_connection_closed")
             \/ m = "ERROR" /\ bgp_read_packet("TCP_fatal_error")
  BY DEF bgp_read
<1>5. ASSUME bgp_open_receive PROVE Got
  BY <1>1, <1>5, OpenFacts DEF TypeOK
<1>6. ASSUME bgp_update_receive(m) PROVE Got
  BY <1>1, <1>6, UpdateFacts
<1>7. ASSUME UNCHANGED <<gr, table>>,
             \/ Post("Receive_KEEPALIVE_message") \/ Post("Receive_NOTIFICATION_message")
             \/ bgp_notify_send(events)
      PROVE  Got
  BY <1>1, <1>3, <1>7, NotifyFacts DEF gr, table, TypeOK
<1>8. ASSUME NEW e \in {"TCP_connection_closed", "TCP_fatal_error"}, bgp_read_packet(e)
      PROVE  Got
  BY <1>3, <1>8 DEF bgp_read_packet, table, TypeOK
<1>9. Got
  <2> HIDE DEF Got
  <2> QED
    BY <1>4, <1>5, <1>6, <1>7, <1>8
<1> QED
  BY <1>1, <1>2, <1>9 DEF Aside, TypeOK

\* A connection comes in.
LEMMA AsideAccept ==
    ASSUME TypeOK, bgp_accept PROVE Aside
<1>1. ready # <<>> /\ Head(ready) \notin Event /\ ready' = Tail(ready)
  BY DEF bgp_accept, Running, Event
<1>2. "accept_open" \in Queueable \ {"Clearing_Completed"}
  BY DEF Queueable, AcceptEvent
<1>3. Posted
  BY <1>2, PostFacts, NoPost DEF bgp_accept
<1>4. Ran
  BY <1>1, RanTail
<1> QED
  BY <1>1, <1>3, <1>4 DEF bgp_accept, Aside, TypeOK, admin, gr, table, conn

\* An event of the acceptor does nothing to the peer.
LEMMA AsideAcceptor ==
    ASSUME TypeOK, AcceptorEvent PROVE Aside
<1>1. ready # <<>> /\ Head(ready) \notin Event /\ ready' = Tail(ready)
  BY JobFacts DEF AcceptorEvent
<1>2. Ran /\ Posted
  BY <1>1, RanTail, NoPost DEF AcceptorEvent
<1> QED
  BY <1>1, <1>2 DEF AcceptorEvent, Aside, TypeOK, admin, gr, table, conn

\* The acceptor is deleted, and its events only.
LEMMA AsideDeleted ==
    ASSUME TypeOK, AcceptorDeleted PROVE Aside
<1>1. {"accept_read", "accept_hold"} \cap Event = {}
  BY DEF Event
<1>2. /\ ready # <<>> /\ Head(ready) \notin Event
      /\ ready' = Without(Tail(ready), {"accept_read", "accept_hold"})
  BY <1>1 DEF AcceptorDeleted, Deleted
<1>3. Ran
  BY <1>1, <1>2, RanFacts
<1>4. events \in Seq(Queueable) /\ events' = Without(events, AcceptEvent)
  BY DEF AcceptorDeleted, TypeOK, Queueable
<1>5. events' \in Seq(Queueable) /\ ToSet(events') = ToSet(events) \ AcceptEvent
  BY <1>4, WithoutSet
<1>6. Posted
  BY <1>5, JobFacts DEF Posted
<1> QED
  BY <1>2, <1>3, <1>6 DEF AcceptorDeleted, Deleted, Aside, TypeOK, admin, gr, table, conn

\* clear ip bgp posts an event.
LEMMA AsideClear ==
    ASSUME TypeOK, peer_clear PROVE Aside
<1>1. ready # <<>> /\ Head(ready) \notin Event
  BY DEF peer_clear, Running, Event
<1>2. "BGP_Stop" \in Queueable \ {"Clearing_Completed"}
  BY DEF Queueable, Event
<1>3. Ran /\ Posted
  BY <1>1, <1>2, NotifyFacts, PostFacts, NoPost, RanTail DEF peer_clear
<1> QED
  BY <1>1, <1>3 DEF peer_clear, Aside, TypeOK, admin, gr, table, conn

-----------------------------------------------------------------------------
(***************************************************************************)
(* Type correctness.                                                       *)
(***************************************************************************)
\* An event of the table, from the event queue or of a timer.
Turn == \E e \in Event, set \in SUBSET Timer :
            /\ ready # <<>> /\ bgp_event(e, set)
            /\ \/ Head(ready) = e /\ set = timers
               \/ /\ \E t \in DOMAIN TimerEvent : e = TimerEvent[t] /\ set = timers \ {t}
                  /\ Head(ready) \notin Event

\* The timers of the session, and the events that they stand for.
LEMMA TimerFacts ==
    ASSUME NEW t \in DOMAIN TimerEvent
    PROVE  /\ t \in Timer \ GrTimer /\ TimerEvent[t] \in Event \ {"Clearing_Completed"}
           /\ TimerEvent[t] # "TCP_connection_open"
BY DEF TimerEvent, Timer, GrTimer, Event

\* An event and a timer both go through the table.
LEMMA TurnFacts ==
    ASSUME TypeOK, RunEvent \/ RunTimer
    PROVE  Turn
<1>1. timers \in SUBSET Timer
  BY DEF TypeOK
<1>2. CASE RunEvent
  BY <1>1, <1>2 DEF RunEvent, Running, Turn
<1>3. CASE RunTimer
  <2>1. PICK t \in DOMAIN TimerEvent : Running(t) /\ bgp_event(TimerEvent[t], timers \ {t})
    BY <1>3 DEF RunTimer
  <2>2. TimerEvent[t] \in Event /\ t \notin Event /\ timers \ {t} \in SUBSET Timer
    BY <1>1, TimerFacts, JobFacts
  <2> QED
    BY <2>1, <2>2 DEF Running, Turn
<1> QED
  BY <1>2, <1>3

\* bgp_event keeps the types.
LEMMA TurnType ==
    ASSUME TypeOK, NEW e \in Event, NEW set \in SUBSET Timer, ready # <<>>, bgp_event(e, set)
    PROVE  TypeOK'
<1> DEFINE func == FSM[status][e].func
           next == FSM[status][e].next
<1>1. next \in Status
  BY TableFacts DEF TypeOK, TableOK
<1>2. Call(func, next, set)
  BY DEF bgp_event
<1> HIDE DEF func, next
<1>3. (Refused(func, set) \/ Moved(func, next)) /\ Effects(func)
  BY <1>2, CallFacts
<1>4. CASE Refused(func, set)
  <2>1. ready' \in Seq(Job)
    BY <1>4, TailSet DEF Refused, TypeOK
  <2> QED
    BY <1>3, <1>4, <2>1 DEF Refused, Effects, TypeOK, admin, gr
<1>5. CASE Moved(func, next)
  <2>1. PICK evs \in Seq(Queueable), left \in SUBSET Timer, off \in SUBSET (Job \ Event) :
            Proceed(next, evs, left, off)
    BY <1>5 DEF Moved
  <2>2. /\ status' = next /\ UNCHANGED <<shutdown, config, acceptor>>
        /\ timers' \in SUBSET Timer /\ ready' \in Seq(Job) /\ events' \in Seq(Queueable)
        /\ clearq' \in Seq(Family)
    BY <1>1, <2>1, ProceedFacts
  <2> QED
    BY <1>1, <1>3, <2>2 DEF Effects, TypeOK, Queueable
<1> QED
  BY <1>3, <1>4, <1>5

\* Jobs that only read, write or post keep the types.
LEMMA AsideType ==
    ASSUME TypeOK, Aside PROVE TypeOK'
<1>1. nsfWait' \in BOOLEAN
  BY DEF Aside, TypeOK
<1>2. timers' \subseteq Timer /\ ready' \in Seq(Job) /\ events' \in Seq(Event \cup AcceptEvent)
  BY DEF Aside, Ran, Posted, TypeOK, Queueable
<1> QED
  BY <1>1, <1>2 DEF Aside, TypeOK

\* The restart timer sets the timers of the status anew.
RestartExpired ==
    /\ ready # <<>> /\ Head(ready) \notin Event /\ Ran /\ events' = events
    /\ UNCHANGED <<status, shutdown, config, clearq, nsf, fd, reading, sent, acceptor>>
    /\ nsfWait' = FALSE /\ timers' = bgp_timer_set(status, FALSE, timers \ GrTimer)
    /\ routes' \in [Family -> RouteState]
    /\ \A f \in Family : routes[f] = "none" => routes'[f] = "none"

\* bgp_graceful_restart_timer_expire is such a job.
LEMMA RestartFacts ==
    ASSUME TypeOK, bgp_graceful_restart_timer_expire
    PROVE  RestartExpired
<1> DEFINE T == timers \ timers'
<1>1. ready # <<>> /\ Head(ready) \notin Event /\ ready' = Without(Tail(ready), T)
  BY DEF bgp_graceful_restart_timer_expire, Running, Event
<1>2. T \cap Event = {}
  BY JobFacts DEF TypeOK
<1> HIDE DEF T
<1>3. Ran
  BY <1>1, <1>2, RanFacts
<1>4. routes' = IF nsf THEN bgp_clear_stale_route(routes) ELSE routes
  BY DEF bgp_graceful_restart_timer_expire
<1> QED
  BY <1>1, <1>3, <1>4, StaleFacts
     DEF bgp_graceful_restart_timer_expire, RestartExpired, admin, conn

\* The acceptor's connection is handed over; the event after its OPEN waits.
Transferred ==
    /\ ready # <<>> /\ Head(ready) \notin Event /\ Ran
    /\ status' = "OpenSent" /\ Transferable
    /\ UNCHANGED <<shutdown, config, clearq, nsf>>
    /\ fd' = "open" /\ reading' = TRUE /\ sent' = 1 /\ acceptor' = "none"
    /\ nsfWait' = (nsfWait \/ status = "Established") /\ timers' \subseteq Timer
    /\ events' \in Seq(Queueable) /\ "Clearing_Completed" \notin ToSet(events')
    /\ \E e \in OpenEvent : e \in ToSet(events')
    /\ routes' \in [Family -> RouteState]
    /\ \A f \in Family : routes[f] = "none" => routes'[f] = "none"

\* Transfer is such a job, whatever status the connection had.
LEMMA TransferFacts ==
    ASSUME TypeOK, Transfer
    PROVE  Transferred
<1> DEFINE T == {"accept_read", "accept_hold"} \cup StopOff \cup (Timer \ GrTimer)
<1>1. ready # <<>> /\ Head(ready) \notin Event /\ ready' = Without(Tail(ready), T)
  BY DEF Transfer, Running, Event
<1>2. T \cap Event = {}
  <2>1. {"accept_read", "accept_hold"} \subseteq Sockets
    BY DEF Sockets
  <2>2. StopOff \cap Event = {}
    BY StopParts
  <2> QED
    BY <2>1, <2>2, JobFacts
<1> HIDE DEF T
<1>3. Ran
  BY <1>1, <1>2, RanFacts
<1>4. PICK e \in OpenEvent : events' = Append(Without(events, Event \cup AcceptEvent), e)
  BY DEF Transfer
<1> DEFINE rest == Without(events, Event \cup AcceptEvent)
<1>5. events \in Seq(Queueable) /\ e \in Queueable /\ e # "Clearing_Completed"
  BY DEF TypeOK, Queueable, OpenEvent, NotifyEvent, Event
<1>6. rest \in Seq(Queueable) /\ ToSet(rest) = ToSet(events) \ (Event \cup AcceptEvent)
  BY <1>5, WithoutSet
<1>7. "Clearing_Completed" \notin ToSet(rest) /\ events' = Append(rest, e)
  BY <1>4, <1>6 DEF Event
<1> HIDE DEF rest
<1>8. events' \in Seq(Queueable) /\ ToSet(events') = ToSet(rest) \cup {e}
  BY <1>5, <1>6, <1>7, AppendSet
<1>9. /\ routes' \in [Family -> RouteState]
      /\ \A f \in Family : routes[f] = "none" => routes'[f] = "none"
  BY DEF Transfer, Aged, TypeOK, RouteState
<1>10. timers' \subseteq Timer
  BY JobFacts DEF Transfer
<1> QED
  BY <1>1, <1>3, <1>5, <1>7, <1>8, <1>9, <1>10 DEF Transfer, Transferred, admin

\* The clear queue runs.
ClearRun ==
    /\ ready # <<>> /\ Head(ready) \notin Event /\ Ran /\ clearq # <<>>
    /\ UNCHANGED <<status, shutdown, config, nsf, nsfWait, fd, reading, sent, acceptor, timers>>
    /\ events' \in Seq(Queueable) /\ ToSet(events) \subseteq ToSet(events')
    /\ clearq' \in Seq(Family)
    /\ clearq' = <<>> => "Clearing_Completed" \in ToSet(events')
    /\ "Clearing_Completed" \in ToSet(events') =>
          clearq' = <<>> \/ "Clearing_Completed" \in ToSet(events)
    /\ routes' \in [Family -> RouteState]
    /\ \A f \in Family : routes[f] = "none" => routes'[f] = "none"
    /\ ~nsf => \A f \in Family :
                  f \in ToSet(clearq) /\ routes'[f] # "none" => f \in ToSet(clearq')

\* work_queue_run is such a job, however many nodes it visits.
LEMMA ClearRunFacts ==
    ASSUME TypeOK, work_queue_run
    PROVE  ClearRun
<1>1. ready # <<>> /\ Head(ready) \notin Event /\ ready' = Tail(ready)
  BY DEF work_queue_run, Running, Event
<1>2. Ran
  BY <1>1, RanTail
<1>3. PICK n \in 1..Len(clearq) :
          /\ routes' = [f \in Family |-> IF f \in {clearq[i] : i \in 1..n}
                                         THEN bgp_clear_route_node(f) ELSE routes[f]]
          /\ clearq' = SubSeq(clearq, n + 1, Len(clearq))
          /\ events' = IF n = Len(clearq) THEN Append(events, "Clearing_Completed") ELSE events
  BY DEF work_queue_run
<1>4. /\ clearq \in Seq(Family) /\ Len(clearq) \in Nat /\ n \in Nat /\ n <= Len(clearq)
      /\ Len(clearq) # 0 /\ clearq # <<>> /\ DOMAIN clearq = 1..Len(clearq)
  BY <1>3 DEF TypeOK
<1>5. /\ clearq' \in Seq(Family) /\ Len(clearq') = Len(clearq) - n
      /\ DOMAIN clearq' = 1..(Len(clearq) - n)
      /\ \A i \in 1..(Len(clearq) - n) : clearq'[i] = clearq[n + i]
      /\ clearq' = <<>> <=> n = Len(clearq)
  <2>1. clearq' = SubSeq(clearq, n + 1, Len(clearq))
    BY <1>3
  <2>2. clearq' \in Seq(Family)
    BY <1>4, <2>1
  <2>3. Len(clearq') = Len(clearq) - n
    <3> DEFINE m == n + 1
               l == Len(clearq)
    <3>1. m \in 1..(l + 1) /\ l \in Nat /\ l - n = l - m + 1 /\ clearq' = SubSeq(clearq, m, l)
      BY <1>4, <2>1
    <3> HIDE DEF m
    <3>2. Len(SubSeq(clearq, m, l)) = l - m + 1
      BY <1>4, <3>1, SubSeqProperties
    <3> QED
      BY <3>1, <3>2
  <2>4. DOMAIN clearq' = 1..(Len(clearq) - n)
    BY <2>2, <2>3
  <2>5. \A i \in 1..(Len(clearq) - n) : clearq'[i] = clearq[n + i]
    BY <1>4, <2>1
  <2>6. clearq' = <<>> <=> Len(clearq') = 0
    BY <2>2
  <2> QED
    <3>1. clearq' = <<>> <=> n = Len(clearq)
      <4>1. Len(clearq') = 0 <=> n = Len(clearq)
        BY <1>4, <2>3
      <4> QED
        BY <2>6, <4>1, Zenon
    <3> QED
      BY <2>2, <2>3, <2>4, <2>5, <3>1
<1>6. events \in Seq(Queueable) /\ "Clearing_Completed" \in Queueable
  BY DEF TypeOK, Queueable, Event
<1>7. /\ events' \in Seq(Queueable)
      /\ ToSet(events') = IF n = Len(clearq) THEN ToSet(events) \cup {"Clearing_Completed"}
                          ELSE ToSet(events)
  <2> DEFINE cc == "Clearing_Completed"
  <2>1. events' = IF n = Len(clearq) THEN Append(events, cc) ELSE events
    BY <1>3
  <2>2. cc \in Queueable
    BY <1>6
  <2> HIDE DEF cc
  <2>3. Append(events, cc) \in Seq(Queueable) /\ ToSet(Append(events, cc)) = ToSet(events) \cup {cc}
    BY <1>6, <2>2, AppendSet
  <2> QED
    BY <1>6, <2>1, <2>3 DEF cc
<1>8. /\ routes' \in [Family -> RouteState]
      /\ \A f \in Family : routes[f] = "none" => routes'[f] = "none"
  BY <1>3 DEF bgp_clear_route_node, TypeOK, RouteState
<1>9. ASSUME ~nsf, NEW f \in Family, f \in ToSet(clearq), routes'[f] # "none"
      PROVE  f \in ToSet(clearq')
  <2>1. PICK i \in 1..Len(clearq) : clearq[i] = f
    BY <1>4, <1>9 DEF ToSet
  <2>2. f \notin {clearq[j] : j \in 1..n}
    BY <1>3, <1>9 DEF bgp_clear_route_node
  <2>3. i - n \in 1..(Len(clearq) - n) /\ clearq[n + (i - n)] = f
    BY <1>4, <2>1, <2>2
  <2> QED
    BY <1>5, <2>3 DEF ToSet
<1> QED
  BY <1>1, <1>2, <1>4, <1>5, <1>7, <1>8, <1>9 DEF work_queue_run, ClearRun, admin, gr, conn

\* neighbor shutdown: a BGP_Stop, or the event after a NOTIFICATION, waits.
Modified ==
    /\ ready # <<>> /\ Head(ready) \notin Event /\ Ran
    /\ UNCHANGED <<status, config, fd, reading, sent, routes, acceptor>>
    /\ shutdown' \in BOOLEAN /\ nsf' \in BOOLEAN /\ nsfWait' \in BOOLEAN
    /\ timers' \subseteq Timer
    /\ events' \in Seq(Queueable) /\ ToSet(events) \subseteq ToSet(events')
    /\ \E e \in OpenEvent : e \in ToSet(events')
    /\ clearq' \in Seq(Family) /\ ToSet(clearq) \subseteq ToSet(clearq')
    /\ ~nsfWait => /\ UNCHANGED <<nsf, nsfWait, clearq>>
                   /\ "Clearing_Completed" \in ToSet(events') => "Clearing_Completed" \in ToSet(events)

\* peer_flag_modify_action is such a job.
LEMMA ModifyFacts ==
    ASSUME TypeOK, peer_flag_modify_action
    PROVE  Modified
<1> DEFINE evs == IF nsfWait /\ ~shutdown THEN events \o Completions ELSE events
<1>1. ready # <<>> /\ Head(ready) \notin Event
  BY DEF peer_flag_modify_action, Running, Event
<1>2. /\ evs \in Seq(Queueable) /\ ToSet(events) \subseteq ToSet(evs)
      /\ ~nsfWait => evs = events
  <2>1. events \in Seq(Queueable) /\ Completions \in Seq(Queueable)
    BY ClearFacts DEF TypeOK, Queueable
  <2>2. /\ events \o Completions \in Seq(Queueable)
        /\ ToSet(events \o Completions) = ToSet(events) \cup ToSet(Completions)
    BY <2>1, ConcatSet
  <2> QED
    BY <2>1, <2>2
<1>3. \E e \in NotifyEvent :
          /\ events' = Append(evs, e)
          /\ ready' = Tail(ready) \/ ready' = Without(Tail(ready), {"write"})
  <2>1. CASE status = "Established" /\ ~shutdown
    BY <2>1 DEF peer_flag_modify_action, bgp_notify_send
  <2>2. CASE ~(status = "Established" /\ ~shutdown)
    BY <2>2 DEF peer_flag_modify_action, NotifyEvent
  <2> QED
    BY <2>1, <2>2
<1>4. PICK e \in NotifyEvent :
          /\ events' = Append(evs, e)
          /\ ready' = Tail(ready) \/ ready' = Without(Tail(ready), {"write"})
  BY <1>3
<1> HIDE DEF evs
<1>5. e \in Queueable /\ e \in OpenEvent /\ e # "Clearing_Completed" /\ {"write"} \cap Event = {}
  BY DEF NotifyEvent, OpenEvent, Queueable, Event
<1>6. events' \in Seq(Queueable) /\ ToSet(events') = ToSet(evs) \cup {e}
  BY <1>2, <1>4, <1>5, AppendSet
<1>7. Ran
  BY <1>1, <1>4, <1>5, RanFacts
<1>8. /\ UNCHANGED <<status, config, fd, reading, sent, routes, acceptor>>
      /\ shutdown' \in BOOLEAN
  BY DEF peer_flag_modify_action, conn, TypeOK
<1>9. /\ nsf' \in BOOLEAN /\ nsfWait' \in BOOLEAN /\ timers' \subseteq Timer
      /\ clearq' = clearq \/ clearq' = clearq \o Queued
      /\ ~nsfWait => UNCHANGED <<nsf, nsfWait, clearq>>
  BY DEF peer_flag_modify_action, peer_nsf_stop, gr, TypeOK
<1>10. clearq' \in Seq(Family) /\ ToSet(clearq) \subseteq ToSet(clearq')
  <2>1. clearq \in Seq(Family) /\ Queued \in Seq(Family)
    BY ClearFacts DEF TypeOK
  <2>2. /\ clearq \o Queued \in Seq(Family)
        /\ ToSet(clearq \o Queued) = ToSet(clearq) \cup ToSet(Queued)
    BY <2>1, ConcatSet
  <2> QED
    BY <1>9, <2>1, <2>2
<1> QED
  BY <1>1, <1>2, <1>5, <1>6, <1>7, <1>8, <1>9, <1>10 DEF Modified

\* A turn of the scheduler: the first event goes to the head of the ready list, and
\* behind it are jobs that are no events of the peer.
Fetched ==
    /\ ready = <<>> /\ ready' # <<>> /\ ready' \in Seq(Job) /\ events' \in Seq(Queueable)
    /\ UNCHANGED <<status, fd, reading, sent, timers, shutdown, config, nsf, nsfWait,
                   routes, clearq, acceptor>>
    /\ ToSet(events) \subseteq ToSet(events') \cup ToSet(ready')
    /\ (ToSet(events') \cup ToSet(ready')) \cap Event \subseteq ToSet(events)
    /\ ToSet(Tail(ready')) \cap Event = {}
    /\ events = <<>> => events' = <<>>
    /\ events # <<>> => events' = Tail(events) /\ Head(ready') = Head(events)
    /\ ToSet(ready') \cap Timer \subseteq timers

\* thread_fetch is such a turn, whatever expired and became readable.
LEMMA FetchFacts ==
    ASSUME TypeOK, thread_fetch
    PROVE  Fetched
<1>1. PICK expired \in Expired, write \in Writable, background \in Background,
          n \in IF Len(events) < MaxEvents THEN 0..MaxSockets ELSE {0} :
             \E sockets \in [1..n -> Readable] :
                ready' = First(events, 1) \o expired \o sockets \o write \o background
  BY DEF thread_fetch
<1>0. PICK sockets \in [1..n -> Readable] :
          ready' = First(events, 1) \o expired \o sockets \o write \o background
  BY <1>1
<1> DEFINE N == Job \ Event
           F == First(events, 1)
<1>2. /\ ready = <<>> /\ ready' # <<>> /\ events' = SubSeq(events, 2, Len(events))
      /\ UNCHANGED <<status, fd, reading, sent, timers, shutdown, config, nsf, nsfWait,
                     routes, clearq, acceptor>>
  BY DEF thread_fetch, conn, admin, gr, table
<1>3. /\ N \subseteq Job /\ Queueable \subseteq Job /\ Timer \subseteq N
      /\ {"accept_hold", "vty", "read", "accept", "accept_read", "write", "clear"} \subseteq N
  BY JobFacts DEF Sockets, Queueable
<1>4. events \in Seq(Queueable) /\ Len(events) \in Nat /\ timers \subseteq Timer
  BY DEF TypeOK, Queueable
<1> HIDE DEF N
<1>5. expired \in Seq(N)
  <2>1. expired = <<>> \/ \E t \in N : expired = <<t>>
    BY <1>3, <1>4 DEF Expired
  <2>2. ASSUME NEW t \in N PROVE <<t>> \in Seq(N)
    OBVIOUS
  <2>3. <<>> \in Seq(N)
    OBVIOUS
  <2> QED
    BY <2>1, <2>2, <2>3, Zenon
<1>6. sockets \in Seq(N)
  <2>1. Readable \subseteq N
    BY <1>3 DEF Readable
  <2>2. n \in Nat
    BY FsmAssumption
  <2> QED
    BY <2>1, <2>2
<1>7. write \in Seq(N) /\ background \in Seq(N)
  <2>1. <<>> \in Seq(N) /\ <<"write">> \in Seq(N) /\ <<"clear">> \in Seq(N)
    BY <1>3
  <2>2. write \in {<<>>, <<"write">>} /\ background \in {<<>>, <<"clear">>}
    BY Zenon DEF Writable, Background
  <2> QED
    BY <2>1, <2>2, Zenon
<1>7a. /\ ToSet(expired) \cap Timer \subseteq timers /\ ToSet(sockets) \cap Timer = {}
       /\ ToSet(write) \cap Timer = {} /\ ToSet(background) \cap Timer = {}
  <2> DEFINE M == Sockets \cup timers
  <2>1. M \cap Timer = timers /\ Sockets \cap Timer = {}
    BY <1>4 DEF Sockets, Timer, GrTimer
  <2>2. expired = <<>> \/ \E t \in M : expired = <<t>>
    BY <1>4 DEF Expired, Sockets
  <2>3. ASSUME NEW X PROVE <<>> \in Seq(X) /\ \A t \in X : <<t>> \in Seq(X)
    OBVIOUS
  <2>4. expired \in Seq(M)
    BY <2>2, <2>3, Zenon
  <2>5. write \in {<<>>, <<"write">>} /\ background \in {<<>>, <<"clear">>}
    BY Zenon DEF Writable, Background
  <2>6. "write" \in Sockets /\ "clear" \in Sockets
    BY DEF Sockets
  <2>7. write \in Seq(Sockets) /\ background \in Seq(Sockets)
    BY <2>3, <2>5, <2>6, Zenon
  <2>8. sockets \in Seq(Sockets)
    <3>1. Readable \subseteq Sockets
      BY DEF Readable, Sockets
    <3>2. n \in Nat
      BY FsmAssumption
    <3> QED
      BY <3>1, <3>2
  <2> HIDE DEF M
  <2> QED
    BY <2>1, <2>4, <2>7, <2>8, ElementsOf
<1>8. F \in Seq(Queueable) /\ ToSet(F) \subseteq ToSet(events)
  BY <1>4, FirstSet
<1>9. /\ events' \in Seq(Queueable) /\ ToSet(events') \subseteq ToSet(events)
      /\ ToSet(events) \subseteq ToSet(events') \cup ToSet(F)
      /\ events = <<>> => F = <<>> /\ events' = <<>>
      /\ events # <<>> => /\ F # <<>> /\ ToSet(Tail(F)) = {}
                          /\ Head(F) = Head(events) /\ events' = Tail(events)
  <2>1. CASE events = <<>>
    <3>1. events' = <<>> /\ F = <<>>
      BY <1>2, <1>4, <2>1 DEF First
    <3> QED
      BY <2>1, <3>1, NoElements
  <2>2. CASE events # <<>>
    <3>1. Len(events) >= 1 /\ events' = Tail(events)
      BY <1>2, <1>4, <2>2
    <3>2. F = SubSeq(events, 1, 1)
      BY <1>4, <3>1 DEF First
    <3> HIDE DEF F
    <3>5. Len(F) = 1 /\ F[1] = events[1] /\ Head(events) = events[1]
      BY <1>4, <3>1, <3>2
    <3>3. F # <<>> /\ ToSet(Tail(F)) = {} /\ ToSet(F) = {Head(events)}
      BY <1>8, <3>5, OneElement
    <3>4. /\ events' \in Seq(Queueable) /\ ToSet(events') \subseteq ToSet(events)
          /\ ToSet(events) = {Head(events)} \cup ToSet(events')
      BY <1>4, <2>2, <3>1, TailSet, HeadTailSet
    <3> QED
      BY <1>8, <2>2, <3>1, <3>3, <3>4, <3>5, NoElements
  <2> QED
    BY <2>1, <2>2
<1> DEFINE A == F \o expired
           B == A \o sockets
           C == B \o write
<1>10. ready' = C \o background
  BY <1>0
<1> HIDE DEF F
<1>11. /\ F \in Seq(Job) /\ expired \in Seq(Job) /\ sockets \in Seq(Job) /\ write \in Seq(Job)
       /\ background \in Seq(Job)
  BY <1>3, <1>5, <1>6, <1>7, <1>8
<1>12. ToSet(expired) \subseteq N /\ ToSet(sockets) \subseteq N /\ ToSet(write) \subseteq N
       /\ ToSet(background) \subseteq N
  BY <1>5, <1>6, <1>7, ElementsOf
<1>13. A \in Seq(Job) /\ ToSet(A) = ToSet(F) \cup ToSet(expired)
  BY <1>11, ConcatSet
<1>14. F # <<>> => /\ A # <<>> /\ ToSet(Tail(A)) \subseteq ToSet(Tail(F)) \cup ToSet(expired)
                   /\ Head(A) = Head(F)
  BY <1>11, TailConcatSet
<1> HIDE DEF A
<1>15. B \in Seq(Job) /\ ToSet(B) = ToSet(A) \cup ToSet(sockets)
  BY <1>11, <1>13, ConcatSet
<1>16. A # <<>> => /\ B # <<>> /\ ToSet(Tail(B)) \subseteq ToSet(Tail(A)) \cup ToSet(sockets)
                   /\ Head(B) = Head(A)
  BY <1>11, <1>13, TailConcatSet
<1> HIDE DEF B
<1>17. C \in Seq(Job) /\ ToSet(C) = ToSet(B) \cup ToSet(write)
  BY <1>11, <1>15, ConcatSet
<1>18. B # <<>> => /\ C # <<>> /\ ToSet(Tail(C)) \subseteq ToSet(Tail(B)) \cup ToSet(write)
                   /\ Head(C) = Head(B)
  BY <1>11, <1>15, TailConcatSet
<1> HIDE DEF C
<1>19. ready' \in Seq(Job) /\ ToSet(ready') = ToSet(C) \cup ToSet(background)
  BY <1>10, <1>11, <1>17, ConcatSet
<1>20. C # <<>> => /\ ToSet(Tail(ready')) \subseteq ToSet(Tail(C)) \cup ToSet(background)
                   /\ Head(ready') = Head(C)
  BY <1>10, <1>11, <1>17, TailConcatSet
<1>21. ToSet(Tail(ready')) \cap Event = {}
  <2>1. N \cap Event = {}
    BY DEF N
  <2>2. CASE events = <<>>
    <3>1. ToSet(F) = {}
      BY <1>9, <2>2, NoElements
    <3>2. ToSet(ready') \subseteq N
      BY <1>12, <1>13, <1>15, <1>17, <1>19, <3>1
    <3>3. ToSet(Tail(ready')) \subseteq ToSet(ready')
      BY <1>2, <1>19, TailSet
    <3> QED
      BY <2>1, <3>2, <3>3
  <2>3. CASE events # <<>>
    BY <1>9, <1>12, <1>14, <1>16, <1>18, <1>20, <2>1, <2>3
  <2> QED
    BY <2>2, <2>3
<1>22. /\ ToSet(events) \subseteq ToSet(events') \cup ToSet(ready')
       /\ (ToSet(events') \cup ToSet(ready')) \cap Event \subseteq ToSet(events)
  <2>1. N \cap Event = {}
    BY DEF N
  <2>2. ToSet(ready') = ToSet(F) \cup ToSet(expired) \cup ToSet(sockets) \cup ToSet(write)
                           \cup ToSet(background)
    BY <1>13, <1>15, <1>17, <1>19
  <2> QED
    BY <1>8, <1>9, <1>12, <2>1, <2>2
<1>23. /\ events = <<>> => events' = <<>>
       /\ events # <<>> => events' = Tail(events) /\ Head(ready') = Head(events)
  BY <1>9, <1>14, <1>16, <1>18, <1>20
<1>24. ToSet(ready') \cap Timer \subseteq timers
  <2>1. /\ ToSet(expired) \cap Timer \subseteq timers /\ ToSet(sockets) \cap Timer = {}
        /\ ToSet(write) \cap Timer = {} /\ ToSet(background) \cap Timer = {}
    BY <1>7a
  <2>2. ToSet(F) \cap Timer = {}
    <3>1. ToSet(F) \subseteq Queueable
      BY <1>8, ElementsOf
    <3>2. Queueable \cap Timer = {}
      BY JobFacts DEF Queueable, AcceptEvent, Timer, GrTimer
    <3> QED
      BY <3>1, <3>2
  <2>3. ToSet(ready') = ToSet(F) \cup ToSet(expired) \cup ToSet(sockets) \cup ToSet(write)
                           \cup ToSet(background)
    BY <1>13, <1>15, <1>17, <1>19
  <2> QED
    BY <2>1, <2>2, <2>3
<1> QED
  BY <1>2, <1>9, <1>19, <1>21, <1>22, <1>23, <1>24 DEF Fetched

\* Every step is of one of these kinds.
LEMMA StepKinds ==
    ASSUME TypeOK, Next
    PROVE  \/ Turn \/ Aside \/ RestartExpired \/ Transferred \/ ClearRun \/ Modified \/ Fetched
BY FetchFacts, TurnFacts, RestartFacts, AsideStale, AsideConnect, AsideWrite, AsideReadNothing,
   AsideRead, AsideAccept, AsideAcceptor, AsideDeleted, TransferFacts, ClearRunFacts, ModifyFacts,
   AsideClear DEF Next

\* The initial states are well typed.
LEMMA TypeInit ==
    ASSUME Init PROVE TypeOK
<1>1. config \in Config
  BY FsmAssumption DEF Init
<1>2. events \in Seq(Event \cup AcceptEvent) /\ ready \in Seq(Job) /\ clearq \in Seq(Family)
  BY DEF Init
<1>3. timers \subseteq Timer /\ status \in Status /\ sent \in 0..2
  BY DEF Init, Timer, Status
<1>4. routes \in [Family -> RouteState]
  BY DEF Init, RouteState
<1> QED
  BY <1>1, <1>2, <1>3, <1>4 DEF Init, TypeOK

\* Every step keeps the types.
LEMMA TypeStep ==
    ASSUME TypeOK, [Next]_vars PROVE TypeOK'
<1>1. CASE Turn
  BY <1>1, TurnType DEF Turn
<1>2. CASE Aside
  BY <1>2, AsideType
<1>3. CASE RestartExpired
  <2>1. timers' \subseteq Timer
    BY <1>3 DEF RestartExpired, bgp_timer_set, Timer
  <2> QED
    BY <1>3, <2>1 DEF RestartExpired, Ran, TypeOK
<1>4. CASE Transferred
  BY <1>4 DEF Transferred, Ran, TypeOK, Status, Queueable
<1>5. CASE ClearRun
  BY <1>5 DEF ClearRun, Ran, TypeOK, Queueable
<1>6. CASE Modified
  BY <1>6 DEF Modified, Ran, TypeOK, Queueable
<1>7. CASE Fetched
  BY <1>7 DEF Fetched, TypeOK, Queueable
<1>8. CASE UNCHANGED vars
  BY <1>8 DEF vars, conn, admin, gr, table, TypeOK
<1> QED
  BY <1>1, <1>2, <1>3, <1>4, <1>5, <1>6, <1>7, <1>8, StepKinds

-----------------------------------------------------------------------------
(***************************************************************************)
(* A session that is not forgotten.  Between two jobs its timers may be    *)
(* those of another status only while an event waits that sets them: the   *)
(* transfer of a connection and a change of the configuration post one.    *)
(***************************************************************************)
Pending(e) == e \in ToSet(events) \cup ToSet(ready)

Armed ==
    CASE status = "Idle" -> shutdown \/ "t_start" \in timers
      [] status = "Connect" -> "t_connect" \in timers
      [] status = "Active" -> shutdown \/ config.passive \/ nsfWait \/ "t_connect" \in timers
      [] status = "Clearing" -> TRUE
      [] OTHER -> config.holdTime => "t_holdtime" \in timers

Alive == Armed \/ \E e \in OpenEvent : Pending(e)

\* The clearing of the routes is under way, or its end waits to be processed.
Ending == status = "Clearing" => clearq # <<>> \/ Pending("Clearing_Completed")

\* Events of the peer but the running one are pending afterwards.
LEMMA PendingFacts ==
    ASSUME TypeOK, ready # <<>>, Ran, ToSet(events) \cap Event \subseteq ToSet(events'),
           NEW e \in Event, Pending(e), e # Head(ready)
    PROVE  Pending(e)'
<1>1. ToSet(ready) = {Head(ready)} \cup ToSet(Tail(ready))
  BY HeadTailSet DEF TypeOK
<1> QED
  BY <1>1 DEF Pending, Ran

\* bgp_timer_set arms every status.
LEMMA TimerSetArms ==
    ASSUME TypeOK, NEW wait \in BOOLEAN, NEW set, UNCHANGED <<shutdown, config>>,
           status' \in Status, timers' = bgp_timer_set(status', wait, set),
           status' = "Active" => nsfWait' = wait
    PROVE  Armed'
<1> USE DEF Armed, bgp_timer_set
<1>1. CASE status' = "Idle"
  BY <1>1
<1>2. CASE status' = "Connect"
  BY <1>2
<1>3. CASE status' = "Active"
  BY <1>3
<1>4. CASE status' = "Clearing"
  BY <1>4
<1>5. CASE status' \in {"OpenSent", "OpenConfirm", "Established"}
  BY <1>5
<1> QED
  BY <1>1, <1>2, <1>3, <1>4, <1>5 DEF Status

\* An event keeps the session armed, or keeps what will arm it pending.
LEMMA AliveTurn ==
    ASSUME TypeOK, Alive, Turn PROVE Alive'
<1>1. PICK e \in Event, set \in SUBSET Timer :
          /\ ready # <<>> /\ bgp_event(e, set)
          /\ \/ Head(ready) = e /\ set = timers
             \/ /\ \E t \in DOMAIN TimerEvent : e = TimerEvent[t] /\ set = timers \ {t}
                /\ Head(ready) \notin Event
  BY DEF Turn
<1> DEFINE func == FSM[status][e].func
           next == FSM[status][e].next
<1>2. TableOK(status, e)
  BY TableFacts DEF TypeOK
<1>3. /\ next \in Status
      /\ func = "bgp_start" => status \in {"Idle", "Active"}
      /\ func = "bgp_connect_success" => e = "TCP_connection_open"
      /\ func = "bgp_establish" => next = "Established"
  BY <1>2 DEF TableOK
<1>4. Call(func, next, set)
  BY <1>1 DEF bgp_event
<1> HIDE DEF func, next
<1>5. (Refused(func, set) \/ Moved(func, next)) /\ Effects(func)
  BY <1>1, <1>4, CallFacts
<1>6. CASE Refused(func, set) /\ func = "bgp_start"
  <2>1. shutdown' /\ status' \in {"Idle", "Active"}
    BY <1>3, <1>6 DEF Refused, admin, TypeOK
  <2> QED
    BY <2>1 DEF Alive, Armed
<1>7. CASE Refused(func, set) /\ func # "bgp_start"
  <2>1. e = "TCP_connection_open" /\ Head(ready) = e /\ set = timers
    BY <1>1, <1>3, <1>7, TimerFacts DEF Refused
  <2>2. /\ timers' = timers /\ UNCHANGED <<status, events, shutdown, config, nsfWait>>
        /\ ready' = Tail(ready)
    BY <1>7, <2>1 DEF Refused, admin, gr
  <2>3. CASE Armed
    BY <2>2, <2>3 DEF Alive, Armed
  <2>4. CASE \E o \in OpenEvent : Pending(o)
    <3>1. PICK o \in OpenEvent : Pending(o)
      BY <2>4
    <3>2. o \in Event /\ o # Head(ready)
      BY <2>1, JobFacts DEF OpenEvent, NotifyEvent
    <3>3. Pending(o)'
      BY <1>1, <2>2, <3>1, <3>2, RanTail, PendingFacts
    <3> QED
      BY <3>3 DEF Alive
  <2> QED
    BY <2>3, <2>4 DEF Alive
<1>8. CASE Moved(func, next)
  <2>1. PICK evs \in Seq(Queueable), left \in SUBSET Timer, off \in SUBSET (Job \ Event) :
            Proceed(next, evs, left, off)
    BY <1>8 DEF Moved
  <2>2. /\ status' = next /\ UNCHANGED <<shutdown, config>>
        /\ timers' = bgp_timer_set(next, nsfWait, left)
    BY <1>1, <1>3, <2>1, ProceedFacts
  <2>3. next = "Active" => nsfWait' = nsfWait
    BY <1>3, <1>5 DEF Effects
  <2>4. nsfWait \in BOOLEAN
    BY DEF TypeOK
  <2>5. Armed'
    BY <1>3, <2>2, <2>3, <2>4, TimerSetArms
  <2> QED
    BY <2>5 DEF Alive
<1> QED
  BY <1>5, <1>6, <1>7, <1>8

\* Every step keeps the session armed or what will arm it pending.
LEMMA AliveStep ==
    ASSUME TypeOK, Alive, [Next]_vars PROVE Alive'
<1>1. CASE Turn
  BY <1>1, AliveTurn
<1>2. ASSUME ready # <<>>, Head(ready) \notin Event, Ran,
             ToSet(events) \cap Event \subseteq ToSet(events'), Armed => Armed'
      PROVE  Alive'
  <2>1. CASE Armed
    BY <1>2, <2>1 DEF Alive
  <2>2. CASE \E o \in OpenEvent : Pending(o)
    <3>1. PICK o \in OpenEvent : Pending(o)
      BY <2>2
    <3>2. o \in Event /\ o # Head(ready)
      BY <1>2, JobFacts
    <3>3. Pending(o)'
      BY <1>2, <3>1, <3>2, PendingFacts
    <3> QED
      BY <3>3 DEF Alive
  <2> QED
    BY <2>1, <2>2 DEF Alive
<1>3. CASE Aside
  <2>1. Armed => Armed'
    BY <1>3 DEF Aside, Armed, TypeOK
  <2> QED
    BY <1>2, <1>3, <2>1 DEF Aside, Posted
<1>4. CASE RestartExpired
  <2>1. Armed'
    <3>1. /\ status' \in Status /\ UNCHANGED <<shutdown, config>> /\ nsfWait' = FALSE
          /\ timers' = bgp_timer_set(status', FALSE, timers \ GrTimer)
      BY <1>4 DEF RestartExpired, TypeOK
    <3> QED
      BY <3>1, TimerSetArms
  <2> QED
    BY <2>1 DEF Alive
<1>5. CASE Transferred
  BY <1>5 DEF Transferred, Alive, Pending
<1>6. CASE ClearRun
  <2>1. Armed => Armed'
    BY <1>6 DEF ClearRun, Armed
  <2> QED
    BY <1>2, <1>6, <2>1 DEF ClearRun
<1>7. CASE Modified
  BY <1>7 DEF Modified, Alive, Pending
<1>8. CASE Fetched
  <2>1. Armed => Armed'
    BY <1>8 DEF Fetched, Armed
  <2>2. \A o : Pending(o) => Pending(o)'
    BY <1>8, NoElements DEF Fetched, Pending
  <2> QED
    BY <2>1, <2>2 DEF Alive
<1>9. CASE UNCHANGED vars
  BY <1>9 DEF vars, conn, admin, gr, table, Alive, Armed, Pending
<1> QED
  BY <1>1, <1>3, <1>4, <1>5, <1>6, <1>7, <1>8, <1>9, StepKinds

\* An event that leads to Clearing queues routes or completes at once; one in
\* Clearing loses no Clearing_Completed.
LEMMA EndingTurn ==
    ASSUME TypeOK, Ending, Turn PROVE Ending'
<1> DEFINE CC == "Clearing_Completed"
<1> SUFFICES ASSUME status' = "Clearing", clearq' = <<>> PROVE Pending(CC)'
  BY DEF Ending
<1>1. PICK e \in Event, set \in SUBSET Timer :
          /\ ready # <<>> /\ bgp_event(e, set)
          /\ \/ Head(ready) = e /\ set = timers
             \/ /\ \E t \in DOMAIN TimerEvent : e = TimerEvent[t] /\ set = timers \ {t}
                /\ Head(ready) \notin Event
  BY DEF Turn
<1> DEFINE func == FSM[status][e].func
           next == FSM[status][e].next
<1>2. TableOK(status, e)
  BY TableFacts DEF TypeOK
<1>3. /\ next \in Status
      /\ func = "bgp_start" => status \in {"Idle", "Active"}
      /\ func = "bgp_connect_success" => status \in {"Connect", "Active"}
      /\ status = "Clearing" /\ e # CC => next = "Clearing" /\ func \in {"bgp_ignore", "bgp_stop"}
      /\ status = "Clearing" /\ e = CC => next = "Idle" /\ func = "bgp_clearing_completed"
  BY <1>2 DEF TableOK
<1>4. Call(func, next, set)
  BY <1>1 DEF bgp_event
<1> HIDE DEF func, next
<1>5. Refused(func, set) \/ Moved(func, next)
  BY <1>1, <1>4, CallFacts
<1>6. ~Refused(func, set)
  BY <1>3 DEF Refused
<1>7. PICK evs \in Seq(Queueable), left \in SUBSET Timer, off \in SUBSET (Job \ Event) :
          /\ Proceed(next, evs, left, off)
          /\ status = "Clearing" /\ func \in {"bgp_ignore", "bgp_stop"} => evs = events
  BY <1>5, <1>6 DEF Moved
<1>8. /\ next = "Clearing" /\ Ran /\ clearq' \in Seq(Family)
      /\ status = "Clearing" => clearq' = clearq /\ events' = evs
      /\ status # "Clearing" =>
            /\ ToSet(clearq') = ToSet(clearq) \cup {f \in Family : routes[f] # "none"}
            /\ ToSet(events') = ToSet(evs) \cup ToSet(Completions)
  BY <1>1, <1>3, <1>7, ProceedFacts DEF Ran
<1>9. CASE status = "Clearing"
  <2>1. e # CC /\ events' = events /\ Pending(CC)
    BY <1>3, <1>7, <1>8, <1>9 DEF Ending
  <2>2. CC \in Event /\ CC # Head(ready)
    BY <1>1, <2>1 DEF Event
  <2> QED
    BY <1>1, <1>8, <2>1, <2>2, PendingFacts
<1>10. CASE status # "Clearing"
  <2>1. ToSet(clearq') = {}
    BY NoElements
  <2>2. ToSet(clearq) = {} /\ clearq \in Seq(Family) /\ \A f \in Family : routes[f] = "none"
    BY <1>8, <1>10, <2>1 DEF TypeOK
  <2>3. clearq = <<>>
    BY <2>2, EmptySet
  <2>4. Families[1] \in Family
    BY FsmAssumption DEF Family, ToSet
  <2>5. CC \in ToSet(Completions)
    BY <2>2, <2>3, <2>4, ClearFacts
  <2> QED
    BY <1>8, <1>10, <2>5 DEF Pending
<1> QED
  BY <1>9, <1>10

\* Every step keeps the end of the clearing in sight.
LEMMA EndingStep ==
    ASSUME TypeOK, Ending, [Next]_vars PROVE Ending'
<1> DEFINE CC == "Clearing_Completed"
<1>1. CASE Turn
  BY <1>1, EndingTurn
<1>2. CC \in Event
  BY DEF Event
<1> HIDE DEF CC
<1>3. ASSUME ready # <<>>, Head(ready) \notin Event, Ran,
             ToSet(events) \cap Event \subseteq ToSet(events'), Pending(CC)
      PROVE  Pending(CC)'
  BY <1>2, <1>3, PendingFacts
<1>4. CASE Aside
  BY <1>3, <1>4 DEF Aside, Posted, Ending, CC
<1>5. CASE RestartExpired
  BY <1>3, <1>5 DEF RestartExpired, Ending, CC
<1>6. CASE Transferred
  BY <1>6 DEF Transferred, Ending
<1>7. CASE ClearRun
  BY <1>7 DEF ClearRun, Ending, Pending
<1>8. CASE Modified
  <2>1. clearq # <<>> => clearq' # <<>>
    <3>1. clearq \in Seq(Family) /\ ToSet(clearq) \subseteq ToSet(clearq')
      BY <1>8 DEF Modified, TypeOK
    <3> QED
      BY <3>1, EmptySet, NoElements
  <2> QED
    BY <1>3, <1>8, <2>1 DEF Modified, Ending, CC
<1>9. CASE Fetched
  <2>1. Pending(CC) => Pending(CC)'
    BY <1>9, NoElements DEF Fetched, Pending
  <2> QED
    BY <1>9, <2>1 DEF Fetched, Ending, CC
<1>10. CASE UNCHANGED vars
  BY <1>10 DEF vars, conn, admin, gr, table, Ending, Pending
<1> QED
  BY <1>1, <1>4, <1>5, <1>6, <1>7, <1>8, <1>9, <1>10, StepKinds

-----------------------------------------------------------------------------
(***************************************************************************)
(* Routes are gone before the session starts again.  With one address      *)
(* family, Clearing_Completed is pending only in Clearing and only when    *)
(* nothing is left to clear; with more it is not, which clear_race shows.  *)
(***************************************************************************)
\* At most the running job is an event of the peer: thread_fetch takes one a turn.
SoleEvent == ready # <<>> => ToSet(Tail(ready)) \cap Event = {}

Clean == clearq = <<>> /\ \A f \in Family : routes[f] = "none"

Cleaned ==
    ~config.graceful =>
        /\ ~nsf /\ ~nsfWait
        /\ status \notin {"Established", "Clearing"} => Clean
        /\ status = "Established" => clearq = <<>>
        /\ Pending("Clearing_Completed") => status = "Clearing" /\ Clean
        /\ status = "Clearing" => \A f \in Family : routes[f] # "none" => f \in ToSet(clearq)

\* Every step leaves at most one event of the peer on the ready list.
LEMMA SoleStep ==
    ASSUME TypeOK, TypeOK', SoleEvent, [Next]_vars PROVE SoleEvent'
<1>1. ASSUME ready # <<>>, Ran PROVE SoleEvent'
  <2>1. ready' # <<>> => ToSet(Tail(ready')) \subseteq ToSet(ready')
    BY TailSet DEF TypeOK
  <2> QED
    BY <1>1, <2>1 DEF SoleEvent, Ran
<1>2. CASE Turn
  <2>1. PICK e \in Event, set \in SUBSET Timer : ready # <<>> /\ bgp_event(e, set)
    BY <1>2 DEF Turn
  <2> DEFINE func == FSM[status][e].func
             next == FSM[status][e].next
  <2>2. next \in Status
    BY TableFacts DEF TypeOK, TableOK
  <2>3. Call(func, next, set)
    BY <2>1 DEF bgp_event
  <2> HIDE DEF func, next
  <2>4. Refused(func, set) \/ Moved(func, next)
    BY <2>1, <2>3, CallFacts
  <2>5. Ran
    <3>1. CASE Refused(func, set)
      BY <2>1, <3>1, RanTail DEF Refused
    <3>2. CASE Moved(func, next)
      BY <2>1, <2>2, <3>2, ProceedFacts DEF Moved, Ran
    <3> QED
      BY <2>4, <3>1, <3>2
  <2> QED
    BY <1>1, <2>1, <2>5
<1>3. CASE Aside \/ RestartExpired \/ Transferred \/ ClearRun \/ Modified
  BY <1>1, <1>3 DEF Aside, RestartExpired, Transferred, ClearRun, Modified
<1>4. CASE Fetched
  BY <1>4 DEF Fetched, SoleEvent
<1>5. CASE UNCHANGED vars
  BY <1>5 DEF vars, SoleEvent
<1> QED
  BY <1>2, <1>3, <1>4, <1>5, StepKinds

\* An event keeps Clearing_Completed and the routes apart.
LEMMA CleanedTurn ==
    ASSUME Len(Families) = 1, TypeOK, SoleEvent, Cleaned, Turn PROVE Cleaned'
<1> DEFINE CC == "Clearing_Completed"
<1>1. PICK e \in Event, set \in SUBSET Timer :
          /\ ready # <<>> /\ bgp_event(e, set)
          /\ \/ Head(ready) = e /\ set = timers
             \/ /\ \E t \in DOMAIN TimerEvent : e = TimerEvent[t] /\ set = timers \ {t}
                /\ Head(ready) \notin Event
  BY DEF Turn
<1> DEFINE func == FSM[status][e].func
           next == FSM[status][e].next
<1>2. TableOK(status, e)
  BY TableFacts DEF TypeOK
<1>3. /\ next \in Status
      /\ func = "bgp_clearing_completed" => e = CC
      /\ next = "Clearing" => status \in {"Established", "Clearing"}
      /\ status = "Established" /\ e # CC => next \in {"Established", "Clearing"}
      /\ status = "Clearing" /\ e # CC => next = "Clearing" /\ func \in {"bgp_ignore", "bgp_stop"}
      /\ status = "Clearing" /\ e = CC => next = "Idle" /\ func = "bgp_clearing_completed"
  BY <1>2 DEF TableOK
<1>4. Call(func, next, set)
  BY <1>1 DEF bgp_event
<1> HIDE DEF func, next
<1>5. (Refused(func, set) \/ Moved(func, next)) /\ Effects(func)
  BY <1>1, <1>4, CallFacts
<1>6. /\ ToSet(ready) = {Head(ready)} \cup ToSet(Tail(ready)) /\ ToSet(Tail(ready)) \cap Event = {}
      /\ CC \in Event
  BY <1>1, HeadTailSet DEF TypeOK, SoleEvent, Event
<1>7. config' = config
  BY <1>1, <1>3, <1>5, ProceedFacts DEF Refused, Moved, admin
<1> SUFFICES ASSUME ~config.graceful
             PROVE  /\ ~nsf' /\ ~nsfWait'
                    /\ status' \notin {"Established", "Clearing"} => Clean'
                    /\ status' = "Established" => clearq' = <<>>
                    /\ Pending(CC)' => status' = "Clearing" /\ Clean'
                    /\ status' = "Clearing" =>
                          \A f \in Family : routes'[f] # "none" => f \in ToSet(clearq')
  BY <1>7 DEF Cleaned
<1>8. ~nsf' /\ ~nsfWait' /\ \A f \in Family : routes[f] = "none" => routes'[f] = "none"
  BY <1>5 DEF Effects, Cleaned
<1>9. e = CC => status = "Clearing" /\ Clean
  BY <1>1, <1>6, TimerFacts DEF Pending, Cleaned
<1>10. CASE Refused(func, set)
  <2>1. UNCHANGED <<status, events, clearq, routes>> /\ ready' = Tail(ready)
    BY <1>10 DEF Refused
  <2>2. Pending(CC)' => Pending(CC)
    BY <1>6, <2>1 DEF Pending
  <2> QED
    BY <1>8, <2>1, <2>2 DEF Cleaned, Clean
<1>11. CASE Moved(func, next)
  <2>1. PICK evs \in Seq(Queueable), left \in SUBSET Timer, off \in SUBSET (Job \ Event) :
            /\ Proceed(next, evs, left, off)
            /\ CC \in ToSet(evs) => CC \in ToSet(events) /\ func # "bgp_clearing_completed"
            /\ status = "Clearing" /\ func \in {"bgp_ignore", "bgp_stop"} => evs = events
    BY <1>11 DEF Moved
  <2>2. /\ status' = next /\ ToSet(ready') \subseteq ToSet(Tail(ready))
        /\ ~(next = "Clearing" /\ status # "Clearing") => clearq' = clearq /\ events' = evs
        /\ next = "Clearing" /\ status # "Clearing" =>
              /\ clearq' \in Seq(Family)
              /\ ToSet(clearq') = ToSet(clearq) \cup {f \in Family : routes[f] # "none"}
              /\ ToSet(events') = ToSet(evs) \cup ToSet(Completions)
    BY <1>1, <1>3, <2>1, ProceedFacts
  <2>3. CC \notin ToSet(ready')
    BY <1>6, <2>2
  <2>4. Pending(CC)' <=> CC \in ToSet(events')
    BY <2>3 DEF Pending
  <2>5. CC \in ToSet(evs) => Pending(CC)
    BY <2>1 DEF Pending
  <2>6. CASE e = CC
    <3>1. status = "Clearing" /\ Clean /\ next = "Idle" /\ func = "bgp_clearing_completed"
      BY <1>3, <1>9, <2>6
    <3>2. clearq' = clearq /\ events' = evs /\ CC \notin ToSet(evs)
      BY <2>1, <2>2, <3>1
    <3> QED
      BY <1>8, <2>2, <2>4, <3>1, <3>2 DEF Clean
  <2>7. CASE e # CC /\ status = "Clearing"
    <3>1. next = "Clearing" /\ clearq' = clearq /\ events' = events
      BY <1>3, <2>1, <2>2, <2>7
    <3>2. Pending(CC)' => Pending(CC)
      BY <2>4, <3>1 DEF Pending
    <3> QED
      BY <1>8, <2>2, <2>7, <3>1, <3>2 DEF Clean, Cleaned
  <2>8. CASE e # CC /\ status = "Established" /\ next = "Established"
    <3>1. clearq' = <<>> /\ CC \notin ToSet(events')
      BY <2>2, <2>5, <2>8 DEF Cleaned
    <3> QED
      BY <1>8, <2>2, <2>4, <2>8, <3>1
  <2>9. CASE e # CC /\ status = "Established" /\ next = "Clearing"
    <3>1. /\ clearq' \in Seq(Family) /\ ToSet(clearq') = {f \in Family : routes[f] # "none"}
          /\ ToSet(events') = ToSet(evs) \cup ToSet(Completions) /\ CC \notin ToSet(evs)
      BY <2>2, <2>5, <2>9, NoElements DEF Cleaned
    <3>2. ASSUME CC \in ToSet(events') PROVE Clean'
      <4>1. routes[Families[1]] = "none"
        BY <3>1, <3>2, ClearFacts
      <4>2. \A f \in Family : f = Families[1]
        BY FsmAssumption DEF Family, ToSet
      <4>3. \A f \in Family : routes[f] = "none"
        BY <4>1, <4>2
      <4>4. ToSet(clearq') = {}
        BY <3>1, <4>3
      <4>5. clearq' = <<>>
        BY <3>1, <4>4, EmptySet
      <4> QED
        BY <1>8, <4>3, <4>5 DEF Clean
    <3> QED
      BY <1>8, <2>2, <2>4, <2>9, <3>1, <3>2
  <2>10. CASE e # CC /\ status \notin {"Established", "Clearing"}
    <3>1. clearq' = clearq /\ events' = evs /\ Clean /\ CC \notin ToSet(evs) /\ next # "Clearing"
      BY <1>3, <2>2, <2>5, <2>10 DEF Cleaned
    <3>2. Clean'
      BY <1>8, <3>1 DEF Clean
    <3> QED
      BY <1>8, <2>2, <2>4, <3>1, <3>2 DEF Clean
  <2> QED
    BY <1>3, <2>6, <2>7, <2>8, <2>9, <2>10
<1> QED
  BY <1>5, <1>10, <1>11

\* Every step keeps Clearing_Completed and the routes apart.
LEMMA CleanedStep ==
    ASSUME Len(Families) = 1, TypeOK, SoleEvent, Cleaned, [Next]_vars PROVE Cleaned'
<1> DEFINE CC == "Clearing_Completed"
<1>1. CASE Turn
  BY <1>1, CleanedTurn
<1>2. ASSUME ready # <<>>, Ran, CC \in ToSet(events') => CC \in ToSet(events), Pending(CC)'
      PROVE  Pending(CC)
  <2>1. ToSet(ready) = {Head(ready)} \cup ToSet(Tail(ready))
    BY <1>2, HeadTailSet DEF TypeOK
  <2> QED
    BY <1>2, <2>1 DEF Pending, Ran
<1>3. CASE Aside
  <2>1. Pending(CC)' => Pending(CC)
    BY <1>2, <1>3 DEF Aside, Posted
  <2>2. /\ UNCHANGED <<config, status, clearq, nsf>>
        /\ nsfWait' \in {nsfWait, nsfWait \/ (status = "Established" /\ nsf)}
        /\ status # "Established" => \A f \in Family : routes[f] = "none" => routes'[f] = "none"
    BY <1>3 DEF Aside
  <2> QED
    BY <2>1, <2>2 DEF Cleaned, Clean
<1>4. CASE RestartExpired
  <2>1. Pending(CC)' => Pending(CC)
    BY <1>2, <1>4 DEF RestartExpired
  <2>2. /\ UNCHANGED <<config, status, clearq, nsf>> /\ nsfWait' = FALSE
        /\ \A f \in Family : routes[f] = "none" => routes'[f] = "none"
    BY <1>4 DEF RestartExpired
  <2> QED
    BY <2>1, <2>2 DEF Cleaned, Clean
<1>5. CASE Transferred
  <2> SUFFICES ASSUME ~config.graceful PROVE Cleaned'
    BY <1>5 DEF Transferred, Cleaned
  <2>1. status \notin {"Established", "Clearing"} /\ ~nsf /\ ~nsfWait /\ Clean
    BY <1>5 DEF Transferred, Transferable, Colliding, Cleaned
  <2>2. /\ ~nsf' /\ ~nsfWait' /\ Clean'
    BY <1>5, <2>1 DEF Transferred, Clean
  <2>3. CC \notin ToSet(ready')
    <3>1. CC \in Event /\ ToSet(ready') \subseteq ToSet(Tail(ready)) /\ ready # <<>>
      BY <1>5 DEF Transferred, Ran, Event
    <3> QED
      BY <3>1 DEF SoleEvent
  <2>4. ~Pending(CC)' /\ status' = "OpenSent"
    BY <1>5, <2>3 DEF Transferred, Pending
  <2> QED
    BY <2>2, <2>4 DEF Cleaned
<1>6. CASE ClearRun
  <2> SUFFICES ASSUME ~config.graceful PROVE Cleaned'
    BY <1>6 DEF ClearRun, Cleaned
  <2>1. status = "Clearing" /\ ~Pending(CC) /\ ~nsf /\ ~nsfWait
    BY <1>6 DEF ClearRun, Cleaned, Clean
  <2>2. ASSUME NEW f \in Family, routes'[f] # "none" PROVE f \in ToSet(clearq')
    BY <1>6, <2>1, <2>2 DEF ClearRun, Cleaned
  <2>3. ASSUME Pending(CC)' PROVE Clean'
    <3>1. clearq' = <<>>
      <4>1. CC \notin ToSet(events) /\ CC \notin ToSet(ready)
        BY <2>1 DEF Pending
      <4>2. ToSet(ready) = {Head(ready)} \cup ToSet(Tail(ready))
        BY <1>6, HeadTailSet DEF TypeOK, ClearRun
      <4>3. CC \in ToSet(events')
        BY <1>6, <2>3, <4>1, <4>2 DEF ClearRun, Ran, Pending
      <4> QED
        BY <1>6, <4>1, <4>3 DEF ClearRun
    <3>2. ToSet(clearq') = {}
      BY <3>1, NoElements
    <3> QED
      BY <2>2, <3>1, <3>2 DEF Clean
  <2> QED
    BY <1>6, <2>1, <2>2, <2>3 DEF ClearRun, Cleaned
<1>7. CASE Modified
  <2> SUFFICES ASSUME ~config.graceful PROVE Cleaned'
    BY <1>7 DEF Modified, Cleaned
  <2>1. UNCHANGED <<nsf, nsfWait, clearq, routes, status>> /\ (Pending(CC)' => Pending(CC))
    BY <1>2, <1>7 DEF Modified, Cleaned
  <2> QED
    BY <2>1 DEF Cleaned, Clean
<1>8. CASE Fetched
  <2>1. Pending(CC)' => Pending(CC)
    BY <1>8 DEF Fetched, Pending, Event
  <2> QED
    BY <1>8, <2>1 DEF Fetched, Cleaned, Clean
<1>9. CASE UNCHANGED vars
  BY <1>9 DEF vars, conn, admin, gr, table, Cleaned, Clean, Pending
<1> QED
  BY <1>1, <1>3, <1>4, <1>5, <1>6, <1>7, <1>8, <1>9, StepKinds

-----------------------------------------------------------------------------
(***************************************************************************)
(* No connection is left open.  A neighbour that keeps to the protocol     *)
(* never makes the table take the entry of an event out of turn, which     *)
(* leaves for Idle without bgp_stop: the messages that wait to be          *)
(* processed are those the status expects, in the order it expects them.   *)
(***************************************************************************)
Expiry == {"BGP_Start", "ConnectRetry_timer_expired", "Hold_Timer_expired",
           "KeepAlive_timer_expired"}

\* The events on which the table leaves OpenSent for a status that expects them.
Leaving == {"Receive_OPEN_message", "BGP_Stop", "Receive_NOTIFICATION_message"} \cup Tcp

\* The timers that bgp_timer_set may leave set.
Allowed(st) ==
    GrTimer \cup
    CASE st = "Idle" -> {"t_start"}
      [] st \in {"Connect", "Active"} -> {"t_connect"}
      [] st = "OpenSent" -> {"t_holdtime"}
      [] st \in {"OpenConfirm", "Established"} -> {"t_holdtime", "t_keepalive"}
      [] OTHER -> {}

\* The events of the peer that wait to be processed, the running one first.
Waiting == IF ready # <<>> /\ Head(ready) \in Event THEN <<Head(ready)>> \o events ELSE events

\* No KEEPALIVE is processed before an event that leaves OpenSent.
Guarded(q) ==
    \E i \in 1..Len(q) :
        q[i] \in Leaving /\ \A j \in 1..(i - 1) : q[j] # "Receive_KEEPALIVE_message"

\* The messages that wait in q are those that status st expects when the neighbour
\* has sent as much as sn says.
InTurn(q, st, sn) ==
    /\ ToSet(q) \cap Expiry = {}
    /\ "Receive_UPDATE_message" \in ToSet(q) => st = "Established"
    /\ "Receive_KEEPALIVE_message" \in ToSet(q) =>
          st \in {"OpenSent", "OpenConfirm", "Established"} /\ sn >= 1
    /\ "Receive_OPEN_message" \in ToSet(q) => st = "OpenSent" /\ sn >= 1
    /\ st = "OpenSent" /\ sn >= 1 => Guarded(q)
    /\ \A i, j \in 1..Len(q) :
          q[i] = "Receive_OPEN_message" /\ q[j] = "Receive_OPEN_message" => i = j

Plain == config.inOrder /\ ~config.graceful

Wired ==
    /\ status \in {"Idle", "Active", "Clearing"} => fd = "none" /\ ~reading
    /\ status \notin {"OpenSent", "OpenConfirm", "Established"} => sent = 0
    /\ status \in {"OpenConfirm", "Established"} => sent >= 1
    /\ timers \cup (ToSet(ready) \cap Timer) \subseteq Allowed(status)
    /\ InTurn(Waiting, status, sent)

\* Without an OPEN and out of an OpenSent that got one, order does not matter.
LEMMA InTurnPlain ==
    ASSUME NEW q \in Seq(Queueable), NEW st, NEW sn,
           ToSet(q) \cap Expiry = {}, "Receive_OPEN_message" \notin ToSet(q),
           "Receive_UPDATE_message" \in ToSet(q) => st = "Established",
           "Receive_KEEPALIVE_message" \in ToSet(q) =>
               st \in {"OpenConfirm", "Established"} /\ sn >= 1,
           ~(st = "OpenSent" /\ sn >= 1)
    PROVE  InTurn(q, st, sn)
<1>1. \A i \in 1..Len(q) : q[i] \in ToSet(q)
  BY DEF ToSet
<1>2. \A i \in 1..Len(q) : q[i] # "Receive_OPEN_message"
  BY <1>1
<1> QED
  BY <1>2 DEF InTurn

\* The event that runs: after an OPEN there is no other, and in OpenSent it is no
\* KEEPALIVE.
LEMMA InTurnHead ==
    ASSUME NEW e \in Queueable, NEW evs \in Seq(Queueable), NEW q, q = <<e>> \o evs,
           NEW st, NEW sn, InTurn(q, st, sn)
    PROVE  /\ ToSet(evs) \subseteq ToSet(q) /\ e \in ToSet(q)
           /\ e = "Receive_OPEN_message" => "Receive_OPEN_message" \notin ToSet(evs)
           /\ st = "OpenSent" => e # "Receive_KEEPALIVE_message"
<1>1. /\ q \in Seq(Queueable) /\ Len(evs) \in Nat /\ Len(q) = Len(evs) + 1 /\ q[1] = e
      /\ DOMAIN q = 1..(Len(evs) + 1) /\ DOMAIN evs = 1..Len(evs)
      /\ \A i \in 1..Len(evs) : q[i + 1] = evs[i]
  OBVIOUS
<1>2. \A i \in 1..Len(evs) : i + 1 \in 1..(Len(evs) + 1) /\ i + 1 # 1
  BY <1>1
<1>3. 1 \in 1..(Len(evs) + 1)
  BY <1>1
<1>4. ASSUME NEW x \in ToSet(evs) PROVE \E i \in 1..Len(evs) : evs[i] = x
  BY <1>1, <1>4 DEF ToSet
<1>5. ToSet(evs) \subseteq ToSet(q) /\ e \in ToSet(q)
  <2>1. ASSUME NEW x \in ToSet(evs) PROVE x \in ToSet(q)
    <3>1. PICK i \in 1..Len(evs) : evs[i] = x
      BY <1>4, <2>1
    <3> QED
      BY <1>1, <1>2, <3>1 DEF ToSet
  <2>2. e \in ToSet(q)
    BY <1>1, <1>3 DEF ToSet
  <2> QED
    BY <2>1, <2>2
<1>6. ASSUME e = "Receive_OPEN_message", "Receive_OPEN_message" \in ToSet(evs) PROVE FALSE
  <2>1. PICK i \in 1..Len(evs) : evs[i] = "Receive_OPEN_message"
    BY <1>4, <1>6
  <2>2. q[i + 1] = "Receive_OPEN_message" /\ q[1] = "Receive_OPEN_message"
    BY <1>1, <1>6, <2>1
  <2> QED
    BY <1>1, <1>2, <1>3, <2>2 DEF InTurn
<1>7. ASSUME st = "OpenSent", e = "Receive_KEEPALIVE_message" PROVE FALSE
  <2>1. Guarded(q)
    BY <1>5, <1>7 DEF InTurn
  <2>2. PICK i \in 1..Len(q) :
            q[i] \in Leaving /\ \A j \in 1..(i - 1) : q[j] # "Receive_KEEPALIVE_message"
    BY <2>1 DEF Guarded
  <2>3. i = 1
    BY <1>1, <1>7, <2>2
  <2> QED
    BY <1>1, <1>7, <2>2, <2>3 DEF Leaving, Tcp
<1> QED
  BY <1>5, <1>6, <1>7

\* An event of the acceptor goes.
LEMMA InTurnTail ==
    ASSUME NEW q \in Seq(Queueable), q # <<>>, Head(q) \in AcceptEvent, NEW t, t = Tail(q),
           NEW st, NEW sn, InTurn(q, st, sn)
    PROVE  InTurn(t, st, sn)
<1>1. /\ t \in Seq(Queueable) /\ Len(q) \in Nat \ {0} /\ Len(t) = Len(q) - 1 /\ q[1] = Head(q)
      /\ \A i \in 1..(Len(q) - 1) : t[i] = q[i + 1]
  OBVIOUS
<1>2. ToSet(t) \subseteq ToSet(q)
  BY TailSet
<1>3. ASSUME Guarded(q) PROVE Guarded(t)
  <2>1. PICK i \in 1..Len(q) :
            q[i] \in Leaving /\ \A j \in 1..(i - 1) : q[j] # "Receive_KEEPALIVE_message"
    BY <1>3 DEF Guarded
  <2>2. i # 1
    BY <1>1, <2>1 DEF Leaving, Tcp, AcceptEvent
  <2>3. i - 1 \in 1..Len(t) /\ t[i - 1] \in Leaving
    BY <1>1, <2>1, <2>2
  <2>4. \A j \in 1..((i - 1) - 1) : t[j] # "Receive_KEEPALIVE_message"
    BY <1>1, <2>1, <2>2
  <2> QED
    BY <2>3, <2>4 DEF Guarded
<1>4. ASSUME NEW i \in 1..Len(t), NEW j \in 1..Len(t),
             t[i] = "Receive_OPEN_message", t[j] = "Receive_OPEN_message"
      PROVE  i = j
  <2>1. i + 1 \in 1..Len(q) /\ j + 1 \in 1..Len(q) /\ t[i] = q[i + 1] /\ t[j] = q[j + 1]
    BY <1>1
  <2>2. i + 1 = j + 1
    BY <1>4, <2>1 DEF InTurn
  <2> QED
    BY <1>1, <2>2
<1> QED
  BY <1>2, <1>3, <1>4 DEF InTurn

\* An event is added that is no message and no timer's, or one that is in turn.
LEMMA InTurnAppend ==
    ASSUME NEW q \in Seq(Queueable), NEW e \in Queueable \ Expiry, NEW p, p = Append(q, e),
           NEW st, NEW sn \in Nat, NEW new \in Nat, InTurn(q, st, sn), sn <= new,
           e = "Receive_UPDATE_message" => st = "Established",
           e = "Receive_KEEPALIVE_message" =>
               st \in {"OpenSent", "OpenConfirm", "Established"} /\ sn >= 1,
           e = "Receive_OPEN_message" => st = "OpenSent" /\ sn = 0 /\ new >= 1,
           sn = 0 /\ new # 0 => e \in Leaving
    PROVE  InTurn(p, st, new)
<1>1. /\ p \in Seq(Queueable) /\ Len(q) \in Nat /\ Len(p) = Len(q) + 1 /\ p[Len(q) + 1] = e
      /\ \A i \in 1..Len(q) : p[i] = q[i]
      /\ 1..(Len(q) + 1) = 1..Len(q) \cup {Len(q) + 1}
  OBVIOUS
<1>2. ToSet(p) = ToSet(q) \cup {e}
  BY AppendSet
<1>3. ASSUME Guarded(q) PROVE Guarded(p)
  <2>1. PICK i \in 1..Len(q) :
            q[i] \in Leaving /\ \A j \in 1..(i - 1) : q[j] # "Receive_KEEPALIVE_message"
    BY <1>3 DEF Guarded
  <2>2. i \in 1..Len(p) /\ p[i] \in Leaving
    BY <1>1, <2>1
  <2>3. \A j \in 1..(i - 1) : p[j] # "Receive_KEEPALIVE_message"
    BY <1>1, <2>1
  <2> QED
    BY <2>2, <2>3 DEF Guarded
<1>4. ASSUME sn = 0, e \in Leaving PROVE Guarded(p)
  <2>1. "Receive_KEEPALIVE_message" \notin ToSet(q)
    BY <1>4 DEF InTurn
  <2>2. \A j \in 1..Len(q) : q[j] # "Receive_KEEPALIVE_message"
    BY <2>1 DEF ToSet
  <2>3. Len(q) + 1 \in 1..Len(p) /\ (Len(q) + 1) - 1 = Len(q)
    BY <1>1
  <2>4. \A j \in 1..((Len(q) + 1) - 1) : p[j] # "Receive_KEEPALIVE_message"
    BY <1>1, <2>2, <2>3
  <2> QED
    BY <1>1, <1>4, <2>3, <2>4 DEF Guarded
<1>5. st = "OpenSent" /\ new >= 1 => Guarded(p)
  BY <1>3, <1>4 DEF InTurn
<1>6. ASSUME NEW i \in 1..Len(p), NEW j \in 1..Len(p),
             p[i] = "Receive_OPEN_message", p[j] = "Receive_OPEN_message"
      PROVE  i = j
  <2>1. CASE e # "Receive_OPEN_message"
    <3>1. i \in 1..Len(q) /\ j \in 1..Len(q)
      BY <1>1, <1>6, <2>1
    <3> QED
      BY <1>1, <1>6, <3>1 DEF InTurn
  <2>2. CASE e = "Receive_OPEN_message"
    <3>1. "Receive_OPEN_message" \notin ToSet(q)
      BY <2>2 DEF InTurn
    <3>2. \A k \in 1..Len(q) : q[k] # "Receive_OPEN_message"
      BY <3>1 DEF ToSet
    <3> QED
      BY <1>1, <1>6, <3>2
  <2> QED
    BY <2>1, <2>2
<1>7. ToSet(p) \cap Expiry = {}
  BY <1>2 DEF InTurn
<1> QED
  BY <1>2, <1>5, <1>6, <1>7 DEF InTurn, Leaving, Tcp

\* The acceptor's events are deleted.
LEMMA InTurnWithout ==
    ASSUME NEW q \in Seq(Queueable), NEW r, r = Without(q, AcceptEvent),
           NEW st, NEW sn, InTurn(q, st, sn)
    PROVE  InTurn(r, st, sn)
<1> DEFINE T == ToSet(q) \ AcceptEvent
           L == Leaving \cap T
           K == {"Receive_KEEPALIVE_message"}
<1>1. r \in Seq(Queueable) /\ ToSet(r) = T
  BY WithoutSet
<1>2. r = Filter(q, T)
  BY DEF Without
<1>3. ASSUME Guarded(q) PROVE Guarded(r)
  <2>1. PICK i \in 1..Len(q) :
            q[i] \in Leaving /\ \A j \in 1..(i - 1) : q[j] # "Receive_KEEPALIVE_message"
    BY <1>3 DEF Guarded
  <2>2. q[i] \in L
    BY <2>1 DEF Leaving, Tcp, AcceptEvent, ToSet
  <2>3. Leads(q, Len(q), L, K)
    BY <2>1, <2>2 DEF Leads
  <2>4. L \subseteq T
    OBVIOUS
  <2> HIDE DEF L, K, T
  <2>5. Leads(r, Len(r), L, K)
    BY <1>2, <2>3, <2>4, FilterLeads
  <2> QED
    BY <2>5 DEF Leads, Guarded, L, K
<1>4. ASSUME NEW i \in 1..Len(r), NEW j \in 1..Len(r), i < j,
             r[i] = "Receive_OPEN_message", r[j] = "Receive_OPEN_message"
      PROVE  FALSE
  <2> HIDE DEF T
  <2>1. \E k, l \in 1..Len(q) : k < l /\ r[i] = q[k] /\ r[j] = q[l]
    BY <1>2, <1>4, FilterOrder
  <2> QED
    BY <1>4, <2>1 DEF InTurn
<1>5. \A i, j \in 1..Len(r) :
         r[i] = "Receive_OPEN_message" /\ r[j] = "Receive_OPEN_message" => i = j
  BY <1>1, <1>4
<1>6. ToSet(r) \subseteq ToSet(q)
  BY <1>1
<1> QED
  BY <1>3, <1>5, <1>6 DEF InTurn

\* After a job the events that wait are those of the event queue; so they were
\* before it, if the job was no event of the peer.
LEMMA WaitingFacts ==
    ASSUME TypeOK, SoleEvent, ready # <<>>, Ran
    PROVE  /\ Waiting' = events'
           /\ Head(ready) \notin Event => Waiting = events
           /\ Head(ready) \in Event => Waiting = <<Head(ready)>> \o events
           /\ ToSet(ready') \cap Timer \subseteq ToSet(ready) \cap Timer
<1>1. ready' # <<>> => Head(ready') \in ToSet(ready')
  BY ElementsOf DEF Ran
<1>2. ready' # <<>> => Head(ready') \notin Event
  BY <1>1 DEF Ran, SoleEvent
<1>3. ToSet(Tail(ready)) \subseteq ToSet(ready)
  BY TailSet DEF TypeOK
<1> QED
  BY <1>2, <1>3 DEF Waiting, Ran

\* The events that any status may meet.
Posts ==
    Queueable \ (Expiry \cup {"Receive_OPEN_message", "Receive_KEEPALIVE_message",
                             "Receive_UPDATE_message"})

\* They are all but the messages of a session and what only timers stand for.
LEMMA PostsFacts ==
    /\ NotifyEvent \cup Tcp \cup AcceptEvent \subseteq Posts
    /\ {"Receive_NOTIFICATION_message", "Clearing_Completed"} \subseteq Posts
BY DEF Posts, Queueable, Event, AcceptEvent, NotifyEvent, Tcp, Expiry

\* A job that posts at most an event that is no message keeps the session wired, if
\* it opens no connection and sets no timer of another status.
LEMMA WiredPosted ==
    ASSUME TypeOK, SoleEvent, Wired, ready # <<>>, Head(ready) \notin Event, Ran,
           UNCHANGED <<status, sent>>, status # "Connect" => UNCHANGED fd /\ (reading' => reading),
           timers' \subseteq Allowed(status),
           events' = events \/ \E e \in Posts : events' = Append(events, e)
    PROVE  Wired'
<1>1. /\ Waiting' = events' /\ Waiting = events
      /\ ToSet(ready') \cap Timer \subseteq ToSet(ready) \cap Timer
  BY WaitingFacts
<1>2. InTurn(events, status, sent) /\ events \in Seq(Queueable) /\ sent \in Nat
  BY <1>1 DEF Wired, TypeOK, Queueable
<1>3. InTurn(events', status, sent)
  <2>1. CASE events' = events
    BY <1>2, <2>1
  <2>2. CASE events' # events
    <3>1. PICK e \in Posts : events' = Append(events, e)
      BY <2>2
    <3> DEFINE p == events'
    <3>2. /\ p = Append(events, e) /\ sent <= sent /\ e # "Receive_OPEN_message"
          /\ e # "Receive_KEEPALIVE_message" /\ e # "Receive_UPDATE_message"
          /\ e \in Queueable \ Expiry
      BY <1>2, <3>1 DEF Posts
    <3> HIDE DEF p
    <3>3. InTurn(p, status, sent)
      BY <1>2, <3>2, InTurnAppend
    <3> QED
      BY <3>3 DEF p
  <2> QED
    BY <2>1, <2>2
<1>4. InTurn(Waiting', status', sent')
  BY <1>1, <1>3
<1>5. timers' \cup (ToSet(ready') \cap Timer) \subseteq Allowed(status')
  BY <1>1 DEF Wired
<1>6. status' \in {"Idle", "Active", "Clearing"} => fd' = "none" /\ ~reading'
  BY DEF Wired
<1> QED
  BY <1>4, <1>5, <1>6 DEF Wired

\* The jobs that post no message of the neighbour.
LEMMA WiredAside ==
    ASSUME TypeOK, SoleEvent, Wired,
           \/ bgp_connect_check \/ bgp_write \/ ReadNothing \/ bgp_accept \/ AcceptorEvent
           \/ peer_clear \/ bgp_graceful_stale_timer_expire
    PROVE  Wired'
<1>1. Aside
  BY AsideConnect, AsideWrite, AsideReadNothing, AsideAccept, AsideAcceptor, AsideClear, AsideStale
<1>2. ready # <<>> /\ Head(ready) \notin Event /\ Ran /\ status' = status
  BY <1>1 DEF Aside
<1>3. timers \subseteq Allowed(status)
  BY DEF Wired
<1>4. timers' \subseteq Allowed(status)
  BY <1>1, <1>3 DEF Aside
<1>5. events' = events \/ \E e \in Posts : events' = Append(events, e)
  <2>1. CASE bgp_connect_check
    <3>1. \E e \in Tcp : events' = Append(events, e)
      BY <2>1 DEF bgp_connect_check, Tcp
    <3> QED
      BY <3>1, PostsFacts
  <2>2. CASE bgp_write
    <3>1. \E e \in Tcp : events' = Append(events, e)
      BY <2>2 DEF bgp_write, Tcp
    <3> QED
      BY <3>1, PostsFacts
  <2>3. CASE ReadNothing \/ AcceptorEvent \/ bgp_graceful_stale_timer_expire
    BY <2>3 DEF ReadNothing, AcceptorEvent, bgp_graceful_stale_timer_expire
  <2>4. CASE bgp_accept
    <3>1. events' = events \/ \E e \in AcceptEvent : events' = Append(events, e)
      BY <2>4 DEF bgp_accept, AcceptEvent
    <3> QED
      BY <3>1, PostsFacts
  <2>5. CASE peer_clear
    <3>1. events' = events \/ \E e \in NotifyEvent : events' = Append(events, e)
      BY <2>5 DEF peer_clear, bgp_notify_send, NotifyEvent
    <3> QED
      BY <3>1, PostsFacts
  <2> QED
    BY <2>1, <2>2, <2>3, <2>4, <2>5
<1>6. sent' = sent /\ (status # "Connect" => UNCHANGED fd /\ (reading' => reading))
  BY DEF bgp_connect_check, bgp_write, ReadNothing, bgp_accept, AcceptorEvent, peer_clear,
         bgp_graceful_stale_timer_expire, conn
<1> QED
  BY <1>2, <1>4, <1>5, <1>6, WiredPosted

\* bgp_timer_set leaves the timers of the status.
LEMMA TimerSetAllowed ==
    ASSUME TypeOK, NEW st \in Status, NEW wait, NEW set
    PROVE  bgp_timer_set(st, wait, set) \subseteq Allowed(st)
BY DEF bgp_timer_set, Allowed, Status

\* The restart timer, the clear queue and the operator.
LEMMA WiredOther ==
    ASSUME TypeOK, SoleEvent, Wired, ~nsfWait,
           bgp_graceful_restart_timer_expire \/ work_queue_run \/ peer_flag_modify_action
    PROVE  Wired'
<1>1. timers \subseteq Allowed(status) /\ status \in Status
  BY DEF Wired, TypeOK
<1>2. CASE bgp_graceful_restart_timer_expire
  <2>1. RestartExpired
    BY <1>2, RestartFacts
  <2>2. timers' \subseteq Allowed(status)
    BY <1>1, <2>1, TimerSetAllowed DEF RestartExpired
  <2>3. /\ ready # <<>> /\ Head(ready) \notin Event /\ Ran /\ events' = events
        /\ UNCHANGED <<status, fd, reading, sent>>
    BY <2>1 DEF RestartExpired
  <2> QED
    BY <2>2, <2>3, WiredPosted
<1>3. CASE work_queue_run
  <2>1. ClearRun
    BY <1>3, ClearRunFacts
  <2>2. /\ ready # <<>> /\ Head(ready) \notin Event /\ Ran
        /\ UNCHANGED <<status, fd, reading, sent, timers>>
    BY <2>1 DEF ClearRun
  <2>3. events' = events \/ events' = Append(events, "Clearing_Completed")
    BY <1>3 DEF work_queue_run
  <2>4. events' = events \/ \E e \in Posts : events' = Append(events, e)
    BY <2>3, PostsFacts
  <2>5. timers' \subseteq Allowed(status)
    BY <1>1, <2>2
  <2> QED
    BY <2>2, <2>4, <2>5, WiredPosted
<1>4. CASE peer_flag_modify_action
  <2>1. Modified
    BY <1>4, ModifyFacts
  <2>2. /\ ready # <<>> /\ Head(ready) \notin Event /\ Ran
        /\ UNCHANGED <<status, fd, reading, sent>>
    BY <2>1 DEF Modified
  <2>3. timers' \subseteq timers
    BY <1>4 DEF peer_flag_modify_action, peer_nsf_stop
  <2>4. \E e \in NotifyEvent : events' = Append(events, e)
    BY <1>4 DEF peer_flag_modify_action, bgp_notify_send, NotifyEvent
  <2>5. \E e \in Posts : events' = Append(events, e)
    BY <2>4, PostsFacts
  <2>6. timers' \subseteq Allowed(status)
    BY <1>1, <2>3
  <2> QED
    BY <2>2, <2>5, <2>6, WiredPosted
<1> QED
  BY <1>2, <1>3, <1>4

\* The acceptor is deleted.
LEMMA WiredDeleted ==
    ASSUME TypeOK, SoleEvent, Wired, AcceptorDeleted PROVE Wired'
<1>1. Aside
  BY AsideDeleted
<1>2. /\ ready # <<>> /\ Head(ready) \notin Event /\ Ran
      /\ UNCHANGED <<status, fd, reading, sent, timers>>
      /\ events' = Without(events, AcceptEvent)
  BY <1>1 DEF Aside, AcceptorDeleted, conn
<1>3. /\ Waiting' = events' /\ Waiting = events
      /\ ToSet(ready') \cap Timer \subseteq ToSet(ready) \cap Timer
  BY <1>2, WaitingFacts
<1>4. InTurn(events, status, sent) /\ events \in Seq(Queueable)
  BY <1>3 DEF Wired, TypeOK, Queueable
<1> DEFINE r == events'
<1>5. r = Without(events, AcceptEvent)
  BY <1>2
<1> HIDE DEF r
<1>6. InTurn(r, status, sent)
  BY <1>4, <1>5, InTurnWithout
<1>7. InTurn(Waiting', status', sent')
  BY <1>2, <1>3, <1>6 DEF r
<1> QED
  BY <1>2, <1>3, <1>7 DEF Wired

\* The connection of the acceptor comes with its OPEN, and nothing else waits.
LEMMA WiredTransfer ==
    ASSUME TypeOK, SoleEvent, Wired, Transfer PROVE Wired'
<1>1. Transferred
  BY TransferFacts
<1>2. ready # <<>> /\ Head(ready) \notin Event /\ Ran /\ status' = "OpenSent" /\ sent' = 1
  BY <1>1 DEF Transferred
<1>3. Waiting' = events'
  BY <1>2, WaitingFacts
<1>4. PICK e \in OpenEvent : events' = Append(Without(events, Event \cup AcceptEvent), e)
  BY DEF Transfer
<1> DEFINE rest == Without(events, Event \cup AcceptEvent)
           p == events'
<1>5. rest \in Seq(Queueable) /\ ToSet(rest) = {}
  <2>1. events \in Seq(Queueable)
    BY DEF TypeOK, Queueable
  <2>2. rest \in Seq(Queueable) /\ ToSet(rest) = ToSet(events) \ (Event \cup AcceptEvent)
    BY <2>1, WithoutSet
  <2>3. ToSet(events) \subseteq Queueable
    BY <2>1, ElementsOf
  <2> QED
    BY <2>2, <2>3 DEF Queueable
<1>6. p = Append(rest, e)
  BY <1>4
<1> HIDE DEF rest, p
<1>7. rest = <<>>
  BY <1>5, EmptySet
<1>8. e \in Queueable \ Expiry /\ e \in Leaving /\ e # "Receive_UPDATE_message"
      /\ e # "Receive_KEEPALIVE_message"
  BY DEF OpenEvent, NotifyEvent, Queueable, Event, Expiry, Leaving, Tcp
<1> DEFINE st == "OpenSent"
           one == 1
           zero == 0
<1>9. InTurn(rest, st, zero)
  BY <1>5, InTurnPlain
<1>10. zero \in Nat /\ one \in Nat /\ zero <= one /\ one >= 1 /\ zero = 0 /\ st = "OpenSent"
  OBVIOUS
<1> HIDE DEF st, one, zero
<1>11. InTurn(p, st, one)
  BY <1>5, <1>6, <1>8, <1>9, <1>10, InTurnAppend
<1>12. InTurn(Waiting', status', sent')
  BY <1>2, <1>3, <1>11 DEF p, st, one
<1>13. timers' \cup (ToSet(ready') \cap Timer) \subseteq GrTimer
  <2> DEFINE T == {"accept_read", "accept_hold"} \cup StopOff \cup (Timer \ GrTimer)
             t == Tail(ready)
  <2>1. ready' = Without(t, T) /\ t \in Seq(Job)
    BY <1>2, TailSet DEF Transfer, TypeOK
  <2>2. Timer \ GrTimer \subseteq T
    OBVIOUS
  <2> HIDE DEF T, t
  <2>3. ToSet(ready') = ToSet(t) \ T
    BY <2>1, WithoutSet
  <2>4. timers' \subseteq GrTimer
    BY DEF Transfer
  <2> QED
    BY <2>2, <2>3, <2>4
<1>14. timers' \cup (ToSet(ready') \cap Timer) \subseteq Allowed(status')
  BY <1>13 DEF Allowed
<1> QED
  BY <1>2, <1>12, <1>14 DEF Wired

\* A message that is in turn.
LEMMA WiredMessage ==
    ASSUME TypeOK, SoleEvent, Wired, ready # <<>>, Head(ready) \notin Event, Ran,
           UNCHANGED <<status, fd, reading, timers>>,
           status \in {"OpenSent", "OpenConfirm", "Established"},
           NEW p, p \in {events, Append(events, "accept_stop")},
           NEW e \in Queueable \ Expiry, events' = Append(p, e), sent' \in Nat, sent <= sent',
           e = "Receive_UPDATE_message" => status = "Established",
           e = "Receive_KEEPALIVE_message" => sent >= 1,
           e = "Receive_OPEN_message" => sent = 0 /\ sent' >= 1,
           sent = 0 /\ sent' # 0 => e \in Leaving
    PROVE  Wired'
<1>1. /\ Waiting' = events' /\ Waiting = events
      /\ ToSet(ready') \cap Timer \subseteq ToSet(ready) \cap Timer
  BY WaitingFacts
<1>2. InTurn(events, status, sent) /\ events \in Seq(Queueable) /\ sent \in Nat
  BY <1>1 DEF Wired, TypeOK, Queueable
<1>3. InTurn(p, status, sent) /\ p \in Seq(Queueable)
  <2>1. CASE p = events
    BY <1>2, <2>1
  <2>2. CASE p # events
    <3> DEFINE a == "accept_stop"
    <3>1. /\ a \in Queueable \ Expiry /\ p = Append(events, a) /\ sent <= sent
          /\ a # "Receive_OPEN_message" /\ a # "Receive_KEEPALIVE_message"
          /\ a # "Receive_UPDATE_message"
      BY <1>2, <2>2 DEF Queueable, AcceptEvent, Expiry
    <3> HIDE DEF a
    <3>2. InTurn(p, status, sent)
      BY <1>2, <3>1, InTurnAppend
    <3> QED
      BY <1>2, <3>1, <3>2, AppendSet
  <2> QED
    BY <2>1, <2>2
<1> DEFINE r == events'
           new == sent'
<1>4. r = Append(p, e) /\ new \in Nat /\ sent <= new
  OBVIOUS
<1>5. e = "Receive_OPEN_message" => status = "OpenSent" /\ new >= 1
  BY DEF Wired
<1>6. sent = 0 /\ new # 0 => e \in Leaving
  OBVIOUS
<1> HIDE DEF r, new
<1>7. InTurn(r, status, new)
  BY <1>2, <1>3, <1>4, <1>5, <1>6, InTurnAppend
<1>8. InTurn(Waiting', status', sent')
  BY <1>1, <1>7 DEF r, new
<1>9. sent >= 1 => sent' >= 1
  BY <1>2
<1> QED
  BY <1>1, <1>8, <1>9 DEF Wired

\* bgp_read: what the neighbour may send, the status expects.
LEMMA WiredRead ==
    ASSUME TypeOK, SoleEvent, Wired, Plain, bgp_read PROVE Wired'
<1>1. Aside
  BY AsideRead
<1>2. /\ ready # <<>> /\ Head(ready) \notin Event /\ Ran /\ fd # "none" /\ status # "Connect"
      /\ UNCHANGED <<status, fd, reading, timers>>
  BY <1>1 DEF Aside, bgp_read
<1>3. status \in {"OpenSent", "OpenConfirm", "Established"}
  BY <1>2 DEF Wired, TypeOK, Status
<1>4. sent \in 0..2 /\ timers' \subseteq Allowed(status)
  BY <1>2 DEF TypeOK, Wired
<1>5. PICK m \in Message :
          /\ MaySend(m)
          /\ sent' = CASE m = "OPEN" -> (IF sent = 0 THEN 1 ELSE sent)
                       [] m = "KEEPALIVE" -> 2 [] OTHER -> sent
          /\ \/ m = "OPEN" /\ bgp_open_receive
             \/ m = "KEEPALIVE" /\ Post("Receive_KEEPALIVE_message") /\ UNCHANGED <<gr, table>>
             \/ m \in {"UPDATE", "EOR"} /\ bgp_update_receive(m)
             \/ m = "NOTIFICATION" /\ Post("Receive_NOTIFICATION_message")
                   /\ UNCHANGED <<gr, table>>
             \/ m = "BAD" /\ bgp_notify_send(events) /\ UNCHANGED <<gr, table>>
             \/ m = "CLOSED" /\ bgp_read_packet("TCP_connection_closed")
             \/ m = "ERROR" /\ bgp_read_packet("TCP_fatal_error")
  BY DEF bgp_read, Plain
<1>6. ASSUME sent' = sent, \E e \in Posts : events' = Append(events, e) PROVE Wired'
  BY <1>2, <1>4, <1>6, WiredPosted
<1>7. CASE m = "OPEN"
  <2>1. sent = 0 /\ sent' = 1 /\ bgp_open_receive
    BY <1>5, <1>7 DEF MaySend
  <2>2. \E p \in {events, Append(events, "accept_stop")}, e \in OpenEvent : events' = Append(p, e)
    <3>1. events \in Seq(Queueable)
      BY DEF TypeOK, Queueable
    <3>2. CASE acceptor = "OpenSent" /\ ~config.localLower
      <4>1. \E e \in NotifyEvent : events' = Append(events, e)
        BY <2>1, <3>2 DEF bgp_open_receive, bgp_notify_send
      <4> QED
        BY <4>1 DEF OpenEvent
    <3>3. CASE ~(acceptor = "OpenSent" /\ ~config.localLower)
      <4> DEFINE stop == IF acceptor = "OpenSent" THEN <<"accept_stop">> ELSE <<>>
      <4>1. PICK e \in OpenEvent : events' = events \o stop \o <<e>>
        BY <2>1, <3>3 DEF bgp_open_receive
      <4>2. events \o stop = events \/ events \o stop = Append(events, "accept_stop")
        <5>1. CASE acceptor = "OpenSent"
          <6>1. stop = <<"accept_stop">>
            BY <5>1
          <6> HIDE DEF stop
          <6>2. events \o <<"accept_stop">> = Append(events, "accept_stop")
            BY <3>1
          <6> QED
            BY <6>1, <6>2
        <5>2. CASE acceptor # "OpenSent"
          <6>1. stop = <<>>
            BY <5>2
          <6> HIDE DEF stop
          <6>2. events \o <<>> = events
            BY <3>1
          <6> QED
            BY <6>1, <6>2
        <5> QED
          BY <5>1, <5>2
      <4>3. e \in Queueable /\ "accept_stop" \in Queueable
        BY DEF OpenEvent, NotifyEvent, Queueable, Event, AcceptEvent
      <4> DEFINE p == events \o stop
      <4>4. p = events \/ p = Append(events, "accept_stop")
        BY <4>2
      <4>5. events' = p \o <<e>>
        BY <4>1
      <4> HIDE DEF p
      <4>6. p \in Seq(Queueable)
        BY <3>1, <4>3, <4>4
      <4>7. events' = Append(p, e)
        BY <4>3, <4>5, <4>6
      <4> QED
        BY <4>4, <4>7
    <3> QED
      BY <3>2, <3>3
  <2>3. PICK p \in {events, Append(events, "accept_stop")}, e \in OpenEvent :
            events' = Append(p, e)
    BY <2>2
  <2>4. e \in Queueable \ Expiry /\ e \in Leaving /\ e # "Receive_UPDATE_message"
        /\ e # "Receive_KEEPALIVE_message"
    BY DEF OpenEvent, NotifyEvent, Queueable, Event, Expiry, Leaving, Tcp
  <2>5. sent' \in Nat /\ sent <= sent' /\ sent' >= 1
    BY <2>1
  <2> QED
    BY <1>2, <1>3, <2>1, <2>3, <2>4, <2>5, WiredMessage
<1>8. CASE m = "KEEPALIVE"
  <2> DEFINE e == "Receive_KEEPALIVE_message"
  <2>1. sent >= 1 /\ sent' = 2 /\ events' = Append(events, e)
    BY <1>5, <1>8 DEF MaySend, Post
  <2>2. /\ e \in Queueable \ Expiry /\ e # "Receive_UPDATE_message" /\ e # "Receive_OPEN_message"
        /\ sent' \in Nat /\ sent <= sent' /\ sent # 0
    BY <1>4, <2>1 DEF Queueable, Event, Expiry
  <2> HIDE DEF e
  <2> QED
    BY <1>2, <1>3, <2>1, <2>2, WiredMessage
<1>9. CASE m \in {"UPDATE", "EOR"}
  <2>1. sent' = sent /\ bgp_update_receive(m)
    BY <1>5, <1>9
  <2>2. CASE status # "Established"
    <3>1. \E e \in NotifyEvent : events' = Append(events, e)
      BY <2>1, <2>2 DEF bgp_update_receive, bgp_notify_send
    <3> QED
      BY <1>6, <2>1, <3>1, PostsFacts
  <2>3. CASE status = "Established"
    <3> DEFINE e == "Receive_UPDATE_message"
    <3>1. events' = Append(events, e)
      BY <2>1, <2>3 DEF bgp_update_receive, Post
    <3>2. /\ e \in Queueable \ Expiry /\ e # "Receive_KEEPALIVE_message"
          /\ e # "Receive_OPEN_message" /\ sent' \in Nat /\ sent <= sent'
      BY <1>4, <2>1 DEF Queueable, Event, Expiry
    <3> HIDE DEF e
    <3> QED
      BY <1>2, <1>3, <2>1, <2>3, <3>1, <3>2, WiredMessage
  <2> QED
    BY <2>2, <2>3
<1>10. CASE m \notin {"OPEN", "KEEPALIVE", "UPDATE", "EOR"}
  <2>1. sent' = sent
    BY <1>5, <1>10
  <2>2. \E e \in NotifyEvent \cup Tcp \cup {"Receive_NOTIFICATION_message"} :
            events' = Append(events, e)
    BY <1>5, <1>10 DEF bgp_notify_send, bgp_read_packet, Post, Tcp
  <2> QED
    BY <1>6, <2>1, <2>2, PostsFacts
<1> QED
  BY <1>7, <1>8, <1>9, <1>10

\* thread_fetch changes nothing for the events that wait, but takes one of the
\* acceptor off.
LEMMA WiredFetch ==
    ASSUME TypeOK, Wired, thread_fetch PROVE Wired'
<1>1. Fetched
  BY FetchFacts
<1>2. /\ ready = <<>> /\ ready' # <<>> /\ UNCHANGED <<status, fd, reading, sent, timers>>
      /\ ToSet(ready') \cap Timer \subseteq timers
  BY <1>1 DEF Fetched
<1>3. InTurn(events, status, sent) /\ events \in Seq(Queueable)
  BY <1>2 DEF Wired, Waiting, TypeOK, Queueable
<1>4. InTurn(Waiting', status, sent)
  <2>1. CASE events = <<>>
    <3>1. events' = <<>> /\ ready' \in Seq(Job) /\ ToSet(ready') \cap Event \subseteq ToSet(events)
      BY <1>1, <2>1 DEF Fetched
    <3>2. Head(ready') \notin Event
      BY <1>2, <2>1, <3>1, ElementsOf, NoElements
    <3>3. Waiting' = events
      BY <2>1, <3>1, <3>2 DEF Waiting
    <3> QED
      BY <1>3, <3>3
  <2>2. CASE events # <<>> /\ Head(events) \in Event
    <3>1. Head(ready') = Head(events) /\ events' = Tail(events)
      BY <1>1, <2>2 DEF Fetched
    <3>2. Waiting' = <<Head(events)>> \o Tail(events)
      BY <1>2, <2>2, <3>1 DEF Waiting
    <3>3. <<Head(events)>> \o Tail(events) = events
      BY <1>3, <2>2
    <3> QED
      BY <1>3, <3>2, <3>3
  <2>3. CASE events # <<>> /\ Head(events) \notin Event
    <3>1. Head(ready') = Head(events) /\ events' = Tail(events)
      BY <1>1, <2>3 DEF Fetched
    <3>2. Waiting' = Tail(events)
      BY <2>3, <3>1 DEF Waiting
    <3>3. Head(events) \in AcceptEvent
      BY <1>3, <2>3 DEF Queueable
    <3> DEFINE t == Tail(events)
    <3>4. t = Tail(events)
      OBVIOUS
    <3> HIDE DEF t
    <3>5. InTurn(t, status, sent)
      BY <1>3, <2>3, <3>3, <3>4, InTurnTail
    <3> QED
      BY <3>2, <3>4, <3>5
  <2> QED
    BY <2>1, <2>2, <2>3
<1>5. InTurn(Waiting', status', sent')
  BY <1>2, <1>4
<1> QED
  BY <1>2, <1>5 DEF Wired

\* The entries of the table that do not end in bgp_stop: where they lead, and that
\* those which leave a connection for Idle are of events out of turn.
WiredTable(s, e) ==
    LET func == FSM[s][e].func
        next == FSM[s][e].next
    IN  /\ func \in {"bgp_stop", "bgp_stop_with_error", "bgp_connect_fail",
                     "bgp_fsm_holdtime_expire", "bgp_clearing_completed"} =>
              next \in {"Idle", "Active", "Clearing"}
        /\ func = "bgp_start" => s \in {"Idle", "Active"} /\ next = "Connect"
        /\ func = "bgp_reconnect" => s = "Connect" /\ next = "Connect"
        /\ func = "bgp_connect_success" => s \in {"Connect", "Active"} /\ next = "OpenSent"
        /\ func = "bgp_fsm_open" =>
              s = "OpenSent" /\ next = "OpenConfirm" /\ e = "Receive_OPEN_message"
        /\ func = "bgp_establish" => s = "OpenConfirm" /\ next = "Established"
        /\ func \in {"bgp_fsm_keepalive", "bgp_fsm_update", "bgp_fsm_keepalive_expire"} =>
              s = "Established" /\ next = "Established"
        /\ func = "bgp_ignore" =>
              \/ next = s /\ s # "OpenSent"
              \/ next = "Idle" /\ s = "Active"
              \/ e = "Clearing_Completed" /\ s # "Clearing"
              \/ e = "Receive_UPDATE_message" /\ s # "Established"
              \/ e = "Receive_OPEN_message" /\ s # "OpenSent"
              \/ /\ e = "Receive_KEEPALIVE_message"
                 /\ s \notin {"OpenConfirm", "Established"}
              \/ e = "BGP_Start" /\ s # "Idle"
              \/ e = "ConnectRetry_timer_expired" /\ s \notin {"Connect", "Active"}
              \/ /\ e = "Hold_Timer_expired"
                 /\ s \notin {"OpenSent", "OpenConfirm", "Established"}
              \/ e = "KeepAlive_timer_expired" /\ s \notin {"OpenConfirm", "Established"}

\* Every entry of the table FSM is as WiredTable says.
LEMMA WiredTableFacts ==
    ASSUME NEW s \in Status, NEW e \in Event
    PROVE  WiredTable(s, e)
<1> USE DEF WiredTable, FSM, Do, Tcp, Event, Status
<1>1. CASE s = "Idle"
  BY <1>1
<1>2. CASE s = "Connect"
  BY <1>2
<1>3. CASE s = "Active"
  BY <1>3
<1>4. CASE s = "OpenSent"
  BY <1>4
<1>5. CASE s = "OpenConfirm"
  BY <1>5
<1>6. CASE s = "Established"
  BY <1>6
<1>7. CASE s = "Clearing"
  BY <1>7
<1> QED
  BY <1>1, <1>2, <1>3, <1>4, <1>5, <1>6, <1>7

\* An event e that the status expects; the other events that wait.
Expected(e) ==
    /\ e = "Clearing_Completed" => status = "Clearing"
    /\ e = "Receive_UPDATE_message" => status = "Established"
    /\ e = "Receive_OPEN_message" =>
          status = "OpenSent" /\ sent >= 1 /\ "Receive_OPEN_message" \notin ToSet(events)
    /\ e = "Receive_KEEPALIVE_message" => status \in {"OpenConfirm", "Established"}
    /\ e = "BGP_Start" => status = "Idle"
    /\ e = "ConnectRetry_timer_expired" => status \in {"Connect", "Active"}
    /\ e = "Hold_Timer_expired" => status \in {"OpenSent", "OpenConfirm", "Established"}
    /\ e = "KeepAlive_timer_expired" => status \in {"OpenConfirm", "Established"}

Others ==
    /\ ToSet(events) \cap Expiry = {}
    /\ "Receive_UPDATE_message" \in ToSet(events) => status = "Established"
    /\ "Receive_KEEPALIVE_message" \in ToSet(events) =>
          status \in {"OpenSent", "OpenConfirm", "Established"} /\ sent >= 1
    /\ "Receive_OPEN_message" \in ToSet(events) => status = "OpenSent"

\* Every event and every timer that runs is expected.
LEMMA TurnExpected ==
    ASSUME TypeOK, SoleEvent, Wired, Cleaned, Plain, RunEvent \/ RunTimer
    PROVE  /\ Others
           /\ \E e \in Event, set \in SUBSET Timer :
                 bgp_event(e, set) /\ Expected(e) /\ set \subseteq timers
<1>1. events \in Seq(Queueable) /\ timers \in SUBSET Timer
  BY DEF TypeOK, Queueable
<1>2. InTurn(Waiting, status, sent)
  BY DEF Wired
<1>3. ASSUME ToSet(events) \subseteq ToSet(Waiting) PROVE Others
  BY <1>2, <1>3 DEF InTurn, Others
<1>4. CASE RunEvent
  <2>1. PICK e \in Event : Running(e) /\ bgp_event(e, timers)
    BY <1>4 DEF RunEvent
  <2>2. ready # <<>> /\ Head(ready) = e /\ Waiting = <<e>> \o events /\ e \in Queueable
    BY <2>1 DEF Running, Waiting, Queueable
  <2> DEFINE q == Waiting
  <2>3. q = <<e>> \o events /\ InTurn(q, status, sent)
    BY <1>2, <2>2
  <2> HIDE DEF q
  <2>4. /\ ToSet(events) \subseteq ToSet(q) /\ e \in ToSet(q)
        /\ e = "Receive_OPEN_message" => "Receive_OPEN_message" \notin ToSet(events)
        /\ status = "OpenSent" => e # "Receive_KEEPALIVE_message"
    BY <1>1, <2>2, <2>3, InTurnHead
  <2>5. e \in ToSet(ready)
    BY <2>2, ElementsOf DEF TypeOK
  <2>6. e = "Clearing_Completed" => status = "Clearing"
    BY <2>5 DEF Cleaned, Pending, Plain
  <2>7. Expected(e)
    BY <2>3, <2>4, <2>6 DEF Expected, InTurn, Expiry
  <2>8. Others
    BY <1>3, <2>4 DEF q
  <2> QED
    BY <1>1, <2>1, <2>7, <2>8
<1>5. CASE RunTimer
  <2>1. PICK t \in DOMAIN TimerEvent : Running(t) /\ bgp_event(TimerEvent[t], timers \ {t})
    BY <1>5 DEF RunTimer
  <2>2. ready # <<>> /\ Head(ready) = t /\ t \in Timer \ GrTimer /\ t \notin Event
    BY <2>1, TimerFacts, JobFacts DEF Running
  <2>3. t \in ToSet(ready)
    BY <2>2, ElementsOf DEF TypeOK
  <2>4. t \in Allowed(status) /\ status \in Status
    BY <2>2, <2>3 DEF Wired, TypeOK
  <2>5. Waiting = events
    BY <2>2 DEF Waiting
  <2>6. Expected(TimerEvent[t])
    <3>1. t \in {"t_start", "t_connect", "t_holdtime", "t_keepalive"}
      BY DEF TimerEvent
    <3>2. CASE t = "t_start"
      <4>1. TimerEvent[t] = "BGP_Start" /\ status = "Idle"
        BY <2>4, <3>2 DEF TimerEvent, Allowed, GrTimer, Status
      <4> QED
        BY <4>1 DEF Expected
    <3>3. CASE t = "t_connect"
      <4>1. TimerEvent[t] = "ConnectRetry_timer_expired" /\ status \in {"Connect", "Active"}
        BY <2>4, <3>3 DEF TimerEvent, Allowed, GrTimer, Status
      <4> QED
        BY <4>1 DEF Expected
    <3>4. CASE t = "t_holdtime"
      <4>1. /\ TimerEvent[t] = "Hold_Timer_expired"
            /\ status \in {"OpenSent", "OpenConfirm", "Established"}
        BY <2>4, <3>4 DEF TimerEvent, Allowed, GrTimer, Status
      <4> QED
        BY <4>1 DEF Expected
    <3>5. CASE t = "t_keepalive"
      <4>1. /\ TimerEvent[t] = "KeepAlive_timer_expired"
            /\ status \in {"OpenConfirm", "Established"}
        BY <2>4, <3>5 DEF TimerEvent, Allowed, GrTimer, Status
      <4> QED
        BY <4>1 DEF Expected
    <3> QED
      BY <3>1, <3>2, <3>3, <3>4, <3>5
  <2>7. TimerEvent[t] \in Event /\ timers \ {t} \in SUBSET Timer /\ timers \ {t} \subseteq timers
    BY <1>1, TimerFacts
  <2>8. Others
    BY <1>3, <2>5
  <2> QED
    BY <2>1, <2>6, <2>7, <2>8
<1> QED
  BY <1>4, <1>5

\* What follows a function that returned 0: the timers of the new status, on the
\* ready list too.
LEMMA ProceedTimers ==
    ASSUME TypeOK, ready # <<>>, NEW next \in Status, NEW evs, NEW set, NEW off,
           Proceed(next, evs, set, off)
    PROVE  timers' \cup (ToSet(ready') \cap Timer) \subseteq Allowed(next)
<1> DEFINE T == off \cup (Timer \ set) \cup (set \ timers')
           t == Tail(ready)
<1>1. timers' \subseteq Allowed(next)
  BY TimerSetAllowed DEF Proceed
<1>2. t \in Seq(Job)
  BY TailSet DEF TypeOK
<1>3. ready' = Without(t, T)
  BY DEF Proceed
<1>4. Timer \ T \subseteq timers'
  OBVIOUS
<1> HIDE DEF T, t
<1>5. ToSet(ready') = ToSet(t) \ T
  BY <1>2, <1>3, WithoutSet
<1> QED
  BY <1>1, <1>4, <1>5

\* A function of the table that leaves no OPEN waiting, and other messages only for
\* a status that expects them.
LEMMA WiredProceed ==
    ASSUME TypeOK, SoleEvent, ready # <<>>, NEW next \in Status, NEW evs \in Seq(Queueable),
           NEW set \in SUBSET Timer, NEW off \in SUBSET (Job \ Event),
           Proceed(next, evs, set, off),
           next \in {"Idle", "Active", "Clearing"} => fd' = "none" /\ ~reading',
           next \notin {"OpenSent", "OpenConfirm", "Established"} => sent' = 0,
           next \in {"OpenConfirm", "Established"} => sent' >= 1,
           next = "OpenSent" => sent' = 0,
           ToSet(evs) \cap Expiry = {}, "Receive_OPEN_message" \notin ToSet(evs),
           "Receive_UPDATE_message" \in ToSet(evs) => next = "Established",
           "Receive_KEEPALIVE_message" \in ToSet(evs) => next \in {"OpenConfirm", "Established"}
    PROVE  Wired'
<1>1. /\ status' = next /\ Ran /\ events' \in Seq(Queueable)
      /\ ToSet(events') \subseteq ToSet(evs) \cup {"Clearing_Completed"}
  <2>1. /\ status' = next /\ Ran /\ events' \in Seq(Queueable)
        /\ ~(next = "Clearing" /\ status # "Clearing") => events' = evs
        /\ next = "Clearing" /\ status # "Clearing" =>
              ToSet(events') = ToSet(evs) \cup ToSet(Completions)
    BY ProceedFacts DEF Ran
  <2>2. ToSet(Completions) \subseteq {"Clearing_Completed"}
    BY ClearFacts
  <2> QED
    BY <2>1, <2>2
<1>2. timers' \cup (ToSet(ready') \cap Timer) \subseteq Allowed(next)
  BY ProceedTimers
<1>3. Waiting' = events'
  BY <1>1, WaitingFacts
<1> DEFINE q == events'
           new == sent'
<1>4. /\ q \in Seq(Queueable) /\ ToSet(q) \cap Expiry = {} /\ "Receive_OPEN_message" \notin ToSet(q)
      /\ "Receive_UPDATE_message" \in ToSet(q) => next = "Established"
      /\ "Receive_KEEPALIVE_message" \in ToSet(q) =>
            next \in {"OpenConfirm", "Established"} /\ new >= 1
      /\ ~(next = "OpenSent" /\ new >= 1)
  BY <1>1 DEF Expiry
<1> HIDE DEF q, new
<1>5. InTurn(q, next, new)
  BY <1>4, InTurnPlain
<1>6. InTurn(Waiting', status', sent')
  BY <1>1, <1>3, <1>5 DEF q, new
<1> QED
  BY <1>1, <1>2, <1>6 DEF Wired

\* A function that refuses leaves an unconnected session as it was.
LEMMA WiredRefused ==
    ASSUME TypeOK, SoleEvent, Wired, Others, ready # <<>>, ready' = Tail(ready),
           status \in {"Idle", "Connect", "Active"}, timers' \subseteq timers,
           UNCHANGED <<status, fd, reading, sent, events>>
    PROVE  Wired'
<1>1. Ran
  BY RanTail
<1>2. Waiting' = events /\ ToSet(ready') \cap Timer \subseteq ToSet(ready) \cap Timer
  BY <1>1, WaitingFacts
<1>3. InTurn(events, status, sent)
  <2>1. events \in Seq(Queueable) /\ "Receive_OPEN_message" \notin ToSet(events)
        /\ "Receive_KEEPALIVE_message" \notin ToSet(events) /\ status # "OpenSent"
    BY DEF TypeOK, Queueable, Others
  <2> QED
    BY <2>1, InTurnPlain DEF Others
<1>4. InTurn(Waiting', status', sent')
  BY <1>2, <1>3
<1> QED
  BY <1>2, <1>4 DEF Wired

\* bgp_stop leaves no message waiting and no connection open.
LEMMA StopLeaves ==
    ASSUME TypeOK, Others
    PROVE  /\ StopEvents \in Seq(Queueable) /\ ToSet(StopEvents) \cap Expiry = {}
           /\ ToSet(StopEvents) \cap {"Receive_OPEN_message", "Receive_KEEPALIVE_message",
                                      "Receive_UPDATE_message"} = {}
<1>1. events \in Seq(Queueable)
  BY DEF TypeOK, Queueable
<1>2. CASE status = "Clearing"
  BY <1>1, <1>2 DEF StopEvents, Others
<1>3. CASE status # "Clearing"
  <2>1. StopEvents \in Seq(Queueable) /\ ToSet(StopEvents) = ToSet(events) \ Event
    BY <1>1, <1>3, WithoutSet DEF StopEvents, BGP_EVENT_FLUSH
  <2> QED
    BY <2>1 DEF Expiry, Event
<1> QED
  BY <1>2, <1>3

\* bgp_stop and bgp_clearing_completed.
LEMMA WiredStop ==
    ASSUME TypeOK, SoleEvent, Others, ready # <<>>, NEW set \in SUBSET Timer,
           NEW next \in {"Idle", "Active", "Clearing"},
           bgp_stop(next, set) \/ bgp_clearing_completed(next, set)
    PROVE  Wired'
<1>1. fd' = "none" /\ ~reading' /\ sent' = 0
  BY DEF bgp_stop, bgp_clearing_completed, Disconnect
<1>2. \E evs \in Seq(Queueable) :
          /\ Proceed(next, evs, StopTimers(set), StopOff)
          /\ ToSet(evs) \cap Expiry = {}
          /\ ToSet(evs) \cap {"Receive_OPEN_message", "Receive_KEEPALIVE_message",
                              "Receive_UPDATE_message"} = {}
  <2>1. CASE bgp_stop(next, set)
    BY <2>1, StopLeaves DEF bgp_stop
  <2>2. CASE bgp_clearing_completed(next, set)
    <3> DEFINE evs == BGP_EVENT_FLUSH(events)
    <3>1. evs \in Seq(Queueable) /\ ToSet(evs) = ToSet(events) \ Event
      BY WithoutSet DEF BGP_EVENT_FLUSH, TypeOK, Queueable
    <3>2. Proceed(next, evs, StopTimers(set), StopOff)
      BY <2>2 DEF bgp_clearing_completed
    <3> HIDE DEF evs
    <3>3. ToSet(evs) \cap Event = {}
      BY <3>1
    <3>4. ToSet(evs) \cap Expiry = {}
          /\ ToSet(evs) \cap {"Receive_OPEN_message", "Receive_KEEPALIVE_message",
                              "Receive_UPDATE_message"} = {}
      BY <3>3 DEF Expiry, Event
    <3> QED
      BY <3>1, <3>2, <3>4
  <2> QED
    BY <2>1, <2>2
<1>3. PICK evs \in Seq(Queueable) :
          /\ Proceed(next, evs, StopTimers(set), StopOff)
          /\ ToSet(evs) \cap Expiry = {}
          /\ ToSet(evs) \cap {"Receive_OPEN_message", "Receive_KEEPALIVE_message",
                              "Receive_UPDATE_message"} = {}
  BY <1>2
<1>4. StopTimers(set) \in SUBSET Timer /\ StopOff \in SUBSET (Job \ Event) /\ next \in Status
  BY StopParts DEF Status
<1>5. /\ "Receive_OPEN_message" \notin ToSet(evs) /\ "Receive_KEEPALIVE_message" \notin ToSet(evs)
      /\ "Receive_UPDATE_message" \notin ToSet(evs) /\ ToSet(evs) \cap Expiry = {}
  BY <1>3
<1> DEFINE left == StopTimers(set)
           off == StopOff
<1>6. Proceed(next, evs, left, off) /\ left \in SUBSET Timer /\ off \in SUBSET (Job \ Event)
  BY <1>3, <1>4
<1> HIDE DEF left, off
<1>7. next # "OpenSent" /\ next # "OpenConfirm" /\ next # "Established"
  OBVIOUS
<1> QED
  BY <1>1, <1>4, <1>5, <1>6, <1>7, WiredProceed

\* A function that leaves the connection and the events alone, for a status that
\* expects what waits.
LEMMA WiredKept ==
    ASSUME TypeOK, SoleEvent, Wired, Others, ready # <<>>, NEW set \in SUBSET Timer,
           NEW next \in Status, Proceed(next, events, set, {}), UNCHANGED <<fd, reading, sent>>,
           \/ next = status /\ status # "OpenSent"
           \/ next = "Idle" /\ status = "Active"
           \/ /\ next = "OpenConfirm" /\ status = "OpenSent" /\ sent >= 1
              /\ "Receive_OPEN_message" \notin ToSet(events)
           \/ next = "Established" /\ status = "OpenConfirm"
    PROVE  Wired'
<1>1. events \in Seq(Queueable) /\ {} \in SUBSET (Job \ Event)
  BY DEF TypeOK, Queueable
<1>2. /\ "Receive_OPEN_message" \notin ToSet(events) /\ ToSet(events) \cap Expiry = {}
      /\ "Receive_UPDATE_message" \in ToSet(events) => next = "Established"
      /\ "Receive_KEEPALIVE_message" \in ToSet(events) => next \in {"OpenConfirm", "Established"}
  BY DEF Others
<1>3. /\ next \in {"Idle", "Active", "Clearing"} => fd' = "none" /\ ~reading'
      /\ next \notin {"OpenSent", "OpenConfirm", "Established"} => sent' = 0
      /\ next \in {"OpenConfirm", "Established"} => sent' >= 1
      /\ next # "OpenSent"
  BY DEF Wired
<1> QED
  BY <1>1, <1>2, <1>3, WiredProceed

\* bgp_start and bgp_reconnect post how the connect went.
LEMMA StartEventsLeave ==
    ASSUME NEW evs \in Seq(Queueable), NEW outcome, NEW p, p = StartEvents(outcome, evs),
           ToSet(evs) \cap Expiry = {},
           ToSet(evs) \cap {"Receive_OPEN_message", "Receive_KEEPALIVE_message",
                            "Receive_UPDATE_message"} = {}
    PROVE  /\ p \in Seq(Queueable) /\ ToSet(p) \cap Expiry = {}
           /\ "Receive_OPEN_message" \notin ToSet(p) /\ "Receive_KEEPALIVE_message" \notin ToSet(p)
           /\ "Receive_UPDATE_message" \notin ToSet(p)
<1>1. p = evs \/ \E e \in {"TCP_connection_open_failed", "TCP_connection_open"} : p = Append(evs, e)
  BY DEF StartEvents
<1>2. {"TCP_connection_open_failed", "TCP_connection_open"} \subseteq Queueable
  BY DEF Queueable, Event
<1>3. /\ p \in Seq(Queueable)
      /\ ToSet(p) \subseteq ToSet(evs) \cup {"TCP_connection_open_failed", "TCP_connection_open"}
  <2>1. ASSUME NEW e \in {"TCP_connection_open_failed", "TCP_connection_open"},
               p = Append(evs, e)
        PROVE  p \in Seq(Queueable) /\ ToSet(p) = ToSet(evs) \cup {e}
    BY <1>2, <2>1, AppendSet
  <2>2. CASE p = evs
    BY <2>2
  <2>3. CASE p # evs
    BY <1>1, <2>1, <2>3
  <2> QED
    BY <2>2, <2>3
<1> QED
  BY <1>3 DEF Expiry

\* They lead to Connect.
LEMMA WiredStart ==
    ASSUME TypeOK, SoleEvent, Wired, Others, ready # <<>>, NEW set \in SUBSET Timer,
           set \subseteq timers,
           \/ status \in {"Idle", "Active"} /\ bgp_start("Connect", set)
           \/ bgp_reconnect("Connect", set)
    PROVE  Wired'
<1> DEFINE next == "Connect"
<1>1. next \in Status /\ next \notin {"Idle", "Active", "Clearing", "OpenSent", "OpenConfirm",
                                     "Established"}
  BY DEF Status
<1>2. CASE status \in {"Idle", "Active"} /\ bgp_start(next, set) /\ shutdown
  <2>1. /\ ready' = Tail(ready) /\ timers' \subseteq timers
        /\ UNCHANGED <<status, fd, reading, sent, events>>
    BY <1>2 DEF bgp_start, conn
  <2> QED
    BY <1>2, <2>1, WiredRefused
<1>3. CASE status \in {"Idle", "Active"} /\ bgp_start(next, set) /\ ~shutdown
  <2>1. PICK outcome \in Outcome : /\ bgp_connect(outcome, fd, reading)
                                   /\ Proceed(next, StartEvents(outcome, events), set, {})
    BY <1>3 DEF bgp_start
  <2>2. sent' = 0
    BY <2>1 DEF bgp_connect
  <2> DEFINE p == StartEvents(outcome, events)
             off == {}
  <2>3. p = StartEvents(outcome, events) /\ Proceed(next, p, set, off)
        /\ off \in SUBSET (Job \ Event)
    BY <2>1
  <2> HIDE DEF p, off, next
  <2>4. /\ events \in Seq(Queueable) /\ ToSet(events) \cap Expiry = {}
        /\ ToSet(events) \cap {"Receive_OPEN_message", "Receive_KEEPALIVE_message",
                               "Receive_UPDATE_message"} = {}
    BY <1>3 DEF TypeOK, Queueable, Others
  <2>5. /\ p \in Seq(Queueable) /\ ToSet(p) \cap Expiry = {}
        /\ "Receive_OPEN_message" \notin ToSet(p) /\ "Receive_KEEPALIVE_message" \notin ToSet(p)
        /\ "Receive_UPDATE_message" \notin ToSet(p)
    BY <2>3, <2>4, StartEventsLeave
  <2> QED
    BY <1>1, <2>2, <2>3, <2>5, WiredProceed
<1>4. CASE bgp_reconnect(next, set)
  <2>1. PICK outcome : /\ bgp_connect(outcome, "none", FALSE)
                       /\ Proceed(next, StartEvents(outcome, StopEvents), StopTimers(set), StopOff)
    BY <1>4 DEF bgp_reconnect
  <2>2. sent' = 0
    BY <2>1 DEF bgp_connect
  <2> DEFINE evs == StopEvents
             p == StartEvents(outcome, evs)
             left == StopTimers(set)
             off == StopOff
  <2>3. /\ evs \in Seq(Queueable) /\ ToSet(evs) \cap Expiry = {}
        /\ ToSet(evs) \cap {"Receive_OPEN_message", "Receive_KEEPALIVE_message",
                            "Receive_UPDATE_message"} = {}
    BY StopLeaves
  <2>4. p = StartEvents(outcome, evs) /\ Proceed(next, p, left, off)
        /\ left \in SUBSET Timer /\ off \in SUBSET (Job \ Event)
    BY <2>1, StopParts
  <2> HIDE DEF evs, p, left, off, next
  <2>5. /\ p \in Seq(Queueable) /\ ToSet(p) \cap Expiry = {}
        /\ "Receive_OPEN_message" \notin ToSet(p) /\ "Receive_KEEPALIVE_message" \notin ToSet(p)
        /\ "Receive_UPDATE_message" \notin ToSet(p)
    BY <2>3, <2>4, StartEventsLeave
  <2> QED
    BY <1>1, <2>2, <2>4, <2>5, WiredProceed
<1> QED
  BY <1>2, <1>3, <1>4

\* bgp_connect_success: nothing was read on the new connection.
LEMMA WiredSuccess ==
    ASSUME TypeOK, SoleEvent, Wired, Others, ready # <<>>, NEW set \in SUBSET Timer,
           set \subseteq timers, status \in {"Connect", "Active"},
           bgp_connect_success("OpenSent", set)
    PROVE  Wired'
<1>1. CASE fd = "none"
  <2>1. /\ ready' = Tail(ready) /\ timers' \subseteq timers
        /\ UNCHANGED <<status, fd, reading, sent, events>>
    BY <1>1 DEF bgp_connect_success
  <2> QED
    BY <2>1, WiredRefused
<1>2. CASE fd # "none"
  <2> DEFINE next == "OpenSent"
             off == {}
  <2>1. Proceed(next, events, set, off) /\ off \in SUBSET (Job \ Event) /\ next = "OpenSent"
        /\ next \in Status
    BY <1>2 DEF bgp_connect_success, Status
  <2>2. sent' = 0 /\ next \notin {"Idle", "Active", "Clearing", "OpenConfirm", "Established"}
    BY DEF Wired, bgp_connect_success
  <2>3. events \in Seq(Queueable)
        /\ "Receive_OPEN_message" \notin ToSet(events) /\ ToSet(events) \cap Expiry = {}
        /\ "Receive_UPDATE_message" \notin ToSet(events)
        /\ "Receive_KEEPALIVE_message" \notin ToSet(events)
    BY DEF Others, TypeOK, Queueable
  <2> HIDE DEF next, off
  <2> QED
    BY <2>1, <2>2, <2>3, WiredProceed
<1> QED
  BY <1>1, <1>2

\* Every event and every timer keeps the session wired.
LEMMA WiredTurn ==
    ASSUME TypeOK, SoleEvent, Wired, Cleaned, Plain, RunEvent \/ RunTimer
    PROVE  Wired'
<1>1. Others /\ ready # <<>>
  BY TurnExpected DEF RunEvent, RunTimer, Running
<1>2. PICK e \in Event, set \in SUBSET Timer :
          bgp_event(e, set) /\ Expected(e) /\ set \subseteq timers
  BY TurnExpected
<1> DEFINE func == FSM[status][e].func
           next == FSM[status][e].next
<1>3. WiredTable(status, e) /\ next \in Status
  BY WiredTableFacts, TableFacts DEF TypeOK, TableOK
<1>4. /\ func \in {"bgp_stop", "bgp_stop_with_error", "bgp_connect_fail",
                   "bgp_fsm_holdtime_expire", "bgp_clearing_completed"} =>
            next \in {"Idle", "Active", "Clearing"}
      /\ func = "bgp_start" => status \in {"Idle", "Active"} /\ next = "Connect"
      /\ func = "bgp_reconnect" => status = "Connect" /\ next = "Connect"
      /\ func = "bgp_connect_success" => status \in {"Connect", "Active"} /\ next = "OpenSent"
      /\ func = "bgp_fsm_open" =>
            status = "OpenSent" /\ next = "OpenConfirm" /\ e = "Receive_OPEN_message"
      /\ func = "bgp_establish" => status = "OpenConfirm" /\ next = "Established"
      /\ func \in {"bgp_fsm_keepalive", "bgp_fsm_update", "bgp_fsm_keepalive_expire"} =>
            status = "Established" /\ next = "Established"
      /\ func = "bgp_ignore" =>
            (next = status /\ status # "OpenSent") \/ (next = "Idle" /\ status = "Active")
  BY <1>2, <1>3 DEF WiredTable, Expected
<1>5. Call(func, next, set)
  BY <1>2 DEF bgp_event
<1> HIDE DEF func, next
<1>6. CASE \/ func = "bgp_stop" /\ bgp_stop(next, set)
           \/ func = "bgp_stop_with_error" /\ bgp_stop_with_error(next, set)
           \/ func = "bgp_connect_fail" /\ bgp_connect_fail(next, set)
           \/ func = "bgp_fsm_holdtime_expire" /\ bgp_fsm_holdtime_expire(next, set)
           \/ func = "bgp_clearing_completed" /\ bgp_clearing_completed(next, set)
  <2>1. bgp_stop(next, set) \/ bgp_clearing_completed(next, set)
    BY <1>6 DEF bgp_stop_with_error, bgp_connect_fail, bgp_fsm_holdtime_expire
  <2>2. next \in {"Idle", "Active", "Clearing"}
    BY <1>4, <1>6
  <2> QED
    BY <1>1, <2>1, <2>2, WiredStop
<1>7. CASE \/ func = "bgp_start" /\ bgp_start(next, set)
           \/ func = "bgp_reconnect" /\ bgp_reconnect(next, set)
  BY <1>1, <1>2, <1>4, <1>7, WiredStart
<1>8. CASE func = "bgp_connect_success" /\ bgp_connect_success(next, set)
  BY <1>1, <1>2, <1>4, <1>8, WiredSuccess
<1>9. CASE \/ func = "bgp_ignore" /\ bgp_ignore(next, set)
           \/ func = "bgp_fsm_keepalive_expire" /\ bgp_fsm_keepalive_expire(next, set)
  <2>1. Proceed(next, events, set, {}) /\ UNCHANGED <<fd, reading, sent>>
    BY <1>9 DEF bgp_ignore, bgp_fsm_keepalive_expire, conn
  <2>2. (next = status /\ status # "OpenSent") \/ (next = "Idle" /\ status = "Active")
    BY <1>4, <1>9
  <2> QED
    BY <1>1, <1>3, <2>1, <2>2, WiredKept
<1>10. CASE \/ func = "bgp_fsm_open" /\ bgp_fsm_open(next, set)
            \/ func = "bgp_fsm_keepalive" /\ bgp_fsm_keepalive(next, set)
            \/ func = "bgp_fsm_update" /\ bgp_fsm_update(next, set)
  <2> DEFINE left == set \ {"t_holdtime"}
  <2>1. Proceed(next, events, left, {}) /\ UNCHANGED <<fd, reading, sent>>
        /\ left \in SUBSET Timer
    BY <1>10 DEF bgp_fsm_open, bgp_fsm_keepalive, bgp_fsm_update, HoldAgain, conn
  <2>2. \/ next = status /\ status # "OpenSent"
        \/ /\ next = "OpenConfirm" /\ status = "OpenSent" /\ sent >= 1
           /\ "Receive_OPEN_message" \notin ToSet(events)
    BY <1>2, <1>4, <1>10 DEF Expected
  <2> HIDE DEF left
  <2> QED
    BY <1>1, <1>3, <2>1, <2>2, WiredKept
<1>11. CASE func = "bgp_establish" /\ bgp_establish(next, set)
  <2>1. \E left \in SUBSET Timer : Proceed(next, events, left, {})
    <3>1. PICK restart \in {FALSE, config.graceful} :
              Proceed(next, events,
                      set \ ({"t_gr_restart"} \cup (IF restart THEN {} ELSE {"t_gr_stale"})), {})
      BY <1>11 DEF bgp_establish
    <3> DEFINE left == set \ ({"t_gr_restart"} \cup (IF restart THEN {} ELSE {"t_gr_stale"}))
    <3>2. left \in SUBSET Timer /\ Proceed(next, events, left, {})
      BY <3>1
    <3> QED
      BY <3>2
  <2>2. UNCHANGED <<fd, reading, sent>> /\ next = "Established" /\ status = "OpenConfirm"
    BY <1>4, <1>11 DEF bgp_establish, conn
  <2> QED
    BY <1>1, <1>3, <2>1, <2>2, WiredKept
<1> QED
  BY <1>5, <1>6, <1>7, <1>8, <1>9, <1>10, <1>11 DEF Call

\* Every step keeps the session wired, and its configuration.
LEMMA WiredStep ==
    ASSUME TypeOK, SoleEvent, Cleaned, Plain => Wired, [Next]_vars
    PROVE  (Plain => Wired)'
<1>1. config' = config
  <2>1. CASE Next
    <3>1. \/ Turn \/ Aside \/ RestartExpired \/ Transferred \/ ClearRun \/ Modified \/ Fetched
      BY <2>1, StepKinds
    <3>2. CASE Turn
      <4>1. PICK e \in Event, set \in SUBSET Timer : ready # <<>> /\ bgp_event(e, set)
        BY <3>2 DEF Turn
      <4> DEFINE func == FSM[status][e].func
                 next == FSM[status][e].next
      <4>2. next \in Status
        BY TableFacts DEF TypeOK, TableOK
      <4>3. Call(func, next, set)
        BY <4>1 DEF bgp_event
      <4> HIDE DEF func, next
      <4>4. Refused(func, set) \/ Moved(func, next)
        BY <4>1, <4>3, CallFacts
      <4> QED
        BY <4>1, <4>2, <4>4, ProceedFacts DEF Refused, Moved, admin
    <3>3. CASE Aside \/ RestartExpired \/ Transferred \/ ClearRun \/ Modified \/ Fetched
      BY <3>3 DEF Aside, RestartExpired, Transferred, ClearRun, Modified, Fetched
    <3> QED
      BY <3>1, <3>2, <3>3
  <2>2. CASE UNCHANGED vars
    BY <2>2 DEF vars, admin
  <2> QED
    BY <2>1, <2>2
<1> SUFFICES ASSUME Plain, Wired PROVE Wired'
  BY <1>1 DEF Plain
<1>2. ~nsfWait
  BY DEF Plain, Cleaned
<1>3. CASE Next
  BY <1>2, <1>3, WiredFetch, WiredTurn, WiredAside, WiredOther, WiredRead, WiredDeleted,
     WiredTransfer DEF Next
<1>4. CASE UNCHANGED vars
  BY <1>4 DEF vars, conn, Wired, Waiting
<1> QED
  BY <1>3, <1>4

-----------------------------------------------------------------------------
(***************************************************************************)
(* The theorems.                                                           *)
(***************************************************************************)
\* Types: every handler of bgp_fsm.c, whatever the table, the timers and the sockets
\* call next, leaves a well-formed session, for any families and configurations.
THEOREM SessionTypeCorrect == Spec => []TypeOK
<1>1. Init => TypeOK
  BY TypeInit
<1>2. TypeOK /\ [Next]_vars => TypeOK'
  BY TypeStep
<1> QED
  BY <1>1, <1>2, PTL DEF Spec

\* The session is never forgotten: with no job under way a timer is set or the clear
\* queue waits (bgp_timer_set, Clearing_Completed), for any number of families.
THEOREM NeverStuckCorrect == Spec => []NeverStuck
<1>1. Init => Alive /\ Ending
  BY DEF Init, Alive, Armed, Ending
<1>2. TypeOK /\ Alive /\ Ending /\ [Next]_vars => (Alive /\ Ending)'
  BY AliveStep, EndingStep
<1>3. TypeOK /\ Alive /\ Ending => NeverStuck
  <2> SUFFICES ASSUME TypeOK, Alive, Ending, Quiet PROVE NeverStuck
    BY DEF NeverStuck
  <2>1. \A e : ~Pending(e)
    BY NoElements DEF Quiet, Pending
  <2>2. Armed /\ (status = "Clearing" => clearq # <<>>)
    BY <2>1 DEF Alive, Ending
  <2> QED
    BY <2>2 DEF Armed, NeverStuck, TypeOK, Status
<1> QED
  BY <1>1, <1>2, <1>3, SessionTypeCorrect, PTL DEF Spec

\* With one address family and no graceful restart the session leaves Clearing only
\* when its routes are gone and the clear queue is empty (bgp_clear_route).
THEOREM FreshStartCorrect == Len(Families) = 1 => (Spec => []FreshStart)
<1> SUFFICES ASSUME Len(Families) = 1 PROVE Spec => []FreshStart
  OBVIOUS
<1>1. Init => SoleEvent /\ Cleaned
  BY NoElements DEF Init, SoleEvent, Cleaned, Clean, Pending
<1>2. TypeOK /\ SoleEvent /\ Cleaned /\ [Next]_vars => (SoleEvent /\ Cleaned)'
  BY TypeStep, SoleStep, CleanedStep
<1>3. Cleaned => FreshStart
  BY DEF Cleaned, Clean, FreshStart
<1> QED
  BY <1>1, <1>2, <1>3, SessionTypeCorrect, PTL DEF Spec

\* With one address family, a peer that may connect has no connection left, if its
\* neighbour keeps to the protocol and no graceful restart is negotiated.
THEOREM DisconnectedCorrect == Len(Families) = 1 => (Spec => []Disconnected)
<1> SUFFICES ASSUME Len(Families) = 1 PROVE Spec => []Disconnected
  OBVIOUS
<1>1. Init => SoleEvent /\ Cleaned /\ (Plain => Wired)
  <2> SUFFICES ASSUME Init PROVE SoleEvent /\ Cleaned /\ Wired
    OBVIOUS
  <2>1. SoleEvent /\ Cleaned
    BY NoElements DEF Init, SoleEvent, Cleaned, Clean, Pending
  <2>2. events = <<>> /\ events \in Seq(Queueable) /\ Waiting = events
    BY DEF Init, Waiting
  <2>3. status = "Idle" /\ status # "OpenSent"
    BY DEF Init
  <2>4. InTurn(Waiting, status, sent)
    BY <2>2, <2>3, NoElements, InTurnPlain
  <2>5. timers \cup (ToSet(ready) \cap Timer) \subseteq Allowed(status)
    BY NoElements DEF Init, Allowed
  <2> QED
    BY <2>1, <2>3, <2>4, <2>5 DEF Init, Wired
<1>2. TypeOK /\ SoleEvent /\ Cleaned /\ (Plain => Wired) /\ [Next]_vars
        => (SoleEvent /\ Cleaned /\ (Plain => Wired))'
  BY TypeStep, SoleStep, CleanedStep, WiredStep
<1>3. (Plain => Wired) => Disconnected
  BY DEF Plain, Wired, Disconnected
<1> QED
  BY <1>1, <1>2, <1>3, SessionTypeCorrect, PTL DEF Spec
=============================================================================
