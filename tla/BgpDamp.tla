------------------------------ MODULE BgpDamp ------------------------------
(***************************************************************************)
(* Route flap damping (bgpd/bgp_damp.c) and the paths of bgpd/bgp_route.c  *)
(* and bgpd/bgp_nexthop.c that call it, for the routes of one external     *)
(* neighbour.  Each route has a prefix of its own.                         *)
(*                                                                         *)
(* A flapping route gets a bgp_damp_info with a penalty that decays over   *)
(* time.  While the route is suppressed the bgp_damp_info hangs on one of  *)
(* a ring of reuse lists, on no_reuse_list otherwise.  Both kinds of list  *)
(* are linked through next and prev, and DAMPED tells which kind it is.    *)
(*                                                                         *)
(* Time advances by DELTA_T; the reuse timer runs every DELTA_REUSE, which *)
(* is two of them.  Ages stand for the differences of times that the code  *)
(* takes.                                                                  *)
(***************************************************************************)
EXTENDS BgpInfo, FiniteSets, Sequences, SequencesExt

CONSTANTS
    Route,        \* the routes of the neighbour, one for each prefix
    None,         \* a NULL pointer
    Penalty,      \* DEFAULT_PENALTY
    Reuse,        \* damp->reuse_limit
    Suppress,     \* damp->suppress_value
    Ceiling,      \* damp->ceiling
    MaxSuppress,  \* damp->max_suppress_time, in units of DELTA_T
    DecayArray,   \* damp->decay_array, in percent
    Indexed,      \* the least penalty for which the quotient of bgp_reuse_index
                  \* is not negative
    Slots,        \* damp->reuse_index: Slots[k] is the least penalty from
                  \* Indexed on that is at least k lists away from the
                  \* current one
    ListSize,     \* damp->reuse_list_size
    ScanInterval, \* bgp_scan_interval, in units of DELTA_T
    MaxFlaps      \* bound: messages of the neighbour and commands

(***************************************************************************)
(* The command takes any values: suppress_value may be below reuse_limit   *)
(* or above the ceiling, and the ceiling below DEFAULT_PENALTY.  Only the  *)
(* ceiling, reuse_limit * 2^(max_suppress_time / half_life), is never      *)
(* below reuse_limit.                                                      *)
(***************************************************************************)
ASSUME DampAssumption ==
    /\ IsFiniteSet(Route) /\ None \notin Route /\ Attr # {}
    /\ {Penalty, Reuse, Suppress, Ceiling, MaxSuppress, ListSize, ScanInterval} \subseteq Nat \ {0}
    /\ MaxFlaps \in Nat
    /\ Reuse <= Ceiling /\ Indexed \in 0..Reuse
    /\ DecayArray \in Seq(0..100) /\ Slots \in Seq(Nat)

VARIABLES
    info,     \* [Route -> Info]: the bgp_info of each route
    pcount,   \* peer->pcount
    bdi,      \* [Route -> DampInfo or None]: binfo->extra->damp_info
    reuse,    \* damp->reuse_list, [List -> Route or None]
    noReuse,  \* damp->no_reuse_list
    offset,   \* damp->reuse_offset
    enabled,  \* BGP_CONFIG_DAMPENING
    scanIn,   \* when the thread of bgp_scan is due, in units of DELTA_T
    half,     \* half of DELTA_REUSE has passed since the reuse timer ran
    queued,   \* the routes whose node waits on the process queue
    told,     \* [Route -> Attr or NoAttr]: what the other neighbours and
              \* zebra were told
    said,     \* [Route -> Attr or NoAttr]: what the neighbour last said
    flaps     \* bound: messages and commands so far

damped == <<info, pcount, bdi, reuse, noReuse, offset>>
vars == <<info, pcount, bdi, reuse, noReuse, offset, enabled, scanIn, half, queued,
          told, said, flaps>>

List == 0..ListSize - 1
Pointer == Route \cup {None}

\* The first penalty of a route is not capped.
Highest == IF Penalty > Ceiling THEN Penalty ELSE Ceiling

DampInfo == [penalty : 0..Highest, age : 0..Len(DecayArray), since : 0..MaxSuppress,
             index : List \cup {-1}, last : {"UPDATE", "WITHDRAW"},
             next : Pointer, prev : Pointer]

ASSUME NoneAssumption == None \notin DampInfo

\* Types; no penalty exceeds both the ceiling and DEFAULT_PENALTY, however many flaps
\* add to it: all but the first one are capped (bgp_damp_withdraw).
TypeOK ==
    /\ info \in [Route -> Info] /\ pcount \in Nat
    /\ bdi \in [Route -> DampInfo \cup {None}]
    /\ reuse \in [List -> Pointer] /\ noReuse \in Pointer /\ offset \in List
    /\ enabled \in BOOLEAN /\ scanIn \in 0..ScanInterval /\ half \in BOOLEAN
    /\ queued \subseteq Route
    /\ told \in [Route -> Attr \cup {NoAttr}] /\ said \in [Route -> Attr \cup {NoAttr}]
    /\ flaps \in 0..MaxFlaps

-----------------------------------------------------------------------------
(***************************************************************************)
(* The operators below take and return a record x of the variables that    *)
(* the functions of bgp_damp.c change.                                     *)
(***************************************************************************)
Here == [info |-> info, pc |-> pcount, bdi |-> bdi, reuse |-> reuse, noReuse |-> noReuse,
         offset |-> offset]

Becomes(x) ==
    /\ info' = x.info /\ pcount' = x.pc /\ bdi' = x.bdi
    /\ reuse' = x.reuse /\ noReuse' = x.noReuse /\ offset' = x.offset

Flagged(x, r, y) == [x EXCEPT !.info[r] = y.ri, !.pc = y.pc]
Pair(x, r) == [ri |-> x.info[r], pc |-> x.pc]

\* Fault: the flag is set without a look at the prefix count.
SetFlag_uncounted(x, r, flag) == Flagged(x, r, SET_FLAG(Pair(x, r), flag))

SetFlag(x, r, flag) == Flagged(x, r, bgp_info_set_flag(Pair(x, r), flag))
UnsetFlag(x, r, flag) == Flagged(x, r, bgp_info_unset_flag(Pair(x, r), flag))
Damped(x, r) == Has(x.info[r], "DAMPED")

(***************************************************************************)
(* Doubly linked lists.  A pointer to a bgp_damp_info that was freed is    *)
(* not followed.                                                           *)
(***************************************************************************)
Link(b, p, field, q) == IF p = None \/ b[p] = None THEN b ELSE [b EXCEPT ![p][field] = q]

Pushed(b, r, head) == Link(Link(Link(b, r, "prev", None), r, "next", head), head, "prev", r)

Unlinked(b, r) == Link(Link(b, b[r].next, "prev", b[r].prev), b[r].prev, "next", b[r].next)

BGP_DAMP_LIST_ADD(x, r) == [x EXCEPT !.bdi = Pushed(@, r, x.noReuse), !.noReuse = r]

BGP_DAMP_LIST_DEL(x, r) ==
    [x EXCEPT !.bdi = Unlinked(@, r),
              !.noReuse = IF x.bdi[r].prev = None THEN x.bdi[r].next ELSE @]

\* How many lists away from the current one.  A negative quotient, as an unsigned
\* int, is beyond reuse_index and takes its last entry.
Distance(penalty) ==
    (IF penalty < Indexed THEN Len(Slots)
     ELSE Cardinality({k \in DOMAIN Slots : Slots[k] <= penalty})) % ListSize

bgp_reuse_index(x, penalty) == (x.offset + Distance(penalty)) % ListSize

bgp_reuse_list_add(x, r) ==
    LET index == bgp_reuse_index(x, x.bdi[r].penalty)
    IN [x EXCEPT !.bdi = Pushed([@ EXCEPT ![r].index = index], r, x.reuse[index]),
                 !.reuse[index] = r]

bgp_reuse_list_delete(x, r) ==
    [x EXCEPT !.bdi = Unlinked(@, r),
              !.reuse = IF x.bdi[r].prev = None
                        THEN [@ EXCEPT ![x.bdi[r].index] = x.bdi[r].next] ELSE @]

(***************************************************************************)
(* The members of a list, in the order in which they are linked.           *)
(***************************************************************************)
Members(x, head) ==
    LET at[n \in 0..Cardinality(Route)] ==
            IF n = 0 THEN head
            ELSE IF at[n - 1] = None \/ x.bdi[at[n - 1]] = None THEN None
                 ELSE x.bdi[at[n - 1]].next
        length == Cardinality({n \in 0..Cardinality(Route) : at[n] # None})
    IN [n \in 1..length |-> at[n - 1]]

-----------------------------------------------------------------------------
bgp_damp_decay(age, penalty) ==
    IF age = 0 THEN penalty
    ELSE IF age >= Len(DecayArray) THEN 0
         ELSE (penalty * DecayArray[age + 1]) \div 100

\* penalty > damp->reuse_limit / 2.0
Retained(penalty) == 2 * penalty > Reuse

\* Fault: the ceiling is forgotten.
Capped_never(sum) == sum

\* The penalty after one more withdrawal or change.
Capped(sum) == IF sum > Ceiling THEN Ceiling ELSE sum

(***************************************************************************)
(* What the tables of bgp_damp_parameter_set must be like: a penalty with  *)
(* which a route is put on a reuse list is still above half the reuse      *)
(* limit when the reuse timer gets to that list, also if an announcement   *)
(* replaces it meanwhile by what the decay, rounded, has left of it.       *)
(* Lasting[n]: the penalties that are above it for n more DELTA_T.         *)
(***************************************************************************)
LastFor(n, before) ==
    {p \in 0..Highest : \A i \in 0..n :
        LET left == bgp_damp_decay(i, p)
        IN Retained(left) /\ (i > 0 /\ left >= Reuse => left \in before[n - i + 1])}

LastingUpTo[n \in 0..2 * ListSize] ==
    LET before == IF n = 0 THEN <<>> ELSE LastingUpTo[n - 1]
    IN Append(before, LastFor(n, before))

Lasting == [n \in 0..2 * ListSize |-> LastingUpTo[2 * ListSize][n + 1]]

\* The penalties with which a route is put on a reuse list: put back by the reuse
\* timer, suppressed, or penalized again while it is suppressed.
Listed ==
    {p \in 0..Highest :
        \/ p >= Reuse \/ p >= Suppress
        \/ \E q \in 0..Highest, more \in {Penalty, Penalty \div 2} :
                Retained(q) /\ p = Capped(q + more)}

TablesFit == \A p \in Listed : p \in Lasting[2 * (Distance(p) + 1)]

ASSUME TablesAssumption == TablesFit

\* Fault: the bgp_damp_info stays on its reuse list.
bgp_damp_info_free_linked(x, r, withdraw) ==
    LET y == IF Damped(x, r) THEN x ELSE BGP_DAMP_LIST_DEL(x, r)
        z == UnsetFlag(UnsetFlag([y EXCEPT !.bdi[r] = None], r, "HISTORY"), r, "DAMPED")
    IN IF withdraw /\ x.bdi[r].last = "WITHDRAW"
       THEN Flagged(z, r, bgp_info_delete(Pair(z, r))) ELSE z

bgp_damp_info_free(x, r, withdraw) ==
    LET y == IF Damped(x, r) THEN bgp_reuse_list_delete(x, r) ELSE BGP_DAMP_LIST_DEL(x, r)
        z == UnsetFlag(UnsetFlag([y EXCEPT !.bdi[r] = None], r, "HISTORY"), r, "DAMPED")
    IN IF withdraw /\ x.bdi[r].last = "WITHDRAW"
       THEN Flagged(z, r, bgp_info_delete(Pair(z, r))) ELSE z

(***************************************************************************)
(* A withdrawal (penalty = Penalty) or a change of the attributes (half of *)
(* it).  It is reported as suppressed if the route was before.             *)
(***************************************************************************)
NewDampInfo(penalty) ==
    [penalty |-> penalty, age |-> 0, since |-> 0, index |-> -1, last |-> "WITHDRAW",
     next |-> None, prev |-> None]

bgp_damp_withdraw(x, r, penalty) ==
    LET old == x.bdi[r]
        sum == bgp_damp_decay(old.age, old.penalty) + penalty
        y == SetFlag(IF old = None
                     THEN BGP_DAMP_LIST_ADD([x EXCEPT !.bdi[r] = NewDampInfo(penalty)], r)
                     ELSE [x EXCEPT !.bdi[r] = [@ EXCEPT !.penalty = Capped(sum),
                                                         !.last = "WITHDRAW", !.age = 0]],
                     r, "HISTORY")
        suppressed == SetFlag([y EXCEPT !.bdi[r].since = 0], r, "DAMPED")
    IN IF Damped(x, r)
       THEN IF y.bdi[r].penalty # old.penalty
            THEN bgp_reuse_list_add(bgp_reuse_list_delete(y, r), r) ELSE y
       ELSE IF y.bdi[r].penalty >= Suppress
            THEN bgp_reuse_list_add(BGP_DAMP_LIST_DEL(suppressed, r), r) ELSE y

(***************************************************************************)
(* An announcement.  Suppressed: what bgp_damp_update returns.             *)
(***************************************************************************)
Suppressed(x, r) ==
    /\ x.bdi[r] # None
    /\ bgp_damp_decay(x.bdi[r].age, x.bdi[r].penalty)
          >= (IF Damped(x, r) THEN Reuse ELSE Suppress)

\* Fault: the message is not recorded as an announcement.
bgp_damp_update_unrecorded(x, r) ==
    LET penalty == bgp_damp_decay(x.bdi[r].age, x.bdi[r].penalty)
        y == UnsetFlag([x EXCEPT !.bdi[r] = [@ EXCEPT !.penalty = penalty, !.age = 0]], r, "HISTORY")
        z == IF Damped(x, r) /\ penalty < Reuse
             THEN BGP_DAMP_LIST_ADD(bgp_reuse_list_delete(
                      UnsetFlag([y EXCEPT !.bdi[r].since = 0], r, "DAMPED"), r), r)
             ELSE y
    IN IF x.bdi[r] = None THEN x
       ELSE IF Retained(penalty) THEN z ELSE bgp_damp_info_free(z, r, FALSE)

bgp_damp_update(x, r) ==
    LET penalty == bgp_damp_decay(x.bdi[r].age, x.bdi[r].penalty)
        y == UnsetFlag([x EXCEPT !.bdi[r] = [@ EXCEPT !.penalty = penalty, !.last = "UPDATE",
                                                      !.age = 0]], r, "HISTORY")
        z == IF Damped(x, r) /\ penalty < Reuse
             THEN BGP_DAMP_LIST_ADD(bgp_reuse_list_delete(
                      UnsetFlag([y EXCEPT !.bdi[r].since = 0], r, "DAMPED"), r), r)
             ELSE y
    IN IF x.bdi[r] = None THEN x
       ELSE IF Retained(penalty) THEN z ELSE bgp_damp_info_free(z, r, FALSE)

(***************************************************************************)
(* One member of the reuse list whose turn it is.  DAMPED is gone when     *)
(* bgp_damp_info_free looks at it.                                         *)
(***************************************************************************)
Reusable(x, r) ==
    bgp_damp_decay(x.bdi[r].age, x.bdi[r].penalty) < Reuse

ReuseOne(x, r) ==
    LET penalty == bgp_damp_decay(x.bdi[r].age, x.bdi[r].penalty)
        y == [x EXCEPT !.bdi[r] = [@ EXCEPT !.penalty = penalty, !.age = 0]]
        used == UnsetFlag([y EXCEPT !.bdi[r].since = 0], r, "DAMPED")
        z == IF x.bdi[r].last = "UPDATE" THEN UnsetFlag(used, r, "HISTORY") ELSE used
    IN IF ~Reusable(x, r) THEN bgp_reuse_list_add(y, r)
       ELSE IF Retained(penalty) THEN BGP_DAMP_LIST_ADD(z, r)
            ELSE bgp_damp_info_free(z, r, TRUE)

\* Fault: the ring turns after the list is read.
bgp_reuse_timer_late(x) ==
    LET m == Members(x, x.reuse[x.offset])
        after[n \in 0..Len(m)] == IF n = 0 THEN [x EXCEPT !.reuse[x.offset] = None]
                                  ELSE ReuseOne(after[n - 1], m[n])
    IN [after[Len(m)] EXCEPT !.offset = (@ + 1) % ListSize]

(***************************************************************************)
(* The ring turns before the list is read, so that a route put back at     *)
(* distance 0 is looked at by the next run.                                *)
(***************************************************************************)
bgp_reuse_timer(x) ==
    LET m == Members(x, x.reuse[x.offset])
        y == [x EXCEPT !.reuse[x.offset] = None, !.offset = (@ + 1) % ListSize]
        after[n \in 0..Len(m)] == IF n = 0 THEN y ELSE ReuseOne(after[n - 1], m[n])
    IN after[Len(m)]

\* Those that bgp_reuse_timer queues with bgp_process.
TimerQueues(x) ==
    {r \in ToSet(Members(x, x.reuse[x.offset])) : Reusable(x, r) /\ x.bdi[r].last = "UPDATE"}

bgp_damp_scan(x, r) ==
    LET penalty == bgp_damp_decay(x.bdi[r].age, x.bdi[r].penalty)
        used == BGP_DAMP_LIST_ADD(bgp_reuse_list_delete(UnsetFlag(x, r, "DAMPED"), r), r)
    IN IF x.bdi[r] = None THEN x
       ELSE IF Damped(x, r)
            THEN IF x.bdi[r].since < MaxSuppress THEN x
                 ELSE [used EXCEPT !.bdi[r] = [@ EXCEPT !.penalty = Reuse, !.age = 0,
                                                        !.since = 0]]
            ELSE IF Retained(penalty)
                 THEN [x EXCEPT !.bdi[r] = [@ EXCEPT !.penalty = penalty, !.age = 0]]
                 ELSE bgp_damp_info_free(x, r, TRUE)

\* Every node in turn.
Scanned(x) ==
    LET node == SetToSeq(Route)
        after[n \in 0..Len(node)] == IF n = 0 THEN x ELSE bgp_damp_scan(after[n - 1], node[n])
    IN after[Len(node)]

-----------------------------------------------------------------------------
\* The routes were announced before, and are settled.
Init ==
    LET first == CHOOSE a \in Attr : TRUE
    IN /\ info = [r \in Route |-> [attr |-> first, flags |-> {"VALID", "COUNTED", "SELECTED"}]]
       /\ said = [r \in Route |-> first] /\ told = said
       /\ pcount = Cardinality(Route)
    /\ bdi = [r \in Route |-> None]
    /\ reuse = [k \in List |-> None] /\ noReuse = None /\ offset = 0
    /\ enabled = TRUE /\ scanIn = ScanInterval /\ half = FALSE
    /\ queued = {} /\ flaps = 0

(***************************************************************************)
(* What the neighbour says and what the operator does; bounded.            *)
(***************************************************************************)
Flap == flaps < MaxFlaps /\ flaps' = flaps + 1

Says(r, a) == said' = [said EXCEPT ![r] = a]

\* bgp_update_main, a route that is new.
UpdateNew(r, a) ==
    /\ Flap /\ Says(r, a)
    /\ ~Present(info[r])
    /\ Becomes(SetFlag([Here EXCEPT !.info[r].attr = a], r, "VALID"))
    /\ queued' = queued \cup {r}
    /\ UNCHANGED <<enabled, scanIn, half, told>>

(***************************************************************************)
(* bgp_update_main, the same attributes again.  A repetition that comes    *)
(* before the change of the attributes was announced drops that change     *)
(* (see BgpRib); it is left out here.                                      *)
(***************************************************************************)
UpdateSame(r) ==
    LET x == UnsetFlag(Here, r, "ATTR_CHANGED")
        history == enabled /\ Has(info[r], "HISTORY")
    IN /\ Flap /\ Says(r, info[r].attr)
       /\ Present(info[r]) /\ ~Has(info[r], "REMOVED")
       /\ ~({"ATTR_CHANGED", "SELECTED"} \subseteq info[r].flags)
       /\ Becomes(IF history THEN bgp_damp_update(x, r) ELSE x)
       /\ queued' = IF history /\ ~Suppressed(x, r) THEN queued \cup {r} ELSE queued
       /\ UNCHANGED <<enabled, scanIn, half, told>>

(***************************************************************************)
(* bgp_update_main, implicit withdraw.  If the route is suppressed, by     *)
(* this very change perhaps, the function returns without bgp_process.     *)
(***************************************************************************)
UpdateChanged(r, a) ==
    LET restored == IF Has(info[r], "REMOVED")
                    THEN Flagged(Here, r, bgp_info_restore(Pair(Here, r))) ELSE Here
        x == SetFlag(restored, r, "ATTR_CHANGED")
        y == IF enabled /\ ~Has(info[r], "HISTORY")
             THEN bgp_damp_withdraw(x, r, Penalty \div 2) ELSE x
        z == [y EXCEPT !.info[r].attr = a]
        suppressed == enabled /\ Suppressed(z, r)
        w == IF enabled THEN bgp_damp_update(z, r) ELSE z
    IN /\ Flap /\ Says(r, a)
       /\ Present(info[r]) /\ (a # info[r].attr \/ Has(info[r], "REMOVED"))
       /\ Becomes(IF suppressed THEN w ELSE SetFlag(w, r, "VALID"))
       /\ queued' = IF suppressed THEN queued ELSE queued \cup {r}
       /\ UNCHANGED <<enabled, scanIn, half, told>>

bgp_rib_remove(x, r) ==
    IF Has(x.info[r], "HISTORY") THEN x ELSE Flagged(x, r, bgp_info_delete(Pair(x, r)))

\* The input policy denies the route, or the session is cleared.
Denied(r) ==
    /\ Flap /\ Says(r, NoAttr)
    /\ Present(info[r])
    /\ Becomes(bgp_rib_remove(Here, r))
    /\ queued' = queued \cup {r}
    /\ UNCHANGED <<enabled, scanIn, half, told>>

bgp_withdraw(r) ==
    /\ Flap /\ Says(r, NoAttr)
    /\ Present(info[r]) /\ ~Has(info[r], "HISTORY")
    /\ IF enabled /\ Damped(Here, r)
       THEN Becomes(bgp_damp_withdraw(Here, r, Penalty)) /\ UNCHANGED queued
       ELSE /\ Becomes(bgp_rib_remove(IF enabled THEN bgp_damp_withdraw(Here, r, Penalty)
                                      ELSE Here, r))
            /\ queued' = queued \cup {r}
    /\ UNCHANGED <<enabled, scanIn, half, told>>

-----------------------------------------------------------------------------
Decaying == \E r \in Route : bdi[r] # None

(***************************************************************************)
(* DELTA_T passes.  The process queue, held back for 50 ms, is empty by    *)
(* then; time that passes while there is nothing to decay is not counted.  *)
(***************************************************************************)
Older(b) ==
    [r \in Route |->
        IF b[r] = None THEN None
        ELSE [b[r] EXCEPT !.age = IF @ < Len(DecayArray) THEN @ + 1 ELSE @,
                          !.since = IF Has(info[r], "DAMPED") /\ @ < MaxSuppress
                                    THEN @ + 1 ELSE @]]

Tick ==
    LET x == [Here EXCEPT !.bdi = Older(bdi)]
    IN /\ queued = {} /\ Decaying
       /\ scanIn > 0 /\ scanIn' = scanIn - 1
       /\ half' = ~half
       /\ IF half THEN Becomes(bgp_reuse_timer(x)) /\ queued' = queued \cup TimerQueues(x)
          ELSE Becomes(x) /\ UNCHANGED queued
       /\ UNCHANGED <<enabled, told, said, flaps>>

(***************************************************************************)
(* The periodic scan visits every node and queues it.                      *)
(***************************************************************************)
bgp_scan ==
    /\ scanIn = 0 \/ ~Decaying
    /\ scanIn' = ScanInterval
    /\ Becomes(IF enabled THEN Scanned(Here) ELSE Here)
    /\ queued' = queued \cup {r \in Route : Present(info[r])}
    /\ UNCHANGED <<enabled, half, told, said, flaps>>

(***************************************************************************)
(* bgp_process_main for a node with this one route: announced, if it is    *)
(* usable and new or changed, withdrawn if it was selected, and reaped if  *)
(* it was removed; reaping frees its bgp_damp_info.                        *)
(***************************************************************************)
Reaped(x, r) ==
    [(IF x.bdi[r] = None THEN x ELSE bgp_damp_info_free(x, r, FALSE)) EXCEPT !.info[r] = NoInfo]

bgp_process_main(r) ==
    LET changed == ~Has(info[r], "SELECTED") \/ Has(info[r], "ATTR_CHANGED")
        x == UnsetFlag(Here, r, "SELECTED")
    IN /\ r \in queued /\ queued' = queued \ {r}
       /\ IF Usable(info[r])
          THEN /\ told' = [told EXCEPT ![r] = IF changed THEN info[r].attr ELSE @]
               /\ Becomes(IF changed
                          THEN UnsetFlag(SetFlag(Here, r, "SELECTED"), r, "ATTR_CHANGED")
                          ELSE Here)
          ELSE /\ told' = [told EXCEPT ![r] = IF Has(info[r], "SELECTED") THEN NoAttr ELSE @]
               /\ Becomes(IF Has(info[r], "REMOVED") THEN Reaped(x, r) ELSE x)
       /\ UNCHANGED <<enabled, scanIn, half, said, flaps>>

-----------------------------------------------------------------------------
\* Commands.

\* clear ip bgp dampening A.B.C.D/M
bgp_clear_damp_route(r) ==
    /\ Flap
    /\ bdi[r] # None
    /\ Becomes(bgp_damp_info_free(Here, r, TRUE))
    /\ UNCHANGED <<enabled, scanIn, half, queued, told, said>>

\* The members of one list are freed.
Emptied(x, head) ==
    LET m == Members(x, head)
        after[n \in 0..Len(m)] == IF n = 0 THEN x ELSE bgp_damp_info_free(after[n - 1], m[n], TRUE)
    IN after[Len(m)]

bgp_damp_info_clean(x) ==
    LET after[k \in 0..ListSize] == IF k = 0 THEN [x EXCEPT !.offset = 0]
                                    ELSE Emptied(after[k - 1], x.reuse[k - 1])
        y == after[ListSize]
    IN [Emptied(y, y.noReuse) EXCEPT !.reuse = [k \in List |-> None], !.noReuse = None]

\* clear ip bgp dampening
clear_ip_bgp_dampening ==
    /\ Flap
    /\ enabled
    /\ Becomes(bgp_damp_info_clean(Here))
    /\ UNCHANGED <<enabled, scanIn, half, queued, told, said>>

\* no bgp dampening
bgp_damp_disable ==
    /\ Flap
    /\ enabled /\ enabled' = FALSE
    /\ half' = FALSE
    /\ Becomes(bgp_damp_info_clean(Here))
    /\ UNCHANGED <<scanIn, queued, told, said>>

bgp_damp_enable ==
    /\ ~enabled /\ enabled' = TRUE
    /\ half' = FALSE
    /\ UNCHANGED <<damped, scanIn, queued, told, said, flaps>>

Neighbour ==
    \E r \in Route :
        \/ \E a \in Attr : UpdateNew(r, a) \/ UpdateChanged(r, a)
        \/ UpdateSame(r)
        \/ Denied(r)
        \/ bgp_withdraw(r)

Command ==
    \/ \E r \in Route : bgp_clear_damp_route(r)
    \/ clear_ip_bgp_dampening
    \/ bgp_damp_disable
    \/ bgp_damp_enable

Next ==
    \/ Neighbour
    \/ Command
    \/ Tick
    \/ bgp_scan
    \/ \E r \in Route : bgp_process_main(r)

(***************************************************************************)
(* Time passes, the scan is run by a timer, the process queue by a thread. *)
(* Each is named by its guard and by what no other unbounded action does.  *)
(***************************************************************************)
TimePasses == queued = {} /\ Decaying /\ scanIn > 0 /\ scanIn' = scanIn - 1

ScanRuns ==
    /\ scanIn = 0 \/ ~Decaying
    /\ scanIn' = ScanInterval
    /\ queued' = queued \cup {r \in Route : Present(info[r])}

QueueRuns(r) == r \in queued /\ queued' = queued \ {r}

Fairness ==
    /\ WF_scanIn(TimePasses) /\ WF_<<scanIn, queued>>(ScanRuns)
    /\ \A r \in Route : WF_queued(QueueRuns(r))

Spec == Init /\ [][Next]_vars /\ Fairness

-----------------------------------------------------------------------------
(***************************************************************************)
(* Every bgp_damp_info is on exactly one list: the reuse list that its     *)
(* index names if the route is damped, no_reuse_list otherwise; and prev   *)
(* undoes next.  "This information must be linked to reuse_list or         *)
(* no_reuse_list" (bgpd/bgp_damp.h:28).                                    *)
(***************************************************************************)
Holds(head, members) ==
    LET m == Members(Here, head)
    IN /\ ToSet(m) = members /\ Len(m) = Cardinality(members)
       /\ \A i \in DOMAIN m :
            /\ bdi[m[i]].prev = IF i = 1 THEN None ELSE m[i - 1]
            /\ bdi[m[i]].next = IF i = Len(m) THEN None ELSE m[i + 1]

Linked ==
    LET Is(r) == bdi[r] # None
    IN /\ \A k \in List :
            Holds(reuse[k], {r \in Route : Is(r) /\ Damped(Here, r) /\ bdi[r].index = k})
       /\ Holds(noReuse, {r \in Route : Is(r) /\ ~Damped(Here, r)})
       /\ \A r \in Route : (Damped(Here, r) \/ Has(info[r], "HISTORY")) => Is(r)

(***************************************************************************)
(* The reuse list looks at a suppressed route before its penalty has       *)
(* fallen to half the reuse limit (bgp_reuse_index, bgp_reuse_timer).  A   *)
(* route that is looked at later is freed with DAMPED already unset, and   *)
(* so taken off a list it is not on.                                       *)
(***************************************************************************)
TimelyReuse ==
    \A r \in Route :
        Damped(Here, r) => Retained(bgp_damp_decay(bdi[r].age, bdi[r].penalty))

(***************************************************************************)
(* The neighbour's prefix count is the number of its usable routes, while  *)
(* routes become history, are suppressed, freed and reaped (HISTORY and    *)
(* DAMPED go through bgp_info_set_flag and bgp_info_unset_flag).           *)
(***************************************************************************)
PrefixCount == pcount = Cardinality({r \in Route : Usable(info[r])})

(***************************************************************************)
(* Once the neighbour is quiet, what it last said of a prefix is what the  *)
(* others were told: a suppressed route is used again, and a withdrawn one *)
(* does not stay (bgp_reuse_timer, bgp_damp_scan, bgp_process).            *)
(***************************************************************************)
Settles == \A r \in Route : <>[](told[r] = said[r])
=============================================================================
