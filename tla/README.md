# A TLA+ model of the I2BGP routing daemon

I2BGP carries private intra-domain information between domains in the MED
attribute of BGP routes. It is a modified Quagga `bgpd` that runs inside the
ns-3 DCE simulator. What it changes is small and sits in C code:

* An out route-map writes the cost of the link to a neighbour into `LOCAL_PREF`,
  which is sent to external neighbours too and no longer ignored by them.
* A router takes the cost of a neighbour from the first `LOCAL_PREF` it receives
  (`peer->local_med`) and adds it to the MED of every update of that neighbour
  (`bgpd/bgp_attr.c:1003`, `:1055`), so that MED adds up along the path.
* MED is transitive and is no longer removed towards external neighbours
  (`bgpd/bgp_route.c:898`).
* The decision process compares MED before anything else (`bgpd/bgp_route.c:333`).

Everything those routes pass through (the table, the process queue, the
advertisement queues, the session state machine, graceful restart, damping) is
Quagga's. This directory models that daemon and a network of such routers. Paths
below are relative to `src/source/quagga/`.

The repository's Python is the bundled simulator's: generated ns-3 bindings and build
scripts. None of the logic of I2BGP is in it and nothing here models it; every mapped
line is C code of `bgpd` and `lib`.

## Inventory

`bgpd` is one thread. `lib/thread.c` runs callbacks one at a time: packet
reads, timers, FSM events and work queue items. What is hard about it is that a
change is spread over many callbacks, and any other callback may run between
two of them.

| Part | State | Operations | Interacts with | What makes it correct |
|---|---|---|---|---|
| Routes (`bgp_route.c`) | flags of a `bgp_info`, `peer->pcount` | set, unset, delete, restore, reap | everything that changes a route | the count is the number of usable routes |
| Table and process queue (`bgp_route.c`) | the `bgp_info`s of a node, its entries on `process_main_queue` | update, withdraw, select, reap | sessions, advertisements, zebra | one selected route; neighbours and zebra agree with it once the queue is empty |
| Decision process (`bgp_route.c`, `bgp_aspath.c`) | the order of a node's list, `SELECTED` | compare, select, deterministic-med | table | the outcome does not depend on the order of arrival |
| Advertisements (`bgp_advertise.c`, `bgp_packet.c`) | `adj_out`, its waiting advertisement, the FIFOs | set, unset, write | process queue, sessions | what was sent and is waiting adds up to the selected route |
| Sessions (`bgp_fsm.c`, `bgp_network.c`) | status, timers, queued events | start, connect, open, establish, stop, clear | table (clearing), packets | a new session starts only when the old one is cleared; no stuck state |
| Graceful restart (`bgp_fsm.c`, `bgp_packet.c`) | `nsf`, `NSF_WAIT`, two timers, `STALE` | keep, refresh, expire | clear queue, sessions | stale routes are refreshed or go |
| Maximum-prefix (`bgp_route.c`) | limit flags of a peer | check, notify, restart | prefix count, sessions | a peer over its limit does not stay |
| Next-hop scan (`bgp_nexthop.c`) | `VALID`, `IGP_CHANGED` | scan | table, prefix count | unusable routes are not selected |
| Peers (`bgpd.c`) | configuration, reference counts | create, delete, clear | all | |
| Scheduler and work queues (`lib/thread.c`, `lib/workqueue.c`) | event, timer, ready and background lists | add, cancel, flush, fetch, run | all | nothing that waits is lost |
| MED accumulation (`bgp_attr.c`, `bgp_route.c`) | `peer->local_med`, MED, `LOCAL_PREF` | parse, announce, network command | decision process, sessions, other routers | MED is the cost of the path; routers settle on a cheapest path |
| Damping (`bgp_damp.c`) | `bgp_damp_info`s, the ring of reuse lists, `no_reuse_list` | withdraw, update, decay, reuse, scan, clear, disable | updates, process queue, prefix count, scan | sound lists; a suppressed route is used again; what was last said is announced |
| Packet parsing, filters, command line | | | | listed in `PROJECT.json` |

The behaviours that tests hardly reach are listed, each at its line, under
`hazards` in `PROJECT.json`.

## Modules

* `BgpInfo` - the flags of a `bgp_info` and the prefix count they drive. The
  operators keep the names of the C functions and work on a pair of the route
  and the count of its peer. `BgpRib` never sets `HISTORY` and `DAMPED`; `BgpDamp` does.
* `BgpRib` - the table of one address family. Each action is one callback of
  the daemon, complete with everything it calls.

  | Variable | Code |
  |---|---|
  | `status` | `peer->status` (Connect and Active are part of Idle, OpenConfirm of OpenSent) |
  | `rib`, `pcount` | `rn->info`, `peer->pcount` |
  | `adjIn`, `adjOut` | `rn->adj_in`, `rn->adj_out` with the advertisement in the FIFOs of `peer->sync` |
  | `scheduled` | number of entries of the node on `process_main_queue` |
  | `clearq`, `events` | `peer->clear_node_queue`, the queued FSM events |
  | `nsf`, `nsfWait`, `staleTimer` | `peer->nsf`, `PEER_STATUS_NSF_WAIT`, `peer->t_gr_stale` |
  | `prefixLimit`, `overflow` | `PEER_STATUS_PREFIX_LIMIT`, `PEER_STATUS_PREFIX_OVERFLOW` |
  | `fib` | what zebra was last told |

  `bgp_update_main` is four actions, one for each of its exits: filtered,
  duplicate, implicit withdraw, new. Loop checks, filters and route-maps are the
  constant functions `InPolicy` and `OutPolicy`; the outcome of a next-hop
  lookup is a choice, for the peers in `NexthopVaries`. Which usable route wins
  is left open here (`new_select` is a set): the properties of the table hold
  whatever the decision process says.
* `BgpSelect` - the decision process as an algorithm without a state of its own:
  `bgp_info_cmp` with all its checks in the code's order (MED first) and
  `bgp_best_selection` over a list of routes.
* `BgpDecision` - one node: the list of `bgp_info`s, whose order is part of the
  state, and `BgpSelect` applied to it. Routes are announced, withdrawn and processed in any
  order; the options (`always-compare-med`, `deterministic-med`, the `bestpath`
  ones) are a variable chosen from `Configs` at the start. AS paths are their
  length and leading AS; the IGP metric of a next hop is a field of the route.
  The history variable `changed` tells whether a route changed since the last
  selection. Every source has its own name in `Peer`, the local ones too
  (`LocalAssumption`): `bgp_static_update`, `bgp_redistribute_add` and
  `bgp_aggregate_route` each look for the route of their own sub-type first
  (`bgpd/bgp_route.c:3140`, `5175`, `4651`), so a node has at most one of each.
* `BgpFsm` - the session of one configured neighbour under the scheduler. A step
  is one job of the ready list, run to its end.

  | Variable | Code |
  |---|---|
  | `status`, `fd`, `reading`, `timers` | `peer->status`, `peer->fd`, `peer->t_read`, the timer threads that are set |
  | `events`, `ready` | `m->event`, `m->ready` |
  | `shutdown`, `config` | `PEER_FLAG_SHUTDOWN`; what is configured and what the neighbour is like |
  | `nsf`, `nsfWait` | `PEER_STATUS_NSF_MODE`, `PEER_STATUS_NSF_WAIT` |
  | `routes`, `clearq` | per address family, the age of the neighbour's routes; `peer->clear_node_queue` |
  | `acceptor` | the dummy peer of an incoming connection |
  | `sent` | how far the neighbour is in the protocol (external) |

  `thread_fetch` builds the ready list: one event, at most one timer, the
  readable sockets, a writable one, the background work. It takes one event and
  not all of them because `thread_process` follows the `next` of a thread that
  it has just moved to the end of the ready list. `bgp_event` looks up `FSM` and
  calls the function named there; what follows a function that returns 0 is
  `Proceed`. The clear queue holds one item per family, which stands for all its
  nodes; that it may wait for many turns stands for a long table.
* `BgpNetwork` - routers, each with its own decision process, that exchange one
  prefix. `Decision` instantiates `BgpSelect` for all of them, a peer being a pair
  of the router and its neighbour; it is applied to the list `rib[r]` of the router
  whose process queue runs.

  | Variable | Code |
  |---|---|
  | `rib`, `queued` | `rn->info` of the prefix, its entry on the process queue |
  | `localMed` | `peer->local_med` |
  | `adjOut` | `rn->adj_out` with its waiting advertisement |
  | `wire`, `up` | the updates on a connection; the neighbours in Established |

  A connection carries updates in order and loses those under way when one end
  closes; the other end notices later. `via` in a route is history: the routers
  it came through, which the properties compare MED with. A session is up or
  down, its clearing is complete before it comes back (`BgpFsm` and `BgpRib`
  have the details), a LOCAL_PREF that is not set counts as `DefaultLocalPref`, and
  an update of a neighbour is read only after its previous one was processed: the
  process queue holds a node for 50 ms, a neighbour's advertisement interval is
  seconds. Reading it earlier is what `repeat_lost` is about.
* `NeighbourView` - the abstract specification of advertising to one neighbour:
  the selected routes change, packets tell some of them, the neighbour hears
  packets in order, and sessions end. A packet tells what is selected when it is
  made. It knows nothing of FIFOs, timers, adjacencies or threads.
* `BgpAdvertise` - how `bgpd` does that.

  | Variable | Code |
  |---|---|
  | `route`, `age`, `gated` | the selected routes, their `uptime` against `synctime`, and whether their source still owes an End-of-RIB |
  | `adj`, `update`, `withdraw` | `rn->adj_out`, the FIFOs of `peer->sync` |
  | `synced`, `eorSend` | `peer->synctime`, `PEER_STATUS_EOR_SEND` |
  | `obuf`, `tWrite`, `loop` | `peer->obuf`, `peer->t_write`, where `bgp_write` is in its loop |
  | `failed` | `write()` failed: `TCP_fatal_error` is queued and has not run |
  | `known` | what the neighbour has been told |

  Updates with equal attributes leave the FIFO together whatever their place in
  it; the loop of `bgp_write` is a step per packet, during which nothing else
  runs. Only `bgp_update_packet` arms `t_write`, which then stays armed through the
  loop, whatever packets follow. A failed `write()` leaves the packet in `obuf` and
  `t_write` as it is, and queues an event (`WriteFailed`); the session ends when that
  event runs, before the next run of `bgp_write` because `thread_fetch` takes events
  first. It implements `NeighbourView` by the mapping `want <- route`,
  `open <- status`, `said <- obuf`.
* `BgpDamp` - damping of the routes of one external neighbour, on top of the flags
  and the count of `BgpInfo`.

  | Variable | Code |
  |---|---|
  | `info`, `pcount` | the `bgp_info`s and `peer->pcount` |
  | `bdi` | `extra->damp_info`, with its `next`, `prev`, `index`, penalty and last record |
  | `reuse`, `noReuse`, `offset` | `damp->reuse_list`, `no_reuse_list`, `reuse_offset` |
  | `enabled`, `scanIn`, `half` | `BGP_CONFIG_DAMPENING`, when the scan and the reuse timer are due |
  | `queued`, `told`, `said` | process queue; what others were told; what the neighbour last said |

  Lists are modelled as the pointers the code changes, so that taking an element
  off the wrong list shows. A step of time is `DELTA_T` (5 s). The tables that
  `bgp_damp_parameter_set` computes in floating point are constants.
* `MCBgpRib`, `MCBgpDecision`, `MCBgpFsm`, `MCBgpNetwork`, `MCBgpAdvertise`,
  `MCBgpDamp` - values for TLC.
* `Fifo` - the linked lists of `lib/zebra.h`, as sequences of distinct elements, for
  the modules above.
* `BgpInfo_proofs`, `BgpRib_proofs`, `BgpDecision_proofs`, `BgpFsm_proofs`,
  `BgpAdvertise_proofs`, `BgpNetwork_proofs`, `BgpDamp_proofs` - the theorems, and the
  lemmas about the flag operators (`BgpInfo_proofs`) and about sequences, induction and
  recursive functions (`Fifo_proofs`).

Operators whose comment starts with `Fault:` are wrong versions of the operator
that follows them. No specification uses them; they are there to show that each
property notices the bug it is meant for (`mutants` in `PROJECT.json`).

## Runs

| Run | Bounds | Shows |
|---|---|---|
| `settled` | 2 peers, 1 prefix, 3 attribute sets (one of them denied), two queue entries | one selected route, removed routes are queued; once a node has left the process queue, neighbours, zebra and the selected route agree |
| `graceful` | 2 peers, one of them restarts, 2 attribute sets (one denied), two queue entries | clearing ends before a new session, stale routes are timed and go |
| `maxprefix` | 1 peer, 2 prefixes, limit 1, two queue entries | the count is exact, also when a removed route is restored while its removal is queued; a peer over its limit does not stay |
| `decision` | 4 sources (external, internal, local), two neighbouring ASes, two sets of options | with `always-compare-med` the pass finds the best route and a second pass changes nothing; with `deterministic-med` and compared router-ids the order of arrival does not matter, as long as no AS path is empty |
| `session` | 1 address family, 10 configurations, 2 sockets a turn, 3 waiting events | the session is never stuck, leaks no socket, connects again only when its routes are gone |
| `network` | 4 routers in 3 ASes in a ring, `always-compare-med`, 2 changes (network command, lost connections), 1 update under way per direction | MED is the cost of the path; settled routers have a cheapest path; they settle |
| `advertise` | 3 prefixes, 2 attribute sets, 2 prefixes a packet, 2 packets a run of `bgp_write`, 2 changes | the queues implement `NeighbourView`; FIFOs and adjacencies agree, nothing is forgotten, the writer is armed, the neighbour is told in the end |
| `damping` | 2 routes, 2 attribute sets, `bgp dampening 1 200 800 2`, 3 messages or commands | lists sound, routes looked at in time, prefix count exact, what was last said is announced in the end |
| `repeat_lost` | violation | a repeated announcement loses the change before it |
| `clear_race` | violation | two address families, routes of the second only: the session is up again before the clear queue has run |
| `suppressed` | violation | a failed connect flushes the `BGP_Stop` of `neighbor shutdown` |
| `diverges` | violation | three ASes in a triangle, default options: the routers need not settle |

Each violation is a finding in `PROJECT.json`, with the line of the code, a
comment, the manual or the README that says otherwise.

Disagreements without a run:

* The models show, with properties that are not kept here: `adj_in` and `adj_out`
  entries outlive their session, although "peers in pre-Established states
  shouldn't have any route-update state associated with them"
  (`bgpd/bgp_route.c:2747`). Routes that the clear queue marks stale after the
  stale-path timer fired have no timer (`SlowClearing`), although its help says it
  is "the max time to hold onto restarting peer's stale paths"
  (`bgpd/bgp_vty.c:827`). In the default configuration a second selection without
  a change can move the best route, since MED is compared first but only within a
  neighbouring AS, although the preference for the oldest route "minimizes
  route-flap" (`bgpd/bgp_route.c:450`). An accepted connection replaces a
  restarting session whose routes are never marked stale, although they must be
  "'scrubbed' in some way" first (`bgpd/bgp_route.c:2639`).
* Seen by reading: the manual lists weight first (`doc/bgpd.texi:108`) where I2BGP
  compares MED first; `BGP_NODE_PROCESS_SCHEDULED`, which should keep a node from
  being queued twice, is never set (`bgpd/bgp_route.c:1529`); the prefix-counts
  command reports a drift for a route with an unreachable next hop
  (`bgpd/bgp_route.c:9322`); `peer->scount` is counted up and down but not at the
  end of a session, and nothing reads it.

Bounds. A node's routes interact with those of other nodes only through the
prefix count and the limit, hence one prefix except in `maxprefix`. Two peers
give a winner, a loser and a neighbour to tell. `MaxQueue` keeps the outside
world (updates, establishment, the scan) from adding work to a node that already
has that many entries. It is two, so that a removed route is announced again
while the entry for its removal still waits (`bgp_info_restore`), and is withdrawn
once more when one of the two entries has run. Internal steps (clearing, timers) are
not bounded. `graceful` has one acceptable set of attributes, since its properties do
not read them, and one that is denied.
`EarlyRepeats` and `SlowClearing` switch on the two orders that the code does not
survive (`repeat_lost`; late marking of stale routes), so that the other properties can be
checked without them; what is proved below holds with them too. In `session`,
`MaxSockets` lets a command, a message and an incoming connection meet in one turn,
`MaxEvents` lets events queue up behind each other, and `MaxClear`
bounds the clear queue, which neighbour and operator could fill for ever: they act
while it is empty, and with graceful restart a step already due still puts a second
clearing behind the first. `Disconnected` and
`FreshStart` leave out the configurations in which the code loses them: graceful
restart (a shutdown during a restart clears routes outside Clearing, and its
Clearing_Completed reaches the next session) and, for the first, a neighbour that
sends messages out of turn. With more than one family `FreshStart` fails as
`clear_race` shows.

In `network` the ring has two ways around, one of which uses an internal session,
and costs that differ by direction; two changes let a session fail while the
prefix is announced, or twice. `SettledIsShortest` needs a network in which
preferring a cheaper path does not hide a cheapest one: a router announces only its
best route, does not pass a route from one internal neighbour to another, and
rejects a path that has been in its AS, so that an AS with two routers in the middle
of a larger graph can lose it. `MedRange` is larger than any cost in the ring.
In `advertise` two changes give a change and its reversal, or a change and a lost
session; three prefixes let a packet skip over one that waits, and `WriteMax` = 2
ends the loop with work left. In `damping` three messages suppress a route, change
it and withdraw it again; the ring of 13 lists is that of the configured maximum of two
minutes. Its reuse limit of 200 makes the ceiling, 200 * 2^(2/1) = 800, lower than the
1000 of a first withdrawal, which is not capped (`bgpd/bgp_damp.c:202`) and decays from
there; a second one is. `UpdateSame` leaves out the repetition of `repeat_lost`. Time is not counted
while nothing decays, when it makes no difference. `TimelyReuse` depends on the
configuration: for one whose ceiling waits as long as the decay array
lasts (`bgp dampening 1 100 200 4`) it fails, and `bgp_reuse_timer` then corrupts
`no_reuse_list` (hazard at `bgpd/bgp_damp.c:151`).

Fairness. `thread_fetch` serves timers, FSM events, sockets and background work
queue items in turn, so each of their actions is weakly fair. Nothing is assumed
of neighbours or the operator. The stale-path timer is restarted by `bgp_stop`,
so fairness is on the disjunction of the two. `bgp_scan` runs periodically
whatever the length of the queue; `MaxQueue` disables it now and then here, hence
strong fairness.

`BgpNetwork!Spec` assumes that the process queues run and that something that can
happen on some connection happens; `Converges` needs no more. `FairSpec` gives every
connection its turn, which a violation needs: `diverges` is under `FairSpec`, so no
thread is starved there. In `BgpAdvertise` the threads are weakly fair, the
event of a failed write among them, and `WriteDone` strongly: a neighbour that keeps the connection reads it, so that a
packet is not refused for ever; sessions come back because the start and connect
timers retry. In `BgpDamp` time passes, the scan runs when it is due and the process
queue runs. The fairness is on `TimePasses`, `ScanRuns` and `QueueRuns`, which have
the guards of the actions and name what no other unbounded action does: the same
assumption, and TLC can evaluate it.

## Proofs

The theorems hold for every value of the constants that the assumptions of the
modules allow: any peers, any finite set of prefixes, any policies, limits, address
families, networks and bounds. Each is proved from an inductive invariant. What follows is what each theorem
says, the hypotheses it has beyond those assumptions, and why its invariant is needed.

### The table (`BgpRib_proofs`)

* `TypeCorrect`: `TypeOK`.
* `PrefixCountCorrect`: `PrefixCount`. The count alone is not inductive: the
  decrement is skipped at zero, so one must know that a COUNTED route implies a
  positive count. The invariant `RibOK` adds to the types that the flags of each
  route are consistent (COUNTED exactly when usable, REMOVED and VALID never
  together, no flags on an absent route) and that the count is the cardinality of
  the COUNTED routes. `BgpInfo_proofs` shows that each flag operator preserves
  this; `RibStep`, `ClearStale` and `ScanRoutes` lift it to the steps that change
  one route, all stale routes of a peer, or every route.
* `SelectionCorrect`, `RemovedIsScheduledCorrect`, `FibHasSelectedCorrect`: from
  `RibOK` and `SelectionOK`. Every action but `bgp_process_main` keeps the
  SELECTED flags and never un-schedules a node (`Kept`); `ProcessNode` does the
  one action that moves the flag.

For the rest, `Moves` says in seven forms (removed, replaced, repeated, added, kept as
stale, scanned, untouched) what any step that is not the process queue's does to one
route; a lemma per action shows which form it has (`MoveStep` collects them), and the
invariants below need to be checked against seven forms only.

* `ClearedSessionCorrect`: `ClearedSession`, from `SessionOK` (which status the clear
  queue and the queued events go with) and `VisitedOK` (outside Established, a route
  in use is one the clear queue has still to visit, or a stale one that is waited for).
* `StaleIsTimedCorrect`: `StaleIsTimed`, when no stale-path timer expires before
  its clearing is done (`~SlowClearing`; the code does not survive that order).
* `SettledSelectionCorrect`: `SettledSelection`. `UsedOK` says that a node
  whose selected route cannot be used waits, `WaitingOK` that one with a usable route
  and none selected waits, or that the route belongs to a session about to stop
  (maximum-prefix returns before `bgp_process`) or was left by one as a stale route,
  which are the exceptions of the property.
* `SettledFibCorrect`, `SettledAdjOutCorrect`: when a node does not wait, zebra and every
  established neighbour agree with the selected route, when no update is repeated
  before its node is processed (`~EarlyRepeats`; `repeat_lost` is the run in which one
  is). The invariants (`FibOK`, `ToldOK`) say that the agreement fails only where
  `ATTR_CHANGED` is set on the selected route and the node waits: the flag is what makes
  `bgp_process_main` do its work instead of returning early.

### The decision process (`BgpDecision_proofs`)

For any peers, paths, options and lists of any length:

* `DecisionTypeCorrect`: `TypeOK`, one route of a peer in the list at most.
* `BestOverallCorrect`: `BestOverall`, without a hypothesis.
* `StableCorrect`: `Stable` where the comparison is a total order (`Decided`):
  always with `always-compare-med`, and with `deterministic-med` and
  `compare-routerid` without confederations and empty AS paths. In general it is
  false: see the default configuration above.
* `BestMedOfNeighbourCorrect`, `OrderFreeCorrect`: without confederations
  (`NoConfederation`). With them "the same neighbouring AS" is not transitive: a route
  can share its first AS with one and its first confederation AS with another, so that
  the groups depend on who gathers first.

The argument has four parts. `Compares`: of two routes of different peers, not both
selected, `bgp_info_cmp` prefers the one with the lexicographically smaller `Key`, a
tuple of twelve numbers that ends with the address; the fourteen checks map to the
twelve places one by one, the three checks for local routes to a rank, and MED counts
only if it is comparable. `WorseChain` and `WorseTotal` make this a total order
among routes whose MEDs are all comparable, or all not. `PassFinds`: a pass that keeps
the best route so far ends with one that is related to all the others, for any
transitive relation that the comparison follows. `GroupsCover`: each route is
in a group that some route gathered, the winners are the best of the groups, and
without confederations a group is all of the routes of an AS, since what was checked
before is closed. `ProcessFacts`: marking the best route changes the keys, because the
check for the oldest route reads the mark, but only in favour of the best route, so that
it stays best (`MarkNoWorse`), and reaping removes only routes that cannot be used.

The invariant `DecisionInv` has to say, beyond the properties, that at most one route
is selected (otherwise the check for the oldest route prefers whichever comes second
in the list and is no order), that a removed route is not usable, and that the selected route
is best by all twelve places rather than by the eight of `Merits`.

### The session (`BgpFsm_proofs`)

* `SessionTypeCorrect`: `TypeOK`, for any families and configurations.
* `NeverStuckCorrect`: `NeverStuck`, without a hypothesis: also with graceful restart
  and for neighbours that send anything at any time. The invariants are `Alive`
  (the timer that the status needs is armed, or an event that sets the
  timers again is pending) and `Ending` (in Clearing the clear queue or its Clearing_Completed is
  there). They must speak of pending events: a timer that fires is off
  before what it queued has run.
* `FreshStartCorrect`: `FreshStart`, with one address family (`Len(Families) = 1`; with
  two it is false, run `clear_race`). `Cleaned` says that a Clearing_Completed is
  pending only when the clear queue is empty and the routes are gone, `SoleEvent` that
  the ready list holds one event at most, so that none of it is left behind a job
  that changes status.
* `DisconnectedCorrect`: `Disconnected`, with one address family: with two a late
  Clearing_Completed reaches the next session. The property is about a neighbour that keeps to
  the protocol and sessions without graceful restart (`Plain`). The invariant `Wired`
  says for each status which socket it has and what may wait: an unconnected status has
  no socket and nothing sent; only the timers of the status are set or ready
  (`Allowed`); the messages that wait, with that of the running event first (`Waiting`),
  are those the status expects, in order (`InTurn`): an UPDATE only in Established, one OPEN
  only in OpenSent, no KEEPALIVE ahead of what leaves it (`Guarded`). It is needed because
  some entries of the state table for an event out of turn go to Idle by `bgp_ignore`,
  without the `bgp_stop` that closes the socket; `TurnExpected` and `WiredTable` show that none of
  them is taken.

`TableFacts` goes through the state table once; `StepKinds` reduces `Next` to seven
kinds of step (a turn of the state machine, a job beside it, an expired restart
timer, a transferred connection, a run of the clear queue, a changed configuration, a
fetch), and every invariant is shown kind by kind.

### The advertisement queues (`BgpAdvertise_proofs`)

One invariant, `AdvertiseOK`: the types, at most one packet waits (`OnePacket`), FIFOs
and adjacencies agree (`QueuedIsScheduled`, itself a checked property), and for each
prefix `AdjOK` relates the route, what is scheduled, what was sent and what the
neighbour will know once the packet is written; `Closed` is what is left of it between
sessions, where a withdrawal of the old session may stay behind. From it:

* `AdvertiseTypeCorrect`, `QueuesCorrect`, `NothingForgottenCorrect`, `WriterArmedCorrect`.
* `ViewImplemented`: `Spec => View!Spec`'s safety part, the property `ViewRefined` of the
  run: every step of the queues maps to a step of `NeighbourView` or leaves it alone.
  Making a packet is `Say` (`MakeIsSay`), which needs that everything in a packet, the
  prefixes packed with the head included, has the attributes that are selected now.

### The network (`BgpNetwork_proofs`)

* `NetworkTypeCorrect`: `TypeOK`, a neighbour has one route at most in a list and MED
  stays in its range.
* `PathCostCorrect`: `PathCost`, in every network in which all routers have the out
  route-map (`RouteMap = Router`, how I2BGP is deployed: a router without it passes on
  the LOCAL_PREF of whoever it has the route from, which the receiver takes for the
  cost of the link). The claim about the tables is not inductive. `NetworkOK` follows
  a route everywhere it can be: in a table, scheduled in an `adj_out`, and on the wire,
  where MED is the cost of the path up to the sender and LOCAL_PREF the cost of the
  link to come; and `localMed` is the cost of the link or 0, in which case the next
  update tells it. A cost of 0 is covered: `bgp_attr_local_pref` takes it for unknown
  each time, and it adds nothing. `AddModulo` is why
  the 32-bit addition at every hop gives the cost of the path modulo 2^32.
* `SettledIsShortestCorrect`: `SettledIsShortest`, in any network, of any size and with
  any costs (0 included), whose sessions are all external, whose routers all have the
  out route-map and compare MED always and without `deterministic-med` (`External`),
  and whose MED does not wrap around: every path without a loop costs less than
  `MedRange` (`NoWrap`). The properties of a single table or session do not give it: what is
  selected here has to be traced to what is selected there through four places, and
  an update that was overtaken, rejected or lost may sit in each.

  The invariant `Consistent` relates them one to the next. A router that has nothing to
  process has selected a route of the lowest MED, and one that changed waits
  (`Selections`); what an open session has scheduled or sent last is the selected route,
  unless that one changed, and nothing of a closed one is left (`Sides`); the last update
  sent is the last on the wire or, when the wire is empty, what the receiver holds, charged
  with the link, or nothing when its AS path has the receiver's AS (`Agreed`); and AS paths
  tell the routers a route came through (`RoutesTraced`, `OutTraced`), so that the
  loop check rejects a route exactly when it came through the router, and a route with the
  attributes that `bgp_update` compares is the same route. `NameAssumption` keeps a
  withdrawal and the absence of an attribute from being taken for attributes.

  When nothing waits (`AtRest`), a route is the selected route of its peer and one link
  more (`RestFrom`), so that it leads to a live origin (`RestPath`, by induction on its
  length) and costs what that path costs (`RestCost`). No path costs less (`RestLeast`, by
  induction on the path): a neighbour's selected route is accepted, at the cost of the link, or was
  rejected because it came through this router, whose own selected route then costs no
  more (`RestAlong`). That a router announces its best route only hides nothing here.

### Damping (`BgpDamp_proofs`)

For any finite set of routes, any number of reuse lists and any parameters that meet
the assumptions below:

* `DampTypeCorrect`: `TypeOK`, no penalty above both the ceiling and `DEFAULT_PENALTY`
  (`Highest`).
* `LinkedCorrect`: `Linked`.
* `TimelyReuseCorrect`: `TimelyReuse`.
* `DampPrefixCountCorrect`: `PrefixCount`.

`DampAssumption` gives the parameters their types and no order but one: the command
takes any reuse, suppress and maximum suppress values (`bgpd/bgp_route.c:11576`), so that the
suppress value may be below the reuse limit or above the ceiling, and the ceiling
below `DEFAULT_PENALTY`. Only `Reuse <= Ceiling` is in the code:
`bgp_damp_parameter_set` multiplies the reuse limit by a power of two
(`bgpd/bgp_damp.c:388`). `Indexed` is where the quotient of `bgp_reuse_index` turns negative; as
an unsigned int it then is larger than any index and takes the last entry of
`reuse_index` (`bgpd/bgp_damp.c:53`), which a penalty below the reuse limit does.

All four theorems assume of the tables what `TablesAssumption` says, the types
too, because a list that is corrupt has no type: a penalty with
which a route is put on a reuse list (`Listed`: at least the reuse limit or the suppress
value, or the sum that another flap of a suppressed route gives) is still above half the limit when that
list is due, also if announcements replace it on the way by what the decay, rounded
down, has left of it. It speaks of the constants only. It is an
assumption about the configuration that the code does not check: the tables of the run satisfy
it; those of `bgp dampening 1 100 200 4` do not, and the properties then fail (hazard at
`bgpd/bgp_damp.c:151`). The assumption is needed for the lists too: `bgp_damp_info_free` takes a
route that is looked at late off a list it is not on.

The four properties need one invariant, `DampOK`, because each operation relies on the others:
a list operation is right only on the list that the flags name, the flags keep the count
only while they agree with it, and the timer keeps the lists only if it is on time.

* `Strung`: the routes that belong to a list can be put in an order in which `next`
  and `prev` link them, starting at its head. `StrungPushed` and `StrungUnlinked` are
  about the pointers, `ListsPushed` and `ListsUnlinked` about all lists at once: no other
  one is touched.
* `Mid`: inside an operation the route that is worked on may be on a list other than the
  one its flags name, or on none, and its count may be out of step. `Sane` is what
  holds at the ends, but for a set of routes that the reuse timer has taken off
  its list and has not looked at yet.
* `Timely`: what a suppressed route has left lasts (`Lasts`) for the steps of time until the
  ring has turned to its list (`Remaining`). `TimelyReuse` itself is not inductive: it
  says nothing of the next step. `LastingShrinks` gives that what lasts for n steps lasts
  for fewer, `TimelyListed` that a route put on a list meets this by the assumption,
  `OffsetTurned` that a turn of the ring takes one off the distance of every other list.
* While damping is off there is no `bgp_damp_info`, so that switching it on may start with
  the timer in any phase.

The walks of the code (the timer along a list, the scan along the table, the clean-up
along all lists) are recursive functions. `FoldDefined` shows that they exist and stay
among good states, and `MembersOf` that the walk along `next` visits the members of a list in
order, once each.

### How they are proved

The library's induction theorems take operators as parameters, which the provers
cannot instantiate. `Fifo_proofs` proves induction over sets of natural numbers
(`SetInduction`, from `LeastNatural`) and uses it for what the recursive functions of
the modules compute: that `Filter` keeps elements, their order and what leads, in
`BgpDecision_proofs` what a pass and the gathering of groups compute (`Recursion` says that
the function exists, `BestComputes` and `GroupComputes` that the code's is it), in
`BgpNetwork_proofs` what `CostOf` adds up, that the pass of a router that always compares
MED ends with the lowest one (`PassComputes`, `LowestMed`) and what holds along a path, and in `BgpDamp_proofs` where the walks along the
lists lead. For the same reason recursion in `Fifo`,
`BgpSelect`, `BgpNetwork` and `BgpDamp` is by recursive functions, and `Decision` is one instance
for all routers: the prover cannot read an instance with a parameter.

### Model-checked only

* Everything temporal but the safety part of `ViewRefined`: `ClearingEnds`, `StaleEnds`,
  `OverLimitEnds`, `Converges`, `Informed`, `Settles` and the action properties'
  fairness. Liveness under fairness and ENABLED are out of the prover's reach.
* `SettledIsShortest` of `BgpNetwork` with internal sessions, as in the run `network`: it
  is true of some such networks only (see the bounds above).
* `Stable`, `OrderFree` and `BestMedOfNeighbour` of `BgpDecision` outside the hypotheses
  above: with `compare-routerid` alone `Stable` holds in every list (the selection does not
  read the mark then), which needs the selections of two lists compared place by place.

## Not modelled

Route-server clients, aggregates and redistributed routes (they add sources of
routes to the table, not new ways to announce them), outbound route filtering and
soft reconfiguration, byte-level packet parsing, AS path regular expressions and
community lists, route-maps other than `set local-preference`, the command line
beyond the commands named above. In `BgpDamp`: the floating-point computation of the
tables, hence also configurations whose `scale_factor` is negative (hazard at
`bgpd/bgp_damp.c:416`), and commands given while damping is off. In `BgpFsm`: deleting a configured
peer, the length of the start timer, prefix overflow (it is in `BgpRib`), and what a
dummy peer does after it lost a collision. Retries and the cycle granularity of
`lib/workqueue.c`. The other daemons, the simulator and the bundled programs are
third-party code that I2BGP does not change.

## Plan

Done: the table, its queues and sessions as the table sees them, the decision
process, the session state machine, the network with accumulating MED, the
advertisement queues against `NeighbourView`, damping; proofs of the safety properties
of `BgpRib`, of `BgpFsm`, of `BgpAdvertise` with its refinement, of `BgpDecision`, of
`BgpNetwork`, and of `BgpDamp`. Next:

1. `SettledIsShortest` with internal sessions, for ASes whose routers are all neighbours
   of each other.
2. Soft reconfiguration and aggregates; peer lifetime and reference counts.
