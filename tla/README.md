# TLA+ models of the GRP vehicular routing protocol

This directory is a verification project for the routing protocol in
`src/src/grp` (an ns-3.30.1 fork): TLA+ modules translated from the C++ code,
TLC configurations that check them on small instances, and TLAPS proofs of the
main results for every value of the parameters. `PROJECT.json` lists the runs,
the mutants that show each property can fail, the source lines behind each
definition, the findings, the hazards and the theorems.

## 1. The system

The repository is ns-3 with one protocol of its own. Vehicles drive along
trails over a road map of junctions; they send beacons (Hellos), and while in a
junction area also *ants*, which explore road segments and leave pheromone; data packets go
to a sink (a road-side unit), hop by hop along a list of junctions, and are
carried when there is no next hop.

| Component | State | Operations | Hard behaviour |
|---|---|---|---|
| Control plane (`grp.cc`) | start-up events, Hello, ant, position and jitter timers, control message queue, `m_currentJID`, `m_nextJID`, `m_trailTrace`, `m_JunAreaTag` | `InitialPosition`, `HelloTimerExpire`, `AntTimerExpire`, `CheckPositionExpire`, `QueueMessage`, `SendQueuedMessages` | several handlers start and stop the same timers; position is only sampled |
| Neighbour table (`grp.cc`) | `m_neiTable`, pending `NeiTableCheckExpire` events | `ProcessHello`, `ProcessAnt`, `NeiTableCheckExpire` | lost and delayed beacons, wrapping sequence numbers, rounded validity, several checks in flight |
| Data plane (`grp.cc`) | `m_pwaitqueue`, `m_squeue`, `m_wTimeCache`, scheduled `SendFromSQueue` calls, TTL and GRP header of each packet | `RouteOutput`, `AddHeader`, `RouteInput`, `CheckPacketQueue`, `SendFromSQueue` | packets move between queues and pass the loopback device; carry time is shared by a flow |
| Path in the data header (`grp.cc`) | `path`, `next_jid_idx` | `AddHeader`, `RouteInput`, `CheckPacketQueue` | index into a list that is re-planned on the way |
| Ants and pheromone (`grp.cc`) | `Graph` (the adjacency matrix that carries pheromone), `m_received_last_ant` | `AntTimerExpire`, `ProcessAnt`, `update_matrix` | the same ant is heard several times; version against list length |
| Geometry (`grp.cc`) | none | `GetDirection`, `isBetweenSegment`, `IntraPathRouting`, `GetNearestJID` | boundaries of areas and segments |
| Graph search (`grp.cc`) | the vehicle's two edges in `Graph` | `DijkstraAlgorithm`, `DijkstraAlgorithm2`, `isAdjacentVex` | extra vertex, backtracking over predecessors |
| Headers (`grp-header.*`) | none | `Serialize`, `Deserialize`, `SecondsToEmf`, `EmfToSeconds` | sizes, rounding, two bodies written from one offset |
| Map and traces (`digitalMap.*`) | junctions, trails | file parsing | none: inputs of the models |
| Road information server (`myserver.*`) | token and block lists | path search | not installed by the scenario |
| Scenario (`MyVanet.cc`) | `PLog`, `SendCount`, `recount`, `DropCount` | `SendTestPacketToLC_DIS`, `ReceivePacket`, `DropPacket`, `StorePacket` | numbers kept by different callbacks must add up |
| Batch driver (`simulation.py`) | `conf.txt`, loop counters | the experiment loop | killed and restarted at any statement |
| ns-3 itself | scheduler, `Timer`, IPv4, Wi-Fi | upstream | external definitions |

Interactions. Everything of one vehicle runs in simulator events, one at a time;
concurrency is the order of events due at the same time and the messages between
vehicles. Timers drive the control plane, which feeds the message queue; the
queue is broadcast; a received packet is taken apart by `RecvGrp` and each
message goes to `ProcessHello` or `ProcessAnt`; these renew the neighbour table,
may postpone this vehicle's own ant and Hello, may forward the ant, and finally
call `CheckPacketQueue`, which looks at the stored data packets again. The data
plane reads the neighbour table and the pheromone for its next hop.

What makes each part correct, in short: no timer is lost or started twice and
the vehicle keeps beaconing; the tracked segment is the one the vehicle is on;
an entry of the neighbour table is never older than the hold time and a symmetric
one is mutual; every data packet is in exactly one place, has the header its
receiver expects, and comes to rest; the path index stays inside the path; an
ant deposits once; the searches return shortest paths; what is decoded is what
was encoded.

## 2. Modules

| Module | Models |
|---|---|
| `GrpNode` | control plane of one vehicle |
| `GrpNeighbors` | beacons and neighbour tables of several vehicles |
| `GrpCarry` | data plane of several vehicles and the sink |
| `PacketLife` | abstract life of data packets and the ledger of the scenario |
| `GrpCarryLife` | the refinement mapping from `GrpCarry` to `PacketLife` |
| `GrpPath` | the junction list in the data header |
| `GrpAnts` | ants, their copies and the pairs they lay pheromone on |
| `GrpGreedy` | geometry and the choice of the next hop |
| `GrpRoads` | the shortest path search and the graph it borrows |
| `GrpHeader` | layout of control messages in a packet |
| `GrpVTime` | operators for the one-byte validity, used by `GrpHeader` |
| `BatchDriver` | the batch driver with crashes and restarts |
| `GrpNodeProofs`, `GrpNeighborsProofs`, `GrpCarryProofs`, `GrpHeaderProofs` (also of `GrpPath`), `GrpAntsProofs`, `GrpGreedyProofs`, `GrpRoadsProofs`, `BatchDriverProofs` | theorems |
| `MC...` | instances for TLC |

Variables and actions carry the names of the C++ members and methods. An
operator `X_Something` next to `X` is a mutated form of `X`, a plausible bug,
that no specification uses: replacing `X` by it must violate a property (the
`mutants` of `PROJECT.json`).

### GrpNode

A timer is the number of ticks left, or `Idle`. Handlers are enabled when their
timer is 0, and time passes only when nothing is due, as in ns-3's scheduler;
handlers due together run in any order. The start-up events of `DoInitialize`
are timers of their own. The vehicle moves along its trail by any distance up to
`MaxSpeed` per tick; junctions are numbered along the trail, which makes the
distances to the two ends of the current segment the code's distances, for
straight segments. The queue `m_trailTrace` is an index. At the end of the trail
the code takes `front()` of an empty queue and indexes the map with it: the model
lets any distance come out, and the road properties stop there. Of `ProcessAnt`
this module has the effect on timers and queue, the rest is in `GrpNeighbors`
and in `GrpAnts`. `fatal` records a call of `Timer::Schedule` on a running
timer, which aborts the simulation. The first Hello of a vehicle comes a second and
one millisecond per vehicle number after `InitialPosition`, the first position check two seconds
after it (`grp.cc:348-352`), and no vehicle launches an ant before its first check. So with up to a
thousand vehicles all have sent a Hello before the first ant is heard, and `ProcessAnt` has that as a guard. Not included: `SpeedCheckExpire`, which only measures speed, and the
branch that sets `m_turn` (`grp.cc:1230-1233`). That branch needs a distance above `JunAreaRadius` and
within `turnLightRange`; `grp.h:211` and `grp.h:214` set both to 50, so it is dead code.

### GrpNeighbors

Each vehicle queues Hellos and ants, broadcasts its queue when the jitter timer
expires to any subset of the others (the rest lose the packet), and each
receiver takes the messages one by one. The list of neighbours in a beacon is
fixed when it is queued. A beacon is ignored if the entry is as new or newer by
plain comparison of 16-bit sequence numbers (the wrap is kept, with `MaxSeq`), or,
for a Hello, if the sender drives elsewhere (`far`, nondeterministic). Otherwise
it replaces the entry and schedules one check. `checks` holds the pending checks;
two that are due at the same instant for the same neighbour are one element,
since the second finds what the first left. A check for a missing neighbour
creates and erases an entry within one call in the code; in the model it leaves `NoEntry`. `VTime` is the
validity as the receiver decodes it, in ticks. `age` and `gap` are
clocks for the properties. An ant's body overwrites the first part of
its Hello body in the packet, so a receiver may miss itself in the list:
`intact`. That bytes of an ant happen to look like the receiver's own address is
not modelled, except where they are the address of the next forwarder or of the last
sender, both of which the list contained. Ants may be launched at any time after the first Hello; `GrpNode` says
when they really are.

### GrpCarry

Packets are records of identity, TTL and presence of the GRP header. The next
hop found by `IntraPathRouting` is nondeterministic: any vehicle, the sink or
none. A route through the loopback device brings the packet back to the vehicle's
own `RouteInput`; `SendFromSQueue` always sends that way, one packet per call,
and costs a TTL. `CheckPacketQueue` is one action: its loop (`Examined`) over the
stored packets from last to first, with the shared carry time per source, then the call
of `SendFromSQueue`. The radio may lose any transmission. The path in the data
header is in `GrpPath`, the choice of the next hop in `GrpGreedy`;
`SendFromDelayQueue` is never called in the code. The counters of `MyVanet` (`SendCount`,
`recount`, `DropCount`) are variables of their own, raised once per call of the callbacks: a packet
that was reported twice would be counted twice.

### PacketLife and GrpCarryLife

`PacketLife` is what the scenario may believe of a packet: it is sent, travels, is
stored, travels again, and ends delivered, dropped or lost, once. With it go the
counters of `MyVanet`: `PLog` is struck out on delivery only, so the "Store Error"
that is printed is the log less the drops. `GrpCarryLife` maps every queue, device
and transmission of `GrpCarry` to one of these states and each counter to itself; so
a second report of the same packet would be no step of `PacketLife`. A packet that IPv4 would discard unreported maps to
no state, so the refinement excludes it. `ImplementsPacketLife` is the refinement.

### GrpPath

One packet and the vehicle that holds it. A plan is any simple road path that the
search could return at the vehicle's position (`GrpRoads` checks the search), since
the weights differ between vehicles and change. `RouteInput` has its branches: no
list, on a segment, in a junction the list led to, in another junction. A read
behind the end of a list gives any junction or something off the map. `aim` records
the last junction `IntraPathRouting` was asked for. The vehicle moves between events
but not while the packet is in its loopback device.

### GrpAnts

An ant carries its junction list, a version, the number of time stamps and the next
forwarder. It is queued, broadcast to any subset of the others, and processed in
any order. What a forwarder does depends on whether it is in a junction area,
whether the junction is on the list already, and whether it recorded this version
before; in the last case it sends the ant on as it came, naming itself, and nobody
takes it further. `deposits` lists the pairs `update_matrix` laid pheromone on.

### GrpGreedy

Junction A with roads at a right angle to B, where the sink stands, and C. Each
vehicle has a table of places its neighbours announced, at most `Drift` from where
they are. `IntraPathRouting` is the loop (`Best`) over the table in order of addresses
with the running minimum of the code, `isBetweenSegment` and the range test. Coordinates
are integers and distances squared, which orders them as the square roots do.

Plans. Each vehicle searches its own graph, which has the roads ants have told it of, so its plan is one
of `Plans`: a vehicle on the road to B knows both ends of its segment, others may have no way to B. With a
plan the source sends the packet to the first junction of it. Without one `RouteOutput` aims at the
nearer end of the segment and sends an empty list along (`grp.cc:1514-1526`); in a junction's area, or with
no next hop, the packet goes through the loopback device and is stored. A receiver plans for a packet without a
list (`grp.cc:1781-1802`), goes on along the list in the area of the junction it led to, and plans anew in
the area of another one. `goals` keeps the junction of every hop.

With right positions each hop is nearer to the goal, but that does not exclude circles,
since goals change: a source without a plan on the road from A to C can aim at C, and the first vehicle with a plan
sends the packet back to A, on the same road and perhaps to the source itself; and outside the junction areas
the code does not ask which road a neighbour is on, so a packet on the road from C towards A can be given to a vehicle
on the road to B, be sent back to A and return to that vehicle. `ReturnsOnlyWithNewGoal` says that a return
always comes with a goal further along C, A, B: goals are never taken back, so there are at most two changes and
no circle. The places of the run make both kinds of return happen.

### GrpRoads

`DijkstraAlgorithm` one turn of its outer loop at a time, then the way back along
`parent`, and the callers around it, which put the vehicle into the graph and take it
out again. Between searches ants change weights. The reference is the minimum over
all ways without a repeated vertex. The arrays in the code have `m_JuncNum` elements and element
`m_JuncNum` is used as well (`grp.cc:1608-1614`), which C++ does not define; with 49
junctions the stack arrays are padded beyond it, and the model lets it exist.

### GrpHeader and GrpVTime

A buffer is a sequence of cells that remember the byte of which field they hold, so
"read intact" means the cells of a field hold its own bytes. Sizes are the code's
separate formulas, not the lengths of what is written. `SendPacket` puts messages
behind each other; the length in the packet header is a field of 16 bits and wraps as such, and the socket
refuses a packet of more than `MaxDatagram` bytes (65507 for UDP over IPv4, `udp-socket-impl.cc:52`; here any number
below 2^16). So the wrap never happens on a packet that is sent, which `FramingKept` depends on. One step of `RecvGrp` is one turn of its loop. `GrpVTime` counts
time in units of `GRP_C/32`, so that values halfway between two codes occur. The
initial state, steps and specification are `HeaderInit`, `HeaderNext` and `HeaderSpec`,
so that one module can prove about this one and `GrpPath`. (In `GrpGreedy` it is `GreedyInit`,
`GreedyNext` and `GreedySpec`, for the run `route`.)

### BatchDriver

One action per statement that touches `conf.txt` or runs a simulation. `open` for
writing empties the file, `close` writes the line, and the driver may die between any
two steps, also while it waits for the simulation, which may then have written its
row or not.

## 3. Runs

| Run | Result | States | Shows |
|---|---|---|---|
| `node` | pass | about 51,000 | timers, queue, silence, road tracking, `QueueDrains` |
| `node_edge` | violation of `AreaMeansTagged` | | see findings |
| `beacons` | pass | about 665,000 | neighbour tables: freshness, symmetry, bounded absence; packets: boundaries of messages, headers, Hellos and ants, rounding of validities |
| `neighbors_rounded` | violation of `ExpiredIsCleaned` | | see findings |
| `carry` | pass | about 30,000 | one copy, headers, TTL, service of queues, `PacketsComeToRest`, `ImplementsPacketLife` |
| `carry_ends` | violation of `CarryingEnds` | | see findings |
| `path` | pass | about 15,600 | index and list fit together, the aim of a packet leads to the RSU |
| `ants` | pass | about 421,000 | copies agree with their version, one deposit per pair, one live copy, every forwarding is progress |
| `route` | pass | about 646,000 | search: shortest paths, no trace in the graph, `SearchEnds`; hops: best neighbour, with right positions a packet comes back only with a new goal, circles of old positions are small |
| `greedy_road` | violation of `KeepsToRoad` | | see findings |
| `header_ant` | violation of `AntCarriesHello` | | see findings |
| `batch` | pass | about 78,000 | parameters after restarts, repeats, `BatchEnds` |

Two runs check two modules side by side: `beacons` has `GrpNeighbors` and `GrpHeader`, `route` has `GrpRoads` and
`GrpGreedy`. The modules of a pair have no variable in common and neither reads the other's. In the initial state
either may take its first step, and from then on only that one moves, while the other
keeps its initial state; so every reachable state of each module alone is reached, and nothing is
multiplied. A property of one module says of the states of the other only that it holds initially.

Bounds and why they are enough.

* `node`: three junctions give a first, a middle and a last segment. The radius
  (2) and the check period (2 ticks at speed 1) let one, two or three checks fall into an area and
  let a check hit its edge exactly. The first Hello comes a tick before the first check or together with it,
  as in the code; a one-bit sequence number wraps; two
  messages per packet make the queue cross the packet limit; one ant per tick
  reaches every order of an ant and a timer.
* `beacons`: two vehicles are a sender and a receiver in both directions, which
  is all the table of one pair depends on (for three or more there are the
  theorems). With interval 2 and jitter 1 beacons of one vehicle overtake checks, and a one-bit
  sequence number makes every second beacon of a known neighbour look old. At most
  two messages wait for a jitter timer when another ant is queued (`MaxBatch`). In a packet two messages put
  each kind behind each kind; none or five
  neighbours and one or two junctions make the overlap of Hello and ant body end before,
  inside and behind the list of neighbours; the socket accepts all such packets but the longest (`MaxDatagram`).
  The ten validities lie on, between and halfway between
  codes, and where the mantissa carries into the exponent, for the lowest four exponents; the
  others are alike, and the arithmetic is exact.
* `carry`: two vehicles and two packets of one source share a carry time; TTL 5
  lets a packet be stored, sent again through loopback and handed back and forth
  until the TTL ends; carry time 2 lets it expire before and after a second packet
  is stored.
* `path`: four junctions, a square with one diagonal, give lists of one to four
  junctions, vehicles on and off the list of their packet, and detours.
* `ants`: an ant is only compared with copies of itself, so one ant suffices; three
  vehicles are a launcher, a forwarder and one that overhears and forwards later, and
  three junctions let a list grow twice.
* `route`: every graph over four junctions with weights 1 and 4, where one heavy edge and three
  light ones make the longer way in hops the shorter one in length. For the hops three vehicles are what a choice
  between two neighbours takes; the places
  are at the junction, inside its area, at its edge, outside and in the area at the far end; the
  range reaches across the corner; the drift is shorter than
  the range; three hops let a packet come back and be handed on again.
* `batch`: three distances with two runs each and two crashes, so that a restart is
  interrupted by another.

`ants` and `batch` come to an end as the code they model
does, and do not check for deadlock. In `beacons` and `route` a packet that was read, stored, delivered or dropped
may rest; that all other states have a step is checked.

Fairness. `node` assumes only that some enabled step is taken: the simulator never
stops while events are pending, and the ants per tick are bounded. `carry` assumes that scheduled
calls happen, time passes, transmissions end one way or the other, the loopback device
delivers, and a vehicle with stored packets keeps being triggered by beacons (its
neighbours beacon at least every Hello interval and jitter, which `SilenceBounded`
shows). It does not assume that a next hop ever appears. `route` assumes that a loop
that was entered goes on (it runs within one event), `batch` that the script goes on unless it
crashes; none assumes that a message is heard. In `node`, `beacons` and `carry` nothing
deadlocks: time can always pass once nothing is due.

## 4. Findings

* `AreaMeansTagged`: the segment changes at `distance <= JunAreaRadius`
  (`grp.cc:1220`) but the junction mark is set at `distance < JunAreaRadius`
  (`grp.cc:1238`); exactly on the edge the vehicle crosses the junction unmarked and
  launches no ant. `grp.h:297` says the check decides which of the two holds.
* `ExpiredIsCleaned`: an entry is checked once, one hold time after the beacon; if the
  one-byte validity rounds up (1.1 s becomes 1.125 s), that check is too early and
  the entry of a silent neighbour stays for ever. `grp.h:299` says the check cleans
  expired entries. The default interval of 1 s is exact.
* `CarryingEnds`: the carry time is per source and destination, and erased when it
  expires for one packet; another stored packet of the flow is then carried for
  ever if no next hop appears. `grp.cc:1816` says until a next hop or expiry.

* `AntCarriesHello`: the Hello and the ant body of an ant are written from the same offset
  (`grp-header.cc:374-375`), so the ant overwrites the beginning of the Hello it carries, and the receiver takes
  other bytes for the sender's speed and position. The comments at `grp.cc:1163` ("carry hello message") and
  `grp.cc:739` ("update hello info", the code at 755-765) say the Hello arrives. `BodiesIntact` and `FramingKept` show that
  nothing else in the packet suffers.
* `KeepsToRoad`: outside the junction areas a packet can be handed to a vehicle on another road
  (`grp.cc:1472`), although the comment at `grp.cc:1470-1471` says the test prevents this.
  `ReturnsOnlyWithNewGoal` shows that with right positions no circle comes of it.

Observations, which the passing properties describe rather than refute:

* For a packet stored in the RSU's own junction `CheckPacketQueue` reads the second
  junction of a list of one (`grp.cc:542`), for lack of the test against `m_rsujid` that
  `RouteInput` makes (`grp.cc:1845`). `OverrunOnlyAtRsu` shows that this is the only case.
* An ant dies when the forwarder it names has overheard the same version before: it is
  sent on naming the forwarder itself (`GrpAnts`, `ForwardQueue`).
* With positions a little old, two vehicles side by side can pass a packet back and
  forth until its TTL ends (`GrpGreedy`; `LoopsAreShort` bounds their distance).
* Two time stamps of an ant within one millisecond give 0/0 (`grp.cc:920`); the weight of
  that road is then NaN for good and the search passes it by.
* The cache of received ants is never purged, so after 2^16 ants of one vehicle
  new ants with old numbers are ignored.
* `simulation.py` ignores the exit status: a failed simulation leaves no row and is not
  repeated. A driver killed between `open` and `close` leaves an empty `conf.txt`
  that every later start fails on (`BatchEnds` excepts this case).

## 5. Proofs

All hold for every value of the constants that satisfies the named assumptions. Every
invariant and action property of the passing runs is proved.

`GrpNodeProofs`, from `RoadAssumption`, `SpeedAssumption`, `TimerAssumption`:

* `TypeCorrect`, `NeverFatal`, `AntTimerCorrect`, `QueueCorrect`, `SilenceCorrect`
  from the invariant `TimerInv`. The properties alone are not inductive: that the
  start-up Hello does not meet a running Hello timer needs `BootHandsOver` (the
  timer runs if and only if the event has happened), and the bound on silence needs
  `SilenceBudget` (the silence so far plus what the Hello timer or the jitter timer
  has left is within bounds).
* `RoadTracked`, `TagSound` from `RoadInv`, which adds where the
  vehicle can be before the first check and between two checks, in terms of the
  time left on the check timer. The needed assumption is the one on speed: a
  vehicle does not pass a whole junction area between two checks.
* `PacketsCorrect` (`PacketsCarryTheQueue`) from the lemma `PacketsHoldQueue`, which is about
  any queue: the lengths of the packets and the place of the i-th message, by
  division with remainder.

`GrpNeighborsProofs`, from `NeighborAssumption`, for any number of vehicles:

* `TypeCorrect`.
* `FreshCorrect` (`EntryIsFresh`), if `VTime <= HoldTime`. Invariant `FreshInv`: for
  each entry the check of its last renewal is still pending, at hold time minus
  age, and its validity left is `VTime` minus age. So when that check runs the
  validity is over. Without the condition it fails, as `neighbors_rounded` shows.
* `CleanedUnlessRoundedUp`: under the same condition `ExpiredIsCleaned`, the property that
  `neighbors_rounded` refutes, holds. Rounding is therefore the only cause of that finding.
* `SymmetryCorrect` (`SymmetricMeansHeard`), under the same condition. Invariant `HeardInv`:
  what a queued beacon lists was heard by its sender within hold time plus the
  part of the jitter that has passed; what a received beacon lists, within hold time
  plus jitter; for a symmetric entry, within that plus the entry's age.
* `GapCorrect` (`GapBounded`), without a condition on the validity. Invariant `GapInv`: a sender
  has its Hello timer running, and the absence so far plus what is left until its next beacon
  leaves is within bounds; a beacon that has arrived and is not processed yet (`Owed`) stops the account.

`GrpCarryProofs`, from `CarryAssumption`, for any vehicles and any finite set of packets:

* `CarryTypes`, `TtlReported`, `QueueServed`, `CarryTimesFresh`, `HeadersMatch` from `CarryInv`
  (`CarryCorrect`). It sharpens the type invariant: what is stored or waits for `SendFromSQueue` has the
  header and a TTL above 1, enough for the loopback device and the next hop; what is on the air has the header
  exactly if it does not go to the sink.
* `OneCopy` (`OneCopyOfEachPacket`) from its last part, `Everywhere`: there is a function that gives each packet
  its one place, and no place holds a packet twice. The step of `CheckPacketQueue` rests on a loop
  invariant: after each turn the packets of the queue are split into those kept, sent, dropped and
  still to come, and a carry time belongs to one that may stay.
* `Refinement` (`ImplementsPacketLife`): each handler maps to one step of `PacketLife`, or to none; one
  `CheckPacketQueue` maps to one `Review` that drops some packets and puts others on their way.
* `CountersCorrect`: each counter of `MyVanet`, raised by one per call of its callback, is the number of packets
  in its account (`Counted`). A call for a packet that is in the account already would break it; that there is none
  is what `Everywhere` says of the place of a packet before the call. In `CheckPacketQueue` the calls are counted
  along the loop. `Refinement` and `CarryTypes` rest on it.
* `LedgerCorrect`, `EndsFinal`: `LedgerBalances` and `EndsAreFinal` of `PacketLife`, for the data plane. The
  counters alone are not inductive, since a delivery takes away from the log whatever the log
  holds; the log is exactly the packets sent and not delivered, and each counter is the number of
  packets in the states it stands for.

`GrpHeaderProofs`, from `PathAssumption`, for every road map:

* `OverrunCorrect` and `AimCorrect` (`OverrunOnlyAtRsu`, `JunctionAimLeadsToRsu`) from
  `PathInv`, which is the two together with `TypeOK`: what the type says of a list (empty, or a
  simple path of roads to the RSU) is what makes an index inside the list lead along a road, and
  that the aim stays on the list after a hop needs the bound on the index before it.

and from `HeaderAssumption` and `VTimeAssumption`, for lists and packets of any length and any number of exponents:

* `FramingCorrect` (`FramingKept`) and `BodiesCorrect` (`BodiesIntact`) from `HeaderInv` (`HeaderCorrect`): what is not
  read yet are the messages from the next one on, each at the sum of the sizes before it (`Ends`, `Unread`), and what
  is read is what `Received` says. The step of `RecvGrp` is where size and layout meet: the fields that the
  counts are read from lie in front of everything whose place depends on a count (`CountsIntact`), so the message is read
  with its own counts and the computed size is the written one (`SerializePacks`, `HelloLayout`, `AntLayout`,
  `ListBytes`). That the 16-bit length starts the loop with the true number of bytes is `NoWrap`.
* `ValidityCorrect` (`ValidityKept`): a validity is within one power of two, `q`, of what the mantissa stands for
  (`RoundedTo`). Codes of the same exponent are `2 * q` apart, the largest of a smaller exponent is a step below the
  range and the smallest of a larger one is its end, so none is nearer (`NearestCode`), and the order is kept
  across exponents as well (`DecodingMonotone`).

`GrpAntsProofs`, from `AntAssumption`, for any vehicles, junctions and number of ants:

* `CopiesAlwaysAgree`, `DepositsAreSingle`, `AtMostOneLives` from `AntInv` (`AntsCorrect`). `trail` keeps the longest
  list an ant ever had; every copy is a beginning of it (`AllAgree`), no record is beyond it (`Recorded`), and the
  one live copy (`Single`) has all of it (`Newest`), so only it can make the list longer and two lists with one
  version cannot differ. `Unheard` says that an ant not launched yet is nowhere, and `Deposited` that
  the deposits are the pairs up to the record.
* `AntsMakeProgress` (`PassingOnIsProgress`), an action property, from the same invariant.

`GrpRoadsProofs`, from `RoadsAssumption`, for every road map, positive weights and place of the vehicle:

* `ShortestCorrect` (`PathIsShortest`) from `RoadInv` (`RoadsCorrect`). Its part `Tree` is the classical argument: each
  distance is that of the way along `parent`, vertices are visited in the order of their
  distances, and the roads out of a visited vertex have been tried. When the loop stops, nothing that is not visited
  is nearer than the RSU, so along any other way to it the distances bound the length
  of the way from below. The distance along `parent` decreases, so the way back ends and visits
  no vertex twice.
* `RoutesCorrect` (`RoutesUseRoads`): the vehicle is connected to the ends of its segment, and only while
  it searches.
* `SearchShrinks`, the variant behind `SearchEnds`: a turn of the loop leaves fewer vertices unvisited, and a step
  along `parent` a smaller distance (`LeftToDo`).

`GrpGreedyProofs`, from `GreedyAssumption`, for any number of vehicles, places, reach, drift and hops:

* `BestChosen` (`BestNeighbour`) from `GreedyInv` (`GreedyCorrect`), which keeps for every hop that it was the best
  by the table of the vehicle and for every goal how it was set. The loop has the usual invariant of a
  running minimum; that the candidates of the loop are the neighbours on the road ahead is geometry
  (`NearestJunction`, `BetweenFacts`).
* `LoopsShort` (`LoopsAreShort`): the triangle inequality, in whole numbers without square roots
  (`ScalarProduct`, `DrivenSince`, `BothWays`).
* `ReturnsCorrect` (`ReturnsOnlyWithNewGoal`), for sources and forwarders with and without a plan: with right tables every
  hop is nearer to the goal; only a source without a plan sends a packet to C, so no later goal is C; a packet
  on its way to B is never as far from B as the area of C (`NeverFar`), so it is not sent to A
  again (`GoalStays`). A return with the same goal all along would be nearer than itself.

`BatchDriverProofs`, from `BatchAssumption`, for any number of experiments and crashes:

* `ParametersCorrect` (`ParametersMatchNumber`) and `NoneLeftOut` (`NoneSkipped`) from `DriverInv`: at
  each statement, how the number in the file, the number read and the loop counter go together.
  A start finds its own number in the file or one ahead of it, so the test `c >= idx`
  holds exactly at the experiment whose turn it is; an empty file stands for none. The distance is
  a function of the loop counter, which the restart sets back with it.
* `RepeatsCorrect` (`RepeatsAreCrashes`) from `RepeatInv`: experiments behind the number in the file have no row, and if
  that one has its row already, a crash that no repeated row accounts for is set aside for the
  row to come (`Upcoming`).
* `BatchEndsRight` and `BatchShrinks`, the parts of `BatchEnds` that need no fairness: the script stops only
  with all experiments started or on a file that a crash left empty (`EndInv`: a start that finds it empty follows
  a crash), and between two crashes every statement leaves fewer of them (`StatementsLeft`).

Loops. The induction theorems of the library cannot be instantiated here, but that every non-empty set of
naturals has a least element follows from the well-foundedness of `<`, and induction over a set of
naturals from that (`LeastNatural`, `Induction`). Loops are recursive functions, and that such a
function exists is proved for each of them (`ExaminedIsLoop`, `LengthIsSum`, `BestIsLoop`, `ShiftedIsDefined`,
`FlattenIsDefined`).

Only model-checked: liveness (`QueueDrains`, `PacketsComeToRest`, `SearchEnds`, `BatchEnds`). That the program
goes on while it has something left to do is a statement about ENABLED and fairness, which is outside TLAPS as used
here; for the last two the theorems above say that it cannot go on for ever.

## 6. Plan

What is left is a composition of `GrpNode` and `GrpNeighbors` that removes the free ant launches.

## 7. Not modelled

* The road information server: the scenario does not install it and GRP does not use it.
* Reading of maps, traces and configuration, logging and helper wiring.
* `DijkstraAlgorithm2`, `GetPacketNextJID`, `isAdjacentVex`: in a junction
  `RouteOutput` takes the loopback device whatever they return. `EvaporateExpire` and
  `SendFromDelayQueue`: never called. `SpeedCheckExpire`: only measures.
* The data header's layout (a plain list of fields) and the unused header classes.
* The amount of pheromone, positions as floating-point numbers, and what a read outside
  the map or the trail returns.
* ns-3 itself beyond the external definitions. This includes nearly all Python of the
  repository: the generated `modulegen` bindings, `test.py`, the visualizer and the `waf`
  build scripts are upstream files the protocol does not depend on. The one Python
  file of the project itself is `simulation.py`, which is modelled in full.
