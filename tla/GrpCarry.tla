------------------------------- MODULE GrpCarry -------------------------------
(***************************************************************************)
(* The data plane of GRP: how a data packet leaves its source (RouteOutput  *)
(* and AddHeader), how a vehicle forwards, stores or drops it (RouteInput), *)
(* how stored packets are looked at again when a Hello or an ant arrives    *)
(* (CheckPacketQueue), and how they are sent again (SendFromSQueue).  All   *)
(* data packets go to one sink, as the scenario MyVanet sends them.         *)
(*                                                                          *)
(* Which next hop IntraPathRouting finds depends on positions, pheromone    *)
(* and the neighbour table; here it is any vehicle, the sink or none.  That *)
(* no path to the sink's junction is known has the same effect as none.     *)
(*                                                                          *)
(* A route whose output device is the loopback device brings the packet     *)
(* back to the RouteInput of the same vehicle, whatever its gateway is.     *)
(* SendFromSQueue always uses that device.                                  *)
(***************************************************************************)
EXTENDS Integers, Sequences, FiniteSets, SequencesExt

CONSTANTS
    Vehicles,               \* the vehicles
    Sink,                   \* the destination of every data packet
    PacketIds,              \* the data packets that are sent
    SourceOf,               \* the vehicle that sends each of them
    DefaultTtl,             \* time to live of a fresh IPv4 packet
    CarryTimeThreshold      \* how long a packet may be carried

ASSUME CarryAssumption ==
    /\ Sink \notin Vehicles
    /\ IsFiniteSet(PacketIds) /\ SourceOf \in [PacketIds -> Vehicles]
    /\ DefaultTtl \in Nat \ {0} /\ CarryTimeThreshold \in Nat \ {0}

VARIABLES
    unsent,         \* packets the application has not sent yet
    loopback,       \* per vehicle: packets on their way through its loopback device
    air,            \* transmissions between nodes: [pkt, to]
    m_pwaitqueue,   \* per vehicle: the stored packets
    m_squeue,       \* per vehicle: stored packets that found a next hop
    m_wTimeCache,   \* per vehicle and source: how long ago the entry was made, or NoTime
    sendEvents,     \* per vehicle: scheduled calls of SendFromSQueue
    delivered,      \* packets the sink has received
    dropped,        \* packets reported by m_DropPacketTrace
    lost,           \* packets the radio lost
    ttlExpired,     \* packets IPv4 discarded on its own, unreported
    SendCount,      \* what MyVanet counts: packets sent,
    recount,        \*   receptions at the sink,
    DropCount       \*   and calls of its DropPacket

counters == <<SendCount, recount, DropCount>>
vars == <<unsent, loopback, air, m_pwaitqueue, m_squeue, m_wTimeCache, sendEvents,
          delivered, dropped, lost, ttlExpired, SendCount, recount, DropCount>>

NoHop  == "127.0.0.1"
NoTime == -1

\* hdr: the packet carries a DataPacketHeader in front of its UDP header.
Packet == [id : PacketIds, ttl : 0 .. DefaultTtl, hdr : BOOLEAN]
NextHops(v) == {NoHop, Sink} \cup (Vehicles \ {v})

Init ==
    /\ unsent = PacketIds
    /\ loopback = [v \in Vehicles |-> <<>>]
    /\ air = {}
    /\ m_pwaitqueue = [v \in Vehicles |-> <<>>]
    /\ m_squeue = [v \in Vehicles |-> <<>>]
    /\ m_wTimeCache = [v \in Vehicles |-> [s \in Vehicles |-> NoTime]]
    /\ sendEvents = [v \in Vehicles |-> 0]
    /\ delivered = {} /\ dropped = {} /\ lost = {} /\ ttlExpired = {}
    /\ SendCount = 0 /\ recount = 0 /\ DropCount = 0

-------------------------------------------------------------------------------
(* Sending *)

AddHeader(id) == [id |-> id, ttl |-> DefaultTtl, hdr |-> TRUE]

\* RouteOutput picks the route before the header is added: straight to a
\* neighbour, or through the loopback device to the vehicle's own RouteInput.
Output(v, id, nextHop) ==
    \/ /\ nextHop \in Vehicles
       /\ air' = air \cup {[pkt |-> AddHeader(id), to |-> nextHop]}
       /\ UNCHANGED loopback
    \* no next hop, the destination itself, or no path while in a junction area
    \/ /\ loopback' = [loopback EXCEPT ![v] = Append(@, AddHeader(id))]
       /\ UNCHANGED air

RouteOutput(v, id, nextHop) ==
    /\ id \in unsent /\ SourceOf[id] = v
    /\ unsent' = unsent \ {id}
    /\ SendCount' = SendCount + 1
    /\ Output(v, id, nextHop)
    /\ UNCHANGED <<m_pwaitqueue, m_squeue, m_wTimeCache, sendEvents, delivered, dropped,
                   lost, ttlExpired, recount, DropCount>>

-------------------------------------------------------------------------------
(* RouteInput *)

\* The IPv4 forwarding callback (external): the TTL is decremented, and a packet
\* that has none left is discarded without any GRP trace.
Forwarded(pkt) == [pkt EXCEPT !.ttl = @ - 1]

\* The header is taken off on the last hop only.
ForwardedTo_KeepHeader(pkt, nextHop) == [pkt |-> Forwarded(pkt), to |-> nextHop]
ForwardedTo(pkt, nextHop) ==
    [pkt |-> [Forwarded(pkt) EXCEPT !.hdr = (nextHop # Sink)], to |-> nextHop]

\* The first packet of a source that is stored starts the carry time of all.
StorePacket(v, pkt) ==
    /\ m_pwaitqueue' = [m_pwaitqueue EXCEPT ![v] = Append(@, pkt)]
    /\ m_wTimeCache' = [m_wTimeCache EXCEPT ![v][SourceOf[pkt.id]] =
                            IF @ = NoTime THEN 0 ELSE @]

TtlAllows_Zero(pkt) == pkt.ttl > 0
TtlAllows(pkt) == pkt.ttl > 1

\* A packet arrives at vehicle v, from the air or through the loopback device;
\* others are the transmissions that remain in the air.
RouteInput(v, pkt, nextHop, others) ==
    \/ /\ ~TtlAllows(pkt)
       /\ nextHop = NoHop
       /\ dropped' = dropped \cup {pkt.id} /\ DropCount' = DropCount + 1
       /\ air' = others
       /\ UNCHANGED <<m_pwaitqueue, m_wTimeCache, ttlExpired>>
    \/ /\ TtlAllows(pkt)
       /\ nextHop = NoHop
       /\ StorePacket(v, pkt)
       /\ air' = others
       /\ UNCHANGED <<dropped, ttlExpired, DropCount>>
    \/ /\ TtlAllows(pkt)
       /\ nextHop # NoHop
       /\ IF Forwarded(pkt).ttl <= 0
          THEN ttlExpired' = ttlExpired \cup {pkt.id} /\ air' = others
          ELSE air' = others \cup {ForwardedTo(pkt, nextHop)} /\ UNCHANGED ttlExpired
       /\ UNCHANGED <<m_pwaitqueue, m_wTimeCache, dropped, DropCount>>

ReceiveLoopback(v, nextHop) ==
    /\ loopback[v] # <<>>
    /\ loopback' = [loopback EXCEPT ![v] = Tail(@)]
    /\ RouteInput(v, Head(loopback[v]), nextHop, air)
    /\ UNCHANGED <<unsent, m_squeue, sendEvents, delivered, lost, SendCount, recount>>

ReceiveAir(m, nextHop) ==
    /\ m.to \in Vehicles /\ nextHop \in NextHops(m.to)
    /\ RouteInput(m.to, m.pkt, nextHop, air \ {m})
    /\ UNCHANGED <<unsent, loopback, m_squeue, sendEvents, delivered, lost, SendCount, recount>>

\* IsDestinationAddress: local delivery at the sink.
Deliver(m) ==
    /\ m.to = Sink
    /\ air' = air \ {m}
    /\ delivered' = delivered \cup {m.pkt.id} /\ recount' = recount + 1
    /\ UNCHANGED <<unsent, loopback, m_pwaitqueue, m_squeue, m_wTimeCache, sendEvents,
                   dropped, lost, ttlExpired, SendCount, DropCount>>

\* The radio gives up on a transmission (external): nobody is told.
Lose(m) ==
    /\ air' = air \ {m}
    /\ lost' = lost \cup {m.pkt.id}
    /\ UNCHANGED <<unsent, loopback, m_pwaitqueue, m_squeue, m_wTimeCache, sendEvents,
                   delivered, dropped, ttlExpired, counters>>

-------------------------------------------------------------------------------
(* The stored packets *)

\* One turn of the loop of CheckPacketQueue: drop holds the packets dropped, drops
\* the calls of m_DropPacketTrace.  All packets of a call see the same
\* path and the same next hop: both depend on the vehicle alone.
Examine_KeepTime(pkt, s, nextHop) ==
    LET src == SourceOf[pkt.id]
    IN  IF s.time[src] >= CarryTimeThreshold
        THEN [s EXCEPT !.time[src] = NoTime, !.drop = @ \cup {pkt.id}, !.drops = @ + 1]
        ELSE IF nextHop = NoHop
        THEN [s EXCEPT !.wait = Append(@, pkt)]
        ELSE [s EXCEPT !.send = Append(@, [pkt |-> pkt, nexthop |-> nextHop])]

Examine_ReportTwice(pkt, s, nextHop) ==
    LET src == SourceOf[pkt.id]
    IN  IF s.time[src] >= CarryTimeThreshold
        THEN [s EXCEPT !.time[src] = NoTime, !.drop = @ \cup {pkt.id}, !.drops = @ + 2]
        ELSE IF nextHop = NoHop
        THEN [s EXCEPT !.wait = Append(@, pkt)]
        ELSE [s EXCEPT !.time[src] = NoTime,
                       !.send = Append(@, [pkt |-> pkt, nexthop |-> nextHop])]

Examine_DropAndWait(pkt, s, nextHop) ==
    LET src  == SourceOf[pkt.id]
        late == s.time[src] >= CarryTimeThreshold
        t    == IF late
                THEN [s EXCEPT !.time[src] = NoTime, !.drop = @ \cup {pkt.id}, !.drops = @ + 1]
                ELSE s
    IN  IF nextHop = NoHop
        THEN [t EXCEPT !.wait = Append(@, pkt)]
        ELSE [t EXCEPT !.time[src] = NoTime,
                       !.send = Append(@, [pkt |-> pkt, nexthop |-> nextHop])]

Examine(pkt, s, nextHop) ==
    LET src == SourceOf[pkt.id]
    IN  IF s.time[src] >= CarryTimeThreshold
        THEN [s EXCEPT !.time[src] = NoTime, !.drop = @ \cup {pkt.id}, !.drops = @ + 1]
        ELSE IF nextHop = NoHop
        THEN [s EXCEPT !.wait = Append(@, pkt)]
        ELSE [s EXCEPT !.time[src] = NoTime,
                       !.send = Append(@, [pkt |-> pkt, nexthop |-> nextHop])]

\* SendFromSQueue on the queue q of vehicle v: the last packet goes out through
\* the loopback device and the next call is scheduled.  The gateway is ignored.
SendLast_NoReschedule(v, q, events) ==
    IF q = <<>>
    THEN /\ m_squeue' = [m_squeue EXCEPT ![v] = q]
         /\ sendEvents' = [sendEvents EXCEPT ![v] = events]
         /\ UNCHANGED <<loopback, ttlExpired>>
    ELSE LET pkt == Forwarded(Last(q).pkt)
         IN  /\ m_squeue' = [m_squeue EXCEPT ![v] = Front(q)]
             /\ sendEvents' = [sendEvents EXCEPT ![v] = events]
             /\ loopback' = [loopback EXCEPT ![v] = Append(@, pkt)]
             /\ UNCHANGED ttlExpired

SendLast_RefundTtl(v, q, events) ==
    IF q = <<>>
    THEN /\ m_squeue' = [m_squeue EXCEPT ![v] = q]
         /\ sendEvents' = [sendEvents EXCEPT ![v] = events]
         /\ UNCHANGED <<loopback, ttlExpired>>
    ELSE LET pkt == [Last(q).pkt EXCEPT !.ttl = @ + 1]
         IN  /\ m_squeue' = [m_squeue EXCEPT ![v] = Front(q)]
             /\ sendEvents' = [sendEvents EXCEPT ![v] = events + 1]
             /\ loopback' = [loopback EXCEPT ![v] = Append(@, pkt)]
             /\ UNCHANGED ttlExpired

SendLast(v, q, events) ==
    IF q = <<>>
    THEN /\ m_squeue' = [m_squeue EXCEPT ![v] = q]
         /\ sendEvents' = [sendEvents EXCEPT ![v] = events]
         /\ UNCHANGED <<loopback, ttlExpired>>
    ELSE LET pkt == Forwarded(Last(q).pkt)
         IN  /\ m_squeue' = [m_squeue EXCEPT ![v] = Front(q)]
             /\ sendEvents' = [sendEvents EXCEPT ![v] = events + 1]
             /\ IF pkt.ttl <= 0
                THEN ttlExpired' = ttlExpired \cup {pkt.id} /\ UNCHANGED loopback
                ELSE /\ loopback' = [loopback EXCEPT ![v] = Append(@, pkt)]
                     /\ UNCHANGED ttlExpired

SendFromSQueue(v) ==
    /\ sendEvents[v] > 0
    /\ SendLast(v, m_squeue[v], sendEvents[v] - 1)
    /\ UNCHANGED <<unsent, air, m_pwaitqueue, m_wTimeCache, delivered, dropped, lost,
                   counters>>

\* The loop over a queue q: from the last packet to the first, each is dropped,
\* kept or moved to m_squeue.
Examined(q, start, nextHop) ==
    LET s[i \in 0 .. Len(q)] ==
            IF i = 0 THEN start ELSE Examine(q[Len(q) + 1 - i], s[i - 1], nextHop)
    IN  s[Len(q)]

\* ProcessHello and ProcessAnt end with a look at the stored packets, if any;
\* then SendFromSQueue is called.
CheckPacketQueue(v, nextHop) ==
    LET s == Examined(m_pwaitqueue[v],
                      [time |-> m_wTimeCache[v], wait |-> <<>>, send |-> m_squeue[v],
                       drop |-> {}, drops |-> 0],
                      nextHop)
    IN  /\ m_pwaitqueue[v] # <<>>
        /\ m_pwaitqueue' = [m_pwaitqueue EXCEPT ![v] = s.wait]
        /\ m_wTimeCache' = [m_wTimeCache EXCEPT ![v] = s.time]
        /\ dropped' = dropped \cup s.drop /\ DropCount' = DropCount + s.drops
        /\ SendLast(v, s.send, sendEvents[v])
        /\ UNCHANGED <<unsent, air, delivered, lost, SendCount, recount>>

\* A unit of carry time passes.  The loopback device takes no time.
Tick ==
    /\ \A v \in Vehicles : loopback[v] = <<>>
    /\ m_wTimeCache' = [v \in Vehicles |-> [s \in Vehicles |->
            IF m_wTimeCache[v][s] \in {NoTime, CarryTimeThreshold}
            THEN m_wTimeCache[v][s] ELSE m_wTimeCache[v][s] + 1]]
    /\ UNCHANGED <<unsent, loopback, air, m_pwaitqueue, m_squeue, sendEvents, delivered,
                   dropped, lost, ttlExpired, counters>>

Next ==
    \/ \E v \in Vehicles, id \in PacketIds : \E h \in NextHops(v) : RouteOutput(v, id, h)
    \/ \E v \in Vehicles : \E h \in NextHops(v) : ReceiveLoopback(v, h)
    \/ \E m \in air : \E h \in NextHops(m.to) : ReceiveAir(m, h)
    \/ \E m \in air : Deliver(m)
    \/ \E m \in air : Lose(m)
    \/ \E v \in Vehicles : \E h \in NextHops(v) : CheckPacketQueue(v, h)
    \/ \E v \in Vehicles : SendFromSQueue(v)
    \/ Tick

Spec == Init /\ [][Next]_vars

\* Scheduled events happen, transmissions arrive or are lost, time passes, and
\* the vehicles keep hearing beacons; that a beacon brings a next hop is not
\* assumed.
Fairness ==
    /\ WF_vars(Tick)
    /\ \A v \in Vehicles :
          /\ WF_vars(\E h \in NextHops(v) : ReceiveLoopback(v, h))
          /\ WF_vars(SendFromSQueue(v))
          /\ WF_vars(CheckPacketQueue(v, NoHop))
    /\ WF_vars(\E m \in air : Deliver(m) \/ Lose(m) \/ \E h \in NextHops(m.to) : ReceiveAir(m, h))

FairSpec == Spec /\ Fairness

-------------------------------------------------------------------------------
(* Properties *)

\* Every variable holds packets, times and counters of the declared kinds.
TypeOK ==
    /\ unsent \subseteq PacketIds
    /\ loopback \in [Vehicles -> Seq(Packet)]
    /\ air \subseteq [pkt : Packet, to : Vehicles \cup {Sink}]
    /\ m_pwaitqueue \in [Vehicles -> Seq(Packet)]
    /\ m_squeue \in [Vehicles -> Seq([pkt : Packet, nexthop : Vehicles \cup {Sink}])]
    /\ m_wTimeCache \in [Vehicles -> [Vehicles -> {NoTime} \cup 0 .. CarryTimeThreshold]]
    /\ sendEvents \in [Vehicles -> Nat]
    /\ delivered \subseteq PacketIds /\ dropped \subseteq PacketIds
    /\ lost \subseteq PacketIds /\ ttlExpired \subseteq PacketIds
    /\ SendCount \in Nat /\ recount \in Nat /\ DropCount \in Nat

\* Where a packet is: in which account, transmission or place of a queue.
At(queue, name, id) ==
    UNION {{<<name, v, i>> : i \in {j \in DOMAIN queue[v] : queue[v][j].id = id}} : v \in Vehicles}

Whereabouts(id) ==
    {<<"unsent">> : x \in unsent \cap {id}} \cup {<<"delivered">> : x \in delivered \cap {id}}
    \cup {<<"dropped">> : x \in dropped \cap {id}} \cup {<<"lost">> : x \in lost \cap {id}}
    \cup {<<"ttlExpired">> : x \in ttlExpired \cap {id}}
    \cup {<<"air", m>> : m \in {m \in air : m.pkt.id = id}}
    \cup At(loopback, "loopback", id) \cup At(m_pwaitqueue, "stored", id)
    \cup At([v \in Vehicles |-> [i \in DOMAIN m_squeue[v] |-> m_squeue[v][i].pkt]], "sending", id)

\* A packet is in one place: not yet sent, at one vehicle in one queue, on the
\* air once, or accounted for once.  Storing, re-examining and sending through
\* the loopback device neither duplicate nor forget a packet.
OneCopyOfEachPacket == \A id \in PacketIds : Cardinality(Whereabouts(id)) = 1

\* The sink gets packets without the GRP header, since nothing there would
\* take it off before UDP; every other node gets them with it, since
\* RouteInput always takes one off.
HeaderMatchesReceiver ==
    /\ \A m \in air : m.pkt.hdr <=> m.to # Sink
    /\ \A v \in Vehicles :
          /\ \A i \in DOMAIN loopback[v] : loopback[v][i].hdr
          /\ \A i \in DOMAIN m_pwaitqueue[v] : m_pwaitqueue[v][i].hdr
          /\ \A i \in DOMAIN m_squeue[v] : m_squeue[v][i].pkt.hdr

\* IPv4 never discards a packet for its TTL on its own: RouteInput drops and
\* reports it first, also on the extra hop that the loopback device costs.
TtlDropsAreReported == ttlExpired = {}

\* Packets that found a next hop are never left behind: a call of
\* SendFromSQueue is scheduled as long as m_squeue holds one.
SendingQueueIsServed == \A v \in Vehicles : m_squeue[v] # <<>> => sendEvents[v] > 0

\* A carry time runs only while a packet of that source is stored, so a packet
\* never inherits the age of one that has left the vehicle.
NoStaleCarryTime ==
    \A v, s \in Vehicles : m_wTimeCache[v][s] # NoTime =>
        \E i \in DOMAIN m_pwaitqueue[v] : SourceOf[m_pwaitqueue[v][i].id] = s

Stored(id) == \E v \in Vehicles : \E i \in DOMAIN m_pwaitqueue[v] : m_pwaitqueue[v][i].id = id
Gone == delivered \cup dropped \cup lost \cup ttlExpired

\* No packet travels for ever: a packet that was sent ends up delivered,
\* dropped, lost, or stored in a vehicle for good.
PacketsComeToRest == \A id \in PacketIds : <>[](id \in unsent \/ id \in Gone \/ Stored(id))

\* The comment on the carry-and-forward mechanism: a packet is stored until a
\* next hop is available or its carry time is over.
CarryingEnds == \A id \in PacketIds : Stored(id) ~> ~Stored(id)

==============================================================================
