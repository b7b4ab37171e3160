------------------------------- MODULE GrpNode -------------------------------
(***************************************************************************)
(* The periodic control events of one vehicle (class                       *)
(* ns3::grp::RoutingProtocol): the start-up events of DoInitialize, the    *)
(* position check that decides whether the vehicle is on a road segment or *)
(* in a junction area, the Hello and Ant timers, and the queue of control  *)
(* messages that is flushed after a random jitter.                         *)
(*                                                                         *)
(* Time advances in ticks.  A timer is the number of ticks left until it   *)
(* expires, or Idle.  A tick happens only when no expired timer is waiting *)
(* for its handler, as in a discrete event simulator; handlers that are    *)
(* due in the same tick run in any order.                                  *)
(*                                                                         *)
(* The junctions of the vehicle's trail (VTrace::jlist) are numbered       *)
(* 1..TrailLen in trail order and the vehicle's position is its odometer   *)
(* along the trail, so junction j is at (j - 1) * RoadLength.  Only the    *)
(* distances to the two ends of the current segment are ever computed, and *)
(* segments are straight.  m_trailTrace is a queue that is never pushed to *)
(* after InitialPosition: it is represented by the index of its front.     *)
(* m_direction is GetDirection(m_currentJID, m_nextJID) at all times and   *)
(* is not a variable.  Nor is m_turn, which keeps its initial value: it is  *)
(* set between the radius of a junction area and turnLightRange, and grp.h  *)
(* gives both as 50.                                                       *)
(***************************************************************************)
EXTENDS Integers, Sequences

CONSTANTS
    RoadLength,         \* distance between two junctions of the trail
    JunAreaRadius,      \* radius of a junction area
    MaxSpeed,           \* distance covered per tick, at most
    TrailLen,           \* number of junctions of the trail
    HelloStarts,        \* possible delays of the first Hello (they depend on the address)
    CheckStart,         \* delay of the first position check
    HelloInterval,      \* m_helloInterval
    AntInterval,        \* m_antInterval
    PositionInterval,   \* period of the position check
    MaxJitter,          \* GRP_MAXJITTER
    MaxSeq,             \* GRP_MAX_SEQ_NUM
    MaxMsgs,            \* GRP_MAX_MSGS
    AntsPerTick         \* how many ants the radio can receive in a tick

ASSUME RoadAssumption ==
    /\ RoadLength \in Nat /\ JunAreaRadius \in Nat \ {0}
    /\ RoadLength > 2 * JunAreaRadius
    /\ TrailLen \in Nat /\ TrailLen >= 2

\* A vehicle does not cross a whole junction area between two checks, nor
\* before the first one.
ASSUME SpeedAssumption ==
    /\ MaxSpeed \in Nat \ {0}
    /\ PositionInterval \in Nat \ {0} /\ CheckStart \in Nat \ {0}
    /\ MaxSpeed * PositionInterval \in 0 .. 2 * JunAreaRadius
    /\ MaxSpeed * CheckStart \in 0 .. JunAreaRadius

ASSUME TimerAssumption ==
    /\ HelloStarts \subseteq 1 .. CheckStart
    /\ HelloInterval \in Nat \ {0}
    /\ AntInterval \in Nat \ {0}
    /\ MaxJitter \in Nat
    /\ MaxSeq \in Nat /\ MaxMsgs \in Nat \ {0} /\ AntsPerTick \in Nat

VARIABLES
    pos,                    \* where the vehicle is
    seen,                   \* where it was at the last position check
    positionEvent,          \* start-up event InitialPosition: ticks left, or Idle
    helloEvent,             \* start-up event HelloTimerExpire
    checkEvent,             \* start-up event CheckPositionExpire
    m_currentJID,
    m_nextJID,
    m_trailTrace,           \* index of the front of the queue
    m_JunAreaTag,
    m_helloTimer,
    m_antTimer,
    m_positionCheckTimer,
    m_queuedMessagesTimer,
    m_queuedMessages,
    m_messageSequenceNumber,
    heard,                  \* ants received in this tick
    silence,                \* ticks since the last transmission
    fatal                   \* Timer::Schedule was called on a running timer

roadVars  == <<pos, seen, m_currentJID, m_nextJID, m_trailTrace>>
bootVars  == <<positionEvent, helloEvent, checkEvent>>
queueVars == <<m_queuedMessages, m_queuedMessagesTimer>>
vars == <<roadVars, bootVars, m_JunAreaTag, m_helloTimer, m_antTimer,
          m_positionCheckTimer, queueVars, m_messageSequenceNumber,
          heard, silence, fatal>>

Idle    == -1       \* a timer that is not running, an event that has happened
NoJID   == -1       \* the initial value of the junction variables
Unknown == 0        \* what front() of the exhausted trail queue returns

Junctions == 1 .. TrailLen
Timer(max) == {Idle} \cup 0 .. max
Message == [type : {"HELLO", "ANT"}, seq : 0 .. MaxSeq]
EndOfTrail == (TrailLen - 1) * RoadLength

------------------------------------------------------------------------------
(* Timers (ns3::Timer), outside this code base *)

\* Cancel stops the timer; Schedule on a running timer is NS_FATAL_ERROR.
Cancel(t) == Idle
ScheduleAnt(t) == m_antTimer' = AntInterval /\ fatal' = (fatal \/ t # Idle)

------------------------------------------------------------------------------
(* The control message queue *)

GetMessageSequenceNumber_NoWrap == m_messageSequenceNumber + 1
GetMessageSequenceNumber == (m_messageSequenceNumber + 1) % (MaxSeq + 1)

\* The first message of a batch starts the jitter timer.
QueueMessage_NoTimer(type, j) ==
    /\ m_messageSequenceNumber' = GetMessageSequenceNumber
    /\ m_queuedMessages' =
            Append(m_queuedMessages, [type |-> type, seq |-> GetMessageSequenceNumber])
    /\ m_queuedMessagesTimer' = m_queuedMessagesTimer

QueueMessage_Rearm(type, j) ==
    /\ m_messageSequenceNumber' = GetMessageSequenceNumber
    /\ m_queuedMessages' =
            Append(m_queuedMessages, [type |-> type, seq |-> GetMessageSequenceNumber])
    /\ m_queuedMessagesTimer' = j

QueueMessage(type, j) ==
    /\ m_messageSequenceNumber' = GetMessageSequenceNumber
    /\ m_queuedMessages' =
            Append(m_queuedMessages, [type |-> type, seq |-> GetMessageSequenceNumber])
    /\ m_queuedMessagesTimer' =
            IF m_queuedMessagesTimer = Idle THEN j ELSE m_queuedMessagesTimer

\* The packets that SendQueuedMessages makes of a queue: MaxMsgs messages
\* each, and one more for what is left.
Packets_Unflushed(q) ==
    [i \in 1 .. (Len(q) \div MaxMsgs) |-> SubSeq(q, (i - 1) * MaxMsgs + 1, i * MaxMsgs)]

Packets(q) ==
    LET full == Len(q) \div MaxMsgs
        rest == SubSeq(q, full * MaxMsgs + 1, Len(q))
    IN  [i \in 1 .. full |-> SubSeq(q, (i - 1) * MaxMsgs + 1, i * MaxMsgs)]
            \o (IF rest = <<>> THEN <<>> ELSE <<rest>>)

SendQueuedMessages_FirstPacketOnly ==
    /\ m_queuedMessagesTimer = 0
    /\ m_queuedMessagesTimer' = Idle
    /\ m_queuedMessages' = SubSeq(m_queuedMessages, MaxMsgs + 1, Len(m_queuedMessages))
    /\ silence' = 0
    /\ UNCHANGED <<roadVars, bootVars, m_JunAreaTag, m_helloTimer, m_antTimer,
                   m_positionCheckTimer, m_messageSequenceNumber, heard, fatal>>

\* The jitter timer expires: everything queued is broadcast.
SendQueuedMessages ==
    /\ m_queuedMessagesTimer = 0
    /\ m_queuedMessagesTimer' = Idle
    /\ m_queuedMessages' = <<>>
    /\ silence' = IF Packets(m_queuedMessages) = <<>> THEN silence ELSE 0
    /\ UNCHANGED <<roadVars, bootVars, m_JunAreaTag, m_helloTimer, m_antTimer,
                   m_positionCheckTimer, m_messageSequenceNumber, heard, fatal>>

------------------------------------------------------------------------------
(* Start-up (DoInitialize) *)

Init ==
    /\ pos \in 0 .. RoadLength
    /\ seen = pos
    /\ positionEvent = 0 /\ helloEvent \in HelloStarts /\ checkEvent = CheckStart
    /\ m_currentJID = NoJID /\ m_nextJID = NoJID
    /\ m_trailTrace = 1
    /\ m_JunAreaTag = FALSE
    /\ m_helloTimer = Idle /\ m_antTimer = Idle
    /\ m_positionCheckTimer = Idle /\ m_queuedMessagesTimer = Idle
    /\ m_queuedMessages = <<>>
    /\ m_messageSequenceNumber = MaxSeq
    /\ heard = 0 /\ silence = 0
    /\ fatal = FALSE

\* Loads the trail of the vehicle that starts here and takes its first segment.
InitialPosition ==
    /\ positionEvent = 0
    /\ positionEvent' = Idle
    /\ m_currentJID' = 1 /\ m_nextJID' = 2 /\ m_trailTrace' = 3
    /\ UNCHANGED <<pos, seen, helloEvent, checkEvent, m_JunAreaTag,
                   m_helloTimer, m_antTimer, m_positionCheckTimer, queueVars, m_messageSequenceNumber,
                   heard, silence, fatal>>

------------------------------------------------------------------------------
(* Beaconing *)

\* SendHello, then the next Hello is scheduled.  The first call comes from the
\* start-up event, the others from the timer, which has expired by then.
HelloTimerExpire(j) ==
    /\ \/ /\ helloEvent = 0
          /\ helloEvent' = Idle
          /\ fatal' = (fatal \/ m_helloTimer # Idle)
       \/ /\ m_helloTimer = 0
          /\ UNCHANGED <<helloEvent, fatal>>
    /\ QueueMessage("HELLO", j)
    /\ m_helloTimer' = HelloInterval
    /\ UNCHANGED <<roadVars, positionEvent, checkEvent, m_JunAreaTag, m_antTimer,
                   m_positionCheckTimer, heard, silence>>

\* An ant carries the Hello fields, so sending one postpones the next Hello.
PostponeHello ==
    m_helloTimer' = IF m_helloTimer # Idle THEN HelloInterval ELSE m_helloTimer

\* In a junction area: launch an ant if GetNextForwarderInAnchor finds a
\* forwarder.  A message sequence number is used up in either case.
AntTimerExpire(found, j) ==
    /\ m_antTimer = 0
    /\ IF found
       THEN QueueMessage("ANT", j) /\ PostponeHello
       ELSE /\ m_messageSequenceNumber' = GetMessageSequenceNumber
            /\ UNCHANGED <<queueVars, m_helloTimer>>
    /\ m_antTimer' = AntInterval
    /\ UNCHANGED <<roadVars, bootVars, m_JunAreaTag, m_positionCheckTimer,
                   heard, silence, fatal>>

\* A fresh ant of another vehicle of this junction postpones our own.
SuppressOwnAnt_Anywhere(single) ==
    IF single
    THEN ScheduleAnt(Cancel(m_antTimer))
    ELSE UNCHANGED <<m_antTimer, fatal>>

SuppressOwnAnt(single) ==
    IF m_JunAreaTag /\ single
    THEN ScheduleAnt(Cancel(m_antTimer))
    ELSE UNCHANGED <<m_antTimer, fatal>>

\* The part of ProcessAnt that concerns timers and the message queue, for an
\* ant newer than the neighbour's table entry (an older one is ignored).
\* single: the ant has one junction; mine: we are its next forwarder.  Vehicles
\* launch ants after their first position check, when all have sent a Hello.
ProcessAnt(single, mine, j) ==
    /\ helloEvent = Idle
    /\ heard < AntsPerTick
    /\ heard' = heard + 1
    /\ SuppressOwnAnt(single)
    /\ IF mine
       THEN QueueMessage("ANT", j) /\ PostponeHello
       ELSE UNCHANGED <<queueVars, m_messageSequenceNumber, m_helloTimer>>
    /\ UNCHANGED <<roadVars, bootVars, m_JunAreaTag, m_positionCheckTimer, silence>>

------------------------------------------------------------------------------
(* The position check *)

Abs(n) == IF n < 0 THEN -n ELSE n
Location(jid) == (jid - 1) * RoadLength

\* The distance the code computes to a junction of the trail.  m_map[Unknown]
\* is an access outside the map: any distance may come out.
Distances(jid) ==
    IF jid \in Junctions THEN {Abs(pos - Location(jid))}
                         ELSE {0, JunAreaRadius, JunAreaRadius + 1}

front == IF m_trailTrace \in Junctions THEN m_trailTrace ELSE Unknown

\* Reaching the area of the next junction moves the vehicle one segment on.
AdvanceTrail_Strict(disToNextJun) ==
    \/ /\ disToNextJun < JunAreaRadius
       /\ m_currentJID' = m_nextJID
       /\ m_nextJID' = front
       /\ m_trailTrace' = IF m_trailTrace \in Junctions THEN m_trailTrace + 1 ELSE m_trailTrace
    \/ /\ disToNextJun >= JunAreaRadius
       /\ UNCHANGED <<m_currentJID, m_nextJID, m_trailTrace>>

AdvanceTrail(disToNextJun) ==
    \/ /\ disToNextJun <= JunAreaRadius
       /\ m_currentJID' = m_nextJID
       /\ m_nextJID' = front
       /\ m_trailTrace' = IF m_trailTrace \in Junctions THEN m_trailTrace + 1 ELSE m_trailTrace
    \/ /\ disToNextJun > JunAreaRadius
       /\ UNCHANGED <<m_currentJID, m_nextJID, m_trailTrace>>

\* Entering a junction area starts the ant timer, leaving it stops the timer.
UpdateJunArea_NoExit(disToNextJun, disToCurrJun) ==
    \/ /\ ~m_JunAreaTag /\ disToNextJun < JunAreaRadius
       /\ m_JunAreaTag' = TRUE
       /\ ScheduleAnt(m_antTimer)
    \/ /\ IF m_JunAreaTag THEN TRUE ELSE disToNextJun >= JunAreaRadius
       /\ UNCHANGED <<m_JunAreaTag, m_antTimer, fatal>>

UpdateJunArea_NoCancel(disToNextJun, disToCurrJun) ==
    \/ /\ ~m_JunAreaTag /\ disToNextJun < JunAreaRadius
       /\ m_JunAreaTag' = TRUE
       /\ ScheduleAnt(m_antTimer)
    \/ /\ m_JunAreaTag /\ disToNextJun > JunAreaRadius /\ disToCurrJun > JunAreaRadius
       /\ m_JunAreaTag' = FALSE
       /\ UNCHANGED <<m_antTimer, fatal>>
    \/ /\ IF m_JunAreaTag THEN disToNextJun <= JunAreaRadius \/ disToCurrJun <= JunAreaRadius
                          ELSE disToNextJun >= JunAreaRadius
       /\ UNCHANGED <<m_JunAreaTag, m_antTimer, fatal>>

UpdateJunArea(disToNextJun, disToCurrJun) ==
    \/ /\ ~m_JunAreaTag /\ disToNextJun < JunAreaRadius
       /\ m_JunAreaTag' = TRUE
       /\ ScheduleAnt(m_antTimer)
    \/ /\ m_JunAreaTag /\ disToNextJun > JunAreaRadius /\ disToCurrJun > JunAreaRadius
       /\ m_JunAreaTag' = FALSE
       /\ m_antTimer' = Cancel(m_antTimer)
       /\ UNCHANGED fatal
    \/ /\ IF m_JunAreaTag THEN disToNextJun <= JunAreaRadius \/ disToCurrJun <= JunAreaRadius
                          ELSE disToNextJun >= JunAreaRadius
       /\ UNCHANGED <<m_JunAreaTag, m_antTimer, fatal>>

CheckPositionExpire ==
    /\ \/ checkEvent = 0 /\ checkEvent' = Idle
       \/ m_positionCheckTimer = 0 /\ UNCHANGED checkEvent
    /\ \E disToNextJun \in Distances(m_nextJID), disToCurrJun \in Distances(m_currentJID) :
          /\ AdvanceTrail(disToNextJun)
          /\ UpdateJunArea(disToNextJun, disToCurrJun)
    /\ m_positionCheckTimer' = PositionInterval
    /\ seen' = pos
    /\ UNCHANGED <<pos, positionEvent, helloEvent, m_helloTimer, queueVars,
                   m_messageSequenceNumber, heard, silence>>

------------------------------------------------------------------------------
(* Time and motion *)

Timers == {m_helloTimer, m_antTimer, m_positionCheckTimer, m_queuedMessagesTimer,
           positionEvent, helloEvent, checkEvent}
Elapse(t) == IF t = Idle THEN Idle ELSE t - 1

\* Nothing is due: a tick passes while the vehicle drives on or stands.  It
\* parks at the last junction of its trail.
Tick ==
    /\ 0 \notin Timers
    /\ \E d \in 0 .. MaxSpeed : pos + d <= EndOfTrail /\ pos' = pos + d
    /\ positionEvent' = Elapse(positionEvent)
    /\ helloEvent' = Elapse(helloEvent)
    /\ checkEvent' = Elapse(checkEvent)
    /\ m_helloTimer' = Elapse(m_helloTimer)
    /\ m_antTimer' = Elapse(m_antTimer)
    /\ m_positionCheckTimer' = Elapse(m_positionCheckTimer)
    /\ m_queuedMessagesTimer' = Elapse(m_queuedMessagesTimer)
    /\ heard' = 0
    /\ silence' = IF helloEvent = Idle THEN silence + 1 ELSE 0
    /\ UNCHANGED <<seen, m_currentJID, m_nextJID, m_trailTrace, m_JunAreaTag,
                   m_queuedMessages, m_messageSequenceNumber, fatal>>

Next ==
    \/ InitialPosition
    \/ \E j \in 0 .. MaxJitter : HelloTimerExpire(j)
    \/ \E found \in BOOLEAN, j \in 0 .. MaxJitter : AntTimerExpire(found, j)
    \/ \E single, mine \in BOOLEAN, j \in 0 .. MaxJitter : ProcessAnt(single, mine, j)
    \/ CheckPositionExpire
    \/ SendQueuedMessages
    \/ Tick

Spec == Init /\ [][Next]_vars

\* The simulator keeps processing events: some step is always taken.  Ants
\* cannot arrive without end in a tick, so no other fairness is needed.
FairSpec == Spec /\ WF_vars(Next)

------------------------------------------------------------------------------
(* Properties *)

\* Every variable has the type of the member it models; the state space is
\* the one the C++ class declares.
TypeOK ==
    /\ pos \in 0 .. EndOfTrail /\ seen \in 0 .. EndOfTrail
    /\ positionEvent \in Timer(0) /\ checkEvent \in Timer(CheckStart)
    /\ helloEvent \in {Idle} \cup Nat
    /\ m_currentJID \in Junctions \cup {NoJID, Unknown}
    /\ m_nextJID \in Junctions \cup {NoJID, Unknown}
    /\ m_trailTrace \in 1 .. TrailLen + 1
    /\ m_JunAreaTag \in BOOLEAN
    /\ m_helloTimer \in Timer(HelloInterval)
    /\ m_antTimer \in Timer(AntInterval)
    /\ m_positionCheckTimer \in Timer(PositionInterval)
    /\ m_queuedMessagesTimer \in Timer(MaxJitter)
    /\ m_queuedMessages \in Seq(Message)
    /\ m_messageSequenceNumber \in 0 .. MaxSeq
    /\ heard \in 0 .. AntsPerTick
    /\ silence \in Nat
    /\ fatal \in BOOLEAN

\* No handler calls Timer::Schedule on a timer that is still running, which
\* would abort the simulation: the position check schedules the ant timer on
\* entering a junction and cancels it on leaving, ProcessAnt and AntTimerExpire
\* reschedule it while inside, and ants keep rescheduling the Hello timer.
NoFatalReschedule == ~fatal

\* The ant timer runs exactly while the vehicle believes it is in a junction
\* area, so ants are launched from junctions only and by every vehicle there.
AntTimerTracksJunction == m_JunAreaTag <=> m_antTimer # Idle

\* A queued control message always has a running jitter timer that will send
\* it: none is left behind by the batching of QueueMessage.
NoMessageStranded == m_queuedMessages # <<>> <=> m_queuedMessagesTimer # Idle

\* From its first Hello on, a vehicle is never silent for longer than a Hello
\* interval plus the jitter, although ants keep cancelling the Hello timer.
SilenceBounded == silence <= HelloInterval + MaxJitter

\* As long as the trail lasts, the segment m_currentJID -> m_nextJID is the
\* one the vehicle was on at the last check (seen from the near edge of each
\* junction's area).
SegmentIsTracked ==
    m_nextJID \in Junctions /\ m_positionCheckTimer # Idle =>
        /\ m_currentJID \in Junctions /\ m_nextJID = m_currentJID + 1
        /\ m_currentJID = 1 \/ Location(m_currentJID) - JunAreaRadius <= seen
        /\ seen < Location(m_nextJID) - JunAreaRadius

\* A vehicle that is marked as in a junction area was within the radius of
\* m_currentJID at the last check.
TagMeansInArea ==
    m_JunAreaTag /\ m_nextJID \in Junctions =>
        Abs(seen - Location(m_currentJID)) <= JunAreaRadius

\* SendQueuedMessages broadcasts each queued message once and in order, in
\* packets that are neither empty nor longer than GRP_MAX_MSGS.
PacketsCarryTheQueue ==
    LET ps == Packets(m_queuedMessages)
        At(i) == ps[((i - 1) \div MaxMsgs) + 1][((i - 1) % MaxMsgs) + 1]
    IN  /\ \A k \in DOMAIN ps :
              /\ Len(ps[k]) <= MaxMsgs
              /\ ps[k] # <<>>
              /\ k < Len(ps) => Len(ps[k]) = MaxMsgs
        /\ \A i \in DOMAIN m_queuedMessages :
              /\ (i - 1) \div MaxMsgs < Len(ps)
              /\ At(i) = m_queuedMessages[i]

\* Whatever is queued is broadcast in the end.
QueueDrains == m_queuedMessages # <<>> ~> m_queuedMessages = <<>>

\* grp.h says of the position check that it decides whether the vehicle is on
\* a segment or within a junction's area: a vehicle that is inside the area of
\* a junction it has driven up to is marked so.
AreaMeansTagged ==
    m_nextJID \in Junctions /\ m_currentJID > 1 /\ m_positionCheckTimer # Idle
    /\ Abs(seen - Location(m_currentJID)) < JunAreaRadius => m_JunAreaTag

==============================================================================
