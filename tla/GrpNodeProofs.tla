---------------------------- MODULE GrpNodeProofs ----------------------------
(***************************************************************************)
(* Machine-checked proofs about GrpNode, for every road, every set of      *)
(* intervals and every trail that satisfies the assumptions of the module. *)
(***************************************************************************)
EXTENDS GrpNode, TLAPS

\* A start-up event hands its timer over: the Hello timer runs from the first
\* Hello on, and the position timer from the first check on.
BootHandsOver ==
    /\ helloEvent # Idle <=> m_helloTimer = Idle
    /\ checkEvent # Idle <=> m_positionCheckTimer = Idle

\* How long the vehicle can still stay silent: until the jitter timer if
\* something is queued, else until the Hello timer and a full jitter.
SilenceBudget ==
    /\ helloEvent # Idle => silence = 0
    /\ helloEvent = Idle /\ m_queuedMessages = <<>> =>
            silence + m_helloTimer <= HelloInterval
    /\ m_queuedMessages # <<>> =>
            silence + m_queuedMessagesTimer <= HelloInterval + MaxJitter

TimerInv ==
    /\ TypeOK
    /\ NoFatalReschedule
    /\ AntTimerTracksJunction
    /\ NoMessageStranded
    /\ BootHandsOver
    /\ SilenceBudget

\* GetMessageSequenceNumber wraps within its 16 bits (MaxSeq).
LEMMA SeqNumInRange ==
    ASSUME m_messageSequenceNumber \in 0 .. MaxSeq
    PROVE  GetMessageSequenceNumber \in 0 .. MaxSeq
  BY TimerAssumption DEF GetMessageSequenceNumber

\* The timers and the queue start in order.
LEMMA InitTimerInv == Init => TimerInv
<1> SUFFICES ASSUME Init PROVE TimerInv
  OBVIOUS
<1>1. pos \in 0 .. EndOfTrail
  <2>1. (TrailLen - 1) * RoadLength >= RoadLength
    BY RoadAssumption
  <2>2. (TrailLen - 1) * RoadLength \in Int /\ RoadLength \in Int
    BY RoadAssumption
  <2> QED BY <2>1, <2>2 DEF Init, EndOfTrail
<1>2. helloEvent \in Nat \ {0} /\ checkEvent \in Timer(CheckStart) /\ checkEvent # Idle
  BY TimerAssumption, SpeedAssumption DEF Init, Timer, Idle
<1>3. TypeOK
  <2>1. m_queuedMessages \in Seq(Message)
    BY DEF Init
  <2>2. m_JunAreaTag \in BOOLEAN /\ fatal \in BOOLEAN
    BY DEF Init
  <2> QED
    BY <1>1, <1>2, <2>1, <2>2, TimerAssumption, RoadAssumption
    DEF Init, TypeOK, Timer, Idle, NoJID, Junctions
<1> QED
  BY <1>2, <1>3, TimerAssumption
  DEF Init, TimerInv, NoFatalReschedule, AntTimerTracksJunction,
      NoMessageStranded, BootHandsOver, SilenceBudget, Idle

\* Queueing a message preserves the types, starts the jitter timer if it was
\* idle, and leaves a non-empty queue.
LEMMA QueueMessageEffect ==
    ASSUME TypeOK, NoMessageStranded,
           NEW type \in {"HELLO", "ANT"}, NEW j \in 0 .. MaxJitter,
           QueueMessage(type, j)
    PROVE  /\ m_queuedMessages' \in Seq(Message) /\ m_queuedMessages' # <<>>
           /\ m_queuedMessagesTimer' \in 0 .. MaxJitter
           /\ m_messageSequenceNumber' \in 0 .. MaxSeq
<1>1. GetMessageSequenceNumber \in 0 .. MaxSeq
  BY SeqNumInRange DEF TypeOK
<1>2. [type |-> type, seq |-> GetMessageSequenceNumber] \in Message
  BY <1>1 DEF Message
<1>3. m_queuedMessages' \in Seq(Message) /\ m_queuedMessages' # <<>>
  <2> DEFINE msg == [type |-> type, seq |-> GetMessageSequenceNumber]
  <2>1. msg \in Message /\ m_queuedMessages \in Seq(Message)
    BY <1>2 DEF TypeOK
  <2>2. m_queuedMessages' = Append(m_queuedMessages, msg)
    BY DEF QueueMessage
  <2> HIDE DEF msg
  <2> QED BY <2>1, <2>2
<1>4. m_queuedMessagesTimer' \in 0 .. MaxJitter
  BY DEF QueueMessage, TypeOK, Timer
<1>5. m_messageSequenceNumber' \in 0 .. MaxSeq
  BY <1>1 DEF QueueMessage
<1> QED BY <1>3, <1>4, <1>5

\* While something is queued the vehicle speaks within its budget, also when
\* the message that is being queued is the first.
LEMMA QueueMessageInBudget ==
    ASSUME TimerInv, NEW type, NEW j \in 0 .. MaxJitter, QueueMessage(type, j)
    PROVE  silence + m_queuedMessagesTimer' <= HelloInterval + MaxJitter
<1>1. /\ silence \in Nat /\ HelloInterval \in Nat /\ MaxJitter \in Nat
      /\ m_queuedMessagesTimer \in Int /\ m_helloTimer \in Int
  BY TimerAssumption DEF TimerInv, TypeOK, Timer, Idle
<1>2. CASE m_queuedMessages = <<>>
  <2>1. m_queuedMessagesTimer' = j
    BY <1>2 DEF QueueMessage, TimerInv, NoMessageStranded
  <2>2. silence <= HelloInterval
    <3>1. CASE helloEvent = Idle
      <4>1. m_helloTimer >= 0
        BY <3>1 DEF TimerInv, BootHandsOver, TypeOK, Timer, Idle
      <4>2. silence + m_helloTimer <= HelloInterval
        BY <1>2, <3>1 DEF TimerInv, SilenceBudget
      <4> QED BY <1>1, <4>1, <4>2
    <3>2. CASE helloEvent # Idle
      BY <1>1, <3>2 DEF TimerInv, SilenceBudget
    <3> QED BY <3>1, <3>2
  <2> QED BY <1>1, <2>1, <2>2
<1>3. CASE m_queuedMessages # <<>>
  <2>1. m_queuedMessagesTimer' = m_queuedMessagesTimer
    BY <1>3 DEF QueueMessage, TimerInv, NoMessageStranded
  <2> QED BY <1>3, <2>1 DEF TimerInv, SilenceBudget
<1> QED BY <1>2, <1>3

\* Queueing an ant and postponing the Hello keeps the queue, the hand-over of
\* the start-up events and the silence budget in order.
LEMMA QueueAndPostpone ==
    ASSUME TimerInv, NEW j \in 0 .. MaxJitter,
           QueueMessage("ANT", j), PostponeHello,
           UNCHANGED <<helloEvent, checkEvent, m_positionCheckTimer, silence>>
    PROVE  /\ m_queuedMessages' \in Seq(Message)
           /\ m_queuedMessagesTimer' \in Timer(MaxJitter)
           /\ m_messageSequenceNumber' \in 0 .. MaxSeq
           /\ m_helloTimer' \in Timer(HelloInterval)
           /\ NoMessageStranded' /\ BootHandsOver' /\ SilenceBudget'
<1>1. /\ m_queuedMessages' \in Seq(Message) /\ m_queuedMessages' # <<>>
      /\ m_queuedMessagesTimer' \in 0 .. MaxJitter
      /\ m_messageSequenceNumber' \in 0 .. MaxSeq
  BY QueueMessageEffect DEF TimerInv
<1>2. NoMessageStranded' /\ m_queuedMessagesTimer' \in Timer(MaxJitter)
  BY <1>1 DEF NoMessageStranded, Timer, Idle
<1>3. m_helloTimer' \in Timer(HelloInterval) /\ (m_helloTimer' = Idle <=> m_helloTimer = Idle)
  BY TimerAssumption DEF PostponeHello, TimerInv, TypeOK, Timer, Idle
<1>4. BootHandsOver'
  BY <1>3 DEF BootHandsOver, TimerInv
<1>5. SilenceBudget'
  BY <1>1, QueueMessageInBudget DEF SilenceBudget, TimerInv
<1> QED BY <1>1, <1>2, <1>3, <1>4, <1>5

\* A function on 1..n is a sequence of length n.
LEMMA FunctionIsSequence ==
    ASSUME NEW S, NEW n \in Nat, NEW f \in [1 .. n -> S]
    PROVE  f \in Seq(S) /\ Len(f) = n
  OBVIOUS

\* A queue with something in it makes at least one packet.
LEMMA PacketsNonEmpty ==
    ASSUME NEW q \in Seq(Message), q # <<>>
    PROVE  Packets(q) # <<>>
<1> DEFINE full == Len(q) \div MaxMsgs
           rest == SubSeq(q, full * MaxMsgs + 1, Len(q))
           head == [i \in 1 .. full |-> SubSeq(q, (i - 1) * MaxMsgs + 1, i * MaxMsgs)]
<1>1. MaxMsgs \in Nat \ {0} /\ Len(q) \in Nat \ {0} /\ full \in Nat
  BY TimerAssumption
<1>2. head \in Seq(Seq(Message)) /\ Len(head) = full
  <2>1. ASSUME NEW i \in 1 .. full
        PROVE  SubSeq(q, (i - 1) * MaxMsgs + 1, i * MaxMsgs) \in Seq(Message)
    <3>1. i * MaxMsgs <= Len(q) /\ (i - 1) * MaxMsgs + 1 >= 1
      BY <1>1
    <3> QED BY <1>1, <3>1
  <2>2. head \in [1 .. full -> Seq(Message)]
    BY <2>1
  <2> HIDE DEF head, full
  <2> QED BY <1>1, <2>2, FunctionIsSequence
<1>3. Packets(q) = head \o (IF rest = <<>> THEN <<>> ELSE <<rest>>)
  BY DEF Packets
<1>4. CASE full = 0
  <2>1. rest = SubSeq(q, 1, Len(q)) /\ Len(rest) = Len(q)
    BY <1>1, <1>4
  <2>2. rest # <<>>
    BY <1>1, <2>1
  <2> QED BY <1>2, <1>3, <2>2
<1>5. CASE full > 0
  BY <1>1, <1>2, <1>3, <1>5
<1> QED BY <1>1, <1>4, <1>5

\* The position check keeps the junction variables in their types.
LEMMA PositionType ==
    ASSUME TypeOK, CheckPositionExpire
    PROVE  /\ m_currentJID' \in Junctions \cup {NoJID, Unknown}
           /\ m_nextJID' \in Junctions \cup {NoJID, Unknown}
           /\ m_trailTrace' \in 1 .. TrailLen + 1
<1>1. PICK dn : AdvanceTrail(dn)
  BY DEF CheckPositionExpire
<1>2. front \in Junctions \cup {Unknown}
  BY DEF front
<1>3. m_trailTrace \in Junctions => m_trailTrace + 1 \in 1 .. TrailLen + 1
  BY RoadAssumption DEF Junctions
<1> QED BY <1>1, <1>2, <1>3 DEF AdvanceTrail, TypeOK

\* Every event preserves the timer invariant.
LEMMA TimerStep == TimerInv /\ [Next]_vars => TimerInv'
<1> SUFFICES ASSUME TimerInv, [Next]_vars PROVE TimerInv'
  OBVIOUS
<1> USE DEF TimerInv
<1>1. CASE InitialPosition
  <2>1. TypeOK'
    BY <1>1, RoadAssumption DEF InitialPosition, TypeOK, queueVars, Timer, Junctions
  <2> QED
    BY <1>1, <2>1 DEF InitialPosition, TypeOK, queueVars, NoFatalReschedule,
       AntTimerTracksJunction, NoMessageStranded, BootHandsOver, SilenceBudget
<1>2. ASSUME NEW j \in 0 .. MaxJitter, HelloTimerExpire(j) PROVE TimerInv'
  <2>1. QueueMessage("HELLO", j)
    BY <1>2 DEF HelloTimerExpire
  <2>2. /\ m_queuedMessages' \in Seq(Message) /\ m_queuedMessages' # <<>>
        /\ m_queuedMessagesTimer' \in 0 .. MaxJitter
        /\ m_messageSequenceNumber' \in 0 .. MaxSeq
    BY <2>1, QueueMessageEffect
  <2>3. ~fatal' /\ fatal' \in BOOLEAN
    <3>1. ~fatal /\ fatal \in BOOLEAN
      BY DEF NoFatalReschedule, TypeOK
    <3>2. helloEvent = 0 => m_helloTimer = Idle
      BY DEF BootHandsOver, Idle
    <3>3. CASE helloEvent = 0 /\ fatal' = (fatal \/ m_helloTimer # Idle)
      BY <3>1, <3>2, <3>3
    <3>4. CASE fatal' = fatal
      BY <3>1, <3>4
    <3> QED BY <1>2, <3>3, <3>4 DEF HelloTimerExpire
  <2>4. TypeOK'
    BY <1>2, <2>2, <2>3, TimerAssumption DEF HelloTimerExpire, TypeOK, roadVars, Timer
  <2>5. BootHandsOver'
    BY <1>2, TimerAssumption DEF HelloTimerExpire, BootHandsOver, Idle
  <2>6. SilenceBudget'
    <3>1. helloEvent' = Idle /\ silence' = silence
      BY <1>2, <2>5, TimerAssumption DEF HelloTimerExpire, BootHandsOver, Idle
    <3>2. silence + m_queuedMessagesTimer' <= HelloInterval + MaxJitter
      BY <2>1, QueueMessageInBudget
    <3> QED BY <2>2, <3>1, <3>2 DEF SilenceBudget
  <2> QED
    BY <1>2, <2>2, <2>3, <2>4, <2>5, <2>6
    DEF HelloTimerExpire, NoFatalReschedule, AntTimerTracksJunction, NoMessageStranded, Idle
<1>3. ASSUME NEW found \in BOOLEAN, NEW j \in 0 .. MaxJitter, AntTimerExpire(found, j)
      PROVE  TimerInv'
  <2>1. m_antTimer' \in Timer(AntInterval) /\ AntTimerTracksJunction' /\ NoFatalReschedule'
    BY <1>3, TimerAssumption
    DEF AntTimerExpire, AntTimerTracksJunction, NoFatalReschedule, Timer, Idle
  <2>2. /\ m_queuedMessages' \in Seq(Message)
        /\ m_queuedMessagesTimer' \in Timer(MaxJitter)
        /\ m_messageSequenceNumber' \in 0 .. MaxSeq
        /\ m_helloTimer' \in Timer(HelloInterval)
        /\ NoMessageStranded' /\ BootHandsOver' /\ SilenceBudget'
    <3>1. CASE found
      BY <1>3, <3>1, QueueAndPostpone DEF AntTimerExpire, bootVars
    <3>2. CASE ~found
      BY <1>3, <3>2, SeqNumInRange
      DEF AntTimerExpire, queueVars, bootVars, TypeOK, NoMessageStranded, BootHandsOver,
          SilenceBudget
    <3> QED BY <3>1, <3>2
  <2>3. TypeOK'
    BY <1>3, <2>1, <2>2 DEF AntTimerExpire, TypeOK, roadVars, bootVars
  <2> QED BY <2>1, <2>2, <2>3
<1>4. ASSUME NEW single \in BOOLEAN, NEW mine \in BOOLEAN, NEW j \in 0 .. MaxJitter,
             ProcessAnt(single, mine, j)
      PROVE  TimerInv'
  <2>1. m_antTimer' \in Timer(AntInterval) /\ AntTimerTracksJunction'
    BY <1>4, TimerAssumption
    DEF ProcessAnt, SuppressOwnAnt, ScheduleAnt, AntTimerTracksJunction, TypeOK, Timer, Idle
  <2>2. NoFatalReschedule' /\ fatal' \in BOOLEAN
    BY <1>4 DEF ProcessAnt, SuppressOwnAnt, ScheduleAnt, Cancel, NoFatalReschedule, TypeOK
  <2>3. /\ m_queuedMessages' \in Seq(Message)
        /\ m_queuedMessagesTimer' \in Timer(MaxJitter)
        /\ m_messageSequenceNumber' \in 0 .. MaxSeq
        /\ m_helloTimer' \in Timer(HelloInterval)
        /\ NoMessageStranded' /\ BootHandsOver' /\ SilenceBudget'
    <3>1. CASE mine
      BY <1>4, <3>1, QueueAndPostpone DEF ProcessAnt, bootVars
    <3>2. CASE ~mine
      BY <1>4, <3>2
      DEF ProcessAnt, queueVars, bootVars, TypeOK, NoMessageStranded, BootHandsOver,
          SilenceBudget
    <3> QED BY <3>1, <3>2
  <2>4. heard' \in 0 .. AntsPerTick
    BY <1>4, TimerAssumption DEF ProcessAnt, TypeOK
  <2>5. TypeOK'
    BY <1>4, <2>1, <2>2, <2>3, <2>4 DEF ProcessAnt, TypeOK, roadVars, bootVars
  <2> QED BY <2>1, <2>2, <2>3, <2>5
<1>5. CASE CheckPositionExpire
  <2>1. /\ m_JunAreaTag' \in BOOLEAN /\ m_antTimer' \in Timer(AntInterval)
        /\ AntTimerTracksJunction'
    <3>1. PICK dn, dc : UpdateJunArea(dn, dc)
      BY <1>5 DEF CheckPositionExpire
    <3>2. m_JunAreaTag \in BOOLEAN /\ m_antTimer \in Timer(AntInterval)
          /\ AntTimerTracksJunction /\ AntInterval \in 0 .. AntInterval
          /\ Idle \in Timer(AntInterval) /\ 0 .. AntInterval \subseteq Timer(AntInterval)
          /\ AntInterval # Idle
      BY TimerAssumption DEF TypeOK, Timer, Idle
    <3>3. CASE UNCHANGED <<m_JunAreaTag, m_antTimer>>
      BY <3>2, <3>3 DEF AntTimerTracksJunction
    <3>4. CASE m_JunAreaTag' = TRUE /\ ScheduleAnt(m_antTimer)
      BY <3>2, <3>4 DEF AntTimerTracksJunction, ScheduleAnt
    <3>5. CASE m_JunAreaTag' = FALSE /\ m_antTimer' = Cancel(m_antTimer)
      BY <3>2, <3>5 DEF AntTimerTracksJunction, Cancel
    <3> QED BY <3>1, <3>3, <3>4, <3>5 DEF UpdateJunArea
  <2>2. NoFatalReschedule' /\ fatal' \in BOOLEAN
    <3>1. PICK dn, dc : UpdateJunArea(dn, dc)
      BY <1>5 DEF CheckPositionExpire
    <3>2. ~fatal /\ fatal \in BOOLEAN
      BY DEF NoFatalReschedule, TypeOK
    <3>3. CASE fatal' = fatal
      BY <3>2, <3>3 DEF NoFatalReschedule
    <3>4. CASE ~m_JunAreaTag /\ ScheduleAnt(m_antTimer)
      <4>1. m_antTimer = Idle
        BY <3>4 DEF AntTimerTracksJunction
      <4> QED BY <3>2, <3>4, <4>1 DEF ScheduleAnt, NoFatalReschedule
    <3> QED BY <3>1, <3>3, <3>4 DEF UpdateJunArea
  <2>3. BootHandsOver' /\ checkEvent' \in Timer(CheckStart)
    BY <1>5, SpeedAssumption DEF CheckPositionExpire, BootHandsOver, TypeOK, Timer, Idle
  <2>4. TypeOK'
    BY <1>5, <2>1, <2>2, <2>3, PositionType, SpeedAssumption
    DEF CheckPositionExpire, TypeOK, queueVars, Timer
  <2>5. NoMessageStranded' /\ SilenceBudget'
    BY <1>5 DEF CheckPositionExpire, queueVars, NoMessageStranded, SilenceBudget
  <2> QED BY <2>1, <2>2, <2>3, <2>4, <2>5
<1>6. CASE SendQueuedMessages
  <2>1. m_queuedMessages \in Seq(Message) /\ m_queuedMessages # <<>>
    BY <1>6 DEF SendQueuedMessages, NoMessageStranded, TypeOK, Idle
  <2>2. silence' = 0
    BY <1>6, <2>1, PacketsNonEmpty DEF SendQueuedMessages
  <2>3. m_queuedMessages' \in Seq(Message) /\ m_queuedMessagesTimer' \in Timer(MaxJitter)
    BY <1>6 DEF SendQueuedMessages, Timer
  <2>4. TypeOK'
    BY <1>6, <2>2, <2>3 DEF SendQueuedMessages, TypeOK, roadVars, bootVars
  <2>5. NoMessageStranded' /\ BootHandsOver' /\ AntTimerTracksJunction' /\ NoFatalReschedule'
    BY <1>6 DEF SendQueuedMessages, bootVars, NoMessageStranded, BootHandsOver,
       AntTimerTracksJunction, NoFatalReschedule
  <2>6. SilenceBudget'
    <3>1. m_helloTimer' = m_helloTimer /\ m_queuedMessages' = <<>>
      BY <1>6 DEF SendQueuedMessages
    <3>2. m_helloTimer \in Timer(HelloInterval)
      BY DEF TypeOK
    <3>3. 0 + m_helloTimer <= HelloInterval
      BY <3>2, TimerAssumption DEF Timer, Idle
    <3> QED BY <2>2, <3>1, <3>3 DEF SilenceBudget
  <2> QED BY <2>4, <2>5, <2>6
<1>7. CASE Tick
  <2>1. /\ positionEvent # 0 /\ helloEvent # 0 /\ checkEvent # 0 /\ m_helloTimer # 0
        /\ m_antTimer # 0 /\ m_positionCheckTimer # 0 /\ m_queuedMessagesTimer # 0
    BY <1>7 DEF Tick, Timers
  <2>2. ASSUME NEW max \in Nat, NEW t \in Timer(max), t # 0
        PROVE  Elapse(t) \in Timer(max) /\ (Elapse(t) = Idle <=> t = Idle)
    BY <2>2 DEF Elapse, Timer, Idle
  <2>3. /\ m_helloTimer' \in Timer(HelloInterval) /\ m_antTimer' \in Timer(AntInterval)
        /\ m_positionCheckTimer' \in Timer(PositionInterval)
        /\ m_queuedMessagesTimer' \in Timer(MaxJitter)
        /\ positionEvent' \in Timer(0) /\ checkEvent' \in Timer(CheckStart)
        /\ m_helloTimer' = Idle <=> m_helloTimer = Idle
        /\ m_antTimer' = Idle <=> m_antTimer = Idle
        /\ m_positionCheckTimer' = Idle <=> m_positionCheckTimer = Idle
        /\ m_queuedMessagesTimer' = Idle <=> m_queuedMessagesTimer = Idle
        /\ checkEvent' = Idle <=> checkEvent = Idle
    <3>1. /\ HelloInterval \in Nat /\ AntInterval \in Nat /\ PositionInterval \in Nat
          /\ MaxJitter \in Nat /\ CheckStart \in Nat /\ 0 \in Nat
      BY TimerAssumption, SpeedAssumption
    <3>2. /\ m_helloTimer \in Timer(HelloInterval) /\ m_antTimer \in Timer(AntInterval)
          /\ m_positionCheckTimer \in Timer(PositionInterval)
          /\ m_queuedMessagesTimer \in Timer(MaxJitter)
          /\ positionEvent \in Timer(0) /\ checkEvent \in Timer(CheckStart)
      BY DEF TypeOK
    <3> QED BY <1>7, <2>1, <2>2, <3>1, <3>2, Zenon DEF Tick
  <2>4. helloEvent' \in {Idle} \cup Nat /\ (helloEvent' = Idle <=> helloEvent = Idle)
    BY <1>7, <2>1 DEF Tick, TypeOK, Elapse, Idle
  <2>5. pos' \in 0 .. EndOfTrail
    BY <1>7, RoadAssumption DEF Tick, TypeOK, EndOfTrail
  <2>6. silence' \in Nat
    BY <1>7 DEF Tick, TypeOK
  <2>7. TypeOK'
    BY <1>7, <2>3, <2>4, <2>5, <2>6, TimerAssumption DEF Tick, TypeOK
  <2>8. NoMessageStranded' /\ BootHandsOver' /\ AntTimerTracksJunction' /\ NoFatalReschedule'
    BY <1>7, <2>3, <2>4 DEF Tick, NoMessageStranded, BootHandsOver,
       AntTimerTracksJunction, NoFatalReschedule
  <2>9. SilenceBudget'
    <3>1. helloEvent' # Idle => silence' = 0
      BY <1>7, <2>4 DEF Tick
    <3>2. ASSUME helloEvent' = Idle, m_queuedMessages' = <<>>
          PROVE  silence' + m_helloTimer' <= HelloInterval
      <4>1. helloEvent = Idle /\ m_queuedMessages = <<>> /\ m_helloTimer # Idle
        BY <1>7, <2>4, <3>2 DEF Tick, BootHandsOver
      <4>2. silence' = silence + 1 /\ m_helloTimer' = m_helloTimer - 1
        BY <1>7, <4>1 DEF Tick, Elapse
      <4>3. silence \in Nat /\ m_helloTimer \in Int /\ HelloInterval \in Nat
        BY TimerAssumption DEF TypeOK, Timer, Idle
      <4> QED BY <4>1, <4>2, <4>3 DEF SilenceBudget
    <3>3. ASSUME m_queuedMessages' # <<>>
          PROVE  silence' + m_queuedMessagesTimer' <= HelloInterval + MaxJitter
      <4>1. m_queuedMessages # <<>> /\ m_queuedMessagesTimer # Idle
        BY <1>7, <3>3 DEF Tick, NoMessageStranded
      <4>2. m_queuedMessagesTimer' = m_queuedMessagesTimer - 1 /\ silence' \in {0, silence + 1}
        BY <1>7, <4>1 DEF Tick, Elapse
      <4>3. /\ silence \in Nat /\ m_queuedMessagesTimer \in Int
            /\ HelloInterval \in Nat /\ MaxJitter \in Nat
        BY TimerAssumption DEF TypeOK, Timer, Idle
      <4>4. silence + m_queuedMessagesTimer <= HelloInterval + MaxJitter
        BY <4>1 DEF SilenceBudget
      <4>5. CASE silence' = 0
        BY <4>2, <4>3, <4>4, <4>5
      <4>6. CASE silence' = silence + 1
        BY <4>2, <4>3, <4>4, <4>6
      <4> QED BY <4>2, <4>5, <4>6
    <3> QED BY <3>1, <3>2, <3>3 DEF SilenceBudget
  <2> QED BY <2>7, <2>8, <2>9
<1>8. CASE UNCHANGED vars
  BY <1>8 DEF vars, roadVars, bootVars, queueVars, TypeOK, NoFatalReschedule,
     AntTimerTracksJunction, NoMessageStranded, BootHandsOver, SilenceBudget
<1> QED
  BY <1>1, <1>2, <1>3, <1>4, <1>5, <1>6, <1>7, <1>8 DEF Next

------------------------------------------------------------------------------

\* The type invariant: no member of the node leaves its type, whatever the
\* order of events (all of grp.cc's timer handlers and ProcessAnt).
THEOREM TypeCorrect == Spec => []TypeOK
<1>1. TimerInv => TypeOK
  BY DEF TimerInv
<1> QED BY <1>1, InitTimerInv, TimerStep, PTL DEF Spec

\* No timer is ever scheduled while it is running, so ns3::Timer never aborts
\* the simulation with "Event is still running while re-scheduling".
THEOREM NeverFatal == Spec => []NoFatalReschedule
<1>1. TimerInv => NoFatalReschedule
  BY DEF TimerInv
<1> QED BY <1>1, InitTimerInv, TimerStep, PTL DEF Spec

\* The ant timer runs exactly while the node is marked as in a junction area.
THEOREM AntTimerCorrect == Spec => []AntTimerTracksJunction
<1>1. TimerInv => AntTimerTracksJunction
  BY DEF TimerInv
<1> QED BY <1>1, InitTimerInv, TimerStep, PTL DEF Spec

\* A message that is queued always has a running jitter timer behind it.
THEOREM QueueCorrect == Spec => []NoMessageStranded
<1>1. TimerInv => NoMessageStranded
  BY DEF TimerInv
<1> QED BY <1>1, InitTimerInv, TimerStep, PTL DEF Spec

\* After its first Hello a vehicle is silent for at most a Hello interval plus
\* the jitter, however often ants postpone the Hello timer.
THEOREM SilenceCorrect == Spec => []SilenceBounded
<1>1. TimerInv => SilenceBounded
  <2> SUFFICES ASSUME TimerInv PROVE SilenceBounded
    OBVIOUS
  <2>1. /\ silence \in Nat /\ HelloInterval \in Nat /\ MaxJitter \in Nat
        /\ m_helloTimer \in Int /\ m_queuedMessagesTimer \in Int
    BY TimerAssumption DEF TimerInv, TypeOK, Timer, Idle
  <2>2. CASE helloEvent # Idle
    BY <2>1, <2>2 DEF TimerInv, SilenceBudget, SilenceBounded
  <2>3. CASE helloEvent = Idle /\ m_queuedMessages = <<>>
    <3>1. m_helloTimer >= 0
      BY <2>3 DEF TimerInv, BootHandsOver, TypeOK, Timer, Idle
    <3> QED BY <2>1, <2>3, <3>1 DEF TimerInv, SilenceBudget, SilenceBounded
  <2>4. CASE m_queuedMessages # <<>>
    <3>1. m_queuedMessagesTimer >= 0
      BY <2>4 DEF TimerInv, NoMessageStranded, TypeOK, Timer, Idle
    <3> QED BY <2>1, <2>4, <3>1 DEF TimerInv, SilenceBudget, SilenceBounded
  <2> QED BY <2>2, <2>3, <2>4
<1> QED BY <1>1, InitTimerInv, TimerStep, PTL DEF Spec

------------------------------------------------------------------------------
(* The position check follows the vehicle *)

\* Between start-up and the first check the vehicle is on the first segment.
BeforeFirstCheck ==
    checkEvent # Idle =>
        /\ m_JunAreaTag = FALSE
        /\ positionEvent # Idle => checkEvent = CheckStart /\ pos <= RoadLength
        /\ positionEvent = Idle => m_currentJID = 1 /\ m_nextJID = 2 /\ m_trailTrace = 3
        /\ pos <= RoadLength + MaxSpeed * (CheckStart - checkEvent)

\* Between two checks the vehicle gets no further than its speed allows.
BetweenChecks ==
    checkEvent = Idle =>
        /\ positionEvent = Idle
        /\ seen <= pos
        /\ pos <= seen + MaxSpeed * (PositionInterval - m_positionCheckTimer)
        /\ m_nextJID \in Junctions => m_trailTrace = m_nextJID + 1
        /\ m_nextJID \notin Junctions => m_nextJID = Unknown /\ m_trailTrace = TrailLen + 1

RoadInv ==
    /\ BeforeFirstCheck
    /\ BetweenChecks
    /\ SegmentIsTracked
    /\ TagMeansInArea

\* The vehicle starts on its first segment.
LEMMA InitRoadInv == Init => RoadInv
<1> SUFFICES ASSUME Init PROVE RoadInv
  OBVIOUS
<1>1. CheckStart # Idle /\ MaxSpeed * (CheckStart - CheckStart) = 0
  BY SpeedAssumption DEF Idle
<1> QED
  BY <1>1, RoadAssumption
  DEF Init, RoadInv, BeforeFirstCheck, BetweenChecks, SegmentIsTracked, TagMeansInArea,
      NoJID, Idle, Junctions

\* A check at a place the vehicle can have reached keeps the segment right:
\* there is no way past the area of the next junction without a check in it.
LEMMA CheckKeepsTrack ==
    ASSUME TypeOK, RoadInv, BootHandsOver, CheckPositionExpire
    PROVE  RoadInv'
<1> USE DEF RoadInv
<1>1. PICK dn \in Distances(m_nextJID), dc \in Distances(m_currentJID) :
          AdvanceTrail(dn) /\ UpdateJunArea(dn, dc)
  BY DEF CheckPositionExpire
<1>2. /\ seen' = pos /\ pos' = pos /\ UNCHANGED positionEvent
      /\ m_positionCheckTimer' = PositionInterval
      /\ checkEvent' = Idle
  BY DEF CheckPositionExpire, BootHandsOver, Idle
<1>3. /\ pos \in Int /\ seen \in Int /\ RoadLength \in Nat /\ JunAreaRadius \in Nat
      /\ RoadLength > 2 * JunAreaRadius /\ TrailLen \in Nat /\ TrailLen >= 2
      /\ PositionInterval \in Nat /\ PositionInterval # Idle
  BY RoadAssumption, SpeedAssumption DEF TypeOK, Idle
<1>4. positionEvent = Idle
  BY SpeedAssumption DEF CheckPositionExpire, BeforeFirstCheck, BetweenChecks, BootHandsOver, Idle
<1>5. dn \in Int /\ dc \in Int
  BY <1>3 DEF Distances, Abs, Location, Junctions
<1>6. BeforeFirstCheck'
  BY <1>2 DEF BeforeFirstCheck
\* The vehicle cannot be beyond the area of the next junction yet.
<1>7. ASSUME m_nextJID \in Junctions
      PROVE  /\ m_currentJID \in Junctions /\ m_nextJID = m_currentJID + 1
             /\ m_trailTrace = m_nextJID + 1
             /\ pos <= Location(m_nextJID) + JunAreaRadius
             /\ m_currentJID = 1 \/ Location(m_currentJID) - JunAreaRadius <= pos
  <2>1. CASE checkEvent # Idle
    <3>1. checkEvent = 0
      BY <2>1 DEF CheckPositionExpire, BootHandsOver, Idle
    <3>2. m_currentJID = 1 /\ m_nextJID = 2 /\ m_trailTrace = 3
      BY <1>4, <2>1 DEF BeforeFirstCheck
    <3>3. pos <= RoadLength + MaxSpeed * CheckStart
      BY <2>1, <3>1, SpeedAssumption DEF BeforeFirstCheck
    <3>4. Location(2) = RoadLength
      BY <1>3 DEF Location
    <3>5. pos <= RoadLength + JunAreaRadius
      <4> DEFINE b == MaxSpeed * CheckStart
      <4>1. b \in 0 .. JunAreaRadius
        BY SpeedAssumption
      <4> HIDE DEF b
      <4>2. pos <= RoadLength + b
        BY <3>3 DEF b
      <4> QED BY <1>3, <4>1, <4>2
    <3> QED BY <1>3, <3>2, <3>4, <3>5 DEF Junctions
  <2>2. CASE checkEvent = Idle
    <3>1. m_positionCheckTimer = 0
      BY <2>2 DEF CheckPositionExpire, Idle
    <3>2. /\ m_currentJID \in Junctions /\ m_nextJID = m_currentJID + 1
          /\ m_currentJID = 1 \/ Location(m_currentJID) - JunAreaRadius <= seen
          /\ seen < Location(m_nextJID) - JunAreaRadius
      BY <1>7, <3>1 DEF SegmentIsTracked, Idle
    <3>3. seen <= pos /\ pos <= seen + MaxSpeed * PositionInterval /\ m_trailTrace = m_nextJID + 1
      BY <1>7, <2>2, <3>1, SpeedAssumption DEF BetweenChecks
    <3>4. pos <= seen + 2 * JunAreaRadius
      <4> DEFINE b == MaxSpeed * PositionInterval
      <4>1. b \in 0 .. 2 * JunAreaRadius
        BY SpeedAssumption
      <4> HIDE DEF b
      <4>2. pos <= seen + b
        BY <3>3 DEF b
      <4> QED BY <1>3, <4>1, <4>2
    <3>5. Location(m_nextJID) \in Int /\ Location(m_currentJID) \in Int
      BY <1>3, <1>7, <3>2 DEF Location, Junctions
    <3> QED BY <1>3, <3>2, <3>3, <3>4, <3>5
  <2> QED BY <2>1, <2>2
<1>8. CASE m_nextJID \in Junctions /\ dn <= JunAreaRadius
  <2>1. /\ m_currentJID' = m_nextJID /\ m_nextJID' = front
        /\ m_trailTrace' = IF m_trailTrace \in Junctions THEN m_trailTrace + 1 ELSE m_trailTrace
    BY <1>1, <1>3, <1>5, <1>8 DEF AdvanceTrail
  <2>2. dn = Abs(pos - Location(m_nextJID)) /\ Location(m_nextJID) \in Int
    BY <1>3, <1>8 DEF Distances, Location, Junctions
  <2>3. /\ Location(m_nextJID) - JunAreaRadius <= pos
        /\ Abs(pos - Location(m_nextJID)) <= JunAreaRadius
    BY <1>3, <1>8, <2>2 DEF Abs
  <2>4. ASSUME m_nextJID' \in Junctions
        PROVE  /\ m_nextJID' = m_nextJID + 1 /\ m_trailTrace' = m_nextJID' + 1
               /\ pos < Location(m_nextJID + 1) - JunAreaRadius
    <3>1. m_trailTrace \in Junctions /\ m_nextJID' = m_trailTrace
      BY <1>3, <2>1, <2>4 DEF front, Junctions, Unknown
    <3>2. Location(m_nextJID + 1) = Location(m_nextJID) + RoadLength
      BY <1>3, <1>8 DEF Location, Junctions
    <3> QED BY <1>3, <1>7, <1>8, <2>1, <2>2, <3>1, <3>2
  <2>5. m_nextJID' \notin Junctions => m_nextJID' = Unknown /\ m_trailTrace' = TrailLen + 1
    BY <1>3, <1>7, <1>8, <2>1 DEF front, Junctions
  <2>6. BetweenChecks'
    <3>1. MaxSpeed * (PositionInterval - PositionInterval) = 0
      BY SpeedAssumption
    <3> QED BY <1>2, <1>3, <1>4, <2>4, <2>5, <3>1 DEF BetweenChecks
  <2>7. SegmentIsTracked' /\ TagMeansInArea'
    BY <1>2, <1>8, <2>1, <2>3, <2>4
    DEF SegmentIsTracked, TagMeansInArea, Location, Junctions, NoJID
  <2> QED BY <1>6, <2>6, <2>7
<1>9. CASE m_nextJID \in Junctions /\ dn > JunAreaRadius
  <2>1. UNCHANGED <<m_currentJID, m_nextJID, m_trailTrace>>
    BY <1>1, <1>3, <1>5, <1>9 DEF AdvanceTrail
  <2>2. /\ dn = Abs(pos - Location(m_nextJID)) /\ dc = Abs(pos - Location(m_currentJID))
        /\ Location(m_nextJID) \in Int /\ Location(m_currentJID) \in Int
    BY <1>3, <1>7, <1>9 DEF Distances, Location, Junctions
  <2>3. pos < Location(m_nextJID) - JunAreaRadius
    BY <1>3, <1>7, <1>9, <2>2 DEF Abs
  <2>4. BetweenChecks'
    <3>1. MaxSpeed * (PositionInterval - PositionInterval) = 0
      BY SpeedAssumption
    <3> QED BY <1>2, <1>3, <1>4, <1>7, <1>9, <2>1, <3>1 DEF BetweenChecks
  <2>5. SegmentIsTracked'
    BY <1>2, <1>7, <1>9, <2>1, <2>3 DEF SegmentIsTracked, Location
  <2>6. m_JunAreaTag' => dc <= JunAreaRadius
    <3>1. ~(dn < JunAreaRadius) /\ ~(dn <= JunAreaRadius)
      BY <1>3, <1>5, <1>9
    <3>2. CASE m_JunAreaTag' = FALSE
      BY <3>2
    <3>3. CASE m_JunAreaTag /\ dc <= JunAreaRadius
      BY <3>3
    <3>4. CASE ~m_JunAreaTag /\ UNCHANGED m_JunAreaTag
      BY <3>4
    <3> QED BY <1>1, <3>1, <3>2, <3>3, <3>4, Zenon DEF UpdateJunArea
  <2>7. TagMeansInArea'
    BY <1>2, <2>1, <2>2, <2>6 DEF TagMeansInArea, Location
  <2> QED BY <1>6, <2>4, <2>5, <2>7
<1>10. CASE m_nextJID \notin Junctions
  <2>1. m_nextJID = Unknown /\ m_trailTrace = TrailLen + 1
    BY <1>3, <1>4, <1>10 DEF BeforeFirstCheck, BetweenChecks, Junctions
  <2>2. front = Unknown /\ m_trailTrace \notin Junctions
    BY <1>3, <2>1 DEF front, Junctions
  <2>3. m_nextJID' = Unknown /\ m_trailTrace' = TrailLen + 1
    BY <1>1, <2>1, <2>2 DEF AdvanceTrail
  <2>4. Unknown \notin Junctions
    BY <1>3 DEF Unknown, Junctions
  <2>5. BetweenChecks'
    <3>1. MaxSpeed * (PositionInterval - PositionInterval) = 0
      BY SpeedAssumption
    <3> QED BY <1>2, <1>3, <1>4, <2>3, <2>4, <3>1 DEF BetweenChecks
  <2> QED BY <1>6, <2>3, <2>4, <2>5 DEF SegmentIsTracked, TagMeansInArea
<1> QED BY <1>3, <1>5, <1>8, <1>9, <1>10

\* Every event keeps the node's view of the road in step with the vehicle.
LEMMA RoadStep == TimerInv /\ RoadInv /\ [Next]_vars => RoadInv'
<1> SUFFICES ASSUME TimerInv, RoadInv, [Next]_vars PROVE RoadInv'
  OBVIOUS
<1> USE DEF RoadInv
<1>1. CASE InitialPosition
  <2>1. checkEvent # Idle
    BY <1>1 DEF InitialPosition, BetweenChecks, Idle
  <2>2. m_positionCheckTimer = Idle
    BY <2>1 DEF TimerInv, BootHandsOver
  <2>3. BeforeFirstCheck' /\ BetweenChecks' /\ SegmentIsTracked' /\ TagMeansInArea'
    BY <1>1, <2>1, <2>2
    DEF InitialPosition, BeforeFirstCheck, BetweenChecks, SegmentIsTracked, TagMeansInArea
  <2> QED BY <2>3
<1>2. CASE /\ UNCHANGED <<roadVars, positionEvent, checkEvent, m_JunAreaTag>>
           /\ UNCHANGED m_positionCheckTimer
  BY <1>2 DEF roadVars, BeforeFirstCheck, BetweenChecks, SegmentIsTracked, TagMeansInArea,
     Location
<1>3. CASE CheckPositionExpire
  BY <1>3, CheckKeepsTrack DEF TimerInv
<1>4. CASE Tick
  <2>1. PICK d \in 0 .. MaxSpeed : pos' = pos + d
    BY <1>4 DEF Tick
  <2>2. UNCHANGED <<seen, m_currentJID, m_nextJID, m_trailTrace, m_JunAreaTag>>
    BY <1>4 DEF Tick
  <2>3. /\ positionEvent # 0 /\ checkEvent # 0 /\ m_positionCheckTimer # 0
        /\ positionEvent' = Elapse(positionEvent) /\ checkEvent' = Elapse(checkEvent)
        /\ m_positionCheckTimer' = Elapse(m_positionCheckTimer)
    BY <1>4 DEF Tick, Timers
  <2>4. /\ positionEvent = Idle /\ positionEvent' = Idle
        /\ pos \in Int /\ MaxSpeed \in Nat /\ d \in Int /\ d <= MaxSpeed
        /\ CheckStart \in Nat /\ PositionInterval \in Nat /\ RoadLength \in Nat
        /\ checkEvent \in Int /\ m_positionCheckTimer \in Int /\ seen \in Int
    BY <2>3, SpeedAssumption, RoadAssumption DEF TimerInv, TypeOK, Timer, Idle, Elapse
  <2>5. BeforeFirstCheck'
    <3> SUFFICES ASSUME checkEvent' # Idle PROVE BeforeFirstCheck'
      BY DEF BeforeFirstCheck
    <3>1. checkEvent # Idle /\ checkEvent' = checkEvent - 1
      BY <2>3 DEF Elapse
    <3>2. MaxSpeed * (CheckStart - (checkEvent - 1)) = MaxSpeed * (CheckStart - checkEvent) + MaxSpeed
      BY <2>4
    <3>3. pos + d <= RoadLength + MaxSpeed * (CheckStart - (checkEvent - 1))
      <4> DEFINE b == MaxSpeed * (CheckStart - checkEvent)
      <4>1. b \in Int /\ pos <= RoadLength + b
        BY <2>4, <3>1 DEF BeforeFirstCheck
      <4> HIDE DEF b
      <4>2. pos + d <= RoadLength + (b + MaxSpeed)
        BY <2>4, <4>1
      <4> QED BY <3>2, <4>2 DEF b
    <3> QED BY <2>1, <2>2, <2>4, <3>1, <3>3 DEF BeforeFirstCheck
  <2>6. BetweenChecks'
    <3> SUFFICES ASSUME checkEvent' = Idle PROVE BetweenChecks'
      BY DEF BetweenChecks
    <3>1. checkEvent = Idle
      BY <2>3, <2>4 DEF Elapse, TimerInv, TypeOK, Timer, Idle
    <3>2. m_positionCheckTimer' = m_positionCheckTimer - 1
      BY <2>3, <3>1 DEF Elapse, TimerInv, BootHandsOver
    <3>3. MaxSpeed * (PositionInterval - (m_positionCheckTimer - 1))
            = MaxSpeed * (PositionInterval - m_positionCheckTimer) + MaxSpeed
      BY <2>4
    <3>4. /\ seen <= pos + d
          /\ pos + d <= seen + MaxSpeed * (PositionInterval - (m_positionCheckTimer - 1))
      <4> DEFINE b == MaxSpeed * (PositionInterval - m_positionCheckTimer)
      <4>1. b \in Int /\ pos <= seen + b /\ seen <= pos
        BY <2>4, <3>1 DEF BetweenChecks
      <4> HIDE DEF b
      <4>2. pos + d <= seen + (b + MaxSpeed) /\ seen <= pos + d
        BY <2>4, <4>1
      <4> QED BY <3>3, <4>2 DEF b
    <3> QED BY <2>1, <2>2, <2>4, <3>1, <3>2, <3>4 DEF BetweenChecks
  <2>7. SegmentIsTracked' /\ TagMeansInArea'
    BY <2>2, <2>3
    DEF SegmentIsTracked, TagMeansInArea, Location, Elapse
  <2> QED BY <2>5, <2>6, <2>7
<1> QED
  BY <1>1, <1>2, <1>3, <1>4
  DEF Next, vars, bootVars, HelloTimerExpire, AntTimerExpire, ProcessAnt, SendQueuedMessages

\* As long as the trail lasts, m_currentJID -> m_nextJID is the segment the
\* vehicle is on: the position check of grp.cc never loses the vehicle.
THEOREM RoadTracked == Spec => []SegmentIsTracked
<1>1. TimerInv /\ RoadInv => SegmentIsTracked
  BY DEF RoadInv
<1> QED BY <1>1, InitTimerInv, TimerStep, InitRoadInv, RoadStep, PTL DEF Spec

\* A vehicle marked as in a junction area is within the radius of
\* m_currentJID at the check that marked it, and at every later one.
THEOREM TagSound == Spec => []TagMeansInArea
<1>1. TimerInv /\ RoadInv => TagMeansInArea
  BY DEF RoadInv
<1> QED BY <1>1, InitTimerInv, TimerStep, InitRoadInv, RoadStep, PTL DEF Spec

------------------------------------------------------------------------------
(* Splitting the queue into packets *)

\* Division with remainder by GRP_MAX_MSGS.
LEMMA SplitIndex ==
    ASSUME NEW a \in Nat
    PROVE  /\ a \div MaxMsgs \in Nat /\ a % MaxMsgs \in Nat /\ a % MaxMsgs < MaxMsgs
           /\ a = MaxMsgs * (a \div MaxMsgs) + (a % MaxMsgs)
<1>1. MaxMsgs \in Nat /\ MaxMsgs > 0
  BY TimerAssumption
<1> QED BY <1>1

\* Products by the packet size grow with the factor.
LEMMA Multiples ==
    ASSUME NEW a \in Nat, NEW b \in Nat
    PROVE  /\ MaxMsgs * a \in Nat
           /\ a < b => MaxMsgs * a + MaxMsgs <= MaxMsgs * b
           /\ MaxMsgs * (a + 1) = MaxMsgs * a + MaxMsgs
<1>1. MaxMsgs \in Nat /\ MaxMsgs > 0
  BY TimerAssumption
<1>2. MaxMsgs * a \in Nat /\ MaxMsgs * (a + 1) = MaxMsgs * a + MaxMsgs
  BY <1>1
<1>3. ASSUME a < b PROVE MaxMsgs * a + MaxMsgs <= MaxMsgs * b
  <2>1. PICK d \in Nat : b = a + 1 + d
    <3>1. b - a - 1 \in Nat /\ b = a + 1 + (b - a - 1)
      BY <1>3
    <3> QED BY <3>1
  <2>2. MaxMsgs * b = MaxMsgs * a + MaxMsgs + MaxMsgs * d /\ MaxMsgs * d \in Nat
    BY <1>1, <2>1
  <2> QED BY <1>1, <1>2, <2>2
<1> QED BY <1>2, <1>3

\* What a part of a sequence holds.
LEMMA PartOf ==
    ASSUME NEW S, NEW q \in Seq(S), NEW lo \in Nat, NEW hi \in Nat,
           1 <= lo, lo <= hi + 1, hi <= Len(q)
    PROVE  /\ SubSeq(q, lo, hi) \in Seq(S)
           /\ Len(SubSeq(q, lo, hi)) = hi - lo + 1
           /\ \A x \in Nat : 1 <= x /\ x <= hi - lo + 1 => SubSeq(q, lo, hi)[x] = q[lo + x - 1]
  OBVIOUS

\* What a concatenation holds.
LEMMA Joined ==
    ASSUME NEW S, NEW s \in Seq(S), NEW t \in Seq(S)
    PROVE  /\ Len(s \o t) = Len(s) + Len(t)
           /\ DOMAIN (s \o t) = 1 .. Len(s \o t)
           /\ \A k \in 1 .. Len(s) : (s \o t)[k] = s[k]
           /\ Len(t) = 1 => (s \o t)[Len(s) + 1] = t[1]
  OBVIOUS

\* The packets of a queue hold its messages, each once and in order; all but
\* the last are full and none is empty.
LEMMA PacketsHoldQueue ==
    ASSUME NEW q \in Seq(Message)
    PROVE  /\ \A k \in DOMAIN Packets(q) :
                 /\ Len(Packets(q)[k]) <= MaxMsgs
                 /\ Packets(q)[k] # <<>>
                 /\ k < Len(Packets(q)) => Len(Packets(q)[k]) = MaxMsgs
           /\ \A i \in DOMAIN q :
                 /\ (i - 1) \div MaxMsgs < Len(Packets(q))
                 /\ Packets(q)[((i - 1) \div MaxMsgs) + 1][((i - 1) % MaxMsgs) + 1] = q[i]
<1> DEFINE M == MaxMsgs
           full == Len(q) \div MaxMsgs
           r == Len(q) % MaxMsgs
           rest == SubSeq(q, full * MaxMsgs + 1, Len(q))
           head == [i \in 1 .. full |-> SubSeq(q, (i - 1) * MaxMsgs + 1, i * MaxMsgs)]
           last == IF rest = <<>> THEN <<>> ELSE <<rest>>
<1>1. M \in Nat /\ M > 0 /\ Len(q) \in Nat
  BY TimerAssumption
<1>2. full \in Nat /\ r \in Nat /\ r < M /\ Len(q) = M * full + r /\ M * full \in Nat
  BY <1>1, SplitIndex, Multiples
<1>3. /\ rest \in Seq(Message) /\ Len(rest) = r
      /\ \A x \in Nat : 1 <= x /\ x <= r => rest[x] = q[M * full + x]
  <2>1. PICK p \in Nat : p = M * full
    BY <1>2
  <2>2. full * MaxMsgs + 1 = p + 1 /\ Len(q) = p + r
    BY <1>1, <1>2, <2>1
  <2>3. rest = SubSeq(q, p + 1, p + r)
    BY <2>2
  <2> HIDE DEF rest, full, r, M
  <2>4. /\ p + 1 \in Nat /\ p + r \in Nat /\ 1 <= p + 1 /\ p + 1 <= p + r + 1
        /\ p + r <= Len(q) /\ (p + r) - (p + 1) + 1 = r
        /\ \A x \in Nat : (p + 1) + x - 1 = p + x
    BY <1>2, <2>1, <2>2
  <2>5. /\ SubSeq(q, p + 1, p + r) \in Seq(Message)
        /\ Len(SubSeq(q, p + 1, p + r)) = (p + r) - (p + 1) + 1
        /\ \A x \in Nat : 1 <= x /\ x <= (p + r) - (p + 1) + 1
                => SubSeq(q, p + 1, p + r)[x] = q[(p + 1) + x - 1]
    BY <2>4, PartOf
  <2> QED BY <2>1, <2>3, <2>4, <2>5
<1>4. ASSUME NEW k \in 1 .. full
      PROVE  /\ head[k] \in Seq(Message) /\ Len(head[k]) = M
             /\ \A x \in Nat : 1 <= x /\ x <= M => head[k][x] = q[M * (k - 1) + x]
  <2>1. PICK a \in Nat : a = k - 1
    BY <1>2
  <2>2. PICK p \in Nat : p = M * a
    BY Multiples
  <2>3. p + M <= M * full
    <3>1. a < full
      BY <1>2, <2>1
    <3> QED BY <1>2, <2>2, <3>1, Multiples
  <2>4. (k - 1) * MaxMsgs + 1 = p + 1 /\ k * MaxMsgs = p + M
    <3>1. k = a + 1 /\ MaxMsgs * (a + 1) = MaxMsgs * a + MaxMsgs
      BY <2>1, Multiples
    <3>2. k * MaxMsgs = MaxMsgs * k /\ (k - 1) * MaxMsgs = MaxMsgs * a
      BY <1>1, <2>1
    <3> QED BY <2>2, <3>1, <3>2
  <2>5. head[k] = SubSeq(q, p + 1, p + M)
    BY <2>4
  <2>6. /\ p + 1 \in Nat /\ p + M \in Nat /\ 1 <= p + 1 /\ p + 1 <= p + M + 1
        /\ p + M <= Len(q) /\ (p + M) - (p + 1) + 1 = M
        /\ \A x \in Nat : (p + 1) + x - 1 = p + x
    BY <1>1, <1>2, <2>3
  <2> HIDE DEF head, full, r, M
  <2>7. /\ SubSeq(q, p + 1, p + M) \in Seq(Message)
        /\ Len(SubSeq(q, p + 1, p + M)) = (p + M) - (p + 1) + 1
        /\ \A x \in Nat : 1 <= x /\ x <= (p + M) - (p + 1) + 1
                => SubSeq(q, p + 1, p + M)[x] = q[(p + 1) + x - 1]
    BY <2>6, PartOf
  <2> QED BY <2>1, <2>2, <2>5, <2>6, <2>7
<1>5. Packets(q) = head \o last
  BY DEF Packets
<1>6. head \in Seq(Seq(Message)) /\ Len(head) = full
  <2>1. head \in [1 .. full -> Seq(Message)]
    BY <1>4
  <2> HIDE DEF head, full
  <2> QED BY <1>2, <2>1, FunctionIsSequence
<1>7. rest = <<>> <=> r = 0
  <2> HIDE DEF rest, full, r
  <2> QED BY <1>2, <1>3
<1>8. last \in Seq(Seq(Message)) /\ Len(last) = IF r = 0 THEN 0 ELSE 1
  <2> HIDE DEF rest, full, r
  <2> QED BY <1>3, <1>7
<1>9. r # 0 => last[1] = rest
  <2> HIDE DEF rest, full, r
  <2> QED BY <1>7
<1>10. \A i \in 1 .. Len(q) : DOMAIN q = 1 .. Len(q)
  OBVIOUS
<1> HIDE DEF rest, full, r, M, head, last
<1>11. /\ Len(Packets(q)) = full + (IF r = 0 THEN 0 ELSE 1)
       /\ DOMAIN Packets(q) = 1 .. Len(Packets(q))
       /\ \A k \in 1 .. full : Packets(q)[k] = head[k]
       /\ r # 0 => Packets(q)[full + 1] = rest
  <2>1. /\ Len(head \o last) = Len(head) + Len(last)
        /\ DOMAIN (head \o last) = 1 .. Len(head \o last)
        /\ \A k \in 1 .. Len(head) : (head \o last)[k] = head[k]
        /\ Len(last) = 1 => (head \o last)[Len(head) + 1] = last[1]
    BY <1>6, <1>8, Joined
  <2>2. PICK ps : ps = head \o last
    OBVIOUS
  <2>3. /\ Len(ps) = full + (IF r = 0 THEN 0 ELSE 1)
        /\ DOMAIN ps = 1 .. Len(ps)
        /\ \A k \in 1 .. full : ps[k] = head[k]
    BY <1>6, <1>8, <2>1, <2>2
  <2>4. r # 0 => ps[full + 1] = rest
    BY <1>6, <1>8, <1>9, <2>1, <2>2
  <2> QED BY <1>5, <2>2, <2>3, <2>4
<1>12. ASSUME NEW k \in DOMAIN Packets(q)
       PROVE  /\ Len(Packets(q)[k]) <= M
              /\ Packets(q)[k] # <<>>
              /\ k < Len(Packets(q)) => Len(Packets(q)[k]) = M
  <2>1. k \in 1 .. full \/ (r # 0 /\ k = full + 1)
    BY <1>2, <1>11
  <2>2. CASE k \in 1 .. full
    <3>1. Packets(q)[k] \in Seq(Message) /\ Len(Packets(q)[k]) = M
      BY <1>4, <1>11, <2>2
    <3>2. \A s \in Seq(Message) : Len(s) = M => s # <<>>
      BY <1>1
    <3> QED BY <1>1, <3>1, <3>2
  <2>3. CASE r # 0 /\ k = full + 1
    <3>1. Packets(q)[k] = rest /\ Len(rest) = r /\ ~(k < Len(Packets(q)))
      BY <1>2, <1>3, <1>11, <2>3
    <3> QED BY <1>1, <1>2, <1>7, <2>3, <3>1
  <2> QED BY <2>1, <2>2, <2>3
<1>13. ASSUME NEW i \in DOMAIN q
       PROVE  /\ (i - 1) \div MaxMsgs < Len(Packets(q))
              /\ Packets(q)[((i - 1) \div MaxMsgs) + 1][((i - 1) % MaxMsgs) + 1] = q[i]
  <2> DEFINE a == (i - 1) \div MaxMsgs
             b == (i - 1) % MaxMsgs
  <2>1. i \in 1 .. Len(q)
    OBVIOUS
  <2>2. /\ a \in Nat /\ b \in Nat /\ b < M /\ i - 1 = M * a + b
    <3>1. i - 1 \in Nat
      BY <1>1, <2>1
    <3> QED BY <3>1, SplitIndex DEF M
  <2> HIDE DEF a, b
  <2>3. M * a \in Nat /\ i = M * a + (b + 1)
    <3>1. M * a \in Nat
      BY <2>2, Multiples DEF M
    <3> QED BY <2>1, <2>2, <3>1, <1>1
  <2>4. CASE a < full
    <3>1. a + 1 \in 1 .. full /\ (a + 1) - 1 = a /\ b + 1 \in Nat /\ 1 <= b + 1 /\ b + 1 <= M
      BY <1>1, <1>2, <2>2, <2>4
    <3>2. Packets(q)[a + 1] = head[a + 1] /\ head[a + 1][b + 1] = q[M * a + (b + 1)]
      BY <1>4, <1>11, <3>1
    <3>3. a < Len(Packets(q))
      BY <1>2, <1>11, <2>2, <2>4
    <3> QED BY <2>3, <3>2, <3>3 DEF a, b
  <2>5. CASE ~(a < full)
    <3>1. a = full /\ b + 1 <= r
      <4>1. ~(full < a)
        <5>1. full < a => M * full + M <= M * a
          BY <1>2, <2>2, Multiples DEF M
        <5> QED BY <1>1, <1>2, <2>1, <2>2, <2>3, <5>1
      <4>2. a = full
        BY <1>2, <2>2, <2>5, <4>1
      <4> QED BY <1>1, <1>2, <2>1, <2>2, <2>3, <4>2
    <3>2. r # 0 /\ b + 1 \in Nat /\ 1 <= b + 1
      BY <1>2, <2>2, <3>1
    <3>3. Packets(q)[a + 1] = rest /\ rest[b + 1] = q[M * a + (b + 1)]
      BY <1>3, <1>11, <3>1, <3>2
    <3>4. a < Len(Packets(q))
      BY <1>2, <1>11, <3>1, <3>2
    <3> QED BY <2>3, <3>3, <3>4 DEF a, b
  <2> QED BY <2>4, <2>5
<1> QED BY <1>12, <1>13 DEF M

\* SendQueuedMessages loses, repeats and reorders no message of any queue it
\* can meet, however long, and cuts it into full packets and a rest.
THEOREM PacketsCorrect == Spec => []PacketsCarryTheQueue
<1>1. TypeOK => PacketsCarryTheQueue
  <2> SUFFICES ASSUME TypeOK PROVE PacketsCarryTheQueue
    OBVIOUS
  <2>1. m_queuedMessages \in Seq(Message)
    BY DEF TypeOK
  <2> QED BY <2>1, PacketsHoldQueue DEF PacketsCarryTheQueue
<1> QED BY <1>1, TypeCorrect, PTL

==============================================================================
