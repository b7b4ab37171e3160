-------------------------- MODULE GrpNeighborsProofs --------------------------
(***************************************************************************)
(* Machine-checked proofs about GrpNeighbors, for any set of vehicles, any  *)
(* intervals and jitter, and any range of sequence numbers.                 *)
(***************************************************************************)
EXTENDS GrpNeighbors, TLAPS

\* Bounds used throughout: the clocks' caps are natural numbers.
LEMMA Caps ==
    /\ HoldTime \in Nat \ {0} /\ VTime \in Nat \ {0} /\ MaxJitter \in Nat /\ MaxSeq \in Nat
    /\ AgeCap \in Nat /\ GapCap \in Nat
    /\ AgeCap = 2 * HoldTime + MaxJitter + 1 /\ GapCap = HoldTime + MaxJitter + 1
    /\ HelloInterval = HoldTime
  BY NeighborAssumption DEF HoldTime, AgeCap, GapCap

\* Changing one cell of a two-dimensional table keeps its type.
LEMMA CellType ==
    ASSUME NEW S, NEW T, NEW f \in [S -> [S -> T]], NEW n \in S, NEW m \in S, NEW v \in T
    PROVE  [f EXCEPT ![n][m] = v] \in [S -> [S -> T]]
  OBVIOUS

\* An absent entry is not an entry.
LEMMA NoEntryIsNone == NoEntry \notin Entry
<1>1. NoEntry.N_sequenceNum = -1
  BY DEF NoEntry
<1>2. \A e \in Entry : e.N_sequenceNum \in 0 .. MaxSeq
  BY DEF Entry
<1> QED BY <1>1, <1>2, Caps

\* The sequence number wraps within its range.
LEMMA SeqInRange ==
    ASSUME TypeOK, NEW n \in Nodes
    PROVE  GetMessageSequenceNumber(n) \in 0 .. MaxSeq
  BY Caps DEF TypeOK, GetMessageSequenceNumber

\* Queueing a beacon keeps the types of the sender's variables.
LEMMA QueueType ==
    ASSUME TypeOK, NEW n \in Nodes, NEW type \in {"HELLO", "ANT"},
           NEW list \in SUBSET Nodes, NEW j \in 0 .. MaxJitter,
           QueueMessage(n, type, list, j)
    PROVE  /\ m_queuedMessages' \in [Nodes -> Seq(Message)]
           /\ m_queuedMessagesTimer' \in [Nodes -> {Idle} \cup 0 .. MaxJitter]
           /\ m_messageSequenceNumber' \in [Nodes -> 0 .. MaxSeq]
<1> DEFINE msg == [type |-> type, originator |-> n, seq |-> GetMessageSequenceNumber(n),
                   neighbors |-> list]
<1>1. msg \in Message
  BY SeqInRange DEF Message
<1>2. m_queuedMessages' = [m_queuedMessages EXCEPT ![n] = Append(m_queuedMessages[n], msg)]
  BY DEF QueueMessage
<1>3. Append(m_queuedMessages[n], msg) \in Seq(Message)
  BY <1>1 DEF TypeOK
<1>4. m_queuedMessages' \in [Nodes -> Seq(Message)]
  <2> HIDE DEF msg
  <2> QED BY <1>2, <1>3 DEF TypeOK
<1>5. m_queuedMessagesTimer' \in [Nodes -> {Idle} \cup 0 .. MaxJitter]
  BY DEF QueueMessage, TypeOK
<1>6. m_messageSequenceNumber' \in [Nodes -> 0 .. MaxSeq]
  BY SeqInRange DEF QueueMessage, TypeOK
<1> QED BY <1>4, <1>5, <1>6

\* Restarting the Hello timer keeps its type.
LEMMA PostponeType ==
    ASSUME TypeOK, NEW n \in Nodes, PostponeHello(n)
    PROVE  m_helloTimer' \in [Nodes -> {Idle} \cup 0 .. HelloInterval]
  BY Caps DEF TypeOK, PostponeHello

\* A renewed entry, its check and its clocks have their types.
LEMMA UpdateType ==
    ASSUME TypeOK, NEW n \in Nodes, NEW msg \in Message, NEW listed \in BOOLEAN,
           UpdateEntry(n, msg, listed)
    PROVE  /\ m_neiTable' \in [Nodes -> [Nodes -> Entry \cup {NoEntry}]]
           /\ checks' \in [Nodes -> [Nodes -> SUBSET (0 .. HoldTime)]]
           /\ age' \in [Nodes -> [Nodes -> 0 .. AgeCap]]
           /\ gap' \in [Nodes -> [Nodes -> 0 .. GapCap]]
<1>1. msg.originator \in Nodes /\ msg.seq \in 0 .. MaxSeq
  BY DEF Message
<1>2. Renew(n, msg, listed) \in Entry
  BY <1>1, Caps DEF Renew, Entry
<1>3. CASE ~IsNews(n, msg)
  BY <1>3 DEF UpdateEntry, TypeOK
<1>4. CASE IsNews(n, msg)
  <2>1. m_neiTable' \in [Nodes -> [Nodes -> Entry \cup {NoEntry}]]
    <3>1. m_neiTable' = [m_neiTable EXCEPT ![n][msg.originator] = Renew(n, msg, listed)]
      BY <1>4 DEF UpdateEntry
    <3> QED BY <1>1, <1>2, <3>1, CellType DEF TypeOK
  <2>2. checks' \in [Nodes -> [Nodes -> SUBSET (0 .. HoldTime)]]
    <3> DEFINE c == checks[n][msg.originator] \cup {HoldTime}
    <3>1. checks' = [checks EXCEPT ![n][msg.originator] = c]
      BY <1>4 DEF UpdateEntry, ScheduleCheck
    <3>2. c \in SUBSET (0 .. HoldTime)
      <4>1. checks[n][msg.originator] \subseteq 0 .. HoldTime
        BY <1>1 DEF TypeOK
      <4>2. HoldTime \in 0 .. HoldTime
        BY Caps
      <4> QED BY <4>1, <4>2
    <3> HIDE DEF c
    <3> QED BY <1>1, <3>1, <3>2, CellType DEF TypeOK
  <2>3. age' \in [Nodes -> [Nodes -> 0 .. AgeCap]]
    <3>1. age' = [age EXCEPT ![n][msg.originator] = 0] /\ 0 \in 0 .. AgeCap
      BY <1>4, Caps DEF UpdateEntry
    <3> QED BY <1>1, <3>1, CellType DEF TypeOK
  <2>4. gap' \in [Nodes -> [Nodes -> 0 .. GapCap]]
    <3>1. gap' = [gap EXCEPT ![n][msg.originator] = 0] /\ 0 \in 0 .. GapCap
      BY <1>4, Caps DEF UpdateEntry
    <3> QED BY <1>1, <3>1, CellType DEF TypeOK
  <2> QED BY <2>1, <2>2, <2>3, <2>4
<1> QED BY <1>3, <1>4

\* The variables start in their types.
LEMMA InitType == Init => TypeOK
<1> SUFFICES ASSUME Init PROVE TypeOK
  OBVIOUS
<1>1. helloEvent \in [Nodes -> {Idle} \cup Nat]
  BY NeighborAssumption DEF Init
<1>2. /\ m_helloTimer \in [Nodes -> {Idle} \cup 0 .. HelloInterval]
      /\ m_queuedMessagesTimer \in [Nodes -> {Idle} \cup 0 .. MaxJitter]
      /\ m_messageSequenceNumber \in [Nodes -> 0 .. MaxSeq]
  BY Caps DEF Init
<1>3. m_queuedMessages \in [Nodes -> Seq(Message)] /\ inbox \in [Nodes -> Seq(Message)]
  BY DEF Init
<1>4. /\ m_neiTable \in [Nodes -> [Nodes -> Entry \cup {NoEntry}]]
      /\ checks \in [Nodes -> [Nodes -> SUBSET (0 .. HoldTime)]]
  BY DEF Init
<1>5. age \in [Nodes -> [Nodes -> 0 .. AgeCap]] /\ gap \in [Nodes -> [Nodes -> 0 .. GapCap]]
  BY Caps DEF Init
<1> QED BY <1>1, <1>2, <1>3, <1>4, <1>5 DEF TypeOK

\* Every step keeps the types.
LEMMA TypeStep == TypeOK /\ [Next]_vars => TypeOK'
<1> SUFFICES ASSUME TypeOK, [Next]_vars PROVE TypeOK'
  OBVIOUS
<1>1. ASSUME NEW n \in Nodes, NEW j \in 0 .. MaxJitter, HelloTimerExpire(n, j)
      PROVE  TypeOK'
  <2>1. Table(n) \in SUBSET Nodes
    BY DEF Table, Others
  <2>2. helloEvent' \in [Nodes -> {Idle} \cup Nat]
    BY <1>1 DEF HelloTimerExpire, TypeOK
  <2>3. m_helloTimer' \in [Nodes -> {Idle} \cup 0 .. HelloInterval]
    BY <1>1, Caps DEF HelloTimerExpire, TypeOK
  <2>4. QueueMessage(n, "HELLO", Table(n), j)
    BY <1>1 DEF HelloTimerExpire
  <2>5. UNCHANGED <<inbox, m_neiTable, checks, age, gap>>
    BY <1>1 DEF HelloTimerExpire
  <2> QED BY <2>1, <2>2, <2>3, <2>4, <2>5, QueueType DEF TypeOK
<1>2. ASSUME NEW n \in Nodes, NEW found \in BOOLEAN, NEW j \in 0 .. MaxJitter,
             AntTimerExpire(n, found, j)
      PROVE  TypeOK'
  <2>1. Table(n) \in SUBSET Nodes
    BY DEF Table, Others
  <2>2. UNCHANGED <<helloEvent, inbox, m_neiTable, checks, age, gap>>
    BY <1>2 DEF AntTimerExpire
  <2>3. CASE found
    <3>1. QueueMessage(n, "ANT", Table(n), j) /\ PostponeHello(n)
      BY <1>2, <2>3 DEF AntTimerExpire, LaunchAnt
    <3> QED BY <2>1, <2>2, <3>1, QueueType, PostponeType DEF TypeOK
  <2>4. CASE ~found
    <3>1. /\ m_messageSequenceNumber' =
                [m_messageSequenceNumber EXCEPT ![n] = GetMessageSequenceNumber(n)]
          /\ UNCHANGED <<m_queuedMessages, m_queuedMessagesTimer, m_helloTimer>>
      BY <1>2, <2>4 DEF AntTimerExpire, LaunchAnt
    <3>2. m_messageSequenceNumber' \in [Nodes -> 0 .. MaxSeq]
      BY <3>1, SeqInRange DEF TypeOK
    <3> QED BY <2>2, <3>1, <3>2 DEF TypeOK
  <2> QED BY <2>3, <2>4
<1>3. ASSUME NEW n \in Nodes, NEW reached \in SUBSET Others(n), SendQueuedMessages(n, reached)
      PROVE  TypeOK'
  <2>1. /\ m_queuedMessagesTimer' \in [Nodes -> {Idle} \cup 0 .. MaxJitter]
        /\ m_queuedMessages' \in [Nodes -> Seq(Message)]
    BY <1>3 DEF SendQueuedMessages, TypeOK
  <2>2. inbox' \in [Nodes -> Seq(Message)]
    BY <1>3 DEF SendQueuedMessages, TypeOK
  <2>3. gap' \in [Nodes -> [Nodes -> 0 .. GapCap]]
    BY <1>3, Caps DEF SendQueuedMessages, TypeOK
  <2>4. UNCHANGED <<helloEvent, m_helloTimer, m_messageSequenceNumber, m_neiTable, checks, age>>
    BY <1>3 DEF SendQueuedMessages
  <2> QED BY <2>1, <2>2, <2>3, <2>4 DEF TypeOK
<1>4. ASSUME NEW n \in Nodes, NEW far \in BOOLEAN, ProcessHello(n, far)
      PROVE  TypeOK'
  <2> DEFINE msg == Head(inbox[n])
  <2>1. inbox[n] \in Seq(Message) /\ inbox[n] # <<>>
    BY <1>4 DEF ProcessHello, TypeOK
  <2>2. msg \in Message /\ Tail(inbox[n]) \in Seq(Message)
    BY <2>1
  <2>3. inbox' \in [Nodes -> Seq(Message)]
    BY <1>4, <2>2 DEF ProcessHello, TypeOK
  <2>4. UNCHANGED sendVars
    BY <1>4 DEF ProcessHello
  <2>5. CASE far
    <3>1. /\ gap' = [gap EXCEPT ![n][msg.originator] = 0]
          /\ UNCHANGED <<m_neiTable, checks, age>>
      BY <1>4, <2>5 DEF ProcessHello
    <3>2. msg.originator \in Nodes
      BY <2>2 DEF Message
    <3>3. gap' \in [Nodes -> [Nodes -> 0 .. GapCap]]
      <4> HIDE DEF msg
      <4> QED BY <3>1, <3>2, Caps DEF TypeOK
    <3> QED BY <2>3, <2>4, <3>1, <3>3 DEF TypeOK, sendVars
  <2>6. CASE ~far
    <3>1. UpdateEntry(n, msg, n \in msg.neighbors)
      BY <1>4, <2>6 DEF ProcessHello
    <3>2. (n \in msg.neighbors) \in BOOLEAN
      OBVIOUS
    <3> HIDE DEF msg
    <3>3. /\ m_neiTable' \in [Nodes -> [Nodes -> Entry \cup {NoEntry}]]
          /\ checks' \in [Nodes -> [Nodes -> SUBSET (0 .. HoldTime)]]
          /\ age' \in [Nodes -> [Nodes -> 0 .. AgeCap]]
          /\ gap' \in [Nodes -> [Nodes -> 0 .. GapCap]]
      BY <2>2, <3>1, <3>2, UpdateType
    <3> QED BY <2>3, <2>4, <3>3 DEF TypeOK, sendVars
  <2> QED BY <2>5, <2>6
<1>5. ASSUME NEW n \in Nodes, NEW intact \in BOOLEAN, NEW mine \in BOOLEAN,
             NEW j \in 0 .. MaxJitter, ProcessAnt(n, intact, mine, j)
      PROVE  TypeOK'
  <2> DEFINE msg == Head(inbox[n])
  <2>1. inbox[n] \in Seq(Message) /\ inbox[n] # <<>>
    BY <1>5 DEF ProcessAnt, TypeOK
  <2>2. msg \in Message /\ Tail(inbox[n]) \in Seq(Message)
    BY <2>1
  <2>3. inbox' \in [Nodes -> Seq(Message)]
    BY <1>5, <2>2 DEF ProcessAnt, TypeOK
  <2>4. helloEvent' = helloEvent
    BY <1>5 DEF ProcessAnt
  <2>5. UpdateEntry(n, msg, intact /\ n \in msg.neighbors)
    BY <1>5 DEF ProcessAnt
  <2>6. (intact /\ n \in msg.neighbors) \in BOOLEAN
    OBVIOUS
  <2>7. /\ m_neiTable' \in [Nodes -> [Nodes -> Entry \cup {NoEntry}]]
        /\ checks' \in [Nodes -> [Nodes -> SUBSET (0 .. HoldTime)]]
        /\ age' \in [Nodes -> [Nodes -> 0 .. AgeCap]]
        /\ gap' \in [Nodes -> [Nodes -> 0 .. GapCap]]
    <3> HIDE DEF msg
    <3> QED BY <2>2, <2>5, <2>6, UpdateType
  <2>8. CASE mine
    <3>1. QueueMessage(n, "ANT", Table(n) \cup {msg.originator}, j) /\ PostponeHello(n)
      BY <1>5, <2>8 DEF ProcessAnt
    <3>2. Table(n) \cup {msg.originator} \in SUBSET Nodes
      BY <2>2 DEF Table, Others, Message
    <3> HIDE DEF msg
    <3>3. /\ m_queuedMessages' \in [Nodes -> Seq(Message)]
          /\ m_queuedMessagesTimer' \in [Nodes -> {Idle} \cup 0 .. MaxJitter]
          /\ m_messageSequenceNumber' \in [Nodes -> 0 .. MaxSeq]
      BY <3>1, <3>2, QueueType
    <3> QED BY <2>3, <2>4, <2>7, <3>1, <3>3, PostponeType DEF TypeOK
  <2>9. CASE ~mine
    <3>1. UNCHANGED <<m_queuedMessages, m_queuedMessagesTimer, m_messageSequenceNumber,
                      m_helloTimer>>
      BY <1>5, <2>9 DEF ProcessAnt
    <3> QED BY <2>3, <2>4, <2>7, <3>1 DEF TypeOK
  <2> QED BY <2>8, <2>9
<1>6. ASSUME NEW n \in Nodes, NEW m \in Nodes, NeiTableCheckExpire(n, m)
      PROVE  TypeOK'
  <2>1. checks' \in [Nodes -> [Nodes -> SUBSET (0 .. HoldTime)]]
    BY <1>6 DEF NeiTableCheckExpire, TypeOK
  <2>2. m_neiTable' \in [Nodes -> [Nodes -> Entry \cup {NoEntry}]]
    BY <1>6 DEF NeiTableCheckExpire, TypeOK
  <2>3. UNCHANGED <<sendVars, inbox, age, gap>>
    BY <1>6 DEF NeiTableCheckExpire
  <2> QED BY <2>1, <2>2, <2>3 DEF TypeOK, sendVars
<1>7. CASE Tick
  <2>1. helloEvent' \in [Nodes -> {Idle} \cup Nat]
    BY <1>7 DEF Tick, Elapse, Idle, TypeOK
  <2>2. m_helloTimer' \in [Nodes -> {Idle} \cup 0 .. HelloInterval]
    <3> SUFFICES ASSUME NEW n \in Nodes
                 PROVE  Elapse(m_helloTimer[n]) \in {Idle} \cup 0 .. HelloInterval
      BY <1>7 DEF Tick
    <3>1. m_helloTimer[n] \in {Idle} \cup 1 .. HelloInterval
      BY <1>7, Caps DEF Tick, TypeOK
    <3> QED BY <3>1, Caps DEF Elapse, Idle
  <2>3. m_queuedMessagesTimer' \in [Nodes -> {Idle} \cup 0 .. MaxJitter]
    <3> SUFFICES ASSUME NEW n \in Nodes
                 PROVE  Elapse(m_queuedMessagesTimer[n]) \in {Idle} \cup 0 .. MaxJitter
      BY <1>7 DEF Tick
    <3>1. m_queuedMessagesTimer[n] \in {Idle} \cup 1 .. MaxJitter
      BY <1>7, Caps DEF Tick, TypeOK
    <3> QED BY <3>1, Caps DEF Elapse, Idle
  <2>4. checks' \in [Nodes -> [Nodes -> SUBSET (0 .. HoldTime)]]
    <3> SUFFICES ASSUME NEW n \in Nodes, NEW m \in Nodes
                 PROVE  {t - 1 : t \in checks[n][m]} \in SUBSET (0 .. HoldTime)
      BY <1>7 DEF Tick
    <3>1. checks[n][m] \subseteq 0 .. HoldTime
      BY DEF TypeOK
    <3>2. 0 \notin checks[n][m]
      BY <1>7 DEF Tick
    <3>3. \A t \in checks[n][m] : t - 1 \in 0 .. HoldTime
      BY <3>1, <3>2, Caps
    <3> QED BY <3>3
  <2>5. m_neiTable' \in [Nodes -> [Nodes -> Entry \cup {NoEntry}]]
    <3> SUFFICES ASSUME NEW n \in Nodes, NEW m \in Nodes
                 PROVE  [m_neiTable[n][m] EXCEPT !.N_time = IF @ = 0 THEN 0 ELSE @ - 1]
                            \in Entry \cup {NoEntry}
      BY <1>7 DEF Tick
    <3>1. CASE m_neiTable[n][m] = NoEntry
      BY <3>1 DEF NoEntry
    <3>2. CASE m_neiTable[n][m] \in Entry
      BY <3>2, Caps DEF Entry
    <3> QED BY <3>1, <3>2 DEF TypeOK
  <2>6. age' \in [Nodes -> [Nodes -> 0 .. AgeCap]]
    <3> SUFFICES ASSUME NEW n \in Nodes, NEW m \in Nodes
                 PROVE  CountTo(AgeCap, age[n][m]) \in 0 .. AgeCap
      BY <1>7 DEF Tick
    <3>1. age[n][m] \in 0 .. AgeCap
      BY DEF TypeOK
    <3> QED BY <3>1, Caps DEF CountTo
  <2>7. gap' \in [Nodes -> [Nodes -> 0 .. GapCap]]
    <3> SUFFICES ASSUME NEW n \in Nodes, NEW m \in Nodes
                 PROVE  CountTo(GapCap, gap[n][m]) \in 0 .. GapCap /\ 0 \in 0 .. GapCap
      BY <1>7 DEF Tick
    <3>1. gap[n][m] \in 0 .. GapCap
      BY DEF TypeOK
    <3> QED BY <3>1, Caps DEF CountTo
  <2>8. UNCHANGED <<m_queuedMessages, m_messageSequenceNumber, inbox>>
    BY <1>7 DEF Tick
  <2> QED BY <2>1, <2>2, <2>3, <2>4, <2>5, <2>6, <2>7, <2>8 DEF TypeOK
<1>8. CASE UNCHANGED vars
  BY <1>8 DEF vars, sendVars, TypeOK
<1> QED
  BY <1>1, <1>2, <1>3, <1>4, <1>5, <1>6, <1>7, <1>8, NeighborAssumption DEF Next

\* Every variable keeps its type in every run of the neighbour protocol.
THEOREM TypeCorrect == Spec => []TypeOK
<1>1. Init => TypeOK
  BY InitType
<1>2. TypeOK /\ [Next]_vars => TypeOK'
  BY TypeStep
<1> QED BY <1>1, <1>2, PTL DEF Spec

-------------------------------------------------------------------------------
(* Freshness.  EntryIsFresh is not inductive: that an entry goes away in time *)
(* rests on the check that its last renewal scheduled, and on the entry being *)
(* over when that check runs.                                                 *)

Left(t) == IF t < VTime THEN VTime - t ELSE 0

FreshCell(n, m) ==
    Known(n, m) => /\ HoldTime - age[n][m] \in checks[n][m]
                   /\ m_neiTable[n][m].N_time = Left(age[n][m])

FreshInv == \A n, m \in Nodes : FreshCell(n, m)

\* What a cell of a two-dimensional table holds after another was changed.
LEMMA CellValue ==
    ASSUME NEW S, NEW T, NEW f \in [S -> [S -> T]], NEW n \in S, NEW m \in S, NEW v,
           NEW r \in S, NEW s \in S
    PROVE  [f EXCEPT ![n][m] = v][r][s] = IF r = n /\ s = m THEN v ELSE f[r][s]
  OBVIOUS

\* A fresh entry was renewed at most a hold time ago.
LEMMA FreshAge ==
    ASSUME TypeOK, FreshInv, NEW n \in Nodes, NEW m \in Nodes, Known(n, m)
    PROVE  age[n][m] <= HoldTime
<1>1. HoldTime - age[n][m] \in checks[n][m] /\ checks[n][m] \subseteq 0 .. HoldTime
  BY DEF FreshInv, FreshCell, TypeOK
<1>2. age[n][m] \in Nat
  BY Caps DEF TypeOK
<1> QED BY <1>1, <1>2, Caps

\* Renewing an entry keeps every entry fresh.
LEMMA FreshUpdate ==
    ASSUME TypeOK, FreshInv, NEW n \in Nodes, NEW msg \in Message, NEW listed \in BOOLEAN,
           UpdateEntry(n, msg, listed)
    PROVE  FreshInv'
<1>1. msg.originator \in Nodes
  BY DEF Message
<1>2. CASE ~IsNews(n, msg)
  BY <1>2 DEF UpdateEntry, FreshInv, FreshCell, Known
<1>3. CASE IsNews(n, msg)
  <2> DEFINE o == msg.originator
             c == checks[n][o] \cup {HoldTime}
             e == Renew(n, msg, listed)
  <2>1. /\ m_neiTable' = [m_neiTable EXCEPT ![n][o] = e]
        /\ checks' = [checks EXCEPT ![n][o] = c]
        /\ age' = [age EXCEPT ![n][o] = 0]
    BY <1>3 DEF UpdateEntry, ScheduleCheck
  <2>2. HoldTime \in c /\ e.N_time = VTime
    BY DEF Renew
  <2>3. Left(0) = VTime /\ HoldTime - 0 = HoldTime
    BY Caps DEF Left
  <2>4. o \in Nodes
    BY <1>1
  <2> HIDE DEF o, c, e
  <2> SUFFICES ASSUME NEW r \in Nodes, NEW s \in Nodes PROVE FreshCell(r, s)'
    BY DEF FreshInv
  <2>5. /\ m_neiTable'[r][s] = IF r = n /\ s = o THEN e ELSE m_neiTable[r][s]
        /\ checks'[r][s] = IF r = n /\ s = o THEN c ELSE checks[r][s]
        /\ age'[r][s] = IF r = n /\ s = o THEN 0 ELSE age[r][s]
    <3>1. /\ m_neiTable \in [Nodes -> [Nodes -> Entry \cup {NoEntry}]]
          /\ checks \in [Nodes -> [Nodes -> SUBSET (0 .. HoldTime)]]
          /\ age \in [Nodes -> [Nodes -> 0 .. AgeCap]]
      BY DEF TypeOK
    <3>2. m_neiTable'[r][s] = IF r = n /\ s = o THEN e ELSE m_neiTable[r][s]
      BY <2>1, <2>4, <3>1, CellValue
    <3>3. checks'[r][s] = IF r = n /\ s = o THEN c ELSE checks[r][s]
      BY <2>1, <2>4, <3>1, CellValue
    <3>4. age'[r][s] = IF r = n /\ s = o THEN 0 ELSE age[r][s]
      BY <2>1, <2>4, <3>1, CellValue
    <3> QED BY <3>2, <3>3, <3>4
  <2>6. CASE r = n /\ s = o
    BY <2>2, <2>3, <2>5, <2>6 DEF FreshCell
  <2>7. CASE ~(r = n /\ s = o)
    BY <2>5, <2>7 DEF FreshInv, FreshCell, Known
  <2> QED BY <2>6, <2>7
<1> QED BY <1>2, <1>3

\* A check erases an entry that is not heard any more, and no check of a
\* fresh entry is used up by it.
LEMMA FreshCheck ==
    ASSUME VTime <= HoldTime, TypeOK, FreshInv, NEW n \in Nodes, NEW m \in Nodes,
           NeiTableCheckExpire(n, m)
    PROVE  FreshInv'
<1> DEFINE c == checks[n][m] \ {0}
           e == IF Expired(n, m) THEN NoEntry ELSE m_neiTable[n][m]
<1>1. /\ m_neiTable' = [m_neiTable EXCEPT ![n][m] = e]
      /\ checks' = [checks EXCEPT ![n][m] = c]
      /\ age' = age
  BY DEF NeiTableCheckExpire
<1> SUFFICES ASSUME NEW r \in Nodes, NEW s \in Nodes PROVE FreshCell(r, s)'
  BY DEF FreshInv
<1>2. /\ m_neiTable'[r][s] = IF r = n /\ s = m THEN e ELSE m_neiTable[r][s]
      /\ checks'[r][s] = IF r = n /\ s = m THEN c ELSE checks[r][s]
  <2> HIDE DEF c, e
  <2>1. /\ m_neiTable \in [Nodes -> [Nodes -> Entry \cup {NoEntry}]]
        /\ checks \in [Nodes -> [Nodes -> SUBSET (0 .. HoldTime)]]
    BY DEF TypeOK
  <2>2. m_neiTable'[r][s] = IF r = n /\ s = m THEN e ELSE m_neiTable[r][s]
    BY <1>1, <2>1, CellValue
  <2>3. checks'[r][s] = IF r = n /\ s = m THEN c ELSE checks[r][s]
    BY <1>1, <2>1, CellValue
  <2> QED BY <2>2, <2>3
<1>3. CASE ~(r = n /\ s = m)
  BY <1>1, <1>2, <1>3 DEF FreshInv, FreshCell, Known
<1>4. CASE (r = n /\ s = m) /\ e = NoEntry
  BY <1>2, <1>4 DEF FreshCell, Known
<1>5. CASE (r = n /\ s = m) /\ e # NoEntry
  <2>1. ~Expired(n, m) /\ e = m_neiTable[n][m] /\ Known(n, m)
    BY <1>5 DEF Known
  <2>2. /\ HoldTime - age[n][m] \in checks[n][m]
        /\ m_neiTable[n][m].N_time = Left(age[n][m])
    BY <2>1 DEF FreshInv, FreshCell
  <2>3. age[n][m] \in Nat
    BY Caps DEF TypeOK
  <2>4. HoldTime - age[n][m] # 0
    BY <2>1, <2>2, <2>3, Caps DEF Expired, Left
  <2>5. HoldTime - age[n][m] \in c
    BY <2>2, <2>4
  <2> QED BY <1>1, <1>2, <1>5, <2>1, <2>2, <2>5 DEF FreshCell
<1> QED BY <1>3, <1>4, <1>5

\* Time brings the check, the validity and the age forward together.
LEMMA FreshTick ==
    ASSUME TypeOK, FreshInv, Tick
    PROVE  FreshInv'
<1> SUFFICES ASSUME NEW n \in Nodes, NEW m \in Nodes, Known(n, m)'
             PROVE  /\ HoldTime - age'[n][m] \in checks'[n][m]
                    /\ m_neiTable'[n][m].N_time = Left(age'[n][m])
  BY DEF FreshInv, FreshCell
<1> DEFINE e == m_neiTable[n][m]
           a == age[n][m]
<1>1. /\ m_neiTable'[n][m] = [e EXCEPT !.N_time = IF @ = 0 THEN 0 ELSE @ - 1]
      /\ checks'[n][m] = {t - 1 : t \in checks[n][m]}
      /\ age'[n][m] = CountTo(AgeCap, a)
      /\ 0 \notin checks[n][m]
  BY DEF Tick
<1>2. e # NoEntry
  <2> SUFFICES ASSUME e = NoEntry PROVE FALSE
    OBVIOUS
  <2>1. [NoEntry EXCEPT !.N_time = IF @ = 0 THEN 0 ELSE @ - 1] = NoEntry
    BY DEF NoEntry
  <2> QED BY <1>1, <2>1 DEF Known
<1>3. HoldTime - a \in checks[n][m] /\ e.N_time = Left(a)
  BY <1>2 DEF FreshInv, FreshCell, Known
<1>4. a \in Nat /\ a < HoldTime
  <2>1. a \in Nat /\ a <= HoldTime
    <3>1. Known(n, m)
      BY <1>2 DEF Known
    <3>2. age[n][m] \in Nat
      BY Caps DEF TypeOK
    <3> QED BY <3>1, <3>2, FreshAge
  <2> QED BY <1>1, <1>3, <2>1, Caps
<1>5. age'[n][m] = a + 1
  BY <1>1, <1>4, Caps DEF CountTo
<1>6. HoldTime - age'[n][m] \in checks'[n][m]
  <2>1. (HoldTime - a) - 1 \in checks'[n][m]
    BY <1>1, <1>3
  <2> HIDE DEF a
  <2> QED BY <1>4, <1>5, <2>1, Caps
<1>7. m_neiTable'[n][m].N_time = Left(age'[n][m])
  <2>1. e \in Entry
    BY <1>2 DEF TypeOK
  <2>2. m_neiTable'[n][m].N_time = IF e.N_time = 0 THEN 0 ELSE e.N_time - 1
    <3> HIDE DEF e
    <3> QED BY <1>1, <2>1 DEF Entry
  <2> HIDE DEF a, e
  <2> QED BY <1>3, <1>4, <1>5, <2>2, Caps DEF Left
<1> QED BY <1>6, <1>7

\* The message that RecvGrp takes next is a message.
LEMMA HeadIsMessage ==
    ASSUME TypeOK, NEW n \in Nodes, inbox[n] # <<>>
    PROVE  Head(inbox[n]) \in Message
<1>1. inbox[n] \in Seq(Message)
  BY DEF TypeOK
<1> QED BY <1>1

\* Every step keeps every entry fresh.
LEMMA FreshStep ==
    ASSUME VTime <= HoldTime, TypeOK, FreshInv, [Next]_vars
    PROVE  FreshInv'
<1> DEFINE same == UNCHANGED <<m_neiTable, checks, age>>
<1>1. ASSUME same PROVE FreshInv'
  BY <1>1 DEF FreshInv, FreshCell, Known
<1>2. ASSUME NEW n \in Nodes, NEW j \in 0 .. MaxJitter, HelloTimerExpire(n, j) PROVE FreshInv'
  BY <1>1, <1>2 DEF HelloTimerExpire
<1>3. ASSUME NEW n \in Nodes, NEW found \in BOOLEAN, NEW j \in 0 .. MaxJitter,
             AntTimerExpire(n, found, j)
      PROVE  FreshInv'
  BY <1>1, <1>3 DEF AntTimerExpire
<1>4. ASSUME NEW n \in Nodes, NEW reached \in SUBSET Others(n), SendQueuedMessages(n, reached)
      PROVE  FreshInv'
  BY <1>1, <1>4 DEF SendQueuedMessages
<1>5. ASSUME NEW n \in Nodes, NEW far \in BOOLEAN, ProcessHello(n, far) PROVE FreshInv'
  <2>1. CASE far
    BY <1>1, <1>5, <2>1 DEF ProcessHello
  <2>2. CASE ~far
    <3> DEFINE msg == Head(inbox[n])
    <3>1. msg \in Message /\ UpdateEntry(n, msg, n \in msg.neighbors)
      BY <1>5, <2>2, HeadIsMessage DEF ProcessHello
    <3>2. (n \in msg.neighbors) \in BOOLEAN
      OBVIOUS
    <3> HIDE DEF msg
    <3> QED BY <3>1, <3>2, FreshUpdate
  <2> QED BY <2>1, <2>2
<1>6. ASSUME NEW n \in Nodes, NEW intact \in BOOLEAN, NEW mine \in BOOLEAN,
             NEW j \in 0 .. MaxJitter, ProcessAnt(n, intact, mine, j)
      PROVE  FreshInv'
  <2> DEFINE msg == Head(inbox[n])
  <2>1. msg \in Message /\ UpdateEntry(n, msg, intact /\ n \in msg.neighbors)
    BY <1>6, HeadIsMessage DEF ProcessAnt
  <2>2. (intact /\ n \in msg.neighbors) \in BOOLEAN
    OBVIOUS
  <2> HIDE DEF msg
  <2> QED BY <2>1, <2>2, FreshUpdate
<1>7. ASSUME NEW n \in Nodes, NEW m \in Nodes, NeiTableCheckExpire(n, m) PROVE FreshInv'
  BY <1>7, FreshCheck
<1>8. CASE Tick
  BY <1>8, FreshTick
<1>9. CASE UNCHANGED vars
  BY <1>1, <1>9 DEF vars
<1> QED
  BY <1>2, <1>3, <1>4, <1>5, <1>6, <1>7, <1>8, <1>9, NeighborAssumption DEF Next

\* If the decoded validity is not longer than the hold time, a vehicle that is
\* no longer heard is out of the table after the hold time, whatever beacons
\* are lost, ignored as old, or renewed in between (NeiTableCheckExpire).
THEOREM FreshCorrect ==
    ASSUME VTime <= HoldTime
    PROVE  Spec => []EntryIsFresh
<1>1. Init => FreshInv
  BY DEF Init, FreshInv, FreshCell, Known
<1>2. TypeOK /\ FreshInv /\ [Next]_vars => FreshInv'
  BY FreshStep
<1>3. TypeOK /\ FreshInv => EntryIsFresh
  BY FreshAge DEF EntryIsFresh
<1> QED BY <1>1, <1>2, <1>3, TypeCorrect, PTL DEF Spec

-------------------------------------------------------------------------------
(* Symmetry.  A vehicle listed in a beacon had been heard within the hold time *)
(* when the beacon was queued; the beacon leaves at most one jitter later, and *)
(* the entry that a receiver makes of it lives for one more hold time.         *)

Bound == HoldTime + MaxJitter

QueuedHeard ==
    \A m \in Nodes : \A i \in 1 .. Len(m_queuedMessages[m]) :
        /\ m_queuedMessagesTimer[m] # Idle
        /\ m_queuedMessages[m][i].originator = m
        /\ \A n \in m_queuedMessages[m][i].neighbors :
                age[m][n] + m_queuedMessagesTimer[m] <= Bound

InboxHeard ==
    \A r \in Nodes : \A i \in 1 .. Len(inbox[r]) : \A n \in inbox[r][i].neighbors :
        age[inbox[r][i].originator][n] <= Bound

EntryHeard ==
    \A n, m \in Nodes : m_neiTable[n][m].N_sym => age[m][n] <= Bound + age[n][m]

HeardInv == QueuedHeard /\ InboxHeard /\ EntryHeard

\* No clock of a last beacon goes up.
AgesShrink == \A r, s \in Nodes : age'[r][s] <= age[r][s]

\* The clocks are natural numbers.
LEMMA AgeType ==
    ASSUME TypeOK
    PROVE  \A r, s \in Nodes : age[r][s] \in Nat /\ age[r][s] <= AgeCap
  BY Caps DEF TypeOK

\* The same after a step.
LEMMA AgeTypeAfter ==
    ASSUME TypeOK'
    PROVE  \A r, s \in Nodes : age'[r][s] \in Nat
<1>1. age' \in [Nodes -> [Nodes -> 0 .. AgeCap]]
  BY DEF TypeOK, AgeCap
<1> QED BY <1>1, Caps

\* Unchanged clocks do not go up.
LEMMA AgeSame ==
    ASSUME TypeOK, UNCHANGED age
    PROVE  AgesShrink
  BY AgeType DEF AgesShrink

\* A beacon that lists vehicles heard within the hold time may join the queue.
LEMMA HeardQueue ==
    ASSUME TypeOK, TypeOK', QueuedHeard, AgesShrink,
           NEW n \in Nodes, NEW type \in {"HELLO", "ANT"}, NEW list \in SUBSET Nodes,
           NEW j \in 0 .. MaxJitter, QueueMessage(n, type, list, j),
           \A s \in list : age'[n][s] <= HoldTime
    PROVE  QueuedHeard'
<1> DEFINE msg == [type |-> type, originator |-> n, seq |-> GetMessageSequenceNumber(n),
                   neighbors |-> list]
<1> SUFFICES ASSUME NEW m \in Nodes, NEW i \in 1 .. Len(m_queuedMessages'[m])
             PROVE  /\ m_queuedMessagesTimer'[m] # Idle
                    /\ m_queuedMessages'[m][i].originator = m
                    /\ \A s \in m_queuedMessages'[m][i].neighbors :
                            age'[m][s] + m_queuedMessagesTimer'[m] <= Bound
  BY DEF QueuedHeard, Bound
<1>1. m_queuedMessages' = [m_queuedMessages EXCEPT ![n] = Append(m_queuedMessages[n], msg)]
  BY DEF QueueMessage
<1>2. m_queuedMessagesTimer' =
        [m_queuedMessagesTimer EXCEPT ![n] = IF m_queuedMessagesTimer[n] = Idle
                                             THEN j ELSE m_queuedMessagesTimer[n]]
  BY DEF QueueMessage
<1>3. m_queuedMessages[m] \in Seq(Message) /\ m_queuedMessagesTimer[m] \in {Idle} \cup 0 .. MaxJitter
  BY DEF TypeOK
<1>4. msg.originator = n /\ msg.neighbors = list
  OBVIOUS
<1>5. ASSUME i \in 1 .. Len(m_queuedMessages[m]),
             m_queuedMessages'[m][i] = m_queuedMessages[m][i]
      PROVE  /\ m_queuedMessagesTimer'[m] # Idle
             /\ m_queuedMessages'[m][i].originator = m
             /\ \A s \in m_queuedMessages'[m][i].neighbors :
                     age'[m][s] + m_queuedMessagesTimer'[m] <= Bound
  <2>1. /\ m_queuedMessagesTimer[m] # Idle
        /\ m_queuedMessages[m][i].originator = m
        /\ \A s \in m_queuedMessages[m][i].neighbors :
                age[m][s] + m_queuedMessagesTimer[m] <= Bound
    BY <1>5 DEF QueuedHeard
  <2>2. m_queuedMessagesTimer'[m] = m_queuedMessagesTimer[m]
    BY <1>2, <2>1 DEF TypeOK
  <2>3. m_queuedMessagesTimer[m] \in 0 .. MaxJitter
    BY <1>3, <2>1
  <2>4. m_queuedMessages[m][i].neighbors \subseteq Nodes
    <3>1. m_queuedMessages[m][i] \in Message
      BY <1>3, <1>5
    <3> QED BY <3>1 DEF Message
  <2>5. ASSUME NEW s \in m_queuedMessages[m][i].neighbors
        PROVE  age'[m][s] + m_queuedMessagesTimer[m] <= Bound
    <3>1. s \in Nodes
      BY <2>4
    <3>2. PICK x \in Nat : x = age'[m][s]
      BY <3>1, AgeTypeAfter
    <3>3. x <= age[m][s] /\ age[m][s] \in Nat
      BY <3>1, <3>2, AgeType DEF AgesShrink
    <3>4. age[m][s] + m_queuedMessagesTimer[m] <= Bound
      BY <2>1
    <3> QED BY <2>3, <3>2, <3>3, <3>4, Caps DEF Bound
  <2> QED BY <1>5, <2>1, <2>2, <2>5
<1>6. CASE m # n
  <2>1. m_queuedMessages'[m] = m_queuedMessages[m]
    <3> HIDE DEF msg
    <3> QED BY <1>1, <1>6 DEF TypeOK
  <2> QED BY <1>5, <2>1
<1>7. CASE m = n /\ i <= Len(m_queuedMessages[n])
  <2>1. m_queuedMessages'[n] = Append(m_queuedMessages[n], msg)
    <3> HIDE DEF msg
    <3> QED BY <1>1 DEF TypeOK
  <2>2. i \in 1 .. Len(m_queuedMessages[m])
    BY <1>3, <1>7
  <2>3. m_queuedMessages'[m][i] = m_queuedMessages[m][i]
    <3> HIDE DEF msg
    <3> QED BY <1>3, <1>7, <2>1, <2>2
  <2> QED BY <1>5, <2>2, <2>3
<1>8. CASE m = n /\ ~(i <= Len(m_queuedMessages[n]))
  <2>1. m_queuedMessages'[n] = Append(m_queuedMessages[n], msg)
    <3> HIDE DEF msg
    <3> QED BY <1>1 DEF TypeOK
  <2>2. m_queuedMessages'[n][i] = msg
    <3> HIDE DEF msg
    <3> QED BY <1>3, <1>8, <2>1
  <2>3. PICK t \in 0 .. MaxJitter : t = m_queuedMessagesTimer'[n]
    BY <1>2, <1>3, <1>8 DEF TypeOK
  <2>4. ASSUME NEW s \in list PROVE age'[n][s] + t <= Bound
    <3>1. PICK x \in Nat : x = age'[n][s]
      BY AgeTypeAfter
    <3>2. x <= HoldTime
      BY <3>1
    <3>3. x + t <= HoldTime + MaxJitter
      BY <3>2, Caps
    <3> QED BY <3>1, <3>3 DEF Bound
  <2>5. t # Idle
    BY Caps DEF Idle
  <2> QED BY <1>4, <1>8, <2>2, <2>3, <2>4, <2>5
<1> QED BY <1>6, <1>7, <1>8

\* Unless time passes, queued beacons stay as they are.
LEMMA HeardKeep ==
    ASSUME TypeOK, TypeOK', QueuedHeard, AgesShrink,
           UNCHANGED <<m_queuedMessages, m_queuedMessagesTimer>>
    PROVE  QueuedHeard'
<1> SUFFICES ASSUME NEW m \in Nodes, NEW i \in 1 .. Len(m_queuedMessages[m]),
                    NEW s \in m_queuedMessages[m][i].neighbors
             PROVE  age'[m][s] + m_queuedMessagesTimer[m] <= Bound
  BY DEF QueuedHeard, Bound
<1>1. /\ m_queuedMessagesTimer[m] # Idle
      /\ age[m][s] + m_queuedMessagesTimer[m] <= Bound
  BY DEF QueuedHeard
<1>2. m_queuedMessagesTimer[m] \in 0 .. MaxJitter
  BY <1>1 DEF TypeOK
<1>3. s \in Nodes
  <2>1. m_queuedMessages[m][i] \in Message
    BY DEF TypeOK
  <2> QED BY <2>1 DEF Message
<1>4. PICK x \in Nat : x = age'[m][s]
  BY <1>3, AgeTypeAfter
<1>5. x <= age[m][s] /\ age[m][s] \in Nat
  BY <1>3, <1>4, AgeType DEF AgesShrink
<1> QED BY <1>1, <1>2, <1>4, <1>5, Caps DEF Bound

\* The messages that are still to be processed stay as they are.
LEMMA InboxKeep ==
    ASSUME TypeOK, TypeOK', InboxHeard, AgesShrink,
           \A r \in Nodes : \A i \in 1 .. Len(inbox'[r]) :
                \E k \in 1 .. Len(inbox[r]) : inbox'[r][i] = inbox[r][k]
    PROVE  InboxHeard'
<1> SUFFICES ASSUME NEW r \in Nodes, NEW i \in 1 .. Len(inbox'[r]),
                    NEW s \in inbox'[r][i].neighbors
             PROVE  age'[inbox'[r][i].originator][s] <= Bound
  BY DEF InboxHeard, Bound
<1>1. PICK k \in 1 .. Len(inbox[r]) : inbox'[r][i] = inbox[r][k]
  OBVIOUS
<1>2. inbox[r][k] \in Message
  BY DEF TypeOK
<1>3. PICK o \in Nodes : o = inbox[r][k].originator
  BY <1>2 DEF Message
<1>4. s \in Nodes
  BY <1>1, <1>2 DEF Message
<1>5. age[o][s] <= Bound
  BY <1>1, <1>3 DEF InboxHeard
<1>6. PICK x \in Nat : x = age'[o][s]
  BY <1>3, <1>4, AgeTypeAfter
<1>7. x <= age[o][s] /\ age[o][s] \in Nat
  BY <1>3, <1>4, <1>6, AgeType DEF AgesShrink
<1> QED BY <1>1, <1>3, <1>5, <1>6, <1>7, Caps DEF Bound

\* A renewal sets one clock back and leaves the others.
LEMMA UpdateShrinks ==
    ASSUME TypeOK, NEW n \in Nodes, NEW msg \in Message, NEW listed \in BOOLEAN,
           UpdateEntry(n, msg, listed)
    PROVE  /\ AgesShrink
           /\ IsNews(n, msg) => age'[n][msg.originator] = 0
<1>1. CASE ~IsNews(n, msg)
  BY <1>1, AgeSame DEF UpdateEntry
<1>2. CASE IsNews(n, msg)
  <2>1. age' = [age EXCEPT ![n][msg.originator] = 0]
    BY <1>2 DEF UpdateEntry
  <2>2. msg.originator \in Nodes
    BY DEF Message
  <2>3. \A r, s \in Nodes :
            age'[r][s] = IF r = n /\ s = msg.originator THEN 0 ELSE age[r][s]
    <3>1. age \in [Nodes -> [Nodes -> 0 .. AgeCap]]
      BY DEF TypeOK
    <3> QED BY <2>1, <2>2, <3>1, CellValue
  <2>4. ASSUME NEW r \in Nodes, NEW s \in Nodes PROVE age'[r][s] <= age[r][s]
    BY <2>3, AgeType
  <2> QED BY <2>2, <2>3, <2>4 DEF AgesShrink
<1> QED BY <1>1, <1>2

\* Marking the sender as symmetric is right if it had heard this vehicle.
LEMMA EntryUpdate ==
    ASSUME TypeOK, EntryHeard, NEW n \in Nodes, NEW msg \in Message, NEW listed \in BOOLEAN,
           UpdateEntry(n, msg, listed),
           listed => age[msg.originator][n] <= Bound
    PROVE  EntryHeard'
<1> DEFINE o == msg.originator
           e == Renew(n, msg, listed)
<1>1. o \in Nodes
  BY DEF Message
<1>2. CASE ~IsNews(n, msg)
  BY <1>2 DEF UpdateEntry, EntryHeard, Bound
<1>3. CASE IsNews(n, msg)
  <2>1. m_neiTable' = [m_neiTable EXCEPT ![n][o] = e] /\ age' = [age EXCEPT ![n][o] = 0]
    BY <1>3 DEF UpdateEntry
  <2>2. e.N_sym = listed
    BY DEF Renew
  <2>3. listed => age[o][n] <= Bound
    OBVIOUS
  <2> HIDE DEF o, e
  <2>4. ASSUME NEW r \in Nodes, NEW s \in Nodes
        PROVE  /\ m_neiTable'[r][s] = IF r = n /\ s = o THEN e ELSE m_neiTable[r][s]
               /\ age'[r][s] = IF r = n /\ s = o THEN 0 ELSE age[r][s]
    <3>1. /\ m_neiTable \in [Nodes -> [Nodes -> Entry \cup {NoEntry}]]
          /\ age \in [Nodes -> [Nodes -> 0 .. AgeCap]]
      BY DEF TypeOK
    <3>2. m_neiTable'[r][s] = IF r = n /\ s = o THEN e ELSE m_neiTable[r][s]
      BY <1>1, <2>1, <3>1, CellValue
    <3>3. age'[r][s] = IF r = n /\ s = o THEN 0 ELSE age[r][s]
      BY <1>1, <2>1, <3>1, CellValue
    <3> QED BY <3>2, <3>3
  <2> SUFFICES ASSUME NEW r \in Nodes, NEW s \in Nodes, m_neiTable'[r][s].N_sym
               PROVE  age'[s][r] <= Bound + age'[r][s]
    BY DEF EntryHeard, Bound
  <2>5. age[r][s] \in Nat /\ age[s][r] \in Nat /\ Bound \in Nat
    BY AgeType, Caps DEF Bound
  <2>6. CASE r = n /\ s = o
    <3>1. listed
      BY <2>2, <2>4, <2>6
    <3>2. age'[r][s] = 0 /\ age[s][r] <= Bound
      BY <2>3, <2>4, <2>6, <3>1
    <3>3. age'[s][r] = 0 \/ age'[s][r] = age[s][r]
      BY <2>4
    <3> QED BY <2>5, <3>2, <3>3
  <2>7. CASE ~(r = n /\ s = o)
    <3>1. age[s][r] <= Bound + age[r][s]
      BY <2>4, <2>7 DEF EntryHeard
    <3>2. age'[r][s] = age[r][s]
      BY <2>4, <2>7
    <3>3. age'[s][r] = 0 \/ age'[s][r] = age[s][r]
      BY <2>4
    <3> QED BY <2>5, <3>1, <3>2, <3>3
  <2> QED BY <2>6, <2>7
<1> QED BY <1>2, <1>3

\* Taking the first message out of the inbox leaves the others.
LEMMA InboxTail ==
    ASSUME TypeOK, TypeOK', InboxHeard, AgesShrink, NEW n \in Nodes, inbox[n] # <<>>,
           inbox' = [inbox EXCEPT ![n] = Tail(@)]
    PROVE  InboxHeard'
<1> SUFFICES ASSUME NEW r \in Nodes, NEW i \in 1 .. Len(inbox'[r])
             PROVE  \E k \in 1 .. Len(inbox[r]) : inbox'[r][i] = inbox[r][k]
  BY InboxKeep
<1>1. inbox[r] \in Seq(Message)
  BY DEF TypeOK
<1>2. CASE r = n
  <2>1. inbox'[r] = Tail(inbox[r])
    BY <1>2 DEF TypeOK
  <2> DEFINE q == inbox[r]
  <2>2. q \in Seq(Message) /\ q # <<>> /\ i \in 1 .. Len(Tail(q))
    BY <1>1, <1>2, <2>1
  <2>3. i + 1 \in 1 .. Len(q) /\ Tail(q)[i] = q[i + 1]
    <3> HIDE DEF q
    <3> QED BY <2>2
  <2>4. i + 1 \in 1 .. Len(inbox[r]) /\ inbox'[r][i] = inbox[r][i + 1]
    BY <2>1, <2>3
  <2> QED BY <2>4
<1>3. CASE r # n
  <2>1. inbox'[r] = inbox[r]
    BY <1>3 DEF TypeOK
  <2> QED BY <2>1
<1> QED BY <1>2, <1>3

\* What the first message of the inbox lists had been heard by its sender.
LEMMA HeadHeard ==
    ASSUME TypeOK, InboxHeard, NEW n \in Nodes, inbox[n] # <<>>, n \in Head(inbox[n]).neighbors
    PROVE  age[Head(inbox[n]).originator][n] <= Bound
<1>1. inbox[n] \in Seq(Message)
  BY DEF TypeOK
<1>2. 1 \in 1 .. Len(inbox[n]) /\ Head(inbox[n]) = inbox[n][1]
  BY <1>1
<1> QED BY <1>2 DEF InboxHeard

\* The vehicles of the table had been heard within the hold time.
LEMMA TableHeard ==
    ASSUME TypeOK, FreshInv, NEW n \in Nodes
    PROVE  Table(n) \in SUBSET Nodes /\ \A s \in Table(n) : age[n][s] <= HoldTime
  BY FreshAge DEF Table, Others

\* A broadcast hands the queue, whose jitter is over, to its receivers.
LEMMA HeardSend ==
    ASSUME TypeOK, TypeOK', HeardInv, NEW n \in Nodes, NEW reached \in SUBSET Others(n),
           SendQueuedMessages(n, reached)
    PROVE  HeardInv'
<1>1. /\ m_queuedMessagesTimer[n] = 0
      /\ m_queuedMessagesTimer' = [m_queuedMessagesTimer EXCEPT ![n] = Idle]
      /\ m_queuedMessages' = [m_queuedMessages EXCEPT ![n] = <<>>]
      /\ inbox' = [r \in Nodes |-> IF r \in reached THEN m_queuedMessages[n] ELSE inbox[r]]
      /\ UNCHANGED <<m_neiTable, age>>
  BY DEF SendQueuedMessages
<1>2. QueuedHeard'
  <2> SUFFICES ASSUME NEW m \in Nodes, NEW i \in 1 .. Len(m_queuedMessages'[m])
               PROVE  /\ m_queuedMessagesTimer'[m] # Idle
                      /\ m_queuedMessages'[m][i].originator = m
                      /\ \A s \in m_queuedMessages'[m][i].neighbors :
                              age'[m][s] + m_queuedMessagesTimer'[m] <= Bound
    BY DEF QueuedHeard, Bound
  <2>1. m # n
    BY <1>1 DEF TypeOK
  <2>2. /\ m_queuedMessages'[m] = m_queuedMessages[m]
        /\ m_queuedMessagesTimer'[m] = m_queuedMessagesTimer[m]
    BY <1>1, <2>1 DEF TypeOK
  <2> QED BY <1>1, <2>2 DEF HeardInv, QueuedHeard
<1>3. InboxHeard'
  <2> SUFFICES ASSUME NEW r \in Nodes, NEW i \in 1 .. Len(inbox'[r]),
                      NEW s \in inbox'[r][i].neighbors
               PROVE  age[inbox'[r][i].originator][s] <= Bound
    BY <1>1 DEF InboxHeard, Bound
  <2>1. CASE r \in reached
    <3>1. inbox'[r] = m_queuedMessages[n]
      BY <1>1, <2>1
    <3>2. m_queuedMessages[n][i].originator = n /\ age[n][s] + 0 <= Bound
      BY <1>1, <3>1 DEF HeardInv, QueuedHeard
    <3>3. m_queuedMessages[n][i] \in Message
      <4>1. m_queuedMessages[n] \in Seq(Message) /\ i \in 1 .. Len(m_queuedMessages[n])
        BY <3>1 DEF TypeOK
      <4> QED BY <4>1
    <3>4. s \in Nodes
      BY <3>1, <3>3 DEF Message
    <3>5. age[n][s] \in Nat
      BY <3>4, AgeType
    <3> QED BY <3>1, <3>2, <3>5
  <2>2. CASE r \notin reached
    <3>1. inbox'[r] = inbox[r]
      BY <1>1, <2>2
    <3> QED BY <3>1 DEF HeardInv, InboxHeard
  <2> QED BY <2>1, <2>2
<1>4. EntryHeard'
  BY <1>1 DEF HeardInv, EntryHeard, Bound
<1> QED BY <1>2, <1>3, <1>4 DEF HeardInv

\* While time passes, the jitter timer of a queued beacon runs down as fast as
\* the clocks of the vehicles it lists go up.
LEMMA HeardTick ==
    ASSUME TypeOK, FreshInv, HeardInv, Tick
    PROVE  HeardInv'
<1>1. /\ Quiet
      /\ UNCHANGED <<m_queuedMessages, inbox>>
      /\ \A r \in Nodes : m_queuedMessagesTimer[r] # 0
      /\ \A r \in Nodes : m_queuedMessagesTimer'[r] = Elapse(m_queuedMessagesTimer[r])
  BY DEF Tick
<1>2. \A r, s \in Nodes : age'[r][s] = CountTo(AgeCap, age[r][s])
  BY DEF Tick
<1>3. QueuedHeard'
  <2> SUFFICES ASSUME NEW m \in Nodes, NEW i \in 1 .. Len(m_queuedMessages[m])
               PROVE  /\ m_queuedMessagesTimer'[m] # Idle
                      /\ m_queuedMessages[m][i].originator = m
                      /\ \A s \in m_queuedMessages[m][i].neighbors :
                              age'[m][s] + m_queuedMessagesTimer'[m] <= Bound
    BY <1>1 DEF QueuedHeard, Bound
  <2>1. /\ m_queuedMessagesTimer[m] # Idle
        /\ m_queuedMessages[m][i].originator = m
        /\ \A s \in m_queuedMessages[m][i].neighbors :
                age[m][s] + m_queuedMessagesTimer[m] <= Bound
    BY DEF HeardInv, QueuedHeard
  <2>2. m_queuedMessagesTimer[m] \in 1 .. MaxJitter
    <3>1. m_queuedMessagesTimer[m] \in 0 .. MaxJitter
      BY <2>1 DEF TypeOK
    <3> QED BY <1>1, <3>1, Caps
  <2>3. m_queuedMessagesTimer'[m] = m_queuedMessagesTimer[m] - 1
    BY <1>1, <2>1 DEF Elapse
  <2>4. m_queuedMessages[m][i] \in Message
    BY DEF TypeOK
  <2>5. ASSUME NEW s \in m_queuedMessages[m][i].neighbors
        PROVE  age'[m][s] + m_queuedMessagesTimer'[m] <= Bound
    <3>1. s \in Nodes
      BY <2>4 DEF Message
    <3>2. age[m][s] \in Nat /\ age'[m][s] = CountTo(AgeCap, age[m][s])
      BY <1>2, <3>1, AgeType
    <3>3. age[m][s] + m_queuedMessagesTimer[m] <= Bound
      BY <2>1
    <3> QED BY <2>2, <2>3, <3>2, <3>3, Caps DEF CountTo, Bound
  <2>6. m_queuedMessagesTimer'[m] # Idle
    BY <2>2, <2>3, Caps DEF Idle
  <2> QED BY <2>1, <2>5, <2>6
<1>4. InboxHeard'
  BY <1>1 DEF Quiet, InboxHeard
<1>5. EntryHeard'
  <2> SUFFICES ASSUME NEW n \in Nodes, NEW m \in Nodes, m_neiTable'[n][m].N_sym
               PROVE  age'[m][n] <= Bound + age'[n][m]
    BY DEF EntryHeard, Bound
  <2>1. m_neiTable'[n][m] = [m_neiTable[n][m] EXCEPT !.N_time = IF @ = 0 THEN 0 ELSE @ - 1]
    BY DEF Tick
  <2>2. m_neiTable[n][m] \in Entry \cup {NoEntry}
    BY DEF TypeOK
  <2>3. m_neiTable[n][m].N_sym
    BY <2>1, <2>2 DEF Entry, NoEntry
  <2>4. Known(n, m)
    BY <2>3 DEF Known, NoEntry
  <2>5. age[n][m] <= HoldTime /\ age[n][m] \in Nat /\ age[m][n] \in Nat
    BY <2>4, FreshAge, AgeType
  <2>6. age[m][n] <= Bound + age[n][m]
    BY <2>3 DEF HeardInv, EntryHeard
  <2>7. /\ age'[n][m] = CountTo(AgeCap, age[n][m])
        /\ age'[m][n] = CountTo(AgeCap, age[m][n])
    BY <1>2
  <2> QED BY <2>5, <2>6, <2>7, Caps DEF CountTo, Bound
<1> QED BY <1>3, <1>4, <1>5 DEF HeardInv

\* Every step keeps HeardInv.
LEMMA HeardStep ==
    ASSUME TypeOK, TypeOK', FreshInv, HeardInv, [Next]_vars
    PROVE  HeardInv'
<1>0. QueuedHeard /\ InboxHeard /\ EntryHeard
  BY DEF HeardInv
<1>1. ASSUME NEW n \in Nodes, NEW j \in 0 .. MaxJitter, HelloTimerExpire(n, j)
      PROVE  HeardInv'
  <2>1. QueueMessage(n, "HELLO", Table(n), j) /\ UNCHANGED <<inbox, m_neiTable, age>>
    BY <1>1 DEF HelloTimerExpire
  <2>2. AgesShrink
    BY <2>1, AgeSame
  <2>3. Table(n) \in SUBSET Nodes /\ \A s \in Table(n) : age'[n][s] <= HoldTime
    BY <2>1, TableHeard
  <2>4. QueuedHeard'
    BY <1>0, <2>1, <2>2, <2>3, HeardQueue
  <2> QED BY <1>0, <2>1, <2>4 DEF HeardInv, InboxHeard, EntryHeard, Bound
<1>2. ASSUME NEW n \in Nodes, NEW found \in BOOLEAN, NEW j \in 0 .. MaxJitter,
             AntTimerExpire(n, found, j)
      PROVE  HeardInv'
  <2>1. UNCHANGED <<inbox, m_neiTable, age>>
    BY <1>2 DEF AntTimerExpire
  <2>2. AgesShrink
    BY <2>1, AgeSame
  <2>3. Table(n) \in SUBSET Nodes /\ \A s \in Table(n) : age'[n][s] <= HoldTime
    BY <2>1, TableHeard
  <2>4. QueuedHeard'
    <3>1. CASE found
      <4>1. QueueMessage(n, "ANT", Table(n), j)
        BY <1>2, <3>1 DEF AntTimerExpire, LaunchAnt
      <4> QED BY <1>0, <2>2, <2>3, <4>1, HeardQueue
    <3>2. CASE ~found
      <4>1. UNCHANGED <<m_queuedMessages, m_queuedMessagesTimer>>
        BY <1>2, <3>2 DEF AntTimerExpire, LaunchAnt
      <4> QED BY <1>0, <2>2, <4>1, HeardKeep
    <3> QED BY <3>1, <3>2
  <2> QED BY <1>0, <2>1, <2>4 DEF HeardInv, InboxHeard, EntryHeard, Bound
<1>3. ASSUME NEW n \in Nodes, NEW reached \in SUBSET Others(n), SendQueuedMessages(n, reached)
      PROVE  HeardInv'
  BY <1>3, HeardSend
<1>4. ASSUME NEW n \in Nodes, NEW far \in BOOLEAN, ProcessHello(n, far) PROVE HeardInv'
  <2> DEFINE msg == Head(inbox[n])
  <2>1. /\ inbox[n] # <<>> /\ inbox' = [inbox EXCEPT ![n] = Tail(@)]
        /\ UNCHANGED <<m_queuedMessages, m_queuedMessagesTimer>>
    BY <1>4 DEF ProcessHello, sendVars
  <2>2. AgesShrink /\ EntryHeard'
    <3>1. CASE far
      <4>1. UNCHANGED <<m_neiTable, age>>
        BY <1>4, <3>1 DEF ProcessHello
      <4> QED BY <1>0, <4>1, AgeSame DEF EntryHeard, Bound
    <3>2. CASE ~far
      <4>1. msg \in Message /\ UpdateEntry(n, msg, n \in msg.neighbors)
        BY <1>4, <2>1, <3>2, HeadIsMessage DEF ProcessHello
      <4>2. n \in msg.neighbors => age[msg.originator][n] <= Bound
        BY <1>0, <2>1, HeadHeard
      <4>3. (n \in msg.neighbors) \in BOOLEAN
        OBVIOUS
      <4> HIDE DEF msg
      <4>4. AgesShrink
        BY <4>1, <4>3, UpdateShrinks
      <4>5. EntryHeard'
        BY <1>0, <4>1, <4>2, <4>3, EntryUpdate
      <4> QED BY <4>4, <4>5
    <3> QED BY <3>1, <3>2
  <2>3. QueuedHeard'
    BY <1>0, <2>1, <2>2, HeardKeep
  <2>4. InboxHeard'
    BY <1>0, <2>1, <2>2, InboxTail
  <2> QED BY <2>2, <2>3, <2>4 DEF HeardInv
<1>5. ASSUME NEW n \in Nodes, NEW intact \in BOOLEAN, NEW mine \in BOOLEAN,
             NEW j \in 0 .. MaxJitter, ProcessAnt(n, intact, mine, j)
      PROVE  HeardInv'
  <2> DEFINE msg == Head(inbox[n])
             o == msg.originator
  <2>1. inbox[n] # <<>> /\ inbox' = [inbox EXCEPT ![n] = Tail(@)]
    BY <1>5 DEF ProcessAnt
  <2>2. msg \in Message /\ UpdateEntry(n, msg, intact /\ n \in msg.neighbors)
    BY <1>5, <2>1, HeadIsMessage DEF ProcessAnt
  <2>3. intact /\ n \in msg.neighbors => age[msg.originator][n] <= Bound
    BY <1>0, <2>1, HeadHeard
  <2>4. (intact /\ n \in msg.neighbors) \in BOOLEAN
    OBVIOUS
  <2>5. /\ mine => IsNews(n, msg)
        /\ mine => QueueMessage(n, "ANT", Table(n) \cup {o}, j)
        /\ ~mine => UNCHANGED <<m_queuedMessages, m_queuedMessagesTimer>>
    BY <1>5 DEF ProcessAnt
  <2>6. o \in Nodes
    BY <2>2 DEF Message
  <2>7. AgesShrink /\ (IsNews(n, msg) => age'[n][o] = 0)
    <3> HIDE DEF msg
    <3> QED BY <2>2, <2>4, UpdateShrinks
  <2>8. EntryHeard'
    <3> HIDE DEF msg
    <3> QED BY <1>0, <2>2, <2>3, <2>4, EntryUpdate
  <2>9. InboxHeard'
    BY <1>0, <2>1, <2>7, InboxTail
  <2> HIDE DEF msg, o
  <2>10. QueuedHeard'
    <3>1. CASE mine
      <4> DEFINE list == Table(n) \cup {o}
      <4>1. list \in SUBSET Nodes
        BY <2>6, TableHeard
      <4>2. ASSUME NEW s \in list PROVE age'[n][s] <= HoldTime
        <5>1. CASE s = o
          BY <2>5, <2>7, <3>1, <5>1, Caps
        <5>2. CASE s # o
          <6>1. s \in Nodes /\ age[n][s] <= HoldTime
            BY <5>2, TableHeard
          <6>2. PICK x \in Nat : x = age'[n][s]
            BY <6>1, AgeTypeAfter
          <6>3. x <= age[n][s] /\ age[n][s] \in Nat
            BY <2>7, <6>1, <6>2, AgeType DEF AgesShrink
          <6> QED BY <6>1, <6>2, <6>3, Caps
        <5> QED BY <5>1, <5>2
      <4>3. QueueMessage(n, "ANT", list, j)
        BY <2>5, <3>1
      <4> HIDE DEF list
      <4> QED BY <1>0, <2>7, <4>1, <4>2, <4>3, HeardQueue
    <3>2. CASE ~mine
      BY <1>0, <2>5, <2>7, <3>2, HeardKeep
    <3> QED BY <3>1, <3>2
  <2> QED BY <2>8, <2>9, <2>10 DEF HeardInv
<1>6. ASSUME NEW n \in Nodes, NEW m \in Nodes, NeiTableCheckExpire(n, m) PROVE HeardInv'
  <2>1. UNCHANGED <<m_queuedMessages, m_queuedMessagesTimer, inbox, age>>
    BY <1>6 DEF NeiTableCheckExpire, sendVars
  <2>2. QueuedHeard' /\ InboxHeard'
    BY <1>0, <2>1 DEF QueuedHeard, InboxHeard, Bound
  <2>3. EntryHeard'
    <3> SUFFICES ASSUME NEW r \in Nodes, NEW s \in Nodes, m_neiTable'[r][s].N_sym
                 PROVE  m_neiTable[r][s].N_sym
      BY <1>0, <2>1 DEF EntryHeard, Bound
    <3>1. m_neiTable'[r][s] = NoEntry \/ m_neiTable'[r][s] = m_neiTable[r][s]
      BY <1>6 DEF NeiTableCheckExpire, TypeOK
    <3>2. ~NoEntry.N_sym
      BY DEF NoEntry
    <3> QED BY <3>1, <3>2
  <2> QED BY <2>2, <2>3 DEF HeardInv
<1>7. CASE Tick
  BY <1>7, HeardTick
<1>8. CASE UNCHANGED vars
  BY <1>8 DEF vars, sendVars, HeardInv, QueuedHeard, InboxHeard, EntryHeard, Bound
<1> QED
  BY <1>1, <1>2, <1>3, <1>4, <1>5, <1>6, <1>7, <1>8, NeighborAssumption DEF Next

\* Under the same condition a neighbour marked as symmetric, which
\* IntraPathRouting takes for a next hop, heard this vehicle at most two hold
\* times and a jitter ago, however beacons are delayed, lost and reordered.
THEOREM SymmetryCorrect ==
    ASSUME VTime <= HoldTime
    PROVE  Spec => []SymmetricMeansHeard
<1>1. Init => FreshInv /\ HeardInv
  <2> SUFFICES ASSUME Init PROVE FreshInv /\ HeardInv
    OBVIOUS
  <2>1. FreshInv
    BY DEF Init, FreshInv, FreshCell, Known
  <2>2. QueuedHeard /\ InboxHeard
    BY DEF Init, QueuedHeard, InboxHeard
  <2>3. EntryHeard
    BY DEF Init, EntryHeard, NoEntry
  <2> QED BY <2>1, <2>2, <2>3 DEF HeardInv
<1>2. TypeOK /\ FreshInv /\ [Next]_vars => FreshInv'
  BY FreshStep
<1>3. TypeOK /\ TypeOK' /\ FreshInv /\ HeardInv /\ [Next]_vars => HeardInv'
  BY HeardStep
<1>4. TypeOK /\ FreshInv /\ HeardInv => SymmetricMeansHeard
  <2> SUFFICES ASSUME TypeOK, FreshInv, EntryHeard, NEW n \in Nodes, NEW m \in Nodes,
                      m_neiTable[n][m].N_sym
               PROVE  age[m][n] <= 2 * HoldTime + MaxJitter
    BY DEF SymmetricMeansHeard, HeardInv
  <2>1. Known(n, m)
    BY DEF Known, NoEntry
  <2>2. age[n][m] <= HoldTime /\ age[n][m] \in Nat /\ age[m][n] \in Nat
    BY <2>1, FreshAge, AgeType
  <2>3. age[m][n] <= Bound + age[n][m]
    BY DEF EntryHeard
  <2> QED BY <2>2, <2>3, Caps DEF Bound
<1> QED BY <1>1, <1>2, <1>3, <1>4, TypeCorrect, PTL DEF Spec

-------------------------------------------------------------------------------
(* The gap.  Why a neighbour that loses no beacon is soon back in the table:  *)
(* its Hello timer, or the jitter timer of what it has queued, runs down while *)
(* the gap grows; the beacon that then arrives either makes an entry or is     *)
(* older than one, and while there is an entry there is no gap.  Between the   *)
(* broadcast and the end of the RecvGrp loop the beacon is in the inbox.       *)

Owed(n, m) == \E i \in 1 .. Len(inbox[n]) : inbox[n][i].originator = m

Beaconing(m) ==
    /\ helloEvent[m] = Idle <=> m_helloTimer[m] # Idle
    /\ m_queuedMessages[m] # <<>> <=> m_queuedMessagesTimer[m] # Idle
    /\ \A i \in 1 .. Len(m_queuedMessages[m]) : m_queuedMessages[m][i].originator = m

GapCell(n, m) ==
    /\ Known(n, m) \/ helloEvent[m] # Idle => gap[n][m] = 0
    /\ Owed(n, m) => gap[n][m] <= GapCap - 1
    /\ ~Owed(n, m) /\ m_queuedMessages[m] = <<>> => gap[n][m] + m_helloTimer[m] <= HelloInterval
    /\ ~Owed(n, m) /\ m_queuedMessages[m] # <<>> =>
            gap[n][m] + m_queuedMessagesTimer[m] <= HelloInterval + MaxJitter

GapInv ==
    /\ \A m \in Nodes : Beaconing(m)
    /\ \A n, m \in Nodes : GapCell(n, m)

\* What a step other than a broadcast and a tick does to the beacons of m:
\* nothing, or one more is queued.
SameSender(m) ==
    /\ helloEvent'[m] = helloEvent[m] /\ m_helloTimer'[m] = m_helloTimer[m]
    /\ m_queuedMessages'[m] = m_queuedMessages[m]
    /\ m_queuedMessagesTimer'[m] = m_queuedMessagesTimer[m]

BusierSender(m) ==
    /\ \/ helloEvent'[m] = Idle /\ m_helloTimer'[m] # Idle
       \/ helloEvent'[m] = helloEvent[m] /\ m_helloTimer'[m] = m_helloTimer[m]
    /\ m_queuedMessages'[m] # <<>>
    /\ \A i \in 1 .. Len(m_queuedMessages'[m]) : m_queuedMessages'[m][i].originator = m
    /\ m_queuedMessagesTimer'[m] =
            IF m_queuedMessagesTimer[m] = Idle THEN m_queuedMessagesTimer'[m]
                                               ELSE m_queuedMessagesTimer[m]
    /\ m_queuedMessagesTimer'[m] \in 0 .. MaxJitter

\* What such a step does to the gaps: one may be closed.
GapKept(r, s) ==
    /\ gap'[r][s] = gap[r][s]
    /\ Known(r, s)' => Known(r, s)
    /\ Owed(r, s)' <=> Owed(r, s)
GapClosed(r, s) == gap'[r][s] = 0

\* The gaps are natural numbers, the timers are as wide as their intervals.
LEMMA GapType ==
    ASSUME TypeOK, NEW n \in Nodes, NEW m \in Nodes
    PROVE  /\ gap[n][m] \in Nat /\ gap[n][m] <= GapCap
           /\ m_helloTimer[m] \in Int /\ -1 <= m_helloTimer[m] /\ m_helloTimer[m] <= HelloInterval
           /\ m_queuedMessagesTimer[m] \in Int /\ -1 <= m_queuedMessagesTimer[m]
           /\ m_queuedMessagesTimer[m] <= MaxJitter
           /\ m_helloTimer[m] # Idle => m_helloTimer[m] >= 0
           /\ m_queuedMessagesTimer[m] # Idle => m_queuedMessagesTimer[m] >= 0
<1>1. gap[n][m] \in 0 .. GapCap
  BY DEF TypeOK
<1>2. m_helloTimer[m] \in {Idle} \cup 0 .. HelloInterval
  BY DEF TypeOK
<1>3. m_queuedMessagesTimer[m] \in {Idle} \cup 0 .. MaxJitter
  BY DEF TypeOK
<1> QED BY <1>1, <1>2, <1>3, Caps DEF Idle

\* The bound follows from the budget.
LEMMA GapWithin ==
    ASSUME TypeOK, GapInv, NEW n \in Nodes, NEW m \in Nodes
    PROVE  /\ gap[n][m] <= HelloInterval + MaxJitter
           /\ ~Owed(n, m) /\ m_queuedMessages[m] = <<>> => gap[n][m] <= HelloInterval
<1>1. GapCell(n, m) /\ Beaconing(m)
  BY DEF GapInv
<1> QED BY <1>1, GapType, Caps DEF GapCell, Beaconing

ClosedFits == TypeOK => \A n, m \in Nodes : gap[n][m] = 0 => GapCell(n, m)

\* A closed gap is within every budget.
LEMMA ClosedCell == ClosedFits
  BY GapType, Caps DEF ClosedFits, GapCell

\* Queueing beacons and closing gaps keeps all budgets.
LEMMA GapSteps ==
    ASSUME TypeOK, TypeOK', GapInv,
           \A m \in Nodes : SameSender(m) \/ BusierSender(m),
           \A n, m \in Nodes : GapKept(n, m) \/ GapClosed(n, m)
    PROVE  GapInv'
<1>1. ASSUME NEW m \in Nodes PROVE Beaconing(m)'
  <2>1. Beaconing(m)
    BY DEF GapInv
  <2>2. CASE SameSender(m)
    BY <2>1, <2>2 DEF SameSender, Beaconing
  <2>3. CASE BusierSender(m)
    <3>1. m_queuedMessagesTimer'[m] # Idle
      BY <2>3, Caps DEF BusierSender, Idle
    <3> QED BY <2>1, <2>3, <3>1 DEF BusierSender, Beaconing
  <2> QED BY <2>2, <2>3
<1>2. ASSUME NEW n \in Nodes, NEW m \in Nodes PROVE GapCell(n, m)'
  <2>1. CASE GapClosed(n, m)
    <3>1. ClosedFits'
      BY ClosedCell, PTL
    <3> QED BY <2>1, <3>1 DEF GapClosed, ClosedFits
  <2>2. CASE GapKept(n, m)
    <3>1. GapCell(n, m) /\ Beaconing(m)
      BY DEF GapInv
    <3>2. CASE SameSender(m)
      BY <2>2, <3>1, <3>2, Caps DEF SameSender, GapKept, GapCell, GapCap
    <3>3. CASE BusierSender(m)
      <4> DEFINE g == gap[n][m]
                 t == m_queuedMessagesTimer[m]
      <4>1. PICK u \in 0 .. MaxJitter : u = m_queuedMessagesTimer'[m]
        BY <3>3 DEF BusierSender
      <4>2. g \in Nat /\ t \in Int /\ (t # Idle => u = t)
        BY <3>3, <4>1, GapType DEF BusierSender
      <4>3. ~Owed(n, m) => g + u <= HelloInterval + MaxJitter
        <5>1. CASE m_queuedMessages[m] = <<>>
          <6>1. ~Owed(n, m) => g <= HelloInterval
            BY <5>1, GapWithin
          <6> QED BY <4>2, <6>1, Caps
        <5>2. CASE m_queuedMessages[m] # <<>>
          <6>1. t = u
            BY <3>1, <4>2, <5>2 DEF Beaconing
          <6> QED BY <3>1, <5>2, <6>1 DEF GapCell
        <5> QED BY <5>1, <5>2
      <4>4. Known(n, m)' \/ helloEvent'[m] # Idle => g = 0
        BY <2>2, <3>1, <3>3 DEF GapKept, GapCell, BusierSender
      <4>5. m_queuedMessages'[m] # <<>>
        BY <3>3 DEF BusierSender
      <4> QED BY <2>2, <3>1, <4>1, <4>3, <4>4, <4>5 DEF GapKept, GapCell, GapCap
    <3> QED BY <3>2, <3>3
  <2> QED BY <2>1, <2>2
<1> QED BY <1>1, <1>2 DEF GapInv

\* A queued beacon makes its sender busier and concerns no other.
LEMMA QueueBusier ==
    ASSUME TypeOK, GapInv, NEW n \in Nodes, NEW type, NEW list, NEW j \in 0 .. MaxJitter,
           QueueMessage(n, type, list, j),
           \A m \in Nodes \ {n} : /\ helloEvent'[m] = helloEvent[m]
                                  /\ m_helloTimer'[m] = m_helloTimer[m],
           \/ helloEvent'[n] = Idle /\ m_helloTimer'[n] # Idle
           \/ helloEvent'[n] = helloEvent[n] /\ m_helloTimer'[n] = m_helloTimer[n]
    PROVE  \A m \in Nodes : SameSender(m) \/ BusierSender(m)
<1> DEFINE msg == [type |-> type, originator |-> n, seq |-> GetMessageSequenceNumber(n),
                   neighbors |-> list]
<1>1. m_queuedMessages' = [m_queuedMessages EXCEPT ![n] = Append(m_queuedMessages[n], msg)]
  BY DEF QueueMessage
<1>2. m_queuedMessagesTimer' =
        [m_queuedMessagesTimer EXCEPT ![n] = IF m_queuedMessagesTimer[n] = Idle
                                             THEN j ELSE m_queuedMessagesTimer[n]]
  BY DEF QueueMessage
<1>3. /\ m_queuedMessages \in [Nodes -> Seq(Message)] /\ m_queuedMessages[n] \in Seq(Message)
      /\ m_queuedMessagesTimer \in [Nodes -> {Idle} \cup 0 .. MaxJitter]
  BY DEF TypeOK
<1>4. msg.originator = n
  OBVIOUS
<1> HIDE DEF msg
<1> TAKE m \in Nodes
<1>5. CASE m # n
  BY <1>1, <1>2, <1>3, <1>5 DEF SameSender
<1>6. CASE m = n
  <2>1. m_queuedMessages'[n] = Append(m_queuedMessages[n], msg)
    BY <1>1, <1>3
  <2>2. m_queuedMessages'[n] # <<>>
    <3>1. \A q \in Seq(Message) : Append(q, msg) # <<>>
      OBVIOUS
    <3> QED BY <1>3, <2>1, <3>1
  <2>3. ASSUME NEW i \in 1 .. Len(m_queuedMessages'[n])
        PROVE  m_queuedMessages'[n][i].originator = n
    <3> DEFINE q == m_queuedMessages[n]
    <3>1. q \in Seq(Message) /\ i \in 1 .. Len(Append(q, msg))
      BY <1>3, <2>1
    <3>2. Append(q, msg)[i] = IF i <= Len(q) THEN q[i] ELSE msg
      <4> HIDE DEF q
      <4> QED BY <3>1
    <3>3. \A l \in 1 .. Len(q) : q[l].originator = n
      BY DEF GapInv, Beaconing
    <3>4. i <= Len(q) => i \in 1 .. Len(q)
      <4> HIDE DEF q
      <4> QED BY <3>1
    <3> QED BY <1>4, <2>1, <3>2, <3>3, <3>4
  <2>4. /\ m_queuedMessagesTimer'[n] \in 0 .. MaxJitter
        /\ m_queuedMessagesTimer'[n] =
              IF m_queuedMessagesTimer[n] = Idle THEN m_queuedMessagesTimer'[n]
                                                 ELSE m_queuedMessagesTimer[n]
    BY <1>2, <1>3
  <2> QED BY <1>6, <2>2, <2>3, <2>4 DEF BusierSender
<1> QED BY <1>5, <1>6

\* A step that leaves the tables, the inboxes and the gaps alone keeps the gaps.
LEMMA GapsKept ==
    ASSUME UNCHANGED <<inbox, m_neiTable, gap>>
    PROVE  \A n, m \in Nodes : GapKept(n, m) \/ GapClosed(n, m)
  BY DEF GapKept, Known, Owed

\* Processing a beacon closes the gap to its sender, whether it makes an entry
\* or is taken for an old one, and leaves all other gaps.
LEMMA UpdateCloses ==
    ASSUME TypeOK, GapInv, NEW n \in Nodes, inbox[n] # <<>>, NEW listed \in BOOLEAN,
           inbox' = [inbox EXCEPT ![n] = Tail(@)],
           \/ UpdateEntry(n, Head(inbox[n]), listed)
           \/ /\ gap' = [gap EXCEPT ![n][Head(inbox[n]).originator] = 0]
              /\ UNCHANGED m_neiTable
    PROVE  \A r, s \in Nodes : GapKept(r, s) \/ GapClosed(r, s)
<1> DEFINE msg == Head(inbox[n])
           o == msg.originator
           e == Renew(n, msg, listed)
<1>1. msg \in Message /\ o \in Nodes
  BY HeadIsMessage DEF Message
<1>2. /\ gap \in [Nodes -> [Nodes -> 0 .. GapCap]]
      /\ m_neiTable \in [Nodes -> [Nodes -> Entry \cup {NoEntry}]]
      /\ inbox \in [Nodes -> Seq(Message)]
  BY DEF TypeOK
<1>3. gap'[n][o] = 0
  <2>1. CASE gap' = [gap EXCEPT ![n][o] = 0]
    <3> HIDE DEF o
    <3> QED BY <1>1, <1>2, <2>1, CellValue
  <2>2. CASE ~IsNews(n, msg) /\ UNCHANGED gap
    <3>1. m_neiTable[n][o].N_sequenceNum >= 0
      <4>1. msg.seq \in 0 .. MaxSeq
        BY <1>1 DEF Message
      <4>2. m_neiTable[n][o] \in Entry \cup {NoEntry}
        <5> HIDE DEF o
        <5> QED BY <1>1, <1>2
      <4>3. m_neiTable[n][o].N_sequenceNum \in Int
        <5> HIDE DEF o
        <5> QED BY <4>2, Caps DEF Entry, NoEntry
      <4>4. ~(m_neiTable[n][o].N_sequenceNum < msg.seq)
        BY <2>2 DEF IsNews
      <4>5. \A a \in Int : ~(a < msg.seq) => a >= 0
        <5> HIDE DEF msg
        <5> QED BY <4>1, Caps
      <4> QED BY <4>3, <4>4, <4>5
    <3>2. Known(n, o)
      BY <3>1 DEF Known, NoEntry
    <3>3. GapCell(n, o)
      BY <1>1 DEF GapInv
    <3> QED BY <2>2, <3>2, <3>3 DEF GapCell
  <2> QED BY <2>1, <2>2 DEF UpdateEntry
<1>4. ASSUME NEW r \in Nodes, NEW s \in Nodes, ~(r = n /\ s = o) PROVE GapKept(r, s)
  <2>1. gap'[r][s] = gap[r][s] /\ m_neiTable'[r][s] = m_neiTable[r][s]
    <3>1. /\ gap' = [gap EXCEPT ![n][o] = 0] \/ gap' = gap
          /\ m_neiTable' = [m_neiTable EXCEPT ![n][o] = e] \/ m_neiTable' = m_neiTable
      BY DEF UpdateEntry
    <3> HIDE DEF o, e
    <3>2. gap'[r][s] = gap[r][s]
      <4>1. CASE gap' = [gap EXCEPT ![n][o] = 0]
        BY <1>1, <1>2, <1>4, <4>1, CellValue
      <4> QED BY <3>1, <4>1
    <3>3. m_neiTable'[r][s] = m_neiTable[r][s]
      <4>1. CASE m_neiTable' = [m_neiTable EXCEPT ![n][o] = e]
        BY <1>1, <1>2, <1>4, <4>1, CellValue
      <4> QED BY <3>1, <4>1
    <3> QED BY <3>2, <3>3
  <2>2. Owed(r, s)' <=> Owed(r, s)
    <3>1. CASE r # n
      BY <1>2, <3>1 DEF Owed
    <3>2. CASE r = n
      <4> DEFINE q == inbox[n]
      <4>1. q \in Seq(Message) /\ q # <<>> /\ inbox'[r] = Tail(q) /\ inbox[r] = q
        BY <1>2, <3>2
      <4>2. q[1].originator # s
        BY <1>2, <1>4, <3>2
      <4>3. (\E i \in 1 .. Len(Tail(q)) : Tail(q)[i].originator = s)
              <=> (\E i \in 1 .. Len(q) : q[i].originator = s)
        <5> HIDE DEF q
        <5>1. ASSUME NEW i \in 1 .. Len(Tail(q)), Tail(q)[i].originator = s
              PROVE  i + 1 \in 1 .. Len(q) /\ q[i + 1].originator = s
          BY <4>1, <5>1
        <5>2. ASSUME NEW i \in 1 .. Len(q), q[i].originator = s
              PROVE  i - 1 \in 1 .. Len(Tail(q)) /\ Tail(q)[i - 1].originator = s
          <6>1. i # 1
            BY <4>2, <5>2
          <6> QED BY <4>1, <5>2, <6>1
        <5> QED BY <5>1, <5>2
      <4> QED BY <4>1, <4>3 DEF Owed
    <3> QED BY <3>1, <3>2
  <2> QED BY <2>1, <2>2 DEF GapKept, Known
<1> QED BY <1>3, <1>4 DEF GapClosed

\* A broadcast closes the gaps of those it does not reach, and the others have
\* the beacon in their inbox.
LEMMA GapSend ==
    ASSUME TypeOK, TypeOK', GapInv, NEW n \in Nodes, NEW reached \in SUBSET Others(n),
           SendQueuedMessages(n, reached)
    PROVE  GapInv'
<1>1. /\ m_queuedMessagesTimer[n] = 0 /\ Quiet
      /\ m_queuedMessagesTimer' = [m_queuedMessagesTimer EXCEPT ![n] = Idle]
      /\ m_queuedMessages' = [m_queuedMessages EXCEPT ![n] = <<>>]
      /\ inbox' = [r \in Nodes |-> IF r \in reached THEN m_queuedMessages[n] ELSE inbox[r]]
      /\ gap' = [r \in Nodes |-> IF r \in reached THEN gap[r] ELSE [gap[r] EXCEPT ![n] = 0]]
      /\ UNCHANGED <<helloEvent, m_helloTimer, m_neiTable>>
  BY DEF SendQueuedMessages
<1>2. /\ m_queuedMessages \in [Nodes -> Seq(Message)]
      /\ m_queuedMessagesTimer \in [Nodes -> {Idle} \cup 0 .. MaxJitter]
      /\ gap \in [Nodes -> [Nodes -> 0 .. GapCap]]
  BY DEF TypeOK
<1>3. ASSUME NEW m \in Nodes PROVE Beaconing(m)'
  <2>1. Beaconing(m)
    BY DEF GapInv
  <2>2. CASE m # n
    <3>1. /\ m_queuedMessages'[m] = m_queuedMessages[m]
          /\ m_queuedMessagesTimer'[m] = m_queuedMessagesTimer[m]
      BY <1>1, <1>2, <2>2
    <3> QED BY <1>1, <2>1, <3>1 DEF Beaconing
  <2>3. CASE m = n
    <3>1. m_queuedMessages'[m] = <<>> /\ m_queuedMessagesTimer'[m] = Idle
      BY <1>1, <1>2, <2>3
    <3> QED BY <1>1, <2>1, <3>1 DEF Beaconing
  <2> QED BY <2>2, <2>3
<1>4. ASSUME NEW r \in Nodes, NEW m \in Nodes PROVE GapCell(r, m)'
  <2>1. GapCell(r, m) /\ Beaconing(m) /\ ~Owed(r, m)
    BY <1>1 DEF GapInv, Quiet, Owed
  <2>2. CASE m = n /\ r \notin reached
    <3>1. gap'[r][m] = 0
      BY <1>1, <1>2, <2>2
    <3>2. ClosedFits'
      BY ClosedCell, PTL
    <3> QED BY <3>1, <3>2 DEF ClosedFits
  <2>3. CASE m = n /\ r \in reached
    <3>1. gap'[r][m] = gap[r][m] /\ inbox'[r] = m_queuedMessages[n]
      BY <1>1, <2>3
    <3>2. m_queuedMessages[n] # <<>>
      <4>1. Idle # 0
        BY DEF Idle
      <4> QED BY <1>1, <2>1, <2>3, <4>1 DEF Beaconing
    <3>3. 1 \in 1 .. Len(m_queuedMessages[n])
      <4>1. \A q \in Seq(Message) : q # <<>> => 1 \in 1 .. Len(q)
        OBVIOUS
      <4> QED BY <1>2, <3>2, <4>1
    <3>4. Owed(r, m)'
      BY <2>1, <2>3, <3>1, <3>3 DEF Owed, Beaconing
    <3>5. gap[r][m] <= GapCap - 1
      <4>1. gap[r][m] <= HelloInterval + MaxJitter
        BY GapWithin
      <4> QED BY <4>1, GapType, Caps
    <3>6. Known(r, m)' \/ helloEvent'[m] # Idle => gap[r][m] = 0
      BY <1>1, <2>1 DEF GapCell, Known
    <3> QED BY <3>1, <3>4, <3>5, <3>6 DEF GapCell, GapCap
  <2>4. CASE m # n
    <3>1. gap'[r][m] = gap[r][m]
      BY <1>1, <1>2, <2>4
    <3>2. /\ m_queuedMessages'[m] = m_queuedMessages[m]
          /\ m_queuedMessagesTimer'[m] = m_queuedMessagesTimer[m]
      BY <1>1, <1>2, <2>4
    <3>3. ~Owed(r, m)'
      <4>1. inbox'[r] = m_queuedMessages[n] \/ inbox'[r] = inbox[r]
        BY <1>1
      <4>2. \A i \in 1 .. Len(m_queuedMessages[n]) : m_queuedMessages[n][i].originator = n
        BY DEF GapInv, Beaconing
      <4>3. ASSUME NEW i \in 1 .. Len(inbox'[r]), inbox'[r][i].originator = m PROVE FALSE
        BY <2>1, <2>4, <4>1, <4>2, <4>3 DEF Owed
      <4> QED BY <4>3 DEF Owed
    <3> QED BY <1>1, <2>1, <3>1, <3>2, <3>3 DEF GapCell, Known, GapCap
  <2> QED BY <2>2, <2>3, <2>4
<1> QED BY <1>3, <1>4 DEF GapInv

\* While time passes, a gap grows no faster than the timer runs down that will
\* end it.
LEMMA GapTick ==
    ASSUME TypeOK, TypeOK', GapInv, Tick
    PROVE  GapInv'
<1>1. /\ Quiet /\ UNCHANGED <<m_queuedMessages, inbox>>
      /\ \A m \in Nodes : /\ helloEvent[m] # 0 /\ m_helloTimer[m] # 0
                          /\ m_queuedMessagesTimer[m] # 0
                          /\ helloEvent'[m] = Elapse(helloEvent[m])
                          /\ m_helloTimer'[m] = Elapse(m_helloTimer[m])
                          /\ m_queuedMessagesTimer'[m] = Elapse(m_queuedMessagesTimer[m])
  BY DEF Tick
<1>2. \A n, m \in Nodes :
        gap'[n][m] = IF m \in Others(n) /\ helloEvent[m] = Idle /\ ~Known(n, m)
                     THEN CountTo(GapCap, gap[n][m]) ELSE 0
  BY DEF Tick
<1>3. \A m \in Nodes : helloEvent[m] \in {Idle} \cup Nat
  BY DEF TypeOK
<1>4. ASSUME NEW m \in Nodes
      PROVE  /\ helloEvent'[m] = Idle <=> helloEvent[m] = Idle
             /\ m_helloTimer'[m] = Idle <=> m_helloTimer[m] = Idle
             /\ m_queuedMessagesTimer'[m] = Idle <=> m_queuedMessagesTimer[m] = Idle
  BY <1>1, <1>3, GapType DEF Elapse, Idle
<1>5. ASSUME NEW m \in Nodes PROVE Beaconing(m)'
  <2>1. Beaconing(m)
    BY DEF GapInv
  <2> QED BY <1>1, <1>4, <2>1 DEF Beaconing
<1>6. ASSUME NEW n \in Nodes, NEW m \in Nodes PROVE GapCell(n, m)'
  <2>1. GapCell(n, m) /\ Beaconing(m) /\ ~Owed(n, m) /\ ~Owed(n, m)'
    BY <1>1 DEF GapInv, Quiet, Owed
  <2>2. CASE gap'[n][m] = 0
    <3>1. ClosedFits'
      BY ClosedCell, PTL
    <3> QED BY <2>2, <3>1 DEF ClosedFits
  <2>3. CASE gap'[n][m] # 0
    <3>1. helloEvent[m] = Idle /\ ~Known(n, m) /\ gap'[n][m] = CountTo(GapCap, gap[n][m])
      BY <1>2, <2>3
    <3>2. gap[n][m] \in Nat /\ gap[n][m] <= HelloInterval + MaxJitter
      BY GapType, GapWithin
    <3>3. gap'[n][m] = gap[n][m] + 1
      BY <3>1, <3>2, Caps DEF CountTo
    <3>4. ~Known(n, m)' /\ helloEvent'[m] = Idle
      <4>1. m_neiTable[n][m] = NoEntry
        BY <3>1 DEF Known
      <4>2. m_neiTable'[n][m] = [m_neiTable[n][m] EXCEPT !.N_time = IF @ = 0 THEN 0 ELSE @ - 1]
        BY DEF Tick
      <4>3. m_neiTable'[n][m] = NoEntry
        BY <4>1, <4>2 DEF NoEntry
      <4> QED BY <1>4, <3>1, <4>3 DEF Known
    <3>5. CASE m_queuedMessages[m] = <<>>
      <4>1. m_helloTimer[m] # Idle /\ m_helloTimer'[m] = m_helloTimer[m] - 1
        BY <1>1, <2>1, <3>1 DEF Beaconing, Elapse
      <4>2. gap[n][m] + m_helloTimer[m] <= HelloInterval
        BY <2>1, <3>5 DEF GapCell
      <4>3. gap'[n][m] + m_helloTimer'[m] <= HelloInterval
        BY <3>2, <3>3, <4>1, <4>2, GapType, Caps
      <4> QED BY <1>1, <2>1, <3>4, <3>5, <4>3 DEF GapCell
    <3>6. CASE m_queuedMessages[m] # <<>>
      <4>1. m_queuedMessagesTimer'[m] = m_queuedMessagesTimer[m] - 1
        BY <1>1, <2>1, <3>6 DEF Beaconing, Elapse
      <4>2. gap[n][m] + m_queuedMessagesTimer[m] <= HelloInterval + MaxJitter
        BY <2>1, <3>6 DEF GapCell
      <4>3. gap'[n][m] + m_queuedMessagesTimer'[m] <= HelloInterval + MaxJitter
        BY <3>2, <3>3, <4>1, <4>2, GapType, Caps
      <4> QED BY <1>1, <2>1, <3>4, <3>6, <4>3 DEF GapCell
    <3> QED BY <3>5, <3>6
  <2> QED BY <2>2, <2>3
<1> QED BY <1>5, <1>6 DEF GapInv

\* Every step keeps every gap within its budget.
LEMMA GapStep ==
    ASSUME TypeOK, TypeOK', GapInv, [Next]_vars
    PROVE  GapInv'
<1>1. ASSUME NEW n \in Nodes, NEW j \in 0 .. MaxJitter, HelloTimerExpire(n, j)
      PROVE  GapInv'
  <2>1. /\ QueueMessage(n, "HELLO", Table(n), j) /\ UNCHANGED <<inbox, m_neiTable, gap>>
        /\ m_helloTimer' = [m_helloTimer EXCEPT ![n] = HelloInterval]
    BY <1>1 DEF HelloTimerExpire
  <2>2. helloEvent' = [helloEvent EXCEPT ![n] = Idle]
    <3>1. CASE m_helloTimer[n] = 0 /\ UNCHANGED helloEvent
      <4>1. helloEvent[n] = Idle
        BY <3>1 DEF GapInv, Beaconing, Idle
      <4> QED BY <3>1, <4>1 DEF TypeOK
    <3> QED BY <1>1, <3>1 DEF HelloTimerExpire
  <2>3. \A m \in Nodes : SameSender(m) \/ BusierSender(m)
    <3>1. /\ helloEvent'[n] = Idle /\ m_helloTimer'[n] # Idle
          /\ \A m \in Nodes \ {n} : /\ helloEvent'[m] = helloEvent[m]
                                    /\ m_helloTimer'[m] = m_helloTimer[m]
      BY <2>1, <2>2, Caps DEF TypeOK, Idle
    <3> QED BY <2>1, <3>1, QueueBusier
  <2> QED BY <2>1, <2>3, GapsKept, GapSteps
<1>2. ASSUME NEW n \in Nodes, NEW found \in BOOLEAN, NEW j \in 0 .. MaxJitter,
             AntTimerExpire(n, found, j)
      PROVE  GapInv'
  <2>1. UNCHANGED <<helloEvent, inbox, m_neiTable, gap>> /\ m_helloTimer[n] # Idle
    BY <1>2 DEF AntTimerExpire
  <2>2. CASE found
    <3>1. QueueMessage(n, "ANT", Table(n), j) /\ PostponeHello(n)
      BY <1>2, <2>2 DEF AntTimerExpire, LaunchAnt
    <3>2. /\ helloEvent'[n] = Idle /\ m_helloTimer'[n] # Idle
          /\ \A m \in Nodes \ {n} : /\ helloEvent'[m] = helloEvent[m]
                                    /\ m_helloTimer'[m] = m_helloTimer[m]
      BY <2>1, <3>1, Caps DEF PostponeHello, TypeOK, Idle, GapInv, Beaconing
    <3>3. \A m \in Nodes : SameSender(m) \/ BusierSender(m)
      BY <3>1, <3>2, QueueBusier
    <3> QED BY <2>1, <3>3, GapsKept, GapSteps
  <2>3. CASE ~found
    <3>1. UNCHANGED <<m_queuedMessages, m_queuedMessagesTimer, m_helloTimer>>
      BY <1>2, <2>3 DEF AntTimerExpire, LaunchAnt
    <3>2. \A m \in Nodes : SameSender(m)
      BY <2>1, <3>1 DEF SameSender
    <3> QED BY <2>1, <3>2, GapsKept, GapSteps
  <2> QED BY <2>2, <2>3
<1>3. ASSUME NEW n \in Nodes, NEW reached \in SUBSET Others(n), SendQueuedMessages(n, reached)
      PROVE  GapInv'
  BY <1>3, GapSend
<1>4. ASSUME NEW n \in Nodes, NEW far \in BOOLEAN, ProcessHello(n, far)
      PROVE  GapInv'
  <2>1. /\ inbox[n] # <<>> /\ inbox' = [inbox EXCEPT ![n] = Tail(@)]
        /\ UNCHANGED sendVars
    BY <1>4 DEF ProcessHello
  <2>2. PICK listed \in BOOLEAN : listed = (n \in Head(inbox[n]).neighbors)
    <3>1. (n \in Head(inbox[n]).neighbors) \in BOOLEAN
      OBVIOUS
    <3> QED BY <3>1
  <2>3. \/ UpdateEntry(n, Head(inbox[n]), listed)
        \/ /\ gap' = [gap EXCEPT ![n][Head(inbox[n]).originator] = 0]
           /\ UNCHANGED m_neiTable
    BY <1>4, <2>2 DEF ProcessHello
  <2>4. \A r, s \in Nodes : GapKept(r, s) \/ GapClosed(r, s)
    BY <2>1, <2>3, UpdateCloses
  <2>5. \A m \in Nodes : SameSender(m)
    BY <2>1 DEF SameSender, sendVars
  <2> QED BY <2>4, <2>5, GapSteps
<1>5. ASSUME NEW n \in Nodes, NEW intact \in BOOLEAN, NEW mine \in BOOLEAN,
             NEW j \in 0 .. MaxJitter, ProcessAnt(n, intact, mine, j)
      PROVE  GapInv'
  <2>1. /\ inbox[n] # <<>> /\ inbox' = [inbox EXCEPT ![n] = Tail(@)]
        /\ UNCHANGED helloEvent
    BY <1>5 DEF ProcessAnt
  <2>2. PICK listed \in BOOLEAN : listed = (intact /\ n \in Head(inbox[n]).neighbors)
    OBVIOUS
  <2>3. UpdateEntry(n, Head(inbox[n]), listed)
    BY <1>5, <2>2 DEF ProcessAnt
  <2>4. \A r, s \in Nodes : GapKept(r, s) \/ GapClosed(r, s)
    BY <2>1, <2>3, UpdateCloses
  <2>5. \A m \in Nodes : SameSender(m) \/ BusierSender(m)
    <3>1. CASE mine
      <4>1. PICK list : list = Table(n) \cup {Head(inbox[n]).originator}
        OBVIOUS
      <4>2. QueueMessage(n, "ANT", list, j) /\ PostponeHello(n)
        BY <1>5, <3>1, <4>1 DEF ProcessAnt
      <4>3. /\ \/ helloEvent'[n] = Idle /\ m_helloTimer'[n] # Idle
               \/ helloEvent'[n] = helloEvent[n] /\ m_helloTimer'[n] = m_helloTimer[n]
            /\ \A m \in Nodes \ {n} : /\ helloEvent'[m] = helloEvent[m]
                                      /\ m_helloTimer'[m] = m_helloTimer[m]
        BY <2>1, <4>2, Caps DEF PostponeHello, TypeOK, Idle, GapInv, Beaconing
      <4> QED BY <4>2, <4>3, QueueBusier
    <3>2. CASE ~mine
      <4>1. UNCHANGED <<m_queuedMessages, m_queuedMessagesTimer, m_helloTimer>>
        BY <1>5, <3>2 DEF ProcessAnt
      <4> QED BY <2>1, <4>1 DEF SameSender
    <3> QED BY <3>1, <3>2
  <2> QED BY <2>4, <2>5, GapSteps
<1>6. ASSUME NEW n \in Nodes, NEW m \in Nodes, NeiTableCheckExpire(n, m)
      PROVE  GapInv'
  <2>1. UNCHANGED <<sendVars, inbox, gap>>
    BY <1>6 DEF NeiTableCheckExpire
  <2>2. \A r, s \in Nodes : GapKept(r, s)
    <3> TAKE r \in Nodes, s \in Nodes
    <3>1. m_neiTable'[r][s] = NoEntry \/ m_neiTable'[r][s] = m_neiTable[r][s]
      BY <1>6 DEF NeiTableCheckExpire, TypeOK
    <3> QED BY <2>1, <3>1 DEF GapKept, Known, Owed
  <2>3. \A r \in Nodes : SameSender(r)
    BY <2>1 DEF SameSender, sendVars
  <2> QED BY <2>2, <2>3, GapSteps
<1>7. CASE Tick
  BY <1>7, GapTick
<1>8. CASE UNCHANGED vars
  <2>1. UNCHANGED <<sendVars, inbox, m_neiTable, gap>>
    BY <1>8 DEF vars
  <2>2. \A m \in Nodes : SameSender(m)
    BY <2>1 DEF SameSender, sendVars
  <2> QED BY <2>1, <2>2, GapsKept, GapSteps
<1> QED
  BY <1>1, <1>2, <1>3, <1>4, <1>5, <1>6, <1>7, <1>8, NeighborAssumption DEF Next

\* While none of its beacons is lost or ignored, a vehicle that has sent its
\* first Hello is missing from a neighbour's table for at most a Hello
\* interval and a jitter: also when sequence numbers wrap and ProcessHello
\* takes a new beacon for an old one, when an ant postpones the Hello, and
\* whatever validity the receiver decodes.
THEOREM GapCorrect == Spec => []GapBounded
<1>1. Init => GapInv
  <2> SUFFICES ASSUME Init PROVE GapInv
    OBVIOUS
  <2>1. ASSUME NEW m \in Nodes PROVE Beaconing(m)
    <3>1. helloEvent[m] # Idle
      BY NeighborAssumption DEF Init, Idle
    <3> QED BY <3>1 DEF Init, Beaconing
  <2>2. ASSUME NEW n \in Nodes, NEW m \in Nodes PROVE GapCell(n, m)
    <3>1. gap[n][m] = 0
      BY DEF Init
    <3> QED BY <3>1, InitType, ClosedCell DEF ClosedFits
  <2> QED BY <2>1, <2>2 DEF GapInv
<1>2. TypeOK /\ TypeOK' /\ GapInv /\ [Next]_vars => GapInv'
  BY GapStep
<1>3. TypeOK /\ GapInv => GapBounded
  BY GapWithin DEF GapBounded
<1> QED BY <1>1, <1>2, <1>3, TypeCorrect, PTL DEF Spec

\* grp.h's promise that the check cleans out expired entries, which the run with
\* a rounded-up validity refutes, does hold whenever the validity that a
\* receiver decodes is not longer than the hold time.
THEOREM CleanedUnlessRoundedUp ==
    ASSUME VTime <= HoldTime
    PROVE  Spec => []ExpiredIsCleaned
<1>1. Init => FreshInv
  BY DEF Init, FreshInv, FreshCell, Known
<1>2. TypeOK /\ FreshInv /\ [Next]_vars => FreshInv'
  BY FreshStep
<1>3. FreshInv => ExpiredIsCleaned
  BY DEF FreshInv, FreshCell, ExpiredIsCleaned
<1> QED BY <1>1, <1>2, <1>3, TypeCorrect, PTL DEF Spec

==============================================================================
