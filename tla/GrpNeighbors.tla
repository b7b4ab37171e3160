----------------------------- MODULE GrpNeighbors -----------------------------
(***************************************************************************)
(* The neighbour tables of the vehicles: beacons (Hellos, and ants, which   *)
(* carry the same fields) are queued, broadcast after a jitter, lost or     *)
(* received; every accepted beacon renews the sender's entry and schedules  *)
(* one NeiTableCheckExpire for it.                                          *)
(*                                                                          *)
(* Time is counted in ticks as in GrpNode: all times are ticks left.  A     *)
(* broadcast takes no time.  A packet is received as a whole or lost; the   *)
(* loop of RecvGrp over its messages takes the messages one by one, and     *)
(* nothing else happens while some vehicle is inside that loop.             *)
(*                                                                          *)
(* VTime is the validity that a receiver decodes from the beacon, i.e. what *)
(* the one-byte encoding makes of GRP_NEIGHB_HOLD_TIME: the encoding rounds *)
(* up or down, and is exact for the default Hello interval.                 *)
(*                                                                          *)
(* The handlers end by re-examining the stored data packets                 *)
(* (CheckPacketQueue), which changes nothing here: see GrpCarry.  When and  *)
(* where a vehicle launches ants is the subject of GrpNode; here an ant may *)
(* be launched whenever the vehicle has sent its first Hello.               *)
(***************************************************************************)
EXTENDS Integers, Sequences

CONSTANTS
    Nodes,
    AntNodes,           \* the vehicles that drive through a junction area
    HelloStarts,        \* possible delays of the first Hello
    HelloInterval,      \* m_helloInterval, also GRP_NEIGHB_HOLD_TIME
    VTime,              \* the decoded validity of a beacon
    MaxJitter,          \* GRP_MAXJITTER
    MaxSeq,             \* GRP_MAX_SEQ_NUM
    MaxBatch            \* bound on the messages that wait for one jitter timer

ASSUME NeighborAssumption ==
    /\ AntNodes \subseteq Nodes
    /\ HelloStarts \subseteq Nat
    /\ HelloInterval \in Nat \ {0} /\ VTime \in Nat \ {0}
    /\ MaxJitter \in Nat /\ MaxSeq \in Nat /\ MaxBatch \in Nat \ {0}

VARIABLES
    helloEvent,                 \* start-up event HelloTimerExpire, or Idle
    m_helloTimer,
    m_queuedMessages,
    m_queuedMessagesTimer,
    m_messageSequenceNumber,
    inbox,                      \* messages of the packet that RecvGrp works on
    m_neiTable,                 \* per vehicle: an entry, or NoEntry, for every other
    checks,                     \* per vehicle and neighbour: scheduled NeiTableCheckExpire
    age,                        \* ticks since the vehicle last accepted a beacon of the other
    gap                         \* ticks the other has been missing although nothing was lost

sendVars == <<helloEvent, m_helloTimer, m_queuedMessages, m_queuedMessagesTimer,
              m_messageSequenceNumber>>
vars == <<sendVars, inbox, m_neiTable, checks, age, gap>>

Idle == -1
HoldTime == HelloInterval
Others(n) == Nodes \ {n}

Entry == [N_sequenceNum : 0 .. MaxSeq, N_time : 0 .. VTime, N_sym : BOOLEAN]
NoEntry == [N_sequenceNum |-> -1, N_time |-> 0, N_sym |-> FALSE]
Message == [type : {"HELLO", "ANT"}, originator : Nodes, seq : 0 .. MaxSeq,
            neighbors : SUBSET Nodes]

Known(n, m) == m_neiTable[n][m] # NoEntry
Table(n) == {m \in Others(n) : Known(n, m)}

\* The caps of the two clocks: one more than any property asks about.
AgeCap == 2 * HelloInterval + MaxJitter + 1
GapCap == HelloInterval + MaxJitter + 1

\* RecvGrp is not in the middle of a packet.
Quiet == \A n \in Nodes : inbox[n] = <<>>

Init ==
    /\ helloEvent \in [Nodes -> HelloStarts]
    /\ m_helloTimer = [n \in Nodes |-> Idle]
    /\ m_queuedMessages = [n \in Nodes |-> <<>>]
    /\ m_queuedMessagesTimer = [n \in Nodes |-> Idle]
    /\ m_messageSequenceNumber = [n \in Nodes |-> MaxSeq]
    /\ inbox = [n \in Nodes |-> <<>>]
    /\ m_neiTable = [n \in Nodes |-> [m \in Nodes |-> NoEntry]]
    /\ checks = [n \in Nodes |-> [m \in Nodes |-> {}]]
    /\ age = [n \in Nodes |-> [m \in Nodes |-> AgeCap]]
    /\ gap = [n \in Nodes |-> [m \in Nodes |-> 0]]

-------------------------------------------------------------------------------
(* Sending *)

GetMessageSequenceNumber_NoWrap(n) == m_messageSequenceNumber[n] + 1
GetMessageSequenceNumber(n) == (m_messageSequenceNumber[n] + 1) % (MaxSeq + 1)

\* The neighbours listed in a beacon are those of the moment it is queued.
QueueMessage(n, type, list, j) ==
    LET msg == [type |-> type, originator |-> n, seq |-> GetMessageSequenceNumber(n),
                neighbors |-> list]
    IN  /\ m_queuedMessages' = [m_queuedMessages EXCEPT ![n] = Append(@, msg)]
        /\ m_queuedMessagesTimer' = [m_queuedMessagesTimer EXCEPT ![n] =
                                        IF @ = Idle THEN j ELSE @]
        /\ m_messageSequenceNumber' =
                [m_messageSequenceNumber EXCEPT ![n] = GetMessageSequenceNumber(n)]

HelloTimerExpire(n, j) ==
    /\ Quiet
    /\ \/ helloEvent[n] = 0 /\ helloEvent' = [helloEvent EXCEPT ![n] = Idle]
       \/ m_helloTimer[n] = 0 /\ UNCHANGED helloEvent
    /\ QueueMessage(n, "HELLO", Table(n), j)
    /\ m_helloTimer' = [m_helloTimer EXCEPT ![n] = HelloInterval]
    /\ UNCHANGED <<inbox, m_neiTable, checks, age, gap>>

\* An ant stands in for the next Hello.
PostponeHello(n) ==
    m_helloTimer' = [m_helloTimer EXCEPT ![n] = IF @ = Idle THEN Idle ELSE HelloInterval]

\* Without a forwarder no ant is sent, but its sequence number is used up.
LaunchAnt_AlwaysPostpone(n, found, j) ==
    \/ found /\ QueueMessage(n, "ANT", Table(n), j) /\ PostponeHello(n)
    \/ /\ ~found
       /\ m_messageSequenceNumber' =
                [m_messageSequenceNumber EXCEPT ![n] = GetMessageSequenceNumber(n)]
       /\ PostponeHello(n)
       /\ UNCHANGED <<m_queuedMessages, m_queuedMessagesTimer>>

LaunchAnt(n, found, j) ==
    \/ found /\ QueueMessage(n, "ANT", Table(n), j) /\ PostponeHello(n)
    \/ /\ ~found
       /\ m_messageSequenceNumber' =
                [m_messageSequenceNumber EXCEPT ![n] = GetMessageSequenceNumber(n)]
       /\ UNCHANGED <<m_queuedMessages, m_queuedMessagesTimer, m_helloTimer>>

AntTimerExpire(n, found, j) ==
    /\ Quiet
    /\ m_helloTimer[n] # Idle /\ Len(m_queuedMessages[n]) < MaxBatch
    /\ LaunchAnt(n, found, j)
    /\ UNCHANGED <<helloEvent, inbox, m_neiTable, checks, age, gap>>

\* The jitter timer expires: the queue is broadcast as a packet, which the
\* vehicles of "reached" receive.
SendQueuedMessages(n, reached) ==
    /\ Quiet
    /\ m_queuedMessagesTimer[n] = 0
    /\ m_queuedMessagesTimer' = [m_queuedMessagesTimer EXCEPT ![n] = Idle]
    /\ m_queuedMessages' = [m_queuedMessages EXCEPT ![n] = <<>>]
    /\ inbox' = [r \in Nodes |-> IF r \in reached THEN m_queuedMessages[n] ELSE inbox[r]]
    /\ gap' = [r \in Nodes |-> IF r \in reached THEN gap[r] ELSE [gap[r] EXCEPT ![n] = 0]]
    /\ UNCHANGED <<helloEvent, m_helloTimer, m_messageSequenceNumber, m_neiTable, checks, age>>

-------------------------------------------------------------------------------
(* Receiving *)

\* The entry is replaced unless it is as new as the message: an entry that is
\* not there (sequence number -1) never is.
IsNews(n, msg) == m_neiTable[n][msg.originator].N_sequenceNum < msg.seq

ScheduleCheck_FirstOnly(n, m) ==
    IF Known(n, m) THEN UNCHANGED checks
                   ELSE checks' = [checks EXCEPT ![n][m] = @ \cup {HoldTime}]
ScheduleCheck(n, m) == checks' = [checks EXCEPT ![n][m] = @ \cup {HoldTime}]

Renew_KeepStatus(n, msg, listed) ==
    [N_sequenceNum |-> msg.seq, N_time |-> VTime,
     N_sym |-> listed \/ m_neiTable[n][msg.originator].N_sym]
Renew(n, msg, listed) ==
    [N_sequenceNum |-> msg.seq, N_time |-> VTime, N_sym |-> listed]

UpdateEntry(n, msg, listed) ==
    \/ /\ IsNews(n, msg)
       /\ m_neiTable' = [m_neiTable EXCEPT ![n][msg.originator] = Renew(n, msg, listed)]
       /\ ScheduleCheck(n, msg.originator)
       /\ age' = [age EXCEPT ![n][msg.originator] = 0]
       /\ gap' = [gap EXCEPT ![n][msg.originator] = 0]
    \/ /\ ~IsNews(n, msg)
       /\ UNCHANGED <<m_neiTable, checks, age, gap>>

\* far: the sender drives in another direction and neither vehicle is at a
\* junction; its Hello is ignored.
ProcessHello(n, far) ==
    /\ inbox[n] # <<>> /\ Head(inbox[n]).type = "HELLO"
    /\ inbox' = [inbox EXCEPT ![n] = Tail(@)]
    /\ LET msg == Head(inbox[n])
       IN  IF far
           THEN /\ gap' = [gap EXCEPT ![n][msg.originator] = 0]
                /\ UNCHANGED <<m_neiTable, checks, age>>
           ELSE UpdateEntry(n, msg, n \in msg.neighbors)
    /\ UNCHANGED sendVars

\* The ant body overwrites the head of the Hello body in the packet: of the
\* listed neighbours the receiver may find some or none.  If it is the next
\* forwarder (mine), it queues an ant of its own.
ProcessAnt(n, intact, mine, j) ==
    /\ inbox[n] # <<>> /\ Head(inbox[n]).type = "ANT"
    /\ inbox' = [inbox EXCEPT ![n] = Tail(@)]
    /\ LET msg == Head(inbox[n])
       IN  /\ UpdateEntry(n, msg, intact /\ n \in msg.neighbors)
           /\ mine => IsNews(n, msg) /\ Len(m_queuedMessages[n]) < MaxBatch
           /\ IF mine
              THEN QueueMessage(n, "ANT", Table(n) \cup {msg.originator}, j) /\ PostponeHello(n)
              ELSE UNCHANGED <<m_queuedMessages, m_queuedMessagesTimer,
                               m_messageSequenceNumber, m_helloTimer>>
    /\ UNCHANGED helloEvent

\* A check for a neighbour without an entry makes one (operator[]) whose time
\* is zero, and erases it at once.
Expired(n, m) == m_neiTable[n][m].N_time <= 0

NeiTableCheckExpire(n, m) ==
    /\ Quiet
    /\ 0 \in checks[n][m]
    /\ checks' = [checks EXCEPT ![n][m] = @ \ {0}]
    /\ m_neiTable' = [m_neiTable EXCEPT ![n][m] = IF Expired(n, m) THEN NoEntry ELSE @]
    /\ UNCHANGED <<sendVars, inbox, age, gap>>

-------------------------------------------------------------------------------
(* Time *)

Elapse(t) == IF t = Idle THEN Idle ELSE t - 1
CountTo(cap, t) == IF t < cap THEN t + 1 ELSE cap

Tick ==
    /\ Quiet
    /\ \A n \in Nodes :
          /\ 0 \notin {helloEvent[n], m_helloTimer[n], m_queuedMessagesTimer[n]}
          /\ \A m \in Nodes : 0 \notin checks[n][m]
    /\ helloEvent' = [n \in Nodes |-> Elapse(helloEvent[n])]
    /\ m_helloTimer' = [n \in Nodes |-> Elapse(m_helloTimer[n])]
    /\ m_queuedMessagesTimer' = [n \in Nodes |-> Elapse(m_queuedMessagesTimer[n])]
    /\ checks' = [n \in Nodes |-> [m \in Nodes |-> {t - 1 : t \in checks[n][m]}]]
    /\ m_neiTable' = [n \in Nodes |-> [m \in Nodes |->
            [m_neiTable[n][m] EXCEPT !.N_time = IF @ = 0 THEN 0 ELSE @ - 1]]]
    /\ age' = [n \in Nodes |-> [m \in Nodes |-> CountTo(AgeCap, age[n][m])]]
    /\ gap' = [n \in Nodes |-> [m \in Nodes |->
            IF m \in Others(n) /\ helloEvent[m] = Idle /\ ~Known(n, m)
            THEN CountTo(GapCap, gap[n][m]) ELSE 0]]
    /\ UNCHANGED <<m_queuedMessages, m_messageSequenceNumber, inbox>>

Next ==
    \/ \E n \in Nodes, j \in 0 .. MaxJitter : HelloTimerExpire(n, j)
    \/ \E n \in AntNodes, found \in BOOLEAN, j \in 0 .. MaxJitter : AntTimerExpire(n, found, j)
    \/ \E n \in Nodes : \E reached \in SUBSET Others(n) : SendQueuedMessages(n, reached)
    \/ \E n \in Nodes, far \in BOOLEAN : ProcessHello(n, far)
    \/ \E n \in Nodes, intact, mine \in BOOLEAN, j \in 0 .. MaxJitter :
            ProcessAnt(n, intact, mine, j)
    \/ \E n, m \in Nodes : NeiTableCheckExpire(n, m)
    \/ Tick

Spec == Init /\ [][Next]_vars

-------------------------------------------------------------------------------
(* Properties *)

\* Every variable holds values of the kind the C++ members hold.
TypeOK ==
    /\ helloEvent \in [Nodes -> {Idle} \cup Nat]
    /\ m_helloTimer \in [Nodes -> {Idle} \cup 0 .. HelloInterval]
    /\ m_queuedMessages \in [Nodes -> Seq(Message)]
    /\ m_queuedMessagesTimer \in [Nodes -> {Idle} \cup 0 .. MaxJitter]
    /\ m_messageSequenceNumber \in [Nodes -> 0 .. MaxSeq]
    /\ inbox \in [Nodes -> Seq(Message)]
    /\ m_neiTable \in [Nodes -> [Nodes -> Entry \cup {NoEntry}]]
    /\ checks \in [Nodes -> [Nodes -> SUBSET (0 .. HoldTime)]]
    /\ age \in [Nodes -> [Nodes -> 0 .. AgeCap]]
    /\ gap \in [Nodes -> [Nodes -> 0 .. GapCap]]

\* A neighbour that is no longer heard is gone after the hold time: routing
\* never picks a next hop that has been out of range for longer.
EntryIsFresh ==
    \A n, m \in Nodes : Known(n, m) => age[n][m] <= HoldTime

\* A neighbour marked as symmetric, which IntraPathRouting takes for a next
\* hop, did hear this vehicle: at most two hold times and a jitter ago.
SymmetricMeansHeard ==
    \A n, m \in Nodes : m_neiTable[n][m].N_sym =>
        age[m][n] <= 2 * HoldTime + MaxJitter

\* While no beacon is lost or ignored, a neighbour is missing from the table
\* for at most a Hello interval and a jitter, also when its sequence numbers
\* wrap and its beacons are taken for old ones.
GapBounded ==
    \A n, m \in Nodes : gap[n][m] <= HelloInterval + MaxJitter

\* grp.h says that the check cleans expired entries out of the table: an entry
\* whose validity is over has a check coming.
ExpiredIsCleaned ==
    \A n, m \in Nodes : Known(n, m) /\ m_neiTable[n][m].N_time = 0 => checks[n][m] # {}

==============================================================================
