------------------------------- MODULE PacketLife -------------------------------
(***************************************************************************)
(* What the routing protocol promises of the data packets of a scenario, and   *)
(* how the scenario MyVanet counts them.  A packet is sent, travels, is stored *)
(* by a vehicle and travels again, and ends delivered, dropped or lost; the    *)
(* scenario logs it when it is sent, strikes it out when it arrives and counts *)
(* what is dropped.  How packets travel is the business of GrpCarry.          *)
(***************************************************************************)
EXTENDS Integers, FiniteSets

CONSTANT PacketIds      \* the packets the scenario sends

VARIABLES
    status,                         \* where each packet is
    PLog,                           \* sent and not yet arrived
    SendCount, recount, DropCount   \* the counters of MyVanet

vars == <<status, PLog, SendCount, recount, DropCount>>

Ends == {"delivered", "dropped", "lost"}
Status == {"unsent", "travelling", "stored"} \cup Ends

Init ==
    /\ status = [p \in PacketIds |-> "unsent"]
    /\ PLog = {} /\ SendCount = 0 /\ recount = 0 /\ DropCount = 0

Moves(from, to, ps) ==
    /\ \A p \in ps : status[p] = from
    /\ status' = [p \in PacketIds |-> IF p \in ps THEN to ELSE status[p]]

SendTestPacketToLC_DIS(p) ==
    /\ Moves("unsent", "travelling", {p})
    /\ PLog' = PLog \cup {p} /\ SendCount' = SendCount + 1
    /\ UNCHANGED <<recount, DropCount>>

ReceivePacket(p) ==
    /\ Moves("travelling", "delivered", {p})
    /\ PLog' = PLog \ {p} /\ recount' = recount + 1
    /\ UNCHANGED <<SendCount, DropCount>>

DropPacket(p) ==
    /\ Moves("travelling", "dropped", {p})
    /\ DropCount' = DropCount + 1
    /\ UNCHANGED <<PLog, SendCount, recount>>

StorePacket(p) ==
    /\ Moves("travelling", "stored", {p})
    /\ UNCHANGED <<PLog, SendCount, recount, DropCount>>

\* A vehicle goes through its stored packets: some leave it, some are dropped.
Review(sent, late) ==
    /\ sent \cap late = {} /\ \A p \in sent \cup late : status[p] = "stored"
    /\ status' = [p \in PacketIds |-> IF p \in sent THEN "travelling"
                                      ELSE IF p \in late THEN "dropped" ELSE status[p]]
    /\ DropCount' = DropCount + Cardinality(late)
    /\ UNCHANGED <<PLog, SendCount, recount>>

Lose(p) ==
    /\ Moves("travelling", "lost", {p})
    /\ UNCHANGED <<PLog, SendCount, recount, DropCount>>

Next ==
    \/ \E p \in PacketIds : \/ SendTestPacketToLC_DIS(p) \/ ReceivePacket(p)
                            \/ DropPacket(p) \/ StorePacket(p) \/ Lose(p)
    \/ \E sent, late \in SUBSET PacketIds : Review(sent, late)

Spec == Init /\ [][Next]_vars

-------------------------------------------------------------------------------
(* Properties *)

\* Every variable is in its type.
TypeOK ==
    /\ status \in [PacketIds -> Status]
    /\ PLog \subseteq PacketIds
    /\ SendCount \in Nat /\ recount \in Nat /\ DropCount \in Nat

\* The numbers MyVanet prints add up: received packets and logged ones are those
\* that were sent, and what it prints as "Store Error", the logged packets less
\* the drops, are exactly the packets stored, on their way or lost; it is never
\* negative.
LedgerBalances ==
    /\ SendCount = recount + Cardinality(PLog)
    /\ Cardinality(PLog) - DropCount =
          Cardinality({p \in PacketIds : status[p] \in {"stored", "travelling", "lost"}})

KeepsEnds == \A p \in PacketIds : status[p] \in Ends => status'[p] = status[p]

\* A packet that is delivered, dropped or lost stays so: the delivery ratio and
\* the mean delay count it once.
EndsAreFinal == [][KeepsEnds]_vars

==============================================================================
