------------------------------- MODULE GrpHeader -------------------------------
(***************************************************************************)
(* How control messages are laid out in a packet and taken out of it again:   *)
(* MessageHeader with its Hello and Ant bodies (grp-header.cc), the packing   *)
(* of several messages into one packet (SendPacket) and the loop of RecvGrp   *)
(* that unpacks them by their sizes.                                          *)
(*                                                                          *)
(* But for the validity, values do not matter, only which bytes they come from.  A field is a name  *)
(* with a width; a buffer is a sequence of cells, each holding one byte of a  *)
(* field or of a member of a list; a field is read intact if its cells hold   *)
(* its own bytes.                                                             *)
(***************************************************************************)
EXTENDS GrpVTime, Sequences, SequencesExt

CONSTANTS
    Validities,         \* the arguments of SetVTime, in units of GRP_C / 32
    NeighborCounts,     \* how many addresses a Hello body lists
    JunctionCounts,     \* how many junctions an Ant body lists
    MaxMessages,        \* GRP_MAX_MSGS, messages in a packet
    MaxDatagram         \* the most bytes the UDP socket accepts, below 2^16

ASSUME HeaderAssumption ==
    /\ Validities \subseteq Encodable
    /\ NeighborCounts \subseteq Nat /\ JunctionCounts \subseteq Nat \ {0}
    /\ MaxMessages \in Nat \ {0} /\ MaxDatagram \in Nat /\ MaxDatagram < 65536

VARIABLES
    sent,       \* the messages of the packet, in order
    wire,       \* the bytes of the packet that are not read yet
    sizeLeft,   \* the loop variable of RecvGrp
    got         \* what was read, in order

headerVars == <<sent, wire, sizeLeft, got>>

\* A Hello lists n neighbours; an ant also carries a Hello body, l junctions and
\* as many time stamps (CopiesAgree of GrpAnts).  vTime is the validity its
\* sender asked for.
Messages ==
    [type : {"HELLO"}, n : NeighborCounts, l : {0}, vTime : Validities]
    \cup [type : {"ANT"}, n : NeighborCounts, l : JunctionCounts, vTime : Validities]

-------------------------------------------------------------------------------
(* Layout *)

Item(name, k, width) == [i \in 1 .. width |-> <<name, k, i>>]
Field(name, width) == Item(name, 0, width)
List(name, n, width) == FlattenSeq([k \in 1 .. n |-> Item(name, k, width)])

HeaderBytes ==
    Field("messageType", 1) \o Field("vTime", 1) \o Field("messageSize", 2)
    \o Field("originatorAddress", 4) \o Field("timeToLive", 1) \o Field("hopCount", 1)
    \o Field("messageSequenceNumber", 2)

HelloBytes(n) ==
    Field("locationX", 8) \o Field("locationY", 8) \o Field("speed", 4)
    \o Field("direction", 4) \o Field("turn", 2) \o List("neighbor", n, 4)

AntBytes(l) ==
    Field("sender_addr", 4) \o Field("seq_num", 2) \o Field("version", 2)
    \o Field("jun_from", 2) \o Field("next_junction_id", 2) \o Field("len", 2)
    \o List("junction", l, 2) \o List("s_delay", l, 8)
    \o Field("next_forwarder", 4) \o Field("last_sender", 4)
    \o Field("last_sender_position_x", 4) \o Field("last_sender_position_y", 4)

\* The sizes the code computes, apart from what it writes.
HelloSize(n) == 26 + 4 * n
AntSize(l) == 12 + 2 * l + 2 + 8 * l + 16

GetSerializedSize_NoHello(msg) ==
    IF msg.type = "HELLO" THEN 12 + HelloSize(msg.n) ELSE 12 + 4 + AntSize(msg.l)

GetSerializedSize(msg) ==
    IF msg.type = "HELLO" THEN 12 + HelloSize(msg.n)
    ELSE 12 + 4 + HelloSize(msg.n) + AntSize(msg.l)

-------------------------------------------------------------------------------
(* Serialize and Deserialize *)

\* An iterator is passed by value, so a body does not move its caller's iterator.
Write(buffer, offset, bytes) ==
    SubSeq(buffer, 1, offset) \o bytes \o SubSeq(buffer, offset + Len(bytes) + 1, Len(buffer))

Blank(size) == [i \in 1 .. size |-> <<"blank", 0, 0>>]

Serialize_AntFirst(msg) ==
    LET start == Write(Blank(GetSerializedSize(msg)), 0, HeaderBytes)
    IN  IF msg.type = "HELLO" THEN Write(start, 12, HelloBytes(msg.n))
        ELSE Write(Write(Write(start, 12, Field("helloSize", 4)),
                         16, AntBytes(msg.l)),
                   16, HelloBytes(msg.n))

Serialize(msg) ==
    LET start == Write(Blank(GetSerializedSize(msg)), 0, HeaderBytes)
    IN  IF msg.type = "HELLO" THEN Write(start, 12, HelloBytes(msg.n))
        ELSE Write(Write(Write(start, 12, Field("helloSize", 4)),
                         16, HelloBytes(msg.n)),
                   16, AntBytes(msg.l))

\* The fields of a body, and those among them that are read as they were written.
Names(bytes) == {<<bytes[i][1], bytes[i][2]>> : i \in DOMAIN bytes}
Intact(buffer, offset, bytes) ==
    {f \in Names(bytes) : \A i \in DOMAIN bytes :
        <<bytes[i][1], bytes[i][2]>> = f => offset + i <= Len(buffer) /\ buffer[offset + i] = bytes[i]}

\* The counts a message is read with: the addresses follow from a size in front
\* of them.  A count that is not intact could be anything; it is read as 0.
Count(n, field, intact) == IF <<field, 0>> \in intact THEN n ELSE 0

ReadCounts(buffer, msg) ==
    IF msg.type = "HELLO"
    THEN [msg EXCEPT !.n = Count(@, "messageSize", Intact(buffer, 0, HeaderBytes))]
    ELSE [msg EXCEPT !.n = Count(@, "helloSize", Intact(buffer, 12, Field("helloSize", 4))),
                     !.l = Count(@, "len", Intact(buffer, 16, AntBytes(0)))]

\* What of the message is read intact from the front of the buffer, and the
\* validity that GetVTime decodes.
Deserialize(buffer, msg) ==
    [msg   |-> msg,
     vTime |-> EmfToSeconds(SecondsToEmf(msg.vTime)),
     head  |-> Intact(buffer, 0, HeaderBytes),
     hello |-> Intact(buffer, IF msg.type = "HELLO" THEN 12 ELSE 16, HelloBytes(msg.n)),
     ant   |-> IF msg.type = "HELLO" THEN {} ELSE Intact(buffer, 16, AntBytes(msg.l))]

-------------------------------------------------------------------------------
(* A packet on its way *)

HeaderInit == sent = <<>> /\ wire = <<>> /\ sizeLeft = 0 /\ got = <<>>

\* SendQueuedMessages and SendPacket; the socket refuses a packet that is too long.
\* The receiver starts from the length in the packet header, a field of 16 bits that
\* counts the four bytes of that header too.
SendPacket(msgs) ==
    /\ sent = <<>>
    /\ sent' = msgs
    /\ wire' = FlattenSeq([k \in DOMAIN msgs |-> Serialize(msgs[k])])
    /\ 4 + Len(wire') <= MaxDatagram
    /\ sizeLeft' = ((4 + Len(wire')) % 65536) - 4
    /\ UNCHANGED got

\* One turn of the loop of RecvGrp: RemoveHeader takes off what was read, and the
\* size of what was read is subtracted.
RecvGrp ==
    /\ sizeLeft # 0 /\ Len(got) < Len(sent)
    /\ \E msg \in {ReadCounts(wire, sent[Len(got) + 1])} :
          /\ got' = Append(got, Deserialize(wire, msg))
          /\ wire' = SubSeq(wire, GetSerializedSize(msg) + 1, Len(wire))
          /\ sizeLeft' = sizeLeft - GetSerializedSize(msg)
    /\ UNCHANGED sent

HeaderNext ==
    \/ \E k \in 1 .. MaxMessages : \E msgs \in [1 .. k -> Messages] : SendPacket(msgs)
    \/ RecvGrp

HeaderSpec == HeaderInit /\ [][HeaderNext]_headerVars

-------------------------------------------------------------------------------
(* Properties *)

\* The receiver finds the boundaries between messages, although it recomputes
\* each size from the lists it has just read: the loop variable is what is left
\* in the packet (it is unsigned and would wrap below zero), and it is zero exactly
\* after the last message.
FramingKept ==
    /\ sizeLeft = Len(wire)
    /\ sizeLeft = 0 <=> Len(got) = Len(sent)

\* The header of every message, the body of a Hello and the Ant body of an ant
\* are read as they were written, also behind other messages in the packet.
BodiesIntact ==
    \A k \in DOMAIN got :
        /\ got[k].msg = sent[k]
        /\ got[k].head = Names(HeaderBytes)
        /\ got[k].msg.type = "HELLO" => got[k].hello = Names(HelloBytes(sent[k].n))
        /\ got[k].msg.type = "ANT"   => got[k].ant = Names(AntBytes(sent[k].l))

\* What AntTimerExpire and ProcessAnt rely on, 'carry hello message' and 'update hello info':
\* an ant also brings the Hello of its sender, its place, heading and neighbours.
AntCarriesHello ==
    \A k \in DOMAIN got :
        got[k].msg.type = "ANT" => got[k].hello = Names(HelloBytes(sent[k].n))

\* The validity a receiver reads is the nearest to the one asked for that a byte
\* can stand for, and of two messages the one with the longer validity is not read
\* as the shorter.
ValidityKept ==
    \A j, k \in DOMAIN got :
        /\ \A code \in Codes : Off(SecondsToEmf(sent[k].vTime), sent[k].vTime) <= Off(code, sent[k].vTime)
        /\ SecondsToEmf(sent[k].vTime) \in Codes
        /\ sent[j].vTime <= sent[k].vTime => got[j].vTime <= got[k].vTime

==============================================================================
