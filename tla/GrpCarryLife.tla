------------------------------ MODULE GrpCarryLife ------------------------------
(***************************************************************************)
(* The data plane implements PacketLife: every queue, device and transmission *)
(* of GrpCarry is a place a packet may be in, and the counters of MyVanet are  *)
(* those of the traces GrpCarry fires.                                        *)
(***************************************************************************)
EXTENDS GrpCarry

\* A packet that IPv4 discards unreported has no place in PacketLife.
StatusOf(p) ==
    CASE p \in unsent     -> "unsent"
      [] p \in delivered  -> "delivered"
      [] p \in dropped    -> "dropped"
      [] p \in lost       -> "lost"
      [] p \in ttlExpired -> "discarded"
      [] Stored(p)        -> "stored"
      [] OTHER            -> "travelling"

Life == INSTANCE PacketLife WITH
    status    <- [p \in PacketIds |-> StatusOf(p)],
    PLog      <- PacketIds \ (unsent \cup delivered),
    SendCount <- SendCount,
    recount   <- recount,
    DropCount <- DropCount

\* Whatever the vehicles do with a packet, the scenario sees a legal life of it:
\* a stored packet only leaves its vehicle to travel or to be dropped, an ended
\* packet never comes back, nothing ends twice or unreported.
ImplementsPacketLife == Life!Spec

==============================================================================
