------------------------------ MODULE MCGrpBeacons ------------------------------
(***************************************************************************)
(* Control traffic: what vehicles know of each other by Hellos and ants, and    *)
(* how these are laid out in packets.  GrpNeighbors abstracts from the bytes     *)
(* and GrpHeader from the tables, so the two are checked side by side: from one   *)
(* initial state the vehicles go on or a packet is sent and read.               *)
(***************************************************************************)
EXTENDS MCGrpNeighbors, MCGrpHeader

MCInit == Init /\ HeaderInit

\* The vehicles wait while a packet is sent and read.
Waiting == Init /\ \A n \in Nodes : helloEvent[n] = 1

MCNext ==
    \/ sent = <<>> /\ Next /\ UNCHANGED headerVars
    \/ Waiting /\ HeaderNext /\ UNCHANGED vars
    \/ sent # <<>> /\ sizeLeft = 0 /\ UNCHANGED <<vars, headerVars>>

MCSpec == MCInit /\ [][MCNext]_<<vars, headerVars>>
==============================================================================
