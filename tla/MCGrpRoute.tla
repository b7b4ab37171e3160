------------------------------- MODULE MCGrpRoute -------------------------------
(***************************************************************************)
(* The way of a data packet: the search for a route over the junctions, and     *)
(* the hops along it.  GrpGreedy does not take its plans from one search, each   *)
(* vehicle has a graph of its own, so the two are checked side by side: from     *)
(* the initial state either a vehicle searches or a packet is handed on.         *)
(*                                                                          *)
(* Four junctions and the vehicle, with every graph of weights 1 and 4 over     *)
(* them: one road of 4 is longer than any detour of three.                     *)
(***************************************************************************)
EXTENDS GrpRoads, MCGrpGreedy

MCInit == Init /\ GreedyInit

\* No packet is under way: all vehicles are at A while one of them searches.
Waiting == GreedyInit /\ trail = <<1>> /\ \A v \in Vehicles : pos[v] = m_map["A"]

MCNext ==
    \/ Waiting /\ Next /\ UNCHANGED greedyVars
    \/ Init /\ GreedyNext /\ UNCHANGED vars
    \/ end # "none" /\ UNCHANGED <<vars, greedyVars>>

MCSpec == MCInit /\ [][MCNext]_<<vars, greedyVars>> /\ WF_vars(Search \/ TraceBack)
==============================================================================
