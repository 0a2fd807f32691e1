------------------------------- MODULE Models -------------------------------
(***************************************************************************)
(* The models of the command line (algorithms/covreach/run.hh): the clock  *)
(* bounds of the system are computed, then a zone graph or an asynchronous *)
(* one makes states from each other with these bounds.                     *)
(***************************************************************************)
EXTENDS AsyncZoneGraph

modelVars == <<vars, asyncVars>>

ModelInit == Init /\ AsyncInit

Build == ComputeBounds /\ UNCHANGED asyncVars

RunZoneGraph ==
  /\ network # <<>>
  /\ \E name \in network.zg : RunModel(name)
  /\ UNCHANGED asyncVars

RunAsyncZoneGraph ==
  /\ network # <<>>
  /\ \E name \in network.async_zg : RunAsyncModel(name)

RefuseAsyncZoneGraph ==
  /\ network # <<>> /\ network.async_zg # {}
  /\ RefuseModel

ZoneGraphStep == refmap = <<>> /\ Next /\ UNCHANGED asyncVars

ModelStep ==
  \/ Build
  \/ RunZoneGraph
  \/ RunAsyncZoneGraph
  \/ RefuseAsyncZoneGraph
  \/ ZoneGraphStep
  \/ AsyncStep

ModelSpec == ModelInit /\ [][ModelStep]_modelVars

-----------------------------------------------------------------------------
(* Properties *)

\* The types, the form of the zones, and the range of the bounds.
TypeOK ==
  /\ model = <<>> => Bounds!TypeOK
  /\ ZoneTypeOK
  /\ AsyncTypeOK

\* The properties of the clock bounds (ClockBounds), which do not change once they are
\* computed.
LeastBounds == model = <<>> => Bounds!LeastBounds
BoundsSimulate == model = <<>> => Bounds!BoundsSimulate
=============================================================================
