------------------------------- MODULE MCDocker -------------------------------
(* An image under one or two tags, whose manifest list names one platform  *)
(* with one layer.                                                         *)
EXTENDS DockerIndex, TLC

CONSTANTS stable, latest, list, platform, layer, c1

MCPoints == [t \in Tags |-> {list}]
MCPlatforms == list :> {platform} @@ platform :> {}
MCLayersOf == list :> {} @@ platform :> {layer}
=============================================================================
