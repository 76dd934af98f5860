----------------------------- MODULE MCPingmesh -----------------------------
(* One to four endpoints: every pair of two, both ways of a node with two  *)
(* targets, one node with three targets.                                   *)
EXTENDS Pingmesh

MCEndpointSets == {{1}, {1, 2}, {1, 2, 5}, {1, 2, 5, 7}}
MCPairSets == {{}, Pairs({1, 2}), {<<1, 2>>, <<1, 5>>, <<5, 1>>}, {<<2, 1>>, <<2, 5>>, <<2, 7>>}}
=============================================================================
