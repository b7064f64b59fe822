--------------------------- MODULE MCEventSystem ---------------------------
(* One graph; one of its nodes and one of its parameters can be registered.  *)
EXTENDS EventSystem, TLC

CONSTANTS g1, node, param

MCGraphs  == {g1}
MCNodes   == {node}
MCParams  == {param}
MCGraphOf == (node :> g1) @@ (param :> g1)
MCValues  == {0, 1}
=============================================================================
