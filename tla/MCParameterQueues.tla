------------------------- MODULE MCParameterQueues -------------------------
(* The instances are small enough without symmetry, which liveness forbids.  *)
EXTENDS ParameterQueues
=============================================================================
