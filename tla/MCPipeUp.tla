------------------------------ MODULE MCPipeUp ------------------------------
(* A source of depth three with three readers, one of which has a depth and  *)
(* is read in its turn.                                                      *)
EXTENDS PipeUp, TLC

CONSTANTS s, p, q, r

ForkOrder == <<s, p, q, r>>
ForkPreds == (s :> {}) @@ (p :> {s}) @@ (q :> {s}) @@ (r :> {s, p})
ForkDepth == (s :> 3) @@ (p :> 2) @@ (q :> 1) @@ (r :> 1)
=============================================================================
