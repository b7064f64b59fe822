--------------------------- MODULE MCWaveExecution ---------------------------
(* A diamond: one node, two that read it in one wave, one that reads both.   *)
EXTENDS WaveExecution, TLC

CONSTANTS a, b, c, d

Diamond     == <<{a}, {b, c}, {d}>>
DiamondDeps == (a :> {}) @@ (b :> {a}) @@ (c :> {a}) @@ (d :> {b, c})
=============================================================================
