-------------------------- MODULE MCGraphExecution --------------------------
(* One graph, a few application threads and the threads it is run by.        *)
EXTENDS GraphExecution
=============================================================================
