---------------------------- MODULE ReferencePipe ----------------------------
(* What the queueing API promises of one graph: for each queued parameter a  *)
(* pipe that gives references back in the order they were enqueued, each     *)
(* exactly once, whoever executes the graph in between.                      *)
EXTENDS Naturals, Sequences

CONSTANTS Params

VARIABLES pipe   \* references enqueued and not yet dequeued, oldest first

Init == pipe = [p \in Params |-> <<>>]

OthersKept(p) == \A q \in Params \ {p} : pipe'[q] = pipe[q]

(* What was in the pipe stays, and something follows it.                     *)
Enqueue(p) == /\ Len(pipe'[p]) > Len(pipe[p])
              /\ SubSeq(pipe'[p], 1, Len(pipe[p])) = pipe[p]
              /\ OthersKept(p)

Dequeue(p) == /\ \E n \in 1..Len(pipe[p]) :
                    pipe'[p] = SubSeq(pipe[p], n + 1, Len(pipe[p]))
              /\ OthersKept(p)

Next == \E p \in Params : Enqueue(p) \/ Dequeue(p)

Spec == Init /\ [][Next]_pipe
=============================================================================
