------------------------------ MODULE Dataflow ------------------------------
(* What executing a verified graph means, without waves, threads or queues:  *)
(* in every execution each node runs at most once, after all it depends on   *)
(* has succeeded; the next one comes when all have, or when one has failed.  *)
EXTENDS FiniteSets

CONSTANTS Graphs, Nodes, Deps

VARIABLES begun, ended, failed   \* per graph, in its current execution

vars    == <<begun, ended, failed>>
Nothing == [g \in Graphs |-> {}]

Init == begun = Nothing /\ ended = Nothing /\ failed = Nothing

Start(g, n) == /\ n \notin begun[g]
               /\ Deps[n] \subseteq ended[g]
               /\ begun' = [begun EXCEPT ![g] = @ \cup {n}]
               /\ UNCHANGED <<ended, failed>>

Finish(g, n) == /\ n \in begun[g] \ (ended[g] \cup failed[g])
                /\ \/ /\ ended' = [ended EXCEPT ![g] = @ \cup {n}]
                      /\ UNCHANGED failed
                   \/ /\ failed' = [failed EXCEPT ![g] = @ \cup {n}]
                      /\ UNCHANGED ended
                /\ UNCHANGED begun

NextExecution(g) == /\ ended[g] = Nodes \/ failed[g] # {}
                    /\ begun' = [begun EXCEPT ![g] = {}]
                    /\ ended' = [ended EXCEPT ![g] = {}]
                    /\ failed' = [failed EXCEPT ![g] = {}]

Next == \E g \in Graphs :
           \/ NextExecution(g)
           \/ \E n \in Nodes : Start(g, n) \/ Finish(g, n)

Spec == Init /\ [][Next]_vars
=============================================================================
