------------------------------- MODULE PipeUp -------------------------------
(* The warm-up of user kernels with a pipeup depth: a node of depth D gives  *)
(* valid output from its D-th successful execution on, and until then the    *)
(* nodes that read it are skipped.  One thread executes the graph, frame by  *)
(* frame: vxProcessGraph until the graph is steady, streaming and the queues *)
(* one frame at a time, the QUEUE_AUTO executor without skipping.            *)
EXTENDS Naturals, FiniteSets, SequencesExt

CONSTANTS Order,     \* the verified node order
          Preds,     \* node_predecessors
          UserNodes, \* nodes of user kernels
          Depth,     \* pipeup_output_depth
          Kinds,     \* who executes the graph: process, frame, auto
          MayFail,   \* whether nodes may fail or be abandoned
          MaxCalls   \* bound: executions asked for

Nodes == Range(Order)

ASSUME PipeUpAssumption ==
    /\ Order \in Seq(Nodes) /\ IsInjective(Order)
    /\ Preds \in [Nodes -> SUBSET Nodes]
    /\ \A i, j \in 1..Len(Order) : Order[j] \in Preds[Order[i]] => j < i
    /\ UserNodes \subseteq Nodes
    /\ Depth \in [Nodes -> Nat \ {0}]
    /\ \A n \in Nodes \ UserNodes : Depth[n] = 1
    /\ Kinds \subseteq {"process", "frame", "auto"}
    /\ MayFail \in BOOLEAN /\ MaxCalls \in Nat

VARIABLES count,    \* execution_count of each node
          told,     \* node_state of each node
          kind,     \* who is executing the graph
          at,       \* idle, between frames, or in a frame
          snapshot, \* the counts when the frame began
          next,     \* position in Order
          steady,   \* has_done_steady
          calls,    \* executions asked for
          frames,   \* history: frames the execution has begun
          ran,      \* history: nodes that have run in the frame
          valid,    \* history: nodes whose output of the frame is valid
          returned  \* history: what vxProcessGraph returned last

history == <<ran, valid, returned>>
vars    == <<count, told, kind, at, snapshot, next, steady, calls, frames, history>>

Init == /\ count = [n \in Nodes |-> 0]
        /\ told = [n \in Nodes |-> "steady"]
        /\ kind \in Kinds /\ at = "idle"
        /\ snapshot = count /\ next = 1 /\ steady = FALSE /\ calls = 0
        /\ frames = 0 /\ ran = {} /\ valid = {} /\ returned = "nothing"
-----------------------------------------------------------------------------
Execute ==
    /\ at = "idle" /\ calls < MaxCalls
    /\ at' = "between"
    /\ calls' = calls + 1
    /\ kind' \in Kinds
    /\ steady' = FALSE
    /\ frames' = 0 /\ returned' = "nothing"
    /\ UNCHANGED <<count, told, snapshot, next, ran, valid>>

(* The node loop of vxStartGraphStreaming.                                   *)
vxStartGraphStreaming ==
    /\ at = "idle" /\ "frame" \in Kinds
    /\ count' = [n \in Nodes |-> 0]
    /\ told' = [n \in Nodes |-> "pipeup"]
    /\ ran' = {} /\ valid' = {} /\ returned' = "nothing"
    /\ UNCHANGED <<kind, at, snapshot, next, steady, calls, frames>>

(* Faults: the comparison is off by one, to either side.                     *)
InPipeupTooShort(n, counts) == Depth[n] > 1 /\ counts[n] + 2 < Depth[n]
InPipeupTooLong(n, counts)  == Depth[n] > 1 /\ counts[n] < Depth[n]

is_node_in_pipeup_state(n, counts) == Depth[n] > 1 /\ counts[n] + 1 < Depth[n]

(* Fault: the counts are not those of the beginning of the frame.            *)
SkippedByCounts(n) == \E p \in Preds[n] : is_node_in_pipeup_state(p, count)

is_node_skipped_for_pipeup(n) ==
    \E p \in Preds[n] : Depth[p] > 1 /\ snapshot[p] + 1 < Depth[p]

AnyPipeup == \E n \in Nodes : is_node_in_pipeup_state(n, count)

BeginFrame ==
    /\ at = "between"
    /\ kind = "process" => AnyPipeup \/ ~steady
    /\ steady' = IF kind = "process" THEN ~AnyPipeup ELSE steady
    /\ frames' = frames + 1
    /\ snapshot' = count
    /\ next' = 1
    /\ at' = "frame"
    /\ ran' = {} /\ valid' = {}
    /\ UNCHANGED <<count, told, kind, calls, returned>>

(* Fault: the next node is skipped too.                                      *)
SkipTwo ==
    /\ at = "frame" /\ next <= Len(Order)
    /\ kind # "auto" /\ is_node_skipped_for_pipeup(Order[next])
    /\ next' = next + 2
    /\ UNCHANGED <<count, told, kind, at, snapshot, steady, calls, frames, history>>

SkipNode ==
    /\ at = "frame" /\ next <= Len(Order)
    /\ kind # "auto"
    /\ is_node_skipped_for_pipeup(Order[next])
    /\ next' = next + 1
    /\ UNCHANGED <<count, told, kind, at, snapshot, steady, calls, frames, history>>

(* The counts and states a node of a user kernel leaves behind.              *)
Told(n)    == IF n \in UserNodes
                THEN [told EXCEPT ![n] = IF count[n] + 1 < Depth[n] THEN "pipeup" ELSE "steady"]
                ELSE told
Counted(n) == IF n \in UserNodes THEN [count EXCEPT ![n] = @ + 1] ELSE count

(* The node succeeds: its state was set before the kernel ran, and its count *)
(* advances after it.  The callback of the node, which the executor does not *)
(* call, may still abandon the graph.                                        *)
NodeSucceeds(n) ==
    /\ told' = Told(n)
    /\ count' = Counted(n)
    /\ valid' = IF Preds[n] \subseteq valid /\ count[n] + 1 >= Depth[n]
                  THEN valid \cup {n} ELSE valid
    /\ \/ /\ next' = next + 1
          /\ UNCHANGED <<at, returned>>
       \/ /\ MayFail /\ kind # "auto"
          /\ at' = "idle" /\ returned' = "failure"
          /\ UNCHANGED next

(* Any node may fail, of a built-in kernel or of a user's; one of a user's   *)
(* in its kernel, with its state set, or before, for want of a parameter or  *)
(* of the kernel itself.                                                     *)
NodeFails(n) ==
    /\ MayFail
    /\ told' \in {told, Told(n)}
    /\ at' = "idle" /\ returned' = "failure"
    /\ UNCHANGED <<count, valid, next>>

(* One node of the loop of execute_graph_nodes or of the executor.           *)
execute_node ==
    LET n == Order[next] IN
    /\ at = "frame" /\ next <= Len(Order)
    /\ kind # "auto" => ~is_node_skipped_for_pipeup(n)
    /\ ran' = ran \cup {n}
    /\ NodeSucceeds(n) \/ NodeFails(n)
    /\ UNCHANGED <<kind, snapshot, steady, calls, frames>>

(* The next frame, or the return.                                            *)
EndFrame ==
    /\ at = "frame" /\ next > Len(Order)
    /\ at' = IF kind = "process" /\ ~steady THEN "between" ELSE "idle"
    /\ returned' = IF kind = "process" /\ steady THEN "success" ELSE returned
    /\ UNCHANGED <<count, told, kind, snapshot, next, steady, calls, frames, ran, valid>>

Frame == BeginFrame \/ SkipNode \/ execute_node \/ EndFrame
Next  == Execute \/ vxStartGraphStreaming \/ Frame

Spec  == Init /\ [][Next]_vars
-----------------------------------------------------------------------------
(* Where nodes are skipped, a node that runs finds in its inputs valid       *)
(* output of the same frame, if all readers of a source read it directly;    *)
(* and no node that it reads was told in that frame that it is in pipeup:    *)
(* skipping and telling, which compare the counts in two places, agree.      *)
RunsOnValidInputs ==
    [][kind # "auto" =>
         \A n \in ran' \ ran : \A p \in Preds[n] : p \in valid /\ told[p] = "steady"]_vars

ProcessedIsValid == returned = "success" => valid = Nodes

(* The executions, as node and number, that a whole warm-up consists of.     *)
WarmUps          == UNION {{n} \X (1..(Depth[n] - 1)) : n \in Nodes}
WarmUpBounded    == frames <= Cardinality(WarmUps) + 1

(* What vxProcessGraph leaves behind when it succeeds is valid output of     *)
(* every node, whatever depths the nodes have and whatever ran before; and   *)
(* it warms up no longer than the depths demand, even if every node had to   *)
(* wait for the one before.                                                  *)
WarmUpIsExact == ProcessedIsValid /\ WarmUpBounded
=============================================================================
