---------------------------- MODULE PipeUpProofs ----------------------------
(* The warm-up of user kernels, for any graph, any depths, any failures and  *)
(* any mix of executions: what vxProcessGraph leaves behind is valid, and    *)
(* where nodes are skipped, those that run read valid data.                  *)
EXTENDS PipeUp, FiniteSetTheorems, TLAPS

TypeInv ==
    /\ count \in [Nodes -> Nat] /\ snapshot \in [Nodes -> Nat]
    /\ told \in [Nodes -> {"pipeup", "steady"}]
    /\ kind \in Kinds /\ at \in {"idle", "between", "frame"}
    /\ next \in Nat \ {0}
    /\ ran \in SUBSET Nodes /\ valid \in SUBSET Nodes

Positions == 1..Len(Order)

(* The frame has not touched what it has not come to.                        *)
AheadInv ==
    at = "frame" =>
      \A j \in Positions : next <= j => /\ count[Order[j]] = snapshot[Order[j]]
                                        /\ Order[j] \notin ran

Warm(n) == snapshot[n] + 1 >= Depth[n]

(* vxProcessGraph counts a frame as steady when all nodes are warm at its    *)
(* beginning, and then every node up to next has given valid output.         *)
SteadyInv ==
    at = "frame" /\ kind = "process" /\ steady =>
      /\ \A n \in Nodes : Warm(n)
      /\ \A j \in Positions : j < next => Order[j] \in valid

ReturnInv == returned = "success" => at = "idle" /\ valid = Nodes

WarmUpInv == TypeInv /\ AheadInv /\ SteadyInv /\ ReturnInv
-----------------------------------------------------------------------------
LEMMA OrderIsList ==
    /\ Len(Order) \in Nat
    /\ \A j \in Positions : Order[j] \in Nodes
    /\ \A n \in Nodes : \E j \in Positions : Order[j] = n
    /\ \A i, j \in Positions : Order[i] = Order[j] => i = j
BY PipeUpAssumption DEF Positions, Nodes, Range, IsInjective

LEMMA GraphFacts ==
    /\ Preds \in [Nodes -> SUBSET Nodes]
    /\ \A i, j \in Positions : Order[j] \in Preds[Order[i]] => j < i
    /\ Depth \in [Nodes -> Nat \ {0}]
BY PipeUpAssumption DEF Positions

LEMMA InitWarmUp == Init => WarmUpInv
BY DEF Init, WarmUpInv, TypeInv, AheadInv, SteadyInv, ReturnInv

LEMMA TypeStep == TypeInv /\ [Next]_vars => TypeInv'
<1> SUFFICES ASSUME TypeInv, [Next]_vars PROVE TypeInv'
  OBVIOUS
<1> USE DEF TypeInv
<1>1. CASE Execute
  BY <1>1 DEF Execute
<1>2. CASE vxStartGraphStreaming
  BY <1>2 DEF vxStartGraphStreaming
<1>3. CASE BeginFrame
  BY <1>3 DEF BeginFrame
<1>4. CASE SkipNode
  BY <1>4 DEF SkipNode, history
<1>5. CASE execute_node
  <2>1. Order[next] \in Nodes
    BY <1>5, OrderIsList DEF execute_node, Positions
  <2>2. ran' \in SUBSET Nodes /\ valid' \in SUBSET Nodes
    BY <1>5, <2>1 DEF execute_node, NodeSucceeds, NodeFails
  <2>3. \A n \in Nodes : Told(n) \in [Nodes -> {"pipeup", "steady"}] /\ Counted(n) \in [Nodes -> Nat]
    BY DEF Told, Counted
  <2>4. told' \in [Nodes -> {"pipeup", "steady"}] /\ count' \in [Nodes -> Nat]
    BY <1>5, <2>1, <2>3 DEF execute_node, NodeSucceeds, NodeFails
  <2>5. kind' = kind /\ snapshot' = snapshot /\ at' \in {"frame", "idle"} /\ next' \in Nat \ {0}
    BY <1>5 DEF execute_node, NodeSucceeds, NodeFails
  <2> QED
    BY <2>2, <2>4, <2>5
<1>6. CASE EndFrame
  BY <1>6 DEF EndFrame
<1>7. CASE UNCHANGED vars
  BY <1>7 DEF vars, history
<1> QED
  BY <1>1, <1>2, <1>3, <1>4, <1>5, <1>6, <1>7, Zenon DEF Next, Frame

(* A node that does not end the execution has succeeded.                     *)
LEMMA NodePasses ==
  ASSUME TypeInv, execute_node, at' # "idle"
  PROVE  LET n == Order[next] IN
         /\ at' = at /\ returned' = returned /\ next' = next + 1
         /\ told' = Told(n) /\ count' = Counted(n)
         /\ valid' = IF Preds[n] \subseteq valid /\ count[n] + 1 >= Depth[n]
                       THEN valid \cup {n} ELSE valid
BY DEF execute_node, NodeSucceeds, NodeFails

(* One that ends it has failed, or its callback has abandoned the graph.     *)
LEMMA NodeEnds == ASSUME execute_node, at' = "idle" PROVE returned' = "failure"
BY DEF execute_node, NodeSucceeds, NodeFails

LEMMA WarmUpStep == WarmUpInv /\ [Next]_vars => WarmUpInv'
<1> SUFFICES ASSUME WarmUpInv, [Next]_vars PROVE AheadInv' /\ SteadyInv' /\ ReturnInv'
  BY TypeStep DEF WarmUpInv
<1> USE DEF WarmUpInv, AheadInv, SteadyInv, ReturnInv, Warm
<1>1. CASE Execute
  BY <1>1 DEF Execute
<1>2. CASE vxStartGraphStreaming
  BY <1>2 DEF vxStartGraphStreaming
<1>3. CASE BeginFrame
  <2>1. at = "between" /\ at' = "frame" /\ count' = count /\ snapshot' = count /\ next' = 1
          /\ ran' = {} /\ kind' = kind /\ returned' = returned
    BY <1>3 DEF BeginFrame
  <2>2. AheadInv' /\ ReturnInv'
    BY <2>1
  <2>3. ASSUME kind = "process", steady' PROVE \A n \in Nodes : snapshot'[n] + 1 >= Depth[n]
    <3>1. \A n \in Nodes : ~(Depth[n] > 1 /\ count[n] + 1 < Depth[n])
      BY <1>3, <2>3 DEF BeginFrame, AnyPipeup, is_node_in_pipeup_state
    <3> QED
      BY <3>1, <2>1, GraphFacts DEF TypeInv
  <2>4. SteadyInv'
    BY <2>1, <2>3, OrderIsList DEF Positions
  <2> QED
    BY <2>2, <2>4
<1>4. CASE SkipNode
  <2>1. at = "frame" /\ next \in Positions /\ next' = next + 1
          /\ UNCHANGED <<count, kind, at, snapshot, steady, ran, valid, returned>>
    BY <1>4, OrderIsList DEF SkipNode, history, TypeInv, Positions
  <2>2. PICK p \in Preds[Order[next]] : Depth[p] > 1 /\ snapshot[p] + 1 < Depth[p]
    BY <1>4 DEF SkipNode, is_node_skipped_for_pipeup
  <2>3. ~Warm(p) /\ p \in Nodes
    BY <2>1, <2>2, OrderIsList, GraphFacts DEF TypeInv
  <2>4. AheadInv' /\ ReturnInv'
    BY <2>1 DEF TypeInv, Positions
  <2>5. SteadyInv'
    BY <2>1, <2>3
  <2> QED
    BY <2>4, <2>5
<1>5. CASE execute_node
  <2> DEFINE n == Order[next]
  <2>1. at = "frame" /\ next \in Positions /\ n \in Nodes
          /\ UNCHANGED <<kind, snapshot, steady>> /\ ran' = ran \cup {n}
    BY <1>5, OrderIsList DEF execute_node, TypeInv, Positions
  <2>2. CASE at' = "idle"
    BY <1>5, <2>2, NodeEnds
  <2>3. CASE at' # "idle"
    <3>1. /\ at' = at /\ returned' = returned /\ next' = next + 1
          /\ count' = IF n \in UserNodes THEN [count EXCEPT ![n] = @ + 1] ELSE count
          /\ valid' = IF Preds[n] \subseteq valid /\ count[n] + 1 >= Depth[n]
                        THEN valid \cup {n} ELSE valid
      BY <1>5, <2>3, NodePasses DEF Counted
    <3>2. \A j \in Positions : next + 1 <= j => Order[j] # n /\ Order[j] \in Nodes
      BY <2>1, OrderIsList DEF Positions
    <3>3. AheadInv'
      BY <2>1, <3>1, <3>2 DEF TypeInv, Positions
    <3>4. ASSUME kind = "process", steady PROVE n \in valid'
      <4>1. Preds[n] \subseteq valid
        <5> SUFFICES ASSUME NEW p \in Preds[n] PROVE p \in valid
          OBVIOUS
        <5>1. PICK j \in Positions : p = Order[j]
          BY <2>1, OrderIsList, GraphFacts
        <5>2. j < next
          BY <2>1, <5>1, GraphFacts
        <5> QED
          BY <2>1, <3>4, <5>1, <5>2
      <4>2. count[n] = snapshot[n] /\ snapshot[n] + 1 >= Depth[n]
        BY <2>1, <3>4 DEF TypeInv
      <4> QED
        BY <3>1, <4>1, <4>2
    <3>5. valid \subseteq valid'
      BY <3>1
    <3>6. SteadyInv'
      BY <2>1, <3>1, <3>4, <3>5 DEF TypeInv, Positions
    <3>7. ReturnInv'
      BY <2>1, <3>1
    <3> QED
      BY <3>3, <3>6, <3>7
  <2> QED
    BY <2>2, <2>3
<1>6. CASE EndFrame
  <2>1. ASSUME kind = "process", steady PROVE valid = Nodes
    <3>1. \A j \in Positions : j < next
      BY <1>6, OrderIsList DEF EndFrame, TypeInv, Positions
    <3>2. \A j \in Positions : Order[j] \in valid
      BY <1>6, <2>1, <3>1 DEF EndFrame
    <3>3. \A n \in Nodes : n \in valid
      BY <3>2, OrderIsList
    <3> QED
      BY <3>3 DEF TypeInv
  <2> QED
    BY <1>6, <2>1 DEF EndFrame
<1>7. CASE UNCHANGED vars
  BY <1>7 DEF vars, history
<1> QED
  BY <1>1, <1>2, <1>3, <1>4, <1>5, <1>6, <1>7, Zenon DEF Next, Frame

(* A vxProcessGraph that succeeded has left valid output of every node of    *)
(* any graph, whatever executions, failures and streams came before.         *)
THEOREM ProcessGraphIsValid == Spec => []ProcessedIsValid
<1>1. Init => WarmUpInv
  BY InitWarmUp
<1>2. WarmUpInv /\ [Next]_vars => WarmUpInv'
  BY WarmUpStep
<1>3. WarmUpInv => ProcessedIsValid
  BY DEF WarmUpInv, ReturnInv, ProcessedIsValid
<1> QED
  BY <1>1, <1>2, <1>3, PTL DEF Spec
-----------------------------------------------------------------------------
(* Nodes that are read are nodes of user kernels, which are the ones that    *)
(* report their state, and who reads a reader of a source with a depth reads *)
(* the source as well.                                                       *)
DirectReaders ==
    \A n \in Nodes : \A p \in Preds[n] :
      p \in UserNodes /\ \A r \in Preds[p] : Depth[r] > 1 => r \in Preds[n]

Skipped(n) == \E p \in Preds[n] : Depth[p] > 1 /\ snapshot[p] + 1 < Depth[p]

(* What the frame has passed was skipped, or ran, and then is valid and has  *)
(* said so if it was warm.                                                   *)
PassedInv ==
    at = "frame" /\ kind # "auto" =>
      \A j \in Positions : j < next =>
        \/ Skipped(Order[j])
        \/ /\ Warm(Order[j]) => Order[j] \in valid
           /\ Warm(Order[j]) /\ Order[j] \in UserNodes => told[Order[j]] = "steady"

(* The argument: a reader that runs was not skipped, so what it reads is     *)
(* warm; and none of that was skipped, or else the reader would have been.   *)
LEMMA InputsAreValid ==
  ASSUME DirectReaders, WarmUpInv, PassedInv, at = "frame", kind # "auto", next \in Positions,
         ~Skipped(Order[next]), NEW p \in Preds[Order[next]]
  PROVE  p \in valid /\ told[p] = "steady"
<1>1. Order[next] \in Nodes /\ p \in Nodes /\ p \in UserNodes
  BY OrderIsList, GraphFacts DEF DirectReaders
<1>2. PICK j \in Positions : p = Order[j]
  BY <1>1, OrderIsList
<1>3. j < next
  BY <1>2, GraphFacts
<1>4. Warm(p)
  BY <1>1, GraphFacts DEF Skipped, Warm, WarmUpInv, TypeInv
<1>5. ~Skipped(p)
  BY <1>1 DEF Skipped, DirectReaders
<1> QED
  BY <1>1, <1>2, <1>3, <1>4, <1>5 DEF PassedInv

LEMMA PassedStep ==
  ASSUME DirectReaders, WarmUpInv, PassedInv, [Next]_vars
  PROVE  PassedInv'
<1> USE DEF PassedInv, Skipped, Warm
<1>1. CASE Execute
  BY <1>1 DEF Execute
<1>2. CASE vxStartGraphStreaming
  BY <1>2 DEF vxStartGraphStreaming
<1>3. CASE BeginFrame
  BY <1>3, OrderIsList DEF BeginFrame, Positions
<1>4. CASE SkipNode
  <2>1. next' = next + 1 /\ Skipped(Order[next])
          /\ UNCHANGED <<told, kind, at, snapshot, valid>> /\ at = "frame" /\ kind # "auto"
    BY <1>4 DEF SkipNode, is_node_skipped_for_pipeup, history
  <2>2. \A j \in Positions : j < next' => j < next \/ j = next
    BY <2>1 DEF WarmUpInv, TypeInv, Positions
  <2> QED
    BY <2>1, <2>2
<1>5. CASE execute_node
  <2> DEFINE n == Order[next]
  <2>1. at = "frame" /\ next \in Positions /\ n \in Nodes /\ UNCHANGED <<kind, snapshot>>
    BY <1>5, OrderIsList DEF execute_node, WarmUpInv, TypeInv, Positions
  <2> SUFFICES ASSUME at' = "frame", kind # "auto" PROVE PassedInv'
    BY <2>1
  <2>p. TypeInv /\ at' # "idle"
    BY DEF WarmUpInv
  <2>2. /\ ~Skipped(n) /\ next' = next + 1 /\ count[n] = snapshot[n]
        /\ told' = Told(n)
        /\ valid' = IF Preds[n] \subseteq valid /\ count[n] + 1 >= Depth[n]
                      THEN valid \cup {n} ELSE valid
    <3>1. ~Skipped(n) /\ count[n] = snapshot[n]
      BY <1>5, <2>1, <2>p DEF execute_node, is_node_skipped_for_pipeup, WarmUpInv, AheadInv, TypeInv
    <3> HIDE DEF Skipped
    <3> QED
      BY <1>5, <2>p, <3>1, NodePasses
  <2>3. Preds[n] \subseteq valid
    BY <2>1, <2>2, InputsAreValid
  <2>4. (Warm(n) => n \in valid') /\ (Warm(n) /\ n \in UserNodes => told'[n] = "steady")
    BY <2>1, <2>2, <2>3, GraphFacts DEF Told, WarmUpInv, TypeInv
  <2>5. \A j \in Positions : j < next' => j < next \/ j = next
    BY <2>1, <2>2 DEF WarmUpInv, TypeInv, Positions
  <2>6. \A j \in Positions : j < next => Order[j] # n
    BY <2>1, OrderIsList DEF WarmUpInv, TypeInv, Positions
  <2>7. valid \subseteq valid' /\ \A m \in Nodes : m # n => told'[m] = told[m]
    BY <2>1, <2>2 DEF Told, WarmUpInv, TypeInv
  <2> QED
    BY <2>1, <2>4, <2>5, <2>6, <2>7, OrderIsList
<1>6. CASE EndFrame
  BY <1>6 DEF EndFrame
<1>7. CASE UNCHANGED vars
  BY <1>7 DEF vars, history
<1> QED
  BY <1>1, <1>2, <1>3, <1>4, <1>5, <1>6, <1>7, Zenon DEF Next, Frame

LEMMA RunsStep ==
  ASSUME DirectReaders, WarmUpInv, PassedInv, [Next]_vars, kind # "auto",
         NEW n \in ran' \ ran, NEW p \in Preds[n]
  PROVE  p \in valid /\ told[p] = "steady"
<1>1. CASE execute_node
  <2>1. at = "frame" /\ next \in Positions /\ n = Order[next] /\ ~Skipped(n)
    BY <1>1, OrderIsList DEF execute_node, is_node_skipped_for_pipeup, Skipped, WarmUpInv, TypeInv,
                             Positions
  <2> QED
    BY <2>1, InputsAreValid
<1>2. CASE ~execute_node
  BY <1>2 DEF Next, Frame, Execute, vxStartGraphStreaming, BeginFrame, SkipNode, EndFrame, vars, history
<1> QED
  BY <1>1, <1>2

(* In a graph of direct readers, a node that runs where nodes are skipped    *)
(* finds valid output of the same frame in all its inputs, from nodes that   *)
(* were told that they are steady.                                           *)
THEOREM ReadersRunOnValidInputs == ASSUME DirectReaders PROVE Spec => RunsOnValidInputs
<1> DEFINE A == kind # "auto" =>
                  \A n \in ran' \ ran : \A p \in Preds[n] : p \in valid /\ told[p] = "steady"
           Inv == WarmUpInv /\ PassedInv
<1>1. Init => Inv
  BY InitWarmUp DEF Init, PassedInv
<1>2. Inv /\ [Next]_vars => Inv'
  BY WarmUpStep, PassedStep
<1>3. Inv /\ [Next]_vars => [A]_vars
  BY RunsStep
<1> QED
  BY <1>1, <1>2, <1>3, PTL DEF Spec, RunsOnValidInputs
-----------------------------------------------------------------------------
(* The executions still to come when the counts are c.  A frame that is not  *)
(* steady performs one of them, at the latest when it reaches the first cold *)
(* node: nobody that node reads is cold, so it is not skipped.               *)
Cold(c) == {x \in WarmUps : c[x[1]] < x[2]}

LEMMA WarmUpPairs ==
  \A n, i : <<n, i>> \in WarmUps <=> n \in Nodes /\ i \in 1..(Depth[n] - 1)
BY DEF WarmUps

LEMMA WarmUpElements ==
  \A x \in WarmUps : x[1] \in Nodes /\ x[2] \in Nat /\ x = <<x[1], x[2]>>
BY GraphFacts DEF WarmUps

LEMMA WarmUpsFinite == IsFiniteSet(WarmUps) /\ Cardinality(WarmUps) \in Nat
<1> DEFINE of == [n \in Nodes |-> {n} \X (1..(Depth[n] - 1))]
           all == {{n} \X (1..(Depth[n] - 1)) : n \in Nodes}
<1>1. IsFiniteSet(Nodes)
  <2>1. IsFiniteSet(Positions)
    BY OrderIsList, FS_Interval DEF Positions
  <2>2. [j \in Positions |-> Order[j]] \in Surjection(Positions, Nodes)
    BY OrderIsList DEF Surjection
  <2> QED
    BY <2>1, <2>2, FS_Surjection
<1>2. of \in Surjection(Nodes, all)
  BY DEF Surjection
<1>3. IsFiniteSet(all)
  <2> HIDE DEF of, all
  <2> QED
    BY <1>1, <1>2, FS_Surjection
<1>4. ASSUME NEW n \in Nodes PROVE IsFiniteSet({n} \X (1..(Depth[n] - 1)))
  <2>0. 1 \in Int /\ Depth[n] - 1 \in Int
    BY GraphFacts
  <2>1. IsFiniteSet({n}) /\ IsFiniteSet(1..(Depth[n] - 1))
    BY <2>0, FS_Interval, FS_Singleton
  <2> QED
    BY <2>1, FS_Product
<1>5. IsFiniteSet(UNION all)
  <2>1. \A T \in all : IsFiniteSet(T)
    BY <1>4
  <2> HIDE DEF all
  <2> QED
    BY <1>3, <2>1, FS_UNION
<1> QED
  BY <1>5, FS_CardinalityType DEF WarmUps

LEMMA ColdFinite ==
  ASSUME NEW c, NEW d, Cold(c) \subseteq Cold(d)
  PROVE  /\ Cardinality(Cold(c)) \in Nat /\ Cardinality(Cold(d)) \in Nat
         /\ Cardinality(Cold(d)) <= Cardinality(WarmUps)
         /\ Cold(c) # Cold(d) => Cardinality(Cold(c)) < Cardinality(Cold(d))
<1>1. Cold(c) \subseteq WarmUps /\ Cold(d) \subseteq WarmUps
  BY DEF Cold
<1> HIDE DEF Cold
<1>2. IsFiniteSet(Cold(c)) /\ IsFiniteSet(Cold(d))
  BY <1>1, WarmUpsFinite, FS_Subset
<1> QED
  BY <1>1, <1>2, WarmUpsFinite, FS_Subset, FS_CardinalityType

(* In a frame that is not steady somebody is cold, and either a cold node    *)
(* has advanced or everything so far was warm.                               *)
Advancing ==
    /\ \E n \in Nodes : ~Warm(n)
    /\ Cold(count) \subseteq Cold(snapshot)
    /\ \/ Cold(count) # Cold(snapshot)
       \/ \A j \in Positions : j < next => Warm(Order[j])

Whole == Cardinality(WarmUps)

FramesInv ==
    /\ frames \in Nat /\ frames <= Whole + 1
    /\ at = "between" => IF kind = "process"
                            THEN ~steady /\ frames + Cardinality(Cold(count)) <= Whole
                            ELSE frames = 0
    /\ at = "frame" /\ kind = "process" /\ ~steady =>
         Advancing /\ frames + Cardinality(Cold(snapshot)) <= Whole + 1

LEMMA FramesStep ==
  ASSUME WarmUpInv, FramesInv, [Next]_vars
  PROVE  FramesInv'
<1>w. Whole \in Nat
  BY WarmUpsFinite DEF Whole
<1>c. /\ Cardinality(Cold(count)) \in Nat /\ Cardinality(Cold(count)) <= Whole
      /\ Cardinality(Cold(snapshot)) \in Nat /\ Cardinality(Cold(snapshot)) <= Whole
  BY ColdFinite DEF Whole
<1>1. CASE Execute
  BY <1>1, <1>w, <1>c DEF Execute, FramesInv, Whole
<1>2. CASE vxStartGraphStreaming
  BY <1>2 DEF vxStartGraphStreaming, FramesInv, Whole
<1>3. CASE BeginFrame
  <2>1. /\ at = "between" /\ at' = "frame" /\ kind' = kind /\ next' = 1 /\ frames' = frames + 1
        /\ count' = count /\ snapshot' = count
        /\ kind = "process" => steady' = ~AnyPipeup
    BY <1>3 DEF BeginFrame
  <2>2. frames' \in Nat /\ frames' <= Whole + 1
    BY <1>w, <1>c, <2>1 DEF FramesInv
  <2>3. ASSUME kind = "process", ~steady' PROVE frames' + Cardinality(Cold(count)) <= Whole + 1
    BY <1>w, <1>c, <2>1, <2>3 DEF FramesInv
  <2>4. ASSUME kind = "process", ~steady' PROVE Advancing'
    <3>1. PICK n \in Nodes : Depth[n] > 1 /\ count[n] + 1 < Depth[n]
      BY <2>1, <2>4 DEF AnyPipeup, is_node_in_pipeup_state
    <3>2. ~(snapshot'[n] + 1 >= Depth[n])
      BY <2>1, <3>1, GraphFacts DEF WarmUpInv, TypeInv
    <3>3. \A j \in Positions : ~(j < next')
      BY <2>1, OrderIsList DEF Positions
    <3> QED
      BY <2>1, <3>2, <3>3 DEF Advancing, Warm
  <2> QED
    BY <2>1, <2>2, <2>3, <2>4 DEF FramesInv, Whole
<1>4. CASE SkipNode
  <2>1. at = "frame" /\ next \in Positions /\ next' = next + 1
          /\ UNCHANGED <<count, kind, at, snapshot, steady, frames>>
    BY <1>4, OrderIsList DEF SkipNode, history, WarmUpInv, TypeInv, Positions
  <2>2. PICK p \in Preds[Order[next]] : Depth[p] > 1 /\ snapshot[p] + 1 < Depth[p]
    BY <1>4 DEF SkipNode, is_node_skipped_for_pipeup
  <2>3. ~Warm(p) /\ p \in Nodes
    BY <2>1, <2>2, OrderIsList, GraphFacts DEF WarmUpInv, TypeInv, Warm
  <2>4. PICK j \in Positions : p = Order[j] /\ j < next
    BY <2>1, <2>2, <2>3, OrderIsList, GraphFacts
  <2>5. Advancing => Advancing'
    BY <2>1, <2>3, <2>4 DEF Advancing, Warm
  <2> QED
    BY <2>1, <2>5 DEF FramesInv, Whole
<1>5. CASE execute_node
  <2> DEFINE n == Order[next]
  <2>1. at = "frame" /\ next \in Positions /\ n \in Nodes
          /\ UNCHANGED <<kind, snapshot, steady, frames>> /\ at' \in {"frame", "idle"}
    BY <1>5, OrderIsList DEF execute_node, NodeSucceeds, NodeFails, WarmUpInv, TypeInv, Positions
  <2>2. ASSUME at' # "idle", Advancing PROVE Advancing'
    <3>t. TypeInv /\ count[n] = snapshot[n]
      BY <2>1 DEF WarmUpInv, AheadInv, TypeInv
    <3>1. /\ next' = next + 1 /\ count[n] = snapshot[n]
          /\ count' = IF n \in UserNodes THEN [count EXCEPT ![n] = @ + 1] ELSE count
      BY <1>5, <2>2, <3>t, NodePasses DEF Counted
    <3>2. \A m \in Nodes : count[m] \in Nat /\ count'[m] \in Nat /\ count[m] <= count'[m]
      BY <2>1, <3>1 DEF WarmUpInv, TypeInv
    <3>3. Cold(count)' \subseteq Cold(count)
      BY <3>2, WarmUpElements DEF Cold
    <3>4. CASE Warm(n)
      <4>1. \A j \in Positions : j < next + 1 => j < next \/ j = next
        BY <2>1 DEF Positions
      <4> QED
        BY <2>1, <2>2, <3>1, <3>3, <3>4, <4>1 DEF Advancing, Warm, Cold
    <3>5. CASE ~Warm(n)
      <4>1. snapshot[n] \in Nat /\ Depth[n] \in Nat /\ snapshot[n] + 1 < Depth[n] /\ n \in UserNodes
        BY <2>1, <3>5, GraphFacts, PipeUpAssumption DEF Warm, WarmUpInv, TypeInv
      <4>2. count'[n] = snapshot[n] + 1
        BY <2>1, <3>1, <4>1 DEF WarmUpInv, TypeInv
      <4> DEFINE x == <<n, snapshot[n] + 1>>
      <4>3. x \in WarmUps /\ x[1] = n /\ x[2] = snapshot[n] + 1
        BY <2>1, <4>1, WarmUpPairs
      <4> HIDE DEF x
      <4>4. x \in Cold(snapshot) /\ x \notin Cold(count)'
        BY <4>1, <4>2, <4>3 DEF Cold
      <4>5. Cold(snapshot)' = Cold(snapshot)
        BY <2>1 DEF Cold
      <4> QED
        BY <2>1, <2>2, <3>3, <4>4, <4>5 DEF Advancing, Warm
    <3> QED
      BY <3>4, <3>5
  <2>3. Cold(snapshot)' = Cold(snapshot)
    BY <2>1 DEF Cold
  <2> QED
    BY <2>1, <2>2, <2>3 DEF FramesInv, Whole
<1>6. CASE EndFrame
  <2>1. /\ at = "frame" /\ UNCHANGED <<count, kind, steady, frames>>
        /\ at' = IF kind = "process" /\ ~steady THEN "between" ELSE "idle"
        /\ \A j \in Positions : j < next
    BY <1>6, OrderIsList DEF EndFrame, WarmUpInv, TypeInv, Positions
  <2>2. ASSUME kind = "process", ~steady
        PROVE  frames + Cardinality(Cold(count)) <= Whole
    <3>1. Advancing /\ frames + Cardinality(Cold(snapshot)) <= Whole + 1 /\ frames \in Nat
      BY <2>1, <2>2 DEF FramesInv
    <3>2. Cold(count) # Cold(snapshot) /\ Cold(count) \subseteq Cold(snapshot)
      BY <2>1, <3>1, OrderIsList DEF Advancing
    <3>3. Cardinality(Cold(count)) < Cardinality(Cold(snapshot))
      BY <3>2, ColdFinite
    <3> QED
      BY <1>w, <1>c, <3>1, <3>3
  <2>3. Cold(count)' = Cold(count)
    BY <2>1 DEF Cold
  <2> QED
    BY <2>1, <2>2, <2>3 DEF FramesInv, Whole
<1>7. CASE UNCHANGED vars
  BY <1>7 DEF vars, history, FramesInv, Whole, Advancing, Cold, Warm
<1> QED
  BY <1>1, <1>2, <1>3, <1>4, <1>5, <1>6, <1>7, Zenon DEF Next, Frame

(* vxProcessGraph leaves valid output of every node when it succeeds, and    *)
(* warms up no longer than the depths demand, for any graph and depths:      *)
(* every frame but the last performs an execution that was missing.          *)
THEOREM ProcessGraphWarmsUp == Spec => []WarmUpIsExact
<1>1. Init => WarmUpInv /\ FramesInv
  BY InitWarmUp, WarmUpsFinite DEF Init, FramesInv, Whole
<1>2. WarmUpInv /\ FramesInv /\ [Next]_vars => WarmUpInv' /\ FramesInv'
  BY WarmUpStep, FramesStep
<1>3. WarmUpInv /\ FramesInv => WarmUpIsExact
  BY DEF WarmUpInv, ReturnInv, ProcessedIsValid, WarmUpIsExact, WarmUpBounded, FramesInv, Whole
<1> QED
  BY <1>1, <1>2, <1>3, PTL DEF Spec
=============================================================================
