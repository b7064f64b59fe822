------------------------ MODULE WaveExecutionProofs ------------------------
(* Running nodes wave by wave on a shared pool, for any graphs, waves, pool  *)
(* and number of executions, failed ones and the jobs they leave included.   *)
EXTENDS WaveExecution, FiniteSetTheorems, TLAPS

(* The waves, one by one.                                                    *)
LEMMA WaveFacts ==
  /\ Len(Waves) \in Nat /\ Len(Waves) > 0
  /\ \A k \in 1..Len(Waves) : Waves[k] \subseteq Nodes /\ Waves[k] # {} /\ IsFiniteSet(Waves[k])
  /\ \A k \in 1..Len(Waves) : \A n \in Waves[k] : n \notin WavesBefore(k)
  /\ WavesBefore(1) = {}
  /\ \A k \in 1..Len(Waves) : WavesBefore(k + 1) = WavesBefore(k) \cup Waves[k]
  /\ WavesBefore(Len(Waves) + 1) = Nodes
<1> USE WaveAssumption
<1>1. Len(Waves) \in Nat /\ \A k \in 1..Len(Waves) : Waves[k] \subseteq Nodes /\ Waves[k] # {}
  OBVIOUS
<1>2. \A k \in 1..Len(Waves) : IsFiniteSet(Waves[k])
  BY <1>1, FS_Subset
<1>3. WavesBefore(1) = {}
  BY DEF WavesBefore
<1>4. Len(Waves) > 0
  <2>1. CASE Len(Waves) = 0
    BY <2>1, <1>3
  <2> QED
    BY <1>1, <2>1
<1>5. ASSUME NEW k \in 1..Len(Waves), NEW n \in Waves[k] PROVE n \notin WavesBefore(k)
  <2>1. SUFFICES ASSUME NEW i \in 1..(k - 1), n \in Waves[i] PROVE FALSE
    BY DEF WavesBefore
  <2>2. i \in 1..Len(Waves) /\ i # k
    BY <1>1
  <2> QED
    BY <1>5, <2>1, <2>2
<1>6. ASSUME NEW k \in 1..Len(Waves) PROVE WavesBefore(k + 1) = WavesBefore(k) \cup Waves[k]
  <2>1. 1..((k + 1) - 1) = 1..(k - 1) \cup {k}
    BY <1>1
  <2> QED
    BY <2>1 DEF WavesBefore
<1> QED
  BY <1>1, <1>2, <1>3, <1>4, <1>5, <1>6

(* Where the executors are: in one of the waves of an execution, or idle.    *)
Placed == \A g \in Graphs : at[g] # "idle" =>
             /\ wave[g] \in 1..Len(Waves) /\ run[g] \in 1..MaxRuns
             /\ at[g] = "wave" => unsent[g] \subseteq Waves[wave[g]]

TypeInv == TypeOK /\ Placed

Message == [node : Nodes, ok : BOOLEAN]

(* What a change of one executor's place leaves as it is.                    *)
Moved(g) == /\ at' \in [Graphs -> {"idle", "wave", "node"}]
            /\ wave' \in [Graphs -> 0..(Len(Waves) + 1)]
            /\ unsent' \in [Graphs -> SUBSET Nodes]
            /\ remaining' \in [Graphs -> Nat]
            /\ results' \in [Graphs -> Seq(Message)]
            /\ status' \in [Graphs -> {"none", "ok", "failed"}]
            /\ \A h \in Graphs \ {g} : /\ at'[h] = at[h] /\ wave'[h] = wave[h]
                                       /\ unsent'[h] = unsent[h] /\ results'[h] = results[h]
                                       /\ remaining'[h] = remaining[h] /\ status'[h] = status[h]
Entered(g, k) == /\ k \in 1..Len(Waves) /\ at'[g] = "wave" /\ unsent'[g] = Waves[k]
                 /\ remaining'[g] = Cardinality(Waves[k]) /\ results'[g] = <<>>

(* What entering a wave changes, and where the executor then is.             *)
LEMMA EnterWaveType ==
  ASSUME TypeInv, NEW g \in Graphs, NEW k \in 1..(Len(Waves) + 1), EnterWave(g, k)
  PROVE  /\ Moved(g) /\ wave'[g] = k
         /\ IF k > Len(Waves) THEN at'[g] = "idle" ELSE Entered(g, k)
<1> USE DEF TypeInv
<1> DEFINE nodes == IF k > Len(Waves) THEN {} ELSE Waves[k]
<1>1. nodes \subseteq Nodes /\ IsFiniteSet(nodes)
  BY WaveFacts, FS_EmptySet
<1>2. Cardinality(nodes) \in Nat
  BY <1>1, FS_CardinalityType
<1>3. unsent' = [unsent EXCEPT ![g] = nodes] /\ remaining' = [remaining EXCEPT ![g] = Cardinality(nodes)]
  BY DEF EnterWave
<1>4. /\ unsent' \in [Graphs -> SUBSET Nodes] /\ remaining' \in [Graphs -> Nat]
      /\ unsent'[g] = nodes /\ \A h \in Graphs \ {g} : unsent'[h] = unsent[h]
      /\ remaining'[g] = Cardinality(nodes) /\ \A h \in Graphs \ {g} : remaining'[h] = remaining[h]
  <2> HIDE DEF nodes
  <2> QED
    BY <1>1, <1>2, <1>3 DEF TypeOK
<1>5. wave' \in [Graphs -> 0..(Len(Waves) + 1)] /\ wave'[g] = k
  BY WaveFacts DEF TypeOK, EnterWave
<1>6. /\ at' \in [Graphs -> {"idle", "wave", "node"}]
      /\ status' \in [Graphs -> {"none", "ok", "failed"}]
      /\ at'[g] = IF k > Len(Waves) THEN "idle" ELSE "wave"
  BY DEF TypeOK, EnterWave
<1>7. /\ results' \in [Graphs -> Seq(Message)] /\ results'[g] = <<>>
      /\ \A h \in Graphs \ {g} : results'[h] = results[h]
  <2>1. <<>> \in Seq(Message)
    OBVIOUS
  <2>2. results \in [Graphs -> Seq(Message)] /\ results' = [results EXCEPT ![g] = <<>>]
    BY DEF TypeOK, EnterWave, Message
  <2> QED
    BY <2>1, <2>2
<1>8. \A h \in Graphs \ {g} : at'[h] = at[h] /\ wave'[h] = wave[h] /\ status'[h] = status[h]
  BY DEF TypeOK, EnterWave
<1>9. IF k > Len(Waves) THEN at'[g] = "idle" ELSE Entered(g, k)
  BY <1>4, <1>6, <1>7, WaveFacts DEF Entered
<1> QED
  BY <1>4, <1>5, <1>6, <1>7, <1>8, <1>9 DEF Moved

(* What returning early changes.                                             *)
LEMMA FailType ==
  ASSUME TypeInv, NEW g \in Graphs, Fail(g)
  PROVE  Moved(g) /\ at'[g] = "idle" /\ status'[g] = "failed"
<1> USE DEF TypeInv
<1>1. results' \in [Graphs -> Seq(Message)]
  <2>1. <<>> \in Seq(Message)
    OBVIOUS
  <2>2. results \in [Graphs -> Seq(Message)] /\ results' = [results EXCEPT ![g] = <<>>]
    BY DEF TypeOK, Fail, Message
  <2> QED
    BY <2>1, <2>2
<1>2. unsent' \in [Graphs -> SUBSET Nodes] /\ remaining' \in [Graphs -> Nat]
  BY DEF TypeOK, Fail
<1> QED
  BY <1>1, <1>2 DEF TypeOK, Fail, Moved

(* After a move the executor is idle or at the start of its wave.            *)
LEMMA MovedPlaced ==
  ASSUME TypeInv, NEW g \in Graphs, Moved(g), run'[g] \in 1..MaxRuns,
         \A h \in Graphs \ {g} : run'[h] = run[h],
         at'[g] # "idle" => Entered(g, wave'[g])
  PROVE  Placed'
<1> SUFFICES ASSUME NEW h \in Graphs, at'[h] # "idle"
             PROVE  /\ wave'[h] \in 1..Len(Waves) /\ run'[h] \in 1..MaxRuns
                    /\ at'[h] = "wave" => unsent'[h] \subseteq Waves[wave'[h]]
  BY DEF Placed
<1>1. CASE h = g
  BY <1>1 DEF Entered
<1>2. CASE h # g
  BY <1>2 DEF Moved, TypeInv, Placed
<1> QED
  BY <1>1, <1>2

(* The job a thread starts, and what it records of the reference.            *)
LEMMA StartType ==
  ASSUME TypeInv, NEW t \in Threads, NEW g \in Graphs, NEW n \in Nodes, NEW r \in 1..MaxRuns,
         StartNode(t, g, n, r)
  PROVE  /\ running' \in [Threads -> SUBSET Job]
         /\ \A u \in Threads : \A i, j \in running'[u] : i = j
         /\ subst' \in [Threads -> [Graphs -> 0..MaxRuns]]
<1> USE DEF TypeInv
<1>1. Resolved(t, g, n, r) \in Job
  <2>1. run[g] \in 0..MaxRuns /\ subst[t][g] \in 0..MaxRuns /\ MaxRuns \in Nat
    BY WaveAssumption DEF TypeOK
  <2>2. (IF n = Resolver THEN run[g] ELSE IF n \in Sharers THEN subst[t][g] ELSE 0) \in 0..MaxRuns
    BY <2>1
  <2> QED
    BY <2>2 DEF Resolved, Job
<1>2. running' = [running EXCEPT ![t] = {Resolved(t, g, n, r)}]
  BY DEF StartNode
<1>3. subst' \in [Threads -> [Graphs -> 0..MaxRuns]]
  BY DEF StartNode, TypeOK
<1>4. running \in [Threads -> SUBSET Job] /\ \A u \in Threads : \A i, j \in running[u] : i = j
  BY DEF TypeOK
<1>5. running' \in [Threads -> SUBSET Job]
  BY <1>1, <1>2, <1>4
<1>6. \A u \in Threads : running'[u] = IF u = t THEN {Resolved(t, g, n, r)} ELSE running[u]
  BY <1>2, <1>4
<1>7. \A u \in Threads : \A i, j \in running'[u] : i = j
  BY <1>4, <1>6
<1> QED
  BY <1>3, <1>5, <1>7

QueuedJob == [graph : Graphs, run : 1..MaxRuns, node : Nodes]

LEMMA Untouched == TypeInv /\ UNCHANGED vars => TypeInv'
BY DEF TypeInv, TypeOK, Placed, vars, execVars, history

(* Each action keeps the types and the places.                               *)
LEMMA TypeStep == TypeInv /\ [Next]_vars => TypeInv'
<1> SUFFICES ASSUME TypeInv, Next PROVE TypeInv'
  BY Untouched
<1>t. TypeOK /\ Placed
  BY DEF TypeInv
<1>g. \A g \in Graphs : g \in Threads
  BY DEF Threads
<1>1. ASSUME NEW g \in Graphs, execute_pipelined_graph(g) PROVE TypeInv'
  <2>1. 1 \in 1..(Len(Waves) + 1)
    BY WaveFacts
  <2>2. EnterWave(g, 1)
    BY <1>1 DEF execute_pipelined_graph
  <2>3. Moved(g) /\ wave'[g] = 1 /\ (at'[g] # "idle" => Entered(g, 1))
    BY <2>1, <2>2, EnterWaveType
  <2>4. /\ run' \in [Graphs -> 0..MaxRuns] /\ run'[g] \in 1..MaxRuns
        /\ \A h \in Graphs \ {g} : run'[h] = run[h]
    BY <1>1, <1>t, WaveAssumption DEF execute_pipelined_graph, TypeOK
  <2>5. subst' \in [Threads -> [Graphs -> 0..MaxRuns]]
    <3>1. [h \in Graphs |-> 0] \in [Graphs -> 0..MaxRuns]
      BY WaveAssumption
    <3>2. subst' = [subst EXCEPT ![g] = [h \in Graphs |-> 0]]
      BY <1>1 DEF execute_pipelined_graph
    <3> QED
      BY <1>t, <3>1, <3>2 DEF TypeOK
  <2>6. Placed'
    BY <2>3, <2>4, MovedPlaced
  <2>7. UNCHANGED <<jobs, running, done, failed>>
    BY <1>1 DEF execute_pipelined_graph, history
  <2> QED
    BY <1>t, <2>3, <2>4, <2>5, <2>6, <2>7 DEF TypeInv, TypeOK, Moved, Message
<1>2. ASSUME NEW g \in Graphs, RunInline(g) PROVE TypeInv'
  <2>1. wave[g] \in 1..Len(Waves) /\ run[g] \in 1..MaxRuns
    BY <1>2, <1>t DEF RunInline, Placed
  <2>2. PICK n \in Waves[wave[g]] : StartNode(g, g, n, run[g])
    BY <1>2 DEF RunInline
  <2>3. n \in Nodes
    BY <2>1, WaveFacts
  <2>4. /\ running' \in [Threads -> SUBSET Job]
        /\ \A u \in Threads : \A i, j \in running'[u] : i = j
        /\ subst' \in [Threads -> [Graphs -> 0..MaxRuns]]
    BY <1>g, <2>1, <2>2, <2>3, StartType
  <2>5. at' \in [Graphs -> {"idle", "wave", "node"}] /\ Placed'
    BY <1>2, <1>t, <2>1 DEF RunInline, Placed, TypeOK
  <2>6. UNCHANGED <<jobs, run, wave, unsent, remaining, results, status, done, failed>>
    BY <1>2 DEF RunInline, history
  <2> QED
    BY <1>t, <2>4, <2>5, <2>6 DEF TypeInv, TypeOK
<1>3. ASSUME NEW g \in Graphs, EndInline(g) PROVE TypeInv'
  <2>1. wave[g] + 1 \in 1..(Len(Waves) + 1) /\ run[g] \in 1..MaxRuns
    BY <1>3, <1>t, WaveFacts DEF EndInline, Placed
  <2>2. /\ running' \in [Threads -> SUBSET Job]
        /\ \A u \in Threads : \A i, j \in running'[u] : i = j
        /\ UNCHANGED <<jobs, run, subst>>
    BY <1>3, <1>g, <1>t DEF EndInline, TypeOK
  <2>3. ASSUME NEW j \in running[g]
        PROVE <<j.graph, j.run, j.node>> \in Graphs \X (1..MaxRuns) \X Nodes
    BY SMTT(30), <1>g, <1>t DEF TypeOK, Job
  <2>4. done' \subseteq Graphs \X (1..MaxRuns) \X Nodes /\ failed' \subseteq Graphs \X (1..MaxRuns) \X Nodes
    BY <1>3, <1>t, <2>3 DEF EndInline, Succeeded, Failed, TypeOK
  <2>5. EnterWave(g, wave[g] + 1) \/ Fail(g)
    BY <1>3 DEF EndInline
  <2>6. Moved(g) /\ (at'[g] # "idle" => Entered(g, wave'[g]))
    BY <2>1, <2>5, EnterWaveType, FailType
  <2>7. Placed'
    BY <2>1, <2>2, <2>6, MovedPlaced
  <2> QED
    BY <1>t, <2>2, <2>4, <2>6, <2>7 DEF TypeInv, TypeOK, Moved, Message
<1>4. ASSUME NEW g \in Graphs, NEW n \in Nodes, SendJob(g, n) PROVE TypeInv'
  <2>1. run[g] \in 1..MaxRuns
    BY <1>4, <1>t DEF SendJob, Placed
  <2>2. [graph |-> g, run |-> run[g], node |-> n] \in QueuedJob /\ jobs \in Seq(QueuedJob)
    BY <1>t, <2>1 DEF QueuedJob, TypeOK
  <2>3. jobs' \in Seq(QueuedJob)
    BY <1>4, <2>2 DEF SendJob
  <2>4. unsent' \in [Graphs -> SUBSET Nodes] /\ Placed'
    BY <1>4, <1>t DEF SendJob, TypeOK, Placed
  <2>5. UNCHANGED <<running, at, run, wave, remaining, results, status, subst, done, failed>>
    BY <1>4 DEF SendJob, history
  <2> QED
    BY <1>t, <2>3, <2>4, <2>5 DEF TypeInv, TypeOK, QueuedJob
<1>5. ASSUME NEW g \in Graphs, Receive(g) PROVE TypeInv'
  <2>1. wave[g] + 1 \in 1..(Len(Waves) + 1) /\ run[g] \in 1..MaxRuns
    BY <1>5, <1>t, WaveFacts DEF Receive, Placed
  <2>2. UNCHANGED <<jobs, running, run, subst, done, failed>>
    BY <1>5 DEF Receive, history
  <2>3. CASE /\ remaining[g] > 1 /\ remaining' = [remaining EXCEPT ![g] = @ - 1]
             /\ results' = [results EXCEPT ![g] = Tail(@)]
             /\ UNCHANGED <<at, wave, unsent, status>>
    <3>1. remaining' \in [Graphs -> Nat]
      BY <1>t, <2>3 DEF TypeOK
    <3>2. results \in [Graphs -> Seq(Message)] /\ results[g] # <<>>
      BY <1>5, <1>t DEF TypeOK, Message, Receive
    <3>3. Tail(results[g]) \in Seq(Message)
      BY <3>2
    <3>4. results' \in [Graphs -> Seq(Message)]
      BY <2>3, <3>2, <3>3
    <3>5. Placed'
      BY <1>t, <2>2, <2>3 DEF Placed
    <3> QED
      BY <1>t, <2>2, <2>3, <3>1, <3>4, <3>5 DEF TypeInv, TypeOK, Message
  <2>4. CASE EnterWave(g, wave[g] + 1) \/ Fail(g)
    <3>1. Moved(g) /\ (at'[g] # "idle" => Entered(g, wave'[g]))
      BY <2>1, <2>4, EnterWaveType, FailType
    <3>2. Placed'
      BY <2>1, <2>2, <3>1, MovedPlaced
    <3> QED
      BY <1>t, <2>2, <3>1, <3>2 DEF TypeInv, TypeOK, Moved, Message
  <2> QED
    BY <1>5, <2>3, <2>4 DEF Receive
<1>6. ASSUME NEW w \in Pool, TakeJob(w) PROVE TypeInv'
  <2>1. jobs \in Seq(QueuedJob) /\ jobs # <<>>
    BY <1>6, <1>t DEF TakeJob, TypeOK, QueuedJob
  <2>2. Head(jobs) \in QueuedJob /\ Tail(jobs) \in Seq(QueuedJob)
    BY <2>1
  <2>3. /\ Head(jobs).graph \in Graphs /\ Head(jobs).run \in 1..MaxRuns /\ Head(jobs).node \in Nodes
        /\ StartNode(w, Head(jobs).graph, Head(jobs).node, Head(jobs).run)
    BY <1>6, <2>2 DEF TakeJob, QueuedJob
  <2>4. jobs' \in Seq([graph : Graphs, run : 1..MaxRuns, node : Nodes])
    BY <1>6, <2>2 DEF TakeJob, QueuedJob
  <2>5. w \in Threads
    BY DEF Threads
  <2>6. /\ running' \in [Threads -> SUBSET Job]
        /\ \A u \in Threads : \A i, j \in running'[u] : i = j
        /\ subst' \in [Threads -> [Graphs -> 0..MaxRuns]]
    BY <2>3, <2>5, StartType
  <2>7. UNCHANGED <<at, run, wave, unsent, remaining, status, results, done, failed>>
    BY <1>6 DEF TakeJob, execVars, history
  <2>8. Placed'
    BY <1>t, <2>7 DEF Placed
  <2> QED
    BY <1>t, <2>4, <2>6, <2>7, <2>8 DEF TypeInv, TypeOK
<1>7. ASSUME NEW w \in Pool, EndJob(w) PROVE TypeInv'
  <2>1. PICK j \in running[w], ok \in BOOLEAN :
           (IF ok THEN Succeeded(j) ELSE Failed(j)) /\ Report(j, ok)
    BY <1>7 DEF EndJob
  <2>3. w \in Threads
    BY DEF Threads
  <2>4. j.graph \in Graphs /\ j.run \in 1..MaxRuns /\ j.node \in Nodes
    BY <1>t, <2>3 DEF TypeOK, Job
  <2>5. done' \subseteq Graphs \X (1..MaxRuns) \X Nodes /\ failed' \subseteq Graphs \X (1..MaxRuns) \X Nodes
    BY <1>t, <2>1, <2>4 DEF Succeeded, Failed, TypeOK
  <2>6. results' \in [Graphs -> Seq(Message)]
    <3>1. [node |-> j.node, ok |-> ok] \in Message /\ results \in [Graphs -> Seq(Message)]
      BY <1>t, <2>4 DEF Message, TypeOK
    <3>2. Append(results[j.graph], [node |-> j.node, ok |-> ok]) \in Seq(Message)
      BY <2>4, <3>1
    <3> QED
      BY <2>1, <3>1, <3>2 DEF Report, Tell
  <2>7. running' \in [Threads -> SUBSET Job] /\ \A u \in Threads : \A i, k \in running'[u] : i = k
    BY <1>7, <1>t, <2>3 DEF EndJob, TypeOK
  <2>8. UNCHANGED <<jobs, at, run, wave, unsent, remaining, status, subst>>
    BY <1>7 DEF EndJob, execVars
  <2>9. Placed'
    BY <1>t, <2>8 DEF Placed
  <2> QED
    BY <1>t, <2>5, <2>6, <2>7, <2>8, <2>9 DEF TypeInv, TypeOK, Message
<1> QED
  BY <1>1, <1>2, <1>3, <1>4, <1>5, <1>6, <1>7, Zenon DEF Next, ExecutorStep, WorkerStep

LEMMA TypeInit == Init => TypeInv
<1> SUFFICES ASSUME Init PROVE TypeInv
  OBVIOUS
<1>1. results \in [Graphs -> Seq([node : Nodes, ok : BOOLEAN])]
  <2>1. <<>> \in Seq([node : Nodes, ok : BOOLEAN])
    OBVIOUS
  <2> QED
    BY <2>1 DEF Init
<1>2. jobs \in Seq([graph : Graphs, run : 1..MaxRuns, node : Nodes])
  BY DEF Init
<1>3. run \in [Graphs -> 0..MaxRuns] /\ wave \in [Graphs -> 0..(Len(Waves) + 1)]
  BY WaveAssumption, WaveFacts DEF Init
<1>4. subst \in [Threads -> [Graphs -> 0..MaxRuns]]
  BY WaveAssumption DEF Init
<1> QED
  BY <1>1, <1>2, <1>3, <1>4 DEF Init, TypeInv, TypeOK, Placed

(* Every state has the types TypeOK gives it: an executor that is not idle   *)
(* is in a wave its graph has, and every thread executes one job at most.    *)
THEOREM TypeCorrect == Spec => []TypeOK
<1>1. Spec => []TypeInv
  BY TypeInit, TypeStep, PTL DEF Spec
<1> QED
  BY <1>1, PTL DEF TypeInv
-----------------------------------------------------------------------------
(* A job is known by its graph, its execution and its node.                  *)
Key(j)      == <<j.graph, j.run, j.node>>
Keys(q)     == {Key(q[i]) : i \in 1..Len(q)}
Distinct(q) == \A i, k \in 1..Len(q) : i # k => Key(q[i]) # Key(q[k])

Queued == Keys(jobs)
On(t)  == {Key(j) : j \in running[t]}
Over   == done \cup failed
Begun  == Queued \cup Over \cup UNION {On(t) : t \in Threads}

(* A node of an execution is in the queue, on one thread, or over: once.     *)
OnceInv == /\ Distinct(jobs)
           /\ Queued \cap Over = {}
           /\ \A t \in Threads : On(t) \cap Queued = {} /\ On(t) \cap Over = {}
           /\ \A t, u \in Threads : t # u => On(t) \cap On(u) = {}

(* What an execution has not come to yet has not begun.                      *)
FreshInv == \A g \in Graphs :
   /\ \A r \in 1..MaxRuns, n \in Nodes : <<g, r, n>> \in Begun => r <= run[g]
   /\ at[g] # "idle" => \A k \in (wave[g] + 1)..Len(Waves) : \A n \in Waves[k] :
                           <<g, run[g], n>> \notin Begun
   /\ at[g] = "wave" => \A n \in unsent[g] : <<g, run[g], n>> \notin Begun

(* An executor's own thread runs the node of a wave of one, or nothing.      *)
InlineInv == \A g \in Graphs :
   /\ at[g] # "node" => running[g] = {}
   /\ at[g] = "node" => \E n \in Waves[wave[g]] : Waves[wave[g]] = {n} /\ On(g) = {<<g, run[g], n>>}
   /\ at[g] = "wave" /\ Cardinality(Waves[wave[g]]) = 1 => unsent[g] = Waves[wave[g]]

(* What has begun in an execution began after all that it depends on.        *)
DepsInv == \A g \in Graphs, r \in 1..MaxRuns, n \in Nodes :
              <<g, r, n>> \in Begun => \A m \in Deps[n] : <<g, r, m>> \in done

OwnInv == OnceInv /\ FreshInv /\ InlineInv /\ DepsInv

(* The waves before the one an executor is in are done.                      *)
WavesDone == \A g \in Graphs : at[g] # "idle" =>
                \A n \in WavesBefore(wave[g]) : <<g, run[g], n>> \in done

(* Taking the head of a queue whose jobs differ, and appending another.      *)
LEMMA KeysTail ==
  ASSUME NEW q \in Seq(QueuedJob), q # <<>>, Distinct(q)
  PROVE  /\ Key(Head(q)) \in Keys(q)
         /\ Keys(Tail(q)) = Keys(q) \ {Key(Head(q))}
         /\ Distinct(Tail(q))
<1>1. Len(q) \in Nat /\ Len(q) > 0 /\ Head(q) = q[1] /\ Len(Tail(q)) = Len(q) - 1
  OBVIOUS
<1>2. \A i \in 1..Len(Tail(q)) : Tail(q)[i] = q[i + 1] /\ i + 1 \in 1..Len(q)
  BY <1>1
<1>3. \A i \in 1..Len(q) : i # 1 => i - 1 \in 1..Len(Tail(q)) /\ Tail(q)[i - 1] = q[i]
  <2> SUFFICES ASSUME NEW i \in 1..Len(q), i # 1
               PROVE  i - 1 \in 1..Len(Tail(q)) /\ Tail(q)[i - 1] = q[i]
    OBVIOUS
  <2>1. i - 1 \in 1..Len(Tail(q)) /\ (i - 1) + 1 = i
    BY <1>1
  <2> QED
    BY <1>2, <2>1
<1>4. Key(Head(q)) \in Keys(q)
  BY <1>1 DEF Keys
<1>5. Keys(Tail(q)) \subseteq Keys(q) \ {Key(Head(q))}
  <2> SUFFICES ASSUME NEW i \in 1..Len(Tail(q))
               PROVE  Key(Tail(q)[i]) \in Keys(q) /\ Key(Tail(q)[i]) # Key(q[1])
    BY <1>1 DEF Keys
  <2>1. Tail(q)[i] = q[i + 1] /\ i + 1 \in 1..Len(q) /\ i + 1 # 1 /\ 1 \in 1..Len(q)
    BY <1>1, <1>2
  <2> QED
    BY <2>1 DEF Keys, Distinct
<1>6. Keys(q) \ {Key(Head(q))} \subseteq Keys(Tail(q))
  BY <1>1, <1>3 DEF Keys
<1>7. Distinct(Tail(q))
  <2> SUFFICES ASSUME NEW i \in 1..Len(Tail(q)), NEW k \in 1..Len(Tail(q)), i # k
               PROVE  Key(Tail(q)[i]) # Key(Tail(q)[k])
    BY DEF Distinct
  <2>1. i + 1 # k + 1
    BY <1>1
  <2> QED
    BY <1>2, <2>1 DEF Distinct
<1> QED
  BY <1>4, <1>5, <1>6, <1>7

LEMMA KeysAppend ==
  ASSUME NEW q \in Seq(QueuedJob), NEW j \in QueuedJob, Distinct(q), Key(j) \notin Keys(q)
  PROVE  Keys(Append(q, j)) = Keys(q) \cup {Key(j)} /\ Distinct(Append(q, j))
<1>1. /\ Len(q) \in Nat /\ Len(Append(q, j)) = Len(q) + 1
      /\ Append(q, j)[Len(q) + 1] = j
      /\ \A i \in 1..Len(q) : Append(q, j)[i] = q[i]
  OBVIOUS
<1>2. 1..(Len(q) + 1) = 1..Len(q) \cup {Len(q) + 1}
  BY <1>1
<1>3. Keys(Append(q, j)) = Keys(q) \cup {Key(j)}
  BY <1>1, <1>2 DEF Keys
<1>4. Distinct(Append(q, j))
  <2> SUFFICES ASSUME NEW i \in 1..(Len(q) + 1), NEW k \in 1..(Len(q) + 1), i # k
               PROVE  Key(Append(q, j)[i]) # Key(Append(q, j)[k])
    BY <1>1 DEF Distinct
  <2>1. \A m \in 1..Len(q) : Key(q[m]) # Key(j)
    BY DEF Keys
  <2> QED
    BY <1>1, <1>2, <2>1 DEF Distinct
<1> QED
  BY <1>3, <1>4

(* What starting a node changes of who runs what, and what ending it does.   *)
LEMMA StartMoves ==
  ASSUME TypeInv, NEW t \in Threads, NEW g \in Graphs, NEW n \in Nodes, NEW r \in 1..MaxRuns,
         StartNode(t, g, n, r)
  PROVE  /\ On(t)' = {<<g, r, n>>}
         /\ \A u \in Threads \ {t} : running'[u] = running[u] /\ On(u)' = On(u)
<1>1. running' = [running EXCEPT ![t] = {Resolved(t, g, n, r)}] /\ running \in [Threads -> SUBSET Job]
  BY DEF StartNode, TypeInv, TypeOK
<1>2. Key(Resolved(t, g, n, r)) = <<g, r, n>>
  BY DEF Key, Resolved
<1> HIDE DEF Resolved, Key
<1> QED
  BY <1>1, <1>2 DEF On

LEMMA EndMoves ==
  ASSUME TypeInv, NEW t \in Threads, NEW j \in running[t],
         running' = [running EXCEPT ![t] = {}], Succeeded(j) \/ Failed(j)
  PROVE  /\ On(t) = {Key(j)} /\ On(t)' = {}
         /\ \A u \in Threads \ {t} : running'[u] = running[u] /\ On(u)' = On(u)
         /\ Over' = Over \cup {Key(j)}
         /\ j.graph \in Graphs /\ j.run \in 1..MaxRuns /\ j.node \in Nodes
<1>1. running \in [Threads -> SUBSET Job] /\ running[t] = {j}
  BY DEF TypeInv, TypeOK
<1>2. On(t) = {Key(j)} /\ On(t)' = {}
  BY <1>1 DEF On
<1>3. \A u \in Threads \ {t} : running'[u] = running[u] /\ On(u)' = On(u)
  BY <1>1 DEF On
<1>4. Over' = Over \cup {Key(j)}
  BY DEF Over, Succeeded, Failed, Key
<1> QED
  BY <1>1, <1>2, <1>3, <1>4 DEF Job

(* Steps that start and end nothing.                                         *)
LEMMA Quiet ==
  ASSUME OwnInv, UNCHANGED <<jobs, running, done, failed>>
  PROVE  OnceInv' /\ DepsInv' /\ Begun' = Begun /\ \A t \in Threads : On(t)' = On(t)
<1>1. Queued' = Queued /\ Over' = Over /\ \A t \in Threads : On(t)' = On(t)
  BY DEF Queued, Over, On
<1> QED
  BY <1>1 DEF OwnInv, OnceInv, DepsInv, Begun

LEMMA OwnInit == Init => OwnInv
<1> SUFFICES ASSUME Init PROVE OwnInv
  OBVIOUS
<1>1. Queued = {} /\ Over = {} /\ \A t \in Threads : On(t) = {}
  BY DEF Init, Queued, Keys, Over, On
<1>2. OnceInv
  BY <1>1 DEF OnceInv, Distinct, Init
<1>3. FreshInv
  BY <1>1 DEF FreshInv, Begun, Init
<1>4. InlineInv
  BY DEF InlineInv, Init, Threads
<1>5. DepsInv
  BY <1>1 DEF DepsInv, Begun
<1> QED
  BY <1>2, <1>3, <1>4, <1>5 DEF OwnInv

(* One more node of the wave begins.                                         *)
LEMMA FreshBegun ==
  ASSUME TypeInv, FreshInv, NEW g \in Graphs, at[g] = "wave", NEW n \in Waves[wave[g]],
         UNCHANGED <<run, wave>>, Begun' = Begun \cup {<<g, run[g], n>>},
         \A h \in Graphs : /\ at'[h] # "idle" => at[h] # "idle"
                           /\ at'[h] = "wave" => at[h] = "wave" /\ unsent'[h] \subseteq unsent[h],
         at'[g] = "wave" => n \notin unsent'[g]
  PROVE  FreshInv'
<1> SUFFICES ASSUME NEW h \in Graphs
             PROVE  /\ \A r \in 1..MaxRuns, m \in Nodes : <<h, r, m>> \in Begun' => r <= run'[h]
                    /\ at'[h] # "idle" => \A k \in (wave'[h] + 1)..Len(Waves) : \A m \in Waves[k] :
                                             <<h, run'[h], m>> \notin Begun'
                    /\ at'[h] = "wave" => \A m \in unsent'[h] : <<h, run'[h], m>> \notin Begun'
  BY DEF FreshInv
<1>1. run[g] \in 1..MaxRuns /\ wave[g] \in 1..Len(Waves) /\ Len(Waves) \in Nat
  BY WaveFacts DEF TypeInv, Placed
<1>2. \A r \in 1..MaxRuns, m \in Nodes : <<h, r, m>> \in Begun' => r <= run'[h]
  BY <1>1 DEF FreshInv
<1>3. ASSUME at'[h] # "idle", NEW k \in (wave'[h] + 1)..Len(Waves), NEW m \in Waves[k]
      PROVE  <<h, run'[h], m>> \notin Begun'
  <2>1. CASE h = g
    <3>1. k \in 1..Len(Waves) /\ k # wave[g]
      BY <1>1, <1>3, <2>1
    <3>2. m # n
      BY <1>1, <3>1, WaveAssumption
    <3> QED
      BY <1>3, <2>1, <3>2 DEF FreshInv
  <2> QED
    BY <1>3, <2>1 DEF FreshInv
<1>4. at'[h] = "wave" => \A m \in unsent'[h] : <<h, run'[h], m>> \notin Begun'
  BY DEF FreshInv
<1> QED
  BY <1>2, <1>3, <1>4

(* An executor goes to the next wave, or returns.                            *)
LEMMA FreshMoved ==
  ASSUME TypeInv, FreshInv, NEW g \in Graphs, at[g] # "idle", Moved(g), run' = run, Begun' = Begun,
         at'[g] # "idle" => wave'[g] = wave[g] + 1 /\ Entered(g, wave'[g])
  PROVE  FreshInv'
<1> SUFFICES ASSUME NEW h \in Graphs
             PROVE  /\ \A r \in 1..MaxRuns, m \in Nodes : <<h, r, m>> \in Begun' => r <= run'[h]
                    /\ at'[h] # "idle" => \A k \in (wave'[h] + 1)..Len(Waves) : \A m \in Waves[k] :
                                             <<h, run'[h], m>> \notin Begun'
                    /\ at'[h] = "wave" => \A m \in unsent'[h] : <<h, run'[h], m>> \notin Begun'
  BY DEF FreshInv
<1>1. CASE h = g /\ at'[g] # "idle"
  <2>1. /\ wave'[g] \in (wave[g] + 1)..Len(Waves) /\ unsent'[g] = Waves[wave'[g]]
        /\ \A k \in (wave'[g] + 1)..Len(Waves) : k \in (wave[g] + 1)..Len(Waves)
    BY <1>1, WaveFacts DEF Entered, TypeInv, Placed
  <2> QED
    BY <1>1, <2>1 DEF FreshInv
<1>2. CASE h # g \/ at'[g] = "idle"
  BY <1>2 DEF FreshInv, Moved
<1> QED
  BY <1>1, <1>2

(* An executor that moves has nothing on its own thread.                     *)
LEMMA InlineMoved ==
  ASSUME InlineInv, NEW g \in Graphs, Moved(g), running'[g] = {}, at'[g] # "node",
         at'[g] = "wave" => unsent'[g] = Waves[wave'[g]],
         \A h \in Graphs \ {g} : run'[h] = run[h] /\ running'[h] = running[h]
  PROVE  InlineInv'
<1> SUFFICES ASSUME NEW h \in Graphs
             PROVE  /\ at'[h] # "node" => running'[h] = {}
                    /\ at'[h] = "node" => \E n \in Waves[wave'[h]] :
                          Waves[wave'[h]] = {n} /\ On(h)' = {<<h, run'[h], n>>}
                    /\ at'[h] = "wave" /\ Cardinality(Waves[wave'[h]]) = 1
                          => unsent'[h] = Waves[wave'[h]]
  BY DEF InlineInv
<1>1. CASE h = g
  BY <1>1
<1>2. CASE h # g
  <2>1. /\ at'[h] = at[h] /\ wave'[h] = wave[h] /\ unsent'[h] = unsent[h] /\ run'[h] = run[h]
        /\ running'[h] = running[h] /\ On(h)' = On(h)
    BY <1>2 DEF Moved, On
  <2> QED
    BY <2>1 DEF InlineInv
<1> QED
  BY <1>1, <1>2

(* Steps that begin nothing, and one that begins a node of the wave.         *)
LEMMA DepsKept ==
  ASSUME DepsInv, Begun' = Begun, done \subseteq done'
  PROVE  DepsInv'
BY DEF DepsInv

LEMMA DepsBegun ==
  ASSUME TypeInv, DepsInv, WavesDone, NEW g \in Graphs, at[g] = "wave", NEW n \in Waves[wave[g]],
         Begun' = Begun \cup {<<g, run[g], n>>}, done' = done
  PROVE  DepsInv'
<1>1. wave[g] \in 1..Len(Waves)
  BY DEF TypeInv, Placed
<1>2. \A m \in Deps[n] : <<g, run[g], m>> \in done
  BY <1>1, WaveAssumption DEF WavesDone
<1> QED
  BY <1>2 DEF DepsInv

(* Each action keeps a node in one place, and begins only what is fresh.     *)
LEMMA OwnStep == TypeInv /\ OwnInv /\ WavesDone /\ [Next]_vars => OwnInv'
<1> SUFFICES ASSUME TypeInv, OwnInv, WavesDone, [Next]_vars PROVE OwnInv'
  OBVIOUS
<1>t. TypeOK /\ Placed /\ OnceInv /\ FreshInv /\ InlineInv /\ DepsInv
  BY DEF TypeInv, OwnInv
<1>b. \A x : x \in Begun <=> x \in Queued \/ x \in Over \/ \E t \in Threads : x \in On(t)
  BY DEF Begun
<1>c. \A x : x \in Begun' <=> x \in Queued' \/ x \in Over' \/ \E t \in Threads : x \in On(t)'
  BY DEF Begun
<1>g. Graphs \subseteq Threads /\ Pool \subseteq Threads /\ Graphs \cap Pool = {}
  BY WaveAssumption DEF Threads
<1>1. ASSUME NEW g \in Graphs, execute_pipelined_graph(g) PROVE OwnInv'
  <2>1. Moved(g) /\ wave'[g] = 1 /\ (at'[g] # "idle" => Entered(g, 1)) /\ at[g] = "idle"
    BY <1>1, WaveFacts, EnterWaveType DEF execute_pipelined_graph
  <2>2. /\ run'[g] = run[g] + 1 /\ run[g] \in Nat /\ run'[g] \in 1..MaxRuns
        /\ \A h \in Graphs \ {g} : run'[h] = run[h]
    BY <1>1, <1>t, WaveAssumption DEF execute_pipelined_graph, TypeOK
  <2>3. OnceInv' /\ DepsInv' /\ Begun' = Begun /\ UNCHANGED running /\ \A t \in Threads : On(t)' = On(t)
    BY <1>1, Quiet DEF execute_pipelined_graph, history
  <2>4. \A n \in Nodes : <<g, run'[g], n>> \notin Begun
    BY <1>t, <2>2 DEF FreshInv
  <2>5. FreshInv'
    <3> SUFFICES ASSUME NEW h \in Graphs
                 PROVE  /\ \A r \in 1..MaxRuns, m \in Nodes : <<h, r, m>> \in Begun' => r <= run'[h]
                        /\ at'[h] # "idle" => \A k \in (wave'[h] + 1)..Len(Waves) : \A m \in Waves[k] :
                                                 <<h, run'[h], m>> \notin Begun'
                        /\ at'[h] = "wave" => \A m \in unsent'[h] : <<h, run'[h], m>> \notin Begun'
      BY DEF FreshInv
    <3>1. CASE h = g
      <4>1. \A r \in 1..MaxRuns, m \in Nodes : <<g, r, m>> \in Begun' => r <= run'[g]
        BY <1>t, <2>2, <2>3 DEF FreshInv
      <4>2. unsent'[g] \subseteq Nodes /\ wave'[g] = 1
        BY <2>1 DEF Moved
      <4>3. \A k \in 2..Len(Waves) : Waves[k] \subseteq Nodes
        BY WaveFacts
      <4> QED
        BY <2>3, <2>4, <3>1, <4>1, <4>2, <4>3
    <3>2. CASE h # g
      BY <1>t, <2>1, <2>2, <2>3, <3>2 DEF FreshInv, Moved
    <3> QED
      BY <3>1, <3>2
  <2>6. InlineInv'
    <3>1. running'[g] = {} /\ at'[g] # "node" /\ (at'[g] = "wave" => unsent'[g] = Waves[wave'[g]])
      BY <1>t, <2>1, <2>3 DEF InlineInv, Entered
    <3> QED
      BY <1>t, <1>g, <2>1, <2>2, <2>3, <3>1, InlineMoved
  <2> QED
    BY <2>3, <2>5, <2>6 DEF OwnInv
<1>2. ASSUME NEW g \in Graphs, RunInline(g) PROVE OwnInv'
  <2>1. wave[g] \in 1..Len(Waves) /\ run[g] \in 1..MaxRuns /\ at[g] = "wave"
    BY <1>2, <1>t DEF RunInline, Placed
  <2>2. PICK n \in Waves[wave[g]] : StartNode(g, g, n, run[g])
    BY <1>2 DEF RunInline
  <2>3. n \in Nodes /\ IsFiniteSet(Waves[wave[g]])
    BY <2>1, WaveFacts
  <2>4. Waves[wave[g]] = {n}
    <3>1. Cardinality(Waves[wave[g]]) = 1
      BY <1>2 DEF RunInline
    <3>2. PICK x : Waves[wave[g]] = {x}
      BY <2>3, <3>1, FS_Singleton
    <3> QED
      BY <3>2
  <2>5. n \in unsent[g] /\ <<g, run[g], n>> \notin Begun
    BY <1>2, <1>t DEF RunInline, InlineInv, FreshInv
  <2>6. /\ On(g)' = {<<g, run[g], n>>} /\ On(g) = {}
        /\ \A u \in Threads \ {g} : running'[u] = running[u] /\ On(u)' = On(u)
    BY <1>g, <1>t, <2>1, <2>2, <2>3, StartMoves DEF InlineInv, On
  <2>7. UNCHANGED <<jobs, done, failed, run, wave, unsent>> /\ at' = [at EXCEPT ![g] = "node"]
    BY <1>2 DEF RunInline, history
  <2>8. Queued' = Queued /\ Over' = Over
    BY <2>7 DEF Queued, Over
  <2>9. Begun' = Begun \cup {<<g, run[g], n>>}
    BY <1>g, <2>6, <2>8 DEF Begun
  <2>10. OnceInv'
    <3>1. /\ <<g, run[g], n>> \notin Queued /\ <<g, run[g], n>> \notin Over
          /\ \A t \in Threads : <<g, run[g], n>> \notin On(t)
      BY <1>b, <2>5
    <3> QED
      BY <1>g, <1>t, <2>6, <2>7, <2>8, <3>1 DEF OnceInv
  <2>11. at \in [Graphs -> {"idle", "wave", "node"}]
    BY <1>t DEF TypeOK
  <2>12. FreshInv'
    BY <1>t, <2>1, <2>7, <2>9, <2>11, FreshBegun
  <2>13. InlineInv'
    BY <1>g, <1>t, <2>4, <2>6, <2>7, <2>11 DEF InlineInv
  <2>14. DepsInv'
    BY <1>t, <2>1, <2>7, <2>9, DepsBegun
  <2> QED
    BY <2>10, <2>12, <2>13, <2>14 DEF OwnInv
<1>3. ASSUME NEW g \in Graphs, EndInline(g) PROVE OwnInv'
  <2>1. wave[g] + 1 \in 1..(Len(Waves) + 1) /\ at[g] = "node"
    BY <1>3, <1>t, WaveFacts DEF EndInline, Placed
  <2>2. running' = [running EXCEPT ![g] = {}] /\ UNCHANGED <<jobs, run>>
    BY <1>3 DEF EndInline
  <2>3. PICK j \in running[g] : Succeeded(j) \/ Failed(j)
    BY <1>3 DEF EndInline
  <2>4. /\ On(g) = {Key(j)} /\ On(g)' = {}
        /\ \A u \in Threads \ {g} : running'[u] = running[u] /\ On(u)' = On(u)
        /\ Over' = Over \cup {Key(j)}
    BY <1>g, <2>2, <2>3, EndMoves
  <2>5. /\ Moved(g)
        /\ at'[g] # "idle" => wave'[g] = wave[g] + 1 /\ Entered(g, wave'[g])
    BY <1>3, <2>1, EnterWaveType, FailType DEF EndInline
  <2>6. Queued' = Queued
    BY <2>2 DEF Queued
  <2>7. OnceInv'
    BY <1>g, <1>t, <2>2, <2>4, <2>6 DEF OnceInv
  <2>8. Begun' = Begun
    <3>1. \A x : x \in Begun' <=> x \in Begun
      BY <1>b, <1>c, <1>g, <2>4, <2>6
    <3> QED
      BY <3>1
  <2>9. FreshInv'
    BY <1>t, <2>1, <2>2, <2>5, <2>8, FreshMoved
  <2>10. InlineInv'
    <3>1. running'[g] = {} /\ at'[g] # "node" /\ (at'[g] = "wave" => unsent'[g] = Waves[wave'[g]])
      BY <1>g, <1>t, <2>2, <2>5 DEF Entered, TypeOK
    <3> QED
      BY <1>t, <1>g, <2>2, <2>4, <2>5, <3>1, InlineMoved
  <2>11. DepsInv'
    BY <1>t, <2>3, <2>8, DepsKept DEF Succeeded, Failed
  <2> QED
    BY <2>7, <2>9, <2>10, <2>11 DEF OwnInv
<1>4. ASSUME NEW g \in Graphs, NEW n \in Nodes, SendJob(g, n) PROVE OwnInv'
  <2> DEFINE j == [graph |-> g, run |-> run[g], node |-> n]
  <2>1. /\ wave[g] \in 1..Len(Waves) /\ run[g] \in 1..MaxRuns /\ at[g] = "wave" /\ n \in unsent[g]
        /\ n \in Waves[wave[g]] /\ Cardinality(Waves[wave[g]]) > 1
    BY <1>4, <1>t DEF SendJob, Placed
  <2>2. j \in QueuedJob /\ jobs \in Seq(QueuedJob) /\ Key(j) = <<g, run[g], n>>
    BY <1>t, <2>1 DEF QueuedJob, TypeOK, Key
  <2>3. /\ UNCHANGED <<running, done, failed, run, wave, at>> /\ jobs' = Append(jobs, j)
        /\ unsent' = [unsent EXCEPT ![g] = @ \ {n}]
    BY <1>4 DEF SendJob, history
  <2>4. <<g, run[g], n>> \notin Begun
    BY <1>t, <2>1 DEF FreshInv
  <2> HIDE DEF j
  <2>5. Queued' = Queued \cup {<<g, run[g], n>>} /\ Distinct(jobs)'
    <3>1. Distinct(jobs) /\ Key(j) \notin Keys(jobs)
      BY <1>t, <2>2, <2>4 DEF OnceInv, Begun, Queued
    <3> QED
      BY <2>2, <2>3, <3>1, KeysAppend DEF Queued
  <2>6. Over' = Over /\ \A t \in Threads : On(t)' = On(t)
    BY <2>3 DEF Over, On
  <2>7. OnceInv'
    <3>1. <<g, run[g], n>> \notin Over /\ \A t \in Threads : <<g, run[g], n>> \notin On(t)
      BY <1>b, <2>4
    <3> QED
      BY <1>t, <2>5, <2>6, <3>1 DEF OnceInv
  <2>8. Begun' = Begun \cup {<<g, run[g], n>>}
    BY <2>5, <2>6 DEF Begun
  <2>9. unsent'[g] = unsent[g] \ {n} /\ \A h \in Graphs \ {g} : unsent'[h] = unsent[h]
    BY <1>t, <2>3 DEF TypeOK
  <2>10. FreshInv'
    BY <1>t, <2>1, <2>3, <2>8, <2>9, FreshBegun
  <2>11. InlineInv'
    BY <1>t, <1>g, <2>1, <2>3, <2>6, <2>9 DEF InlineInv
  <2>12. DepsInv'
    BY <1>t, <2>1, <2>3, <2>8, DepsBegun
  <2> QED
    BY <2>7, <2>10, <2>11, <2>12 DEF OwnInv
<1>5. ASSUME NEW g \in Graphs, Receive(g) PROVE OwnInv'
  <2>1. wave[g] + 1 \in 1..(Len(Waves) + 1) /\ at[g] = "wave"
    BY <1>5, <1>t, WaveFacts DEF Receive, Placed
  <2>2. UNCHANGED <<jobs, running, run, done, failed>>
    BY <1>5 DEF Receive, history
  <2>3. OnceInv' /\ DepsInv' /\ Begun' = Begun /\ \A t \in Threads : On(t)' = On(t)
    BY <2>2, Quiet
  <2>4. CASE UNCHANGED <<at, wave, unsent>>
    BY <1>t, <1>g, <2>2, <2>3, <2>4 DEF OwnInv, FreshInv, InlineInv
  <2>5. CASE EnterWave(g, wave[g] + 1) \/ Fail(g)
    <3>1. /\ Moved(g)
          /\ at'[g] # "idle" => wave'[g] = wave[g] + 1 /\ Entered(g, wave'[g])
      BY <2>1, <2>5, EnterWaveType, FailType
    <3>2. FreshInv'
      BY <1>t, <2>1, <2>2, <2>3, <3>1, FreshMoved
    <3>3. InlineInv'
      <4>1. running'[g] = {} /\ at'[g] # "node" /\ (at'[g] = "wave" => unsent'[g] = Waves[wave'[g]])
        BY <1>t, <2>1, <2>2, <3>1 DEF InlineInv, Entered
      <4> QED
        BY <1>t, <1>g, <2>2, <2>3, <3>1, <4>1, InlineMoved
    <3> QED
      BY <2>3, <3>2, <3>3 DEF OwnInv
  <2> QED
    BY <1>5, <2>4, <2>5 DEF Receive
<1>6. ASSUME NEW w \in Pool, TakeJob(w) PROVE OwnInv'
  <2>1. jobs \in Seq(QueuedJob) /\ jobs # <<>> /\ running[w] = {} /\ jobs' = Tail(jobs)
    BY <1>6, <1>t DEF TakeJob, TypeOK, QueuedJob
  <2> DEFINE j == Head(jobs)
  <2>2. j \in QueuedJob /\ StartNode(w, j.graph, j.node, j.run)
    BY <1>6, <2>1 DEF TakeJob
  <2>3. j.graph \in Graphs /\ j.run \in 1..MaxRuns /\ j.node \in Nodes
    BY <2>2 DEF QueuedJob
  <2>4. /\ Key(j) \in Queued /\ Queued' = Queued \ {Key(j)} /\ Distinct(jobs)'
    BY <1>t, <2>1, KeysTail DEF Queued, OnceInv
  <2>5. UNCHANGED <<done, failed, at, run, wave, unsent>>
    BY <1>6 DEF TakeJob, execVars, history
  <2> HIDE DEF j
  <2>6. /\ On(w)' = {Key(j)} /\ On(w) = {}
        /\ \A u \in Threads \ {w} : running'[u] = running[u] /\ On(u)' = On(u)
    BY <1>g, <2>1, <2>2, <2>3, StartMoves DEF On, Key
  <2>7. Over' = Over
    BY <2>5 DEF Over
  <2>8. OnceInv'
    BY <1>g, <1>t, <2>4, <2>6, <2>7 DEF OnceInv
  <2>9. Begun' = Begun
    <3>1. \A x : x \in Begun' <=> x \in Begun
      BY <1>b, <1>c, <1>g, <2>4, <2>6, <2>7
    <3> QED
      BY <3>1
  <2>10. FreshInv'
    BY <1>t, <2>5, <2>9 DEF FreshInv
  <2>11. InlineInv'
    BY <1>g, <1>t, <2>5, <2>6 DEF InlineInv
  <2>12. DepsInv'
    BY <1>t, <2>5, <2>9, DepsKept
  <2> QED
    BY <2>8, <2>10, <2>11, <2>12 DEF OwnInv
<1>7. ASSUME NEW w \in Pool, EndJob(w) PROVE OwnInv'
  <2>1. running' = [running EXCEPT ![w] = {}] /\ UNCHANGED <<jobs, at, run, wave, unsent>>
    BY <1>7 DEF EndJob, execVars
  <2>2. PICK j \in running[w] : Succeeded(j) \/ Failed(j)
    BY <1>7 DEF EndJob
  <2>3. /\ On(w) = {Key(j)} /\ On(w)' = {}
        /\ \A u \in Threads \ {w} : running'[u] = running[u] /\ On(u)' = On(u)
        /\ Over' = Over \cup {Key(j)}
    BY <1>g, <2>1, <2>2, EndMoves
  <2>4. Queued' = Queued
    BY <2>1 DEF Queued
  <2>5. OnceInv'
    BY <1>g, <1>t, <2>1, <2>3, <2>4 DEF OnceInv
  <2>6. Begun' = Begun
    <3>1. \A x : x \in Begun' <=> x \in Begun
      BY <1>b, <1>c, <1>g, <2>3, <2>4
    <3> QED
      BY <3>1
  <2>7. FreshInv'
    BY <1>t, <2>1, <2>6 DEF FreshInv
  <2>8. InlineInv'
    BY <1>g, <1>t, <2>1, <2>3 DEF InlineInv
  <2>9. DepsInv'
    BY <1>t, <2>2, <2>6, DepsKept DEF Succeeded, Failed
  <2> QED
    BY <2>5, <2>7, <2>8, <2>9 DEF OwnInv
<1>8. ASSUME UNCHANGED vars PROVE OwnInv'
  <2>1. UNCHANGED <<jobs, running, at, run, wave, unsent, done, failed>>
    BY <1>8 DEF vars, execVars, history
  <2>2. OnceInv' /\ DepsInv' /\ Begun' = Begun /\ \A t \in Threads : On(t)' = On(t)
    BY <2>1, Quiet
  <2> QED
    BY <1>t, <1>g, <2>1, <2>2 DEF OwnInv, FreshInv, InlineInv
<1> QED
  BY <1>1, <1>2, <1>3, <1>4, <1>5, <1>6, <1>7, <1>8, Zenon DEF Next, ExecutorStep, WorkerStep
-----------------------------------------------------------------------------
(* What a wave's channel holds, and the nodes whose success has not been     *)
(* received: as many as remain to be received, at most.                      *)
Told(g, i) == <<g, run[g], results[g][i].node>>
Pending(g) == {n \in Waves[wave[g]] :
                 \/ <<g, run[g], n>> \notin done
                 \/ \E i \in 1..Len(results[g]) : results[g][i].node = n}

ChannelOf(g) ==
    /\ \A i \in 1..Len(results[g]) :
          /\ results[g][i].node \in Waves[wave[g]]
          /\ Told(g, i) \in IF results[g][i].ok THEN done ELSE failed
    /\ \A i, k \in 1..Len(results[g]) : i # k => results[g][i].node # results[g][k].node
    /\ Cardinality(Pending(g)) <= remaining[g]

ChannelInv == \A g \in Graphs : at[g] = "wave" => ChannelOf(g)

ProgressInv == WavesDone /\ ChannelInv /\ SuccessMeansComplete

(* A wave that is entered is all before it, and a fresh channel.             *)
LEMMA EnteredChannel ==
  ASSUME NEW g \in Graphs, NEW k \in 1..Len(Waves), Entered(g, k), wave'[g] = k
  PROVE  ChannelOf(g)'
<1>1. results'[g] = <<>> /\ Len(results'[g]) = 0 /\ remaining'[g] = Cardinality(Waves[k])
  BY DEF Entered
<1>2. Pending(g)' \subseteq Waves[k]
  BY DEF Pending
<1>3. Cardinality(Pending(g)') <= remaining'[g]
  BY <1>1, <1>2, WaveFacts, FS_Subset
<1>4. 1..Len(results'[g]) = {}
  BY <1>1
<1> QED
  BY <1>3, <1>4 DEF ChannelOf

(* After the last node of a wave: the next wave, or complete success.        *)
LEMMA NextWave ==
  ASSUME TypeInv, ProgressInv, NEW g \in Graphs, at[g] # "idle", EnterWave(g, wave[g] + 1),
         UNCHANGED <<run, failed>>, done \subseteq done',
         \A n \in Waves[wave[g]] : <<g, run[g], n>> \in done',
         \A h \in Graphs \ {g} : \A n \in Nodes : <<h, run[h], n>> \in done' => <<h, run[h], n>> \in done
  PROVE  ProgressInv'
<1>1. wave[g] \in 1..Len(Waves) /\ wave[g] + 1 \in 1..(Len(Waves) + 1)
  BY WaveFacts DEF TypeInv, Placed
<1>2. /\ Moved(g) /\ wave'[g] = wave[g] + 1
      /\ IF wave[g] + 1 > Len(Waves) THEN at'[g] = "idle" ELSE Entered(g, wave[g] + 1)
  BY <1>1, EnterWaveType
<1>3. \A n \in WavesBefore(wave[g] + 1) : <<g, run[g], n>> \in done'
  BY <1>1, WaveFacts DEF ProgressInv, WavesDone
<1>4. WavesDone'
  BY <1>2, <1>3 DEF ProgressInv, WavesDone, Moved
<1>5. ASSUME NEW h \in Graphs, at'[h] = "wave" PROVE ChannelOf(h)'
  <2>1. CASE h = g
    BY <1>1, <1>2, <1>5, <2>1, EnteredChannel DEF Entered
  <2>2. CASE h # g
    <3>1. /\ at[h] = "wave" /\ wave'[h] = wave[h] /\ results'[h] = results[h]
          /\ remaining'[h] = remaining[h] /\ run'[h] = run[h]
      BY <1>2, <1>5, <2>2 DEF Moved
    <3>2. Waves[wave[h]] \subseteq Nodes
      BY <3>1, WaveFacts DEF TypeInv, Placed
    <3>3. Pending(h)' = Pending(h)
      BY <2>2, <3>1, <3>2 DEF Pending
    <3> QED
      BY <2>2, <3>1, <3>3 DEF ProgressInv, ChannelInv, ChannelOf, Told
  <2> QED
    BY <2>1, <2>2
<1>6. SuccessMeansComplete'
  <2> SUFFICES ASSUME NEW h \in Graphs, at'[h] = "idle", status'[h] = "ok"
               PROVE  \A n \in Nodes : <<h, run'[h], n>> \in done'
    BY DEF SuccessMeansComplete
  <2>1. CASE h = g
    <3>1. wave[g] + 1 = Len(Waves) + 1
      BY <1>1, <1>2, <2>1, WaveFacts DEF Entered
    <3> QED
      BY <1>3, <2>1, <3>1, WaveFacts
  <2>2. CASE h # g
    BY <1>2, <2>2 DEF ProgressInv, SuccessMeansComplete, Moved
  <2> QED
    BY <2>1, <2>2
<1> QED
  BY <1>4, <1>5, <1>6 DEF ProgressInv, ChannelInv

(* An execution that fails promises nothing, and others are not concerned.   *)
LEMMA FailProgress ==
  ASSUME TypeInv, ProgressInv, NEW g \in Graphs, Fail(g), UNCHANGED <<run, done>>,
         failed \subseteq failed'
  PROVE  ProgressInv'
<1>1. Moved(g) /\ at'[g] = "idle" /\ status'[g] = "failed"
  BY FailType
<1>2. ASSUME NEW h \in Graphs, at'[h] = "wave" PROVE ChannelOf(h)'
  <2>1. h # g
    BY <1>1, <1>2
  <2>2. /\ at[h] = "wave" /\ wave'[h] = wave[h] /\ results'[h] = results[h]
        /\ remaining'[h] = remaining[h] /\ run'[h] = run[h]
    BY <1>1, <1>2, <2>1 DEF Moved
  <2>3. Pending(h)' = Pending(h)
    BY <2>2 DEF Pending
  <2> QED
    BY <2>2, <2>3 DEF ProgressInv, ChannelInv, ChannelOf, Told
<1>3. WavesDone' /\ SuccessMeansComplete'
  BY <1>1 DEF ProgressInv, WavesDone, SuccessMeansComplete, Moved
<1> QED
  BY <1>2, <1>3 DEF ProgressInv, ChannelInv

(* Executors whose place, channel and record are untouched.                  *)
LEMMA Unconcerned ==
  ASSUME ProgressInv, UNCHANGED <<run, wave, remaining, results, status, done, failed>>,
         \A g \in Graphs : \/ at'[g] = at[g]
                           \/ at[g] = "wave" /\ at'[g] = "node"
  PROVE  ProgressInv'
<1>1. \A g \in Graphs : Pending(g)' = Pending(g)
  BY DEF Pending
<1>2. ChannelInv'
  BY <1>1 DEF ProgressInv, ChannelInv, ChannelOf, Told
<1>3. WavesDone' /\ SuccessMeansComplete'
  BY DEF ProgressInv, WavesDone, SuccessMeansComplete
<1> QED
  BY <1>2, <1>3 DEF ProgressInv

(* A new execution begins with the first wave and an empty channel.          *)
LEMMA StartProgress ==
  ASSUME TypeInv, ProgressInv, NEW g \in Graphs, execute_pipelined_graph(g)
  PROVE  ProgressInv'
<1>1. Moved(g) /\ wave'[g] = 1 /\ Entered(g, 1)
  BY WaveFacts, EnterWaveType DEF execute_pipelined_graph
<1>2. UNCHANGED <<done, failed>> /\ \A h \in Graphs \ {g} : run'[h] = run[h]
  BY DEF execute_pipelined_graph, history, TypeInv, TypeOK
<1>3. WavesDone'
  BY <1>1, <1>2, WaveFacts DEF ProgressInv, WavesDone, Moved
<1>4. ASSUME NEW h \in Graphs, at'[h] = "wave" PROVE ChannelOf(h)'
  <2>1. CASE h = g
    BY <1>1, <2>1, WaveFacts, EnteredChannel
  <2>2. CASE h # g
    <3>1. /\ at[h] = "wave" /\ wave'[h] = wave[h] /\ results'[h] = results[h]
          /\ remaining'[h] = remaining[h] /\ run'[h] = run[h]
      BY <1>1, <1>2, <1>4, <2>2 DEF Moved
    <3>2. Pending(h)' = Pending(h)
      BY <1>2, <3>1 DEF Pending
    <3> QED
      BY <1>2, <3>1, <3>2 DEF ProgressInv, ChannelInv, ChannelOf, Told
  <2> QED
    BY <2>1, <2>2
<1>5. SuccessMeansComplete'
  BY <1>1, <1>2 DEF ProgressInv, SuccessMeansComplete, Moved, Entered
<1> QED
  BY <1>3, <1>4, <1>5 DEF ProgressInv, ChannelInv

(* A result is received once: what it reports is no longer pending.          *)
LEMMA HeadPending ==
  ASSUME TypeInv, NEW g \in Graphs, at[g] = "wave", ChannelOf(g), results[g] # <<>>,
         Head(results[g]).ok
  PROVE  /\ IsFiniteSet(Pending(g)) /\ Cardinality(Pending(g)) \in Nat
         /\ Head(results[g]).node \in Pending(g)
         /\ <<g, run[g], Head(results[g]).node>> \in done
<1>1. results[g] \in Seq(Message) /\ wave[g] \in 1..Len(Waves)
  BY DEF TypeInv, TypeOK, Placed, Message
<1>2. Head(results[g]) = results[g][1] /\ 1 \in 1..Len(results[g])
  BY <1>1
<1>3. IsFiniteSet(Pending(g)) /\ Cardinality(Pending(g)) \in Nat
  <2>1. Pending(g) \subseteq Waves[wave[g]]
    BY DEF Pending
  <2> QED
    BY <1>1, <2>1, WaveFacts, FS_Subset, FS_CardinalityType
<1> QED
  BY <1>2, <1>3 DEF ChannelOf, Pending, Told

(* The wave goes on, is complete, or has failed.                             *)
LEMMA ReceiveProgress ==
  ASSUME TypeInv, ProgressInv, NEW g \in Graphs, Receive(g)
  PROVE  ProgressInv'
<1> DEFINE n == Head(results[g]).node
<1>1. /\ at[g] = "wave" /\ results[g] # <<>> /\ ChannelOf(g)
      /\ UNCHANGED <<run, done, failed>>
      /\ results \in [Graphs -> Seq(Message)] /\ remaining \in [Graphs -> Nat]
  BY DEF Receive, history, ProgressInv, ChannelInv, TypeInv, TypeOK, Message
<1>2. CASE /\ Head(results[g]).ok
           /\ remaining' = [remaining EXCEPT ![g] = @ - 1]
           /\ results' = [results EXCEPT ![g] = Tail(@)]
           /\ UNCHANGED <<at, wave, unsent, status>>
  <2>1. /\ IsFiniteSet(Pending(g)) /\ Cardinality(Pending(g)) \in Nat
        /\ n \in Pending(g) /\ <<g, run[g], n>> \in done
    BY <1>1, <1>2, HeadPending
  <2>2. results'[g] = Tail(results[g]) /\ remaining'[g] = remaining[g] - 1 /\ remaining[g] \in Nat
    BY <1>1, <1>2
  <2>3. /\ n = results[g][1].node /\ 1 \in 1..Len(results[g])
        /\ \A i \in 1..Len(results'[g]) : /\ results'[g][i] = results[g][i + 1]
                                          /\ i + 1 \in 1..Len(results[g]) /\ i + 1 # 1
    BY <1>1, <2>2
  <2> HIDE DEF n
  <2>4. Pending(g)' \subseteq Pending(g) \ {n}
    <3> SUFFICES ASSUME NEW x \in Pending(g)' PROVE x \in Pending(g) /\ x # n
      OBVIOUS
    <3>1. x \in Waves[wave[g]] /\ (<<g, run[g], x>> \notin done
             \/ \E i \in 1..Len(results'[g]) : results'[g][i].node = x)
      BY <1>1, <1>2 DEF Pending
    <3>2. CASE <<g, run[g], x>> \notin done
      BY <2>1, <3>1, <3>2 DEF Pending
    <3>3. CASE \E i \in 1..Len(results'[g]) : results'[g][i].node = x
      <4>1. PICK i \in 1..Len(results'[g]) : results'[g][i].node = x
        BY <3>3
      <4>2. i + 1 \in 1..Len(results[g]) /\ i + 1 # 1 /\ results[g][i + 1].node = x
        BY <2>3, <4>1
      <4>3. \A a, b \in 1..Len(results[g]) : a # b => results[g][a].node # results[g][b].node
        BY <1>1 DEF ChannelOf
      <4>4. x # n
        BY <2>3, <4>2, <4>3
      <4> QED
        BY <3>1, <4>2, <4>4 DEF Pending
    <3> QED
      BY <3>1, <3>2, <3>3
  <2>5. Cardinality(Pending(g)') <= remaining'[g]
    <3>1. IsFiniteSet(Pending(g) \ {n}) /\ Cardinality(Pending(g) \ {n}) = Cardinality(Pending(g)) - 1
      BY <2>1, FS_RemoveElement
    <3>2. IsFiniteSet(Pending(g)') /\ Cardinality(Pending(g)') <= Cardinality(Pending(g) \ {n})
      BY <2>4, <3>1, FS_Subset
    <3>3. Cardinality(Pending(g)') \in Nat
      BY <3>2, FS_CardinalityType
    <3>4. Cardinality(Pending(g)) <= remaining[g]
      BY <1>1 DEF ChannelOf
    <3> QED
      BY <2>1, <2>2, <3>1, <3>2, <3>3, <3>4
  <2>6. \A i \in 1..Len(results'[g]) :
           /\ results'[g][i].node \in Waves[wave'[g]]
           /\ Told(g, i)' \in IF results'[g][i].ok THEN done' ELSE failed'
    BY <1>1, <1>2, <2>3 DEF ChannelOf, Told
  <2>7. \A i, k \in 1..Len(results'[g]) : i # k => results'[g][i].node # results'[g][k].node
    <3> SUFFICES ASSUME NEW i \in 1..Len(results'[g]), NEW k \in 1..Len(results'[g]), i # k
                 PROVE  results'[g][i].node # results'[g][k].node
      OBVIOUS
    <3>1. i + 1 # k + 1 /\ i + 1 \in 1..Len(results[g]) /\ k + 1 \in 1..Len(results[g])
      BY <2>3
    <3>2. \A a, b \in 1..Len(results[g]) : a # b => results[g][a].node # results[g][b].node
      BY <1>1 DEF ChannelOf
    <3>3. results[g][i + 1].node # results[g][k + 1].node
      BY <3>1, <3>2
    <3> QED
      BY <2>3, <3>3
  <2>8. ASSUME NEW h \in Graphs, at'[h] = "wave" PROVE ChannelOf(h)'
    <3>1. CASE h = g
      BY <2>5, <2>6, <2>7, <3>1 DEF ChannelOf
    <3>2. CASE h # g
      <4>1. /\ at[h] = "wave" /\ wave'[h] = wave[h] /\ results'[h] = results[h]
            /\ remaining'[h] = remaining[h] /\ run'[h] = run[h]
        BY <1>1, <1>2, <2>8, <3>2
      <4>2. Pending(h)' = Pending(h)
        BY <1>1, <4>1 DEF Pending
      <4> QED
        BY <1>1, <4>1, <4>2 DEF ProgressInv, ChannelInv, ChannelOf, Told
    <3> QED
      BY <3>1, <3>2
  <2>9. WavesDone' /\ SuccessMeansComplete'
    BY <1>1, <1>2 DEF ProgressInv, WavesDone, SuccessMeansComplete
  <2> QED
    BY <2>8, <2>9 DEF ProgressInv, ChannelInv
<1>3. CASE Head(results[g]).ok /\ remaining[g] = 1 /\ EnterWave(g, wave[g] + 1)
  <2>1. /\ IsFiniteSet(Pending(g)) /\ Cardinality(Pending(g)) \in Nat
        /\ n \in Pending(g) /\ <<g, run[g], n>> \in done
    BY <1>1, <1>3, HeadPending
  <2> HIDE DEF n
  <2>2. Pending(g) \ {n} = {}
    <3>1. IsFiniteSet(Pending(g) \ {n}) /\ Cardinality(Pending(g) \ {n}) = Cardinality(Pending(g)) - 1
      BY <2>1, FS_RemoveElement
    <3>2. Cardinality(Pending(g)) <= 1
      BY <1>1, <1>3 DEF ChannelOf
    <3>3. Cardinality(Pending(g) \ {n}) \in Nat
      BY <3>1, FS_CardinalityType
    <3>4. Cardinality(Pending(g) \ {n}) = 0
      BY <2>1, <3>1, <3>2, <3>3
    <3> QED
      BY <3>1, <3>4, FS_EmptySet
  <2>3. \A x \in Waves[wave[g]] : <<g, run[g], x>> \in done
    <3> SUFFICES ASSUME NEW x \in Waves[wave[g]], <<g, run[g], x>> \notin done PROVE FALSE
      OBVIOUS
    <3>1. x \in Pending(g)
      BY DEF Pending
    <3>2. x = n
      BY <2>2, <3>1
    <3> QED
      BY <2>1, <3>2
  <2> QED
    BY <1>1, <1>3, <2>3, NextWave
<1>4. CASE Fail(g)
  BY <1>1, <1>4, FailProgress
<1> QED
  BY <1>2, <1>3, <1>4 DEF Receive

(* A result is reported once, on the channel of the wave it belongs to, or   *)
(* dropped; either way it makes nothing pending.                             *)
LEMMA EndJobProgress ==
  ASSUME TypeInv, OwnInv, ProgressInv, NEW w \in Pool, EndJob(w)
  PROVE  ProgressInv'
<1>1. PICK j \in running[w], ok \in BOOLEAN :
         (IF ok THEN Succeeded(j) ELSE Failed(j)) /\ Report(j, ok)
  BY DEF EndJob
<1>2. /\ running' = [running EXCEPT ![w] = {}] /\ w \in Threads
      /\ UNCHANGED <<at, run, wave, remaining, status>>
      /\ results \in [Graphs -> Seq(Message)]
  BY DEF EndJob, execVars, Threads, TypeInv, TypeOK, Message
<1>3. On(w) = {Key(j)} /\ j.graph \in Graphs /\ j.run \in 1..MaxRuns /\ j.node \in Nodes
  BY <1>1, <1>2, EndMoves
<1>4. Key(j) \notin done /\ Key(j) \notin failed
  BY <1>2, <1>3 DEF OwnInv, OnceInv, Over
<1>5. /\ done' = IF ok THEN done \cup {Key(j)} ELSE done
      /\ failed' = IF ok THEN failed ELSE failed \cup {Key(j)}
  BY <1>1 DEF Succeeded, Failed, Key
<1>6. WavesDone' /\ SuccessMeansComplete'
  BY <1>2, <1>5 DEF ProgressInv, WavesDone, SuccessMeansComplete
<1>7. ASSUME NEW h \in Graphs, at'[h] = "wave" PROVE ChannelOf(h)'
  <2>1. at[h] = "wave" /\ ChannelOf(h) /\ wave[h] \in 1..Len(Waves)
    BY <1>2, <1>7 DEF ProgressInv, ChannelInv, TypeInv, Placed
  <2>2. CASE Heard(j) /\ h = j.graph
    <3> DEFINE m == [node |-> j.node, ok |-> ok]
               q == results[h]
    <3>1. /\ results'[h] = Append(q, m) /\ q \in Seq(Message) /\ run[h] = j.run
          /\ j.node \in Waves[wave[h]] /\ Key(j) = <<h, run[h], j.node>>
      BY <1>1, <1>2, <2>2 DEF Report, Tell, Heard, Key
    <3>2. m.node = j.node /\ m.ok = ok
      OBVIOUS
    <3> HIDE DEF m
    <3>3. /\ Len(q) \in Nat /\ Len(results'[h]) = Len(q) + 1 /\ results'[h][Len(q) + 1] = m
          /\ \A i \in 1..Len(q) : results'[h][i] = q[i]
          /\ \A i \in 1..(Len(q) + 1) : i \in 1..Len(q) \/ i = Len(q) + 1
      <4>1. m \in Message
        BY <1>3 DEF m, Message
      <4> QED
        BY <3>1, <4>1
    <3>4. \A i \in 1..Len(q) : q[i].node # j.node
      BY <1>4, <2>1, <3>1 DEF ChannelOf, Told
    <3>5. Pending(h)' \subseteq Pending(h)
      <4> SUFFICES ASSUME NEW x \in Pending(h)' PROVE x \in Pending(h)
        OBVIOUS
      <4>1. x \in Waves[wave[h]] /\ (<<h, run[h], x>> \notin done'
               \/ \E i \in 1..Len(results'[h]) : results'[h][i].node = x)
        BY <1>2 DEF Pending
      <4>2. CASE <<h, run[h], x>> \notin done'
        BY <1>5, <4>1, <4>2 DEF Pending
      <4>3. CASE \E i \in 1..Len(q) : q[i].node = x
        BY <4>1, <4>3 DEF Pending
      <4>4. CASE x = j.node
        BY <1>4, <3>1, <4>1, <4>4 DEF Pending
      <4> QED
        BY <3>2, <3>3, <4>1, <4>2, <4>3, <4>4
    <3>6. Cardinality(Pending(h)') <= remaining'[h]
      <4>1. IsFiniteSet(Pending(h))
        <5>1. Pending(h) \subseteq Waves[wave[h]]
          BY DEF Pending
        <5> QED
          BY <2>1, <5>1, WaveFacts, FS_Subset
      <4>2. IsFiniteSet(Pending(h)') /\ Cardinality(Pending(h)') <= Cardinality(Pending(h))
        BY <3>5, <4>1, FS_Subset
      <4>3. Cardinality(Pending(h)) \in Nat /\ Cardinality(Pending(h)') \in Nat
        BY <4>1, <4>2, FS_CardinalityType
      <4>4. Cardinality(Pending(h)) <= remaining[h] /\ remaining'[h] = remaining[h] /\ remaining[h] \in Nat
        BY <1>2, <2>1 DEF ChannelOf, TypeInv, TypeOK
      <4> QED
        BY <4>2, <4>3, <4>4
    <3>7. ASSUME NEW i \in 1..Len(results'[h])
          PROVE  /\ results'[h][i].node \in Waves[wave'[h]]
                 /\ Told(h, i)' \in IF results'[h][i].ok THEN done' ELSE failed'
      <4>1. CASE i \in 1..Len(q)
        BY <1>2, <1>5, <2>1, <3>3, <4>1 DEF ChannelOf, Told
      <4>2. CASE i = Len(q) + 1
        BY <1>2, <1>5, <3>1, <3>2, <3>3, <4>2 DEF Told
      <4> QED
        BY <3>3, <4>1, <4>2
    <3>8. \A i, k \in 1..Len(results'[h]) : i # k => results'[h][i].node # results'[h][k].node
      <4> SUFFICES ASSUME NEW i \in 1..Len(results'[h]), NEW k \in 1..Len(results'[h]), i # k
                   PROVE  results'[h][i].node # results'[h][k].node
        OBVIOUS
      <4>1. /\ i \in 1..Len(q) \/ i = Len(q) + 1
            /\ k \in 1..Len(q) \/ k = Len(q) + 1
        BY ONLY <3>3
      <4>2. CASE i \in 1..Len(q) /\ k \in 1..Len(q)
        <5>1. results[h][i].node # results[h][k].node
          BY <2>1, <4>2 DEF ChannelOf
        <5>2. results'[h][i] = results[h][i] /\ results'[h][k] = results[h][k]
          BY <3>3, <4>2
        <5> QED
          BY <5>1, <5>2
      <4>3. CASE i \in 1..Len(q) /\ k = Len(q) + 1
        BY <3>2, <3>3, <3>4, <4>3
      <4>4. CASE i = Len(q) + 1 /\ k \in 1..Len(q)
        BY <3>2, <3>3, <3>4, <4>4
      <4> QED
        BY <4>1, <4>2, <4>3, <4>4
    <3> QED
      BY <3>6, <3>7, <3>8 DEF ChannelOf
  <2>3. CASE ~(Heard(j) /\ h = j.graph)
    <3>1. results'[h] = results[h]
      BY <1>1, <1>2, <2>3 DEF Report, Tell
    <3>2. \A x \in Waves[wave[h]] : <<h, run[h], x>> # Key(j)
      BY <2>1, <2>3 DEF Heard, Key
    <3>3. Pending(h)' = Pending(h)
      BY <1>2, <1>5, <3>1, <3>2 DEF Pending
    <3> QED
      BY <1>2, <1>5, <2>1, <3>1, <3>3 DEF ChannelOf, Told
  <2> QED
    BY <2>2, <2>3
<1> QED
  BY <1>6, <1>7 DEF ProgressInv, ChannelInv

(* The only node of a wave ends on the executor's thread.                    *)
LEMMA EndInlineProgress ==
  ASSUME TypeInv, OwnInv, ProgressInv, NEW g \in Graphs, EndInline(g)
  PROVE  ProgressInv'
<1>1. at[g] = "node" /\ running' = [running EXCEPT ![g] = {}] /\ UNCHANGED run /\ g \in Threads
  BY DEF EndInline, Threads
<1>2. PICK j \in running[g] : \/ Succeeded(j) /\ EnterWave(g, wave[g] + 1)
                              \/ Failed(j) /\ Fail(g)
  BY DEF EndInline
<1>3. On(g) = {Key(j)}
  BY <1>1, <1>2, EndMoves
<1>4. PICK n \in Waves[wave[g]] : Waves[wave[g]] = {n} /\ Key(j) = <<g, run[g], n>>
  BY <1>1, <1>3 DEF OwnInv, InlineInv
<1>5. CASE Succeeded(j) /\ EnterWave(g, wave[g] + 1)
  <2>1. done' = done \cup {<<g, run[g], n>>} /\ UNCHANGED failed
    BY <1>4, <1>5 DEF Succeeded, Key
  <2> QED
    BY <1>1, <1>4, <1>5, <2>1, NextWave
<1>6. CASE Failed(j) /\ Fail(g)
  <2>1. UNCHANGED done /\ failed \subseteq failed'
    BY <1>6 DEF Failed
  <2> QED
    BY <1>1, <1>6, <2>1, FailProgress
<1> QED
  BY <1>2, <1>5, <1>6

(* Each action keeps the waves in order and the channels honest.             *)
LEMMA ProgressStep == TypeInv /\ OwnInv /\ ProgressInv /\ [Next]_vars => ProgressInv'
<1> SUFFICES ASSUME TypeInv, OwnInv, ProgressInv, [Next]_vars PROVE ProgressInv'
  OBVIOUS
<1>1. ASSUME NEW g \in Graphs, RunInline(g) PROVE ProgressInv'
  <2>1. /\ UNCHANGED <<run, wave, remaining, results, status, done, failed>>
        /\ \A h \in Graphs : at'[h] = at[h] \/ (at[h] = "wave" /\ at'[h] = "node")
    BY <1>1 DEF RunInline, history, TypeInv, TypeOK
  <2> QED
    BY <2>1, Unconcerned
<1>2. ASSUME NEW g \in Graphs, NEW n \in Nodes, SendJob(g, n) PROVE ProgressInv'
  BY <1>2, Unconcerned DEF SendJob, history
<1>3. ASSUME NEW w \in Pool, TakeJob(w) PROVE ProgressInv'
  BY <1>3, Unconcerned DEF TakeJob, execVars, history
<1>4. ASSUME UNCHANGED vars PROVE ProgressInv'
  BY <1>4, Unconcerned DEF vars, execVars, history
<1> QED
  BY <1>1, <1>2, <1>3, <1>4, StartProgress, EndInlineProgress, ReceiveProgress, EndJobProgress, Zenon
     DEF Next, ExecutorStep, WorkerStep

LEMMA ProgressInit == Init => ProgressInv
BY DEF Init, ProgressInv, WavesDone, ChannelInv, SuccessMeansComplete

WaveInv == TypeInv /\ OwnInv /\ ProgressInv

(* The inductive invariant holds: a node is in one place at a time, an       *)
(* executor's wave has not begun before, and a channel holds the results of  *)
(* its wave and of no other.                                                 *)
THEOREM WaveInvariant == Spec => []WaveInv
<1>1. Init => WaveInv
  BY TypeInit, OwnInit, ProgressInit DEF WaveInv
<1>2. WaveInv /\ [Next]_vars => WaveInv'
  BY TypeStep, OwnStep, ProgressStep DEF WaveInv, ProgressInv
<1> QED
  BY <1>1, <1>2, PTL DEF Spec

(* A node starts only when all it depends on has succeeded in the same       *)
(* execution, for any dependencies and any waves that respect them.          *)
THEOREM RunsAfterDependencies == Spec => []DependenciesFirst
<1>1. WaveInv => DependenciesFirst
  <2> SUFFICES ASSUME WaveInv, NEW t \in Threads, NEW j \in running[t], NEW n \in Deps[j.node]
               PROVE  <<j.graph, j.run, n>> \in done
    BY DEF DependenciesFirst, Executing
  <2>1. j.graph \in Graphs /\ j.run \in 1..MaxRuns /\ j.node \in Nodes
    BY DEF WaveInv, TypeInv, TypeOK, Job
  <2>2. Key(j) \in Begun
    BY DEF Begun, On
  <2> QED
    BY <2>1, <2>2 DEF WaveInv, OwnInv, DepsInv, Key
<1> QED
  BY <1>1, WaveInvariant, PTL

(* When execute_pipelined_graph returns success, every node of the graph has *)
(* succeeded in that execution: no result was counted for another node's,    *)
(* another wave's or an earlier execution's.                                 *)
THEOREM SuccessIsComplete == Spec => []SuccessMeansComplete
<1>1. WaveInv => SuccessMeansComplete
  BY DEF WaveInv, ProgressInv
<1> QED
  BY <1>1, WaveInvariant, PTL
-----------------------------------------------------------------------------
(* What the dataflow sees of a graph.                                        *)
Started(g) == InRun(done, g) \cup InRun(failed, g) \cup Current(g)

(* An execution that has returned has run every node, or a node has failed.  *)
Returned == \A g \in Graphs : at[g] = "idle" =>
   run[g] = 0 \/ status[g] = "ok" \/ (\E n \in Nodes : <<g, run[g], n>> \in failed)

(* An executor returns after success or with a node that failed.             *)
LEMMA ReturnedStep == WaveInv /\ Returned /\ [Next]_vars => Returned'
<1> SUFFICES ASSUME WaveInv, Returned, [Next]_vars PROVE Returned'
  OBVIOUS
<1>t. TypeInv /\ TypeOK /\ Placed /\ OwnInv /\ InlineInv /\ ProgressInv
  BY DEF WaveInv, TypeInv, OwnInv
<1>k. ASSUME NEW g \in Graphs, run' = run, failed \subseteq failed', Moved(g),
             at'[g] = "idle" => status'[g] = "ok" \/ (\E n \in Nodes : <<g, run[g], n>> \in failed')
      PROVE  Returned'
  BY <1>k DEF Returned, Moved
<1>s. ASSUME UNCHANGED <<run, status>>, failed \subseteq failed',
             \A g \in Graphs : at'[g] = "idle" => at[g] = "idle"
      PROVE  Returned'
  BY <1>s DEF Returned
<1>e. ASSUME NEW g \in Graphs, at[g] # "idle", EnterWave(g, wave[g] + 1),
             UNCHANGED <<run, failed>>
      PROVE  Returned'
  <2>1. wave[g] + 1 \in 1..(Len(Waves) + 1)
    BY <1>t, <1>e, WaveFacts DEF Placed
  <2>2. /\ Moved(g)
        /\ IF wave[g] + 1 > Len(Waves) THEN at'[g] = "idle" ELSE Entered(g, wave[g] + 1)
    BY <1>t, <1>e, <2>1, EnterWaveType
  <2>3. at'[g] = "idle" => status'[g] = "ok"
    BY <1>t, <1>e, <2>2 DEF EnterWave, Entered, TypeOK
  <2> QED
    BY <1>k, <1>e, <2>2, <2>3
<1>1. ASSUME NEW g \in Graphs, execute_pipelined_graph(g) PROVE Returned'
  <2>1. Moved(g) /\ Entered(g, 1)
    BY <1>1, <1>t, WaveFacts, EnterWaveType DEF execute_pipelined_graph
  <2>2. UNCHANGED failed /\ \A h \in Graphs \ {g} : run'[h] = run[h]
    BY <1>1, <1>t DEF execute_pipelined_graph, history, TypeOK
  <2> QED
    BY <2>1, <2>2 DEF Returned, Moved, Entered
<1>2. ASSUME NEW g \in Graphs, RunInline(g) PROVE Returned'
  BY <1>2, <1>s, <1>t DEF RunInline, history, TypeOK
<1>3. ASSUME NEW g \in Graphs, EndInline(g) PROVE Returned'
  <2>1. at[g] = "node" /\ UNCHANGED run
    BY <1>3 DEF EndInline
  <2>2. CASE (\E j \in running[g] : Succeeded(j)) /\ EnterWave(g, wave[g] + 1)
    BY <1>e, <2>1, <2>2 DEF Succeeded
  <2>3. CASE (\E j \in running[g] : Failed(j)) /\ Fail(g)
    <3>1. PICK j \in running[g] : Failed(j)
      BY <2>3
    <3>2. PICK n \in Waves[wave[g]] : On(g) = {<<g, run[g], n>>}
      BY <1>t, <2>1 DEF InlineInv
    <3>3. Key(j) = <<g, run[g], n>>
      BY <3>1, <3>2 DEF On
    <3>4. n \in Nodes
      BY <1>t, <2>1, WaveFacts DEF Placed
    <3>5. failed' = failed \cup {<<g, run[g], n>>}
      BY <3>1, <3>3 DEF Failed, Key
    <3> QED
      BY <1>k, <1>t, <2>1, <2>3, <3>4, <3>5, FailType
  <2> QED
    BY <1>3, <2>2, <2>3 DEF EndInline
<1>4. ASSUME NEW g \in Graphs, NEW n \in Nodes, SendJob(g, n) PROVE Returned'
  BY <1>4, <1>s DEF SendJob, history
<1>5. ASSUME NEW g \in Graphs, Receive(g) PROVE Returned'
  <2>1. /\ at[g] = "wave" /\ results[g] # <<>> /\ UNCHANGED <<run, failed>>
        /\ results[g] \in Seq(Message) /\ ChannelOf(g)
    BY <1>5, <1>t DEF Receive, history, ProgressInv, ChannelInv, TypeOK, Message
  <2>2. CASE UNCHANGED <<at, status>>
    BY <1>s, <2>1, <2>2
  <2>3. CASE EnterWave(g, wave[g] + 1)
    BY <1>e, <2>1, <2>3
  <2>4. CASE ~Head(results[g]).ok /\ Fail(g)
    <3>1. Head(results[g]) = results[g][1] /\ 1 \in 1..Len(results[g]) /\ Head(results[g]) \in Message
      BY <2>1
    <3>2. <<g, run[g], results[g][1].node>> \in failed /\ results[g][1].node \in Nodes
      BY <2>1, <2>4, <3>1 DEF ChannelOf, Told, Message
    <3> QED
      BY <1>k, <1>t, <2>1, <2>4, <3>2, FailType
  <2> QED
    BY <1>5, <2>2, <2>3, <2>4 DEF Receive
<1>6. ASSUME NEW w \in Pool, TakeJob(w) PROVE Returned'
  BY <1>6, <1>s DEF TakeJob, execVars, history
<1>7. ASSUME NEW w \in Pool, EndJob(w) PROVE Returned'
  BY <1>7, <1>s DEF EndJob, execVars, Succeeded, Failed
<1>8. ASSUME UNCHANGED vars PROVE Returned'
  BY <1>8, <1>s DEF vars, execVars, history
<1> QED
  BY <1>1, <1>2, <1>3, <1>4, <1>5, <1>6, <1>7, <1>8, Zenon DEF Next, ExecutorStep, WorkerStep

(* The steps of the dataflow, by what they change of one graph.              *)
Same(h) == /\ Started(h)' = Started(h) /\ InRun(done, h)' = InRun(done, h)
           /\ InRun(failed, h)' = InRun(failed, h)

LEMMA FlowKept ==
  ASSUME \A h \in Graphs : Same(h)
  PROVE  UNCHANGED Flow!vars
BY DEF Same, Started, Flow!vars

LEMMA FlowStart ==
  ASSUME NEW g \in Graphs, NEW n \in Nodes, n \notin Started(g), Deps[n] \subseteq InRun(done, g),
         Started(g)' = Started(g) \cup {n}, InRun(done, g)' = InRun(done, g),
         InRun(failed, g)' = InRun(failed, g), \A h \in Graphs \ {g} : Same(h)
  PROVE  Flow!Next
<1>1. Flow!Start(g, n)
  BY DEF Same, Started, Flow!Start
<1> QED
  BY <1>1 DEF Flow!Next

LEMMA FlowFinish ==
  ASSUME NEW g \in Graphs, NEW n \in Nodes, n \in Started(g), n \notin InRun(done, g),
         n \notin InRun(failed, g), Started(g)' = Started(g),
         \/ /\ InRun(done, g)' = InRun(done, g) \cup {n}
            /\ InRun(failed, g)' = InRun(failed, g)
         \/ /\ InRun(failed, g)' = InRun(failed, g) \cup {n}
            /\ InRun(done, g)' = InRun(done, g),
         \A h \in Graphs \ {g} : Same(h)
  PROVE  Flow!Next
BY DEF Same, Started, Flow!Next, Flow!Finish

LEMMA FlowNext ==
  ASSUME NEW g \in Graphs, InRun(done, g) = Nodes \/ InRun(failed, g) # {},
         Started(g)' = {}, InRun(done, g)' = {}, InRun(failed, g)' = {},
         \A h \in Graphs \ {g} : Same(h)
  PROVE  Flow!Next
BY DEF Same, Started, Flow!Next, Flow!NextExecution

(* Each step is one of the dataflow, or changes nothing it sees.             *)
LEMMA FlowStep == WaveInv /\ WaveInv' /\ Returned /\ [Next]_vars => [Flow!Next]_(Flow!vars)
<1> SUFFICES ASSUME WaveInv, WaveInv', Returned, [Next]_vars PROVE Flow!Next \/ UNCHANGED Flow!vars
  OBVIOUS
<1>t. TypeInv /\ TypeOK /\ Placed /\ OnceInv /\ FreshInv /\ InlineInv /\ DepsInv'
  BY DEF WaveInv, TypeInv, OwnInv
<1>a. \A g \in Graphs, n \in Nodes :
         n \in Started(g) <=> \/ <<g, run[g], n>> \in Over
                              \/ \E t \in Threads : <<g, run[g], n>> \in On(t)
  BY DEF Started, InRun, Current, Executing, On, Over, Key
<1>b. \A g \in Graphs, n \in Nodes :
         n \in Started(g)' <=> \/ <<g, run'[g], n>> \in Over'
                               \/ \E t \in Threads : <<g, run'[g], n>> \in On(t)'
  BY DEF Started, InRun, Current, Executing, On, Over, Key
<1>c. \A g : Started(g) \subseteq Nodes /\ Started(g)' \subseteq Nodes
  BY DEF Started, InRun, Current
<1>k. ASSUME UNCHANGED <<running, run, done, failed>>
      PROVE  UNCHANGED Flow!vars
  <2>1. \A h \in Graphs : Same(h)
    BY <1>k DEF Same, Started, InRun, Current, Executing
  <2> QED
    BY <2>1, FlowKept
<1>s. ASSUME NEW t \in Threads, NEW g \in Graphs, NEW n \in Nodes, NEW r \in 1..MaxRuns,
             StartNode(t, g, n, r), On(t) = {}, UNCHANGED <<run, done, failed>>,
             <<g, r, n>> \notin Over, \A u \in Threads : <<g, r, n>> \notin On(u)
      PROVE  Flow!Next \/ UNCHANGED Flow!vars
  <2>1. On(t)' = {<<g, r, n>>} /\ \A u \in Threads \ {t} : On(u)' = On(u)
    BY <1>s, <1>t, StartMoves
  <2>2. /\ Over' = Over
        /\ \A h \in Graphs : InRun(done, h)' = InRun(done, h) /\ InRun(failed, h)' = InRun(failed, h)
    BY <1>s DEF Over, InRun
  <2>3. \A h \in Graphs, m \in Nodes :
           m \in Started(h)' <=> m \in Started(h) \/ <<h, run[h], m>> = <<g, r, n>>
    <3> SUFFICES ASSUME NEW h \in Graphs, NEW m \in Nodes
                 PROVE  m \in Started(h)' <=> (m \in Started(h) \/ <<h, run[h], m>> = <<g, r, n>>)
      OBVIOUS
    <3> DEFINE x == <<h, run[h], m>>
               y == <<g, r, n>>
    <3>1. m \in Started(h) <=> (x \in Over \/ (\E u \in Threads : x \in On(u)))
      BY <1>a
    <3>2. m \in Started(h)' <=> (x \in Over' \/ (\E u \in Threads : x \in On(u)'))
      BY <1>b, <1>s
    <3>3. On(t)' = {y} /\ On(t) = {}
      BY <1>s, <2>1
    <3> HIDE DEF x, y
    <3>4. (\E u \in Threads : x \in On(u)') <=> (x = y \/ (\E u \in Threads : x \in On(u)))
      BY <2>1, <3>3
    <3>5. m \in Started(h)' <=> (m \in Started(h) \/ x = y)
      BY <2>2, <3>1, <3>2, <3>4
    <3> QED
      BY <3>5 DEF x, y
  <2>4. CASE r = run[g]
    <3>1. n \notin Started(g)
      BY <1>a, <1>s, <2>4
    <3>2. <<g, r, n>> \in Begun'
      BY <2>1 DEF Begun
    <3>3. Deps[n] \subseteq InRun(done, g)
      BY <1>s, <1>t, <2>4, <3>2, WaveAssumption DEF DepsInv, InRun
    <3>4. Started(g)' = Started(g) \cup {n}
      BY <1>c, <2>3, <2>4
    <3>5. \A h \in Graphs \ {g} : Same(h)
      BY <1>c, <2>2, <2>3 DEF Same
    <3> QED
      BY <2>2, <3>1, <3>3, <3>4, <3>5, FlowStart
  <2>5. CASE r # run[g]
    <3>1. \A h \in Graphs : Same(h)
      BY <1>c, <2>2, <2>3, <2>5 DEF Same
    <3> QED
      BY <3>1, FlowKept
  <2> QED
    BY <2>4, <2>5
<1>e. ASSUME NEW t \in Threads, NEW j \in running[t], running' = [running EXCEPT ![t] = {}],
             Succeeded(j) \/ Failed(j), UNCHANGED run
      PROVE  Flow!Next \/ UNCHANGED Flow!vars
  <2> DEFINE g == j.graph
             n == j.node
  <2>1. /\ On(t) = {Key(j)} /\ On(t)' = {} /\ \A u \in Threads \ {t} : On(u)' = On(u)
        /\ Over' = Over \cup {Key(j)} /\ g \in Graphs /\ n \in Nodes
    BY <1>e, <1>t, EndMoves
  <2>2. Key(j) = <<g, j.run, n>> /\ Key(j) \notin Over
    BY <1>t, <2>1 DEF Key, OnceInv
  <2>3. \/ done' = done \cup {Key(j)} /\ failed' = failed
        \/ failed' = failed \cup {Key(j)} /\ done' = done
    BY <1>e DEF Succeeded, Failed, Key
  <2> HIDE DEF g, n
  <2>4. \A h \in Graphs : Started(h)' = Started(h)
    <3>1. ASSUME NEW h \in Graphs, NEW m \in Nodes
          PROVE  m \in Started(h)' <=> m \in Started(h)
      <4> DEFINE x == <<h, run[h], m>>
      <4>1. m \in Started(h) <=> (x \in Over \/ (\E u \in Threads : x \in On(u)))
        BY <1>a
      <4>2. m \in Started(h)' <=> (x \in Over' \/ (\E u \in Threads : x \in On(u)'))
        BY <1>b, <1>e
      <4> HIDE DEF x
      <4>3. (\E u \in Threads : x \in On(u)) <=> (x = Key(j) \/ (\E u \in Threads : x \in On(u)'))
        BY <1>e, <2>1
      <4> QED
        BY <2>1, <4>1, <4>2, <4>3
    <3> QED
      BY <1>c, <3>1
  <2>5. \A h \in Graphs \ {g} : Same(h)
    BY <1>e, <2>2, <2>3, <2>4 DEF Same, InRun
  <2>6. CASE j.run = run[g]
    <3>1. n \in Started(g) /\ n \notin InRun(done, g) /\ n \notin InRun(failed, g)
      BY <1>a, <2>1, <2>2, <2>6 DEF InRun, Over
    <3>2. \/ InRun(done, g)' = InRun(done, g) \cup {n} /\ InRun(failed, g)' = InRun(failed, g)
          \/ InRun(failed, g)' = InRun(failed, g) \cup {n} /\ InRun(done, g)' = InRun(done, g)
      BY <1>e, <2>1, <2>2, <2>3, <2>6 DEF InRun
    <3> QED
      BY <2>1, <2>4, <2>5, <3>1, <3>2, FlowFinish
  <2>7. CASE j.run # run[g]
    <3>1. Same(g)
      BY <1>e, <2>1, <2>2, <2>3, <2>4, <2>7 DEF Same, InRun
    <3> QED
      BY <2>5, <3>1, FlowKept
  <2> QED
    BY <2>6, <2>7
<1>1. ASSUME NEW g \in Graphs, execute_pipelined_graph(g) PROVE Flow!Next \/ UNCHANGED Flow!vars
  <2>1. /\ UNCHANGED <<running, done, failed>> /\ at[g] = "idle" /\ run'[g] = run[g] + 1
        /\ run[g] \in 0..MaxRuns /\ run'[g] \in 1..MaxRuns
        /\ \A h \in Graphs \ {g} : run'[h] = run[h]
    BY <1>1, <1>t, WaveAssumption DEF execute_pipelined_graph, history, TypeOK
  <2>2. Over' = Over /\ \A t \in Threads : On(t)' = On(t)
    BY <2>1 DEF Over, On
  <2>3. \A h \in Graphs \ {g} : Same(h)
    BY <2>1 DEF Same, Started, InRun, Current, Executing
  <2>4. \A n \in Nodes : <<g, run'[g], n>> \notin Begun
    BY <1>t, <2>1 DEF FreshInv
  <2>5. Started(g)' = {}
    <3>1. \A n \in Nodes : n \notin Started(g)'
      <4>1. \A n \in Nodes : /\ <<g, run'[g], n>> \notin Over
                            /\ \A t \in Threads : <<g, run'[g], n>> \notin On(t)
        BY <2>4 DEF Begun
      <4> QED
        BY <1>b, <2>2, <4>1
    <3> QED
      BY <1>c, <3>1
  <2>6. InRun(done, g)' = {} /\ InRun(failed, g)' = {}
    BY <2>5 DEF Started
  <2>7. CASE run[g] = 0
    <3>1. \A n \in Nodes : <<g, run[g], n>> \notin Over
      BY <1>t, <2>7 DEF TypeOK, Over
    <3>2. \A t \in Threads, n \in Nodes : <<g, run[g], n>> \notin On(t)
      BY <1>t, <2>7 DEF TypeOK, On, Key, Job
    <3>3. Started(g) = {}
      BY <1>a, <1>c, <3>1, <3>2
    <3>4. Same(g)
      BY <2>5, <2>6, <3>3 DEF Same, Started
    <3> QED
      BY <2>3, <3>4, FlowKept
  <2>8. CASE run[g] # 0
    <3>1. InRun(done, g) = Nodes \/ InRun(failed, g) # {}
      BY <2>1, <2>8 DEF Returned, WaveInv, ProgressInv, SuccessMeansComplete, InRun
    <3> QED
      BY <2>3, <2>5, <2>6, <3>1, FlowNext
  <2> QED
    BY <2>7, <2>8
<1>2. ASSUME NEW g \in Graphs, RunInline(g) PROVE Flow!Next \/ UNCHANGED Flow!vars
  <2>1. wave[g] \in 1..Len(Waves) /\ run[g] \in 1..MaxRuns /\ at[g] = "wave" /\ g \in Threads
    BY <1>2, <1>t DEF RunInline, Placed, Threads
  <2>2. PICK n \in Waves[wave[g]] : StartNode(g, g, n, run[g])
    BY <1>2 DEF RunInline
  <2>3. n \in Nodes /\ n \in unsent[g]
    BY <1>2, <1>t, <2>1, WaveFacts DEF RunInline, InlineInv
  <2>4. <<g, run[g], n>> \notin Begun /\ On(g) = {}
    BY <1>t, <2>1, <2>3 DEF FreshInv, InlineInv, On
  <2>5. <<g, run[g], n>> \notin Over /\ \A u \in Threads : <<g, run[g], n>> \notin On(u)
    BY <2>4 DEF Begun
  <2>6. UNCHANGED <<run, done, failed>>
    BY <1>2 DEF RunInline, history
  <2> QED
    BY <1>s, <2>1, <2>2, <2>3, <2>4, <2>5, <2>6
<1>3. ASSUME NEW g \in Graphs, EndInline(g) PROVE Flow!Next \/ UNCHANGED Flow!vars
  BY <1>3, <1>e DEF EndInline, Threads
<1>4. ASSUME NEW g \in Graphs, NEW n \in Nodes, SendJob(g, n) PROVE UNCHANGED Flow!vars
  BY <1>4, <1>k DEF SendJob, history
<1>5. ASSUME NEW g \in Graphs, Receive(g) PROVE UNCHANGED Flow!vars
  BY <1>5, <1>k DEF Receive, history
<1>6. ASSUME NEW w \in Pool, TakeJob(w) PROVE Flow!Next \/ UNCHANGED Flow!vars
  <2> DEFINE j == Head(jobs)
  <2>1. jobs \in Seq(QueuedJob) /\ jobs # <<>> /\ running[w] = {} /\ w \in Threads
    BY <1>6, <1>t DEF TakeJob, TypeOK, QueuedJob, Threads
  <2>2. StartNode(w, j.graph, j.node, j.run) /\ UNCHANGED <<run, done, failed>>
    BY <1>6 DEF TakeJob, execVars, history
  <2>3. j.graph \in Graphs /\ j.run \in 1..MaxRuns /\ j.node \in Nodes
    <3>1. j \in QueuedJob
      BY <2>1
    <3> QED
      BY <3>1 DEF QueuedJob
  <2>4. Key(j) \in Queued /\ Key(j) = <<j.graph, j.run, j.node>>
    BY <1>t, <2>1, KeysTail DEF Queued, OnceInv, Key
  <2>5. On(w) = {}
    BY <2>1 DEF On
  <2> HIDE DEF j
  <2>6. /\ <<j.graph, j.run, j.node>> \notin Over
        /\ \A u \in Threads : <<j.graph, j.run, j.node>> \notin On(u)
    BY <1>t, <2>4 DEF OnceInv
  <2> QED
    BY <1>s, <2>1, <2>2, <2>3, <2>5, <2>6
<1>7. ASSUME NEW w \in Pool, EndJob(w) PROVE Flow!Next \/ UNCHANGED Flow!vars
  BY <1>7, <1>e DEF EndJob, execVars, Threads
<1>8. ASSUME UNCHANGED vars PROVE UNCHANGED Flow!vars
  BY <1>8, <1>k DEF vars, execVars, history
<1> QED
  BY <1>1, <1>2, <1>3, <1>4, <1>5, <1>6, <1>7, <1>8, Zenon DEF Next, ExecutorStep, WorkerStep

(* Running wave by wave on a shared pool, with failures and what they leave  *)
(* in the pool, implements running in dependency order.                      *)
THEOREM WavesImplementDataflow == Spec => ImplementsDataflow
<1>1. Init => Flow!Init
  <2> SUFFICES ASSUME Init PROVE Flow!Init
    OBVIOUS
  <2>1. \A g \in Graphs : Started(g) = {} /\ InRun(done, g) = {} /\ InRun(failed, g) = {}
    BY DEF Init, Started, InRun, Current, Executing
  <2> QED
    BY <2>1 DEF Flow!Init, Flow!Nothing, Started
<1>2. Init => Returned
  BY DEF Init, Returned
<1> QED
  BY <1>1, <1>2, FlowStep, ReturnedStep, WaveInvariant, PTL DEF Spec, ImplementsDataflow, Flow!Spec
-----------------------------------------------------------------------------
(* The references of executions.  With the resolving node alone in the first *)
(* wave nobody but the executor runs it, so that the substitution is on the  *)
(* executor's thread before the second wave begins.                          *)
Recorded(g) == at[g] = "node" \/ (at[g] = "wave" /\ wave[g] > 1)

FollowInv ==
  /\ \A i \in 1..Len(jobs) : jobs[i].node # Resolver
  /\ \A w \in Pool : \A j \in running[w] : j.node # Resolver
  /\ \A g \in Graphs : at[g] = "wave" /\ wave[g] = 1 => results[g] = <<>>
  /\ \A g \in Graphs : \A j \in running[g] :
        at[g] = "node" /\ j.run = run[g] /\ (j.node \in Sharers => j.ref = run[g])
  /\ \A g \in Graphs : Recorded(g) => subst[g][g] = run[g]

LEMMA FollowInit == Init => FollowInv
BY DEF Init, FollowInv, Recorded, Threads

(* An executor that starts a wave after the first, or returns.               *)
LEMMA FollowMoved ==
  ASSUME TypeInv, FollowInv, NEW g \in Graphs, Moved(g), Recorded(g), wave'[g] > 1,
         at'[g] # "node", running'[g] = {}, UNCHANGED <<jobs, run, subst>>,
         \A t \in Threads \ {g} : running'[t] = running[t]
  PROVE  FollowInv'
<1>1. g \notin Pool /\ \A h \in Graphs : h \in Threads
  BY WaveAssumption DEF Threads
<1>2. \A w \in Pool : w \in Threads
  BY DEF Threads
<1>3. jobs' = jobs /\ \A t \in Threads : running'[t] = running[t] \/ (t = g /\ running'[t] = {})
  OBVIOUS
<1>4. (\A i \in 1..Len(jobs) : jobs[i].node # Resolver)'
      /\ (\A w \in Pool : \A j \in running[w] : j.node # Resolver)'
  BY <1>1, <1>2, <1>3 DEF FollowInv
<1>5. (\A h \in Graphs : at[h] = "wave" /\ wave[h] = 1 => results[h] = <<>>)'
  <2> SUFFICES ASSUME NEW h \in Graphs, at'[h] = "wave", wave'[h] = 1 PROVE results'[h] = <<>>
    OBVIOUS
  <2>1. h # g
    OBVIOUS
  <2>2. at[h] = "wave" /\ wave[h] = 1 /\ results'[h] = results[h]
    BY <2>1 DEF Moved
  <2> QED
    BY <2>2 DEF FollowInv
<1>6. (\A h \in Graphs : \A j \in running[h] :
         at[h] = "node" /\ j.run = run[h] /\ (j.node \in Sharers => j.ref = run[h]))'
  <2> SUFFICES ASSUME NEW h \in Graphs, NEW j \in running'[h]
               PROVE  at'[h] = "node" /\ j.run = run'[h] /\ (j.node \in Sharers => j.ref = run'[h])
    OBVIOUS
  <2>1. h # g /\ j \in running[h]
    BY <1>1, <1>3
  <2>2. at'[h] = at[h] /\ run'[h] = run[h]
    BY <2>1 DEF Moved
  <2>3. at[h] = "node" /\ j.run = run[h] /\ (j.node \in Sharers => j.ref = run[h])
    BY <2>1 DEF FollowInv
  <2> QED
    BY <2>2, <2>3
<1>7. (\A h \in Graphs : Recorded(h) => subst[h][h] = run[h])'
  <2> SUFFICES ASSUME NEW h \in Graphs, Recorded(h)' PROVE subst'[h][h] = run'[h]
    OBVIOUS
  <2>1. h # g => at'[h] = at[h] /\ wave'[h] = wave[h]
    BY DEF Moved
  <2>2. Recorded(h)
    BY <2>1 DEF Recorded
  <2>3. subst[h][h] = run[h]
    BY <2>2 DEF FollowInv
  <2> QED
    BY <2>3
<1> QED
  BY <1>4, <1>5, <1>6, <1>7 DEF FollowInv

LEMMA FollowStep == ASSUME Waves[1] = {Resolver} PROVE TypeInv /\ FollowInv /\ [Next]_vars => FollowInv'
<1> SUFFICES ASSUME TypeInv, FollowInv, [Next]_vars PROVE FollowInv'
  OBVIOUS
<1>t. TypeOK /\ Placed
  BY DEF TypeInv
<1>g. \A g \in Graphs : g \in Threads /\ g \notin Pool
  BY WaveAssumption DEF Threads
<1>p. \A w \in Pool : w \in Threads
  BY DEF Threads
<1>r. \A k \in 1..Len(Waves) : Resolver \in Waves[k] => k = 1
  <2> SUFFICES ASSUME NEW k \in 1..Len(Waves), Resolver \in Waves[k], k # 1 PROVE FALSE
    OBVIOUS
  <2>1. 1 \in 1..Len(Waves)
    BY WaveFacts
  <2>2. Waves[k] \cap Waves[1] = {}
    BY <2>1, WaveAssumption
  <2> QED
    BY <2>2
<1>s. Cardinality(Waves[1]) = 1
  BY FS_Singleton
<1>1. ASSUME NEW g \in Graphs, execute_pipelined_graph(g) PROVE FollowInv'
  <2>1. /\ at[g] = "idle" /\ UNCHANGED <<jobs, running>>
        /\ run' = [run EXCEPT ![g] = @ + 1] /\ subst' = [subst EXCEPT ![g] = [h \in Graphs |-> 0]]
        /\ EnterWave(g, 1)
    BY <1>1 DEF execute_pipelined_graph
  <2>2. Moved(g) /\ wave'[g] = 1 /\ (at'[g] # "idle" => Entered(g, 1))
    BY <2>1, WaveFacts, EnterWaveType
  <2>3. running[g] = {} /\ \A h \in Graphs \ {g} : run'[h] = run[h] /\ subst'[h] = subst[h]
    BY <1>g, <1>t, <2>1 DEF FollowInv, TypeOK
  <2>4. \A h \in Graphs : h # g => at'[h] = at[h] /\ wave'[h] = wave[h] /\ results'[h] = results[h]
    BY <2>2 DEF Moved
  <2>5. wave'[g] = 1 /\ at'[g] # "node" /\ (at'[g] = "wave" => results'[g] = <<>>)
    BY <2>2 DEF Entered
  <2> QED
    <3>1. (\A i \in 1..Len(jobs) : jobs[i].node # Resolver)'
          /\ (\A w \in Pool : \A j \in running[w] : j.node # Resolver)'
      BY <2>1 DEF FollowInv
    <3>2. (\A h \in Graphs : at[h] = "wave" /\ wave[h] = 1 => results[h] = <<>>)'
      BY <2>4, <2>5 DEF FollowInv
    <3>3. (\A h \in Graphs : \A j \in running[h] :
             at[h] = "node" /\ j.run = run[h] /\ (j.node \in Sharers => j.ref = run[h]))'
      BY <2>1, <2>3, <2>4 DEF FollowInv
    <3>4. (\A h \in Graphs : Recorded(h) => subst[h][h] = run[h])'
      BY <2>3, <2>4, <2>5 DEF FollowInv, Recorded
    <3> QED
      BY <3>1, <3>2, <3>3, <3>4 DEF FollowInv
<1>2. ASSUME NEW g \in Graphs, RunInline(g) PROVE FollowInv'
  <2>1. /\ at[g] = "wave" /\ at' = [at EXCEPT ![g] = "node"]
        /\ UNCHANGED <<jobs, run, wave, results>>
    BY <1>2 DEF RunInline
  <2>2. PICK n \in Waves[wave[g]] : StartNode(g, g, n, run[g])
    BY <1>2 DEF RunInline
  <2>3. wave[g] \in 1..Len(Waves) /\ run[g] \in 1..MaxRuns
    BY <1>t, <2>1 DEF Placed
  <2>4. \A h \in Threads : h # g => running'[h] = running[h] /\ subst'[h] = subst[h]
    BY <1>g, <1>t, <2>2 DEF StartNode, TypeOK
  <2>5. running'[g] = {Resolved(g, g, n, run[g])}
    BY <1>g, <1>t, <2>2 DEF StartNode, TypeOK
  <2>6. subst'[g][g] = run[g] /\ (n \in Sharers => subst[g][g] = run[g])
    <3>1. CASE n = Resolver
      BY <1>g, <1>t, <2>2, <3>1, WaveAssumption DEF StartNode, TypeOK
    <3>2. CASE n # Resolver
      <4>1. wave[g] > 1
        BY <2>2, <2>3, <3>2
      <4> QED
        BY <2>1, <2>2, <3>2, <4>1 DEF StartNode, FollowInv, Recorded
    <3> QED
      BY <3>1, <3>2
  <2>7. \A j \in running'[g] : j.run = run[g] /\ (j.node \in Sharers => j.ref = run[g])
    BY <2>5, <2>6, WaveAssumption DEF Resolved
  <2>8. at'[g] = "node" /\ \A h \in Graphs : h # g => at'[h] = at[h]
    BY <1>t, <2>1 DEF TypeOK
  <2> QED
    BY <1>g, <1>p, <2>1, <2>4, <2>6, <2>7, <2>8 DEF FollowInv, Recorded
<1>3. ASSUME NEW g \in Graphs, EndInline(g) PROVE FollowInv'
  <2>1. at[g] = "node" /\ running' = [running EXCEPT ![g] = {}] /\ UNCHANGED <<jobs, run, subst>>
    BY <1>3 DEF EndInline
  <2>2. wave[g] \in 1..Len(Waves)
    BY <1>t, <2>1 DEF Placed
  <2>3. CASE EnterWave(g, wave[g] + 1)
    <3>1. Moved(g) /\ wave'[g] = wave[g] + 1 /\ at'[g] # "node"
      BY <2>2, <2>3, WaveFacts, EnterWaveType DEF Entered
    <3> QED
      BY <1>g, <1>t, <2>1, <2>2, <3>1, FollowMoved DEF Recorded, TypeOK
  <2>4. CASE Fail(g)
    <3>1. Moved(g) /\ at'[g] = "idle"
      BY <2>4, FailType
    <3>2. running'[g] = {} /\ \A t \in Threads \ {g} : running'[t] = running[t]
      BY <1>g, <1>t, <2>1 DEF TypeOK
    <3>3. \A h \in Graphs : h # g => at'[h] = at[h] /\ wave'[h] = wave[h] /\ results'[h] = results[h]
      BY <3>1 DEF Moved
    <3> QED
      <4>1. (\A i \in 1..Len(jobs) : jobs[i].node # Resolver)'
            /\ (\A w \in Pool : \A j \in running[w] : j.node # Resolver)'
        BY <1>g, <1>p, <2>1, <3>2 DEF FollowInv
      <4>2. (\A h \in Graphs : at[h] = "wave" /\ wave[h] = 1 => results[h] = <<>>)'
        BY <3>1, <3>3 DEF FollowInv
      <4>3. (\A h \in Graphs : \A j \in running[h] :
               at[h] = "node" /\ j.run = run[h] /\ (j.node \in Sharers => j.ref = run[h]))'
        BY <1>g, <2>1, <3>2, <3>3 DEF FollowInv
      <4>4. (\A h \in Graphs : Recorded(h) => subst[h][h] = run[h])'
        BY <2>1, <3>1, <3>3 DEF FollowInv, Recorded
      <4> QED
        BY <4>1, <4>2, <4>3, <4>4 DEF FollowInv
  <2> QED
    BY <1>3, <2>3, <2>4 DEF EndInline
<1>4. ASSUME NEW g \in Graphs, NEW n \in Nodes, SendJob(g, n) PROVE FollowInv'
  <2>1. /\ at[g] = "wave" /\ Cardinality(Waves[wave[g]]) > 1 /\ n \in unsent[g]
        /\ jobs' = Append(jobs, [graph |-> g, run |-> run[g], node |-> n])
        /\ UNCHANGED <<running, at, run, wave, results, subst>>
    BY <1>4 DEF SendJob
  <2>2. wave[g] \in 1..Len(Waves) /\ n \in Waves[wave[g]]
    BY <1>t, <2>1 DEF Placed
  <2>3. n # Resolver
    <3>1. wave[g] # 1
      <4> SUFFICES ASSUME wave[g] = 1 PROVE FALSE
        OBVIOUS
      <4>1. Cardinality(Waves[wave[g]]) = 1
        BY <1>s
      <4> QED
        BY <2>1, <4>1
    <3> QED
      BY <1>r, <2>2, <3>1
  <2>4. jobs \in Seq(QueuedJob) /\ [graph |-> g, run |-> run[g], node |-> n].node = n
    BY <1>t DEF TypeOK, QueuedJob
  <2>5. \A i \in 1..Len(jobs') : jobs'[i].node # Resolver
    BY <2>1, <2>3, <2>4 DEF FollowInv
  <2> QED
    BY <2>1, <2>5 DEF FollowInv, Recorded
<1>5. ASSUME NEW g \in Graphs, Receive(g) PROVE FollowInv'
  <2>1. at[g] = "wave" /\ results[g] # <<>> /\ UNCHANGED <<jobs, running, run, subst>>
    BY <1>5 DEF Receive
  <2>2. wave[g] \in 1..Len(Waves)
    BY <1>t, <2>1 DEF Placed
  <2>3. wave[g] > 1 /\ running[g] = {}
    BY <2>1, <2>2 DEF FollowInv
  <2>4. CASE UNCHANGED <<at, wave>> /\ results' = [results EXCEPT ![g] = Tail(@)]
    BY <1>t, <2>1, <2>3, <2>4 DEF FollowInv, Recorded, TypeOK
  <2>5. CASE EnterWave(g, wave[g] + 1)
    <3>1. Moved(g) /\ wave'[g] = wave[g] + 1 /\ at'[g] # "node"
      BY <2>2, <2>5, WaveFacts, EnterWaveType DEF Entered
    <3> QED
      BY <2>1, <2>2, <2>3, <3>1, FollowMoved DEF Recorded
  <2>6. CASE Fail(g)
    <3>1. Moved(g) /\ at'[g] = "idle" /\ wave'[g] = wave[g]
      BY <2>6, FailType DEF Fail
    <3> QED
      BY <2>1, <2>3, <3>1, FollowMoved DEF Recorded
  <2> QED
    BY <1>5, <2>4, <2>5, <2>6 DEF Receive
<1>6. ASSUME NEW w \in Pool, TakeJob(w) PROVE FollowInv'
  <2>1. jobs \in Seq(QueuedJob) /\ jobs # <<>> /\ jobs' = Tail(jobs)
    BY <1>6, <1>t DEF TakeJob, TypeOK, QueuedJob
  <2>2. StartNode(w, Head(jobs).graph, Head(jobs).node, Head(jobs).run)
        /\ UNCHANGED <<at, run, wave, results>>
    BY <1>6 DEF TakeJob, execVars
  <2>3. Head(jobs).node # Resolver /\ \A i \in 1..Len(jobs') : jobs'[i].node # Resolver
    <3>1. Head(jobs) = jobs[1] /\ 1 \in 1..Len(jobs)
      BY <2>1
    <3>2. \A i \in 1..Len(jobs') : jobs'[i] = jobs[i + 1] /\ i + 1 \in 1..Len(jobs)
      BY <2>1
    <3> QED
      BY <3>1, <3>2 DEF FollowInv
  <2>4. /\ \A j \in running'[w] : j.node # Resolver
        /\ \A t \in Threads : t # w => running'[t] = running[t] /\ subst'[t] = subst[t]
    BY <1>p, <1>t, <2>2, <2>3 DEF StartNode, Resolved, TypeOK
  <2> QED
    BY <1>g, <1>p, <2>2, <2>3, <2>4 DEF FollowInv, Recorded
<1>7. ASSUME NEW w \in Pool, EndJob(w) PROVE FollowInv'
  <2>1. PICK j \in running[w], ok \in BOOLEAN : Report(j, ok)
    BY <1>7 DEF EndJob
  <2>2. UNCHANGED <<jobs, at, run, wave, subst>> /\ running' = [running EXCEPT ![w] = {}]
    BY <1>7 DEF EndJob, execVars
  <2>3. j.graph \in Graphs /\ j.node # Resolver
    BY <1>p, <1>t DEF TypeOK, Job, FollowInv
  <2>4. ASSUME NEW g \in Graphs, at[g] = "wave", wave[g] = 1 PROVE results'[g] = results[g]
    <3>1. CASE ~Heard(j)
      BY <2>1, <3>1 DEF Report
    <3>2. CASE Heard(j)
      <4>1. j.graph # g
        BY <2>3, <2>4, <3>2 DEF Heard
      <4> QED
        BY <1>t, <2>1, <3>2, <4>1 DEF Report, Tell, TypeOK
    <3> QED
      BY <3>1, <3>2
  <2>5. running'[w] = {} /\ \A t \in Threads : t # w => running'[t] = running[t]
    BY <1>p, <1>t, <2>2 DEF TypeOK
  <2> QED
    BY <1>g, <1>p, <2>2, <2>4, <2>5 DEF FollowInv, Recorded
<1>8. CASE UNCHANGED vars
  BY <1>8 DEF vars, execVars, FollowInv, Recorded
<1> QED
  BY <1>1, <1>2, <1>3, <1>4, <1>5, <1>6, <1>7, <1>8, Zenon DEF Next, ExecutorStep, WorkerStep

(* On the executor's thread the nodes that share the queued reference work   *)
(* on the one of their own execution, if its node is the first wave alone.   *)
THEOREM SharersFollow == Spec => []InlineSharersFollow
<1>1. CASE Waves[1] = {Resolver}
  <2>1. TypeInv /\ FollowInv => InlineSharersFollow
    BY DEF FollowInv, InlineSharersFollow
  <2>2. TypeInv /\ FollowInv /\ [Next]_vars => FollowInv'
    BY <1>1, FollowStep
  <2> QED
    BY <2>1, <2>2, TypeInit, TypeStep, FollowInit, PTL DEF Spec
<1>2. CASE Waves[1] # {Resolver}
  <2>1. InlineSharersFollow
    BY <1>2 DEF InlineSharersFollow
  <2> QED
    BY <2>1, PTL
<1> QED
  BY <1>1, <1>2
=============================================================================
