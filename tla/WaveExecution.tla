---------------------------- MODULE WaveExecution ----------------------------
(* How the QUEUE_AUTO executors run the nodes of their graphs wave by wave   *)
(* (execute_pipelined_graph): a wave of one node on the executor's own       *)
(* thread, a larger one on the global pool (thread_pool.rs), which all       *)
(* graphs share.  A graph stands for its executor thread.  One reference is  *)
(* queued per execution, known by the execution's number: Resolver is the    *)
(* node the graph parameter is bound to, Sharers are nodes that hold the     *)
(* parameter's original reference and find the queued one in the             *)
(* thread-local REF_SUBSTITUTIONS, if it was recorded on their thread.       *)
EXTENDS Naturals, FiniteSets, SequencesExt

CONSTANTS Graphs, Pool,
          Nodes, Deps,       \* nodes and what each of them depends on
          Waves,             \* topo_waves
          Resolver, Sharers,
          MayFail,           \* whether nodes may fail
          MaxRuns            \* bound: executions of a graph

Threads == Graphs \cup Pool

WavesBefore(k) == UNION {Waves[i] : i \in 1..(k - 1)}

ASSUME WaveAssumption ==
    /\ Graphs \cap Pool = {}
    /\ IsFiniteSet(Nodes)
    /\ Waves \in Seq((SUBSET Nodes) \ {{}})
    /\ WavesBefore(Len(Waves) + 1) = Nodes
    /\ \A i, j \in 1..Len(Waves) : i # j => Waves[i] \cap Waves[j] = {}
    /\ Deps \in [Nodes -> SUBSET Nodes]
    /\ \A k \in 1..Len(Waves) : \A n \in Waves[k] : Deps[n] \subseteq WavesBefore(k)
    /\ Resolver \in Nodes /\ Sharers \subseteq Nodes \ {Resolver}
    /\ MayFail \in BOOLEAN /\ MaxRuns \in Nat

VARIABLES jobs,      \* the pool's channel
          running,   \* per thread, the jobs it is executing: one at most
          at,        \* where each executor is: idle, in a wave, or in a node
          run,       \* the execution it is in, or was in last
          wave,      \* the wave it is in
          unsent,    \* nodes of the wave it has still to give to the pool
          remaining, \* how many results of the wave it has still to receive
          results,   \* the channel on which its wave reports
          status,    \* how its last execution ended
          subst,     \* REF_SUBSTITUTIONS of each thread; 0: no entry for the graph
          done,      \* history: nodes that succeeded, by graph and execution
          failed     \* history: nodes that failed

execVars == <<at, run, wave, unsent, remaining, status>>
history  == <<done, failed>>
vars     == <<jobs, running, execVars, results, subst, history>>

Job == [graph : Graphs, run : 1..MaxRuns, node : Nodes, ref : 0..MaxRuns]

Init == /\ jobs = <<>>
        /\ running = [t \in Threads |-> {}]
        /\ at = [g \in Graphs |-> "idle"]
        /\ run = [g \in Graphs |-> 0]
        /\ wave = [g \in Graphs |-> 0]
        /\ unsent = [g \in Graphs |-> {}]
        /\ remaining = [g \in Graphs |-> 0]
        /\ results = [g \in Graphs |-> <<>>]
        /\ status = [g \in Graphs |-> "none"]
        /\ subst = [t \in Threads |-> [g \in Graphs |-> 0]]
        /\ done = {} /\ failed = {}
-----------------------------------------------------------------------------
(* The executor.                                                             *)

(* Fault: the last wave is forgotten.                                        *)
EnterWaveShort(g, k) ==
    LET over  == k >= Len(Waves)
        nodes == IF over THEN {} ELSE Waves[k]
    IN  /\ wave' = [wave EXCEPT ![g] = k]
        /\ unsent' = [unsent EXCEPT ![g] = nodes]
        /\ remaining' = [remaining EXCEPT ![g] = Cardinality(nodes)]
        /\ results' = [results EXCEPT ![g] = <<>>]
        /\ at' = [at EXCEPT ![g] = IF over THEN "idle" ELSE "wave"]
        /\ status' = [status EXCEPT ![g] = IF over THEN "ok" ELSE @]

(* Entering wave k, with a new channel, or finishing after the last.         *)
EnterWave(g, k) ==
    /\ wave' = [wave EXCEPT ![g] = k]
    /\ results' = [results EXCEPT ![g] = <<>>]
    /\ LET nodes == IF k > Len(Waves) THEN {} ELSE Waves[k]
       IN  /\ unsent' = [unsent EXCEPT ![g] = nodes]
           /\ remaining' = [remaining EXCEPT ![g] = Cardinality(nodes)]
    /\ at' = [at EXCEPT ![g] = IF k > Len(Waves) THEN "idle" ELSE "wave"]
    /\ status' = [status EXCEPT ![g] = IF k > Len(Waves) THEN "ok" ELSE @]

(* Returning early: the executor's end of the channel is gone.               *)
Fail(g) ==
    /\ at' = [at EXCEPT ![g] = "idle"]
    /\ status' = [status EXCEPT ![g] = "failed"]
    /\ unsent' = [unsent EXCEPT ![g] = {}]
    /\ remaining' = [remaining EXCEPT ![g] = 0]
    /\ results' = [results EXCEPT ![g] = <<>>]
    /\ UNCHANGED wave

execute_pipelined_graph(g) ==
    /\ at[g] = "idle"
    /\ run[g] < MaxRuns
    /\ run' = [run EXCEPT ![g] = @ + 1]
    /\ EnterWave(g, 1)
    /\ subst' = [subst EXCEPT ![g] = [h \in Graphs |-> 0]]
    /\ UNCHANGED <<jobs, running, history>>

(* execute_node resolves the node's references on the thread it runs on.     *)
Resolved(t, g, n, r) ==
    [graph |-> g, run |-> r, node |-> n,
     ref |-> IF n = Resolver THEN run[g] ELSE IF n \in Sharers THEN subst[t][g] ELSE 0]

(* Fault: the substitution is not recorded.                                  *)
StartUnrecorded(t, g, n, r) ==
    /\ running' = [running EXCEPT ![t] = {Resolved(t, g, n, r)}]
    /\ UNCHANGED subst

StartNode(t, g, n, r) ==
    /\ running' = [running EXCEPT ![t] = {Resolved(t, g, n, r)}]
    /\ subst' = IF n = Resolver THEN [subst EXCEPT ![t][g] = run[g]] ELSE subst

RunInline(g) ==
    /\ at[g] = "wave"
    /\ Cardinality(Waves[wave[g]]) = 1
    /\ \E n \in Waves[wave[g]] : StartNode(g, g, n, run[g])
    /\ at' = [at EXCEPT ![g] = "node"]
    /\ UNCHANGED <<jobs, run, wave, unsent, remaining, results, status, history>>

Succeeded(j) == done' = done \cup {<<j.graph, j.run, j.node>>} /\ UNCHANGED failed
Failed(j)    == failed' = failed \cup {<<j.graph, j.run, j.node>>} /\ UNCHANGED done

EndInline(g) ==
    /\ at[g] = "node"
    /\ running' = [running EXCEPT ![g] = {}]
    /\ \/ (\E j \in running[g] : Succeeded(j)) /\ EnterWave(g, wave[g] + 1)
       \/ MayFail /\ (\E j \in running[g] : Failed(j)) /\ Fail(g)
    /\ UNCHANGED <<jobs, run, subst>>

SendJob(g, n) ==
    /\ at[g] = "wave"
    /\ Cardinality(Waves[wave[g]]) > 1
    /\ n \in unsent[g]
    /\ unsent' = [unsent EXCEPT ![g] = @ \ {n}]
    /\ jobs' = Append(jobs, [graph |-> g, run |-> run[g], node |-> n])
    /\ UNCHANGED <<running, at, run, wave, remaining, results, status, subst, history>>

(* The next wave begins when as many nodes have reported success as this one *)
(* has, whichever they are; the first failure ends the execution at once.    *)
Receive(g) ==
    /\ at[g] = "wave" /\ unsent[g] = {}
    /\ results[g] # <<>>
    /\ LET r == Head(results[g]) IN
       \/ /\ r.ok /\ remaining[g] > 1
          /\ remaining' = [remaining EXCEPT ![g] = @ - 1]
          /\ results' = [results EXCEPT ![g] = Tail(@)]
          /\ UNCHANGED <<at, wave, unsent, status>>
       \/ r.ok /\ remaining[g] = 1 /\ EnterWave(g, wave[g] + 1)
       \/ ~r.ok /\ Fail(g)
    /\ UNCHANGED <<jobs, running, run, subst, history>>
-----------------------------------------------------------------------------
(* The pool.                                                                 *)

(* Fault: a worker takes a job while it has one.                             *)
TakeAnother(w) ==
    /\ jobs # <<>>
    /\ LET j == Head(jobs)
       IN  running' = [running EXCEPT ![w] = @ \cup {Resolved(w, j.graph, j.node, j.run)}]
    /\ jobs' = Tail(jobs)
    /\ UNCHANGED <<execVars, results, subst, history>>

TakeJob(w) ==
    /\ running[w] = {}
    /\ jobs # <<>>
    /\ LET j == Head(jobs) IN StartNode(w, j.graph, j.node, j.run)
    /\ jobs' = Tail(jobs)
    /\ UNCHANGED <<execVars, results, history>>

(* A job's sender belongs to the channel of its wave; the result of a wave   *)
(* that is over, or of an execution that has returned, is dropped.           *)
Heard(j) == LET g == j.graph IN
            at[g] = "wave" /\ run[g] = j.run /\ j.node \in Waves[wave[g]]
Tell(j, ok) == results' = [results EXCEPT ![j.graph] = Append(@, [node |-> j.node, ok |-> ok])]

(* Fault: every node is reported as successful.                              *)
ReportSuccess(j, ok) == IF Heard(j) THEN Tell(j, TRUE) ELSE UNCHANGED results

(* Fault: failures are not reported.                                         *)
ReportOnlySuccess(j, ok) == IF Heard(j) /\ ok THEN Tell(j, TRUE) ELSE UNCHANGED results

Report(j, ok) == IF Heard(j) THEN Tell(j, ok) ELSE UNCHANGED results

EndJob(w) ==
    /\ \E j \in running[w] :
          \/ Succeeded(j) /\ Report(j, TRUE)
          \/ MayFail /\ Failed(j) /\ Report(j, FALSE)
    /\ running' = [running EXCEPT ![w] = {}]
    /\ UNCHANGED <<jobs, execVars, subst>>
-----------------------------------------------------------------------------
ExecutorStep(g) == \/ RunInline(g) \/ EndInline(g) \/ Receive(g)
                   \/ \E n \in Nodes : SendJob(g, n)
WorkerStep(w)   == TakeJob(w) \/ EndJob(w)

Next == \/ \E g \in Graphs : execute_pipelined_graph(g) \/ ExecutorStep(g)
        \/ \E w \in Pool : WorkerStep(w)

(* Threads keep running and kernels return; nobody has to enqueue.           *)
Fairness == /\ \A g \in Graphs : WF_vars(ExecutorStep(g))
            /\ \A w \in Pool : WF_vars(WorkerStep(w))

Spec     == Init /\ [][Next]_vars
FairSpec == Spec /\ Fairness
-----------------------------------------------------------------------------
Executing == UNION {running[t] : t \in Threads}

TypeOK ==
    /\ jobs \in Seq([graph : Graphs, run : 1..MaxRuns, node : Nodes])
    /\ running \in [Threads -> SUBSET Job]
    /\ \A t \in Threads : \A i, j \in running[t] : i = j
    /\ at \in [Graphs -> {"idle", "wave", "node"}]
    /\ run \in [Graphs -> 0..MaxRuns]
    /\ wave \in [Graphs -> 0..(Len(Waves) + 1)]
    /\ unsent \in [Graphs -> SUBSET Nodes]
    /\ remaining \in [Graphs -> Nat]
    /\ results \in [Graphs -> Seq([node : Nodes, ok : BOOLEAN])]
    /\ status \in [Graphs -> {"none", "ok", "failed"}]
    /\ subst \in [Threads -> [Graphs -> 0..MaxRuns]]
    /\ done \subseteq Graphs \X (1..MaxRuns) \X Nodes
    /\ failed \subseteq Graphs \X (1..MaxRuns) \X Nodes

(* A node runs only when all it depends on has succeeded in the same         *)
(* execution, on whatever thread and whichever executions failed before.     *)
DependenciesFirst ==
    \A j \in Executing : \A n \in Deps[j.node] : <<j.graph, j.run, n>> \in done

(* An execution that returns success has run every node.                     *)
SuccessMeansComplete ==
    \A g \in Graphs : at[g] = "idle" /\ status[g] = "ok" =>
        \A n \in Nodes : <<g, run[g], n>> \in done

(* On the executor's thread a node that holds the parameter's original       *)
(* reference works on the one queued for its execution, never on that of an  *)
(* earlier execution or on none, if the parameter is resolved there too.     *)
InlineSharersFollow ==
    Waves[1] = {Resolver} =>
        \A g \in Graphs : \A j \in running[g] : j.node \in Sharers => j.ref = j.run

(* Every execution returns, although the pool is shared.                     *)
ExecutionsReturn == \A g \in Graphs : at[g] # "idle" ~> at[g] = "idle"

(* Running wave by wave implements running in dependency order, whatever     *)
(* failed executions have left in the pool.                                  *)
InRun(log, g) == {n \in Nodes : <<g, run[g], n>> \in log}
Current(g) == {n \in Nodes : \E j \in Executing : j.graph = g /\ j.run = run[g] /\ j.node = n}
Flow == INSTANCE Dataflow WITH
            begun  <- [g \in Graphs |->
                         InRun(done, g) \cup InRun(failed, g) \cup Current(g)],
            ended  <- [g \in Graphs |-> InRun(done, g)],
            failed <- [g \in Graphs |-> InRun(failed, g)]
ImplementsDataflow == Flow!Spec
=============================================================================
