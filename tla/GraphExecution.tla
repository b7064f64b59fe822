---------------------------- MODULE GraphExecution ----------------------------
(* The life of one graph's executions: the application threads that schedule *)
(* it, process it and wait for it, the background threads vxScheduleGraph    *)
(* spawns, and the QUEUE_AUTO executor.  They share the graph's state and    *)
(* verified flag (VxCGraphData) and the active_executions count with its     *)
(* mutex and condition variable (VxGraphPipeliningState).  What the nodes    *)
(* compute and what the parameter queues hold is left to other modules.      *)
EXTENDS Naturals, FiniteSets, TLC

CONSTANTS Clients,        \* application threads
          Workers,        \* threads vxScheduleGraph may spawn
          Executor,       \* the QUEUE_AUTO executor thread
          Calls,          \* the API functions the application uses
          Modes,          \* schedule modes it configures
          Careful,        \* whether it verifies before it schedules or enqueues, adds no node
                          \* to a verified graph, and processes one that no queue drives
                          \* while it does nothing else with it
          MayFail,        \* whether nodes and verification may fail
          Modulus,        \* 2^32: active_executions is an AtomicU32
          MaxExecutions   \* bound: executions begun

Threads == Clients \cup Workers \cup {Executor}
Runners == Clients \cup Workers   \* threads that run execute_graph_nodes

ASSUME ExecutionAssumption ==
    /\ IsFiniteSet(Threads)
    /\ Clients \cap Workers = {} /\ Executor \notin Runners
    /\ Modes \subseteq {"normal", "manual", "auto"}
    /\ Careful \in BOOLEAN /\ MayFail \in BOOLEAN
    /\ Modulus \in Nat /\ Modulus > Cardinality(Threads)
    /\ MaxExecutions \in Nat

VARIABLES mode,      \* schedule_mode
          state,     \* VxGraphState
          verified,  \* the verified flag
          current,   \* whether the node order is the one verified for these nodes
          active,    \* active_executions
          pc,        \* where each thread is
          guarded,   \* threads whose ActiveExecGuard will decrement active
          by,        \* the client that spawned each worker
          waited,    \* clients whose last call is a successful vxWaitGraph
          begun      \* executions begun

graphVars == <<mode, state, verified, current>>
vars == <<graphVars, active, pc, guarded, by, waited, begun>>

Init == /\ mode = "normal" /\ state = "Unverified"
        /\ verified = FALSE /\ current = FALSE
        /\ active = 0
        /\ pc = [t \in Threads |-> "idle"]
        /\ guarded = {}
        /\ by \in [Workers -> Clients]
        /\ waited = {}
        /\ begun = 0

Quiet == \A t \in Threads : pc[t] = "idle"

Goto(t, where) == pc' = [pc EXCEPT ![t] = where]

(* Where vxProcessGraph may be in its call.                                  *)
Processing(d) == pc[d] \in {"verifyToProcess", "marking", "spawned", "nodes", "ageing", "leaving"}

(* A client makes one call at a time.                                        *)
Call(c, name, where) ==
    /\ name \in Calls
    /\ pc[c] = "idle"
    /\ Careful => \A d \in Clients : ~Processing(d)
    /\ Goto(c, where)
    /\ waited' = waited \ {c}

Begin == begun < MaxExecutions /\ begun' = begun + 1
-----------------------------------------------------------------------------
(* Configuring, verifying and editing the graph: between executions.         *)

vxSetGraphScheduleConfig(m) ==
    /\ "configure" \in Calls
    /\ Quiet
    /\ mode' = m
    /\ UNCHANGED <<state, verified, current, active, pc, guarded, by, waited, begun>>

(* The tail of vxCreateGenericNode: it resets the state, not the flag.       *)
vxCreateGenericNode ==
    /\ "addNode" \in Calls
    /\ Quiet
    /\ Careful => ~verified
    /\ state' = "Unverified" /\ current' = FALSE
    /\ UNCHANGED <<mode, verified, active, pc, guarded, by, waited, begun>>

(* Fault: the verified flag survives the removal.                            *)
RemoveVerified ==
    /\ "removeNode" \in Calls
    /\ Quiet
    /\ state' = "Unverified" /\ current' = FALSE
    /\ UNCHANGED <<mode, verified, active, pc, guarded, by, waited, begun>>

vxRemoveNode ==
    /\ "removeNode" \in Calls
    /\ Quiet
    /\ state' = "Unverified" /\ verified' = FALSE /\ current' = FALSE
    /\ UNCHANGED <<mode, active, pc, guarded, by, waited, begun>>

BeginVerify(c) ==
    /\ Quiet
    /\ Call(c, "verify", "verifyOnly")
    /\ UNCHANGED <<graphVars, active, guarded, by, begun>>

(* The flags vxVerifyGraph leaves behind, and where its callers go on.       *)
AfterVerify == [verifyOnly       |-> "idle",     verifyToSchedule |-> "claiming",
                verifyToProcess  |-> "marking",  verifyToExecute  |-> "executing"]
AfterFailure == [AfterVerify EXCEPT !.verifyToSchedule = "idle", !.verifyToProcess = "idle",
                                    !.verifyToExecute = "leaving"]

vxVerifyGraph(t) ==
    /\ pc[t] \in DOMAIN AfterVerify
    /\ verified' = TRUE /\ current' = TRUE /\ state' = "Verified"
    /\ Goto(t, AfterVerify[pc[t]])
    /\ UNCHANGED <<mode, active, guarded, by, waited, begun>>

FailVerify(t) ==
    /\ MayFail
    /\ pc[t] \in DOMAIN AfterVerify
    /\ Goto(t, AfterFailure[pc[t]])
    /\ UNCHANGED <<graphVars, active, guarded, by, waited, begun>>
-----------------------------------------------------------------------------
(* vxScheduleGraph.                                                          *)

BeginSchedule(c) ==
    /\ Careful => verified /\ \A d \in Clients : pc[d] # "verifyOnly"
    /\ Call(c, "schedule", IF verified THEN "claiming" ELSE "verifyToSchedule")
    /\ Begin
    /\ UNCHANGED <<graphVars, active, guarded, by>>

(* Fault: a running graph can be scheduled.                                  *)
ClaimRunning(c) ==
    /\ pc[c] = "claiming"
    /\ state' = "Running"
    /\ Goto(c, "counting")
    /\ UNCHANGED <<mode, verified, current, active, guarded, by, waited, begun>>

(* VX_ERROR_GRAPH_SCHEDULED if the graph is running.                         *)
Claim(c) ==
    /\ pc[c] = "claiming"
    /\ state' = "Running"
    /\ Goto(c, IF state = "Running" THEN "idle" ELSE "counting")
    /\ UNCHANGED <<mode, verified, current, active, guarded, by, waited, begun>>

(* Fault: executions are counted in Normal mode too.                         *)
CountAlways(c) ==
    /\ pc[c] = "counting"
    /\ Goto(c, "incrementing")
    /\ UNCHANGED <<graphVars, active, guarded, by, waited, begun>>

ReadMode(c) ==
    /\ pc[c] = "counting"
    /\ Goto(c, IF mode = "normal" THEN "spawning" ELSE "incrementing")
    /\ UNCHANGED <<graphVars, active, guarded, by, waited, begun>>

CountActive(c) ==
    /\ pc[c] = "incrementing"
    /\ active' = (active + 1) % Modulus
    /\ Goto(c, "spawning")
    /\ UNCHANGED <<graphVars, guarded, by, waited, begun>>

Spawn(c, w) ==
    /\ pc[c] = "spawning"
    /\ pc[w] = "idle"
    /\ pc' = [pc EXCEPT ![c] = "idle", ![w] = "spawned"]
    /\ by' = [by EXCEPT ![w] = c]
    /\ UNCHANGED <<graphVars, active, guarded, waited, begun>>
-----------------------------------------------------------------------------
(* vxProcessGraph: the caller's own thread runs execute_graph_nodes.         *)

BeginProcess(c) ==
    /\ Careful => Quiet /\ mode = "normal"
    /\ Call(c, "process", IF verified THEN "marking" ELSE "verifyToProcess")
    /\ Begin
    /\ UNCHANGED <<graphVars, active, guarded, by>>

MarkRunning(c) ==
    /\ pc[c] = "marking"
    /\ state' = "Running"
    /\ Goto(c, "spawned")
    /\ UNCHANGED <<mode, verified, current, active, guarded, by, waited, begun>>
-----------------------------------------------------------------------------
(* execute_graph_nodes.                                                      *)

(* The guard exists whenever the mode is not Normal, whoever the caller is.  *)
BeginNodes(t) ==
    /\ pc[t] = "spawned"
    /\ guarded' = IF mode = "normal" THEN guarded ELSE guarded \cup {t}
    /\ Goto(t, "nodes")
    /\ UNCHANGED <<graphVars, active, by, waited, begun>>

CompleteNodes(t) ==
    /\ pc[t] = "nodes"
    /\ state' = "Completed"
    /\ Goto(t, "ageing")
    /\ UNCHANGED <<mode, verified, current, active, guarded, by, waited, begun>>

(* Fault: a failed execution leaves the graph running.                       *)
AbandonRunning(t) ==
    /\ MayFail
    /\ pc[t] = "nodes"
    /\ Goto(t, "leaving")
    /\ UNCHANGED <<graphVars, active, guarded, by, waited, begun>>

AbandonNodes(t) ==
    /\ MayFail
    /\ pc[t] = "nodes"
    /\ state' = "Abandoned"
    /\ Goto(t, "leaving")
    /\ UNCHANGED <<mode, verified, current, active, guarded, by, waited, begun>>

(* run_count and auto_age_delays come after the state.                       *)
auto_age_delays(t) ==
    /\ pc[t] = "ageing"
    /\ Goto(t, "leaving")
    /\ UNCHANGED <<graphVars, active, guarded, by, waited, begun>>

(* Fault: a signed counter, decremented whether or not there is a guard.     *)
LeaveUnguarded(t) ==
    /\ pc[t] = "leaving"
    /\ guarded' = guarded \ {t}
    /\ active' = active - 1
    /\ Goto(t, IF active = 1 THEN "signalling" ELSE "idle")
    /\ UNCHANGED <<graphVars, by, waited, begun>>

(* ActiveExecGuard is dropped: fetch_sub wraps at zero, and only the step    *)
(* from one to zero goes on to lock active_mutex and notify_all.             *)
Leave(t) ==
    /\ pc[t] = "leaving"
    /\ guarded' = guarded \ {t}
    /\ active' = IF t \in guarded THEN (active + Modulus - 1) % Modulus ELSE active
    /\ Goto(t, IF t \in guarded /\ active = 1 THEN "signalling" ELSE "idle")
    /\ UNCHANGED <<graphVars, by, waited, begun>>

(* Fault: notify_one for notify_all.                                         *)
SignalOne(t) ==
    /\ pc[t] = "signalling"
    /\ LET asleep == {u \in Threads : pc[u] = "asleep"} IN
       \/ asleep = {} /\ Goto(t, "idle")
       \/ \E u \in asleep : pc' = [pc EXCEPT ![t] = "idle", ![u] = "woken"]
    /\ UNCHANGED <<graphVars, active, guarded, by, waited, begun>>

Signal(t) ==
    /\ pc[t] = "signalling"
    /\ pc' = [u \in Threads |-> IF u = t THEN "idle"
                                ELSE IF pc[u] = "asleep" THEN "woken" ELSE pc[u]]
    /\ UNCHANGED <<graphVars, active, guarded, by, waited, begun>>
-----------------------------------------------------------------------------
(* execute_pipelined_graph on the QUEUE_AUTO executor; it leaves the state   *)
(* alone and ages the delays before its guard is dropped.                    *)

BeginAuto ==
    /\ mode = "auto"
    /\ Careful => verified
    /\ pc[Executor] = "idle"
    /\ Begin
    /\ active' = (active + 1) % Modulus
    /\ guarded' = guarded \cup {Executor}
    /\ Goto(Executor, IF verified THEN "executing" ELSE "verifyToExecute")
    /\ UNCHANGED <<graphVars, by, waited>>

EndAuto ==
    /\ pc[Executor] = "executing"
    /\ Goto(Executor, "leaving")
    /\ UNCHANGED <<graphVars, active, guarded, by, waited, begun>>
-----------------------------------------------------------------------------
(* vxWaitGraph: on active_executions in the pipelining modes, on the state   *)
(* otherwise.                                                                *)

BeginWait(c) ==
    /\ Call(c, "wait", IF mode = "normal" THEN "checkingState" ELSE "checkingActive")
    /\ UNCHANGED <<graphVars, active, guarded, by, begun>>

(* Fault: one execution in flight is not waited for.                         *)
WaitForAllButOne(c) ==
    /\ pc[c] \in {"checkingActive", "woken"}
    /\ IF active > 1 THEN Goto(c, "asleep") /\ UNCHANGED waited
                     ELSE Goto(c, "idle") /\ waited' = waited \cup {c}
    /\ UNCHANGED <<graphVars, active, guarded, by, begun>>

(* One hold of active_mutex, which sleeping releases.                        *)
WaitActive(c) ==
    /\ pc[c] \in {"checkingActive", "woken"}
    /\ IF active > 0 THEN Goto(c, "asleep") /\ UNCHANGED waited
                     ELSE Goto(c, "idle") /\ waited' = waited \cup {c}
    /\ UNCHANGED <<graphVars, active, guarded, by, begun>>

SpuriousWake(c) ==
    /\ pc[c] = "asleep"
    /\ Goto(c, "woken")
    /\ UNCHANGED <<graphVars, active, guarded, by, waited, begun>>

(* A graph that is not running is not waited for; a running one is polled.   *)
WaitState(c) ==
    /\ \/ pc[c] = "checkingState"
       \/ pc[c] = "polling" /\ state \in {"Completed", "Abandoned"}
    /\ waited' = IF state = "Completed" THEN waited \cup {c} ELSE waited
    /\ Goto(c, IF state = "Running" THEN "polling" ELSE "idle")
    /\ UNCHANGED <<graphVars, active, guarded, by, begun>>
-----------------------------------------------------------------------------
Verify(t)   == vxVerifyGraph(t) \/ FailVerify(t)
Schedule(c) == Claim(c) \/ ReadMode(c) \/ CountActive(c) \/ \E w \in Workers : Spawn(c, w)
RunNodes(t) == BeginNodes(t) \/ CompleteNodes(t) \/ AbandonNodes(t) \/ auto_age_delays(t)
Drop(t)     == Leave(t) \/ Signal(t)
Wait(c)     == WaitActive(c) \/ WaitState(c)

Next ==
    \/ \E m \in Modes : vxSetGraphScheduleConfig(m)
    \/ vxCreateGenericNode \/ vxRemoveNode
    \/ \E c \in Clients :
          \/ BeginVerify(c) \/ BeginSchedule(c) \/ BeginProcess(c) \/ BeginWait(c)
          \/ Schedule(c) \/ MarkRunning(c) \/ Wait(c) \/ SpuriousWake(c)
    \/ \E t \in Threads : Verify(t) \/ Drop(t)
    \/ \E t \in Runners : RunNodes(t)
    \/ BeginAuto \/ EndAuto

(* Threads inside the library keep running; the application need not call    *)
(* it, and the executor need not find references to work on.                 *)
Fairness ==
    /\ \A t \in Threads : WF_vars(Verify(t)) /\ WF_vars(Drop(t))
    /\ \A t \in Runners : WF_vars(RunNodes(t))
    /\ \A c \in Clients : WF_vars(Schedule(c)) /\ WF_vars(MarkRunning(c)) /\ WF_vars(Wait(c))
    /\ WF_vars(EndAuto)

Spec     == Init /\ [][Next]_vars
FairSpec == Spec /\ Fairness
-----------------------------------------------------------------------------
TypeOK ==
    /\ mode \in {"normal", "manual", "auto"}
    /\ state \in {"Unverified", "Verified", "Running", "Completed", "Abandoned"}
    /\ verified \in BOOLEAN /\ current \in BOOLEAN
    /\ active \in 0..(Modulus - 1)
    /\ pc \in [Threads ->
                  {"idle", "claiming", "counting", "incrementing", "spawning", "marking",
                   "spawned", "nodes", "ageing", "leaving", "signalling", "executing",
                   "checkingActive", "asleep", "woken", "checkingState", "polling"}
                      \cup DOMAIN AfterVerify]
    /\ guarded \subseteq Threads
    /\ by \in [Workers -> Clients]
    /\ waited \subseteq Clients
    /\ begun \in 0..MaxExecutions

(* Executions vxScheduleGraph has counted and handed to nobody yet, those    *)
(* handed to a worker, and the executor's.                                   *)
Handover == {c \in Clients : pc[c] = "spawning"}
Waiting  == {w \in Workers : pc[w] = "spawned"}
InFlight == (IF mode = "normal" THEN {} ELSE Handover \cup Waiting) \cup guarded

(* active_executions is the number of executions in flight, so that          *)
(* vxWaitGraph returns neither early nor never.                              *)
ActiveCountsExecutions == active = Cardinality(InFlight)

(* The decrement is outside active_mutex and the notification inside: no     *)
(* vxWaitGraph sleeps through the end of the last execution.                 *)
NoLostCompletion ==
    (\E c \in Clients : pc[c] = "asleep") /\ active = 0 =>
        \E t \in Threads : pc[t] = "signalling"

(* Executions scheduled but whose nodes have not all run, and those not over.*)
Unfinished(c) == {w \in Workers : by[w] = c /\ pc[w] \in {"spawned", "nodes"}}
Unaged(c)     == {w \in Workers : by[w] = c /\ pc[w] = "ageing"}

(* vxScheduleGraph refuses a graph that is already scheduled.                *)
OneScheduledExecution ==
    Cardinality({c \in Clients : pc[c] \in {"counting", "incrementing", "spawning"}}
                  \cup {w \in Workers : pc[w] \in {"spawned", "nodes"}}) <= 1

(* When vxWaitGraph returns VX_SUCCESS, the nodes of every execution the     *)
(* caller has scheduled have run; in the pipelining modes their delays have  *)
(* been aged too.                                                            *)
WaitSeesResults ==
    \A c \in waited : Unfinished(c) = {} /\ (mode # "normal" => Unaged(c) = {})

(* A graph in state Running has a thread that will end that state.           *)
NeverStuckRunning ==
    state = "Running" =>
        \/ \E c \in Clients : pc[c] \in {"counting", "incrementing", "spawning"}
        \/ \E t \in Runners : pc[t] \in {"spawned", "nodes"}

(* Nodes run in an order that vxVerifyGraph has established for them.        *)
NodesInVerifiedOrder ==
    \A t \in Threads : pc[t] \in {"nodes", "executing"} => current

(* Every vxWaitGraph returns.                                                *)
WaitReturns ==
    \A c \in Clients :
        pc[c] \in {"checkingActive", "asleep", "woken", "checkingState", "polling"}
            ~> pc[c] = "idle"
=============================================================================
