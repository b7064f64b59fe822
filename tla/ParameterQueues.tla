--------------------------- MODULE ParameterQueues ---------------------------
(* The parameter queues of one graph (VxGraphParameterQueue and the queueing *)
(* functions of pipelining_api.rs) with everybody who touches them: the      *)
(* application enqueuing references and dequeuing done ones, the QUEUE_AUTO  *)
(* executor thread, and threads that run the graph through                   *)
(* execute_graph_nodes.  A reference is the number of its enqueue call on    *)
(* its parameter, so an application that enqueues the same image again       *)
(* enqueues a new number.  An execution is seen from the queues only: it     *)
(* resolves its graph parameters in the order its nodes ask for them, and    *)
(* hands the consumed references back when it ends.  The jobs that a failed  *)
(* parallel wave leaves in the pool go on resolving and using references     *)
(* after the end of their execution, beside the next one.                    *)
EXTENDS Naturals, FiniteSets, SequencesExt

CONSTANTS Params,         \* graph parameters with a queue
          AutoThreads,    \* the QUEUE_AUTO executor: it takes execution_mutex
          DirectThreads,  \* callers of execute_graph_nodes: they do not
          LeftOvers,      \* failed waves with jobs in the pool; bound: so many at once
          Dequeuers,      \* application threads in vxGraphParameterDequeueDoneRef
          MaxRefs,        \* max_refs arguments
          BatchSizes,     \* num_refs arguments of vxGraphParameterEnqueueReadyRef
          MayFail,        \* whether a node may fail
          IsPipelining,   \* whether the schedule mode is a queueing one
          MaxEnqueued,    \* bound: references enqueued on a parameter
          None

Executors == AutoThreads \cup DirectThreads
Threads   == Executors \cup LeftOvers

ASSUME QueueAssumption ==
    /\ Params # {}
    /\ AutoThreads \cap DirectThreads = {}
    /\ Executors \cap LeftOvers = {}
    /\ IsFiniteSet(Dequeuers)
    /\ None \notin Threads \cup Params
    /\ BatchSizes \subseteq Nat \ {0}
    /\ MaxRefs \subseteq Nat
    /\ MaxEnqueued \in Nat
    /\ MayFail \in BOOLEAN
    /\ IsPipelining \in BOOLEAN
    /\ AutoThreads # {} => IsPipelining

VARIABLES ready, consumed, done,  \* the three VecDeques of each queue
          enqueued,               \* references enqueued so far on each parameter
          tables,                 \* holder of the GRAPH_PIPELINING and queue-table locks
          executionMutex,         \* holder of execution_mutex
          pc,                     \* where each executing thread or left-over wave is
          left,                   \* parameters it has still to resolve, or to hand back
          hand,                   \* the reference between ready and consumed, if any
          bound,                  \* the reference its execution uses per parameter
          dequeuer                \* the state of each dequeuing thread

queueVars == <<ready, consumed, done, enqueued>>
lockVars  == <<tables, executionMutex>>
execVars  == <<pc, left, hand, bound>>
vars      == <<queueVars, lockVars, execVars, dequeuer>>

(* 0 stands for the object bound to the parameter without a queue.           *)
Unbound == [p \in Params |-> 0]
NoHand  == [param |-> None, ref |-> 0]
Idle    == [at |-> "idle", param |-> None, max |-> 0]

Init == /\ ready    = [p \in Params |-> <<>>]
        /\ consumed = [p \in Params |-> <<>>]
        /\ done     = [p \in Params |-> <<>>]
        /\ enqueued = [p \in Params |-> 0]
        /\ tables = None
        /\ executionMutex = None
        /\ pc    = [t \in Threads |-> "idle"]
        /\ left  = [t \in Threads |-> {}]
        /\ hand  = [t \in Threads |-> NoHand]
        /\ bound = [t \in Threads |-> Unbound]
        /\ dequeuer = [d \in Dequeuers |-> Idle]
-----------------------------------------------------------------------------
(* The application enqueues.  One hold of the ready lock appends the batch.  *)

vxGraphParameterEnqueueReadyRef(p, n) ==
    /\ enqueued[p] + n <= MaxEnqueued
    /\ tables = None
    /\ ready' = [ready EXCEPT ![p] = @ \o [i \in 1..n |-> enqueued[p] + i]]
    /\ enqueued' = [enqueued EXCEPT ![p] = @ + n]
    /\ UNCHANGED <<consumed, done, lockVars, execVars, dequeuer>>
-----------------------------------------------------------------------------
(* An execution begins.                                                      *)

(* Fault: the executor starts on one ready reference.                        *)
SeeAnyReady(t) ==
    /\ pc[t] = "idle" /\ tables = None
    /\ \E p \in Params : ready[p] # <<>>
    /\ pc' = [pc EXCEPT ![t] = "checked"]
    /\ UNCHANGED <<queueVars, lockVars, left, hand, bound, dequeuer>>

(* Fault: the executor wants more than one reference in every queue.         *)
SeeManyReady(t) ==
    /\ pc[t] = "idle" /\ tables = None
    /\ \A p \in Params : Len(ready[p]) > 1
    /\ pc' = [pc EXCEPT ![t] = "checked"]
    /\ UNCHANGED <<queueVars, lockVars, left, hand, bound, dequeuer>>

(* executor_loop: every queue holds a reference.  What it saw may be stale   *)
(* when execute_pipelined_graph has the mutex.                               *)
SeeAllReady(t) ==
    /\ pc[t] = "idle"
    /\ tables = None
    /\ \A p \in Params : ready[p] # <<>>
    /\ pc' = [pc EXCEPT ![t] = "checked"]
    /\ UNCHANGED <<queueVars, lockVars, left, hand, bound, dequeuer>>

execute_pipelined_graph(t) ==
    /\ pc[t] = "checked"
    /\ executionMutex = None
    /\ executionMutex' = t
    /\ pc' = [pc EXCEPT ![t] = "running"]
    /\ left' = [left EXCEPT ![t] = Params]
    /\ UNCHANGED <<queueVars, tables, hand, bound, dequeuer>>

(* One turn of the loop of execute_graph_nodes.  No mutex is taken.  In a    *)
(* queueing mode every turn, the first included, wants a reference in some   *)
(* queue; in Normal mode the queues of an application that enqueued all the  *)
(* same are taken as they are.                                               *)
BeginDirectTurn(t) ==
    /\ pc[t] = "idle"
    /\ tables = None
    /\ IsPipelining => \E p \in Params : ready[p] # <<>>
    /\ pc' = [pc EXCEPT ![t] = "running"]
    /\ left' = [left EXCEPT ![t] = Params]
    /\ UNCHANGED <<queueVars, lockVars, hand, bound, dequeuer>>
-----------------------------------------------------------------------------
(* resolve_graph_parameter, under the locks of both tables.                  *)

(* Fault: the newest reference is taken.                                     *)
PopNewest(t, p) ==
    /\ pc[t] = "running" /\ p \in left[t] /\ tables = None
    /\ ready[p] # <<>>
    /\ tables' = t
    /\ hand' = [hand EXCEPT ![t] = [param |-> p, ref |-> Last(ready[p])]]
    /\ ready' = [ready EXCEPT ![p] = Front(@)]
    /\ pc' = [pc EXCEPT ![t] = "resolving"]
    /\ left' = [left EXCEPT ![t] = @ \ {p}]
    /\ UNCHANGED <<consumed, done, enqueued, executionMutex, bound, dequeuer>>

PopReady(t, p) ==
    /\ pc[t] = "running"
    /\ p \in left[t]
    /\ tables = None
    /\ ready[p] # <<>>
    /\ tables' = t
    /\ hand' = [hand EXCEPT ![t] = [param |-> p, ref |-> Head(ready[p])]]
    /\ ready' = [ready EXCEPT ![p] = Tail(@)]
    /\ pc' = [pc EXCEPT ![t] = "resolving"]
    /\ left' = [left EXCEPT ![t] = @ \ {p}]
    /\ UNCHANGED <<consumed, done, enqueued, executionMutex, bound, dequeuer>>

(* Fault: the reference is done as soon as it is resolved.                   *)
PushDone(t) ==
    /\ pc[t] = "resolving"
    /\ done' = [done EXCEPT ![hand[t].param] = Append(@, hand[t].ref)]
    /\ bound' = [bound EXCEPT ![t][hand[t].param] = hand[t].ref]
    /\ hand' = [hand EXCEPT ![t] = NoHand]
    /\ tables' = None
    /\ pc' = [pc EXCEPT ![t] = "running"]
    /\ UNCHANGED <<ready, consumed, enqueued, executionMutex, left, dequeuer>>

PushConsumed(t) ==
    /\ pc[t] = "resolving"
    /\ consumed' = [consumed EXCEPT ![hand[t].param] = Append(@, hand[t].ref)]
    /\ bound' = [bound EXCEPT ![t][hand[t].param] = hand[t].ref]
    /\ hand' = [hand EXCEPT ![t] = NoHand]
    /\ tables' = None
    /\ pc' = [pc EXCEPT ![t] = "running"]
    /\ UNCHANGED <<ready, done, enqueued, executionMutex, left, dequeuer>>

(* Nothing is ready: the reference consumed last, or the plain binding.      *)
ResolveWithoutReady(t, p) ==
    /\ pc[t] = "running"
    /\ p \in left[t]
    /\ tables = None
    /\ ready[p] = <<>>
    /\ bound' = [bound EXCEPT ![t][p] =
                    IF consumed[p] = <<>> THEN 0 ELSE consumed[p][Len(consumed[p])]]
    /\ left' = [left EXCEPT ![t] = @ \ {p}]
    /\ UNCHANGED <<queueVars, lockVars, pc, hand, dequeuer>>
-----------------------------------------------------------------------------
(* An execution ends: all its nodes have run, or one of them failed.         *)

EndNodes(t) ==
    /\ pc[t] = "running"
    /\ left[t] = {}
    /\ pc' = [pc EXCEPT ![t] = "finishing"]
    /\ left' = [left EXCEPT ![t] = Params]
    /\ UNCHANGED <<queueVars, lockVars, hand, bound, dequeuer>>

(* A node fails that ran on the execution's own thread, or the last of its   *)
(* wave.                                                                     *)
FailNode(t) ==
    /\ MayFail
    /\ pc[t] = "running"
    /\ pc' = [pc EXCEPT ![t] = "finishing"]
    /\ left' = [left EXCEPT ![t] = Params]
    /\ UNCHANGED <<queueVars, lockVars, hand, bound, dequeuer>>

(* A node of a parallel wave fails.  execute_pipelined_graph returns at the  *)
(* first such result and leaves the wave's other jobs in the pool: some have *)
(* parameters to resolve, others have resolved theirs and use them.          *)
FailWave(t, w) ==
    /\ MayFail
    /\ pc[t] = "running"
    /\ pc[w] = "idle"
    /\ \E unresolved \in SUBSET left[t], used \in SUBSET (Params \ left[t]) :
          /\ left' = [left EXCEPT ![t] = Params, ![w] = unresolved]
          /\ bound' = [bound EXCEPT ![w] = [p \in Params |-> IF p \in used THEN bound[t][p] ELSE 0]]
    /\ pc' = [pc EXCEPT ![t] = "finishing", ![w] = "running"]
    /\ UNCHANGED <<queueVars, lockVars, hand, dequeuer>>

(* The last left-over job of a wave is through; nobody receives its result.  *)
EndLeftOver(w) ==
    /\ pc[w] = "running"
    /\ left[w] = {}
    /\ pc' = [pc EXCEPT ![w] = "idle"]
    /\ bound' = [bound EXCEPT ![w] = Unbound]
    /\ UNCHANGED <<queueVars, lockVars, left, hand, dequeuer>>

AsleepOn(p)   == {d \in Dequeuers : dequeuer[d].at = "asleep" /\ dequeuer[d].param = p}
NotifiedOn(p) == {d \in Dequeuers : dequeuer[d].at = "notified" /\ dequeuer[d].param = p}

(* Fault: move_refs_to_done wakes nobody.                                    *)
NotifyNobody(p) == UNCHANGED dequeuer

(* Condvar::notify_one on the queue's done_cv.                               *)
NotifyOne(p) == IF AsleepOn(p) = {}
                  THEN UNCHANGED dequeuer
                  ELSE \E d \in AsleepOn(p) :
                          dequeuer' = [dequeuer EXCEPT ![d].at = "notified"]

(* Fault: what was consumed last is handed back first.                       *)
MoveInFront(t, p) ==
    /\ pc[t] = "finishing" /\ p \in left[t] /\ tables = None
    /\ done' = [done EXCEPT ![p] = consumed[p] \o @]
    /\ consumed' = [consumed EXCEPT ![p] = <<>>]
    /\ NotifyOne(p)
    /\ left' = [left EXCEPT ![t] = @ \ {p}]
    /\ UNCHANGED <<ready, enqueued, lockVars, pc, hand, bound>>

(* Under the consumed and done locks: everything consumed, by whatever       *)
(* execution, becomes done, and one dequeuer is notified.                    *)
move_refs_to_done(t, p) ==
    /\ pc[t] = "finishing"
    /\ p \in left[t]
    /\ tables = None
    /\ done' = [done EXCEPT ![p] = @ \o consumed[p]]
    /\ consumed' = [consumed EXCEPT ![p] = <<>>]
    /\ NotifyOne(p)
    /\ left' = [left EXCEPT ![t] = @ \ {p}]
    /\ UNCHANGED <<ready, enqueued, lockVars, pc, hand, bound>>

EndExecution(t) ==
    /\ pc[t] = "finishing"
    /\ left[t] = {}
    /\ pc' = [pc EXCEPT ![t] = "idle"]
    /\ bound' = [bound EXCEPT ![t] = Unbound]
    /\ executionMutex' = IF executionMutex = t THEN None ELSE executionMutex
    /\ UNCHANGED <<queueVars, tables, left, hand, dequeuer>>
-----------------------------------------------------------------------------
(* vxGraphParameterDequeueDoneRef.                                           *)

EnterDequeue(d, p, max) ==
    /\ dequeuer[d].at = "idle"
    /\ tables = None
    /\ dequeuer' = [dequeuer EXCEPT ![d] = [at |-> "entering", param |-> p, max |-> max]]
    /\ UNCHANGED <<queueVars, lockVars, execVars>>

(* Fault: the loop sleeps whatever is done.                                  *)
SleepUnchecked(d) ==
    /\ dequeuer[d].at \in {"entering", "notified"}
    /\ dequeuer' = [dequeuer EXCEPT ![d].at = "asleep"]
    /\ UNCHANGED <<queueVars, lockVars, execVars>>

SleepOnDone(d) ==
    /\ dequeuer[d].at \in {"entering", "notified"}
    /\ done[dequeuer[d].param] = <<>>
    /\ dequeuer' = [dequeuer EXCEPT ![d].at = "asleep"]
    /\ UNCHANGED <<queueVars, lockVars, execVars>>

(* As many references as there are, up to max_refs, which may be 0.          *)
TakeDone(d) ==
    LET p == dequeuer[d].param
        n == IF dequeuer[d].max < Len(done[p]) THEN dequeuer[d].max ELSE Len(done[p])
    IN  /\ dequeuer[d].at \in {"entering", "notified"}
        /\ done[p] # <<>>
        /\ done' = [done EXCEPT ![p] = SubSeq(@, n + 1, Len(@))]
        /\ dequeuer' = [dequeuer EXCEPT ![d] = Idle]
        /\ UNCHANGED <<ready, consumed, enqueued, lockVars, execVars>>

(* std::sync::Condvar may wake a sleeper for no reason.                      *)
SpuriousWake(d) ==
    /\ dequeuer[d].at = "asleep"
    /\ dequeuer' = [dequeuer EXCEPT ![d].at = "notified"]
    /\ UNCHANGED <<queueVars, lockVars, execVars>>
-----------------------------------------------------------------------------
Resolve(t) == \/ \E p \in Params : PopReady(t, p) \/ ResolveWithoutReady(t, p)
              \/ PushConsumed(t)

Finish(t) == \/ EndNodes(t)
             \/ \E p \in Params : move_refs_to_done(t, p)
             \/ EndExecution(t)

BeginAuto(t) == SeeAllReady(t) \/ execute_pipelined_graph(t)

Next ==
    \/ \E p \in Params, n \in BatchSizes : vxGraphParameterEnqueueReadyRef(p, n)
    \/ \E t \in AutoThreads : BeginAuto(t)
    \/ \E t \in DirectThreads : BeginDirectTurn(t)
    \/ \E t \in Threads : Resolve(t)
    \/ \E t \in Executors : Finish(t) \/ FailNode(t)
    \/ \E t \in AutoThreads, w \in LeftOvers : FailWave(t, w)
    \/ \E w \in LeftOvers : EndLeftOver(w)
    \/ \E d \in Dequeuers :
          \/ \E p \in Params, max \in MaxRefs : EnterDequeue(d, p, max)
          \/ SleepOnDone(d)
          \/ TakeDone(d)
          \/ SpuriousWake(d)

(* The executor thread polls for ever, an execution and the jobs of the pool *)
(* run to their end; a dequeuer inside the call keeps running.  The          *)
(* application need not enqueue or dequeue, and need not schedule the graph; *)
(* no node need fail.                                                        *)
Fairness ==
    /\ \A t \in AutoThreads : WF_vars(BeginAuto(t))
    /\ \A t \in Threads : WF_vars(Resolve(t))
    /\ \A t \in Executors : WF_vars(Finish(t))
    /\ \A w \in LeftOvers : WF_vars(EndLeftOver(w))
    /\ \A d \in Dequeuers : WF_vars(SleepOnDone(d) \/ TakeDone(d))

Spec     == Init /\ [][Next]_vars
FairSpec == Spec /\ Fairness
-----------------------------------------------------------------------------
TypeOK ==
    /\ ready \in [Params -> Seq(Nat)]
    /\ consumed \in [Params -> Seq(Nat)]
    /\ done \in [Params -> Seq(Nat)]
    /\ enqueued \in [Params -> Nat]
    /\ tables \in Threads \cup {None}
    /\ executionMutex \in Threads \cup {None}
    /\ pc \in [Threads -> {"idle", "checked", "running", "resolving", "finishing"}]
    /\ left \in [Threads -> SUBSET Params]
    /\ hand \in [Threads -> {NoHand} \cup [param : Params, ref : Nat]]
    /\ bound \in [Threads -> [Params -> Nat]]
    /\ dequeuer \in [Dequeuers -> {Idle} \cup [at : {"entering", "asleep", "notified"},
                                              param : Params, max : MaxRefs]]

(* The reference on its way from ready to consumed; the tables' locks allow  *)
(* one.                                                                      *)
Transit(p) == IF tables # None /\ hand[tables].param = p THEN <<hand[tables].ref>> ELSE <<>>

(* All a queue holds, what has to be dequeued first in front.               *)
Whole == [p \in Params |-> done[p] \o consumed[p] \o Transit(p) \o ready[p]]

(* The graph parameter queues are FIFO and lose and duplicate nothing, with  *)
(* any number of executions at once and whatever failed waves leave behind:  *)
(* together they are one pipe.                                               *)
Pipe == INSTANCE ReferencePipe WITH pipe <- Whole
ImplementsPipe == Pipe!Spec

(* A reference that an execution, or a job left over from one, is using has  *)
(* not been handed back: it is still in the consumed queue, where no         *)
(* vxGraphParameterDequeueDoneRef finds it.  Kept as long as executions do   *)
(* not overlap and no wave fails.                                            *)
NoRefReturnedInUse ==
    \A t \in Threads, p \in Params :
        pc[t] \in {"running", "resolving"} /\ bound[t][p] # 0 =>
            Contains(consumed[p], bound[t][p])

(* No wakeup of done_cv is lost although move_refs_to_done notifies one      *)
(* dequeuer whatever it moved: a dequeuer asleep while references are done   *)
(* has woken ones ahead of it, one per reference.  Kept as long as           *)
(* executions do not overlap, no wave fails and nobody asks for 0 references.*)
NoStrandedDequeuer ==
    \A p \in Params : AsleepOn(p) # {} => Len(done[p]) <= Cardinality(NotifiedOn(p))

(* Once an execution has all its parameters, it works on one full set of     *)
(* queued references: the n-th of every queue.  The executor's check that    *)
(* every queue is ready and the pops are separate holds of the locks.        *)
ParametersInStep(t) == \A p, q \in Params : bound[t][p] = bound[t][q]
FullSetOfRefs(t)    == \A p \in Params : bound[t][p] # 0

OneSetPerExecution ==
    \A t \in Executors : pc[t] = "running" /\ left[t] = {} =>
        ParametersInStep(t) /\ FullSetOfRefs(t)

(* References enqueued on every queue are taken up and come back as done.    *)
ReadySetsAreProcessed ==
    \A p \in Params, n \in 1..MaxEnqueued :
        (\A q \in Params : enqueued[q] >= n)
            ~> (\A i \in 1..Len(consumed[p] \o Transit(p) \o ready[p]) :
                    (consumed[p] \o Transit(p) \o ready[p])[i] > n)

(* A dequeuer blocked while references are done gets some, or others have    *)
(* taken them all.  Also when executions overlap and fail: each of them      *)
(* notifies once more.  But a job that a failed wave left behind consumes    *)
(* without notifying, and who asks for nothing takes a notification.         *)
PoolLeftClear == \A w \in LeftOvers : pc[w] = "idle"
AllWantRefs   == \A d \in Dequeuers : dequeuer[d].at # "idle" => dequeuer[d].max > 0

BlockedDequeuerServed ==
    [](PoolLeftClear /\ AllWantRefs) =>
        \A d \in Dequeuers, p \in Params :
            (dequeuer[d].at # "idle" /\ dequeuer[d].param = p /\ done[p] # <<>>)
                ~> (dequeuer[d].at = "idle" \/ done[p] = <<>>)
=============================================================================
