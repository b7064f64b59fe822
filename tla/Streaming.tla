------------------------------ MODULE Streaming ------------------------------
(* Streaming mode of one verified graph (pipelining_api.rs): application     *)
(* threads that enable, start and stop streaming, and the streaming_loop     *)
(* threads they start.  They share the flags streaming_enabled and           *)
(* streaming_stop, the handle in streaming_thread, the graph's state, and    *)
(* the execution counters of its nodes.  Every flag, lock and join is a step *)
(* of its own.                                                               *)
EXTENDS Naturals, FiniteSets

CONSTANTS Clients,     \* application threads
          Controllers, \* those that start and stop streaming
          MaxLoops,    \* bound: streaming threads spawned
          MayFail,     \* whether nodes may fail
          None

Loops == 1..MaxLoops

ASSUME StreamingAssumption ==
    /\ Controllers \subseteq Clients
    /\ MaxLoops \in Nat
    /\ None \notin Loops
    /\ MayFail \in BOOLEAN

VARIABLES enabled,  \* streaming_enabled
          stop,     \* streaming_stop
          handle,   \* streaming_thread
          counters, \* the nodes' execution_count: "reset", or not since a frame
          state,    \* VxGraphState
          live,     \* the graph is in GRAPHS_DATA and GRAPH_PIPELINING
          loop,     \* where each streaming thread is
          pc,       \* where each application thread is
          holds,    \* the streaming thread it has just spawned or is to join
          stopped   \* whether the last call to return was a successful stop

flags == <<enabled, stop, handle>>
vars  == <<flags, counters, state, live, loop, pc, holds, stopped>>

Init == /\ enabled = FALSE /\ stop = FALSE /\ handle = None
        /\ counters = "reset" /\ state = "Verified" /\ live = TRUE
        /\ loop = [l \in Loops |-> "none"]
        /\ pc = [c \in Clients |-> "idle"]
        /\ holds = [c \in Clients |-> None]
        /\ stopped = FALSE

At(c, here, there) == pc[c] = here /\ pc' = [pc EXCEPT ![c] = there]
-----------------------------------------------------------------------------
vxEnableGraphStreaming(c) ==
    /\ pc[c] = "idle" /\ live
    /\ enabled' = TRUE
    /\ UNCHANGED <<stop, handle, counters, state, live, loop, pc, holds, stopped>>
-----------------------------------------------------------------------------
(* vxStartGraphStreaming.                                                    *)

CheckEnabled(c) ==
    /\ live /\ enabled
    /\ At(c, "idle", "checking")
    /\ stopped' = FALSE
    /\ UNCHANGED <<flags, counters, state, live, loop, holds>>

(* Fault: a graph that is streaming can be started again.                    *)
CheckNothing(c) ==
    /\ At(c, "checking", "resetting")
    /\ UNCHANGED <<flags, counters, state, live, loop, holds, stopped>>

(* VX_FAILURE when a handle is there.                                        *)
CheckNotStreaming(c) ==
    /\ At(c, "checking", IF handle = None THEN "resetting" ELSE "idle")
    /\ UNCHANGED <<flags, counters, state, live, loop, holds, stopped>>

ResetCounters(c) ==
    /\ At(c, "resetting", "clearing")
    /\ counters' = "reset"
    /\ UNCHANGED <<flags, state, live, loop, holds, stopped>>

ClearStop(c) ==
    /\ At(c, "clearing", "spawning")
    /\ stop' = FALSE
    /\ UNCHANGED <<enabled, handle, counters, state, live, loop, holds, stopped>>

Unspawned == {l \in Loops : loop[l] = "none"}

Spawn(c) ==
    /\ At(c, "spawning", "storing")
    /\ \E l \in Unspawned :
          /\ \A m \in Unspawned : l <= m
          /\ loop' = [loop EXCEPT ![l] = "top"]
          /\ holds' = [holds EXCEPT ![c] = l]
    /\ UNCHANGED <<flags, counters, state, live, stopped>>

(* Fault: the starting thread is stored for the thread started.              *)
StoreStarter(c) ==
    /\ At(c, "storing", "idle")
    /\ handle' = c
    /\ holds' = [holds EXCEPT ![c] = None]
    /\ UNCHANGED <<enabled, stop, counters, state, live, loop, stopped>>

(* A handle that was stored meanwhile is overwritten: its thread is detached.*)
StoreHandle(c) ==
    /\ At(c, "storing", "idle")
    /\ handle' = holds[c]
    /\ holds' = [holds EXCEPT ![c] = None]
    /\ UNCHANGED <<enabled, stop, counters, state, live, loop, stopped>>

Start(c) == CheckNotStreaming(c) \/ ResetCounters(c) \/ ClearStop(c) \/ Spawn(c) \/ StoreHandle(c)
-----------------------------------------------------------------------------
(* streaming_loop.                                                           *)

BeginFrame(l) ==
    /\ loop[l] = "top" /\ ~stop
    /\ loop' = [loop EXCEPT ![l] = "frame"]
    /\ state' = IF live THEN "Running" ELSE state
    /\ UNCHANGED <<flags, counters, live, pc, holds, stopped>>

(* execute_graph_nodes runs the frame; without the graph it fails.           *)
EndFrame(l) ==
    /\ loop[l] = "frame" /\ live
    /\ loop' = [loop EXCEPT ![l] = "top"]
    /\ state' = "Completed" /\ counters' = "used"
    /\ UNCHANGED <<flags, live, pc, holds, stopped>>

(* Fault: the loop goes on after a failed frame.                             *)
RetryFrame(l) ==
    /\ loop[l] = "frame"
    /\ MayFail \/ ~live
    /\ loop' = [loop EXCEPT ![l] = "top"]
    /\ state' = IF live THEN "Abandoned" ELSE state
    /\ counters' \in {counters, "used"}
    /\ UNCHANGED <<flags, live, pc, holds, stopped>>

FailFrame(l) ==
    /\ loop[l] = "frame"
    /\ MayFail \/ ~live
    /\ loop' = [loop EXCEPT ![l] = "exited"]
    /\ state' = IF live THEN "Abandoned" ELSE state
    /\ counters' \in {counters, "used"}
    /\ UNCHANGED <<flags, live, pc, holds, stopped>>

ObserveStop(l) ==
    /\ loop[l] = "top" /\ stop
    /\ loop' = [loop EXCEPT ![l] = "exited"]
    /\ UNCHANGED <<flags, counters, state, live, pc, holds, stopped>>

streaming_loop(l) == BeginFrame(l) \/ EndFrame(l) \/ FailFrame(l) \/ ObserveStop(l)
-----------------------------------------------------------------------------
(* vxStopGraphStreaming.                                                     *)

(* VX_FAILURE when there is no handle.                                       *)
CheckStreaming(c) ==
    /\ live /\ handle # None
    /\ At(c, "idle", "stopping")
    /\ stopped' = FALSE
    /\ UNCHANGED <<flags, counters, state, live, loop, holds>>

(* Fault: the signal is not raised.                                          *)
StopUnraised(c) ==
    /\ At(c, "stopping", "taking")
    /\ UNCHANGED <<flags, counters, state, live, loop, holds, stopped>>

RaiseStop(c) ==
    /\ At(c, "stopping", "taking")
    /\ stop' = TRUE
    /\ UNCHANGED <<enabled, handle, counters, state, live, loop, holds, stopped>>

(* Fault: the thread is detached.                                            *)
DropHandle(c) ==
    /\ At(c, "taking", "disabling")
    /\ handle' = None
    /\ UNCHANGED <<enabled, stop, counters, state, live, loop, holds, stopped>>

(* Another stop may have taken the handle: then there is nothing to join.    *)
TakeHandle(c) ==
    /\ At(c, "taking", IF handle = None THEN "disabling" ELSE "joining")
    /\ handle' = None
    /\ holds' = [holds EXCEPT ![c] = handle]
    /\ UNCHANGED <<enabled, stop, counters, state, live, loop, stopped>>

Join(c) ==
    /\ At(c, "joining", "disabling")
    /\ loop[holds[c]] = "exited"
    /\ holds' = [holds EXCEPT ![c] = None]
    /\ UNCHANGED <<flags, counters, state, live, loop, stopped>>

Disable(c) ==
    /\ At(c, "disabling", "idle")
    /\ enabled' = FALSE
    /\ stopped' = TRUE
    /\ UNCHANGED <<stop, handle, counters, state, live, loop, holds>>

Stop(c) == RaiseStop(c) \/ TakeHandle(c) \/ Join(c) \/ Disable(c)
-----------------------------------------------------------------------------
(* The last vxReleaseGraph drops the graph and its pipelining state, handle  *)
(* included, and does not stop streaming.                                    *)
vxReleaseGraph(c) ==
    /\ \A d \in Clients : pc[d] = "idle"
    /\ live
    /\ live' = FALSE
    /\ handle' = None
    /\ UNCHANGED <<enabled, stop, counters, state, loop, pc, holds, stopped>>

Next == \/ \E c \in Clients : vxEnableGraphStreaming(c) \/ vxReleaseGraph(c)
        \/ \E c \in Controllers :
              CheckEnabled(c) \/ Start(c) \/ CheckStreaming(c) \/ Stop(c)
        \/ \E l \in Loops : streaming_loop(l)

(* Threads inside the library keep running and frames end.                   *)
Fairness == /\ \A c \in Controllers : WF_vars(Start(c) \/ Stop(c))
            /\ \A l \in Loops : WF_vars(streaming_loop(l))

Spec     == Init /\ [][Next]_vars
FairSpec == Spec /\ Fairness
-----------------------------------------------------------------------------
Looping == {l \in Loops : loop[l] \in {"top", "frame"}}

OneLoop == Cardinality(Looping) <= 1

StopIsFinal == stopped => Looping = {} /\ state # "Running"

LoopsAreOwned ==
    live => \A l \in Looping : handle = l \/ \E c \in Clients : holds[c] = l

SessionStartsReset ==
    \A c \in Clients : pc[c] \in {"clearing", "spawning"} => counters = "reset"

(* One graph is streamed by one thread, as long as one thread starts and     *)
(* stops it; somebody holds the handle of a streaming thread that can still  *)
(* run a frame, so that it can be stopped, unless its graph was released;    *)
(* when vxStopGraphStreaming has returned success and nothing was called     *)
(* since, no frame is being executed and the graph is not left running; and  *)
(* no frame of an earlier session is counted in a new one.                   *)
LoopUnderControl == OneLoop /\ LoopsAreOwned /\ StopIsFinal /\ SessionStartsReset

(* vxStopGraphStreaming returns.                                             *)
StopReturns == \A c \in Controllers : pc[c] \in {"stopping", "taking", "joining", "disabling"}
                                          ~> pc[c] = "idle"

(* The streaming thread of a released graph exits.                           *)
ReleaseEndsStreaming == ~live ~> Looping = {}
=============================================================================
