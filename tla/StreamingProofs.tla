--------------------------- MODULE StreamingProofs ---------------------------
(* Streaming under one controlling thread, for any number of other threads   *)
(* and of sessions: one loop at a time, which somebody can stop, a stop that *)
(* is final, and sessions that start on reset counters.                      *)
EXTENDS Streaming, FiniteSetTheorems, TLAPS

OneController == \A c, d \in Controllers : c = d

Places == {"idle", "checking", "resetting", "clearing", "spawning", "storing",
           "stopping", "taking", "joining", "disabling"}

TypeInv ==
    /\ handle \in Loops \cup {None}
    /\ loop \in [Loops -> {"none", "top", "frame", "exited"}]
    /\ pc \in [Clients -> Places]
    /\ holds \in [Clients -> Loops \cup {None}]
    /\ live \in BOOLEAN /\ stopped \in BOOLEAN /\ stop \in BOOLEAN

(* Only the controller is ever inside a call, and no call is in progress on  *)
(* a released graph.                                                         *)
CallInv ==
    /\ \A c \in Clients : pc[c] # "idle" => c \in Controllers /\ live /\ ~stopped
    /\ \A c \in Clients : holds[c] # None <=> pc[c] \in {"storing", "joining"}

(* Where a call has made sure that nothing is stored, and that nothing runs. *)
HandleInv == \A c \in Clients :
    /\ pc[c] \in {"resetting", "clearing", "spawning", "storing", "joining", "disabling"} => handle = None
    /\ pc[c] \in {"resetting", "clearing", "spawning", "disabling"} => Looping = {}

(* A running graph has a frame in progress, unless it was released.          *)
StateInv == live /\ state = "Running" => \E l \in Loops : loop[l] = "frame"

Alone == \A l, m \in Looping : l = m

ControlInv == TypeInv /\ CallInv /\ HandleInv /\ StateInv /\ Alone
                /\ LoopsAreOwned /\ StopIsFinal /\ SessionStartsReset
-----------------------------------------------------------------------------
LEMMA InitControl == Init => ControlInv
BY StreamingAssumption
   DEF Init, ControlInv, TypeInv, CallInv, HandleInv, StateInv, Alone, LoopsAreOwned, StopIsFinal,
       SessionStartsReset, Looping, Places

USE DEF Places

(* A step of the controller: everybody else is outside.                      *)
LEMMA OthersIdle ==
  ASSUME OneController, CallInv, NEW c \in Controllers, NEW d \in Clients, d # c
  PROVE  pc[d] = "idle" /\ holds[d] = None
BY DEF OneController, CallInv

LEMMA OutsideStep ==
  ASSUME OneController, ControlInv, NEW c \in Clients,
         vxEnableGraphStreaming(c) \/ vxReleaseGraph(c)
  PROVE  ControlInv'
<1> USE DEF ControlInv, TypeInv, CallInv, HandleInv, StateInv, Alone, LoopsAreOwned, StopIsFinal,
            SessionStartsReset, Looping, flags
<1>1. CASE vxEnableGraphStreaming(c)
  BY <1>1 DEF vxEnableGraphStreaming
<1>2. CASE vxReleaseGraph(c)
  <2>1. TypeInv' /\ CallInv'
    BY <1>2 DEF vxReleaseGraph
  <2>2. HandleInv'
    BY <1>2 DEF vxReleaseGraph
  <2>3. StateInv' /\ Alone' /\ LoopsAreOwned'
    BY <1>2 DEF vxReleaseGraph
  <2>4. StopIsFinal' /\ SessionStartsReset'
    BY <1>2 DEF vxReleaseGraph
  <2> QED
    BY <2>1, <2>2, <2>3, <2>4
<1> QED
  BY <1>1, <1>2

LEMMA StartStep ==
  ASSUME OneController, ControlInv, NEW c \in Controllers, CheckEnabled(c) \/ Start(c)
  PROVE  ControlInv'
<1> USE DEF ControlInv, TypeInv, CallInv, HandleInv, StateInv, Alone, LoopsAreOwned, StopIsFinal,
            SessionStartsReset, Looping, flags, At
<1>c. c \in Clients /\ \A d \in Clients : d # c => pc[d] = "idle" /\ holds[d] = None
  BY StreamingAssumption, OthersIdle
<1>n. None \notin Loops
  BY StreamingAssumption
<1>1. CASE CheckEnabled(c)
  <2>0. TypeInv'
    BY <1>1, <1>c DEF CheckEnabled
  <2>1. CallInv'
    <3>1. c \in Controllers /\ live' /\ ~stopped' /\ holds' = holds /\ holds[c] = None
      BY <1>1, <1>c DEF CheckEnabled
    <3>2. pc'[c] \notin {"storing", "joining"} /\ \A d \in Clients : d # c => pc'[d] = pc[d]
      BY <1>1, <1>c DEF CheckEnabled
    <3> QED
      BY <3>1, <3>2, <1>c
  <2>2. HandleInv'
    BY <1>1, <1>c, <1>n DEF CheckEnabled
  <2>3. StateInv' /\ Alone' /\ LoopsAreOwned'
    BY <1>1, <1>c, <1>n DEF CheckEnabled
  <2>4. StopIsFinal' /\ SessionStartsReset'
    BY <1>1, <1>c, <1>n DEF CheckEnabled
  <2> QED
    BY <2>0, <2>1, <2>2, <2>3, <2>4
<1>2. CASE CheckNotStreaming(c)
  BY <1>2, <1>c, <1>n DEF CheckNotStreaming
<1>3. CASE ResetCounters(c)
  BY <1>3, <1>c, <1>n DEF ResetCounters
<1>4. CASE ClearStop(c)
  <2>0. TypeInv'
    BY <1>4, <1>c DEF ClearStop
  <2>1. CallInv'
    <3>1. c \in Controllers /\ live' /\ ~stopped' /\ holds' = holds /\ holds[c] = None
      BY <1>4, <1>c DEF ClearStop
    <3>2. pc'[c] \notin {"storing", "joining"} /\ \A d \in Clients : d # c => pc'[d] = pc[d]
      BY <1>4, <1>c DEF ClearStop
    <3> QED
      BY <3>1, <3>2, <1>c
  <2>2. HandleInv'
    BY <1>4, <1>c, <1>n DEF ClearStop
  <2>3. StateInv' /\ Alone' /\ LoopsAreOwned'
    BY <1>4, <1>c, <1>n DEF ClearStop
  <2>4. StopIsFinal' /\ SessionStartsReset'
    BY <1>4, <1>c, <1>n DEF ClearStop
  <2> QED
    BY <2>0, <2>1, <2>2, <2>3, <2>4
<1>5. CASE Spawn(c)
  <2>1. PICK l \in Loops : loop[l] = "none" /\ loop' = [loop EXCEPT ![l] = "top"]
                             /\ holds' = [holds EXCEPT ![c] = l]
    BY <1>5 DEF Spawn, Unspawned
  <2>2. pc[c] = "spawning" /\ pc' = [pc EXCEPT ![c] = "storing"]
          /\ UNCHANGED <<flags, counters, state, live, stopped>>
    BY <1>5 DEF Spawn
  <2>3. Looping = {} /\ handle = None /\ Looping' = {l}
    BY <1>c, <2>1, <2>2
  <2> QED
    BY <1>c, <1>n, <2>1, <2>2, <2>3
<1>6. CASE StoreHandle(c)
  BY <1>6, <1>c, <1>n DEF StoreHandle
<1> QED
  BY <1>1, <1>2, <1>3, <1>4, <1>5, <1>6 DEF Start

LEMMA StopStep ==
  ASSUME OneController, ControlInv, NEW c \in Controllers, CheckStreaming(c) \/ Stop(c)
  PROVE  ControlInv'
<1> USE DEF ControlInv, TypeInv, CallInv, HandleInv, StateInv, Alone, LoopsAreOwned, StopIsFinal,
            SessionStartsReset, Looping, flags, At
<1>c. c \in Clients /\ \A d \in Clients : d # c => pc[d] = "idle" /\ holds[d] = None
  BY StreamingAssumption, OthersIdle
<1>n. None \notin Loops
  BY StreamingAssumption
<1>1. CASE CheckStreaming(c)
  <2>0. TypeInv'
    BY <1>1, <1>c DEF CheckStreaming
  <2>1. CallInv'
    <3>1. c \in Controllers /\ live' /\ ~stopped' /\ holds' = holds /\ holds[c] = None
      BY <1>1, <1>c DEF CheckStreaming
    <3>2. pc'[c] \notin {"storing", "joining"} /\ \A d \in Clients : d # c => pc'[d] = pc[d]
      BY <1>1, <1>c DEF CheckStreaming
    <3> QED
      BY <3>1, <3>2, <1>c
  <2>2. HandleInv'
    BY <1>1, <1>c, <1>n DEF CheckStreaming
  <2>3. StateInv' /\ Alone' /\ LoopsAreOwned'
    BY <1>1, <1>c, <1>n DEF CheckStreaming
  <2>4. StopIsFinal' /\ SessionStartsReset'
    BY <1>1, <1>c, <1>n DEF CheckStreaming
  <2> QED
    BY <2>0, <2>1, <2>2, <2>3, <2>4
<1>2. CASE RaiseStop(c)
  BY <1>2, <1>c, <1>n DEF RaiseStop
<1>3. CASE TakeHandle(c)
  BY <1>3, <1>c, <1>n DEF TakeHandle
<1>4. CASE Join(c)
  BY <1>4, <1>c, <1>n DEF Join
<1>5. CASE Disable(c)
  BY <1>5, <1>c, <1>n DEF Disable
<1> QED
  BY <1>1, <1>2, <1>3, <1>4, <1>5 DEF Stop

(* A streaming thread goes on or exits; none begins.                         *)
LEMMA LoopStep ==
  ASSUME OneController, ControlInv, NEW l \in Loops, streaming_loop(l)
  PROVE  ControlInv'
<1> USE DEF ControlInv, TypeInv, CallInv, HandleInv, StateInv, Alone, LoopsAreOwned, StopIsFinal,
            SessionStartsReset, Looping, flags
<1>1. CASE BeginFrame(l)
  BY <1>1 DEF BeginFrame
<1>2. CASE EndFrame(l)
  BY <1>2 DEF EndFrame
<1>3. CASE FailFrame(l)
  BY <1>3 DEF FailFrame
<1>4. CASE ObserveStop(l)
  BY <1>4 DEF ObserveStop
<1> QED
  BY <1>1, <1>2, <1>3, <1>4 DEF streaming_loop

LEMMA ControlStep == OneController /\ ControlInv /\ [Next]_vars => ControlInv'
<1> SUFFICES ASSUME OneController, ControlInv, [Next]_vars PROVE ControlInv'
  OBVIOUS
<1>1. CASE UNCHANGED vars
  BY <1>1 DEF vars, flags, ControlInv, TypeInv, CallInv, HandleInv, StateInv, Alone, LoopsAreOwned,
              StopIsFinal, SessionStartsReset, Looping
<1>2. CASE Next
  BY <1>2, OutsideStep, StartStep, StopStep, LoopStep, Zenon DEF Next
<1> QED
  BY <1>1, <1>2

LEMMA AloneIsOne == ASSUME Alone PROVE OneLoop
<1>1. CASE Looping = {}
  BY <1>1, FS_EmptySet DEF OneLoop
<1>2. CASE Looping # {}
  <2>1. PICK l \in Looping : Looping = {l}
    BY <1>2 DEF Alone
  <2> QED
    BY <2>1, FS_Singleton DEF OneLoop
<1> QED
  BY <1>1, <1>2

(* With one controlling thread (vxStartGraphStreaming and                    *)
(* vxStopGraphStreaming are not called by two threads at once), there is     *)
(* never more than one streaming thread, it can always be found and stopped, *)
(* a successful stop leaves none and no running graph, and each session      *)
(* starts on reset execution counters.                                       *)
THEOREM LoopsAreControlled == ASSUME OneController PROVE Spec => []LoopUnderControl
<1>1. Init => ControlInv
  BY InitControl
<1>2. ControlInv /\ [Next]_vars => ControlInv'
  BY ControlStep
<1>3. ControlInv => LoopUnderControl
  BY AloneIsOne DEF ControlInv, LoopUnderControl
<1> QED
  BY <1>1, <1>2, <1>3, PTL DEF Spec
=============================================================================
