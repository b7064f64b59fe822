------------------------ MODULE GraphExecutionProofs ------------------------
(* What vxWaitGraph relies on, for any number of application threads,        *)
(* background threads and executions; and what vxVerifyGraph decides and the *)
(* order it leaves, for any graph whose objects its maps can tell apart.     *)
EXTENDS GraphExecution, GraphVerify, Integers, FiniteSetTheorems, SequenceTheorems,
        WellFoundedInduction, TLAPS

PcValues == {"idle", "claiming", "counting", "incrementing", "spawning", "marking",
             "spawned", "nodes", "ageing", "leaving", "signalling", "executing",
             "checkingActive", "asleep", "woken", "checkingState", "polling",
             "verifyOnly", "verifyToSchedule", "verifyToProcess", "verifyToExecute"}

(* The threads of TypeOK's pc, spelled out.                                  *)
LEMMA PcType == TypeOK => pc \in [Threads -> PcValues]
BY DEF TypeOK, PcValues, AfterVerify

(* Where verification may begin, and where it leads.                         *)
LEMMA VerifyPlaces ==
  /\ DOMAIN AfterVerify = {"verifyOnly", "verifyToSchedule", "verifyToProcess", "verifyToExecute"}
  /\ AfterVerify["verifyOnly"] = "idle" /\ AfterVerify["verifyToSchedule"] = "claiming"
  /\ AfterVerify["verifyToProcess"] = "marking" /\ AfterVerify["verifyToExecute"] = "executing"
  /\ AfterFailure["verifyOnly"] = "idle" /\ AfterFailure["verifyToSchedule"] = "idle"
  /\ AfterFailure["verifyToProcess"] = "idle" /\ AfterFailure["verifyToExecute"] = "leaving"
BY DEF AfterVerify, AfterFailure

(* Where each kind of thread can be.                                         *)
ClientPlaces == {"idle", "claiming", "counting", "incrementing", "spawning",
                 "checkingActive", "asleep", "woken", "checkingState", "polling",
                 "verifyOnly", "verifyToSchedule"}
WorkerPlaces == {"idle", "spawned", "nodes", "ageing", "leaving", "signalling"}
ExecutorPlaces == {"idle", "verifyToExecute", "executing", "leaving", "signalling"}

(* Threads keep to their part of the code, and the guards exist exactly      *)
(* while counted executions run.                                             *)
GuardInv ==
    /\ \A c \in Clients : pc[c] \in ClientPlaces /\ c \notin guarded
    /\ \A c \in Clients : pc[c] = "incrementing" => mode # "normal"
    /\ \A w \in Workers : /\ pc[w] \in WorkerPlaces
                          /\ w \in guarded <=>
                                mode # "normal" /\ pc[w] \in {"nodes", "ageing", "leaving"}
    /\ pc[Executor] \in ExecutorPlaces
    /\ Executor \in guarded <=> pc[Executor] \in {"verifyToExecute", "executing", "leaving"}
    /\ Executor \in guarded => mode = "auto"

(* Each action keeps the types.                                              *)
LEMMA TypeStep == TypeOK /\ [Next]_vars => TypeOK'
<1> SUFFICES ASSUME TypeOK, [Next]_vars PROVE TypeOK'
  OBVIOUS
<1> USE ExecutionAssumption DEF TypeOK, graphVars, Threads, Runners, Goto, Call, Begin
<1>0. Modulus \in Nat \ {0} /\ (active + 1) % Modulus \in 0..(Modulus - 1)
      /\ (active + Modulus - 1) % Modulus \in 0..(Modulus - 1)
  <2>1. Modulus \in Nat /\ Modulus > 0
    BY FS_CardinalityType
  <2> QED
    BY <2>1
<1>1. ASSUME NEW m \in Modes, vxSetGraphScheduleConfig(m) PROVE TypeOK'
  BY <1>1 DEF vxSetGraphScheduleConfig
<1>2. ASSUME vxCreateGenericNode \/ vxRemoveNode PROVE TypeOK'
  BY <1>2 DEF vxCreateGenericNode, vxRemoveNode
<1>3. ASSUME NEW c \in Clients, BeginVerify(c) PROVE TypeOK'
  BY <1>3, VerifyPlaces DEF BeginVerify
<1>4. ASSUME NEW c \in Clients, BeginSchedule(c) PROVE TypeOK'
  BY <1>4, VerifyPlaces DEF BeginSchedule
<1>5. ASSUME NEW c \in Clients, BeginProcess(c) PROVE TypeOK'
  BY <1>5, VerifyPlaces DEF BeginProcess
<1>6. ASSUME NEW c \in Clients, BeginWait(c) PROVE TypeOK'
  BY <1>6 DEF BeginWait
<1>7. ASSUME NEW c \in Clients, Claim(c) PROVE TypeOK'
  BY <1>7 DEF Claim
<1>8. ASSUME NEW c \in Clients, ReadMode(c) PROVE TypeOK'
  BY <1>8 DEF ReadMode
<1>9. ASSUME NEW c \in Clients, CountActive(c) PROVE TypeOK'
  BY <1>0, <1>9 DEF CountActive
<1>10. ASSUME NEW c \in Clients, NEW w \in Workers, Spawn(c, w) PROVE TypeOK'
  BY <1>10 DEF Spawn
<1>11. ASSUME NEW c \in Clients, MarkRunning(c) PROVE TypeOK'
  BY <1>11 DEF MarkRunning
<1>12. ASSUME NEW c \in Clients, Wait(c) PROVE TypeOK'
  BY <1>12 DEF Wait, WaitActive, WaitState
<1>13. ASSUME NEW c \in Clients, SpuriousWake(c) PROVE TypeOK'
  BY <1>13 DEF SpuriousWake
<1>14. ASSUME NEW t \in Threads, Verify(t) PROVE TypeOK'
  <2>1. pc[t] \in {"verifyOnly", "verifyToSchedule", "verifyToProcess", "verifyToExecute"}
    BY <1>14, VerifyPlaces DEF Verify, vxVerifyGraph, FailVerify
  <2>2. CASE vxVerifyGraph(t)
    BY <2>1, <2>2, VerifyPlaces DEF vxVerifyGraph
  <2>3. CASE FailVerify(t)
    BY <2>1, <2>3, VerifyPlaces DEF FailVerify
  <2> QED
    BY <1>14, <2>2, <2>3 DEF Verify
<1>15. ASSUME NEW t \in Threads, Leave(t) PROVE TypeOK'
  BY <1>0, <1>15 DEF Leave
<1>16. ASSUME NEW t \in Threads, Signal(t) PROVE TypeOK'
  BY <1>16 DEF Signal
<1>17. ASSUME NEW t \in Runners, RunNodes(t) PROVE TypeOK'
  BY <1>17 DEF RunNodes, BeginNodes, CompleteNodes, AbandonNodes, auto_age_delays
<1>18. ASSUME BeginAuto PROVE TypeOK'
  BY <1>0, <1>18, VerifyPlaces DEF BeginAuto
<1>19. ASSUME EndAuto PROVE TypeOK'
  BY <1>19 DEF EndAuto
<1>20. CASE UNCHANGED vars
  BY <1>20 DEF vars
<1>21. CASE Next
  BY <1>21, <1>1, <1>2, <1>3, <1>4, <1>5, <1>6, <1>7, <1>8, <1>9, <1>10, <1>11, <1>12, <1>13,
     <1>14, <1>15, <1>16, <1>17, <1>18, <1>19, Zenon DEF Next, Schedule, Drop
<1> QED
  BY <1>20, <1>21

(* Initially everything is well formed.                                      *)
LEMMA InitType == Init => TypeOK
<1>1. Modulus \in Nat /\ Modulus > 0
  BY ExecutionAssumption, FS_CardinalityType
<1>2. 0 \in 0..(Modulus - 1) /\ 0 \in 0..MaxExecutions
  BY <1>1, ExecutionAssumption
<1> QED
  BY <1>2, Zenon DEF Init, TypeOK

(* The graph's state, the count and the threads are always well formed; in   *)
(* particular active_executions stays a 32-bit number.                       *)
THEOREM TypeCorrect == Spec => []TypeOK
BY InitType, TypeStep, PTL DEF Spec
-----------------------------------------------------------------------------
(* What follows holds of applications that do not call vxProcessGraph.       *)

(* Threads keep to their places when nobody calls vxProcessGraph.            *)
LEMMA GuardStep ==
  ASSUME "process" \notin Calls
  PROVE  TypeOK /\ GuardInv /\ [Next]_vars => GuardInv'
<1> SUFFICES ASSUME TypeOK, GuardInv, [Next]_vars PROVE GuardInv'
  OBVIOUS
<1> USE ExecutionAssumption
    DEF GuardInv, ClientPlaces, WorkerPlaces, ExecutorPlaces, Goto, Call, graphVars
<1>t. pc \in [Threads -> PcValues] /\ Clients \subseteq Threads /\ Workers \subseteq Threads
      /\ Executor \in Threads /\ Executor \notin Clients /\ Executor \notin Workers
  BY PcType DEF Threads, Runners
<1>a. ASSUME UNCHANGED <<mode, pc, guarded>> PROVE GuardInv'
  BY <1>a
<1>b. ASSUME NEW c \in Clients, NEW where \in ClientPlaces, pc' = [pc EXCEPT ![c] = where],
             UNCHANGED <<mode, guarded>>, where = "incrementing" => mode # "normal"
      PROVE  GuardInv'
  BY <1>b, <1>t
<1>1. ASSUME NEW m \in Modes, vxSetGraphScheduleConfig(m) PROVE GuardInv'
  BY <1>1, <1>t DEF vxSetGraphScheduleConfig, Quiet
<1>2. ASSUME NEW c \in Clients,
             BeginVerify(c) \/ BeginSchedule(c) \/ BeginWait(c) \/ Claim(c) \/ ReadMode(c)
                \/ CountActive(c) \/ Wait(c) \/ SpuriousWake(c)
      PROVE  GuardInv'
  <2>1. PICK where \in ClientPlaces :
           /\ pc' = [pc EXCEPT ![c] = where] /\ UNCHANGED <<mode, guarded>>
           /\ where = "incrementing" => mode # "normal"
    BY <1>2, <1>t DEF BeginVerify, BeginSchedule, BeginWait, Claim, ReadMode, CountActive, Wait,
                WaitActive, WaitState, SpuriousWake
  <2> QED
    BY <2>1, <1>b
<1>3. ASSUME NEW c \in Clients, BeginProcess(c) \/ MarkRunning(c) PROVE FALSE
  BY <1>3 DEF BeginProcess, MarkRunning
<1>4. ASSUME NEW c \in Clients, NEW w \in Workers, Spawn(c, w) PROVE GuardInv'
  BY <1>4, <1>t DEF Spawn
<1>5. ASSUME NEW t \in Threads, Verify(t) PROVE GuardInv'
  <2>1. pc[t] \in {"verifyOnly", "verifyToSchedule", "verifyToProcess", "verifyToExecute"}
    BY <1>5, VerifyPlaces DEF Verify, vxVerifyGraph, FailVerify
  <2>2. t \in Clients \cup {Executor}
    BY <2>1 DEF Threads
  <2>3. CASE t \in Clients
    <3>1. pc' = [pc EXCEPT ![t] = "idle"] \/ pc' = [pc EXCEPT ![t] = "claiming"]
      BY <1>5, <2>1, <2>3, VerifyPlaces DEF Verify, vxVerifyGraph, FailVerify
    <3>2. UNCHANGED <<mode, guarded>>
      BY <1>5 DEF Verify, vxVerifyGraph, FailVerify
    <3> QED
      BY <2>3, <3>1, <3>2, <1>b
  <2>4. CASE t = Executor
    <3>1. pc[t] = "verifyToExecute"
      BY <2>1, <2>4
    <3>2. pc' = [pc EXCEPT ![t] = "executing"] \/ pc' = [pc EXCEPT ![t] = "leaving"]
      BY <1>5, <3>1, VerifyPlaces DEF Verify, vxVerifyGraph, FailVerify
    <3>3. UNCHANGED <<mode, guarded>>
      BY <1>5 DEF Verify, vxVerifyGraph, FailVerify
    <3> QED
      BY <2>4, <3>1, <3>2, <3>3, <1>t
  <2> QED
    BY <2>2, <2>3, <2>4
<1>6. ASSUME NEW t \in Threads, Leave(t) PROVE GuardInv'
  <2>1. t \in Workers \cup {Executor} /\ pc[t] = "leaving" /\ guarded' = guarded \ {t}
        /\ UNCHANGED mode
    BY <1>6 DEF Leave, Threads
  <2>2. pc' = [pc EXCEPT ![t] = "idle"] \/ pc' = [pc EXCEPT ![t] = "signalling"]
    BY <1>6 DEF Leave
  <2> QED
    BY <2>1, <2>2, <1>t
<1>7. ASSUME NEW t \in Threads, Signal(t) PROVE GuardInv'
  BY <1>7, <1>t DEF Signal
<1>8. ASSUME NEW t \in Runners, RunNodes(t) PROVE GuardInv'
  <2>1. t \in Workers
    BY <1>8 DEF RunNodes, BeginNodes, CompleteNodes, AbandonNodes, auto_age_delays, Runners
  <2>2. CASE BeginNodes(t)
    BY <2>1, <2>2, <1>t DEF BeginNodes
  <2>3. CASE CompleteNodes(t) \/ AbandonNodes(t) \/ auto_age_delays(t)
    BY <2>1, <2>3, <1>t DEF CompleteNodes, AbandonNodes, auto_age_delays
  <2> QED
    BY <1>8, <2>2, <2>3 DEF RunNodes
<1>9. ASSUME BeginAuto PROVE GuardInv'
  BY <1>9, <1>t DEF BeginAuto
<1>10. ASSUME EndAuto PROVE GuardInv'
  BY <1>10, <1>t DEF EndAuto
<1>11. ASSUME vxCreateGenericNode \/ vxRemoveNode PROVE GuardInv'
  BY <1>11, <1>a DEF vxCreateGenericNode, vxRemoveNode
<1>12. CASE UNCHANGED vars
  BY <1>12, <1>a DEF vars
<1>13. CASE Next
  BY <1>13, <1>1, <1>2, <1>3, <1>4, <1>5, <1>6, <1>7, <1>8, <1>9, <1>10, <1>11, Zenon
  DEF Next, Schedule, Drop
<1> QED
  BY <1>12, <1>13
-----------------------------------------------------------------------------
(* The executions in flight are finitely many, before and after, and fewer   *)
(* than 2^32.                                                                *)
LEMMA InFlightFinite ==
  ASSUME TypeOK
  PROVE  /\ IsFiniteSet(InFlight) /\ Cardinality(InFlight) \in Nat
         /\ Cardinality(InFlight) < Modulus /\ Modulus \in Nat
<1>1. InFlight \subseteq Threads
  BY DEF TypeOK, InFlight, Handover, Waiting, Threads
<1>2. /\ IsFiniteSet(InFlight) /\ Cardinality(InFlight) <= Cardinality(Threads)
      /\ Cardinality(Threads) \in Nat
  BY <1>1, ExecutionAssumption, FS_Subset, FS_CardinalityType
<1>3. Cardinality(InFlight) \in Nat
  BY <1>2, FS_CardinalityType
<1> QED
  BY <1>2, <1>3, ExecutionAssumption

(* Counting one more execution.                                              *)
LEMMA CountUp ==
  ASSUME TypeOK, TypeOK', ActiveCountsExecutions, NEW x, x \notin InFlight,
         InFlight' = InFlight \cup {x}, active' = (active + 1) % Modulus
  PROVE  ActiveCountsExecutions'
<1>1. Cardinality(InFlight') = Cardinality(InFlight) + 1
  BY InFlightFinite, FS_AddElement
<1>2. Cardinality(InFlight') < Modulus /\ Cardinality(InFlight) \in Nat /\ Modulus \in Nat
  <2>1. InFlight' \subseteq Threads
    BY DEF TypeOK, InFlight, Handover, Waiting, Threads
  <2>2. Cardinality(InFlight') <= Cardinality(Threads) /\ Cardinality(Threads) \in Nat
    BY <2>1, ExecutionAssumption, FS_Subset, FS_CardinalityType
  <2> QED
    BY <1>1, <2>2, InFlightFinite, ExecutionAssumption
<1> DEFINE n == Cardinality(InFlight)
<1>3. active = n /\ active' = (active + 1) % Modulus /\ n + 1 < Modulus /\ n \in Nat
      /\ Modulus \in Nat
  BY <1>1, <1>2 DEF ActiveCountsExecutions
<1>4. active' = n + 1
  <2> HIDE DEF n
  <2> QED
    BY <1>3
<1> QED
  BY <1>1, <1>4 DEF ActiveCountsExecutions

(* Counting one execution less: nothing wraps.                               *)
LEMMA CountDown ==
  ASSUME TypeOK, ActiveCountsExecutions, NEW x \in InFlight,
         InFlight' = InFlight \ {x}, active' = (active + Modulus - 1) % Modulus
  PROVE  ActiveCountsExecutions'
<1>1. Cardinality(InFlight') = Cardinality(InFlight) - 1
  BY InFlightFinite, FS_RemoveElement
<1>2. Cardinality(InFlight) # 0
  BY InFlightFinite, FS_EmptySet
<1> DEFINE n == Cardinality(InFlight)
<1>3. active = n /\ active' = (active + Modulus - 1) % Modulus /\ n < Modulus /\ n \in Nat
      /\ n # 0 /\ Modulus \in Nat
  BY <1>2, InFlightFinite DEF ActiveCountsExecutions
<1>4. active' = n - 1
  <2> HIDE DEF n
  <2>1. n + Modulus - 1 = Modulus + (n - 1) /\ n - 1 \in 0..(Modulus - 1)
    BY <1>3
  <2> QED
    BY <1>3, <2>1
<1> QED
  BY <1>1, <1>4 DEF ActiveCountsExecutions

(* Passing an execution on from the caller to its worker.                    *)
LEMMA CountMoved ==
  ASSUME TypeOK, ActiveCountsExecutions, NEW x \in InFlight, NEW y, y \notin InFlight,
         InFlight' = (InFlight \ {x}) \cup {y}, UNCHANGED active
  PROVE  ActiveCountsExecutions'
<1>1. /\ IsFiniteSet(InFlight \ {x}) /\ y \notin InFlight \ {x}
      /\ Cardinality(InFlight \ {x}) = Cardinality(InFlight) - 1
  BY InFlightFinite, FS_RemoveElement
<1>2. Cardinality(InFlight') = Cardinality(InFlight \ {x}) + 1
  BY <1>1, FS_AddElement
<1>3. Cardinality(InFlight) \in Nat
  BY InFlightFinite
<1> QED
  BY <1>1, <1>2, <1>3 DEF ActiveCountsExecutions

(* Every change of active_executions is a change of the executions in flight.*)
LEMMA ActiveStep ==
  ASSUME "process" \notin Calls
  PROVE  TypeOK /\ TypeOK' /\ GuardInv /\ ActiveCountsExecutions /\ [Next]_vars
            => ActiveCountsExecutions'
<1> SUFFICES ASSUME TypeOK, TypeOK', GuardInv, ActiveCountsExecutions, [Next]_vars
             PROVE  ActiveCountsExecutions'
  OBVIOUS
<1> USE DEF InFlight, Handover, Waiting, Goto, Call, graphVars
<1>t. pc \in [Threads -> PcValues] /\ Clients \subseteq Threads /\ Workers \subseteq Threads
      /\ Executor \in Threads /\ Executor \notin Clients /\ Executor \notin Workers
      /\ Clients \cap Workers = {}
  BY PcType, ExecutionAssumption DEF Threads, Runners
<1>a. ASSUME UNCHANGED <<mode, active, guarded>>,
             \A c \in Clients : pc'[c] = "spawning" <=> pc[c] = "spawning",
             \A w \in Workers : pc'[w] = "spawned" <=> pc[w] = "spawned"
      PROVE  ActiveCountsExecutions'
  <2>1. InFlight' = InFlight
    BY <1>a
  <2> QED
    BY <2>1, <1>a DEF ActiveCountsExecutions
<1>1. ASSUME NEW m \in Modes, vxSetGraphScheduleConfig(m) PROVE ActiveCountsExecutions'
  <2>1. guarded = {}
    BY <1>1, <1>t DEF vxSetGraphScheduleConfig, Quiet, GuardInv, TypeOK, Threads
  <2>2. Handover = {} /\ Waiting = {} /\ UNCHANGED <<pc, guarded, active>>
    BY <1>1, <1>t DEF vxSetGraphScheduleConfig, Quiet
  <2>3. InFlight = {} /\ InFlight' = {}
    BY <2>1, <2>2
  <2> QED
    BY <2>2, <2>3 DEF ActiveCountsExecutions
<1>2. ASSUME NEW c \in Clients,
             BeginVerify(c) \/ BeginSchedule(c) \/ BeginWait(c) \/ Claim(c) \/ Wait(c)
                \/ SpuriousWake(c)
      PROVE  ActiveCountsExecutions'
  BY <1>2, <1>t, <1>a DEF BeginVerify, BeginSchedule, BeginWait, Claim, Wait, WaitActive,
                     WaitState, SpuriousWake
<1>3. ASSUME NEW c \in Clients, ReadMode(c) PROVE ActiveCountsExecutions'
  <2>1. InFlight' = InFlight
    BY <1>3, <1>t DEF ReadMode
  <2> QED
    BY <2>1, <1>3 DEF ReadMode, ActiveCountsExecutions
<1>4. ASSUME NEW c \in Clients, CountActive(c) PROVE ActiveCountsExecutions'
  <2>1. mode # "normal" /\ c \notin InFlight
    BY <1>4, <1>t DEF CountActive, GuardInv
  <2>2. InFlight' = InFlight \cup {c}
    BY <1>4, <2>1, <1>t DEF CountActive
  <2> QED
    BY <1>4, <2>1, <2>2, CountUp DEF CountActive
<1>5. ASSUME NEW c \in Clients, BeginProcess(c) \/ MarkRunning(c) PROVE FALSE
  BY <1>5 DEF BeginProcess, MarkRunning, GuardInv, ClientPlaces
<1>6. ASSUME NEW c \in Clients, NEW w \in Workers, Spawn(c, w) PROVE ActiveCountsExecutions'
  <2>1. CASE mode = "normal"
    <3>1. InFlight' = InFlight
      BY <1>6, <2>1 DEF Spawn
    <3> QED
      BY <3>1, <1>6 DEF Spawn, ActiveCountsExecutions
  <2>2. CASE mode # "normal"
    <3>1. c \in InFlight /\ w \notin InFlight /\ c \notin guarded /\ c # w
      BY <1>6, <2>2, <1>t DEF Spawn, GuardInv
    <3>2. InFlight' = (InFlight \ {c}) \cup {w}
      BY <1>6, <2>2, <3>1, <1>t DEF Spawn
    <3> QED
      BY <1>6, <3>1, <3>2, CountMoved DEF Spawn
  <2> QED
    BY <2>1, <2>2
<1>7. ASSUME NEW t \in Threads, Verify(t) PROVE ActiveCountsExecutions'
  <2>1. pc[t] \in {"verifyOnly", "verifyToSchedule", "verifyToProcess", "verifyToExecute"}
    BY <1>7, VerifyPlaces DEF Verify, vxVerifyGraph, FailVerify
  <2>2. \E where \in {"idle", "claiming", "marking", "executing", "leaving"} :
           pc' = [pc EXCEPT ![t] = where]
    BY <1>7, <2>1, VerifyPlaces DEF Verify, vxVerifyGraph, FailVerify
  <2>3. UNCHANGED <<mode, active, guarded>>
    BY <1>7 DEF Verify, vxVerifyGraph, FailVerify
  <2> QED
    BY <2>1, <2>2, <2>3, <1>t, <1>a
<1>8. ASSUME NEW t \in Threads, Leave(t) PROVE ActiveCountsExecutions'
  <2>1. /\ pc[t] = "leaving" /\ guarded' = guarded \ {t} /\ UNCHANGED mode
        /\ active' = IF t \in guarded THEN (active + Modulus - 1) % Modulus ELSE active
    BY <1>8 DEF Leave
  <2>2. pc' = [pc EXCEPT ![t] = "idle"] \/ pc' = [pc EXCEPT ![t] = "signalling"]
    BY <1>8 DEF Leave
  <2>3. InFlight' = InFlight \ {t}
    BY <2>1, <2>2, <1>t
  <2>4. CASE t \in guarded
    BY <2>1, <2>3, <2>4, CountDown
  <2>5. CASE t \notin guarded
    <3>1. t \notin InFlight
      BY <2>1, <2>5
    <3> QED
      BY <2>1, <2>3, <2>5, <3>1 DEF ActiveCountsExecutions
  <2> QED
    BY <2>4, <2>5
<1>9. ASSUME NEW t \in Threads, Signal(t) PROVE ActiveCountsExecutions'
  BY <1>9, <1>t, <1>a DEF Signal
<1>10. ASSUME NEW t \in Runners, RunNodes(t) PROVE ActiveCountsExecutions'
  <2>1. t \in Workers /\ t \in Threads
    BY <1>10, <1>t DEF RunNodes, BeginNodes, CompleteNodes, AbandonNodes, auto_age_delays,
                       Runners, GuardInv, ClientPlaces
  <2>2. CASE BeginNodes(t)
    <3>1. InFlight' = InFlight
      BY <2>1, <2>2, <1>t DEF BeginNodes
    <3> QED
      BY <3>1, <2>2 DEF BeginNodes, ActiveCountsExecutions
  <2>3. CASE CompleteNodes(t) \/ AbandonNodes(t) \/ auto_age_delays(t)
    BY <2>1, <2>3, <1>t, <1>a DEF CompleteNodes, AbandonNodes, auto_age_delays
  <2> QED
    BY <1>10, <2>2, <2>3 DEF RunNodes
<1>11. ASSUME BeginAuto PROVE ActiveCountsExecutions'
  <2>1. Executor \notin InFlight
    BY <1>11, <1>t DEF BeginAuto, GuardInv
  <2>2. InFlight' = InFlight \cup {Executor}
    BY <1>11, <1>t DEF BeginAuto
  <2> QED
    BY <1>11, <2>1, <2>2, CountUp DEF BeginAuto
<1>12. ASSUME EndAuto PROVE ActiveCountsExecutions'
  BY <1>12, <1>t, <1>a DEF EndAuto
<1>13. ASSUME vxCreateGenericNode \/ vxRemoveNode PROVE ActiveCountsExecutions'
  BY <1>13, <1>a DEF vxCreateGenericNode, vxRemoveNode
<1>14. CASE UNCHANGED vars
  BY <1>14, <1>a DEF vars
<1>15. CASE Next
  BY <1>15, <1>1, <1>2, <1>3, <1>4, <1>5, <1>6, <1>7, <1>8, <1>9, <1>10, <1>11, <1>12, <1>13,
     Zenon DEF Next, Schedule, Drop
<1> QED
  BY <1>14, <1>15

(* What the next theorems rest on.                                           *)
CountInv == TypeOK /\ GuardInv /\ ActiveCountsExecutions

LEMMA CountInvariant ==
  ASSUME "process" \notin Calls PROVE Spec => []CountInv
<1>1. Init => CountInv
  <2>1. ASSUME Init PROVE GuardInv
    BY <2>1, ExecutionAssumption
    DEF Init, GuardInv, Threads, Runners, ClientPlaces, WorkerPlaces, ExecutorPlaces
  <2>2. ASSUME Init PROVE ActiveCountsExecutions
    <3>1. InFlight = {}
      BY <2>2 DEF Init, InFlight
    <3> QED
      BY <2>2, <3>1, FS_EmptySet DEF Init, ActiveCountsExecutions
  <2> QED
    BY <2>1, <2>2, InitType DEF CountInv
<1>2. CountInv /\ [Next]_vars => CountInv'
  BY TypeStep, GuardStep, ActiveStep DEF CountInv
<1> QED
  BY <1>1, <1>2, PTL DEF Spec

(* active_executions counts exactly the executions in flight, in every mode, *)
(* with failures and concurrent callers, unless the application processes    *)
(* the graph synchronously.                                                  *)
THEOREM ActiveCounts ==
  ASSUME "process" \notin Calls PROVE Spec => []ActiveCountsExecutions
<1>1. CountInv => ActiveCountsExecutions
  BY DEF CountInv
<1> QED
  BY <1>1, CountInvariant, PTL
-----------------------------------------------------------------------------
(* What an application may rely on when it schedules a graph and waits for   *)
(* it, for any number of threads and executions: a graph does not stay in    *)
(* Running, the end of the last execution is not slept through, a graph is   *)
(* scheduled once at a time, and a wait returns after the executions.        *)

(* The threads an argument speaks of, apart from each other.                 *)
LEMMA ThreadSets ==
  TypeOK => /\ pc \in [Threads -> PcValues]
            /\ Clients \subseteq Threads /\ Workers \subseteq Threads /\ Executor \in Threads
            /\ Executor \notin Clients /\ Executor \notin Workers /\ Clients \cap Workers = {}
BY PcType, ExecutionAssumption DEF Threads, Runners

(* Verification moves one thread, from and to places of no interest here.    *)
LEMMA VerifyMoves ==
  ASSUME TypeOK, NEW t \in Threads, Verify(t)
  PROVE  /\ pc[t] \in {"verifyOnly", "verifyToSchedule", "verifyToProcess", "verifyToExecute"}
         /\ \E where \in {"idle", "claiming", "marking", "executing", "leaving"} :
               pc' = [pc EXCEPT ![t] = where]
         /\ UNCHANGED <<mode, active, guarded, by, waited>>
<1>1. pc[t] \in {"verifyOnly", "verifyToSchedule", "verifyToProcess", "verifyToExecute"}
  BY VerifyPlaces DEF Verify, vxVerifyGraph, FailVerify
<1>2. \E where \in {"idle", "claiming", "marking", "executing", "leaving"} :
         pc' = [pc EXCEPT ![t] = where]
  BY <1>1, VerifyPlaces DEF Verify, vxVerifyGraph, FailVerify, Goto
<1>3. UNCHANGED <<mode, active, guarded, by, waited>>
  BY DEF Verify, vxVerifyGraph, FailVerify, graphVars
<1> QED
  BY <1>1, <1>2, <1>3
-----------------------------------------------------------------------------
(* Each action that sets Running has a thread that will end it, and each     *)
(* thread that goes away without ending it was not the one.                  *)
LEMMA RunningStep == TypeOK /\ NeverStuckRunning /\ [Next]_vars => NeverStuckRunning'
<1> SUFFICES ASSUME TypeOK, NeverStuckRunning, [Next]_vars PROVE NeverStuckRunning'
  OBVIOUS
<1> DEFINE Ending == {"counting", "incrementing", "spawning", "spawned", "nodes"}
<1> USE DEF NeverStuckRunning, Goto, Call, graphVars, Runners
<1>t. /\ pc \in [Threads -> PcValues]
      /\ Clients \subseteq Threads /\ Workers \subseteq Threads /\ Clients \cap Workers = {}
  BY ThreadSets
<1>a. ASSUME state' = "Running" => state = "Running",
             \A t \in Threads : pc[t] \in Ending => pc'[t] = pc[t]
      PROVE  NeverStuckRunning'
  BY <1>a, <1>t
<1>1. ASSUME NEW m \in Modes, vxSetGraphScheduleConfig(m) PROVE NeverStuckRunning'
  BY <1>1, <1>a DEF vxSetGraphScheduleConfig
<1>2. ASSUME vxCreateGenericNode \/ vxRemoveNode PROVE NeverStuckRunning'
  BY <1>2 DEF vxCreateGenericNode, vxRemoveNode
<1>3. ASSUME NEW c \in Clients,
             BeginVerify(c) \/ BeginSchedule(c) \/ BeginProcess(c) \/ BeginWait(c)
                \/ Wait(c) \/ SpuriousWake(c)
      PROVE  NeverStuckRunning'
  BY <1>3, <1>t, <1>a DEF BeginVerify, BeginSchedule, BeginProcess, BeginWait, Wait, WaitActive,
                          WaitState, SpuriousWake
<1>4. ASSUME NEW c \in Clients, Claim(c) PROVE NeverStuckRunning'
  <2>1. CASE state = "Running"
    BY <1>4, <2>1, <1>t, <1>a DEF Claim
  <2>2. CASE state # "Running"
    <3>1. pc'[c] = "counting"
      BY <1>4, <2>2, <1>t DEF Claim
    <3> QED
      BY <3>1
  <2> QED
    BY <2>1, <2>2
<1>5. ASSUME NEW c \in Clients, ReadMode(c) \/ CountActive(c) PROVE NeverStuckRunning'
  <2>1. pc'[c] \in {"incrementing", "spawning"}
    BY <1>5, <1>t DEF ReadMode, CountActive
  <2> QED
    BY <2>1
<1>6. ASSUME NEW c \in Clients, NEW w \in Workers, Spawn(c, w) PROVE NeverStuckRunning'
  <2>1. pc'[w] = "spawned"
    BY <1>6, <1>t DEF Spawn
  <2> QED
    BY <2>1
<1>7. ASSUME NEW c \in Clients, MarkRunning(c) PROVE NeverStuckRunning'
  <2>1. pc'[c] = "spawned"
    BY <1>7, <1>t DEF MarkRunning
  <2> QED
    BY <2>1
<1>8. ASSUME NEW t \in Threads, Verify(t) PROVE NeverStuckRunning'
  <2>1. state' = "Running" => state = "Running"
    BY <1>8 DEF Verify, vxVerifyGraph, FailVerify
  <2> QED
    BY <1>8, <2>1, <1>t, <1>a, VerifyMoves
<1>9. ASSUME NEW t \in Threads, Drop(t) PROVE NeverStuckRunning'
  BY <1>9, <1>t, <1>a DEF Drop, Leave, Signal
<1>10. ASSUME NEW t \in Runners, RunNodes(t) PROVE NeverStuckRunning'
  <2>1. CASE BeginNodes(t)
    <3>1. pc'[t] = "nodes"
      BY <2>1, <1>t DEF BeginNodes
    <3> QED
      BY <3>1
  <2>2. CASE CompleteNodes(t) \/ AbandonNodes(t)
    BY <2>2 DEF CompleteNodes, AbandonNodes
  <2>3. CASE auto_age_delays(t)
    BY <2>3, <1>t, <1>a DEF auto_age_delays
  <2> QED
    BY <1>10, <2>1, <2>2, <2>3 DEF RunNodes
<1>11. ASSUME BeginAuto \/ EndAuto PROVE NeverStuckRunning'
  BY <1>11, <1>t, <1>a, ThreadSets DEF BeginAuto, EndAuto
<1>12. CASE UNCHANGED vars
  BY <1>12, <1>a DEF vars
<1>13. CASE Next
  BY <1>13, <1>1, <1>2, <1>3, <1>4, <1>5, <1>6, <1>7, <1>8, <1>9, <1>10, <1>11, Zenon
  DEF Next, Schedule
<1> QED
  BY <1>12, <1>13

(* A graph in state Running has a thread that will end that state, whatever  *)
(* mix of vxScheduleGraph, vxProcessGraph and vxVerifyGraph the application  *)
(* calls, from any number of threads, and whatever fails.                    *)
THEOREM RunningEnds == Spec => []NeverStuckRunning
<1>1. Init => NeverStuckRunning
  BY DEF Init, NeverStuckRunning
<1> QED
  BY <1>1, RunningStep, TypeCorrect, PTL DEF Spec
-----------------------------------------------------------------------------
(* What follows holds of applications that do not call vxProcessGraph.       *)

(* While an execution is in flight the count is not zero.                    *)
LEMMA InFlightCounted ==
  ASSUME CountInv, NEW x \in InFlight PROVE active # 0
<1>1. Cardinality(InFlight) # 0
  BY InFlightFinite, FS_EmptySet DEF CountInv
<1> QED
  BY <1>1 DEF CountInv, ActiveCountsExecutions

(* Only the last execution to leave brings the count to zero, and it goes on *)
(* to notify; nobody goes to sleep on a count of zero.                       *)
LEMMA CompletionStep ==
  CountInv /\ CountInv' /\ NoLostCompletion /\ [Next]_vars => NoLostCompletion'
<1> SUFFICES ASSUME CountInv, CountInv', NoLostCompletion, [Next]_vars
             PROVE  NoLostCompletion'
  OBVIOUS
<1> USE DEF NoLostCompletion, Goto, Call, graphVars
<1>t. /\ pc \in [Threads -> PcValues] /\ active \in 0..(Modulus - 1) /\ Modulus \in Nat
      /\ Clients \subseteq Threads /\ Workers \subseteq Threads /\ Executor \in Threads
      /\ Executor \notin Clients /\ Executor \notin Workers
  BY ThreadSets, ExecutionAssumption DEF CountInv, TypeOK
<1>a. ASSUME UNCHANGED active,
             \A c \in Clients : pc'[c] = "asleep" => pc[c] = "asleep",
             \A t \in Threads : pc[t] = "signalling" => pc'[t] = "signalling"
      PROVE  NoLostCompletion'
  BY <1>a
<1>b. ASSUME active' # 0 PROVE NoLostCompletion'
  BY <1>b
<1>c. ASSUME NEW x \in InFlight' PROVE active' # 0
  <2>1. InFlight' \subseteq Threads
    BY DEF CountInv, TypeOK, InFlight, Handover, Waiting, Threads
  <2>2. IsFiniteSet(InFlight')
    BY <2>1, ExecutionAssumption, FS_Subset
  <2>3. Cardinality(InFlight') # 0
    BY <1>c, <2>2, FS_EmptySet
  <2> QED
    BY <2>3 DEF CountInv, ActiveCountsExecutions
<1>1. ASSUME NEW m \in Modes, vxSetGraphScheduleConfig(m) PROVE NoLostCompletion'
  BY <1>1, <1>a DEF vxSetGraphScheduleConfig
<1>2. ASSUME vxCreateGenericNode \/ vxRemoveNode PROVE NoLostCompletion'
  BY <1>2, <1>a DEF vxCreateGenericNode, vxRemoveNode
<1>3. ASSUME NEW c \in Clients,
             BeginVerify(c) \/ BeginSchedule(c) \/ BeginProcess(c) \/ BeginWait(c) \/ Claim(c)
                \/ ReadMode(c) \/ MarkRunning(c) \/ WaitState(c) \/ SpuriousWake(c)
      PROVE  NoLostCompletion'
  BY <1>3, <1>t, <1>a DEF BeginVerify, BeginSchedule, BeginProcess, BeginWait, Claim, ReadMode,
                          MarkRunning, WaitState, SpuriousWake
<1>4. ASSUME NEW c \in Clients, CountActive(c) PROVE NoLostCompletion'
  <2>1. pc'[c] = "spawning" /\ mode' # "normal"
    BY <1>4, <1>t DEF CountActive, CountInv, GuardInv
  <2>2. c \in InFlight'
    BY <2>1 DEF InFlight, Handover
  <2> QED
    BY <2>2, <1>b, <1>c
<1>5. ASSUME NEW c \in Clients, NEW w \in Workers, Spawn(c, w) PROVE NoLostCompletion'
  BY <1>5, <1>t, <1>a DEF Spawn
<1>6. ASSUME NEW c \in Clients, WaitActive(c) PROVE NoLostCompletion'
  <2>1. CASE active > 0
    <3>1. active' # 0
      BY <1>6, <2>1, <1>t DEF WaitActive
    <3> QED
      BY <3>1, <1>b
  <2>2. CASE ~(active > 0)
    BY <1>6, <2>2, <1>t, <1>a DEF WaitActive
  <2> QED
    BY <2>1, <2>2
<1>7. ASSUME NEW t \in Threads, Verify(t) PROVE NoLostCompletion'
  <2>1. TypeOK
    BY DEF CountInv
  <2> QED
    BY <1>7, <2>1, <1>t, <1>a, VerifyMoves
<1>8. ASSUME NEW t \in Threads, Leave(t) PROVE NoLostCompletion'
  <2>1. CASE t \in guarded /\ active = 1
    <3>1. pc'[t] = "signalling"
      BY <1>8, <2>1, <1>t DEF Leave
    <3> QED
      BY <3>1
  <2>2. CASE t \in guarded /\ active # 1
    <3>1. active # 0
      BY <2>2, InFlightCounted DEF InFlight
    <3>2. active + Modulus - 1 = Modulus + (active - 1) /\ active - 1 \in 1..(Modulus - 1)
      BY <2>2, <3>1, <1>t
    <3>3. (active + Modulus - 1) % Modulus = active - 1
      BY <3>2, <1>t
    <3>4. active' # 0
      BY <1>8, <2>2, <3>2, <3>3 DEF Leave
    <3> QED
      BY <3>4, <1>b
  <2>3. CASE t \notin guarded
    BY <1>8, <2>3, <1>t, <1>a DEF Leave
  <2> QED
    BY <2>1, <2>2, <2>3
<1>9. ASSUME NEW t \in Threads, Signal(t) PROVE NoLostCompletion'
  <2>1. \A c \in Clients : pc'[c] # "asleep"
    BY <1>9, <1>t DEF Signal
  <2> QED
    BY <2>1
<1>10. ASSUME NEW t \in Runners, RunNodes(t) PROVE NoLostCompletion'
  BY <1>10, <1>t, <1>a DEF RunNodes, BeginNodes, CompleteNodes, AbandonNodes, auto_age_delays,
                           Runners
<1>11. ASSUME BeginAuto PROVE NoLostCompletion'
  <2>1. Executor \in InFlight'
    BY <1>11 DEF BeginAuto, InFlight
  <2> QED
    BY <2>1, <1>b, <1>c
<1>12. ASSUME EndAuto PROVE NoLostCompletion'
  BY <1>12, <1>t, <1>a DEF EndAuto
<1>13. CASE UNCHANGED vars
  BY <1>13, <1>a DEF vars
<1>14. CASE Next
  BY <1>14, <1>1, <1>2, <1>3, <1>4, <1>5, <1>6, <1>7, <1>8, <1>9, <1>10, <1>11, <1>12, Zenon
  DEF Next, Schedule, Drop, Wait
<1> QED
  BY <1>13, <1>14

(* No vxWaitGraph sleeps through the end of the last execution, although     *)
(* ActiveExecGuard decrements without holding active_mutex.                  *)
THEOREM CompletionsAreSignalled ==
  ASSUME "process" \notin Calls PROVE Spec => []NoLostCompletion
<1>1. Init => NoLostCompletion
  BY ExecutionAssumption DEF Init, NoLostCompletion, Threads
<1> QED
  BY <1>1, CompletionStep, CountInvariant, PTL DEF Spec
-----------------------------------------------------------------------------
(* What follows holds of applications that verify a graph before they        *)
(* schedule it or enqueue references, and not at the same time.              *)

Scheduled == {c \in Clients : pc[c] \in {"counting", "incrementing", "spawning"}}
                \cup {w \in Workers : pc[w] \in {"spawned", "nodes"}}

(* The state says Running as long as the one scheduled execution has not run *)
(* its nodes, and nothing is scheduled under a verification, the only other  *)
(* writer of the state.                                                      *)
ScheduleInv ==
    /\ \A c \in Clients : pc[c] # "verifyToSchedule"
    /\ pc[Executor] # "verifyToExecute"
    /\ \A x, y \in Scheduled : x = y
    /\ \A x \in Scheduled : state = "Running"
    /\ (\E c \in Clients : pc[c] = "verifyOnly") =>
           Scheduled = {} /\ \A c \in Clients : pc[c] # "claiming"

LEMMA ScheduleStep ==
  ASSUME Careful, "process" \notin Calls
  PROVE  TypeOK /\ GuardInv /\ ScheduleInv /\ [Next]_vars => ScheduleInv'
<1> SUFFICES ASSUME TypeOK, GuardInv, ScheduleInv, [Next]_vars PROVE ScheduleInv'
  OBVIOUS
<1> DEFINE Steps == {"counting", "incrementing", "spawning", "spawned", "nodes"}
<1> USE DEF ScheduleInv, Scheduled, Goto, Call, graphVars
<1>t. /\ pc \in [Threads -> PcValues]
      /\ Clients \subseteq Threads /\ Workers \subseteq Threads /\ Executor \in Threads
      /\ Executor \notin Clients /\ Executor \notin Workers /\ Clients \cap Workers = {}
  BY ThreadSets
<1>a. ASSUME UNCHANGED state,
             pc'[Executor] # "verifyToExecute",
             \A c \in Clients : pc'[c] \in {"verifyToSchedule", "verifyOnly", "claiming"} \cup Steps
                                  => pc'[c] = pc[c],
             \A w \in Workers : pc'[w] \in Steps => pc'[w] = pc[w]
      PROVE  ScheduleInv'
  BY <1>a
<1>2. ASSUME NEW m \in Modes, vxSetGraphScheduleConfig(m) PROVE ScheduleInv'
  BY <1>2, <1>a DEF vxSetGraphScheduleConfig
<1>3. ASSUME vxCreateGenericNode \/ vxRemoveNode PROVE ScheduleInv'
  BY <1>3, <1>t DEF vxCreateGenericNode, vxRemoveNode, Quiet
<1>4. ASSUME NEW c \in Clients, BeginVerify(c) PROVE ScheduleInv'
  <2>1. \A t \in Threads : pc'[t] = IF t = c THEN "verifyOnly" ELSE "idle"
    BY <1>4, <1>t DEF BeginVerify, Quiet
  <2> QED
    BY <2>1, <1>t
<1>5. ASSUME NEW c \in Clients, BeginSchedule(c) PROVE ScheduleInv'
  <2>1. /\ pc' = [pc EXCEPT ![c] = "claiming"] /\ UNCHANGED state
        /\ \A d \in Clients : pc[d] # "verifyOnly"
    BY <1>5 DEF BeginSchedule
  <2>2. \A t \in Threads : pc'[t] = IF t = c THEN "claiming" ELSE pc[t]
    BY <2>1, <1>t
  <2> QED
    BY <1>5, <2>1, <2>2, <1>t DEF BeginSchedule
<1>6. ASSUME NEW c \in Clients, Claim(c) PROVE ScheduleInv'
  <2>1. CASE state = "Running"
    BY <1>6, <2>1, <1>t, <1>a DEF Claim
  <2>2. CASE state # "Running"
    <3>1. /\ Scheduled = {} /\ \A d \in Clients : pc[d] # "verifyOnly"
      BY <1>6, <2>2 DEF Claim
    <3>2. state' = "Running" /\ \A t \in Threads : pc'[t] = IF t = c THEN "counting" ELSE pc[t]
      BY <1>6, <2>2, <1>t DEF Claim
    <3>3. Scheduled' = {c}
      BY <3>1, <3>2, <1>t
    <3> QED
      BY <3>1, <3>2, <3>3, <1>t
  <2> QED
    BY <2>1, <2>2
<1>7. ASSUME NEW c \in Clients, ReadMode(c) \/ CountActive(c) PROVE ScheduleInv'
  <2>1. /\ UNCHANGED state /\ c \in Scheduled
        /\ pc' = [pc EXCEPT ![c] = "incrementing"] \/ pc' = [pc EXCEPT ![c] = "spawning"]
    BY <1>7 DEF ReadMode, CountActive
  <2>2. Scheduled' = Scheduled
    BY <2>1, <1>t
  <2>3. \A d \in Clients : pc'[d] = "verifyOnly" \/ pc'[d] = "claiming" \/ pc'[d] = "verifyToSchedule"
                              => pc'[d] = pc[d]
    BY <2>1, <1>t
  <2>4. pc'[Executor] = pc[Executor]
    BY <2>1, <1>t
  <2> QED
    BY <2>1, <2>2, <2>3, <2>4
<1>8. ASSUME NEW c \in Clients, NEW w \in Workers, Spawn(c, w) PROVE ScheduleInv'
  <2>1. /\ UNCHANGED state /\ c \in Scheduled /\ c # w
        /\ \A t \in Threads : pc'[t] = IF t = c THEN "idle" ELSE IF t = w THEN "spawned" ELSE pc[t]
    BY <1>8, <1>t DEF Spawn
  <2>2. Scheduled = {c}
    BY <2>1
  <2>3. Scheduled' = {w}
    BY <2>1, <2>2, <1>t
  <2> QED
    BY <2>1, <2>3, <1>t
<1>9. ASSUME NEW c \in Clients, BeginProcess(c) \/ MarkRunning(c) PROVE FALSE
  BY <1>9 DEF BeginProcess, MarkRunning, GuardInv, ClientPlaces
<1>10. ASSUME NEW c \in Clients, BeginWait(c) \/ Wait(c) \/ SpuriousWake(c) PROVE ScheduleInv'
  BY <1>10, <1>t, <1>a DEF BeginWait, Wait, WaitActive, WaitState, SpuriousWake
<1>11. ASSUME NEW t \in Threads, Verify(t) PROVE ScheduleInv'
  <2>1. pc[t] = "verifyOnly" /\ t \in Clients
    BY <1>11, VerifyMoves, <1>t DEF GuardInv, ClientPlaces, WorkerPlaces, ExecutorPlaces, Threads
  <2>2. pc' = [pc EXCEPT ![t] = "idle"]
    BY <1>11, <2>1, VerifyPlaces DEF Verify, vxVerifyGraph, FailVerify
  <2>3. Scheduled = {} /\ Scheduled' = {}
    BY <2>1, <2>2, <1>t
  <2> QED
    BY <2>1, <2>2, <2>3, <1>t
<1>12. ASSUME NEW t \in Threads, Drop(t) PROVE ScheduleInv'
  BY <1>12, <1>t, <1>a DEF Drop, Leave, Signal
<1>13. ASSUME NEW t \in Runners, RunNodes(t) PROVE ScheduleInv'
  <2>1. t \in Workers
    BY <1>13 DEF RunNodes, BeginNodes, CompleteNodes, AbandonNodes, auto_age_delays, Runners,
                 GuardInv, ClientPlaces
  <2>2. CASE BeginNodes(t)
    <3>1. /\ UNCHANGED state /\ \A u \in Threads : pc'[u] = IF u = t THEN "nodes" ELSE pc[u]
      BY <2>1, <2>2, <1>t DEF BeginNodes
    <3>2. Scheduled' = Scheduled
      BY <2>1, <2>2, <3>1, <1>t DEF BeginNodes
    <3> QED
      BY <2>1, <3>1, <3>2, <1>t
  <2>3. CASE CompleteNodes(t) \/ AbandonNodes(t)
    <3>1. t \in Scheduled
      BY <2>1, <2>3 DEF CompleteNodes, AbandonNodes
    <3>2. Scheduled = {t}
      BY <3>1
    <3>3. pc' = [pc EXCEPT ![t] = "ageing"] \/ pc' = [pc EXCEPT ![t] = "leaving"]
      BY <2>3 DEF CompleteNodes, AbandonNodes
    <3>4. Scheduled' = {}
      BY <2>1, <3>2, <3>3, <1>t
    <3> QED
      BY <2>1, <3>3, <3>4, <1>t
  <2>4. CASE auto_age_delays(t)
    BY <2>1, <2>4, <1>t, <1>a DEF auto_age_delays
  <2> QED
    BY <1>13, <2>2, <2>3, <2>4 DEF RunNodes
<1>14. ASSUME BeginAuto \/ EndAuto PROVE ScheduleInv'
  BY <1>14, <1>t, <1>a DEF BeginAuto, EndAuto
<1>15. CASE UNCHANGED vars
  BY <1>15, <1>a DEF vars
<1>16. CASE Next
  BY <1>16, <1>2, <1>3, <1>4, <1>5, <1>6, <1>7, <1>8, <1>9, <1>10, <1>11, <1>12, <1>13, <1>14,
     Zenon DEF Next, Schedule
<1> QED
  BY <1>15, <1>16

LEMMA ScheduleInvariant ==
  ASSUME Careful, "process" \notin Calls
  PROVE  Spec => [](CountInv /\ ScheduleInv)
<1>1. Init => ScheduleInv
  BY ExecutionAssumption DEF Init, ScheduleInv, Scheduled, Threads, Runners
<1>2. TypeOK /\ GuardInv /\ ScheduleInv /\ [Next]_vars => ScheduleInv'
  BY ScheduleStep
<1>3. CountInv => TypeOK /\ GuardInv
  BY DEF CountInv
<1> QED
  BY <1>1, <1>2, <1>3, CountInvariant, PTL DEF Spec

(* An application that verifies first never has two scheduled executions of  *)
(* a graph, however many threads call vxScheduleGraph.                       *)
THEOREM ScheduledOnce ==
  ASSUME Careful, "process" \notin Calls
  PROVE  Spec => []OneScheduledExecution
<1>1. ASSUME ScheduleInv PROVE OneScheduledExecution
  <2>1. CASE Scheduled = {}
    BY <2>1, FS_EmptySet DEF OneScheduledExecution, Scheduled
  <2>2. CASE Scheduled # {}
    <3>0. PICK x : x \in Scheduled
      BY <2>2
    <3>1. Scheduled = {x}
      BY <1>1, <3>0 DEF ScheduleInv
    <3>2. Cardinality(Scheduled) = 1
      BY <3>1, FS_Singleton
    <3> QED
      BY <3>2 DEF OneScheduledExecution, Scheduled
  <2> QED
    BY <2>1, <2>2
<1> QED
  BY <1>1, ScheduleInvariant, PTL
-----------------------------------------------------------------------------
(* A client whose wait succeeded is in no other call and has no execution    *)
(* under way; clients wait on the count if the graph is pipelining, on the   *)
(* state if it is not.                                                       *)
WaitInv ==
    /\ WaitSeesResults
    /\ \A c \in waited : pc[c] = "idle"
    /\ \A c \in Clients : /\ pc[c] \in {"checkingActive", "asleep", "woken"} => mode # "normal"
                          /\ pc[c] \in {"checkingState", "polling"} => mode = "normal"

(* When the count is zero in a pipelining mode no worker is executing.       *)
LEMMA ZeroMeansNone ==
  ASSUME CountInv, active = 0, mode # "normal", NEW w \in Workers
  PROVE  pc[w] \notin {"spawned", "nodes", "ageing"}
<1>1. InFlight = {}
  BY InFlightFinite, FS_EmptySet DEF CountInv, ActiveCountsExecutions
<1> QED
  BY <1>1 DEF InFlight, Waiting, CountInv, GuardInv

LEMMA WaitStep ==
  ASSUME Careful, "process" \notin Calls
  PROVE  CountInv /\ ScheduleInv /\ WaitInv /\ [Next]_vars => WaitInv'
<1> SUFFICES ASSUME CountInv, ScheduleInv, WaitInv, [Next]_vars PROVE WaitInv'
  OBVIOUS
<1> USE DEF WaitInv, WaitSeesResults, Unfinished, Unaged, Goto, Call, graphVars
<1>t. /\ pc \in [Threads -> PcValues] /\ waited \subseteq Clients /\ by \in [Workers -> Clients]
      /\ active \in Nat /\ Modulus \in Nat
      /\ Clients \subseteq Threads /\ Workers \subseteq Threads /\ Executor \in Threads
      /\ Executor \notin Clients /\ Executor \notin Workers /\ Clients \cap Workers = {}
      /\ TypeOK /\ GuardInv
  BY ThreadSets, ExecutionAssumption DEF CountInv, TypeOK
<1>a. ASSUME UNCHANGED <<mode, by>>, waited' \subseteq waited,
             \A c \in waited' : pc'[c] = pc[c],
             \A c \in Clients :
                /\ pc'[c] \in {"checkingActive", "asleep", "woken"} => mode # "normal"
                /\ pc'[c] \in {"checkingState", "polling"} => mode = "normal",
             \A w \in Workers : \/ pc'[w] = pc[w]
                                \/ pc'[w] \notin {"spawned", "nodes", "ageing"}
      PROVE  WaitInv'
  BY <1>a
<1>1. ASSUME NEW m \in Modes, vxSetGraphScheduleConfig(m) PROVE WaitInv'
  BY <1>1, <1>t DEF vxSetGraphScheduleConfig, Quiet
<1>2. ASSUME vxCreateGenericNode \/ vxRemoveNode PROVE WaitInv'
  BY <1>2, <1>a DEF vxCreateGenericNode, vxRemoveNode
<1>3. ASSUME NEW c \in Clients, BeginVerify(c) \/ BeginSchedule(c) \/ BeginWait(c) PROVE WaitInv'
  <2>1. /\ UNCHANGED <<mode, by>> /\ waited' = waited \ {c}
        /\ \E where \in {"verifyOnly", "claiming", "verifyToSchedule", "checkingState",
                         "checkingActive"} :
              /\ pc' = [pc EXCEPT ![c] = where]
              /\ where = "checkingActive" => mode # "normal"
              /\ where = "checkingState" => mode = "normal"
    BY <1>3 DEF BeginVerify, BeginSchedule, BeginWait
  <2> QED
    BY <2>1, <1>t, <1>a
<1>4. ASSUME NEW c \in Clients, Claim(c) \/ ReadMode(c) \/ CountActive(c) \/ SpuriousWake(c)
      PROVE  WaitInv'
  <2>1. UNCHANGED <<mode, by, waited>> /\ c \notin waited
    BY <1>4 DEF Claim, ReadMode, CountActive, SpuriousWake
  <2>2. \E where \in {"idle", "counting", "incrementing", "spawning", "woken"} :
           pc' = [pc EXCEPT ![c] = where] /\ (where = "woken" => mode # "normal")
    BY <1>4 DEF Claim, ReadMode, CountActive, SpuriousWake
  <2> QED
    BY <2>1, <2>2, <1>t, <1>a
<1>5. ASSUME NEW c \in Clients, NEW w \in Workers, Spawn(c, w) PROVE WaitInv'
  <2>1. /\ UNCHANGED <<mode, waited>> /\ c \notin waited /\ by' = [by EXCEPT ![w] = c]
        /\ \A t \in Threads : pc'[t] = IF t = c THEN "idle" ELSE IF t = w THEN "spawned" ELSE pc[t]
    BY <1>5, <1>t DEF Spawn
  <2> QED
    BY <2>1, <1>t
<1>6. ASSUME NEW c \in Clients, BeginProcess(c) \/ MarkRunning(c) PROVE FALSE
  BY <1>6, <1>t DEF BeginProcess, MarkRunning, GuardInv, ClientPlaces
<1>7. ASSUME NEW c \in Clients, WaitActive(c) PROVE WaitInv'
  <2>1. UNCHANGED <<mode, by>> /\ c \notin waited /\ mode # "normal"
    BY <1>7 DEF WaitActive
  <2>2. CASE active > 0
    <3>1. pc' = [pc EXCEPT ![c] = "asleep"] /\ UNCHANGED waited
      BY <1>7, <2>2 DEF WaitActive
    <3> QED
      BY <2>1, <3>1, <1>t, <1>a
  <2>3. CASE ~(active > 0)
    <3>1. pc' = [pc EXCEPT ![c] = "idle"] /\ waited' = waited \cup {c}
      BY <1>7, <2>3 DEF WaitActive
    <3>2. active = 0
      BY <2>3, <1>t
    <3>3. \A w \in Workers : pc[w] \notin {"spawned", "nodes", "ageing"}
      BY <2>1, <3>2, ZeroMeansNone
    <3> QED
      BY <2>1, <3>1, <3>3, <1>t
  <2> QED
    BY <2>2, <2>3
<1>8. ASSUME NEW c \in Clients, WaitState(c) PROVE WaitInv'
  <2>1. UNCHANGED <<mode, by>> /\ c \notin waited /\ mode = "normal"
    BY <1>8 DEF WaitState
  <2>2. CASE state = "Completed"
    <3>1. pc' = [pc EXCEPT ![c] = "idle"] /\ waited' = waited \cup {c}
      BY <1>8, <2>2 DEF WaitState
    <3>2. \A w \in Workers : pc[w] \notin {"spawned", "nodes"}
      BY <2>2 DEF ScheduleInv, Scheduled
    <3> QED
      BY <2>1, <3>1, <3>2, <1>t
  <2>3. CASE state # "Completed"
    <3>1. UNCHANGED waited /\ (pc' = [pc EXCEPT ![c] = "idle"] \/ pc' = [pc EXCEPT ![c] = "polling"])
      BY <1>8, <2>3 DEF WaitState
    <3> QED
      BY <2>1, <3>1, <1>t, <1>a
  <2> QED
    BY <2>2, <2>3
<1>9. ASSUME NEW t \in Threads, Verify(t) PROVE WaitInv'
  BY <1>9, <1>t, <1>a, VerifyMoves
<1>10. ASSUME NEW t \in Threads, Leave(t) PROVE WaitInv'
  BY <1>10, <1>t, <1>a DEF Leave
<1>11. ASSUME NEW t \in Threads, Signal(t) PROVE WaitInv'
  BY <1>11, <1>t, <1>a DEF Signal
<1>12. ASSUME NEW t \in Runners, RunNodes(t) PROVE WaitInv'
  <2>1. t \in Workers /\ UNCHANGED <<mode, by, waited>>
    BY <1>12, <1>t DEF RunNodes, BeginNodes, CompleteNodes, AbandonNodes, auto_age_delays, Runners,
                 GuardInv, ClientPlaces
  <2>2. CASE BeginNodes(t)
    <3>1. pc[t] = "spawned" /\ pc' = [pc EXCEPT ![t] = "nodes"]
      BY <2>2 DEF BeginNodes
    <3> QED
      BY <2>1, <3>1, <1>t
  <2>3. CASE CompleteNodes(t)
    <3>1. pc[t] = "nodes" /\ pc' = [pc EXCEPT ![t] = "ageing"]
      BY <2>3 DEF CompleteNodes
    <3> QED
      BY <2>1, <3>1, <1>t
  <2>4. CASE AbandonNodes(t) \/ auto_age_delays(t)
    BY <2>1, <2>4, <1>t, <1>a DEF AbandonNodes, auto_age_delays
  <2> QED
    BY <1>12, <2>2, <2>3, <2>4 DEF RunNodes
<1>13. ASSUME BeginAuto \/ EndAuto PROVE WaitInv'
  BY <1>13, <1>t, <1>a DEF BeginAuto, EndAuto
<1>14. CASE UNCHANGED vars
  BY <1>14, <1>a DEF vars
<1>15. CASE Next
  BY <1>15, <1>1, <1>2, <1>3, <1>4, <1>5, <1>6, <1>7, <1>8, <1>9, <1>10, <1>11, <1>12, <1>13,
     Zenon DEF Next, Schedule, Drop, Wait
<1> QED
  BY <1>14, <1>15

(* When vxWaitGraph returns success, the executions its caller has scheduled *)
(* have run all their nodes and, in the pipelining modes, aged their delays. *)
THEOREM WaitersSeeResults ==
  ASSUME Careful, "process" \notin Calls
  PROVE  Spec => []WaitSeesResults
<1>1. Init => WaitInv
  BY ExecutionAssumption DEF Init, WaitInv, WaitSeesResults, Threads
<1>2. CountInv /\ ScheduleInv /\ WaitInv /\ [Next]_vars => WaitInv'
  BY WaitStep
<1>3. WaitInv => WaitSeesResults
  BY DEF WaitInv
<1> QED
  BY <1>1, <1>2, <1>3, ScheduleInvariant, PTL DEF Spec
-----------------------------------------------------------------------------
(* What follows holds of applications that add no node to a verified graph.  *)

(* Everybody past the check of the verified flag works on the order that was *)
(* verified, and nodes are removed between executions only.                  *)
Executes == {"claiming", "counting", "incrementing", "spawning", "marking", "spawned",
             "nodes", "executing"}
OrderInv == /\ verified => current
            /\ \A t \in Threads : pc[t] \in Executes => current

LEMMA OrderStep ==
  ASSUME "addNode" \notin Calls
  PROVE  TypeOK /\ OrderInv /\ [Next]_vars => OrderInv'
<1> SUFFICES ASSUME TypeOK, OrderInv, [Next]_vars PROVE OrderInv'
  OBVIOUS
<1> USE DEF OrderInv, Executes, Goto, Call, graphVars
<1>t. /\ pc \in [Threads -> PcValues] /\ Clients \subseteq Threads /\ Workers \subseteq Threads
      /\ Executor \in Threads
  BY ThreadSets
<1>a. ASSUME UNCHANGED <<verified, current>>,
             \A t \in Threads : pc'[t] \in Executes => pc[t] \in Executes \/ current
      PROVE  OrderInv'
  BY <1>a
<1>1. ASSUME NEW m \in Modes, vxSetGraphScheduleConfig(m) PROVE OrderInv'
  BY <1>1, <1>a DEF vxSetGraphScheduleConfig
<1>2. ASSUME vxCreateGenericNode PROVE FALSE
  BY <1>2 DEF vxCreateGenericNode
<1>3. ASSUME vxRemoveNode PROVE OrderInv'
  BY <1>3, <1>t DEF vxRemoveNode, Quiet
<1>4. ASSUME NEW c \in Clients,
             BeginVerify(c) \/ BeginSchedule(c) \/ BeginProcess(c) \/ BeginWait(c) \/ Claim(c)
                \/ ReadMode(c) \/ CountActive(c) \/ MarkRunning(c) \/ SpuriousWake(c)
      PROVE  OrderInv'
  BY <1>4, <1>t, <1>a DEF BeginVerify, BeginSchedule, BeginProcess, BeginWait, Claim, ReadMode,
                          CountActive, MarkRunning, SpuriousWake
<1>5. ASSUME NEW c \in Clients, Wait(c) PROVE OrderInv'
  BY <1>5, <1>t, <1>a DEF Wait, WaitActive, WaitState
<1>6. ASSUME NEW c \in Clients, NEW w \in Workers, Spawn(c, w) PROVE OrderInv'
  BY <1>6, <1>t, <1>a DEF Spawn
<1>7. ASSUME NEW t \in Threads, Verify(t) PROVE OrderInv'
  <2>1. CASE vxVerifyGraph(t)
    BY <2>1 DEF vxVerifyGraph
  <2>2. CASE FailVerify(t)
    <3>1. pc' = [pc EXCEPT ![t] = "idle"] \/ pc' = [pc EXCEPT ![t] = "leaving"]
      BY <2>2, VerifyPlaces DEF FailVerify
    <3> QED
      BY <2>2, <3>1, <1>t, <1>a DEF FailVerify
  <2> QED
    BY <1>7, <2>1, <2>2 DEF Verify
<1>8. ASSUME NEW t \in Threads, Drop(t) PROVE OrderInv'
  BY <1>8, <1>t, <1>a DEF Drop, Leave, Signal
<1>9. ASSUME NEW t \in Runners, RunNodes(t) PROVE OrderInv'
  BY <1>9, <1>t, <1>a DEF RunNodes, BeginNodes, CompleteNodes, AbandonNodes, auto_age_delays,
                          Runners
<1>10. ASSUME BeginAuto \/ EndAuto PROVE OrderInv'
  BY <1>10, <1>t, <1>a DEF BeginAuto, EndAuto
<1>11. CASE UNCHANGED vars
  BY <1>11, <1>a DEF vars
<1>12. CASE Next
  BY <1>12, <1>1, <1>2, <1>3, <1>4, <1>5, <1>6, <1>7, <1>8, <1>9, <1>10, Zenon
  DEF Next, Schedule
<1> QED
  BY <1>11, <1>12

(* Nodes run only in an order vxVerifyGraph has established for the nodes    *)
(* the graph has, vxRemoveNode included, as long as none is added to a graph *)
(* that was verified before.                                                 *)
THEOREM VerifiedOrder ==
  ASSUME "addNode" \notin Calls PROVE Spec => []NodesInVerifiedOrder
<1>1. Init => OrderInv
  BY DEF Init, OrderInv, Executes
<1>2. TypeOK /\ OrderInv /\ [Next]_vars => OrderInv'
  BY OrderStep
<1>3. OrderInv => NodesInVerifiedOrder
  BY DEF OrderInv, Executes, NodesInVerifiedOrder
<1> QED
  BY <1>1, <1>2, <1>3, TypeCorrect, PTL DEF Spec
-----------------------------------------------------------------------------
(* Verification: the order of the nodes.                                     *)

(* A walk along the data from n that ends on the stack or where it has been. *)
Walks(k) == {p \in [0..k -> Nodes] : \A i \in 0..(k - 1) : p[i + 1] \in Successors(p[i])}
Returns(n, stack) ==
    \E k \in Nat : \E p \in Walks(k) :
        p[0] = n /\ (p[k] \in stack \/ \E i \in 0..(k - 1) : p[k] = p[i])

(* A walk goes on to a successor until it returns.                           *)
LEMMA ReturnsUnfold ==
  ASSUME \A n \in Nodes : Successors(n) \subseteq Nodes,
         NEW n \in Nodes, NEW stack \in SUBSET Nodes
  PROVE  Returns(n, stack) <=> n \in stack \/ \E m \in Successors(n) : Returns(m, stack \cup {n})
<1>1. ASSUME Returns(n, stack), n \notin stack
      PROVE  \E m \in Successors(n) : Returns(m, stack \cup {n})
  <2>0. PICK k \in Nat : \E p \in Walks(k) : p[0] = n /\ (p[k] \in stack \/ \E i \in 0..(k - 1) : p[k] = p[i])
    BY <1>1 DEF Returns
  <2>1. PICK p \in Walks(k) : p[0] = n /\ (p[k] \in stack \/ \E i \in 0..(k - 1) : p[k] = p[i])
    BY <2>0
  <2>2. k # 0 /\ k - 1 \in Nat
    BY <1>1, <2>1
  <2> DEFINE q == [i \in 0..(k - 1) |-> p[i + 1]]
  <2>3. p \in [0..k -> Nodes] /\ \A i \in 0..(k - 1) : p[i + 1] \in Successors(p[i])
    BY DEF Walks
  <2>4. q \in [0..(k - 1) -> Nodes]
    BY <2>2, <2>3
  <2>5. ASSUME NEW i \in 0..((k - 1) - 1) PROVE q[i + 1] \in Successors(q[i])
    <3>1. i \in 0..(k - 1) /\ i + 1 \in 0..(k - 1)
      BY <2>2
    <3>2. q[i] = p[i + 1] /\ q[i + 1] = p[(i + 1) + 1]
      BY <3>1
    <3> QED
      BY <2>3, <3>1, <3>2
  <2>6. q \in Walks(k - 1)
    BY <2>4, <2>5 DEF Walks
  <2>7. q[0] = p[1] /\ q[k - 1] = p[k] /\ p[1] \in Successors(n)
    <3>1. 0 \in 0..(k - 1) /\ k - 1 \in 0..(k - 1) /\ 0 + 1 = 1 /\ (k - 1) + 1 = k
      BY <2>2
    <3> QED
      BY <2>1, <2>3, <3>1
  <2>8. q[k - 1] \in stack \cup {n} \/ \E i \in 0..((k - 1) - 1) : q[k - 1] = q[i]
    <3>1. CASE p[k] \in stack
      BY <2>7, <3>1
    <3>2. CASE \E i \in 0..(k - 1) : p[k] = p[i]
      <4>1. PICK i \in 0..(k - 1) : p[k] = p[i]
        BY <3>2
      <4>2. CASE i = 0
        BY <2>1, <2>7, <4>1, <4>2
      <4>3. CASE i # 0
        <5>1. i - 1 \in 0..((k - 1) - 1) /\ i - 1 \in 0..(k - 1) /\ (i - 1) + 1 = i
          BY <2>2, <4>3
        <5>2. q[i - 1] = p[i]
          BY <5>1
        <5> QED
          BY <2>7, <4>1, <5>1, <5>2
      <4> QED
        BY <4>2, <4>3
    <3> QED
      BY <2>1, <3>1, <3>2
  <2> HIDE DEF q
  <2>9. Returns(q[0], stack \cup {n})
    BY <2>2, <2>6, <2>8 DEF Returns
  <2> QED
    BY <2>7, <2>9
<1>2. ASSUME n \in stack PROVE Returns(n, stack)
  <2> DEFINE p == [i \in 0..0 |-> n]
  <2>1. p \in Walks(0) /\ p[0] = n
    BY DEF Walks
  <2> QED
    BY <1>2, <2>1 DEF Returns
<1>3. ASSUME NEW m \in Successors(n), Returns(m, stack \cup {n}) PROVE Returns(n, stack)
  <2>0. PICK k \in Nat : \E q \in Walks(k) :
              q[0] = m /\ (q[k] \in stack \cup {n} \/ \E i \in 0..(k - 1) : q[k] = q[i])
    BY <1>3 DEF Returns
  <2>1. PICK q \in Walks(k) : q[0] = m /\ (q[k] \in stack \cup {n} \/ \E i \in 0..(k - 1) : q[k] = q[i])
    BY <2>0
  <2> DEFINE p == [i \in 0..(k + 1) |-> IF i = 0 THEN n ELSE q[i - 1]]
  <2>2. q \in [0..k -> Nodes] /\ \A i \in 0..(k - 1) : q[i + 1] \in Successors(q[i])
    BY DEF Walks
  <2>3. \A i \in 0..k : p[i + 1] = q[i]
    OBVIOUS
  <2>4. p[0] = n
    OBVIOUS
  <2>5. p \in [0..(k + 1) -> Nodes]
    <3>1. ASSUME NEW i \in 0..(k + 1) PROVE (IF i = 0 THEN n ELSE q[i - 1]) \in Nodes
      BY <2>2
    <3> QED
      BY <3>1
  <2> HIDE DEF p
  <2>6. ASSUME NEW i \in 0..((k + 1) - 1) PROVE p[i + 1] \in Successors(p[i])
    <3>1. CASE i = 0
      <4>1. 0 \in 0..k
        OBVIOUS
      <4>2. p[0 + 1] = q[0]
        BY <2>3, <4>1
      <4> QED
        BY <1>3, <2>1, <2>4, <3>1, <4>2
    <3>2. CASE i # 0
      <4>1. i - 1 \in 0..k /\ i - 1 \in 0..(k - 1) /\ i \in 0..k /\ (i - 1) + 1 = i
        BY <3>2
      <4>2. p[i] = q[i - 1] /\ p[i + 1] = q[i]
        BY <2>3, <4>1
      <4> QED
        BY <2>2, <4>1, <4>2
    <3> QED
      BY <3>1, <3>2
  <2>7. p \in Walks(k + 1)
    BY <2>5, <2>6 DEF Walks
  <2>8. p[k + 1] \in stack \/ \E i \in 0..((k + 1) - 1) : p[k + 1] = p[i]
    <3>1. p[k + 1] = q[k]
      BY <2>3
    <3>2. CASE q[k] = n
      <4>1. 0 \in 0..((k + 1) - 1)
        OBVIOUS
      <4> QED
        BY <2>4, <3>1, <3>2, <4>1
    <3>3. CASE \E i \in 0..(k - 1) : q[k] = q[i]
      <4>1. PICK i \in 0..(k - 1) : q[k] = q[i]
        BY <3>3
      <4>2. i \in 0..k /\ i + 1 \in 0..((k + 1) - 1)
        OBVIOUS
      <4> QED
        BY <2>3, <3>1, <4>1, <4>2
    <3> QED
      BY <2>1, <3>1, <3>2, <3>3
  <2>9. k + 1 \in Nat
    OBVIOUS
  <2> QED
    BY <2>4, <2>7, <2>8, <2>9 DEF Returns
<1> QED
  BY <1>1, <1>2, <1>3

(* The recursion of has_cycle ends, because the stack grows.                 *)
LEMMA SearchUnfolds ==
  ASSUME \A n \in Nodes : Successors(n) \subseteq Nodes
  PROVE  \A n \in Nodes : \A stack \in SUBSET Nodes :
            Search[<<n, stack>>] <=>
               n \in stack \/ \E m \in Successors(n) : Search[<<m, stack \cup {n}>>]
<1> DEFINE Body(f) == [s \in Nodes \X SUBSET Nodes |->
                          IF s[1] \in s[2] THEN TRUE ELSE \E m \in Successors(s[1]) : f[<<m, s[2] \cup {s[1]}>>]]
           g == [s \in Nodes \X SUBSET Nodes |-> Returns(s[1], s[2])]
<1>1. g = Body(g)
  <2>1. ASSUME NEW s \in Nodes \X SUBSET Nodes
        PROVE  Returns(s[1], s[2]) =
                  IF s[1] \in s[2] THEN TRUE ELSE \E m \in Successors(s[1]) : g[<<m, s[2] \cup {s[1]}>>]
    <3>1. s[1] \in Nodes /\ s[2] \in SUBSET Nodes /\ s[2] \cup {s[1]} \in SUBSET Nodes
      OBVIOUS
    <3>2. \A m \in Successors(s[1]) : <<m, s[2] \cup {s[1]}>> \in Nodes \X SUBSET Nodes
      BY <3>1
    <3>3. \A m \in Successors(s[1]) : g[<<m, s[2] \cup {s[1]}>>] = Returns(m, s[2] \cup {s[1]})
      BY <3>2
    <3>4. Returns(s[1], s[2]) <=> s[1] \in s[2] \/ \E m \in Successors(s[1]) : Returns(m, s[2] \cup {s[1]})
      BY <3>1, ReturnsUnfold
    <3>5. Returns(s[1], s[2]) \in BOOLEAN
      BY DEF Returns
    <3> HIDE DEF g
    <3> QED
      BY <3>3, <3>4, <3>5
  <2> QED
    BY <2>1
<1>2. Search = Body(Search)
  <2> HIDE DEF g
  <2> QED
    BY <1>1 DEF Search
<1>3. ASSUME NEW n \in Nodes, NEW stack \in SUBSET Nodes
      PROVE  Search[<<n, stack>>] <=>
               n \in stack \/ \E m \in Successors(n) : Search[<<m, stack \cup {n}>>]
  <2>1. <<n, stack>> \in Nodes \X SUBSET Nodes
    OBVIOUS
  <2>2. Body(Search)[<<n, stack>>] =
               IF n \in stack THEN TRUE ELSE \E m \in Successors(n) : Search[<<m, stack \cup {n}>>]
    BY <2>1
  <2> HIDE DEF Body
  <2> QED
    BY <1>2, <2>2
<1> QED
  BY <1>3

-----------------------------------------------------------------------------

(* Inductions.  What holds of 0, and of each number when it holds of the one *)
(* before, holds of all; so does, of all subsets of a finite set, what holds  *)
(* of the empty one, and of each when it holds without one of its elements.  *)
LEMMA OnNumbers ==
  ASSUME NEW n \in Nat, NEW Good, 0 \in Good, \A i \in 1..n : i - 1 \in Good => i \in Good
  PROVE  \A i \in 0..n : i \in Good
<1> DEFINE Bad == {i \in 0..n : i \notin Good}
<1>1. SUFFICES ASSUME Bad # {} PROVE FALSE
  OBVIOUS
<1>2. Bad \subseteq Nat
  OBVIOUS
<1>3. \E i \in Bad : \A j \in Bad : ~(<<j, i>> \in OpToRel(<, Nat))
  <2> HIDE DEF Bad
  <2> QED
    BY <1>1, <1>2, NatLessThanWellFounded, WFMin
<1>4. PICK i \in Bad : \A j \in Bad : ~(j < i)
  BY <1>2, <1>3 DEF OpToRel
<1>5. i \in 1..n /\ i - 1 \in 0..n /\ i - 1 < i
  BY <1>4
<1> QED
  BY <1>4, <1>5

LEMMA OnSubsets ==
  ASSUME NEW S, IsFiniteSet(S), NEW Good, {} \in Good,
         \A s \in SUBSET S : s # {} => \E x \in s : s \ {x} \in Good => s \in Good
  PROVE  S \in Good
<1> DEFINE Bad == {s \in SUBSET S : s \notin Good}
<1>1. SUFFICES ASSUME Bad # {} PROVE FALSE
  OBVIOUS
<1>2. \E s \in Bad : \A t \in Bad : ~(<<t, s>> \in StrictSubsetOrdering(S))
  <2>1. IsWellFoundedOn(StrictSubsetOrdering(S), SUBSET S)
    BY FS_StrictSubsetOrderingWellFounded, FS_FiniteSubsetsOfFinite
  <2>2. Bad \subseteq SUBSET S
    OBVIOUS
  <2> HIDE DEF Bad
  <2> QED
    BY <1>1, <2>1, <2>2, WFMin
<1>3. PICK s \in Bad : \A t \in Bad : ~(<<t, s>> \in StrictSubsetOrdering(S))
  BY <1>2
<1>4. PICK x \in s : s \ {x} \in Good => s \in Good
  BY <1>3
<1>5. s \ {x} \in Bad
  BY <1>3, <1>4
<1>6. <<s \ {x}, s>> \in StrictSubsetOrdering(S)
  BY <1>3, <1>4 DEF StrictSubsetOrdering
<1> QED
  BY <1>3, <1>5, <1>6

(* Without a cycle, among any nodes there is one that none of them follows,  *)
(* and one that follows none of them.                                        *)
LEMMA SinkExists ==
  ASSUME \A n \in Nodes : Successors(n) \subseteq Nodes, ~has_cycle,
         NEW U \in SUBSET Nodes, IsFiniteSet(U), U # {}
  PROVE  \E n \in U : Successors(n) \cap U = {}
<1>1. SUFFICES ASSUME \A n \in U : Successors(n) \cap U # {} PROVE FALSE
  OBVIOUS
<1> DEFINE Good == {s \in SUBSET U : \A n \in U : Search[<<n, U \ s>>]}
<1>2. {} \in Good
  BY SearchUnfolds
<1>3. ASSUME NEW s \in SUBSET U, s # {} PROVE \E x \in s : s \ {x} \in Good => s \in Good
  <2>1. CASE s \in Good
    BY <1>3, <2>1
  <2>2. CASE s \notin Good
    <3>1. PICK n \in U : ~Search[<<n, U \ s>>]
      BY <2>2
    <3>2. n \in Nodes /\ U \ s \in SUBSET Nodes
      OBVIOUS
    <3>3. n \notin U \ s /\ \A m \in Successors(n) : ~Search[<<m, (U \ s) \cup {n}>>]
      BY <3>1, <3>2, SearchUnfolds
    <3>4. PICK m \in Successors(n) \cap U : TRUE
      BY <1>1
    <3>5. (U \ s) \cup {n} = U \ (s \ {n}) /\ n \in s
      BY <3>3
    <3>6. ~Search[<<m, U \ (s \ {n})>>]
      BY <3>3, <3>4, <3>5
    <3>7. s \ {n} \notin Good
      BY <3>4, <3>6
    <3> HIDE DEF Good
    <3> QED
      BY <3>5, <3>7
  <2> QED
    BY <2>1, <2>2
<1>4. U \in Good
  <2> HIDE DEF Good
  <2> QED
    BY <1>2, <1>3, OnSubsets
<1>5. PICK n \in U : TRUE
  OBVIOUS
<1>6. Search[<<n, {}>>]
  <2>1. U \ U = {}
    OBVIOUS
  <2>2. Search[<<n, U \ U>>]
    BY <1>4, <1>5
  <2> QED
    BY <2>1, <2>2
<1> QED
  BY <1>5, <1>6 DEF has_cycle

(* Turned round, the same search finds a node that follows no other.         *)
LEMMA SourceExists ==
  ASSUME \A n \in Nodes : Successors(n) \subseteq Nodes, ~has_cycle,
         NEW U \in SUBSET Nodes, IsFiniteSet(U), U # {}
  PROVE  \E n \in U : \A m \in U : n \notin Successors(m)
<1> DEFINE Good == {s \in SUBSET U : s = {} \/ \E n \in s : \A m \in s : n \notin Successors(m)}
<1>1. {} \in Good
  OBVIOUS
<1>2. ASSUME NEW s \in SUBSET U, s # {} PROVE \E x \in s : s \ {x} \in Good => s \in Good
  <2>1. IsFiniteSet(s) /\ s \in SUBSET Nodes
    BY FS_Subset
  <2>2. PICK x \in s : Successors(x) \cap s = {}
    BY <1>2, <2>1, SinkExists
  <2>3. ASSUME s \ {x} \in Good PROVE s \in Good
    <3>1. CASE s \ {x} = {}
      BY <2>2, <3>1
    <3>2. CASE s \ {x} # {}
      <4>1. PICK n \in s \ {x} : \A m \in s \ {x} : n \notin Successors(m)
        BY <2>3, <3>2
      <4> QED
        BY <2>2, <4>1
    <3> QED
      BY <3>1, <3>2
  <2> HIDE DEF Good
  <2> QED
    BY <2>2, <2>3
<1>3. U \in Good
  <2> HIDE DEF Good
  <2> QED
    BY <1>1, <1>2, OnSubsets
<1> QED
  BY <1>3

(* The nodes can be numbered so that the numbers grow along the data exactly *)
(* if there is no cycle.                                                     *)
LEMMA AcyclicRanked ==
  ASSUME \A n \in Nodes : Successors(n) \subseteq Nodes, ~has_cycle,
         NEW N \in Nat, Nodes = 1..N
  PROVE  \E rank \in [Nodes -> Nodes] : \A m, n \in Nodes : n \in Successors(m) => rank[m] < rank[n]
<1> DEFINE Grows(f, s) == \A m, n \in s : n \in Successors(m) => f[m] < f[n]
           Good == {s \in SUBSET Nodes : \E f \in [s -> 1..Cardinality(s)] : Grows(f, s)}
<1>0. IsFiniteSet(Nodes) /\ Cardinality(Nodes) = N
  BY FS_Interval
<1>1. {} \in Good
  <2>1. [n \in {} |-> n] \in [{} -> 1..Cardinality({})]
    OBVIOUS
  <2> QED
    BY <2>1
<1>2. ASSUME NEW s \in SUBSET Nodes, s # {} PROVE \E x \in s : s \ {x} \in Good => s \in Good
  <2>1. IsFiniteSet(s)
    BY <1>0, FS_Subset
  <2>2. PICK x \in s : Successors(x) \cap s = {}
    BY <1>2, <2>1, SinkExists
  <2>3. Cardinality(s) \in Nat /\ Cardinality(s \ {x}) = Cardinality(s) - 1 /\ Cardinality(s \ {x}) \in Nat
    BY <2>1, <2>2, FS_RemoveElement, FS_CardinalityType
  <2>4. ASSUME s \ {x} \in Good PROVE s \in Good
    <3>1. PICK f \in [s \ {x} -> 1..Cardinality(s \ {x})] : Grows(f, s \ {x})
      BY <2>4
    <3> DEFINE g == [n \in s |-> IF n = x THEN Cardinality(s) ELSE f[n]]
    <3>2. \A n \in s \ {x} : f[n] \in 1..Cardinality(s \ {x})
      OBVIOUS
    <3>3. g \in [s -> 1..Cardinality(s)]
      <4>1. \A n \in s : (IF n = x THEN Cardinality(s) ELSE f[n]) \in 1..Cardinality(s)
        <5>1. Cardinality(s) \in 1..Cardinality(s) /\ Cardinality(s \ {x}) <= Cardinality(s)
          BY <2>3
        <5>2. ASSUME NEW n \in s, n # x PROVE f[n] \in 1..Cardinality(s)
          <6>1. f[n] \in 1..Cardinality(s \ {x})
            BY <3>2, <5>2
          <6> QED
            BY <2>3, <6>1
        <5> QED
          BY <5>1, <5>2
      <4> QED
        BY <4>1
    <3>4. ASSUME NEW m \in s, NEW n \in s, n \in Successors(m) PROVE g[m] < g[n]
      <4>1. m # x
        BY <2>2, <3>4
      <4>2. g[m] = f[m] /\ f[m] \in 1..Cardinality(s \ {x})
        BY <3>2, <4>1
      <4>3. CASE n = x
        BY <2>3, <4>2, <4>3
      <4>4. CASE n # x
        BY <3>1, <3>4, <4>1, <4>4
      <4> QED
        BY <4>3, <4>4
    <3> HIDE DEF g
    <3> QED
      BY <3>3, <3>4
  <2> HIDE DEF Good
  <2> QED
    BY <2>2, <2>4
<1>3. Nodes \in Good
  <2> HIDE DEF Good
  <2> QED
    BY <1>0, <1>1, <1>2, OnSubsets
<1> QED
  BY <1>0, <1>3

(* A rank grows along every walk, so a walk ends before it returns.          *)
LEMMA RankedAcyclic ==
  ASSUME \A n \in Nodes : Successors(n) \subseteq Nodes, NEW N \in Nat, Nodes = 1..N,
         NEW rank \in [Nodes -> Nodes], \A m, n \in Nodes : n \in Successors(m) => rank[m] < rank[n]
  PROVE  ~has_cycle
<1> DEFINE Good == {i \in Nat : \A n \in Nodes : rank[n] + i > N =>
                        \A stack \in SUBSET Nodes :
                            (\A m \in stack : rank[m] < rank[n]) => ~Search[<<n, stack>>]}
<1>0. \A n \in Nodes : rank[n] \in 1..N /\ rank[n] \in Nat
  OBVIOUS
<1>1. 0 \in Good
  BY <1>0
<1>2. ASSUME NEW i \in 1..N, i - 1 \in Good PROVE i \in Good
  <2>1. ASSUME NEW n \in Nodes, rank[n] + i > N, NEW stack \in SUBSET Nodes,
               \A m \in stack : rank[m] < rank[n], Search[<<n, stack>>]
        PROVE  FALSE
    <3>1. n \notin stack
      <4>1. rank[n] \in Nat /\ ~(rank[n] < rank[n])
        BY <1>0
      <4> QED
        BY <2>1, <4>1
    <3>2. PICK m \in Successors(n) : Search[<<m, stack \cup {n}>>]
      BY <2>1, <3>1, SearchUnfolds
    <3>3. m \in Nodes /\ rank[n] < rank[m] /\ stack \cup {n} \in SUBSET Nodes
      OBVIOUS
    <3>4. rank[m] + (i - 1) > N
      BY <1>0, <2>1, <3>3
    <3>5. ASSUME NEW k \in stack \cup {n} PROVE rank[k] < rank[m]
      <4>1. rank[k] \in Nat /\ rank[n] \in Nat /\ rank[m] \in Nat
        BY <1>0, <3>3
      <4>2. CASE k = n
        BY <3>3, <4>2
      <4>3. CASE k # n
        <5>1. rank[k] < rank[n] /\ rank[n] < rank[m]
          BY <2>1, <3>3, <4>3
        <5> HIDE DEF Nodes
        <5> QED
          BY <4>1, <5>1
      <4> QED
        BY <4>2, <4>3
    <3> QED
      BY <1>2, <3>2, <3>3, <3>4, <3>5
  <2>2. i \in Nat
    OBVIOUS
  <2> QED
    BY <2>1, <2>2
<1>3. N \in Good
  <2> HIDE DEF Good
  <2>1. \A i \in 0..N : i \in Good
    BY <1>1, <1>2, OnNumbers
  <2> QED
    BY <2>1
<1>4. ASSUME NEW n \in Nodes PROVE ~Search[<<n, {}>>]
  <2>1. rank[n] + N > N /\ {} \in SUBSET Nodes
    BY <1>0
  <2> QED
    BY <1>3, <2>1
<1> QED
  BY <1>4 DEF has_cycle

-----------------------------------------------------------------------------

Sorted == graph \in Graphs /\ Plain(graph) /\ Classified(graph)
Clean  == Sorted /\ ~TwoProducers

(* What VerifyAssumption says of a graph.                                    *)
LEMMA GraphFacts ==
  ASSUME graph \in Graphs
  PROVE  /\ Len(graph) \in Nat \ {0} /\ Nodes = 1..Len(graph)
         /\ IsFiniteSet(Nodes) /\ Cardinality(Nodes) = Len(graph) /\ None \notin Nodes
         /\ \A n \in Nodes : /\ Params(n) \in Seq(Objects \cup {None})
                             /\ IsFiniteSet(DOMAIN Params(n)) /\ DOMAIN Params(n) \subseteq Nat \ {0}
                             /\ \A i \in DOMAIN Params(n) : Params(n)[i] \in Objects \cup {None}
                             /\ Refs(n) \subseteq Objects
<1>1. graph \in Seq([kernel : STRING, params : Seq(Objects \cup {None})]) /\ graph # <<>>
  BY VerifyAssumption
<1>2. Len(graph) \in Nat /\ Nodes = 1..Len(graph) /\ Len(graph) # 0
  BY <1>1 DEF Nodes
<1>3. IsFiniteSet(Nodes) /\ Cardinality(Nodes) = Len(graph)
  BY <1>2, FS_Interval
<1>4. None \notin Nodes
  BY <1>2, VerifyAssumption
<1>5. ASSUME NEW n \in Nodes
      PROVE  /\ Params(n) \in Seq(Objects \cup {None})
             /\ IsFiniteSet(DOMAIN Params(n)) /\ DOMAIN Params(n) \subseteq Nat \ {0}
             /\ \A i \in DOMAIN Params(n) : Params(n)[i] \in Objects \cup {None}
             /\ Refs(n) \subseteq Objects
  <2>1. graph[n] \in [kernel : STRING, params : Seq(Objects \cup {None})]
    BY <1>1, <1>2, ElementOfSeq
  <2>2. Params(n) \in Seq(Objects \cup {None})
    BY <2>1 DEF Params
  <2>3. DOMAIN Params(n) = 1..Len(Params(n)) /\ Len(Params(n)) \in Nat
    BY <2>2
  <2>4. IsFiniteSet(DOMAIN Params(n))
    BY <2>3, FS_Interval
  <2>5. \A i \in DOMAIN Params(n) : Params(n)[i] \in Objects \cup {None}
    BY <2>2, <2>3
  <2> QED
    BY <2>2, <2>3, <2>4, <2>5 DEF Refs
<1> QED
  BY <1>2, <1>3, <1>4, <1>5

LEMMA PlaceFacts ==
  ASSUME graph \in Graphs, NEW n \in Nodes, NEW output \in BOOLEAN, NEW i \in Places(n, output)
  PROVE  /\ i \in DOMAIN Params(n) /\ i \in Nat /\ i # 0
         /\ Params(n)[i] \in Objects /\ Params(n)[i] # None /\ Params(n)[i] \in Refs(n)
BY GraphFacts DEF Places, Refs

LEMMA PlacesSplit ==
  ASSUME graph \in Graphs, NEW n \in Nodes, NEW i \in DOMAIN Params(n), Params(n)[i] # None
  PROVE  (i \in Places(n, TRUE) \/ i \in Places(n, FALSE)) /\ ~(i \in Places(n, TRUE) /\ i \in Places(n, FALSE))
BY DEF Places

(* A region, a level and the whole they lie in are of one family.            *)
LEMMA FamilyFacts ==
  ASSUME NEW o \in Objects
  PROVE  /\ Parent[o] # None => /\ Parent[o] \in Objects \ Pyramids /\ Family(o) = Parent[o]
                                /\ Pyramid[o] = None
                                /\ Parent[Parent[o]] = None /\ Pyramid[Parent[o]] = None
                                /\ Family(Parent[o]) = Parent[o] /\ o # Parent[o]
         /\ Pyramid[o] # None => /\ Pyramid[o] \in Pyramids /\ Pyramid[o] \in Objects
                                 /\ Family(o) = Pyramid[o] /\ Parent[o] = None
                                 /\ Parent[Pyramid[o]] = None /\ Pyramid[Pyramid[o]] = None
                                 /\ Family(Pyramid[o]) = Pyramid[o] /\ o # Pyramid[o]
         /\ Parent[o] = None /\ Pyramid[o] = None => Family(o) = o
         /\ o \in Pyramids => Parent[o] = None /\ Pyramid[o] = None
<1>1. Pyramids \subseteq Objects
  BY VerifyAssumption
<1> QED
  BY <1>1, VerifyAssumption DEF Family

(* What Plain and Classified say of the places verification distinguishes.   *)
LEMMA SlotOf ==
  ASSUME Sorted, NEW n \in Nodes, NEW output \in BOOLEAN, NEW i \in Places(n, output)
  PROVE  /\ <<n, i>> \in Slots(graph) /\ At(graph, <<n, i>>) = Params(n)[i]
         /\ Result(graph, <<n, i>>) <=> output
<1>1. graph \in Graphs
  BY DEF Sorted
<1>2. i \in DOMAIN Params(n) /\ Params(n)[i] # None /\ (Output(n, i) <=> output)
  BY DEF Places
<1>3. At(graph, <<n, i>>) = Params(n)[i]
  BY DEF At, Params
<1>4. <<n, i>> \in UNION {{k} \X DOMAIN graph[k].params : k \in DOMAIN graph}
  BY <1>2 DEF Nodes, Params
<1>5. <<n, i>> \in Slots(graph)
  BY <1>2, <1>3, <1>4 DEF Slots
<1>6. IsOutput(<<>>, graph[n].kernel, i - 1) <=> Result(graph, <<n, i>>)
  BY <1>5 DEF Sorted, Classified
<1> QED
  BY <1>2, <1>3, <1>5, <1>6 DEF Output

LEMMA WritesNoLevel ==
  ASSUME Clean, NEW n \in Nodes, NEW i \in Places(n, TRUE)
  PROVE  Pyramid[Params(n)[i]] = None
<1> DEFINE s == <<n, i>>
<1>1. s \in Slots(graph) /\ Result(graph, s) /\ At(graph, s) = Params(n)[i]
  BY SlotOf DEF Clean
<1> HIDE DEF s
<1> QED
  BY <1>1 DEF Clean, Sorted, Plain

(* What Plain allows: a family is written in one place,                      *)
LEMMA OneWriter ==
  ASSUME Clean, NEW m \in Nodes, NEW n \in Nodes, NEW i \in Places(m, TRUE), NEW j \in Places(n, TRUE),
         Family(Params(m)[i]) = Family(Params(n)[j])
  PROVE  m = n /\ i = j
<1>1. SUFFICES ASSUME m # n \/ i # j PROVE FALSE
  OBVIOUS
<1> DEFINE s == <<m, i>>  t == <<n, j>>
<1>2. s # t /\ s[1] = m /\ t[1] = n
  BY <1>1
<1>3. s \in Slots(graph) /\ t \in Slots(graph) /\ Result(graph, s) /\ Result(graph, t)
      /\ At(graph, s) = Params(m)[i] /\ At(graph, t) = Params(n)[j]
  BY SlotOf DEF Clean
<1> HIDE DEF s, t
<1>4. At(graph, s) = At(graph, t) /\ s[1] # t[1]
  BY <1>2, <1>3 DEF Clean, Sorted, Plain
<1>5. m # n /\ Params(m)[i] = Params(n)[j]
  BY <1>2, <1>3, <1>4
<1>6. Params(m)[i] \in Written(m) \cap Written(n)
  BY <1>5 DEF Written
<1> QED
  BY <1>5, <1>6 DEF Clean, TwoProducers

(* a node that reads it twice reads the whole,                               *)
LEMMA ReadsWhole ==
  ASSUME Clean, NEW n \in Nodes, NEW i \in Places(n, FALSE), NEW j \in Places(n, FALSE), i # j,
         Family(Params(n)[i]) = Family(Params(n)[j])
  PROVE  Params(n)[i] = Family(Params(n)[i]) /\ Params(n)[j] = Params(n)[i]
<1> DEFINE s == <<n, i>>  t == <<n, j>>
<1>2. s # t /\ t # s /\ s[1] = n /\ t[1] = n
  OBVIOUS
<1>3. s \in Slots(graph) /\ t \in Slots(graph) /\ ~Result(graph, s) /\ ~Result(graph, t)
      /\ At(graph, s) = Params(n)[i] /\ At(graph, t) = Params(n)[j]
  BY SlotOf DEF Clean
<1> HIDE DEF s, t
<1>4. At(graph, s) = Family(At(graph, s)) /\ At(graph, t) = Family(At(graph, t))
  BY <1>2, <1>3 DEF Clean, Sorted, Plain
<1> QED
  BY <1>3, <1>4

(* and a region that is read is the part that is written.                    *)
LEMMA ReadsWritten ==
  ASSUME Clean, NEW m \in Nodes, NEW n \in Nodes, NEW i \in Places(m, TRUE), NEW j \in Places(n, FALSE),
         Family(Params(m)[i]) = Family(Params(n)[j]), Parent[Params(n)[j]] # None
  PROVE  Params(m)[i] = Params(n)[j]
<1> DEFINE s == <<m, i>>  t == <<n, j>>
<1>3. s \in Slots(graph) /\ t \in Slots(graph) /\ Result(graph, s) /\ ~Result(graph, t)
      /\ At(graph, s) = Params(m)[i] /\ At(graph, t) = Params(n)[j]
  BY SlotOf DEF Clean
<1> HIDE DEF s, t
<1>4. s # t
  BY <1>3
<1> QED
  BY <1>3, <1>4 DEF Clean, Sorted, Plain

-----------------------------------------------------------------------------

(* Who produces, lists and consumes what, when regions (rg) and levels (lv)  *)
(* have been connected.                                                      *)
Makes(n, o, rg, lv) ==
    \/ o \in Written(n)
    \/ rg /\ \E r \in Written(n) : Parent[r] = o
    \/ lv /\ o \in Used(Pyramid) /\ Pyramid[o] \in Written(n)

Entries(n, rg, lv) ==
    {<<Params(n)[i], Params(n)[i], i>> : i \in Places(n, TRUE)}
    \cup {<<Parent[r], r, 0>> : r \in {w \in Written(n) : rg /\ Parent[w] # None}}
    \cup {<<l, Pyramid[l], 0>> : l \in {u \in Used(Pyramid) : lv /\ Pyramid[u] \in Written(n)}}

ReadAt(n, o) == {i \in Places(n, FALSE) : Params(n)[i] = o}
ReadsPart(n, o, rg, lv) ==
    \E i \in Places(n, FALSE) : \/ rg /\ Parent[Params(n)[i]] = o
                                \/ lv /\ Pyramid[Params(n)[i]] = o

Takers(o, rg, lv) ==
    (UNION {{<<n, i>> : i \in ReadAt(n, o)} : n \in Nodes})
    \cup {n \in Nodes : ReadAt(n, o) = {} /\ ReadsPart(n, o, rg, lv)} \X {0}

Linked(rg, lv) ==
    /\ producer \in [Objects -> Nodes \cup {None}]
    /\ \A o \in Objects, n \in Nodes : producer[o] = n <=> Makes(n, o, rg, lv)
    /\ outputs = [n \in Nodes |-> Entries(n, rg, lv)]
    /\ consumers = [o \in Objects |-> Takers(o, rg, lv)]
    /\ ~TwoProducers

(* The passes leave the graph alone, and all that is said of it.             *)
LEMMA GraphSame ==
  ASSUME graph' = graph
  PROVE  /\ Nodes' = Nodes /\ TwoProducers' = TwoProducers /\ Used(Pyramid)' = Used(Pyramid)
         /\ \A n : /\ Params(n)' = Params(n) /\ Written(n)' = Written(n) /\ Refs(n)' = Refs(n)
                   /\ \A b : Places(n, b)' = Places(n, b)
         /\ \A n, o, rg, lv : /\ Makes(n, o, rg, lv)' = Makes(n, o, rg, lv)
                              /\ Entries(n, rg, lv)' = Entries(n, rg, lv)
                              /\ Takers(o, rg, lv)' = Takers(o, rg, lv)
<1>1. Nodes' = Nodes /\ \A n : Params(n)' = Params(n)
  BY DEF Nodes, Params
<1>2. \A n, i : Output(n, i)' = Output(n, i)
  BY DEF Output
<1>3. \A n, b : Places(n, b)' = Places(n, b)
  BY <1>1, <1>2 DEF Places
<1>4. \A n : Written(n)' = Written(n) /\ Refs(n)' = Refs(n)
  BY <1>1, <1>3 DEF Written, Refs
<1>5. TwoProducers' = TwoProducers /\ Used(Pyramid)' = Used(Pyramid)
  BY <1>1, <1>4 DEF TwoProducers, Used
<1>6. ASSUME NEW n, NEW o, NEW rg, NEW lv
      PROVE  /\ Makes(n, o, rg, lv)' = Makes(n, o, rg, lv)
             /\ Entries(n, rg, lv)' = Entries(n, rg, lv)
             /\ Takers(o, rg, lv)' = Takers(o, rg, lv)
  <2>1. Makes(n, o, rg, lv)' = Makes(n, o, rg, lv)
    BY <1>4, <1>5 DEF Makes
  <2>2. Entries(n, rg, lv)' = Entries(n, rg, lv)
    BY <1>1, <1>3, <1>4, <1>5 DEF Entries
  <2>3. \A m : /\ ReadAt(m, o)' = ReadAt(m, o)
               /\ ReadsPart(m, o, rg, lv)' = ReadsPart(m, o, rg, lv)
    BY <1>1, <1>3 DEF ReadAt, ReadsPart
  <2>4. Takers(o, rg, lv)' = Takers(o, rg, lv)
    BY <1>1, <2>3 DEF Takers
  <2> QED
    BY <2>1, <2>2, <2>4
<1> QED
  BY <1>1, <1>3, <1>4, <1>5, <1>6

(* Links of the next state, told by the nodes of this one.                   *)
LEMMA LinkedNext ==
  ASSUME graph' = graph, NEW rg \in BOOLEAN, NEW lv \in BOOLEAN,
         producer' \in [Objects -> Nodes \cup {None}],
         \A o \in Objects, n \in Nodes : producer'[o] = n <=> Makes(n, o, rg, lv),
         outputs' = [n \in Nodes |-> Entries(n, rg, lv)],
         consumers' = [o \in Objects |-> Takers(o, rg, lv)],
         ~TwoProducers
  PROVE  Linked(rg, lv)'
<1>1. Nodes' = Nodes /\ ~TwoProducers'
  BY GraphSame
<1>2. \A o \in Objects, n \in Nodes' : producer'[o] = n <=> Makes(n, o, rg, lv)'
  BY <1>1, GraphSame
<1>3. outputs' = [n \in Nodes' |-> Entries(n, rg, lv)']
  <2>1. \A n : Entries(n, rg, lv)' = Entries(n, rg, lv)
    BY GraphSame
  <2> QED
    BY <1>1, <2>1
<1>4. consumers' = [o \in Objects |-> Takers(o, rg, lv)']
  <2>1. \A o : Takers(o, rg, lv)' = Takers(o, rg, lv)
    BY GraphSame
  <2> QED
    BY <2>1
<1> QED
  BY <1>1, <1>2, <1>3, <1>4 DEF Linked

(* The first pass links each object with who names it.                       *)
LEMMA ConnectLinks ==
  ASSUME graph \in Graphs, Plain(graph), Classified(graph), Connect
  PROVE  Linked(FALSE, FALSE)'
<1>0. Clean
  BY DEF Connect, Clean, Sorted
<1>1. graph' = graph
  BY DEF Connect
<1>2. producer' = [o \in Objects |->
                      IF \E n \in Nodes : o \in Written(n)
                      THEN CHOOSE n \in Nodes : o \in Written(n) ELSE None]
  BY DEF Connect
<1>3. \A o \in Objects, n \in Nodes : Makes(n, o, FALSE, FALSE) <=> o \in Written(n)
  BY DEF Makes
<1>4. producer' \in [Objects -> Nodes \cup {None}]
  BY <1>2
<1>5. ASSUME NEW o \in Objects, NEW n \in Nodes PROVE producer'[o] = n <=> o \in Written(n)
  <2>1. CASE \E m \in Nodes : o \in Written(m)
    <3>1. producer'[o] \in Nodes /\ o \in Written(producer'[o])
      BY <1>2, <2>1
    <3>2. o \in Written(n) => n = producer'[o]
      BY <1>0, <3>1 DEF Clean, Sorted, TwoProducers
    <3> QED
      BY <3>1, <3>2
  <2>2. CASE ~\E m \in Nodes : o \in Written(m)
    BY <1>2, <2>2, GraphFacts
  <2> QED
    BY <2>1, <2>2
<1>6. outputs' = [n \in Nodes |-> Entries(n, FALSE, FALSE)]
  <2>1. \A n \in Nodes : Entries(n, FALSE, FALSE) = {<<Params(n)[i], Params(n)[i], i>> : i \in Places(n, TRUE)}
    BY DEF Entries
  <2> QED
    BY <2>1 DEF Connect
<1>7. consumers' = [o \in Objects |-> Takers(o, FALSE, FALSE)]
  <2>1. \A n, o : ~ReadsPart(n, o, FALSE, FALSE)
    BY DEF ReadsPart
  <2>2. \A o : Takers(o, FALSE, FALSE) = UNION {{<<n, i>> : i \in ReadAt(n, o)} : n \in Nodes}
    BY <2>1 DEF Takers
  <2> QED
    BY <2>2 DEF Connect, ReadAt
<1>8. ~TwoProducers
  BY DEF Connect
<1>9. \A o \in Objects, n \in Nodes : producer'[o] = n <=> Makes(n, o, FALSE, FALSE)
  BY <1>3, <1>5
<1> QED
  BY <1>1, <1>4, <1>6, <1>7, <1>8, <1>9, LinkedNext

-----------------------------------------------------------------------------

LEMMA WriterOf ==
  ASSUME Clean, NEW m \in Nodes, NEW n \in Nodes, NEW a \in Written(m), NEW b \in Written(n),
         Family(a) = Family(b)
  PROVE  m = n /\ a = b
<1>1. PICK i \in Places(m, TRUE) : a = Params(m)[i]
  BY DEF Written
<1>2. PICK j \in Places(n, TRUE) : b = Params(n)[j]
  BY DEF Written
<1> QED
  BY <1>1, <1>2, OneWriter

LEMMA WrittenFacts ==
  ASSUME Clean, NEW n \in Nodes, NEW o \in Written(n)
  PROVE  o \in Objects /\ o # None /\ o \in Refs(n) /\ Pyramid[o] = None
<1>1. PICK i \in Places(n, TRUE) : o = Params(n)[i]
  BY DEF Written
<1>2. graph \in Graphs
  BY DEF Clean, Sorted
<1>3. o \in Objects /\ o # None /\ o \in Refs(n)
  BY <1>1, <1>2, PlaceFacts
<1>4. Pyramid[o] = None
  BY <1>1, WritesNoLevel
<1> QED
  BY <1>3, <1>4

LEMMA UsedFacts ==
  ASSUME graph \in Graphs, NEW within, NEW o
  PROVE  o \in Used(within) <=> o \in Objects /\ within[o] # None /\ \E n \in Nodes : o \in Refs(n)
BY GraphFacts DEF Used

(* The entries of an object's consumers.                                     *)
LEMMA InTakers ==
  ASSUME NEW o, NEW rg, NEW lv, NEW e
  PROVE  e \in Takers(o, rg, lv) <=>
            \/ \E n \in Nodes : \E i \in ReadAt(n, o) : e = <<n, i>>
            \/ \E n \in Nodes : ReadAt(n, o) = {} /\ ReadsPart(n, o, rg, lv) /\ e = <<n, 0>>
<1> DEFINE direct == UNION {{<<n, i>> : i \in ReadAt(n, o)} : n \in Nodes}
           wholes == {n \in Nodes : ReadAt(n, o) = {} /\ ReadsPart(n, o, rg, lv)}
<1>1. Takers(o, rg, lv) = direct \cup (wholes \X {0})
  BY DEF Takers
<1>2. e \in direct <=> \E n \in Nodes : \E i \in ReadAt(n, o) : e = <<n, i>>
  OBVIOUS
<1>3. e \in wholes \X {0} <=> \E n \in wholes : e = <<n, 0>>
  <2> HIDE DEF wholes
  <2> QED
    OBVIOUS
<1>4. \A n : n \in wholes <=> n \in Nodes /\ ReadAt(n, o) = {} /\ ReadsPart(n, o, rg, lv)
  OBVIOUS
<1> HIDE DEF direct, wholes
<1> QED
  BY <1>1, <1>2, <1>3, <1>4

LEMMA ListedOf ==
  ASSUME NEW rg \in BOOLEAN, NEW lv \in BOOLEAN, Linked(rg, lv), NEW o \in Objects, NEW n
  PROVE  n \in Listed(o) <=> n \in Nodes /\ (ReadAt(n, o) # {} \/ ReadsPart(n, o, rg, lv))
<1>1. consumers[o] = Takers(o, rg, lv)
  BY DEF Linked
<1>2. n \in Listed(o) <=> \E e \in consumers[o] : e[1] = n
  BY DEF Listed
<1>3. ASSUME NEW e \in Takers(o, rg, lv), e[1] = n
      PROVE  n \in Nodes /\ (ReadAt(n, o) # {} \/ ReadsPart(n, o, rg, lv))
  BY <1>3, InTakers
<1>4. ASSUME n \in Nodes, ReadAt(n, o) # {} PROVE \E e \in Takers(o, rg, lv) : e[1] = n
  <2>1. PICK i \in ReadAt(n, o) : TRUE
    BY <1>4
  <2>2. <<n, i>> \in Takers(o, rg, lv)
    BY <1>4, <2>1, InTakers
  <2> QED
    BY <2>2
<1>5. ASSUME n \in Nodes, ReadAt(n, o) = {}, ReadsPart(n, o, rg, lv)
      PROVE  \E e \in Takers(o, rg, lv) : e[1] = n
  <2>1. <<n, 0>> \in Takers(o, rg, lv)
    BY <1>5, InTakers
  <2> QED
    BY <2>1
<1> QED
  BY <1>1, <1>2, <1>3, <1>4, <1>5

(* The second pass adds the parents of regions that are written or read.     *)
LEMMA RegionsLink ==
  ASSUME Clean, Linked(FALSE, FALSE), ConnectRegions
  PROVE  Linked(TRUE, FALSE)'
<1> DEFINE W == {r \in Used(Parent) : producer[r] # None}
<1>0. graph \in Graphs /\ graph' = graph
  BY DEF Clean, Sorted, ConnectRegions
<1>1. \A r : r \in W <=> r \in Objects /\ Parent[r] # None /\ \E n \in Nodes : r \in Written(n)
  <2>1. \A r \in Objects : producer[r] # None <=> \E n \in Nodes : r \in Written(n)
    <3>1. \A r \in Objects : producer[r] \in Nodes \cup {None}
      BY DEF Linked
    <3>2. \A r \in Objects, n \in Nodes : producer[r] = n <=> r \in Written(n)
      BY DEF Linked, Makes
    <3> QED
      BY <1>0, <3>1, <3>2, GraphFacts
  <2>2. \A r : (\E n \in Nodes : r \in Written(n)) => (\E n \in Nodes : r \in Refs(n))
    BY WrittenFacts
  <2> QED
    BY <1>0, <2>1, <2>2, UsedFacts
<1>2. PICK last \in [{Parent[r] : r \in W} -> W] :
         /\ \A o \in DOMAIN last : Parent[last[o]] = o
         /\ producer' = [o \in Objects |-> producer[IF o \in DOMAIN last THEN last[o] ELSE o]]
  BY DEF ConnectRegions
<1>3. DOMAIN last = {Parent[r] : r \in W} /\ \A o \in DOMAIN last : last[o] \in W
  OBVIOUS
<1>4. outputs' = [n \in Nodes |-> outputs[n] \cup
                             {<<Parent[r], r, 0>> : r \in {w \in W : producer[w] = n}}]
      /\ consumers' = ConsumeWholes(Parent) /\ ~TwoProducers
  BY DEF ConnectRegions, Clean, Sorted
<1> HIDE DEF W
<1>5. \A o \in Objects : producer[o] \in Nodes \cup {None}
  BY DEF Linked
<1>6. \A o \in Objects, n \in Nodes : producer[o] = n <=> o \in Written(n)
  BY DEF Linked, Makes
<1>7. producer' \in [Objects -> Nodes \cup {None}]
  BY <1>1, <1>2, <1>3, <1>5
<1>8. ASSUME NEW o \in Objects, NEW n \in Nodes PROVE producer'[o] = n <=> Makes(n, o, TRUE, FALSE)
  <2>0. Makes(n, o, TRUE, FALSE) <=> o \in Written(n) \/ \E r \in Written(n) : Parent[r] = o
    BY DEF Makes
  <2>1. CASE o \in DOMAIN last
    <3>1. last[o] \in Objects /\ Parent[last[o]] = o /\ producer'[o] = producer[last[o]]
      BY <1>1, <1>2, <1>3, <2>1
    <3>2. PICK k \in Nodes : last[o] \in Written(k)
      BY <1>1, <1>3, <2>1
    <3>3. producer'[o] = k
      BY <1>6, <3>1, <3>2
    <3>4. o # None /\ Family(last[o]) = o /\ Family(o) = o
      BY <3>1, FamilyFacts, VerifyAssumption
    <3>5. ASSUME o \in Written(n) PROVE n = k
      BY <3>2, <3>4, <3>5, WriterOf
    <3>6. ASSUME NEW r \in Written(n), Parent[r] = o PROVE n = k
      <4>1. r \in Objects /\ Family(r) = o
        BY <3>4, <3>6, WrittenFacts, FamilyFacts
      <4> QED
        BY <3>2, <3>4, <4>1, WriterOf
    <3> QED
      BY <2>0, <3>1, <3>2, <3>3, <3>5, <3>6
  <2>2. CASE o \notin DOMAIN last
    <3>1. producer'[o] = producer[o]
      BY <1>2, <2>2
    <3>2. ASSUME NEW r \in Written(n), Parent[r] = o PROVE FALSE
      <4>1. r \in W
        BY <1>1, <3>2, WrittenFacts, VerifyAssumption
      <4> QED
        BY <1>3, <2>2, <3>2, <4>1
    <3> QED
      BY <1>6, <2>0, <3>1, <3>2
  <2> QED
    BY <2>1, <2>2
<1>9. outputs' = [n \in Nodes |-> Entries(n, TRUE, FALSE)]
  <2>1. ASSUME NEW n \in Nodes
        PROVE  outputs[n] \cup {<<Parent[r], r, 0>> : r \in {w \in W : producer[w] = n}} = Entries(n, TRUE, FALSE)
    <3>1. outputs[n] = {<<Params(n)[i], Params(n)[i], i>> : i \in Places(n, TRUE)}
      BY DEF Linked, Entries
    <3>2. {w \in W : producer[w] = n} = {w \in Written(n) : TRUE /\ Parent[w] # None}
      BY <1>1, <1>6, WrittenFacts
    <3>3. {u \in Used(Pyramid) : FALSE /\ Pyramid[u] \in Written(n)} = {}
      OBVIOUS
    <3> QED
      BY <3>1, <3>2, <3>3 DEF Entries
  <2> QED
    BY <1>4, <2>1
<1>10. consumers' = [o \in Objects |-> Takers(o, TRUE, FALSE)]
  <2>1. ASSUME NEW o \in Objects
        PROVE  consumers[o] \cup
                  ((UNION {Listed(r) : r \in {u \in Used(Parent) : Parent[u] = o}}) \ Listed(o)) \X {0}
               = Takers(o, TRUE, FALSE)
    <3> DEFINE P == UNION {Listed(r) : r \in {u \in Used(Parent) : Parent[u] = o}}
               direct == UNION {{<<n, i>> : i \in ReadAt(n, o)} : n \in Nodes}
    <3>1. \A n, x : ~ReadsPart(n, x, FALSE, FALSE)
      BY DEF ReadsPart
    <3>2. consumers[o] = direct
      <4>1. consumers[o] = Takers(o, FALSE, FALSE)
        BY DEF Linked
      <4>2. {n \in Nodes : ReadAt(n, o) = {} /\ ReadsPart(n, o, FALSE, FALSE)} \X {0} = {}
        BY <3>1
      <4> QED
        BY <4>1, <4>2 DEF Takers
    <3>3. \A x \in Objects : \A n : n \in Listed(x) <=> n \in Nodes /\ ReadAt(n, x) # {}
      BY <3>1, ListedOf
    <3>4. ASSUME NEW n PROVE n \in P <=> n \in Nodes /\ ReadsPart(n, o, TRUE, FALSE)
      <4>1. ASSUME n \in P PROVE n \in Nodes /\ ReadsPart(n, o, TRUE, FALSE)
        <5>1. PICK r \in Used(Parent) : Parent[r] = o /\ n \in Listed(r)
          BY <4>1
        <5>2. n \in Nodes /\ ReadAt(n, r) # {}
          BY <1>0, <3>3, <5>1, UsedFacts
        <5> QED
          BY <5>1, <5>2 DEF ReadAt, ReadsPart
      <4>2. ASSUME n \in Nodes, ReadsPart(n, o, TRUE, FALSE) PROVE n \in P
        <5>1. PICK i \in Places(n, FALSE) : Parent[Params(n)[i]] = o
          BY <4>2 DEF ReadsPart
        <5>2. Params(n)[i] \in Objects /\ Params(n)[i] \in Refs(n)
          BY <1>0, <4>2, PlaceFacts
        <5>3. Params(n)[i] \in Used(Parent)
          BY <1>0, <4>2, <5>1, <5>2, UsedFacts, VerifyAssumption
        <5>4. n \in Listed(Params(n)[i])
          BY <3>3, <4>2, <5>1, <5>2 DEF ReadAt
        <5> QED
          BY <5>1, <5>3, <5>4
      <4> QED
        BY <4>1, <4>2
    <3> HIDE DEF P
    <3>5. P \ Listed(o) = {n \in Nodes : ReadAt(n, o) = {} /\ ReadsPart(n, o, TRUE, FALSE)}
      BY <3>3, <3>4
    <3>6. Takers(o, TRUE, FALSE) =
            direct \cup ({n \in Nodes : ReadAt(n, o) = {} /\ ReadsPart(n, o, TRUE, FALSE)} \X {0})
      BY DEF Takers
    <3> HIDE DEF direct
    <3>7. consumers[o] \cup ((P \ Listed(o)) \X {0}) = Takers(o, TRUE, FALSE)
      BY <3>2, <3>5, <3>6
    <3> QED
      BY <3>7 DEF P
  <2> QED
    BY <1>4, <2>1 DEF ConsumeWholes
<1> QED
  BY <1>0, <1>4, <1>7, <1>8, <1>9, <1>10, LinkedNext

-----------------------------------------------------------------------------

(* The third pass adds the levels of pyramids that are written or read.      *)
LEMMA LevelsLink ==
  ASSUME Clean, Linked(TRUE, FALSE), ConnectLevels
  PROVE  Linked(TRUE, TRUE)'
<1> DEFINE W == {l \in Used(Pyramid) : producer[Pyramid[l]] # None}
<1>0. graph \in Graphs /\ graph' = graph /\ None \notin Nodes
  BY GraphFacts DEF Clean, Sorted, ConnectLevels
<1>1. /\ producer' = [o \in Objects |-> producer[IF o \in W THEN Pyramid[o] ELSE o]]
      /\ outputs' = [n \in Nodes |-> outputs[n] \cup
                             {<<l, Pyramid[l], 0>> : l \in {w \in W : producer[Pyramid[w]] = n}}]
      /\ consumers' = ConsumeWholes(Pyramid) /\ ~TwoProducers
  BY DEF ConnectLevels, Clean, Sorted
<1>2. /\ \A o \in Objects : producer[o] \in Nodes \cup {None}
      /\ \A o \in Objects, n \in Nodes : producer[o] = n <=> Makes(n, o, TRUE, FALSE)
  BY DEF Linked
<1>3. \A l \in Used(Pyramid) : l \in Objects /\ Pyramid[l] \in Objects /\ Pyramid[l] \in Pyramids
  BY <1>0, UsedFacts, FamilyFacts
<1>4. \A n \in Nodes : \A l \in Used(Pyramid) : producer[Pyramid[l]] = n <=> Pyramid[l] \in Written(n)
  <2>1. ASSUME NEW n \in Nodes, NEW l \in Used(Pyramid) PROVE ~\E r \in Written(n) : Parent[r] = Pyramid[l]
    <3>1. \A r \in Written(n) : r \in Objects
      BY WrittenFacts
    <3> QED
      BY <1>3, <3>1, VerifyAssumption
  <2> QED
    BY <1>2, <1>3, <2>1 DEF Makes
<1>5. \A l : l \in W <=> l \in Used(Pyramid) /\ \E n \in Nodes : Pyramid[l] \in Written(n)
  <2>1. \A l \in Used(Pyramid) : producer[Pyramid[l]] # None <=> \E n \in Nodes : producer[Pyramid[l]] = n
    BY <1>0, <1>2, <1>3
  <2> QED
    BY <1>4, <2>1
<1>6. \A n \in Nodes : {w \in W : producer[Pyramid[w]] = n}
                          = {u \in Used(Pyramid) : TRUE /\ Pyramid[u] \in Written(n)}
  BY <1>4, <1>5
<1> HIDE DEF W
<1>7. \A o \in W : o \in Objects /\ Pyramid[o] \in Objects
  BY <1>3, <1>5
<1>8. producer' \in [Objects -> Nodes \cup {None}]
  BY <1>1, <1>2, <1>7
<1>9. ASSUME NEW o \in Objects, NEW n \in Nodes PROVE producer'[o] = n <=> Makes(n, o, TRUE, TRUE)
  <2>1. CASE o \in W
    <3>1. producer'[o] = producer[Pyramid[o]] /\ o \in Used(Pyramid) /\ Pyramid[o] # None
      BY <1>0, <1>1, <1>5, <2>1, UsedFacts
    <3>2. producer'[o] = n <=> Pyramid[o] \in Written(n)
      BY <1>4, <3>1
    <3>3. o \notin Written(n)
      BY <3>1, WrittenFacts
    <3>4. ASSUME NEW r \in Written(n), Parent[r] = o PROVE FALSE
      <4>1. r \in Objects /\ o # None
        BY WrittenFacts, VerifyAssumption
      <4> QED
        BY <3>1, <3>4, <4>1, FamilyFacts
    <3> QED
      BY <3>1, <3>2, <3>3, <3>4 DEF Makes
  <2>2. CASE o \notin W
    <3>1. producer'[o] = producer[o]
      BY <1>1, <2>2
    <3>2. ~(o \in Used(Pyramid) /\ Pyramid[o] \in Written(n))
      BY <1>5, <2>2
    <3> QED
      BY <1>2, <3>1, <3>2 DEF Makes
  <2> QED
    BY <2>1, <2>2
<1>10. outputs' = [n \in Nodes |-> Entries(n, TRUE, TRUE)]
  <2>1. ASSUME NEW n \in Nodes
        PROVE  outputs[n] \cup {<<l, Pyramid[l], 0>> : l \in {w \in W : producer[Pyramid[w]] = n}}
               = Entries(n, TRUE, TRUE)
    <3>1. outputs[n] = Entries(n, TRUE, FALSE)
      BY DEF Linked
    <3>2. {u \in Used(Pyramid) : FALSE /\ Pyramid[u] \in Written(n)} = {}
      OBVIOUS
    <3>3. outputs[n] = {<<Params(n)[i], Params(n)[i], i>> : i \in Places(n, TRUE)}
                       \cup {<<Parent[r], r, 0>> : r \in {w \in Written(n) : TRUE /\ Parent[w] # None}}
      BY <3>1, <3>2 DEF Entries
    <3> QED
      BY <1>6, <3>3 DEF Entries
  <2> QED
    BY <1>1, <2>1
<1>11. consumers' = [o \in Objects |-> Takers(o, TRUE, TRUE)]
  <2>1. ASSUME NEW o \in Objects
        PROVE  consumers[o] \cup
                  (((UNION {Listed(l) : l \in {u \in Used(Pyramid) : Pyramid[u] = o}}) \ Listed(o)) \X {0})
               = Takers(o, TRUE, TRUE)
    <3> DEFINE P == UNION {Listed(l) : l \in {u \in Used(Pyramid) : Pyramid[u] = o}}
               direct == UNION {{<<n, i>> : i \in ReadAt(n, o)} : n \in Nodes}
               Whole(lv) == {n \in Nodes : ReadAt(n, o) = {} /\ ReadsPart(n, o, TRUE, lv)}
    <3>1. consumers[o] = direct \cup (Whole(FALSE) \X {0})
      BY DEF Linked, Takers
    <3>2. Takers(o, TRUE, TRUE) = direct \cup (Whole(TRUE) \X {0})
      BY DEF Takers
    <3>3. \A x \in Objects : \A n : n \in Listed(x) <=>
              n \in Nodes /\ (ReadAt(n, x) # {} \/ ReadsPart(n, x, TRUE, FALSE))
      BY ListedOf
    <3>4. ASSUME NEW n
          PROVE  n \in P <=> n \in Nodes /\ \E i \in Places(n, FALSE) : Pyramid[Params(n)[i]] = o
      <4>1. ASSUME n \in P PROVE n \in Nodes /\ \E i \in Places(n, FALSE) : Pyramid[Params(n)[i]] = o
        <5>1. PICK l \in Used(Pyramid) : Pyramid[l] = o /\ n \in Listed(l)
          BY <4>1
        <5>2. l \in Objects /\ Pyramid[l] # None
          BY <1>0, UsedFacts
        <5>3. n \in Nodes /\ (ReadAt(n, l) # {} \/ ReadsPart(n, l, TRUE, FALSE))
          BY <3>3, <5>1, <5>2
        <5>4. ASSUME NEW i \in Places(n, FALSE), Parent[Params(n)[i]] = l PROVE FALSE
          <6>1. Params(n)[i] \in Objects /\ l # None
            BY <1>0, <5>2, <5>3, PlaceFacts, VerifyAssumption
          <6> QED
            BY <5>2, <5>4, <6>1, FamilyFacts
        <5> QED
          BY <5>1, <5>3, <5>4 DEF ReadAt, ReadsPart
      <4>2. ASSUME n \in Nodes, NEW i \in Places(n, FALSE), Pyramid[Params(n)[i]] = o PROVE n \in P
        <5>2. Params(n)[i] \in Objects /\ Params(n)[i] \in Refs(n)
          BY <1>0, <4>2, PlaceFacts
        <5>3. Params(n)[i] \in Used(Pyramid)
          BY <1>0, <4>2, <5>2, UsedFacts, VerifyAssumption
        <5>4. n \in Listed(Params(n)[i])
          BY <3>3, <4>2, <5>2 DEF ReadAt
        <5> QED
          BY <4>2, <5>3, <5>4
      <4> QED
        BY <4>1, <4>2
    <3> HIDE DEF P
    <3>5. Whole(TRUE) = Whole(FALSE) \cup (P \ Listed(o))
      <4>1. \A n : ReadsPart(n, o, TRUE, TRUE) <=>
                ReadsPart(n, o, TRUE, FALSE) \/ \E i \in Places(n, FALSE) : Pyramid[Params(n)[i]] = o
        BY DEF ReadsPart
      <4>2. \A n : n \in Listed(o) <=> n \in Nodes /\ (ReadAt(n, o) # {} \/ ReadsPart(n, o, TRUE, FALSE))
        BY <3>3
      <4> QED
        BY <3>4, <4>1, <4>2
    <3> HIDE DEF direct, Whole
    <3>7. consumers[o] \cup ((P \ Listed(o)) \X {0}) = Takers(o, TRUE, TRUE)
      BY <3>1, <3>2, <3>5
    <3> QED
      BY <3>7 DEF P
  <2> QED
    BY <1>1, <2>1 DEF ConsumeWholes
<1> QED
  BY <1>0, <1>1, <1>8, <1>9, <1>10, <1>11, LinkedNext

-----------------------------------------------------------------------------

Wired == Clean /\ Linked(TRUE, TRUE)

(* The entries InDegree counts.                                              *)
Inputs(n) == UNION {{i} \X {o \in Around(Params(n)[i]) : producer[o] \notin {None, n}} :
                       i \in {j \in DOMAIN Params(n) : Params(n)[j] # None}}

LEMMA InInputs ==
  ASSUME NEW n, NEW d
  PROVE  d \in Inputs(n) <=> \E i \in DOMAIN Params(n) : \E o \in Around(Params(n)[i]) :
             Params(n)[i] # None /\ producer[o] \notin {None, n} /\ d = <<i, o>>
<1> DEFINE From(i) == {o \in Around(Params(n)[i]) : producer[o] \notin {None, n}}
           set == {j \in DOMAIN Params(n) : Params(n)[j] # None}
<1>1. d \in Inputs(n) <=> \E i \in set : d \in {i} \X From(i)
  BY DEF Inputs
<1>2. \A i : d \in {i} \X From(i) <=> \E o \in From(i) : d = <<i, o>>
  <2> HIDE DEF From
  <2> QED
    OBVIOUS
<1>3. \A i, o : o \in From(i) <=> o \in Around(Params(n)[i]) /\ producer[o] \notin {None, n}
  OBVIOUS
<1>4. \A i : i \in set <=> i \in DOMAIN Params(n) /\ Params(n)[i] # None
  OBVIOUS
<1> HIDE DEF From, set
<1> QED
  BY <1>1, <1>2, <1>3, <1>4

LEMMA AroundFacts ==
  ASSUME NEW x \in Objects, NEW o \in Around(x)
  PROVE  o \in Objects /\ o # None /\ (o = x \/ Parent[x] = o \/ Pyramid[x] = o) /\ Family(o) = Family(x)
BY FamilyFacts, VerifyAssumption DEF Around

LEMMA MakesFacts ==
  ASSUME Wired
  PROVE  /\ None \notin Nodes /\ \A o \in Objects : producer[o] \in Nodes \cup {None}
         /\ \A o \in Objects, n \in Nodes : producer[o] = n <=> Makes(n, o, TRUE, TRUE)
BY GraphFacts DEF Wired, Clean, Sorted, Linked

(* An input is read, and somebody else produces it.                          *)
LEMMA InputFacts ==
  ASSUME Wired, NEW n \in Nodes, NEW d \in Inputs(n)
  PROVE  /\ d = <<d[1], d[2]>> /\ d[1] \in Places(n, FALSE) /\ d[2] \in Objects
         /\ d[2] \in Around(Params(n)[d[1]])
         /\ producer[d[2]] \in Nodes \ {n}
<1>0. Clean /\ graph \in Graphs
  BY DEF Wired, Clean, Sorted
<1>1. PICK i \in DOMAIN Params(n) : \E o \in Around(Params(n)[i]) :
             Params(n)[i] # None /\ producer[o] \notin {None, n} /\ d = <<i, o>>
  BY InInputs
<1>2. PICK w \in Around(Params(n)[i]) :
             Params(n)[i] # None /\ producer[w] \notin {None, n} /\ d = <<i, w>>
  BY <1>1
<1>3. Params(n)[i] \in Objects
  BY <1>0, <1>2, GraphFacts
<1>4. w \in Objects /\ w # None /\ (w = Params(n)[i] \/ Parent[Params(n)[i]] = w \/ Pyramid[Params(n)[i]] = w)
  BY <1>3, AroundFacts
<1>5. producer[w] \in Nodes \ {n}
  BY <1>2, <1>4, MakesFacts
<1>6. ASSUME i \in Places(n, TRUE) PROVE FALSE
  <2>1. Params(n)[i] \in Written(n) /\ Pyramid[Params(n)[i]] = None
    BY <1>0, <1>6, WritesNoLevel DEF Written
  <2>2. Makes(n, w, TRUE, TRUE)
    BY <1>4, <2>1 DEF Makes
  <2> QED
    BY <1>2, <1>4, <2>2, MakesFacts
<1>7. i \in Places(n, FALSE)
  BY <1>0, <1>2, <1>6, PlacesSplit
<1> QED
  BY <1>2, <1>4, <1>5, <1>7

LEMMA InputsFinite ==
  ASSUME graph \in Graphs, NEW n \in Nodes
  PROVE  IsFiniteSet(Inputs(n))
<1> DEFINE D == DOMAIN Params(n)
           f == [i \in D |-> Params(n)[i]]
           g == [i \in D |-> Parent[Params(n)[i]]]
           h == [i \in D |-> Pyramid[Params(n)[i]]]
<1>1. IsFiniteSet(D)
  BY GraphFacts
<1>2. \A k : k \in [D -> Range(k)] => k \in Surjection(D, Range(k))
  BY DEF Surjection, Range
<1>3. f \in [D -> Range(f)] /\ g \in [D -> Range(g)] /\ h \in [D -> Range(h)]
  BY DEF Range
<1>4. IsFiniteSet(Range(f)) /\ IsFiniteSet(Range(g)) /\ IsFiniteSet(Range(h))
  <2> HIDE DEF f, g, h, D
  <2> QED
    BY <1>1, <1>2, <1>3, FS_Surjection
<1>5. IsFiniteSet(Range(f) \cup Range(g) \cup Range(h))
  <2> HIDE DEF f, g, h
  <2> QED
    BY <1>4, FS_Union
<1>6. IsFiniteSet(D \X (Range(f) \cup Range(g) \cup Range(h)))
  <2> HIDE DEF f, g, h, D
  <2> QED
    BY <1>1, <1>5, FS_Product
<1>7. Inputs(n) \subseteq D \X (Range(f) \cup Range(g) \cup Range(h))
  <2>1. \A i \in D : Params(n)[i] \in Range(f) /\ Parent[Params(n)[i]] \in Range(g) /\ Pyramid[Params(n)[i]] \in Range(h)
    BY DEF Range
  <2> HIDE DEF f, g, h
  <2>2. ASSUME NEW d \in Inputs(n) PROVE d \in D \X (Range(f) \cup Range(g) \cup Range(h))
    <3>1. PICK i \in DOMAIN Params(n) : \E o \in Around(Params(n)[i]) :
             Params(n)[i] # None /\ producer[o] \notin {None, n} /\ d = <<i, o>>
      BY InInputs
    <3> QED
      BY <2>1, <3>1 DEF Around
  <2> QED
    BY <2>2
<1> HIDE DEF f, g, h, D
<1> QED
  BY <1>6, <1>7, FS_Subset

(* The entries of a node as a producer.                                      *)
LEMMA InEntries ==
  ASSUME NEW n, NEW e
  PROVE  e \in Entries(n, TRUE, TRUE) <=>
            \/ \E i \in Places(n, TRUE) : e = <<Params(n)[i], Params(n)[i], i>>
            \/ \E r \in Written(n) : Parent[r] # None /\ e = <<Parent[r], r, 0>>
            \/ \E l \in Used(Pyramid) : Pyramid[l] \in Written(n) /\ e = <<l, Pyramid[l], 0>>
BY DEF Entries

(* An entry names an object of the family of one that is written,            *)
LEMMA EntryFacts ==
  ASSUME Wired, NEW m \in Nodes, NEW e \in outputs[m]
  PROVE  /\ e = <<e[1], e[2], e[3]>> /\ e[1] \in Objects /\ e[2] \in Written(m)
         /\ Family(e[1]) = Family(e[2]) /\ producer[e[1]] = m
         /\ \/ e[3] \in Places(m, TRUE) /\ e[1] = e[2] /\ Params(m)[e[3]] = e[2]
            \/ e[3] = 0 /\ e[1] # e[2]
<1>0. Clean /\ graph \in Graphs /\ e \in Entries(m, TRUE, TRUE)
  BY DEF Wired, Clean, Sorted, Linked
<1>1. CASE \E i \in Places(m, TRUE) : e = <<Params(m)[i], Params(m)[i], i>>
  <2>1. PICK i \in Places(m, TRUE) : e = <<Params(m)[i], Params(m)[i], i>>
    BY <1>1
  <2>2. e[1] \in Written(m) /\ e[1] \in Objects /\ e[2] = e[1] /\ e[3] = i
    BY <1>0, <2>1, PlaceFacts DEF Written
  <2>3. producer[e[1]] = m
    BY <2>2, MakesFacts DEF Makes
  <2> QED
    BY <2>1, <2>2, <2>3
<1>2. CASE \E r \in Written(m) : Parent[r] # None /\ e = <<Parent[r], r, 0>>
  <2>1. PICK r \in Written(m) : Parent[r] # None /\ e = <<Parent[r], r, 0>>
    BY <1>2
  <2>2. r \in Objects
    BY <1>0, WrittenFacts
  <2>3. e[1] \in Objects /\ Family(e[1]) = Family(e[2]) /\ e[1] # e[2] /\ e[2] = r /\ e[3] = 0 /\ Parent[r] = e[1]
    BY <2>1, <2>2, FamilyFacts
  <2>4. producer[e[1]] = m
    BY <2>3, MakesFacts DEF Makes
  <2> QED
    BY <2>1, <2>3, <2>4
<1>3. CASE \E l \in Used(Pyramid) : Pyramid[l] \in Written(m) /\ e = <<l, Pyramid[l], 0>>
  <2>1. PICK l \in Used(Pyramid) : Pyramid[l] \in Written(m) /\ e = <<l, Pyramid[l], 0>>
    BY <1>3
  <2>2. l \in Objects /\ Pyramid[l] # None
    BY <1>0, UsedFacts
  <2>3. e[1] = l /\ e[2] = Pyramid[l] /\ e[3] = 0 /\ Family(e[1]) = Family(e[2]) /\ e[1] # e[2]
    BY <2>1, <2>2, FamilyFacts
  <2>4. producer[e[1]] = m
    BY <2>1, <2>2, <2>3, MakesFacts DEF Makes
  <2> QED
    BY <2>1, <2>2, <2>3, <2>4
<1> QED
  BY <1>0, <1>1, <1>2, <1>3, InEntries

(* and there is one entry for each object a node produces.                   *)
LEMMA EntryOf ==
  ASSUME Wired, NEW m \in Nodes, NEW w \in Objects, producer[w] = m
  PROVE  \E e \in outputs[m] : e[1] = w /\ \A d \in outputs[m] : d[1] = w => d = e
<1>0. Clean /\ graph \in Graphs /\ outputs[m] = Entries(m, TRUE, TRUE)
  BY DEF Wired, Clean, Sorted, Linked
<1>1. \E e \in outputs[m] : e[1] = w
  <2>1. Makes(m, w, TRUE, TRUE)
    BY MakesFacts
  <2>2. CASE w \in Written(m)
    <3>1. PICK i \in Places(m, TRUE) : w = Params(m)[i]
      BY <2>2 DEF Written
    <3>2. <<w, w, i>> \in outputs[m]
      BY <1>0, <3>1, InEntries
    <3> QED
      BY <3>2
  <2>3. CASE \E r \in Written(m) : Parent[r] = w
    <3>1. PICK r \in Written(m) : Parent[r] = w
      BY <2>3
    <3>2. Parent[r] # None
      BY <3>1, VerifyAssumption
    <3>3. <<Parent[r], r, 0>> \in Entries(m, TRUE, TRUE)
      BY <3>1, <3>2, InEntries
    <3>4. <<w, r, 0>> \in outputs[m]
      BY <1>0, <3>1, <3>3
    <3> QED
      BY <3>4
  <2>4. CASE w \in Used(Pyramid) /\ Pyramid[w] \in Written(m)
    <3>1. <<w, Pyramid[w], 0>> \in Entries(m, TRUE, TRUE)
      BY <2>4, InEntries
    <3>2. <<w, Pyramid[w], 0>> \in outputs[m]
      BY <1>0, <3>1
    <3> QED
      BY <3>2
  <2> QED
    BY <2>1, <2>2, <2>3, <2>4 DEF Makes
<1>2. ASSUME NEW e \in outputs[m], NEW d \in outputs[m], e[1] = d[1] PROVE e = d
  <2>1. /\ e = <<e[1], e[2], e[3]>> /\ e[2] \in Written(m) /\ Family(e[1]) = Family(e[2])
        /\ \/ e[3] \in Places(m, TRUE) /\ e[1] = e[2] /\ Params(m)[e[3]] = e[2]
           \/ e[3] = 0 /\ e[1] # e[2]
    BY EntryFacts
  <2>2. /\ d = <<d[1], d[2], d[3]>> /\ d[2] \in Written(m) /\ Family(d[1]) = Family(d[2])
        /\ \/ d[3] \in Places(m, TRUE) /\ d[1] = d[2] /\ Params(m)[d[3]] = d[2]
           \/ d[3] = 0 /\ d[1] # d[2]
    BY EntryFacts
  <2>3. e[2] = d[2]
    BY <1>0, <1>2, <2>1, <2>2, WriterOf
  <2>4. e[3] = d[3]
    <3>1. CASE e[1] = e[2]
      <4>1. e[3] \in Places(m, TRUE) /\ Params(m)[e[3]] = e[2]
        BY <2>1, <3>1
      <4>2. d[3] \in Places(m, TRUE) /\ Params(m)[d[3]] = e[2]
        BY <1>2, <2>2, <2>3, <3>1
      <4>3. Family(Params(m)[e[3]]) = Family(Params(m)[d[3]])
        BY <4>1, <4>2
      <4>4. ASSUME NEW i \in Places(m, TRUE), NEW j \in Places(m, TRUE), Family(Params(m)[i]) = Family(Params(m)[j])
            PROVE  i = j
        <5>1. Clean
          BY <1>0
        <5> QED
          BY <4>4, <5>1, OneWriter
      <4> QED
        BY <4>1, <4>2, <4>3, <4>4
    <3>2. CASE e[1] # e[2]
      BY <1>2, <2>1, <2>2, <2>3, <3>2
    <3> QED
      BY <3>1, <3>2
  <2> QED
    BY <1>2, <2>1, <2>2, <2>3, <2>4
<1> QED
  BY <1>1, <1>2

-----------------------------------------------------------------------------

(* How a node that counts d for its in-degree is listed as a consumer.       *)
Tap(n, d) == IF Params(n)[d[1]] = d[2] THEN <<n, d[1]>> ELSE <<n, 0>>

(* Each input taps one entry of the consumers of what it is fed from;        *)
LEMMA TapListed ==
  ASSUME Wired, NEW n \in Nodes, NEW d \in Inputs(n)
  PROVE  Tap(n, d) \in consumers[d[2]] /\ Tap(n, d)[1] = n
<1> DEFINE i == d[1]  w == d[2]  x == Params(n)[i]
<1>0. Clean /\ graph \in Graphs
  BY DEF Wired, Clean, Sorted
<1>1. i \in Places(n, FALSE) /\ w \in Objects /\ w \in Around(x)
  BY InputFacts
<1>2. x \in Objects
  BY <1>0, <1>1, PlaceFacts
<1> HIDE DEF i, w
<1>3. consumers[w] = Takers(w, TRUE, TRUE)
  BY <1>1 DEF Wired, Linked
<1>4. CASE x = w
  <2>1. i \in ReadAt(n, w)
    BY <1>1, <1>4 DEF ReadAt
  <2>2. <<n, i>> \in Takers(w, TRUE, TRUE)
    BY <2>1, InTakers
  <2> QED
    BY <1>3, <1>4, <2>2 DEF Tap, i, w
<1>5. CASE x # w
  <2>1. (Parent[x] = w \/ Pyramid[x] = w) /\ Family(x) = w /\ Family(w) = w
    <3>1. w # None /\ (Parent[x] = w \/ Pyramid[x] = w)
      BY <1>1, <1>2, <1>5, AroundFacts
    <3>2. CASE Parent[x] = w
      BY <1>2, <3>1, <3>2, FamilyFacts
    <3>3. CASE Pyramid[x] = w
      BY <1>2, <3>1, <3>3, FamilyFacts
    <3> QED
      BY <3>1, <3>2, <3>3
  <2>2. ReadsPart(n, w, TRUE, TRUE)
    BY <1>1, <2>1 DEF ReadsPart
  <2>3. ASSUME NEW j \in ReadAt(n, w) PROVE FALSE
    <3>1. j \in Places(n, FALSE) /\ Params(n)[j] = w
      BY DEF ReadAt
    <3>2. i # j /\ Family(Params(n)[i]) = Family(Params(n)[j])
      BY <1>5, <2>1, <3>1
    <3>3. Params(n)[j] = Params(n)[i]
      BY <1>0, <1>1, <3>1, <3>2, ReadsWhole
    <3> QED
      BY <1>5, <3>1, <3>3
  <2>4. <<n, 0>> \in Takers(w, TRUE, TRUE)
    BY <2>2, <2>3, InTakers
  <2> QED
    BY <1>3, <1>5, <2>4 DEF Tap, i, w
<1> QED
  BY <1>4, <1>5

(* each entry of another node is tapped by one of its inputs,                *)
LEMMA TapFrom ==
  ASSUME Wired, NEW w \in Objects, NEW f \in consumers[w], producer[w] # None, producer[w] # f[1]
  PROVE  f[1] \in Nodes /\ \E d \in Inputs(f[1]) : d[2] = w /\ Tap(f[1], d) = f
<1>0. Clean /\ graph \in Graphs /\ f \in Takers(w, TRUE, TRUE) /\ w # None
  BY VerifyAssumption DEF Wired, Clean, Sorted, Linked
<1>1. CASE \E n \in Nodes : \E i \in ReadAt(n, w) : f = <<n, i>>
  <2>1. PICK n \in Nodes : \E i \in ReadAt(n, w) : f = <<n, i>>
    BY <1>1
  <2>2. PICK i \in ReadAt(n, w) : f = <<n, i>>
    BY <2>1
  <2>3. i \in Places(n, FALSE) /\ Params(n)[i] = w
    BY DEF ReadAt
  <2>4. i \in DOMAIN Params(n) /\ w \in Around(Params(n)[i]) /\ f[1] = n
    BY <1>0, <2>2, <2>3, PlaceFacts DEF Around
  <2>5. <<i, w>> \in Inputs(n)
    BY <1>0, <2>3, <2>4, InInputs
  <2>6. Tap(n, <<i, w>>) = f
    BY <2>2, <2>3 DEF Tap
  <2> QED
    BY <2>4, <2>5, <2>6
<1>2. CASE \E n \in Nodes : ReadAt(n, w) = {} /\ ReadsPart(n, w, TRUE, TRUE) /\ f = <<n, 0>>
  <2>1. PICK n \in Nodes : ReadAt(n, w) = {} /\ ReadsPart(n, w, TRUE, TRUE) /\ f = <<n, 0>>
    BY <1>2
  <2>2. PICK i \in Places(n, FALSE) : Parent[Params(n)[i]] = w \/ Pyramid[Params(n)[i]] = w
    BY <2>1 DEF ReadsPart
  <2>3. Params(n)[i] # w
    BY <2>1 DEF ReadAt
  <2>4. i \in DOMAIN Params(n) /\ w \in Around(Params(n)[i]) /\ f[1] = n /\ Params(n)[i] # None
    BY <1>0, <2>1, <2>2, PlaceFacts DEF Around
  <2>5. <<i, w>> \in Inputs(n)
    BY <1>0, <2>4, InInputs
  <2>6. Tap(n, <<i, w>>) = f
    BY <2>1, <2>3 DEF Tap
  <2> QED
    BY <2>4, <2>5, <2>6
<1>3. f \in Takers(w, TRUE, TRUE)
  BY <1>0
<1>4. \/ \E n \in Nodes : \E i \in ReadAt(n, w) : f = <<n, i>>
      \/ \E n \in Nodes : ReadAt(n, w) = {} /\ ReadsPart(n, w, TRUE, TRUE) /\ f = <<n, 0>>
  <2> DEFINE wholes == {n \in Nodes : ReadAt(n, w) = {} /\ ReadsPart(n, w, TRUE, TRUE)}
  <2>1. f \in UNION {{<<n, i>> : i \in ReadAt(n, w)} : n \in Nodes} \/ f \in wholes \X {0}
    BY <1>3 DEF Takers
  <2>2. f \in wholes \X {0} => \E n \in wholes : f = <<n, 0>>
    <3> HIDE DEF wholes
    <3> QED
      OBVIOUS
  <2> QED
    BY <2>1, <2>2
<1> QED
  BY <1>1, <1>2, <1>4

(* and by one only.                                                          *)
LEMMA TapOnce ==
  ASSUME Wired, NEW n \in Nodes, NEW d \in Inputs(n), NEW c \in Inputs(n),
         d[2] = c[2], Tap(n, d) = Tap(n, c)
  PROVE  d = c
<1>0. Clean /\ graph \in Graphs
  BY DEF Wired, Clean, Sorted
<1>1. d = <<d[1], d[2]>> /\ d[1] \in Places(n, FALSE) /\ d[2] \in Around(Params(n)[d[1]])
      /\ d[1] # 0 /\ Params(n)[d[1]] \in Objects
  BY <1>0, InputFacts, PlaceFacts
<1>2. c = <<c[1], c[2]>> /\ c[1] \in Places(n, FALSE) /\ c[2] \in Around(Params(n)[c[1]])
      /\ c[1] # 0 /\ Params(n)[c[1]] \in Objects
  BY <1>0, InputFacts, PlaceFacts
<1>3. Tap(n, d)[2] = Tap(n, c)[2]
  OBVIOUS
<1>4. Tap(n, d)[2] = IF Params(n)[d[1]] = d[2] THEN d[1] ELSE 0
  BY DEF Tap
<1>5. Tap(n, c)[2] = IF Params(n)[c[1]] = c[2] THEN c[1] ELSE 0
  BY DEF Tap
<1>6. d[1] = c[1]
  <2>1. CASE Params(n)[d[1]] = d[2]
    BY <1>1, <1>2, <1>3, <1>4, <1>5, <2>1
  <2>2. CASE Params(n)[d[1]] # d[2]
    <3>1. Params(n)[c[1]] # d[2]
      BY <1>1, <1>2, <1>3, <1>4, <1>5, <2>2
    <3>2. Family(Params(n)[d[1]]) = d[2] /\ Family(Params(n)[c[1]]) = d[2]
      <4>1. ASSUME NEW x \in Objects, NEW o \in Around(x), x # o PROVE Family(x) = o
        <5>1. o # None /\ (Parent[x] = o \/ Pyramid[x] = o)
          BY <4>1, AroundFacts
        <5> QED
          BY <5>1, FamilyFacts
      <4> QED
        BY <1>1, <1>2, <2>2, <3>1, <4>1
    <3>3. SUFFICES ASSUME d[1] # c[1] PROVE FALSE
      OBVIOUS
    <3>4. Params(n)[d[1]] = Family(Params(n)[d[1]])
      BY <1>0, <1>1, <1>2, <3>2, <3>3, ReadsWhole
    <3> QED
      BY <2>2, <3>2, <3>4
  <2> QED
    BY <2>1, <2>2
<1> QED
  BY <1>1, <1>2, <1>6

LEMMA InFeeds ==
  ASSUME NEW m, NEW n, m # n, NEW p
  PROVE  p \in Feeds(m, n) <=> \E e \in outputs[m] : \E f \in consumers[e[1]] : f[1] = n /\ p = <<e, f>>
<1> DEFINE Of(e) == {f \in consumers[e[1]] : f[1] = n}
<1>1. p \in Feeds(m, n) <=> \E e \in outputs[m] : p \in {e} \X Of(e)
  BY DEF Feeds
<1>2. \A e : p \in {e} \X Of(e) <=> \E f \in Of(e) : p = <<e, f>>
  <2> HIDE DEF Of
  <2> QED
    OBVIOUS
<1>3. \A e, f : f \in Of(e) <=> f \in consumers[e[1]] /\ f[1] = n
  OBVIOUS
<1> HIDE DEF Of
<1> QED
  BY <1>1, <1>2, <1>3

(* A node tells each follower that it has run once for every time the        *)
(* follower counted it.                                                      *)
LEMMA FeedsCount ==
  ASSUME Wired, NEW m \in Nodes, NEW n \in Nodes, m # n
  PROVE  LET S == {d \in Inputs(n) : producer[d[2]] = m}
         IN  /\ IsFiniteSet(S) /\ Cardinality(Feeds(m, n)) = Cardinality(S)
             /\ Feeds(m, n) # {} <=> S # {}
<1> DEFINE S == {d \in Inputs(n) : producer[d[2]] = m}
           Ent(w) == CHOOSE e \in outputs[m] : e[1] = w
           h == [d \in S |-> <<Ent(d[2]), Tap(n, d)>>]
<1>0. IsFiniteSet(S)
  <2>1. IsFiniteSet(Inputs(n)) /\ S \subseteq Inputs(n)
    BY InputsFinite DEF Wired, Clean, Sorted
  <2> QED
    BY <2>1, FS_Subset
<1>1. ASSUME NEW d \in S
      PROVE  /\ Ent(d[2]) \in outputs[m] /\ Ent(d[2])[1] = d[2]
             /\ \A e \in outputs[m] : e[1] = d[2] => e = Ent(d[2])
  <2>1. d[2] \in Objects /\ producer[d[2]] = m
    BY InputFacts
  <2>2. PICK e \in outputs[m] : e[1] = d[2] /\ \A c \in outputs[m] : c[1] = d[2] => c = e
    BY <2>1, EntryOf
  <2> QED
    BY <2>2
<1> HIDE DEF Ent
<1>2. ASSUME NEW d \in S PROVE <<Ent(d[2]), Tap(n, d)>> \in Feeds(m, n)
  <2>1. Tap(n, d) \in consumers[d[2]] /\ Tap(n, d)[1] = n
    BY TapListed
  <2> QED
    BY <1>1, <2>1, InFeeds
<1>3. ASSUME NEW d \in S, NEW c \in S, h[d] = h[c] PROVE d = c
  <2>1. Ent(d[2]) = Ent(c[2]) /\ Tap(n, d) = Tap(n, c)
    BY <1>3
  <2>2. d[2] = c[2]
    BY <1>1, <2>1
  <2> QED
    BY <2>1, <2>2, TapOnce
<1>4. ASSUME NEW p \in Feeds(m, n) PROVE \E d \in S : h[d] = p
  <2>1. PICK e \in outputs[m] : \E f \in consumers[e[1]] : f[1] = n /\ p = <<e, f>>
    BY InFeeds
  <2>2. PICK f \in consumers[e[1]] : f[1] = n /\ p = <<e, f>>
    BY <2>1
  <2>3. e[1] \in Objects /\ producer[e[1]] = m /\ m # None
    BY EntryFacts, MakesFacts
  <2>4. PICK d \in Inputs(n) : d[2] = e[1] /\ Tap(n, d) = f
    BY <2>2, <2>3, TapFrom
  <2>5. d \in S
    BY <2>3, <2>4
  <2>6. e = Ent(d[2])
    BY <1>1, <2>4, <2>5
  <2>7. h[d] = <<e, f>>
    BY <2>4, <2>5, <2>6
  <2> QED
    BY <2>2, <2>5, <2>7
<1>5. h \in [S -> Feeds(m, n)]
  BY <1>2
<1> HIDE DEF h, S
<1>6. h \in Bijection(S, Feeds(m, n))
  BY <1>3, <1>4, <1>5 DEF Bijection, Injection, Surjection, IsInjective
<1>7. Cardinality(Feeds(m, n)) = Cardinality(S)
  <2>1. ExistsBijection(S, Feeds(m, n))
    BY <1>6 DEF ExistsBijection
  <2> QED
    BY <1>0, <2>1, FS_Bijection
<1>8. Feeds(m, n) # {} <=> S # {}
  BY <1>4, <1>5
<1> QED
  BY <1>0, <1>7, <1>8 DEF S

-----------------------------------------------------------------------------

(* The search for cycles and the in-degrees see the same links.              *)
LEMMA SuccessorLink ==
  ASSUME Wired, NEW m \in Nodes, NEW n
  PROVE  n \in Successors(m) <=> n \in Nodes /\ n # m /\ \E d \in Inputs(n) : producer[d[2]] = m
<1>1. n \in Successors(m) <=> n # m /\ \E e \in outputs[m] : \E f \in consumers[e[1]] : f[1] = n
  BY DEF Successors, Listed
<1>2. ASSUME n # m, NEW e \in outputs[m], NEW f \in consumers[e[1]], f[1] = n
      PROVE  n \in Nodes /\ \E d \in Inputs(n) : producer[d[2]] = m
  <2>1. e[1] \in Objects /\ producer[e[1]] = m /\ m # None
    BY EntryFacts, MakesFacts
  <2>2. f[1] \in Nodes /\ \E d \in Inputs(f[1]) : d[2] = e[1] /\ Tap(f[1], d) = f
    BY <1>2, <2>1, TapFrom
  <2> QED
    BY <1>2, <2>1, <2>2
<1>3. ASSUME n \in Nodes, n # m, NEW d \in Inputs(n), producer[d[2]] = m
      PROVE  \E e \in outputs[m] : \E f \in consumers[e[1]] : f[1] = n
  <2>1. d[2] \in Objects
    BY <1>3, InputFacts
  <2>2. PICK e \in outputs[m] : e[1] = d[2]
    BY <1>3, <2>1, EntryOf
  <2>3. Tap(n, d) \in consumers[d[2]] /\ Tap(n, d)[1] = n
    BY <1>3, TapListed
  <2> QED
    BY <2>2, <2>3
<1> QED
  BY <1>1, <1>2, <1>3

(* Verification takes for outputs what kernels write.                        *)
LEMMA WritesWritten ==
  ASSUME Sorted, NEW n \in Nodes, NEW o
  PROVE  /\ o \in Writes(n) <=> o \in Written(n)
         /\ o \in Reads(n) <=> \E i \in Places(n, FALSE) : o = Params(n)[i]
<1>1. ASSUME NEW i \in DOMAIN Params(n), Params(n)[i] # None
      PROVE  i \in Places(n, TRUE) <=> i - 1 \in Dispatch[graph[n].kernel].written
  <2>1. Result(graph, <<n, i>>) <=> i - 1 \in Dispatch[graph[n].kernel].written
    BY DEF Result
  <2>2. CASE i \in Places(n, TRUE)
    BY <2>1, <2>2, SlotOf
  <2>3. CASE i \in Places(n, FALSE)
    <3>1. i \notin Places(n, TRUE)
      BY <1>1, <2>3, PlacesSplit DEF Sorted
    <3>2. ~Result(graph, <<n, i>>)
      BY <2>3, SlotOf
    <3> QED
      BY <2>1, <3>1, <3>2
  <2> QED
    BY <1>1, <2>2, <2>3, PlacesSplit DEF Sorted
<1>2. \A output \in BOOLEAN : \A i \in Places(n, output) : i \in DOMAIN Params(n) /\ Params(n)[i] # None
  BY DEF Places
<1>3. o \in Writes(n) <=> \E i \in DOMAIN Params(n) : i - 1 \in Dispatch[graph[n].kernel].written
                                                     /\ o = Params(n)[i] /\ o # None
  BY DEF Writes
<1>4. o \in Reads(n) <=> \E i \in DOMAIN Params(n) : i - 1 \notin Dispatch[graph[n].kernel].written
                                                    /\ o = Params(n)[i] /\ o # None
  BY DEF Reads
<1>5. o \in Written(n) <=> \E i \in Places(n, TRUE) : o = Params(n)[i]
  BY DEF Written
<1>6. \A i \in DOMAIN Params(n) : Params(n)[i] # None =>
          (i \in Places(n, FALSE) <=> i - 1 \notin Dispatch[graph[n].kernel].written)
  BY <1>1, PlacesSplit DEF Sorted
<1>7. o \in Writes(n) <=> o \in Written(n)
  BY <1>1, <1>2, <1>3, <1>5
<1>8. o \in Reads(n) <=> \E i \in Places(n, FALSE) : o = Params(n)[i]
  BY <1>2, <1>4, <1>6
<1> QED
  BY <1>7, <1>8

(* The data a node counts for its in-degree is the data it must wait for.    *)
LEMMA BeforeInputs ==
  ASSUME Wired, NEW m \in Nodes, NEW n \in Nodes, Before(m, n)
  PROVE  /\ m # n /\ \E r \in Refs(n) : producer[r] = m
         /\ \E d \in Inputs(n) : producer[d[2]] = m
<1>0. Clean /\ graph \in Graphs
  BY DEF Wired, Clean, Sorted
<1>1. PICK o \in Writes(m) : \E r \in Reads(n) : Overlap(o, r)
  BY DEF Before
<1>2. PICK r \in Reads(n) : Overlap(o, r)
  BY <1>1
<1>3. o \in Written(m) /\ o \in Objects /\ o # None /\ Pyramid[o] = None
  BY <1>0, WritesWritten, WrittenFacts DEF Clean
<1>4. PICK i \in Places(n, FALSE) : r = Params(n)[i]
  BY <1>0, WritesWritten DEF Clean
<1>5. r \in Objects /\ r # None /\ r \in Refs(n) /\ i \in DOMAIN Params(n)
  BY <1>0, <1>4, PlaceFacts
<1>6. Makes(m, r, TRUE, TRUE)
  <2>1. CASE o = r
    BY <1>3, <2>1 DEF Makes
  <2>2. CASE Parent[o] = r
    BY <1>3, <2>2 DEF Makes
  <2>3. CASE Parent[r] = o
    <3>1. PICK j \in Places(m, TRUE) : o = Params(m)[j]
      BY <1>3 DEF Written
    <3>2. Family(o) = Family(r) /\ Parent[r] # None
      BY <1>3, <1>5, <2>3, FamilyFacts
    <3>3. o = r
      BY <1>0, <1>4, <3>1, <3>2, ReadsWritten
    <3> QED
      BY <1>3, <3>3 DEF Makes
  <2>4. CASE Pyramid[r] = o
    <3>1. r \in Used(Pyramid)
      BY <1>0, <1>3, <1>5, <2>4, UsedFacts
    <3> QED
      BY <1>3, <2>4, <3>1 DEF Makes
  <2>5. Pyramid[o] # r
    BY <1>3, <1>5
  <2> QED
    BY <1>2, <2>1, <2>2, <2>3, <2>4, <2>5 DEF Overlap
<1>7. producer[r] = m /\ m # None /\ m # n
  BY <1>5, <1>6, MakesFacts DEF Before
<1>8. <<i, r>> \in Inputs(n)
  <2>1. r \in Around(Params(n)[i])
    BY <1>4, <1>5 DEF Around
  <2> QED
    BY <1>4, <1>5, <1>7, <2>1, InInputs
<1> QED
  BY <1>5, <1>7, <1>8

(* And nothing else is: who feeds an input is a node to wait for.            *)
LEMMA InputsBefore ==
  ASSUME Wired, NEW n \in Nodes, NEW d \in Inputs(n)
  PROVE  Before(producer[d[2]], n)
<1> DEFINE i == d[1]  w == d[2]  x == Params(n)[i]  m == producer[w]
<1>0. Clean /\ graph \in Graphs
  BY DEF Wired, Clean, Sorted
<1>1. i \in Places(n, FALSE) /\ w \in Objects /\ w \in Around(x) /\ m \in Nodes /\ m # n
  BY InputFacts
<1>2. x \in Objects /\ x # None
  BY <1>0, <1>1, PlaceFacts
<1>3. w # None /\ (w = x \/ Parent[x] = w \/ Pyramid[x] = w)
  BY <1>1, <1>2, AroundFacts
<1>4. Makes(m, w, TRUE, TRUE)
  <2>1. producer[w] = m
    OBVIOUS
  <2>2. \A k \in Nodes : producer[w] = k <=> Makes(k, w, TRUE, TRUE)
    BY <1>1, MakesFacts
  <2> HIDE DEF m, w
  <2> QED
    BY <1>1, <2>1, <2>2
<1>5. x \in Reads(n)
  BY <1>0, <1>1, WritesWritten DEF Clean
<1>6. \E o \in Written(m) : Overlap(o, x)
  <2>1. CASE w \in Written(m)
    BY <1>3, <2>1 DEF Overlap
  <2>2. CASE \E r \in Written(m) : Parent[r] = w
    <3>1. PICK r \in Written(m) : Parent[r] = w
      BY <2>2
    <3>2. CASE w = x
      BY <3>1, <3>2 DEF Overlap
    <3>3. CASE Parent[x] = w
      <4>1. PICK j \in Places(m, TRUE) : r = Params(m)[j]
        BY DEF Written
      <4>2. r \in Objects
        BY <1>0, <1>1, WrittenFacts
      <4>3. Family(r) = Family(x) /\ Parent[x] # None
        BY <1>2, <1>3, <3>1, <3>3, <4>2, FamilyFacts
      <4>4. r = x
        BY <1>0, <1>1, <4>1, <4>3, ReadsWritten
      <4> QED
        BY <4>4 DEF Overlap
    <3>4. CASE Pyramid[x] = w
      <4>1. r \in Objects
        BY <1>0, <1>1, WrittenFacts
      <4>2. w \in Pyramids /\ w \notin Pyramids
        BY <1>2, <1>3, <3>1, <3>4, <4>1, FamilyFacts
      <4> QED
        BY <4>2
    <3> QED
      BY <1>3, <3>2, <3>3, <3>4
  <2>3. CASE w \in Used(Pyramid) /\ Pyramid[w] \in Written(m)
    <3>1. Pyramid[w] # None
      BY <1>0, <2>3, UsedFacts
    <3>2. w = x
      BY <1>2, <1>3, <3>1, FamilyFacts
    <3> QED
      BY <2>3, <3>2 DEF Overlap
  <2> QED
    BY <1>4, <2>1, <2>2, <2>3 DEF Makes
<1>7. \A o \in Written(m) : o \in Writes(m)
  BY <1>0, <1>1, WritesWritten DEF Clean
<1> HIDE DEF m, x
<1> QED
  BY <1>1, <1>5, <1>6, <1>7 DEF Before, m

-----------------------------------------------------------------------------

(* Kahn's algorithm: a node's in-degree is the number of its inputs from     *)
(* nodes that have not been ordered; it is ready, or ordered, when there are *)
(* none; and it is ordered after those it follows.                           *)
Unserved(n) == {d \in Inputs(n) : producer[d[2]] \notin Range(order)}

KahnInv ==
    /\ order \in Seq(Nodes) /\ IsInjective(order)
    /\ queue \in Seq(Nodes) /\ IsInjective(queue)
    /\ Range(order) \cap Range(queue) = {}
    /\ degree \in [Nodes -> Nat]
    /\ \A n \in Nodes : /\ degree[n] = Cardinality(Unserved(n))
                        /\ degree[n] = 0 <=> n \in Range(order) \cup Range(queue)
    /\ \A j \in DOMAIN order : \A d \in Inputs(order[j]) : \E i \in 1..(j - 1) : order[i] = producer[d[2]]

(* The waves are filled along the order, after those of the nodes followed.  *)
WaveInv ==
    /\ wave \in [Nodes -> Nat \cup {None}]
    /\ queue # <<>> => \A n \in Nodes : wave[n] = None
    /\ \A j \in DOMAIN order : wave[order[j]] # None => \A i \in 1..(j - 1) : wave[order[i]] # None
    /\ \A n \in Nodes : wave[n] # None => \A o \in Refs(n) : producer[o] \in Nodes \ {n} =>
          wave[producer[o]] # None /\ wave[producer[o]] < wave[n]

Fresh == order = <<>> /\ queue = <<>> /\ wave = [n \in Nodes |-> None]

VerificationInv ==
    /\ graph \in Graphs
    /\ Plain(graph) /\ Classified(graph) =>
          /\ stage = "connect" => Fresh
          /\ stage = "regions" => Fresh /\ Linked(FALSE, FALSE)
          /\ stage = "levels" => Fresh /\ Linked(TRUE, FALSE)
          /\ stage = "cycles" => Fresh /\ Linked(TRUE, TRUE)
          /\ stage = "kahn" => Linked(TRUE, TRUE) /\ Schedulable /\ KahnInv /\ WaveInv
          /\ Ordered => Schedulable /\ OrderRespectsData /\ WavesRespectData
          /\ stage = "INVALID_GRAPH" /\ order = <<>> =>
                ~Schedulable \/ \E m, n \in Nodes : m # n /\ Writes(m) \cap Writes(n) # {}

(* So the search for cycles follows the data, no more and no less.           *)
LEMMA SuccessorsBefore ==
  ASSUME Wired, NEW m \in Nodes
  PROVE  /\ Successors(m) \subseteq Nodes
         /\ \A n \in Nodes : n \in Successors(m) <=> Before(m, n)
<1>1. Successors(m) \subseteq Nodes
  BY SuccessorLink
<1>2. ASSUME NEW n \in Nodes PROVE n \in Successors(m) <=> Before(m, n)
  <2>1. ASSUME n \in Successors(m) PROVE Before(m, n)
    <3>1. PICK d \in Inputs(n) : producer[d[2]] = m
      BY <2>1, SuccessorLink
    <3> QED
      BY <3>1, InputsBefore
  <2>2. ASSUME Before(m, n) PROVE n \in Successors(m)
    BY <2>2, BeforeInputs, SuccessorLink
  <2> QED
    BY <2>1, <2>2
<1> QED
  BY <1>1, <1>2

(* It finds a cycle exactly when there is no order to find.                  *)
LEMMA AcyclicSchedulable ==
  ASSUME Wired
  PROVE  ~has_cycle <=> Schedulable
<1>1. /\ \A n \in Nodes : Successors(n) \subseteq Nodes
      /\ \A m, n \in Nodes : n \in Successors(m) <=> Before(m, n)
  BY SuccessorsBefore
<1>2. Len(graph) \in Nat /\ Nodes = 1..Len(graph)
  BY GraphFacts DEF Wired, Clean, Sorted
<1>3. ASSUME ~has_cycle PROVE Schedulable
  <2>1. PICK rank \in [Nodes -> Nodes] : \A m, n \in Nodes : n \in Successors(m) => rank[m] < rank[n]
    BY <1>1, <1>2, <1>3, AcyclicRanked
  <2> QED
    BY <1>1, <2>1 DEF Schedulable
<1>4. ASSUME Schedulable PROVE ~has_cycle
  <2>1. PICK rank \in [Nodes -> Nodes] : \A m, n \in Nodes : Before(m, n) => rank[m] < rank[n]
    BY <1>4 DEF Schedulable
  <2>2. \A m, n \in Nodes : n \in Successors(m) => rank[m] < rank[n]
    BY <1>1, <2>1
  <2> QED
    BY <1>1, <1>2, <2>2, RankedAcyclic
<1> QED
  BY <1>3, <1>4

(* When no node is ready, every node has been ordered.                       *)
LEMMA AllOrdered ==
  ASSUME Wired, ~has_cycle, KahnInv, queue = <<>>
  PROVE  Range(order) = Nodes /\ Len(order) = Len(graph)
<1>0. Range(queue) = {} /\ Range(order) \subseteq Nodes /\ IsFiniteSet(Nodes)
      /\ DOMAIN order = 1..Len(order) /\ Len(order) \in Nat
  <2>1. queue \in Seq(Nodes) /\ order \in Seq(Nodes)
    BY DEF KahnInv
  <2> QED
    BY <2>1, GraphFacts DEF Range, Wired, Clean, Sorted
<1>1. Range(order) = Nodes
  <2> DEFINE U == Nodes \ Range(order)
  <2>1. SUFFICES ASSUME U # {} PROVE FALSE
    BY <1>0
  <2>2. IsFiniteSet(U) /\ U \in SUBSET Nodes
    BY <1>0, FS_Subset
  <2>3. \A n \in Nodes : Successors(n) \subseteq Nodes
    BY SuccessorsBefore
  <2>4. PICK n \in U : \A m \in U : n \notin Successors(m)
    <3> HIDE DEF U
    <3> QED
      BY <2>1, <2>2, <2>3, SourceExists
  <2>5. n \in Nodes /\ n \notin Range(order) \cup Range(queue)
    BY <1>0
  <2>6. degree[n] # 0 /\ degree[n] = Cardinality(Unserved(n))
    BY <2>5 DEF KahnInv
  <2>7. Unserved(n) # {}
    BY <2>6, FS_EmptySet
  <2>8. PICK d \in Inputs(n) : producer[d[2]] \notin Range(order)
    BY <2>7 DEF Unserved
  <2>9. producer[d[2]] \in Nodes \ {n}
    BY <2>5, InputFacts
  <2>10. n \in Successors(producer[d[2]])
    BY <2>5, <2>9, SuccessorLink
  <2> QED
    BY <2>4, <2>8, <2>9, <2>10
<1>2. Len(order) = Len(graph)
  <2>1. order \in Bijection(1..Len(order), Nodes)
    <3>1. order \in [1..Len(order) -> Nodes]
      BY <1>0 DEF KahnInv
    <3>2. IsInjective(order)
      BY DEF KahnInv
    <3>3. \A n \in Nodes : \E i \in 1..Len(order) : order[i] = n
      BY <1>0, <1>1 DEF Range
    <3> QED
      BY <3>1, <3>2, <3>3 DEF Bijection, Injection, Surjection
  <2>2. IsFiniteSet(1..Len(order)) /\ Cardinality(1..Len(order)) = Len(order)
    BY <1>0, FS_Interval
  <2>3. Cardinality(Nodes) = Cardinality(1..Len(order))
    BY <2>1, <2>2, FS_Bijection DEF ExistsBijection
  <2> QED
    BY <2>2, <2>3, GraphFacts DEF Wired, Clean, Sorted
<1> QED
  BY <1>1, <1>2

-----------------------------------------------------------------------------

(* Sequences without repetition.                                             *)
LEMMA DistinctFromSet ==
  ASSUME NEW S, IsFiniteSet(S), NEW q \in SetToSeqs(S)
  PROVE  q \in Seq(S) /\ IsInjective(q) /\ Range(q) = S
<1> DEFINE k == Cardinality(S)
<1>1. k \in Nat
  BY FS_CardinalityType
<1>2. q \in [1..k -> S] /\ \A i, j \in 1..k : i # j => q[i] # q[j]
  BY DEF SetToSeqs
<1>3. IsFiniteSet(1..k) /\ Cardinality(1..k) = k
  BY <1>1, FS_Interval
<1> HIDE DEF k
<1>4. q \in Injection(1..k, S) /\ IsInjective(q)
  BY <1>2 DEF Injection, IsInjective
<1>5. q \in Surjection(1..k, S)
  BY <1>3, <1>4, FS_Injection DEF k
<1>6. Range(q) = S
  BY <1>2, <1>5 DEF Range, Surjection
<1>7. q \in Seq(S)
  BY <1>1, <1>2
<1> QED
  BY <1>4, <1>6, <1>7

LEMMA DistinctAppend ==
  ASSUME NEW T, NEW s \in Seq(T), IsInjective(s), NEW x \in T, x \notin Range(s)
  PROVE  /\ Append(s, x) \in Seq(T) /\ IsInjective(Append(s, x))
         /\ Range(Append(s, x)) = Range(s) \cup {x}
         /\ DOMAIN Append(s, x) = 1..(Len(s) + 1) /\ Append(s, x)[Len(s) + 1] = x
         /\ \A i \in 1..Len(s) : Append(s, x)[i] = s[i]
<1> DEFINE t == Append(s, x)
<1>1. /\ t \in Seq(T) /\ Len(t) = Len(s) + 1 /\ Len(s) \in Nat
      /\ DOMAIN s = 1..Len(s) /\ DOMAIN t = 1..(Len(s) + 1)
      /\ t[Len(s) + 1] = x /\ \A i \in 1..Len(s) : t[i] = s[i]
  OBVIOUS
<1> HIDE DEF t
<1>2. \A i \in DOMAIN t : i \in 1..Len(s) \/ i = Len(s) + 1
  BY <1>1
<1>3. \A i \in 1..Len(s) : s[i] \in Range(s)
  BY <1>1 DEF Range
<1>4. ASSUME NEW i \in DOMAIN t, NEW j \in DOMAIN t, t[i] = t[j] PROVE i = j
  <2>1. CASE i \in 1..Len(s) /\ j \in 1..Len(s)
    BY <1>1, <1>4, <2>1 DEF IsInjective
  <2>2. CASE i = Len(s) + 1 /\ j \in 1..Len(s)
    BY <1>1, <1>3, <1>4, <2>2
  <2>3. CASE j = Len(s) + 1 /\ i \in 1..Len(s)
    BY <1>1, <1>3, <1>4, <2>3
  <2> QED
    BY <1>2, <2>1, <2>2, <2>3
<1>5. IsInjective(t)
  BY <1>4 DEF IsInjective
<1>6. Range(t) = Range(s) \cup {x}
  <2>1. \A i \in DOMAIN t : t[i] \in Range(s) \cup {x}
    BY <1>1, <1>2, <1>3
  <2>2. \A y \in Range(s) : \E i \in DOMAIN t : t[i] = y
    BY <1>1 DEF Range
  <2>3. \E i \in DOMAIN t : t[i] = x
    BY <1>1
  <2> QED
    BY <2>1, <2>2, <2>3 DEF Range
<1> QED
  BY <1>1, <1>5, <1>6 DEF t

LEMMA DistinctFront ==
  ASSUME NEW T, NEW s \in Seq(T), IsInjective(s), s # <<>>
  PROVE  /\ Front(s) \in Seq(T) /\ IsInjective(Front(s)) /\ Last(s) \in T /\ Last(s) \in Range(s)
         /\ Range(Front(s)) = Range(s) \ {Last(s)}
<1> DEFINE t == Front(s)  k == Len(s)
<1>1. k \in Nat /\ k # 0 /\ DOMAIN s = 1..k /\ k \in 1..k /\ k - 1 \in Nat
  OBVIOUS
<1>2. t \in Seq(T) /\ Len(t) = k - 1 /\ \A i \in 1..(k - 1) : t[i] = s[i]
  BY <1>1 DEF Front
<1>5. Last(s) = s[k] /\ s[k] \in T
  BY <1>1 DEF Last
<1> HIDE DEF t, k
<1>3. DOMAIN t = 1..(k - 1) /\ \A i \in 1..(k - 1) : i \in 1..k /\ i # k
  BY <1>1, <1>2
<1>4. \A i \in 1..k : i # k => i \in 1..(k - 1)
  BY <1>1
<1>6. IsInjective(t)
  BY <1>1, <1>2, <1>3 DEF IsInjective
<1>7. Range(t) = Range(s) \ {s[k]}
  <2>1. ASSUME NEW y \in Range(t) PROVE y \in Range(s) \ {s[k]}
    <3>1. PICK i \in 1..(k - 1) : y = t[i]
      BY <1>3 DEF Range
    <3> QED
      BY <1>1, <1>2, <1>3, <3>1 DEF Range, IsInjective
  <2>2. ASSUME NEW y \in Range(s) \ {s[k]} PROVE y \in Range(t)
    <3>1. PICK i \in 1..k : y = s[i]
      BY <1>1 DEF Range
    <3>2. i \in 1..(k - 1)
      BY <1>4, <3>1
    <3> QED
      BY <1>2, <1>3, <3>1, <3>2 DEF Range
  <2> QED
    BY <2>1, <2>2
<1> QED
  BY <1>1, <1>2, <1>5, <1>6, <1>7 DEF t, Range

LEMMA DistinctConcat ==
  ASSUME NEW T, NEW s \in Seq(T), NEW u \in Seq(T), IsInjective(s), IsInjective(u),
         Range(s) \cap Range(u) = {}
  PROVE  s \o u \in Seq(T) /\ IsInjective(s \o u) /\ Range(s \o u) = Range(s) \cup Range(u)
<1> DEFINE t == s \o u  k == Len(s)  l == Len(u)
<1>1. /\ k \in Nat /\ l \in Nat /\ DOMAIN s = 1..k /\ DOMAIN u = 1..l
      /\ t \in Seq(T) /\ Len(t) = k + l /\ DOMAIN t = 1..(k + l)
      /\ \A i \in 1..(k + l) : t[i] = IF i <= k THEN s[i] ELSE u[i - k]
  OBVIOUS
<1> HIDE DEF t, k, l
<1>2. ASSUME NEW i \in 1..k PROVE i \in DOMAIN t /\ t[i] = s[i] /\ s[i] \in Range(s)
  <2>1. i \in 1..(k + l) /\ i <= k
    BY <1>1
  <2> QED
    BY <1>1, <2>1 DEF Range
<1>3. ASSUME NEW i \in 1..(k + l), i \notin 1..k
      PROVE  i - k \in 1..l /\ t[i] = u[i - k] /\ t[i] \in Range(u)
  <2>1. i - k \in 1..l /\ ~(i <= k)
    BY <1>1, <1>3
  <2> QED
    BY <1>1, <2>1 DEF Range
<1>4. ASSUME NEW i \in DOMAIN t, NEW j \in DOMAIN t, t[i] = t[j] PROVE i = j
  <2>0. i \in Nat /\ j \in Nat
    BY <1>1
  <2>1. CASE i \in 1..k /\ j \in 1..k
    BY <1>1, <1>2, <1>4, <2>1 DEF IsInjective
  <2>2. CASE i \notin 1..k /\ j \notin 1..k
    <3>1. i - k = j - k
      BY <1>1, <1>3, <1>4, <2>2 DEF IsInjective
    <3> QED
      BY <1>1, <2>0, <3>1
  <2>3. CASE i \in 1..k /\ j \notin 1..k
    BY <1>1, <1>2, <1>3, <1>4, <2>3
  <2>4. CASE i \notin 1..k /\ j \in 1..k
    BY <1>1, <1>2, <1>3, <1>4, <2>4
  <2> QED
    BY <2>1, <2>2, <2>3, <2>4
<1>5. IsInjective(t)
  BY <1>4 DEF IsInjective
<1>6. Range(t) = Range(s) \cup Range(u)
  <2>1. \A i \in DOMAIN t : t[i] \in Range(s) \cup Range(u)
    BY <1>1, <1>2, <1>3
  <2>2. \A y \in Range(s) : \E i \in DOMAIN t : t[i] = y
    BY <1>1, <1>2 DEF Range
  <2>3. ASSUME NEW y \in Range(u) PROVE \E i \in DOMAIN t : t[i] = y
    <3>1. PICK i \in 1..l : y = u[i]
      BY <1>1 DEF Range
    <3>2. k + i \in 1..(k + l) /\ ~(k + i <= k) /\ (k + i) - k = i
      BY <1>1
    <3>3. t[k + i] = u[i]
      BY <1>1, <3>2
    <3> QED
      BY <1>1, <3>1, <3>2, <3>3
  <2>4. \A y : y \in Range(t) <=> \E i \in DOMAIN t : t[i] = y
    BY DEF Range
  <2> QED
    BY <2>1, <2>2, <2>3, <2>4
<1> QED
  BY <1>1, <1>5, <1>6 DEF t

-----------------------------------------------------------------------------

LEMMA InputsSame ==
  ASSUME graph' = graph, producer' = producer
  PROVE  \A n : Inputs(n)' = Inputs(n)
<1>1. \A n : Params(n)' = Params(n)
  BY GraphSame
<1> QED
  BY <1>1 DEF Inputs, Around

(* Kahn's algorithm begins with all nodes that have no inputs.               *)
LEMMA CountInDegreeStep ==
  ASSUME Wired, order = <<>>, queue = <<>>, CountInDegree
  PROVE  KahnInv'
<1>1. /\ graph' = graph /\ producer' = producer /\ order' = <<>> /\ Nodes' = Nodes
      /\ degree' = [n \in Nodes |-> InDegree(n)]
      /\ queue' \in SetToSeqs({n \in Nodes : degree'[n] = 0})
  BY GraphSame DEF CountInDegree
<1>2. IsFiniteSet(Nodes) /\ graph \in Graphs
  BY GraphFacts DEF Wired, Clean, Sorted
<1> DEFINE S == {n \in Nodes : degree'[n] = 0}
<1>3. IsFiniteSet(S) /\ S \subseteq Nodes
  BY <1>2, FS_Subset
<1>4. queue' \in Seq(S) /\ IsInjective(queue') /\ Range(queue') = S
  <2> HIDE DEF S
  <2>1. queue' \in SetToSeqs(S)
    BY <1>1 DEF S
  <2> QED
    BY <1>3, <2>1, DistinctFromSet
<1>5. queue' \in Seq(Nodes)
  <2> HIDE DEF S
  <2> QED
    BY <1>3, <1>4
<1>6. order' \in Seq(Nodes) /\ IsInjective(order') /\ Range(order') = {} /\ DOMAIN order' = {}
  BY <1>1 DEF IsInjective, Range
<1>7. \A n \in Nodes : degree'[n] = Cardinality(Inputs(n)) /\ degree'[n] \in Nat
  BY <1>1, <1>2, InputsFinite, FS_CardinalityType DEF InDegree, Inputs
<1>8. \A n : Unserved(n)' = Inputs(n)
  <2>1. \A n : Inputs(n)' = Inputs(n)
    BY <1>1, InputsSame
  <2> QED
    BY <1>6, <2>1 DEF Unserved
<1>9. degree' \in [Nodes -> Nat]
  BY <1>1, <1>7
<1>10. \A n \in Nodes : degree'[n] = 0 <=> n \in Range(order') \cup Range(queue')
  BY <1>4, <1>6
<1>11. Range(order') \cap Range(queue') = {}
  BY <1>6
<1> HIDE DEF S
<1> QED
  BY <1>1, <1>4, <1>5, <1>6, <1>7, <1>8, <1>9, <1>10, <1>11 DEF KahnInv

(* Ordering a node takes its feeds off the in-degrees of those that follow.  *)
LEMMA TakeReadyStep ==
  ASSUME Wired, KahnInv, TakeReady
  PROVE  KahnInv'
<1> DEFINE n == Last(queue)
           S == {c \in Nodes : degree[c] > 0 /\ degree'[c] = 0}
<1>0. IsFiniteSet(Nodes) /\ graph \in Graphs
  BY GraphFacts DEF Wired, Clean, Sorted
<1>1. /\ graph' = graph /\ producer' = producer /\ Nodes' = Nodes
      /\ queue # <<>> /\ order' = Append(order, n)
      /\ degree' = [c \in Nodes |-> Left(n, c)]
  BY GraphSame DEF TakeReady
<1>2. PICK ready \in SetToSeqs(S) : queue' = Front(queue) \o ready
  BY DEF TakeReady
<1>3. /\ order \in Seq(Nodes) /\ IsInjective(order) /\ queue \in Seq(Nodes) /\ IsInjective(queue)
      /\ Range(order) \cap Range(queue) = {} /\ degree \in [Nodes -> Nat]
      /\ \A c \in Nodes : degree[c] = Cardinality(Unserved(c))
      /\ \A c \in Nodes : degree[c] = 0 <=> c \in Range(order) \cup Range(queue)
      /\ \A j \in DOMAIN order : \A d \in Inputs(order[j]) : \E i \in 1..(j - 1) : order[i] = producer[d[2]]
  BY DEF KahnInv
<1>4. /\ Front(queue) \in Seq(Nodes) /\ IsInjective(Front(queue)) /\ n \in Nodes /\ n \in Range(queue)
      /\ Range(Front(queue)) = Range(queue) \ {n}
  BY <1>1, <1>3, DistinctFront
<1>5. IsFiniteSet(S) /\ S \subseteq Nodes
  BY <1>0, FS_Subset
<1> HIDE DEF n, S
<1>6. ready \in Seq(S) /\ IsInjective(ready) /\ Range(ready) = S
  BY <1>2, <1>5, DistinctFromSet
<1>7. ready \in Seq(Nodes)
  BY <1>5, <1>6
<1>8. n \notin Range(order)
  BY <1>3, <1>4
<1>9. /\ order' \in Seq(Nodes) /\ IsInjective(order') /\ Range(order') = Range(order) \cup {n}
      /\ DOMAIN order' = 1..(Len(order) + 1) /\ order'[Len(order) + 1] = n
      /\ \A i \in 1..Len(order) : order'[i] = order[i]
  BY <1>1, <1>3, <1>4, <1>8, DistinctAppend
<1>10. Range(Front(queue)) \cap S = {}
  BY <1>3, <1>4 DEF S
<1>11. queue' \in Seq(Nodes) /\ IsInjective(queue') /\ Range(queue') = (Range(queue) \ {n}) \cup S
  BY <1>2, <1>4, <1>6, <1>7, <1>10, DistinctConcat
<1>12. Range(order') \cap Range(queue') = {}
  BY <1>3, <1>4, <1>9, <1>11 DEF S
<1>13. \A c : Unserved(c)' = {d \in Inputs(c) : producer[d[2]] \notin Range(order) \cup {n}}
  <2>1. \A c : Inputs(c)' = Inputs(c)
    BY <1>1, InputsSame
  <2> QED
    BY <1>1, <1>9, <2>1 DEF Unserved
<1>14. \A c \in Nodes : IsFiniteSet(Unserved(c))
  BY <1>0, InputsFinite, FS_Subset DEF Unserved
<1>15. ASSUME NEW c \in Nodes
       PROVE  degree'[c] = Cardinality(Unserved(c)') /\ degree'[c] \in Nat /\ degree'[c] <= degree[c]
  <2>1. degree'[c] = Left(n, c) /\ degree[c] = Cardinality(Unserved(c)) /\ degree[c] \in Nat
    BY <1>1, <1>3
  <2>2. CASE c = n
    <3>1. degree[c] = 0
      BY <1>3, <1>4, <2>2
    <3>2. Unserved(c) = {}
      BY <1>14, <2>1, <3>1, FS_EmptySet
    <3>3. Unserved(c)' = {}
      BY <1>13, <3>2 DEF Unserved
    <3>4. Feeds(n, c) = {}
      BY <2>2 DEF Feeds
    <3>5. Left(n, c) = 0
      BY <3>1, <3>4, FS_EmptySet DEF Left
    <3> QED
      BY <2>1, <3>1, <3>3, <3>5, FS_EmptySet
  <2>3. CASE c # n
    <3> DEFINE F == {d \in Inputs(c) : producer[d[2]] = n}
    <3>1. IsFiniteSet(F) /\ Cardinality(Feeds(n, c)) = Cardinality(F)
      BY <1>4, <2>3, FeedsCount
    <3>2. Unserved(c) = Unserved(c)' \cup F /\ Unserved(c)' \cap F = {}
      BY <1>8, <1>13 DEF Unserved
    <3>3. IsFiniteSet(Unserved(c)')
      BY <1>14, <3>2, FS_Subset
    <3> HIDE DEF F
    <3>4. Cardinality(Unserved(c)' \cup F) = Cardinality(Unserved(c)') + Cardinality(F) - Cardinality(Unserved(c)' \cap F)
      BY <3>1, <3>3, FS_Union
    <3>5. Cardinality(Unserved(c)') \in Nat /\ Cardinality(F) \in Nat
      BY <3>1, <3>3, FS_CardinalityType
    <3>6. degree[c] = Cardinality(Unserved(c)') + Cardinality(F)
      <4>1. Cardinality(Unserved(c)' \cap F) = 0
        BY <3>2, FS_EmptySet
      <4>2. degree[c] = Cardinality(Unserved(c)' \cup F)
        BY <2>1, <3>2
      <4> QED
        BY <3>4, <3>5, <4>1, <4>2
    <3>7. Left(n, c) = Cardinality(Unserved(c)')
      BY <3>1, <3>5, <3>6 DEF Left
    <3> QED
      BY <2>1, <3>5, <3>6, <3>7
  <2> QED
    BY <2>2, <2>3
<1>16. ASSUME NEW c \in Nodes PROVE degree'[c] = 0 <=> c \in Range(order') \cup Range(queue')
  <2>1. degree'[c] \in Nat /\ degree'[c] <= degree[c] /\ degree[c] \in Nat
    BY <1>3, <1>15
  <2>2. CASE degree[c] = 0
    <3>1. degree'[c] = 0 /\ c \in Range(order) \cup Range(queue)
      BY <1>3, <2>1, <2>2
    <3> QED
      BY <1>9, <1>11, <3>1
  <2>3. CASE degree[c] # 0
    <3>1. c \notin Range(order) \cup Range(queue) /\ degree[c] > 0
      BY <1>3, <2>1, <2>3
    <3>2. c \in Range(order') \cup Range(queue') <=> c \in S
      BY <1>4, <1>9, <1>11, <3>1
    <3> QED
      BY <3>1, <3>2 DEF S
  <2> QED
    BY <2>2, <2>3
<1>17. degree' \in [Nodes -> Nat]
  <2>1. \A c \in Nodes : Left(n, c) \in Nat
    BY <1>1, <1>15
  <2> QED
    BY <1>1, <2>1
<1>18. ASSUME NEW j \in DOMAIN order', NEW d \in Inputs(order'[j])
       PROVE  \E i \in 1..(j - 1) : order'[i] = producer[d[2]]
  <2>0. DOMAIN order = 1..Len(order) /\ Len(order) \in Nat
    BY <1>3
  <2>1. CASE j \in 1..Len(order)
    <3>1. d \in Inputs(order[j]) /\ j \in DOMAIN order
      BY <1>9, <1>18, <2>0, <2>1
    <3>2. PICK i \in 1..(j - 1) : order[i] = producer[d[2]]
      BY <1>3, <3>1
    <3>3. i \in 1..Len(order)
      BY <2>0, <2>1
    <3> QED
      BY <1>9, <3>2, <3>3
  <2>2. CASE j = Len(order) + 1
    <3>1. d \in Inputs(n) /\ degree[n] = 0
      BY <1>3, <1>4, <1>9, <1>18, <2>2
    <3>2. Unserved(n) = {}
      BY <1>3, <1>4, <1>14, <3>1, FS_EmptySet
    <3>3. producer[d[2]] \in Range(order)
      BY <3>1, <3>2 DEF Unserved
    <3>4. PICK i \in 1..Len(order) : order[i] = producer[d[2]]
      BY <2>0, <3>3 DEF Range
    <3>5. i \in 1..(j - 1)
      BY <2>0, <2>2
    <3> QED
      BY <1>9, <3>4, <3>5
  <2> QED
    BY <1>9, <2>0, <2>1, <2>2
<1>19. (\A j \in DOMAIN order : \A d \in Inputs(order[j]) : \E i \in 1..(j - 1) : order[i] = producer[d[2]])'
  <2>1. \A c : Inputs(c)' = Inputs(c)
    BY <1>1, InputsSame
  <2>2. \A j \in DOMAIN order' : Inputs(order[j])' = Inputs(order'[j])
    BY <2>1
  <2> QED
    BY <1>1, <1>18, <2>2
<1> QED
  BY <1>1, <1>9, <1>11, <1>12, <1>15, <1>16, <1>17, <1>19 DEF KahnInv

-----------------------------------------------------------------------------

LEMMA HighestOf ==
  ASSUME NEW S, IsFiniteSet(S), S \subseteq Nat
  PROVE  Highest(S) \in Nat /\ \A y \in S : y <= Highest(S)
<1> DEFINE Good == {s \in SUBSET S : s # {} => \E x \in s : \A y \in s : y <= x}
<1>1. {} \in Good
  OBVIOUS
<1>2. ASSUME NEW s \in SUBSET S, s # {} PROVE \E x \in s : s \ {x} \in Good => s \in Good
  <2>1. PICK x \in s : TRUE
    BY <1>2
  <2>2. ASSUME s \ {x} \in Good PROVE \E z \in s : \A y \in s : y <= z
    <3>1. CASE s \ {x} = {}
      <4>1. x \in Nat /\ \A y \in s : y = x
        BY <3>1
      <4> QED
        BY <4>1
    <3>2. CASE s \ {x} # {}
      <4>1. PICK z \in s \ {x} : \A y \in s \ {x} : y <= z
        BY <2>2, <3>2
      <4>2. x \in Nat /\ z \in Nat /\ \A y \in s : y \in Nat
        OBVIOUS
      <4>3. CASE x <= z
        BY <4>1, <4>3
      <4>4. CASE ~(x <= z)
        BY <4>1, <4>2, <4>4
      <4> QED
        BY <4>3, <4>4
    <3> QED
      BY <3>1, <3>2
  <2> QED
    BY <2>1, <2>2
<1>3. S \in Good
  <2> HIDE DEF Good
  <2> QED
    BY <1>1, <1>2, OnSubsets
<1>4. CASE S = {}
  BY <1>4 DEF Highest
<1>5. CASE S # {}
  <2>1. \E x \in S : \A y \in S : y <= x
    BY <1>3, <1>5
  <2>2. Highest(S) = CHOOSE x \in S : \A y \in S : y <= x
    BY <1>5 DEF Highest
  <2> QED
    BY <2>1, <2>2
<1> QED
  BY <1>4, <1>5

LEMMA RefsFinite ==
  ASSUME graph \in Graphs, NEW n \in Nodes
  PROVE  IsFiniteSet(Refs(n))
<1> DEFINE D == DOMAIN Params(n)
           f == [i \in D |-> Params(n)[i]]
<1>1. IsFiniteSet(D)
  BY GraphFacts
<1>2. f \in Surjection(D, Range(f))
  BY DEF Surjection, Range
<1>3. IsFiniteSet(Range(f))
  <2> HIDE DEF f, D
  <2> QED
    BY <1>1, <1>2, FS_Surjection
<1>4. Refs(n) \subseteq Range(f)
  BY DEF Refs, Range
<1> HIDE DEF f
<1> QED
  BY <1>3, <1>4, FS_Subset

(* A wave comes after those of the producers that have one.                  *)
LEMMA WaveAfter ==
  ASSUME Wired, NEW n \in Nodes, wave \in [Nodes -> Nat \cup {None}]
  PROVE  /\ WaveOf(wave, n) \in Nat
         /\ \A o \in Refs(n) : producer[o] \in Nodes \ {n} /\ wave[producer[o]] # None =>
               wave[producer[o]] < WaveOf(wave, n)
<1> DEFINE R == {r \in Refs(n) : producer[r] \in Nodes \ {n} /\ wave[producer[r]] # None}
           f == [o \in R |-> wave[producer[o]] + 1]
           S == {wave[producer[o]] + 1 : o \in R}
<1>1. IsFiniteSet(R)
  <2>1. IsFiniteSet(Refs(n)) /\ R \subseteq Refs(n)
    BY RefsFinite DEF Wired, Clean, Sorted
  <2> QED
    BY <2>1, FS_Subset
<1>2. f \in Surjection(R, S)
  BY DEF Surjection
<1>3. IsFiniteSet(S)
  <2> HIDE DEF R, f, S
  <2> QED
    BY <1>1, <1>2, FS_Surjection
<1>4. \A o \in R : wave[producer[o]] \in Nat
  OBVIOUS
<1>5. S \subseteq Nat
  BY <1>4
<1>6. WaveOf(wave, n) = Highest(S)
  BY DEF WaveOf
<1>7. Highest(S) \in Nat /\ \A y \in S : y <= Highest(S)
  <2> HIDE DEF S
  <2> QED
    BY <1>3, <1>5, HighestOf
<1>8. ASSUME NEW o \in R PROVE wave[producer[o]] < WaveOf(wave, n)
  <2>1. wave[producer[o]] + 1 \in S /\ wave[producer[o]] \in Nat
    BY <1>4
  <2>2. wave[producer[o]] + 1 <= Highest(S)
    BY <1>7, <2>1
  <2> HIDE DEF S
  <2> QED
    BY <1>6, <1>7, <2>1, <2>2
<1> HIDE DEF S
<1> QED
  BY <1>6, <1>7, <1>8

(* A node follows the producers of its parameters.                           *)
LEMMA RefInput ==
  ASSUME Wired, NEW n \in Nodes, NEW o \in Refs(n), producer[o] \in Nodes \ {n}
  PROVE  \E d \in Inputs(n) : d[2] = o
<1>1. PICK i \in DOMAIN Params(n) : o = Params(n)[i] /\ o # None
  BY DEF Refs
<1>2. o \in Around(Params(n)[i]) /\ producer[o] \notin {None, n}
  BY <1>1, MakesFacts DEF Around
<1>3. <<i, o>> \in Inputs(n)
  BY <1>1, <1>2, InInputs
<1> QED
  BY <1>3

(* The producers of a node have their waves before it, as they are earlier.  *)
LEMMA ComputeWaveStep ==
  ASSUME Wired, KahnInv, WaveInv, ComputeWave
  PROVE  WaveInv'
<1>1. /\ graph' = graph /\ producer' = producer /\ Nodes' = Nodes
      /\ queue' = queue /\ queue = <<>> /\ order' = order
  BY GraphSame DEF ComputeWave
<1>2. PICK i \in DOMAIN order :
         /\ wave[order[i]] = None /\ \A j \in 1..(i - 1) : wave[order[j]] # None
         /\ wave' = [wave EXCEPT ![order[i]] = WaveOf(wave, order[i])]
  BY DEF ComputeWave
<1>3. /\ order \in Seq(Nodes) /\ IsInjective(order) /\ DOMAIN order = 1..Len(order) /\ Len(order) \in Nat
      /\ \A j \in DOMAIN order : \A d \in Inputs(order[j]) : \E k \in 1..(j - 1) : order[k] = producer[d[2]]
  BY DEF KahnInv
<1>4. /\ wave \in [Nodes -> Nat \cup {None}]
      /\ \A j \in DOMAIN order : wave[order[j]] # None => \A k \in 1..(j - 1) : wave[order[k]] # None
      /\ \A n \in Nodes : wave[n] # None => \A o \in Refs(n) : producer[o] \in Nodes \ {n} =>
            wave[producer[o]] # None /\ wave[producer[o]] < wave[n]
  BY DEF WaveInv
<1> DEFINE n == order[i]
<1>5. n \in Nodes
  BY <1>3
<1> HIDE DEF n
<1>6. /\ WaveOf(wave, n) \in Nat /\ WaveOf(wave, n) # None
      /\ \A o \in Refs(n) : producer[o] \in Nodes \ {n} /\ wave[producer[o]] # None =>
               wave[producer[o]] < WaveOf(wave, n)
  BY <1>4, <1>5, WaveAfter, VerifyAssumption
<1>7. wave' = [c \in Nodes |-> IF c = n THEN WaveOf(wave, n) ELSE wave[c]]
  BY <1>2, <1>4 DEF n
<1>8. wave' \in [Nodes -> Nat \cup {None}]
  BY <1>4, <1>6, <1>7
<1>9. \A c \in Nodes : wave[c] # None => wave'[c] # None /\ wave'[c] = wave[c] /\ c # n
  BY <1>2, <1>7 DEF n
<1>10. ASSUME NEW j \in DOMAIN order, wave'[order[j]] # None, NEW k \in 1..(j - 1)
       PROVE  wave'[order[k]] # None
  <2>1. k \in DOMAIN order /\ order[k] \in Nodes /\ order[j] \in Nodes
    BY <1>3
  <2>2. wave[order[k]] # None
    <3>1. CASE j = i
      BY <1>2, <1>10, <3>1
    <3>2. CASE j # i
      <4>1. order[j] # n
        BY <1>3, <3>2 DEF IsInjective, n
      <4>2. wave[order[j]] # None
        BY <1>7, <1>10, <2>1, <4>1
      <4> QED
        BY <1>4, <4>2
    <3> QED
      BY <3>1, <3>2
  <2> QED
    BY <1>9, <2>1, <2>2
<1>11. ASSUME NEW c \in Nodes, wave'[c] # None, NEW o \in Refs(c), producer[o] \in Nodes \ {c}
       PROVE  wave'[producer[o]] # None /\ wave'[producer[o]] < wave'[c]
  <2>1. CASE c = n
    <3>1. PICK d \in Inputs(n) : d[2] = o
      BY <1>5, <1>11, <2>1, RefInput
    <3>2. PICK k \in 1..(i - 1) : order[k] = producer[d[2]]
      BY <1>3 DEF n
    <3>3. wave[producer[o]] # None
      BY <1>2, <3>1, <3>2
    <3>4. wave[producer[o]] < WaveOf(wave, n)
      BY <1>6, <1>11, <2>1, <3>3
    <3>5. wave'[n] = WaveOf(wave, n)
      BY <1>5, <1>7
    <3> QED
      BY <1>9, <1>11, <2>1, <3>3, <3>4, <3>5
  <2>2. CASE c # n
    <3>1. wave[c] # None /\ wave'[c] = wave[c]
      BY <1>7, <1>11, <2>2
    <3>2. wave[producer[o]] # None /\ wave[producer[o]] < wave[c]
      BY <1>4, <1>11, <3>1
    <3> QED
      BY <1>9, <1>11, <3>1, <3>2
  <2> QED
    BY <2>1, <2>2
<1>12. \A c : Refs(c)' = Refs(c)
  BY <1>1, GraphSame
<1> QED
  BY <1>1, <1>8, <1>10, <1>11, <1>12 DEF WaveInv

-----------------------------------------------------------------------------

(* When every node has a wave, order and waves respect the data.             *)
LEMMA EndWavesOrdered ==
  ASSUME Wired, Schedulable, KahnInv, WaveInv, EndWaves
  PROVE  OrderRespectsData /\ WavesRespectData
<1>1. queue = <<>> /\ \A i \in DOMAIN order : wave[order[i]] # None
  BY DEF EndWaves
<1>2. Range(order) = Nodes /\ Len(order) = Len(graph)
  BY <1>1, AcyclicSchedulable, AllOrdered
<1>3. /\ IsInjective(order) /\ order \in Seq(Nodes)
      /\ \A j \in DOMAIN order : \A d \in Inputs(order[j]) : \E i \in 1..(j - 1) : order[i] = producer[d[2]]
  <2> HIDE DEF Nodes
  <2> QED
    BY Zenon DEF KahnInv
<1>4. \A i \in DOMAIN order : Place(order[i]) = i
  BY <1>3 DEF Place, IsInjective
<1>5. \A n \in Nodes : \E i \in DOMAIN order : order[i] = n
  BY <1>2 DEF Range
<1>6. \A n \in Nodes : wave[n] # None
  BY <1>1, <1>5
<1>7. ASSUME NEW m \in Nodes, NEW n \in Nodes, Before(m, n)
      PROVE  Place(m) < Place(n) /\ wave[m] < wave[n] /\ m \in node_predecessors(n)
  <2>1. m # n /\ \E r \in Refs(n) : producer[r] = m
    BY <1>7, BeforeInputs
  <2>2. PICK r \in Refs(n) : producer[r] = m
    BY <2>1
  <2>3. PICK d \in Inputs(n) : producer[d[2]] = m
    BY <1>7, BeforeInputs
  <2>4. wave[m] < wave[n]
    BY <1>6, <2>1, <2>2 DEF WaveInv
  <2>5. m \in node_predecessors(n)
    <3>1. r \in Around(r)
      BY DEF Around, Refs
    <3>2. m # None
      BY MakesFacts
    <3> QED
      BY <2>1, <2>2, <3>1, <3>2 DEF node_predecessors
  <2>6. Place(m) < Place(n)
    <3>1. PICK j \in DOMAIN order : order[j] = n
      BY <1>5
    <3>2. PICK i \in 1..(j - 1) : order[i] = m
      BY <1>3, <2>3, <3>1
    <3>3. i \in DOMAIN order /\ i < j
      BY <1>3
    <3> QED
      BY <1>4, <3>1, <3>2, <3>3
  <2> QED
    BY <2>4, <2>5, <2>6
<1> QED
  BY <1>2, <1>7 DEF OrderRespectsData, WavesRespectData

(* What changes neither links nor order keeps what is said of them.          *)
LEMMA VerificationSame ==
  ASSUME graph' = graph
  PROVE  /\ \A n : Writes(n)' = Writes(n) /\ Reads(n)' = Reads(n)
         /\ \A m, n : Before(m, n)' = Before(m, n)
         /\ Schedulable' = Schedulable
         /\ producer' = producer /\ order' = order /\ wave' = wave =>
               (OrderRespectsData' = OrderRespectsData) /\ (WavesRespectData' = WavesRespectData)
<1>1. Nodes' = Nodes /\ \A n : Params(n)' = Params(n) /\ Refs(n)' = Refs(n)
  BY GraphSame
<1>2. \A n : Writes(n)' = Writes(n) /\ Reads(n)' = Reads(n)
  BY <1>1 DEF Writes, Reads
<1>3. \A m, n : Before(m, n)' = Before(m, n)
  BY <1>2 DEF Before, Overlap
<1>4. Schedulable' = Schedulable
  BY <1>1, <1>3 DEF Schedulable
<1>5. ASSUME producer' = producer, order' = order, wave' = wave
      PROVE  OrderRespectsData' = OrderRespectsData /\ WavesRespectData' = WavesRespectData
  <2>1. \A n : Place(n)' = Place(n)
    BY <1>5 DEF Place
  <2>2. \A n : node_predecessors(n)' = node_predecessors(n)
    BY <1>1, <1>5 DEF node_predecessors, Around
  <2>3. OrderRespectsData' = OrderRespectsData
    BY <1>1, <1>3, <1>5, <2>1 DEF OrderRespectsData
  <2>4. WavesRespectData' = WavesRespectData
    BY <1>1, <1>3, <1>5, <2>2 DEF WavesRespectData
  <2> QED
    BY <2>3, <2>4
<1> QED
  BY <1>2, <1>3, <1>4, <1>5

(* What verification refuses for two producers, two nodes do write.          *)
LEMMA TwoProducersOverlap ==
  ASSUME Sorted, TwoProducers
  PROVE  \E m, n \in Nodes : m # n /\ Writes(m) \cap Writes(n) # {}
BY WritesWritten DEF TwoProducers

-----------------------------------------------------------------------------

LEMMA LinkedSame ==
  ASSUME graph' = graph, producer' = producer, outputs' = outputs, consumers' = consumers,
         NEW rg \in BOOLEAN, NEW lv \in BOOLEAN, Linked(rg, lv)
  PROVE  Linked(rg, lv)'
<1>1. /\ producer \in [Objects -> Nodes \cup {None}]
      /\ \A o \in Objects, n \in Nodes : producer[o] = n <=> Makes(n, o, rg, lv)
      /\ outputs = [n \in Nodes |-> Entries(n, rg, lv)]
      /\ consumers = [o \in Objects |-> Takers(o, rg, lv)]
      /\ ~TwoProducers
  BY DEF Linked
<1> QED
  BY <1>1, LinkedNext

LEMMA VerificationInit == VerifyInit => VerificationInv
BY DEF VerifyInit, VerificationInv, Fresh, Ordered

(* One step for each pass.                                                   *)
LEMMA VerificationStep == VerificationInv /\ [VerifyNext]_verifyVars => VerificationInv'
<1>1. SUFFICES ASSUME VerificationInv, [VerifyNext]_verifyVars PROVE VerificationInv'
  OBVIOUS
<1>2. graph' = graph /\ graph \in Graphs /\ graph' \in Graphs
  BY <1>1 DEF VerificationInv, VerifyNext, verifyVars, Reject, Connect, ConnectRegions, ConnectLevels,
              DetectCycle, CountInDegree, TakeReady, ComputeWave, EndWaves, ResolveImages,
              ResolvePyramids, Done
<1>3. SUFFICES ASSUME Plain(graph), Classified(graph)
               PROVE  /\ stage' = "connect" => Fresh'
                      /\ stage' = "regions" => Fresh' /\ Linked(FALSE, FALSE)'
                      /\ stage' = "levels" => Fresh' /\ Linked(TRUE, FALSE)'
                      /\ stage' = "cycles" => Fresh' /\ Linked(TRUE, TRUE)'
                      /\ stage' = "kahn" => Linked(TRUE, TRUE)' /\ Schedulable' /\ KahnInv' /\ WaveInv'
                      /\ Ordered' => Schedulable' /\ OrderRespectsData' /\ WavesRespectData'
                      /\ stage' = "INVALID_GRAPH" /\ order' = <<>> =>
                            ~Schedulable' \/ (\E m, n \in Nodes : m # n /\ Writes(m) \cap Writes(n) # {})'
  BY <1>2 DEF VerificationInv
<1>4. /\ stage = "connect" => Fresh
      /\ stage = "regions" => Fresh /\ Linked(FALSE, FALSE)
      /\ stage = "levels" => Fresh /\ Linked(TRUE, FALSE)
      /\ stage = "cycles" => Fresh /\ Linked(TRUE, TRUE)
      /\ stage = "kahn" => Linked(TRUE, TRUE) /\ Schedulable /\ KahnInv /\ WaveInv
      /\ Ordered => Schedulable /\ OrderRespectsData /\ WavesRespectData
      /\ stage = "INVALID_GRAPH" /\ order = <<>> =>
            ~Schedulable \/ \E m, n \in Nodes : m # n /\ Writes(m) \cap Writes(n) # {}
  BY <1>1, <1>3 DEF VerificationInv
<1>5. Sorted /\ Nodes' = Nodes /\ Schedulable' = Schedulable
  BY <1>2, <1>3, GraphSame, VerificationSame DEF Sorted
<1>6. /\ order' = order /\ queue' = queue /\ wave' = wave /\ Fresh => Fresh'
      /\ producer' = producer /\ order' = order /\ wave' = wave =>
            (OrderRespectsData' = OrderRespectsData) /\ (WavesRespectData' = WavesRespectData)
      /\ (\E m, n \in Nodes : m # n /\ Writes(m) \cap Writes(n) # {})' =
            (\E m, n \in Nodes : m # n /\ Writes(m) \cap Writes(n) # {})
  <2>1. \A n : Writes(n)' = Writes(n)
    BY <1>2, VerificationSame
  <2>2. (\E m, n \in Nodes : m # n /\ Writes(m) \cap Writes(n) # {})' =
            (\E m, n \in Nodes : m # n /\ Writes(m) \cap Writes(n) # {})
    BY <1>5, <2>1
  <2>3. order' = order /\ queue' = queue /\ wave' = wave /\ Fresh => Fresh'
    BY <1>5 DEF Fresh
  <2> QED
    BY <1>2, <2>2, <2>3, VerificationSame
<1>7. CASE Reject
  <2>1. /\ stage = "connect" /\ order' = order
        /\ stage' = IF LacksInput THEN "INVALID_PARAMETERS" ELSE "INVALID_GRAPH"
        /\ LacksInput \/ TwoProducers
    BY <1>7 DEF Reject, Stop
  <2>2. stage' = "INVALID_GRAPH" => \E m, n \in Nodes : m # n /\ Writes(m) \cap Writes(n) # {}
    BY <1>5, <2>1, TwoProducersOverlap
  <2> QED
    BY <1>6, <2>1, <2>2 DEF Ordered
<1>8. CASE Connect
  <2>1. stage' = "regions" /\ stage = "connect" /\ order' = order /\ queue' = queue /\ wave' = wave
    BY <1>8 DEF Connect
  <2>2. Linked(FALSE, FALSE)'
    BY <1>2, <1>3, <1>8, ConnectLinks
  <2> QED
    BY <1>4, <1>6, <2>1, <2>2 DEF Ordered
<1>9. CASE ConnectRegions
  <2>1. stage' = "levels" /\ stage = "regions" /\ order' = order /\ queue' = queue /\ wave' = wave
    BY <1>9 DEF ConnectRegions
  <2>2. Clean /\ Linked(FALSE, FALSE)
    BY <1>4, <1>5, <2>1 DEF Clean, Linked
  <2>3. Linked(TRUE, FALSE)'
    BY <1>9, <2>2, RegionsLink
  <2> QED
    BY <1>4, <1>6, <2>1, <2>3 DEF Ordered
<1>10. CASE ConnectLevels
  <2>1. stage' = "cycles" /\ stage = "levels" /\ order' = order /\ queue' = queue /\ wave' = wave
    BY <1>10 DEF ConnectLevels
  <2>2. Clean /\ Linked(TRUE, FALSE)
    BY <1>4, <1>5, <2>1 DEF Clean, Linked
  <2>3. Linked(TRUE, TRUE)'
    BY <1>10, <2>2, LevelsLink
  <2> QED
    BY <1>4, <1>6, <2>1, <2>3 DEF Ordered
<1>11. stage \in {"cycles", "kahn"} => Wired
  BY <1>4, <1>5 DEF Wired, Clean, Linked
<1>12. CASE DetectCycle
  <2>1. stage = "cycles" /\ has_cycle /\ stage' = "INVALID_GRAPH"
    BY <1>12 DEF DetectCycle, Stop
  <2>2. ~Schedulable
    BY <1>11, <2>1, AcyclicSchedulable
  <2> QED
    BY <1>5, <2>1, <2>2 DEF Ordered
<1>13. CASE CountInDegree
  <2>1. /\ stage = "cycles" /\ ~has_cycle /\ stage' = "kahn" /\ wave' = wave
        /\ producer' = producer /\ outputs' = outputs /\ consumers' = consumers /\ order' = order
    BY <1>13 DEF CountInDegree
  <2>2. Fresh /\ Linked(TRUE, TRUE) /\ Wired
    BY <1>4, <1>11, <2>1
  <2>3. Schedulable
    BY <2>1, <2>2, AcyclicSchedulable
  <2>4. Linked(TRUE, TRUE)'
    BY <1>2, <2>1, <2>2, LinkedSame
  <2>5. KahnInv'
    BY <1>13, <2>2, CountInDegreeStep DEF Fresh
  <2>6. WaveInv'
    <3>1. wave' = [n \in Nodes' |-> None] /\ order' = <<>>
      BY <1>5, <2>1, <2>2 DEF Fresh
    <3> QED
      BY <3>1 DEF WaveInv
  <2> QED
    BY <1>5, <2>1, <2>3, <2>4, <2>5, <2>6 DEF Ordered
<1>14. CASE TakeReady
  <2>1. /\ stage = "kahn" /\ stage' = stage /\ wave' = wave /\ queue # <<>>
        /\ producer' = producer /\ outputs' = outputs /\ consumers' = consumers
    BY <1>14 DEF TakeReady
  <2>2. Schedulable /\ Linked(TRUE, TRUE) /\ Wired /\ KahnInv /\ WaveInv
    BY <1>4, <1>11, <2>1
  <2>3. Linked(TRUE, TRUE)'
    BY <1>2, <2>1, <2>2, LinkedSame
  <2>4. KahnInv'
    BY <1>14, <2>2, TakeReadyStep
  <2>5. WaveInv'
    <3>1. wave \in [Nodes -> Nat \cup {None}] /\ \A n \in Nodes : wave[n] = None
      BY <2>1, <2>2 DEF WaveInv
    <3>2. \A n \in Nodes' : wave'[n] = None
      BY <1>5, <2>1, <3>1
    <3>3. wave' \in [Nodes' -> Nat \cup {None}]
      BY <1>5, <2>1, <3>1
    <3>4. \A j \in DOMAIN order' : order'[j] \in Nodes'
      BY <2>4 DEF KahnInv
    <3> QED
      BY <3>2, <3>3, <3>4 DEF WaveInv
  <2> QED
    BY <1>5, <2>1, <2>2, <2>3, <2>4, <2>5 DEF Ordered
<1>15. ASSUME queue' = queue, order' = order, degree' = degree, producer' = producer, KahnInv PROVE KahnInv'
  <2>1. \A n : Inputs(n)' = Inputs(n)
    BY <1>2, <1>15, InputsSame
  <2>2. \A n : Unserved(n)' = Unserved(n)
    BY <1>15, <2>1 DEF Unserved
  <2>3. (\A j \in DOMAIN order : \A d \in Inputs(order[j]) : \E i \in 1..(j - 1) : order[i] = producer[d[2]])'
    <3>1. \A j \in DOMAIN order' : Inputs(order[j])' = Inputs(order[j])
      BY <1>15, <2>1
    <3> QED
      BY <1>15, <3>1 DEF KahnInv
  <2> QED
    BY <1>5, <1>15, <2>2, <2>3 DEF KahnInv
<1>16. CASE ComputeWave
  <2>1. /\ stage = "kahn" /\ stage' = stage /\ queue' = queue /\ order' = order /\ degree' = degree
        /\ producer' = producer /\ outputs' = outputs /\ consumers' = consumers
    BY <1>16 DEF ComputeWave
  <2>2. Schedulable /\ Linked(TRUE, TRUE) /\ Wired /\ KahnInv /\ WaveInv
    BY <1>4, <1>11, <2>1
  <2>3. Linked(TRUE, TRUE)'
    BY <1>2, <2>1, <2>2, LinkedSame
  <2>4. WaveInv'
    BY <1>16, <2>2, ComputeWaveStep
  <2> QED
    BY <1>5, <1>15, <2>1, <2>2, <2>3, <2>4 DEF Ordered
<1>17. CASE EndWaves
  <2>1. /\ stage = "kahn" /\ stage' = "virtual"
        /\ producer' = producer /\ order' = order /\ wave' = wave
    BY <1>17 DEF EndWaves
  <2>2. Schedulable /\ OrderRespectsData /\ WavesRespectData
    BY <1>4, <1>11, <1>17, <2>1, EndWavesOrdered
  <2> QED
    BY <1>5, <1>6, <2>1, <2>2
<1>18. CASE ResolveImages
  <2>1. /\ stage = "virtual" /\ stage' \in {"pyramids", "INVALID_GRAPH"}
        /\ producer' = producer /\ order' = order /\ wave' = wave
    BY <1>18 DEF ResolveImages
  <2>2. Schedulable /\ OrderRespectsData /\ WavesRespectData
    BY <1>4, <2>1 DEF Ordered
  <2>3. order # <<>>
    BY <1>2, <2>2, GraphFacts DEF OrderRespectsData
  <2> QED
    BY <1>5, <1>6, <2>1, <2>2, <2>3
<1>19. CASE ResolvePyramids
  <2>1. /\ stage = "pyramids" /\ stage' = "verified"
        /\ producer' = producer /\ order' = order /\ wave' = wave
    BY <1>19 DEF ResolvePyramids
  <2>2. Schedulable /\ OrderRespectsData /\ WavesRespectData
    BY <1>4, <2>1 DEF Ordered
  <2> QED
    BY <1>5, <1>6, <2>1, <2>2
<1>20. CASE UNCHANGED verifyVars
  <2>1. /\ stage' = stage /\ queue' = queue /\ order' = order /\ degree' = degree /\ wave' = wave
        /\ producer' = producer /\ outputs' = outputs /\ consumers' = consumers
    BY <1>20 DEF verifyVars
  <2>2. /\ Linked(FALSE, FALSE) => Linked(FALSE, FALSE)'
        /\ Linked(TRUE, FALSE) => Linked(TRUE, FALSE)'
        /\ Linked(TRUE, TRUE) => Linked(TRUE, TRUE)'
    BY <1>2, <2>1, LinkedSame
  <2>3. WaveInv => WaveInv'
    <3>1. \A n : Refs(n)' = Refs(n)
      BY <1>2, GraphSame
    <3> QED
      BY <1>5, <2>1, <3>1 DEF WaveInv
  <2>4. Ordered' = Ordered
    BY <2>1 DEF Ordered
  <2>5. KahnInv => KahnInv'
    BY <1>15, <2>1
  <2>6. Fresh => Fresh'
    BY <1>6, <2>1
  <2>7. Ordered => OrderRespectsData' /\ WavesRespectData'
    BY <1>4, <1>6, <2>1
  <2>8. stage = "INVALID_GRAPH" /\ order = <<>> =>
            ~Schedulable' \/ (\E m, n \in Nodes : m # n /\ Writes(m) \cap Writes(n) # {})'
    BY <1>4, <1>5, <1>6
  <2> QED
    BY <1>4, <1>5, <2>1, <2>2, <2>3, <2>4, <2>5, <2>6, <2>7, <2>8
<1> QED
  BY <1>1, <1>7, <1>8, <1>9, <1>10, <1>12, <1>13, <1>14, <1>16, <1>17, <1>18, <1>19, <1>20
     DEF VerifyNext, Done

(* For every graph whose objects vxVerifyGraph can tell apart, of kernels it *)
(* classifies as they are dispatched: the order has each node once, after    *)
(* those whose data it reads; those are in earlier waves, and are recorded   *)
(* as its predecessors.                                                      *)
THEOREM ScheduleFollowsData ==
  VerifySpec => [](Plain(graph) /\ Classified(graph) => ScheduleRespectsData)
<1>1. VerificationInv => (Plain(graph) /\ Classified(graph) => ScheduleRespectsData)
  BY DEF VerificationInv, ScheduleRespectsData
<1> QED
  BY <1>1, VerificationInit, VerificationStep, PTL DEF VerifySpec

(* Of these graphs vxVerifyGraph refuses, for their structure, exactly those *)
(* that have no order, or two writers of one object.                         *)
THEOREM VerificationDecides ==
  VerifySpec => [](Plain(graph) /\ Classified(graph) => VerifyDecides)
<1>1. VerificationInv => (Plain(graph) /\ Classified(graph) => VerifyDecides)
  BY DEF VerificationInv, VerifyDecides, Connected, Ordered
<1> QED
  BY <1>1, VerificationInit, VerificationStep, PTL DEF VerifySpec
=============================================================================
