------------------------- MODULE EventSystemProofs -------------------------
(* The event system's guarantees for any number of threads, graphs, topics   *)
(* and reports.                                                              *)
EXTENDS EventSystem, FiniteSetTheorems, TLAPS

(* The actions that begin a report.                                          *)
BeginStep(t) == \/ \E n \in NodeTopics : notify_node_completed(t, n)
                \/ notify_graph_completed(t)
                \/ vxSendUserEvent(t)
                \/ \E p \in ParamTopics : notify_parameter_consumed(t, p)

(* Every step of Next is one of these.                                       *)
LEMMA NextCases ==
  ASSUME Next
  PROVE  \/ vxEnableEvents \/ vxDisableEvents
         \/ \E topic \in Registrable, v \in Values : vxRegisterEvent(topic, v)
         \/ \E g \in Graphs : ReleaseGraphEvents(g)
         \/ \E t \in Emitters : BeginStep(t)
         \/ \E t \in Emitters : CheckEnabled(t)
         \/ \E t \in Emitters : LookupAppValue(t)
         \/ \E t \in Emitters : push_event(t)
         \/ \E w \in Waiters : PollEvent(w)
         \/ \E w \in Waiters : EnterWaitEvent(w)
         \/ \E w \in Waiters : TakeOrSleep(w)
         \/ \E w \in Waiters : SpuriousWake(w)
BY DEF Next, BeginStep, EmitterStep

-----------------------------------------------------------------------------
(* Type correctness.                                                         *)

LEMMA QuietReport == Quiet \in Report
BY ConstantsAssumption DEF Quiet, Report, Stage, Topics

(* Every variable keeps its type: events and registrations are well formed   *)
(* whatever the threads of pipelining_api.rs do.                             *)
THEOREM TypeCorrect == Spec => []TypeOK
<1>1. Init => TypeOK
  BY ConstantsAssumption, QuietReport
  DEF Init, TypeOK, WaiterState, Registration
<1>2. TypeOK /\ [Next]_vars => TypeOK'
  <2> SUFFICES ASSUME TypeOK, [Next]_vars PROVE TypeOK'
    OBVIOUS
  <2>1. CASE vxEnableEvents
    BY <2>1 DEF TypeOK, vxEnableEvents, regVars
  <2>2. CASE vxDisableEvents
    BY <2>2 DEF TypeOK, vxDisableEvents, regVars
  <2>3. ASSUME NEW topic \in Registrable, NEW v \in Values, vxRegisterEvent(topic, v)
        PROVE  TypeOK'
    BY <2>3 DEF TypeOK, vxRegisterEvent, Registration
  <2>4. ASSUME NEW g \in Graphs, ReleaseGraphEvents(g)
        PROVE  TypeOK'
    BY <2>4 DEF TypeOK, ReleaseGraphEvents
  <2>5. ASSUME NEW t \in Emitters, BeginStep(t)
        PROVE  TypeOK'
    <3>1. \E r \in Report : emitter' = [emitter EXCEPT ![t] = r]
      BY <2>5, ConstantsAssumption
      DEF BeginStep, notify_node_completed, notify_graph_completed, vxSendUserEvent,
          notify_parameter_consumed, Begin, Report, Stage, Topics, Registrable
    <3>2. /\ UNCHANGED <<events, enabled, regVars, waiter, late>>
          /\ reports' = reports + 1
      BY <2>5
      DEF BeginStep, notify_node_completed, notify_graph_completed, vxSendUserEvent,
          notify_parameter_consumed, Begin
    <3> QED
      BY <3>1, <3>2 DEF TypeOK, regVars
  <2>6. ASSUME NEW t \in Emitters, CheckEnabled(t)
        PROVE  TypeOK'
    <3>1. emitter' \in [Emitters -> Report]
      BY <2>6, QuietReport DEF TypeOK, CheckEnabled, Advance, GiveUp, Report, Stage
    <3> QED
      BY <2>6, <3>1 DEF TypeOK, CheckEnabled, regVars
  <2>7. ASSUME NEW t \in Emitters, LookupAppValue(t)
        PROVE  TypeOK'
    <3>1. emitter' \in [Emitters -> Report]
      <4>1. CASE GiveUp(t)
        BY <4>1, QuietReport DEF TypeOK, GiveUp
      <4>2. ASSUME NEW r \in FirstMatch(emitter[t].topic),
                   Advance(t, IF emitter[t].topic \in NodeTopics THEN "push" ELSE "check",
                           r.value)
            PROVE  emitter' \in [Emitters -> Report]
        <5>1. r.value \in Values
          BY <4>2 DEF TypeOK, FirstMatch, Matching, Registration
        <5> QED
          BY <4>2, <5>1 DEF TypeOK, Advance, Report, Stage
      <4> QED
        BY <2>7, <4>1, <4>2 DEF LookupAppValue
    <3> QED
      BY <2>7, <3>1 DEF TypeOK, LookupAppValue, regVars
  <2>8. ASSUME NEW t \in Emitters, push_event(t)
        PROVE  TypeOK'
    <3>1. emitter' \in [Emitters -> Report]
      BY <2>8, QuietReport DEF TypeOK, push_event, GiveUp
    <3>2. waiter' \in [Waiters -> WaiterState]
      BY <2>8 DEF TypeOK, push_event, NotifyOne, WaiterState
    <3>3. events' \in Seq(Event)
      BY <2>8 DEF TypeOK, push_event, Event, Report
    <3>4. late' \in Nat
      BY <2>8 DEF TypeOK, push_event
    <3> QED
      BY <2>8, <3>1, <3>2, <3>3, <3>4 DEF TypeOK, push_event, regVars
  <2>9. ASSUME NEW w \in Waiters, PollEvent(w)
        PROVE  TypeOK'
    BY <2>9 DEF TypeOK, PollEvent, regVars
  <2>10. ASSUME NEW w \in Waiters, EnterWaitEvent(w)
         PROVE  TypeOK'
    BY <2>10 DEF TypeOK, EnterWaitEvent, regVars, WaiterState
  <2>11. ASSUME NEW w \in Waiters, TakeOrSleep(w)
         PROVE  TypeOK'
    <3>1. events' \in Seq(Event)
      BY <2>11 DEF TypeOK, TakeOrSleep
    <3>2. waiter' \in [Waiters -> WaiterState]
      BY <2>11 DEF TypeOK, TakeOrSleep, WaiterState
    <3> QED
      BY <2>11, <3>1, <3>2 DEF TypeOK, TakeOrSleep, regVars
  <2>12. ASSUME NEW w \in Waiters, SpuriousWake(w)
         PROVE  TypeOK'
    BY <2>12 DEF TypeOK, SpuriousWake, regVars, WaiterState
  <2>13. CASE UNCHANGED vars
    BY <2>13 DEF TypeOK, vars, regVars
  <2>14. CASE Next
    BY <2>14, <2>1, <2>2, <2>3, <2>4, <2>5, <2>6, <2>7, <2>8, <2>9, <2>10, <2>11,
       <2>12, NextCases, Zenon
  <2> QED
    BY <2>13, <2>14
<1> QED
  BY <1>1, <1>2, PTL DEF Spec
-----------------------------------------------------------------------------
(* No wakeup is lost.                                                        *)

LEMMA WaiterSetsFinite ==
  /\ IsFiniteSet(Notified) /\ Cardinality(Notified) \in Nat
  /\ IsFiniteSet(PastCheck) /\ Cardinality(PastCheck) \in Nat
  /\ Cardinality(PastCheck) <= Cardinality(Emitters)
  /\ Cardinality(Emitters) \in Nat
<1>1. Notified \subseteq Waiters /\ PastCheck \subseteq Emitters
  BY DEF Notified, PastCheck
<1> QED
  BY <1>1, ConstantsAssumption, FS_Subset, FS_CardinalityType

(* vxWaitEvent and push_event lose no wakeup of event_cv although push_event *)
(* notifies one sleeper only: the bound on the queue, not just "a woken      *)
(* client exists", is what survives polls and overtaking callers.            *)
THEOREM NoWakeupLost == Spec => []NoLostWakeup
<1>1. Init => NoLostWakeup
  BY DEF Init, NoLostWakeup, Asleep
<1>2. TypeOK /\ TypeOK' /\ NoLostWakeup /\ [Next]_vars => NoLostWakeup'
  <2> SUFFICES ASSUME TypeOK, TypeOK', NoLostWakeup, [Next]_vars
               PROVE  NoLostWakeup'
    OBVIOUS
  <2>0. /\ IsFiniteSet(Notified) /\ Cardinality(Notified) \in Nat
        /\ IsFiniteSet(Notified') /\ Cardinality(Notified') \in Nat
    <3>1. Notified' \subseteq Waiters
      BY DEF Notified
    <3> QED
      BY <3>1, WaiterSetsFinite, ConstantsAssumption, FS_Subset, FS_CardinalityType
  <2> USE <2>0
  <2>1. ASSUME UNCHANGED <<events, waiter>>
        PROVE  NoLostWakeup'
    BY <2>1 DEF NoLostWakeup, Asleep, Notified
  <2>2. ASSUME NEW t \in Emitters, push_event(t)
        PROVE  NoLostWakeup'
    <3>1. Len(events') = Len(events) + 1
      BY <2>2 DEF push_event, TypeOK
    <3>2. CASE Asleep = {}
      BY <2>2, <3>2 DEF push_event, NotifyOne, NoLostWakeup, Asleep
    <3>3. ASSUME NEW w \in Asleep, waiter' = [waiter EXCEPT ![w] = "notified"]
          PROVE  NoLostWakeup'
      <4>1. Notified' = Notified \cup {w} /\ w \notin Notified
        BY <3>3 DEF Asleep, Notified, TypeOK
      <4>2. Cardinality(Notified') = Cardinality(Notified) + 1
        BY <4>1, FS_AddElement
      <4>3. Len(events) <= Cardinality(Notified)
        BY <3>3 DEF NoLostWakeup
      <4> QED
        BY <3>1, <4>2, <4>3 DEF NoLostWakeup, TypeOK
    <3> QED
      BY <2>2, <3>2, <3>3 DEF push_event, NotifyOne
  <2>3. ASSUME NEW w \in Waiters, PollEvent(w)
        PROVE  NoLostWakeup'
    <3>1. Len(events') <= Len(events) /\ Len(events') \in Nat /\ Len(events) \in Nat
      BY <2>3 DEF PollEvent, TypeOK
    <3>2. Asleep' = Asleep /\ Notified' = Notified
      BY <2>3 DEF PollEvent, Asleep, Notified
    <3> QED
      BY <3>1, <3>2 DEF NoLostWakeup
  <2>4. ASSUME NEW w \in Waiters, EnterWaitEvent(w)
        PROVE  NoLostWakeup'
    <3>1. Asleep' = Asleep /\ Notified' = Notified /\ events' = events
      BY <2>4 DEF EnterWaitEvent, Asleep, Notified, TypeOK
    <3> QED
      BY <3>1 DEF NoLostWakeup
  <2>5. ASSUME NEW w \in Waiters, TakeOrSleep(w)
        PROVE  NoLostWakeup'
    <3>1. CASE events = <<>>
      <4>1. Len(events') = 0
        BY <2>5, <3>1 DEF TakeOrSleep
      <4> QED
        BY <4>1 DEF NoLostWakeup
    <3>2. CASE events # <<>>
      <4>1. Len(events') = Len(events) - 1 /\ Len(events) \in Nat
        BY <2>5, <3>2 DEF TakeOrSleep, TypeOK
      <4>2. Asleep' = Asleep
        BY <2>5, <3>2 DEF TakeOrSleep, Asleep, TypeOK
      <4>3. Notified' = Notified \ {w}
        BY <2>5, <3>2 DEF TakeOrSleep, Notified, TypeOK
      <4>4. Cardinality(Notified') >= Cardinality(Notified) - 1
        BY <4>3, FS_RemoveElement
      <4> QED
        BY <4>1, <4>2, <4>4 DEF NoLostWakeup
    <3> QED
      BY <3>1, <3>2
  <2>6. ASSUME NEW w \in Waiters, SpuriousWake(w)
        PROVE  NoLostWakeup'
    <3>1. Asleep # {} /\ events' = events
      BY <2>6 DEF SpuriousWake, Asleep
    <3>2. Notified' = Notified \cup {w}
      BY <2>6 DEF SpuriousWake, Notified, TypeOK
    <3>3. Cardinality(Notified') >= Cardinality(Notified)
      BY <3>2, FS_AddElement
    <3> QED
      BY <3>1, <3>3 DEF NoLostWakeup, TypeOK
  <2>7. CASE Next
    <3>1. \/ UNCHANGED <<events, waiter>>
          \/ \E t \in Emitters : push_event(t)
          \/ \E w \in Waiters : \/ PollEvent(w) \/ EnterWaitEvent(w)
                               \/ TakeOrSleep(w) \/ SpuriousWake(w)
      BY <2>7
      DEF Next, EmitterStep, vxEnableEvents, vxDisableEvents, vxRegisterEvent,
          ReleaseGraphEvents, notify_node_completed, notify_graph_completed,
          vxSendUserEvent, notify_parameter_consumed, Begin, CheckEnabled, LookupAppValue
    <3> QED
      BY <3>1, <2>1, <2>2, <2>3, <2>4, <2>5, <2>6
  <2> QED
    BY <2>1, <2>7 DEF vars
<1> QED
  BY <1>1, <1>2, TypeCorrect, PTL DEF Spec
-----------------------------------------------------------------------------
(* Disabling events.                                                         *)

LEMMA PastCheckFacts ==
  ASSUME TypeOK, TypeOK'
  PROVE  /\ IsFiniteSet(PastCheck) /\ Cardinality(PastCheck) \in Nat
         /\ IsFiniteSet(PastCheck') /\ Cardinality(PastCheck') \in Nat
         /\ Cardinality(PastCheck') <= Cardinality(Emitters)
         /\ Cardinality(Emitters) \in Nat
         /\ late \in Nat /\ late' \in Nat
<1>1. PastCheck' \subseteq Emitters
  BY DEF PastCheck
<1> QED
  BY <1>1, WaiterSetsFinite, ConstantsAssumption, FS_Subset, FS_CardinalityType DEF TypeOK

(* An emitter that starts, goes quiet or looks up an app_value while events  *)
(* are disabled does not get past its check by it.                           *)
LEMMA PastCheckShrinks ==
  ASSUME TypeOK, TypeOK', LateEventsBounded, ~enabled',
         UNCHANGED <<enabled, late>>, PastCheck' \subseteq PastCheck
  PROVE  LateEventsBounded'
<1>1. Cardinality(PastCheck') <= Cardinality(PastCheck)
  BY PastCheckFacts, FS_Subset
<1> QED
  BY <1>1, PastCheckFacts DEF LateEventsBounded

(* After vxDisableEvents each reporting thread adds at most the one event    *)
(* whose check it had already passed.                                        *)
THEOREM LateEventsAreBounded == Spec => []LateEventsBounded
<1>1. Init => LateEventsBounded
  BY DEF Init, LateEventsBounded
<1>2. TypeOK /\ TypeOK' /\ LateEventsBounded /\ [Next]_vars => LateEventsBounded'
  <2> SUFFICES ASSUME TypeOK, TypeOK', LateEventsBounded, [Next]_vars, ~enabled'
               PROVE  LateEventsBounded'
    BY DEF LateEventsBounded
  <2>1. ASSUME UNCHANGED <<enabled, late, emitter>>
        PROVE  LateEventsBounded'
    BY <2>1, PastCheckShrinks DEF PastCheck
  <2>2. CASE vxDisableEvents
    BY <2>2, PastCheckFacts DEF vxDisableEvents, LateEventsBounded
  <2>3. ASSUME NEW t \in Emitters, BeginStep(t)
        PROVE  LateEventsBounded'
    <3>1. PICK topic, value, stage :
                 /\ Begin(t, topic, value, stage)
                 /\ stage = "check" \/ (stage = "lookup" /\ topic \in ParamTopics)
      BY <2>3
      DEF BeginStep, notify_node_completed, notify_graph_completed, vxSendUserEvent,
          notify_parameter_consumed
    <3>2. UNCHANGED <<enabled, late>>
      BY <3>1 DEF Begin
    <3>3. PastCheck' \subseteq PastCheck
      BY <3>1, ConstantsAssumption DEF Begin, PastCheck, TypeOK
    <3> QED
      BY <3>2, <3>3, PastCheckShrinks
  <2>4. ASSUME NEW t \in Emitters, CheckEnabled(t)
        PROVE  LateEventsBounded'
    <3>1. PastCheck' \subseteq PastCheck
      BY <2>4 DEF CheckEnabled, GiveUp, Quiet, PastCheck, TypeOK
    <3> QED
      BY <2>4, <3>1, PastCheckShrinks DEF CheckEnabled
  <2>5. ASSUME NEW t \in Emitters, LookupAppValue(t)
        PROVE  LateEventsBounded'
    <3>1. PastCheck' \subseteq PastCheck
      <4>1. CASE GiveUp(t)
        BY <4>1 DEF GiveUp, Quiet, PastCheck, TypeOK
      <4>2. ASSUME NEW r, Advance(t, IF emitter[t].topic \in NodeTopics THEN "push" ELSE "check",
                                  r.value)
            PROVE  PastCheck' \subseteq PastCheck
        BY <4>2, <2>5 DEF LookupAppValue, Advance, PastCheck, TypeOK, Report
      <4> QED
        BY <2>5, <4>1, <4>2 DEF LookupAppValue
    <3> QED
      BY <2>5, <3>1, PastCheckShrinks DEF LookupAppValue
  <2>6. ASSUME NEW t \in Emitters, push_event(t)
        PROVE  LateEventsBounded'
    <3>1. PastCheck' = PastCheck \ {t} /\ t \in PastCheck
      BY <2>6 DEF push_event, GiveUp, Quiet, PastCheck, TypeOK
    <3>2. Cardinality(PastCheck') = Cardinality(PastCheck) - 1
      BY <3>1, PastCheckFacts, FS_RemoveElement
    <3>3. late' = late + 1 /\ ~enabled
      BY <2>6 DEF push_event
    <3> QED
      BY <3>2, <3>3, PastCheckFacts DEF LateEventsBounded
  <2>7. CASE Next
    <3>1. \/ UNCHANGED <<enabled, late, emitter>>
          \/ vxDisableEvents
          \/ \E t \in Emitters : \/ BeginStep(t) \/ CheckEnabled(t)
                                \/ LookupAppValue(t) \/ push_event(t)
      BY <2>7
      DEF Next, EmitterStep, BeginStep, vxEnableEvents, vxRegisterEvent,
          ReleaseGraphEvents, PollEvent, EnterWaitEvent, TakeOrSleep, SpuriousWake
    <3> QED
      BY <3>1, <2>1, <2>2, <2>3, <2>4, <2>5, <2>6
  <2> QED
    BY <2>1, <2>7 DEF vars
<1> QED
  BY <1>1, <1>2, TypeCorrect, PTL DEF Spec
-----------------------------------------------------------------------------
(* The channel it implements.                                                *)

(* Every step of the event system is a step of the abstract channel or       *)
(* leaves it alone: sleeping, waking and checking are invisible to clients.  *)
THEOREM ChannelStepSimulation ==
  Spec => Channel!Init /\ [][Channel!Next]_(Channel!vars)
<1>1. Init => Channel!Init
  BY DEF Init, Channel!Init
<1>2. TypeOK /\ [Next]_vars => [Channel!Next]_(Channel!vars)
  <2> SUFFICES ASSUME TypeOK, [Next]_vars
               PROVE  Channel!Next \/ UNCHANGED Channel!vars
    OBVIOUS
  <2> DEFINE Busy == {w \in Waiters : waiter[w] # "idle"}
  <2>1. ASSUME UNCHANGED <<events, waiter>>
        PROVE  UNCHANGED Channel!vars
    BY <2>1 DEF Channel!vars
  <2>2. ASSUME NEW t \in Emitters, push_event(t)
        PROVE  Channel!Next
    <3>1. Busy' = Busy
      BY <2>2 DEF push_event, NotifyOne, Asleep, TypeOK
    <3>2. [topic |-> emitter[t].topic, value |-> emitter[t].value] \in Event
      BY DEF TypeOK, Report, Event
    <3> QED
      BY <2>2, <3>1, <3>2 DEF push_event, Channel!Next, Channel!Send
  <2>3. ASSUME NEW w \in Waiters, PollEvent(w)
        PROVE  Channel!Next
    BY <2>3 DEF PollEvent, Channel!Next, Channel!Poll
  <2>4. ASSUME NEW w \in Waiters, EnterWaitEvent(w)
        PROVE  Channel!Next
    <3>1. Busy' = Busy \cup {w} /\ w \notin Busy
      BY <2>4 DEF EnterWaitEvent, TypeOK
    <3> QED
      BY <2>4, <3>1 DEF EnterWaitEvent, Channel!Next, Channel!StartWait
  <2>5. ASSUME NEW w \in Waiters, TakeOrSleep(w)
        PROVE  Channel!Next \/ UNCHANGED Channel!vars
    <3>1. CASE events = <<>>
      <4>1. Busy' = Busy
        BY <2>5, <3>1 DEF TakeOrSleep, TypeOK
      <4> QED
        BY <2>5, <3>1, <4>1 DEF TakeOrSleep, Channel!vars
    <3>2. CASE events # <<>>
      <4>1. Busy' = Busy \ {w} /\ w \in Busy
        BY <2>5, <3>2 DEF TakeOrSleep, TypeOK
      <4> QED
        BY <2>5, <3>2, <4>1 DEF TakeOrSleep, Channel!Next, Channel!Deliver
    <3> QED
      BY <3>1, <3>2
  <2>6. ASSUME NEW w \in Waiters, SpuriousWake(w)
        PROVE  UNCHANGED Channel!vars
    <3>1. Busy' = Busy
      BY <2>6 DEF SpuriousWake, TypeOK
    <3> QED
      BY <2>6, <3>1 DEF SpuriousWake, Channel!vars
  <2>7. CASE Next
    <3>1. \/ UNCHANGED <<events, waiter>>
          \/ \E t \in Emitters : push_event(t)
          \/ \E w \in Waiters : \/ PollEvent(w) \/ EnterWaitEvent(w)
                               \/ TakeOrSleep(w) \/ SpuriousWake(w)
      BY <2>7
      DEF Next, EmitterStep, vxEnableEvents, vxDisableEvents, vxRegisterEvent,
          ReleaseGraphEvents, notify_node_completed, notify_graph_completed,
          vxSendUserEvent, notify_parameter_consumed, Begin, CheckEnabled, LookupAppValue
    <3> QED
      BY <3>1, <2>1, <2>2, <2>3, <2>4, <2>5, <2>6
  <2> QED
    BY <2>1, <2>7 DEF vars
<1> QED
  BY <1>1, <1>2, TypeCorrect, PTL DEF Spec
=============================================================================
