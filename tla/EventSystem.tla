----------------------------- MODULE EventSystem -----------------------------
(* The event system of one context (openvx-core/src/pipelining_api.rs, the   *)
(* type in pipelining.rs): a queue of events guarded by a mutex and paired   *)
(* with the condition variable event_cv, the registrations, and the enabled  *)
(* flag.  Emitters are the threads that report events (graph executions and  *)
(* vxSendUserEvent callers), waiters the application threads in vxWaitEvent. *)
(* A report is several steps: the enabled flag and the registrations are     *)
(* read under other locks than the one push_event takes.                     *)
EXTENDS Naturals, FiniteSets, SequencesExt

CONSTANTS Emitters, Waiters,
          Graphs,          \* graphs of the context
          NodeTopics,      \* (node, NODE_COMPLETED) pairs
          ParamTopics,     \* (graph, index, GRAPH_PARAMETER_CONSUMED) triples
          GraphOf,         \* the graph a topic belongs to
          Values,          \* app_value numbers; 0 marks an event without one
          MaxReports,      \* bound: reports begun
          MaxRegistrations \* bound: registrations made

Registrable == NodeTopics \cup ParamTopics
Topics      == Registrable \cup {"graph", "user"}

ASSUME ConstantsAssumption ==
    /\ IsFiniteSet(Emitters)
    /\ IsFiniteSet(Waiters)
    /\ GraphOf \in [Registrable -> Graphs]
    /\ NodeTopics \cap ParamTopics = {}
    /\ {"graph", "user"} \cap Registrable = {}
    /\ 0 \in Values

VARIABLES events,         \* VecDeque<VxEvent>
          enabled,        \* AtomicBool
          registrations,  \* Vec<VxEventRegistration>: entries ordered by "at"
          registered,     \* how many registrations were made
          live,           \* graphs not released
          emitter,        \* per emitter: the report in progress and its next step
          waiter,         \* per waiter: where it is in vxWaitEvent
          reports,        \* how many reports were begun (bounded by MaxReports)
          late            \* history: events pushed since events were last disabled

regVars == <<registrations, registered, live>>
vars    == <<events, enabled, regVars, emitter, waiter, reports, late>>

Event        == [topic : Topics, value : Values]
Registration == [topic : Registrable, value : Values, at : Nat]
Stage        == {"idle", "check", "lookup", "push"}
Report       == [stage : Stage, topic : Topics, value : Values]
WaiterState  == {"idle", "entering", "asleep", "notified"}

Quiet == [stage |-> "idle", topic |-> "user", value |-> 0]

Init == /\ events = <<>>
        /\ enabled = TRUE
        /\ registrations = {}
        /\ registered = 0
        /\ live = Graphs
        /\ emitter = [t \in Emitters |-> Quiet]
        /\ waiter = [w \in Waiters |-> "idle"]
        /\ reports = 0
        /\ late = 0
-----------------------------------------------------------------------------
(* Switching and registering.                                                *)

vxEnableEvents == /\ enabled' = TRUE
                  /\ late' = 0
                  /\ UNCHANGED <<events, regVars, emitter, waiter, reports>>

(* Nothing waits for the reports in progress and no waiter is woken.         *)
vxDisableEvents == /\ enabled' = FALSE
                   /\ late' = 0
                   /\ UNCHANGED <<events, regVars, emitter, waiter, reports>>

vxRegisterEvent(topic, value) ==
    /\ GraphOf[topic] \in live
    /\ registered < MaxRegistrations
    /\ registrations' = registrations
                            \cup {[topic |-> topic, value |-> value, at |-> registered]}
    /\ registered' = registered + 1
    /\ UNCHANGED <<events, enabled, live, emitter, waiter, reports, late>>

(* The part of vxReleaseGraph that concerns events: its registrations go,    *)
(* the events already queued stay.                                           *)
ReleaseGraphEvents(g) ==
    /\ g \in live
    /\ live' = live \ {g}
    /\ registrations' = {r \in registrations : GraphOf[r.topic] # g}
    /\ UNCHANGED <<registered, events, enabled, emitter, waiter, reports, late>>
-----------------------------------------------------------------------------
(* Reporting an event.                                                       *)

Begin(t, topic, value, stage) ==
    /\ emitter[t].stage = "idle"
    /\ reports < MaxReports
    /\ emitter' = [emitter EXCEPT ![t] = [stage |-> stage, topic |-> topic, value |-> value]]
    /\ reports' = reports + 1
    /\ UNCHANGED <<events, enabled, regVars, waiter, late>>

notify_node_completed(t, n) == Begin(t, n, 0, "check")
notify_graph_completed(t)   == Begin(t, "graph", 0, "check")
vxSendUserEvent(t)          == Begin(t, "user", 0, "check")   \* its app_value is passed on
(* move_refs_to_done looks the registration up before it calls               *)
(* notify_parameter_consumed, which checks the flag.                         *)
notify_parameter_consumed(t, p) == Begin(t, p, 0, "lookup")

Advance(t, stage, value) ==
    emitter' = [emitter EXCEPT ![t].stage = stage, ![t].value = value]
GiveUp(t) == emitter' = [emitter EXCEPT ![t] = Quiet]

(* Fault: the report does not look at the flag.                              *)
CheckNothing(t) ==
    /\ emitter[t].stage = "check"
    /\ Advance(t, IF emitter[t].topic \in NodeTopics THEN "lookup" ELSE "push",
               emitter[t].value)
    /\ UNCHANGED <<events, enabled, regVars, waiter, reports, late>>

CheckEnabled(t) ==
    /\ emitter[t].stage = "check"
    /\ IF enabled
         THEN Advance(t, IF emitter[t].topic \in NodeTopics THEN "lookup" ELSE "push",
                      emitter[t].value)
         ELSE GiveUp(t)
    /\ UNCHANGED <<events, enabled, regVars, waiter, reports, late>>

(* The registrations an iterator over the Vec meets first for a topic.        *)
Matching(topic)   == {r \in registrations : r.topic = topic}
FirstMatch(topic) == {r \in Matching(topic) : \A q \in Matching(topic) : r.at <= q.at}

LookupAppValue(t) ==
    /\ emitter[t].stage = "lookup"
    /\ \/ /\ Matching(emitter[t].topic) = {}
          /\ GiveUp(t)
       \/ \E r \in FirstMatch(emitter[t].topic) :
            Advance(t, IF emitter[t].topic \in NodeTopics THEN "push" ELSE "check", r.value)
    /\ UNCHANGED <<events, enabled, regVars, waiter, reports, late>>

Asleep   == {w \in Waiters : waiter[w] = "asleep"}
Notified == {w \in Waiters : waiter[w] = "notified"}

(* Fault: push_event wakes nobody.                                           *)
NotifyNobody == UNCHANGED waiter

(* Condvar::notify_one: one sleeper, whichever the system picks, if any.     *)
NotifyOne == IF Asleep = {}
               THEN UNCHANGED waiter
               ELSE \E w \in Asleep : waiter' = [waiter EXCEPT ![w] = "notified"]

push_event(t) ==
    /\ emitter[t].stage = "push"
    /\ events' = Append(events, [topic |-> emitter[t].topic, value |-> emitter[t].value])
    /\ NotifyOne
    /\ GiveUp(t)
    /\ late' = IF enabled THEN late ELSE late + 1
    /\ UNCHANGED <<enabled, regVars, reports>>
-----------------------------------------------------------------------------
(* vxWaitEvent.                                                              *)

(* Fault: polling takes the newest event.                                    *)
PollNewest(w) ==
    /\ waiter[w] = "idle"
    /\ events # <<>>
    /\ events' = Front(events)
    /\ UNCHANGED <<enabled, regVars, emitter, waiter, reports, late>>

(* do_not_block: with an empty queue it returns VX_FAILURE and changes       *)
(* nothing.                                                                  *)
PollEvent(w) ==
    /\ waiter[w] = "idle"
    /\ events # <<>>
    /\ events' = Tail(events)
    /\ UNCHANGED <<enabled, regVars, emitter, waiter, reports, late>>

EnterWaitEvent(w) ==
    /\ waiter[w] = "idle"
    /\ waiter' = [waiter EXCEPT ![w] = "entering"]
    /\ UNCHANGED <<events, enabled, regVars, emitter, reports, late>>

(* Fault: the loop sleeps before it looks at the queue.                      *)
SleepFirst(w) ==
    /\ \/ /\ waiter[w] = "entering"
          /\ waiter' = [waiter EXCEPT ![w] = "asleep"]
          /\ UNCHANGED events
       \/ /\ waiter[w] = "notified" /\ events # <<>>
          /\ events' = Tail(events)
          /\ waiter' = [waiter EXCEPT ![w] = "idle"]
    /\ UNCHANGED <<enabled, regVars, emitter, reports, late>>

(* One turn of the blocking loop, from taking the mutex to giving it up.     *)
TakeOrSleep(w) ==
    /\ waiter[w] \in {"entering", "notified"}
    /\ IF events # <<>>
         THEN /\ events' = Tail(events)
              /\ waiter' = [waiter EXCEPT ![w] = "idle"]
         ELSE /\ waiter' = [waiter EXCEPT ![w] = "asleep"]
              /\ UNCHANGED events
    /\ UNCHANGED <<enabled, regVars, emitter, reports, late>>

(* std::sync::Condvar may wake a sleeper for no reason.                      *)
SpuriousWake(w) ==
    /\ waiter[w] = "asleep"
    /\ waiter' = [waiter EXCEPT ![w] = "notified"]
    /\ UNCHANGED <<events, enabled, regVars, emitter, reports, late>>
-----------------------------------------------------------------------------
EmitterStep(t) == CheckEnabled(t) \/ LookupAppValue(t) \/ push_event(t)

Next ==
    \/ vxEnableEvents
    \/ vxDisableEvents
    \/ \E topic \in Registrable, v \in Values : vxRegisterEvent(topic, v)
    \/ \E g \in Graphs : ReleaseGraphEvents(g)
    \/ \E t \in Emitters :
          \/ \E n \in NodeTopics : notify_node_completed(t, n)
          \/ notify_graph_completed(t)
          \/ vxSendUserEvent(t)
          \/ \E p \in ParamTopics : notify_parameter_consumed(t, p)
          \/ EmitterStep(t)
    \/ \E w \in Waiters :
          \/ PollEvent(w)
          \/ EnterWaitEvent(w)
          \/ TakeOrSleep(w)
          \/ SpuriousWake(w)

(* A thread inside a call keeps running; nobody has to make a call.          *)
Fairness == /\ \A t \in Emitters : WF_vars(EmitterStep(t))
            /\ \A w \in Waiters : WF_vars(TakeOrSleep(w))

Spec     == Init /\ [][Next]_vars
FairSpec == Spec /\ Fairness
-----------------------------------------------------------------------------
TypeOK ==
    /\ events \in Seq(Event)
    /\ enabled \in BOOLEAN
    /\ registrations \subseteq Registration
    /\ registered \in Nat
    /\ live \subseteq Graphs
    /\ emitter \in [Emitters -> Report]
    /\ waiter \in [Waiters -> WaiterState]
    /\ reports \in Nat
    /\ late \in Nat

(* No wakeup of event_cv is lost: while a client sleeps in vxWaitEvent,      *)
(* every queued event has a woken client on its way to fetch it, although    *)
(* push_event wakes only one and polls and new callers may overtake it.      *)
NoLostWakeup == Asleep # {} => Len(events) <= Cardinality(Notified)

(* Emitters that have passed the enabled check of their report.              *)
PastCheck == {t \in Emitters :
                 \/ emitter[t].stage = "push"
                 \/ emitter[t].stage = "lookup" /\ emitter[t].topic \in NodeTopics}

(* vxDisableEvents lets through what was already past its check, at most one *)
(* event for each reporting thread, and nothing more until events are        *)
(* enabled again.                                                            *)
LateEventsBounded ==
    ~enabled => late + Cardinality(PastCheck) <= Cardinality(Emitters)

(* A client blocked in vxWaitEvent while events are queued is served, or     *)
(* the other clients have taken every event.                                 *)
BlockedClientServed ==
    \A w \in Waiters :
        (waiter[w] # "idle" /\ events # <<>>) ~> (waiter[w] = "idle" \/ events = <<>>)

(* The event system is an event channel: asleep, woken and entering clients  *)
(* are all just waiting.                                                     *)
Channel == INSTANCE EventChannel WITH
               Clients <- Waiters,
               pending <- events,
               waiting <- {w \in Waiters : waiter[w] # "idle"}
ImplementsChannel == Channel!Spec
=============================================================================
