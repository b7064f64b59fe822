------------------------------ MODULE References ------------------------------
(* The lives of objects: reference counts (c_api.rs, unified_c_api.rs), the   *)
(* parameters of nodes, which hold references and may follow a delay, and     *)
(* what user kernels have initialised.  One graph; all objects are created    *)
(* before the first state.                                                    *)
EXTENDS Application, Naturals, FiniteSets, SequencesExt

CONSTANTS Objects,     \* data objects
          Levels,      \* the level images of each object; <<>> of what is no pyramid
          Freeing,     \* objects whose last reference vxReleaseGraph frees
          Delays, Slots,                 \* delays, and the objects in their slots
          Nodes, UserNodes, Params,      \* nodes, those of user kernels, parameters of a node
          AutoLocal,   \* user nodes with local data that vxVerifyGraph allocates
          Most         \* bound on the references to each object that the application holds

(* What a parameter follows: a slot of a delay by its age, level 0, or a      *)
(* level of the pyramid in it.                                                *)
Ties == [node : Nodes, param : 1..Params, delay : Delays, age : Nat, level : Nat]

ASSUME ReferencesAssumption ==
    /\ \A o \in Objects : Levels[o] \in Seq(Objects) /\ Most[o] \in Nat
    /\ \A d \in Delays : Slots[d] \in Seq(Objects) /\ Slots[d] # <<>>
    /\ \A d \in Delays : \A a, b \in ToSet(Slots[d]) : Len(Levels[a]) = Len(Levels[b])
    /\ Freeing \subseteq Objects /\ AutoLocal \subseteq UserNodes /\ UserNodes \subseteq Nodes
    /\ IsFiniteSet(Nodes) /\ Params \in Nat \ {0}
    /\ None \notin Objects \cup Nat \cup Ties /\ None \notin Seq(Nodes) /\ Objects \cap Ties = {}

(* vxCreatePyramid creates its levels, and vxCreateDelay its slots, for       *)
(* itself alone; levels are images.                                           *)
ASSUME OwnersAssumption ==
    /\ \A o \in Objects : IsInjective(Levels[o]) /\ \A l \in ToSet(Levels[o]) : Levels[l] = <<>>
    /\ \A a, b \in Objects : a # b => ToSet(Levels[a]) \cap ToSet(Levels[b]) = {}
    /\ \A d \in Delays : IsInjective(Slots[d])
    /\ \A d, e \in Delays : d # e => ToSet(Slots[d]) \cap ToSet(Slots[e]) = {}
    /\ \A o \in Objects, d \in Delays : ToSet(Levels[o]) \cap ToSet(Slots[d]) = {}

VARIABLES objects,       \* REFERENCE_COUNTS, and whether the memory is allocated
          held,          \* references the application holds
          nodes,         \* NODES: the parameters of each node
          initialized,   \* the nodes with user_kernel_initialized
          auto, local,   \* those with local_data_auto_alloc, and with local_data_ptr
          list,          \* the nodes of the graph, in order; None once it is released
          verified,      \* of the graph
          delays,        \* the current index of each delay, None when it is freed
          delay_params,  \* DELAY_NODE_PARAMS
          level_params,  \* DELAY_PYRAMID_LEVEL
          aged,          \* GRAPH_AUTO_AGE_DELAYS of the graph
          kernel,        \* the user kernel is registered
          wanted,        \* history: the value the application gave each parameter
          up,            \* history: nodes whose init was called and deinit was not
          buffers        \* history: local data buffers allocated and not freed

refs == <<objects, held>>
hook == <<initialized, auto, local, up, buffers>>
life == <<hook, kernel>>
ages == <<delays, aged>>
ties == <<delay_params, level_params, wanted>>
vars == <<refs, nodes, list, verified, ages, ties, life>>

Nothing   == [k \in 1..Params |-> None]
AllLevels == UNION {ToSet(Levels[o]) : o \in Objects}
AllSlots  == UNION {ToSet(Slots[d]) : d \in Delays}
-----------------------------------------------------------------------------
(* The registry, as functions from its contents to its contents.              *)

Retain(m, o) == [m EXCEPT ![o].count = IF @ = None THEN None ELSE @ + 1]
Free(m, o)   == [m EXCEPT ![o] = [count |-> None, live |-> FALSE]]
Shared(m, o) == m[o].count # None /\ m[o].count > 1
Drop(m, o)   == [m EXCEPT ![o].count = @ - 1]

(* vxReleaseScalar, vxReleaseImage: what is not in the registry is freed.     *)
ReleaseSimple(m, o) == IF Shared(m, o) THEN Drop(m, o) ELSE Free(m, o)

(* vxReleasePyramid.                                                          *)
\* Fault: the levels of a freed pyramid are not released.
ReleaseAlone(m, o) == IF Shared(m, o) THEN Drop(m, o) ELSE Free(m, o)
Release(m, o) == IF Shared(m, o) THEN Drop(m, o)
                 ELSE Free(FoldLeft(ReleaseSimple, m, Levels[o]), o)

(* vxReleaseReference: what is not in the registry is left alone.             *)
vxReleaseReference(m, o) == IF m[o].count = None THEN m ELSE Release(m, o)

(* A parameter gives up its value, and never the last reference.              *)
\* Fault: the old value of a parameter keeps its reference.
KeepOld(m, o) == m
GiveUp(m, o) == IF o # None /\ Shared(m, o) THEN Drop(m, o) ELSE m

(* vxReleaseGraph, for one parameter of one of its nodes, and for a node.     *)
GraphGivesUp(m, o) ==
    IF o = None \/ m[o].count = None \/ m[o].count = 0 THEN m
    ELSE IF m[o].count > 1 THEN Drop(m, o)
    ELSE IF o \in Freeing THEN Release([m EXCEPT ![o].count = None], o)
    ELSE [m EXCEPT ![o].count = None]
NodeGoes(m, n) == FoldLeft(GraphGivesUp, m, nodes[n])

(* vxRemoveNode, for one parameter: a count of zero frees nothing.            *)
RemovalGivesUp(m, o) ==
    IF o = None \/ m[o].count = None \/ m[o].count = 0 THEN m ELSE Drop(m, o)

-----------------------------------------------------------------------------
(* Delays.                                                                    *)

Slot(current, d, logical) ==
    LET count == Len(Slots[d])
    IN  Slots[d][((current[d] + count - (logical % count)) % count) + 1]

(* The value of a tied parameter: a slot, or a level of the pyramid in it.    *)
Tied(current, tie) ==
    LET o == Slot(current, tie.delay, tie.age)
    IN  IF tie.level = 0 THEN o ELSE Levels[o][tie.level]

(* resolve_delay_params_for_graph: the parameters that are tied in one of the *)
(* registries get their new values, and the counts follow.  The parameters    *)
(* tied to slots come first, then those tied to levels.                       *)
TieOf(ties_, n, k) == {t \in ties_ : t.node = n /\ t.param = k}
Listed(n) == list # None /\ n \in ToSet(list)

Follow(current, ties_, before) ==
    [n \in DOMAIN before |-> [k \in 1..Params |->
        IF Listed(n) /\ TieOf(ties_, n, k) # {}
        THEN Tied(current, CHOOSE t \in TieOf(ties_, n, k) : TRUE) ELSE before[n][k]]]

Exchange(m, old, new) == IF new = old THEN m ELSE GiveUp(Retain(m, new), old)
Recount(current, ties_, before, m) ==
    FoldSet(LAMBDA t, c : Exchange(c, before[t.node][t.param], Tied(current, t)),
            m, {t \in ties_ : Listed(t.node)})

\* Fault: only the parameters tied to slots follow.
ResolveSlotsOnly(current) ==
    /\ nodes' = Follow(current, delay_params, nodes)
    /\ objects' = Recount(current, delay_params, nodes, objects)
resolve_delay_params_for_graph(current) ==
    LET slots == Follow(current, delay_params, nodes)
    IN  /\ nodes' = Follow(current, level_params, slots)
        /\ objects' = Recount(current, level_params, slots,
                              Recount(current, delay_params, nodes, objects))

Aged(current, which) ==
    [d \in Delays |-> IF d \in which THEN (current[d] + 1) % Len(Slots[d]) ELSE current[d]]
-----------------------------------------------------------------------------
(* User kernels.  deinit is called and the buffer is freed of the nodes of S  *)
(* that are initialised.                                                      *)
\* Fault: a node that is initialised is initialised again.
NoneTornDown(S) == {}
TornDown(S) == S \cap initialized
Freed(S)    == S \cap auto \cap local
Hooked      == IF kernel THEN ToSet(list) \cap UserNodes ELSE {}

(* The loop of vxVerifyGraph over the user nodes, seen as the nodes that it   *)
(* came to, those of them that got past validate, and those whose init ended  *)
(* well.  No node is in the list twice.                                       *)
Hook(tried, validated, ready) ==
    LET torn  == TornDown(tried)
        given == validated \cap AutoLocal
        Change(n) == (IF n \in given THEN 1 ELSE 0) - (IF n \in Freed(torn) THEN 1 ELSE 0)
    IN  /\ up' = (up \ torn) \cup ready
        /\ initialized' = (initialized \ torn) \cup ready
        /\ auto' = (auto \ validated) \cup given
        /\ local' = (local \ Freed(torn)) \cup given
        /\ buffers' = [n \in Nodes |-> buffers[n] + Change(n)]

(* vxReleaseGraph calls it for every node, whose deinit is found in the       *)
(* registry of kernels, and then frees the nodes.                             *)
deinit_user_kernel_node(S) ==
    /\ up' = IF kernel THEN up \ TornDown(S) ELSE up
    /\ buffers' = [n \in Nodes |-> buffers[n] - (IF n \in Freed(TornDown(S)) THEN 1 ELSE 0)]
    /\ initialized' = initialized \ S /\ auto' = auto \ S /\ local' = local \ S
-----------------------------------------------------------------------------
(* What the application takes care of.  The README says what happens when it  *)
(* does not.                                                                  *)


Alive(n)    == list # None /\ n \in DOMAIN nodes
IsTied(n, k) == \E t \in delay_params \cup level_params : t.node = n /\ t.param = k
Holds(o)    == held[o] > 0
Named(o)    == Holds(o) /\ o \notin AllSlots \cup AllLevels
Followed(d)  == list # None /\ \E t \in delay_params \cup level_params :
                                   t.delay = d /\ t.node \in ToSet(list)
ParamsHeld(n, which) == \A k \in 1..Params : nodes[n][k] \in which \cap Objects => Holds(nodes[n][k])
-----------------------------------------------------------------------------
(* The application's calls.                                                   *)

vxRetainReference(o) ==
    /\ Holds(o) /\ held[o] < Most[o]
    /\ objects' = Retain(objects, o)
    /\ held' = [held EXCEPT ![o] = @ + 1]
    /\ UNCHANGED <<nodes, list, verified, ages, ties, life>>

ReleaseObject(o) ==
    /\ Holds(o)
    /\ \/ objects' = Release(objects, o)
       \/ Careful(objects[o].count # None) /\ objects' = vxReleaseReference(objects, o)
    /\ held' = [held EXCEPT ![o] = @ - 1]
    /\ UNCHANGED <<nodes, list, verified, ages, ties, life>>

vxGetPyramidLevel(o, l) ==
    /\ Holds(o) /\ l \in ToSet(Levels[o]) /\ held[l] < Most[l]
    /\ objects' = Retain(objects, l)
    /\ held' = [held EXCEPT ![l] = @ + 1]
    /\ UNCHANGED <<nodes, list, verified, ages, ties, life>>

Assign(n, k, o) ==
    nodes' = [nodes EXCEPT ![n][k] = o]

vxSetParameterByIndex(n, k, o) ==
    /\ Alive(n) /\ Holds(o) /\ Careful(Named(o))
    /\ Careful(~IsTied(n, k) /\ ParamsHeld(n, {nodes[n][k]}))
    /\ objects' = GiveUp(Retain(objects, o), nodes[n][k])
    /\ Assign(n, k, o)
    /\ wanted' = [wanted EXCEPT ![n][k] = o]
    /\ UNCHANGED <<held, list, verified, ages, delay_params, level_params, life>>

vxSetParameterByReference(n, k, o) ==
    /\ Alive(n) /\ Holds(o) /\ Careful(nodes[n][k] = o /\ Named(o))
    /\ Assign(n, k, o)
    /\ wanted' = [wanted EXCEPT ![n][k] = o]
    /\ UNCHANGED <<refs, list, verified, ages, delay_params, level_params, life>>

(* vxGetReferenceFromDelay, for a level also vxGetPyramidLevel, and with the  *)
(* result vxSetParameterByIndex, which finds in DELAY_SLOT_LOGICAL what the   *)
(* first of these just put there.  The registries are keyed by parameter.     *)
Put(ties_, tie) == {t \in ties_ : t.node # tie.node \/ t.param # tie.param} \cup {tie}

SetFromDelay(n, k, d, age, level) ==
    LET tie == [node |-> n, param |-> k, delay |-> d, age |-> age, level |-> level]
        o   == Tied(delays, tie)
        got == IF level = 0 THEN objects ELSE Retain(objects, o)
    IN  /\ Alive(n) /\ delays[d] # None
        /\ level > 0 => level \in DOMAIN Levels[Slot(delays, d, age)] /\ held[o] < Most[o]
        /\ Careful(ParamsHeld(n, {nodes[n][k]} \ (AllSlots \cup AllLevels)))
        /\ Careful(\A t \in delay_params \cup level_params :
                       t.node = n /\ t.param = k => (t.level = 0) = (level = 0))
        /\ objects' = GiveUp(Retain(got, o), nodes[n][k])
        /\ held' = IF level = 0 THEN held ELSE [held EXCEPT ![o] = @ + 1]
        /\ Assign(n, k, o)
        /\ IF level = 0 THEN delay_params' = Put(delay_params, tie) /\ UNCHANGED level_params
           ELSE level_params' = Put(level_params, tie) /\ UNCHANGED delay_params
        /\ wanted' = [wanted EXCEPT ![n][k] = tie]
        /\ UNCHANGED <<list, verified, ages, life>>

vxAgeDelay(d) ==
    /\ delays[d] # None
    /\ delays' = Aged(delays, {d})
    /\ resolve_delay_params_for_graph(Aged(delays, {d}))
    /\ UNCHANGED <<held, list, verified, aged, ties, life>>

vxRegisterAutoAging(d) ==
    /\ list # None /\ delays[d] # None
    /\ aged' = aged \cup {d}
    /\ UNCHANGED <<refs, nodes, list, verified, delays, ties, life>>

vxReleaseDelay(d) ==
    /\ delays[d] # None
    /\ Careful(d \notin aged /\ ~Followed(d))
    /\ objects' = FoldLeft(vxReleaseReference, objects, Slots[d])
    /\ delays' = [delays EXCEPT ![d] = None]
    /\ UNCHANGED <<held, nodes, list, verified, aged, ties, life>>

(* Verification succeeds, or fails at the user node at place k of the list,   *)
(* because validate or because init fails: those before it are initialised.   *)
Endings == {"invalid", "broken"}

VerifySucceeds ==
    /\ list # None
    /\ Hook(Hooked, Hooked, Hooked)
    /\ verified' = TRUE
    /\ UNCHANGED <<refs, nodes, list, ages, ties, kernel>>

VerifyFails(k, ending) ==
    LET before == {list[j] : j \in 1..(k - 1)} \cap Hooked
        tried  == before \cup {list[k]}
    IN  /\ list # None /\ k \in DOMAIN list /\ list[k] \in Hooked
        /\ Careful(~verified /\ (ending = "broken" => list[k] \notin AutoLocal))
        /\ Hook(tried, IF ending = "broken" THEN tried ELSE before, before)
        /\ UNCHANGED <<refs, nodes, list, verified, ages, ties, kernel>>

(* vxProcessGraph of a verified graph: resolve, run, and age if no node fails.*)
vxProcessGraph(fails) ==
    LET current == IF fails THEN delays ELSE Aged(delays, aged)
    IN  /\ list # None /\ verified
        /\ ~kernel /\ ToSet(list) \cap UserNodes # {} => fails
        /\ delays' = current
        /\ resolve_delay_params_for_graph(current)
        /\ UNCHANGED <<held, list, verified, aged, ties, life>>

vxRemoveKernel ==
    /\ kernel /\ Careful(up = {})
    /\ kernel' = FALSE
    /\ UNCHANGED <<refs, nodes, list, verified, ages, ties, hook>>

vxRemoveNode(n) ==
    /\ Alive(n)
    /\ Careful(n \notin up /\ ParamsHeld(n, Objects \ (AllSlots \cup AllLevels)))
    /\ objects' = FoldLeft(RemovalGivesUp, objects, nodes[n])
    /\ nodes' = [j \in (DOMAIN nodes) \ {n} |-> nodes[j]]
    /\ \E at \in DOMAIN list : list[at] = n /\ list' = RemoveAt(list, at)
    /\ verified' = FALSE
    /\ wanted' = [wanted EXCEPT ![n] = Nothing]
    /\ initialized' = initialized \ {n} /\ auto' = auto \ {n} /\ local' = local \ {n}
    /\ UNCHANGED <<held, ages, delay_params, level_params, kernel, up, buffers>>

vxReleaseGraph ==
    /\ list # None
    /\ Careful(\A n \in DOMAIN nodes : ParamsHeld(n, Objects \ (Freeing \cup AllSlots \cup AllLevels)))
    /\ objects' = FoldLeft(NodeGoes, objects, list)
    /\ deinit_user_kernel_node(ToSet(list))
    /\ nodes' = <<>> /\ list' = None /\ verified' = FALSE /\ aged' = {}
    /\ wanted' = [n \in Nodes |-> Nothing]
    /\ UNCHANGED <<held, delays, delay_params, level_params, kernel>>
-----------------------------------------------------------------------------
Init ==
    /\ objects = [o \in Objects |-> [count |-> 1, live |-> TRUE]]
    /\ held = [o \in Objects |-> IF o \in AllLevels \cup AllSlots THEN 0 ELSE 1]
    /\ nodes = [n \in Nodes |-> Nothing]
    /\ list \in {s \in [1..Cardinality(Nodes) -> Nodes] : IsInjective(s) /\ ToSet(s) = Nodes}
    /\ initialized = {} /\ auto = AutoLocal /\ local = {}
    /\ verified = FALSE
    /\ delays = [d \in Delays |-> 0]
    /\ delay_params = {} /\ level_params = {} /\ aged = {}
    /\ kernel = TRUE /\ up = {}
    /\ buffers = [n \in Nodes |-> 0]
    /\ wanted = [n \in Nodes |-> Nothing]

Counting == \E o \in Objects : \/ vxRetainReference(o)
                               \/ ReleaseObject(o)
                               \/ \E l \in ToSet(Levels[o]) : vxGetPyramidLevel(o, l)

Setting == \E n \in Nodes, k \in 1..Params :
              \/ \E o \in Objects : vxSetParameterByIndex(n, k, o) \/ vxSetParameterByReference(n, k, o)
              \/ \E d \in Delays : \E age \in 0..(Len(Slots[d]) - 1), level \in 0..1 :
                     SetFromDelay(n, k, d, age, level)

Delaying == \E d \in Delays : vxAgeDelay(d) \/ vxRegisterAutoAging(d) \/ vxReleaseDelay(d)

Graphing == \/ VerifySucceeds
            \/ \E ending \in Endings, k \in 1..Cardinality(Nodes) : VerifyFails(k, ending)
            \/ \E fails \in BOOLEAN : vxProcessGraph(fails)
            \/ vxRemoveKernel \/ vxReleaseGraph
            \/ \E n \in Nodes : vxRemoveNode(n)

Next == Counting \/ Setting \/ Delaying \/ Graphing

Spec == Init /\ [][Next]_vars
-----------------------------------------------------------------------------
(* Correctness.                                                               *)

Uses(o) == Cardinality({u \in (DOMAIN nodes) \X (1..Params) : nodes[u[1]][u[2]] = o})
Owners(o) == Cardinality({p \in Objects : objects[p].live /\ o \in ToSet(Levels[p])})
                 + Cardinality({d \in Delays : delays[d] # None /\ o \in ToSet(Slots[d])})
Holders(o) == held[o] + Uses(o) + Owners(o)

(* An object's memory is freed when, and not before, the application, the     *)
(* parameters, the pyramid and the delay that hold it have given it up, and   *)
(* while it lives its count says how many hold it.                            *)
CountsAreHolders ==
    \A o \in Objects : /\ objects[o].live <=> Holders(o) > 0
                       /\ objects[o].live => objects[o].count = Holders(o)

(* A parameter has the value the application gave it: an object, or what is   *)
(* now at some age in a delay that has not been freed.                        *)
ParametersAsSet ==
    \A n \in DOMAIN nodes : \A k \in 1..Params :
        LET w == wanted[n][k]
        IN  nodes[n][k] =
                IF w = None \/ w \in Objects THEN w
                ELSE IF delays[w.delay] = None THEN None ELSE Tied(delays, w)

(* init and deinit alternate, so that a node has a local buffer exactly when  *)
(* it is initialised; and a verified graph runs initialised nodes only.       *)
InitialisedOnce ==
    /\ up = initialized
    /\ \A n \in Nodes : buffers[n] = IF n \in up \cap AutoLocal THEN 1 ELSE 0
    /\ verified /\ kernel => ToSet(list) \cap UserNodes \subseteq up
=============================================================================
