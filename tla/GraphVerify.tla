----------------------------- MODULE GraphVerify -----------------------------
(* vxVerifyGraph (unified_c_api.rs) on one graph, with the graph registry     *)
(* locked: who produces and who consumes each object, regions of interest and *)
(* pyramid levels included, the search for a cycle, Kahn's algorithm over a   *)
(* stack, the waves, and the sizes and formats of virtual images.  The maps   *)
(* of the code are iterated in an arbitrary order.  The hooks of user kernels *)
(* that follow are in References.                                             *)
EXTENDS KernelSignatures, FiniteSets, SequencesExt

CONSTANTS Graphs,   \* the graphs to verify: the nodes in the order of creation, each
                    \* [kernel, params], a parameter an object or None
          Objects,  \* data references
          Parent,   \* the image each region of interest lies in, else None
          Pyramid,  \* the pyramid each level image belongs to, else None
          Given,    \* [sized, format] of images and pyramids when verification begins
          Virtual,  \* virtual images
          Pyramids, \* pyramids; a virtual one is given without a size
          None

ASSUME VerifyAssumption ==
    /\ None \notin Objects /\ None \notin Nat
    /\ Parent \in [Objects -> (Objects \ Pyramids) \cup {None}]
    /\ Pyramid \in [Objects -> Pyramids \cup {None}]
    /\ \A q \in Pyramids : Parent[q] = None /\ Pyramid[q] = None
    \* a bound: regions do not nest, and a level has no regions
    /\ \A o \in Objects : Parent[o] # None => /\ Parent[Parent[o]] = None
                                              /\ Pyramid[o] = None /\ Pyramid[Parent[o]] = None
    /\ Virtual \cup Pyramids \subseteq DOMAIN Given /\ DOMAIN Given \subseteq Objects
    /\ Virtual \cap Pyramids = {}
    /\ \A g \in Graphs : /\ g \in Seq([kernel : STRING, params : Seq(Objects \cup {None})])
                         /\ g # <<>>

VARIABLES graph,     \* the nodes under verification
          stage,
          producer,  \* param_to_producer
          outputs,   \* node_to_outputs
          consumers, \* param_to_consumers, and image_to_consumers
          degree,    \* in_degree
          queue,     \* nodes that are ready
          order,     \* topo_order, the graph's nodes once it is verified
          wave,      \* wave_map
          image      \* size and format of the images

verifyVars == <<graph, stage, producer, outputs, consumers, degree, queue, order, wave, image>>

Nodes == DOMAIN graph
Params(n) == graph[n].params
Output(n, i) == IsOutput(<<>>, graph[n].kernel, i - 1)
Places(n, output) == {i \in DOMAIN Params(n) : Params(n)[i] # None /\ (Output(n, i) <=> output)}
Written(n) == {Params(n)[i] : i \in Places(n, TRUE)}
Refs(n)    == {Params(n)[i] : i \in DOMAIN Params(n)} \ {None}

VerifyInit ==
    /\ graph \in Graphs
    /\ stage = "connect"
    /\ producer = [o \in Objects |-> None]
    /\ outputs = [n \in Nodes |-> {}]
    /\ consumers = [o \in Objects |-> {}]
    /\ degree = [n \in Nodes |-> 0]
    /\ queue = <<>> /\ order = <<>>
    /\ wave = [n \in Nodes |-> None]
    /\ image = Given

Stop(status) == stage' = status /\ UNCHANGED <<queue, order, wave, image>>
-----------------------------------------------------------------------------
(* A node must have its first parameter, and no two nodes write one object.   *)

LacksInput == \E n \in Nodes : Params(n) = <<>> \/ Params(n)[1] = None
TwoProducers == \E m, n \in Nodes : m # n /\ Written(m) \cap Written(n) # {}

Reject ==
    /\ stage = "connect" /\ (LacksInput \/ TwoProducers)
    /\ Stop(IF LacksInput THEN "INVALID_PARAMETERS" ELSE "INVALID_GRAPH")
    /\ UNCHANGED <<graph, producer, outputs, consumers, degree>>

(* node_to_outputs and image_to_consumers list what follows once for each     *)
(* parameter: <<object, object, place>> in the one, <<node, place>> in the    *)
(* other.  Entries that are added for a whole and its parts have place 0.     *)
Connect ==
    /\ stage = "connect" /\ ~LacksInput /\ ~TwoProducers
    /\ stage' = "regions"
    /\ producer' = [o \in Objects |->
                       IF \E n \in Nodes : o \in Written(n)
                       THEN CHOOSE n \in Nodes : o \in Written(n) ELSE None]
    /\ outputs' = [n \in Nodes |-> {<<Params(n)[i], Params(n)[i], i>> : i \in Places(n, TRUE)}]
    /\ consumers' = [o \in Objects |->
                        UNION {{<<n, i>> : i \in {j \in Places(n, FALSE) : Params(n)[j] = o}} : n \in Nodes}]
    /\ UNCHANGED <<graph, degree, queue, order, wave, image>>
-----------------------------------------------------------------------------
(* Whoever writes a region of interest also writes its parent, whoever reads  *)
(* one reads its parent; whoever writes a pyramid writes its levels, whoever  *)
(* reads a level reads the pyramid.                                           *)

Used(within) == {o \in UNION {Refs(n) : n \in Nodes} : within[o] # None}

Listed(o) == {e[1] : e \in consumers[o]}

(* A node that reads several parts is listed once for the whole, and not if   *)
(* it is listed there already.                                                *)
ConsumeWholes(within) ==
    [o \in Objects |->
        consumers[o] \cup
            ((UNION {Listed(r) : r \in {u \in Used(within) : within[u] = o}}) \ Listed(o)) \X {0}]

(* The last region written decides who produces the parent.                   *)
ConnectRegions ==
    /\ stage = "regions" /\ stage' = "levels"
    /\ LET written == {r \in Used(Parent) : producer[r] # None}
       IN  /\ \E last \in [{Parent[r] : r \in written} -> written] :
                 /\ \A o \in DOMAIN last : Parent[last[o]] = o
                 /\ producer' = [o \in Objects |->
                                    producer[IF o \in DOMAIN last THEN last[o] ELSE o]]
           /\ outputs' = [n \in Nodes |-> outputs[n] \cup
                             {<<Parent[r], r, 0>> : r \in {w \in written : producer[w] = n}}]
    /\ consumers' = ConsumeWholes(Parent)
    /\ UNCHANGED <<graph, degree, queue, order, wave, image>>

ConnectLevels ==
    /\ stage = "levels" /\ stage' = "cycles"
    /\ LET written == {l \in Used(Pyramid) : producer[Pyramid[l]] # None}
       IN  /\ producer' = [o \in Objects |-> producer[IF o \in written THEN Pyramid[o] ELSE o]]
           /\ outputs' = [n \in Nodes |-> outputs[n] \cup
                             {<<l, Pyramid[l], 0>> : l \in {w \in written : producer[Pyramid[w]] = n}}]
    /\ consumers' = ConsumeWholes(Pyramid)
    /\ UNCHANGED <<graph, degree, queue, order, wave, image>>
-----------------------------------------------------------------------------
(* has_cycle: depth first along outputs and consumers; a node that consumes   *)
(* what it writes itself is no cycle.                                         *)

Successors(n) == (UNION {Listed(e[1]) : e \in outputs[n]}) \ {n}

(* Fault: only a node that feeds one of its own producers is a cycle.         *)
has_short_cycle == \E m, n \in Nodes : m \in Successors(n) /\ n \in Successors(m)

(* A node and the nodes on the stack above it.                                *)
Search[s \in Nodes \X SUBSET Nodes] ==
    IF s[1] \in s[2] THEN TRUE ELSE \E m \in Successors(s[1]) : Search[<<m, s[2] \cup {s[1]}>>]
has_cycle == \E n \in Nodes : Search[<<n, {}>>]

DetectCycle ==
    /\ stage = "cycles" /\ has_cycle
    /\ Stop("INVALID_GRAPH")
    /\ UNCHANGED <<graph, producer, outputs, consumers, degree>>
-----------------------------------------------------------------------------
(* Kahn's algorithm.  An in-degree counts, for every parameter, the other     *)
(* node that produces it, its parent, or its pyramid.                         *)

Around(o) == {o, Parent[o], Pyramid[o]} \ {None}

InDegree(n) ==
    Cardinality(UNION {{i} \X {o \in Around(Params(n)[i]) : producer[o] \notin {None, n}} :
                          i \in {j \in DOMAIN Params(n) : Params(n)[j] # None}})

CountInDegree ==
    /\ stage = "cycles" /\ ~has_cycle
    /\ stage' = "kahn"
    /\ degree' = [n \in Nodes |-> InDegree(n)]
    /\ queue' \in SetToSeqs({n \in Nodes : degree'[n] = 0})
    /\ UNCHANGED <<graph, producer, outputs, consumers, order, wave, image>>

(* How often n tells c that it has run: for each entry of an output, each     *)
(* entry of c as a consumer of it.                                            *)
Feeds(n, c) ==
    IF c = n THEN {} ELSE UNION {{e} \X {f \in consumers[e[1]] : f[1] = c} : e \in outputs[n]}

(* Fault: a node is ready as soon as one of its inputs is.                    *)
LeftEager(n, c) == IF Feeds(n, c) = {} THEN degree[c] ELSE 0
Left(n, c) == IF Cardinality(Feeds(n, c)) < degree[c] THEN degree[c] - Cardinality(Feeds(n, c)) ELSE 0

(* queue.pop(): the last one in is the next one out.  The nodes that become   *)
(* ready enter the queue in any order.                                        *)
TakeReady ==
    /\ stage = "kahn" /\ queue # <<>>
    /\ LET n == Last(queue)
       IN  /\ order' = Append(order, n)
           /\ degree' = [c \in Nodes |-> Left(n, c)]
    /\ \E ready \in SetToSeqs({c \in Nodes : degree[c] > 0 /\ degree'[c] = 0}) :
          queue' = Front(queue) \o ready
    /\ UNCHANGED <<graph, stage, producer, outputs, consumers, wave, image>>
-----------------------------------------------------------------------------
(* The wave of a node: after the waves of those that produce its parameters.  *)

Highest(S) == IF S = {} THEN 0 ELSE CHOOSE x \in S : \A y \in S : y <= x

(* Fault: a node joins the last wave of its producers.                        *)
WaveOfLast(waves, n) ==
    Highest({waves[producer[o]] :
                o \in {r \in Refs(n) : /\ producer[r] \in Nodes \ {n}
                                       /\ waves[producer[r]] # None}})

WaveOf(waves, n) ==
    Highest({waves[producer[o]] + 1 :
                o \in {r \in Refs(n) : /\ producer[r] \in Nodes \ {n}
                                       /\ waves[producer[r]] # None}})

(* What is kept for the pipeup warm-up: the producers of the parameters, their*)
(* parents and their pyramids.                                                *)
node_predecessors(n) ==
    {producer[o] : o \in UNION {Around(r) : r \in Refs(n)}} \ {None, n}

(* wave_map is filled in the order of the nodes.                              *)
ComputeWave ==
    /\ stage = "kahn" /\ queue = <<>>
    /\ \E i \in DOMAIN order :
          /\ wave[order[i]] = None /\ \A j \in 1..(i - 1) : wave[order[j]] # None
          /\ wave' = [wave EXCEPT ![order[i]] = WaveOf(wave, order[i])]
    /\ UNCHANGED <<graph, stage, producer, outputs, consumers, degree, queue, order, image>>

EndWaves ==
    /\ stage = "kahn" /\ queue = <<>> /\ \A i \in DOMAIN order : wave[order[i]] # None
    /\ stage' = "virtual"
    /\ UNCHANGED <<graph, producer, outputs, consumers, degree, queue, order, wave, image>>
-----------------------------------------------------------------------------
(* Virtual images.  infer_output_format looks at the name of the kernel and   *)
(* the formats of the other images of its node; names are matched in part,    *)
(* so "add" is in no other name, and ".or" and "and" in none but the bitwise. *)

infer_output_format(k, formats) ==
    IF formats = <<>> THEN "U8"
    ELSE IF k \in {"add", "subtract", "multiply", "tensor_add", "tensor_subtract",
                   "tensor_multiply", "tensor_matrix_multiply"}
         THEN "S16"
    ELSE IF k \in {"absdiff", "weighted_average"}
         THEN IF "S16" \in Range(formats) THEN "S16" ELSE "U8"
    ELSE IF k = "channel_extract" THEN "U8"
    ELSE formats[1]

Known(i) == i.sized /\ i.format # "VIRT"

(* infer_virtual_image_dimensions: from the images of the node that produces  *)
(* the image, whichever node is being looked at; the format is that of the    *)
(* kernel of the node being looked at, unless the application chose one.      *)
Images == DOMAIN Given \ Pyramids
Neighbours(o, n) == SelectSeq(Params(n), LAMBDA r : r # o /\ r \in Images)

InferFrom(images, o, source, n) ==
    LET others  == Neighbours(o, source)
        sources == SelectSeq(others, LAMBDA r : r \in Virtual \/ images[r].sized)
        formats == [j \in DOMAIN sources |-> images[sources[j]].format]
    IN  [sized  |-> \E r \in Range(sources) : images[r].sized,
         format |-> IF images[o].format # "VIRT" THEN images[o].format
                    ELSE infer_output_format(graph[n].kernel, formats)]

infer_virtual_image_dimensions(images, o, n) ==
    InferFrom(images, o, IF producer[o] = None THEN n ELSE producer[o], n)

(* Every parameter of every node, in the order of creation; an image that has *)
(* a size and a format keeps them.                                            *)
Parameters == FlattenSeq([n \in Nodes |-> [i \in DOMAIN Params(n) |-> <<n, Params(n)[i]>>]])

(* Fault: an image that has a size is taken for resolved.                     *)
ResolveUnsized(acc, place) ==
    LET n == place[1]
        o == place[2]
        inferred == infer_virtual_image_dimensions(acc.image, o, n)
    IN  IF acc.status # "ok" \/ o \notin Virtual \/ (o \in Virtual /\ acc.image[o].sized) THEN acc
        ELSE IF ~inferred.sized THEN [acc EXCEPT !.status = "INVALID_GRAPH"]
        ELSE [acc EXCEPT !.image[o] = inferred]

ResolveImage(acc, place) ==
    LET n == place[1]
        o == place[2]
        inferred == infer_virtual_image_dimensions(acc.image, o, n)
    IN  IF acc.status # "ok" \/ o \notin Virtual \/ (o \in Virtual /\ Known(acc.image[o])) THEN acc
        ELSE IF ~inferred.sized THEN [acc EXCEPT !.status = "INVALID_GRAPH"]
        ELSE [acc EXCEPT !.image[o] = inferred]

ResolveImages ==
    /\ stage = "virtual"
    /\ LET resolved == FoldLeft(ResolveImage, [status |-> "ok", image |-> image], Parameters)
       IN  /\ stage' = IF resolved.status = "ok" THEN "pyramids" ELSE "INVALID_GRAPH"
           /\ image' = resolved.image
    /\ UNCHANGED <<graph, producer, outputs, consumers, degree, queue, order, wave>>

(* A pyramid without a size takes that of the first image of a node that uses *)
(* it; its levels follow.                                                     *)
ResolvePyramid(images, place) ==
    LET q == place[2]
        sized == SelectSeq(Neighbours(q, place[1]), LAMBDA r : images[r].sized)
        format == IF images[q].format # "VIRT" THEN images[q].format
                  ELSE IF images[sized[1]].format # "VIRT" THEN images[sized[1]].format ELSE "U8"
    IN  IF q \notin Pyramids \/ (q \in Pyramids /\ Known(images[q])) \/ sized = <<>> THEN images
        ELSE [o \in DOMAIN images |->
                 IF o = q \/ Pyramid[o] = q THEN [sized |-> TRUE, format |-> format] ELSE images[o]]

ResolvePyramids ==
    /\ stage = "pyramids" /\ stage' = "verified"
    /\ image' = FoldLeft(ResolvePyramid, image, Parameters)
    /\ UNCHANGED <<graph, producer, outputs, consumers, degree, queue, order, wave>>

Done == stage \in {"verified", "INVALID_GRAPH", "INVALID_PARAMETERS"} /\ UNCHANGED verifyVars

VerifyNext == \/ Reject \/ Connect \/ ConnectRegions \/ ConnectLevels \/ DetectCycle
              \/ CountInDegree \/ TakeReady \/ ComputeWave \/ EndWaves \/ ResolveImages
              \/ ResolvePyramids \/ Done

VerifySpec == VerifyInit /\ [][VerifyNext]_verifyVars
-----------------------------------------------------------------------------
(* What verification is for.  A node reads and writes what its kernel's arm   *)
(* of the dispatcher does.                                                    *)

Writes(n) == {Params(n)[i] : i \in {j \in DOMAIN Params(n) :
                                       j - 1 \in Dispatch[graph[n].kernel].written}} \ {None}
Reads(n)  == {Params(n)[i] : i \in {j \in DOMAIN Params(n) :
                                       j - 1 \notin Dispatch[graph[n].kernel].written}} \ {None}

Overlap(o, r) == o = r \/ Parent[o] = r \/ Parent[r] = o \/ Pyramid[o] = r \/ Pyramid[r] = o

Before(m, n) == m # n /\ \E o \in Writes(m), r \in Reads(n) : Overlap(o, r)

Schedulable == \E rank \in [Nodes -> Nodes] : \A m, n \in Nodes : Before(m, n) => rank[m] < rank[n]

Connected == stage \in {"kahn", "virtual", "pyramids", "verified"}
Ordered   == stage \in {"virtual", "pyramids", "verified"}
Place(n)  == CHOOSE i \in DOMAIN order : order[i] = n

(* What the code's one producer for each object can keep apart.  Images,      *)
(* their regions, and the levels of a pyramid are a family.  It is written as *)
(* one object only, once by each node, and never through a level; a node that *)
(* reads a part of it reads nothing else of it; and a region that is read is  *)
(* what is written.                                                           *)
At(g, s)     == g[s[1]].params[s[2]]
Slots(g)     == {s \in UNION {{n} \X DOMAIN g[n].params : n \in DOMAIN g} : At(g, s) # None}
Result(g, s) == s[2] - 1 \in Dispatch[g[s[1]].kernel].written
Family(o)    == IF Parent[o] # None THEN Parent[o] ELSE IF Pyramid[o] # None THEN Pyramid[o] ELSE o

Plain(g) ==
    /\ \A s \in Slots(g) : Result(g, s) => Pyramid[At(g, s)] = None
    /\ \A s, t \in Slots(g) : s # t /\ Family(At(g, s)) = Family(At(g, t)) =>
          /\ Result(g, s) /\ Result(g, t) => At(g, s) = At(g, t) /\ s[1] # t[1]
          /\ ~Result(g, s) /\ ~Result(g, t) /\ s[1] = t[1] => At(g, s) = Family(At(g, s))
          /\ Result(g, s) /\ ~Result(g, t) /\ Parent[At(g, t)] # None => At(g, s) = At(g, t)

(* Verification takes for outputs what the dispatcher has the kernels write.  *)
Classified(g) == \A s \in Slots(g) : IsOutput(<<>>, g[s[1]].kernel, s[2] - 1) <=> Result(g, s)

(* A node that was made by its creator and verified finds its arm of the      *)
(* dispatcher satisfied: every parameter the arm insists on is set, and what  *)
(* the arm writes is what the creator was given for results.  The creators,   *)
(* the dispatcher and the registered numbers agree on each of the kernels;    *)
(* kernel_output_indices, which disagrees with them on three, is what         *)
(* Classified compares.                                                       *)
DispatchFindsParameters ==
    stage = "verified" => \A n \in Nodes :
        LET k == graph[n].kernel
        IN  /\ k \in DOMAIN Dispatch
            /\ \A i \in Dispatch[k].required : i + 1 \in DOMAIN Params(n) /\ Params(n)[i + 1] # None
            /\ Dispatch[k].written = Results(k)
            /\ Len(Params(n)) <= register_standard_kernels[k]

(* Exactly the graphs that can be scheduled get past the structural checks:   *)
(* the search for cycles neither misses one that goes through a region or a   *)
(* pyramid level nor takes a graph without one for cyclic.                    *)
VerifyDecides ==
    /\ Connected => Schedulable
    /\ stage = "INVALID_GRAPH" /\ order = <<>> =>
          ~Schedulable \/ \E m, n \in Nodes : m # n /\ Writes(m) \cap Writes(n) # {}

OrderRespectsData ==
    /\ Range(order) = Nodes /\ Len(order) = Len(graph)
    /\ \A m, n \in Nodes : Before(m, n) => Place(m) < Place(n)

WavesRespectData ==
    \A m, n \in Nodes : Before(m, n) => wave[m] < wave[n] /\ m \in node_predecessors(n)

(* Kahn's algorithm over a stack keeps every node, once, and puts it after    *)
(* each node that writes data it reads, through a region or a level too.  No  *)
(* node shares a wave with, or is in an earlier wave than, such a node: the   *)
(* nodes of a wave run in parallel.  Its recorded predecessors, by which      *)
(* nodes are held back in a warm-up, are those nodes.                         *)
ScheduleRespectsData == Ordered => OrderRespectsData /\ WavesRespectData

CreatedInOrder ==
    /\ \A m, n \in Nodes : Before(m, n) => m < n
    /\ \A o \in Virtual \cap UNION {Reads(n) : n \in Nodes} : \E n \in Nodes : o \in Writes(n)
    /\ \A o \in UNION {Reads(n) : n \in Nodes} : Pyramid[o] # None => Given[Pyramid[o]].sized

(* When nodes are created in the order of the data, a virtual image gets a    *)
(* size from the node that writes it and the format that node's kernel        *)
(* produces, unless the application chose the format; a virtual pyramid gets  *)
(* the size and the format of the image it is made from.  Images are resolved *)
(* before pyramids, so nothing is promised to the readers of their levels.    *)
VirtualsFollowWriters ==
    stage = "verified" /\ CreatedInOrder =>
        /\ \A n \in Nodes : \A o \in Writes(n) \cap Virtual :
            /\ image[o].sized
            /\ image[o].format =
                 IF Given[o].format # "VIRT" THEN Given[o].format
                 ELSE infer_output_format(graph[n].kernel,
                                          LET others == Neighbours(o, n)
                                          IN  [j \in DOMAIN others |-> image[others[j]].format])
        /\ \A n \in Nodes : \A o \in Writes(n) \cap Pyramids :
            /\ image[o].sized
            /\ Given[o].format = "VIRT" => image[o].format = image[Params(n)[1]].format
=============================================================================
