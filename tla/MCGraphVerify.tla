---------------------------- MODULE MCGraphVerify ----------------------------
(* Graphs of Length nodes made by the node creators from a few objects: the   *)
(* images src, a and p, the region r of p, the pyramid py with the level l,   *)
(* the virtual images v and u, and a setting; and a graph of one node for     *)
(* every kernel a creator makes.                                              *)
EXTENDS GraphVerify

CONSTANTS Length, src, a, p, r, py, l, v, u, setting,
          Kernels   \* the kernels of one input and one output the graphs use

MCObjects == {src, a, p, r, py, l, v, u, setting}
MCParent  == [o \in MCObjects |-> IF o = r THEN p ELSE None]
MCPyramid == [o \in MCObjects |-> IF o = l THEN py ELSE None]
MCVirtual == {v, u}
MCGiven   == [o \in MCObjects \ {setting} |->
                 [sized  |-> o \notin {v, py},
                  format |-> IF o \in {v, u, py} THEN "VIRT" ELSE IF o = a THEN "S16" ELSE "U8"]]

Made(k, ins, outs) ==
    {create_node_with_params(k, i, <<o>>, setting) : i \in ins, o \in outs}

MadeNodes ==
    UNION {Made(k, {<<src>>, <<a>>, <<p>>, <<r>>, <<l>>, <<v>>, <<u>>}, {a, p, r, v, u}) : k \in Kernels}
    \cup Made("gaussian_pyramid", {<<src>>, <<a>>}, {py})
    \cup Made("add", {<<a, v>>, <<u, u>>}, {v, p})
    \cup {create_node_with_params("sobel_3x3", i, <<a, v>>, setting) : i \in {<<l>>, <<r>>}}
    \cup Made("min", {<<None, a>>}, {v})

EachKernel ==
    {<<create_node_with_params(k, [j \in 1..4 |-> src], [j \in 1..6 |-> a], setting)>> : k \in Creatable}

MCGraphs == {g \in [1..Length -> MadeNodes] : Plain(g)} \cup EachKernel
=============================================================================
