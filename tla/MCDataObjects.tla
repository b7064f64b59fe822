---------------------------- MODULE MCDataObjects ----------------------------
(* Worlds for DataObjects: one container of each kind, and the operands of    *)
(* the tensor and scalar kernels, with values around the ends of their types. *)
EXTENDS DataObjects

Containers ==
    {vxCreateLUT("SMALL", 2), vxCreateLUT("INT16", 2), vxCreateDistribution(2, 1, 4), vxCreateMatrix("SMALL", 1, 2),
     vxCreateConvolution(3, 1), vxCreateArray("SMALL", 3), vxCreateVirtualArray("SMALL", 2),
     vxCreateUserDataObject("SMALL", 3), vxCreateVirtualUserDataObject("SMALL", 2),
     vxCreateRemap(2, 2, 2, 2), vxCreateThreshold("SMALL", "INT8"), vxCreateTensor("SMALL", <<2, 2>>),
     vxCreateTensor("SMALL", <<1, 2, 1>>)}

Tensors(type, shapes) == [i \in DOMAIN shapes |-> vxCreateTensor(type, shapes[i])]
Scalars(a, b, c)      == <<vxCreateScalar(a), vxCreateScalar(b), vxCreateScalar(c)>>

MCWorlds ==
    {<<c>> : c \in Containers}
    \cup {Tensors(t, <<<<2, 1>>, <<1, 2>>, <<2, 2>>>>) : t \in {"UINT8", "INT8", "INT16"}}
    \cup {Tensors(t, <<<<2, 2>>, <<1, 2>>, <<1, 2>>>>) : t \in {"UINT8", "INT8", "INT16"}}
    \cup {Tensors(t, <<<<2, 3>>, <<3, 2>>>>) : t \in {"UINT8"}}
    \cup {<<vxCreateTensor(t, <<2>>), vxCreateTensor(u, <<2>>)>> : t \in {"UINT8", "INT8", "INT16"}, u \in {"UINT8", "INT8", "INT16"}}
    \cup {<<vxCreateLUT(t, 3), vxCreateTensor(t, <<2>>), vxCreateTensor(t, <<2>>)>> : t \in {"UINT8", "INT8", "INT16"}}
    \cup {Scalars(a, b, c) : a \in {"INT8", "INT16"}, b \in {"INT16", "UINT8"}, c \in {"INT8", "INT16", "UINT8", "BOOL", "FLOAT32"}}
    \cup {Scalars("BOOL", "INT16", "INT16")}

MCValues ==
    [t \in {"SMALL", "INT32", "POINT"} |-> {1, 2}]
    @@ [UINT8 |-> {0, 1, 200}, INT8 |-> {-128, -1, 1}, INT16 |-> {-300, 1, 20000}, BOOL |-> {0, 1},
        FLOAT32 |-> {-3, 100}]

MCScales == {[num |-> 1, den |-> 1], [num |-> 1, den |-> 2]}
MCNorms  == {[num |-> 1, den |-> 1], [num |-> 2, den |-> 1], [num |-> 1, den |-> 2]}
MCDepths == {0, -3}
=============================================================================
