------------------------------ MODULE DataObjects ------------------------------
(* The data objects other than images: scalars, look-up tables,               *)
(* distributions, matrices, convolutions, thresholds, arrays, remaps, user    *)
(* data objects, tensors and arrays of objects; how an application fills and  *)
(* maps them (c_api_data.rs, openvx-buffer, unified_c_api.rs), and the tensor *)
(* and scalar kernels at work on them.  An element is one value, whatever its *)
(* width; an object's counts and sizes are its dims.                          *)
EXTENDS TensorKernels, TLC

CONSTANTS
    Worlds,      \* The objects an application may have made, one after the other
    Values,      \* The values written to an object of each type
    Operations,  \* Scalar operations
    Policies, Roundings, Scales, Norms, Depths,  \* Parameters of tensor kernels
    Held         \* Bound: mappings made of one object

VARIABLES
    objects,  \* what the library keeps of each object, in order of creation
    next_id,  \* ARRAY_ID_COUNTER, UDO_MAP_ID_COUNTER and NEXT_REMAP_MAP_ID
    held,     \* the application's mappings, with what it sees in them
    written,  \* the contents the application and the kernels gave each of them
    answer    \* the kernel that ran last and its parameters, or None

vars == <<objects, next_id, held, written, answer>>

Access == {"read", "write", "both"}
-----------------------------------------------------------------------------
(* Creation.                                                                  *)

Filled(data, v) == [k \in DOMAIN data |-> v]
Blank(kind, type, dims, n) ==
    [kind |-> kind, type |-> type, dims |-> dims, data |-> [k \in 1..n |-> 0],
     offset |-> 0, items |-> 0, virtual |-> FALSE, maps |-> <<>>]

vxCreateScalar(type)               == Blank("scalar", type, <<>>, 1)
vxCreateMatrix(type, columns, rows) == Blank("matrix", type, <<columns, rows>>, columns * rows)
vxCreateConvolution(columns, rows) == Blank("convolution", "INT16", <<columns, rows>>, columns * rows)
vxCreateArray(type, capacity)      == Blank("array", type, <<capacity>>, capacity)
vxCreateVirtualArray(type, capacity) == [vxCreateArray(type, capacity) EXCEPT !.virtual = TRUE]
vxCreateUserDataObject(name, size) == Blank("userdata", name, <<size>>, size)
vxCreateVirtualUserDataObject(name, size) == [vxCreateUserDataObject(name, size) EXCEPT !.virtual = TRUE]
vxCreateDistribution(bins, offset, range) == Blank("distribution", "INT32", <<bins, offset, range>>, bins)
vxCreateRemap(sw, sh, dw, dh)      == Blank("remap", "POINT", <<sw, sh, dw, dh>>, dw * dh)
vxCreateLUT(type, count) ==
    [Blank("lut", type, <<count>>, count) EXCEPT !.offset = IF type = "INT16" THEN count \div 2 ELSE 0]

(* value, lower, upper, true_value and false_value.                           *)
vxCreateThreshold(type, data_type) ==
    [Blank("threshold", type, <<data_type>>, 5) EXCEPT !.data = <<127, 0, 255, 255, 0>>]

(* Three dimensions of which the first is 1 hold three channels.              *)
vxCreateTensor(type, dims) ==
    Blank("tensor", type, dims, Product(dims) * (IF Len(dims) = 3 /\ dims[1] = 1 THEN 3 ELSE 1))

create_object_like_exemplar(e) ==
    CASE e.kind = "scalar"       -> vxCreateScalar(e.type)
      [] e.kind = "array"        -> vxCreateArray(e.type, e.dims[1])
      [] e.kind = "matrix"       -> vxCreateMatrix(e.type, e.dims[1], e.dims[2])
      [] e.kind = "distribution" -> vxCreateDistribution(e.dims[1], e.dims[2], e.dims[3])
      [] e.kind = "remap"        -> vxCreateRemap(e.dims[1], e.dims[2], e.dims[3], e.dims[4])
      [] e.kind = "lut"          -> vxCreateLUT(e.type, e.dims[1])
      [] e.kind = "threshold"    -> vxCreateThreshold(e.type, "INT8")
      [] e.kind = "userdata"     -> vxCreateUserDataObject(e.type, e.dims[1])
      [] e.kind = "tensor"       -> vxCreateTensor(e.type, e.dims)
      [] OTHER                   -> None

create_virtual_object_like_exemplar(e) ==
    IF e.kind = "array" THEN vxCreateVirtualArray(e.type, e.dims[1]) ELSE create_object_like_exemplar(e)

Init ==
    /\ objects \in Worlds
    /\ next_id = [kind \in {"array", "userdata", "remap"} |-> 1]
    /\ held = {}
    /\ written = [o \in DOMAIN objects |-> objects[o].data]
    /\ answer = None
-----------------------------------------------------------------------------
(* What the specification asks of an application: it does not touch what it   *)
(* has mapped for writing in any other way, and writes to nothing it has      *)
(* mapped.  Tables and distributions are unmapped last first.                 *)

MapsOf(o) == {m \in held : m.object = o}
Overlaps(m, cells) == DOMAIN m.seen \cap cells # {}
Readable(o, cells) == \A m \in MapsOf(o) : m.usage = "read" \/ ~Overlaps(m, cells)
Writable(o, cells) == \A m \in MapsOf(o) : ~Overlaps(m, cells)
Cells(o) == DOMAIN objects[o].data

Overlay(data, part) == [k \in DOMAIN data |-> IF k \in DOMAIN part THEN part[k] ELSE data[k]]

Put(o, part) ==
    /\ Writable(o, DOMAIN part)
    /\ objects' = [objects EXCEPT ![o].data = Overlay(@, part)]
    /\ written' = [written EXCEPT ![o] = Overlay(@, part)]
    /\ UNCHANGED <<next_id, held, answer>>

Contents(o, cells) == [cells -> Values[objects[o].type]]
-----------------------------------------------------------------------------
(* Copies from user memory.                                                   *)

(* These copy the whole object; vxCopyRemap and vxCopyTensor return success   *)
(* and copy nothing.                                                          *)
CopyWhole(o, kind) == objects[o].kind = kind /\ \E part \in Contents(o, Cells(o)) : Put(o, part)

vxCopyScalar(o)                  == CopyWhole(o, "scalar")
vxCopyLUT(o)                     == CopyWhole(o, "lut")
vxCopyDistribution(o)            == CopyWhole(o, "distribution")
vxCopyMatrix(o)                  == CopyWhole(o, "matrix")
vxCopyConvolutionCoefficients(o) == CopyWhole(o, "convolution")

(* The view and the strides of the caller are ignored.                        *)
vxCopyTensorPatch(o) ==
    /\ objects[o].kind = "tensor"
    /\ \E part \in Contents(o, 1..Product(objects[o].dims)) : Put(o, part)

CopyThreshold(o, cells) == objects[o].kind = "threshold" /\ \E part \in Contents(o, cells) : Put(o, part)

vxCopyThresholdValue(o)       == CopyThreshold(o, {1})
vxCopyThreshold(o)            == CopyThreshold(o, {1})
vxCopyThresholdRange(o)       == CopyThreshold(o, {2, 3})
vxCopyThresholdOutput(o)      == CopyThreshold(o, {4, 5})
vxSetThresholdAttribute(o, k) == CopyThreshold(o, {k})

(* A size of zero is the rest of the object; the range is checked.            *)
Extent(o, offset, size) ==
    LET length == Len(objects[o].data)
        n == IF size = 0 THEN (IF offset > length THEN 0 ELSE length - offset) ELSE size
    IN  IF offset + n > length THEN {} ELSE (offset + 1)..(offset + n)

vxCopyUserDataObject(o, offset, size) ==
    /\ objects[o].kind = "userdata" /\ ~objects[o].virtual
    /\ Extent(o, offset, size) # {}
    /\ \E v \in Values[objects[o].type] : Put(o, [k \in Extent(o, offset, size) |-> v])

vxCopyArrayRange(o, start, end) ==
    /\ objects[o].kind = "array"
    /\ start < end /\ end <= objects[o].items
    /\ Writable(o, (start + 1)..end)
    /\ next_id["array"] <= Held                  \* a mapping comes and goes
    /\ next_id' = [next_id EXCEPT !["array"] = @ + 1]
    /\ \E v \in Values[objects[o].type] :
           LET part == [k \in (start + 1)..end |-> v] IN
           /\ objects' = [objects EXCEPT ![o].data = Overlay(@, part)]
           /\ written' = [written EXCEPT ![o] = Overlay(@, part)]
    /\ UNCHANGED <<held, answer>>

vxAddArrayItems(o, count) ==
    /\ objects[o].kind = "array"
    /\ count > 0 /\ objects[o].items + count <= objects[o].dims[1]
    /\ LET cells == (objects[o].items + 1)..(objects[o].items + count) IN
       /\ Writable(o, cells)
       /\ \E v \in Values[objects[o].type] :
              LET part == [k \in cells |-> v] IN
              /\ objects' = [objects EXCEPT ![o].data = Overlay(@, part), ![o].items = @ + count]
              /\ written' = [written EXCEPT ![o] = Overlay(@, part)]
    /\ UNCHANGED <<next_id, held, answer>>

vxTruncateArray(o, new_num_items) ==
    /\ objects[o].kind = "array" /\ new_num_items < objects[o].items
    /\ objects' = [objects EXCEPT ![o].items = new_num_items]
    /\ UNCHANGED <<next_id, held, written, answer>>
-----------------------------------------------------------------------------
(* Mappings.  The library's record has the id, the cells, the usage and, when *)
(* the mapping is a copy, the buffer; the application keeps a pointer, which  *)
(* is told from the others by its tag.                                        *)

Staged(kind) == kind \in {"lut", "distribution", "array", "remap"}
Tags(o) == {m.tag : m \in MapsOf(o)} \cup {objects[o].maps[i].tag : i \in DOMAIN objects[o].maps}
FreshTag(o) == CHOOSE t \in 1..(Held + 1) : t \notin Tags(o) /\ \A u \in 1..(t - 1) : u \in Tags(o)

Part(o, cells) == [k \in cells |-> objects[o].data[k]]

Map(o, cells, usage, id) ==
    LET tag == FreshTag(o)
        record == [id |-> id, tag |-> tag, usage |-> usage, buffer |-> Part(o, cells)]
        kept == IF Staged(objects[o].kind) THEN record ELSE [record EXCEPT !.buffer = [k \in cells |-> None]]
    IN  /\ cells # {} /\ Cardinality(MapsOf(o)) < Held
        /\ IF usage = "read" THEN Readable(o, cells) ELSE Writable(o, cells)
        /\ objects' = IF objects[o].kind = "tensor" THEN objects ELSE [objects EXCEPT ![o].maps = Append(@, kept)]
        /\ held' = held \cup {[object |-> o, id |-> id, tag |-> tag, usage |-> usage, seen |-> Part(o, cells)]}
        /\ UNCHANGED <<written, answer>>

(* The next id of a table is the number of its mappings plus one.             *)
vxMapLUT(o, usage) ==
    /\ objects[o].kind \in {"lut", "distribution"}
    /\ Map(o, Cells(o), usage, Len(objects[o].maps) + 1)
    /\ UNCHANGED next_id

FromCounter(o, cells, usage) ==
    LET kind == objects[o].kind IN
    /\ next_id[kind] <= Held
    /\ Map(o, cells, usage, next_id[kind])
    /\ next_id' = [next_id EXCEPT ![kind] = @ + 1]

vxMapArrayRange(o, start, end, usage) ==
    /\ objects[o].kind = "array" /\ start < end /\ end <= objects[o].items
    /\ FromCounter(o, (start + 1)..end, usage)

vxMapUserDataObject(o, offset, size, usage) ==
    /\ objects[o].kind = "userdata" /\ ~objects[o].virtual
    /\ FromCounter(o, Extent(o, offset, size), usage)

(* Nothing the application writes to a remap is kept: it maps for reading.    *)
vxMapRemapPatch(o, x, y, w, h) ==
    /\ objects[o].kind = "remap"
    /\ x + w <= objects[o].dims[3] /\ y + h <= objects[o].dims[4]
    /\ FromCounter(o, {1 + i + objects[o].dims[3] * j : i \in x..(x + w - 1), j \in y..(y + h - 1)}, "read")

(* In place, with the id 1 and no record.                                     *)
vxMapTensorPatch(o, start, usage) ==
    /\ objects[o].kind = "tensor" /\ start \in Coordinates(objects[o].dims)
    /\ Map(o, {1 + Flat(c, objects[o].dims) : c \in {c \in Coordinates(objects[o].dims) :
                                                      \A i \in DOMAIN c : c[i] >= start[i]}}, usage, 1)
    /\ UNCHANGED next_id

(* The application writes one element of a mapping.                           *)
WriteThroughMap(m, k, v) ==
    LET o == m.object
        maps == objects[o].maps
    IN  /\ m.usage # "read" /\ k \in DOMAIN m.seen /\ v \in Values[objects[o].type] \ {m.seen[k]}
        /\ held' = (held \ {m}) \cup {[m EXCEPT !.seen[k] = v]}
        /\ objects' = IF Staged(objects[o].kind)
                      THEN [objects EXCEPT ![o].maps =
                               [i \in DOMAIN maps |-> IF maps[i].tag = m.tag THEN [maps[i] EXCEPT !.buffer[k] = v]
                                                      ELSE maps[i]]]
                      ELSE [objects EXCEPT ![o].data[k] = v]
        /\ UNCHANGED <<next_id, written, answer>>

\* Fault: what was written at the end of a range goes to its beginning.
BackAtStart(data, r) ==
    Overlay(data, [k \in 1..Cardinality(DOMAIN r.buffer) |-> r.buffer[k + Min(DOMAIN r.buffer) - 1]])
WriteBack(data, r) == Overlay(data, r.buffer)

(* The end of a mapping takes the first record with the id, if there is one.  *)
Unmap(m) ==
    LET o == m.object
        maps == objects[o].maps
        found == {i \in DOMAIN maps : maps[i].id = m.id}
        i == Min(found)
        back == objects[o].kind \in {"lut", "distribution", "array"} /\ maps[i].usage # "read"
    IN  /\ objects' = IF found = {} THEN objects
                      ELSE [objects EXCEPT ![o].data = IF back THEN WriteBack(@, maps[i]) ELSE @,
                                           ![o].maps = RemoveAt(@, i)]
        /\ held' = held \ {m}
        /\ written' = IF m.usage = "read" THEN written ELSE [written EXCEPT ![o] = Overlay(@, m.seen)]
        /\ UNCHANGED <<next_id, answer>>

KindOf(m) == objects[m.object].kind
Newest(m) == \A n \in MapsOf(m.object) : n.id <= m.id

vxUnmapLUT(m)            == KindOf(m) = "lut" /\ Newest(m) /\ Unmap(m)
vxUnmapDistribution(m)   == KindOf(m) = "distribution" /\ Newest(m) /\ Unmap(m)
vxUnmapArrayRange(m)     == KindOf(m) = "array" /\ Unmap(m)
vxUnmapUserDataObject(m) == KindOf(m) = "userdata" /\ Unmap(m)
vxUnmapRemapPatch(m)     == KindOf(m) = "remap" /\ Unmap(m)
vxUnmapTensorPatch(m)    == KindOf(m) = "tensor" /\ Unmap(m)

(* The items of an object array are objects of their own, made like the       *)
(* exemplar.                                                                  *)
ArrayLike(o, like, count) ==
    /\ like # None
    /\ objects' = objects \o [i \in 1..count |-> like]
    /\ written' = written \o [i \in 1..count |-> like.data]
    /\ answer' = [kernel |-> "like", exemplar |-> o, items |-> (Len(objects) + 1)..(Len(objects) + count)]
    /\ UNCHANGED <<next_id, held>>
vxCreateObjectArray(o, count)        == ArrayLike(o, create_object_like_exemplar(objects[o]), count)
vxCreateVirtualObjectArray(o, count) == ArrayLike(o, create_virtual_object_like_exemplar(objects[o]), count)
-----------------------------------------------------------------------------
(* Kernels.  An error status changes nothing.  An index outside a tensor, and *)
(* the smallest number divided by -1, abort the process.                      *)

Tensor(o) == objects[o].kind = "tensor"
Scalar(o) == objects[o].kind = "scalar"
Value(o)  == objects[o].data[1]

Repeats(in, out) == \A i \in DOMAIN in.dims : in.dims[i] \in {1, out.dims[i]}

(* r has the kernel's name, its objects, the output last, and its parameters. *)
Run(r, result) ==
    LET out == Last(r.args)
        part == [k \in DOMAIN result |-> result[k]]
    IN  /\ result # None
        /\ \A i \in DOMAIN r.args : r.args[i] # None => Readable(r.args[i], Cells(r.args[i]))
        /\ Writable(out, Cells(out))
        /\ objects' = [objects EXCEPT ![out].data = Overlay(@, part)]
        /\ written' = [written EXCEPT ![out] = Overlay(@, part)]
        /\ answer' = r
        /\ UNCHANGED <<next_id, held>>

TensorArithmetic(a, b, out) ==
    /\ Tensor(a) /\ Tensor(b) /\ Tensor(out)
    /\ Repeats(objects[a], objects[out]) /\ Repeats(objects[b], objects[out])
    /\ \E policy \in Policies :
          \/ Run([kernel |-> "add", args |-> <<a, b, out>>, policy |-> policy],
                 vxu_tensor_add_impl(objects[a], objects[b], policy, objects[out]))
          \/ Run([kernel |-> "subtract", args |-> <<a, b, out>>, policy |-> policy],
                 vxu_tensor_subtract_impl(objects[a], objects[b], policy, objects[out]))
          \/ \E scale \in Scales, rounding \in Roundings :
                Run([kernel |-> "multiply", args |-> <<a, b, out>>, policy |-> policy,
                     scale |-> scale, rounding |-> rounding],
                    vxu_tensor_multiply_impl(objects[a], objects[b], scale, policy, rounding, objects[out]))

ConvertDepth(a, out) ==
    /\ Tensor(a) /\ Tensor(out)
    /\ \E policy \in Policies, norm \in Norms, depth \in Depths :
          Run([kernel |-> "depth", args |-> <<a, out>>, policy |-> policy, norm |-> norm, depth |-> depth],
              vxu_tensor_convert_depth_impl(objects[a], policy, norm, depth, objects[out]))

TableLookup(a, lut, out) ==
    /\ Tensor(a) /\ objects[lut].kind = "lut" /\ Tensor(out)
    /\ Run([kernel |-> "lookup", args |-> <<a, lut, out>>],
           vxu_tensor_table_lookup_impl(objects[a], objects[lut], objects[out]))

Transpose(a, out) ==
    /\ Tensor(a) /\ Tensor(out)
    /\ \E i \in DOMAIN objects[a].dims, j \in DOMAIN objects[a].dims :
          Run([kernel |-> "transpose", args |-> <<a, out>>, i |-> i, j |-> j],
              vxu_tensor_transpose_impl(objects[a], objects[out], i, j))

MatrixMultiply(a, b, c, out) ==
    /\ Tensor(a) /\ Tensor(b) /\ Tensor(out) /\ (c # None => Tensor(c))
    /\ \E ta \in BOOLEAN, tb \in BOOLEAN, tc \in BOOLEAN :
          Run([kernel |-> "product", args |-> <<a, b, c, out>>, ta |-> ta, tb |-> tb, tc |-> tc],
              vxu_tensor_matrix_multiply_impl(objects[a], objects[b], IF c = None THEN None ELSE objects[c],
                                              ta, tb, tc, objects[out]))

ScalarOperation(a, b, out) ==
    /\ Scalar(a) /\ Scalar(b) /\ Scalar(out)
    /\ \E operation \in Operations :
          LET t == objects[out].type
              result == vxu_scalar_operation_impl(operation, Value(a), Value(b), t)
          IN  /\ ~Panics(operation, Value(a), Value(b), t)
              /\ Run([kernel |-> "scalar", args |-> <<a, b, out>>, operation |-> operation],
                      IF result = None THEN None ELSE <<result>>)

(* Objects other than scalars are not copied.                                 *)
Select(condition, yes, no, out) ==
    /\ \A o \in {condition, yes, no, out} : Scalar(o)
    /\ Run([kernel |-> "select", args |-> <<condition, yes, no, out>>],
           vxu_select_impl(Value(condition), objects[yes], objects[no], objects[out].type))
-----------------------------------------------------------------------------
Sizes(o) == 0..Len(objects[o].data)

Fill(o) ==
    \/ vxCopyScalar(o) \/ vxCopyLUT(o) \/ vxCopyDistribution(o) \/ vxCopyMatrix(o)
    \/ vxCopyConvolutionCoefficients(o) \/ vxCopyTensorPatch(o)
    \/ vxCopyThresholdValue(o) \/ vxCopyThreshold(o) \/ vxCopyThresholdRange(o) \/ vxCopyThresholdOutput(o)
    \/ \E k \in 1..5 : vxSetThresholdAttribute(o, k)
    \/ \E a \in Sizes(o), b \in Sizes(o) : vxCopyUserDataObject(o, a, b) \/ vxCopyArrayRange(o, a, b)
    \/ \E n \in Sizes(o) : vxAddArrayItems(o, n) \/ vxTruncateArray(o, n)

MapSome(o) ==
    \/ \E usage \in Access :
          \/ vxMapLUT(o, usage)
          \/ \E a \in Sizes(o), b \in Sizes(o) :
                vxMapArrayRange(o, a, b, usage) \/ vxMapUserDataObject(o, a, b, usage)
          \/ Tensor(o) /\ \E start \in Coordinates(objects[o].dims) : vxMapTensorPatch(o, start, usage)
    \/ \E x \in 0..1, y \in 0..1, w \in 1..2, h \in 1..2 : vxMapRemapPatch(o, x, y, w, h)

End(m) ==
    \/ vxUnmapLUT(m) \/ vxUnmapDistribution(m) \/ vxUnmapArrayRange(m)
    \/ vxUnmapUserDataObject(m) \/ vxUnmapRemapPatch(m) \/ vxUnmapTensorPatch(m)

Kernel(out) ==
    \E a \in DOMAIN objects, b \in DOMAIN objects :
        \/ TensorArithmetic(a, b, out) \/ TableLookup(a, b, out) \/ ScalarOperation(a, b, out)
        \/ ConvertDepth(a, out) \/ Transpose(a, out)
        \/ \E c \in DOMAIN objects \cup {None} : MatrixMultiply(a, b, c, out)
        \/ \E c \in DOMAIN objects : Select(a, b, c, out)

(* Bounds: a behaviour ends with a kernel or an array of objects; of several  *)
(* objects the last one is written by kernels only, and a world of one is     *)
(* where mappings and arrays of objects are made.                             *)
Alone == Len(objects) = 1

Next ==
    /\ answer = None
    /\ \/ \E o \in DOMAIN objects : (o < Len(objects) \/ Alone) /\ Fill(o)
       \/ \E o \in DOMAIN objects : Kernel(o)
       \/ Alone /\ MapSome(1)
       \/ \E m \in held : End(m)
       \/ \E m \in held : \E k \in DOMAIN m.seen, v \in Values[objects[m.object].type] : WriteThroughMap(m, k, v)
       \/ Alone /\ \E n \in 1..2 : vxCreateObjectArray(1, n) \/ vxCreateVirtualObjectArray(1, n)

Spec == Init /\ [][Next]_vars
-----------------------------------------------------------------------------
Settled(o) == {k \in Cells(o) : \A m \in MapsOf(o) : m.usage = "read" \/ k \notin DOMAIN m.seen}
Shown(m)   == LET maps == objects[m.object].maps
              IN  IF Staged(objects[m.object].kind)
                  THEN \E i \in DOMAIN maps : maps[i].tag = m.tag /\ maps[i].id = m.id /\ maps[i].buffer = m.seen
                  ELSE \A k \in DOMAIN m.seen : objects[m.object].data[k] = m.seen[k]
Likeness(o) == [o EXCEPT !.data = Filled(o.data, 0), !.items = 0, !.maps = <<>>, !.virtual = FALSE]

(* Everything an application wrote is in its object once it has unmapped the  *)
(* part it wrote to, and nothing else is; a mapping shows what the            *)
(* application put there; and the items of an object array have the type and  *)
(* the sizes of their exemplar.                                               *)
ContentsAsWritten ==
    /\ \A o \in DOMAIN objects : \A k \in Settled(o) : objects[o].data[k] = written[o][k]
    /\ \A m \in held : Shown(m)
    /\ answer # None /\ answer.kernel = "like" =>
          \A i \in answer.items : Likeness(objects[i]) = Likeness(objects[answer.exemplar])

(* A kernel that succeeds leaves in its output what its parameters and the    *)
(* inputs, as they were, call for, and changes nothing else.                  *)
Exact(r, before, after) ==
    LET in(i) == before[r.args[i]]
        out == after[Last(r.args)]
    IN  CASE r.kernel = "add" -> Sums(out, in(1), in(2), 1, out, r.policy)
          [] r.kernel = "subtract" -> Sums(out, in(1), in(2), -1, out, r.policy)
          [] r.kernel = "multiply" -> Scaled(out, in(1), in(2), r.scale, out, r.rounding, r.policy)
          [] r.kernel = "depth" -> Deepened(out, in(1), r.norm, r.depth, out, r.policy)
          [] r.kernel = "lookup" -> LookedUp(out, in(1), in(2))
          [] r.kernel = "transpose" -> Transposed(out, in(1), r.i, r.j)
          [] r.kernel = "product" -> MatrixProduct(out, in(1), in(2), IF r.args[3] = None THEN None ELSE in(3),
                                                   r.ta, r.tb, r.tc, out)
          [] r.kernel = "select" -> out.data = (IF in(1).data[1] = 0 THEN in(3) ELSE in(2)).data
          [] OTHER -> Operated(out.data[1], r.operation, in(1).data[1], in(2).data[1], out.type)

KernelsAreExact ==
    [][answer' # None /\ answer'.kernel # "like" =>
         /\ Exact(answer', objects, objects')
         /\ \A o \in DOMAIN objects : objects'[o] # objects[o] => o = Last(answer'.args)]_vars
=============================================================================
