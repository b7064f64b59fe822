----------------------------- MODULE ImageMemory -----------------------------
(* Images, regions of interest and channel images as memory: what the         *)
(* application reaches by mapping and copying patches (openvx-image/c_api.rs) *)
(* and what kernels read and write (vxu_impl.rs).  A byte is a value of its   *)
(* own, <<who wrote it, where>>, so that a byte in the wrong place is seen.   *)
EXTENDS Application, ImageLayout, FiniteSets, SequencesExt

CONSTANTS Origins,     \* how images are created: "memory", "handle", "uniform"
          Shapes,      \* width, height and format of created images
          Padding,     \* bytes after each row of an application's buffer
          Rects,       \* rectangles of patches and regions
          Accesses,    \* bound on the accesses
          Images,      \* bound on the images
          Roots        \* bound on those that are part of no other

ASSUME ImageAssumption ==
    /\ \A s \in Shapes : s.w \in Nat \ {0} /\ s.h \in Nat \ {0}
    /\ \A r \in Rects : r.x \in Nat /\ r.y \in Nat /\ r.w \in Nat \ {0} /\ r.h \in Nat \ {0}
    /\ Padding \in Nat /\ Accesses \in Nat /\ Images \in Nat /\ Roots \in Nat

VARIABLES memory,   \* the buffers, of images and of the application
          images,   \* VxCImage, in the order of creation
          open,     \* the maps the application holds, newest last
          accesses, \* accesses so far
          last      \* what the last step did

imageVars == <<memory, images, open, accesses, last>>
-----------------------------------------------------------------------------
(* A patch is a rectangle of bytes in a buffer; rows that are not wholly in   *)
(* the buffer are skipped.                                                    *)

Patch(buf, base, stride, wb, h) == [buf |-> buf, base |-> base, stride |-> stride, wb |-> wb, h |-> h]
Size(p)      == p.wb * p.h
Offset(p, k) == p.base + ((k - 1) \div p.wb) * p.stride + ((k - 1) % p.wb)
Inside(p, k) == p.base + ((k - 1) \div p.wb) * p.stride + p.wb <= Len(memory[p.buf])

ReadPatch(p) ==
    [k \in 1..Size(p) |-> IF Inside(p, k) THEN memory[p.buf][Offset(p, k) + 1] ELSE 0]
WritePatch(mem, p, bytes) ==
    LET Hits(j) == {k \in 1..Size(p) : Inside(p, k) /\ Offset(p, k) + 1 = j}
    IN  [mem EXCEPT ![p.buf] =
            [j \in DOMAIN @ |-> IF Hits(j) = {} THEN @[j] ELSE bytes[CHOOSE k \in Hits(j) : TRUE]]]
WritePatches(patches, bytes) ==
    FoldLeft(LAMBDA acc, p : [mem |-> WritePatch(acc.mem, p, SubSeq(bytes, acc.at + 1, acc.at + Size(p))),
                              at  |-> acc.at + Size(p)],
             [mem |-> memory, at |-> 0], patches).mem

Fresh(n)     == [k \in 1..n |-> <<accesses + 1, k>>]
NewBuffer(n) == [k \in 1..n |-> <<-Len(memory) - 1, k>>]
-----------------------------------------------------------------------------
(* Creation.  Two fields are history, for the reference: pixels says of which *)
(* image's planes, and from which point on, the planes of this image are a    *)
(* part; swaps counts how often the owner's handle had been swapped when the  *)
(* image got its pointers.                                                    *)

Planes(i)     == 0..(num_planes(images[i].format) - 1)
Extent(i, p)  == plane_dimensions(images[i].w, images[i].h, images[i].format, p)
EachPlane(f, Value(_)) == [p \in 1..num_planes(f) |-> Value(p - 1)]

Record(w, h, f) ==
    [w |-> w, h |-> h, format |-> f, data |-> None, mapped |-> <<>>, parent |-> None,
     external |-> FALSE, ptrs |-> <<>>, strides |-> <<>>, stride_x |-> <<>>, roi |-> <<>>,
     from_handle |-> FALSE, channel_offset |-> 0, parent_plane |-> None, pixels |-> <<>>,
     swaps |-> 0]

Created(image) == /\ Len(images) < Images
                  /\ images' = Append(images, image)
                  /\ last' = [op |-> "create"]
                  /\ UNCHANGED <<open, accesses>>

Root(f) == EachPlane(f, LAMBDA p : [image |-> Len(images) + 1, plane |-> p, x |-> 0, y |-> 0])

vxCreateImage(s) ==
    /\ memory' = Append(memory, NewBuffer(calculate_size(s.w, s.h, s.format)))
    /\ Created([Record(s.w, s.h, s.format) EXCEPT
                   !.data = Len(memory) + 1, !.pixels = Root(s.format)])

(* vxCreateUniformImage repeats a few bytes over each plane, two pixels of    *)
(* UYVY and YUYV at once; what is left at the end of a plane stays 0.         *)
Pattern(f, p) == CASE f = "UYVY"            -> <<2, 1, 3, 1>>
                   [] f = "YUYV"            -> <<1, 2, 1, 3>>
                   [] f = "NV12" /\ p = 1   -> <<2, 3>>
                   [] f = "NV21" /\ p = 1   -> <<3, 2>>
                   [] is_planar_format(f)   -> <<p + 1>>
                   [] OTHER                 -> [k \in 1..bytes_per_pixel(f) |-> k]

FillPlane(n, pattern) ==
    [k \in 1..n |-> IF k <= n - (n % Len(pattern))
                    THEN <<accesses + 1, pattern[((k - 1) % Len(pattern)) + 1]>> ELSE 0]

vxCreateUniformImage(s) ==
    /\ accesses < Accesses /\ Len(images) < Images
    /\ memory' = Append(memory, FlattenSeq(EachPlane(s.format, LAMBDA p :
                      FillPlane(plane_size(s.w, s.h, s.format, p), Pattern(s.format, p)))))
    /\ images' = Append(images, [Record(s.w, s.h, s.format) EXCEPT
                                    !.data = Len(memory) + 1, !.pixels = Root(s.format)])
    /\ accesses' = accesses + 1
    /\ last' = [op |-> "uniform"]
    /\ UNCHANGED open

vxCreateImageFromHandle(s) ==
    LET Row(p) == plane_row_stride(s.w, s.h, s.format, p) + Padding
    IN  /\ memory' = memory \o EachPlane(s.format, LAMBDA p :
                                  [k \in 1..(Row(p) * plane_dimensions(s.w, s.h, s.format, p)[2])
                                      |-> <<-Len(memory) - 1 - p, k>>])
        /\ Created([Record(s.w, s.h, s.format) EXCEPT
                       !.external = TRUE, !.from_handle = TRUE, !.pixels = Root(s.format),
                       !.ptrs = EachPlane(s.format, LAMBDA p : [buf |-> Len(memory) + 1 + p, at |-> 0]),
                       !.strides = EachPlane(s.format, Row),
                       !.stride_x = EachPlane(s.format, LAMBDA p : plane_stride_x(s.format, p))])

(* A region shares the buffer of the image it lies in; of external memory it  *)
(* has pointers of its own, into the planes.                                  *)
Subsampling(i, p) == IF p = 0 THEN <<1, 1>>
                     ELSE <<images[i].w \div Extent(i, p)[1], images[i].h \div Extent(i, p)[2]>>

vxCreateImageFromROI(i, r) ==
    LET parent == images[i]
        X(p) == r.x \div Subsampling(i, p)[1]
        Y(p) == r.y \div Subsampling(i, p)[2]
        Pointer(p) == IF parent.ptrs[p + 1] = None THEN None
                      ELSE [parent.ptrs[p + 1] EXCEPT
                               !.at = @ + Y(p) * parent.strides[p + 1] + X(p) * parent.stride_x[p + 1]]
        f == parent.format
    IN  /\ r.x + r.w <= parent.w /\ r.y + r.h <= parent.h
        /\ Created([Record(r.w, r.h, f) EXCEPT
              !.data = parent.data, !.parent = i, !.external = parent.external,
              !.roi = EachPlane(f, LAMBDA p : <<X(p), Y(p)>>),
              !.ptrs = IF parent.external THEN EachPlane(f, Pointer) ELSE EachPlane(f, LAMBDA p : None),
              !.strides = IF parent.external THEN parent.strides
                          ELSE EachPlane(f, LAMBDA p : plane_row_stride(parent.w, parent.h, f, p)),
              !.stride_x = IF parent.external THEN parent.stride_x
                           ELSE EachPlane(f, LAMBDA p : plane_stride_x(f, p)),
              !.pixels = EachPlane(f, LAMBDA p : [parent.pixels[p + 1] EXCEPT
                                                     !.x = @ + X(p), !.y = @ + Y(p)]),
              !.swaps = parent.swaps])
        /\ UNCHANGED memory

(* Y of any planar image; U and V where they have planes of their own.        *)
vxCreateImageFromChannel(i, p) ==
    LET parent == images[i]
        f == parent.format
        external == [Record(Extent(i, p)[1], Extent(i, p)[2], "U8") EXCEPT
                        !.parent = i, !.external = TRUE, !.ptrs = <<parent.ptrs[p + 1]>>,
                        !.strides = <<parent.strides[p + 1]>>, !.stride_x = <<1>>, !.parent_plane = p]
        internal == [Record(Extent(i, p)[1], Extent(i, p)[2], "U8") EXCEPT
                        !.parent = i, !.data = parent.data,
                        !.channel_offset = plane_offset(parent.w, parent.h, f, p)]
    IN  /\ is_planar_format(f) /\ p < num_planes(f) /\ (p > 0 => f \in {"IYUV", "YUV4"})
        /\ Created([(IF parent.external THEN external ELSE internal) EXCEPT
                       !.pixels = <<parent.pixels[p + 1]>>, !.swaps = parent.swaps])
        /\ UNCHANGED memory

vxSwapImageHandle(i, reclaim) ==
    /\ images[i].from_handle /\ accesses < Accesses
    /\ LET f == images[i].format
           Replacement(p) ==
               [k \in 1..(images[i].strides[p + 1] * Extent(i, p)[2]) |-> <<-Len(memory) - 1 - p, k>>]
       IN  /\ memory' = IF reclaim THEN memory ELSE memory \o EachPlane(f, Replacement)
           /\ images' = [images EXCEPT
                            ![i].ptrs = EachPlane(f, LAMBDA p :
                                            IF reclaim THEN None ELSE [buf |-> Len(memory) + 1 + p, at |-> 0]),
                            ![i].swaps = @ + 1]
    /\ accesses' = accesses + 1
    /\ last' = [op |-> "swap"]
    /\ UNCHANGED open
-----------------------------------------------------------------------------
(* Where a rectangle of a plane is, by each of the ways to get there.         *)

Whole(i, p) == [x |-> 0, y |-> 0, w |-> Extent(i, p)[1], h |-> Extent(i, p)[2]]

(* The reference: the plane of the image that owns the memory.                *)
Here(i, p, r) ==
    LET at   == images[i].pixels[p + 1]
        root == images[at.image]
        dx   == plane_stride_x(root.format, at.plane)
        dy   == IF root.external THEN root.strides[at.plane + 1]
                ELSE plane_row_stride(root.w, root.h, root.format, at.plane)
        from == IF root.external THEN root.ptrs[at.plane + 1]
                ELSE [buf |-> root.data, at |-> plane_offset(root.w, root.h, root.format, at.plane)]
    IN  IF from = None THEN None
        ELSE Patch(from.buf, from.at + (at.y + r.y) * dy + (at.x + r.x) * dx, dy, r.w * dx, r.h)

(* vxMapImagePatch clamps the rectangle; of external memory it follows the    *)
(* parents to the image made from a handle, whose pointers may be new.        *)
Least(a, b) == IF a < b THEN a ELSE b
Clamp(i, p, r) ==
    LET x == Least(r.x, Extent(i, p)[1])
        y == Least(r.y, Extent(i, p)[2])
    IN  [x |-> x, y |-> y, w |-> Least(r.x + r.w, Extent(i, p)[1]) - x,
                           h |-> Least(r.y + r.h, Extent(i, p)[2]) - y]

\* Fault: only the region's own offset, not those of the regions it lies in.
OwnOffset(i, p) == IF p < Len(images[i].roi) THEN images[i].roi[p + 1] ELSE <<0, 0>>

find_root_parent(i) ==
    LET up[j \in DOMAIN images] ==
            IF images[j].from_handle \/ images[j].parent = None THEN j ELSE up[images[j].parent]
    IN  up[i]

Offsets(i, p) ==
    LET sum[j \in DOMAIN images] ==
            LET own == OwnOffset(j, p)
            IN  IF images[j].from_handle \/ images[j].parent = None THEN own
                ELSE <<own[1] + sum[images[j].parent][1], own[2] + sum[images[j].parent][2]>>
    IN  sum[i]

InternalPatch(i, p, r) ==
    LET image  == images[i]
        dx     == plane_stride_x(image.format, p)
        stride == plane_row_stride(image.w, image.h, image.format, p)
    IN  Patch(image.data, plane_offset(image.w, image.h, image.format, p) + image.channel_offset
                              + r.y * stride + r.x * dx, stride, r.w * dx, r.h)

ExternalPatch(source, plane, shift, r) ==
    IF source.ptrs[plane + 1] = None THEN None
    ELSE LET dx == source.stride_x[plane + 1]
             dy == source.strides[plane + 1]
         IN  Patch(source.ptrs[plane + 1].buf,
                   source.ptrs[plane + 1].at + (shift[2] + r.y) * dy + (shift[1] + r.x) * dx,
                   dy, r.w * dx, r.h)

MapPatch(i, p, r) ==
    LET image == images[i]
        plane == IF image.parent_plane = None THEN p ELSE image.parent_plane
        root  == images[find_root_parent(i)]
    IN  IF ~image.external THEN InternalPatch(i, p, r)
        ELSE IF image.parent # None /\ root.from_handle
             THEN ExternalPatch(root, plane, Offsets(i, p), r)
             ELSE ExternalPatch(image, plane, <<0, 0>>, r)

(* vxCopyImagePatch uses the image's own pointers.                            *)
CopyPatch(i, p, r) ==
    LET narrow == [r EXCEPT !.w = Least(@, Extent(i, p)[1]), !.h = Least(@, Extent(i, p)[2])]
    IN  IF images[i].external THEN ExternalPatch(images[i], p, <<0, 0>>, narrow)
        ELSE InternalPatch(i, p, narrow)

(* Kernels: a region is cut out of its parent as if that had rows of its own  *)
(* width and one plane of known depth.                                        *)
bpp(f) == CASE f \in {"S16"} -> 2 [] f = "RGB" -> 3 [] f = "RGBA" -> 4 [] OTHER -> 1

RegionPatch(i, buf) ==
    LET image  == images[i]
        stride == images[image.parent].w * bpp(image.format)
    IN  Patch(buf, image.roi[1][2] * stride + image.roi[1][1] * bpp(image.format), stride,
              image.w * bpp(image.format), image.h)

IsRegion(i) == images[i].parent # None /\ images[i].roi # <<>>
OwnPatches(i) == [p \in 1..num_planes(images[i].format) |->
                     ExternalPatch(images[i], p - 1, <<0, 0>>, Whole(i, p - 1))]
Everything(buf) == Patch(buf, 0, Len(memory[buf]), Len(memory[buf]), 1)

(* c_image_to_rust: the bytes the kernel sees as the image.                   *)
Bytes(patches) == FlattenSeq([p \in DOMAIN patches |-> ReadPatch(patches[p])])
Gather(i) ==
    FlattenSeq([p \in DOMAIN OwnPatches(i) |->
        IF OwnPatches(i)[p] # None THEN ReadPatch(OwnPatches(i)[p])
        ELSE [k \in 1..plane_size(images[i].w, images[i].h, images[i].format, p - 1) |-> 0]])
Cut(bytes, p) == [k \in 1..Size(p) |-> IF p.base + ((k - 1) \div p.wb) * p.stride + p.wb <= Len(bytes)
                                       THEN bytes[Offset(p, k) + 1] ELSE 0]
c_image_to_rust(i) ==
    LET image == images[i]
        data  == IF image.external THEN Gather(i) ELSE memory[image.data]
    IN  IF IsRegion(i) THEN Cut(data, RegionPatch(i, None))
        ELSE SubSeq(data, 1, calculate_size(image.w, image.h, image.format))

(* copy_rust_to_c_image: the patches it writes, none of them if it refuses.   *)
copy_rust_to_c_image(i) ==
    LET image == images[i]
        above == images[image.parent]
    IN  IF IsRegion(i) THEN IF ~above.external THEN <<RegionPatch(i, image.data)>>
                            ELSE IF above.ptrs[1] = None THEN <<>>
                            ELSE LET p == RegionPatch(i, above.ptrs[1].buf)
                                 IN  <<[p EXCEPT !.base = @ + above.ptrs[1].at]>>
        ELSE IF image.external THEN SelectSeq(OwnPatches(i), LAMBDA p : p # None)
        ELSE IF Len(memory[image.data]) # calculate_size(image.w, image.h, image.format) THEN <<>>
        ELSE <<Everything(image.data)>>
-----------------------------------------------------------------------------
(* Accesses.  A map of internal memory is a copy, kept under an id that is    *)
(* the number of maps the image has; the application gets a pointer to the    *)
(* first copy kept under that id.  Of external memory it gets the memory.     *)

Access == accesses < Accesses /\ accesses' = accesses + 1

Did(op, i, parts, bytes) == last' = [op |-> op, image |-> i, parts |-> parts, bytes |-> bytes]
AllParts(i) == EachPlane(images[i].format, LAMBDA p : [plane |-> p, rect |-> Whole(i, p)])

\* Fault: maps are ended in the order they were made.
KeptOldest(mapped, id) == IF mapped = <<>> THEN 0 ELSE 1
Kept(mapped, id) == SelectInSeq(mapped, LAMBDA m : m.id = id)

vxMapImagePatch(i, p, rect, usage) ==
    LET r      == Clamp(i, p, rect)
        at     == MapPatch(i, p, r)
        id     == Len(images[i].mapped) + 1
        data   == IF images[i].external THEN <<>> ELSE ReadPatch(at)
        mapped == Append(images[i].mapped,
                         [id |-> id, data |-> data, usage |-> usage, at |-> at, copy |-> accesses])
        found  == mapped[Kept(mapped, id)]
        bytes  == IF images[i].external THEN ReadPatch(at) ELSE found.data
    IN  /\ Access
        /\ r.w > 0 /\ r.h > 0 /\ at # None
        /\ images' = [images EXCEPT ![i].mapped = mapped]
        /\ open' = Append(open, [image |-> i, id |-> id, plane |-> p, rect |-> r, usage |-> usage,
                                 at |-> at, copy |-> found.copy, bytes |-> bytes])
        /\ IF usage = "write" THEN Did("map", i, <<>>, <<>>)
           ELSE Did("read", i, <<[plane |-> p, rect |-> r]>>, bytes)
        /\ UNCHANGED memory

(* The application writes all of the patch through the pointer it got.        *)
WriteThroughMap(m) ==
    LET map   == open[m]
        i     == map.image
        bytes == Fresh(Len(map.bytes))
        copy  == SelectInSeq(images[i].mapped, LAMBDA k : k.copy = map.copy)
    IN  /\ Access
        /\ map.usage # "read" /\ copy # 0
        /\ open' = [open EXCEPT ![m].bytes = bytes]
        /\ IF images[i].external
           THEN /\ memory' = WritePatch(memory, map.at, bytes)
                /\ Did("write", i, <<[plane |-> map.plane, rect |-> map.rect]>>, bytes)
                /\ UNCHANGED images
           ELSE /\ images' = [images EXCEPT ![i].mapped[copy].data = bytes]
                /\ Did("edit", i, <<>>, <<>>)
                /\ UNCHANGED memory

vxUnmapImagePatch(m) ==
    LET map == open[m]
        i   == map.image
        pos == Kept(images[i].mapped, map.id)
        was == images[i].mapped[pos]
    IN  /\ pos # 0
        /\ images' = [images EXCEPT ![i].mapped = RemoveAt(@, pos)]
        /\ open' = RemoveAt(open, m)
        /\ IF images[i].external \/ was.usage = "read"
           THEN Did("unmap", i, <<>>, <<>>) /\ UNCHANGED memory
           ELSE /\ memory' = WritePatch(memory, was.at, was.data)
                /\ Did("write", i, <<[plane |-> map.plane, rect |-> map.rect]>>, map.bytes)
        /\ UNCHANGED accesses

vxCopyImagePatch(i, p, r, usage) ==
    LET at == CopyPatch(i, p, r)
        part == <<[plane |-> p, rect |-> r]>>
    IN  /\ Access
        /\ at # None
        /\ IF usage = "read"
           THEN Did("read", i, part, ReadPatch(at)) /\ UNCHANGED memory
           ELSE /\ memory' = WritePatch(memory, at, Fresh(Size(at)))
                /\ Did("write", i, part, Fresh(Size(at)))
        /\ UNCHANGED <<images, open>>

(* Reads only: a write waits for the lock that the call itself holds.         *)
vxCopyImagePlane(i, p) ==
    LET image == images[i]
        from  == plane_offset(image.w, image.h, image.format, p)
        size  == plane_size(image.w, image.h, image.format, p)
    IN  /\ Access
        /\ ~image.external /\ from + size <= Len(memory[image.data])
        /\ Did("read", i, <<[plane |-> p, rect |-> Whole(i, p)]>>,
               SubSeq(memory[image.data], from + 1, from + size))
        /\ UNCHANGED <<memory, images, open>>

KernelReads(i) ==
    /\ Access
    /\ Did("read", i, AllParts(i), c_image_to_rust(i))
    /\ UNCHANGED <<memory, images, open>>

KernelWrites(i) ==
    LET patches == copy_rust_to_c_image(i)
        bytes == Fresh(calculate_size(images[i].w, images[i].h, images[i].format))
    IN  /\ Access
        /\ IF patches = <<>> THEN Did("refused", i, <<>>, <<>>) /\ UNCHANGED memory
           ELSE /\ memory' = WritePatches(patches, bytes)
                /\ Did("write", i, AllParts(i), bytes)
        /\ UNCHANGED <<images, open>>

vxCloneImage(i, r) ==
    LET image == images[i]
        depth == bytes_per_pixel(image.format)
        from  == IF image.external THEN Patch(None, 0, 0, 0, 0)
                 ELSE Patch(image.data, (r.y * image.w + r.x) * depth, image.w * depth, r.w * depth, r.h)
        bytes == IF image.external THEN <<>> ELSE ReadPatch(from)
        size  == calculate_size(r.w, r.h, image.format)
    IN  /\ Len(images) < Images /\ Access
        /\ r.x + r.w <= image.w /\ r.y + r.h <= image.h
        /\ memory' = Append(memory, [k \in 1..size |-> IF k <= Len(bytes) THEN bytes[k] ELSE 0])
        /\ images' = Append(images, [Record(r.w, r.h, image.format) EXCEPT
                                        !.data = Len(memory) + 1, !.pixels = Root(image.format)])
        /\ Did("clone", i, <<[plane |-> 0, rect |-> r]>>, memory'[Len(memory) + 1])
        /\ UNCHANGED open
-----------------------------------------------------------------------------
(* The accesses that the code carries out as documented.  The README says     *)
(* what the others do.                                                        *)

Pairs(s)     == s.format \in {"UYVY", "YUYV"} => s.w % 2 = 0
IsRoot(i)    == images[i].parent = None
IsChannel(i) == ~IsRoot(i) /\ images[i].roi = <<>>
OfRoot(i)    == ~IsRoot(i) /\ IsRoot(images[i].parent)
UpToDate(i)  == images[i].swaps = images[images[i].pixels[1].image].swaps
OneByteDeepOrKnown(f) == f \in {"U8", "S16", "RGB", "RGBA"}

RegionOfHandle(i) ==
    LET up[j \in DOMAIN images] == IsRoot(j) \/ (IsRegion(j) /\ up[images[j].parent])
    IN  images[i].external /\ up[i]

Within(i, p, r)    == r.x + r.w <= Extent(i, p)[1] /\ r.y + r.h <= Extent(i, p)[2]
MaySwap(i)         == \A m \in DOMAIN open : images[open[m].image].pixels[1].image # i
MayMap(i)          == IsRoot(i) \/ (IsChannel(i) /\ OfRoot(i)) \/ RegionOfHandle(i)
MayUnmap(m)        == \A n \in DOMAIN open : open[n].image = open[m].image => n <= m
MayCopy(i)         == \/ IsRoot(i)
                      \/ images[i].external /\ UpToDate(i)
                      \/ IsChannel(i) /\ OfRoot(i) /\ ~images[i].external
MayCopyPlane(i)    == IsRoot(i)
MayKernelRead(i)   == \/ IsRoot(i)
                      \/ /\ OfRoot(i) /\ ~images[i].external
                         /\ \/ IsRegion(i) /\ OneByteDeepOrKnown(images[i].format)
                            \/ IsChannel(i) /\ images[i].channel_offset = 0
                      \/ IsChannel(i) /\ OfRoot(i) /\ images[i].external /\ UpToDate(i)
MayKernelWrite(i)  == \/ IsRoot(i)
                      \/ /\ IsRegion(i) /\ OfRoot(i) /\ OneByteDeepOrKnown(images[i].format)
                         /\ images[i].external => Padding = 0
                      \/ IsChannel(i) /\ OfRoot(i) /\ (images[i].external => UpToDate(i))
MayClone(i)        == IsRoot(i) /\ ~images[i].external /\ ~is_planar_format(images[i].format)

HasMemory(i) == \A p \in Planes(i) : Here(i, p, Whole(i, p)) # None
-----------------------------------------------------------------------------
ImageInit == /\ memory = <<>> /\ images = <<>> /\ open = <<>>
             /\ accesses = 0
             /\ last = [op |-> "create"]

Usages == {"read", "write", "both"}

MoreRoots == Cardinality({i \in DOMAIN images : IsRoot(i)}) < Roots

Create == \/ \E s \in Shapes : /\ MoreRoots
                               /\ \/ "memory" \in Origins /\ vxCreateImage(s)
                                  \/ "uniform" \in Origins /\ Careful(Pairs(s)) /\ vxCreateUniformImage(s)
                                  \/ "handle" \in Origins /\ vxCreateImageFromHandle(s)
          \/ \E i \in DOMAIN images : \/ \E r \in Rects : vxCreateImageFromROI(i, r)
                                      \/ \E p \in Planes(i) : vxCreateImageFromChannel(i, p)

ExchangeHandle == \E i \in DOMAIN images, reclaim \in BOOLEAN : Careful(MaySwap(i)) /\ vxSwapImageHandle(i, reclaim)

Map == \E i \in DOMAIN images : /\ Careful(MayMap(i))
                                /\ \E p \in Planes(i), r \in Rects, u \in Usages :
                                       vxMapImagePatch(i, p, r, u)
Edit  == \E m \in DOMAIN open : WriteThroughMap(m)
Unmap == \E m \in DOMAIN open : Careful(MayUnmap(m)) /\ vxUnmapImagePatch(m)
Copy  == \E i \in DOMAIN images : /\ Careful(MayCopy(i) /\ HasMemory(i))
                                  /\ \E p \in Planes(i), r \in Rects, u \in {"read", "write"} :
                                         /\ Careful(Within(i, p, r))
                                         /\ vxCopyImagePatch(i, p, r, u)
CopyPlane == \E i \in DOMAIN images : /\ Careful(MayCopyPlane(i))
                                      /\ \E p \in Planes(i) : vxCopyImagePlane(i, p)
Kernel == \E i \in DOMAIN images :
              /\ Careful(HasMemory(i))
              /\ \/ Careful(MayKernelRead(i)) /\ KernelReads(i)
                 \/ Careful(MayKernelWrite(i)) /\ KernelWrites(i)
Clone == \E i \in DOMAIN images : Careful(MayClone(i)) /\ \E r \in Rects : vxCloneImage(i, r)

ImageNext == Create \/ ExchangeHandle \/ Map \/ Edit \/ Unmap \/ Copy \/ CopyPlane \/ Kernel \/ Clone

ImageSpec == ImageInit /\ [][ImageNext]_imageVars
-----------------------------------------------------------------------------
(* Correctness.                                                               *)

(* What byte k of the pixels of a column is, of the value Y, U, V or of one   *)
(* of several channels.                                                       *)
Component(f, p, column, k) ==
    CASE f \in {"UYVY", "YUYV"} -> IF (k = 1) = (f = "YUYV") THEN 1 ELSE 2 + (column % 2)
      [] f = "NV12" /\ p = 1    -> 1 + k
      [] f = "NV21" /\ p = 1    -> 4 - k
      [] is_planar_format(f)    -> p + 1
      [] OTHER                  -> k

Uniform(i) ==
    \A p \in Planes(i) :
        LET at == Here(i, p, Whole(i, p))
            dx == plane_stride_x(images[i].format, p)
        IN  \A k \in 1..Size(at) :
                LET n == (k - 1) % at.wb
                IN  ReadPatch(at)[k] = <<accesses, Component(images[i].format, p, n \div dx, (n % dx) + 1)>>

Reached(i, parts) == [k \in DOMAIN parts |-> Here(i, parts[k].plane, parts[k].rect)]

(* Whatever the way to the pixels, a reader gets the bytes that the image's   *)
(* owner has there now, a writer changes those and no others, and neither     *)
(* creating, mapping nor swapping changes a byte of any buffer.  The pixels   *)
(* of a uniform image all have the value it was created with.                 *)
AccessesAreExact ==
    [][LET into == Reached(last'.image, last'.parts)
       IN  CASE last'.op = "read"  -> last'.bytes = Bytes(into) /\ memory' = memory
             [] last'.op = "clone" -> /\ last'.bytes = Bytes(into)
                                      /\ SubSeq(memory', 1, Len(memory)) = memory
             [] last'.op = "write" -> memory' = WritePatches(into, last'.bytes)
             [] last'.op = "uniform" -> /\ Uniform(Len(images))'
                                        /\ SubSeq(memory', 1, Len(memory)) = memory
             [] OTHER              -> \A b \in DOMAIN memory : memory'[b] = memory[b]]_imageVars

(* What the application wrote through a map and what it reads there is what   *)
(* the unmap of that map will write back: no other map shares its copy.       *)
MapsAreKept ==
    \A m \in DOMAIN open :
        LET mapped == images[open[m].image].mapped
            pos == Kept(mapped, open[m].id)
        IN  /\ pos # 0
            /\ mapped[pos].copy = open[m].copy
            /\ ~images[open[m].image].external => mapped[pos].data = open[m].bytes
=============================================================================
