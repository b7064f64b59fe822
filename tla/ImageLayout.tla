----------------------------- MODULE ImageLayout -----------------------------
(* How VxCImage (unified_c_api.rs) lays the planes of an image out in memory. *)
(* Sizes and offsets are in bytes, planes count from 0.                       *)
EXTENDS Naturals, Sequences

Packed == {"U8", "S8", "U16", "S16", "U32", "S32", "RGB", "RGBA", "UYVY", "YUYV"}
SemiPlanar == {"NV12", "NV21"}
is_planar_format(f) == f \in SemiPlanar \cup {"IYUV", "YUV4"}

bytes_per_pixel(f) == CASE f \in {"U16", "S16", "UYVY", "YUYV"} -> 2
                        [] f \in {"RGB", "YUV4"}                -> 3
                        [] f \in {"U32", "S32", "RGBA"}         -> 4
                        [] OTHER                                -> 1

num_planes(f) == CASE f \in SemiPlanar -> 2 [] f \in {"IYUV", "YUV4"} -> 3 [] OTHER -> 1

Half(n) == (n + 1) \div 2

plane_size(w, h, f, p) ==
    CASE p >= num_planes(f)            -> 0
      [] f \in SemiPlanar /\ p = 1     -> w * Half(h)
      [] f = "IYUV" /\ p > 0           -> Half(w) * Half(h)
      [] is_planar_format(f)           -> w * h
      [] OTHER                         -> w * h * bytes_per_pixel(f)

plane_offset(w, h, f, p) ==
    LET offset[i \in 0..p] == IF i = 0 THEN 0 ELSE offset[i - 1] + plane_size(w, h, f, i - 1)
    IN  offset[p]

plane_dimensions(w, h, f, p) ==
    CASE p = 0                                    -> <<w, h>>
      [] f \in SemiPlanar \cup {"IYUV"}           -> <<Half(w), Half(h)>>
      [] OTHER                                    -> <<w, h>>

plane_stride_x(f, p) == CASE f \in SemiPlanar -> 1 + p
                          [] f \in {"IYUV", "YUV4"} -> 1
                          [] OTHER -> bytes_per_pixel(f)

plane_row_stride(w, h, f, p) ==
    IF f \in SemiPlanar /\ p = 1 THEN w
    ELSE plane_dimensions(w, h, f, p)[1] * plane_stride_x(f, p)

calculate_size(w, h, f) == plane_offset(w, h, f, num_planes(f))
=============================================================================
