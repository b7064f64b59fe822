---------------------------- MODULE MCImageMemory ----------------------------
(* Small images for ImageMemory: an IYUV image, whose second and third plane  *)
(* are subsampled, an interleaved NV12 one, and two packed images of two      *)
(* bytes per pixel, one of which shares U and V between pixels.               *)
EXTENDS ImageMemory

Shape(w, h, f) == [w |-> w, h |-> h, format |-> f]
Area(x, y, w, h) == [x |-> x, y |-> y, w |-> w, h |-> h]

MCShapes == {Shape(4, 2, "IYUV"), Shape(2, 2, "S16"), Shape(2, 2, "NV12"), Shape(2, 2, "UYVY")}
MCRects  == {Area(0, 0, 2, 2), Area(1, 1, 1, 1), Area(2, 0, 2, 2)}
=============================================================================
