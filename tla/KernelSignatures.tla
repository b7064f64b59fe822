--------------------------- MODULE KernelSignatures ---------------------------
(* What four tables of unified_c_api.rs and c_api.rs say of a kernel's        *)
(* parameters: how many a registered kernel has, in which order its node      *)
(* creator sets them, which of them vxVerifyGraph takes for outputs, and      *)
(* which of them the dispatcher insists on and has the kernel write.          *)
(* Positions count from 0, and the prefix "org.khronos.openvx." is dropped.   *)
EXTENDS Naturals, Sequences, FiniteSets, TLC

For(kernels, value) == [k \in kernels |-> value]
-----------------------------------------------------------------------------
(* register_standard_kernels: the number of parameters of each kernel.        *)

register_standard_kernels ==
    For({"color_convert", "gaussian_3x3", "box_3x3", "median_3x3", "dilate_3x3",
         "erode_3x3", "gaussian_pyramid", "not", "histogram", "integral_image",
         "equalize_histogram"}, 2)
    @@ For({"channel_extract", "sobel_3x3", "magnitude", "phase", "scale_image",
            "halfscale_gaussian", "convolve", "custom_convolution", "min", "max",
            "and", "or", "xor", "mean_stddev", "absdiff", "threshold", "copy",
            "table_lookup", "laplacian_pyramid", "laplacian_reconstruct",
            "tensor_table_lookup"}, 3)
    @@ For({"warp_affine", "warp_perspective", "remap", "add", "subtract",
            "convertdepth", "non_linear_filter", "match_template", "lbp",
            "tensor_add", "tensor_subtract", "tensor_transpose", "select",
            "non_max_suppression", "scalar_operation", "weighted_average"}, 4)
    @@ For({"channel_combine", "fast_corners", "canny_edge_detector",
            "tensor_convert_depth", "tensor_matrix_multiply", "bilateral_filter"}, 5)
    @@ For({"tensor_multiply", "hog_cells"}, 6)
    @@ For({"multiply", "minmaxloc", "hog_features"}, 7)
    @@ For({"harris_corners", "hough_lines_p"}, 8)
    @@ For({"optical_flow_pyr_lk"}, 10)

Registered == DOMAIN register_standard_kernels
-----------------------------------------------------------------------------
(* vxVerifyGraph's kernel_output_indices.                                     *)

kernel_output_indices ==
    For({"color_convert", "gaussian_3x3", "gaussian_5x5", "box_3x3", "median_3x3",
         "dilate_3x3", "erode_3x3", "dilate_5x5", "erode_5x5", "not", "copy",
         "integral_image", "histogram", "equalize_histogram", "convertdepth",
         "gaussian_pyramid", "laplacian_pyramid"}, {1})
    @@ For({"channel_extract", "absdiff", "magnitude", "phase", "scale_image", "and",
            "or", "xor", "threshold", "table_lookup", "convolve", "min", "max",
            "custom_convolution", "laplacian_reconstruct", "halfscale_gaussian"}, {2})
    @@ For({"non_linear_filter", "non_max_suppression", "match_template", "lbp",
            "add", "subtract", "warp_affine", "warp_perspective", "remap",
            "weighted_average"}, {3})
    @@ For({"bilateral_filter", "channel_combine", "canny_edge_detector",
            "optical_flow_pyr_lk"}, {4})
    @@ For({"hog_features", "multiply"}, {5})
    @@ For({"sobel_3x3"}, {1, 2}) @@ For({"mean_stddev"}, {2, 3})
    @@ For({"fast_corners"}, {3, 4}) @@ For({"hog_cells"}, {4, 5})
    @@ For({"hough_lines_p", "harris_corners"}, {6, 7})
    @@ For({"minmaxloc"}, 1..6)

(* get_output_indices and its fallback: a kernel in neither table has one     *)
(* input, the first parameter, and writes all the others.                     *)
IsOutput(userKernels, k, idx) ==
    IF k \in DOMAIN kernel_output_indices THEN idx \in kernel_output_indices[k]
    ELSE IF k \in DOMAIN userKernels THEN idx \in userKernels[k]
    ELSE idx > 0
-----------------------------------------------------------------------------
(* dispatch_kernel_with_border_impl: the parameters an arm refuses to find    *)
(* NULL, and those it hands to the kernel to be written.                      *)

Arm(required, written) == [required |-> required, written |-> written]

DispatchFilters ==
    For({"box_3x3", "median_3x3", "gaussian_3x3", "gaussian_5x5", "dilate_3x3"}, Arm({0, 1}, {1}))
DispatchConversions ==
    For({"erode_3x3", "color_convert"}, Arm({0, 1}, {1}))
    @@ For({"warp_perspective"}, Arm({0, 1, 3}, {3})) @@ For({"threshold"}, Arm({0, 1, 2}, {2}))
DispatchArithmetic ==
    For({"integral_image", "copy"}, Arm({0, 1}, {1}))
    @@ For({"add", "subtract"}, Arm({0, 1, 3}, {3})) @@ For({"min", "max"}, Arm({0, 1, 2}, {2}))
DispatchFeatures ==
    For({"non_max_suppression", "lbp"}, Arm({0, 3}, {3}))
    @@ For({"hough_lines_p"}, Arm({0, 6}, {6})) @@ For({"match_template"}, Arm({0, 1, 3}, {3}))
DispatchHog ==
    For({"hog_cells"}, Arm(0..5, {4, 5})) @@ For({"hog_features"}, Arm(0..5, {5}))
DispatchBilateral ==
    For({"bilateral_filter"}, Arm(0..4, {4})) @@ For({"multiply"}, Arm({0, 1, 2, 5}, {5}))
    @@ For({"absdiff", "magnitude", "phase"}, Arm(0..2, {2}))
DispatchGeometry ==
    For({"scale_image"}, Arm({0, 2}, {2})) @@ For({"sobel_3x3"}, Arm({0}, {1, 2}))
    @@ For({"warp_affine", "remap"}, Arm({0, 1, 3}, {3}))
DispatchBitwise ==
    For({"and", "or", "xor"}, Arm(0..2, {2})) @@ For({"not"}, Arm({0, 1}, {1}))
    @@ For({"weighted_average"}, Arm(0..3, {3})) @@ For({"channel_extract"}, Arm({0, 2}, {2}))
DispatchCombine ==
    For({"channel_combine"}, Arm({0, 4}, {4})) @@ For({"convolve"}, Arm(0..2, {2}))
    @@ For({"histogram"}, Arm({0, 1}, {1}))
DispatchCorners ==
    For({"harris_corners"}, Arm({0}, {6, 7})) @@ For({"fast_corners"}, Arm({0, 3}, {3, 4}))
DispatchCanny ==
    For({"canny_edge_detector"}, Arm({0, 1, 4}, {4})) @@ For({"table_lookup"}, Arm(0..2, {2}))
    @@ For({"convertdepth"}, Arm({0, 1}, {1}))
DispatchStatistics ==
    For({"equalize_histogram", "gaussian_pyramid"}, Arm({0, 1}, {1}))
    @@ For({"mean_stddev"}, Arm({0}, {1, 2})) @@ For({"minmaxloc"}, Arm({0}, 1..6))
DispatchPyramids ==
    For({"halfscale_gaussian"}, Arm({0, 1}, {1})) @@ For({"laplacian_pyramid"}, Arm(0..2, {1, 2}))
    @@ For({"laplacian_reconstruct"}, Arm(0..2, {2}))
DispatchFlow ==
    For({"optical_flow_pyr_lk"}, Arm({0, 1, 2, 4}, {4})) @@ For({"non_linear_filter"}, Arm(1..3, {3}))
DispatchTensors ==
    For({"tensor_add", "tensor_subtract"}, Arm({0, 1, 3}, {3}))
    @@ For({"tensor_multiply"}, Arm({0, 1, 2, 5}, {5}))
    @@ For({"tensor_convert_depth"}, Arm({0, 2, 3, 4}, {4}))
    @@ For({"tensor_table_lookup"}, Arm(0..2, {2})) @@ For({"tensor_transpose"}, Arm({0, 3}, {3}))
    @@ For({"tensor_matrix_multiply"}, Arm({0, 1, 4}, {4}))
    @@ For({"scalar_operation", "select"}, Arm(0..3, {3}))

Dispatch == DispatchFilters @@ DispatchConversions @@ DispatchArithmetic @@ DispatchFeatures
            @@ DispatchHog @@ DispatchBilateral @@ DispatchGeometry @@ DispatchBitwise
            @@ DispatchCombine @@ DispatchCorners @@ DispatchCanny @@ DispatchStatistics
            @@ DispatchPyramids @@ DispatchFlow @@ DispatchTensors
-----------------------------------------------------------------------------
(* The node creators: the parameters in the order they are set, each of them  *)
(* read by the node ("in"), written by it ("out"), or a setting, most of them *)
(* scalars the creator makes for the node.                                    *)

InOut    == <<"in", "out">>
InInOut  == <<"in", "in", "out">>
InSetOut == <<"in", "set", "out">>

CreateFilters ==
    For({"color_convert", "gaussian_3x3", "gaussian_5x5", "box_3x3"}, InOut)
    @@ For({"convolve"}, InInOut) @@ For({"channel_extract"}, InSetOut)
    @@ For({"channel_combine"}, <<"in", "in", "in", "in", "out">>)
CreateGradients ==
    For({"median_3x3"}, InOut) @@ For({"magnitude"}, InInOut)
    @@ For({"sobel_3x3", "sobel_5x5"}, <<"in", "out", "out">>)
CreateMorphology ==
    For({"dilate_3x3", "erode_3x3", "dilate_5x5", "erode_5x5"}, InOut) @@ For({"phase"}, InInOut)
CreateArithmetic ==
    For({"add", "subtract"}, <<"in", "in", "set", "out">>)
    @@ For({"multiply"}, <<"in", "in", "set", "set", "set", "out">>)
CreateMinMax ==
    For({"min", "max"}, InInOut)
    @@ For({"minmaxloc"}, <<"in", "out", "out", "out", "out", "out", "out">>)
CreateStatistics ==
    For({"mean_stddev"}, <<"in", "out", "out">>) @@ For({"histogram"}, InOut)
    @@ For({"scale_image"}, InSetOut)
CreateWarps ==
    For({"warp_affine", "warp_perspective", "remap"}, <<"in", "in", "set", "out">>)
CreateFlow ==
    For({"optical_flow_pyr_lk"}, <<"in", "in", "in", "in", "out", "set", "set", "set", "set", "set">>)
CreateHarris ==
    For({"harris_corners"}, <<"in", "set", "set", "set", "set", "set", "out", "out">>)
CreateFast ==
    For({"fast_corners"}, <<"in", "set", "set", "out", "out">>)
    @@ For({"corner_min_eigen_val"}, <<"in", "set", "set", "set", "set", "out", "out">>)
CreateCanny ==
    For({"canny_edge_detector"}, <<"in", "in", "set", "set", "out">>)
    @@ For({"hough_lines_p"}, <<"in", "set", "set", "set", "set", "set", "out">>)
CreateIntegral ==
    For({"integral_image"}, InOut) @@ For({"mean_shift"}, <<"in", "set", "set", "set", "out">>)
CreateAverage ==
    For({"weighted_average"}, <<"in", "set", "in", "out">>) @@ For({"absdiff"}, InInOut)
CreatePyramids ==
    For({"laplacian_pyramid"}, <<"in", "out", "out">>) @@ For({"laplacian_reconstruct"}, InInOut)
    @@ For({"equalize_histogram", "gaussian_pyramid"}, InOut)
CreateNonLinear ==
    For({"non_linear_filter"}, <<"set", "in", "in", "out">>) @@ For({"threshold"}, InInOut)
CreateDepth   == For({"not"}, InOut) @@ For({"convertdepth"}, <<"in", "out", "set", "set">>)
\* Fault: the output before the second input.
CreateBitwiseSwapped == For({"and", "or", "xor", "table_lookup"}, <<"in", "out", "in">>)
CreateBitwise == For({"and", "or", "xor", "table_lookup"}, InInOut)
CreateHalfScale == For({"halfscale_gaussian"}, <<"in", "out", "set">>)
CreateBilateral == For({"bilateral_filter"}, <<"in", "set", "set", "set", "out">>)
CreateMatch ==
    For({"lbp"}, <<"in", "set", "set", "out">>)
    @@ For({"match_template"}, <<"in", "in", "set", "out">>)
CreateHogCells ==
    For({"non_max_suppression"}, <<"in", "in", "set", "out">>)
    @@ For({"hog_cells"}, <<"in", "set", "set", "set", "out", "out">>)
CreateHogFeatures ==
    For({"hog_features"}, <<"in", "in", "in", "set", "set", "out">>)
CreateSelect ==
    For({"scalar_operation"}, <<"in", "in", "set", "out">>)
    @@ For({"select"}, <<"in", "in", "in", "out">>)
CreateTensorArithmetic ==
    For({"tensor_add", "tensor_subtract"}, <<"in", "in", "set", "out">>)
    @@ For({"tensor_multiply"}, <<"in", "in", "set", "set", "set", "out">>)
CreateTensorLookup ==
    For({"tensor_matrix_multiply"}, <<"in", "in", "in", "set", "out">>)
    @@ For({"tensor_table_lookup"}, InInOut)
    @@ For({"tensor_transpose"}, <<"in", "set", "set", "out">>)
CreateTensorDepth ==
    For({"tensor_convert_depth"}, <<"in", "set", "set", "set", "out">>)

Creators == CreateFilters @@ CreateGradients @@ CreateMorphology @@ CreateArithmetic
            @@ CreateMinMax @@ CreateStatistics @@ CreateWarps @@ CreateFlow @@ CreateHarris
            @@ CreateFast @@ CreateCanny @@ CreateIntegral @@ CreateAverage @@ CreatePyramids
            @@ CreateNonLinear @@ CreateDepth @@ CreateBitwise @@ CreateHalfScale
            @@ CreateBilateral @@ CreateMatch @@ CreateHogCells @@ CreateHogFeatures
            @@ CreateSelect @@ CreateTensorArithmetic @@ CreateTensorLookup @@ CreateTensorDepth

(* create_node_with_params: a kernel that is not registered has no node.  The *)
(* creator is given the data the node reads and writes, and a setting.        *)
Creatable == Registered \cap DOMAIN Creators

Nth(k, i) == Cardinality({j \in 1..i : Creators[k][j] = Creators[k][i]})

create_node_with_params(k, ins, outs, setting) ==
    [kernel |-> k,
     params |-> [i \in DOMAIN Creators[k] |->
                    CASE Creators[k][i] = "in"  -> ins[Nth(k, i)]
                      [] Creators[k][i] = "out" -> outs[Nth(k, i)]
                      [] OTHER                  -> setting]]

(* The positions a creator means for results.                                 *)
Results(k) == {i - 1 : i \in {j \in DOMAIN Creators[k] : Creators[k][j] = "out"}}
=============================================================================
