----------------------------- MODULE TensorKernels -----------------------------
(* What the tensor and scalar kernels of vxu_impl.rs compute, as operators on *)
(* values, and what they ought to compute.  A tensor is its type, its         *)
(* dimensions (the first one varies fastest) and its elements in memory order.*)
(* Floating point is exact on the scales that are used here.                  *)
EXTENDS Integers, SequencesExt

CONSTANT None

Bits == [INT8 |-> 8, UINT8 |-> 8, INT16 |-> 16, UINT16 |-> 16, BOOL |-> 1]
Low  == [INT8 |-> -128, UINT8 |-> 0, INT16 |-> -32768, UINT16 |-> 0, BOOL |-> 0]
High(t) == Low[t] + 2^Bits[t] - 1
Fits(v, t) == t = "FLOAT32" \/ v \in Low[t]..High(t)

(* A cast: as i8, & 0xFF, trunc_to_i16.                                       *)
Cast(v, t) == ((v - Low[t]) % 2^Bits[t]) + Low[t]
Clamp(v, low, high) == IF v < low THEN low ELSE IF v > high THEN high ELSE v

\* Fault: a result above the range wraps whatever the policy is.
ConvertWrapping(v, t, policy) == IF v < Low[t] /\ policy # "wrap" THEN Low[t] ELSE Cast(v, t)
Convert(v, t, policy) == IF policy = "wrap" THEN Cast(v, t) ELSE Clamp(v, Low[t], High(t))

(* Division by a positive number: f64::trunc, and f64::round.                 *)
Magnitude(n) == IF n < 0 THEN -n ELSE n
Signed(n, q) == IF n < 0 THEN -q ELSE q
Trunc(n, d)  == Signed(n, Magnitude(n) \div d)
Round(n, d)  == Signed(n, (2 * Magnitude(n) + d) \div (2 * d))

(* Rust's / and % of integers truncate and take the sign of the dividend.     *)
Quotient(a, b)  == IF (a < 0) = (b < 0) THEN Magnitude(a) \div Magnitude(b)
                   ELSE -(Magnitude(a) \div Magnitude(b))
Remainder(a, b) == a - b * Quotient(a, b)
-----------------------------------------------------------------------------
(* Positions.                                                                 *)

Product(dims) == FoldLeft(LAMBDA n, d : n * d, 1, dims)
Stride(dims, i) == Product(SubSeq(dims, 1, i - 1))
Coordinates(dims) == {c \in [DOMAIN dims -> 0..(Max(ToSet(dims)) - 1)] : \A i \in DOMAIN dims : c[i] < dims[i]}

broadcast_index(c, dims) ==
    FoldLeft(LAMBDA n, i : n + (IF dims[i] = 1 THEN 0 ELSE c[i]) * Stride(dims, i), 0, [i \in DOMAIN dims |-> i])

At(flat, dims) == [i \in DOMAIN dims |-> (flat \div Stride(dims, i)) % dims[i]]

(* elementwise_loop visits every coordinate of the output.                    *)
Elementwise(f(_, _), in0, in1, out) ==
    [k \in 1..Product(out.dims) |->
        LET c == CHOOSE c \in Coordinates(out.dims) : broadcast_index(c, out.dims) = k - 1
        IN  f(in0.data[broadcast_index(c, in0.dims) + 1], in1.data[broadcast_index(c, in1.dims) + 1])]

Supported(t) == t \in {"INT16", "UINT8", "INT8"}

SameShape(in0, in1, out) ==
    /\ Supported(out.type)
    /\ in0.type = out.type /\ in1.type = out.type
    /\ Len(in0.dims) = Len(out.dims) /\ Len(in1.dims) = Len(out.dims)
-----------------------------------------------------------------------------
(* Elementwise kernels; None is an error status that leaves the output alone. *)

vxu_tensor_add_impl(in0, in1, policy, out) ==
    IF ~SameShape(in0, in1, out) THEN None
    ELSE Elementwise(LAMBDA x, y : Convert(x + y, out.type, policy), in0, in1, out)

vxu_tensor_subtract_impl(in0, in1, policy, out) ==
    IF ~SameShape(in0, in1, out) THEN None
    ELSE Elementwise(LAMBDA x, y : Convert(x - y, out.type, policy), in0, in1, out)

Unit(t) == IF t = "INT16" THEN 256 ELSE 1      \* INT16 is the fixed-point format Q7.8

vxu_tensor_multiply_impl(in0, in1, scale, policy, rounding, out) ==
    LET Times(x, y) == LET n == x * y * scale.num
                           d == scale.den * Unit(out.type)
                       IN  Convert(IF rounding = "nearest" THEN Round(n, d) ELSE Trunc(n, d), out.type, policy)
    IN  IF ~SameShape(in0, in1, out) THEN None ELSE Elementwise(Times, in0, in1, out)

(* norm is a power of two, 2^up or 2^-up.                                     *)
vxu_tensor_convert_depth_impl(in, policy, norm, offset, out) ==
    IF in.dims # out.dims \/ ~Supported(in.type) \/ ~Supported(out.type) THEN None
    ELSE [k \in 1..Product(out.dims) |->
             LET n == (in.data[k] - offset * Unit(in.type)) * norm.den * Unit(out.type)
             IN  Convert(Trunc(n, Unit(in.type) * norm.num), out.type, policy)]

vxu_tensor_table_lookup_impl(in, lut, out) ==
    LET count == Len(lut.data)
        middle == IF out.type = "INT16" THEN count \div 2 ELSE 0
        Index(v) == Clamp(middle + (IF out.type = "INT16" THEN v ELSE Cast(v, "UINT8")), 0, count - 1)
    IN  IF in.dims # out.dims \/ in.type # out.type \/ ~Supported(out.type) THEN None
        ELSE [k \in 1..Product(out.dims) |->
                 IF out.type = "INT16" /\ Bits[lut.type] # 16 THEN 0 ELSE Cast(lut.data[Index(in.data[k]) + 1], out.type)]
-----------------------------------------------------------------------------
(* Kernels that move elements.                                                *)

Exchange(s, i, j) == [k \in DOMAIN s |-> IF k = i THEN s[j] ELSE IF k = j THEN s[i] ELSE s[k]]

Flat(c, dims) == FoldLeft(LAMBDA n, i : n + c[i] * Stride(dims, i), 0, [i \in DOMAIN dims |-> i])

vxu_tensor_transpose_impl(in, out, i, j) ==
    IF in.type # out.type \/ out.dims # Exchange(in.dims, i, j) THEN None
    ELSE [k \in 1..Product(out.dims) |-> in.data[Flat(Exchange(At(k - 1, out.dims), i, j), in.dims) + 1]]

(* A matrix is read through two strides, exchanged when it is transposed.     *)
Element(m, transposed, row, column) ==
    m.data[(IF transposed THEN row + m.dims[1] * column ELSE m.dims[1] * row + column) + 1]
Columns(m, transposed) == m.dims[IF transposed THEN 2 ELSE 1]
Rows(m, transposed)    == m.dims[IF transposed THEN 1 ELSE 2]

Multipliable(a, b, c, ta, tb, tc, out) ==
    /\ \A m \in {a, b, c, out} \ {None} : Len(m.dims) = 2
    /\ Columns(a, ta) = Rows(b, tb)
    /\ out.dims = <<Columns(b, tb), Rows(a, ta)>>
    /\ c # None => out.dims = <<Columns(c, tc), Rows(c, tc)>>

(* INT16 adds half a unit and truncates, which rounds positive sums only.     *)
vxu_tensor_matrix_multiply_impl(a, b, c, ta, tb, tc, out) ==
    LET unit == Unit(out.type)
        Sum(y, x) == FoldLeft(LAMBDA n, i : n + Element(a, ta, y, i - 1) * Element(b, tb, i - 1, x),
                              IF c = None THEN 0 ELSE Element(c, tc, y, x) * unit,
                              [i \in 1..Columns(a, ta) |-> i])
    IN  IF ~Multipliable(a, b, c, ta, tb, tc, out) \/ a.type # out.type \/ ~Supported(out.type) THEN None
        ELSE [k \in 1..Product(out.dims) |->
                 LET sum == Sum((k - 1) \div out.dims[1], (k - 1) % out.dims[1])
                 IN  Convert(Trunc(sum + unit \div 2, unit), out.type, "saturate")]
-----------------------------------------------------------------------------
(* Scalars.  Operands are cast to the type of the output first, and those of  *)
(* FLOAT32 are integers here; BOOL results are of logic and comparison, and   *)
(* None is an error status.                                                   *)

Arithmetic  == {"add", "subtract", "multiply", "divide", "modulus", "min", "max"}
Comparisons == {"equal", "notequal", "less", "lesseq", "greater", "greatereq"}
Logic       == {"and", "or", "xor", "nand"}

One(condition) == IF condition THEN 1 ELSE 0

Compare(operation, a, b) ==
    CASE operation = "equal"    -> One(a = b)
      [] operation = "notequal" -> One(a # b)
      [] operation = "less"     -> One(a < b)
      [] operation = "lesseq"   -> One(a <= b)
      [] operation = "greater"  -> One(a > b)
      [] OTHER                  -> One(a >= b)

(* The first byte of each operand.                                            *)
Combine(operation, a, b) ==
    LET x == a % 256 # 0
        y == b % 256 # 0
    IN  CASE operation = "and" -> One(x /\ y)
          [] operation = "or"  -> One(x \/ y)
          [] operation = "xor" -> One(x # y)
          [] OTHER             -> One(~(x /\ y))

Compute(operation, a, b) ==
    CASE operation = "add"      -> a + b
      [] operation = "subtract" -> a - b
      [] operation = "multiply" -> a * b
      [] operation = "divide"   -> IF b = 0 THEN 0 ELSE Quotient(a, b)
      [] operation = "modulus"  -> IF b = 0 THEN 0 ELSE Remainder(a, b)
      [] operation = "min"      -> IF a < b THEN a ELSE b
      [] OTHER                  -> IF a > b THEN a ELSE b

(* The smallest number divided by -1 panics.                                  *)
Panics(operation, a, b, t) ==
    /\ operation \in {"divide", "modulus"} /\ t \in {"INT8", "INT16"}
    /\ Cast(a, t) = Low[t] /\ Cast(b, t) = -1

vxu_scalar_operation_impl(operation, a, b, t) ==
    CASE operation \in Logic       -> IF t = "BOOL" THEN Combine(operation, a, b) ELSE None
      [] operation \in Comparisons -> IF t = "BOOL" THEN Compare(operation, a, b) ELSE None
      [] t = "BOOL"                -> None
      [] t = "FLOAT32"             -> Compute(operation, a, b)
      [] OTHER                     -> Cast(Compute(operation, Cast(a, t), Cast(b, t)), t)

vxu_select_impl(condition, yes, no, t) ==
    LET src == IF condition % 256 # 0 THEN yes ELSE no
    IN  IF src.type # t THEN None ELSE src.data
-----------------------------------------------------------------------------
(* What the results ought to be, without strides, casts or clamps.            *)

Congruent(r, v, t) == Fits(r, t) /\ (r - v) % 2^Bits[t] = 0
Nearest(r, v, t)   == Fits(r, t) /\ \A x \in {Low[t], High(t), v} :
                          Fits(x, t) => Magnitude(r - v) <= Magnitude(x - v)
Converted(r, v, t, policy) == IF policy = "wrap" THEN Congruent(r, v, t) ELSE Nearest(r, v, t)

(* Memory order: coordinates are compared from the last dimension down.       *)
Before(c, e) == \E i \in DOMAIN c : c[i] < e[i] /\ \A j \in DOMAIN c : j > i => c[j] = e[j]
ElementAt(m, c) ==
    m.data[1 + Cardinality({e \in Coordinates(m.dims) : Before(e, c)})]
Repeated(c, dims) == [i \in DOMAIN dims |-> IF dims[i] = 1 THEN 0 ELSE c[i]]
Pair(row, column, transposed) == IF transposed THEN <<row, column>> ELSE <<column, row>>

(* r is n / d to the nearest number, or to the one towards zero.              *)
RoundedTo(r, n, d, rounding) ==
    IF rounding = "nearest" THEN 2 * Magnitude(r * d - n) <= d
    ELSE Magnitude(r * d) <= Magnitude(n) /\ Magnitude(n - r * d) < d /\ (r # 0 => (r < 0) = (n < 0))

Sums(result, a, b, sign, out, policy) ==
    \A c \in Coordinates(out.dims) :
        Converted(ElementAt(result, c),
                  ElementAt(a, Repeated(c, a.dims)) + sign * ElementAt(b, Repeated(c, b.dims)), out.type, policy)

Rounds(r, n, d, rounding, t, policy) ==
    \E v \in {n \div d, n \div d + 1} : RoundedTo(v, n, d, rounding) /\ Converted(r, v, t, policy)

Scaled(result, a, b, scale, out, rounding, policy) ==
    \A c \in Coordinates(out.dims) :
        Rounds(ElementAt(result, c),
               ElementAt(a, Repeated(c, a.dims)) * ElementAt(b, Repeated(c, b.dims)) * scale.num,
               Unit(out.type) * scale.den, rounding, out.type, policy)

Deepened(result, in, norm, offset, out, policy) ==
    \A k \in 1..Product(out.dims) :
        Rounds(result.data[k], (in.data[k] - offset * Unit(in.type)) * norm.den * Unit(out.type),
               Unit(in.type) * norm.num, "zero", out.type, policy)

(* A table has an entry for each element value; INT16 tables are centred.     *)
LookedUp(result, in, lut) ==
    \A k \in 1..Product(in.dims) :
        LET i == in.data[k] + lut.offset + 1
        IN  i \in DOMAIN lut.data => result.data[k] = lut.data[i]

Transposed(result, in, i, j) ==
    \A c \in Coordinates(result.dims) : ElementAt(result, c) = ElementAt(in, Exchange(c, i, j))

(* Sums below zero in INT16 may be off by more than half a unit; see Trunc.   *)
MatrixProduct(result, a, b, c, ta, tb, tc, out) ==
    \A y \in 0..(out.dims[2] - 1), x \in 0..(out.dims[1] - 1) :
        LET n == FoldFunction(LAMBDA p, q : p + q,
                     IF c = None THEN 0 ELSE ElementAt(c, Pair(y, x, tc)) * Unit(out.type),
                     [i \in 0..(Columns(a, ta) - 1) |-> ElementAt(a, Pair(y, i, ta)) * ElementAt(b, Pair(i, x, tb))])
            r == ElementAt(result, <<x, y>>)
        IN  \/ n >= 0 /\ Nearest(r, (2 * n + Unit(out.type)) \div (2 * Unit(out.type)), out.type)
            \/ n < 0 /\ \E v \in {n \div Unit(out.type), n \div Unit(out.type) + 1, n \div Unit(out.type) + 2} :
                             2 * Magnitude(v * Unit(out.type) - n) < 3 * Unit(out.type) /\ Nearest(r, v, out.type)

(* Division is the schoolbook one, and 0 by zero.  Sums, differences and      *)
(* products wrap whatever the operands; the others are exact for operands     *)
(* that the type of the result has.                                           *)
Divided(a, b, q, r) ==
    IF b = 0 THEN q = 0 /\ r = 0
    ELSE a = q * b + r /\ Magnitude(r) < Magnitude(b) /\ (r # 0 => (r < 0) = (a < 0))

(* How many of the operands of a logical operation are true when its result   *)
(* is, and the signs of the difference for which a comparison is true.        *)
TrueFor    == [and |-> {2}, or |-> {1, 2}, xor |-> {1}, nand |-> {0, 1}]
SignsFor   == [equal |-> {0}, notequal |-> {-1, 1}, less |-> {-1}, lesseq |-> {-1, 0},
               greater |-> {1}, greatereq |-> {0, 1}]
Truths(a, b) == Cardinality({i \in 1..2 : <<a, b>>[i] # 0})
Sign(n)      == IF n = 0 THEN 0 ELSE Signed(n, 1)

Operated(r, operation, a, b, t) ==
    CASE operation \in DOMAIN TrueFor  -> r \in {0, 1} /\ (r = 1 <=> Truths(a, b) \in TrueFor[operation])
      [] operation \in DOMAIN SignsFor -> r \in {0, 1} /\ (r = 1 <=> Sign(a - b) \in SignsFor[operation])
      [] operation \in {"add", "subtract", "multiply"} ->
            LET exact == Compute(operation, a, b) IN IF t = "FLOAT32" THEN r = exact ELSE Congruent(r, exact, t)
      [] OTHER ->
            Fits(a, t) /\ Fits(b, t) =>
               CASE operation = "divide"  -> Divided(a, b, r, IF b = 0 THEN 0 ELSE a - r * b)
                 [] operation = "modulus" -> IF b = 0 THEN r = 0 ELSE Divided(a, b, Quotient(a - r, b), r)
                 [] operation = "min"     -> r \in {a, b} /\ r <= a /\ r <= b
                 [] OTHER                 -> r \in {a, b} /\ r >= a /\ r >= b
=============================================================================
