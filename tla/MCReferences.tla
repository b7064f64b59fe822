----------------------------- MODULE MCReferences -----------------------------
(* A scalar, an image and a pyramid of one level; a delay of two pyramids     *)
(* with a level each; a built-in node and a user node.                        *)
EXTENDS References

CONSTANTS sc, i, p, lp, a, la, b, lb, d, n, u

MCLevels == [o \in Objects |-> CASE o = p -> <<lp>> [] o = a -> <<la>> [] o = b -> <<lb>> [] OTHER -> <<>>]
MCSlots == [e \in Delays |-> <<a, b>>]
MCMost == [o \in Objects |-> IF o = sc THEN 2 ELSE 1]
=============================================================================
