--------------------------- MODULE MCStringBuffer ---------------------------
(* Two objects, and one address more than objects, as an assignment holds  *)
(* the old and the new buffer at once.  Addresses are interchangeable.     *)
EXTENDS StringBuffer, TLC

MCSymmetry == Permutations(Buffers)

=============================================================================
