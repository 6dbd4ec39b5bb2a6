----------------------------- MODULE MCEncodings -----------------------------
(***************************************************************************)
(* A byte of every class of the decoder's table, and units on both sides   *)
(* of every limit the code compares with.  Four bytes make the longest     *)
(* sequence, three units a pair and a neighbour.  A long number has eight  *)
(* bits, so that three digits may not fit, and four wrap around often.     *)
(***************************************************************************)
EXTENDS Encodings

MCBytes == {0, 65, 128, 144, 191, 195, 224, 226, 237, 240, 241, 244, 255}
MCUnits == {0, 65, 127, 128, 2047, 2048, 55295, 55296, 56319, 56320, 57343, 57344, 65535}
MCNumerals == UNION {[1 .. n -> {43, 45, 48, 49, 57, 65}] : n \in 1 .. 4}

=============================================================================
