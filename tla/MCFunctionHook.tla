--------------------------- MODULE MCFunctionHook ---------------------------
(***************************************************************************)
(* Three hooks: two stacked on one function and one on a call site, both   *)
(* on one of the two pages of the image.                                   *)
(***************************************************************************)
EXTENDS FunctionHook, TLC

CONSTANTS h1, h2, h3, f1, f2, p1, p2

MCTarget == (h1 :> f1) @@ (h2 :> f1) @@ (h3 :> f2)
MCPageOf == (f1 :> p1) @@ (f2 :> p1)
=============================================================================
