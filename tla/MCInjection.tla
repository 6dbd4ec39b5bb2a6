---------------------------- MODULE MCInjection ----------------------------
(***************************************************************************)
(* Two threads of the game and the client's two hooks, both on one page of *)
(* the game's image.                                                       *)
(***************************************************************************)
EXTENDS Injection, TLC

CONSTANTS fInit, fInvoke, p1

MCTarget == (InitWorldHook :> fInit) @@ (FuncInvokeHook :> fInvoke)
MCPageOf == (fInit :> p1) @@ (fInvoke :> p1)
=============================================================================
