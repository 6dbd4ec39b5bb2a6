---------------------------- MODULE MCRelayJumper ----------------------------
(***************************************************************************)
(* Functions of up to seven arguments: every register slot of the payload, *)
(* a payload on the stack with an empty tail, and with tails; results that *)
(* fit RAX, that do not, and that fit but are counted as if they did not.  *)
(***************************************************************************)
EXTENDS RelayJumper
=============================================================================
