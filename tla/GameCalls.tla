------------------------------ MODULE GameCalls ------------------------------
(***************************************************************************)
(* What the game may rely on, hooked or not: a thread that calls a         *)
(* function has that function's body run, once and no other, before the    *)
(* call returns.  Nothing here mentions a hook.                            *)
(***************************************************************************)
EXTENDS Sequences

CONSTANTS Threads, Functions, NULL

VARIABLES
  fn,  \* fn[t]: the function thread t is calling, or NULL
  ran  \* ran[t]: the functions whose bodies have run for that call, in order

callVars == <<fn, ran>>

CallsInit ==
  /\ fn = [t \in Threads |-> NULL]
  /\ ran = [t \in Threads |-> <<>>]

Call(t, f) ==
  /\ fn[t] = NULL
  /\ fn' = [fn EXCEPT ![t] = f]
  /\ UNCHANGED ran

RunBody(t) ==
  /\ fn[t] # NULL
  /\ ran[t] = <<>>
  /\ ran' = [ran EXCEPT ![t] = <<fn[t]>>]
  /\ UNCHANGED fn

Return(t) ==
  /\ ran[t] # <<>>
  /\ fn' = [fn EXCEPT ![t] = NULL]
  /\ ran' = [ran EXCEPT ![t] = <<>>]

CallsNext == \E t \in Threads : \/ \E f \in Functions : Call(t, f)
                                \/ RunBody(t)
                                \/ Return(t)

CallsSpec == CallsInit /\ [][CallsNext]_callVars
=============================================================================
