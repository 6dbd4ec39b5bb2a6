----------------------------- MODULE Trampoline -----------------------------
(***************************************************************************)
(* HooksCommon::CreateTrampoline: the instructions at the start of a       *)
(* function are decoded one by one and written again at codePtr, until     *)
(* five bytes are free for a jump.  Afterwards the original instructions   *)
(* and the trampoline are run side by side, for every outcome of the       *)
(* conditions, to see whether they do the same.                            *)
(*                                                                         *)
(* An instruction is its kind, its length and the address it names.  What  *)
(* follows the chosen instructions is one long plain instruction.          *)
(***************************************************************************)
EXTENDS Integers, Sequences

CONSTANTS
  targetAddress,
  CodeStart,     \* where the trampoline is written
  Kinds,         \* the kinds of instructions the function starts with
  Count,         \* how many instructions are chosen
  Outside,       \* addresses out of the function's start that it jumps to
  Data,          \* addresses that RIP-relative operands name
  HalfRange      \* 2^31, scaled: the reach of a 32-bit displacement

ASSUME TrampolineAssumption ==
  /\ targetAddress \in Nat \ {0}
  /\ CodeStart \in Nat /\ Count \in Nat /\ HalfRange \in Nat \ {0}
  /\ Outside \cup Data \subseteq Nat

JmpRel == 5   \* sizeof(JMP_REL)
JmpAbs == 14  \* sizeof(JMP_ABS)
JccAbs == 16  \* sizeof(JCC_ABS)

\* What the tests of a destination call the inside of the function.
Internal(a) == targetAddress <= a /\ a < targetAddress + JmpRel

Jumps == {"jmp", "jcc", "loop"}

Lengths(kind) ==
  CASE kind = "plain" -> {1, 2, 4}
    [] kind \in {"rip", "rip_jmp"} -> {6}
    [] kind = "call" -> {5}
    [] kind = "jmp" -> {2, 5}
    [] kind = "jcc" -> {2, 6}
    [] kind = "loop" -> {2}
    [] OTHER -> {1}

Named(kind) ==
  CASE kind \in {"rip", "rip_jmp"} -> Data
    [] kind = "call" -> Outside
    [] kind \in Jumps ->
         Outside \cup (targetAddress .. targetAddress + JmpRel - 1)
    [] OTHER -> {0}

Instruction == UNION {[kind : {k}, len : Lengths(k), dest : Named(k)] : k \in Kinds}

Rest == [kind |-> "plain", len |-> JmpRel, dest |-> 0]

Indices == 1..Count + 2
At(c, j) == IF j \in 1..Count THEN c[j] ELSE Rest

\* Where each instruction starts.
Starts(c) ==
  LET start[j \in Indices] ==
        IF j = 1 THEN targetAddress ELSE start[j - 1] + At(c, j - 1).len
  IN  start

\* Functions do not jump into the middle of their instructions.
Codes ==
  {c \in [1..Count -> Instruction] :
     \A i \in 1..Count, j \in 1..Count + 1 :
       c[i].kind \in Jumps =>
         ~(Starts(c)[j] < c[i].dest /\ c[i].dest < Starts(c)[j + 1])}

VARIABLES
  code,       \* the instructions the function starts with
  k,          \* the instruction at currentAddr
  out,        \* what has been written, one item for each instruction
  maxJmpRef,
  result,     \* what CreateTrampoline returned
  phase,
  original,   \* the next instruction of the original code
  copy        \* the address of the next item of the trampoline

vars == <<code, k, out, maxJmpRef, result, phase, original, copy>>

Inst(j) == At(code, j)
Address(j) == Starts(code)[j]
After(j) == Address(j) + Inst(j).len
codePtr == IF out = <<>> THEN CodeStart
           ELSE out[Len(out)].at + out[Len(out)].len

\* A jump that stays inside of the function.
InnerJump(j) == Inst(j).kind \in Jumps /\ Internal(Inst(j).dest)

\* A 32-bit displacement, and back.
Signed(x) == ((x + HalfRange) % (2 * HalfRange)) - HalfRange

Init ==
  /\ code \in Codes
  /\ k = 1
  /\ out = <<>>
  /\ maxJmpRef = 0
  /\ result = 0
  /\ phase = "decode"
  /\ original = 1
  /\ copy = CodeStart

-----------------------------------------------------------------------------
(* The loop of CreateTrampoline                                            *)

Ends(n) ==
  /\ result' = n
  /\ phase' = IF n >= JmpRel THEN "run" ELSE "none"
  /\ UNCHANGED <<code, k, original, copy>>

Undecodable ==
  /\ phase = "decode"
  /\ Inst(k).kind = "bad"
  /\ Ends(0)
  /\ UNCHANGED <<out, maxJmpRef>>

\* Enough room for the jump: go on where the original code goes on.
JumpBack ==
  /\ phase = "decode"
  /\ Inst(k).kind # "bad"
  /\ Address(k) - targetAddress >= JmpRel
  /\ out' = Append(out, [op |-> "jmp", at |-> codePtr, len |-> JmpAbs,
                         dest |-> Address(k)])
  /\ Ends(Address(k) - targetAddress)
  /\ UNCHANGED maxJmpRef

\* Write an item for instruction k and go to the next, or be finished.
Emits(op, len, dest, finished) ==
  /\ phase = "decode"
  /\ Address(k) - targetAddress < JmpRel
  /\ out' = Append(out, [op |-> op, at |-> codePtr, len |-> len, dest |-> dest])
  /\ IF finished
       THEN Ends(After(k) - targetAddress)
       ELSE k' = k + 1 /\ UNCHANGED <<code, result, phase, original, copy>>

CopyPlain ==
  /\ Inst(k).kind = "plain"
  /\ Emits("copy", Inst(k).len, 0, FALSE)
  /\ UNCHANGED maxJmpRef

\* relAddr = currentAddr + disp - codePtr, cut to 32 bits; FF /4 is a jump.
RelocateOperand ==
  /\ Inst(k).kind \in {"rip", "rip_jmp"}
  /\ Emits("rip", Inst(k).len, Signed(Inst(k).dest - Inst(k).len - codePtr),
           Inst(k).kind = "rip_jmp")
  /\ UNCHANGED maxJmpRef

TransformCall ==
  /\ Inst(k).kind = "call"
  /\ Emits("jmp", JmpAbs, Inst(k).dest, FALSE)
  /\ UNCHANGED maxJmpRef

\* A jump inside of the function is copied as it is, and remembered.
CopyInternalJump ==
  /\ InnerJump(k)
  /\ maxJmpRef' = IF maxJmpRef < Inst(k).dest THEN Inst(k).dest ELSE maxJmpRef
  /\ Emits("copy", Inst(k).len, Inst(k).dest - After(k), FALSE)

\* Mutant: the test for the end turned round
JumpReadsOn ==
  /\ Inst(k).kind = "jmp"
  /\ ~Internal(Inst(k).dest)
  /\ Emits("jmp", JmpAbs, Inst(k).dest, targetAddress < maxJmpRef)
  /\ UNCHANGED maxJmpRef

TransformJump ==
  /\ Inst(k).kind = "jmp"
  /\ ~Internal(Inst(k).dest)
  /\ Emits("jmp", JmpAbs, Inst(k).dest, targetAddress >= maxJmpRef)
  /\ UNCHANGED maxJmpRef

\* Mutant: the inverted condition not inverted back
JumpUnconditionally ==
  /\ Inst(k).kind = "jcc"
  /\ ~Internal(Inst(k).dest)
  /\ Emits("jmp", JmpAbs, Inst(k).dest, FALSE)
  /\ UNCHANGED maxJmpRef

TransformConditional ==
  /\ Inst(k).kind = "jcc"
  /\ ~Internal(Inst(k).dest)
  /\ Emits("jcc", JccAbs, Inst(k).dest, FALSE)
  /\ UNCHANGED maxJmpRef

\* LOOP and JECXZ to the outside: the assertion is empty, 0 is returned.
RefuseLoop ==
  /\ phase = "decode"
  /\ Address(k) - targetAddress < JmpRel
  /\ Inst(k).kind = "loop"
  /\ ~Internal(Inst(k).dest)
  /\ Ends(0)
  /\ UNCHANGED <<out, maxJmpRef>>

\* Mutant: every RET ends the function
EndAtReturn ==
  /\ Inst(k).kind = "ret"
  /\ Emits("copy", Inst(k).len, 0, TRUE)
  /\ UNCHANGED maxJmpRef

CopyReturn ==
  /\ Inst(k).kind = "ret"
  /\ Emits("copy", Inst(k).len, 0, Address(k) >= maxJmpRef)
  /\ UNCHANGED maxJmpRef

Decode ==
  \/ Undecodable \/ JumpBack \/ CopyPlain \/ RelocateOperand \/ TransformCall
  \/ CopyInternalJump \/ TransformJump \/ TransformConditional \/ RefuseLoop
  \/ CopyReturn

-----------------------------------------------------------------------------
(* The original code and the trampoline, side by side                      *)

\* What instruction j does besides going on, and where it goes on, if it is
\* a condition by whether it holds.
Effect(j) ==
  CASE Inst(j).kind \in Jumps -> <<"none", 0>>
    [] Inst(j).kind = "plain" -> <<"plain", j>>
    [] OTHER -> <<Inst(j).kind, Inst(j).dest>>

Goes(j, holds) ==
  IF Inst(j).kind = "jmp" \/ (Inst(j).kind \in {"jcc", "loop"} /\ holds)
    THEN Inst(j).dest ELSE After(j)

\* The same of item i of the trampoline, which was written for instruction i.
ItemEffect(i) ==
  CASE out[i].op \in {"jmp", "jcc"} -> <<"none", 0>>
    [] out[i].op = "rip" -> <<Inst(i).kind, out[i].at + out[i].len + out[i].dest>>
    [] OTHER -> Effect(i)

ItemGoes(i, holds) ==
  LET next == out[i].at + out[i].len
      jumps == Inst(i).kind = "jmp" \/ (Inst(i).kind \in {"jcc", "loop"} /\ holds)
  IN  CASE out[i].op = "jmp" -> out[i].dest
        [] out[i].op = "jcc" -> IF holds THEN out[i].dest ELSE next
        [] OTHER -> IF jumps THEN next + out[i].dest ELSE next

Leaves(j) == Inst(j).kind \in {"ret", "rip_jmp"}

Copied(a) == targetAddress <= a /\ a < targetAddress + result

\* The trampoline at t is where the original code at a would be: at the item
\* of the same instruction, or gone to a itself.
InStep(a, t) ==
  IF Copied(a) THEN \E j \in 1..Len(out) : Address(j) = a /\ out[j].at = t
  ELSE t = a \/ (t = out[Len(out)].at /\ out[Len(out)] =
                   [op |-> "jmp", at |-> t, len |-> JmpAbs, dest |-> a])

Run ==
  /\ phase = "run"
  /\ \E holds \in BOOLEAN :
       LET i == CHOOSE i \in 1..Len(out) : out[i].at = copy
           a == Goes(original, holds)
           t == ItemGoes(i, holds)
       IN  IF Effect(original) # ItemEffect(i)
                \/ (~Leaves(original) /\ ~InStep(a, t))
             THEN phase' = "diverged" /\ UNCHANGED <<original, copy>>
             ELSE IF Leaves(original) \/ ~Copied(a)
             THEN phase' = "left" /\ UNCHANGED <<original, copy>>
             ELSE /\ original' = CHOOSE j \in Indices : Address(j) = a
                  /\ copy' = t
                  /\ UNCHANGED phase
  /\ UNCHANGED <<code, k, out, maxJmpRef, result>>

Next == Decode \/ Run

Spec == Init /\ [][Next]_vars

-----------------------------------------------------------------------------
\* The known ways in which a trampoline does something else: a call that has
\* become a jump, a displacement that does not reach the data from where the
\* trampoline is, and a copied jump over an item that is longer than the
\* instruction it was written for.
CallCopied == \E i \in 1..Len(out) - 1 : Inst(i).kind = "call"

OutOfReach ==
  \E i \in 1..Len(out) :
    out[i].op = "rip" /\ Inst(i).dest - (out[i].at + out[i].len)
                           \notin -HalfRange..HalfRange - 1

JumpOverLonger ==
  \E i, j \in 1..Len(out) :
    /\ out[i].op = "copy" /\ Inst(i).kind \in Jumps
    /\ out[j].len # Inst(j).len
    /\ IF Inst(i).dest <= Address(i) THEN Inst(i).dest <= Address(j) /\ j < i
                                   ELSE i < j /\ Address(j) < Inst(i).dest

\* Without these the trampoline does what the original instructions do, on
\* every path through them and however often they are gone round.
DivergesOnlyKnownWays ==
  phase = "diverged" => CallCopied \/ OutOfReach \/ JumpOverLonger

\* A number below five says that the function ended too early: no copied
\* instruction leads to one that was not copied.
ShortOnlyIfEnded ==
  phase = "none" /\ result > 0 =>
    /\ \A i \in 1..Len(out) : InnerJump(i) => Inst(i).dest < targetAddress + result
    /\ Inst(Len(out)).kind \in {"ret", "jmp", "rip_jmp"}

\* "it does exactly the same thing what code at targetAddress does": of a
\* function, that is; a target that is a call instruction is a call site, and
\* what its trampoline has to do is the call's destination.
SameBehaviour == Inst(1).kind # "call" => phase # "diverged"

\* "Exit the function if it is not in the branch": code behind a return is
\* decoded only if a jump before it leads behind it, and code behind a jump out
\* of the function only if a jump before it leads anywhere behind the
\* function's first instruction (not, as the comment says, behind that jump).
ReadsOnOnlyInBranch ==
  \A i \in 1..Len(out) - 1 :
    /\ Inst(i).kind = "ret" =>
         \E j \in 1..i - 1 : InnerJump(j) /\ Inst(j).dest > Address(i)
    /\ Inst(i).kind = "jmp" /\ ~Internal(Inst(i).dest) =>
         \E j \in 1..i - 1 : InnerJump(j) /\ Inst(j).dest > targetAddress
=============================================================================
