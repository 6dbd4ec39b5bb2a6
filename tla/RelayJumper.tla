----------------------------- MODULE RelayJumper -----------------------------
(***************************************************************************)
(* One call of a hooked function, from the caller's call instruction to    *)
(* its return: the relay jumper that GenerateCode writes, run on the       *)
(* registers and the stack of the Windows x64 calling convention, and the  *)
(* compile-time relay it jumps to.                                         *)
(*                                                                         *)
(* Addresses and the stack pointer count dwords from where the caller's    *)
(* stack pointer was when it executed the call.  A parameter slot is a     *)
(* register, the first four, or two dwords of the stack.                   *)
(***************************************************************************)
EXTENDS Integers, Sequences

CONSTANT MaxArgs  \* the most arguments a hooked function takes

ASSUME MaxArgsAssumption == MaxArgs \in Nat

VARIABLES
  nargs,       \* sizeof...(Args)
  bigResult,   \* the result does not fit RAX: slot 0 is a pointer to it
  classResult, \* the result is no void, fundamental type, pointer or reference
  pc,          \* where the call is
  next,        \* in the jumper: its next instruction
  rsp, rax,
  reg,         \* RCX, RDX, R8 and R9, by slot
  mem,         \* the stack, by dword
  seen         \* the parameters the relay read

vars == <<nargs, bigResult, classResult, pc, next, rsp, rax, reg, mem, seen>>

RegisterSlots == 0..3
HomeDwords == 8  \* the 32 bytes a caller leaves for the register parameters

\* The values that are passed around, and the halves of one in memory.
Argument(i) == <<"argument", i>>
ResultPointer == <<"result", 0>>
Payload == <<"payload", 0>>
ReturnAddress == <<"return", 0>>
Junk == <<"junk", 0>>
Lo(v) == <<v, "lo">>
Hi(v) == <<v, "hi">>

\* Generate: each argument takes one slot, and so does a result that is no
\* fundamental type, pointer or reference, whether it fits RAX or not.
FirstFreeSlot == nargs + (IF classResult THEN 1 ELSE 0)

\* An enum, or a structure of one, two, four or eight bytes: a slot is counted
\* that the caller does not use.
SlotMiscounted == classResult # bigResult

\* What the caller puts into a slot, and into how many.
CallerSlots == nargs + (IF bigResult THEN 1 ELSE 0)
CallerSlot(s) ==
  IF ~bigResult THEN Argument(s)
  ELSE IF s = 0 THEN ResultPointer ELSE Argument(s - 1)

\* The lowest dword of a stack slot, for a callee whose return address is at
\* stack pointer sp.
SlotAddress(sp, s) == sp + 2 + HomeDwords + 2 * (s - 4)

StackTop == HomeDwords + 2 * MaxArgs + 2
StackBottom == -8
Stack == StackBottom..StackTop

Load(a) == IF mem[a][2] = "lo" /\ mem[a + 1] = Hi(mem[a][1]) THEN mem[a][1]
           ELSE Junk
Stored(a, v) == [mem EXCEPT ![a] = Lo(v), ![a + 1] = Hi(v)]
ReadSlot(s) == IF s \in RegisterSlots THEN reg[s] ELSE Load(SlotAddress(rsp, s))

-----------------------------------------------------------------------------
(* The instructions GenerateCode emits                                     *)

(* Mutants of StackPath: no room made for the payload; room for the payload *)
(* only, without the dummy.                                                *)
StackPathInPlace ==
  << [op |-> "store lo", at |-> 8], [op |-> "store hi", at |-> 9] >>

StackPathOdd ==
  << [op |-> "sub rsp", at |-> 2],
     [op |-> "store lo", at |-> 8], [op |-> "store hi", at |-> 9] >>

\* 16 bytes are made and the payload stored at [RSP+0x20], in two halves.
StackPath ==
  << [op |-> "sub rsp", at |-> 4],
     [op |-> "store lo", at |-> 8], [op |-> "store hi", at |-> 9] >>

\* RDX, R8 or R9 is loaded.  The switch has no case for RCX: without the two
\* bytes of the opcode the payload itself is executed.
RegisterPath(s) ==
  << IF s = 0 THEN [op |-> "data", at |-> 0] ELSE [op |-> "mov", at |-> s] >>

LoadPayload ==
  IF FirstFreeSlot > 3 THEN StackPath ELSE RegisterPath(FirstFreeSlot)

\* Mutant: the return address is not put back.
JumperWithoutPush ==
  << [op |-> "pop rax", at |-> 0] >> \o LoadPayload \o << [op |-> "jmp", at |-> 0] >>

\* The return address is taken off the stack while the payload is put there.
Jumper ==
  << [op |-> "pop rax", at |-> 0] >>
    \o LoadPayload
    \o << [op |-> "push rax", at |-> 0], [op |-> "jmp", at |-> 0] >>

-----------------------------------------------------------------------------
\* The parameters of the relay, in order.  A relay whose hook goes on the
\* stack is split: the head goes in registers, a dummy follows the hook, and
\* the tail stays on the stack.
Split == FirstFreeSlot > 3

\* Mutant: the slot of the result is not counted in the head
HeadOfFour == 4

HeadSize == IF classResult THEN 3 ELSE 4

\* TupleSlice: the arguments from first on, up to and with last.
Arguments(first, last) ==
  [i \in 1..(IF first > last THEN 0 ELSE last - first + 1) |-> Argument(first + i - 1)]

RelayParameters ==
  (IF bigResult THEN <<ResultPointer>> ELSE <<>>)
    \o (IF Split THEN Arguments(0, HeadSize - 1) \o <<Payload, Junk>>
                        \o Arguments(HeadSize, nargs - 1)
                 ELSE Arguments(0, nargs - 1) \o <<Payload>>)

Init ==
  /\ nargs \in 0..MaxArgs
  /\ bigResult \in BOOLEAN
  /\ classResult \in BOOLEAN /\ (bigResult => classResult)
  /\ pc = "caller"
  /\ next = 1
  /\ rsp = 0
  /\ rax = Junk
  /\ reg = [s \in RegisterSlots |->
              IF s < CallerSlots THEN CallerSlot(s) ELSE Junk]
  /\ mem = [a \in Stack |->
              LET s == 4 + (a - HomeDwords) \div 2 IN
              IF a < HomeDwords \/ s >= CallerSlots THEN Lo(Junk)
              ELSE IF a % 2 = 0 THEN Lo(CallerSlot(s)) ELSE Hi(CallerSlot(s))]
  /\ seen = <<>>

\* The patched entry jumps to the relay jumper.
Call ==
  /\ pc = "caller"
  /\ rsp' = rsp - 2
  /\ mem' = Stored(rsp - 2, ReturnAddress)
  /\ pc' = "jumper"
  /\ UNCHANGED <<nargs, bigResult, classResult, next, rax, reg, seen>>

Executes(op) == pc = "jumper" /\ Jumper[next].op = op
Operand == Jumper[next].at

PopRax ==
  /\ Executes("pop rax")
  /\ rax' = Load(rsp)
  /\ rsp' = rsp + 2
  /\ next' = next + 1
  /\ UNCHANGED <<nargs, bigResult, classResult, pc, reg, mem, seen>>

SubRsp ==
  /\ Executes("sub rsp")
  /\ rsp' = rsp - Operand
  /\ next' = next + 1
  /\ UNCHANGED <<nargs, bigResult, classResult, pc, rax, reg, mem, seen>>

StoreHalf ==
  /\ Executes("store lo") \/ Executes("store hi")
  /\ mem' = [mem EXCEPT ![rsp + Operand] =
               IF Jumper[next].op = "store lo" THEN Lo(Payload) ELSE Hi(Payload)]
  /\ next' = next + 1
  /\ UNCHANGED <<nargs, bigResult, classResult, pc, rsp, rax, reg, seen>>

MovImmediate ==
  /\ Executes("mov")
  /\ reg' = [reg EXCEPT ![Operand] = Payload]
  /\ next' = next + 1
  /\ UNCHANGED <<nargs, bigResult, classResult, pc, rsp, rax, mem, seen>>

RunData ==
  /\ Executes("data")
  /\ pc' = "lost"
  /\ UNCHANGED <<nargs, bigResult, classResult, next, rsp, rax, reg, mem, seen>>

PushRax ==
  /\ Executes("push rax")
  /\ rsp' = rsp - 2
  /\ mem' = Stored(rsp - 2, rax)
  /\ next' = next + 1
  /\ UNCHANGED <<nargs, bigResult, classResult, pc, rax, reg, seen>>

JumpToRelay ==
  /\ Executes("jmp")
  /\ pc' = "relay"
  /\ UNCHANGED <<nargs, bigResult, classResult, next, rsp, rax, reg, mem, seen>>

\* The relay's prologue may spill its register parameters into its home.
SpillHome ==
  /\ pc = "relay"
  /\ mem' = [a \in Stack |->
               IF a \in rsp + 2 .. rsp + 1 + HomeDwords THEN Lo(Junk) ELSE mem[a]]
  /\ pc' = "body"
  /\ UNCHANGED <<nargs, bigResult, classResult, next, rsp, rax, reg, seen>>

\* Relay hands what it read to the callback or to the trampoline, both of
\* which it looks up in its hook: there is no telling what it finds through
\* another value.
CallHook ==
  /\ pc = "body"
  /\ seen' = [i \in 1..Len(RelayParameters) |-> ReadSlot(i - 1)]
  /\ pc' = IF \A i \in DOMAIN RelayParameters :
                 RelayParameters[i] = Payload => seen'[i] = Payload
             THEN "return" ELSE "lost"
  /\ UNCHANGED <<nargs, bigResult, classResult, next, rsp, rax, reg, mem>>

Return ==
  /\ pc = "return"
  /\ rsp' = rsp + 2
  /\ pc' = IF Load(rsp) = ReturnAddress THEN "returned" ELSE "lost"
  /\ UNCHANGED <<nargs, bigResult, classResult, next, rax, reg, mem, seen>>

Next ==
  \/ Call \/ PopRax \/ SubRsp \/ StoreHalf \/ MovImmediate \/ RunData
  \/ PushRax \/ JumpToRelay \/ SpillHome \/ CallHook \/ Return

Spec == Init /\ [][Next]_vars
FairSpec == Spec /\ WF_vars(Next)

-----------------------------------------------------------------------------
\* The relay finds each argument of the game, and its hook, where its compiled
\* code looks for them, also when arguments and payload go on the stack; of
\* its parameters only the dummy may be anything.  If a slot was miscounted the
\* hook is one place behind: the relay takes the fourth argument for it, or
\* whatever was in the slot; it finds the other arguments.
RelayGetsItsParameters ==
  seen # <<>> =>
    \A i \in DOMAIN RelayParameters :
      LET p == RelayParameters[i] IN
      p # Junk =>
        seen[i] = IF ~SlotMiscounted THEN p
                  ELSE IF p = Payload THEN IF nargs > 3 THEN Argument(3) ELSE Junk
                  ELSE IF p = Argument(3) THEN Junk ELSE p

\* "If return value cannot be stored in RAX, use first slot for it": with the
\* slots counted like that the relay's last argument is its hook.  It is not for
\* every signature (RelayGetsItsParameters says when), so it is proved only
\* where no slot is miscounted.
RelayGetsItsHook ==
  seen # <<>> =>
    \A i \in DOMAIN RelayParameters : RelayParameters[i] = Payload => seen[i] = Payload

\* The jumper writes nowhere in the caller's frame: the arguments above the
\* home area stay, as does all that lies above them.
CallerFrameKept ==
  [][ \A a \in Stack : a >= HomeDwords => mem'[a] = mem[a] ]_vars

\* The stack pointer through a hooked call.  "keep 16 bytes alignment": as
\* after any call, it is eight off a multiple of sixteen when the relay starts.
\* A call whose payload goes in a register ends with the stack pointer its
\* caller had.  One whose payload goes on the stack comes back with the sixteen
\* bytes still taken that the stack path makes room with, neither more nor
\* less, although "redirect call to relayAddr" promises a call as it was.  Only
\* a function without a slot before the payload, or with one too many, does not
\* come back at all.
StackPointerAccounted ==
  /\ pc = "relay" => rsp % 4 = 2
  /\ pc = "returned" => rsp = IF Split THEN -4 ELSE 0
  /\ pc = "lost" => FirstFreeSlot = 0 \/ SlotMiscounted

\* Every hooked call that has a slot for the payload, and the one the relay
\* looks into, comes back.
CallsComeBack == FirstFreeSlot > 0 /\ ~SlotMiscounted => <>(pc = "returned")
=============================================================================
