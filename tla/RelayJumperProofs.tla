-------------------------- MODULE RelayJumperProofs --------------------------
(***************************************************************************)
(* The relay jumper is right for functions of every number of arguments.   *)
(***************************************************************************)
EXTENDS RelayJumper, SequenceTheorems, TLAPS

\* A value lies in two dwords of the stack.
Lies(m, a, v) == m[a] = Lo(v) /\ m[a + 1] = Hi(v)

LEMMA LoadLies ==
  ASSUME NEW a, NEW v, Lies(mem, a, v)
  PROVE  Load(a) = v
<1>1. Lo(v)[1] = v /\ Lo(v)[2] = "lo"
  BY DEF Lo
<1> QED
  BY <1>1 DEF Load, Lies

LEMMA StoredLies ==
  ASSUME DOMAIN mem = Stack, NEW a \in Int, a \in Stack, a + 1 \in Stack, NEW v
  PROVE  /\ Lies(Stored(a, v), a, v) /\ DOMAIN Stored(a, v) = Stack
         /\ \A b \in Stack \ {a, a + 1} : Stored(a, v)[b] = mem[b]
  BY DEF Stored, Lies

Instructions ==
  [op : {"pop rax", "sub rsp", "store lo", "store hi", "mov", "data", "push rax", "jmp"}, at : Int]

Instruction(name, operand) == [op |-> name, at |-> operand]

LEMMA SomeInstructions ==
  ASSUME NEW a \in Instructions, NEW b \in Instructions, NEW c \in Instructions
  PROVE  /\ <<a>> \in Seq(Instructions) /\ Len(<<a>>) = 1 /\ <<a>>[1] = a
         /\ <<a, b>> \in Seq(Instructions) /\ Len(<<a, b>>) = 2
         /\ <<a, b>>[1] = a /\ <<a, b>>[2] = b
         /\ <<a, b, c>> \in Seq(Instructions) /\ Len(<<a, b, c>>) = 3
         /\ <<a, b, c>>[1] = a /\ <<a, b, c>>[2] = b /\ <<a, b, c>>[3] = c
  OBVIOUS

LEMMA EndInstructions ==
  /\ Instruction("pop rax", 0) \in Instructions /\ Instruction("pop rax", 0).op = "pop rax"
  /\ Instruction("push rax", 0) \in Instructions /\ Instruction("push rax", 0).op = "push rax"
  /\ Instruction("jmp", 0) \in Instructions /\ Instruction("jmp", 0).op = "jmp"
  BY DEF Instruction, Instructions

\* The jumper, whatever loads the payload.
LEMMA Assembled ==
  ASSUME NEW load, load \in Seq(Instructions), LoadPayload = load
  PROVE  /\ Jumper[1].op = "pop rax"
         /\ \A i \in 1 .. Len(load) : Jumper[i + 1] = load[i]
         /\ Jumper[Len(load) + 2].op = "push rax" /\ Jumper[Len(load) + 3].op = "jmp"
<1> DEFINE pop == Instruction("pop rax", 0)
           push == Instruction("push rax", 0)
           jmp == Instruction("jmp", 0)
           first == << pop >>
           last == << push, jmp >>
           head == first \o load
           n == Len(load)
<1>1. /\ pop \in Instructions /\ pop.op = "pop rax"
      /\ push \in Instructions /\ push.op = "push rax"
      /\ jmp \in Instructions /\ jmp.op = "jmp"
  BY EndInstructions
<1>2. Jumper = head \o last
  BY DEF Jumper, Instruction
<1> HIDE DEF pop, push, jmp
<1>3. /\ first \in Seq(Instructions) /\ Len(first) = 1 /\ first[1] = pop
      /\ last \in Seq(Instructions) /\ Len(last) = 2 /\ last[1] = push /\ last[2] = jmp
  BY <1>1, SomeInstructions
<1> HIDE DEF first, last
<1>4. /\ head \in Seq(Instructions) /\ Len(head) = Len(first) + Len(load)
      /\ \A i \in 1 .. Len(first) + Len(load) :
           head[i] = IF i <= Len(first) THEN first[i] ELSE load[i - Len(first)]
  BY <1>3, ConcatProperties
<1> HIDE DEF head
<1>5. \A i \in 1 .. Len(head) + Len(last) :
        Jumper[i] = IF i <= Len(head) THEN head[i] ELSE last[i - Len(head)]
  BY <1>2, <1>3, <1>4, ConcatProperties
<1>6. n \in Nat /\ Len(load) = n
  BY LenProperties
<1> HIDE DEF n
<1>7. /\ \A i \in 1 .. n + 1 : head[i] = IF i <= 1 THEN first[i] ELSE load[i - 1]
      /\ \A i \in 1 .. n + 3 : Jumper[i] = IF i <= n + 1 THEN head[i] ELSE last[i - (n + 1)]
  <2>1. Len(first) + Len(load) = n + 1 /\ Len(head) = n + 1 /\ Len(head) + Len(last) = n + 3
    BY <1>3, <1>4, <1>6
  <2> QED
    BY <1>3, <1>4, <1>5, <2>1
<1>8. Jumper[1] = pop
  <2>1. 1 \in 1 .. n + 1 /\ 1 \in 1 .. n + 3 /\ 1 <= n + 1 /\ 1 <= 1
    BY <1>6
  <2> QED
    BY <1>3, <1>7, <2>1
<1>9. ASSUME NEW i \in 1 .. n PROVE Jumper[i + 1] = load[i]
  <2>1. /\ i + 1 \in 1 .. n + 1 /\ i + 1 \in 1 .. n + 3 /\ i + 1 <= n + 1 /\ ~(i + 1 <= 1)
        /\ i + 1 - 1 = i
    BY <1>6
  <2>2. Jumper[i + 1] = head[i + 1]
    BY <1>7, <2>1
  <2>3. head[i + 1] = load[i + 1 - 1]
    BY <1>7, <2>1
  <2> QED
    BY <2>1, <2>2, <2>3, Zenon
<1>10. ASSUME NEW i \in 1 .. 2 PROVE Jumper[n + 1 + i] = last[i]
  <2>1. /\ n + 1 + i \in 1 .. n + 3 /\ ~(n + 1 + i <= n + 1)
        /\ n + 1 + i - (n + 1) = i
    BY <1>6
  <2>2. ASSUME NEW k \in 1 .. n + 3, ~(k <= n + 1) PROVE Jumper[k] = last[k - (n + 1)]
    BY <1>7, <2>2
  <2> DEFINE j == n + 1 + i
  <2>3. j \in 1 .. n + 3 /\ ~(j <= n + 1) /\ j - (n + 1) = i
    BY <1>6, <2>1
  <2> HIDE DEF j
  <2>4. Jumper[j] = last[j - (n + 1)]
    BY <2>2, <2>3, Zenon
  <2> QED
    BY <2>3, <2>4, Zenon DEF j
<1>11. Jumper[n + 2] = push /\ Jumper[n + 3] = jmp
  <2>1. 1 \in 1 .. 2 /\ 2 \in 1 .. 2 /\ n + 1 + 1 = n + 2 /\ n + 1 + 2 = n + 3
    BY <1>6
  <2>2. Jumper[n + 1 + 1] = last[1] /\ Jumper[n + 1 + 2] = last[2]
    BY <1>10, <2>1, Zenon
  <2> QED
    BY <1>3, <2>1, <2>2, Zenon
<1> QED
  BY <1>1, <1>6, <1>8, <1>9, <1>11

LEMMA SplitJumper ==
  ASSUME Split
  PROVE  /\ Jumper[1].op = "pop rax"
         /\ Jumper[2].op = "sub rsp" /\ Jumper[2].at = 4
         /\ Jumper[3].op = "store lo" /\ Jumper[3].at = 8
         /\ Jumper[4].op = "store hi" /\ Jumper[4].at = 9
         /\ Jumper[5].op = "push rax"
         /\ Jumper[6].op = "jmp"
<1> DEFINE sub == Instruction("sub rsp", 4)
           lo == Instruction("store lo", 8)
           hi == Instruction("store hi", 9)
           load == << sub, lo, hi >>
<1>1. /\ sub \in Instructions /\ sub.op = "sub rsp" /\ sub.at = 4
      /\ lo \in Instructions /\ lo.op = "store lo" /\ lo.at = 8
      /\ hi \in Instructions /\ hi.op = "store hi" /\ hi.at = 9
  BY DEF Instruction, Instructions
<1>2. LoadPayload = load
  BY DEF LoadPayload, StackPath, Instruction, Split
<1> HIDE DEF sub, lo, hi
<1>3. /\ load \in Seq(Instructions) /\ Len(load) = 3
      /\ load[1] = sub /\ load[2] = lo /\ load[3] = hi
  BY <1>1, SomeInstructions
<1> HIDE DEF load
<1>4. /\ Jumper[1].op = "pop rax"
      /\ Jumper[2] = load[1] /\ Jumper[3] = load[2] /\ Jumper[4] = load[3]
      /\ Jumper[5].op = "push rax" /\ Jumper[6].op = "jmp"
  <2>1. /\ Jumper[1].op = "pop rax"
        /\ \A i \in 1 .. Len(load) : Jumper[i + 1] = load[i]
        /\ Jumper[Len(load) + 2].op = "push rax" /\ Jumper[Len(load) + 3].op = "jmp"
    BY <1>2, <1>3, Assembled
  <2>2. 1 \in 1 .. Len(load) /\ 2 \in 1 .. Len(load) /\ 3 \in 1 .. Len(load)
    BY <1>3
  <2>3. Jumper[1 + 1] = load[1] /\ Jumper[2 + 1] = load[2] /\ Jumper[3 + 1] = load[3]
    BY <2>1, <2>2, Zenon
  <2>4. /\ 1 + 1 = 2 /\ 2 + 1 = 3 /\ 3 + 1 = 4
        /\ Len(load) + 2 = 5 /\ Len(load) + 3 = 6
    BY <1>3
  <2> QED
    BY <2>1, <2>3, <2>4, Zenon
<1> QED
  BY <1>1, <1>3, <1>4

LEMMA RegisterJumper ==
  ASSUME ~Split, FirstFreeSlot \in Nat, FirstFreeSlot # 0
  PROVE  /\ Jumper[1].op = "pop rax"
         /\ Jumper[2].op = "mov" /\ Jumper[2].at = FirstFreeSlot
         /\ Jumper[3].op = "push rax"
         /\ Jumper[4].op = "jmp"
<1> DEFINE mov == Instruction("mov", FirstFreeSlot)
           load == << mov >>
<1>1. mov \in Instructions /\ mov.op = "mov" /\ mov.at = FirstFreeSlot
  BY DEF Instruction, Instructions
<1>2. LoadPayload = load
  BY DEF LoadPayload, Split, RegisterPath, Instruction
<1> HIDE DEF mov
<1>3. load \in Seq(Instructions) /\ Len(load) = 1 /\ load[1] = mov
  BY <1>1, SomeInstructions
<1> HIDE DEF load
<1>4. /\ Jumper[1].op = "pop rax" /\ Jumper[2] = load[1]
      /\ Jumper[3].op = "push rax" /\ Jumper[4].op = "jmp"
  <2>1. /\ Jumper[1].op = "pop rax"
        /\ \A i \in 1 .. Len(load) : Jumper[i + 1] = load[i]
        /\ Jumper[Len(load) + 2].op = "push rax" /\ Jumper[Len(load) + 3].op = "jmp"
    BY <1>2, <1>3, Assembled
  <2>2. 1 \in 1 .. Len(load)
    BY <1>3
  <2>3. Jumper[1 + 1] = load[1]
    BY <2>1, <2>2, Zenon
  <2>4. /\ 1 + 1 = 2
        /\ Len(load) + 2 = 3 /\ Len(load) + 3 = 4
    BY <1>3
  <2> QED
    BY <2>1, <2>3, <2>4, Zenon
<1> QED
  BY <1>1, <1>3, <1>4

LEMMA DataJumper ==
  ASSUME FirstFreeSlot = 0
  PROVE  Jumper[1].op = "pop rax" /\ Jumper[2].op = "data"
<1> DEFINE data == Instruction("data", 0)
           load == << data >>
<1>1. data \in Instructions /\ data.op = "data"
  BY DEF Instruction, Instructions
<1>2. LoadPayload = load
  BY DEF LoadPayload, RegisterPath, Instruction
<1> HIDE DEF data
<1>3. load \in Seq(Instructions) /\ Len(load) = 1 /\ load[1] = data
  BY <1>1, SomeInstructions
<1> HIDE DEF load
<1>4. Jumper[1].op = "pop rax" /\ Jumper[2] = load[1]
  <2>1. Jumper[1].op = "pop rax" /\ \A i \in 1 .. Len(load) : Jumper[i + 1] = load[i]
    BY <1>2, <1>3, Assembled
  <2>2. 1 \in 1 .. Len(load)
    BY <1>3
  <2>3. Jumper[1 + 1] = load[1]
    BY <2>1, <2>2, Zenon
  <2>4. /\ 1 + 1 = 2
        /\ Len(load) + 2 = 3 /\ Len(load) + 3 = 4
    BY <1>3
  <2> QED
    BY <2>1, <2>3, <2>4, Zenon
<1> QED
  BY <1>1, <1>3, <1>4

-----------------------------------------------------------------------------
(* Where the arguments are, and where the call is.                         *)

\* Where a relay that miscounts a slot looks for its hook, and for the fourth
\* argument: nobody has put anything there.
Unused == (nargs \in RegisterSlots => reg[nargs] = Junk) /\ mem[6] = Lo(Junk)

\* What the caller has put into the slots is there until the call returns.
Frame ==
  /\ nargs \in 0 .. MaxArgs
  /\ bigResult \in BOOLEAN /\ classResult \in BOOLEAN /\ (bigResult => classResult)
  /\ DOMAIN mem = Stack /\ DOMAIN reg = RegisterSlots
  /\ \A s \in RegisterSlots : s < CallerSlots => reg[s] = CallerSlot(s)
  /\ \A s \in 4 .. CallerSlots - 1 : Lies(mem, HomeDwords + 2 * (s - 4), CallerSlot(s))
  /\ SlotMiscounted => Unused

Popped == rax = ReturnAddress
Pushed(sp) == rsp = sp /\ Lies(mem, sp, ReturnAddress)

\* The jumper, an instruction at a time, with the payload on the stack.
OnStack ==
  /\ Split
  /\ \/ next = 2 /\ rsp = 0 /\ Popped
     \/ next = 3 /\ rsp = -4 /\ Popped
     \/ next = 4 /\ rsp = -4 /\ Popped /\ mem[4] = Lo(Payload)
     \/ next = 5 /\ rsp = -4 /\ Popped /\ Lies(mem, 4, Payload)
     \/ next = 6 /\ Pushed(-6) /\ Lies(mem, 4, Payload)

\* The same with the payload in a register; a function without a slot gets as
\* far as the payload itself.
InRegister ==
  /\ ~Split
  /\ \/ next = 2 /\ rsp = 0 /\ Popped
     \/ next = 3 /\ rsp = 0 /\ Popped /\ FirstFreeSlot > 0 /\ reg[FirstFreeSlot] = Payload
     \/ next = 4 /\ Pushed(-2) /\ FirstFreeSlot > 0 /\ reg[FirstFreeSlot] = Payload

\* What the relay finds when it is entered.
Entered ==
  /\ FirstFreeSlot > 0
  /\ IF Split THEN Pushed(-6) /\ Lies(mem, 4, Payload)
              ELSE Pushed(-2) /\ reg[FirstFreeSlot] = Payload

Place ==
  \/ pc = "caller" /\ next = 1 /\ rsp = 0
  \/ pc = "jumper" /\ next = 1 /\ Pushed(-2)
  \/ pc = "jumper" /\ (OnStack \/ InRegister)
  \/ pc \in {"relay", "body"} /\ Entered
  \/ pc = "return" /\ Entered
  \/ pc = "returned" /\ rsp = IF Split THEN -4 ELSE 0
  \/ pc = "lost" /\ (FirstFreeSlot = 0 \/ SlotMiscounted)

RInv == Frame /\ Place

LEMMA Facts ==
  ASSUME Frame
  PROVE  /\ FirstFreeSlot \in Nat /\ FirstFreeSlot <= MaxArgs + 1 /\ MaxArgs \in Nat
         /\ Split <=> FirstFreeSlot > 3
         /\ -8 .. 9 \subseteq Stack
         /\ CallerSlots \in Nat /\ CallerSlots <= FirstFreeSlot
         /\ SlotMiscounted => nargs = CallerSlots /\ FirstFreeSlot = nargs + 1
         /\ ~SlotMiscounted => CallerSlots = FirstFreeSlot
         /\ \A s \in 4 .. CallerSlots - 1 :
              /\ HomeDwords + 2 * (s - 4) \in Stack /\ HomeDwords + 2 * (s - 4) >= HomeDwords
              /\ HomeDwords + 2 * (s - 4) + 1 \in Stack
         /\ HomeDwords = 8
  BY MaxArgsAssumption DEF Frame, FirstFreeSlot, CallerSlots,
     SlotMiscounted, Split, Stack, StackBottom, StackTop, HomeDwords

SameSignature ==
  nargs' = nargs /\ bigResult' = bigResult /\ classResult' = classResult

\* The call goes on with the same signature, and hence the same jumper.
LEMMA SignatureKept ==
  ASSUME SameSignature
  PROVE  /\ FirstFreeSlot' = FirstFreeSlot /\ (Split' <=> Split)
         /\ CallerSlots' = CallerSlots /\ (SlotMiscounted' <=> SlotMiscounted)
         /\ RelayParameters' = RelayParameters
         /\ \A s \in Int : CallerSlot(s)' = CallerSlot(s)
<1>1. FirstFreeSlot' = FirstFreeSlot
  BY DEF FirstFreeSlot, SameSignature
<1>2. (Split' <=> Split)
  BY <1>1 DEF Split
<1>3. HeadSize' = HeadSize
  BY DEF HeadSize, SameSignature
<1>4. RelayParameters' = RelayParameters
  BY <1>2, <1>3 DEF RelayParameters, SameSignature
<1>5. \A s \in Int : CallerSlot(s)' = CallerSlot(s)
  BY DEF CallerSlot, SameSignature
<1>6. CallerSlots' = CallerSlots /\ (SlotMiscounted' <=> SlotMiscounted)
  BY DEF CallerSlots, SlotMiscounted, SameSignature
<1> QED
  BY <1>1, <1>2, <1>4, <1>5, <1>6

\* A step that leaves the registers of the arguments and the caller's frame
\* above the home area alone.
LEMMA FrameKept ==
  ASSUME Frame, SameSignature,
         DOMAIN mem' = Stack, \A a \in Stack : a >= HomeDwords => mem'[a] = mem[a],
         mem'[6] \in {mem[6], Lo(Junk)},
         DOMAIN reg' = RegisterSlots,
         \A s \in RegisterSlots : s < FirstFreeSlot => reg'[s] = reg[s]
  PROVE  Frame'
<1>1. /\ CallerSlots' = CallerSlots /\ \A s \in Int : CallerSlot(s)' = CallerSlot(s)
      /\ SlotMiscounted' <=> SlotMiscounted
  BY SignatureKept
<1>2. ASSUME NEW s \in RegisterSlots, s < CallerSlots PROVE reg'[s] = CallerSlot(s)'
  <2>1. s \in Int /\ s < FirstFreeSlot
    BY <1>2, Facts DEF RegisterSlots
  <2>2. reg[s] = CallerSlot(s)
    BY <1>2 DEF Frame
  <2> QED
    BY <1>1, <1>2, <2>1, <2>2
<1>3. ASSUME NEW s \in 4 .. CallerSlots - 1
      PROVE  Lies(mem', HomeDwords + 2 * (s - 4), CallerSlot(s)')
  <2> DEFINE a == HomeDwords + 2 * (s - 4)
  <2>1. /\ a \in Stack /\ a >= HomeDwords /\ a + 1 \in Stack /\ a + 1 >= HomeDwords /\ s \in Int
    BY Facts DEF Stack, StackBottom, StackTop, HomeDwords
  <2>2. Lies(mem, a, CallerSlot(s))
    BY DEF Frame
  <2> HIDE DEF a
  <2>3. mem'[a] = mem[a] /\ mem'[a + 1] = mem[a + 1]
    BY <2>1
  <2>4. Lies(mem', a, CallerSlot(s)')
    BY <1>1, <2>1, <2>2, <2>3 DEF Lies
  <2> QED
    BY <2>4 DEF a
<1>4. /\ nargs' \in 0 .. MaxArgs
      /\ bigResult' \in BOOLEAN /\ classResult' \in BOOLEAN /\ (bigResult' => classResult')
  BY DEF Frame, SameSignature
<1>5. ASSUME SlotMiscounted PROVE Unused'
  <2>1. mem[6] = Lo(Junk) /\ (nargs \in RegisterSlots => reg[nargs] = Junk)
    BY <1>5 DEF Frame, Unused
  <2>2. nargs < FirstFreeSlot /\ nargs' = nargs
    BY <1>5, Facts DEF SameSignature
  <2> QED
    BY <2>1, <2>2 DEF Unused
<1> QED
  BY <1>1, <1>2, <1>3, <1>4, <1>5, Facts DEF Frame, Lies

-----------------------------------------------------------------------------
(* The actions.                                                            *)

\* The instruction that is executed tells where the call is.
LEMMA AtInstruction ==
  ASSUME RInv, pc = "jumper"
  PROVE  /\ Jumper[next].op = "pop rax" => next = 1 /\ Pushed(-2)
         /\ Jumper[next].op = "sub rsp" =>
              Split /\ next = 2 /\ rsp = 0 /\ Popped /\ Operand = 4
         /\ Jumper[next].op = "store lo" =>
              Split /\ next = 3 /\ rsp = -4 /\ Popped /\ Operand = 8
         /\ Jumper[next].op = "store hi" =>
              Split /\ next = 4 /\ rsp = -4 /\ Popped /\ mem[4] = Lo(Payload) /\ Operand = 9
         /\ Jumper[next].op = "mov" =>
              /\ ~Split /\ next = 2 /\ rsp = 0 /\ Popped
              /\ FirstFreeSlot > 0 /\ Operand = FirstFreeSlot
         /\ Jumper[next].op = "data" => FirstFreeSlot = 0
         /\ Jumper[next].op = "push rax" =>
              /\ Popped
              /\ \/ Split /\ next = 5 /\ rsp = -4 /\ Lies(mem, 4, Payload)
                 \/ /\ ~Split /\ next = 3 /\ rsp = 0
                    /\ FirstFreeSlot > 0 /\ reg[FirstFreeSlot] = Payload
         /\ Jumper[next].op = "jmp" => Entered
<1>0. FirstFreeSlot \in Nat /\ (Split <=> FirstFreeSlot > 3)
  BY Facts DEF RInv
<1>1. CASE next = 1 /\ Pushed(-2)
  <2>1. Jumper[next].op = "pop rax"
    BY <1>0, <1>1, SplitJumper, RegisterJumper, DataJumper
  <2> QED
    BY <1>1, <2>1
<1>2. CASE OnStack
  <2>1. /\ Jumper[2].op = "sub rsp" /\ Jumper[2].at = 4
        /\ Jumper[3].op = "store lo" /\ Jumper[3].at = 8
        /\ Jumper[4].op = "store hi" /\ Jumper[4].at = 9
        /\ Jumper[5].op = "push rax"
        /\ Jumper[6].op = "jmp"
    BY <1>2, SplitJumper DEF OnStack
  <2>2. CASE next = 2
    BY <1>2, <2>1, <2>2 DEF OnStack, Operand
  <2>3. CASE next = 3
    BY <1>2, <2>1, <2>3 DEF OnStack, Operand
  <2>4. CASE next = 4
    BY <1>2, <2>1, <2>4 DEF OnStack, Operand
  <2>5. CASE next = 5
    BY <1>2, <2>1, <2>5 DEF OnStack
  <2>6. CASE next = 6
    <3>1. Pushed(-6) /\ Lies(mem, 4, Payload) /\ Split
      BY <1>2, <2>6 DEF OnStack
    <3>2. Entered
      BY <1>0, <3>1 DEF Entered
    <3> QED
      BY <2>1, <2>6, <3>2
  <2> QED
    BY <1>2, <2>2, <2>3, <2>4, <2>5, <2>6 DEF OnStack
<1>3. CASE InRegister /\ FirstFreeSlot # 0
  <2>1. /\ Jumper[2].op = "mov" /\ Jumper[2].at = FirstFreeSlot
        /\ Jumper[3].op = "push rax"
        /\ Jumper[4].op = "jmp"
    BY <1>0, <1>3, RegisterJumper DEF InRegister
  <2>2. CASE next = 2
    <3>1. ~Split /\ rsp = 0 /\ Popped /\ FirstFreeSlot > 0
      BY <1>0, <1>3, <2>2 DEF InRegister
    <3>2. Operand = FirstFreeSlot
      BY <2>1, <2>2 DEF Operand
    <3> QED
      BY <2>1, <2>2, <3>1, <3>2
  <2>3. CASE next = 3
    BY <1>3, <2>1, <2>3 DEF InRegister
  <2>4. CASE next = 4
    BY <1>3, <2>1, <2>4 DEF InRegister, Entered
  <2> QED
    BY <1>3, <2>2, <2>3, <2>4 DEF InRegister
<1>4. CASE InRegister /\ FirstFreeSlot = 0
  <2>0. next = 2
    BY <1>4 DEF InRegister
  <2>1. Jumper[next].op = "data"
    BY <1>4, <2>0, DataJumper
  <2> QED
    BY <1>4, <2>1
<1> QED
  BY <1>1, <1>2, <1>3, <1>4 DEF RInv, Place

LEMMA InitPlaced == Init => RInv
<1> SUFFICES ASSUME Init PROVE RInv
  OBVIOUS
<1>1. /\ nargs \in 0 .. MaxArgs /\ CallerSlots \in Nat
      /\ bigResult \in BOOLEAN /\ classResult \in BOOLEAN /\ (bigResult => classResult)
  BY MaxArgsAssumption DEF Init, CallerSlots
<1>2. DOMAIN reg = RegisterSlots /\ \A s \in RegisterSlots : s < CallerSlots => reg[s] = CallerSlot(s)
  BY DEF Init
<1>3. DOMAIN mem = Stack
  BY DEF Init
<1>4. ASSUME NEW s \in 4 .. CallerSlots - 1
      PROVE  Lies(mem, HomeDwords + 2 * (s - 4), CallerSlot(s))
  <2> DEFINE a == HomeDwords + 2 * (s - 4)
             Slot(x) == 4 + (x - HomeDwords) \div 2
  <2>1. /\ a \in Stack /\ a + 1 \in Stack /\ ~(a < HomeDwords) /\ ~(a + 1 < HomeDwords)
        /\ Slot(a) = s /\ Slot(a + 1) = s /\ ~(s >= CallerSlots)
        /\ a % 2 = 0 /\ (a + 1) % 2 # 0
    BY <1>1, MaxArgsAssumption DEF HomeDwords, Stack, StackBottom, StackTop, CallerSlots
  <2>2. \A x \in Stack : mem[x] =
          IF x < HomeDwords \/ Slot(x) >= CallerSlots THEN Lo(Junk)
          ELSE IF x % 2 = 0 THEN Lo(CallerSlot(Slot(x))) ELSE Hi(CallerSlot(Slot(x)))
    BY DEF Init
  <2> HIDE DEF a, Slot
  <2>3. mem[a] = Lo(CallerSlot(Slot(a))) /\ mem[a + 1] = Hi(CallerSlot(Slot(a + 1)))
    BY <2>1, <2>2
  <2> QED
    BY <2>1, <2>3, Zenon DEF Lies, a
<1>5. Place
  BY DEF Init, Place
<1>6. ASSUME SlotMiscounted PROVE Unused
  <2>1. CallerSlots = nargs
    BY <1>1, <1>6 DEF SlotMiscounted, CallerSlots
  <2>2. nargs \in RegisterSlots => reg[nargs] = Junk
    BY <1>1, <2>1 DEF Init
  <2>3. 6 \in Stack /\ 6 < HomeDwords
    BY MaxArgsAssumption DEF Stack, StackBottom, StackTop, HomeDwords
  <2>4. mem[6] = Lo(Junk)
    BY <2>3 DEF Init
  <2> QED
    BY <2>2, <2>4 DEF Unused
<1> QED
  BY <1>1, <1>2, <1>3, <1>4, <1>5, <1>6 DEF RInv, Frame

LEMMA CallPlaced ==
  ASSUME RInv, Call
  PROVE  RInv'
<1>1. rsp = 0 /\ next = 1
  BY DEF RInv, Place, Call
<1>2. Frame /\ -2 \in Stack /\ -2 + 1 \in Stack /\ DOMAIN mem = Stack
  BY Facts DEF RInv, Frame
<1>3. /\ mem' = Stored(-2, ReturnAddress)
      /\ SameSignature /\ reg' = reg /\ next' = 1
      /\ rsp' = -2 /\ pc' = "jumper"
  BY <1>1 DEF Call, SameSignature
<1>4. /\ Lies(mem', -2, ReturnAddress) /\ DOMAIN mem' = Stack
      /\ \A a \in Stack \ {-2, -2 + 1} : mem'[a] = mem[a]
  BY <1>2, <1>3, StoredLies
<1>5. mem'[6] = mem[6] /\ \A a \in Stack : a >= HomeDwords => mem'[a] = mem[a]
  BY <1>2, <1>4, Facts DEF HomeDwords
<1>6. Frame'
  BY <1>2, <1>3, <1>4, <1>5, FrameKept DEF Frame
<1> QED
  BY <1>3, <1>4, <1>6 DEF RInv, Place, Pushed, Lies

\* A step of the jumper that leaves the stack alone.
LEMMA QuietFrame ==
  ASSUME Frame, SameSignature, mem' = mem,
         DOMAIN reg' = RegisterSlots,
         \A s \in RegisterSlots : s < FirstFreeSlot => reg'[s] = reg[s]
  PROVE  Frame'
<1>1. DOMAIN mem' = Stack /\ \A a \in Stack : a >= HomeDwords => mem'[a] = mem[a]
  BY DEF Frame
<1>2. mem'[6] \in {mem[6], Lo(Junk)}
  OBVIOUS
<1> QED
  BY <1>1, <1>2, FrameKept

LEMMA PopPlaced ==
  ASSUME RInv, PopRax
  PROVE  RInv'
<1>1. /\ pc = "jumper" /\ Jumper[next].op = "pop rax"
      /\ rax' = Load(rsp) /\ rsp' = rsp + 2 /\ next' = next + 1
      /\ SameSignature /\ pc' = pc /\ reg' = reg /\ mem' = mem
  BY DEF PopRax, Executes, SameSignature
<1>2. next = 1 /\ Pushed(-2)
  BY <1>1, AtInstruction
<1>3. rax' = ReturnAddress /\ rsp' = 0 /\ next' = 2
  <2>1. rsp = -2 /\ Lies(mem, rsp, ReturnAddress)
    BY <1>2 DEF Pushed
  <2>2. Load(rsp) = ReturnAddress
    BY <2>1, LoadLies
  <2>3. rsp + 2 = 0 /\ next + 1 = 2
    BY <1>2, <2>1
  <2> QED
    BY <1>1, <2>2, <2>3
<1>4. Frame'
  BY <1>1, QuietFrame DEF RInv, Frame
<1>5. OnStack' \/ InRegister'
  BY <1>3 DEF OnStack, InRegister, Popped
<1> QED
  BY <1>1, <1>4, <1>5 DEF RInv, Place

LEMMA SubPlaced ==
  ASSUME RInv, SubRsp
  PROVE  RInv'
<1>1. /\ pc = "jumper" /\ Jumper[next].op = "sub rsp"
      /\ rsp' = rsp - Operand /\ next' = next + 1
      /\ SameSignature /\ pc' = pc /\ rax' = rax /\ reg' = reg
      /\ mem' = mem
  BY DEF SubRsp, Executes, SameSignature
<1>2. Split /\ next = 2 /\ rsp = 0 /\ Popped /\ Operand = 4
  BY <1>1, AtInstruction
<1>3. rax' = ReturnAddress /\ rsp' = -4 /\ next' = 3
  <2>1. rsp - Operand = -4 /\ next + 1 = 3
    BY <1>2
  <2>2. rax = ReturnAddress
    BY <1>2 DEF Popped
  <2> QED
    BY <1>1, <2>1, <2>2
<1>4. Frame'
  BY <1>1, QuietFrame DEF RInv, Frame
<1>5. OnStack'
  BY <1>1, <1>2, <1>3, SignatureKept DEF OnStack, Popped
<1> QED
  BY <1>1, <1>4, <1>5 DEF RInv, Place

\* The halves of the payload go to 4 and 5, in the caller's home area.
LEMMA StorePlaced ==
  ASSUME RInv, StoreHalf
  PROVE  RInv'
<1>1. /\ pc = "jumper" /\ (Jumper[next].op = "store lo" \/ Jumper[next].op = "store hi")
      /\ mem' = [mem EXCEPT ![rsp + Operand] =
                   IF Jumper[next].op = "store lo" THEN Lo(Payload) ELSE Hi(Payload)]
      /\ next' = next + 1
      /\ SameSignature /\ pc' = pc /\ rsp' = rsp /\ rax' = rax
      /\ reg' = reg
  BY DEF StoreHalf, Executes, SameSignature
<1>2. Frame /\ DOMAIN mem = Stack /\ 4 \in Stack /\ 5 \in Stack
  BY Facts DEF RInv, Frame
<1>3. (Split' <=> Split)
  BY <1>1, SignatureKept
<1>4. ASSUME NEW a \in {4, 5}, NEW v, mem' = [mem EXCEPT ![a] = v] PROVE Frame'
  <2>1. /\ DOMAIN mem' = Stack /\ \A b \in Stack : b >= HomeDwords => mem'[b] = mem[b]
        /\ mem'[6] = mem[6]
    BY <1>2, <1>4, Facts DEF HomeDwords
  <2> QED
    BY <1>1, <1>2, <2>1, FrameKept DEF Frame
<1>5. CASE Jumper[next].op = "store lo"
  <2>1. Split /\ next = 3 /\ rsp = -4 /\ Popped /\ Operand = 8
    BY <1>1, <1>5, AtInstruction
  <2>2. rsp + Operand = 4
    BY <2>1
  <2>3. mem' = [mem EXCEPT ![4] = Lo(Payload)]
    BY <1>1, <1>5, <2>2
  <2>4. mem'[4] = Lo(Payload)
    BY <1>2, <2>3
  <2>5. OnStack'
    <3>1. next + 1 = 4
      BY <2>1
    <3>2. next' = 4 /\ rsp' = -4 /\ Popped'
      BY <1>1, <2>1, <3>1, Zenon DEF Popped
    <3>3. Split'
      BY <1>3, <2>1
    <3> QED
      BY <2>4, <3>2, <3>3 DEF OnStack
  <2> QED
    BY <1>1, <1>4, <2>3, <2>5 DEF RInv, Place
<1>6. CASE Jumper[next].op = "store hi"
  <2>1. Split /\ next = 4 /\ rsp = -4 /\ Popped /\ mem[4] = Lo(Payload) /\ Operand = 9
    BY <1>1, <1>6, AtInstruction
  <2>2. rsp + Operand = 5
    BY <2>1
  <2>3. mem' = [mem EXCEPT ![5] = Hi(Payload)]
    <3>1. Jumper[next].op # "store lo"
      BY <1>6
    <3> QED
      BY <1>1, <2>2, <3>1
  <2>4. mem'[4] = Lo(Payload) /\ mem'[4 + 1] = Hi(Payload)
    BY <1>2, <2>1, <2>3
  <2>5. OnStack'
    <3>1. next + 1 = 5
      BY <2>1
    <3>2. next' = 5 /\ rsp' = -4 /\ Popped'
      BY <1>1, <2>1, <3>1, Zenon DEF Popped
    <3>3. Split'
      BY <1>3, <2>1
    <3> QED
      BY <2>4, <3>2, <3>3 DEF OnStack, Lies
  <2> QED
    BY <1>1, <1>4, <2>3, <2>5 DEF RInv, Place
<1> QED
  BY <1>1, <1>5, <1>6

LEMMA MovPlaced ==
  ASSUME RInv, MovImmediate
  PROVE  RInv'
<1>1. /\ pc = "jumper" /\ Jumper[next].op = "mov"
      /\ reg' = [reg EXCEPT ![Operand] = Payload] /\ next' = next + 1
      /\ SameSignature /\ pc' = pc /\ rsp' = rsp /\ rax' = rax
      /\ mem' = mem
  BY DEF MovImmediate, Executes, SameSignature
<1>2. ~Split /\ next = 2 /\ rsp = 0 /\ Popped /\ FirstFreeSlot > 0 /\ Operand = FirstFreeSlot
  BY <1>1, AtInstruction
<1>3. /\ DOMAIN reg = RegisterSlots /\ FirstFreeSlot \in RegisterSlots
      /\ FirstFreeSlot' = FirstFreeSlot /\ (Split' <=> Split)
  BY <1>1, <1>2, Facts, SignatureKept DEF RInv, Frame, RegisterSlots
<1>4. /\ DOMAIN reg' = RegisterSlots /\ reg'[FirstFreeSlot] = Payload
      /\ \A s \in RegisterSlots : s < FirstFreeSlot => reg'[s] = reg[s]
  <2> DEFINE f == FirstFreeSlot
  <2>1. f \in RegisterSlots /\ reg' = [reg EXCEPT ![f] = Payload]
    BY <1>1, <1>2, <1>3
  <2> HIDE DEF f
  <2>2. /\ DOMAIN reg' = RegisterSlots /\ reg'[f] = Payload
        /\ \A s \in RegisterSlots : s < f => reg'[s] = reg[s]
    BY <1>3, <2>1 DEF RegisterSlots
  <2> QED
    BY <2>2 DEF f
<1>5. Frame'
  BY <1>1, <1>4, QuietFrame DEF RInv
<1>6. InRegister'
  BY <1>1, <1>2, <1>3, <1>4 DEF InRegister, Popped
<1> QED
  BY <1>1, <1>5, <1>6 DEF RInv, Place

LEMMA DataPlaced ==
  ASSUME RInv, RunData
  PROVE  RInv'
<1>1. /\ pc = "jumper" /\ Jumper[next].op = "data" /\ pc' = "lost"
      /\ SameSignature /\ mem' = mem /\ reg' = reg
  BY DEF RunData, Executes, SameSignature
<1>2. FirstFreeSlot = 0 /\ FirstFreeSlot' = FirstFreeSlot
  BY <1>1, AtInstruction, SignatureKept
<1>3. Frame'
  BY <1>1, QuietFrame DEF RInv, Frame
<1> QED
  BY <1>1, <1>2, <1>3 DEF RInv, Place

\* The return address goes below the payload, or to where it was.
LEMMA PushPlaced ==
  ASSUME RInv, PushRax
  PROVE  RInv'
<1>1. /\ pc = "jumper" /\ Jumper[next].op = "push rax"
      /\ rsp' = rsp - 2 /\ mem' = Stored(rsp - 2, rax) /\ next' = next + 1
      /\ SameSignature /\ pc' = pc /\ reg' = reg
  BY DEF PushRax, Executes, SameSignature
<1>2. Frame /\ DOMAIN mem = Stack /\ -8 .. 9 \subseteq Stack
  BY Facts DEF RInv, Frame
<1>3. FirstFreeSlot' = FirstFreeSlot /\ (Split' <=> Split)
  BY <1>1, SignatureKept
<1>4. Popped
  BY <1>1, AtInstruction
<1>5. ASSUME NEW sp \in {-6, -2}, rsp - 2 = sp
      PROVE  /\ Frame' /\ Pushed(sp)'
             /\ Lies(mem, 4, Payload) => Lies(mem', 4, Payload)
  <2>1. sp \in Int /\ sp \in Stack /\ sp + 1 \in Stack
    BY <1>2
  <2>2. mem' = Stored(sp, ReturnAddress) /\ rsp' = sp
    BY <1>1, <1>4, <1>5 DEF Popped
  <2>3. /\ Lies(mem', sp, ReturnAddress) /\ DOMAIN mem' = Stack
        /\ \A a \in Stack \ {sp, sp + 1} : mem'[a] = mem[a]
    BY <1>2, <2>1, <2>2, StoredLies
  <2>4. \A a \in Stack : a >= 0 => mem'[a] = mem[a]
    BY <2>3
  <2>5. Frame'
    <3>1. mem'[6] = mem[6] /\ \A a \in Stack : a >= HomeDwords => mem'[a] = mem[a]
      BY <1>2, <2>4 DEF HomeDwords, Stack, StackBottom, StackTop
    <3>2. DOMAIN reg' = RegisterSlots
      BY <1>1, <1>2 DEF Frame
    <3> QED
      BY <1>1, <1>2, <2>3, <3>1, <3>2, FrameKept
  <2>6. Lies(mem, 4, Payload) => Lies(mem', 4, Payload)
    BY <1>2, <2>4 DEF Lies
  <2> QED
    BY <2>2, <2>3, <2>5, <2>6 DEF Pushed, Lies
<1>6. CASE Split /\ next = 5 /\ rsp = -4 /\ Lies(mem, 4, Payload)
  <2>1. rsp - 2 = -6
    BY <1>6
  <2>2. Frame' /\ Pushed(-6)' /\ Lies(mem', 4, Payload)
    BY <1>5, <1>6, <2>1
  <2>3. OnStack'
    <3>1. next + 1 = 6
      BY <1>6
    <3>2. next' = 6
      BY <1>1, <3>1, Zenon
    <3>3. Split'
      BY <1>3, <1>6
    <3> QED
      BY <2>2, <3>2, <3>3 DEF OnStack, Lies
  <2> QED
    BY <1>1, <2>2, <2>3 DEF RInv, Place
<1>7. CASE ~Split /\ next = 3 /\ rsp = 0 /\ FirstFreeSlot > 0 /\ reg[FirstFreeSlot] = Payload
  <2>1. rsp - 2 = -2
    BY <1>7
  <2>2. Frame' /\ Pushed(-2)'
    BY <1>5, <2>1
  <2>3. InRegister'
    <3>1. next + 1 = 4
      BY <1>7
    <3>2. next' = 4
      BY <1>1, <3>1, Zenon
    <3>3. ~Split' /\ FirstFreeSlot' > 0
      BY <1>3, <1>7
    <3>4. reg'[FirstFreeSlot'] = Payload
      BY <1>1, <1>3, <1>7, Zenon
    <3> QED
      BY <2>2, <3>2, <3>3, <3>4 DEF InRegister
  <2> QED
    BY <1>1, <2>2, <2>3 DEF RInv, Place
<1> QED
  BY <1>1, <1>6, <1>7, AtInstruction

LEMMA JumpPlaced ==
  ASSUME RInv, JumpToRelay
  PROVE  RInv'
<1>1. /\ pc = "jumper" /\ Jumper[next].op = "jmp" /\ pc' = "relay"
      /\ SameSignature /\ mem' = mem /\ reg' = reg /\ rsp' = rsp
  BY DEF JumpToRelay, Executes, SameSignature
<1>2. Entered /\ FirstFreeSlot' = FirstFreeSlot /\ (Split' <=> Split)
  BY <1>1, AtInstruction, SignatureKept
<1>3. Entered'
  BY <1>1, <1>2 DEF Entered, Pushed, Lies
<1>4. Frame'
  BY <1>1, QuietFrame DEF RInv, Frame
<1> QED
  BY <1>1, <1>3, <1>4 DEF RInv, Place

-----------------------------------------------------------------------------
(* The relay.                                                              *)

Values == {Argument(k) : k \in Int} \cup {ResultPointer, Payload, Junk}

\* The slots a big result takes, and the places before a split relay's hook.
ResultSlots == IF bigResult THEN 1 ELSE 0
HeadSlots == ResultSlots + HeadSize

LEMMA SlotFacts ==
  ASSUME Frame
  PROVE  /\ ResultSlots \in {0, 1} /\ nargs \in Nat
         /\ CallerSlots = nargs + ResultSlots
         /\ HeadSize \in {3, 4} /\ HeadSlots = ResultSlots + HeadSize
         /\ HeadSlots = IF SlotMiscounted THEN 3 ELSE 4
         /\ Split => nargs >= HeadSize
         /\ ResultSlots = 1 => CallerSlot(0) = ResultPointer
         /\ \A s \in Nat : s >= ResultSlots => CallerSlot(s) = Argument(s - ResultSlots)
<1>1. /\ ResultSlots \in {0, 1} /\ nargs \in Nat
      /\ CallerSlots = nargs + ResultSlots
      /\ HeadSize \in {3, 4} /\ HeadSlots = ResultSlots + HeadSize
      /\ HeadSlots = IF SlotMiscounted THEN 3 ELSE 4
      /\ Split => nargs >= HeadSize
  BY MaxArgsAssumption
  DEF Frame, ResultSlots, HeadSlots, CallerSlots, FirstFreeSlot, HeadSize, SlotMiscounted, Split
<1>2. ResultSlots = 1 => CallerSlot(0) = ResultPointer
  BY DEF ResultSlots, CallerSlot
<1>3. ASSUME NEW s \in Nat, s >= ResultSlots PROVE CallerSlot(s) = Argument(s - ResultSlots)
  <2>1. CASE bigResult
    BY <1>3, <2>1 DEF ResultSlots, CallerSlot
  <2>2. CASE ~bigResult
    <3>1. s - ResultSlots = s
      BY <2>2 DEF ResultSlots
    <3>2. CallerSlot(s) = Argument(s)
      BY <2>2 DEF CallerSlot
    <3> QED
      BY <3>1, <3>2
  <2> QED
    BY <2>1, <2>2
<1> QED
  BY <1>1, <1>2, <1>3

LEMMA ArgumentsFacts ==
  ASSUME NEW first \in Nat, NEW last \in Int, last >= first - 1
  PROVE  /\ Arguments(first, last) \in Seq(Values)
         /\ Len(Arguments(first, last)) = last - first + 1
         /\ \A i \in 1 .. last - first + 1 : Arguments(first, last)[i] = Argument(first + i - 1)
<1> DEFINE n == IF first > last THEN 0 ELSE last - first + 1
           a == [i \in 1 .. n |-> Argument(first + i - 1)]
<1>1. n \in Nat /\ n = last - first + 1
  OBVIOUS
<1>2. Arguments(first, last) = a
  BY DEF Arguments
<1> HIDE DEF n
<1>3. a \in [1 .. n -> Values]
  <2>1. \A i \in 1 .. n : first + i - 1 \in Int
    BY <1>1
  <2> QED
    BY <2>1 DEF Values
<1>4. DOMAIN a = 1 .. n /\ \A i \in 1 .. n : a[i] = Argument(first + i - 1)
  OBVIOUS
<1> HIDE DEF a
<1>5. a \in Seq(Values)
  BY <1>1, <1>3, SeqDef
<1>6. Len(a) = n
  BY <1>1, <1>4, <1>5, LenProperties
<1> QED
  BY <1>1, <1>2, <1>4, <1>5, <1>6

LEMMA SomeValues ==
  ASSUME NEW a \in Values, NEW b \in Values
  PROVE  /\ <<a>> \in Seq(Values) /\ Len(<<a>>) = 1 /\ <<a>>[1] = a
         /\ <<a, b>> \in Seq(Values) /\ Len(<<a, b>>) = 2
         /\ <<a, b>>[1] = a /\ <<a, b>>[2] = b
         /\ << >> \in Seq(Values) /\ Len(<< >>) = 0
  OBVIOUS

\* The parameter for a big result.
Front == IF bigResult THEN <<ResultPointer>> ELSE <<>>

LEMMA ResultFacts ==
  /\ Front \in Seq(Values) /\ Len(Front) = ResultSlots
  /\ ResultSlots = 1 => Front[1] = ResultPointer
<1>1. ResultPointer \in Values
  BY DEF Values
<1>2. CASE bigResult
  BY <1>1, <1>2, SomeValues DEF ResultSlots, Front
<1>3. CASE ~bigResult
  BY <1>1, <1>3, SomeValues DEF ResultSlots, Front
<1> QED
  BY <1>2, <1>3

\* What the parameters of a relay that is not split are.
LEMMA WholeParameters ==
  ASSUME Frame, ~Split
  PROVE  /\ DOMAIN RelayParameters = 1 .. CallerSlots + 1
         /\ Len(RelayParameters) = CallerSlots + 1
         /\ \A i \in 1 .. CallerSlots : RelayParameters[i] = CallerSlot(i - 1)
         /\ RelayParameters[CallerSlots + 1] = Payload
<1> DEFINE h == ResultSlots
           f == CallerSlots
           front == Front
           args == Arguments(0, nargs - 1)
           hook == << Payload >>
           back == args \o hook
           params == RelayParameters
<1>1. params = front \o back
  BY DEF RelayParameters, Front
<1>2. /\ h \in {0, 1} /\ nargs \in Nat /\ f = nargs + h
      /\ h = 1 => CallerSlot(0) = ResultPointer
      /\ \A s \in Nat : s >= h => CallerSlot(s) = Argument(s - h)
  BY SlotFacts
<1>3. front \in Seq(Values) /\ Len(front) = h /\ (h = 1 => front[1] = ResultPointer)
  BY ResultFacts
<1>4. /\ args \in Seq(Values) /\ Len(args) = nargs
      /\ \A i \in 1 .. nargs : args[i] = Argument(i - 1)
  <2>1. 0 \in Nat /\ nargs - 1 \in Int /\ nargs - 1 >= 0 - 1 /\ nargs - 1 - 0 + 1 = nargs
    BY <1>2
  <2>2. /\ args \in Seq(Values) /\ Len(args) = nargs - 1 - 0 + 1
        /\ \A i \in 1 .. nargs - 1 - 0 + 1 : args[i] = Argument(0 + i - 1)
    BY <2>1, ArgumentsFacts
  <2>3. \A i \in 1 .. nargs : 0 + i - 1 = i - 1
    OBVIOUS
  <2> HIDE DEF args
  <2> QED
    BY <2>1, <2>2, <2>3
<1>5. hook \in Seq(Values) /\ Len(hook) = 1 /\ hook[1] = Payload
  <2>1. Payload \in Values
    BY DEF Values
  <2> QED
    BY <2>1, SomeValues
<1> HIDE DEF h, f, front, args, hook, params
<1>6. /\ back \in Seq(Values) /\ Len(back) = nargs + 1
      /\ \A i \in 1 .. nargs + 1 : back[i] = IF i <= nargs THEN args[i] ELSE hook[i - nargs]
  <2>1. /\ back \in Seq(Values) /\ Len(back) = Len(args) + Len(hook)
        /\ \A i \in 1 .. Len(args) + Len(hook) :
             back[i] = IF i <= Len(args) THEN args[i] ELSE hook[i - Len(args)]
    BY <1>4, <1>5, ConcatProperties
  <2>2. Len(args) + Len(hook) = nargs + 1
    BY <1>4, <1>5
  <2> HIDE DEF back
  <2> QED
    BY <1>4, <2>1, <2>2
<1> HIDE DEF back
<1>7. /\ params \in Seq(Values) /\ Len(params) = h + (nargs + 1)
      /\ \A i \in 1 .. h + (nargs + 1) : params[i] = IF i <= h THEN front[i] ELSE back[i - h]
  <2>1. /\ params \in Seq(Values) /\ Len(params) = Len(front) + Len(back)
        /\ \A i \in 1 .. Len(front) + Len(back) :
             params[i] = IF i <= Len(front) THEN front[i] ELSE back[i - Len(front)]
    BY <1>1, <1>3, <1>6, ConcatProperties
  <2>2. Len(front) + Len(back) = h + (nargs + 1)
    BY <1>3, <1>6
  <2> QED
    BY <1>3, <2>1, <2>2
<1>8. DOMAIN params = 1 .. f + 1 /\ Len(params) = f + 1
  BY <1>2, <1>7, LenProperties
<1>9. ASSUME NEW i \in 1 .. f PROVE params[i] = CallerSlot(i - 1)
  <2>1. i \in 1 .. h + (nargs + 1) /\ i - 1 \in Nat
    BY <1>2
  <2>2. CASE i <= h
    <3>1. i = 1 /\ h = 1 /\ i - 1 = 0
      BY <1>2, <2>2
    <3> QED
      BY <1>2, <1>3, <1>7, <2>1, <2>2, <3>1
  <2>3. CASE ~(i <= h)
    <3>1. /\ i - h \in 1 .. nargs /\ i - h \in 1 .. nargs + 1 /\ i - h <= nargs
          /\ i - 1 >= h /\ i - h - 1 = i - 1 - h
      BY <1>2, <2>3
    <3>2. params[i] = back[i - h]
      BY <1>7, <2>1, <2>3
    <3>3. back[i - h] = args[i - h]
      BY <1>6, <3>1
    <3>4. args[i - h] = Argument(i - h - 1)
      BY <1>4, <3>1
    <3>5. CallerSlot(i - 1) = Argument(i - 1 - h)
      BY <1>2, <2>1, <3>1
    <3> QED
      BY <3>1, <3>2, <3>3, <3>4, <3>5, Zenon
  <2> QED
    BY <2>2, <2>3
<1>10. params[f + 1] = Payload
  <2>1. /\ f + 1 \in 1 .. h + (nargs + 1) /\ ~(f + 1 <= h) /\ f + 1 - h = nargs + 1
        /\ nargs + 1 \in 1 .. nargs + 1 /\ ~(nargs + 1 <= nargs) /\ nargs + 1 - nargs = 1
    BY <1>2
  <2> DEFINE i == f + 1
             j == nargs + 1
  <2>2. i \in 1 .. h + (nargs + 1) /\ ~(i <= h) /\ i - h = j
    BY <1>2, <2>1
  <2>3. j \in 1 .. nargs + 1 /\ ~(j <= nargs) /\ j - nargs = 1
    BY <1>2, <2>1
  <2> HIDE DEF i, j
  <2>4. params[i] = back[i - h] /\ back[j] = hook[j - nargs]
    BY <1>6, <1>7, <2>2, <2>3
  <2> QED
    BY <1>5, <2>2, <2>3, <2>4, Zenon DEF i
<1> QED
  BY <1>8, <1>9, <1>10 DEF params, f

\* What the parameters of a split relay are: the hook follows the head, the
\* dummy follows the hook.
LEMMA SplitParameters ==
  ASSUME Frame, Split
  PROVE  /\ DOMAIN RelayParameters = 1 .. CallerSlots + 2
         /\ Len(RelayParameters) = CallerSlots + 2
         /\ \A i \in 1 .. HeadSlots : RelayParameters[i] = CallerSlot(i - 1)
         /\ RelayParameters[HeadSlots + 1] = Payload
         /\ RelayParameters[HeadSlots + 2] = Junk
         /\ \A i \in HeadSlots + 3 .. CallerSlots + 2 :
              RelayParameters[i] = CallerSlot(i - 3)
<1> DEFINE h == ResultSlots
           f == CallerSlots
           p == HeadSlots
           b == HeadSize
           front == Front
           head == Arguments(0, HeadSize - 1)
           hook == << Payload, Junk >>
           tail == Arguments(HeadSize, nargs - 1)
           middle == head \o hook
           back == middle \o tail
           params == RelayParameters
<1>1. params = front \o back
  BY DEF RelayParameters, Front
<1>2. /\ h \in {0, 1} /\ nargs \in Nat /\ f = nargs + h /\ b \in {3, 4} /\ p = h + b
      /\ h = 1 => CallerSlot(0) = ResultPointer
      /\ \A s \in Nat : s >= h => CallerSlot(s) = Argument(s - h)
      /\ nargs >= b
  BY SlotFacts
<1>3. front \in Seq(Values) /\ Len(front) = h /\ (h = 1 => front[1] = ResultPointer)
  BY ResultFacts
<1>4. /\ head \in Seq(Values) /\ Len(head) = b
      /\ \A i \in 1 .. b : head[i] = Argument(i - 1)
  <2>1. 0 \in Nat /\ HeadSize - 1 \in Int /\ HeadSize - 1 >= 0 - 1 /\ HeadSize - 1 - 0 + 1 = b
    BY <1>2
  <2>2. /\ head \in Seq(Values) /\ Len(head) = HeadSize - 1 - 0 + 1
        /\ \A i \in 1 .. HeadSize - 1 - 0 + 1 : head[i] = Argument(0 + i - 1)
    BY <2>1, ArgumentsFacts
  <2>3. \A i \in 1 .. b : 0 + i - 1 = i - 1
    OBVIOUS
  <2> HIDE DEF head, b
  <2> QED
    BY <2>1, <2>2, <2>3
<1>5. /\ tail \in Seq(Values) /\ Len(tail) = nargs - b
      /\ \A i \in 1 .. nargs - b : tail[i] = Argument(b + i - 1)
  <2>1. /\ HeadSize \in Nat /\ nargs - 1 \in Int /\ nargs - 1 >= HeadSize - 1
        /\ nargs - 1 - HeadSize + 1 = nargs - b
    BY <1>2
  <2>2. /\ tail \in Seq(Values) /\ Len(tail) = nargs - 1 - HeadSize + 1
        /\ \A i \in 1 .. nargs - 1 - HeadSize + 1 : tail[i] = Argument(HeadSize + i - 1)
    BY <2>1, ArgumentsFacts
  <2> HIDE DEF tail
  <2> QED
    BY <2>1, <2>2
<1>6. hook \in Seq(Values) /\ Len(hook) = 2 /\ hook[1] = Payload /\ hook[2] = Junk
  <2>1. Payload \in Values /\ Junk \in Values
    BY DEF Values
  <2> QED
    BY <2>1, SomeValues
<1> HIDE DEF h, f, b, p, front, head, hook, tail, params
<1>7. /\ middle \in Seq(Values) /\ Len(middle) = b + 2
      /\ \A i \in 1 .. b + 2 : middle[i] = IF i <= b THEN head[i] ELSE hook[i - b]
  <2>1. /\ middle \in Seq(Values) /\ Len(middle) = Len(head) + Len(hook)
        /\ \A i \in 1 .. Len(head) + Len(hook) :
             middle[i] = IF i <= Len(head) THEN head[i] ELSE hook[i - Len(head)]
    BY <1>4, <1>6, ConcatProperties
  <2>2. Len(head) + Len(hook) = b + 2
    BY <1>4, <1>6
  <2> HIDE DEF middle
  <2> QED
    BY <1>4, <2>1, <2>2
<1> HIDE DEF middle
<1>8. /\ back \in Seq(Values) /\ Len(back) = nargs + 2
      /\ \A i \in 1 .. nargs + 2 : back[i] = IF i <= b + 2 THEN middle[i] ELSE tail[i - (b + 2)]
  <2>1. /\ back \in Seq(Values) /\ Len(back) = Len(middle) + Len(tail)
        /\ \A i \in 1 .. Len(middle) + Len(tail) :
             back[i] = IF i <= Len(middle) THEN middle[i] ELSE tail[i - Len(middle)]
    BY <1>5, <1>7, ConcatProperties
  <2>2. Len(middle) + Len(tail) = nargs + 2
    BY <1>2, <1>5, <1>7
  <2> HIDE DEF back
  <2> QED
    BY <1>7, <2>1, <2>2
<1> HIDE DEF back
<1>9. /\ params \in Seq(Values) /\ Len(params) = f + 2
      /\ \A i \in 1 .. f + 2 : params[i] = IF i <= h THEN front[i] ELSE back[i - h]
  <2>1. /\ params \in Seq(Values) /\ Len(params) = Len(front) + Len(back)
        /\ \A i \in 1 .. Len(front) + Len(back) :
             params[i] = IF i <= Len(front) THEN front[i] ELSE back[i - Len(front)]
    BY <1>1, <1>3, <1>8, ConcatProperties
  <2>2. Len(front) + Len(back) = f + 2
    BY <1>2, <1>3, <1>8
  <2> QED
    BY <1>3, <2>1, <2>2
<1>10. DOMAIN params = 1 .. f + 2
  BY <1>9, LenProperties
\* Behind the result, each parameter is one of the three parts.
<1>11. ASSUME NEW i \in 1 .. f + 2, ~(i <= h), NEW j, j = i - h
       PROVE  /\ j <= b => params[i] = head[j]
              /\ j \in b + 1 .. b + 2 => params[i] = hook[j - b]
              /\ j > b + 2 => params[i] = tail[j - (b + 2)]
  <2>1. j \in 1 .. nargs + 2 /\ (j <= b + 2 => j \in 1 .. b + 2)
    BY <1>2, <1>11
  <2>2. params[i] = back[j]
    BY <1>9, <1>11
  <2>3. back[j] = IF j <= b + 2 THEN middle[j] ELSE tail[j - (b + 2)]
    BY <1>8, <2>1
  <2>4. j <= b + 2 => middle[j] = IF j <= b THEN head[j] ELSE hook[j - b]
    BY <1>7, <2>1
  <2>5. /\ j <= b => j <= b + 2
        /\ j \in b + 1 .. b + 2 => j <= b + 2 /\ ~(j <= b)
        /\ j > b + 2 => ~(j <= b + 2)
    BY <1>2, <2>1
  <2> QED
    BY <2>2, <2>3, <2>4, <2>5
<1>12. ASSUME NEW i \in 1 .. p PROVE params[i] = CallerSlot(i - 1)
  <2>1. i \in 1 .. f + 2 /\ i - 1 \in Nat
    BY <1>2
  <2>2. CASE i <= h
    <3>1. i = 1 /\ h = 1 /\ i - 1 = 0
      BY <1>2, <2>2
    <3> QED
      BY <1>2, <1>3, <1>9, <2>1, <2>2, <3>1
  <2>3. CASE ~(i <= h)
    <3> DEFINE j == i - h
    <3>1. j = i - h /\ j <= b /\ j \in 1 .. b /\ i - 1 >= h /\ j - 1 = i - 1 - h
      BY <1>2, <2>3
    <3> HIDE DEF j
    <3>2. params[i] = head[j]
      BY <1>11, <2>1, <2>3, <3>1
    <3>3. head[j] = Argument(j - 1)
      BY <1>4, <3>1
    <3>4. CallerSlot(i - 1) = Argument(i - 1 - h)
      BY <1>2, <2>1, <3>1
    <3> QED
      BY <3>1, <3>2, <3>3, <3>4, Zenon
  <2> QED
    BY <2>2, <2>3
<1>13. ASSUME NEW i \in p + 1 .. p + 2 PROVE params[i] = hook[i - p]
  <2> DEFINE j == i - h
  <2>1. /\ i \in 1 .. f + 2 /\ ~(i <= h) /\ j = i - h /\ j \in b + 1 .. b + 2 /\ j - b = i - p
    BY <1>2
  <2> HIDE DEF j
  <2>2. params[i] = hook[j - b]
    BY <1>11, <2>1
  <2> QED
    BY <2>1, <2>2, Zenon
<1>14. params[p + 1] = Payload /\ params[p + 2] = Junk
  <2>1. p + 1 \in p + 1 .. p + 2 /\ p + 2 \in p + 1 .. p + 2 /\ p + 1 - p = 1 /\ p + 2 - p = 2
    BY <1>2
  <2> DEFINE x == p + 1
             y == p + 2
  <2>2. x \in p + 1 .. p + 2 /\ y \in p + 1 .. p + 2 /\ x - p = 1 /\ y - p = 2
    BY <1>2, <2>1
  <2> HIDE DEF x, y
  <2>3. params[x] = hook[x - p] /\ params[y] = hook[y - p]
    BY <1>13, <2>2
  <2> QED
    BY <1>6, <2>2, <2>3, Zenon DEF x, y
<1>15. ASSUME NEW i \in p + 3 .. f + 2 PROVE params[i] = CallerSlot(i - 3)
  <2> DEFINE j == i - h
             k == j - (b + 2)
  <2>1. /\ i \in 1 .. f + 2 /\ ~(i <= h) /\ j = i - h /\ j > b + 2 /\ k = j - (b + 2)
        /\ k \in 1 .. nargs - b /\ b + k - 1 = i - 3 - h
        /\ i - 3 \in Nat /\ i - 3 >= h
    BY <1>2
  <2> HIDE DEF j, k
  <2>2. params[i] = tail[j - (b + 2)]
    BY <1>11, <2>1
  <2>3. tail[k] = Argument(b + k - 1)
    BY <1>5, <2>1
  <2>4. CallerSlot(i - 3) = Argument(i - 3 - h)
    BY <1>2, <2>1
  <2> QED
    BY <2>1, <2>2, <2>3, <2>4, Zenon
<1> QED
  BY <1>9, <1>10, <1>12, <1>14, <1>15 DEF params, f, p

LEMMA SpillPlaced ==
  ASSUME RInv, SpillHome
  PROVE  RInv' /\ \A a \in Stack : a >= HomeDwords => mem'[a] = mem[a]
<1>1. /\ pc = "relay" /\ pc' = "body"
      /\ mem' = [a \in Stack |->
                   IF a \in rsp + 2 .. rsp + 1 + HomeDwords THEN Lo(Junk) ELSE mem[a]]
      /\ SameSignature /\ reg' = reg /\ rsp' = rsp
  BY DEF SpillHome, SameSignature
<1>2. Entered /\ Frame
  BY <1>1 DEF RInv, Place
<1>3. -8 .. 9 \subseteq Stack /\ HomeDwords = 8 /\ Stack \subseteq Int
  BY <1>2, Facts DEF Stack
<1>4. FirstFreeSlot' = FirstFreeSlot /\ (Split' <=> Split)
  BY <1>1, SignatureKept
<1>5. /\ DOMAIN mem' = Stack
      /\ \A a \in Stack : a \notin rsp + 2 .. rsp + 9 => mem'[a] = mem[a]
  <2>1. rsp \in {-6, -2}
    BY <1>2 DEF Entered, Pushed
  <2>2. rsp + 1 + HomeDwords = rsp + 9
    BY <1>3, <2>1
  <2> QED
    BY <1>1, <2>2
<1>8. mem'[6] \in {mem[6], Lo(Junk)}
  <2>1. 6 \in Stack
    BY <1>3
  <2> QED
    BY <1>1, <2>1
<1>6. CASE Split
  <2>1. rsp = -6 /\ Lies(mem, -6, ReturnAddress) /\ Lies(mem, 4, Payload) /\ FirstFreeSlot > 0
    BY <1>2, <1>6 DEF Entered, Pushed
  <2>2. \A a \in Stack : a \notin -4 .. 3 => mem'[a] = mem[a]
    BY <1>5, <2>1
  <2>3. \A a \in Stack : a >= HomeDwords => mem'[a] = mem[a]
    BY <1>3, <2>2
  <2>4. /\ mem'[-6] = mem[-6] /\ mem'[-6 + 1] = mem[-6 + 1]
        /\ mem'[4] = mem[4] /\ mem'[4 + 1] = mem[4 + 1]
    BY <1>3, <2>2
  <2>5. Lies(mem', -6, ReturnAddress) /\ Lies(mem', 4, Payload)
    BY <2>1, <2>4 DEF Lies
  <2>6. Entered'
    BY <1>1, <1>4, <1>6, <2>1, <2>5 DEF Entered, Pushed, Lies
  <2>7. Frame'
    BY <1>1, <1>2, <1>5, <1>8, <2>3, FrameKept DEF Frame
  <2> QED
    BY <1>1, <2>3, <2>6, <2>7 DEF RInv, Place
<1>7. CASE ~Split
  <2>1. /\ rsp = -2 /\ Lies(mem, -2, ReturnAddress) /\ FirstFreeSlot > 0
        /\ reg[FirstFreeSlot] = Payload
    BY <1>2, <1>7 DEF Entered, Pushed
  <2>2. \A a \in Stack : a \notin 0 .. 7 => mem'[a] = mem[a]
    BY <1>5, <2>1
  <2>3. \A a \in Stack : a >= HomeDwords => mem'[a] = mem[a]
    BY <1>3, <2>2
  <2>4. mem'[-2] = mem[-2] /\ mem'[-2 + 1] = mem[-2 + 1]
    BY <1>3, <2>2
  <2>5. Lies(mem', -2, ReturnAddress)
    BY <2>1, <2>4 DEF Lies
  <2>6. Entered'
    BY <1>1, <1>4, <1>7, <2>1, <2>5 DEF Entered, Pushed, Lies
  <2>7. Frame'
    BY <1>1, <1>2, <1>5, <1>8, <2>3, FrameKept DEF Frame
  <2> QED
    BY <1>1, <2>3, <2>6, <2>7 DEF RInv, Place
<1> QED
  BY <1>6, <1>7

\* What the relay reads from each slot.
LEMMA Reads ==
  ASSUME Frame, Entered
  PROVE  /\ \A s \in 0 .. 3 : s < CallerSlots => ReadSlot(s) = CallerSlot(s)
         /\ ~Split => ReadSlot(FirstFreeSlot) = Payload
         /\ Split => ReadSlot(4) = Payload
         /\ Split => \A s \in 6 .. CallerSlots + 1 : ReadSlot(s) = CallerSlot(s - 2)
         /\ SlotMiscounted /\ nargs \in 0 .. 3 => ReadSlot(nargs) = Junk
         /\ SlotMiscounted /\ Split => ReadSlot(5) = Junk
<1>0. CallerSlots \in Nat /\ FirstFreeSlot \in Nat /\ FirstFreeSlot > 0 /\ (Split <=> FirstFreeSlot > 3)
  BY Facts DEF Entered
<1>1. ASSUME NEW s \in 0 .. 3, s < CallerSlots PROVE ReadSlot(s) = CallerSlot(s)
  BY <1>1 DEF Frame, ReadSlot, RegisterSlots
<1>2. ASSUME ~Split PROVE ReadSlot(FirstFreeSlot) = Payload
  <2>1. FirstFreeSlot \in RegisterSlots /\ reg[FirstFreeSlot] = Payload
    BY <1>0, <1>2 DEF Entered, RegisterSlots
  <2> QED
    BY <2>1 DEF ReadSlot
<1>3. ASSUME Split PROVE ReadSlot(4) = Payload
  <2>1. SlotAddress(rsp, 4) = 4 /\ Lies(mem, 4, Payload) /\ 4 \notin RegisterSlots
    BY <1>3 DEF Entered, Pushed, SlotAddress, HomeDwords, RegisterSlots
  <2>2. Load(4) = Payload
    BY <2>1, LoadLies
  <2> QED
    BY <2>1, <2>2 DEF ReadSlot
<1>4. ASSUME Split, NEW s \in 6 .. CallerSlots + 1 PROVE ReadSlot(s) = CallerSlot(s - 2)
  <2> DEFINE t == s - 2
             a == HomeDwords + 2 * (t - 4)
  <2>1. /\ t \in 4 .. CallerSlots - 1 /\ s \notin RegisterSlots
    BY <1>0 DEF RegisterSlots
  <2>2. SlotAddress(rsp, s) = a
    BY <1>4 DEF Entered, Pushed, SlotAddress, HomeDwords
  <2> HIDE DEF t
  <2>3. Lies(mem, a, CallerSlot(t))
    BY <2>1 DEF Frame
  <2> HIDE DEF a
  <2>4. Load(a) = CallerSlot(t)
    BY <2>3, LoadLies
  <2> QED
    BY <2>1, <2>2, <2>4 DEF ReadSlot, t
<1>5. ASSUME SlotMiscounted, nargs \in 0 .. 3 PROVE ReadSlot(nargs) = Junk
  BY <1>5 DEF Frame, Unused, ReadSlot, RegisterSlots
<1>6. ASSUME SlotMiscounted, Split PROVE ReadSlot(5) = Junk
  <2>1. SlotAddress(rsp, 5) = 6 /\ 5 \notin RegisterSlots
    BY <1>6 DEF Entered, Pushed, SlotAddress, HomeDwords, RegisterSlots
  <2>2. mem[6] = Lo(Junk) /\ Lo(Junk)[1] = Junk
    BY <1>6 DEF Frame, Unused, Lo
  <2>3. Load(6) = Junk
    BY <2>2 DEF Load
  <2> QED
    BY <2>1, <2>3 DEF ReadSlot
<1> QED
  BY <1>1, <1>2, <1>3, <1>4, <1>5, <1>6

\* What the relay finds where it looks for v: v itself, unless a slot was
\* miscounted.
Found(v) ==
  IF ~SlotMiscounted THEN v
  ELSE IF v = Payload THEN IF nargs > 3 THEN Argument(3) ELSE Junk
  ELSE IF v = Argument(3) THEN Junk ELSE v

LEMMA FoundFacts ==
  /\ ~SlotMiscounted => \A v : Found(v) = v
  /\ SlotMiscounted => Found(Payload) = IF nargs > 3 THEN Argument(3) ELSE Junk
  /\ SlotMiscounted => Found(Argument(3)) = Junk
  /\ SlotMiscounted => \A i \in Int : i # 3 => Found(Argument(i)) = Argument(i)
  BY DEF Found, Payload, Argument

\* The parameters of a relay are found in the slots the compiler reads them
\* from.
LEMMA SplitFound ==
  ASSUME Frame, Entered, Split, NEW i \in 1 .. Len(RelayParameters),
         RelayParameters[i] # Junk
  PROVE  ReadSlot(i - 1) = Found(RelayParameters[i])
<1>0. /\ CallerSlots \in Nat /\ nargs \in Nat /\ HeadSlots = IF SlotMiscounted THEN 3 ELSE 4
      /\ SlotMiscounted => nargs = CallerSlots /\ FirstFreeSlot = nargs + 1
      /\ ~SlotMiscounted => CallerSlots = FirstFreeSlot
      /\ FirstFreeSlot \in Nat /\ FirstFreeSlot > 3
  BY Facts, SlotFacts
<1>1. /\ Len(RelayParameters) = CallerSlots + 2
      /\ \A k \in 1 .. HeadSlots : RelayParameters[k] = CallerSlot(k - 1)
      /\ RelayParameters[HeadSlots + 1] = Payload /\ RelayParameters[HeadSlots + 2] = Junk
      /\ \A k \in HeadSlots + 3 .. CallerSlots + 2 : RelayParameters[k] = CallerSlot(k - 3)
  BY SplitParameters
<1>2. SlotMiscounted => \A s \in Nat : CallerSlot(s) = Argument(s)
  BY DEF SlotMiscounted, CallerSlot, Frame
<1>3. i \in 1 .. CallerSlots + 2
  BY <1>1
<1>4. CASE i \in 1 .. HeadSlots
  <2>1. i - 1 \in 0 .. 3 /\ i - 1 < CallerSlots
    BY <1>0, <1>4
  <2>2. ReadSlot(i - 1) = CallerSlot(i - 1)
    BY <2>1, Reads
  <2>3. RelayParameters[i] = CallerSlot(i - 1)
    BY <1>1, <1>4
  <2>4. Found(CallerSlot(i - 1)) = CallerSlot(i - 1)
    <3>1. CASE SlotMiscounted
      <4>1. i - 1 \in Nat /\ i - 1 \in Int /\ i - 1 # 3
        BY <1>0, <1>4, <3>1
      <4> QED
        BY <1>2, <3>1, <4>1, FoundFacts
    <3>2. CASE ~SlotMiscounted
      BY <3>2, FoundFacts
    <3> QED
      BY <3>1, <3>2
  <2> QED
    BY <2>2, <2>3, <2>4
<1>5. CASE i = HeadSlots + 1
  <2>1. RelayParameters[i] = Payload
    BY <1>1, <1>5
  <2>2. CASE ~SlotMiscounted
    <3>1. i - 1 = 4 /\ ReadSlot(4) = Payload
      BY <1>0, <1>5, <2>2, Reads
    <3> QED
      BY <2>1, <2>2, <3>1, FoundFacts
  <2>3. CASE SlotMiscounted /\ nargs > 3
    <3>1. i - 1 = 3 /\ 3 < CallerSlots /\ 3 \in 0 .. 3 /\ 3 \in Nat
      BY <1>0, <1>5, <2>3
    <3>2. ReadSlot(3) = CallerSlot(3)
      BY <3>1, Reads
    <3>3. CallerSlot(3) = Argument(3)
      BY <1>2, <2>3, <3>1
    <3> QED
      BY <2>1, <2>3, <3>1, <3>2, <3>3, FoundFacts
  <2>4. CASE SlotMiscounted /\ ~(nargs > 3)
    <3>1. i - 1 = 3 /\ nargs = 3 /\ nargs \in 0 .. 3
      BY <1>0, <1>5, <2>4
    <3>2. ReadSlot(nargs) = Junk
      BY <2>4, <3>1, Reads
    <3>3. ReadSlot(i - 1) = Junk
      BY <3>1, <3>2
    <3> QED
      BY <2>1, <2>4, <3>3, FoundFacts
  <2> QED
    BY <2>2, <2>3, <2>4
<1>6. CASE i = HeadSlots + 2
  BY <1>1, <1>6
<1>7. CASE i \in HeadSlots + 3 .. CallerSlots + 2
  <2>1. RelayParameters[i] = CallerSlot(i - 3)
    BY <1>1, <1>7
  <2>2. CASE SlotMiscounted /\ i = 6
    <3>1. ReadSlot(5) = Junk /\ i - 1 = 5 /\ i - 3 = 3 /\ 3 \in Nat
      BY <2>2, Reads
    <3>2. RelayParameters[i] = Argument(3)
      BY <1>2, <2>1, <2>2, <3>1
    <3> QED
      BY <2>2, <3>1, <3>2, FoundFacts
  <2>3. CASE ~(SlotMiscounted /\ i = 6)
    <3> DEFINE s == i - 1
    <3>1. s \in 6 .. CallerSlots + 1 /\ s - 2 = i - 3 /\ i - 3 \in Nat /\ i - 3 \in Int
      BY <1>0, <1>7, <2>3
    <3> HIDE DEF s
    <3>2. ReadSlot(s) = CallerSlot(s - 2)
      BY <3>1, Reads
    <3>3. Found(CallerSlot(i - 3)) = CallerSlot(i - 3)
      <4>1. CASE SlotMiscounted
        <5>1. i - 3 # 3
          BY <2>3, <3>1, <4>1
        <5> QED
          BY <1>2, <3>1, <4>1, <5>1, FoundFacts
      <4>2. CASE ~SlotMiscounted
        BY <4>2, FoundFacts
      <4> QED
        BY <4>1, <4>2
    <3>4. ReadSlot(s) = Found(RelayParameters[i])
      BY <2>1, <3>1, <3>2, <3>3
    <3> QED
      BY <3>4 DEF s
  <2> QED
    BY <2>2, <2>3
<1> QED
  BY <1>0, <1>3, <1>4, <1>5, <1>6, <1>7

LEMMA WholeFound ==
  ASSUME Frame, Entered, ~Split, NEW i \in 1 .. Len(RelayParameters)
  PROVE  ReadSlot(i - 1) = Found(RelayParameters[i])
<1>0. /\ CallerSlots \in Nat /\ nargs \in Nat
      /\ SlotMiscounted => nargs = CallerSlots /\ FirstFreeSlot = nargs + 1
      /\ ~SlotMiscounted => CallerSlots = FirstFreeSlot
      /\ FirstFreeSlot \in Nat /\ ~(FirstFreeSlot > 3)
  BY Facts, SlotFacts
<1>1. /\ Len(RelayParameters) = CallerSlots + 1
      /\ \A k \in 1 .. CallerSlots : RelayParameters[k] = CallerSlot(k - 1)
      /\ RelayParameters[CallerSlots + 1] = Payload
  BY WholeParameters
<1>2. SlotMiscounted => \A s \in Nat : CallerSlot(s) = Argument(s)
  BY DEF SlotMiscounted, CallerSlot, Frame
<1>3. CASE i \in 1 .. CallerSlots
  <2>1. i - 1 \in 0 .. 3 /\ i - 1 < CallerSlots /\ i - 1 \in Nat /\ i - 1 \in Int
    BY <1>0, <1>3
  <2>2. ReadSlot(i - 1) = CallerSlot(i - 1)
    BY <2>1, Reads
  <2>3. RelayParameters[i] = CallerSlot(i - 1)
    BY <1>1, <1>3
  <2>4. Found(CallerSlot(i - 1)) = CallerSlot(i - 1)
    <3>1. CASE SlotMiscounted
      <4>1. i - 1 # 3
        BY <1>0, <1>3, <3>1
      <4> QED
        BY <1>2, <2>1, <3>1, <4>1, FoundFacts
    <3>2. CASE ~SlotMiscounted
      BY <3>2, FoundFacts
    <3> QED
      BY <3>1, <3>2
  <2> QED
    BY <2>2, <2>3, <2>4
<1>4. CASE i = CallerSlots + 1
  <2>1. RelayParameters[i] = Payload /\ i - 1 = CallerSlots
    BY <1>0, <1>1, <1>4
  <2>2. CASE SlotMiscounted
    <3>1. nargs \in 0 .. 3 /\ ~(nargs > 3) /\ CallerSlots = nargs
      BY <1>0, <2>2
    <3>2. ReadSlot(nargs) = Junk
      BY <2>2, <3>1, Reads
    <3>3. Found(Payload) = Junk
      BY <2>2, <3>1, FoundFacts
    <3> QED
      BY <2>1, <3>1, <3>2, <3>3, Zenon
  <2>3. CASE ~SlotMiscounted
    <3>1. ReadSlot(FirstFreeSlot) = Payload /\ CallerSlots = FirstFreeSlot
      BY <1>0, <2>3, Reads
    <3>2. Found(Payload) = Payload
      BY <2>3, FoundFacts
    <3> QED
      BY <2>1, <3>1, <3>2, Zenon
  <2> QED
    BY <2>2, <2>3
<1> QED
  BY <1>0, <1>1, <1>3, <1>4

LEMMA HookPlaced ==
  ASSUME RInv, CallHook
  PROVE  RInv' /\ RelayGetsItsParameters'
<1>1. /\ pc = "body" /\ pc' \in {"return", "lost"}
      /\ seen' = [i \in 1 .. Len(RelayParameters) |-> ReadSlot(i - 1)]
      /\ pc' = "lost" =>
           ~ \A i \in DOMAIN RelayParameters :
               RelayParameters[i] = Payload => seen'[i] = Payload
      /\ SameSignature /\ reg' = reg /\ rsp' = rsp /\ mem' = mem
  BY DEF CallHook, SameSignature
<1>2. Entered /\ Frame
  BY <1>1 DEF RInv, Place
<1>3. /\ FirstFreeSlot' = FirstFreeSlot /\ (Split' <=> Split)
      /\ RelayParameters' = RelayParameters /\ (SlotMiscounted' <=> SlotMiscounted)
      /\ nargs' = nargs
  BY <1>1, SignatureKept DEF SameSignature
<1>4. Frame'
  BY <1>1, <1>2, QuietFrame DEF Frame
<1>5. Entered'
  BY <1>1, <1>2, <1>3 DEF Entered, Pushed, Lies
<1>6. DOMAIN RelayParameters = 1 .. Len(RelayParameters)
  <2>1. CASE Split
    BY <1>2, <2>1, SplitParameters
  <2>2. CASE ~Split
    BY <1>2, <2>2, WholeParameters
  <2> QED
    BY <2>1, <2>2
<1>7. ASSUME NEW i \in DOMAIN RelayParameters, RelayParameters[i] # Junk
      PROVE  seen'[i] = Found(RelayParameters[i])
  <2>1. i \in 1 .. Len(RelayParameters) /\ seen'[i] = ReadSlot(i - 1)
    BY <1>1, <1>6
  <2> QED
    BY <1>2, <1>7, <2>1, SplitFound, WholeFound
<1>8. RelayGetsItsParameters'
  BY <1>3, <1>7 DEF RelayGetsItsParameters, Found
<1>9. ASSUME pc' = "lost" PROVE SlotMiscounted'
  <2>1. PICK i \in DOMAIN RelayParameters : RelayParameters[i] = Payload /\ seen'[i] # Payload
    BY <1>1, <1>9
  <2>2. Payload # Junk
    BY DEF Payload, Junk
  <2>3. seen'[i] = Found(Payload)
    BY <1>7, <2>1, <2>2
  <2> QED
    BY <1>3, <2>1, <2>3, FoundFacts
<1> QED
  BY <1>1, <1>4, <1>5, <1>8, <1>9 DEF RInv, Place

LEMMA ReturnPlaced ==
  ASSUME RInv, Return
  PROVE  RInv'
<1>1. /\ pc = "return" /\ rsp' = rsp + 2
      /\ pc' = IF Load(rsp) = ReturnAddress THEN "returned" ELSE "lost"
      /\ SameSignature /\ reg' = reg /\ mem' = mem
  BY DEF Return, SameSignature
<1>2. Entered /\ Frame
  BY <1>1 DEF RInv, Place
<1>3. Split' <=> Split
  BY <1>1, SignatureKept
<1>4. Lies(mem, rsp, ReturnAddress) /\ rsp = IF Split THEN -6 ELSE -2
  BY <1>2 DEF Entered, Pushed
<1>5. pc' = "returned"
  BY <1>1, <1>4, LoadLies
<1>6. rsp' = IF Split' THEN -4 ELSE 0
  <2>1. rsp + 2 = IF Split THEN -4 ELSE 0
    BY <1>4
  <2> QED
    BY <1>1, <1>3, <2>1
<1>7. Frame'
  BY <1>1, <1>2, QuietFrame DEF Frame
<1> QED
  BY <1>5, <1>6, <1>7 DEF RInv, Place

-----------------------------------------------------------------------------
(* The theorems.                                                           *)

LEMMA StepPlaced ==
  ASSUME RInv, [Next]_vars
  PROVE  RInv'
<1>1. CASE Call
  BY <1>1, CallPlaced
<1>2. CASE PopRax
  BY <1>2, PopPlaced
<1>3. CASE SubRsp
  BY <1>3, SubPlaced
<1>4. CASE StoreHalf
  BY <1>4, StorePlaced
<1>5. CASE MovImmediate
  BY <1>5, MovPlaced
<1>6. CASE RunData
  BY <1>6, DataPlaced
<1>7. CASE PushRax
  BY <1>7, PushPlaced
<1>8. CASE JumpToRelay
  BY <1>8, JumpPlaced
<1>9. CASE SpillHome
  BY <1>9, SpillPlaced
<1>10. CASE CallHook
  BY <1>10, HookPlaced
<1>11. CASE Return
  BY <1>11, ReturnPlaced
<1>12. CASE UNCHANGED vars
  <2>1. /\ SameSignature /\ pc' = pc /\ next' = next /\ rsp' = rsp
        /\ rax' = rax /\ reg' = reg /\ mem' = mem /\ seen' = seen
    BY <1>12 DEF vars, SameSignature
  <2>2. Frame /\ Place
    BY DEF RInv
  <2>3. /\ FirstFreeSlot' = FirstFreeSlot /\ (Split' <=> Split)
        /\ (SlotMiscounted' <=> SlotMiscounted)
    BY <2>1, SignatureKept
  <2>4. Frame'
    BY <2>1, <2>2, QuietFrame DEF Frame
  <2>5. /\ OnStack => OnStack'
        /\ InRegister => InRegister'
        /\ Entered => Entered'
    BY <2>1, <2>3 DEF OnStack, InRegister, Entered, Pushed, Popped, Lies
  <2>6. Pushed(-2) => Pushed(-2)'
    BY <2>1 DEF Pushed, Lies
  <2>7. Place'
    BY <2>1, <2>2, <2>3, <2>5, <2>6 DEF Place
  <2> QED
    BY <2>4, <2>7 DEF RInv
<1> QED
  BY <1>1, <1>2, <1>3, <1>4, <1>5, <1>6, <1>7, <1>8, <1>9, <1>10, <1>11, <1>12 DEF Next

\* Whatever the number of arguments and the kind of result, the call is at one
\* of the places RInv lists, and the caller's arguments are where it put them
\* (GenerateCode's jumper, and the relay Relay::Generate instantiates).
THEOREM JumperPlaced == Spec => []RInv
<1> QED
  BY InitPlaced, StepPlaced, PTL DEF Spec

\* The relay reads the arguments of the game, the pointer to a big result and
\* its hook where the jumper and the caller have put them, for functions of
\* every number of arguments: splitting the parameters at the head fits the
\* slots on both sides of payload and dummy.  With a slot counted that the
\* caller does not use it finds the arguments but the fourth, and that one, or
\* nothing, in place of its hook.
THEOREM ParametersFound == Spec => []RelayGetsItsParameters
<1>1. Init => RelayGetsItsParameters
  BY DEF Init, RelayGetsItsParameters
<1>2. ASSUME RInv, RelayGetsItsParameters, [Next]_vars PROVE RelayGetsItsParameters'
  <2>1. CASE CallHook
    BY <1>2, <2>1, HookPlaced
  <2>2. CASE ~CallHook
    <3>1. seen' = seen /\ SameSignature
      BY <1>2, <2>2
      DEF Next, Call, PopRax, SubRsp, StoreHalf, MovImmediate, RunData, PushRax,
          JumpToRelay, SpillHome, Return, vars, SameSignature
    <3>2. RelayParameters' = RelayParameters /\ (SlotMiscounted' <=> SlotMiscounted)
      BY <3>1, SignatureKept
    <3>3. nargs' = nargs
      BY <3>1 DEF SameSignature
    <3> QED
      BY <1>2, <3>1, <3>2, <3>3 DEF RelayGetsItsParameters
  <2> QED
    BY <2>1, <2>2
<1> QED
  BY <1>1, <1>2, JumperPlaced, PTL DEF Spec

\* The comment "If return value cannot be stored in RAX, use first slot for it"
\* holds, and the relay finds its hook, in every signature whose result is
\* counted by that; enums and small structures are the only results for
\* which the relay looks where its hook is not.
THEOREM HookFound == Spec => [](~SlotMiscounted => RelayGetsItsHook)
<1>1. RelayGetsItsParameters => (~SlotMiscounted => RelayGetsItsHook)
  <2> SUFFICES ASSUME RelayGetsItsParameters, ~SlotMiscounted PROVE RelayGetsItsHook
    OBVIOUS
  <2>1. Payload # Junk
    BY DEF Payload, Junk
  <2> QED
    BY <2>1 DEF RelayGetsItsParameters, RelayGetsItsHook
<1> QED
  BY <1>1, ParametersFound, PTL

\* The relay is entered with the alignment of a called function, and the call
\* comes back with the stack pointer of the caller, or with exactly the sixteen
\* bytes of the stack path still taken; only a function without a slot before
\* the payload, or with one too many, is lost.
THEOREM StackAccounted == Spec => []StackPointerAccounted
<1>1. RInv => StackPointerAccounted
  <2> SUFFICES ASSUME RInv PROVE StackPointerAccounted
    OBVIOUS
  <2>1. ASSUME pc = "relay" PROVE rsp % 4 = 2
    <3>1. rsp \in {-6, -2}
      BY <2>1 DEF RInv, Place, Entered, Pushed
    <3> QED
      BY <3>1
  <2>2. /\ pc = "returned" => rsp = IF Split THEN -4 ELSE 0
        /\ pc = "lost" => FirstFreeSlot = 0 \/ SlotMiscounted
    BY DEF RInv, Place
  <2> QED
    BY <2>1, <2>2 DEF StackPointerAccounted
<1> QED
  BY <1>1, JumperPlaced, PTL

\* No instruction of the jumper, and no spill of the relay, writes into the
\* caller's frame above the home area, however many arguments lie there.
THEOREM FrameAbove == Spec => CallerFrameKept
<1> DEFINE Kept == \A a \in Stack : a >= HomeDwords => mem'[a] = mem[a]
<1>1. ASSUME RInv, [Next]_vars PROVE Kept
  <2>0. Frame /\ DOMAIN mem = Stack /\ -8 .. 9 \subseteq Stack
    BY <1>1, Facts DEF RInv, Frame
  <2>1. CASE Call
    <3>1. rsp = 0
      BY <1>1, <2>1 DEF RInv, Place, Call
    <3>2. mem' = Stored(-2, ReturnAddress)
      BY <2>1, <3>1 DEF Call
    <3>3. \A a \in Stack \ {-2, -2 + 1} : mem'[a] = mem[a]
      BY <2>0, <3>2, StoredLies
    <3> QED
      BY <3>3 DEF HomeDwords
  <2>2. CASE StoreHalf
    <3>1. pc = "jumper" /\ (Jumper[next].op = "store lo" \/ Jumper[next].op = "store hi")
      BY <2>2 DEF StoreHalf, Executes
    <3>2. rsp = -4 /\ Operand \in {8, 9}
      BY <1>1, <3>1, AtInstruction
    <3>3. rsp + Operand \in {4, 5}
      BY <3>2
    <3>4. \A a \in Stack \ {rsp + Operand} : mem'[a] = mem[a]
      BY <2>0, <2>2 DEF StoreHalf
    <3> QED
      BY <3>3, <3>4 DEF HomeDwords
  <2>3. CASE PushRax
    <3>1. pc = "jumper" /\ Jumper[next].op = "push rax"
      BY <2>3 DEF PushRax, Executes
    <3>2. rsp \in {-4, 0}
      BY <1>1, <3>1, AtInstruction
    <3>3. rsp - 2 \in {-6, -2} /\ rsp - 2 \in Stack /\ rsp - 2 + 1 \in Stack /\ rsp - 2 \in Int
      BY <2>0, <3>2
    <3>4. \A a \in Stack \ {rsp - 2, rsp - 2 + 1} : mem'[a] = mem[a]
      BY <2>0, <2>3, <3>3, StoredLies DEF PushRax
    <3> QED
      BY <3>3, <3>4 DEF HomeDwords
  <2>4. CASE SpillHome
    BY <1>1, <2>4, SpillPlaced
  <2>5. CASE \/ PopRax \/ SubRsp \/ MovImmediate \/ RunData \/ JumpToRelay \/ CallHook
             \/ Return \/ UNCHANGED vars
    BY <2>5 DEF PopRax, SubRsp, MovImmediate, RunData, JumpToRelay, CallHook, Return, vars
  <2> QED
    BY <1>1, <2>1, <2>2, <2>3, <2>4, <2>5 DEF Next
<1>2. RInv /\ [Next]_vars => [Kept]_vars
  BY <1>1
<1> HIDE DEF Kept
<1>3. Spec => [][Kept]_vars
  BY <1>2, JumperPlaced, PTL DEF Spec
<1> QED
  BY <1>3 DEF CallerFrameKept, Kept

=============================================================================
