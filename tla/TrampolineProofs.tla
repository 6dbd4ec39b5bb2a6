-------------------------- MODULE TrampolineProofs --------------------------
(***************************************************************************)
(* For any start of a function, any number of instructions and any place   *)
(* of the trampoline: it does what the instructions do, but for the three  *)
(* known ways to differ, and the decoder stops and reads on for a reason.  *)
(*                                                                         *)
(* The loop is described by Chain and Taken: the items lie one behind the  *)
(* other, and each is what Written says of its instruction.  MaxOf ties    *)
(* maxJmpRef to the jumps that were read.  The run starts in step, and the *)
(* lemmas that lead to SideBySide show that one instruction and its item   *)
(* keep it so: falling through leads to the next item (FallsThrough), a    *)
(* jump out leads to what is not copied (JumpsOut), and the displacement   *)
(* of a copied jump meets the item of its destination if what lies between *)
(* kept its length (JumpsIn).                                              *)
(*                                                                         *)
(* Addresses are sums of lengths, given by a recursive function; that it   *)
(* exists and what holds of its values is shown by Counting, induction for *)
(* a set of numbers.                                                       *)
(***************************************************************************)
EXTENDS Trampoline, WellFoundedInduction, TLAPS

-----------------------------------------------------------------------------
(* Induction, for a set of numbers, and two of its uses.                   *)

LEMMA LeastNumber ==
  ASSUME NEW T \in SUBSET Nat, T # {}
  PROVE  \E n \in T : \A m \in T : n <= m
<1> DEFINE Below == {ss \in Nat \X Nat : ss[1] < ss[2]}
<1>1. OpToRel(<, Nat) = Below
  BY Zenon DEF OpToRel
<1>2. IsWellFoundedOn(Below, Nat)
  BY <1>1, NatLessThanWellFounded, Zenon
<1>3. \E n \in T : \A m \in T : ~(<<m, n>> \in Below)
  <2> HIDE DEF Below
  <2> QED BY <1>2, WFMin
<1>4. PICK n \in T : \A m \in T : ~(<<m, n>> \in Below)
  BY <1>3
<1>5. ASSUME NEW m \in T PROVE n <= m
  <2>1. ~(<<m, n>> \in Below)
    BY <1>4
  <2>2. n \in Nat /\ m \in Nat
    OBVIOUS
  <2>3. ~(m < n)
    BY <2>1, <2>2, Zenon
  <2> QED BY <2>2, <2>3
<1> QED BY <1>5

LEMMA Counting ==
  ASSUME NEW T, 0 \in T, \A n \in Nat : n \in T => n + 1 \in T
  PROVE  Nat \subseteq T
<1> SUFFICES ASSUME Nat \ T # {} PROVE FALSE
  OBVIOUS
<1>1. PICK n \in Nat \ T : \A m \in Nat \ T : n <= m
  BY LeastNumber
<1>2. n # 0
  BY <1>1
<1>3. n - 1 \in Nat /\ n - 1 < n /\ (n - 1) + 1 = n
  BY <1>2
<1>4. n - 1 \in T
  BY <1>1, <1>3
<1> QED BY <1>1, <1>3, <1>4

\* What rises from each number to the next rises.
LEMMA Rising ==
  ASSUME NEW n \in Nat, NEW f \in [1..n -> Int], \A j \in 1..n - 1 : f[j] < f[j + 1],
         NEW i \in 1..n, NEW j \in 1..n, i < j
  PROVE  f[i] < f[j] /\ f[i + 1] <= f[j]
<1> DEFINE T == {m \in Nat : i + 1 + m <= n => f[i] < f[i + 1 + m] /\ f[i + 1] <= f[i + 1 + m]}
<1>1. 0 \in T
  <2>1. i \in 1..n - 1 /\ i + 1 \in 1..n /\ i + 1 + 0 = i + 1
    OBVIOUS
  <2>2. f[i] < f[i + 1] /\ f[i + 1] \in Int
    BY <2>1
  <2> QED BY <2>1, <2>2
<1>2. ASSUME NEW m \in Nat, m \in T PROVE m + 1 \in T
  <2> SUFFICES ASSUME i + 1 + (m + 1) <= n
               PROVE  f[i] < f[i + 1 + (m + 1)] /\ f[i + 1] <= f[i + 1 + (m + 1)]
    OBVIOUS
  <2> DEFINE x == i + 1 + m
  <2>1. x \in 1..n - 1 /\ x \in 1..n /\ x + 1 \in 1..n /\ i + 1 + (m + 1) = x + 1 /\ i + 1 \in 1..n
    OBVIOUS
  <2>2. f[i] < f[x] /\ f[i + 1] <= f[x]
    BY <1>2, <2>1
  <2> HIDE DEF x
  <2>3. f[x] < f[x + 1]
    BY <2>1
  <2>4. f[i] \in Int /\ f[i + 1] \in Int /\ f[x] \in Int /\ f[x + 1] \in Int
    BY <2>1
  <2>5. f[i] < f[x + 1] /\ f[i + 1] <= f[x + 1]
    <3> DEFINE a == f[i]
               b == f[i + 1]
               c == f[x]
               d == f[x + 1]
    <3>1. a \in Int /\ b \in Int /\ c \in Int /\ d \in Int /\ a < c /\ b <= c /\ c < d
      BY <2>2, <2>3, <2>4
    <3> HIDE DEF a, b, c, d
    <3>2. a < d /\ b <= d
      BY ONLY <3>1
    <3> QED BY <3>2 DEF a, b, d
  <2> QED BY <2>1, <2>5
<1>3. Nat \subseteq T
  <2> HIDE DEF T
  <2> QED BY <1>1, <1>2, Counting
<1>4. j - i - 1 \in Nat /\ i + 1 + (j - i - 1) = j
  OBVIOUS
<1>5. j - i - 1 \in T
  BY <1>3, <1>4
<1> QED BY <1>4, <1>5

\* What grows by the same in each step grows by the same in all.
LEMMA SameGrowth ==
  ASSUME NEW n \in Nat, NEW f \in [1..n -> Int], NEW g \in [1..n -> Int],
         NEW i \in 1..n, NEW j \in 1..n, i <= j,
         \A x \in 1..n - 1 : i <= x /\ x < j => f[x + 1] - f[x] = g[x + 1] - g[x]
  PROVE  f[j] - f[i] = g[j] - g[i]
<1> DEFINE T == {m \in Nat : i + m <= j => f[i + m] - f[i] = g[i + m] - g[i]}
<1>1. 0 \in T
  <2>1. i + 0 = i /\ f[i] \in Int /\ g[i] \in Int
    OBVIOUS
  <2>2. f[i] - f[i] = g[i] - g[i]
    BY <2>1
  <2> QED BY <2>1, <2>2
<1>2. ASSUME NEW m \in Nat, m \in T PROVE m + 1 \in T
  <2> SUFFICES ASSUME i + (m + 1) <= j PROVE f[i + (m + 1)] - f[i] = g[i + (m + 1)] - g[i]
    OBVIOUS
  <2> DEFINE x == i + m
  <2>1. x \in 1..n - 1 /\ x \in 1..n /\ x + 1 \in 1..n /\ i <= x /\ x < j /\ i + (m + 1) = x + 1
    OBVIOUS
  <2>2. f[x] - f[i] = g[x] - g[i]
    BY <1>2, <2>1
  <2> HIDE DEF x
  <2>3. f[x + 1] - f[x] = g[x + 1] - g[x]
    BY <2>1
  <2>4. /\ f[i] \in Int /\ f[x] \in Int /\ f[x + 1] \in Int
        /\ g[i] \in Int /\ g[x] \in Int /\ g[x + 1] \in Int
    BY <2>1
  <2>5. f[x + 1] - f[i] = g[x + 1] - g[i]
    <3> DEFINE a == f[i]
               b == f[x]
               c == f[x + 1]
               d == g[i]
               e == g[x]
               h == g[x + 1]
    <3>1. /\ a \in Int /\ b \in Int /\ c \in Int /\ d \in Int /\ e \in Int /\ h \in Int
          /\ b - a = e - d /\ c - b = h - e
      BY <2>2, <2>3, <2>4
    <3> HIDE DEF a, b, c, d, e, h
    <3>2. c - a = h - d
      BY ONLY <3>1
    <3> QED BY <3>2 DEF a, c, d, h
  <2> QED BY <2>1, <2>5
<1>3. Nat \subseteq T
  <2> HIDE DEF T
  <2> QED BY <1>1, <1>2, Counting
<1>4. j - i \in Nat /\ i + (j - i) = j
  OBVIOUS
<1>5. j - i \in T
  BY <1>3, <1>4
<1> QED BY <1>4, <1>5

-----------------------------------------------------------------------------
(* The instructions and where they start.                                  *)

StartsTo(c, n, s) ==
  s = [j \in 1..n |-> IF j = 1 THEN targetAddress ELSE s[j - 1] + At(c, j - 1).len]

LEMMA StartsExist ==
  ASSUME NEW c
  PROVE  \A n \in Nat : \E s : StartsTo(c, n, s)
<1> DEFINE T == {n \in Nat : \E s : StartsTo(c, n, s)}
<1>1. 0 \in T
  <2> DEFINE s == [j \in 1..0 |-> 0]
  <2>1. s = [j \in 1..0 |-> IF j = 1 THEN targetAddress ELSE s[j - 1] + At(c, j - 1).len]
    OBVIOUS
  <2> QED BY <2>1 DEF StartsTo
<1>2. ASSUME NEW n \in Nat, n \in T PROVE n + 1 \in T
  <2>1. PICK s : s = [j \in 1..n |-> IF j = 1 THEN targetAddress ELSE s[j - 1] + At(c, j - 1).len]
    BY <1>2 DEF StartsTo
  <2> DEFINE last == IF n = 0 THEN targetAddress ELSE s[n] + At(c, n).len
             v == [j \in 1..(n + 1) |-> IF j = n + 1 THEN last ELSE s[j]]
  <2>2. ASSUME NEW j \in 1..(n + 1)
        PROVE  v[j] = IF j = 1 THEN targetAddress ELSE v[j - 1] + At(c, j - 1).len
    <3>1. CASE j = n + 1
      <4>1. v[j] = last /\ j - 1 = n /\ (j = 1 <=> n = 0)
        BY <3>1
      <4>2. n # 0 => n \in 1..(n + 1) /\ n # n + 1
        OBVIOUS
      <4>3. n # 0 => v[n] = s[n]
        BY <4>2
      <4> QED BY <4>1, <4>3
    <3>2. CASE j \in 1..n
      <4>1. v[j] = s[j] /\ (j # 1 => j - 1 \in 1..(n + 1) /\ j - 1 # n + 1)
        BY <3>2
      <4>2. j # 1 => v[j - 1] = s[j - 1]
        BY <4>1
      <4>3. s[j] = IF j = 1 THEN targetAddress ELSE s[j - 1] + At(c, j - 1).len
        BY <2>1, <3>2
      <4> QED BY <4>1, <4>2, <4>3
    <3> QED BY <3>1, <3>2
  <2>3. v = [j \in 1..(n + 1) |-> IF j = 1 THEN targetAddress ELSE v[j - 1] + At(c, j - 1).len]
    <3>1. v = [j \in 1..(n + 1) |-> v[j]]
      OBVIOUS
    <3> HIDE DEF v
    <3> QED BY <2>2, <3>1
  <2> HIDE DEF v
  <2> QED BY <2>3 DEF StartsTo
<1>3. Nat \subseteq T
  <2> HIDE DEF T
  <2> QED BY <1>1, <1>2, Counting
<1> QED BY <1>3

LEMMA StartsIs ==
  ASSUME NEW c
  PROVE  /\ Starts(c)[1] = targetAddress
         /\ \A j \in 1..Count + 1 : Starts(c)[j + 1] = Starts(c)[j] + At(c, j).len
<1> DEFINE s == CHOOSE s : s = [j \in Indices |-> IF j = 1 THEN targetAddress ELSE s[j - 1] + At(c, j - 1).len]
<1>1. Starts(c) = s
  BY DEF Starts
<1>2. \E v : v = [j \in Indices |-> IF j = 1 THEN targetAddress ELSE v[j - 1] + At(c, j - 1).len]
  <2>1. Count + 2 \in Nat
    BY TrampolineAssumption
  <2>2. \E v : StartsTo(c, Count + 2, v)
    BY <2>1, StartsExist
  <2> QED BY <2>2, Zenon DEF StartsTo, Indices
<1>3. s = [j \in Indices |-> IF j = 1 THEN targetAddress ELSE s[j - 1] + At(c, j - 1).len]
  BY <1>2, Zenon
<1> HIDE DEF s
<1>4. 1 \in Indices /\ \A j \in 1..Count + 1 : j + 1 \in Indices /\ j + 1 # 1 /\ (j + 1) - 1 = j
  BY TrampolineAssumption DEF Indices
<1>5. s[1] = targetAddress
  BY <1>3, <1>4
<1>6. ASSUME NEW j \in 1..Count + 1 PROVE s[j + 1] = s[j] + At(c, j).len
  <2>1. s[j + 1] = s[(j + 1) - 1] + At(c, (j + 1) - 1).len
    BY <1>3, <1>4
  <2> QED BY <1>4, <2>1
<1> QED BY <1>1, <1>5, <1>6

LEMMA CountType == Count \in Nat /\ targetAddress \in Nat /\ targetAddress > 0 /\ CodeStart \in Nat
  BY TrampolineAssumption

LEMMA InstTypes ==
  ASSUME code \in Codes, NEW j \in Indices
  PROVE  /\ Inst(j).len \in Nat /\ Inst(j).len >= 1 /\ Inst(j).dest \in Int
         /\ Inst(j).kind = "rip_jmp" => Inst(j).len = 6
         /\ Inst(j).kind \in Jumps => j \in 1..Count
<1>1. CASE j \in 1..Count
  <2>1. code[j] \in Instruction /\ Inst(j) = code[j]
    BY <1>1 DEF Codes, Inst, At
  <2>2. PICK kind \in Kinds : code[j] \in [kind : {kind}, len : Lengths(kind), dest : Named(kind)]
    BY <2>1 DEF Instruction
  <2>3. Inst(j).kind = kind /\ Inst(j).len \in Lengths(kind) /\ Inst(j).dest \in Named(kind)
    BY <2>1, <2>2
  <2>4. Inst(j).len \in 1..6 /\ (kind = "rip_jmp" => Inst(j).len = 6)
    <3>1. CASE kind = "plain"
      BY <2>3, <3>1 DEF Lengths
    <3>2. CASE kind = "rip"
      BY <2>3, <3>2 DEF Lengths
    <3>3. CASE kind = "rip_jmp"
      <4>1. Lengths(kind) = {6}
        BY <3>3 DEF Lengths
      <4> QED BY <2>3, <4>1
    <3>4. CASE kind = "call"
      BY <2>3, <3>4 DEF Lengths
    <3>5. CASE kind = "jmp"
      BY <2>3, <3>5 DEF Lengths
    <3>6. CASE kind = "jcc"
      BY <2>3, <3>6 DEF Lengths
    <3>7. CASE kind = "loop"
      BY <2>3, <3>7 DEF Lengths
    <3>8. CASE kind \notin {"plain", "rip", "rip_jmp", "call", "jmp", "jcc", "loop"}
      <4>1. Lengths(kind) = {1}
        BY <3>8, Zenon DEF Lengths
      <4> QED BY <2>3, <3>8, <4>1
    <3> QED BY <3>1, <3>2, <3>3, <3>4, <3>5, <3>6, <3>7, <3>8
  <2>5. Inst(j).dest \in Int
    <3>1. \A x \in Outside \cup Data : x \in Int
      BY TrampolineAssumption
    <3>2. targetAddress..targetAddress + JmpRel - 1 \subseteq Int
      OBVIOUS
    <3>3. CASE kind \in {"rip", "rip_jmp"}
      <4>1. Named(kind) = Data
        BY <3>3 DEF Named, Jumps
      <4> QED BY <2>3, <3>1, <4>1
    <3>4. CASE kind = "call"
      BY <2>3, <3>1, <3>4 DEF Named
    <3>5. CASE kind \in Jumps
      BY <2>3, <3>1, <3>2, <3>5 DEF Named, Jumps
    <3>6. CASE kind \notin Jumps /\ kind \notin {"rip", "rip_jmp"} /\ kind # "call"
      <4>1. Named(kind) = {0}
        BY <3>6, Zenon DEF Named
      <4> QED BY <2>3, <4>1
    <3> QED BY <3>3, <3>4, <3>5, <3>6
  <2>6. kind \in Jumps => j \in 1..Count
    BY <1>1
  <2>7. Inst(j).len \in Nat /\ Inst(j).len >= 1 /\ (kind = "rip_jmp" => Inst(j).len = 6)
    BY <2>4
  <2> QED BY <2>3, <2>5, <2>6, <2>7
<1>2. CASE j \notin 1..Count
  <2>1. Inst(j) = Rest
    BY <1>2 DEF Inst, At
  <2>2. Rest.kind = "plain" /\ Rest.len = 5 /\ Rest.dest = 0
    BY DEF Rest, JmpRel
  <2> QED BY <2>1, <2>2 DEF Jumps
<1> QED BY <1>1, <1>2

LEMMA RipLength ==
  ASSUME code \in Codes, NEW j \in Indices, Inst(j).kind = "rip_jmp"
  PROVE  Inst(j).len = 6
<1>1. j \in 1..Count
  BY DEF Inst, At, Rest
<1>2. Inst(j) = code[j] /\ code[j] \in Instruction
  BY <1>1 DEF Inst, At, Codes
<1>3. PICK kd \in Kinds : code[j] \in [kind : {kd}, len : Lengths(kd), dest : Named(kd)]
  BY <1>2 DEF Instruction
<1>4. kd = "rip_jmp" /\ Inst(j).len \in Lengths(kd)
  BY <1>2, <1>3
<1> QED BY <1>4 DEF Lengths

LEMMA AddressIs ==
  /\ Address(1) = targetAddress
  /\ \A j \in 1..Count + 1 : Address(j + 1) = After(j)
  BY StartsIs DEF Address, After, Inst

LEMMA AddressTypes ==
  ASSUME code \in Codes
  PROVE  \A j \in Indices : Address(j) \in Int
<1> DEFINE T == {n \in Nat : n + 1 \in Indices => Address(n + 1) \in Int}
<1>1. 0 \in T
  BY AddressIs, CountType
<1>2. ASSUME NEW n \in Nat, n \in T PROVE n + 1 \in T
  <2> SUFFICES ASSUME n + 1 + 1 \in Indices PROVE Address(n + 1 + 1) \in Int
    OBVIOUS
  <2>1. n + 1 \in Indices /\ n + 1 \in 1..Count + 1
    BY CountType DEF Indices
  <2>2. Address(n + 1) \in Int /\ Inst(n + 1).len \in Nat
    BY <1>2, <2>1, InstTypes
  <2>3. Address(n + 1 + 1) = Address(n + 1) + Inst(n + 1).len
    BY <2>1, AddressIs DEF After
  <2> QED BY <2>2, <2>3
<1>3. Nat \subseteq T
  <2> HIDE DEF T
  <2> QED BY <1>1, <1>2, Counting
<1>4. ASSUME NEW j \in Indices PROVE Address(j) \in Int
  <2>1. j - 1 \in Nat /\ (j - 1) + 1 = j
    BY CountType DEF Indices
  <2>2. j - 1 \in T
    BY <1>3, <2>1
  <2> QED BY <2>1, <2>2
<1> QED BY <1>4

LEMMA AddressStep ==
  ASSUME code \in Codes, NEW j \in 1..Count + 1
  PROVE  /\ j \in Indices /\ j + 1 \in Indices
         /\ Address(j) \in Int /\ Address(j + 1) \in Int
         /\ Address(j + 1) = Address(j) + Inst(j).len /\ Address(j) < Address(j + 1)
<1>1. j \in Indices /\ j + 1 \in Indices
  BY CountType DEF Indices
<1>2. Address(j) \in Int /\ Address(j + 1) \in Int
  BY <1>1, AddressTypes
<1>3. Address(j + 1) = Address(j) + Inst(j).len
  BY AddressIs DEF After
<1>4. Inst(j).len \in Nat /\ Inst(j).len >= 1
  BY <1>1, InstTypes
<1>5. Address(j) < Address(j + 1)
  BY <1>2, <1>3, <1>4
<1> QED BY <1>1, <1>2, <1>3, <1>5

LEMMA AddressRises ==
  ASSUME code \in Codes, NEW i \in Indices, NEW j \in Indices, i < j
  PROVE  Address(i) < Address(j) /\ After(i) <= Address(j)
<1> DEFINE n == Count + 2
           f == [x \in 1..n |-> Address(x)]
<1>1. n \in Nat /\ i \in 1..n /\ j \in 1..n /\ i \in 1..Count + 1 /\ i + 1 \in 1..n
  BY CountType DEF Indices
<1>2. f \in [1..n -> Int]
  BY AddressTypes DEF Indices
<1>3. \A x \in 1..n - 1 : f[x] < f[x + 1]
  <2> TAKE x \in 1..n - 1
  <2>1. x \in 1..Count + 1 /\ x \in 1..n /\ x + 1 \in 1..n
    BY CountType
  <2>2. f[x] = Address(x) /\ f[x + 1] = Address(x + 1)
    BY <2>1
  <2> HIDE DEF f
  <2> QED BY <2>1, <2>2, AddressStep
<1>4. f[i] = Address(i) /\ f[j] = Address(j) /\ f[i + 1] = Address(i + 1)
  BY <1>1
<1> HIDE DEF f, n
<1>5. f[i] < f[j] /\ f[i + 1] <= f[j]
  BY <1>1, <1>2, <1>3, Rising
<1> QED BY <1>1, <1>4, <1>5, AddressIs

LEMMA AddressOne ==
  ASSUME code \in Codes, NEW i \in Indices, NEW j \in Indices, Address(i) = Address(j)
  PROVE  i = j
<1>1. i \in Int /\ j \in Int /\ Address(i) \in Int /\ Address(j) \in Int
  BY AddressTypes, CountType DEF Indices
<1>2. ~(i < j)
  <2> SUFFICES ASSUME i < j PROVE FALSE
    OBVIOUS
  <2>1. Address(i) < Address(j)
    BY AddressRises
  <2> QED BY <1>1, <2>1
<1>3. ~(j < i)
  <2> SUFFICES ASSUME j < i PROVE FALSE
    OBVIOUS
  <2>1. Address(j) < Address(i)
    BY AddressRises
  <2> QED BY <1>1, <2>1
<1> QED BY <1>1, <1>2, <1>3

LEMMA AddressLow ==
  ASSUME code \in Codes, NEW j \in Indices
  PROVE  Address(j) >= targetAddress
<1>1. 1 \in Indices /\ j \in Int /\ j >= 1 /\ Address(j) \in Int
  BY AddressTypes, CountType DEF Indices
<1>2. CASE j = 1
  BY <1>2, AddressIs, CountType
<1>3. CASE j # 1
  <2>1. 1 < j
    BY <1>1, <1>3
  <2>2. Address(1) < Address(j)
    BY <1>1, <2>1, AddressRises
  <2> QED BY <1>1, <2>2, AddressIs, CountType
<1> QED BY <1>2, <1>3

LEMMA LastAddress ==
  ASSUME code \in Codes
  PROVE  Address(Count + 2) >= targetAddress + JmpRel
<1>1. Count + 1 \in 1..Count + 1 /\ (Count + 1) + 1 = Count + 2 /\ Count + 1 \notin 1..Count
  BY CountType
<1>2. Address(Count + 2) = Address(Count + 1) + Inst(Count + 1).len /\ Count + 1 \in Indices
  <2>1. Address((Count + 1) + 1) = Address(Count + 1) + Inst(Count + 1).len /\ Count + 1 \in Indices
    BY <1>1, AddressStep
  <2> QED BY <1>1, <2>1
<1>3. Inst(Count + 1).len = 5
  BY <1>1 DEF Inst, At, Rest, JmpRel
<1>4. Address(Count + 1) >= targetAddress /\ Address(Count + 1) \in Int
  BY <1>2, AddressLow, AddressTypes
<1> QED BY <1>2, <1>3, <1>4, CountType DEF JmpRel

LEMMA NotInside ==
  ASSUME code \in Codes, NEW i \in Indices, Inst(i).kind \in Jumps, NEW j \in 1..Count + 1
  PROVE  ~(Address(j) < Inst(i).dest /\ Inst(i).dest < Address(j + 1))
<1>1. i \in 1..Count
  BY InstTypes
<1>2. Inst(i) = code[i]
  BY <1>1 DEF Inst, At
<1> QED BY <1>1, <1>2 DEF Codes, Address

LEMMA InnerJumpHits ==
  ASSUME code \in Codes, NEW i \in Indices, InnerJump(i)
  PROVE  \E j \in Indices : Address(j) = Inst(i).dest
<1> DEFINE d == Inst(i).dest
           T == {m \in Nat : m \in Indices /\ d < Address(m)}
<1>1. d \in Int /\ targetAddress <= d /\ d < targetAddress + JmpRel
  BY InstTypes DEF InnerJump, Internal
<1>2. Count + 2 \in T
  <2>1. Count + 2 \in Nat /\ Count + 2 \in Indices
    BY CountType DEF Indices
  <2>2. Address(Count + 2) >= targetAddress + JmpRel /\ Address(Count + 2) \in Int
    BY <2>1, LastAddress, AddressTypes
  <2>3. d < Address(Count + 2)
    BY <1>1, <2>2, CountType DEF JmpRel
  <2> QED BY <2>1, <2>3
<1>3. PICK m \in T : \A n \in T : m <= n
  <2>1. T \in SUBSET Nat /\ T # {}
    BY <1>2
  <2> HIDE DEF T
  <2> QED BY <2>1, LeastNumber
<1>4. m \in Indices /\ m \in Nat /\ d < Address(m)
  BY <1>3
<1>5. m # 1
  BY <1>1, <1>4, AddressIs, CountType
<1>6. m - 1 \in 1..Count + 1 /\ (m - 1) + 1 = m /\ m - 1 \in Nat /\ m - 1 \in Indices /\ m - 1 < m
  BY <1>4, <1>5, CountType DEF Indices
<1>7. ~(d < Address(m - 1))
  <2> SUFFICES ASSUME d < Address(m - 1) PROVE FALSE
    OBVIOUS
  <2>1. m - 1 \in T
    BY <1>6
  <2>2. m <= m - 1
    BY <1>3, <2>1
  <2> QED BY <2>2, <1>4
<1>8. ~(Address(m - 1) < d /\ d < Address((m - 1) + 1))
  BY <1>6, NotInside DEF InnerJump
<1>9. ~(Address(m - 1) < d)
  BY <1>4, <1>6, <1>8
<1>10. Address(m - 1) = d
  <2>1. Address(m - 1) \in Int
    BY <1>6, AddressTypes
  <2> HIDE DEF d
  <2> QED BY <1>1, <1>7, <1>9, <2>1
<1> QED BY <1>6, <1>10

-----------------------------------------------------------------------------
(* The inductive invariant: the items written so far are in one piece, one *)
(* for each instruction read, and the decoder read on only for a reason.   *)

Items == [op : {"copy", "rip", "jmp", "jcc"}, at : Int, len : Nat \ {0}, dest : Int]

\* it is what the loop writes for instruction j.
Written(j, it) ==
  \/ Inst(j).kind \in {"plain", "ret"} /\ it.op = "copy" /\ it.len = Inst(j).len
  \/ /\ Inst(j).kind \in {"rip", "rip_jmp"} /\ it.op = "rip" /\ it.len = Inst(j).len
     /\ it.dest = Signed(Inst(j).dest - Inst(j).len - it.at)
  \/ Inst(j).kind = "call" /\ it.op = "jmp" /\ it.len = JmpAbs
  \/ InnerJump(j) /\ it.op = "copy" /\ it.len = Inst(j).len /\ it.dest = Inst(j).dest - After(j)
  \/ /\ Inst(j).kind = "jmp" /\ ~Internal(Inst(j).dest)
     /\ it.op = "jmp" /\ it.len = JmpAbs /\ it.dest = Inst(j).dest
  \/ /\ Inst(j).kind = "jcc" /\ ~Internal(Inst(j).dest)
     /\ it.op = "jcc" /\ it.len = JccAbs /\ it.dest = Inst(j).dest

\* Why the decoder went on behind instruction j.
ReadOn(j) ==
  /\ Inst(j).kind # "rip_jmp"
  /\ Inst(j).kind = "ret" =>
       \E i \in 1..j - 1 : InnerJump(i) /\ Inst(i).dest > Address(j)
  /\ Inst(j).kind = "jmp" /\ ~Internal(Inst(j).dest) =>
       \E i \in 1..j - 1 : InnerJump(i) /\ Inst(i).dest > targetAddress

Chain(o) ==
  /\ o \in Seq(Items)
  /\ \A i \in 1..Len(o) : o[i].at = IF i = 1 THEN CodeStart ELSE o[i - 1].at + o[i - 1].len

Taken(o, n) ==
  /\ n <= Len(o)
  /\ \A i \in 1..n :
       Written(i, o[i]) /\ Address(i) < targetAddress + JmpRel /\ ReadOn(i)

\* max is the farthest destination of the jumps among the first n.
MaxOf(n, max) ==
  /\ \A i \in 1..n : InnerJump(i) => Inst(i).dest <= max
  /\ max # 0 => \E i \in 1..n : InnerJump(i) /\ Inst(i).dest = max

EndsAt(j, max) ==
  \/ Inst(j).kind = "ret" /\ Address(j) >= max
  \/ Inst(j).kind = "jmp" /\ ~Internal(Inst(j).dest) /\ targetAddress >= max
  \/ Inst(j).kind = "rip_jmp"

\* The loop was left with the last instruction, or for the jump back.
Finished(o, n, max, res) ==
  /\ Len(o) = n /\ Written(n, o[n]) /\ Address(n) < targetAddress + JmpRel
  /\ res = After(n) - targetAddress
  /\ EndsAt(n, max)

WentBack(o, n, res) ==
  /\ Len(o) = n
  /\ o[n] = [op |-> "jmp", at |-> o[n].at, len |-> JmpAbs, dest |-> Address(n)]
  /\ res = Address(n) - targetAddress

TrampolineInv ==
  /\ code \in Codes /\ k \in Indices /\ maxJmpRef \in Int /\ result \in Int
  /\ Chain(out) /\ Taken(out, k - 1) /\ MaxOf(k - 1, maxJmpRef)
  /\ phase \in {"decode", "none", "run", "diverged", "left"}
  /\ phase = "decode" => Len(out) = k - 1 /\ result = 0 /\ original = 1 /\ copy = CodeStart
  /\ phase = "none" =>
       \/ result = 0 /\ Len(out) = k - 1
       \/ result < JmpRel /\ Finished(out, k, maxJmpRef, result)
  /\ phase \in {"run", "diverged", "left"} =>
       /\ result >= JmpRel
       /\ Finished(out, k, maxJmpRef, result) \/ WentBack(out, k, result)
  /\ phase = "run" =>
       /\ original \in 1..Len(out) /\ Copied(Address(original))
       /\ copy = out[original].at

LEMMA CodeSame ==
  ASSUME code' = code
  PROVE  /\ \A j : Inst(j)' = Inst(j)
         /\ \A j : Address(j)' = Address(j)
         /\ \A j : After(j)' = After(j)
         /\ \A j : InnerJump(j)' <=> InnerJump(j)
         /\ \A j : ReadOn(j)' <=> ReadOn(j)
<1>1. \A j : Inst(j)' = Inst(j)
  BY DEF Inst
<1>2. \A j : Address(j)' = Address(j)
  BY DEF Address
<1>3. \A j : After(j)' = After(j)
  BY <1>1, <1>2 DEF After
<1>4. \A j : InnerJump(j)' <=> InnerJump(j)
  BY <1>1 DEF InnerJump
<1>5. \A j : ReadOn(j)' <=> ReadOn(j)
  BY <1>1, <1>2, <1>4 DEF ReadOn
<1> QED BY <1>1, <1>2, <1>3, <1>4, <1>5

LEMMA InvAfter ==
  ASSUME code \in Codes, code' = code, k' \in Indices, maxJmpRef' \in Int, result' \in Int,
         Chain(out'), Taken(out', k' - 1), MaxOf(k' - 1, maxJmpRef'),
         phase' \in {"decode", "none", "run", "diverged", "left"},
         phase' = "decode" =>
           Len(out') = k' - 1 /\ result' = 0 /\ original' = 1 /\ copy' = CodeStart,
         phase' = "none" =>
           \/ result' = 0 /\ Len(out') = k' - 1
           \/ result' < JmpRel /\ Finished(out', k', maxJmpRef', result'),
         phase' \in {"run", "diverged", "left"} =>
           /\ result' >= JmpRel
           /\ Finished(out', k', maxJmpRef', result') \/ WentBack(out', k', result'),
         phase' = "run" =>
           /\ original' \in 1..Len(out')
           /\ targetAddress <= Address(original')
           /\ Address(original') < targetAddress + result'
           /\ copy' = out'[original'].at
  PROVE  TrampolineInv'
<1>1. Taken(out, k - 1)'
  BY CodeSame DEF Taken, Written
<1>2. MaxOf(k - 1, maxJmpRef)'
  BY CodeSame DEF MaxOf
<1>3. Finished(out', k', maxJmpRef', result') => Finished(out, k, maxJmpRef, result)'
  BY CodeSame DEF Finished, Written, EndsAt
<1>4. WentBack(out', k', result') => WentBack(out, k, result)'
  BY CodeSame DEF WentBack
<1>5. Chain(out)'
  BY DEF Chain
<1>6. Address(original)' = Address(original')
  BY DEF Address
<1> QED BY <1>1, <1>2, <1>3, <1>4, <1>5, <1>6 DEF TrampolineInv, Copied

-----------------------------------------------------------------------------
(* The steps of the loop keep the invariant.                               *)

LEMMA InitInv == Init => TrampolineInv
<1> SUFFICES ASSUME Init PROVE TrampolineInv
  OBVIOUS
<1>1. code \in Codes /\ k = 1 /\ out = <<>> /\ maxJmpRef = 0 /\ result = 0 /\ phase = "decode"
      /\ original = 1 /\ copy = CodeStart
  BY DEF Init
<1>2. k \in Indices /\ Len(out) = 0 /\ out \in Seq(Items) /\ k - 1 = 0
  BY <1>1, CountType DEF Indices
<1>3. Chain(out) /\ Taken(out, k - 1) /\ MaxOf(k - 1, maxJmpRef)
  BY <1>1, <1>2 DEF Chain, Taken, MaxOf
<1> QED BY <1>1, <1>2, <1>3 DEF TrampolineInv

\* One item more.
LEMMA ChainGrows ==
  ASSUME NEW o, Chain(o), NEW it \in Items,
         it.at = IF o = <<>> THEN CodeStart ELSE o[Len(o)].at + o[Len(o)].len
  PROVE  /\ Chain(Append(o, it)) /\ Len(Append(o, it)) = Len(o) + 1
         /\ Append(o, it)[Len(o) + 1] = it
         /\ \A i \in 1..Len(o) : Append(o, it)[i] = o[i]
<1> DEFINE v == Append(o, it)
<1>1. o \in Seq(Items) /\ Len(o) \in Nat
  BY DEF Chain
<1>2. v \in Seq(Items) /\ Len(v) = Len(o) + 1 /\ v[Len(o) + 1] = it
      /\ \A i \in 1..Len(o) : v[i] = o[i]
  BY <1>1
<1> HIDE DEF v
<1>3. ASSUME NEW i \in 1..Len(v)
      PROVE  v[i].at = IF i = 1 THEN CodeStart ELSE v[i - 1].at + v[i - 1].len
  <2>1. CASE i = Len(o) + 1
    <3>1. v[i] = it
      BY <1>2, <2>1
    <3>2. CASE Len(o) = 0
      <4>1. o = <<>> /\ i = 1
        BY <1>1, <2>1, <3>2
      <4> QED BY <3>1, <4>1
    <3>3. CASE Len(o) # 0
      <4>1. o # <<>> /\ i # 1 /\ i - 1 = Len(o) /\ Len(o) \in 1..Len(o)
        BY <1>1, <2>1, <3>3
      <4>2. v[i - 1] = o[Len(o)]
        BY <1>2, <4>1
      <4> QED BY <3>1, <4>1, <4>2
    <3> QED BY <3>2, <3>3
  <2>2. CASE i \in 1..Len(o)
    <3>1. v[i] = o[i] /\ (i # 1 => i - 1 \in 1..Len(o))
      BY <1>1, <1>2, <2>2
    <3>2. i # 1 => v[i - 1] = o[i - 1]
      BY <1>2, <3>1
    <3>3. o[i].at = IF i = 1 THEN CodeStart ELSE o[i - 1].at + o[i - 1].len
      BY <2>2 DEF Chain
    <3> QED BY <3>1, <3>2, <3>3
  <2> QED BY <1>1, <1>2, <2>1, <2>2
<1>4. Chain(v)
  BY <1>2, <1>3 DEF Chain
<1> QED BY <1>2, <1>4 DEF v

LEMMA codePtrInt ==
  ASSUME TrampolineInv PROVE codePtr \in Int
<1>1. out \in Seq(Items) /\ Len(out) \in Nat
  BY DEF TrampolineInv, Chain
<1>2. CASE out = <<>>
  BY <1>2, CountType DEF codePtr
<1>3. CASE out # <<>>
  <2>1. Len(out) \in 1..Len(out)
    BY <1>1, <1>3
  <2>2. out[Len(out)] \in Items
    BY <1>1, <2>1
  <2>3. out[Len(out)].at \in Int /\ out[Len(out)].len \in Int
    BY <2>2 DEF Items
  <2> QED BY <1>3, <2>3 DEF codePtr
<1> QED BY <1>2, <1>3

Item(op, len, dest) == [op |-> op, at |-> codePtr, len |-> len, dest |-> dest]

\* What Emits adds is right for instruction k.
LEMMA EmitsInv ==
  ASSUME TrampolineInv, NEW op, NEW len, NEW dest, NEW finished \in BOOLEAN,
         Emits(op, len, dest, finished),
         Item(op, len, dest) \in Items, Written(k, Item(op, len, dest)),
         maxJmpRef' \in Int,
         ~finished => ReadOn(k) /\ MaxOf(k, maxJmpRef'),
         finished => EndsAt(k, maxJmpRef) /\ maxJmpRef' = maxJmpRef
  PROVE  TrampolineInv'
<1> DEFINE it == Item(op, len, dest)
<1>1. /\ phase = "decode" /\ Address(k) - targetAddress < JmpRel /\ code' = code
      /\ out' = Append(out, it)
      /\ IF finished THEN Ends(After(k) - targetAddress)
                     ELSE k' = k + 1 /\ UNCHANGED <<code, result, phase, original, copy>>
  BY DEF Emits, Item, Ends
<1>2. /\ code \in Codes /\ k \in Indices /\ k \in Nat /\ result = 0
      /\ Len(out) = k - 1 /\ original = 1 /\ copy = CodeStart
      /\ Chain(out) /\ Taken(out, k - 1) /\ MaxOf(k - 1, maxJmpRef)
  BY <1>1, CountType DEF TrampolineInv, Indices
<1>3. it.at = IF out = <<>> THEN CodeStart ELSE out[Len(out)].at + out[Len(out)].len
  BY DEF Item, codePtr
<1> HIDE DEF it
<1>4. /\ Chain(Append(out, it)) /\ Len(Append(out, it)) = Len(out) + 1
      /\ Append(out, it)[Len(out) + 1] = it
      /\ \A i \in 1..Len(out) : Append(out, it)[i] = out[i]
  BY <1>2, <1>3, ChainGrows DEF it
<1>5. /\ Chain(out') /\ Len(out') = k /\ out'[k] = it
      /\ \A i \in 1..k - 1 : out'[i] = out[i]
  <2>1. Len(out) + 1 = k
    BY <1>2
  <2> QED BY <1>1, <1>2, <1>4, <2>1
<1>6. Address(k) \in Int /\ Address(k) < targetAddress + JmpRel
  <2>1. Address(k) \in Int
    BY <1>2, AddressTypes
  <2> QED BY <1>1, <2>1, CountType DEF JmpRel
<1>7. Taken(out', k - 1)
  <2>1. k - 1 <= k
    BY <1>2
  <2> QED BY <1>2, <1>5, <2>1 DEF Taken
<1>8. Written(k, out'[k])
  BY <1>5 DEF it
<1>9. CASE ~finished
  <2>1. k' = k + 1 /\ UNCHANGED <<code, result, phase, original, copy>>
    BY <1>1, <1>9
  <2>2. k' - 1 = k /\ k <= k
    BY <2>1, <1>2
  <2>3. k' \in Indices
    <3>1. k # Count + 2
      <4>1. Count + 2 \in Indices
        BY CountType DEF Indices
      <4>2. Address(Count + 2) >= targetAddress + JmpRel
        BY <1>2, LastAddress
      <4> QED BY <1>6, <4>2, CountType DEF JmpRel
    <3> QED BY <1>2, <2>1, <3>1, CountType DEF Indices
  <2>4. Taken(out', k' - 1)
    <3>1. ASSUME NEW i \in 1..k
          PROVE  Written(i, out'[i]) /\ Address(i) < targetAddress + JmpRel /\ ReadOn(i)
      <4>1. CASE i = k
        BY <4>1, <1>6, <1>8, <1>9
      <4>2. CASE i \in 1..k - 1
        BY <4>2, <1>7 DEF Taken
      <4> QED BY <1>2, <4>1, <4>2
    <3> QED BY <2>2, <3>1, <1>5 DEF Taken
  <2>5. MaxOf(k' - 1, maxJmpRef')
    BY <2>2, <1>9
  <2>6. phase' = "decode" /\ Len(out') = k' - 1 /\ result' = 0 /\ original' = 1 /\ copy' = CodeStart
    BY <1>1, <1>2, <1>5, <2>1, <2>2
  <2> QED BY <1>2, <1>5, <2>1, <2>3, <2>4, <2>5, <2>6, InvAfter
<1>10. CASE finished
  <2>1. /\ result' = After(k) - targetAddress
        /\ phase' = IF After(k) - targetAddress >= JmpRel THEN "run" ELSE "none"
        /\ UNCHANGED <<code, k, original, copy>>
    BY <1>1, <1>10 DEF Ends
  <2>2. After(k) \in Int
    BY <1>2, <1>6, InstTypes DEF After
  <2>3. Finished(out', k', maxJmpRef', result')
    BY <1>5, <1>6, <1>8, <1>10, <2>1 DEF Finished
  <2>4. result' \in Int /\ targetAddress \in Int
    BY <2>1, <2>2, CountType
  <2>5. CASE phase' = "run"
    <3>1. result' >= JmpRel
      BY <2>1, <2>5
    <3>2. 1 \in 1..Len(out') /\ original' = 1 /\ copy' = CodeStart
      BY <1>2, <1>5, <2>1, CountType DEF Indices
    <3>3. out'[1].at = CodeStart
      BY <1>5, <3>2 DEF Chain
    <3>4. targetAddress <= Address(1) /\ Address(1) < targetAddress + result'
      BY AddressIs, <2>4, <3>1 DEF JmpRel
    <3>5. Taken(out', k' - 1) /\ MaxOf(k' - 1, maxJmpRef') /\ k' \in Indices
      BY <1>2, <1>7, <1>10, <2>1
    <3> QED BY <1>2, <1>5, <2>1, <2>3, <2>4, <2>5, <3>1, <3>2, <3>3, <3>4, <3>5, InvAfter
  <2>6. CASE phase' = "none"
    <3>1. result' < JmpRel
      BY <2>1, <2>4, <2>6 DEF JmpRel
    <3>2. Taken(out', k' - 1) /\ MaxOf(k' - 1, maxJmpRef') /\ k' \in Indices
      BY <1>2, <1>7, <1>10, <2>1
    <3> QED BY <1>2, <1>5, <2>1, <2>3, <2>4, <2>6, <3>1, <3>2, InvAfter
  <2> QED BY <2>1, <2>5, <2>6
<1> QED BY <1>9, <1>10

LEMMA DecodeTypes ==
  ASSUME TrampolineInv
  PROVE  /\ code \in Codes /\ k \in Indices /\ maxJmpRef \in Int /\ codePtr \in Int
         /\ Inst(k).len \in Nat \ {0} /\ Inst(k).dest \in Int
         /\ Address(k) \in Int /\ After(k) \in Int
         /\ MaxOf(k - 1, maxJmpRef)
<1>1. code \in Codes /\ k \in Indices /\ maxJmpRef \in Int /\ MaxOf(k - 1, maxJmpRef)
  BY DEF TrampolineInv
<1>2. Inst(k).len \in Nat /\ Inst(k).len >= 1 /\ Inst(k).dest \in Int /\ Address(k) \in Int
  BY <1>1, InstTypes, AddressTypes
<1>3. After(k) \in Int
  BY <1>2 DEF After
<1> QED BY <1>1, <1>2, <1>3, codePtrInt

LEMMA MaxSame ==
  ASSUME TrampolineInv, ~InnerJump(k)
  PROVE  MaxOf(k, maxJmpRef)
<1>1. k \in Nat /\ MaxOf(k - 1, maxJmpRef)
  BY DecodeTypes, CountType DEF Indices
<1>2. \A i \in 1..k : InnerJump(i) => i \in 1..k - 1
  BY <1>1
<1>3. 1..k - 1 \subseteq 1..k
  BY <1>1
<1> QED BY <1>1, <1>2, <1>3 DEF MaxOf

LEMMA SignedInt ==
  ASSUME NEW x \in Int
  PROVE  /\ Signed(x) \in Int
         /\ x \in -HalfRange..HalfRange - 1 => Signed(x) = x
<1>1. HalfRange \in Nat /\ HalfRange > 0 /\ 2 * HalfRange \in Nat /\ 2 * HalfRange > 0
  BY TrampolineAssumption
<1> DEFINE n == 2 * HalfRange
           y == x + HalfRange
<1>2. y \in Int /\ n \in Nat /\ n > 0
  BY <1>1
<1>3. x \in -HalfRange..HalfRange - 1 => 0 <= y /\ y < n
  BY <1>1
<1>4. Signed(x) = (y % n) - HalfRange
  BY DEF Signed
<1> HIDE DEF n, y
<1>5. y % n \in Int
  BY <1>2
<1>6. 0 <= y /\ y < n => y % n = y
  BY <1>2
<1> USE DEF y
<1> QED BY <1>1, <1>3, <1>4, <1>5, <1>6

LEMMA PlainInv == ASSUME TrampolineInv, CopyPlain PROVE TrampolineInv'
<1>1. Inst(k).kind = "plain" /\ Emits("copy", Inst(k).len, 0, FALSE) /\ maxJmpRef' = maxJmpRef
  BY DEF CopyPlain
<1>2. ReadOn(k) /\ ~InnerJump(k)
  BY <1>1 DEF ReadOn, InnerJump, Jumps
<1>3. Item("copy", Inst(k).len, 0) \in Items
  BY DecodeTypes DEF Item, Items
<1>4. Written(k, Item("copy", Inst(k).len, 0))
  BY <1>1 DEF Written, Item
<1> QED BY <1>1, <1>2, <1>3, <1>4, DecodeTypes, MaxSame, EmitsInv

LEMMA OperandInv == ASSUME TrampolineInv, RelocateOperand PROVE TrampolineInv'
<1> DEFINE disp == Signed(Inst(k).dest - Inst(k).len - codePtr)
           fin == Inst(k).kind = "rip_jmp"
<1>1. /\ Inst(k).kind \in {"rip", "rip_jmp"} /\ Emits("rip", Inst(k).len, disp, fin)
      /\ maxJmpRef' = maxJmpRef
  BY DEF RelocateOperand
<1>2. disp \in Int
  <2>1. Inst(k).dest - Inst(k).len - codePtr \in Int
    BY DecodeTypes
  <2> QED BY <2>1, SignedInt
<1>3. Written(k, Item("rip", Inst(k).len, disp))
  BY <1>1 DEF Written, Item
<1> HIDE DEF disp
<1>4. (~fin => ReadOn(k)) /\ ~InnerJump(k) /\ (fin => EndsAt(k, maxJmpRef))
  BY <1>1 DEF ReadOn, InnerJump, Jumps, EndsAt
<1>5. Item("rip", Inst(k).len, disp) \in Items
  BY <1>2, DecodeTypes DEF Item, Items
<1>6. fin \in BOOLEAN
  OBVIOUS
<1> HIDE DEF fin
<1> QED BY <1>1, <1>3, <1>4, <1>5, <1>6, DecodeTypes, MaxSame, EmitsInv

LEMMA CallInv == ASSUME TrampolineInv, TransformCall PROVE TrampolineInv'
<1>1. Inst(k).kind = "call" /\ Emits("jmp", JmpAbs, Inst(k).dest, FALSE) /\ maxJmpRef' = maxJmpRef
  BY DEF TransformCall
<1>2. ReadOn(k) /\ ~InnerJump(k)
  BY <1>1 DEF ReadOn, InnerJump, Jumps
<1>3. Item("jmp", JmpAbs, Inst(k).dest) \in Items
  BY DecodeTypes DEF Item, Items, JmpAbs
<1>4. Written(k, Item("jmp", JmpAbs, Inst(k).dest))
  BY <1>1 DEF Written, Item
<1> QED BY <1>1, <1>2, <1>3, <1>4, DecodeTypes, MaxSame, EmitsInv

LEMMA InnerJumpInv == ASSUME TrampolineInv, CopyInternalJump PROVE TrampolineInv'
<1> DEFINE disp == Inst(k).dest - After(k)
<1>1. /\ InnerJump(k) /\ Emits("copy", Inst(k).len, disp, FALSE)
      /\ maxJmpRef' = IF maxJmpRef < Inst(k).dest THEN Inst(k).dest ELSE maxJmpRef
  BY DEF CopyInternalJump
<1>2. ReadOn(k)
  BY <1>1 DEF ReadOn, InnerJump, Jumps
<1>3. disp \in Int /\ maxJmpRef' \in Int
  BY <1>1, DecodeTypes
<1>4. Written(k, Item("copy", Inst(k).len, disp))
  BY <1>1 DEF Written, Item
<1> HIDE DEF disp
<1>5. Item("copy", Inst(k).len, disp) \in Items
  BY <1>3, DecodeTypes DEF Item, Items
<1>6. MaxOf(k, maxJmpRef')
  <2>1. k \in Nat /\ k \in 1..k
    BY DecodeTypes, CountType DEF Indices
  <2>2. maxJmpRef \in Int /\ Inst(k).dest \in Int /\ maxJmpRef' >= maxJmpRef
        /\ maxJmpRef' >= Inst(k).dest /\ maxJmpRef' \in {maxJmpRef, Inst(k).dest}
    BY <1>1, DecodeTypes
  <2>3. ASSUME NEW i \in 1..k, InnerJump(i) PROVE Inst(i).dest <= maxJmpRef'
    <3>1. CASE i = k
      BY <3>1, <2>2
    <3>2. CASE i \in 1..k - 1
      <4>1. Inst(i).dest <= maxJmpRef
        BY <2>3, <3>2, DecodeTypes DEF MaxOf
      <4>2. Inst(i).dest \in Int
        <5>1. i \in Indices
          BY <2>1, <3>2, DecodeTypes, CountType DEF Indices
        <5> QED BY <5>1, DecodeTypes, InstTypes
      <4> QED BY <4>1, <4>2, <2>2, <1>3
    <3> QED BY <2>1, <3>1, <3>2
  <2>4. ASSUME maxJmpRef' # 0 PROVE \E i \in 1..k : InnerJump(i) /\ Inst(i).dest = maxJmpRef'
    <3>1. CASE maxJmpRef' = Inst(k).dest
      BY <3>1, <2>1, <1>1
    <3>2. CASE maxJmpRef' = maxJmpRef
      <4>1. PICK i \in 1..k - 1 : InnerJump(i) /\ Inst(i).dest = maxJmpRef
        BY <2>4, <3>2, DecodeTypes DEF MaxOf
      <4>2. i \in 1..k
        BY <2>1
      <4> QED BY <3>2, <4>1, <4>2
    <3> QED BY <2>2, <3>1, <3>2
  <2> QED BY <2>3, <2>4 DEF MaxOf
<1> QED BY <1>1, <1>2, <1>3, <1>4, <1>5, <1>6, EmitsInv

\* A jump before it has the farthest destination.
LEMMA FarthestJump ==
  ASSUME TrampolineInv, NEW a \in Int, a >= 0, ~(a >= maxJmpRef)
  PROVE  \E i \in 1..k - 1 : InnerJump(i) /\ Inst(i).dest > a
<1>1. maxJmpRef # 0 /\ maxJmpRef > a
  BY DecodeTypes
<1>2. PICK i \in 1..k - 1 : InnerJump(i) /\ Inst(i).dest = maxJmpRef
  BY <1>1, DecodeTypes DEF MaxOf
<1> QED BY <1>1, <1>2

LEMMA JumpInv == ASSUME TrampolineInv, TransformJump PROVE TrampolineInv'
<1> DEFINE fin == targetAddress >= maxJmpRef
<1>1. /\ Inst(k).kind = "jmp" /\ ~Internal(Inst(k).dest) /\ Emits("jmp", JmpAbs, Inst(k).dest, fin)
      /\ maxJmpRef' = maxJmpRef
  BY DEF TransformJump
<1>2. ~fin => \E i \in 1..k - 1 : InnerJump(i) /\ Inst(i).dest > targetAddress
  BY FarthestJump, CountType
<1>3. ~fin => ReadOn(k)
  BY <1>1, <1>2 DEF ReadOn
<1>4. ~InnerJump(k) /\ (fin => EndsAt(k, maxJmpRef))
  BY <1>1 DEF InnerJump, EndsAt
<1>5. Item("jmp", JmpAbs, Inst(k).dest) \in Items
  BY DecodeTypes DEF Item, Items, JmpAbs
<1>6. Written(k, Item("jmp", JmpAbs, Inst(k).dest))
  BY <1>1 DEF Written, Item
<1>7. fin \in BOOLEAN
  OBVIOUS
<1> HIDE DEF fin
<1> QED BY <1>1, <1>3, <1>4, <1>5, <1>6, <1>7, DecodeTypes, MaxSame, EmitsInv

LEMMA ConditionalInv == ASSUME TrampolineInv, TransformConditional PROVE TrampolineInv'
<1>1. /\ Inst(k).kind = "jcc" /\ ~Internal(Inst(k).dest) /\ Emits("jcc", JccAbs, Inst(k).dest, FALSE)
      /\ maxJmpRef' = maxJmpRef
  BY DEF TransformConditional
<1>2. ReadOn(k) /\ ~InnerJump(k)
  BY <1>1 DEF ReadOn, InnerJump, Jumps
<1>3. Item("jcc", JccAbs, Inst(k).dest) \in Items
  BY DecodeTypes DEF Item, Items, JccAbs
<1>4. Written(k, Item("jcc", JccAbs, Inst(k).dest))
  BY <1>1 DEF Written, Item
<1> QED BY <1>1, <1>2, <1>3, <1>4, DecodeTypes, MaxSame, EmitsInv

LEMMA ReturnInv == ASSUME TrampolineInv, CopyReturn PROVE TrampolineInv'
<1> DEFINE fin == Address(k) >= maxJmpRef
<1>1. /\ Inst(k).kind = "ret" /\ Emits("copy", Inst(k).len, 0, fin)
      /\ maxJmpRef' = maxJmpRef
  BY DEF CopyReturn
<1>2. ~fin => \E i \in 1..k - 1 : InnerJump(i) /\ Inst(i).dest > Address(k)
  <2>1. Address(k) \in Int /\ Address(k) >= 0
    BY DecodeTypes, AddressLow, CountType
  <2> QED BY <2>1, FarthestJump
<1>3. ~fin => ReadOn(k)
  BY <1>1, <1>2 DEF ReadOn
<1>4. ~InnerJump(k) /\ (fin => EndsAt(k, maxJmpRef))
  BY <1>1 DEF InnerJump, Jumps, EndsAt
<1>5. Item("copy", Inst(k).len, 0) \in Items
  BY DecodeTypes DEF Item, Items
<1>6. Written(k, Item("copy", Inst(k).len, 0))
  BY <1>1 DEF Written, Item
<1>7. fin \in BOOLEAN
  OBVIOUS
<1> HIDE DEF fin
<1> QED BY <1>1, <1>3, <1>4, <1>5, <1>6, <1>7, DecodeTypes, MaxSame, EmitsInv

LEMMA RefusalInv == ASSUME TrampolineInv, Undecodable \/ RefuseLoop PROVE TrampolineInv'
<1>1. /\ phase = "decode" /\ result' = 0 /\ phase' = "none"
      /\ UNCHANGED <<code, k, out, maxJmpRef, original, copy>>
  BY DEF Undecodable, RefuseLoop, Ends, JmpRel
<1> QED BY <1>1, InvAfter DEF TrampolineInv

LEMMA JumpBackInv == ASSUME TrampolineInv, JumpBack PROVE TrampolineInv'
<1> DEFINE it == Item("jmp", JmpAbs, Address(k))
           res == Address(k) - targetAddress
<1>1. /\ phase = "decode" /\ res >= JmpRel /\ out' = Append(out, it)
      /\ result' = res /\ phase' = "run"
      /\ UNCHANGED <<code, k, maxJmpRef, original, copy>>
  BY DEF JumpBack, Item, Ends
<1>2. /\ code \in Codes /\ k \in Indices /\ k \in Nat /\ Len(out) = k - 1
      /\ original = 1 /\ copy = CodeStart /\ maxJmpRef \in Int
      /\ Chain(out) /\ Taken(out, k - 1) /\ MaxOf(k - 1, maxJmpRef)
  BY <1>1, CountType DEF TrampolineInv, Indices
<1>3. it.at = IF out = <<>> THEN CodeStart ELSE out[Len(out)].at + out[Len(out)].len
  BY DEF Item, codePtr
<1>4. it \in Items
  BY DecodeTypes DEF Item, Items, JmpAbs
<1>5. it = [op |-> "jmp", at |-> it.at, len |-> JmpAbs, dest |-> Address(k)]
  BY DEF Item
<1> HIDE DEF it
<1>6. /\ Chain(Append(out, it)) /\ Len(Append(out, it)) = Len(out) + 1
      /\ Append(out, it)[Len(out) + 1] = it
      /\ \A i \in 1..Len(out) : Append(out, it)[i] = out[i]
  BY <1>2, <1>3, <1>4, ChainGrows
<1>7. /\ Chain(out') /\ Len(out') = k /\ out'[k] = it
      /\ \A i \in 1..k - 1 : out'[i] = out[i]
  <2>1. Len(out) + 1 = k
    BY <1>2
  <2> QED BY <1>1, <1>2, <1>6, <2>1
<1>8. Taken(out', k' - 1) /\ MaxOf(k' - 1, maxJmpRef')
  <2>1. k - 1 <= k
    BY <1>2
  <2> QED BY <1>1, <1>2, <1>7, <2>1 DEF Taken
<1>9. WentBack(out', k', result')
  BY <1>1, <1>5, <1>7 DEF WentBack
<1>10. result' >= JmpRel /\ result' \in Int
  BY <1>1, DecodeTypes, CountType
<1>11. 1 \in 1..Len(out') /\ original' = 1 /\ copy' = CodeStart
  BY <1>1, <1>2, <1>7, CountType DEF Indices
<1>12. out'[1].at = CodeStart
  BY <1>7, <1>11 DEF Chain
<1>13. targetAddress <= Address(1) /\ Address(1) < targetAddress + result'
  BY AddressIs, <1>10, CountType DEF JmpRel
<1> HIDE DEF res
<1> QED BY <1>1, <1>2, <1>7, <1>8, <1>9, <1>10, <1>11, <1>12, <1>13, InvAfter

LEMMA DecodeInv == ASSUME TrampolineInv, Decode PROVE TrampolineInv'
  BY PlainInv, OperandInv, CallInv, InnerJumpInv, JumpInv, ConditionalInv, ReturnInv,
     RefusalInv, JumpBackInv DEF Decode

-----------------------------------------------------------------------------
(* The trampoline and the original code, side by side.  The first n        *)
(* instructions were copied; behind them is the jump back, unless the last *)
(* of them does not go on.                                                 *)

GoesOn(j) ==
  /\ Inst(j).kind \notin {"ret", "rip_jmp"}
  /\ ~(Inst(j).kind = "jmp" /\ ~Internal(Inst(j).dest))

Extent(n) ==
  /\ code \in Codes /\ Chain(out)
  /\ n \in 1..Count + 1 /\ result \in Int /\ result >= JmpRel
  /\ targetAddress + result = Address(n + 1)
  /\ \A i \in 1..n : Written(i, out[i]) /\ Address(i) < targetAddress + JmpRel
  /\ \/ Len(out) = n /\ ~GoesOn(n)
     \/ /\ Len(out) = n + 1
        /\ out[n + 1] = [op |-> "jmp", at |-> out[n + 1].at, len |-> JmpAbs,
                         dest |-> Address(n + 1)]

LEMMA Extents ==
  ASSUME TrampolineInv, phase = "run"
  PROVE  \E n : Extent(n)
<1>1. /\ code \in Codes /\ Chain(out) /\ k \in Indices /\ result \in Int /\ result >= JmpRel
      /\ Taken(out, k - 1)
  BY DEF TrampolineInv
<1>2. k \in Nat /\ k >= 1 /\ k <= Count + 2 /\ Address(k) \in Int
  BY <1>1, AddressTypes, CountType DEF Indices
<1>3. CASE Finished(out, k, maxJmpRef, result)
  <2>1. /\ Len(out) = k /\ Written(k, out[k]) /\ Address(k) < targetAddress + JmpRel
        /\ result = After(k) - targetAddress /\ EndsAt(k, maxJmpRef)
    BY <1>3 DEF Finished
  <2>2. k # Count + 2
    <3>1. Address(Count + 2) >= targetAddress + JmpRel
      BY <1>1, LastAddress
    <3> QED BY <1>2, <2>1, <3>1, CountType DEF JmpRel
  <2>3. k \in 1..Count + 1
    BY <1>2, <2>2, CountType
  <2>4. After(k) = Address(k + 1) /\ Address(k + 1) \in Int
    BY <1>1, <2>3, AddressIs, AddressStep
  <2>5. targetAddress + result = Address(k + 1)
    BY <2>1, <2>4, CountType
  <2>6. ~GoesOn(k)
    BY <2>1 DEF EndsAt, GoesOn
  <2>7. ASSUME NEW i \in 1..k
        PROVE  Written(i, out[i]) /\ Address(i) < targetAddress + JmpRel
    <3>1. i = k \/ i \in 1..k - 1
      BY <1>2
    <3> QED BY <3>1, <2>1, <1>1 DEF Taken
  <2>8. Extent(k)
    BY <1>1, <2>1, <2>3, <2>5, <2>6, <2>7 DEF Extent
  <2> QED BY <2>8
<1>4. CASE WentBack(out, k, result)
  <2>1. /\ Len(out) = k /\ result = Address(k) - targetAddress
        /\ out[k] = [op |-> "jmp", at |-> out[k].at, len |-> JmpAbs, dest |-> Address(k)]
    BY <1>4 DEF WentBack
  <2>2. k # 1
    BY <1>1, <2>1, AddressIs, CountType DEF JmpRel
  <2> DEFINE n == k - 1
  <2>3. n \in 1..Count + 1 /\ n + 1 = k
    BY <1>2, <2>2, CountType
  <2>4. targetAddress + result = Address(n + 1)
    BY <1>2, <2>1, <2>3, CountType
  <2>5. \A i \in 1..n : Written(i, out[i]) /\ Address(i) < targetAddress + JmpRel
    BY <1>1 DEF Taken
  <2> HIDE DEF n
  <2>6. Extent(n)
    BY <1>1, <2>1, <2>3, <2>4, <2>5 DEF Extent
  <2> QED BY <2>6
<1> QED BY <1>3, <1>4 DEF TrampolineInv

LEMMA ExtentTypes ==
  ASSUME NEW n, Extent(n)
  PROVE  /\ n \in Nat /\ n >= 1 /\ n \in Indices /\ n + 1 \in Indices
         /\ Len(out) \in {n, n + 1} /\ 1..n \subseteq 1..Len(out)
         /\ 1..n \subseteq Indices /\ 1..n \subseteq 1..Count + 1
         /\ \A i \in 1..Len(out) : out[i].at \in Int /\ out[i].len \in Nat \ {0} /\ out[i].dest \in Int
         /\ \A i \in 1..Len(out) - 1 : out[i + 1].at = out[i].at + out[i].len
<1>1. n \in Nat /\ n >= 1 /\ n \in Indices /\ n + 1 \in Indices
  BY CountType DEF Extent, Indices
<1>2. Len(out) \in {n, n + 1}
  BY DEF Extent
<1>3. 1..n \subseteq 1..Len(out)
  BY <1>1, <1>2
<1>4. 1..n \subseteq Indices /\ 1..n \subseteq 1..Count + 1
  BY CountType DEF Extent, Indices
<1>5. out \in Seq(Items) /\ Len(out) \in Nat
  BY DEF Extent, Chain
<1>6. \A i \in 1..Len(out) : out[i].at \in Int /\ out[i].len \in Nat \ {0} /\ out[i].dest \in Int
  <2> TAKE i \in 1..Len(out)
  <2>1. out[i] \in Items
    BY <1>5
  <2> QED BY <2>1 DEF Items
<1>7. \A i \in 1..Len(out) - 1 : out[i + 1].at = out[i].at + out[i].len
  <2> TAKE i \in 1..Len(out) - 1
  <2>1. i + 1 \in 1..Len(out) /\ i + 1 # 1 /\ (i + 1) - 1 = i
    BY <1>5
  <2> QED BY <2>1 DEF Extent, Chain
<1> QED BY <1>1, <1>2, <1>3, <1>4, <1>6, <1>7

LEMMA InExtent ==
  ASSUME NEW n, Extent(n), NEW x \in 1..n - 1
  PROVE  /\ x \in Int /\ x \in 1..n /\ x + 1 \in 1..n
         /\ x \in 1..Len(out) - 1 /\ x \in 1..Len(out) /\ x \in Indices /\ x \in 1..Count + 1
<1>1. n \in Nat /\ Len(out) \in {n, n + 1}
  BY ExtentTypes
<1>2. x \in Int /\ x \in 1..n /\ x + 1 \in 1..n /\ x \in 1..Len(out) - 1 /\ x \in 1..Len(out)
  BY <1>1
<1> QED BY <1>2, ExtentTypes

LEMMA CopiedBelow ==
  ASSUME NEW n, Extent(n), NEW j \in Indices
  PROVE  Copied(Address(j)) <=> j <= n
<1>1. /\ n \in Nat /\ n + 1 \in Indices /\ j \in Nat /\ code \in Codes
      /\ targetAddress + result = Address(n + 1) /\ result \in Int
  BY ExtentTypes, CountType DEF Extent, Indices
<1>2. Address(j) \in Int /\ Address(n + 1) \in Int /\ Address(j) >= targetAddress
  BY <1>1, AddressTypes, AddressLow
<1>3. CASE j <= n
  <2>1. j < n + 1
    BY <1>1, <1>3
  <2>2. Address(j) < Address(n + 1)
    BY <1>1, <2>1, AddressRises
  <2> QED BY <1>1, <1>2, <1>3, <2>2, CountType DEF Copied
<1>4. CASE ~(j <= n)
  <2>1. j = n + 1 \/ n + 1 < j
    BY <1>1, <1>4
  <2>2. Address(n + 1) <= Address(j)
    <3>1. CASE j = n + 1
      BY <3>1, <1>2
    <3>2. CASE n + 1 < j
      <4>1. Address(n + 1) < Address(j)
        BY <1>1, <3>2, AddressRises
      <4> QED BY <4>1, <1>2
    <3> QED BY <2>1, <3>1, <3>2
  <2> QED BY <1>1, <1>2, <1>4, <2>2, CountType DEF Copied
<1> QED BY <1>3, <1>4

LEMMA ItemAtOne ==
  ASSUME NEW n, Extent(n), NEW i \in 1..Len(out), NEW j \in 1..Len(out), out[i].at = out[j].at
  PROVE  i = j
<1> DEFINE m == Len(out)
           f == [x \in 1..m |-> out[x].at]
<1>1. m \in Nat /\ i \in 1..m /\ j \in 1..m /\ i \in Int /\ j \in Int
  BY ExtentTypes
<1>2. f \in [1..m -> Int] /\ f[i] = f[j]
  BY ExtentTypes
<1>3. \A x \in 1..m - 1 : f[x] < f[x + 1]
  <2> TAKE x \in 1..m - 1
  <2>1. x \in 1..m /\ x + 1 \in 1..m
    BY <1>1
  <2>2. f[x] = out[x].at /\ f[x + 1] = out[x].at + out[x].len
    BY <2>1, ExtentTypes
  <2>3. out[x].at \in Int /\ out[x].len \in Nat /\ out[x].len # 0
    BY <2>1, ExtentTypes
  <2> HIDE DEF f
  <2> QED BY <2>2, <2>3
<1> HIDE DEF f, m
<1>4. ~(i < j)
  <2> SUFFICES ASSUME i < j PROVE FALSE
    OBVIOUS
  <2>1. f[i] < f[j]
    BY <1>1, <1>2, <1>3, Rising
  <2> QED BY <1>1, <1>2, <2>1
<1>5. ~(j < i)
  <2> SUFFICES ASSUME j < i PROVE FALSE
    OBVIOUS
  <2>1. f[j] < f[i]
    BY <1>1, <1>2, <1>3, Rising
  <2> QED BY <1>1, <1>2, <2>1
<1> QED BY <1>1, <1>4, <1>5

\* Where an instruction goes on to the next one, the trampoline does.
LEMMA FallsThrough ==
  ASSUME NEW n, Extent(n), NEW j \in 1..n, GoesOn(j)
  PROVE  InStep(After(j), out[j].at + out[j].len)
<1>1. /\ n \in Nat /\ j \in 1..Count + 1 /\ After(j) = Address(j + 1) /\ j + 1 \in Indices
      /\ code \in Codes
  BY ExtentTypes, AddressIs, AddressStep DEF Extent
<1>2. CASE j < n
  <2>1. j + 1 \in 1..Len(out) /\ j + 1 <= n /\ j \in 1..Len(out) - 1
    BY <1>1, <1>2, ExtentTypes
  <2>2. out[j + 1].at = out[j].at + out[j].len
    BY <2>1, ExtentTypes
  <2>3. Copied(Address(j + 1))
    BY <1>1, <2>1, CopiedBelow
  <2> QED BY <1>1, <2>1, <2>2, <2>3 DEF InStep
<1>3. CASE j = n
  <2>1. /\ Len(out) = n + 1
        /\ out[n + 1] = [op |-> "jmp", at |-> out[n + 1].at, len |-> JmpAbs,
                         dest |-> Address(n + 1)]
    BY <1>3 DEF Extent
  <2>2. ~Copied(Address(n + 1))
    <3>1. ~(n + 1 <= n)
      BY <1>1
    <3> QED BY <3>1, CopiedBelow, ExtentTypes
  <2>3. n \in 1..Len(out) - 1
    BY <1>1, <2>1, ExtentTypes
  <2>4. out[n + 1].at = out[n].at + out[n].len
    BY <2>3, ExtentTypes
  <2> QED BY <1>1, <1>3, <2>1, <2>2, <2>4 DEF InStep
<1> QED BY <1>1, <1>2, <1>3

\* A jump out of the function's start does not lead to what was copied.
LEMMA JumpsOut ==
  ASSUME NEW n, Extent(n), NEW j \in 1..n,
         Inst(j).kind \in Jumps, ~Internal(Inst(j).dest)
  PROVE  InStep(Inst(j).dest, Inst(j).dest)
<1> DEFINE d == Inst(j).dest
<1>1. SUFFICES ASSUME Copied(d) PROVE FALSE
  BY DEF InStep
<1>2. /\ n \in 1..Count + 1 /\ n \in 1..n /\ j \in Indices /\ code \in Codes
      /\ targetAddress + result = Address(n + 1) /\ Address(n) < targetAddress + JmpRel
      /\ result \in Int
  <2>1. n \in 1..n /\ j \in Indices
    BY ExtentTypes
  <2> QED BY <2>1 DEF Extent
<1>3. d \in Int /\ Address(n) \in Int
  BY <1>2, InstTypes, AddressStep
<1>4. d < Address(n + 1) /\ targetAddress <= d
  BY <1>1, <1>2 DEF Copied
<1>5. d >= targetAddress + JmpRel
  <2>1. ~(d < targetAddress + JmpRel)
    BY <1>4 DEF Internal
  <2> HIDE DEF d
  <2> QED BY <2>1, <1>3, CountType DEF JmpRel
<1>6. Address(n) < d
  <2> HIDE DEF d
  <2> QED BY <1>2, <1>3, <1>5, CountType DEF JmpRel
<1> QED BY <1>2, <1>4, <1>6, NotInside

\* A jump inside of what was copied meets the same instruction, if all that
\* it jumps over kept its length.
LEMMA JumpsIn ==
  ASSUME NEW n, Extent(n), NEW j \in 1..n, InnerJump(j), Written(j, out[j]),
         out[j].op = "copy", ~JumpOverLonger
  PROVE  InStep(Inst(j).dest, out[j].at + out[j].len + out[j].dest)
<1> DEFINE d == Inst(j).dest
           t == out[j].at + out[j].len + out[j].dest
<1>1. /\ n \in Nat /\ j \in Nat /\ j \in 1..Count + 1 /\ j \in Indices /\ j \in 1..Len(out)
      /\ code \in Codes /\ After(j) = Address(j + 1) /\ After(j) = Address(j) + Inst(j).len
  <2>1. n \in Nat /\ j \in 1..Count + 1 /\ j \in Indices /\ j \in 1..Len(out)
    BY ExtentTypes
  <2>2. code \in Codes /\ j \in Nat
    BY <2>1 DEF Extent
  <2>3. After(j) = Address(j + 1) /\ After(j) = Address(j) + Inst(j).len
    BY <2>1, AddressIs DEF After
  <2> QED BY <2>1, <2>2, <2>3
<1>2. out[j].len = Inst(j).len /\ out[j].dest = d - After(j)
  BY DEF Written, InnerJump, Jumps
<1>3. PICK m \in Indices : Address(m) = d
  BY <1>1, InnerJumpHits
<1>4. m \in Int /\ m >= 1 /\ d \in Int
  BY <1>1, <1>3, AddressTypes, CountType DEF Indices
<1>5. Copied(d)
  <2>1. targetAddress <= d /\ d < targetAddress + JmpRel
    BY DEF InnerJump, Internal
  <2>2. result \in Int /\ result >= JmpRel
    BY DEF Extent
  <2> HIDE DEF d
  <2> QED BY <2>1, <2>2, <1>4, CountType DEF Copied, JmpRel
<1>6. m <= n
  BY <1>3, <1>5, CopiedBelow
<1>7. m \in 1..n /\ m \in 1..Len(out) /\ m \in 1..Count + 1
  <2>1. m \in 1..n
    BY <1>1, <1>4, <1>6
  <2> QED BY <2>1, ExtentTypes
<1> DEFINE f == [x \in 1..n |-> out[x].at]
           g == [x \in 1..n |-> Address(x)]
<1>8. f \in [1..n -> Int] /\ g \in [1..n -> Int]
  BY <1>1, ExtentTypes, AddressTypes
<1>9. ASSUME NEW x \in 1..n - 1, out[x].len = Inst(x).len PROVE f[x + 1] - f[x] = g[x + 1] - g[x]
  <2>1. x \in 1..n /\ x + 1 \in 1..n /\ x \in 1..Len(out) - 1 /\ x \in 1..Len(out) /\ x \in 1..Count + 1
    BY <1>1, InExtent
  <2>2. /\ f[x] = out[x].at /\ f[x + 1] = out[x].at + out[x].len
        /\ out[x].at \in Int /\ out[x].len \in Int
    <3>1. f[x] = out[x].at /\ f[x + 1] = out[x + 1].at
      BY <2>1
    <3>2. out[x + 1].at = out[x].at + out[x].len /\ out[x].at \in Int /\ out[x].len \in Int
      BY <2>1, ExtentTypes
    <3> QED BY <3>1, <3>2
  <2>3. g[x] = Address(x) /\ g[x + 1] = Address(x) + Inst(x).len /\ Address(x) \in Int
    BY <1>1, <2>1, AddressStep
  <2> HIDE DEF f, g
  <2>4. Inst(x).len \in Int
    BY <1>9, <2>2
  <2> QED BY <1>9, <2>2, <2>3, <2>4
<1>10. /\ f[m] = out[m].at /\ g[m] = d /\ f[j] = out[j].at /\ g[j] = Address(j)
       /\ out[m].at \in Int /\ out[j].at \in Int /\ out[j].len \in Int /\ Address(j) \in Int
  BY <1>1, <1>3, <1>7, ExtentTypes, AddressTypes
<1>11. ASSUME NEW x \in 1..Len(out), out[x].len # Inst(x).len
       PROVE  ~(IF d <= Address(j) THEN d <= Address(x) /\ x < j ELSE j < x /\ Address(x) < d)
  BY <1>1, <1>11 DEF JumpOverLonger, InnerJump
<1>12. out[m].at = t
  <2>1. CASE m <= j
    <3>1. d <= Address(j)
      <4>1. CASE m = j
        BY <4>1, <1>3, <1>10
      <4>2. CASE m # j
        <5>1. m < j
          BY <2>1, <4>2, <1>1, <1>4
        <5>2. Address(m) < Address(j)
          BY <5>1, <1>1, <1>3, AddressRises
        <5> QED BY <5>2, <1>3, <1>4, <1>10
      <4> QED BY <4>1, <4>2
    <3>2. ASSUME NEW x \in 1..n - 1, m <= x, x < j PROVE out[x].len = Inst(x).len
      <4>1. x \in 1..Len(out) /\ x \in Indices /\ x \in Int
        BY InExtent
      <4>2. d <= Address(x)
        <5>1. CASE m = x
          BY <5>1, <1>3, <1>4
        <5>2. CASE m # x
          <6>1. m < x
            BY <3>2, <4>1, <5>2, <1>4
          <6>2. Address(m) < Address(x) /\ Address(x) \in Int
            BY <6>1, <1>1, <1>3, <4>1, AddressRises, AddressTypes
          <6> QED BY <6>2, <1>3, <1>4
        <5> QED BY <5>1, <5>2
      <4> QED BY <3>1, <3>2, <4>1, <4>2, <1>11
    <3>3. \A x \in 1..n - 1 : m <= x /\ x < j => f[x + 1] - f[x] = g[x + 1] - g[x]
      BY <3>2, <1>9
    <3> HIDE DEF f, g, d
    <3>4. f[j] - f[m] = g[j] - g[m]
      BY <1>1, <1>7, <1>8, <2>1, <3>3, SameGrowth
    <3>5. out[j].at - out[m].at = Address(j) - d
      BY <3>4, <1>10
    <3> DEFINE a == out[m].at
               b == out[j].at
               c == out[j].len
               e == Address(j)
    <3>6. /\ b - a = e - d /\ out[j].dest = d - (e + c)
          /\ a \in Int /\ b \in Int /\ c \in Int /\ e \in Int /\ d \in Int
      BY <3>5, <1>1, <1>2, <1>4, <1>10
    <3> HIDE DEF a, b, c, e
    <3>7. a = b + c + (d - (e + c))
      BY ONLY <3>6
    <3> QED BY <3>6, <3>7 DEF a, b, c, e
  <2>2. CASE j < m
    <3>1. ~(d <= Address(j))
      <4>1. Address(j) < Address(m)
        BY <2>2, <1>1, <1>3, AddressRises
      <4> QED BY <4>1, <1>3, <1>4, <1>10
    <3>2. ASSUME NEW x \in 1..n - 1, j + 1 <= x, x < m PROVE out[x].len = Inst(x).len
      <4>0. x \in 1..Len(out) /\ x \in Indices /\ x \in Int
        BY InExtent
      <4>1. x \in 1..Len(out) /\ x \in Indices /\ x \in Int /\ j < x
        BY <1>1, <3>2, <4>0
      <4>2. Address(x) < d
        BY <3>2, <1>1, <1>3, <4>1, AddressRises
      <4> QED BY <3>1, <4>1, <4>2, <1>11
    <3>3. \A x \in 1..n - 1 : j + 1 <= x /\ x < m => f[x + 1] - f[x] = g[x + 1] - g[x]
      BY <3>2, <1>9
    <3>4. j + 1 \in 1..n /\ j + 1 <= m /\ j \in 1..Len(out) - 1
      BY <2>2, <1>1, <1>4, <1>7, ExtentTypes
    <3>5. f[j + 1] = out[j].at + out[j].len /\ g[j + 1] = After(j) /\ After(j) \in Int
      BY <3>4, <1>1, ExtentTypes, AddressStep
    <3> HIDE DEF f, g, d
    <3>6. f[m] - f[j + 1] = g[m] - g[j + 1]
      BY <1>1, <1>7, <1>8, <3>3, <3>4, SameGrowth
    <3>7. out[m].at - (out[j].at + out[j].len) = d - After(j)
      BY <3>5, <3>6, <1>10
    <3> DEFINE a == out[m].at
               b == out[j].at
               c == out[j].len
               e == After(j)
    <3>8. /\ a - (b + c) = d - e /\ out[j].dest = d - e
          /\ a \in Int /\ b \in Int /\ c \in Int /\ e \in Int /\ d \in Int
      BY <3>5, <3>7, <1>2, <1>4, <1>10
    <3> HIDE DEF a, b, c, e
    <3>9. a = b + c + (d - e)
      BY ONLY <3>8
    <3> QED BY <3>8, <3>9 DEF a, b, c, e
  <2> QED BY <1>1, <1>4, <2>1, <2>2
<1> HIDE DEF d, t
<1>13. InStep(d, t)
  BY <1>3, <1>5, <1>7, <1>12 DEF InStep
<1> QED BY <1>13 DEF d, t

\* One instruction and its item do the same and go on to the same.
LEMMA SideBySide ==
  ASSUME NEW n, Extent(n), NEW j \in 1..n, NEW holds \in BOOLEAN,
         ~CallCopied, ~OutOfReach, ~JumpOverLonger
  PROVE  /\ Effect(j) = ItemEffect(j)
         /\ Leaves(j) \/ InStep(Goes(j, holds), ItemGoes(j, holds))
<1> DEFINE next == out[j].at + out[j].len
<1>1. Written(j, out[j]) /\ j \in 1..Len(out) /\ j \in Indices
  BY ExtentTypes DEF Extent
<1>2. CASE Inst(j).kind \in {"plain", "ret"} /\ out[j].op = "copy"
  <2>1. Effect(j) = ItemEffect(j)
    BY <1>2 DEF ItemEffect
  <2>2. CASE Inst(j).kind = "ret"
    BY <2>1, <2>2 DEF Leaves
  <2>3. CASE Inst(j).kind = "plain"
    <3>1. Goes(j, holds) = After(j)
      BY <2>3 DEF Goes
    <3>2. ItemGoes(j, holds) = next
      BY <1>2, <2>3 DEF ItemGoes
    <3>3. GoesOn(j)
      BY <2>3 DEF GoesOn
    <3> QED BY <2>1, <3>1, <3>2, <3>3, FallsThrough
  <2> QED BY <1>2, <2>2, <2>3
<1>3. CASE /\ Inst(j).kind \in {"rip", "rip_jmp"} /\ out[j].op = "rip" /\ out[j].len = Inst(j).len
           /\ out[j].dest = Signed(Inst(j).dest - Inst(j).len - out[j].at)
  <2> DEFINE x == Inst(j).dest - Inst(j).len - out[j].at
  <2>1. Inst(j).dest \in Int /\ Inst(j).len \in Int /\ out[j].at \in Int /\ HalfRange \in Int
    <3>1. Inst(j).dest \in Int /\ Inst(j).len \in Int
      BY <1>1, InstTypes DEF Extent
    <3>2. out[j].at \in Int
      BY <1>1, ExtentTypes
    <3> QED BY <3>1, <3>2, TrampolineAssumption
  <2>2. Inst(j).dest - (out[j].at + out[j].len) \in -HalfRange..HalfRange - 1
    BY <1>1, <1>3 DEF OutOfReach
  <2>3. x \in Int /\ x \in -HalfRange..HalfRange - 1
    BY <2>1, <2>2, <1>3
  <2>4. out[j].dest = x
    <3> HIDE DEF x
    <3>1. Signed(x) = x
      BY <2>3, SignedInt
    <3> QED BY <3>1, <1>3 DEF x
  <2>5. out[j].at + out[j].len + out[j].dest = Inst(j).dest
    BY <2>1, <2>4, <1>3
  <2>6. Effect(j) = <<Inst(j).kind, Inst(j).dest>>
    BY <1>3 DEF Effect, Jumps
  <2>7. ItemEffect(j) = <<Inst(j).kind, out[j].at + out[j].len + out[j].dest>>
    BY <1>3 DEF ItemEffect
  <2>8. CASE Inst(j).kind = "rip_jmp"
    BY <2>5, <2>6, <2>7, <2>8 DEF Leaves
  <2>9. CASE Inst(j).kind = "rip"
    <3>1. Goes(j, holds) = After(j)
      BY <2>9 DEF Goes
    <3>2. ItemGoes(j, holds) = next
      BY <1>3, <2>9 DEF ItemGoes
    <3>3. GoesOn(j)
      BY <2>9 DEF GoesOn
    <3> QED BY <2>5, <2>6, <2>7, <3>1, <3>2, <3>3, FallsThrough
  <2> QED BY <1>3, <2>8, <2>9
<1>4. CASE Inst(j).kind = "call"
  <2>1. GoesOn(j)
    BY <1>4 DEF GoesOn
  <2>2. j # n \/ Len(out) = n + 1
    BY <2>1 DEF Extent
  <2>3. j \in 1..Len(out) - 1
    BY <2>2, ExtentTypes
  <2> QED BY <1>4, <2>3 DEF CallCopied
<1>5. CASE InnerJump(j) /\ out[j].op = "copy"
  <2>1. Effect(j) = ItemEffect(j)
    BY <1>5 DEF ItemEffect
  <2>2. Inst(j).kind \in Jumps
    BY <1>5 DEF InnerJump
  <2>3. GoesOn(j)
    BY <1>5, <2>2 DEF GoesOn, InnerJump, Jumps
  <2>4. CASE Inst(j).kind = "jmp" \/ holds
    <3>1. Goes(j, holds) = Inst(j).dest
      BY <2>2, <2>4 DEF Goes, Jumps
    <3>2. ItemGoes(j, holds) = next + out[j].dest
      BY <1>5, <2>2, <2>4 DEF ItemGoes, Jumps
    <3>3. InStep(Inst(j).dest, next + out[j].dest)
      BY <1>1, <1>5, JumpsIn
    <3> QED BY <2>1, <3>1, <3>2, <3>3
  <2>5. CASE ~(Inst(j).kind = "jmp" \/ holds)
    <3>1. Goes(j, holds) = After(j)
      BY <2>2, <2>5 DEF Goes
    <3>2. ItemGoes(j, holds) = next
      BY <1>5, <2>2, <2>5 DEF ItemGoes
    <3> QED BY <2>1, <2>3, <3>1, <3>2, FallsThrough
  <2> QED BY <2>4, <2>5
<1>6. CASE /\ Inst(j).kind = "jmp" /\ ~Internal(Inst(j).dest)
           /\ out[j].op = "jmp" /\ out[j].dest = Inst(j).dest
  <2>1. Effect(j) = <<"none", 0>> /\ ItemEffect(j) = <<"none", 0>>
    BY <1>6 DEF Effect, ItemEffect, Jumps
  <2>2. Goes(j, holds) = Inst(j).dest
    BY <1>6 DEF Goes
  <2>3. ItemGoes(j, holds) = Inst(j).dest
    BY <1>6 DEF ItemGoes
  <2>4. InStep(Inst(j).dest, Inst(j).dest)
    BY <1>6, JumpsOut DEF Jumps
  <2> QED BY <2>1, <2>2, <2>3, <2>4
<1>7. CASE /\ Inst(j).kind = "jcc" /\ ~Internal(Inst(j).dest)
           /\ out[j].op = "jcc" /\ out[j].dest = Inst(j).dest
  <2>1. Effect(j) = <<"none", 0>> /\ ItemEffect(j) = <<"none", 0>>
    BY <1>7 DEF Effect, ItemEffect, Jumps
  <2>2. CASE holds
    <3>1. Goes(j, holds) = Inst(j).dest
      BY <1>7, <2>2 DEF Goes
    <3>2. ItemGoes(j, holds) = Inst(j).dest
      BY <1>7, <2>2 DEF ItemGoes
    <3>3. InStep(Inst(j).dest, Inst(j).dest)
      BY <1>7, JumpsOut DEF Jumps
    <3> QED BY <2>1, <3>1, <3>2, <3>3
  <2>3. CASE ~holds
    <3>1. Goes(j, holds) = After(j)
      BY <1>7, <2>3 DEF Goes
    <3>2. ItemGoes(j, holds) = next
      BY <1>7, <2>3 DEF ItemGoes
    <3>3. GoesOn(j)
      BY <1>7 DEF GoesOn
    <3> QED BY <2>1, <3>1, <3>2, <3>3, FallsThrough
  <2> QED BY <2>2, <2>3
<1> QED BY <1>1, <1>2, <1>3, <1>4, <1>5, <1>6, <1>7 DEF Written

-----------------------------------------------------------------------------
(* The theorems.                                                           *)

LEMMA KnownSame ==
  ASSUME code' = code, out' = out
  PROVE  CallCopied \/ OutOfReach \/ JumpOverLonger =>
           (CallCopied \/ OutOfReach \/ JumpOverLonger)'
<1>1. CallCopied => CallCopied'
  BY CodeSame DEF CallCopied
<1>2. OutOfReach => OutOfReach'
  BY CodeSame DEF OutOfReach
<1>3. JumpOverLonger => JumpOverLonger'
  BY CodeSame DEF JumpOverLonger
<1> QED BY <1>1, <1>2, <1>3

LEMMA RunInv ==
  ASSUME TrampolineInv, Run
  PROVE  TrampolineInv' /\ DivergesOnlyKnownWays'
<1>1. phase = "run" /\ UNCHANGED <<code, k, out, maxJmpRef, result>>
  BY DEF Run
<1>2. PICK n : Extent(n)
  BY <1>1, Extents
<1>3. /\ original \in 1..Len(out) /\ Copied(Address(original)) /\ copy = out[original].at
      /\ code \in Codes /\ k \in Indices
  BY <1>1 DEF TrampolineInv
<1>4. Len(out) = k
  BY <1>1 DEF TrampolineInv, Finished, WentBack
<1>5. 1..Len(out) \subseteq Indices
  BY <1>3, <1>4, CountType DEF Indices
<1>6. original \in 1..n
  <2>1. original <= n
    BY <1>2, <1>3, <1>5, CopiedBelow
  <2> QED BY <1>2, <1>3, <2>1, ExtentTypes
<1>7. (CHOOSE i \in 1..Len(out) : out[i].at = copy) = original
  <2>1. \E i \in 1..Len(out) : out[i].at = copy
    BY <1>3
  <2>2. \A i \in 1..Len(out) : out[i].at = copy => i = original
    BY <1>2, <1>3, ItemAtOne
  <2> QED BY <2>1, <2>2, Zenon
<1>8. PICK holds \in BOOLEAN :
        LET a == Goes(original, holds)
            t == ItemGoes(original, holds)
        IN  IF Effect(original) # ItemEffect(original)
                 \/ (~Leaves(original) /\ ~InStep(a, t))
              THEN phase' = "diverged" /\ UNCHANGED <<original, copy>>
              ELSE IF Leaves(original) \/ ~Copied(a)
              THEN phase' = "left" /\ UNCHANGED <<original, copy>>
              ELSE /\ original' = CHOOSE j \in Indices : Address(j) = a
                   /\ copy' = t
                   /\ UNCHANGED phase
  BY <1>7 DEF Run
<1> DEFINE a == Goes(original, holds)
           t == ItemGoes(original, holds)
           diverges == Effect(original) # ItemEffect(original)
                         \/ (~Leaves(original) /\ ~InStep(a, t))
<1>9. CASE diverges
  <2>1. phase' = "diverged" /\ UNCHANGED <<original, copy>>
    BY <1>8, <1>9
  <2>2. TrampolineInv'
    BY <1>1, <2>1, InvAfter DEF TrampolineInv
  <2>3. CallCopied \/ OutOfReach \/ JumpOverLonger
    BY <1>2, <1>6, <1>9, SideBySide
  <2>4. DivergesOnlyKnownWays'
    BY <1>1, <2>3, KnownSame DEF DivergesOnlyKnownWays
  <2> QED BY <2>2, <2>4
<1>10. CASE ~diverges /\ (Leaves(original) \/ ~Copied(a))
  <2>1. phase' = "left" /\ UNCHANGED <<original, copy>>
    BY <1>8, <1>10
  <2>2. TrampolineInv'
    BY <1>1, <2>1, InvAfter DEF TrampolineInv
  <2> QED BY <2>1, <2>2 DEF DivergesOnlyKnownWays
<1>11. CASE ~diverges /\ ~Leaves(original) /\ Copied(a)
  <2>1. /\ original' = CHOOSE j \in Indices : Address(j) = a
        /\ copy' = t /\ phase' = phase
    BY <1>8, <1>11
  <2>2. PICK j \in 1..Len(out) : Address(j) = a /\ out[j].at = t
    BY <1>11 DEF InStep
  <2>3. j \in Indices
    BY <1>5
  <2>4. original' = j
    <3>1. \A i \in Indices : Address(i) = a => i = j
      BY <1>3, <2>2, <2>3, AddressOne
    <3> HIDE DEF a
    <3> QED BY <2>1, <2>2, <2>3, <3>1, Zenon
  <2>5. targetAddress <= Address(j) /\ Address(j) < targetAddress + result
    BY <1>11, <2>2 DEF Copied
  <2> HIDE DEF a, t
  <2>6. TrampolineInv'
    BY <1>1, <2>1, <2>2, <2>4, <2>5, InvAfter DEF TrampolineInv
  <2> QED BY <1>1, <2>1, <2>6 DEF DivergesOnlyKnownWays
<1> QED BY <1>9, <1>10, <1>11

LEMMA StutterInv ==
  ASSUME TrampolineInv, UNCHANGED vars PROVE TrampolineInv'
<1>1. UNCHANGED <<code, k, out, maxJmpRef, result, phase, original, copy>>
  BY DEF vars
<1>2. phase = "run" =>
        targetAddress <= Address(original) /\ Address(original) < targetAddress + result
  BY DEF TrampolineInv, Copied
<1> QED BY <1>1, <1>2, InvAfter DEF TrampolineInv

\* The items written are one piece of code, one item for each instruction read
\* and the right one, and a run stands at an instruction and at its item.
THEOREM TrampolineInvariant == Spec => []TrampolineInv
<1>1. TrampolineInv /\ [Next]_vars => TrampolineInv'
  BY DecodeInv, RunInv, StutterInv DEF Next
<1> QED BY InitInv, <1>1, PTL DEF Spec

\* Whatever the function starts with and wherever the trampoline lies, the two
\* can come apart only in one of the three known ways: on every path through
\* the copied instructions, however often they are gone round, the trampoline
\* does what the instructions do and leaves to where they leave.
THEOREM DivergesOnlyInKnownWays == Spec => []DivergesOnlyKnownWays
<1> DEFINE IInv == TrampolineInv /\ DivergesOnlyKnownWays
<1>1. Init => IInv
  BY InitInv DEF Init, DivergesOnlyKnownWays
<1>2. ASSUME IInv, [Next]_vars PROVE IInv'
  <2>1. CASE Decode
    <3>1. phase' # "diverged"
      BY <2>1 DEF Decode, Undecodable, JumpBack, CopyPlain, RelocateOperand, TransformCall,
         CopyInternalJump, TransformJump, TransformConditional, RefuseLoop, CopyReturn,
         Emits, Ends
    <3> QED BY <1>2, <2>1, <3>1, DecodeInv DEF DivergesOnlyKnownWays
  <2>2. CASE Run
    BY <1>2, <2>2, RunInv
  <2>3. CASE UNCHANGED vars
    BY <1>2, <2>3, StutterInv, KnownSame DEF vars, DivergesOnlyKnownWays
  <2> QED BY <1>2, <2>1, <2>2, <2>3 DEF Next
<1> QED BY <1>1, <1>2, PTL DEF Spec

\* A function that ended before there was room for the jump was read to its
\* end: no instruction of it jumps behind what was read.
THEOREM ShortFunctionsEnded == Spec => []ShortOnlyIfEnded
<1>1. ASSUME TrampolineInv PROVE ShortOnlyIfEnded
  <2> SUFFICES ASSUME phase = "none", result > 0
               PROVE  /\ \A i \in 1..Len(out) :
                           InnerJump(i) => Inst(i).dest < targetAddress + result
                      /\ Inst(Len(out)).kind \in {"ret", "jmp", "rip_jmp"}
    BY DEF ShortOnlyIfEnded
  <2>1. result < JmpRel /\ Finished(out, k, maxJmpRef, result) /\ result \in Int
    BY <1>1 DEF TrampolineInv
  <2>2. Len(out) = k /\ result = After(k) - targetAddress /\ EndsAt(k, maxJmpRef)
    BY <2>1 DEF Finished
  <2>3. /\ code \in Codes /\ k \in Indices /\ k \in Nat /\ maxJmpRef \in Int
        /\ Address(k) \in Int /\ Address(k) >= targetAddress
        /\ Inst(k).len \in Nat \ {0} /\ MaxOf(k - 1, maxJmpRef) /\ After(k) \in Int
    BY <1>1, DecodeTypes, AddressLow, CountType DEF Indices
  <2>4. After(k) = Address(k) + Inst(k).len
    BY DEF After
  <2>5. targetAddress + result = After(k) /\ Address(k) < After(k)
    <3>1. targetAddress \in Int
      BY CountType
    <3> QED BY ONLY <2>2, <2>3, <2>4, <3>1, SMT
  <2>6. Inst(k).kind # "rip_jmp"
    <3> SUFFICES ASSUME Inst(k).kind = "rip_jmp" PROVE FALSE
      OBVIOUS
    <3>1. Inst(k).len = 6
      BY <2>3, RipLength
    <3> QED BY <2>1, <2>2, <2>3, <2>4, <3>1, CountType DEF JmpRel
  <2>7. ~InnerJump(k) /\ Inst(k).kind \in {"ret", "jmp"} /\ maxJmpRef <= Address(k)
    <3>1. CASE Inst(k).kind = "ret" /\ Address(k) >= maxJmpRef
      BY <2>3, <3>1 DEF InnerJump, Jumps
    <3>2. CASE Inst(k).kind = "jmp" /\ ~Internal(Inst(k).dest) /\ targetAddress >= maxJmpRef
      BY <2>3, <3>2, CountType DEF InnerJump
    <3> QED BY <2>2, <2>6, <3>1, <3>2 DEF EndsAt
  <2>8. ASSUME NEW i \in 1..Len(out), InnerJump(i) PROVE Inst(i).dest < targetAddress + result
    <3>1. i # k
      BY <2>7, <2>8
    <3>2. i \in 1..k - 1 /\ i \in Indices
      BY <2>2, <2>3, <3>1, CountType DEF Indices
    <3>3. Inst(i).dest <= maxJmpRef /\ Inst(i).dest \in Int
      BY <2>3, <2>8, <3>2, InstTypes DEF MaxOf
    <3> QED BY <2>3, <2>5, <2>7, <3>3
  <2> QED BY <2>2, <2>7, <2>8
<1> QED BY TrampolineInvariant, <1>1, PTL

\* Code behind a return, or behind a jump out of the function, was read only
\* because a jump read before leads there.
THEOREM ReadsOnInBranches == Spec => []ReadsOnOnlyInBranch
<1>1. ASSUME TrampolineInv PROVE ReadsOnOnlyInBranch
  <2>1. k \in Nat /\ Taken(out, k - 1) /\ Len(out) \in Nat
    BY <1>1, CountType DEF TrampolineInv, Indices, Chain
  <2>2. Len(out) <= k
    BY <1>1, <2>1 DEF TrampolineInv, Finished, WentBack
  <2>3. \A i \in 1..Len(out) - 1 : i \in 1..k - 1
    BY <2>1, <2>2
  <2>4. \A i \in 1..Len(out) - 1 : ReadOn(i)
    BY <2>1, <2>3 DEF Taken
  <2> QED BY <2>4 DEF ReadsOnOnlyInBranch, ReadOn
<1> QED BY TrampolineInvariant, <1>1, PTL
=============================================================================
