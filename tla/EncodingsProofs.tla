--------------------------- MODULE EncodingsProofs ---------------------------
(***************************************************************************)
(* What decoding and encoding do, for every source.                        *)
(*                                                                         *)
(* Decoder is inductive: where the decoder is in its text, and that its    *)
(* state and its bits are those of a sequence which may still become a     *)
(* scalar value.  Utf8Step says what the table does with every byte in     *)
(* every state, and everything about UTF-8 follows from it.                *)
(*                                                                         *)
(* That a text survives is a forward simulation: while what was encoded is *)
(* decoded again, the decoder is between two characters of the text, or in *)
(* one of them (InChar).  That Validate and UnicodeLength are right is     *)
(* that they keep pace with the decoder over the same units: StatesOf is   *)
(* its state as long as nothing was rejected (AsRead), and what Utf16Length*)
(* has left to count is what is not decoded yet (CountedSoFar).            *)
(*                                                                         *)
(* What _parseBigInt has read is, with the weight of the place that        *)
(* follows, equal modulo 2^64 to what the digits add up to (ReadsTheSum),  *)
(* and two numbers of a type that are equal modulo 2^64 are one.           *)
(***************************************************************************)
EXTENDS Encodings, FiniteSetTheorems, WellFoundedInduction, TLAPS

-----------------------------------------------------------------------------
(* Induction, for a set of numbers.                                        *)

LEMMA LeastNumber ==
  ASSUME NEW T \in SUBSET Nat, T # {}
  PROVE  \E n \in T : \A m \in T : n <= m
<1> DEFINE Below == {ss \in Nat \X Nat : ss[1] < ss[2]}
<1>1. OpToRel(<, Nat) = Below
  BY Zenon DEF OpToRel
<1>2. IsWellFoundedOn(Below, Nat)
  BY <1>1, NatLessThanWellFounded, Zenon
<1>3. \E n \in T : \A m \in T : ~(<<m, n>> \in Below)
  <2> HIDE DEF Below
  <2> QED BY <1>2, WFMin
<1>4. PICK n \in T : \A m \in T : ~(<<m, n>> \in Below)
  BY <1>3
<1>5. ASSUME NEW m \in T PROVE n <= m
  <2>1. ~(<<m, n>> \in Below)
    BY <1>4
  <2>2. n \in Nat /\ m \in Nat
    OBVIOUS
  <2>3. ~(m < n)
    BY <2>1, <2>2, Zenon
  <2> QED BY <2>2, <2>3
<1> QED BY <1>5

LEMMA Counting ==
  ASSUME NEW T, 0 \in T, \A n \in Nat : n \in T => n + 1 \in T
  PROVE  Nat \subseteq T
<1> SUFFICES ASSUME Nat \ T # {} PROVE FALSE
  OBVIOUS
<1>1. PICK n \in Nat \ T : \A m \in Nat \ T : n <= m
  BY LeastNumber
<1>2. n # 0
  BY <1>1
<1>3. n - 1 \in Nat /\ n - 1 < n /\ (n - 1) + 1 = n
  BY <1>2
<1>4. n - 1 \in T
  BY <1>1, <1>3
<1> QED BY <1>1, <1>3, <1>4

-----------------------------------------------------------------------------
(* The decoder's table.                                                    *)

Byte == 0 .. 255
TailBytes == 128 .. 191
States == {0, 2, 3, 4, 5, 6, 7, 8}

LEMMA ClassIs ==
  ASSUME NEW b \in Byte
  PROVE  /\ b \in 0..127 => Class(b) = 0
         /\ b \in 128..143 => Class(b) = 1
         /\ b \in 144..159 => Class(b) = 9
         /\ b \in 160..191 => Class(b) = 7
         /\ b \in 194..223 => Class(b) = 2
         /\ b = 224 => Class(b) = 10
         /\ b = 237 => Class(b) = 4
         /\ b = 240 => Class(b) = 11
         /\ b = 244 => Class(b) = 5
         /\ b \in 241..243 => Class(b) = 6
         /\ b \in 225..239 /\ b # 237 => Class(b) = 3
         /\ b \in {192, 193} \/ b > 244 => Class(b) = 8
<1>1. b \in Int /\ b >= 0 /\ b <= 255
  BY DEF Byte
<1>2. b \in 0..127 => Class(b) = 0
  BY <1>1 DEF Class
<1>3. b \in 128..143 => Class(b) = 1
  BY <1>1 DEF Class
<1>4. b \in 144..159 => Class(b) = 9
  BY <1>1 DEF Class
<1>5. b \in 160..191 => Class(b) = 7
  BY <1>1 DEF Class
<1>6. b \in 194..223 => Class(b) = 2
  BY <1>1 DEF Class
<1>7. b = 224 => Class(b) = 10
  BY <1>1 DEF Class
<1>8. b = 237 => Class(b) = 4
  BY <1>1 DEF Class
<1>9. b = 240 => Class(b) = 11
  BY <1>1 DEF Class
<1>10. b = 244 => Class(b) = 5
  BY <1>1 DEF Class
<1>11. b \in 241..243 => Class(b) = 6
  BY <1>1 DEF Class
<1>12. b \in 225..239 /\ b # 237 => Class(b) = 3
  BY <1>1 DEF Class
<1>13. b \in {192, 193} \/ b > 244 => Class(b) = 8
  BY <1>1 DEF Class
<1> QED BY <1>2, <1>3, <1>4, <1>5, <1>6, <1>7, <1>8, <1>9, <1>10, <1>11, <1>12, <1>13

LEMMA Powers ==
  /\ 2^(8 - 0) = 256 /\ 2^(8 - 2) = 64 /\ 2^(8 - 3) = 32
  /\ 2^(8 - 4) = 16 /\ 2^(8 - 5) = 8 /\ 2^(8 - 6) = 4
  OBVIOUS

LEMMA FirstBits ==
  ASSUME NEW b \in Byte
  PROVE  /\ Class(b) = 0 => Accumulate(0, 0, b) = b % 256
         /\ Class(b) = 2 => Accumulate(0, 0, b) = b % 64
         /\ Class(b) = 3 => Accumulate(0, 0, b) = b % 32
         /\ Class(b) = 4 => Accumulate(0, 0, b) = b % 16
         /\ Class(b) = 5 => Accumulate(0, 0, b) = b % 8
         /\ Class(b) = 6 => Accumulate(0, 0, b) = b % 4
<1>1. \A c \in 0..8 : Class(b) = c => Accumulate(0, 0, b) = b % 2^(8 - c)
  <2> TAKE c \in 0..8
  <2>1. ~(c > 8)
    OBVIOUS
  <2> QED BY <2>1, Zenon DEF Accumulate
<1>2. 0 \in 0..8 /\ 2 \in 0..8 /\ 3 \in 0..8 /\ 4 \in 0..8 /\ 5 \in 0..8 /\ 6 \in 0..8
  OBVIOUS
<1>3. /\ Class(b) = 0 => Accumulate(0, 0, b) = b % 2^(8 - 0)
      /\ Class(b) = 2 => Accumulate(0, 0, b) = b % 2^(8 - 2)
      /\ Class(b) = 3 => Accumulate(0, 0, b) = b % 2^(8 - 3)
      /\ Class(b) = 4 => Accumulate(0, 0, b) = b % 2^(8 - 4)
      /\ Class(b) = 5 => Accumulate(0, 0, b) = b % 2^(8 - 5)
      /\ Class(b) = 6 => Accumulate(0, 0, b) = b % 2^(8 - 6)
  BY <1>1, <1>2, Zenon
<1> QED BY <1>3, Powers, Zenon

\* The first byte of a character.
LEMMA FirstByte ==
  ASSUME NEW b \in Byte
  PROVE  /\ b \in 0..127 => DecodeStep(0, b) = 0 /\ Accumulate(0, 0, b) = b
         /\ b \in 128..193 => DecodeStep(0, b) = 1
         /\ b \in 194..223 => DecodeStep(0, b) = 2 /\ Accumulate(0, 0, b) = b - 192
         /\ b = 224 => DecodeStep(0, b) = 4 /\ Accumulate(0, 0, b) = 0
         /\ b \in 225..239 /\ b # 237 => DecodeStep(0, b) = 3 /\ Accumulate(0, 0, b) = b - 224
         /\ b = 237 => DecodeStep(0, b) = 5 /\ Accumulate(0, 0, b) = 13
         /\ b = 240 => DecodeStep(0, b) = 6 /\ Accumulate(0, 0, b) = 0
         /\ b \in 241..243 => DecodeStep(0, b) = 7 /\ Accumulate(0, 0, b) = b - 240
         /\ b = 244 => DecodeStep(0, b) = 8 /\ Accumulate(0, 0, b) = 4
         /\ b > 244 => DecodeStep(0, b) = 1
<1>1. b \in 0..127 => DecodeStep(0, b) = 0 /\ Accumulate(0, 0, b) = b
  <2> SUFFICES ASSUME b \in 0..127 PROVE DecodeStep(0, b) = 0 /\ Accumulate(0, 0, b) = b
    OBVIOUS
  <2>1. Class(b) = 0
    BY ClassIs
  <2>2. NextState(0, 0) = 0
    BY DEF NextState
  <2>3. Accumulate(0, 0, b) = b % 256
    BY <2>1, FirstBits
  <2>4. b % 256 = b
    OBVIOUS
  <2> QED BY <2>1, <2>2, <2>3, <2>4 DEF DecodeStep
<1>2. b \in 128..193 => DecodeStep(0, b) = 1
  <2>1. b \in 128..193 => Class(b) \in {1, 7, 8, 9}
    BY ClassIs
  <2>2. NextState(0, 1) = 1 /\ NextState(0, 7) = 1 /\ NextState(0, 8) = 1 /\ NextState(0, 9) = 1
    BY DEF NextState, REJECT
  <2> QED BY <2>1, <2>2 DEF DecodeStep
<1>3. b \in 194..223 => DecodeStep(0, b) = 2 /\ Accumulate(0, 0, b) = b - 192
  <2> SUFFICES ASSUME b \in 194..223 PROVE DecodeStep(0, b) = 2 /\ Accumulate(0, 0, b) = b - 192
    OBVIOUS
  <2>1. Class(b) = 2
    BY ClassIs
  <2>2. NextState(0, 2) = 2
    BY DEF NextState
  <2>3. Accumulate(0, 0, b) = b % 64
    BY <2>1, FirstBits
  <2>4. b % 64 = b - 192
    OBVIOUS
  <2> QED BY <2>1, <2>2, <2>3, <2>4 DEF DecodeStep
<1>4. b = 224 => DecodeStep(0, b) = 4 /\ Accumulate(0, 0, b) = 0
  <2>1. Class(224) = 10
    BY ClassIs DEF Byte
  <2>2. NextState(0, 10) = 4
    BY DEF NextState
  <2> QED BY <2>1, <2>2 DEF DecodeStep, Accumulate
<1>5. b \in 225..239 /\ b # 237 => DecodeStep(0, b) = 3 /\ Accumulate(0, 0, b) = b - 224
  <2> SUFFICES ASSUME b \in 225..239, b # 237
               PROVE DecodeStep(0, b) = 3 /\ Accumulate(0, 0, b) = b - 224
    OBVIOUS
  <2>1. Class(b) = 3
    BY ClassIs
  <2>2. NextState(0, 3) = 3
    BY DEF NextState
  <2>3. Accumulate(0, 0, b) = b % 32
    BY <2>1, FirstBits
  <2>4. b % 32 = b - 224
    OBVIOUS
  <2> QED BY <2>1, <2>2, <2>3, <2>4 DEF DecodeStep
<1>6. b = 237 => DecodeStep(0, b) = 5 /\ Accumulate(0, 0, b) = 13
  <2> SUFFICES ASSUME b = 237 PROVE DecodeStep(0, b) = 5 /\ Accumulate(0, 0, b) = 13
    OBVIOUS
  <2>1. Class(b) = 4
    BY ClassIs
  <2>2. NextState(0, 4) = 5
    BY DEF NextState
  <2>3. Accumulate(0, 0, b) = b % 16
    BY <2>1, FirstBits
  <2>4. b % 16 = 13
    OBVIOUS
  <2> QED BY <2>1, <2>2, <2>3, <2>4 DEF DecodeStep
<1>7. b = 240 => DecodeStep(0, b) = 6 /\ Accumulate(0, 0, b) = 0
  <2>1. Class(240) = 11
    BY ClassIs DEF Byte
  <2>2. NextState(0, 11) = 6
    BY DEF NextState
  <2> QED BY <2>1, <2>2 DEF DecodeStep, Accumulate
<1>8. b \in 241..243 => DecodeStep(0, b) = 7 /\ Accumulate(0, 0, b) = b - 240
  <2> SUFFICES ASSUME b \in 241..243
               PROVE DecodeStep(0, b) = 7 /\ Accumulate(0, 0, b) = b - 240
    OBVIOUS
  <2>1. Class(b) = 6
    BY ClassIs
  <2>2. NextState(0, 6) = 7
    BY DEF NextState
  <2>3. Accumulate(0, 0, b) = b % 4
    BY <2>1, FirstBits
  <2>4. b % 4 = b - 240
    OBVIOUS
  <2> QED BY <2>1, <2>2, <2>3, <2>4 DEF DecodeStep
<1>9. b = 244 => DecodeStep(0, b) = 8 /\ Accumulate(0, 0, b) = 4
  <2> SUFFICES ASSUME b = 244 PROVE DecodeStep(0, b) = 8 /\ Accumulate(0, 0, b) = 4
    OBVIOUS
  <2>1. Class(b) = 5
    BY ClassIs
  <2>2. NextState(0, 5) = 8
    BY DEF NextState
  <2>3. Accumulate(0, 0, b) = b % 8
    BY <2>1, FirstBits
  <2>4. b % 8 = 4
    OBVIOUS
  <2> QED BY <2>1, <2>2, <2>3, <2>4 DEF DecodeStep
<1>10. b > 244 => DecodeStep(0, b) = 1
  <2>1. b > 244 => Class(b) = 8
    BY ClassIs
  <2>2. NextState(0, 8) = 1
    BY DEF NextState, REJECT
  <2> QED BY <2>1, <2>2 DEF DecodeStep
<1> QED BY <1>1, <1>2, <1>3, <1>4, <1>5, <1>6, <1>7, <1>8, <1>9, <1>10

\* The bytes behind it that a state accepts, and where they lead.
Accepts(st, b) ==
  /\ b \in TailBytes
  /\ st = 4 => b >= 160
  /\ st = 5 => b < 160
  /\ st = 6 => b >= 144
  /\ st = 8 => b < 144

After(st) ==
  CASE st = 2 -> 0
    [] st \in {3, 4, 5} -> 2
    [] st \in {6, 7, 8} -> 3

LEMMA FurtherByte ==
  ASSUME NEW st \in States \ {0}, NEW b \in Byte
  PROVE  DecodeStep(st, b) = IF Accepts(st, b) THEN After(st) ELSE 1
<1>1. /\ b \in 0..127 => Class(b) = 0
      /\ b \in 128..143 => Class(b) = 1
      /\ b \in 144..159 => Class(b) = 9
      /\ b \in 160..191 => Class(b) = 7
      /\ b \in 192..255 => Class(b) \notin {1, 7, 9}
  BY ClassIs DEF Byte
<1>2. b \in 0..127 \/ b \in 128..143 \/ b \in 144..159 \/ b \in 160..191 \/ b \in 192..255
  BY DEF Byte
<1> HIDE DEF Class, Byte
<1>3. CASE st = 2
  BY <1>1, <1>2, <1>3 DEF DecodeStep, NextState, Accepts, After, TailBytes, REJECT
<1>4. CASE st = 3
  BY <1>1, <1>2, <1>4 DEF DecodeStep, NextState, Accepts, After, TailBytes, REJECT
<1>5. CASE st = 4
  BY <1>1, <1>2, <1>5 DEF DecodeStep, NextState, Accepts, After, TailBytes, REJECT
<1>6. CASE st = 5
  BY <1>1, <1>2, <1>6 DEF DecodeStep, NextState, Accepts, After, TailBytes, REJECT
<1>7. CASE st = 6
  BY <1>1, <1>2, <1>7 DEF DecodeStep, NextState, Accepts, After, TailBytes, REJECT
<1>8. CASE st = 7
  BY <1>1, <1>2, <1>8 DEF DecodeStep, NextState, Accepts, After, TailBytes, REJECT
<1>9. CASE st = 8
  BY <1>1, <1>2, <1>9 DEF DecodeStep, NextState, Accepts, After, TailBytes, REJECT
<1> QED BY <1>3, <1>4, <1>5, <1>6, <1>7, <1>8, <1>9 DEF States

LEMMA FurtherBits ==
  ASSUME NEW st \in States \ {0}, NEW cp \in Nat, NEW b \in TailBytes
  PROVE  Accumulate(st, cp, b) = cp * 64 + (b - 128)
<1>1. b % 64 = b - 128
  BY DEF TailBytes
<1> QED BY <1>1 DEF Accumulate, States

-----------------------------------------------------------------------------
(* What the decoder has read of a character, and what it makes of it.      *)

Scalars == {c \in Nat : 1 <= c /\ c <= 1114111 /\ (c < 55296 \/ c > 57343)}

\* cp may be the bits read in a state, and the bytes they were read from.
Bits(st, cp) ==
  /\ cp \in Nat
  /\ st \in {0, 4, 6} => cp = 0
  /\ st = 2 => 2 <= cp /\ cp <= 17407 /\ (cp < 864 \/ cp > 895)
  /\ st = 3 => 1 <= cp /\ cp <= 271 /\ cp # 13
  /\ st = 5 => cp = 13
  /\ st = 7 => 1 <= cp /\ cp <= 3
  /\ st = 8 => cp = 4

Begun(st, cp) ==
  CASE st = 0 -> <<>>
    [] st = 2 -> IF cp < 32 THEN <<192 + cp>>
                 ELSE IF cp < 1024 THEN <<224 + cp \div 64, 128 + (cp % 64)>>
                 ELSE <<240 + cp \div 4096, 128 + ((cp \div 64) % 64), 128 + (cp % 64)>>
    [] st = 3 -> IF cp < 16 THEN <<224 + cp>> ELSE <<240 + cp \div 64, 128 + (cp % 64)>>
    [] st \in {4, 5} -> <<224 + cp>>
    [] st \in {6, 7, 8} -> <<240 + cp>>

\* t is s and then b.
Then(s, b, t) ==
  /\ Len(t) = Len(s) + 1 /\ t[Len(s) + 1] = b
  /\ \A i \in 1 .. Len(s) : t[i] = s[i]

\* Six bits more.
More(cp, b, c) == c = cp * 64 + (b - 128)

LEMMA SixBits ==
  ASSUME NEW cp \in Nat, NEW b \in TailBytes, NEW c, More(cp, b, c)
  PROVE  /\ c \in Nat /\ c >= cp * 64 /\ c <= cp * 64 + 63
         /\ c \div 64 = cp /\ 128 + (c % 64) = b
         /\ c \div 4096 = cp \div 64 /\ c \div 262144 = cp \div 4096
<1> DEFINE x == b - 128
<1>1. x \in 0 .. 63 /\ b = 128 + x
  BY SMT DEF TailBytes
<1> HIDE DEF x
<1>2. c = cp * 64 + x
  BY <1>1, SMT DEF x, More
<1>3. c \in Nat /\ c >= cp * 64 /\ c <= cp * 64 + 63
  BY <1>1, <1>2, SMT
<1>4. c \div 64 = cp /\ c % 64 = x
  BY <1>1, <1>2, SMT
<1>5. c \div 4096 = cp \div 64 /\ c \div 262144 = cp \div 4096
  BY <1>1, <1>2, <1>3, SMT
<1> QED BY <1>1, <1>3, <1>4, <1>5, SMT

\* The last byte of a character.
LEMMA LastByte ==
  ASSUME NEW cp, Bits(2, cp), NEW b \in TailBytes, NEW c, More(cp, b, c)
  PROVE  c \in Scalars /\ Then(Begun(2, cp), b, Utf8Of(c))
<1>1. cp \in Nat /\ 2 <= cp /\ cp <= 17407 /\ (cp < 864 \/ cp > 895)
  BY SMT DEF Bits
<1>2. c \in Nat /\ c >= cp * 64 /\ c <= cp * 64 + 63
  BY <1>1, SixBits, SMT
<1>3. /\ c \div 64 = cp /\ 128 + (c % 64) = b
      /\ c \div 4096 = cp \div 64 /\ c \div 262144 = cp \div 4096
  BY <1>1, SixBits, SMT
<1>4. c \in Scalars
  <2>1. 1 <= c /\ c <= 1114111 /\ (c < 55296 \/ c > 57343)
    BY ONLY <1>1, <1>2, SMT
  <2> QED BY ONLY <1>2, <2>1, SMT DEF Scalars
<1>5. CASE cp < 32
  <2>1. Begun(2, cp) = <<192 + cp>>
    BY <1>5, SMT DEF Begun
  <2>2. c > 127 /\ c <= 2047
    BY ONLY <1>1, <1>2, <1>5, SMT
  <2>3. Utf8Of(c) = <<192 + c \div 64, 128 + (c % 64)>>
    BY ONLY <1>2, <2>2, SMT DEF Utf8Of
  <2>4. Utf8Of(c) = <<192 + cp, b>>
    BY ONLY <2>3, <1>3, SMT
  <2>5. Then(<<192 + cp>>, b, <<192 + cp, b>>)
    BY ONLY SMT DEF Then
  <2>6. Then(Begun(2, cp), b, Utf8Of(c))
    BY ONLY <2>1, <2>4, <2>5, SMT
  <2> QED BY <1>4, <2>6, SMT
<1>6. CASE cp >= 32 /\ cp < 1024
  <2>1. Begun(2, cp) = <<224 + cp \div 64, 128 + (cp % 64)>>
    BY <1>1, <1>6, SMT DEF Begun
  <2>2. c > 2047 /\ c <= 65535
    BY ONLY <1>1, <1>2, <1>6, SMT
  <2>3. Utf8Of(c) = <<224 + c \div 4096, 128 + ((c \div 64) % 64), 128 + (c % 64)>>
    BY ONLY <1>2, <2>2, SMT DEF Utf8Of
  <2>4. Utf8Of(c) = <<224 + cp \div 64, 128 + (cp % 64), b>>
    BY ONLY <2>3, <1>3, SMT
  <2>5. Then(<<224 + cp \div 64, 128 + (cp % 64)>>, b, <<224 + cp \div 64, 128 + (cp % 64), b>>)
    BY ONLY SMT DEF Then
  <2>6. Then(Begun(2, cp), b, Utf8Of(c))
    BY ONLY <2>1, <2>4, <2>5, SMT
  <2> QED BY <1>4, <2>6, SMT
<1>7. CASE cp >= 1024
  <2>1. Begun(2, cp) = <<240 + cp \div 4096, 128 + ((cp \div 64) % 64), 128 + (cp % 64)>>
    BY <1>1, <1>7, SMT DEF Begun
  <2>2. c > 65535
    BY ONLY <1>1, <1>2, <1>7, SMT
  <2>3. Utf8Of(c) = <<240 + c \div 262144, 128 + ((c \div 4096) % 64),
                      128 + ((c \div 64) % 64), 128 + (c % 64)>>
    BY ONLY <1>2, <2>2, SMT DEF Utf8Of
  <2>4. Utf8Of(c) = <<240 + cp \div 4096, 128 + ((cp \div 64) % 64), 128 + (cp % 64), b>>
    BY ONLY <2>3, <1>3, SMT
  <2>5. Then(<<240 + cp \div 4096, 128 + ((cp \div 64) % 64), 128 + (cp % 64)>>, b,
             <<240 + cp \div 4096, 128 + ((cp \div 64) % 64), 128 + (cp % 64), b>>)
    BY ONLY SMT DEF Then
  <2>6. Then(Begun(2, cp), b, Utf8Of(c))
    BY ONLY <2>1, <2>4, <2>5, SMT
  <2> QED BY <1>4, <2>6, SMT
<1> QED BY <1>1, <1>5, <1>6, <1>7, SMT

\* The last byte but one.
LEMMA LastByteButOne ==
  ASSUME NEW cp, Bits(3, cp), NEW b \in TailBytes, NEW c, More(cp, b, c)
  PROVE  Bits(2, c) /\ Then(Begun(3, cp), b, Begun(2, c))
<1>1. cp \in Nat /\ 1 <= cp /\ cp <= 271 /\ cp # 13
  BY SMT DEF Bits
<1>2. c \in Nat /\ c >= cp * 64 /\ c <= cp * 64 + 63
  BY <1>1, SixBits, SMT
<1>3. c \div 64 = cp /\ 128 + (c % 64) = b /\ c \div 4096 = cp \div 64
  BY <1>1, SixBits, SMT
<1>4. Bits(2, c)
  <2>1. 2 <= c /\ c <= 17407 /\ (c < 864 \/ c > 895)
    BY ONLY <1>1, <1>2, SMT
  <2> QED BY ONLY <1>2, <2>1, SMT DEF Bits
<1>5. CASE cp < 16
  <2>1. Begun(3, cp) = <<224 + cp>>
    BY <1>5, SMT DEF Begun
  <2>2. c >= 32 /\ c < 1024
    BY ONLY <1>1, <1>2, <1>5, SMT
  <2>3. Begun(2, c) = <<224 + c \div 64, 128 + (c % 64)>>
    BY ONLY <1>2, <2>2, SMT DEF Begun
  <2>4. Begun(2, c) = <<224 + cp, b>>
    BY ONLY <2>3, <1>3, SMT
  <2>5. Then(<<224 + cp>>, b, <<224 + cp, b>>)
    BY ONLY SMT DEF Then
  <2>6. Then(Begun(3, cp), b, Begun(2, c))
    BY ONLY <2>1, <2>4, <2>5, SMT
  <2> QED BY <1>4, <2>6, SMT
<1>6. CASE cp >= 16
  <2>1. Begun(3, cp) = <<240 + cp \div 64, 128 + (cp % 64)>>
    BY <1>1, <1>6, SMT DEF Begun
  <2>2. c >= 1024
    BY ONLY <1>1, <1>2, <1>6, SMT
  <2>3. Begun(2, c) = <<240 + c \div 4096, 128 + ((c \div 64) % 64), 128 + (c % 64)>>
    BY ONLY <1>2, <2>2, SMT DEF Begun
  <2>4. Begun(2, c) = <<240 + cp \div 64, 128 + (cp % 64), b>>
    BY ONLY <2>3, <1>3, SMT
  <2>5. Then(<<240 + cp \div 64, 128 + (cp % 64)>>, b, <<240 + cp \div 64, 128 + (cp % 64), b>>)
    BY ONLY SMT DEF Then
  <2>6. Then(Begun(3, cp), b, Begun(2, c))
    BY ONLY <2>1, <2>4, <2>5, SMT
  <2> QED BY <1>4, <2>6, SMT
<1> QED BY <1>1, <1>5, <1>6, SMT

\* The second byte, where the first one restricts it.
LEMMA SecondByte ==
  ASSUME NEW st \in {4, 5, 6, 7, 8}, NEW cp, Bits(st, cp), NEW b, Accepts(st, b), NEW c,
         More(cp, b, c)
  PROVE  Bits(After(st), c) /\ Then(Begun(st, cp), b, Begun(After(st), c))
<1>1. cp \in Nat /\ b \in TailBytes
  BY SMT DEF Bits, Accepts
<1>2. c \in Nat /\ c \div 64 = cp /\ 128 + (c % 64) = b
  BY <1>1, SixBits, SMT
<1>3. c = cp * 64 + (b - 128)
  BY SMT DEF More
<1>4. CASE st \in {4, 5}
  <2>1. After(st) = 2 /\ Begun(st, cp) = <<224 + cp>>
    BY <1>4, SMT DEF After, Begun
  <2>2. (c >= 32 /\ c < 64) \/ (c >= 832 /\ c <= 863)
    <3>1. CASE st = 4
      <4>1. cp = 0 /\ 160 <= b /\ b <= 191 /\ b \in Int
        BY <3>1, SMT DEF Bits, Accepts, TailBytes
      <4> QED BY ONLY <4>1, <1>3, SMT
    <3>2. CASE st = 5
      <4>1. cp = 13 /\ 128 <= b /\ b <= 159 /\ b \in Int
        BY <3>2, SMT DEF Bits, Accepts, TailBytes
      <4> QED BY ONLY <4>1, <1>3, SMT
    <3> QED BY <1>4, <3>1, <3>2, SMT
  <2>3. Bits(2, c)
    BY ONLY <1>2, <2>2, SMT DEF Bits
  <2>4. Begun(2, c) = <<224 + c \div 64, 128 + (c % 64)>>
    BY ONLY <1>2, <2>2, SMT DEF Begun
  <2>5. Begun(2, c) = <<224 + cp, b>>
    BY ONLY <2>4, <1>2, SMT
  <2>6. Then(<<224 + cp>>, b, <<224 + cp, b>>)
    BY ONLY SMT DEF Then
  <2>7. Then(Begun(st, cp), b, Begun(2, c))
    BY ONLY <2>1, <2>5, <2>6, SMT
  <2> QED BY ONLY <2>1, <2>3, <2>7, SMT
<1>5. CASE st \in {6, 7, 8}
  <2>1. After(st) = 3 /\ Begun(st, cp) = <<240 + cp>>
    BY <1>5, SMT DEF After, Begun
  <2>2. c >= 16 /\ c <= 271
    <3>1. CASE st = 6
      <4>1. cp = 0 /\ 144 <= b /\ b <= 191 /\ b \in Int
        BY <3>1, SMT DEF Bits, Accepts, TailBytes
      <4> QED BY ONLY <4>1, <1>3, SMT
    <3>2. CASE st = 7
      <4>1. cp >= 1 /\ cp <= 3 /\ cp \in Int /\ 128 <= b /\ b <= 191 /\ b \in Int
        BY <3>2, SMT DEF Bits, Accepts, TailBytes
      <4> QED BY ONLY <4>1, <1>3, SMT
    <3>3. CASE st = 8
      <4>1. cp = 4 /\ 128 <= b /\ b < 144 /\ b \in Int
        BY <3>3, SMT DEF Bits, Accepts, TailBytes
      <4> QED BY ONLY <4>1, <1>3, SMT
    <3> QED BY <1>5, <3>1, <3>2, <3>3, SMT
  <2>3. Bits(3, c)
    BY ONLY <1>2, <2>2, SMT DEF Bits
  <2>4. Begun(3, c) = <<240 + c \div 64, 128 + (c % 64)>>
    BY ONLY <1>2, <2>2, SMT DEF Begun
  <2>5. Begun(3, c) = <<240 + cp, b>>
    BY ONLY <2>4, <1>2, SMT
  <2>6. Then(<<240 + cp>>, b, <<240 + cp, b>>)
    BY ONLY SMT DEF Then
  <2>7. Then(Begun(st, cp), b, Begun(3, c))
    BY ONLY <2>1, <2>5, <2>6, SMT
  <2> QED BY ONLY <2>1, <2>3, <2>7, SMT
<1> QED BY <1>4, <1>5, SMT

\* Byte b leads from state st and bits cp to state s and bits c.
Leads(st, cp, b, s, c) ==
  s = DecodeStep(st, b) /\ c = Accumulate(st, cp, b) /\ s # 1

\* The first byte of a character.
LEMMA BeginsWith ==
  ASSUME NEW b \in 1 .. 255, NEW s, NEW c, Leads(0, 0, b, s, c)
  PROVE  /\ s \in States
         /\ s = 0 => c \in Scalars /\ Then(<<>>, b, Utf8Of(c))
         /\ s # 0 => Bits(s, c) /\ Then(<<>>, b, Begun(s, c))
<1>1. b \in Byte /\ b \in Int /\ b >= 1 /\ b <= 255
  BY SMT DEF Byte
<1>2. Then(<<>>, b, <<b>>)
  BY SMT DEF Then
<1>12. s = DecodeStep(0, b) /\ c = Accumulate(0, 0, b) /\ s # 1
  BY SMT DEF Leads
<1>3. CASE b \in 0..127
  <2>1. s = 0 /\ c = b
    BY <1>1, <1>3, <1>12, FirstByte, SMT
  <2>2. c \in Scalars /\ Utf8Of(c) = <<b>>
    BY <1>1, <1>3, <2>1, SMT DEF Scalars, Utf8Of
  <2> QED BY <1>2, <2>1, <2>2, SMT DEF States
<1>4. CASE b \in 194..223
  <2>1. s = 2 /\ c = b - 192
    BY <1>1, <1>4, <1>12, FirstByte, SMT
  <2>2. Bits(2, c) /\ Begun(2, c) = <<b>>
    BY <1>1, <1>4, <2>1, SMT DEF Bits, Begun
  <2> QED BY <1>2, <2>1, <2>2, SMT DEF States
<1>5. CASE b = 224
  <2>1. s = 4 /\ c = 0
    BY <1>1, <1>5, <1>12, FirstByte, SMT
  <2>2. Bits(4, c) /\ Begun(4, c) = <<b>>
    BY <1>1, <1>5, <2>1, SMT DEF Bits, Begun
  <2> QED BY <1>2, <2>1, <2>2, SMT DEF States
<1>6. CASE b \in 225..239 /\ b # 237
  <2>1. s = 3 /\ c = b - 224
    BY <1>1, <1>6, <1>12, FirstByte, SMT
  <2>2. Bits(3, c) /\ Begun(3, c) = <<b>>
    BY <1>1, <1>6, <2>1, SMT DEF Bits, Begun
  <2> QED BY <1>2, <2>1, <2>2, SMT DEF States
<1>7. CASE b = 237
  <2>1. s = 5 /\ c = 13
    BY <1>1, <1>7, <1>12, FirstByte, SMT
  <2>2. Bits(5, c) /\ Begun(5, c) = <<b>>
    BY <1>1, <1>7, <2>1, SMT DEF Bits, Begun
  <2> QED BY <1>2, <2>1, <2>2, SMT DEF States
<1>8. CASE b = 240
  <2>1. s = 6 /\ c = 0
    BY <1>1, <1>8, <1>12, FirstByte, SMT
  <2>2. Bits(6, c) /\ Begun(6, c) = <<b>>
    BY <1>1, <1>8, <2>1, SMT DEF Bits, Begun
  <2> QED BY <1>2, <2>1, <2>2, SMT DEF States
<1>9. CASE b \in 241..243
  <2>1. s = 7 /\ c = b - 240
    BY <1>1, <1>9, <1>12, FirstByte, SMT
  <2>2. Bits(7, c) /\ Begun(7, c) = <<b>>
    BY <1>1, <1>9, <2>1, SMT DEF Bits, Begun
  <2> QED BY <1>2, <2>1, <2>2, SMT DEF States
<1>10. CASE b = 244
  <2>1. s = 8 /\ c = 4
    BY <1>1, <1>10, <1>12, FirstByte, SMT
  <2>2. Bits(8, c) /\ Begun(8, c) = <<b>>
    BY <1>1, <1>10, <2>1, SMT DEF Bits, Begun
  <2> QED BY <1>2, <2>1, <2>2, SMT DEF States
<1>11. CASE b \in 128..193 \/ b > 244
  BY <1>1, <1>11, <1>12, FirstByte, SMT
<1> QED BY <1>1, <1>3, <1>4, <1>5, <1>6, <1>7, <1>8, <1>9, <1>10, <1>11, SMT

\* What a byte that is not rejected does: it is one more of the character, or
\* the character's last.
LEMMA Utf8Step ==
  ASSUME NEW st \in States, NEW cp, Bits(st, cp), NEW b \in 1 .. 255,
         NEW s, NEW c, Leads(st, cp, b, s, c)
  PROVE  /\ s \in States
         /\ s = 0 => c \in Scalars /\ Then(Begun(st, cp), b, Utf8Of(c))
         /\ s # 0 => Bits(s, c) /\ Then(Begun(st, cp), b, Begun(s, c))
<1>1. CASE st = 0
  <2>1. cp = 0 /\ Begun(st, cp) = <<>>
    BY <1>1, SMT DEF Bits, Begun
  <2>2. Leads(0, 0, b, s, c)
    BY <1>1, <2>1, SMT
  <2>3. /\ s \in States
        /\ s = 0 => c \in Scalars /\ Then(<<>>, b, Utf8Of(c))
        /\ s # 0 => Bits(s, c) /\ Then(<<>>, b, Begun(s, c))
    BY <2>2, BeginsWith, Zenon
  <2> QED BY <2>1, <2>3, SMT
<1>2. CASE st # 0
  <2>1. b \in Byte /\ st \in States \ {0}
    BY <1>2, SMT DEF Byte
  <2>2. Accepts(st, b) /\ s = After(st)
    BY <2>1, FurtherByte, SMT DEF Leads
  <2>3. b \in TailBytes /\ cp \in Nat
    BY <2>2, SMT DEF Accepts, Bits
  <2>4. More(cp, b, c)
    BY <2>1, <2>3, FurtherBits, SMT DEF More, Leads
  <2>5. CASE st = 2
    <3>1. s = 0
      BY <2>2, <2>5, SMT DEF After
    <3>2. c \in Scalars /\ Then(Begun(2, cp), b, Utf8Of(c))
      BY <2>3, <2>4, <2>5, LastByte, SMT
    <3> QED BY <2>5, <3>1, <3>2, SMT DEF States
  <2>6. CASE st = 3
    <3>1. s = 2
      BY <2>2, <2>6, SMT DEF After
    <3>2. Bits(2, c) /\ Then(Begun(3, cp), b, Begun(2, c))
      BY <2>3, <2>4, <2>6, LastByteButOne, SMT
    <3> QED BY <2>6, <3>1, <3>2, SMT DEF States
  <2>7. CASE st \in {4, 5, 6, 7, 8}
    <3>1. s = After(st) /\ s \in States /\ s # 0
      BY <2>2, <2>7, SMT DEF After, States
    <3>2. Bits(After(st), c) /\ Then(Begun(st, cp), b, Begun(After(st), c))
      BY <2>2, <2>4, <2>7, SecondByte, SMT
    <3> QED BY <3>1, <3>2, SMT
  <2> QED BY <2>1, <2>5, <2>6, <2>7, SMT DEF States
<1> QED BY <1>1, <1>2, SMT

-----------------------------------------------------------------------------
(* Sequences of characters, one behind the other.                          *)

FlatTo(ss, n, f) == f = [i \in 1..n |-> IF i = 1 THEN ss[i] ELSE f[i - 1] \o ss[i]]

LEMMA FlatExists ==
  ASSUME NEW ss
  PROVE  \A n \in Nat : \E f : FlatTo(ss, n, f)
<1> DEFINE T == {n \in Nat : \E f : FlatTo(ss, n, f)}
<1>1. 0 \in T
  <2> DEFINE f == [i \in 1..0 |-> 0]
  <2>1. f = [i \in 1..0 |-> IF i = 1 THEN ss[i] ELSE f[i - 1] \o ss[i]]
    OBVIOUS
  <2> QED BY <2>1 DEF FlatTo
<1>2. ASSUME NEW n \in Nat, n \in T PROVE n + 1 \in T
  <2>1. PICK f : f = [i \in 1..n |-> IF i = 1 THEN ss[i] ELSE f[i - 1] \o ss[i]]
    BY <1>2 DEF FlatTo
  <2> DEFINE last == IF n = 0 THEN ss[1] ELSE f[n] \o ss[n + 1]
             v == [i \in 1..(n + 1) |-> IF i = n + 1 THEN last ELSE f[i]]
  <2>2. ASSUME NEW i \in 1..(n + 1)
        PROVE  v[i] = IF i = 1 THEN ss[i] ELSE v[i - 1] \o ss[i]
    <3>1. CASE i = n + 1
      <4>1. v[i] = last /\ i - 1 = n /\ (i = 1 <=> n = 0)
        BY <3>1
      <4>2. n # 0 => n \in 1..(n + 1) /\ n # n + 1
        OBVIOUS
      <4>3. n # 0 => v[n] = f[n]
        BY <4>2
      <4> HIDE DEF v
      <4> QED BY <3>1, <4>1, <4>3
    <3>2. CASE i \in 1..n
      <4>1. v[i] = f[i] /\ (i # 1 => i - 1 \in 1..(n + 1) /\ i - 1 # n + 1)
        BY <3>2
      <4>2. i # 1 => v[i - 1] = f[i - 1]
        BY <4>1
      <4>3. f[i] = IF i = 1 THEN ss[i] ELSE f[i - 1] \o ss[i]
        BY <2>1, <3>2
      <4> HIDE DEF v
      <4> QED BY <4>1, <4>2, <4>3
    <3> QED BY <3>1, <3>2
  <2>3. v = [i \in 1..(n + 1) |-> IF i = 1 THEN ss[i] ELSE v[i - 1] \o ss[i]]
    <3>1. v = [i \in 1..(n + 1) |-> v[i]]
      OBVIOUS
    <3> HIDE DEF v
    <3> QED BY <2>2, <3>1
  <2> HIDE DEF v
  <2>4. FlatTo(ss, n + 1, v)
    BY <2>3 DEF FlatTo
  <2>5. \E f_1 : FlatTo(ss, n + 1, f_1)
    BY <2>4, Zenon
  <2> QED BY <2>5
<1>3. Nat \subseteq T
  <2> HIDE DEF T
  <2> QED BY <1>1, <1>2, Counting
<1> QED BY <1>3

\* f is what FlattenSeq computes for ss.
Flat(ss, f) ==
  /\ f[0] = <<>> /\ \A i \in 1..Len(ss) : f[i] = f[i - 1] \o ss[i]
  /\ FlattenSeq(ss) = f[Len(ss)]

LEMMA FlattenSeqIs ==
  ASSUME NEW S, NEW ss \in Seq(Seq(S))
  PROVE  \E f : Flat(ss, f)
<1> DEFINE n == Len(ss)
<1>1. n \in Nat /\ \A i \in 1..n : ss[i] \in Seq(S)
  OBVIOUS
<1>2. CASE n = 0
  <2> DEFINE f == [i \in {0} |-> <<>>]
  <2>1. FlattenSeq(ss) = ss /\ ss = <<>>
    BY <1>2 DEF FlattenSeq
  <2>2. f[0] = <<>> /\ 1..n = {} /\ f[n] = <<>>
    BY <1>2
  <2> HIDE DEF f
  <2> QED BY <2>1, <2>2 DEF Flat
<1>3. CASE n # 0
  <2> DEFINE g == CHOOSE g : g = [i \in 1..n |-> IF i = 1 THEN ss[i] ELSE g[i - 1] \o ss[i]]
  <2>1. FlattenSeq(ss) = g[n]
    BY <1>3 DEF FlattenSeq
  <2>2. \E g_1 : g_1 = [i \in 1..n |-> IF i = 1 THEN ss[i] ELSE g_1[i - 1] \o ss[i]]
    <3>1. \E g_1 : FlatTo(ss, n, g_1)
      BY <1>1, FlatExists
    <3> QED BY <3>1, Zenon DEF FlatTo
  <2>3. g = [i \in 1..n |-> IF i = 1 THEN ss[i] ELSE g[i - 1] \o ss[i]]
    BY <2>2, Zenon
  <2> HIDE DEF g
  <2> DEFINE f == [i \in 0..n |-> IF i = 0 THEN <<>> ELSE g[i]]
  <2>4. f[0] = <<>> /\ \A i \in 1..n : f[i] = g[i]
    BY <1>1
  <2>5. ASSUME NEW i \in 1..n PROVE f[i] = f[i - 1] \o ss[i]
    <3>1. f[i] = g[i] /\ g[i] = IF i = 1 THEN ss[i] ELSE g[i - 1] \o ss[i]
      BY <2>3, <2>4
    <3> HIDE DEF f
    <3>2. CASE i = 1
      <4>1. f[i - 1] = <<>> /\ ss[i] \in Seq(S)
        BY <1>1, <2>4, <3>2
      <4>2. <<>> \o ss[i] = ss[i]
        BY <4>1
      <4> QED BY <3>1, <3>2, <4>1, <4>2
    <3>3. CASE i # 1
      <4>1. i - 1 \in 1..n
        BY <1>1, <3>3
      <4> QED BY <2>4, <3>1, <3>3, <4>1
    <3> QED BY <3>2, <3>3
  <2>6. FlattenSeq(ss) = f[n]
    BY <1>1, <1>3, <2>1, <2>4
  <2> HIDE DEF f
  <2> QED BY <2>4, <2>5, <2>6 DEF Flat
<1> QED BY <1>2, <1>3

\* What FlattenSeq computes is a sequence, and one more at the end of ss is one
\* more at the end of it.
LEMMA FlatType ==
  ASSUME NEW S, NEW ss \in Seq(Seq(S)), NEW f, Flat(ss, f)
  PROVE  \A i \in 0..Len(ss) : f[i] \in Seq(S)
<1> DEFINE T == {n \in Nat : n <= Len(ss) => f[n] \in Seq(S)}
<1>1. 0 \in T
  <2>1. f[0] = <<>>
    BY DEF Flat
  <2>2. f[0] \in Seq(S)
    BY <2>1
  <2> QED BY <2>2
<1>2. ASSUME NEW n \in Nat, n \in T PROVE n + 1 \in T
  <2> SUFFICES ASSUME n + 1 <= Len(ss) PROVE f[n + 1] \in Seq(S)
    OBVIOUS
  <2>1. n + 1 \in 1..Len(ss) /\ (n + 1) - 1 = n
    OBVIOUS
  <2>2. f[n + 1] = f[n] \o ss[n + 1]
    BY <2>1 DEF Flat
  <2>3. f[n] \in Seq(S) /\ ss[n + 1] \in Seq(S)
    BY <1>2, <2>1
  <2> QED BY <2>2, <2>3
<1>3. Nat \subseteq T
  <2> HIDE DEF T
  <2> QED BY <1>1, <1>2, Counting
<1> QED BY <1>3

LEMMA FlattenAppend ==
  ASSUME NEW S, NEW ss \in Seq(Seq(S)), NEW x \in Seq(S)
  PROVE  /\ FlattenSeq(ss) \in Seq(S)
         /\ FlattenSeq(Append(ss, x)) = FlattenSeq(ss) \o x
<1> DEFINE more == Append(ss, x)
<1>1. /\ more \in Seq(Seq(S)) /\ Len(more) = Len(ss) + 1 /\ more[Len(ss) + 1] = x
      /\ \A i \in 1..Len(ss) : more[i] = ss[i]
  OBVIOUS
<1> HIDE DEF more
<1>2. PICK f : Flat(ss, f)
  BY FlattenSeqIs
<1>3. PICK g : Flat(more, g)
  BY <1>1, FlattenSeqIs
<1> DEFINE T == {n \in Nat : n <= Len(ss) => g[n] = f[n]}
<1>4. 0 \in T
  BY <1>2, <1>3 DEF Flat
<1>5. ASSUME NEW n \in Nat, n \in T PROVE n + 1 \in T
  <2> SUFFICES ASSUME n + 1 <= Len(ss) PROVE g[n + 1] = f[n + 1]
    OBVIOUS
  <2>1. n + 1 \in 1..Len(ss) /\ (n + 1) - 1 = n /\ n + 1 \in 1..Len(more)
    <3>1. Len(ss) \in Nat
      OBVIOUS
    <3> QED BY <1>1, <3>1
  <2>2. f[n + 1] = f[n] \o ss[n + 1]
    BY <1>2, <2>1 DEF Flat
  <2>3. g[n + 1] = g[n] \o more[n + 1]
    BY <1>3, <2>1 DEF Flat
  <2>4. g[n] = f[n] /\ more[n + 1] = ss[n + 1]
    BY <1>1, <1>5, <2>1
  <2> QED BY <2>2, <2>3, <2>4
<1>6. Nat \subseteq T
  <2> HIDE DEF T
  <2> QED BY <1>4, <1>5, Counting
<1>7. g[Len(ss)] = f[Len(ss)]
  BY <1>6
<1>8. Len(more) \in 1..Len(more) /\ Len(more) - 1 = Len(ss)
  BY <1>1
<1>9. g[Len(more)] = g[Len(ss)] \o more[Len(more)]
  BY <1>3, <1>8 DEF Flat
<1>10. FlattenSeq(ss) = f[Len(ss)] /\ FlattenSeq(more) = g[Len(more)]
  BY <1>2, <1>3 DEF Flat
<1>11. f[Len(ss)] \in Seq(S)
  BY <1>2, FlatType
<1> QED BY <1>1, <1>7, <1>9, <1>10, <1>11 DEF more

-----------------------------------------------------------------------------
(* Code points, and what they are encoded as.                              *)

\* The largest is a high surrogate and a unit before the low ones.
Chars == {c \in Nat : 1 <= c /\ c <= 1178623}

\* A character of units that are not zero.
OfUnits(s, S) ==
  s \in Seq(S) /\ Len(s) >= 1 /\ \A i \in 1..Len(s) : s[i] # 0

LEMMA CharUnits ==
  ASSUME NEW c \in Chars, NEW to \in {"utf8", "utf16"}
  PROVE  OfUnits(CharIn(c, to), UnitsOf(to))
<1>1. c \in Nat /\ 1 <= c /\ c <= 1178623
  BY SMT DEF Chars
<1>2. c \div 64 \in Nat /\ c \div 4096 \in Nat /\ c \div 262144 \in Nat /\ c \div 1024 \in Nat
  BY <1>1, SMT
<1>3. CASE to = "utf8"
  <2> DEFINE S == UnitsOf(to)
             p == 128 + (c % 64)
             q == 128 + ((c \div 64) % 64)
             r == 128 + ((c \div 4096) % 64)
  <2>0. SUFFICES OfUnits(CharIn(c, to), S)
    BY Zenon
  <2>1. S = 0..255
    BY <1>3, SMT DEF UnitsOf
  <2>2. p \in S \ {0} /\ q \in S \ {0} /\ r \in S \ {0}
    BY <1>1, <1>2, <2>1, SMT
  <2> HIDE DEF S
  <2>3. CASE c <= 127
    <3>1. CharIn(c, to) = <<c>> /\ c \in S \ {0}
      BY <1>1, <1>3, <2>1, <2>3, SMT DEF CharIn, Utf8Of
    <3>2. OfUnits(<<c>>, S)
      BY ONLY <3>1, SMT DEF OfUnits
    <3> QED BY ONLY <3>1, <3>2, SMT
  <2>4. CASE c > 127 /\ c <= 2047
    <3>1. CharIn(c, to) = <<192 + c \div 64, p>>
      BY <1>1, <1>3, <2>4, SMT DEF CharIn, Utf8Of
    <3>2. 192 + c \div 64 \in S \ {0}
      BY <1>1, <1>2, <2>1, <2>4, SMT
    <3> HIDE DEF p
    <3> DEFINE h == 192 + c \div 64
    <3>3. CharIn(c, to) = <<h, p>> /\ h \in S \ {0}
      BY <3>1, <3>2, SMT
    <3> HIDE DEF h
    <3>4. OfUnits(<<h, p>>, S)
      BY ONLY <2>2, <3>3, SMT DEF OfUnits
    <3> QED BY ONLY <3>3, <3>4, SMT
  <2>5. CASE c > 2047 /\ c <= 65535
    <3>1. CharIn(c, to) = <<224 + c \div 4096, q, p>>
      BY <1>1, <1>3, <2>5, SMT DEF CharIn, Utf8Of
    <3>2. 224 + c \div 4096 \in S \ {0}
      BY <1>1, <1>2, <2>1, <2>5, SMT
    <3> HIDE DEF p, q
    <3> DEFINE h == 224 + c \div 4096
    <3>3. CharIn(c, to) = <<h, q, p>> /\ h \in S \ {0}
      BY <3>1, <3>2, SMT
    <3> HIDE DEF h
    <3>4. OfUnits(<<h, q, p>>, S)
      BY ONLY <2>2, <3>3, SMT DEF OfUnits
    <3> QED BY ONLY <3>3, <3>4, SMT
  <2>6. CASE c > 65535
    <3>1. CharIn(c, to) = <<240 + c \div 262144, r, q, p>>
      BY <1>1, <1>3, <2>6, SMT DEF CharIn, Utf8Of
    <3>2. 240 + c \div 262144 \in S \ {0}
      BY <1>1, <1>2, <2>1, <2>6, SMT
    <3> HIDE DEF p, q, r
    <3> DEFINE h == 240 + c \div 262144
    <3>3. CharIn(c, to) = <<h, r, q, p>> /\ h \in S \ {0}
      BY <3>1, <3>2, SMT
    <3> HIDE DEF h
    <3>4. OfUnits(<<h, r, q, p>>, S)
      BY ONLY <2>2, <3>3, SMT DEF OfUnits
    <3> QED BY ONLY <3>3, <3>4, SMT
  <2> QED BY <1>1, <2>3, <2>4, <2>5, <2>6, SMT
<1>4. CASE to = "utf16"
  <2> DEFINE S == UnitsOf(to)
  <2>0. SUFFICES OfUnits(CharIn(c, to), S)
    BY Zenon
  <2>1. S = {u \in Nat : u <= 65535}
    BY <1>4, SMT DEF UnitsOf
  <2> HIDE DEF S
  <2>2. CASE c > 65535
    <3> DEFINE h == 55232 + c \div 1024
               l == 56320 + (c % 1024)
    <3>1. CharIn(c, to) = <<h, l>>
      BY <1>1, <1>4, <2>2, SMT DEF CharIn, Utf16Of
    <3>2. h \in S \ {0} /\ l \in S \ {0}
      <4>1. c \div 1024 >= 64 /\ c \div 1024 <= 1151 /\ c % 1024 \in 0..1023
        BY <1>1, <2>2, SMT
      <4>2. c \div 1024 \in Int /\ c % 1024 \in Int
        BY <1>1, SMT
      <4>3. h \in Int /\ 1 <= h /\ h <= 65535 /\ l \in Int /\ 1 <= l /\ l <= 65535
        BY <4>1, <4>2, SMT
      <4> HIDE DEF h, l
      <4> QED BY ONLY <2>1, <4>3, SMT
    <3> HIDE DEF h, l
    <3>3. OfUnits(<<h, l>>, S)
      BY ONLY <3>2, SMT DEF OfUnits
    <3> QED BY ONLY <3>1, <3>3, SMT
  <2>3. CASE c <= 65535
    <3>1. CharIn(c, to) = <<c>> /\ c \in S \ {0}
      <4>1. CharIn(c, to) = <<c>>
        BY <1>1, <1>4, <2>3, SMT DEF CharIn, Utf16Of
      <4>2. c \in S \ {0}
        BY ONLY <1>1, <2>1, <2>3, SMT
      <4> QED BY <4>1, <4>2, SMT
    <3>2. OfUnits(<<c>>, S)
      BY ONLY <3>1, SMT DEF OfUnits
    <3> QED BY ONLY <3>1, <3>2, SMT
  <2> QED BY <1>1, <2>2, <2>3, SMT
<1> QED BY <1>3, <1>4, SMT

LEMMA EncodedAppend ==
  ASSUME NEW t \in Seq(Chars), NEW c \in Chars, NEW to \in {"utf8", "utf16"}
  PROVE  /\ Encoded(<<>>, to) = <<>>
         /\ Encoded(t, to) \in Seq(UnitsOf(to))
         /\ Encoded(Append(t, c), to) = Encoded(t, to) \o CharIn(c, to)
<1> DEFINE each(u) == [i \in DOMAIN u |-> CharIn(u[i], to)]
<1>1. Encoded(<<>>, to) = <<>>
  <2>1. each(<<>>) = <<>>
    OBVIOUS
  <2>2. FlattenSeq(<<>>) = <<>>
    BY SMT DEF FlattenSeq
  <2> QED BY <2>1, <2>2, Zenon DEF Encoded
<1>2. \A i \in 1..Len(t) : CharIn(t[i], to) \in Seq(UnitsOf(to))
  <2> TAKE i \in 1..Len(t)
  <2>1. t[i] \in Chars
    <3> HIDE DEF Chars
    <3> QED OBVIOUS
  <2> QED BY <2>1, CharUnits, Zenon DEF OfUnits
<1>3. CharIn(c, to) \in Seq(UnitsOf(to))
  BY CharUnits, Zenon DEF OfUnits
<1>4. Append(t, c) \in Seq(Chars) /\ Len(Append(t, c)) = Len(t) + 1
  OBVIOUS
<1>5. each(t) \in Seq(Seq(UnitsOf(to)))
  BY <1>2, SMT
<1>6. each(Append(t, c)) = Append(each(t), CharIn(c, to))
  BY <1>2, <1>3, SMT
<1>7. /\ FlattenSeq(each(t)) \in Seq(UnitsOf(to))
      /\ FlattenSeq(Append(each(t), CharIn(c, to))) = FlattenSeq(each(t)) \o CharIn(c, to)
  BY <1>3, <1>5, FlattenAppend, Zenon
<1> QED BY <1>1, <1>6, <1>7, Zenon DEF Encoded

-----------------------------------------------------------------------------
(* What decoding keeps.                                                    *)

Typed ==
  /\ enc \in {"utf8", "utf16"} /\ phase \in {"decoding", "decoded", "again", "done"}
  /\ units \in Seq(UnitsOf(enc))
  /\ pos \in Nat \ {0} /\ read \in Nat
  /\ text \in Seq(Chars) /\ sourceText \in Seq(Chars)
  /\ enc = "utf8" => state \in States /\ Bits(state, codep)
  /\ enc = "utf16" => state = 0 /\ codep = 0

\* How many bytes are still to come in a state.
Rest(st) ==
  CASE st = 0 -> 0
    [] st = 2 -> 1
    [] st \in {3, 4, 5} -> 2
    [] st \in {6, 7, 8} -> 3

\* The character that begins at i goes on to n, and what is there of it up to
\* last continues it.
Reaches(us, from, i, n, last) ==
  /\ i \in 1 .. Len(us)
  /\ n <= i + CharSize(us[i], from) - 1
  /\ \A k \in i + 1 .. Len(us) : k <= last => us[k] \in Continuation

\* Where the decoder may be.
Cursor ==
  /\ ~Unterminated \/ enc = "utf16" => read <= Len(units) + 1 /\ pos <= Len(units) + 2
  /\ ~Unterminated /\ enc = "utf8" => pos <= Len(units) + 1
  /\ Unterminated /\ read > Len(units) =>
       \E i \in Nat : Reaches(units, enc, i, read, Len(units))
  /\ Unterminated /\ enc = "utf8" /\ state # 0 =>
       \E i \in Nat : i < pos /\ Reaches(units, enc, i, pos - 1 + Rest(state), pos - 1)
  /\ phase = "decoded" => pos > Len(units) \/ units[pos] = 0

DecodesScalars == enc = "utf8" => text \in Seq(Scalars)

Decoder == Typed /\ Cursor /\ DecodesScalars

LEMMA InSeq ==
  ASSUME NEW S, NEW s \in Seq(S), NEW i \in 1 .. Len(s)
  PROVE  s[i] \in S
OBVIOUS

LEMMA ScalarsAreChars ==
  Scalars \subseteq Chars /\ 65533 \in Scalars /\ \A c \in Scalars : IsScalar(c)
<1>1. Scalars \subseteq Chars
  BY SMT DEF Scalars, Chars
<1>2. 65533 \in Scalars
  BY SMT DEF Scalars
<1>3. ASSUME NEW c \in Scalars PROVE IsScalar(c)
  <2>1. c \in Int /\ c <= 1114111 /\ (c < 55296 \/ c > 57343)
    BY SMT DEF Scalars
  <2>2. c \notin 55296 .. 57343
    <3> DEFINE first == 55296
               last == 57343
    <3>1. first \in Int /\ last \in Int /\ (c < first \/ c > last)
      BY ONLY <2>1, SMT
    <3> HIDE DEF first, last
    <3>2. c \notin first .. last
      BY ONLY <2>1, <3>1, SMT
    <3> QED BY ONLY <3>2, SMT DEF first, last
  <2> QED BY ONLY <2>1, <2>2, SMT DEF IsScalar
<1> QED BY <1>1, <1>2, <1>3, SMT

LEMMA CharsAndScalars ==
  \A c \in Chars : IsScalar(c) => c \in Scalars
<1> SUFFICES ASSUME NEW c \in Chars, IsScalar(c) PROVE c \in Scalars
  BY Zenon
<1>1. c \in Nat /\ 1 <= c /\ c <= 1114111 /\ c \notin 55296 .. 57343
  BY SMT DEF Chars, IsScalar
<1>2. c < 55296 \/ c > 57343
  BY ONLY <1>1, Z3
<1> QED BY ONLY <1>1, <1>2, SMT DEF Scalars

\* Byte b is rejected, leads on, or is the last of a character.
Rejects(b) ==
  /\ DecodeStep(state, b) = 1
  /\ text' = Append(text, 65533) /\ state' = 0 /\ codep' = 0

LeadsOn(b) ==
  /\ Leads(state, codep, b, state', codep') /\ state' # 0
  /\ text' = text

Completes(b) ==
  \E c : /\ Leads(state, codep, b, 0, c)
         /\ text' = Append(text, c) /\ state' = 0 /\ codep' = 0

\* What may be read is made of the units of the encoding, and is what is there as
\* far as there is something.
LEMMA ReadableIs ==
  ASSUME Typed, NEW i \in Nat \ {0}
  PROVE  /\ Readable(i) \subseteq UnitsOf(enc)
         /\ i <= Len(units) => i \in 1 .. Len(units) /\ Readable(i) = {units[i]}
         /\ i > Len(units) => 0 \in Readable(i)
         /\ i > Len(units) /\ ~Unterminated => Readable(i) = {0}
<1>1. /\ enc \in {"utf8", "utf16"} /\ units \in Seq(UnitsOf(enc)) /\ Len(units) \in Nat
      /\ Bytes \subseteq UnitsOf("utf8") /\ Units \subseteq UnitsOf("utf16")
  BY EncodingAssumption, SMT DEF Typed
<1>2. 0 \in UnitsOf(enc)
  BY <1>1, SMT DEF UnitsOf
<1>3. CASE i <= Len(units)
  <2>1. i \in 1 .. Len(units) /\ Readable(i) = {units[i]}
    BY <1>1, <1>3, SMT DEF Readable
  <2>2. units[i] \in UnitsOf(enc)
    BY <1>1, <2>1, InSeq, Zenon
  <2> QED BY <1>1, <1>3, <2>1, <2>2, SMT
<1>4. CASE i > Len(units)
  <2>1. Readable(i) = {0} \cup (IF ~Unterminated THEN {} ELSE IF enc = "utf8" THEN Bytes ELSE Units)
    BY <1>1, <1>4, SMT DEF Readable
  <2>2. Readable(i) \subseteq UnitsOf(enc)
    BY ONLY <1>1, <1>2, <2>1, SMT
  <2> QED BY <1>1, <1>4, <2>1, <2>2, SMT
<1> QED BY <1>1, <1>3, <1>4, SMT

\* What a byte does that is not a zero.
ByteRead(b) ==
  /\ Rejects(b) \/ LeadsOn(b) \/ Completes(b)
  /\ read' = pos /\ pos' = pos + 1
  /\ UNCHANGED <<enc, units, phase, source, sourceEnc, sourceText, sized>>

LEMMA ReadByteDoes ==
  ASSUME Decoder, Utf8Byte
  PROVE  /\ enc = "utf8" /\ phase # "decoded" /\ (state # 0 \/ pos <= Len(units))
         /\ \E b \in 1 .. 255 : b \in Readable(pos) /\ ByteRead(b)
<1>1. /\ enc = "utf8" /\ phase # "decoded" /\ pos \in Nat \ {0}
      /\ state # 0 \/ pos <= Len(units)
  BY SMT DEF Decoder, Typed, Utf8Byte, Decoding, Inside, ACCEPT
<1>2. PICK b \in Readable(pos) \ {0} :
        IF DecodeStep(state, b) = REJECT THEN RejectSequence
        ELSE /\ read' = pos
             /\ pos' = pos + 1
             /\ state' = DecodeStep(state, b)
             /\ IF DecodeStep(state, b) = ACCEPT
                THEN text' = Append(text, Accumulate(state, codep, b)) /\ codep' = 0
                ELSE codep' = Accumulate(state, codep, b) /\ UNCHANGED text
             /\ UNCHANGED <<enc, units, phase, history>>
  BY Zenon DEF Utf8Byte
<1>3. b \in 1 .. 255
  <2>1. b \in UnitsOf("utf8") /\ b # 0
    BY <1>1, <1>2, ReadableIs, Zenon DEF Decoder
  <2> QED BY <2>1, SMT DEF UnitsOf
<1> DEFINE st == DecodeStep(state, b)
           cp == Accumulate(state, codep, b)
<1>4. IF st = REJECT THEN RejectSequence
      ELSE /\ read' = pos
           /\ pos' = pos + 1
           /\ state' = st
           /\ IF st = ACCEPT THEN text' = Append(text, cp) /\ codep' = 0
                             ELSE codep' = cp /\ UNCHANGED text
           /\ UNCHANGED <<enc, units, phase, history>>
  BY <1>2, Zenon
<1>7. st = DecodeStep(state, b) /\ cp = Accumulate(state, codep, b)
  OBVIOUS
<1> HIDE DEF st, cp
<1>5. CASE st = 1
  <2>1. RejectSequence
    BY <1>4, <1>5, Zenon DEF REJECT
  <2>2. Rejects(b)
    <3>1. text' = Append(text, 65533) /\ state' = 0 /\ codep' = 0
      BY ONLY <2>1, SMT DEF RejectSequence, ACCEPT
    <3> QED BY ONLY <1>5, <1>7, <3>1, SMT DEF Rejects
  <2>3. /\ read' = pos /\ pos' = pos + 1
        /\ UNCHANGED <<enc, units, phase, source, sourceEnc, sourceText, sized>>
    BY ONLY <2>1, SMT DEF RejectSequence, history
  <2>4. ByteRead(b)
    BY ONLY <2>2, <2>3, Zenon DEF ByteRead
  <2> QED BY <1>1, <1>2, <1>3, <2>4, Zenon
<1>6. CASE st # 1
  <2>1. /\ read' = pos /\ pos' = pos + 1 /\ state' = st
        /\ IF st = 0 THEN text' = Append(text, cp) /\ codep' = 0
                     ELSE codep' = cp /\ UNCHANGED text
        /\ UNCHANGED <<enc, units, phase, history>>
    BY <1>4, <1>6, Zenon DEF REJECT, ACCEPT
  <2>2. Leads(state, codep, b, st, cp)
    BY <1>6, <1>7, Zenon DEF Leads
  <2>3. LeadsOn(b) \/ Completes(b)
    <3>1. CASE st = 0
      BY ONLY <2>1, <2>2, <3>1, SMT DEF Completes
    <3>2. CASE st # 0
      BY ONLY <2>1, <2>2, <3>2, SMT DEF LeadsOn
    <3> QED BY <3>1, <3>2
  <2>4. /\ read' = pos /\ pos' = pos + 1
        /\ UNCHANGED <<enc, units, phase, source, sourceEnc, sourceText, sized>>
    BY ONLY <2>1, SMT DEF history
  <2>5. ByteRead(b)
    BY ONLY <2>3, <2>4, Zenon DEF ByteRead
  <2> QED BY <1>1, <1>2, <1>3, <2>5, Zenon
<1> QED BY <1>5, <1>6

\* Where there is a terminator the byte is one of the text.
LEMMA Utf8ByteDoes ==
  ASSUME Decoder, ~Unterminated, Utf8Byte
  PROVE  /\ enc = "utf8" /\ pos \in 1..Len(units) /\ units[pos] \in 1..255
         /\ Rejects(units[pos]) \/ LeadsOn(units[pos]) \/ Completes(units[pos])
         /\ read' = pos /\ pos' = pos + 1
         /\ UNCHANGED <<enc, units, phase, source, sourceEnc, sourceText, sized>>
<1>1. PICK b \in 1 .. 255 : b \in Readable(pos) /\ ByteRead(b)
  BY ReadByteDoes, Zenon
<1>2. enc = "utf8" /\ pos \in Nat \ {0} /\ Len(units) \in Nat
  BY ReadByteDoes, SMT DEF Decoder, Typed
<1>3. pos <= Len(units)
  <2>1. CASE pos > Len(units)
    <3>1. b = 0
      BY <1>1, <1>2, <2>1, ReadableIs, SMT DEF Decoder
    <3> QED BY ONLY <1>1, <3>1, SMT
  <2> QED BY <1>2, <2>1, SMT
<1>4. pos \in 1..Len(units) /\ b = units[pos]
  BY <1>1, <1>2, <1>3, ReadableIs, SMT DEF Decoder
<1> QED BY ONLY <1>1, <1>2, <1>4, SMT DEF ByteRead

LEMMA Utf16CharDoes ==
  ASSUME Decoder, Utf16Char
  PROVE  /\ enc = "utf16" /\ phase # "decoded" /\ pos \in 1..Len(units) /\ units[pos] # 0
         /\ \E low \in Readable(pos + 1), c \in Chars :
               /\ c = IF CharLength(units[pos]) = 1 THEN units[pos] ELSE Pair(units[pos], low)
               /\ text' = Append(text, c)
         /\ CharLength(units[pos]) \in {1, 2}
         /\ read' = pos + CharLength(units[pos]) - 1 /\ pos' = pos + CharLength(units[pos])
         /\ UNCHANGED <<enc, units, state, codep, phase, source, sourceEnc, sourceText, sized>>
<1>1. /\ enc = "utf16" /\ phase # "decoded"
      /\ pos \in Nat \ {0} /\ units \in Seq({u \in Nat : u <= 65535})
  BY SMT DEF Decoder, Typed, Utf16Char, Decoding, UnitsOf
<1>2. pos \in 1..Len(units) /\ units[pos] # 0
  BY <1>1, SMT DEF Utf16Char, Inside
<1>3. units[pos] \in Nat /\ units[pos] <= 65535
  BY <1>1, <1>2, SMT
<1>4. CharLength(units[pos]) \in {1, 2}
  BY SMT DEF CharLength
<1>5. /\ read' = pos + CharLength(units[pos]) - 1 /\ pos' = pos + CharLength(units[pos])
      /\ UNCHANGED <<enc, units, state, codep, phase, source, sourceEnc, sourceText, sized>>
  BY Zenon DEF Utf16Char, history
<1>6. /\ Readable(pos + 1) \subseteq Nat
      /\ Readable(pos + 1) # {}
  <2>1. pos + 1 \in Nat \ {0} /\ Len(units) \in Nat
    BY <1>1, SMT
  <2>2. Readable(pos + 1) \subseteq UnitsOf(enc)
    BY ONLY Decoder, <2>1, ReadableIs, Zenon DEF Decoder
  <2>3. Readable(pos + 1) = {units[pos + 1]} \/ 0 \in Readable(pos + 1)
    BY ONLY Decoder, <2>1, ReadableIs, SMT DEF Decoder
  <2>4. UnitsOf(enc) \subseteq Nat
    BY <1>1, SMT DEF UnitsOf
  <2> QED BY ONLY <2>2, <2>3, <2>4, SMT
<1>7. CASE CharLength(units[pos]) = 1
  <2>1. text' = Append(text, units[pos])
    BY <1>7, SMT DEF Utf16Char
  <2>2. units[pos] \in Chars
    BY <1>2, <1>3, SMT DEF Chars
  <2>3. PICK low : low \in Readable(pos + 1)
    BY <1>6, Zenon
  <2>4. units[pos] = IF CharLength(units[pos]) = 1 THEN units[pos] ELSE Pair(units[pos], low)
    BY <1>7, Zenon
  <2>5. enc = "utf16" /\ phase # "decoded"
    BY <1>1
  <2> QED BY ONLY <1>2, <1>4, <1>5, <2>1, <2>2, <2>3, <2>4, <2>5, Zenon
<1>8. CASE CharLength(units[pos]) # 1
  <2>1. PICK low \in Readable(pos + 1) : text' = Append(text, Pair(units[pos], low))
    BY <1>8, Zenon DEF Utf16Char
  <2> DEFINE high == units[pos]
  <2>2. high \div 1024 = 54
    BY <1>8, SMT DEF CharLength
  <2>3. high \in Nat /\ high - 55296 >= 0 /\ high - 55296 <= 1023
    BY <1>3, <2>2, SMT
  <2>4. low \in Int
    BY <1>6, <2>1, SMT
  <2>5. Pair(units[pos], low) = Pair(high, low)
    OBVIOUS
  <2> HIDE DEF high
  <2> DEFINE x == (high - 55296) % 65536
             y == (low - 56320) % 65536
  <2>6. x \in Int /\ x >= 0 /\ x <= 1023
    BY <2>3, SMT
  <2>7. y \in Int /\ y >= 0 /\ y <= 65535
    BY <2>4, SMT
  <2>8. Pair(high, low) = x * 1024 + y + 65536
    BY SMT DEF Pair
  <2> HIDE DEF x, y
  <2>9. Pair(units[pos], low) \in Chars
    BY <2>5, <2>6, <2>7, <2>8, SMT DEF Chars
  <2>10. Pair(units[pos], low)
           = IF CharLength(units[pos]) = 1 THEN units[pos] ELSE Pair(units[pos], low)
    BY <1>8, Zenon
  <2>11. enc = "utf16" /\ phase # "decoded"
    BY <1>1
  <2> QED BY ONLY <1>2, <1>4, <1>5, <2>1, <2>9, <2>10, <2>11, Zenon
<1> QED BY <1>7, <1>8

LEMMA EndsDo ==
  ASSUME Decoder, MeetZero \/ EndSource
  PROVE  /\ phase \in {"decoding", "again"}
         /\ pos > Len(units) \/ units[pos] = 0
         /\ IF phase = "decoding" THEN phase' = "decoded" /\ sourceText' = text
                                  ELSE phase' = "done" /\ UNCHANGED sourceText
         /\ UNCHANGED <<enc, units, pos, state, codep, text, source, sourceEnc, sized>>
         /\ \/ /\ read' = pos /\ (state # 0 \/ pos <= Len(units))
               /\ ~Unterminated => pos <= Len(units) + 1
            \/ read' = read /\ state = 0 /\ pos > Len(units)
<1>1. pos \in Nat \ {0} /\ Len(units) \in Nat
  BY SMT DEF Decoder, Typed
<1>2. phase \in {"decoding", "again"} /\ TextEnds
  BY SMT DEF MeetZero, EndSource, Decoding
<1>3. pos > Len(units) \/ units[pos] = 0
  <2>1. CASE MeetZero
    <3>1. 0 \in Readable(pos)
      BY <2>1, Zenon DEF MeetZero
    <3>2. pos <= Len(units) => Readable(pos) = {units[pos]}
      BY <1>1, ReadableIs, Zenon DEF Decoder
    <3> QED BY <1>1, <3>1, <3>2, SMT
  <2>2. CASE EndSource
    BY <1>1, <2>2, SMT DEF EndSource, Inside
  <2> QED BY <2>1, <2>2
<1>4. /\ IF phase = "decoding" THEN phase' = "decoded" /\ sourceText' = text
                               ELSE phase' = "done" /\ UNCHANGED sourceText
      /\ UNCHANGED <<enc, units, pos, state, codep, text, source, sourceEnc, sized>>
  BY <1>2, SMT DEF TextEnds
<1>5. \/ /\ read' = pos /\ (state # 0 \/ pos <= Len(units))
         /\ ~Unterminated => pos <= Len(units) + 1
      \/ read' = read /\ state = 0 /\ pos > Len(units)
  <2>1. CASE MeetZero
    <3>1. read' = pos /\ (state # 0 \/ pos <= Len(units))
      BY <2>1, SMT DEF MeetZero, ACCEPT, Inside
    <3>2. CASE pos <= Len(units)
      BY <1>1, <3>1, <3>2, SMT
    <3>3. CASE state # 0
      <4>1. enc = "utf8" /\ (~Unterminated => pos <= Len(units) + 1)
        BY <3>3, SMT DEF Decoder, Typed, Cursor
      <4> QED BY <3>1, <3>3, <4>1, SMT
    <3> QED BY <3>1, <3>2, <3>3, SMT
  <2>2. CASE EndSource
    BY <1>1, <2>2, SMT DEF EndSource, ACCEPT, Inside
  <2> QED BY <2>1, <2>2
<1> QED BY <1>2, <1>3, <1>4, <1>5, SMT

LEMMA Strings ==
  ASSUME NEW S, NEW m \in Nat
  PROVE  UNION {[1 .. n -> S] : n \in 0 .. m} \subseteq Seq(S)
<1> SUFFICES ASSUME NEW n \in 0 .. m, NEW s \in [1 .. n -> S] PROVE s \in Seq(S)
  BY Zenon
<1>1. n \in Nat
  OBVIOUS
<1> QED BY <1>1

LEMMA InitDecoder ==
  ASSUME Init
  PROVE  Decoder
<1>1. enc \in {"utf8", "utf16"} /\ units \in Seq(UnitsOf(enc))
  <2> DEFINE A == UNION {[1 .. n -> Bytes] : n \in 0 .. MaxBytes}
             B == UNION {[1 .. n -> Units] : n \in 0 .. MaxUnits}
  <2>1. Sources = ((A \cup Numerals) \X {"utf8"}) \cup (B \X {"utf16"})
    BY ONLY SMT DEF Sources
  <2>2. MaxBytes \in Nat /\ MaxUnits \in Nat
    BY ONLY EncodingAssumption, Zenon
  <2>3. A \subseteq Seq(Bytes) /\ B \subseteq Seq(Units)
    BY ONLY <2>2, Strings, Zenon
  <2> HIDE DEF A, B
  <2>4. PICK s \in Sources : units = s[1] /\ enc = s[2]
    <3>1. Init
      OBVIOUS
    <3> QED BY ONLY <3>1, Zenon DEF Init
  <2>5. \/ units \in A \cup Numerals /\ enc = "utf8"
        \/ units \in B /\ enc = "utf16"
    <3>1. s \in (A \cup Numerals) \X {"utf8"} \/ s \in B \X {"utf16"}
      BY ONLY <2>1, <2>4, Zenon
    <3>2. CASE s \in (A \cup Numerals) \X {"utf8"}
      <4>1. PICK a \in A \cup Numerals, e \in {"utf8"} : s = <<a, e>>
        BY ONLY <3>2, SMT
      <4>2. s[1] = a /\ s[2] = e
        BY ONLY <4>1
      <4> QED BY ONLY <2>4, <4>1, <4>2, SMT
    <3>3. CASE s \in B \X {"utf16"}
      BY ONLY <2>4, <3>3, SMT
    <3> QED BY ONLY <3>1, <3>2, <3>3, Zenon
  <2> DEFINE S == UnitsOf("utf8")
             T == UnitsOf("utf16")
  <2>6. Bytes \subseteq S /\ Numerals \subseteq Seq(S) /\ Units \subseteq T
    BY ONLY EncodingAssumption, Zenon
  <2> HIDE DEF S, T
  <2>8. Seq(Bytes) \subseteq Seq(S) /\ Seq(Units) \subseteq Seq(T)
    BY ONLY <2>6, SMT
  <2>9. CASE units \in A \cup Numerals /\ enc = "utf8"
    <3>1. units \in Seq(S)
      BY ONLY <2>3, <2>6, <2>8, <2>9, Zenon
    <3> QED BY ONLY <2>9, <3>1, Zenon DEF S
  <2>10. CASE units \in B /\ enc = "utf16"
    <3>1. units \in Seq(T)
      BY ONLY <2>3, <2>8, <2>10, Zenon
    <3> QED BY ONLY <2>10, <3>1, Zenon DEF T
  <2> QED BY ONLY <2>5, <2>9, <2>10, Zenon
<1>2. /\ sourceText = <<>> /\ text = <<>> /\ pos = 1 /\ read = 0 /\ state = 0 /\ codep = 0
      /\ phase = "decoding"
  <2>1. Init
    OBVIOUS
  <2> QED BY ONLY <2>1, Zenon DEF Init
<1>3. Typed
  <2>1. state \in States /\ Bits(state, codep)
    BY <1>2, SMT DEF States, Bits
  <2>2. text \in Seq(Chars) /\ sourceText \in Seq(Chars)
    BY <1>2, SMT
  <2> QED BY ONLY <1>1, <1>2, <2>1, <2>2, SMT DEF Typed
<1>4. Len(units) \in Nat
  BY <1>1, SMT
<1>5. Cursor
  BY <1>2, <1>4, SMT DEF Cursor
<1>6. DecodesScalars
  BY <1>2, SMT DEF DecodesScalars
<1> QED BY <1>3, <1>5, <1>6 DEF Decoder

\* The bytes that a first byte promises are those that its state waits for.
LEMMA RestOfFirst ==
  ASSUME NEW b \in 1 .. 255, DecodeStep(0, b) \notin {0, 1}
  PROVE  Rest(DecodeStep(0, b)) = CharSize(b, "utf8") - 1
<1>1. b \in Byte /\ b \in Int /\ b >= 1 /\ b <= 255
  BY SMT DEF Byte
<1>2. \/ b \in 194..223 /\ DecodeStep(0, b) = 2
      \/ b \in 224..239 /\ DecodeStep(0, b) \in {3, 4, 5}
      \/ b \in 240..244 /\ DecodeStep(0, b) \in {6, 7, 8}
  BY <1>1, FirstByte, SMT
<1>3. /\ b \in 194..223 => CharSize(b, "utf8") = 2
      /\ b \in 224..239 => CharSize(b, "utf8") = 3
      /\ b \in 240..244 => CharSize(b, "utf8") = 4
  BY <1>1, SMT DEF CharSize
<1>4. /\ Rest(2) = 1
      /\ \A s \in {3, 4, 5} : Rest(s) = 2
      /\ \A s \in {6, 7, 8} : Rest(s) = 3
  BY SMT DEF Rest
<1> QED BY <1>2, <1>3, <1>4, SMT

\* One that goes on continues the character, and leaves one less.
LEMMA RestOfFurther ==
  ASSUME NEW st \in States \ {0}, NEW b \in 1 .. 255, DecodeStep(st, b) \notin {0, 1}
  PROVE  b \in Continuation /\ Rest(DecodeStep(st, b)) = Rest(st) - 1
<1>1. b \in Byte
  BY SMT DEF Byte
<1>2. Accepts(st, b) /\ DecodeStep(st, b) = After(st)
  BY <1>1, FurtherByte, SMT
<1>3. b \in Continuation
  BY <1>2, SMT DEF Accepts, TailBytes, Continuation
<1>4. Rest(After(st)) = Rest(st) - 1
  BY SMT DEF Rest, After, States
<1> QED BY <1>2, <1>3, <1>4

\* In every state but the first there is a byte to come.
LEMMA RestIs ==
  ASSUME NEW st \in States \ {0}
  PROVE  Rest(st) \in 1 .. 3
BY SMT DEF Rest, States

\* A byte behind the end is read only to complete a character.
LEMMA ReadsToComplete ==
  ASSUME Decoder, Unterminated, enc = "utf8", state # 0 \/ pos <= Len(units),
         pos > Len(units)
  PROVE  \E i \in Nat : Reaches(units, enc, i, pos, Len(units))
<1>1. pos \in Nat /\ Len(units) \in Nat /\ state \in States \ {0} /\ pos > Len(units)
  BY SMT DEF Decoder, Typed
<1>2. PICK i \in Nat : i < pos /\ Reaches(units, enc, i, pos - 1 + Rest(state), pos - 1)
  BY <1>1, SMT DEF Decoder, Cursor
<1>3. Rest(state) \in 1 .. 3
  BY <1>1, RestIs
<1>4. /\ i \in 1 .. Len(units)
      /\ pos - 1 + Rest(state) <= i + CharSize(units[i], enc) - 1
      /\ \A k \in i + 1 .. Len(units) : k <= pos - 1 => units[k] \in Continuation
  BY ONLY <1>2, Zenon DEF Reaches
<1>5. CharSize(units[i], enc) \in Int
  BY SMT DEF CharSize, CharLength
<1>6. pos <= i + CharSize(units[i], enc) - 1
  BY ONLY <1>1, <1>2, <1>3, <1>4, <1>5, SMT
<1>7. \A k \in i + 1 .. Len(units) : units[k] \in Continuation
  BY ONLY <1>1, <1>2, <1>4, SMT
<1> QED BY ONLY <1>2, <1>4, <1>6, <1>7, Zenon DEF Reaches

LEMMA CursorUtf8 ==
  ASSUME Decoder, Utf8Byte
  PROVE  Cursor'
<1>1. /\ enc = "utf8" /\ phase # "decoded" /\ (state # 0 \/ pos <= Len(units))
      /\ pos \in Nat \ {0} /\ Len(units) \in Nat /\ state \in States
  BY ReadByteDoes, SMT DEF Decoder, Typed
<1>2. PICK b \in 1 .. 255 : b \in Readable(pos) /\ ByteRead(b)
  BY ReadByteDoes, Zenon
<1>3. /\ read' = pos /\ pos' = pos + 1
      /\ UNCHANGED <<enc, units, phase, sized>>
      /\ Rejects(b) \/ LeadsOn(b) \/ Completes(b)
  BY <1>2, Zenon DEF ByteRead
<1>4. Unterminated' = Unterminated
  BY ONLY <1>3, SMT DEF Unterminated
<1>5. CASE ~Unterminated
  <2>1. pos <= Len(units)
    BY <1>1, <1>5, Utf8ByteDoes, SMT
  <2> QED BY ONLY <1>1, <1>3, <1>4, <1>5, <2>1, SMT DEF Cursor
<1>6. CASE Unterminated
  <2>1. ASSUME pos > Len(units) PROVE \E i \in Nat : Reaches(units, enc, i, pos, Len(units))
    BY <1>1, <1>6, <2>1, ReadsToComplete, Zenon
  <2>2. ASSUME state' # 0
        PROVE  \E i \in Nat : i < pos' /\ Reaches(units, enc, i, pos' - 1 + Rest(state'), pos' - 1)
    <3>1. state' = DecodeStep(state, b) /\ state' \notin {0, 1}
      BY <1>3, <2>2, SMT DEF Rejects, LeadsOn, Completes, Leads
    <3>2. pos' - 1 = pos
      BY ONLY <1>1, <1>3, SMT
    <3>3. CASE state = 0
      <4>1. pos \in 1 .. Len(units) /\ b = units[pos]
        BY <1>1, <1>2, <3>3, ReadableIs, SMT DEF Decoder
      <4>2. Rest(state') = CharSize(units[pos], "utf8") - 1
        BY <3>1, <3>3, <4>1, RestOfFirst, Zenon
      <4>3. CharSize(units[pos], enc) \in Int
        BY SMT DEF CharSize, CharLength
      <4>4. pos + Rest(state') <= pos + CharSize(units[pos], enc) - 1
        BY ONLY <1>1, <4>2, <4>3, SMT
      <4>5. \A k \in pos + 1 .. Len(units) : k <= pos => units[k] \in Continuation
        BY ONLY <1>1, SMT
      <4>6. Reaches(units, enc, pos, pos' - 1 + Rest(state'), pos' - 1)
        BY ONLY <3>2, <4>1, <4>4, <4>5, Zenon DEF Reaches
      <4> QED BY ONLY <1>1, <1>3, <4>6, SMT
    <3>4. CASE state # 0
      <4>1. PICK i \in Nat : i < pos /\ Reaches(units, enc, i, pos - 1 + Rest(state), pos - 1)
        BY <1>1, <1>6, <3>4, Zenon DEF Decoder, Cursor
      <4>2. b \in Continuation /\ Rest(state') = Rest(state) - 1
        <5>1. state \in States \ {0} /\ DecodeStep(state, b) \notin {0, 1}
          BY ONLY <1>1, <3>1, <3>4, SMT
        <5>2. b \in Continuation /\ Rest(DecodeStep(state, b)) = Rest(state) - 1
          BY ONLY <5>1, b \in 1 .. 255, RestOfFurther, Zenon
        <5> QED BY <3>1, <5>2, Zenon
      <4>3. Rest(state) \in 1 .. 3
        BY <1>1, <3>4, RestIs, SMT
      <4>4. /\ i \in 1 .. Len(units)
            /\ pos - 1 + Rest(state) <= i + CharSize(units[i], enc) - 1
            /\ \A k \in i + 1 .. Len(units) : k <= pos - 1 => units[k] \in Continuation
        BY ONLY <4>1, Zenon DEF Reaches
      <4>5. pos + Rest(state') = pos - 1 + Rest(state)
        BY ONLY <1>1, <4>2, <4>3, SMT
      <4>6. ASSUME NEW k \in i + 1 .. Len(units), k <= pos PROVE units[k] \in Continuation
        <5>1. CASE k <= pos - 1
          BY ONLY <4>4, <5>1, Zenon
        <5>2. CASE k = pos
          <6>1. b = units[pos]
            BY <1>1, <1>2, <5>2, ReadableIs, SMT DEF Decoder
          <6> QED BY <4>2, <5>2, <6>1
        <5>3. k \in Int
          OBVIOUS
        <5> QED BY ONLY <1>1, <4>6, <5>1, <5>2, <5>3, SMT
      <4>7. Reaches(units, enc, i, pos' - 1 + Rest(state'), pos' - 1)
        BY ONLY <3>2, <4>4, <4>5, <4>6, Zenon DEF Reaches
      <4> QED BY ONLY <1>1, <1>3, <4>1, <4>7, SMT
    <3> QED BY <3>3, <3>4
  <2> QED BY ONLY <1>1, <1>3, <1>4, <1>6, <2>1, <2>2, SMT DEF Cursor
<1> QED BY <1>5, <1>6

LEMMA CursorEnds ==
  ASSUME Decoder, MeetZero \/ EndSource
  PROVE  Cursor'
<1>1. /\ phase \in {"decoding", "again"}
      /\ pos > Len(units) \/ units[pos] = 0
      /\ phase' = IF phase = "decoding" THEN "decoded" ELSE "done"
      /\ UNCHANGED <<enc, units, pos, state, sized>>
      /\ \/ /\ read' = pos /\ (state # 0 \/ pos <= Len(units))
            /\ ~Unterminated => pos <= Len(units) + 1
         \/ read' = read /\ state = 0 /\ pos > Len(units)
  BY EndsDo, Zenon
<1>2. Unterminated' = Unterminated
  BY ONLY <1>1, SMT DEF Unterminated
<1>3. /\ pos \in Nat \ {0} /\ read \in Nat /\ Len(units) \in Nat
      /\ enc \in {"utf8", "utf16"} /\ (enc = "utf16" => state = 0) /\ Cursor
  BY SMT DEF Decoder, Typed
<1>4. CASE read' = read
  BY ONLY <1>1, <1>2, <1>3, <1>4, SMT DEF Cursor
<1>5. CASE /\ read' = pos /\ (state # 0 \/ pos <= Len(units))
           /\ ~Unterminated => pos <= Len(units) + 1
  <2>1. ASSUME Unterminated, pos > Len(units)
        PROVE  \E i \in Nat : Reaches(units, enc, i, pos, Len(units))
    <3>1. enc = "utf8"
      BY ONLY <1>3, <1>5, <2>1, SMT
    <3> QED BY <1>5, <2>1, <3>1, ReadsToComplete, Zenon
  <2> QED BY ONLY <1>1, <1>2, <1>3, <1>5, <2>1, SMT DEF Cursor
<1> QED BY <1>1, <1>4, <1>5

LEMMA DecoderStep ==
  ASSUME Decoder, [Next]_vars
  PROVE  Decoder'
<1> DEFINE S == UnitsOf(enc)
<1>1. /\ enc \in {"utf8", "utf16"} /\ phase \in {"decoding", "decoded", "again", "done"}
      /\ units \in Seq(S) /\ pos \in Nat \ {0} /\ read \in Nat
      /\ text \in Seq(Chars) /\ sourceText \in Seq(Chars)
      /\ enc = "utf8" => state \in States /\ Bits(state, codep)
      /\ enc = "utf16" => state = 0 /\ codep = 0
  BY Zenon DEF Decoder, Typed
<1>2. enc = "utf8" => text \in Seq(Scalars)
  BY Zenon DEF Decoder, DecodesScalars
<1>3. Len(units) \in Nat
  BY <1>1, SMT
<1>4. Bits(0, 0) /\ 0 \in States
  BY SMT DEF Bits, States
<1>5. CASE Utf8Byte
  <2>8. PICK b \in 1 .. 255 : b \in Readable(pos) /\ ByteRead(b)
    BY <1>5, ReadByteDoes, Zenon
  <2>9. enc = "utf8"
    BY <1>5, ReadByteDoes, Zenon
  <2>1. /\ Rejects(b) \/ LeadsOn(b) \/ Completes(b)
        /\ read' = pos /\ pos' = pos + 1
        /\ enc = "utf8"
        /\ UNCHANGED <<enc, units, phase, source, sourceEnc, sourceText>>
    BY <2>8, <2>9, Zenon DEF ByteRead
  <2>2. state \in States /\ Bits(state, codep) /\ text \in Seq(Scalars)
    BY <1>1, <1>2, <2>1
  <2>3. state' \in States /\ Bits(state', codep') /\ text' \in Seq(Scalars)
    <3>1. CASE Rejects(b)
      <4>1. text' = Append(text, 65533) /\ state' = 0 /\ codep' = 0 /\ 65533 \in Scalars
        BY <3>1, ScalarsAreChars, SMT DEF Rejects
      <4> QED BY ONLY <1>4, <2>2, <4>1, SMT
    <3>2. CASE LeadsOn(b)
      <4>1. Leads(state, codep, b, state', codep') /\ state' # 0 /\ text' = text
        BY <3>2, Zenon DEF LeadsOn
      <4>2. state' \in States /\ Bits(state', codep')
        BY ONLY <2>2, <2>8, <4>1, Utf8Step, Zenon
      <4> QED BY <2>2, <4>1, <4>2, SMT
    <3>3. CASE Completes(b)
      <4>1. PICK c : Leads(state, codep, b, 0, c)
                     /\ text' = Append(text, c) /\ state' = 0 /\ codep' = 0
        BY <3>3, Zenon DEF Completes
      <4>2. c \in Scalars
        BY ONLY <2>2, <2>8, <4>1, Utf8Step, Zenon
      <4> QED BY ONLY <1>4, <2>2, <4>1, <4>2, SMT
    <3> QED BY <2>1, <3>1, <3>2, <3>3, Zenon
  <2>4. text' \in Seq(Chars)
    BY <2>3, ScalarsAreChars, SMT
  <2>5. Typed'
    BY ONLY <1>1, <2>1, <2>3, <2>4, SMT DEF Typed
  <2>6. Cursor'
    BY <1>5, CursorUtf8, Zenon
  <2>7. DecodesScalars'
    BY <2>3 DEF DecodesScalars
  <2> QED BY <2>5, <2>6, <2>7 DEF Decoder
<1>6. CASE Utf16Char
  <2>1. /\ enc = "utf16" /\ pos \in 1..Len(units) /\ units[pos] # 0
        /\ \E c \in Chars : text' = Append(text, c)
        /\ CharLength(units[pos]) \in {1, 2}
        /\ read' = pos + CharLength(units[pos]) - 1 /\ pos' = pos + CharLength(units[pos])
        /\ UNCHANGED <<enc, units, state, codep, phase, source, sourceEnc, sourceText, sized>>
        /\ phase # "decoded"
    BY <1>6, Utf16CharDoes, Zenon
  <2>2. text' \in Seq(Chars)
    BY <1>1, <2>1, SMT
  <2> DEFINE n == CharLength(units[pos])
  <2>3. n \in {1, 2} /\ read' = pos + n - 1 /\ pos' = pos + n
    BY <2>1
  <2> HIDE DEF n
  <2>4. read' \in Nat /\ pos' \in Nat \ {0} /\ read' <= Len(units) + 1 /\ pos' <= Len(units) + 2
    BY ONLY <1>3, <2>1, <2>3, SMT
  <2>5. Typed'
    BY ONLY <1>1, <2>1, <2>2, <2>4, SMT DEF Typed
  <2>6. Cursor'
    <3>1. Unterminated' = Unterminated
      BY ONLY <2>1, SMT DEF Unterminated
    <3>2. ASSUME read' > Len(units) PROVE Reaches(units, enc, pos, read', Len(units))
      <4>1. pos = Len(units) /\ read' <= pos + n - 1
        BY ONLY <1>3, <2>1, <2>3, <3>2, SMT
      <4>2. CharSize(units[pos], enc) = n
        BY ONLY <2>1, Zenon DEF CharSize, n
      <4> QED BY ONLY <1>3, <2>1, <4>1, <4>2, SMT DEF Reaches
    <3>3. pos \in Nat
      BY <1>1, SMT
    <3> QED BY ONLY <2>1, <2>4, <3>1, <3>2, <3>3, SMT DEF Cursor
  <2>7. DecodesScalars'
    BY <2>1, SMT DEF DecodesScalars
  <2> QED BY <2>5, <2>6, <2>7 DEF Decoder
<1>7. CASE MeetZero \/ EndSource
  <2>1. /\ phase \in {"decoding", "again"}
        /\ pos > Len(units) \/ units[pos] = 0
        /\ IF phase = "decoding" THEN phase' = "decoded" /\ sourceText' = text
                                 ELSE phase' = "done" /\ UNCHANGED sourceText
        /\ UNCHANGED <<enc, units, pos, state, codep, text, source, sourceEnc>>
        /\ read' \in {pos, read}
    BY <1>7, EndsDo, Zenon
  <2>2. Typed'
    BY ONLY <1>1, <2>1, SMT DEF Typed
  <2>3. Cursor'
    BY <1>7, CursorEnds, Zenon
  <2>4. DecodesScalars'
    BY ONLY <1>2, <2>1, SMT DEF DecodesScalars
  <2> QED BY <2>2, <2>3, <2>4 DEF Decoder
<1>8. ASSUME NEW to \in {"utf8", "utf16"}, EncodeText(to) PROVE Decoder'
  <2>1. /\ enc' = to /\ units' = Encoded(text, to)
        /\ pos' = 1 /\ read' = 0 /\ state' = 0 /\ codep' = 0 /\ text' = <<>>
        /\ phase' = "again" /\ sourceText' = sourceText
    BY <1>8, SMT DEF EncodeText, ACCEPT, history
  <2>7. ~Unterminated'
    BY ONLY <2>1, SMT DEF Unterminated
  <2>2. units' \in Seq(UnitsOf(to))
    <3>1. 1 \in Chars
      BY SMT DEF Chars
    <3> QED BY <1>1, <2>1, <3>1, EncodedAppend, Zenon
  <2>3. Len(units') \in Nat /\ text' \in Seq(Chars) /\ text' \in Seq(Scalars)
    BY <2>1, <2>2, SMT
  <2>4. Typed'
    BY ONLY <1>1, <1>4, <1>8, <2>1, <2>2, <2>3, SMT DEF Typed
  <2>5. Cursor'
    BY ONLY <2>1, <2>3, <2>7, SMT DEF Cursor
  <2>6. DecodesScalars'
    BY <2>3 DEF DecodesScalars
  <2> QED BY <2>4, <2>5, <2>6 DEF Decoder
<1>9. CASE UNCHANGED vars
  <2>1. UNCHANGED <<enc, units, pos, read, state, codep, text, phase, sourceText, sized>>
    BY <1>9, Zenon DEF vars
  <2>5. Unterminated' = Unterminated
    BY ONLY <2>1, Zenon DEF Unterminated
  <2>2. Typed'
    BY ONLY <1>1, <2>1, SMT DEF Typed
  <2>3. Cursor'
    BY ONLY Decoder, <2>1, <2>5, Zenon DEF Decoder, Cursor
  <2>4. DecodesScalars'
    BY ONLY <1>2, <2>1, SMT DEF DecodesScalars
  <2> QED BY <2>2, <2>3, <2>4 DEF Decoder
<1> QED BY <1>5, <1>6, <1>7, <1>8, <1>9, Zenon DEF Next

\* The decoder stays inside of its text and its terminator, or where there is none inside
\* of the character that ends the text, and the bits it holds are those of a sequence that
\* can still end in a scalar value: the table rejects the others at the first byte that
\* tells (DecodeUTF8).
THEOREM DecoderInvariant == Spec => []Decoder
<1>1. Init => Decoder
  BY InitDecoder
<1>2. Decoder /\ [Next]_vars => Decoder'
  BY DecoderStep
<1> QED BY <1>1, <1>2, PTL DEF Spec

\* A source is read to its end or to a zero inside of it.  Behind its terminator nothing
\* is read, and behind a source without one no more than would complete a character whose
\* first unit, and nothing but continuations of it, ends the source: Next and _decodeFrom
\* on every text, however malformed.
THEOREM SourceIsRead == Spec => []ReadsToTheEnd
<1>1. Decoder => ReadsToTheEnd
  <2> SUFFICES ASSUME Decoder PROVE ReadsToTheEnd
    OBVIOUS
  <2>1. units \in Seq(UnitsOf(enc)) /\ enc \in {"utf8", "utf16"} /\ Cursor
    BY Zenon DEF Decoder, Typed
  <2>2. DOMAIN units = 1 .. Len(units) /\ Len(units) \in Nat
    BY <2>1, SMT
  <2>3. ASSUME NEW i \in Nat, Reaches(units, enc, i, read, Len(units))
        PROVE  /\ i \in DOMAIN units
               /\ read <= i + CharSize(units[i], enc) - 1
               /\ \A k \in i + 1 .. Len(units) : units[k] \in Continuation
    BY ONLY <2>2, <2>3, SMT DEF Reaches
  <2>4. ~Unterminated => read <= Len(units) + 1
    BY <2>1, Zenon DEF Cursor
  <2>5. phase = "decoded" => pos > Len(units) \/ units[pos] = 0
    BY <2>1, Zenon DEF Cursor
  <2>6. Unterminated /\ read > Len(units) => \E i \in Nat : Reaches(units, enc, i, read, Len(units))
    BY <2>1, Zenon DEF Cursor
  <2> QED BY <2>3, <2>4, <2>5, <2>6, Zenon DEF ReadsToTheEnd
<1> QED BY <1>1, DecoderInvariant, PTL

\* The UTF-8 decoder's table lets no surrogate pass and nothing beyond U+10FFFF.
THEOREM DecodesOnlyScalars == Spec => []ScalarsOnly
<1>1. Decoder => ScalarsOnly
  <2> SUFFICES ASSUME Decoder, enc = "utf8", NEW i \in DOMAIN text PROVE IsScalar(text[i])
    BY Zenon DEF ScalarsOnly
  <2>1. text \in Seq(Scalars)
    BY Zenon DEF Decoder, DecodesScalars
  <2>2. text[i] \in Scalars
    BY <2>1, SMT
  <2> QED BY ONLY <2>2, ScalarsAreChars, SMT
<1> QED BY <1>1, DecoderInvariant, PTL

-----------------------------------------------------------------------------
(* Decoding what was encoded.                                              *)

\* The decoder has read d bytes of c, but not all.
Within(c, d, st, cp) ==
  LET l == Len(Utf8Of(c))
  IN  /\ d \in 1 .. l - 1
      /\ d = l - 1 => st = 2 /\ cp = c \div 64
      /\ d = l - 2 => /\ cp = c \div 4096
                      /\ l = 4 => st = 3
                      /\ l = 3 => /\ cp = 0 => st = 4
                                  /\ cp = 13 => st = 5
                                  /\ cp \notin {0, 13} => st = 3
      /\ d = l - 3 => /\ cp = c \div 262144
                      /\ cp = 0 => st = 6
                      /\ cp = 4 => st = 8
                      /\ cp \notin {0, 4} => st = 7

\* Byte b leads from state st and bits cp to a state and bits within c, at d, or
\* is the last of c.
On(c, d, st, cp, b) ==
  /\ d < Len(Utf8Of(c)) => /\ DecodeStep(st, b) \notin {0, 1}
                           /\ Within(c, d, DecodeStep(st, b), Accumulate(st, cp, b))
  /\ d = Len(Utf8Of(c)) => DecodeStep(st, b) = 0 /\ Accumulate(st, cp, b) = c

LEMMA TailByte ==
  ASSUME NEW st \in States \ {0}, NEW x \in Nat, NEW b, b = 128 + (x % 64), Accepts(st, b)
  PROVE  DecodeStep(st, b) = After(st) /\ Accumulate(st, x \div 64, b) = x
<1>1. b \in Byte /\ b \in TailBytes
  BY SMT DEF Accepts, TailBytes, Byte
<1>2. DecodeStep(st, b) = After(st)
  BY <1>1, FurtherByte, SMT
<1>3. x \div 64 \in Nat
  BY SMT
<1>4. Accumulate(st, x \div 64, b) = (x \div 64) * 64 + (b - 128)
  BY <1>1, <1>3, FurtherBits, SMT
<1>5. (x \div 64) * 64 + (x % 64) = x
  BY SMT
<1>6. b - 128 = x % 64
  BY SMT
<1> QED BY ONLY <1>2, <1>4, <1>5, <1>6, SMT

\* The last byte of c, the one before it and the third last.
LEMMA LastOf ==
  ASSUME NEW c \in Nat
  PROVE  DecodeStep(2, 128 + (c % 64)) = 0 /\ Accumulate(2, c \div 64, 128 + (c % 64)) = c
<1> DEFINE b == 128 + (c % 64)
<1>1. b \in TailBytes
  BY SMT DEF TailBytes
<1>2. Accepts(2, b) /\ 2 \in States \ {0} /\ After(2) = 0
  BY <1>1, SMT DEF Accepts, States, After
<1>3. b = 128 + (c % 64)
  OBVIOUS
<1> HIDE DEF b
<1>4. DecodeStep(2, b) = After(2) /\ Accumulate(2, c \div 64, b) = c
  BY ONLY <1>2, <1>3, c \in Nat, TailByte, Zenon
<1> QED BY <1>2, <1>3, <1>4, SMT

\* Characters of two bytes.
LEMMA OnInTwo ==
  ASSUME NEW c \in Scalars, c > 127, c <= 2047
  PROVE  /\ On(c, 1, 0, 0, Utf8Of(c)[1])
         /\ \A st, cp : Within(c, 1, st, cp) => On(c, 2, st, cp, Utf8Of(c)[2])
<1>1. c \in Nat
  BY SMT DEF Scalars
<1>2. Utf8Of(c) = <<192 + c \div 64, 128 + (c % 64)>>
  BY <1>1, SMT DEF Utf8Of
<1>3. Len(Utf8Of(c)) = 2 /\ Utf8Of(c)[1] = 192 + c \div 64 /\ Utf8Of(c)[2] = 128 + (c % 64)
  BY ONLY <1>2, SMT
<1>4. On(c, 1, 0, 0, Utf8Of(c)[1])
  <2> DEFINE b == 192 + c \div 64
  <2>1. b \in 194..223 /\ b - 192 = c \div 64 /\ b \in Byte
    BY <1>1, SMT DEF Byte
  <2>2. Utf8Of(c)[1] = b
    BY <1>3
  <2> HIDE DEF b
  <2>3. DecodeStep(0, b) = 2 /\ Accumulate(0, 0, b) = c \div 64
    BY <2>1, FirstByte, SMT
  <2>4. Within(c, 1, 2, c \div 64)
    BY ONLY <1>3, SMT DEF Within
  <2> QED BY ONLY <1>3, <2>2, <2>3, <2>4, SMT DEF On
<1>5. ASSUME NEW st, NEW cp, Within(c, 1, st, cp) PROVE On(c, 2, st, cp, Utf8Of(c)[2])
  <2>1. st = 2 /\ cp = c \div 64
    BY ONLY <1>3, <1>5, SMT DEF Within
  <2>2. DecodeStep(st, Utf8Of(c)[2]) = 0 /\ Accumulate(st, cp, Utf8Of(c)[2]) = c
    BY ONLY <1>1, <1>3, <2>1, LastOf, SMT
  <2> QED BY ONLY <1>3, <2>2, SMT DEF On
<1> QED BY ONLY <1>4, <1>5, Zenon

\* Characters of three.
LEMMA OnInThree ==
  ASSUME NEW c \in Scalars, c > 2047, c <= 65535
  PROVE  /\ On(c, 1, 0, 0, Utf8Of(c)[1])
         /\ \A st, cp : Within(c, 1, st, cp) => On(c, 2, st, cp, Utf8Of(c)[2])
         /\ \A st, cp : Within(c, 2, st, cp) => On(c, 3, st, cp, Utf8Of(c)[3])
<1>1. c \in Nat /\ (c < 55296 \/ c > 57343)
  BY SMT DEF Scalars
<1> DEFINE h == c \div 4096
           w == c \div 64
           m == 128 + (w % 64)
<1>2. Utf8Of(c) = <<224 + c \div 4096, 128 + ((c \div 64) % 64), 128 + (c % 64)>>
  BY <1>1, SMT DEF Utf8Of
<1>3. /\ Len(Utf8Of(c)) = 3 /\ Utf8Of(c)[1] = 224 + h /\ Utf8Of(c)[2] = m
      /\ Utf8Of(c)[3] = 128 + (c % 64)
  BY ONLY <1>2, SMT
<1>4. h \in 0..15 /\ w \in Nat /\ h = w \div 64
  BY <1>1, SMT
<1>5. m \in 128..191 /\ (h = 0 => m >= 160) /\ (h = 13 => m < 160)
  <2>1. m \in 128..191
    BY ONLY <1>4, SMT
  <2>2. w >= 32 /\ (w < 864 \/ w > 895)
    BY <1>1, SMT
  <2>3. h = 0 => w % 64 >= 32
    BY ONLY <1>4, <2>2, SMT
  <2>4. h = 13 => w % 64 < 32
    BY ONLY <1>4, <2>2, SMT
  <2> QED BY <1>4, <2>1, <2>3, <2>4, SMT
<1>6. c \div 64 = w /\ c \div 4096 = h /\ m = 128 + (w % 64)
  OBVIOUS
<1> HIDE DEF h, w, m
<1>7. On(c, 1, 0, 0, Utf8Of(c)[1])
  <2> DEFINE b == 224 + h
  <2>1. b \in Byte /\ Utf8Of(c)[1] = b /\ b - 224 = h
    BY <1>3, <1>4, SMT DEF Byte
  <2>2. CASE h = 0
    <3>1. DecodeStep(0, b) = 4 /\ Accumulate(0, 0, b) = 0
      BY <2>1, <2>2, FirstByte, SMT
    <3>2. Within(c, 1, 4, 0)
      BY ONLY <1>3, <1>6, <2>2, SMT DEF Within
    <3> QED BY ONLY <1>3, <2>1, <3>1, <3>2, SMT DEF On
  <2>3. CASE h = 13
    <3>1. DecodeStep(0, b) = 5 /\ Accumulate(0, 0, b) = 13
      BY <2>1, <2>3, FirstByte, SMT
    <3>2. Within(c, 1, 5, 13)
      BY ONLY <1>3, <1>6, <2>3, SMT DEF Within
    <3> QED BY ONLY <1>3, <2>1, <3>1, <3>2, SMT DEF On
  <2>4. CASE h \notin {0, 13}
    <3>1. b \in 225..239 /\ b # 237
      BY <1>4, <2>4, SMT
    <3>2. DecodeStep(0, b) = 3 /\ Accumulate(0, 0, b) = h
      BY <2>1, <3>1, FirstByte, SMT
    <3>3. Within(c, 1, 3, h)
      BY ONLY <1>3, <1>6, <2>4, SMT DEF Within
    <3> QED BY ONLY <1>3, <2>1, <3>2, <3>3, SMT DEF On
  <2> QED BY <2>2, <2>3, <2>4
<1>8. ASSUME NEW st, NEW cp, Within(c, 1, st, cp) PROVE On(c, 2, st, cp, Utf8Of(c)[2])
  <2>1. /\ cp = h
        /\ h = 0 => st = 4
        /\ h = 13 => st = 5
        /\ h \notin {0, 13} => st = 3
    BY ONLY <1>3, <1>6, <1>8, SMT DEF Within
  <2>2. st \in States \ {0} /\ Accepts(st, m) /\ After(st) = 2
    BY ONLY <1>5, <2>1, SMT DEF States, Accepts, TailBytes, After
  <2>3. DecodeStep(st, m) = 2 /\ Accumulate(st, cp, m) = w
    <3>1. DecodeStep(st, m) = After(st) /\ Accumulate(st, w \div 64, m) = w
      <4>1. w \in Nat /\ m = 128 + (w % 64)
        BY ONLY <1>4, <1>6, SMT
      <4> QED BY ONLY <2>2, <4>1, TailByte, SMT
    <3> QED BY ONLY <1>4, <2>1, <2>2, <3>1, SMT
  <2>4. Within(c, 2, 2, w)
    BY ONLY <1>3, <1>6, SMT DEF Within
  <2> QED BY ONLY <1>3, <2>3, <2>4, SMT DEF On
<1>9. ASSUME NEW st, NEW cp, Within(c, 2, st, cp) PROVE On(c, 3, st, cp, Utf8Of(c)[3])
  <2>1. st = 2 /\ cp = c \div 64
    BY ONLY <1>3, <1>9, SMT DEF Within
  <2>2. DecodeStep(st, Utf8Of(c)[3]) = 0 /\ Accumulate(st, cp, Utf8Of(c)[3]) = c
    BY ONLY <1>1, <1>3, <2>1, LastOf, SMT
  <2> QED BY ONLY <1>3, <2>2, SMT DEF On
<1> QED BY ONLY <1>7, <1>8, <1>9, Zenon

\* Characters of four.
LEMMA OnInFour ==
  ASSUME NEW c \in Scalars, c > 65535
  PROVE  /\ On(c, 1, 0, 0, Utf8Of(c)[1])
         /\ \A st, cp : Within(c, 1, st, cp) => On(c, 2, st, cp, Utf8Of(c)[2])
         /\ \A st, cp : Within(c, 2, st, cp) => On(c, 3, st, cp, Utf8Of(c)[3])
         /\ \A st, cp : Within(c, 3, st, cp) => On(c, 4, st, cp, Utf8Of(c)[4])
<1>1. c \in Nat /\ c <= 1114111
  BY SMT DEF Scalars
<1> DEFINE h == c \div 262144
           y == c \div 4096
           w == c \div 64
           l == 128 + (y % 64)
           m == 128 + (w % 64)
<1>2. Utf8Of(c) = <<240 + c \div 262144, 128 + ((c \div 4096) % 64),
                    128 + ((c \div 64) % 64), 128 + (c % 64)>>
  BY <1>1, SMT DEF Utf8Of
<1>3. /\ Len(Utf8Of(c)) = 4 /\ Utf8Of(c)[1] = 240 + h /\ Utf8Of(c)[2] = l
      /\ Utf8Of(c)[3] = m /\ Utf8Of(c)[4] = 128 + (c % 64)
  BY ONLY <1>2, SMT
<1>4. h \in 0..4 /\ y \in Nat /\ w \in Nat /\ h = y \div 64 /\ y = w \div 64
  BY <1>1, SMT
<1>5. l \in 128..191 /\ (h = 0 => l >= 144) /\ (h = 4 => l < 144)
  <2>1. l \in 128..191
    BY ONLY <1>4, SMT
  <2>2. y >= 16 /\ y <= 271
    BY <1>1, SMT
  <2>3. h = 0 => y % 64 >= 16
    BY ONLY <1>4, <2>2, SMT
  <2>4. h = 4 => y % 64 < 16
    BY ONLY <1>4, <2>2, SMT
  <2> QED BY <1>4, <2>1, <2>3, <2>4, SMT
<1>6. /\ c \div 64 = w /\ c \div 4096 = y /\ c \div 262144 = h
      /\ l = 128 + (y % 64) /\ m = 128 + (w % 64)
  BY ONLY SMT
<1> HIDE DEF h, y, w, l, m
<1>7. On(c, 1, 0, 0, Utf8Of(c)[1])
  <2> DEFINE b == 240 + h
  <2>1. b \in Byte /\ Utf8Of(c)[1] = b /\ b - 240 = h
    BY <1>3, <1>4, SMT DEF Byte
  <2>2. CASE h = 0
    <3>1. DecodeStep(0, b) = 6 /\ Accumulate(0, 0, b) = 0
      BY <2>1, <2>2, FirstByte, SMT
    <3>2. Within(c, 1, 6, 0)
      BY ONLY <1>3, <1>6, <2>2, SMT DEF Within
    <3> QED BY ONLY <1>3, <2>1, <3>1, <3>2, SMT DEF On
  <2>3. CASE h = 4
    <3>1. DecodeStep(0, b) = 8 /\ Accumulate(0, 0, b) = 4
      BY <2>1, <2>3, FirstByte, SMT
    <3>2. Within(c, 1, 8, 4)
      BY ONLY <1>3, <1>6, <2>3, SMT DEF Within
    <3> QED BY ONLY <1>3, <2>1, <3>1, <3>2, SMT DEF On
  <2>4. CASE h \notin {0, 4}
    <3>1. b \in 241..243
      BY <1>4, <2>4, SMT
    <3>2. DecodeStep(0, b) = 7 /\ Accumulate(0, 0, b) = h
      BY <2>1, <3>1, FirstByte, SMT
    <3>3. Within(c, 1, 7, h)
      BY ONLY <1>3, <1>6, <2>4, SMT DEF Within
    <3> QED BY ONLY <1>3, <2>1, <3>2, <3>3, SMT DEF On
  <2> QED BY <2>2, <2>3, <2>4
<1>8. ASSUME NEW st, NEW cp, Within(c, 1, st, cp) PROVE On(c, 2, st, cp, Utf8Of(c)[2])
  <2>1. /\ cp = h
        /\ h = 0 => st = 6
        /\ h = 4 => st = 8
        /\ h \notin {0, 4} => st = 7
    BY ONLY <1>3, <1>6, <1>8, SMT DEF Within
  <2>2. st \in States \ {0} /\ Accepts(st, l) /\ After(st) = 3
    BY ONLY <1>5, <2>1, SMT DEF States, Accepts, TailBytes, After
  <2>3. DecodeStep(st, l) = 3 /\ Accumulate(st, cp, l) = y
    <3>1. DecodeStep(st, l) = After(st) /\ Accumulate(st, y \div 64, l) = y
      <4>1. y \in Nat /\ l = 128 + (y % 64)
        BY ONLY <1>4, <1>6, SMT
      <4> QED BY ONLY <2>2, <4>1, TailByte, SMT
    <3> QED BY ONLY <1>4, <2>1, <2>2, <3>1, SMT
  <2>4. Within(c, 2, 3, y)
    BY ONLY <1>3, <1>6, SMT DEF Within
  <2> QED BY ONLY <1>3, <2>3, <2>4, SMT DEF On
<1>9. ASSUME NEW st, NEW cp, Within(c, 2, st, cp) PROVE On(c, 3, st, cp, Utf8Of(c)[3])
  <2>1. cp = y /\ st = 3
    BY ONLY <1>3, <1>6, <1>9, SMT DEF Within
  <2>2. m \in TailBytes
    BY ONLY <1>4, <1>6, SMT DEF TailBytes
  <2>3. st \in States \ {0} /\ Accepts(st, m) /\ After(st) = 2
    BY ONLY <2>1, <2>2, SMT DEF States, Accepts, After
  <2>4. DecodeStep(st, m) = 2 /\ Accumulate(st, cp, m) = w
    <3>1. DecodeStep(st, m) = After(st) /\ Accumulate(st, w \div 64, m) = w
      <4>1. w \in Nat /\ m = 128 + (w % 64)
        BY ONLY <1>4, <1>6, SMT
      <4> QED BY ONLY <2>3, <4>1, TailByte, SMT
    <3> QED BY ONLY <1>4, <2>1, <2>3, <3>1, SMT
  <2>5. Within(c, 3, 2, w)
    BY ONLY <1>3, <1>6, SMT DEF Within
  <2> QED BY ONLY <1>3, <2>4, <2>5, SMT DEF On
<1>10. ASSUME NEW st, NEW cp, Within(c, 3, st, cp) PROVE On(c, 4, st, cp, Utf8Of(c)[4])
  <2>1. st = 2 /\ cp = c \div 64
    BY ONLY <1>3, <1>10, SMT DEF Within
  <2>2. DecodeStep(st, Utf8Of(c)[4]) = 0 /\ Accumulate(st, cp, Utf8Of(c)[4]) = c
    BY ONLY <1>1, <1>3, <2>1, LastOf, SMT
  <2> QED BY ONLY <1>3, <2>2, SMT DEF On
<1> QED BY ONLY <1>7, <1>8, <1>9, <1>10, Zenon

\* What was encoded in UTF-8 is decoded byte by byte.
LEMMA OnInUtf8 ==
  ASSUME NEW c \in Scalars
  PROVE  /\ Len(Utf8Of(c)) \in Nat /\ Len(Utf8Of(c)) >= 1
         /\ On(c, 1, 0, 0, Utf8Of(c)[1])
         /\ \A d \in Nat : \A st, cp : Within(c, d, st, cp) => On(c, d + 1, st, cp, Utf8Of(c)[d + 1])
<1>1. c \in Nat /\ 1 <= c
  BY SMT DEF Scalars
<1> DEFINE u == Utf8Of(c)
<1>2. CASE c <= 127
  <2>1. Utf8Of(c) = <<c>>
    BY <1>1, <1>2, SMT DEF Utf8Of
  <2>2. Len(u) = 1 /\ u[1] = c /\ c \in Byte /\ c \in 0..127
    BY <1>1, <1>2, <2>1, SMT DEF Byte
  <2>3. DecodeStep(0, c) = 0 /\ Accumulate(0, 0, c) = c
    BY <2>2, FirstByte, SMT
  <2>4. On(c, 1, 0, 0, u[1])
    BY ONLY <2>2, <2>3, SMT DEF On
  <2>5. \A d \in Nat : \A st, cp : ~Within(c, d, st, cp)
    BY ONLY <2>2, SMT DEF Within
  <2> HIDE DEF u
  <2> QED BY ONLY <2>2, <2>4, <2>5, SMT DEF u
<1>3. CASE c > 127 /\ c <= 2047
  <2>1. Utf8Of(c) = <<192 + c \div 64, 128 + (c % 64)>>
    BY <1>1, <1>3, SMT DEF Utf8Of
  <2>2. Len(u) = 2
    BY <2>1, SMT
  <2>3. \A d \in Nat : \A st, cp : Within(c, d, st, cp) => d = 1
    BY ONLY <2>2, SMT DEF Within
  <2>4. /\ On(c, 1, 0, 0, u[1])
        /\ \A st, cp : Within(c, 1, st, cp) => On(c, 2, st, cp, u[2])
    BY <1>3, OnInTwo, SMT
  <2> HIDE DEF u
  <2> QED BY ONLY <2>2, <2>3, <2>4, SMT DEF u
<1>4. CASE c > 2047 /\ c <= 65535
  <2>1. Utf8Of(c) = <<224 + c \div 4096, 128 + ((c \div 64) % 64), 128 + (c % 64)>>
    BY <1>1, <1>4, SMT DEF Utf8Of
  <2>2. Len(u) = 3
    BY <2>1, SMT
  <2>3. \A d \in Nat : \A st, cp : Within(c, d, st, cp) => d \in {1, 2}
    BY ONLY <2>2, SMT DEF Within
  <2>4. /\ On(c, 1, 0, 0, u[1])
        /\ \A st, cp : Within(c, 1, st, cp) => On(c, 2, st, cp, u[2])
        /\ \A st, cp : Within(c, 2, st, cp) => On(c, 3, st, cp, u[3])
    BY <1>4, OnInThree, SMT
  <2> HIDE DEF u
  <2> QED BY ONLY <2>2, <2>3, <2>4, SMT DEF u
<1>5. CASE c > 65535
  <2>1. Utf8Of(c) = <<240 + c \div 262144, 128 + ((c \div 4096) % 64),
                      128 + ((c \div 64) % 64), 128 + (c % 64)>>
    BY <1>1, <1>5, SMT DEF Utf8Of
  <2>2. Len(u) = 4
    BY <2>1, SMT
  <2>3. \A d \in Nat : \A st, cp : Within(c, d, st, cp) => d \in {1, 2, 3}
    BY ONLY <2>2, SMT DEF Within
  <2>4. /\ On(c, 1, 0, 0, u[1])
        /\ \A st, cp : Within(c, 1, st, cp) => On(c, 2, st, cp, u[2])
        /\ \A st, cp : Within(c, 2, st, cp) => On(c, 3, st, cp, u[3])
        /\ \A st, cp : Within(c, 3, st, cp) => On(c, 4, st, cp, u[4])
    BY <1>5, OnInFour, SMT
  <2> HIDE DEF u
  <2> QED BY ONLY <2>2, <2>3, <2>4, SMT DEF u
<1> QED BY <1>1, <1>2, <1>3, <1>4, <1>5, SMT

\* What was encoded in UTF-16 is decoded character by character.
LEMMA InUtf16 ==
  ASSUME NEW c \in Scalars
  PROVE  /\ CharLength(Utf16Of(c)[1]) = Len(Utf16Of(c)) /\ Len(Utf16Of(c)) \in {1, 2}
         /\ Len(Utf16Of(c)) = 1 => Utf16Of(c)[1] = c
         /\ Len(Utf16Of(c)) = 2 => Pair(Utf16Of(c)[1], Utf16Of(c)[2]) = c
<1>1. c \in Nat /\ 1 <= c /\ c <= 1114111 /\ (c < 55296 \/ c > 57343)
  BY SMT DEF Scalars
<1>2. CASE c <= 65535
  <2>1. Utf16Of(c) = <<c>>
    BY <1>1, <1>2, SMT DEF Utf16Of
  <2>2. Len(Utf16Of(c)) = 1 /\ Utf16Of(c)[1] = c
    BY ONLY <2>1, SMT
  <2>3. c \div 1024 # 54
    BY ONLY <1>1, SMT
  <2>4. CharLength(c) = 1
    BY ONLY <2>3, SMT DEF CharLength
  <2> QED BY ONLY <2>2, <2>4, SMT
<1>3. CASE c > 65535
  <2> DEFINE q == c \div 1024
             r == c % 1024
             high == 55232 + q
             low == 56320 + r
  <2>1. Utf16Of(c) = <<high, low>>
    BY <1>1, <1>3, SMT DEF Utf16Of
  <2>2. q \in Int /\ q >= 64 /\ q <= 1087 /\ r \in 0..1023 /\ c = q * 1024 + r
    BY ONLY <1>1, <1>3, SMT
  <2> HIDE DEF q, r
  <2>3. high \in Int /\ high \div 1024 = 54
    BY ONLY <2>2, SMT
  <2>4. (high - 55296) % 65536 = q - 64 /\ (low - 56320) % 65536 = r
    BY ONLY <2>2, SMT
  <2> HIDE DEF high, low
  <2>5. Pair(high, low) = (q - 64) * 1024 + r + 65536
    BY ONLY <2>4, SMT DEF Pair
  <2>6. Pair(high, low) = c
    BY ONLY <2>2, <2>5, SMT
  <2>7. CharLength(high) = 2
    BY ONLY <2>3, SMT DEF CharLength
  <2>8. Len(Utf16Of(c)) = 2 /\ Utf16Of(c)[1] = high /\ Utf16Of(c)[2] = low
    BY ONLY <2>1, SMT
  <2> QED BY ONLY <2>6, <2>7, <2>8, SMT
<1> QED BY <1>1, <1>2, <1>3, SMT

\* The first k characters of t, encoded.
Heading(t, k, to) == Encoded(SubSeq(t, 1, k), to)

LEMMA HeadNext ==
  ASSUME NEW t \in Seq(Chars), NEW to \in {"utf8", "utf16"}
  PROVE  /\ Heading(t, 0, to) = <<>> /\ Heading(t, Len(t), to) = Encoded(t, to)
         /\ \A k \in 0 .. Len(t) : Heading(t, k, to) \in Seq(UnitsOf(to))
         /\ \A k \in 0 .. Len(t) - 1 :
               Heading(t, k + 1, to) = Heading(t, k, to) \o CharIn(t[k + 1], to)
<1>1. Len(t) \in Nat /\ 1 \in Chars
  BY SMT DEF Chars
<1>2. SubSeq(t, 1, 0) = <<>> /\ SubSeq(t, 1, Len(t)) = t
  <2> HIDE DEF Chars
  <2> QED BY <1>1, SMT
<1>3. \A k \in 0 .. Len(t) : SubSeq(t, 1, k) \in Seq(Chars)
  BY <1>1, SMT
<1>4. \A k \in 0 .. Len(t) - 1 :
         t[k + 1] \in Chars /\ SubSeq(t, 1, k + 1) = Append(SubSeq(t, 1, k), t[k + 1])
  BY <1>1, SMT
<1>5. Heading(t, 0, to) = <<>> /\ Heading(t, Len(t), to) = Encoded(t, to)
  <2>1. Encoded(<<>>, to) = <<>>
    BY ONLY <1>1, t \in Seq(Chars), to \in {"utf8", "utf16"}, EncodedAppend, Zenon
  <2> QED BY ONLY <1>2, <2>1, Zenon DEF Heading
<1>6. ASSUME NEW k \in 0 .. Len(t) PROVE Heading(t, k, to) \in Seq(UnitsOf(to))
  BY <1>1, <1>3, EncodedAppend, Zenon DEF Heading
<1>7. ASSUME NEW k \in 0 .. Len(t) - 1
      PROVE  Heading(t, k + 1, to) = Heading(t, k, to) \o CharIn(t[k + 1], to)
  <2>1. k \in 0 .. Len(t)
    BY <1>1, SMT
  <2>2. SubSeq(t, 1, k) \in Seq(Chars) /\ t[k + 1] \in Chars
        /\ SubSeq(t, 1, k + 1) = Append(SubSeq(t, 1, k), t[k + 1])
    BY <1>3, <1>4, <2>1, Zenon
  <2> QED BY <2>2, EncodedAppend, Zenon DEF Heading
<1> QED BY <1>5, <1>6, <1>7, Zenon

\* The text t has c behind n units, and a character is where those before it end.
Places(t, n, c, to) ==
  /\ n \in Nat /\ Len(c) \in Nat /\ n + Len(c) <= Len(Encoded(t, to))
  /\ \A j \in 1 .. Len(c) : Encoded(t, to)[n + j] = c[j]

LEMMA CharAt ==
  ASSUME NEW t \in Seq(Chars), NEW to \in {"utf8", "utf16"}, NEW k \in 0 .. Len(t) - 1
  PROVE  /\ Places(t, Len(Heading(t, k, to)), CharIn(t[k + 1], to), to)
         /\ Len(Heading(t, k + 1, to)) = Len(Heading(t, k, to)) + Len(CharIn(t[k + 1], to))
<1> DEFINE c == CharIn(t[k + 1], to)
           h == Heading(t, k, to)
           g == Heading(t, k + 1, to)
           N == {m \in Nat : k + 1 + m <= Len(t) =>
                    /\ Len(g) <= Len(Heading(t, k + 1 + m, to))
                    /\ \A i \in 1 .. Len(g) : Heading(t, k + 1 + m, to)[i] = g[i]}
<1>1. Len(t) \in Nat /\ k \in Nat /\ k + 1 <= Len(t)
  BY SMT
<1>2. t[k + 1] \in Chars
  BY <1>1, SMT
<1> DEFINE S == UnitsOf(to)
<1>3. h \in Seq(S) /\ g \in Seq(S) /\ g = h \o c
  <2>1. k \in 0 .. Len(t) /\ k + 1 \in 0 .. Len(t)
    BY <1>1, SMT
  <2> QED BY <2>1, HeadNext, Zenon
<1>4. c \in Seq(S)
  BY <1>2, CharUnits, Zenon DEF OfUnits
<1>5. \A m \in Nat : k + 1 + m <= Len(t) => Heading(t, k + 1 + m, to) \in Seq(S)
  <2> TAKE m \in Nat
  <2> HAVE k + 1 + m <= Len(t)
  <2>1. k + 1 + m \in 0 .. Len(t)
    BY <1>1, SMT
  <2> QED BY <2>1, HeadNext, Zenon
<1> HIDE DEF S
<1>6. 0 \in N
  <2>1. k + 1 + 0 = k + 1
    BY <1>1, SMT
  <2>2. Heading(t, k + 1 + 0, to) = g
    BY <2>1, Zenon
  <2>3. Len(g) \in Nat
    BY <1>3, SMT
  <2> HIDE DEF g
  <2> QED BY <2>2, <2>3, SMT
<1>7. ASSUME NEW m \in Nat, m \in N PROVE m + 1 \in N
  <2> SUFFICES ASSUME k + 1 + (m + 1) <= Len(t)
               PROVE  /\ Len(g) <= Len(Heading(t, k + 1 + (m + 1), to))
                      /\ \A i \in 1 .. Len(g) : Heading(t, k + 1 + (m + 1), to)[i] = g[i]
    BY SMT
  <2> DEFINE a == Heading(t, k + 1 + m, to)
             b == Heading(t, k + 1 + (m + 1), to)
             d == CharIn(t[k + 1 + m + 1], to)
  <2>1. k + 1 + m \in 0 .. Len(t) - 1 /\ k + 1 + (m + 1) = k + 1 + m + 1 /\ k + 1 + m <= Len(t)
    BY <1>1, SMT
  <2>2. b = a \o d
    BY <2>1, HeadNext, Zenon
  <2>3. t[k + 1 + m + 1] \in Chars
    BY <1>1, <2>1, SMT
  <2>4. d \in Seq(S)
    BY <2>3, CharUnits, Zenon DEF OfUnits, S
  <2>5. a \in Seq(S)
    BY <1>5, <2>1, Zenon
  <2>6. Len(g) <= Len(a) /\ \A i \in 1 .. Len(g) : a[i] = g[i]
    BY <1>7, <2>1, Zenon
  <2> HIDE DEF a, b, d, g
  <2>7. Len(g) <= Len(b) /\ \A i \in 1 .. Len(g) : b[i] = g[i]
    BY ONLY <1>3, <2>2, <2>4, <2>5, <2>6, SMT
  <2> QED BY <2>7, Zenon DEF b
<1>8. Nat \subseteq N
  <2> HIDE DEF N
  <2> QED BY <1>6, <1>7, Counting, Zenon
<1>9. /\ Len(g) <= Len(Encoded(t, to))
      /\ \A i \in 1 .. Len(g) : Encoded(t, to)[i] = g[i]
  <2> DEFINE m == Len(t) - (k + 1)
  <2>1. m \in Nat /\ k + 1 + m = Len(t) /\ k + 1 + m <= Len(t)
    BY <1>1, SMT
  <2>2. m \in N
    BY <1>8, <2>1, Zenon
  <2>3. Heading(t, k + 1 + m, to) = Encoded(t, to)
    BY <2>1, HeadNext, Zenon
  <2> HIDE DEF m, g
  <2> QED BY <2>1, <2>2, <2>3, Zenon
<1> HIDE DEF g, h, c
<1>10. Len(h) \in Nat /\ Len(c) \in Nat /\ Len(g) = Len(h) + Len(c)
       /\ \A j \in 1 .. Len(c) : g[Len(h) + j] = c[j] /\ Len(h) + j \in 1 .. Len(g)
  BY ONLY <1>3, <1>4, SMT
<1>11. /\ Len(h) \in Nat /\ Len(c) \in Nat /\ Len(g) = Len(h) + Len(c)
       /\ Len(h) + Len(c) <= Len(Encoded(t, to))
       /\ \A j \in 1 .. Len(c) : Encoded(t, to)[Len(h) + j] = c[j]
  BY ONLY <1>9, <1>10, SMT
<1> QED BY ONLY <1>11, Zenon DEF g, h, c, Places

\* The decoder is in character c of what was encoded, d units of which are read.
InChar(c, d) ==
  \/ state = 0 /\ codep = 0 /\ d = 0
  \/ state # 0 /\ enc = "utf8" /\ Within(c, d, state, codep)

\* What has been decoded again are the first code points of the source.
Follows ==
  /\ Len(text) <= Len(sourceText) /\ text = SubSeq(sourceText, 1, Len(text))
  /\ \E d \in Nat :
        /\ pos = Len(Heading(sourceText, Len(text), enc)) + d + 1
        /\ InChar(sourceText[Len(text) + 1], d)
        /\ d # 0 => Len(text) < Len(sourceText)

Survives ==
  /\ phase = "decoded" => text = sourceText
  /\ sourceText \in Seq(Scalars) =>
        /\ phase = "again" => units = Encoded(sourceText, enc) /\ Follows
        /\ phase = "done" => text = sourceText

\* Where the decoder is, unless it is at the end.
ReadsOn(c, d) ==
  /\ Len(text) < Len(sourceText) /\ c = sourceText[Len(text) + 1] /\ c \in Scalars
  /\ pos = Len(Heading(sourceText, Len(text), enc)) + d + 1 /\ InChar(c, d)
  /\ d < Len(CharIn(c, enc)) /\ pos <= Len(units)
  /\ units[pos] = CharIn(c, enc)[d + 1] /\ units[pos] # 0

LEMMA Reading ==
  ASSUME Decoder, Survives, phase = "again", sourceText \in Seq(Scalars)
  PROVE  \/ \E c : \E d \in Nat : ReadsOn(c, d)
         \/ Len(text) = Len(sourceText) /\ state = 0 /\ pos = Len(units) + 1
<1> DEFINE k == Len(text)
           n == Len(Heading(sourceText, k, enc))
           c == sourceText[k + 1]
<1>1. /\ enc \in {"utf8", "utf16"} /\ sourceText \in Seq(Chars) /\ text \in Seq(Chars)
      /\ pos \in Nat \ {0}
  BY Zenon DEF Decoder, Typed
<1>2. /\ units = Encoded(sourceText, enc) /\ k <= Len(sourceText)
      /\ \E d \in Nat : pos = n + d + 1 /\ InChar(c, d) /\ (d # 0 => k < Len(sourceText))
  BY Zenon DEF Survives, Follows
<1>3. PICK d \in Nat : pos = n + d + 1 /\ InChar(c, d) /\ (d # 0 => k < Len(sourceText))
  BY <1>2, Zenon
<1>4. k \in Nat /\ Len(sourceText) \in Nat
  BY <1>1, SMT
<1>5. CASE k < Len(sourceText)
  <2> DEFINE u == CharIn(c, enc)
  <2>1. k \in 0 .. Len(sourceText) - 1 /\ k + 1 \in 1 .. Len(sourceText)
    BY <1>4, <1>5, SMT
  <2>2. c \in Scalars /\ c \in Chars
    BY <2>1, InSeq, <1>1, Zenon
  <2>3. /\ n \in Nat /\ Len(u) \in Nat /\ n + Len(u) <= Len(units)
        /\ \A j \in 1 .. Len(u) : units[n + j] = u[j]
    <3>1. Places(sourceText, n, u, enc)
      BY <1>1, <2>1, CharAt, Zenon
    <3> HIDE DEF u, n
    <3> QED BY ONLY <1>2, <3>1, SMT DEF Places
  <2>4. Len(u) >= 1 /\ \A i \in 1 .. Len(u) : u[i] # 0
    BY <1>1, <2>2, CharUnits, Zenon DEF OfUnits
  <2>5. d < Len(u)
    <3>1. CASE d = 0
      BY <2>3, <2>4, <3>1, SMT
    <3>2. CASE d # 0
      <4>1. enc = "utf8" /\ Within(c, d, state, codep)
        BY <1>3, <3>2, Zenon DEF InChar
      <4>2. u = Utf8Of(c)
        BY <4>1, Zenon DEF CharIn
      <4>3. d \in 1 .. Len(u) - 1
        BY ONLY <4>1, <4>2, SMT DEF Within
      <4> HIDE DEF u
      <4> QED BY <2>3, <4>3, SMT
    <3> QED BY <3>1, <3>2
  <2> HIDE DEF u, c, n, k
  <2>6. d + 1 \in 1 .. Len(u) /\ pos = n + (d + 1)
    BY ONLY <1>3, <2>3, <2>5, SMT
  <2>7. units[pos] = u[d + 1] /\ u[d + 1] # 0
    BY ONLY <2>3, <2>4, <2>6, Zenon
  <2>8. pos <= Len(units)
    <3>2. Len(units) \in Nat
      BY SMT DEF Decoder, Typed
    <3> QED BY ONLY <2>3, <2>5, <2>6, <3>2, SMT
  <2>9. ReadsOn(c, d)
    BY ONLY <1>3, <1>5, <2>2, <2>5, <2>7, <2>8, Zenon DEF ReadsOn, u, c, n, k
  <2> QED BY <2>9, Zenon
<1>6. CASE k = Len(sourceText)
  <2>1. d = 0
    BY <1>3, <1>4, <1>6, SMT
  <2>2. Heading(sourceText, k, enc) = units
    BY <1>1, <1>2, <1>6, HeadNext, Zenon
  <2>3. state = 0
    <3> SUFFICES ASSUME state # 0 PROVE FALSE
      OBVIOUS
    <3>1. Within(c, 0, state, codep)
      BY <1>3, <2>1, Zenon DEF InChar
    <3>2. 0 \in 1 .. Len(Utf8Of(c)) - 1
      BY ONLY <3>1, SMT DEF Within
    <3> QED BY <3>2, SMT
  <2>4. n = Len(units) /\ Len(units) \in Nat
    <3>1. Len(units) \in Nat
      BY SMT DEF Decoder, Typed
    <3> QED BY <2>2, <3>1, Zenon
  <2>5. pos = Len(units) + 1
    BY <1>3, <2>1, <2>4, SMT
  <2> QED BY <1>6, <2>3, <2>5, Zenon
<1> QED BY <1>2, <1>4, <1>5, <1>6, SMT

LEMMA FollowsUtf8 ==
  ASSUME Decoder, Survives, phase = "again", sourceText \in Seq(Scalars), Utf8Byte
  PROVE  Follows'
<1>1. /\ enc = "utf8" /\ pos \in 1..Len(units) /\ units[pos] \in 1..255
      /\ Rejects(units[pos]) \/ LeadsOn(units[pos]) \/ Completes(units[pos])
      /\ pos' = pos + 1
      /\ UNCHANGED <<enc, units, phase, source, sourceEnc, sourceText>>
  <2>1. ~Unterminated
    BY SMT DEF Unterminated
  <2> QED BY <2>1, Utf8ByteDoes, Zenon
<1>2. /\ sourceText \in Seq(Chars) /\ text \in Seq(Chars)
      /\ Len(text) <= Len(sourceText) /\ text = SubSeq(sourceText, 1, Len(text))
  BY Zenon DEF Decoder, Typed, Survives, Follows
<1>3. ~(Len(text) = Len(sourceText) /\ state = 0 /\ pos = Len(units) + 1)
  BY <1>1, SMT
<1>4. PICK c : \E d \in Nat : ReadsOn(c, d)
  BY <1>3, Reading, Zenon
<1>5. PICK d \in Nat : ReadsOn(c, d)
  BY <1>4, Zenon
<1> DEFINE k == Len(text)
           n == Len(Heading(sourceText, k, enc))
           b == units[pos]
           u == Utf8Of(c)
<1>6. /\ k < Len(sourceText) /\ c = sourceText[k + 1] /\ c \in Scalars
      /\ pos = n + d + 1 /\ InChar(c, d) /\ d < Len(u) /\ b = u[d + 1]
  BY <1>1, <1>5, SMT DEF ReadsOn, CharIn
<1>7. k \in Nat /\ Len(sourceText) \in Nat
  BY <1>2, SMT
<1>14. n \in Nat
  <2>1. k \in 0 .. Len(sourceText)
    BY <1>6, <1>7, SMT
  <2>2. Heading(sourceText, k, enc) \in Seq(UnitsOf(enc))
    BY <1>1, <1>2, <2>1, HeadNext, Zenon
  <2> QED BY ONLY <2>2, SMT
<1> HIDE DEF k, n, b, u
<1>8. On(c, d + 1, state, codep, b)
  <2>1. CASE d = 0
    <3>1. state = 0 /\ codep = 0
      <4>1. ~Within(c, 0, state, codep)
        BY SMT DEF Within
      <4> QED BY <1>6, <2>1, <4>1, Zenon DEF InChar
    <3>2. On(c, 1, 0, 0, Utf8Of(c)[1])
      BY <1>6, OnInUtf8, Zenon
    <3> QED BY ONLY <1>6, <2>1, <3>1, <3>2, SMT DEF u
  <2>2. CASE d # 0
    <3>1. Within(c, d, state, codep)
      BY <1>6, <2>2, Zenon DEF InChar
    <3>2. On(c, d + 1, state, codep, Utf8Of(c)[d + 1])
      BY ONLY <1>5, d \in Nat, <1>6, <3>1, OnInUtf8, Zenon
    <3> QED BY ONLY <1>6, <3>2, Zenon DEF u
  <2> QED BY <2>1, <2>2
<1>9. /\ d + 1 < Len(u) => /\ DecodeStep(state, b) \notin {0, 1}
                           /\ Within(c, d + 1, DecodeStep(state, b), Accumulate(state, codep, b))
      /\ d + 1 = Len(u) => DecodeStep(state, b) = 0 /\ Accumulate(state, codep, b) = c
  BY ONLY <1>8, Zenon DEF On, u
<1>10. d + 1 < Len(u) \/ d + 1 = Len(u)
  <2>1. Len(u) \in Nat
    BY <1>6, OnInUtf8, Zenon DEF u
  <2> QED BY ONLY <2>1, <1>6, d \in Nat, SMT
<1>11. CASE Rejects(b)
  <2>1. DecodeStep(state, b) = 1
    BY <1>11, SMT DEF Rejects
  <2> QED BY ONLY <1>9, <1>10, <2>1, SMT
<1>12. CASE LeadsOn(b)
  <2>1. /\ state' = DecodeStep(state, b) /\ codep' = Accumulate(state, codep, b)
        /\ state' # 0 /\ text' = text
    BY <1>12, Zenon DEF LeadsOn, Leads
  <2>2. Within(c, d + 1, state', codep')
    BY ONLY <1>9, <1>10, <2>1, SMT
  <2>4. d + 1 \in Nat /\ pos' = n + (d + 1) + 1
    BY ONLY <1>1, <1>6, <1>14, d \in Nat, SMT
  <2>5. (/\ pos = Len(Heading(sourceText, Len(text), enc)) + (d + 1) + 1
         /\ InChar(sourceText[Len(text) + 1], d + 1)
         /\ Len(text) < Len(sourceText))'
    <3>1. c = sourceText'[Len(text') + 1]
      BY ONLY <1>1, <1>6, <2>1, SMT DEF k
    <3>2. InChar(sourceText[Len(text) + 1], d + 1)'
      BY ONLY <1>1, <2>1, <2>2, <3>1, SMT DEF InChar
    <3> QED BY ONLY <1>1, <1>6, <2>1, <2>4, <3>2, SMT DEF n, k
  <2>6. Len(text') <= Len(sourceText') /\ text' = SubSeq(sourceText', 1, Len(text'))
    BY ONLY <1>1, <1>2, <2>1, Zenon
  <2> QED BY ONLY <2>4, <2>5, <2>6, Zenon DEF Follows
<1>13. CASE Completes(b)
  <2>1. PICK e : /\ Leads(state, codep, b, 0, e)
                 /\ text' = Append(text, e) /\ state' = 0 /\ codep' = 0
    BY <1>13, Zenon DEF Completes
  <2>2. 0 = DecodeStep(state, b) /\ e = Accumulate(state, codep, b)
    BY <2>1, Zenon DEF Leads
  <2>3. d + 1 = Len(u) /\ e = c
    BY ONLY <1>9, <1>10, <2>2, SMT
  <2>4. text' = SubSeq(sourceText, 1, k + 1) /\ Len(text') = k + 1
    BY ONLY <1>2, <1>6, <1>7, <2>1, <2>3, SMT DEF k
  <2>5. Len(Heading(sourceText, k + 1, enc)) = n + Len(u)
    <3>1. k \in 0 .. Len(sourceText) - 1
      BY ONLY <1>6, <1>7, SMT
    <3>2. CharIn(sourceText[k + 1], enc) = u
      BY ONLY <1>1, <1>6, Zenon DEF CharIn, u
    <3> QED BY ONLY <1>1, <1>2, <3>1, <3>2, CharAt, SMT DEF n
  <2>6. pos' = Len(Heading(sourceText', Len(text'), enc')) + 0 + 1
    <3>1. pos' = n + (d + 1) + 0 + 1
      BY ONLY <1>1, <1>6, <1>14, d \in Nat, SMT
    <3>2. pos' = n + Len(u) + 0 + 1
      BY ONLY <2>3, <3>1, SMT
    <3>3. n + Len(u) = Len(Heading(sourceText', Len(text'), enc'))
      BY ONLY <1>1, <2>4, <2>5, Zenon
    <3> QED BY ONLY <3>2, <3>3, Zenon
  <2>7. InChar(sourceText[Len(text) + 1], 0)'
    BY ONLY <2>1, Zenon DEF InChar
  <2>8. Len(text') <= Len(sourceText') /\ text' = SubSeq(sourceText', 1, Len(text'))
    BY ONLY <1>1, <1>6, <1>7, <2>4, SMT
  <2>9. 0 \in Nat
    OBVIOUS
  <2> QED BY ONLY <2>6, <2>7, <2>8, <2>9, SMT DEF Follows
<1> QED BY <1>1, <1>11, <1>12, <1>13, Zenon DEF b

LEMMA FollowsUtf16 ==
  ASSUME Decoder, Survives, phase = "again", sourceText \in Seq(Scalars), Utf16Char
  PROVE  Follows'
<1>1. /\ enc = "utf16" /\ pos \in 1..Len(units)
      /\ \E low \in Readable(pos + 1), c \in Chars :
            /\ c = IF CharLength(units[pos]) = 1 THEN units[pos] ELSE Pair(units[pos], low)
            /\ text' = Append(text, c)
      /\ pos' = pos + CharLength(units[pos])
      /\ UNCHANGED <<enc, units, state, codep, phase, source, sourceEnc, sourceText>>
  BY Utf16CharDoes, Zenon
<1>2. /\ sourceText \in Seq(Chars) /\ text \in Seq(Chars) /\ state = 0 /\ codep = 0
      /\ Len(text) <= Len(sourceText) /\ text = SubSeq(sourceText, 1, Len(text))
      /\ units = Encoded(sourceText, enc)
  BY <1>1, SMT DEF Decoder, Typed, Survives, Follows
<1>3. ~(Len(text) = Len(sourceText) /\ state = 0 /\ pos = Len(units) + 1)
  BY <1>1, SMT
<1>4. PICK c : \E d \in Nat : ReadsOn(c, d)
  BY <1>3, Reading, Zenon
<1>5. PICK d \in Nat : ReadsOn(c, d)
  BY <1>4, Zenon
<1> DEFINE k == Len(text)
           n == Len(Heading(sourceText, k, enc))
           b == units[pos]
           u == Utf16Of(c)
<1>6. d = 0 /\ InChar(c, d)
  BY <1>2, <1>5, Zenon DEF ReadsOn, InChar
<1>7. /\ k < Len(sourceText) /\ c = sourceText[k + 1] /\ c \in Scalars
      /\ pos = n + 1 /\ b = u[1] /\ CharIn(c, enc) = u
  <2>1. CharIn(c, enc) = u
    BY <1>1, SMT DEF CharIn
  <2>2. /\ k < Len(sourceText) /\ c = sourceText[k + 1] /\ c \in Scalars
        /\ pos = n + d + 1 /\ b = CharIn(c, enc)[d + 1]
    BY <1>5, Zenon DEF ReadsOn
  <2>3. n \in Nat
    <3>1. k \in 0 .. Len(sourceText)
      BY <1>2, SMT
    <3>2. Heading(sourceText, k, enc) \in Seq(UnitsOf(enc))
      BY <1>1, <1>2, <3>1, HeadNext, Zenon
    <3> QED BY ONLY <3>2, SMT
  <2> HIDE DEF k, n, b, u
  <2> QED BY ONLY <1>6, <2>1, <2>2, <2>3, SMT
<1>8. k \in Nat /\ Len(sourceText) \in Nat
  BY <1>2, SMT
<1>9. /\ Places(sourceText, n, u, enc)
      /\ Len(Heading(sourceText, k + 1, enc)) = n + Len(u)
  <2>1. k \in 0 .. Len(sourceText) - 1
    BY ONLY <1>7, <1>8, SMT
  <2>2. CharIn(sourceText[k + 1], enc) = u
    BY ONLY <1>7, Zenon
  <2> HIDE DEF k, u
  <2>3. /\ Places(sourceText, n, CharIn(sourceText[k + 1], enc), enc)
        /\ Len(Heading(sourceText, k + 1, enc)) = n + Len(CharIn(sourceText[k + 1], enc))
    <3>1. enc \in {"utf8", "utf16"}
      BY <1>1, SMT
    <3> QED BY ONLY <1>2, <2>1, <3>1, CharAt, Zenon DEF n
  <2> HIDE DEF n
  <2> QED BY ONLY <2>2, <2>3, Zenon
<1>10. /\ CharLength(b) = Len(u) /\ Len(u) \in {1, 2}
       /\ Len(u) = 1 => b = c
       /\ Len(u) = 2 => Pair(b, u[2]) = c
  BY ONLY <1>7, InUtf16, Zenon
<1> HIDE DEF k, n, b, u
<1>11. text' = Append(text, c)
  <2>1. CASE Len(u) = 1
    <3>1. CharLength(b) = 1 /\ b = c
      BY <1>10, <2>1
    <3> QED BY ONLY <1>1, <3>1, SMT DEF b
  <2>2. CASE Len(u) = 2
    <3>1. CharLength(b) # 1 /\ Pair(b, u[2]) = c
      BY <1>10, <2>2, SMT
    <3>2. units[n + 2] = u[2] /\ n + 2 <= Len(units) /\ pos + 1 = n + 2
      BY ONLY <1>2, <1>7, <1>9, <2>2, SMT DEF Places
    <3>3. Readable(pos + 1) = {u[2]}
      BY ONLY <1>1, <3>2, SMT DEF Readable
    <3> QED BY ONLY <1>1, <3>1, <3>3, SMT DEF b
  <2> QED BY <1>10, <2>1, <2>2, SMT
<1>12. text' = SubSeq(sourceText, 1, k + 1) /\ Len(text') = k + 1
  BY ONLY <1>2, <1>7, <1>8, <1>11, SMT DEF k
<1>13. pos' = Len(Heading(sourceText', Len(text'), enc')) + 0 + 1
  <2>1. pos' = n + Len(u) + 0 + 1
    <3>1. n \in Nat /\ Len(u) \in Nat
      BY <1>9, Zenon DEF Places
    <3>2. pos' = pos + Len(u)
      BY <1>1, <1>10, Zenon DEF b
    <3> QED BY ONLY <1>7, <3>1, <3>2, SMT
  <2>2. n + Len(u) = Len(Heading(sourceText', Len(text'), enc'))
    BY ONLY <1>1, <1>9, <1>12, Zenon
  <2> QED BY ONLY <2>1, <2>2, Zenon
<1>14. InChar(sourceText[Len(text) + 1], 0)'
  BY ONLY <1>1, <1>2, Zenon DEF InChar
<1>15. Len(text') <= Len(sourceText') /\ text' = SubSeq(sourceText', 1, Len(text'))
  <2>1. k + 1 <= Len(sourceText)
    BY ONLY <1>7, <1>8, SMT
  <2>2. sourceText' = sourceText
    BY <1>1, Zenon
  <2> QED BY ONLY <1>12, <2>1, <2>2, Zenon
<1>16. 0 \in Nat
  OBVIOUS
<1> QED BY ONLY <1>13, <1>14, <1>15, <1>16, SMT DEF Follows

LEMMA SurvivesStep ==
  ASSUME Decoder, Survives, [Next]_vars
  PROVE  Survives'
<1>1. CASE Utf8Byte
  <2>1. UNCHANGED <<enc, units, phase, sourceText>> /\ phase \in {"decoding", "again"}
    BY <1>1, ReadByteDoes, SMT DEF ByteRead, Utf8Byte, Decoding
  <2>2. phase = "again" /\ sourceText \in Seq(Scalars) => Follows'
    BY <1>1, FollowsUtf8, Zenon
  <2> QED BY <2>1, <2>2, SMT DEF Survives
<1>2. CASE Utf16Char
  <2>1. UNCHANGED <<enc, units, phase, sourceText>> /\ phase \in {"decoding", "again"}
    BY <1>2, Utf16CharDoes, SMT DEF Utf16Char, Decoding
  <2>2. phase = "again" /\ sourceText \in Seq(Scalars) => Follows'
    BY <1>2, FollowsUtf16, Zenon
  <2> QED BY <2>1, <2>2, SMT DEF Survives
<1>3. CASE MeetZero \/ EndSource
  <2>1. /\ phase \in {"decoding", "again"} /\ text' = text
        /\ pos > Len(units) \/ units[pos] = 0
        /\ IF phase = "decoding" THEN phase' = "decoded" /\ sourceText' = text
                                 ELSE phase' = "done" /\ UNCHANGED sourceText
    BY <1>3, EndsDo, Zenon
  <2>2. CASE phase = "decoding"
    <3>1. phase' = "decoded" /\ sourceText' = text'
      BY <2>1, <2>2
    <3> QED BY ONLY <3>1, SMT DEF Survives
  <2>3. CASE phase = "again"
    <3>1. phase' = "done" /\ sourceText' = sourceText
      BY <2>1, <2>3, SMT
    <3>2. ASSUME sourceText \in Seq(Scalars) PROVE text = sourceText
      <4>1. ASSUME NEW c, NEW d \in Nat, ReadsOn(c, d) PROVE FALSE
        <5>1. pos <= Len(units) /\ units[pos] # 0
          BY <4>1, Zenon DEF ReadsOn
        <5>2. pos \in Nat /\ Len(units) \in Nat
          BY SMT DEF Decoder, Typed
        <5> QED BY ONLY <2>1, <5>1, <5>2, SMT
      <4>2. Len(text) = Len(sourceText)
        BY <2>3, <3>2, <4>1, Reading, Zenon
      <4>3. text = SubSeq(sourceText, 1, Len(text)) /\ sourceText \in Seq(Chars)
        BY <2>3, <3>2, Zenon DEF Survives, Follows, Decoder, Typed
      <4> QED BY ONLY <4>2, <4>3, SMT
    <3> QED BY ONLY <2>1, <3>1, <3>2, SMT DEF Survives
  <2> QED BY <2>1, <2>2, <2>3, SMT
<1>4. ASSUME NEW to \in {"utf8", "utf16"}, EncodeText(to) PROVE Survives'
  <2>1. /\ phase = "decoded" /\ enc' = to /\ units' = Encoded(text, to)
        /\ pos' = 1 /\ read' = 0 /\ state' = 0 /\ codep' = 0 /\ text' = <<>>
        /\ phase' = "again" /\ sourceText' = sourceText
    BY <1>4, SMT DEF EncodeText, ACCEPT, history
  <2>2. text = sourceText /\ sourceText \in Seq(Chars)
    BY <2>1, Zenon DEF Survives, Decoder, Typed
  <2>3. Heading(sourceText, 0, to) = <<>>
    BY <2>2, HeadNext, Zenon
  <2>4. Len(text') = 0 /\ Len(sourceText) \in Nat /\ text' = SubSeq(sourceText, 1, 0)
    BY <2>1, <2>2, SMT
  <2>5. InChar(sourceText[Len(text) + 1], 0)'
    BY ONLY <2>1, Zenon DEF InChar
  <2>6. pos' = Len(Heading(sourceText', Len(text'), enc')) + 0 + 1
    <3>1. Heading(sourceText', Len(text'), enc') = <<>>
      BY ONLY <2>1, <2>3, <2>4, Zenon
    <3> QED BY ONLY <2>1, <3>1, SMT
  <2>7. Follows'
    <3>1. 0 \in Nat
      OBVIOUS
    <3> QED BY ONLY <2>1, <2>4, <2>5, <2>6, <3>1, SMT DEF Follows
  <2>8. units' = Encoded(sourceText', enc')
    BY ONLY <2>1, <2>2, Zenon
  <2> QED BY ONLY <2>1, <2>7, <2>8, SMT DEF Survives
<1>5. CASE UNCHANGED vars
  <2>1. UNCHANGED <<enc, units, pos, state, codep, text, phase, sourceText>>
    BY <1>5, Zenon DEF vars
  <2>2. Follows => Follows'
    BY ONLY <2>1, SMT DEF Follows, InChar
  <2> QED BY ONLY Survives, <2>1, <2>2, SMT DEF Survives
<1> QED BY <1>1, <1>2, <1>3, <1>4, <1>5, Zenon DEF Next

\* What a String holds is the same after Encode and Decode in either encoding, if
\* it is text at all.
THEOREM TextSurvives == Spec => []RoundTrip
<1>1. Init => Survives
  BY SMT DEF Init, Survives
<1>2. Decoder /\ Survives /\ [Next]_vars => Survives'
  BY SurvivesStep
<1>3. Decoder /\ Survives => RoundTrip
  <2> SUFFICES ASSUME Decoder, Survives, phase = "done",
                      \A i \in DOMAIN sourceText : IsScalar(sourceText[i])
               PROVE  text = sourceText
    BY Zenon DEF RoundTrip
  <2>1. sourceText \in Seq(Chars)
    BY Zenon DEF Decoder, Typed
  <2>2. ASSUME NEW i \in DOMAIN sourceText PROVE sourceText[i] \in Scalars
    <3>1. IsScalar(sourceText[i]) /\ sourceText[i] \in Chars
      BY <2>1, SMT
    <3> QED BY ONLY <3>1, CharsAndScalars, Zenon
  <2>3. sourceText \in Seq(Scalars)
    BY ONLY <2>1, <2>2, SMT
  <2> QED BY <2>3, Zenon DEF Survives
<1> QED BY <1>1, <1>2, <1>3, DecoderInvariant, PTL DEF Spec

-----------------------------------------------------------------------------
(* Looking at bytes without decoding them.                                 *)

StatesTo(bytes, n, f) ==
  f = [i \in 0 .. n |-> IF i = 0 THEN ACCEPT ELSE DecodeStep(f[i - 1], bytes[i])]

LEMMA StatesExist ==
  ASSUME NEW bytes
  PROVE  \A n \in Nat : \E f : StatesTo(bytes, n, f)
<1> DEFINE T == {n \in Nat : \E f : StatesTo(bytes, n, f)}
<1>1. 0 \in T
  <2> DEFINE f == [i \in 0 .. 0 |-> ACCEPT]
  <2>1. f = [i \in 0 .. 0 |-> IF i = 0 THEN ACCEPT ELSE DecodeStep(f[i - 1], bytes[i])]
    <3>1. \A i \in 0 .. 0 : i = 0
      OBVIOUS
    <3> HIDE DEF ACCEPT
    <3> QED BY <3>1
  <2> HIDE DEF f
  <2>2. StatesTo(bytes, 0, f)
    BY <2>1, Zenon DEF StatesTo
  <2>3. \E g : StatesTo(bytes, 0, g)
    BY <2>2, Zenon
  <2> QED BY <2>3
<1>2. ASSUME NEW n \in Nat, n \in T PROVE n + 1 \in T
  <2>1. PICK f : f = [i \in 0 .. n |-> IF i = 0 THEN ACCEPT ELSE DecodeStep(f[i - 1], bytes[i])]
    <3>1. \E f : StatesTo(bytes, n, f)
      BY <1>2
    <3> QED BY <3>1, Zenon DEF StatesTo
  <2> DEFINE last == DecodeStep(f[n], bytes[n + 1])
             v == [i \in 0 .. (n + 1) |-> IF i = n + 1 THEN last ELSE f[i]]
  <2>2. ASSUME NEW i \in 0 .. (n + 1)
        PROVE  v[i] = IF i = 0 THEN ACCEPT ELSE DecodeStep(v[i - 1], bytes[i])
    <3>1. CASE i = n + 1
      <4>1. v[i] = last /\ i - 1 = n /\ i # 0
        BY <3>1
      <4>2. n \in 0 .. (n + 1) /\ n # n + 1
        OBVIOUS
      <4>3. v[n] = f[n]
        BY <4>2
      <4> HIDE DEF v
      <4> QED BY <3>1, <4>1, <4>3
    <3>2. CASE i \in 0 .. n
      <4>1. v[i] = f[i] /\ (i # 0 => i - 1 \in 0 .. (n + 1) /\ i - 1 # n + 1)
        BY <3>2
      <4>2. i # 0 => v[i - 1] = f[i - 1]
        BY <4>1
      <4>3. f[i] = IF i = 0 THEN ACCEPT ELSE DecodeStep(f[i - 1], bytes[i])
        BY <2>1, <3>2
      <4> HIDE DEF v
      <4> QED BY <4>1, <4>2, <4>3
    <3> QED BY <3>1, <3>2
  <2>3. v = [i \in 0 .. (n + 1) |-> IF i = 0 THEN ACCEPT ELSE DecodeStep(v[i - 1], bytes[i])]
    <3>1. v = [i \in 0 .. (n + 1) |-> v[i]]
      OBVIOUS
    <3> HIDE DEF v
    <3> QED BY <2>2, <3>1
  <2> HIDE DEF v
  <2>4. StatesTo(bytes, n + 1, v)
    BY <2>3 DEF StatesTo
  <2>5. \E f_1 : StatesTo(bytes, n + 1, f_1)
    BY <2>4, Zenon
  <2> QED BY <2>5
<1>3. Nat \subseteq T
  <2> HIDE DEF T
  <2> QED BY <1>1, <1>2, Counting
<1> QED BY <1>3

LEMMA StatesOfIs ==
  ASSUME NEW bytes, Len(bytes) \in Nat
  PROVE  /\ StatesOf(bytes)[0] = 0
         /\ \A i \in 1 .. Len(bytes) : StatesOf(bytes)[i] = DecodeStep(StatesOf(bytes)[i - 1], bytes[i])
<1> DEFINE n == Len(bytes)
           g == CHOOSE g : g = [i \in 0 .. n |-> IF i = 0 THEN ACCEPT
                                                 ELSE DecodeStep(g[i - 1], bytes[i])]
<1>1. StatesOf(bytes) = g
  BY DEF StatesOf
<1>2. \E h : h = [i \in 0 .. n |-> IF i = 0 THEN ACCEPT ELSE DecodeStep(h[i - 1], bytes[i])]
  <2>1. \E h : StatesTo(bytes, n, h)
    BY StatesExist
  <2> QED BY <2>1, Zenon DEF StatesTo
<1>3. g = [i \in 0 .. n |-> IF i = 0 THEN ACCEPT ELSE DecodeStep(g[i - 1], bytes[i])]
  BY <1>2, Zenon
<1> HIDE DEF g
<1>4. g[0] = 0
  <2>1. 0 \in 0 .. n
    OBVIOUS
  <2> QED BY <1>3, <2>1 DEF ACCEPT
<1>5. ASSUME NEW i \in 1 .. n PROVE g[i] = DecodeStep(g[i - 1], bytes[i])
  <2>1. i \in 0 .. n /\ i # 0
    OBVIOUS
  <2> QED BY <1>3, <2>1
<1> QED BY <1>1, <1>4, <1>5

LEMMA RejectedForGood ==
  ASSUME NEW b
  PROVE  DecodeStep(1, b) = 1
BY DEF DecodeStep, NextState, REJECT

\* A text ends at its first zero.
LEMMA TerminatedIs ==
  ASSUME NEW us, NEW S, us \in Seq(S), NEW p \in 1 .. Len(us) + 1,
         p = Len(us) + 1 \/ us[p] = 0, \A i \in 1 .. p - 1 : us[i] # 0
  PROVE  Terminated(us) = p - 1
<1> DEFINE ts == us \o <<0>>
           I == {i \in 1 .. Len(ts) : ts[i] = 0}
<1>1. Len(us) \in Nat /\ Len(ts) = Len(us) + 1 /\ ts[Len(us) + 1] = 0
      /\ \A i \in 1 .. Len(us) : ts[i] = us[i]
  OBVIOUS
<1>2. Terminated(us) = (IF I # {} THEN Min(I) ELSE 0) - 1
  BY DEF Terminated, SelectInSeq
<1> HIDE DEF ts
<1>3. p \in I /\ \A i \in I : p <= i
  <2>1. p \in 1 .. Len(ts) /\ ts[p] = 0
    BY <1>1
  <2>2. ASSUME NEW i \in I PROVE p <= i
    <3> SUFFICES ASSUME i < p PROVE FALSE
      BY <1>1
    <3>1. i \in 1 .. p - 1 /\ i \in 1 .. Len(us) /\ ts[i] = 0
      BY <1>1
    <3> QED BY <1>1, <3>1
  <2> QED BY <2>1, <2>2
<1>4. \A i \in I : i \in Int
  BY <1>1
<1> HIDE DEF I
<1>5. Min(I) = p
  <2>1. \E x \in I : \A y \in I : x <= y
    BY <1>3
  <2>2. Min(I) \in I /\ \A y \in I : Min(I) <= y
    BY <2>1, Zenon DEF Min
  <2>3. PICK x : x = Min(I)
    OBVIOUS
  <2>4. x \in I /\ x <= p /\ p <= x
    BY <1>3, <2>2, <2>3, Zenon
  <2>5. x \in Int /\ p \in Int
    BY <1>3, <1>4, <2>4, Zenon
  <2> QED BY <2>3, <2>4, <2>5
<1> QED BY <1>2, <1>3, <1>5

-----------------------------------------------------------------------------
(* What is accepted is read as it is.                                      *)

Accepting(f, n) == {i \in 1 .. n : f[i] = 0}

LEMMA CountNext ==
  ASSUME NEW f, NEW n \in Nat
  PROVE  /\ Cardinality(Accepting(f, 0)) = 0 /\ Cardinality(Accepting(f, n)) \in Nat
         /\ Cardinality(Accepting(f, n + 1))
               = IF f[n + 1] = 0 THEN Cardinality(Accepting(f, n)) + 1
                                 ELSE Cardinality(Accepting(f, n))
<1>1. IsFiniteSet(Accepting(f, n))
  <2>1. IsFiniteSet(1 .. n)
    BY FS_Interval
  <2>2. Accepting(f, n) \subseteq 1 .. n
    BY DEF Accepting
  <2> QED BY <2>1, <2>2, FS_Subset
<1>2. Accepting(f, 0) = {}
  BY DEF Accepting
<1>3. CASE f[n + 1] = 0
  <2>1. Accepting(f, n + 1) = Accepting(f, n) \cup {n + 1}
    BY <1>3 DEF Accepting
  <2>2. n + 1 \notin Accepting(f, n)
    BY DEF Accepting
  <2>3. Cardinality(Accepting(f, n) \cup {n + 1}) = Cardinality(Accepting(f, n)) + 1
    BY ONLY <1>1, <2>2, FS_AddElement, Zenon
  <2>4. Cardinality(Accepting(f, n)) \in Nat /\ Cardinality(Accepting(f, 0)) = 0
    BY ONLY <1>1, <1>2, FS_CardinalityType, FS_EmptySet, Zenon
  <2> QED BY ONLY <1>3, <2>1, <2>3, <2>4, Zenon
<1>4. CASE f[n + 1] # 0
  <2>1. Accepting(f, n + 1) = Accepting(f, n)
    BY <1>4 DEF Accepting
  <2> QED BY <1>1, <1>2, <1>4, <2>1, FS_EmptySet, FS_CardinalityType
<1> QED BY <1>3, <1>4

\* The first n of s are w, and none is zero.
Matches(s, n, w) ==
  Len(w) = n /\ n <= Len(s) /\ \A i \in 1 .. n : w[i] = s[i] /\ s[i] # 0

LEMMA MatchesNext ==
  ASSUME NEW S, NEW s \in Seq(S), NEW n \in Nat, NEW w, Matches(s, n, w), n + 1 <= Len(s),
         NEW x, Then(w, s[n + 1], x), s[n + 1] # 0
  PROVE  Matches(s, n + 1, x)
<1>1. Len(w) = n /\ \A i \in 1 .. n : w[i] = s[i] /\ s[i] # 0
  BY DEF Matches
<1>2. Len(x) = n + 1 /\ x[n + 1] = s[n + 1] /\ \A i \in 1 .. n : x[i] = w[i]
  BY <1>1 DEF Then
<1>3. ASSUME NEW i \in 1 .. n + 1 PROVE x[i] = s[i] /\ s[i] # 0
  <2>1. CASE i = n + 1
    BY <1>2, <2>1
  <2>2. CASE i \in 1 .. n
    BY <1>1, <1>2, <2>2
  <2> QED BY <2>1, <2>2
<1> QED BY <1>2, <1>3 DEF Matches

LEMMA ThenBehind ==
  ASSUME NEW S, NEW e \in Seq(S), NEW u \in Seq(S), NEW v \in Seq(S), NEW b, Then(u, b, v)
  PROVE  Then(e \o u, b, e \o v)
<1>1. Len(v) = Len(u) + 1 /\ v[Len(u) + 1] = b /\ \A i \in 1 .. Len(u) : v[i] = u[i]
  BY DEF Then
<1>2. Len(e) \in Nat /\ Len(u) \in Nat
  OBVIOUS
<1> DEFINE p == e \o u
           q == e \o v
<1>3. /\ Len(p) = Len(e) + Len(u) /\ Len(q) = Len(e) + Len(v)
      /\ \A i \in 1 .. Len(p) : p[i] = IF i <= Len(e) THEN e[i] ELSE u[i - Len(e)]
      /\ \A i \in 1 .. Len(q) : q[i] = IF i <= Len(e) THEN e[i] ELSE v[i - Len(e)]
  OBVIOUS
<1> HIDE DEF p, q
<1>4. Len(q) = Len(p) + 1
  BY <1>1, <1>2, <1>3
<1>5. q[Len(p) + 1] = b
  <2>1. Len(p) + 1 \in 1 .. Len(q) /\ ~(Len(p) + 1 <= Len(e)) /\ Len(p) + 1 - Len(e) = Len(u) + 1
    BY <1>1, <1>2, <1>3
  <2> QED BY <1>1, <1>3, <2>1
<1>6. ASSUME NEW i \in 1 .. Len(p) PROVE q[i] = p[i]
  <2>1. i \in 1 .. Len(q)
    BY <1>2, <1>3, <1>4
  <2>2. CASE i <= Len(e)
    BY <1>3, <2>1, <2>2
  <2>3. CASE ~(i <= Len(e))
    <3>1. i - Len(e) \in 1 .. Len(u)
      BY <1>2, <1>3, <2>3
    <3> QED BY <1>1, <1>3, <2>1, <2>3, <3>1
  <2> QED BY <2>2, <2>3
<1>7. Then(p, b, q)
  BY <1>4, <1>5, <1>6 DEF Then
<1> QED BY <1>7 DEF p, q

LEMMA BegunType ==
  ASSUME NEW st \in States, NEW cp, Bits(st, cp)
  PROVE  Begun(st, cp) \in Seq(Int) /\ Len(Begun(st, cp)) \in 0 .. 3
<1>1. cp \in Nat
  BY DEF Bits
<1>2. cp \div 64 \in Int /\ cp \div 4096 \in Int /\ cp % 64 \in Int /\ (cp \div 64) % 64 \in Int
  BY <1>1, SMT
<1>3. CASE st = 0
  BY <1>3, SMT DEF Begun
<1>4. CASE st = 2
  <2>1. Begun(st, cp) \in {<<192 + cp>>, <<224 + cp \div 64, 128 + (cp % 64)>>,
                           <<240 + cp \div 4096, 128 + ((cp \div 64) % 64), 128 + (cp % 64)>>}
    BY <1>4, SMT DEF Begun
  <2>2. <<192 + cp>> \in Seq(Int) /\ Len(<<192 + cp>>) = 1
    BY ONLY <1>1, SMT
  <2>3. /\ <<224 + cp \div 64, 128 + (cp % 64)>> \in Seq(Int)
        /\ Len(<<224 + cp \div 64, 128 + (cp % 64)>>) = 2
    BY ONLY <1>2, SMT
  <2>4. /\ <<240 + cp \div 4096, 128 + ((cp \div 64) % 64), 128 + (cp % 64)>> \in Seq(Int)
        /\ Len(<<240 + cp \div 4096, 128 + ((cp \div 64) % 64), 128 + (cp % 64)>>) = 3
    BY ONLY <1>2, SMT
  <2> DEFINE Short(b) == b \in Seq(Int) /\ Len(b) \in 0 .. 3
  <2>5. /\ Short(<<192 + cp>>) /\ Short(<<224 + cp \div 64, 128 + (cp % 64)>>)
        /\ Short(<<240 + cp \div 4096, 128 + ((cp \div 64) % 64), 128 + (cp % 64)>>)
    BY ONLY <2>2, <2>3, <2>4, SMT
  <2> HIDE DEF Short
  <2>6. Short(Begun(st, cp))
    BY ONLY <2>1, <2>5, SMT
  <2> QED BY ONLY <2>6, SMT DEF Short
<1>5. CASE st = 3
  <2>1. Begun(st, cp) \in {<<224 + cp>>, <<240 + cp \div 64, 128 + (cp % 64)>>}
    BY <1>5, SMT DEF Begun
  <2>2. <<224 + cp>> \in Seq(Int) /\ Len(<<224 + cp>>) = 1
    BY ONLY <1>1, SMT
  <2>3. /\ <<240 + cp \div 64, 128 + (cp % 64)>> \in Seq(Int)
        /\ Len(<<240 + cp \div 64, 128 + (cp % 64)>>) = 2
    BY ONLY <1>2, SMT
  <2> DEFINE Short(b) == b \in Seq(Int) /\ Len(b) \in 0 .. 3
  <2>4. Short(<<224 + cp>>) /\ Short(<<240 + cp \div 64, 128 + (cp % 64)>>)
    BY ONLY <2>2, <2>3, SMT
  <2> HIDE DEF Short
  <2>5. Short(Begun(st, cp))
    BY ONLY <2>1, <2>4, Zenon
  <2> QED BY ONLY <2>5, SMT DEF Short
<1>6. CASE st \in {4, 5, 6, 7, 8}
  BY <1>1, <1>6, SMT DEF Begun
<1> QED BY <1>3, <1>4, <1>5, <1>6 DEF States

\* The decoder has read what is accepted, and is in the state it is accepted in.
AsRead ==
  /\ state = StatesOf(units)[pos - 1]
  /\ Matches(units, pos - 1, Encoded(text, "utf8") \o Begun(state, codep))
  /\ Cardinality(Accepting(StatesOf(units), pos - 1)) = Len(text)

ReadSoFar ==
  /\ \A i \in 1 .. pos - 1 : units[i] # 0
  /\ StatesOf(units)[pos - 1] # 1 => AsRead

\* e is s up to a zero or to an unfinished sequence.
Kept(s, e) ==
  /\ IsPrefix(e, s)
  /\ Len(s) <= Len(e) + 3 \/ \E i \in Len(e) + 1 .. Len(e) + 4 : s[i] = 0

Looked ==
  /\ phase \in {"decoding", "decoded"} =>
        /\ source = units /\ sourceEnc = enc
        /\ enc = "utf8" => ReadSoFar
  /\ phase = "decoded" => sourceText = text
  /\ phase = "again" => units = Encoded(sourceText, enc)
  /\ phase # "decoding" /\ sourceEnc = "utf8" /\ Validate(source)
        => Kept(source, Encoded(sourceText, "utf8"))

LEMMA EncodedType ==
  ASSUME Decoder
  PROVE  Encoded(text, "utf8") \in Seq(Int)
<1>1. text \in Seq(Chars) /\ 1 \in Chars
  BY SMT DEF Decoder, Typed, Chars
<1>2. Encoded(text, "utf8") \in Seq(UnitsOf("utf8"))
  BY ONLY <1>1, EncodedAppend, Zenon
<1>3. UnitsOf("utf8") \subseteq Int
  BY SMT DEF UnitsOf
<1> QED BY ONLY <1>2, <1>3, SMT

\* Without a terminator what is only looked at has no end.
LEMMA SizedStays ==
  ASSUME [Next]_vars
  PROVE  sized' = sized
<1>1. CASE Utf8Byte
  BY <1>1, SMT DEF Utf8Byte, RejectSequence, history
<1>2. CASE Utf16Char
  BY <1>2, SMT DEF Utf16Char, history
<1>3. CASE MeetZero \/ EndSource
  BY <1>3, SMT DEF MeetZero, EndSource, TextEnds
<1>4. ASSUME NEW to \in {"utf8", "utf16"}, EncodeText(to) PROVE sized' = sized
  BY <1>4, SMT DEF EncodeText, history
<1>5. CASE UNCHANGED vars
  BY <1>5, SMT DEF vars
<1> QED BY <1>1, <1>2, <1>3, <1>4, <1>5, Zenon DEF Next

LEMMA ReadsSoFar ==
  ASSUME Decoder, ~sized, ReadSoFar, Utf8Byte
  PROVE  ReadSoFar'
<1> DEFINE b == units[pos]
           e == Encoded(text, "utf8")
           f == StatesOf(units)
           u == Begun(state, codep)
<1>1. /\ enc = "utf8" /\ pos \in 1..Len(units) /\ b \in 1..255
      /\ Rejects(b) \/ LeadsOn(b) \/ Completes(b)
      /\ pos' = pos + 1 /\ units' = units
  BY Utf8ByteDoes, Zenon DEF Unterminated
<1>2. /\ units \in Seq(UnitsOf("utf8")) /\ pos \in Nat \ {0} /\ Len(units) \in Nat
      /\ state \in States /\ Bits(state, codep) /\ text \in Seq(Scalars) /\ text \in Seq(Chars)
  BY <1>1, SMT DEF Decoder, Typed, DecodesScalars
<1>3. pos - 1 \in Nat /\ (pos - 1) + 1 = pos /\ pos' - 1 = pos /\ pos <= Len(units)
  BY <1>1, <1>2, SMT
<1>4. b # 0
  <2>1. \A x \in 1 .. 255 : x # 0
    BY SMT
  <2> QED BY ONLY <1>1, <2>1, Zenon
<1>5. \A i \in 1 .. pos' - 1 : units'[i] # 0
  <2>1. ASSUME NEW i \in 1 .. pos PROVE units[i] # 0
    <3>1. i = pos \/ i \in 1 .. pos - 1
      BY <1>2, SMT
    <3>2. i \in 1 .. pos - 1 => units[i] # 0
      BY Zenon DEF ReadSoFar
    <3> QED BY ONLY <1>4, <3>1, <3>2, Zenon
  <2>2. pos' - 1 = pos /\ units' = units
    BY <1>1, <1>3, Zenon
  <2> QED BY ONLY <2>1, <2>2, Zenon
<1>6. SUFFICES ASSUME f[pos] # 1 PROVE AsRead'
  <2>1. StatesOf(units') = f /\ pos' - 1 = pos
    BY ONLY <1>1, <1>3, Zenon
  <2> HIDE DEF f
  <2> QED BY ONLY <1>5, <1>6, <2>1, Zenon DEF ReadSoFar
<1>7. f[pos] = DecodeStep(f[pos - 1], b)
  BY <1>1, <1>2, StatesOfIs, Zenon
<1>8. f[pos - 1] # 1
  BY <1>6, <1>7, RejectedForGood, SMT
<1>9. state = f[pos - 1] /\ Matches(units, pos - 1, e \o u)
      /\ Cardinality(Accepting(f, pos - 1)) = Len(text)
  BY <1>8, Zenon DEF ReadSoFar, AsRead
<1>10. DecodeStep(state, b) = f[pos] /\ DecodeStep(state, b) # 1
  BY <1>6, <1>7, <1>9, Zenon
<1>11. e \in Seq(Int) /\ u \in Seq(Int)
  BY <1>2, EncodedType, BegunType, Zenon
<1>12. /\ Cardinality(Accepting(f, pos - 1)) \in Nat
       /\ Cardinality(Accepting(f, pos)) = IF f[pos] = 0 THEN Cardinality(Accepting(f, pos - 1)) + 1
                                           ELSE Cardinality(Accepting(f, pos - 1))
  <2> DEFINE n == pos - 1
  <2>1. n \in Nat /\ n + 1 = pos
    BY ONLY <1>3, Zenon
  <2> HIDE DEF n, f
  <2>2. /\ Cardinality(Accepting(f, n)) \in Nat
        /\ Cardinality(Accepting(f, n + 1)) = IF f[n + 1] = 0 THEN Cardinality(Accepting(f, n)) + 1
                                                ELSE Cardinality(Accepting(f, n))
    BY ONLY <2>1, CountNext, Zenon
  <2> QED BY ONLY <2>1, <2>2, Zenon DEF n
<1>13. ASSUME NEW v \in Seq(Int), Then(u, b, v) PROVE Matches(units, pos, e \o v)
  <2>1. Then(e \o u, b, e \o v)
    BY ONLY <1>11, <1>13, ThenBehind, Zenon
  <2> DEFINE w == e \o u
             x == e \o v
             n == pos - 1
  <2>2. n \in Nat /\ n + 1 <= Len(units) /\ n + 1 = pos /\ b = units[n + 1]
    BY <1>3, SMT
  <2> HIDE DEF w, x, n, b
  <2>3. Matches(units, n, w) /\ Then(w, units[n + 1], x) /\ units[n + 1] # 0
    BY <1>4, <1>9, <2>1, <2>2, Zenon DEF w, x, n
  <2>4. Matches(units, n + 1, x)
    BY ONLY <1>2, <2>2, <2>3, MatchesNext, Zenon
  <2> QED BY <2>2, <2>4, Zenon DEF x
<1>14. pos' - 1 = pos /\ units' = units /\ StatesOf(units') = f
  BY ONLY <1>1, <1>3, Zenon
<1>15. CASE Rejects(b)
  <2>1. DecodeStep(state, b) = 1
    BY <1>15, SMT DEF Rejects
  <2> QED BY <1>10, <2>1
<1>16. CASE LeadsOn(b)
  <2>1. Leads(state, codep, b, state', codep') /\ state' # 0 /\ text' = text
    BY <1>16, Zenon DEF LeadsOn
  <2>2. state' \in States /\ Bits(state', codep') /\ Then(u, b, Begun(state', codep'))
    BY ONLY <1>1, <1>2, <2>1, Utf8Step, Zenon
  <2>3. Matches(units, pos, e \o Begun(state', codep'))
    BY ONLY <1>13, <2>2, BegunType, Zenon
  <2>4. state' = f[pos]
    BY <1>10, <2>1, Zenon DEF Leads
  <2>5. Cardinality(Accepting(f, pos)) = Len(text)
    BY ONLY <1>9, <1>12, <2>1, <2>4, SMT
  <2> HIDE DEF f
  <2> QED BY ONLY <1>14, <2>1, <2>3, <2>4, <2>5, SMT DEF AsRead
<1>17. CASE Completes(b)
  <2>1. PICK c : /\ Leads(state, codep, b, 0, c)
                 /\ text' = Append(text, c) /\ state' = 0 /\ codep' = 0
    BY <1>17, Zenon DEF Completes
  <2>2. c \in Scalars /\ Then(u, b, Utf8Of(c))
    BY ONLY <1>1, <1>2, <2>1, Utf8Step, Zenon
  <2>3. c \in Chars
    BY ONLY <2>2, ScalarsAreChars, SMT
  <2>4. CharIn(c, "utf8") = Utf8Of(c)
    BY SMT DEF CharIn
  <2>5. Utf8Of(c) \in Seq(Int)
    <3>1. Utf8Of(c) \in Seq(UnitsOf("utf8"))
      BY <2>3, <2>4, CharUnits, Zenon DEF OfUnits
    <3>2. UnitsOf("utf8") \subseteq Int
      BY SMT DEF UnitsOf
    <3> QED BY ONLY <3>1, <3>2, SMT
  <2>6. Matches(units, pos, e \o Utf8Of(c))
    BY ONLY <1>13, <2>2, <2>5, Zenon
  <2>7. Encoded(text', "utf8") = e \o Utf8Of(c)
    BY ONLY <1>2, <2>1, <2>3, <2>4, EncodedAppend, Zenon
  <2>8. (e \o Utf8Of(c)) \o <<>> = e \o Utf8Of(c)
    <3>1. e \o Utf8Of(c) \in Seq(Int)
      BY ONLY <1>11, <2>5, SMT
    <3> QED BY ONLY <3>1, SMT
  <2>9. Begun(state', codep') = <<>>
    BY <2>1, SMT DEF Begun
  <2>10. Matches(units, pos, Encoded(text', "utf8") \o Begun(state', codep'))
    BY ONLY <2>6, <2>7, <2>8, <2>9, Zenon
  <2>11. state' = f[pos]
    BY <1>10, <2>1, Zenon DEF Leads
  <2>12. Len(text') = Len(text) + 1
    BY ONLY <1>2, <2>1, <2>2, SMT
  <2>13. Cardinality(Accepting(f, pos)) = Len(text')
    BY ONLY <1>9, <1>12, <2>1, <2>11, <2>12, SMT
  <2> HIDE DEF f
  <2> QED BY ONLY <1>14, <2>10, <2>11, <2>13, SMT DEF AsRead
<1> QED BY <1>1, <1>15, <1>16, <1>17, Zenon

LEMMA EndsAt ==
  ASSUME Decoder, ~sized, enc = "utf8", ReadSoFar, pos > Len(units) \/ units[pos] = 0
  PROVE  Terminated(units) = pos - 1
<1>1. units \in Seq(UnitsOf("utf8")) /\ pos \in Nat \ {0} /\ pos <= Len(units) + 1 /\ Len(units) \in Nat
  BY SMT DEF Decoder, Typed, Cursor, Unterminated
<1>2. pos \in 1 .. Len(units) + 1 /\ (pos = Len(units) + 1 \/ units[pos] = 0)
  BY <1>1, SMT
<1>3. \A i \in 1 .. pos - 1 : units[i] # 0
  BY Zenon DEF ReadSoFar
<1> QED BY ONLY <1>1, <1>2, <1>3, TerminatedIs, Zenon

LEMMA KeptAtEnd ==
  ASSUME Decoder, ~sized, enc = "utf8", ReadSoFar, pos > Len(units) \/ units[pos] = 0,
         Validate(units)
  PROVE  Kept(units, Encoded(text, "utf8"))
<1> DEFINE e == Encoded(text, "utf8")
           u == Begun(state, codep)
<1>1. Terminated(units) = pos - 1
  BY EndsAt, Zenon
<1>2. StatesOf(units)[pos - 1] # 1
  BY <1>1, SMT DEF Validate, REJECT
<1>3. Matches(units, pos - 1, e \o u)
  BY <1>2, Zenon DEF ReadSoFar, AsRead
<1>4. units \in Seq(UnitsOf("utf8")) /\ pos \in Nat \ {0} /\ Len(units) \in Nat
      /\ state \in States /\ Bits(state, codep) /\ pos <= Len(units) + 1
  BY SMT DEF Decoder, Typed, Cursor, Unterminated
<1>5. e \in Seq(Int) /\ u \in Seq(Int) /\ Len(u) \in 0 .. 3
  BY <1>4, EncodedType, BegunType, Zenon
<1> HIDE DEF e, u
<1>6. /\ Len(e) \in Nat /\ Len(e) + Len(u) = pos - 1 /\ Len(e) <= Len(units)
      /\ \A i \in 1 .. Len(e) : e[i] = units[i]
  <2>1. /\ Len(e \o u) = pos - 1 /\ pos - 1 <= Len(units)
        /\ \A i \in 1 .. pos - 1 : (e \o u)[i] = units[i]
    BY <1>3, Zenon DEF Matches
  <2>2. Len(e \o u) = Len(e) + Len(u) /\ \A i \in 1 .. Len(e) : (e \o u)[i] = e[i]
    BY ONLY <1>5, SMT
  <2>3. Len(e) \in Nat
    BY ONLY <1>5, SMT
  <2>4. Len(u) \in Nat /\ pos - 1 = Len(e) + Len(u)
    BY ONLY <1>5, <2>1, <2>2, SMT
  <2>5. Len(e) <= pos - 1
    BY ONLY <2>3, <2>4, SMT
  <2>6. Len(e) <= Len(units)
    BY ONLY <1>4, <2>1, <2>3, <2>5, SMT
  <2>7. \A i \in 1 .. Len(e) : i \in 1 .. pos - 1
    BY ONLY <1>4, <2>3, <2>5, SMT
  <2> QED BY ONLY <2>1, <2>2, <2>3, <2>4, <2>6, <2>7, Zenon
<1>7. SubSeq(e, 1, Len(e)) = SubSeq(units, 1, Len(e))
  <2>1. SubSeq(e, 1, Len(e)) = [i \in 1 .. Len(e) |-> e[i]]
    BY ONLY <1>5, <1>6, SMT
  <2>2. SubSeq(units, 1, Len(e)) = [i \in 1 .. Len(e) |-> units[i]]
    BY ONLY <1>4, <1>6, SMT
  <2> QED BY ONLY <1>6, <2>1, <2>2, SMT
<1>8. IsPrefix(e, units)
  BY <1>6, <1>7, Zenon DEF IsPrefix
<1>9. Len(units) <= Len(e) + 3 \/ \E i \in Len(e) + 1 .. Len(e) + 4 : units[i] = 0
  <2> DEFINE m == Len(e)
             l == Len(u)
             n == Len(units)
  <2>3. /\ m \in Nat /\ l \in 0 .. 3 /\ n \in Nat /\ pos \in Nat
        /\ m + l = pos - 1 /\ pos <= n + 1
    BY ONLY <1>4, <1>5, <1>6, SMT
  <2> HIDE DEF m, l, n
  <2>1. CASE pos > Len(units)
    <3>1. n <= m + 3
      BY ONLY <2>1, <2>3, SMT DEF n
    <3> QED BY ONLY <3>1, Zenon DEF n, m
  <2>2. CASE units[pos] = 0
    <3>1. pos \in Len(e) + 1 .. Len(e) + 4
      <4>1. pos \in m + 1 .. m + 4
        BY ONLY <2>3, SMT
      <4> QED BY ONLY <4>1, Zenon DEF m
    <3> QED BY ONLY <2>2, <3>1, Zenon
  <2> QED BY <2>1, <2>2
<1>10. Kept(units, e)
  BY ONLY <1>8, <1>9, Zenon DEF Kept
<1> QED BY <1>10, Zenon DEF e

LEMMA LookedStep ==
  ASSUME Decoder, ~sized, Looked, [Next]_vars
  PROVE  Looked'
<1>1. CASE Utf8Byte
  <2>1. /\ enc = "utf8"
        /\ UNCHANGED <<enc, units, phase, source, sourceEnc, sourceText>>
        /\ phase \in {"decoding", "again"}
    BY <1>1, Utf8ByteDoes, SMT DEF Utf8Byte, Decoding, Unterminated
  <2>2. phase = "decoding" => ReadSoFar'
    BY <1>1, <2>1, ReadsSoFar, SMT DEF Looked
  <2> QED BY <2>1, <2>2, SMT DEF Looked
<1>2. CASE Utf16Char
  <2>1. /\ enc = "utf16"
        /\ UNCHANGED <<enc, units, phase, source, sourceEnc, sourceText>>
        /\ phase \in {"decoding", "again"}
    BY <1>2, Utf16CharDoes, SMT DEF Utf16Char, Decoding
  <2> QED BY <2>1, SMT DEF Looked
<1>3. CASE MeetZero \/ EndSource
  <2>1. /\ phase \in {"decoding", "again"}
        /\ pos > Len(units) \/ units[pos] = 0
        /\ IF phase = "decoding" THEN phase' = "decoded" /\ sourceText' = text
                                 ELSE phase' = "done" /\ UNCHANGED sourceText
        /\ UNCHANGED <<enc, units, pos, state, codep, text, source, sourceEnc>>
    BY <1>3, EndsDo, Zenon
  <2>2. CASE phase = "decoding"
    <3>1. phase' = "decoded" /\ sourceText' = text /\ text' = text
      BY <2>1, <2>2
    <3>2. source = units /\ sourceEnc = enc /\ (enc = "utf8" => ReadSoFar)
      BY <2>2, SMT DEF Looked
    <3>3. enc = "utf8" => ReadSoFar'
      BY ONLY <2>1, <3>2, SMT DEF ReadSoFar, AsRead
    <3>4. enc = "utf8" /\ Validate(source) => Kept(source, Encoded(text, "utf8"))
      BY <2>1, <3>2, KeptAtEnd, SMT
    <3> QED BY ONLY <2>1, <3>1, <3>2, <3>3, <3>4, SMT DEF Looked
  <2>3. CASE phase = "again"
    <3>1. phase' = "done" /\ sourceText' = sourceText
      BY <2>1, <2>3, SMT
    <3>2. sourceEnc = "utf8" /\ Validate(source) => Kept(source, Encoded(sourceText, "utf8"))
      BY <2>3, SMT DEF Looked
    <3> QED BY ONLY <2>1, <3>1, <3>2, SMT DEF Looked
  <2> QED BY <2>1, <2>2, <2>3, SMT
<1>4. ASSUME NEW to \in {"utf8", "utf16"}, EncodeText(to) PROVE Looked'
  <2>1. /\ phase = "decoded" /\ enc' = to /\ units' = Encoded(text, to)
        /\ phase' = "again" /\ UNCHANGED <<source, sourceEnc, sourceText>>
    BY <1>4, SMT DEF EncodeText, history
  <2>2. /\ sourceText = text
        /\ sourceEnc = "utf8" /\ Validate(source) => Kept(source, Encoded(sourceText, "utf8"))
    BY <2>1, SMT DEF Looked
  <2> QED BY ONLY <2>1, <2>2, SMT DEF Looked
<1>5. CASE UNCHANGED vars
  <2>1. UNCHANGED <<enc, units, pos, state, codep, text, phase, source, sourceEnc, sourceText>>
    BY <1>5, Zenon DEF vars
  <2>2. ReadSoFar => ReadSoFar'
    BY ONLY <2>1, SMT DEF ReadSoFar, AsRead
  <2> QED BY ONLY Looked, <2>1, <2>2, SMT DEF Looked
<1> QED BY <1>1, <1>2, <1>3, <1>4, <1>5, Zenon DEF Next

LEMMA InitLooked ==
  ASSUME Init, Decoder
  PROVE  Looked
<1>1. /\ source = units /\ sourceEnc = enc /\ text = <<>> /\ pos = 1 /\ state = 0 /\ codep = 0
      /\ phase = "decoding"
  <2>1. Init
    OBVIOUS
  <2> QED BY ONLY <2>1, Zenon DEF Init
<1>2. Len(units) \in Nat
  BY SMT DEF Decoder, Typed
<1>3. StatesOf(units)[0] = 0
  BY <1>2, StatesOfIs, Zenon
<1>4. Encoded(<<>>, "utf8") = <<>>
  <2>1. text \in Seq(Chars) /\ 1 \in Chars
    BY SMT DEF Decoder, Typed, Chars
  <2> QED BY ONLY <2>1, EncodedAppend, Zenon
<1>5. Begun(state, codep) = <<>>
  BY <1>1, SMT DEF Begun
<1>6. Encoded(text, "utf8") \o Begun(state, codep) = <<>>
  <2>1. Encoded(text, "utf8") = <<>>
    BY <1>1, <1>4
  <2>2. <<>> \o <<>> = <<>>
    BY ONLY SMT
  <2> QED BY ONLY <1>5, <2>1, <2>2, Zenon
<1>7. pos - 1 = 0
  BY <1>1, SMT
<1>8. Matches(units, 0, <<>>)
  BY ONLY <1>2, SMT DEF Matches
<1>9. Cardinality(Accepting(StatesOf(units), 0)) = 0 /\ Len(text) = 0
  <2>1. 0 \in Nat
    OBVIOUS
  <2>2. Cardinality(Accepting(StatesOf(units), 0)) = 0
    BY ONLY <2>1, CountNext, Zenon
  <2> QED BY <1>1, <2>2, SMT
<1>10. AsRead
  <2>1. state = StatesOf(units)[pos - 1]
    BY ONLY <1>1, <1>3, <1>7, Zenon
  <2>2. Matches(units, pos - 1, Encoded(text, "utf8") \o Begun(state, codep))
    BY ONLY <1>6, <1>7, <1>8, Zenon
  <2>3. Cardinality(Accepting(StatesOf(units), pos - 1)) = Len(text)
    BY ONLY <1>7, <1>9, Zenon
  <2> QED BY ONLY <2>1, <2>2, <2>3, Zenon DEF AsRead
<1>11. ReadSoFar
  BY ONLY <1>7, <1>10, SMT DEF ReadSoFar
<1> QED BY ONLY <1>1, <1>11, SMT DEF Looked

\* What Validate accepts is kept: decoded and written as UTF-8 again it is the
\* source, up to a zero or an unfinished sequence at its end.
THEOREM ValidIsKept == Spec => []ValidIsLossless
<1>1. Init /\ Decoder => sized \/ Looked
  BY InitLooked
<1>2. Decoder /\ (sized \/ Looked) /\ [Next]_vars => (sized \/ Looked)'
  BY LookedStep, SizedStays
<1>3. sized \/ Looked => ValidIsLossless
  BY SMT DEF Looked, ValidIsLossless, Kept
<1> QED BY <1>1, <1>2, <1>3, DecoderInvariant, PTL DEF Spec

-----------------------------------------------------------------------------
(* Counting what would be decoded.                                         *)

\* The characters from i on, if f are those from the positions behind it.
CharsFrom(us, f, i) ==
  IF i = Len(us) + 2 THEN Overrun
  ELSE IF i = Len(us) + 1 \/ us[i] = 0 THEN 0
  ELSE LET rest == f[i + CharLength(us[i])]
       IN IF rest = Overrun THEN Overrun ELSE rest + 1

CharsTo(us, n, f) ==
  f = [i \in Len(us) + 2 - n .. Len(us) + 2 |-> CharsFrom(us, f, i)]

\* CharsFrom looks only at f behind i.
LEMMA LooksBehind ==
  ASSUME NEW us, Len(us) \in Nat, NEW f, NEW g, NEW m \in 1 .. Len(us) + 2,
         NEW i \in m .. Len(us) + 2, \A j \in i + 1 .. Len(us) + 2 : f[j] = g[j]
  PROVE  CharsFrom(us, f, i) = CharsFrom(us, g, i)
<1>1. CASE i >= Len(us) + 1
  BY <1>1 DEF CharsFrom
<1>2. CASE i < Len(us) + 1
  <2>1. CharLength(us[i]) \in {1, 2}
    BY SMT DEF CharLength
  <2> DEFINE j == i + CharLength(us[i])
  <2>2. j \in i + 1 .. Len(us) + 2
    BY <1>2, <2>1
  <2>3. f[j] = g[j]
    BY <2>2
  <2> QED BY <2>3, Zenon DEF CharsFrom
<1> QED BY <1>1, <1>2

LEMMA CharsExist ==
  ASSUME NEW us, Len(us) \in Nat
  PROVE  \E f : CharsTo(us, Len(us) + 1, f)
<1> DEFINE l == Len(us)
           T == {n \in Nat : n <= l + 1 => \E f : CharsTo(us, n, f)}
<1>1. 0 \in T
  <2> DEFINE f == [i \in l + 2 .. l + 2 |-> Overrun]
  <2>1. f = [i \in l + 2 - 0 .. l + 2 |-> CharsFrom(us, f, i)]
    <3>1. \A i \in l + 2 .. l + 2 : CharsFrom(us, f, i) = Overrun
      <4> TAKE i \in l + 2 .. l + 2
      <4>1. i = l + 2
        OBVIOUS
      <4> HIDE DEF f
      <4> QED BY <4>1, Zenon DEF CharsFrom
    <3>2. l + 2 - 0 = l + 2
      OBVIOUS
    <3> QED BY <3>1, <3>2
  <2> HIDE DEF f
  <2>2. \E g : CharsTo(us, 0, g)
    BY <2>1, Zenon DEF CharsTo
  <2> QED BY <2>2
<1>2. ASSUME NEW n \in Nat, n \in T PROVE n + 1 \in T
  <2> SUFFICES ASSUME n + 1 <= l + 1 PROVE \E f : CharsTo(us, n + 1, f)
    OBVIOUS
  <2>1. PICK f : f = [i \in l + 2 - n .. l + 2 |-> CharsFrom(us, f, i)]
    <3>1. \E f : CharsTo(us, n, f)
      BY <1>2
    <3> QED BY <3>1, Zenon DEF CharsTo
  <2> DEFINE m == l + 2 - (n + 1)
             v == [i \in m .. l + 2 |-> IF i = m THEN CharsFrom(us, f, m) ELSE f[i]]
  <2>2. m \in 1 .. l + 1 /\ l + 2 - n = m + 1 /\ m \in m .. l + 2
    OBVIOUS
  <2>3. \A j \in m + 1 .. l + 2 : j # m /\ j \in m .. l + 2 /\ v[j] = f[j]
    OBVIOUS
  <2>4. v[m] = CharsFrom(us, f, m)
    BY <2>2
  <2>5. v = [i \in m .. l + 2 |-> v[i]]
    OBVIOUS
  <2> HIDE DEF v, m
  <2>6. ASSUME NEW i \in m .. l + 2 PROVE v[i] = CharsFrom(us, v, i)
    <3>1. \A j \in i + 1 .. l + 2 : v[j] = f[j]
      BY <2>2, <2>3
    <3>2. CharsFrom(us, v, i) = CharsFrom(us, f, i)
      BY <2>2, <3>1, LooksBehind
    <3>3. CASE i = m
      BY <2>4, <3>2, <3>3
    <3>4. CASE i # m
      <4>1. i \in m + 1 .. l + 2
        BY <2>2, <3>4
      <4>2. f[i] = CharsFrom(us, f, i)
        BY <2>1, <2>2, <4>1
      <4> QED BY <2>3, <3>2, <4>1, <4>2
    <3> QED BY <3>3, <3>4
  <2>7. v = [i \in m .. l + 2 |-> CharsFrom(us, v, i)]
    BY <2>5, <2>6
  <2>8. CharsTo(us, n + 1, v)
    BY <2>7, Zenon DEF CharsTo, m
  <2> QED BY <2>8, Zenon
<1>3. Nat \subseteq T
  <2> HIDE DEF T
  <2> QED BY <1>1, <1>2, Counting
<1>4. l + 1 \in Nat /\ l + 1 <= l + 1
  OBVIOUS
<1> QED BY <1>3, <1>4

\* f are the numbers of characters from each position on, as Utf16Length has them.
Lengths(us, f) ==
  /\ Utf16Length(us) = f[1]
  /\ \A i \in 1 .. Len(us) + 2 : f[i] = CharsFrom(us, f, i)
  /\ \A i \in 1 .. Len(us) + 2 : f[i] \in Nat \/ f[i] = Overrun

LEMMA LengthsExist ==
  ASSUME NEW us, Len(us) \in Nat
  PROVE  \E f : Lengths(us, f)
<1> DEFINE l == Len(us)
           g == CHOOSE g : g = [i \in 1 .. l + 2 |->
                    IF i = l + 2 THEN Overrun
                    ELSE IF i = l + 1 \/ us[i] = 0 THEN 0
                    ELSE LET rest == g[i + CharLength(us[i])]
                         IN IF rest = Overrun THEN Overrun ELSE rest + 1]
<1>1. Utf16Length(us) = g[1]
  BY DEF Utf16Length
<1>2. \E h : h = [i \in 1 .. l + 2 |->
                    IF i = l + 2 THEN Overrun
                    ELSE IF i = l + 1 \/ us[i] = 0 THEN 0
                    ELSE LET rest == h[i + CharLength(us[i])]
                         IN IF rest = Overrun THEN Overrun ELSE rest + 1]
  <2>1. PICK h : CharsTo(us, l + 1, h)
    BY CharsExist
  <2>2. l + 2 - (l + 1) = 1
    OBVIOUS
  <2>3. h = [i \in 1 .. l + 2 |-> CharsFrom(us, h, i)]
    BY <2>1, <2>2, Zenon DEF CharsTo
  <2> QED BY <2>3, Zenon DEF CharsFrom
<1>3. g = [i \in 1 .. l + 2 |->
                    IF i = l + 2 THEN Overrun
                    ELSE IF i = l + 1 \/ us[i] = 0 THEN 0
                    ELSE LET rest == g[i + CharLength(us[i])]
                         IN IF rest = Overrun THEN Overrun ELSE rest + 1]
  BY <1>2, Zenon
<1> HIDE DEF g
<1>4. \A i \in 1 .. l + 2 : g[i] = CharsFrom(us, g, i)
  BY <1>3, Zenon DEF CharsFrom
<1> DEFINE T == {n \in Nat : \A i \in 1 .. l + 2 : i >= l + 2 - n => g[i] \in Nat \/ g[i] = Overrun}
<1>5. 0 \in T
  <2>1. ASSUME NEW i \in 1 .. l + 2, i >= l + 2 - 0 PROVE g[i] = Overrun
    <3>1. i = l + 2
      BY <2>1
    <3> QED BY <1>4, <3>1, Zenon DEF CharsFrom
  <2> QED BY <2>1
<1>6. ASSUME NEW n \in Nat, n \in T PROVE n + 1 \in T
  <2>1. ASSUME NEW i \in 1 .. l + 2, i >= l + 2 - (n + 1) PROVE g[i] \in Nat \/ g[i] = Overrun
    <3>1. g[i] = CharsFrom(us, g, i)
      BY <1>4
    <3>2. CASE i >= l + 1 \/ us[i] = 0
      BY <3>1, <3>2 DEF CharsFrom
    <3>3. CASE i < l + 1 /\ us[i] # 0
      <4>1. CharLength(us[i]) \in {1, 2}
        BY SMT DEF CharLength
      <4> DEFINE j == i + CharLength(us[i])
      <4>2. j \in 1 .. l + 2 /\ j >= l + 2 - n
        BY <2>1, <3>3, <4>1
      <4>3. g[j] \in Nat \/ g[j] = Overrun
        BY <1>6, <4>2
      <4>4. g[i] = IF g[j] = Overrun THEN Overrun ELSE g[j] + 1
        BY <3>1, <3>3 DEF CharsFrom
      <4> HIDE DEF j
      <4> QED BY <4>3, <4>4
    <3> QED BY <3>2, <3>3
  <2> QED BY <2>1
<1>7. Nat \subseteq T
  <2> HIDE DEF T
  <2> QED BY <1>5, <1>6, Counting
<1>8. ASSUME NEW i \in 1 .. l + 2 PROVE g[i] \in Nat \/ g[i] = Overrun
  <2>1. l + 2 \in T /\ i >= l + 2 - (l + 2)
    <3>1. l + 2 \in Nat /\ i >= l + 2 - (l + 2)
      OBVIOUS
    <3> HIDE DEF T
    <3> QED BY <1>7, <3>1
  <2> QED BY <2>1
<1>9. Lengths(us, g)
  BY <1>1, <1>4, <1>8 DEF Lengths
<1> QED BY <1>9, Zenon

LengthsOf(us) == CHOOSE f : Lengths(us, f)

\* What Utf16Length counts is behind the decoder, or decoded.
CountedSoFar(f) ==
  /\ f[1] = IF f[pos] = Overrun THEN Overrun ELSE f[pos] + Len(text)
  /\ phase = "decoding" => read = pos - 1
  /\ phase = "decoded" => (read > Len(units) <=> pos = Len(units) + 2)

Counted ==
  phase \in {"decoding", "decoded"} /\ enc = "utf16" => CountedSoFar(LengthsOf(units))

LEMMA LengthsAre ==
  ASSUME Decoder, ~sized
  PROVE  /\ Utf16Length(units) = LengthsOf(units)[1]
         /\ pos \in 1 .. Len(units) + 2
         /\ LengthsOf(units)[pos] = CharsFrom(units, LengthsOf(units), pos)
         /\ \A i \in 1 .. Len(units) + 2 : LengthsOf(units)[i] \in Nat \/ LengthsOf(units)[i] = Overrun
<1>1. Len(units) \in Nat /\ pos \in 1 .. Len(units) + 2
  BY SMT DEF Decoder, Typed, Cursor, Unterminated
<1>2. \E f : Lengths(units, f)
  BY <1>1, LengthsExist, Zenon
<1>3. Lengths(units, LengthsOf(units))
  BY <1>2, Zenon DEF LengthsOf
<1> QED BY ONLY <1>1, <1>3, Zenon DEF Lengths

LEMMA CountsOn ==
  ASSUME Decoder, ~sized, Counted, Utf16Char
  PROVE  Counted'
<1> DEFINE f == LengthsOf(units)
           n == CharLength(units[pos])
<1>1. /\ enc = "utf16" /\ pos \in 1..Len(units) /\ units[pos] # 0
      /\ \E c \in Chars : text' = Append(text, c)
      /\ n \in {1, 2}
      /\ read' = pos + n - 1 /\ pos' = pos + n
      /\ UNCHANGED <<enc, units, phase>>
  BY Utf16CharDoes, Zenon
<1>2. phase \in {"decoding", "again"}
  BY SMT DEF Utf16Char, Decoding
<1>3. f[pos] = CharsFrom(units, f, pos)
      /\ \A i \in 1 .. Len(units) + 2 : f[i] \in Nat \/ f[i] = Overrun
  BY LengthsAre, Zenon
<1>4. Len(units) \in Nat /\ pos \in Nat /\ text \in Seq(Chars)
  BY SMT DEF Decoder, Typed
<1>5. Len(text') = Len(text) + 1 /\ Len(text) \in Nat
  BY ONLY <1>1, <1>4, SMT
<1> HIDE DEF n
<1>6. f[pos] = IF f[pos'] = Overrun THEN Overrun ELSE f[pos'] + 1
  <2>1. pos # Len(units) + 2 /\ ~(pos = Len(units) + 1 \/ units[pos] = 0)
    BY ONLY <1>1, <1>4, SMT
  <2>2. CharsFrom(units, f, pos) = IF f[pos + n] = Overrun THEN Overrun ELSE f[pos + n] + 1
    BY ONLY <2>1, Zenon DEF CharsFrom, n
  <2> QED BY ONLY <1>1, <1>3, <2>2, Zenon
<1>7. pos' \in 1 .. Len(units) + 2 /\ (f[pos'] \in Nat \/ f[pos'] = Overrun)
  BY ONLY <1>1, <1>3, <1>4, SMT
<1>8. f[1] \in Nat \/ f[1] = Overrun
  BY ONLY <1>3, <1>4, SMT
<1>9. ASSUME phase = "decoding" PROVE CountedSoFar(f)'
  <2>1. CountedSoFar(f)
    BY <1>1, <1>9, SMT DEF Counted
  <2>2. f' = f /\ units' = units /\ phase' = "decoding" /\ read' = pos' - 1
    <3>1. f' = f /\ units' = units /\ phase' = "decoding"
      BY ONLY <1>1, <1>9, Zenon
    <3>2. read' = pos' - 1
      BY ONLY <1>1, <1>4, SMT
    <3> QED BY <3>1, <3>2
  <2> HIDE DEF f
  <2>3. f[1] = IF f[pos] = Overrun THEN Overrun ELSE f[pos] + Len(text)
    BY ONLY <2>1, Zenon DEF CountedSoFar
  <2>4. f[1] = IF f[pos'] = Overrun THEN Overrun ELSE f[pos'] + Len(text')
    BY ONLY <1>5, <1>6, <1>7, <2>3, SMT DEF Overrun
  <2> QED BY ONLY <2>2, <2>4, SMT DEF CountedSoFar
<1>10. (phase \in {"decoding", "decoded"} /\ enc = "utf16")' => phase = "decoding"
  BY ONLY <1>1, <1>2, SMT
<1> QED BY ONLY <1>9, <1>10, Zenon DEF Counted

LEMMA CountedStep ==
  ASSUME Decoder, ~sized, Counted, [Next]_vars
  PROVE  Counted'
<1>1. CASE Utf8Byte
  <2>1. enc = "utf8" /\ enc' = enc
    BY <1>1, Utf8ByteDoes, SMT DEF Unterminated
  <2> QED BY <2>1, SMT DEF Counted
<1>2. CASE Utf16Char
  BY <1>2, CountsOn
<1>3. CASE MeetZero \/ EndSource
  <2>1. /\ phase \in {"decoding", "again"}
        /\ pos > Len(units) \/ units[pos] = 0
        /\ IF phase = "decoding" THEN phase' = "decoded" ELSE phase' = "done"
        /\ UNCHANGED <<enc, units, pos, state, codep, text, source, sourceEnc>>
        /\ \/ read' = pos /\ (state # 0 \/ pos <= Len(units))
           \/ read' = read /\ state = 0 /\ pos > Len(units)
    BY <1>3, EndsDo, Zenon
  <2>2. ASSUME phase = "decoding", enc = "utf16" PROVE CountedSoFar(LengthsOf(units))'
    <3>1. state = 0 /\ pos \in Nat /\ read \in Nat /\ Len(units) \in Nat /\ pos <= Len(units) + 2
      BY <2>2, SMT DEF Decoder, Typed, Cursor
    <3> DEFINE f == LengthsOf(units)
    <3>2. CountedSoFar(f)
      BY <2>2, Zenon DEF Counted
    <3>3. f' = f
      BY ONLY <2>1, Zenon
    <3> HIDE DEF f
    <3>4. read = pos - 1
      BY ONLY <2>2, <3>2, SMT DEF CountedSoFar
    <3>5. read' > Len(units) <=> pos = Len(units) + 2
      BY ONLY <2>1, <3>1, <3>4, SMT
    <3>6. CountedSoFar(f)'
      BY ONLY <2>1, <2>2, <3>2, <3>3, <3>5, SMT DEF CountedSoFar
    <3> QED BY <3>6, Zenon DEF f
  <2>3. (phase \in {"decoding", "decoded"} /\ enc = "utf16")' => phase = "decoding" /\ enc = "utf16"
    BY ONLY <2>1, SMT
  <2> QED BY ONLY <2>2, <2>3, Zenon DEF Counted
<1>4. ASSUME NEW to \in {"utf8", "utf16"}, EncodeText(to) PROVE Counted'
  <2>1. phase' = "again"
    BY <1>4, SMT DEF EncodeText
  <2> QED BY ONLY <2>1, SMT DEF Counted
<1>5. CASE UNCHANGED vars
  <2>1. UNCHANGED <<enc, units, pos, read, text, phase>>
    BY <1>5, Zenon DEF vars
  <2> QED BY ONLY Counted, <2>1, Zenon DEF Counted, CountedSoFar
<1> QED BY <1>1, <1>2, <1>3, <1>4, <1>5, Zenon DEF Next

LEMMA InitCounted ==
  ASSUME Init, Decoder, ~sized
  PROVE  Counted
<1>1. text = <<>> /\ pos = 1 /\ read = 0 /\ phase = "decoding"
  <2>1. Init
    OBVIOUS
  <2> QED BY ONLY <2>1, Zenon DEF Init
<1> DEFINE f == LengthsOf(units)
<1>2. Len(units) \in Nat
  BY SMT DEF Decoder, Typed
<1>3. f[1] \in Nat \/ f[1] = Overrun
  <2>1. 1 \in 1 .. Len(units) + 2
    BY <1>2, SMT
  <2> QED BY <2>1, LengthsAre, Zenon
<1> HIDE DEF f
<1>4. CountedSoFar(f)
  BY ONLY <1>1, <1>3, SMT DEF CountedSoFar
<1> QED BY <1>4, Zenon DEF Counted, f

LEMMA CountsUtf16 ==
  ASSUME Decoder, ~sized, Counted, phase = "decoded", enc = "utf16"
  PROVE  Utf16Length(units) = IF read > Len(units) THEN Overrun ELSE Len(text)
<1> DEFINE f == LengthsOf(units)
<1>1. Utf16Length(units) = f[1] /\ f[pos] = CharsFrom(units, f, pos) /\ pos \in 1 .. Len(units) + 2
  BY LengthsAre, Zenon
<1>2. CountedSoFar(f)
  BY SMT DEF Counted
<1>3. Len(units) \in Nat /\ (pos > Len(units) \/ units[pos] = 0) /\ Len(text) \in Nat
  BY SMT DEF Decoder, Typed, Cursor
<1> HIDE DEF f
<1>4. f[pos] = IF pos = Len(units) + 2 THEN Overrun ELSE 0
  BY ONLY <1>1, <1>3, SMT DEF CharsFrom
<1>5. read > Len(units) <=> pos = Len(units) + 2
  BY ONLY <1>2, phase = "decoded", SMT DEF CountedSoFar
<1>6. f[1] = IF f[pos] = Overrun THEN Overrun ELSE f[pos] + Len(text)
  BY ONLY <1>2, Zenon DEF CountedSoFar
<1> QED BY ONLY <1>1, <1>3, <1>4, <1>5, <1>6, SMT DEF Overrun

LEMMA CountsUtf8 ==
  ASSUME Decoder, ~sized, Looked, phase = "decoded", enc = "utf8", Validate(units)
  PROVE  Utf8Length(units) = IF state = ACCEPT THEN -1 ELSE Len(text)
<1> DEFINE g == StatesOf(units)
<1>1. ReadSoFar /\ (pos > Len(units) \/ units[pos] = 0)
  BY SMT DEF Looked, Decoder, Cursor
<1>2. Terminated(units) = pos - 1
  BY <1>1, EndsAt, Zenon
<1>3. g[pos - 1] # 1
  BY <1>2, SMT DEF Validate, REJECT
<1>4. state = g[pos - 1] /\ Cardinality(Accepting(g, pos - 1)) = Len(text)
  BY <1>1, <1>3, Zenon DEF ReadSoFar, AsRead
<1>5. Utf8Length(units) = IF g[pos - 1] # 0 THEN Cardinality(Accepting(g, pos - 1)) ELSE -1
  BY ONLY <1>2, Zenon DEF Utf8Length, Accepting, ACCEPT
<1> HIDE DEF g
<1> QED BY ONLY <1>4, <1>5, SMT DEF ACCEPT

\* UnicodeLength of UTF-16 is the number of characters that are decoded, and steps over
\* the terminator where the decoder does; that of UTF-8 counts them only in an unfinished
\* text, and calls every other one -1 long.
THEOREM LengthsCount == Spec => []CountsChars
<1>1. Init /\ Decoder => sized \/ (Looked /\ Counted)
  BY InitLooked, InitCounted
<1>2. Decoder /\ (sized \/ (Looked /\ Counted)) /\ [Next]_vars => (sized \/ (Looked /\ Counted))'
  BY LookedStep, CountedStep, SizedStays
<1>3. Decoder /\ (sized \/ (Looked /\ Counted)) => CountsChars
  <2> SUFFICES ASSUME Decoder, ~sized, Looked, Counted, phase = "decoded" PROVE
        /\ sourceEnc = "utf16" =>
              Utf16Length(source) = IF read > Len(source) THEN Overrun ELSE Len(sourceText)
        /\ sourceEnc = "utf8" /\ Validate(source) =>
              Utf8Length(source) = IF state = ACCEPT THEN -1 ELSE Len(sourceText)
    BY Zenon DEF CountsChars
  <2>1. source = units /\ sourceEnc = enc /\ sourceText = text
    BY SMT DEF Looked
  <2>2. enc = "utf16" => Utf16Length(units) = IF read > Len(units) THEN Overrun ELSE Len(text)
    BY CountsUtf16, Zenon
  <2>3. enc = "utf8" /\ Validate(units) => Utf8Length(units) = IF state = ACCEPT THEN -1 ELSE Len(text)
    BY CountsUtf8, Zenon
  <2> QED BY ONLY <2>1, <2>2, <2>3, Zenon
<1> QED BY <1>1, <1>2, <1>3, DecoderInvariant, PTL DEF Spec

-----------------------------------------------------------------------------
(* Numbers.                                                                *)

LEMMA Remainder ==
  ASSUME NEW x \in Int, NEW m \in Nat \ {0}
  PROVE  x % m \in 0 .. m - 1 /\ x = (x \div m) * m + (x % m) /\ x \div m \in Int
BY SMT

LEMMA SameRemainder ==
  ASSUME NEW m \in Nat \ {0}, NEW q \in Int, NEW r \in 0 .. m - 1
  PROVE  (q * m + r) % m = r
<1> DEFINE x == q * m + r
           p == x \div m
           s == x % m
<1>1. x \in Int
  OBVIOUS
<1>2. s \in 0 .. m - 1 /\ x = p * m + s /\ p \in Int
  <2> HIDE DEF x
  <2> QED BY ONLY <1>1, m \in Nat \ {0}, Remainder
<1>3. x = q * m + r
  OBVIOUS
<1> HIDE DEF x, p, s
<1>4. CASE p = q
  <2> DEFINE y == q * m
  <2>1. p * m = y
    BY <1>4, Zenon
  <2>2. y \in Int /\ x = y + s /\ x = y + r
    BY <1>2, <1>3, <2>1
  <2> HIDE DEF y
  <2> QED BY <1>2, <2>2
<1>5. CASE p >= q + 1
  <2>1. p * m >= q * m + m
    BY <1>2, <1>5, SMT
  <2> QED BY <1>2, <1>3, <2>1
<1>6. CASE p <= q - 1
  <2>1. p * m <= q * m - m
    BY <1>2, <1>6, SMT
  <2> QED BY <1>2, <1>3, <2>1
<1>7. p = q \/ p >= q + 1 \/ p <= q - 1
  BY <1>2
<1> QED BY <1>4, <1>5, <1>6, <1>7 DEF s, x

LEMMA OneInRange ==
  ASSUME NEW m \in Nat \ {0}, NEW a \in Int, NEW b \in Int, NEW k \in Int, a - b = k * m,
         a - b < m, b - a < m
  PROVE  a = b
<1>1. CASE k >= 1
  <2>1. k * m >= m
    BY <1>1, SMT
  <2> QED BY <2>1
<1>2. CASE k <= -1
  <2>1. k * m <= -m
    BY <1>2, SMT
  <2> QED BY <2>1
<1>3. CASE k = 0
  BY <1>3
<1> QED BY <1>1, <1>2, <1>3

LEMMA NextDigit ==
  ASSUME NEW r \in Int, NEW w \in Int, NEW q \in Int, NEW m \in Int, NEW d \in Int,
         NEW k \in Int, NEW s \in Int, NEW v \in Int, v = 10 * w, r * v - s = k * m
  PROVE  (10 * r + d - q * m) * w - (s + d * w) = (k - q * w) * m
<1>1. r * (10 * w) - s = k * m
  OBVIOUS
<1>2. (10 * r + d - q * m) * w = (10 * r) * w + d * w - (q * m) * w
  BY SMT
<1>3. (10 * r) * w = r * (10 * w) /\ (q * m) * w = (q * w) * m
  BY SMT
<1>4. (k - q * w) * m = k * m - (q * w) * m
  BY SMT
<1> QED BY <1>1, <1>2, <1>3, <1>4

\* A recursive function on the first numbers exists.
Recurs(f, n, a, step) ==
  f \in [0 .. n -> Int] /\ f[0] = a /\ \A i \in 1 .. n : f[i] = step[i][f[i - 1]]

LEMMA Recursion ==
  ASSUME NEW n \in Nat, NEW a \in Int, NEW step \in [1 .. n -> [Int -> Int]]
  PROVE  \E f : Recurs(f, n, a, step)
<1> DEFINE T == {m \in Nat : m <= n => \E f : Recurs(f, m, a, step)}
<1>1. 0 \in T
  <2> DEFINE f == [i \in 0 .. 0 |-> a]
  <2>1. Recurs(f, 0, a, step)
    BY DEF Recurs
  <2> HIDE DEF f
  <2> QED BY <2>1
<1>2. ASSUME NEW m \in Nat, m \in T PROVE m + 1 \in T
  <2> SUFFICES ASSUME m + 1 <= n PROVE \E f : Recurs(f, m + 1, a, step)
    OBVIOUS
  <2>0. PICK f : Recurs(f, m, a, step)
    BY <1>2
  <2>1. f \in [0 .. m -> Int] /\ f[0] = a /\ \A i \in 1 .. m : f[i] = step[i][f[i - 1]]
    BY <2>0 DEF Recurs
  <2>2. m + 1 \in 1 .. n /\ m \in 0 .. m
    BY SMT
  <2> DEFINE x == step[m + 1][f[m]]
  <2>3. x \in Int
    <3>1. f[m] \in Int
      BY ONLY <2>1, <2>2, Zenon
    <3>2. step[m + 1] \in [Int -> Int]
      BY ONLY <2>2, step \in [1 .. n -> [Int -> Int]], Zenon
    <3> QED BY ONLY <3>1, <3>2, Zenon
  <2> DEFINE g == [i \in 0 .. m + 1 |-> IF i = m + 1 THEN x ELSE f[i]]
  <2> HIDE DEF x
  <2>4. g \in [0 .. m + 1 -> Int]
    <3>1. \A i \in 0 .. m : f[i] \in Int
      BY ONLY <2>1, Zenon
    <3> QED BY ONLY <2>3, <3>1, m \in Nat, SMT
  <2>5. g[m + 1] = x /\ \A i \in 0 .. m : g[i] = f[i]
    BY ONLY m \in Nat, SMT
  <2> HIDE DEF g
  <2> USE DEF x
  <2>6. g[0] = a
    <3>1. f[0] = a
      BY ONLY <2>1, Zenon
    <3>2. 0 \in 0 .. m
      BY ONLY m \in Nat, SMT
    <3> QED BY ONLY <2>5, <3>1, <3>2, Zenon
  <2>7. ASSUME NEW i \in 1 .. m + 1 PROVE g[i] = step[i][g[i - 1]]
    <3>1. CASE i = m + 1
      <4>1. i - 1 = m /\ m \in 0 .. m
        BY <3>1
      <4>2. g[i] = x /\ g[i - 1] = f[m]
        BY ONLY <2>5, <3>1, <4>1, Zenon
      <4> QED BY ONLY <4>1, <4>2, <3>1, Zenon DEF x
    <3>2. CASE i # m + 1
      <4>1. i \in 1 .. m /\ i \in 0 .. m /\ i - 1 \in 0 .. m
        BY <3>2
      <4> QED BY ONLY <2>1, <2>5, <4>1, Zenon
    <3> QED BY <3>1, <3>2
  <2>8. Recurs(g, m + 1, a, step)
    BY ONLY <2>4, <2>6, <2>7, Zenon DEF Recurs
  <2> QED BY <2>8
<1>3. Nat \subseteq T
  <2> HIDE DEF T
  <2> QED BY <1>1, <1>2, Counting
<1>4. n \in Nat /\ n <= n
  OBVIOUS
<1> QED BY <1>3, <1>4

\* What _parseBigInt has read before each place of t.
Reads(t, f) ==
  /\ \A i \in 0 .. Len(t) : f[i] \in Int
  /\ \A i \in 0 .. Len(t) :
       f[i] = IF i < FirstDigit(t) THEN 0 ELSE (10 * f[i - 1] + (t[i] - 48)) % LongRange

LEMMA FirstDigitIs ==
  ASSUME NEW t
  PROVE  FirstDigit(t) \in {1, 2}
BY SMT DEF FirstDigit

LEMMA LongRangeIs ==
  /\ LongRange \in Nat \ {0} /\ LongRange % 2 = 0
  /\ IntRange \in Nat \ {0} /\ IntRange % 2 = 0 /\ IntRange <= LongRange
<1>1. /\ IntRange \in Nat \ {0} /\ IntRange % 2 = 0 /\ IntRange <= LongRange
      /\ LongRange \in Nat /\ LongRange % 2 = 0
  BY ONLY EncodingAssumption, Zenon
<1> QED BY ONLY <1>1, SMT

LEMMA BigIntIs ==
  ASSUME NEW t \in Seq(Int)
  PROVE  \E f : /\ Reads(t, f)
                /\ ParseBigInt(t) =
                     IF t = <<>> \/ \E i \in FirstDigit(t) .. Len(t) : t[i] \notin Digits THEN None
                     ELSE IF t[1] = Minus THEN (LongRange - f[Len(t)]) % LongRange
                     ELSE f[Len(t)]
<1> DEFINE n == Len(t)
           d == FirstDigit(t)
           step == [i \in 1 .. n |-> [x \in Int |-> IF i < d THEN 0 ELSE (10 * x + (t[i] - 48)) % LongRange]]
           g == CHOOSE g : g = [i \in 0 .. n |-> IF i < d THEN 0
                                                 ELSE (10 * g[i - 1] + (t[i] - 48)) % LongRange]
<1>1. n \in Nat /\ d \in {1, 2} /\ LongRange \in Nat \ {0} /\ \A i \in 1 .. n : t[i] \in Int
  BY FirstDigitIs, LongRangeIs
<1>2. step \in [1 .. n -> [Int -> Int]]
  <2> HIDE DEF n, d
  <2>1. ASSUME NEW i \in 1 .. n, NEW x \in Int
        PROVE  (IF i < d THEN 0 ELSE (10 * x + (t[i] - 48)) % LongRange) \in Int
    BY ONLY <1>1, i \in 1 .. n, x \in Int, SMT
  <2> QED BY ONLY <2>1, SMT
<1>3. PICK f : Recurs(f, n, 0, step)
  <2> HIDE DEF n, step
  <2>1. n \in Nat /\ 0 \in Int
    BY ONLY <1>1, SMT
  <2> QED BY ONLY <2>1, <1>2, Recursion, Zenon
<1> HIDE DEF n, d
<1>4. f \in [0 .. n -> Int] /\ f[0] = 0
      /\ \A i \in 1 .. n : f[i] = IF i < d THEN 0 ELSE (10 * f[i - 1] + (t[i] - 48)) % LongRange
  <2>1. f \in [0 .. n -> Int] /\ f[0] = 0 /\ \A i \in 1 .. n : f[i] = step[i][f[i - 1]]
    BY ONLY <1>3, Zenon DEF Recurs
  <2>2. ASSUME NEW i \in 1 .. n
        PROVE  f[i] = IF i < d THEN 0 ELSE (10 * f[i - 1] + (t[i] - 48)) % LongRange
    <3>1. i - 1 \in 0 .. n
      BY ONLY i \in 1 .. n, <1>1, SMT
    <3>2. f[i - 1] \in Int
      BY ONLY <2>1, <3>1, Zenon
    <3>3. step[i][f[i - 1]] = IF i < d THEN 0 ELSE (10 * f[i - 1] + (t[i] - 48)) % LongRange
      BY ONLY <3>2, i \in 1 .. n, Zenon
    <3> QED BY ONLY <2>1, <3>3, i \in 1 .. n, Zenon
  <2> QED BY ONLY <2>1, <2>2, Zenon
<1>5. f = [i \in 0 .. n |-> IF i < d THEN 0 ELSE (10 * f[i - 1] + (t[i] - 48)) % LongRange]
  <2>1. ASSUME NEW i \in 0 .. n
        PROVE  f[i] = IF i < d THEN 0 ELSE (10 * f[i - 1] + (t[i] - 48)) % LongRange
    <3>1. CASE i = 0
      BY ONLY <1>1, <1>4, <3>1, SMT
    <3>2. CASE i # 0
      <4>1. i \in 1 .. n
        BY ONLY <1>1, <3>2, i \in 0 .. n, SMT
      <4> QED BY ONLY <1>4, <4>1, Zenon
    <3> QED BY <3>1, <3>2
  <2>2. f = [i \in 0 .. n |-> f[i]]
    BY ONLY <1>4, Zenon
  <2> QED BY ONLY <2>1, <2>2, Zenon
<1>6. g = [i \in 0 .. n |-> IF i < d THEN 0 ELSE (10 * g[i - 1] + (t[i] - 48)) % LongRange]
  BY ONLY <1>5, Zenon
<1>7. ParseBigInt(t) = IF t = <<>> \/ \E i \in FirstDigit(t) .. Len(t) : t[i] \notin Digits THEN None
                       ELSE IF t[1] = Minus THEN (LongRange - g[Len(t)]) % LongRange
                       ELSE g[Len(t)]
  BY ONLY Zenon DEF ParseBigInt, n, d
<1> HIDE DEF g, step
<1>8. \A i \in 0 .. n : g[i] = IF i < d THEN 0 ELSE (10 * g[i - 1] + (t[i] - 48)) % LongRange
  BY ONLY <1>6, Zenon
<1>9. \A i \in 0 .. n : g[i] \in Int
  <2> DEFINE T == {m \in Nat : m <= n => g[m] \in Int}
  <2>1. 0 \in T
    <3>1. 0 \in 0 .. n /\ 0 < d
      BY ONLY <1>1, SMT
    <3>2. g[0] = 0
      BY ONLY <1>8, <3>1, Zenon
    <3> QED BY ONLY <3>2, SMT
  <2>2. ASSUME NEW m \in Nat, m \in T PROVE m + 1 \in T
    <3> SUFFICES ASSUME m + 1 <= n PROVE g[m + 1] \in Int
      OBVIOUS
    <3>1. g[m] \in Int
      BY ONLY <1>1, <2>2, m + 1 <= n, SMT
    <3>2. m + 1 \in 0 .. n /\ (m + 1) - 1 = m /\ t[m + 1] \in Int
      BY ONLY <1>1, m \in Nat, m + 1 <= n, SMT
    <3>3. g[m + 1] = IF m + 1 < d THEN 0 ELSE (10 * g[m] + (t[m + 1] - 48)) % LongRange
      BY ONLY <1>8, <3>2, Zenon
    <3>4. \A x, y \in Int : (10 * x + (y - 48)) % LongRange \in Int
      BY ONLY <1>1, SMT
    <3>5. 0 \in Int
      OBVIOUS
    <3> QED BY ONLY <3>1, <3>2, <3>3, <3>4, <3>5, Zenon
  <2>3. Nat \subseteq T
    <3> HIDE DEF T
    <3> QED BY ONLY <2>1, <2>2, Counting, Zenon
  <2> QED BY ONLY <1>1, <2>3, SMT
<1>10. Reads(t, g)
  BY ONLY <1>8, <1>9, Zenon DEF Reads, n, d
<1> QED BY ONLY <1>7, <1>10, Zenon

\* The weight of each place of a number, and what the digits before each place of t add up to.
Weighs(n, w) ==
  /\ \A k \in 0 .. n : w[k] \in Int
  /\ w[0] = 1 /\ \A k \in 1 .. n : w[k] = 10 * w[k - 1]

Adds(t, w, s) ==
  /\ \A i \in 0 .. Len(t) : s[i] \in Int
  /\ \A i \in 0 .. Len(t) :
       s[i] = IF i < FirstDigit(t) THEN 0 ELSE s[i - 1] + (t[i] - 48) * w[Len(t) - i]

LEMMA WeightIs ==
  ASSUME NEW n \in Nat
  PROVE  LET w == CHOOSE w : w = [k \in 0 .. n |-> IF k = 0 THEN 1 ELSE 10 * w[k - 1]]
         IN  Weighs(n, w)
<1> DEFINE step == [i \in 1 .. n |-> [x \in Int |-> 10 * x]]
           g == CHOOSE w : w = [k \in 0 .. n |-> IF k = 0 THEN 1 ELSE 10 * w[k - 1]]
<1>1. step \in [1 .. n -> [Int -> Int]]
  <2>1. ASSUME NEW x \in Int PROVE 10 * x \in Int
    OBVIOUS
  <2> QED BY ONLY <2>1, SMT
<1>2. PICK f : Recurs(f, n, 1, step)
  <2> HIDE DEF step
  <2>1. 1 \in Int
    OBVIOUS
  <2> QED BY ONLY <2>1, <1>1, n \in Nat, Recursion, Zenon
<1>3. f \in [0 .. n -> Int] /\ f[0] = 1 /\ \A k \in 1 .. n : f[k] = 10 * f[k - 1]
  <2>1. f \in [0 .. n -> Int] /\ f[0] = 1 /\ \A i \in 1 .. n : f[i] = step[i][f[i - 1]]
    BY ONLY <1>2, Zenon DEF Recurs
  <2>2. ASSUME NEW i \in 1 .. n PROVE f[i] = 10 * f[i - 1]
    <3>1. i - 1 \in 0 .. n
      BY ONLY i \in 1 .. n, n \in Nat, SMT
    <3>2. f[i - 1] \in Int
      BY ONLY <2>1, <3>1, Zenon
    <3>3. step[i][f[i - 1]] = 10 * f[i - 1]
      BY ONLY <3>2, i \in 1 .. n, Zenon
    <3> QED BY ONLY <2>1, <3>3, i \in 1 .. n, Zenon
  <2> QED BY ONLY <2>1, <2>2, Zenon
<1>4. f = [k \in 0 .. n |-> IF k = 0 THEN 1 ELSE 10 * f[k - 1]]
  <2>1. ASSUME NEW k \in 0 .. n PROVE f[k] = IF k = 0 THEN 1 ELSE 10 * f[k - 1]
    <3>1. k # 0 => k \in 1 .. n
      BY ONLY k \in 0 .. n, n \in Nat, SMT
    <3> QED BY ONLY <1>3, <3>1, Zenon
  <2>2. f = [k \in 0 .. n |-> f[k]]
    BY ONLY <1>3, Zenon
  <2> QED BY ONLY <2>1, <2>2, Zenon
<1>5. g = [k \in 0 .. n |-> IF k = 0 THEN 1 ELSE 10 * g[k - 1]]
  BY ONLY <1>4, Zenon
<1> HIDE DEF g, step
<1>6. \A k \in 0 .. n : g[k] = IF k = 0 THEN 1 ELSE 10 * g[k - 1]
  BY ONLY <1>5, Zenon
<1>7. g[0] = 1 /\ \A k \in 1 .. n : g[k] = 10 * g[k - 1]
  <2>1. 0 \in 0 .. n /\ \A k \in 1 .. n : k \in 0 .. n /\ k # 0
    BY ONLY n \in Nat, SMT
  <2> QED BY ONLY <1>6, <2>1, Zenon
<1>8. \A k \in 0 .. n : g[k] \in Int
  <2> DEFINE T == {m \in Nat : m <= n => g[m] \in Int}
  <2>1. 0 \in T
    BY ONLY <1>7, SMT
  <2>2. ASSUME NEW m \in Nat, m \in T PROVE m + 1 \in T
    <3> SUFFICES ASSUME m + 1 <= n PROVE g[m + 1] \in Int
      OBVIOUS
    <3>1. g[m] \in Int /\ m + 1 \in 1 .. n /\ (m + 1) - 1 = m
      BY ONLY n \in Nat, <2>2, m + 1 <= n, SMT
    <3>2. g[m + 1] = 10 * g[m]
      BY ONLY <1>7, <3>1, Zenon
    <3> QED BY ONLY <3>1, <3>2, SMT
  <2>3. Nat \subseteq T
    <3> HIDE DEF T
    <3> QED BY ONLY <2>1, <2>2, Counting, Zenon
  <2> QED BY ONLY n \in Nat, <2>3, SMT
<1>9. Weighs(n, g)
  BY ONLY <1>7, <1>8, Zenon DEF Weighs
<1> QED BY ONLY <1>9, Zenon DEF g

LEMMA SumIs ==
  ASSUME NEW t \in Seq(Int), NEW w, Weighs(Len(t), w)
  PROVE  LET s == CHOOSE s : s = [i \in 0 .. Len(t) |-> IF i < FirstDigit(t) THEN 0
                                  ELSE s[i - 1] + (t[i] - 48) * w[Len(t) - i]]
         IN  Adds(t, w, s)
<1> DEFINE n == Len(t)
           d == FirstDigit(t)
           step == [i \in 1 .. n |-> [x \in Int |-> IF i < d THEN 0 ELSE x + (t[i] - 48) * w[n - i]]]
           g == CHOOSE s : s = [i \in 0 .. n |-> IF i < d THEN 0
                                                 ELSE s[i - 1] + (t[i] - 48) * w[n - i]]
<1>1. n \in Nat /\ d \in {1, 2} /\ (\A i \in 1 .. n : t[i] \in Int) /\ \A k \in 0 .. n : w[k] \in Int
  BY FirstDigitIs DEF Weighs
<1> HIDE DEF n, d
<1>2. ASSUME NEW i \in 1 .. n, NEW x \in Int
      PROVE  (IF i < d THEN 0 ELSE x + (t[i] - 48) * w[n - i]) \in Int
  <2>1. n - i \in 0 .. n
    BY ONLY <1>1, i \in 1 .. n, SMT
  <2>2. w[n - i] \in Int /\ t[i] \in Int
    BY ONLY <1>1, <2>1, i \in 1 .. n, Zenon
  <2>3. (t[i] - 48) * w[n - i] \in Int
    BY ONLY <2>2, SMT
  <2> DEFINE y == (t[i] - 48) * w[n - i]
  <2> HIDE DEF y
  <2>4. (IF i < d THEN 0 ELSE x + y) \in Int
    BY ONLY <2>3, x \in Int, SMT DEF y
  <2> QED BY ONLY <2>4, Zenon DEF y
<1>3. step \in [1 .. n -> [Int -> Int]]
  <2> DEFINE F(i, x) == IF i < d THEN 0 ELSE x + (t[i] - 48) * w[n - i]
  <2>1. \A i \in 1 .. n : \A x \in Int : F(i, x) \in Int
    BY ONLY <1>2, Zenon
  <2>2. step = [i \in 1 .. n |-> [x \in Int |-> F(i, x)]]
    OBVIOUS
  <2> HIDE DEF F, step
  <2> QED BY ONLY <2>1, <2>2, SMT
<1>4. PICK f : Recurs(f, n, 0, step)
  <2> HIDE DEF step
  <2>1. 0 \in Int
    OBVIOUS
  <2> QED BY ONLY <2>1, <1>1, <1>3, Recursion, Zenon
<1>5. f \in [0 .. n -> Int] /\ f[0] = 0
      /\ \A i \in 1 .. n : f[i] = IF i < d THEN 0 ELSE f[i - 1] + (t[i] - 48) * w[n - i]
  <2>1. f \in [0 .. n -> Int] /\ f[0] = 0 /\ \A i \in 1 .. n : f[i] = step[i][f[i - 1]]
    BY ONLY <1>4, Zenon DEF Recurs
  <2>2. ASSUME NEW i \in 1 .. n
        PROVE  f[i] = IF i < d THEN 0 ELSE f[i - 1] + (t[i] - 48) * w[n - i]
    <3>1. i - 1 \in 0 .. n
      BY ONLY i \in 1 .. n, <1>1, SMT
    <3>2. f[i - 1] \in Int
      BY ONLY <2>1, <3>1, Zenon
    <3>3. step[i][f[i - 1]] = IF i < d THEN 0 ELSE f[i - 1] + (t[i] - 48) * w[n - i]
      BY ONLY <3>2, i \in 1 .. n, Zenon
    <3> QED BY ONLY <2>1, <3>3, i \in 1 .. n, Zenon
  <2> QED BY ONLY <2>1, <2>2, Zenon
<1>6. f = [i \in 0 .. n |-> IF i < d THEN 0 ELSE f[i - 1] + (t[i] - 48) * w[n - i]]
  <2>1. ASSUME NEW i \in 0 .. n
        PROVE  f[i] = IF i < d THEN 0 ELSE f[i - 1] + (t[i] - 48) * w[n - i]
    <3>1. CASE i = 0
      <4>1. i < d
        BY ONLY <1>1, <3>1, SMT
      <4> QED BY ONLY <1>5, <3>1, <4>1, Zenon
    <3>2. CASE i # 0
      <4>1. i \in 1 .. n
        BY ONLY <1>1, <3>2, i \in 0 .. n, SMT
      <4> QED BY ONLY <1>5, <4>1, Zenon
    <3> QED BY ONLY <3>1, <3>2
  <2>2. f = [i \in 0 .. n |-> f[i]]
    BY ONLY <1>5, Zenon
  <2> QED BY ONLY <2>1, <2>2, Zenon
<1>7. g = [i \in 0 .. n |-> IF i < d THEN 0 ELSE g[i - 1] + (t[i] - 48) * w[n - i]]
  BY ONLY <1>6, Zenon
<1> HIDE DEF g, step
<1>8. \A i \in 0 .. n : g[i] = IF i < d THEN 0 ELSE g[i - 1] + (t[i] - 48) * w[n - i]
  BY ONLY <1>7, Zenon
<1>9. \A i \in 0 .. n : g[i] \in Int
  <2> DEFINE T == {m \in Nat : m <= n => g[m] \in Int}
  <2>1. 0 \in T
    <3>1. 0 \in 0 .. n /\ 0 < d
      BY ONLY <1>1, SMT
    <3>2. g[0] = 0
      BY ONLY <1>8, <3>1, Zenon
    <3> QED BY ONLY <3>2, SMT
  <2>2. ASSUME NEW m \in Nat, m \in T PROVE m + 1 \in T
    <3> SUFFICES ASSUME m + 1 <= n PROVE g[m + 1] \in Int
      OBVIOUS
    <3>1. g[m] \in Int
      BY ONLY <1>1, <2>2, m + 1 <= n, SMT
    <3>2. m + 1 \in 0 .. n /\ m + 1 \in 1 .. n /\ (m + 1) - 1 = m
      BY ONLY <1>1, m \in Nat, m + 1 <= n, SMT
    <3>3. g[m + 1] = IF m + 1 < d THEN 0 ELSE g[m] + (t[m + 1] - 48) * w[n - (m + 1)]
      BY ONLY <1>8, <3>2, Zenon
    <3> QED BY ONLY <1>2, <3>1, <3>2, <3>3, Zenon
  <2>3. Nat \subseteq T
    <3> HIDE DEF T
    <3> QED BY ONLY <2>1, <2>2, Counting, Zenon
  <2> QED BY ONLY <1>1, <2>3, SMT
<1>10. Adds(t, w, g)
  BY ONLY <1>8, <1>9, Zenon DEF Adds, n, d
<1> QED BY ONLY <1>10, Zenon DEF g, n, d

LEMMA DenotedIs ==
  ASSUME NEW t \in Seq(Int)
  PROVE  \E w, s : /\ Weighs(Len(t), w) /\ Adds(t, w, s)
                   /\ Denoted(t) = (IF t[1] = Minus THEN -1 ELSE 1) * s[Len(t)]
<1> DEFINE w == CHOOSE w : w = [k \in 0 .. Len(t) |-> IF k = 0 THEN 1 ELSE 10 * w[k - 1]]
           s == CHOOSE s : s = [i \in 0 .. Len(t) |-> IF i < FirstDigit(t) THEN 0
                                ELSE s[i - 1] + (t[i] - 48) * w[Len(t) - i]]
<1>1. Weighs(Len(t), w)
  <2>1. Len(t) \in Nat
    OBVIOUS
  <2> QED BY ONLY <2>1, WeightIs, Zenon
<1>2. Denoted(t) = (IF t[1] = Minus THEN -1 ELSE 1) * s[Len(t)]
  BY ONLY Zenon DEF Denoted, FirstDigit
<1>3. Adds(t, w, s)
  <2> HIDE DEF w
  <2> QED BY ONLY <1>1, t \in Seq(Int), SumIs, Zenon
<1> HIDE DEF w, s
<1> QED BY ONLY <1>1, <1>2, <1>3, Zenon

\* What has been read, with the weight of the place that follows, is what the digits add up to.
LEMMA ReadsTheSum ==
  ASSUME NEW t \in Seq(Int), NEW f, NEW w, NEW s,
         Reads(t, f), Weighs(Len(t), w), Adds(t, w, s)
  PROVE  /\ f[Len(t)] \in 0 .. LongRange - 1 /\ s[Len(t)] \in Int
         /\ \E k \in Int : f[Len(t)] - s[Len(t)] = k * LongRange
<1> DEFINE n == Len(t)
           d == FirstDigit(t)
           T == {m \in Nat : m <= n => /\ f[m] \in 0 .. LongRange - 1
                                       /\ \E k \in Int : f[m] * w[n - m] - s[m] = k * LongRange}
<1>1. n \in Nat /\ d \in {1, 2} /\ LongRange \in Nat \ {0} /\ \A i \in 1 .. n : t[i] \in Int
  BY FirstDigitIs, LongRangeIs
<1>2. /\ \A i \in 0 .. n : f[i] \in Int /\ w[i] \in Int /\ s[i] \in Int
      /\ \A i \in 0 .. n : f[i] = IF i < d THEN 0 ELSE (10 * f[i - 1] + (t[i] - 48)) % LongRange
      /\ \A i \in 0 .. n : s[i] = IF i < d THEN 0 ELSE s[i - 1] + (t[i] - 48) * w[n - i]
      /\ w[0] = 1 /\ \A i \in 1 .. n : w[i] = 10 * w[i - 1]
  BY Zenon DEF Reads, Weighs, Adds
<1> HIDE DEF n, d
<1>3. ASSUME NEW m \in 0 .. n, m < d
      PROVE  /\ f[m] \in 0 .. LongRange - 1
             /\ \E k \in Int : f[m] * w[n - m] - s[m] = k * LongRange
  <2>1. f[m] = 0 /\ s[m] = 0
    BY ONLY <1>2, <1>3, Zenon
  <2>2. n - m \in 0 .. n
    BY ONLY <1>1, m \in 0 .. n, SMT
  <2>3. w[n - m] \in Int
    BY ONLY <1>2, <2>2, Zenon
  <2>4. 0 * w[n - m] - 0 = 0 * LongRange
    BY ONLY <1>1, <2>3, SMT
  <2>5. f[m] * w[n - m] - s[m] = 0 * LongRange /\ 0 \in Int
    BY ONLY <2>1, <2>4, SMT
  <2>6. f[m] \in 0 .. LongRange - 1
    BY ONLY <1>1, <2>1, SMT
  <2> QED BY ONLY <2>5, <2>6, Zenon
<1>4. 0 \in T
  <2>1. 0 \in Nat /\ 0 \in 0 .. n /\ 0 < d
    BY ONLY <1>1, SMT
  <2> QED BY ONLY <1>3, <2>1, Zenon
<1>5. ASSUME NEW m \in Nat, m \in T PROVE m + 1 \in T
  <2> SUFFICES ASSUME m + 1 <= n
               PROVE  /\ f[m + 1] \in 0 .. LongRange - 1
                      /\ \E k \in Int : f[m + 1] * w[n - (m + 1)] - s[m + 1] = k * LongRange
    OBVIOUS
  <2>1. m <= n /\ m \in 0 .. n /\ m + 1 \in 0 .. n /\ m + 1 \in 1 .. n /\ n - (m + 1) \in 0 .. n
        /\ n - m \in 1 .. n /\ (n - m) - 1 = n - (m + 1) /\ (m + 1) - 1 = m
    BY ONLY <1>1, m \in Nat, m + 1 <= n, SMT
  <2>2. CASE m + 1 < d
    BY ONLY <1>3, <2>1, <2>2, Zenon
  <2>3. CASE ~(m + 1 < d)
    <3>1. PICK k \in Int : f[m] * w[n - m] - s[m] = k * LongRange
      BY ONLY <1>5, <2>1, Zenon
    <3> DEFINE r == f[m]
               u == w[n - (m + 1)]
               v == w[n - m]
               c == t[m + 1] - 48
               b == s[m]
               x == 10 * r + c
               q == x \div LongRange
    <3>2. r \in Int /\ u \in Int /\ b \in Int /\ t[m + 1] \in Int
      BY ONLY <1>1, <1>2, <2>1, Zenon
    <3>3. v = 10 * u
      BY ONLY <1>2, <2>1, Zenon
    <3>4. f[m + 1] = x % LongRange /\ s[m + 1] = b + c * u
      BY ONLY <1>2, <2>1, <2>3, Zenon
    <3>5. c \in Int /\ v \in Int
      BY ONLY <3>2, <3>3, SMT
    <3>6. x \in Int
      <4>1. \A i, j \in Int : 10 * i + j \in Int
        OBVIOUS
      <4> QED BY ONLY <3>2, <3>5, <4>1, Zenon
    <3>7. x % LongRange \in 0 .. LongRange - 1 /\ x = q * LongRange + (x % LongRange) /\ q \in Int
      <4> HIDE DEF x
      <4> QED BY ONLY <3>6, <1>1, Remainder
    <3>8. r * v - b = k * LongRange
      BY ONLY <3>1, Zenon
    <3> HIDE DEF r, u, v, c, b, x, q
    <3>9. LongRange \in Int
      BY ONLY <1>1, SMT
    <3>10. (10 * r + c - q * LongRange) * u - (b + c * u) = (k - q * u) * LongRange
      BY ONLY <3>2, <3>3, <3>5, <3>7, <3>8, <3>9, k \in Int, NextDigit, SMT
    <3>11. f[m + 1] = 10 * r + c - q * LongRange
      <4> DEFINE y == q * LongRange
                 z == x % LongRange
      <4>1. y \in Int
        BY ONLY <3>7, <3>9, SMT
      <4>2. z \in Int /\ x = y + z
        BY ONLY <3>7, <3>9, SMT
      <4>3. x = 10 * r + c
        BY Zenon DEF x
      <4>4. f[m + 1] = z
        BY ONLY <3>4, Zenon
      <4> HIDE DEF y, z
      <4>5. f[m + 1] = 10 * r + c - y
        BY ONLY <4>1, <4>2, <4>3, <4>4, <3>2, <3>5, SMT
      <4> QED BY ONLY <4>5, Zenon DEF y
    <3>12. k - q * u \in Int
      BY ONLY <3>2, <3>7, k \in Int, SMT
    <3>13. f[m + 1] * u - s[m + 1] = (k - q * u) * LongRange
      BY ONLY <3>4, <3>10, <3>11, Zenon
    <3>14. f[m + 1] \in 0 .. LongRange - 1
      BY ONLY <3>4, <3>7, Zenon
    <3> QED BY ONLY <3>12, <3>13, <3>14, Zenon DEF u
  <2> QED BY ONLY <2>2, <2>3
<1>6. Nat \subseteq T
  <2> HIDE DEF T
  <2> QED BY ONLY <1>4, <1>5, Counting, Zenon
<1>7. n <= n /\ n - n = 0 /\ n \in 0 .. n
  BY ONLY <1>1, SMT
<1>8. f[n] \in 0 .. LongRange - 1 /\ \E k \in Int : f[n] * w[n - n] - s[n] = k * LongRange
  BY ONLY <1>1, <1>6, <1>7, Zenon
<1>9. f[n] \in Int /\ s[n] \in Int /\ w[n - n] = 1
  BY ONLY <1>2, <1>7, Zenon
<1>10. f[n] * w[n - n] - s[n] = f[n] - s[n]
  BY ONLY <1>9, SMT
<1>11. f[n] \in 0 .. LongRange - 1 /\ s[n] \in Int /\ \E k \in Int : f[n] - s[n] = k * LongRange
  BY ONLY <1>8, <1>9, <1>10, Zenon
<1> QED BY ONLY <1>11, Zenon DEF n

LEMMA Distributes ==
  ASSUME NEW q \in Int, NEW k \in Int, NEW m \in Int
  PROVE  (1 - q - k) * m = m - q * m - k * m /\ 1 - q - k \in Int
BY SMT

\* Of a number _parseBigInt returns the remainder, of anything else nothing.
LEMMA BigIntIsModulo ==
  ASSUME NEW t \in Seq(Int)
  PROVE  /\ ~IsNumeral(t) => ParseBigInt(t) = None
         /\ IsNumeral(t) => /\ ParseBigInt(t) \in 0 .. LongRange - 1 /\ Denoted(t) \in Int
                            /\ \E k \in Int : ParseBigInt(t) - Denoted(t) = k * LongRange
<1> DEFINE d == FirstDigit(t)
           Bad == t = <<>> \/ \E i \in d .. Len(t) : t[i] \notin Digits
<1>1. LongRange \in Nat \ {0} /\ LongRange \in Int
  BY ONLY LongRangeIs, SMT
<1>2. PICK f : /\ Reads(t, f)
               /\ ParseBigInt(t) = IF Bad THEN None
                                   ELSE IF t[1] = Minus THEN (LongRange - f[Len(t)]) % LongRange
                                   ELSE f[Len(t)]
  BY ONLY t \in Seq(Int), BigIntIs, Zenon
<1>3. PICK w, s : /\ Weighs(Len(t), w) /\ Adds(t, w, s)
                  /\ Denoted(t) = (IF t[1] = Minus THEN -1 ELSE 1) * s[Len(t)]
  BY ONLY t \in Seq(Int), DenotedIs, Zenon
<1> DEFINE r == f[Len(t)]
           b == s[Len(t)]
<1>4. r \in 0 .. LongRange - 1 /\ b \in Int /\ \E k \in Int : r - b = k * LongRange
  BY ONLY <1>2, <1>3, t \in Seq(Int), ReadsTheSum, Zenon
<1>5. IsNumeral(t) <=> ~Bad
  <2>1. d = IF t[1] \in {Minus, Plus} THEN 2 ELSE 1
    BY DEF FirstDigit
  <2>2. t # <<>> => Len(t) \in Nat /\ Len(t) >= 1
    OBVIOUS
  <2>3. t = <<>> => Bad /\ ~IsNumeral(t)
    BY DEF IsNumeral
  <2>4. CASE t # <<>> /\ t[1] \in {Minus, Plus}
    <3>1. d = 2
      BY <2>1, <2>4, Zenon
    <3>2. Bad <=> \E i \in 2 .. Len(t) : t[i] \notin Digits
      BY <2>4, <3>1, Zenon
    <3> QED BY <2>4, <3>2, Zenon DEF IsNumeral
  <2>5. CASE t # <<>> /\ t[1] \notin {Minus, Plus}
    <3>1. d = 1
      BY <2>1, <2>5, Zenon
    <3>2. \A i : i \in 1 .. Len(t) <=> i = 1 \/ i \in 2 .. Len(t)
      <4> DEFINE n == Len(t)
      <4>1. n \in Nat /\ n >= 1
        BY <2>2, <2>5
      <4> HIDE DEF n
      <4>2. \A i : i \in 1 .. n <=> i = 1 \/ i \in 2 .. n
        BY ONLY <4>1, SMT
      <4> QED BY ONLY <4>2, Zenon DEF n
    <3>3. Bad <=> \E i \in 1 .. Len(t) : t[i] \notin Digits
      BY <2>5, <3>1, Zenon
    <3>4. Bad <=> t[1] \notin Digits \/ \E i \in 2 .. Len(t) : t[i] \notin Digits
      BY ONLY <3>2, <3>3, Zenon
    <3> QED BY ONLY <2>5, <3>4, Zenon DEF IsNumeral
  <2> QED BY ONLY <2>3, <2>4, <2>5, Zenon
<1> HIDE DEF Bad, r, b, d
<1>6. ASSUME IsNumeral(t)
      PROVE  /\ ParseBigInt(t) \in 0 .. LongRange - 1 /\ Denoted(t) \in Int
             /\ \E k \in Int : ParseBigInt(t) - Denoted(t) = k * LongRange
  <2>1. PICK k \in Int : r - b = k * LongRange
    BY ONLY <1>4, Zenon
  <2>2. CASE t[1] = Minus
    <3> DEFINE x == LongRange - r
               q == x \div LongRange
               z == x % LongRange
               y == q * LongRange
               j == k * LongRange
    <3>1. ParseBigInt(t) = z
      BY ONLY <1>2, <1>5, <1>6, <2>2, Zenon DEF r
    <3>2. x \in Int
      BY ONLY <1>1, <1>4, SMT
    <3>3. z \in 0 .. LongRange - 1 /\ x = y + z /\ q \in Int
      <4> HIDE DEF x
      <4> QED BY ONLY <3>2, <1>1, Remainder
    <3>4. Denoted(t) = (-1) * b
      BY ONLY <1>3, <2>2, Zenon DEF b
    <3>5. Denoted(t) = -b /\ Denoted(t) \in Int
      BY ONLY <3>4, <1>4, SMT
    <3>6. y \in Int /\ j \in Int
      BY ONLY <1>1, <3>3, k \in Int, SMT
    <3>7. r - b = j
      BY ONLY <2>1, Zenon
    <3>8. x = LongRange - r
      OBVIOUS
    <3>9. (1 - q - k) * LongRange = LongRange - y - j /\ 1 - q - k \in Int
      BY ONLY <1>1, <3>3, k \in Int, Distributes, Zenon
    <3> HIDE DEF x, z, y, j, q
    <3>10. z - Denoted(t) = LongRange - y - j
      BY ONLY <1>1, <1>4, <3>2, <3>3, <3>5, <3>6, <3>7, <3>8, SMT
    <3>11. ParseBigInt(t) - Denoted(t) = (1 - q - k) * LongRange
      BY ONLY <3>1, <3>9, <3>10, Zenon
    <3>12. ParseBigInt(t) \in 0 .. LongRange - 1
      BY ONLY <3>1, <3>3, Zenon
    <3> QED BY ONLY <3>5, <3>9, <3>11, <3>12, Zenon
  <2>3. CASE t[1] # Minus
    <3>1. ParseBigInt(t) = r
      BY ONLY <1>2, <1>5, <1>6, <2>3, Zenon DEF r
    <3>2. Denoted(t) = 1 * b
      BY ONLY <1>3, <2>3, Zenon DEF b
    <3>3. Denoted(t) = b
      BY ONLY <3>2, <1>4, SMT
    <3> QED BY ONLY <1>4, <2>1, <3>1, <3>3, Zenon
  <2> QED BY ONLY <2>2, <2>3
<1> QED BY ONLY <1>2, <1>5, <1>6, Zenon

\* What parseInt returns of a text, against the number that it is.
Parses(t, range, signed) ==
  LET n == ParseInt(t, range, signed)
      WrapsBelow == IF signed THEN -(LongRange \div 2) ELSE range - LongRange
      WrapsFrom == IF signed THEN LongRange \div 2 ELSE LongRange
  IN IF ~IsNumeral(t) THEN n = None
     ELSE /\ Denoted(t) \in Fits(range, signed) => n = Denoted(t)
          /\ n # None => n \in Fits(range, signed) /\ (n - Denoted(t)) % LongRange = 0
          /\ n # None /\ n # Denoted(t) => Denoted(t) >= WrapsFrom \/ Denoted(t) < WrapsBelow

LEMMA FitsIs ==
  ASSUME NEW range \in {IntRange, LongRange}, NEW signed \in BOOLEAN, NEW x \in Int
  PROVE  /\ range \in Nat \ {0} /\ range % 2 = 0 /\ range <= LongRange
         /\ x \in Fits(range, signed) => x \in Fits(LongRange, signed)
<1>1. /\ range \in Nat \ {0} /\ range % 2 = 0 /\ range <= LongRange
      /\ LongRange \in Nat \ {0} /\ LongRange % 2 = 0
  BY LongRangeIs, SMT
<1>2. x \in Fits(range, signed) => x \in Fits(LongRange, signed)
  BY ONLY <1>1, x \in Int, signed \in BOOLEAN, SMT DEF Fits
<1> QED BY ONLY <1>1, <1>2

LEMMA ParseIntIs ==
  ASSUME NEW t \in Seq(Int), NEW range \in {IntRange, LongRange}, NEW signed \in BOOLEAN
  PROVE  Parses(t, range, signed)
<1> DEFINE n == ParseBigInt(t)
           v == Denoted(t)
           m == LongRange
           parsed == IF signed /\ n >= m \div 2 THEN n - m ELSE n
           low == IF signed THEN -(m \div 2) ELSE range - m
           high == IF signed THEN m \div 2 ELSE m
<1>1. ParseInt(t, range, signed) = IF n = None \/ parsed \notin Fits(range, signed) THEN None ELSE parsed
  BY ONLY Zenon DEF ParseInt
<1>2. CASE ~IsNumeral(t)
  <2>1. n = None
    BY ONLY <1>2, t \in Seq(Int), BigIntIsModulo, Zenon
  <2>2. ParseInt(t, range, signed) = None
    BY ONLY <1>1, <2>1, Zenon
  <2> QED BY ONLY <1>2, <2>2, Zenon DEF Parses
<1>3. CASE IsNumeral(t)
  <2>1. n \in 0 .. m - 1 /\ v \in Int /\ \E k \in Int : n - v = k * m
    BY ONLY <1>3, t \in Seq(Int), BigIntIsModulo, Zenon
  <2>2. PICK k \in Int : n - v = k * m
    BY ONLY <2>1, Zenon
  <2>3. None \notin Int
    BY ONLY EncodingAssumption, Zenon
  <2>4. m \in Nat \ {0} /\ m % 2 = 0 /\ range \in Nat \ {0} /\ range % 2 = 0 /\ range <= m
    BY ONLY LongRangeIs, range \in {IntRange, LongRange}, SMT
  <2> HIDE DEF n, v, m
  <2>5. parsed \in Int /\ parsed \in Fits(m, signed)
    BY ONLY <2>1, <2>4, signed \in BOOLEAN, SMT DEF Fits
  <2>6. \E j \in Int : parsed - v = j * m
    <3> DEFINE y == k * m
    <3>1. y \in Int /\ (k - 1) * m = y - m /\ k - 1 \in Int
      BY ONLY <2>4, k \in Int, SMT
    <3>2. n - v = y
      BY ONLY <2>2, Zenon
    <3> HIDE DEF y
    <3>3. parsed - v = y \/ parsed - v = y - m
      BY ONLY <2>1, <2>4, <3>1, <3>2, SMT
    <3> HIDE DEF parsed
    <3>4. parsed - v = k * m \/ parsed - v = (k - 1) * m
      BY ONLY <3>1, <3>3, Zenon DEF y
    <3> QED BY ONLY <3>1, <3>4, k \in Int, Zenon
  <2>7. PICK j \in Int : parsed - v = j * m
    BY ONLY <2>6, Zenon
  <2> HIDE DEF parsed
  <2>8. ASSUME parsed - v < m, v - parsed < m PROVE parsed = v
    BY ONLY <2>1, <2>4, <2>5, <2>7, <2>8, j \in Int, OneInRange
  <2>9. ASSUME v \in Fits(m, signed) PROVE parsed = v
    <3>1. parsed - v < m /\ v - parsed < m
      BY ONLY <2>1, <2>4, <2>5, <2>9, signed \in BOOLEAN, SMT DEF Fits
    <3> QED BY ONLY <2>8, <3>1, Zenon
  <2>10. ASSUME v \in Fits(range, signed) PROVE ParseInt(t, range, signed) = v
    <3>1. v \in Fits(m, signed)
      BY ONLY <2>1, <2>10, range \in {IntRange, LongRange}, signed \in BOOLEAN, FitsIs, Zenon DEF m
    <3>2. n # None
      BY ONLY <2>1, <2>3, <2>4, SMT
    <3> QED BY ONLY <1>1, <2>9, <2>10, <3>1, <3>2, Zenon
  <2>11. ASSUME ParseInt(t, range, signed) # None
         PROVE  ParseInt(t, range, signed) = parsed /\ parsed \in Fits(range, signed)
    BY ONLY <1>1, <2>11, Zenon
  <2>12. (parsed - v) % m = 0
    <3>1. 0 \in 0 .. m - 1 /\ j * m + 0 = j * m
      BY ONLY <2>4, j \in Int, SMT
    <3>2. (j * m + 0) % m = 0
      BY ONLY <2>4, <3>1, j \in Int, SameRemainder, Zenon
    <3> QED BY ONLY <2>7, <3>1, <3>2, Zenon
  <2>13. ASSUME parsed \in Fits(range, signed), parsed # v
         PROVE  v >= high \/ v < low
    <3>1. CASE v < high /\ v >= low
      <4>1. parsed - v < m /\ v - parsed < m
        BY ONLY <2>1, <2>4, <2>5, <2>13, <3>1, signed \in BOOLEAN, SMT DEF Fits
      <4> QED BY ONLY <2>8, <2>13, <4>1, Zenon
    <3>2. high \in Int /\ low \in Int
      BY ONLY <2>4, SMT
    <3> HIDE DEF high, low
    <3> QED BY ONLY <2>1, <3>1, <3>2, SMT
  <2> HIDE DEF high, low
  <2>14. /\ v \in Fits(range, signed) => ParseInt(t, range, signed) = v
         /\ ParseInt(t, range, signed) # None =>
              ParseInt(t, range, signed) \in Fits(range, signed) /\ (ParseInt(t, range, signed) - v) % m = 0
         /\ ParseInt(t, range, signed) # None /\ ParseInt(t, range, signed) # v => v >= high \/ v < low
    BY ONLY <2>10, <2>11, <2>12, <2>13, Zenon
  <2> QED BY ONLY <1>3, <2>14, Zenon DEF Parses, v, m, high, low
<1> QED BY ONLY <1>2, <1>3

\* parseInt returns the number of a text if it fits into the type, never one for a text
\* with anything else in it, and of the numbers that do not fit only those that have
\* wrapped around in _parseBigInt may be taken for another, equal modulo 2^64.
THEOREM NumbersAreRead == Spec => []ParsesWhatFits
<1>1. Decoder => ParsesWhatFits
  <2> SUFFICES ASSUME Decoder, NEW range \in {IntRange, LongRange}, NEW signed \in BOOLEAN
               PROVE  Parses(text, range, signed)
    BY Zenon DEF ParsesWhatFits, Parses
  <2>1. text \in Seq(Chars)
    BY Zenon DEF Decoder, Typed
  <2>2. text \in Seq(Int)
    <3>1. Chars \subseteq Int
      BY SMT DEF Chars
    <3> HIDE DEF Chars
    <3>2. Len(text) \in Nat /\ text \in [1 .. Len(text) -> Chars]
      BY ONLY <2>1, SMT
    <3>3. text \in [1 .. Len(text) -> Int]
      <4> DEFINE n == Len(text)
      <4>1. text \in [1 .. n -> Chars]
        BY ONLY <3>2, Zenon
      <4> HIDE DEF n
      <4>2. \A i \in 1 .. n : text[i] \in Chars
        BY ONLY <4>1, Zenon
      <4>3. \A i \in 1 .. n : text[i] \in Int
        BY ONLY <4>2, <3>1, Zenon
      <4>4. text = [i \in 1 .. n |-> text[i]]
        BY ONLY <4>1, Zenon
      <4>5. text \in [1 .. n -> Int]
        BY ONLY <4>3, <4>4, Zenon
      <4> QED BY ONLY <4>5, Zenon DEF n
    <3> QED BY ONLY <3>2, <3>3, SMT
  <2> QED BY ONLY <2>2, range \in {IntRange, LongRange}, signed \in BOOLEAN, ParseIntIs, Zenon
<1> QED BY <1>1, DecoderInvariant, PTL
=============================================================================
