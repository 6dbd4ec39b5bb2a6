------------------------- MODULE StringBufferProofs -------------------------
(***************************************************************************)
(* The memory safety of String, for any number of objects and addresses,   *)
(* any characters and any length; and that its buffers implement values.   *)
(***************************************************************************)
EXTENDS StringBuffer, SequenceTheorems, WellFoundedInduction, TLAPS

Cells == Chars \cup {Junk}
Objects == [buffer : Buffers \cup {NULL}, length : Nat, allocated : Nat]

\* The object owns its buffer: of the size it believes, with room for the
\* terminator, and every cell of the text has been written to.
Whole(m, o, terminated) ==
  LET s == m.str[o]
      cells == m.heap[s.buffer]
  IN  IF s.buffer = NULL THEN s = NoBuffer
      ELSE /\ s.allocated \in 1 .. MaxLength + 1 \cup 1 .. 2 * MaxLength
           /\ cells \in [1 .. s.allocated -> Cells]
           /\ s.length < s.allocated /\ s.length <= MaxLength
           /\ \A i \in 1 .. s.length : cells[i] \in Chars
           /\ terminated => cells[s.length + 1] = 0

\* The objects and the heap as any operation leaves them.  The text of x may
\* lack its terminator.
Sound(m, x) ==
  /\ m.str \in [Strings -> Objects]
  /\ DOMAIN m.heap = Buffers
  /\ \A b \in Buffers : m.heap[b] # NULL => \E o \in Strings : m.str[o].buffer = b
  /\ \A o, p \in Strings :
       o # p /\ m.str[o].buffer # NULL => m.str[o].buffer # m.str[p].buffer
  /\ \A o \in Strings : Whole(m, o, o # x)

\* An operation on o leaves the other objects and their texts alone.
OnlyChanges(m, n, o) ==
  \A q \in Strings \ {o} :
    /\ n.str[q] = m.str[q]
    /\ m.str[q].buffer # NULL => n.heap[m.str[q].buffer] = m.heap[m.str[q].buffer]

SInv ==
  /\ Sound(Memory, building)
  /\ building \in Strings \cup {NULL}
  /\ left \in 0 .. MaxLength
  /\ building # NULL => /\ str[building].buffer # NULL
                        /\ str[building].length + left <= MaxLength

-----------------------------------------------------------------------------
LEMMA BlockNotNull ==
  ASSUME NEW n \in 1 .. MaxLength + 1 \cup 1 .. 2 * MaxLength, NEW c \in [1 .. n -> Cells]
  PROVE  c # NULL
<1>1. n \in 0 .. 2 * MaxLength + 1
  BY StringAssumption
<1> QED
  BY <1>1, StringAssumption DEF Cells

LEMMA Owner ==
  ASSUME NEW m, NEW x, Sound(m, x), NEW o \in Strings, m.str[o].buffer # NULL
  PROVE  /\ m.str[o].buffer \in Buffers /\ m.heap[m.str[o].buffer] # NULL
         /\ m.str[o].length \in Nat /\ m.str[o].allocated \in Nat
<1>1. m.str[o] \in Objects
  BY DEF Sound
<1>2. Whole(m, o, o # x)
  BY DEF Sound
<1> QED
  BY <1>1, <1>2, BlockNotNull DEF Whole, Objects

\* The text of an object, cell by cell.
LEMMA ContentFacts ==
  ASSUME NEW m, NEW x, Sound(m, x), NEW o \in Strings
  PROVE  /\ m.str[o].length \in 0 .. MaxLength
         /\ Content(m, o) \in Seq(Chars)
         /\ Len(Content(m, o)) = m.str[o].length
         /\ \A i \in 1 .. m.str[o].length : Content(m, o)[i] = m.heap[m.str[o].buffer][i]
<1>0. m.str[o] \in Objects /\ Whole(m, o, o # x)
  BY DEF Sound
<1>1. m.str[o].length \in 0 .. MaxLength
  BY <1>0, StringAssumption DEF Objects, Whole, NoBuffer
<1>2. CASE m.str[o].length = 0
  BY <1>1, <1>2, EmptySeq DEF Content
<1>3. CASE m.str[o].length # 0
  <2> DEFINE c == m.heap[m.str[o].buffer]
             n == m.str[o].length
  <2>1. \A i \in 1 .. n : c[i] \in Chars
    BY <1>0, <1>3 DEF Whole, NoBuffer
  <2>2. Content(m, o) = SubSeq(c, 1, n)
    BY <1>3 DEF Content
  <2>3. n \in Int /\ 1 \in Int /\ 1 <= n
    BY <1>1, <1>3
  <2> HIDE DEF c, n
  <2>4. /\ SubSeq(c, 1, n) \in Seq(Chars)
        /\ Len(SubSeq(c, 1, n)) = IF 1 <= n THEN n - 1 + 1 ELSE 0
        /\ \A i \in 1 .. n - 1 + 1 : SubSeq(c, 1, n)[i] = c[1 + i - 1]
    BY <2>1, <2>3, SubSeqProperties
  <2>5. /\ Len(SubSeq(c, 1, n)) = n
        /\ \A i \in 1 .. n : SubSeq(c, 1, n)[i] = c[i]
    BY <2>3, <2>4
  <2> QED
    BY <1>1, <2>2, <2>4, <2>5 DEF c, n
<1> QED
  BY <1>2, <1>3

LEMMA ContentIs ==
  ASSUME NEW n, NEW y, Sound(n, y), NEW o \in Strings, NEW t \in Seq(Chars),
         n.str[o].length = Len(t),
         \A i \in 1 .. Len(t) : n.heap[n.str[o].buffer][i] = t[i]
  PROVE  Content(n, o) = t
<1>1. /\ Content(n, o) \in Seq(Chars) /\ Len(Content(n, o)) = Len(t)
      /\ \A i \in 1 .. Len(t) : Content(n, o)[i] = t[i]
  BY ContentFacts
<1> QED
  BY <1>1, SeqEqual

LEMMA ContentKept ==
  ASSUME NEW m, NEW n, NEW x, NEW y, Sound(m, x), Sound(n, y), NEW o \in Strings,
         OnlyChanges(m, n, o)
  PROVE  \A q \in Strings \ {o} : Content(n, q) = Content(m, q)
<1> SUFFICES ASSUME NEW q \in Strings \ {o} PROVE Content(n, q) = Content(m, q)
  OBVIOUS
<1>1. n.str[q] = m.str[q]
  BY DEF OnlyChanges
<1>2. CASE m.str[q].buffer = NULL
  <2>1. m.str[q].length = 0
    <3>1. Whole(m, q, q # x)
      BY DEF Sound
    <3> QED BY ONLY <1>2, <3>1 DEF Whole, NoBuffer
  <2> QED
    BY <1>1, <2>1 DEF Content
<1>3. CASE m.str[q].buffer # NULL
  <2>1. n.heap[m.str[q].buffer] = m.heap[m.str[q].buffer]
    BY <1>3 DEF OnlyChanges
  <2> QED
    BY <1>1, <2>1 DEF Content
<1> QED
  BY <1>2, <1>3

-----------------------------------------------------------------------------
(* The private helpers.                                                    *)

\* An operation on o that gives it a whole buffer of its own, and keeps all
\* others, leaves everything sound.
LEMMA SoundAfter ==
  ASSUME NEW m, NEW n, NEW x, NEW y, NEW o \in Strings, Sound(m, x),
         x \in {NULL, o}, y \in {NULL, o},
         n.str \in [Strings -> Objects], DOMAIN n.heap = Buffers,
         OnlyChanges(m, n, o),
         Whole(n, o, o # y),
         n.str[o].buffer # NULL =>
           \A q \in Strings \ {o} : m.str[q].buffer # n.str[o].buffer,
         \A b \in Buffers : n.heap[b] # NULL =>
           b = n.str[o].buffer \/ \E q \in Strings \ {o} : m.str[q].buffer = b
  PROVE  Sound(n, y)
<1>1. \A q \in Strings \ {o} : n.str[q] = m.str[q]
  BY DEF OnlyChanges
<1>2. ASSUME NEW q \in Strings PROVE Whole(n, q, q # y)
  <2>1. CASE q = o
    BY <2>1
  <2>2. CASE q # o
    <3>1. Whole(m, q, q # x)
      BY DEF Sound
    <3>2. q # x /\ q # y
      BY <2>2, StringAssumption
    <3>3. CASE m.str[q].buffer = NULL
      BY <1>1, <2>2, <3>1, <3>3 DEF Whole
    <3>4. CASE m.str[q].buffer # NULL
      <4>1. n.str[q] = m.str[q] /\ n.heap[m.str[q].buffer] = m.heap[m.str[q].buffer]
        BY <2>2, <3>4 DEF OnlyChanges
      <4> QED
        BY <3>1, <3>2, <4>1 DEF Whole
    <3> QED
      BY <3>3, <3>4
  <2> QED
    BY <2>1, <2>2
<1>3. \A b \in Buffers : n.heap[b] # NULL => \E q \in Strings : n.str[q].buffer = b
  BY <1>1
<1>4. \A q, p \in Strings :
        q # p /\ n.str[q].buffer # NULL => n.str[q].buffer # n.str[p].buffer
  BY <1>1 DEF Sound
<1> QED
  BY <1>2, <1>3, <1>4 DEF Sound

\* What _wantWrite does to the object: room for the text, for chars more
\* characters and for the terminator, and the text as it was.
Roomy(m, n, o, chars) ==
  /\ Sound(n, o)
  /\ OnlyChanges(m, n, o)
  /\ n.str[o].buffer # NULL
  /\ n.str[o].length = m.str[o].length
  /\ n.str[o].length + chars < n.str[o].allocated
  /\ \A i \in 1 .. m.str[o].length :
       n.heap[n.str[o].buffer][i] = m.heap[m.str[o].buffer][i]

LEMMA GrownFacts ==
  ASSUME NEW s, s.length \in Nat, s.allocated \in Nat, NEW chars \in Nat,
         s.length + chars <= MaxLength, s.allocated < Required(s, chars)
  PROVE  /\ Grown(s, chars) \in 1 .. MaxLength + 1 \cup 1 .. 2 * MaxLength
         /\ s.length + chars < Grown(s, chars)
  BY StringAssumption DEF Grown, Required

LEMMA ReallocateRoomy ==
  ASSUME NEW m, NEW x, Sound(m, x), NEW o \in Strings, x \in {NULL, o},
         NEW b \in Buffers, m.heap[b] = NULL,
         NEW chars \in Nat, m.str[o].length + chars <= MaxLength,
         NEW size \in 1 .. MaxLength + 1 \cup 1 .. 2 * MaxLength,
         m.str[o].length + chars < size
  PROVE  Roomy(m, Reallocate(m, o, size, b), o, chars)
<1> DEFINE s == m.str[o]
           cells == [i \in 1 .. size |->
                       IF i <= s.length THEN m.heap[s.buffer][i] ELSE Uninitialised(size)[i]]
           n == Reallocate(m, o, size, b)
<1>0. /\ s \in Objects /\ Whole(m, o, o # x) /\ m.str \in [Strings -> Objects]
      /\ DOMAIN m.heap = Buffers
  BY DEF Sound
<1>1. /\ s.length \in Nat /\ s.allocated \in Nat /\ s.length <= MaxLength
      /\ s.length > 0 => s.buffer # NULL
      /\ s.length < size
  BY <1>0, StringAssumption DEF Objects, Whole, NoBuffer
<1>2. /\ n.str = [m.str EXCEPT ![o].buffer = b, ![o].allocated = size]
      /\ n.heap = [Release(m.heap, s.buffer) EXCEPT ![b] = cells]
  BY DEF Reallocate
<1>3. size \in Nat /\ 0 \in Chars
  BY StringAssumption
<1>4. \A i \in 1 .. size : cells[i] \in Cells
  <2> SUFFICES ASSUME NEW i \in 1 .. size PROVE cells[i] \in Cells
    OBVIOUS
  <2>1. CASE i <= s.length
    <3>1. i \in 1 .. s.length /\ s.length > 0
      BY <1>1, <1>3, <2>1
    <3>2. m.heap[s.buffer][i] \in Chars
      BY <1>0, <1>1, <3>1 DEF Whole
    <3> QED
      BY <2>1, <3>2 DEF Cells
  <2>2. CASE ~(i <= s.length)
    BY <1>3, <2>2 DEF Uninitialised, Cells
  <2> QED
    BY <2>1, <2>2
<1>5. cells \in [1 .. size -> Cells]
  BY <1>4
<1>6. /\ n.str[o].buffer = b /\ n.str[o].allocated = size /\ n.str[o].length = s.length
      /\ n.str \in [Strings -> Objects]
      /\ \A q \in Strings \ {o} : n.str[q] = m.str[q]
  <2> DEFINE t == [s EXCEPT !.buffer = b, !.allocated = size]
  <2>1. n.str = [m.str EXCEPT ![o] = t]
    BY <1>0, <1>2
  <2>2. t \in Objects /\ t.buffer = b /\ t.allocated = size /\ t.length = s.length
    BY <1>0, <1>3 DEF Objects
  <2> HIDE DEF t, n
  <2> QED
    BY <1>0, <2>1, <2>2
<1>7. /\ DOMAIN n.heap = Buffers /\ n.heap[b] = cells
      /\ \A a \in Buffers \ {b} : n.heap[a] = IF a = s.buffer THEN NULL ELSE m.heap[a]
  BY <1>2 DEF Release
<1>8. b # NULL
  BY StringAssumption
<1>9. \A q \in Strings : m.str[q].buffer # b
  BY <1>8, Owner
<1>10. OnlyChanges(m, n, o)
  <2> SUFFICES ASSUME NEW q \in Strings \ {o}, m.str[q].buffer # NULL
               PROVE  n.heap[m.str[q].buffer] = m.heap[m.str[q].buffer]
    BY <1>6 DEF OnlyChanges
  <2>1. m.str[q].buffer \in Buffers \ {b}
    BY <1>9, Owner
  <2>2. m.str[q].buffer # s.buffer
    BY DEF Sound
  <2> QED
    BY <1>7, <2>1, <2>2
<1>11. \A i \in 1 .. s.length : cells[i] = m.heap[s.buffer][i]
  BY <1>1, <1>3
<1> HIDE DEF cells, n
<1>12. Whole(n, o, FALSE)
  <2>1. \A i \in 1 .. s.length : cells[i] \in Chars
    BY <1>0, <1>1, <1>11 DEF Whole
  <2> QED
    BY <1>1, <1>5, <1>6, <1>7, <1>8, <2>1 DEF Whole
<1>13. Sound(n, o)
  <2>1. \A a \in Buffers : n.heap[a] # NULL =>
          a = n.str[o].buffer \/ \E q \in Strings \ {o} : m.str[q].buffer = a
    <3> SUFFICES ASSUME NEW a \in Buffers \ {b}, n.heap[a] # NULL
                 PROVE  \E q \in Strings \ {o} : m.str[q].buffer = a
      BY <1>6
    <3>1. a # s.buffer /\ m.heap[a] # NULL
      BY <1>7
    <3> QED
      BY <3>1 DEF Sound
  <2>2. \A q \in Strings \ {o} : m.str[q].buffer # n.str[o].buffer
    BY <1>6, <1>9
  <2>3. Whole(n, o, o # o)
    BY <1>12
  <2> QED
    BY <1>6, <1>7, <1>10, <2>1, <2>2, <2>3, SoundAfter
<1>14. \A i \in 1 .. s.length : n.heap[n.str[o].buffer][i] = m.heap[s.buffer][i]
  BY <1>6, <1>7, <1>11
<1> QED
  BY <1>6, <1>8, <1>10, <1>13, <1>14 DEF Roomy, n

LEMMA WantWriteRoomy ==
  ASSUME NEW m, NEW x, Sound(m, x), NEW o \in Strings, x \in {NULL, o},
         NEW b \in Buffers, m.heap[b] = NULL,
         NEW chars \in Nat, m.str[o].length + chars <= MaxLength
  PROVE  Roomy(m, WantWrite(m, o, chars, b), o, chars)
<1> DEFINE s == m.str[o]
<1>0. s \in Objects /\ Whole(m, o, o # x)
  BY DEF Sound
<1>1. s.length \in Nat /\ s.allocated \in Nat
  BY <1>0 DEF Objects
<1>2. CASE s.allocated < Required(s, chars)
  <2> DEFINE size == Grown(s, chars)
  <2>1. size \in 1 .. MaxLength + 1 \cup 1 .. 2 * MaxLength /\ s.length + chars < size
    BY <1>1, <1>2, GrownFacts
  <2>2. WantWrite(m, o, chars, b) = Reallocate(m, o, size, b)
    BY <1>2 DEF WantWrite
  <2> HIDE DEF size
  <2> QED
    BY <2>1, <2>2, ReallocateRoomy
<1>3. CASE ~(s.allocated < Required(s, chars))
  <2>1. WantWrite(m, o, chars, b) = m
    BY <1>3 DEF WantWrite
  <2>2. s.length + chars < s.allocated
    BY <1>1, <1>3 DEF Required
  <2>3. s.buffer # NULL
    BY <1>0, <1>1, <2>2 DEF Whole, NoBuffer
  <2>4. OnlyChanges(m, m, o)
    BY DEF OnlyChanges
  <2>5. Whole(m, o, o # o)
    BY <1>0 DEF Whole
  <2>6. Sound(m, o)
    <3>1. ASSUME NEW q \in Strings PROVE Whole(m, q, q # o)
      <4>1. CASE q = o
        BY <2>5, <4>1
      <4>2. CASE q # o
        BY <4>2, StringAssumption DEF Sound
      <4> QED
        BY <4>1, <4>2
    <3> QED
      BY <3>1 DEF Sound
  <2> QED
    BY <2>1, <2>2, <2>3, <2>4, <2>6 DEF Roomy
<1> QED
  BY <1>2, <1>3

\* The text is in place and terminated.
LEMMA WriteSound ==
  ASSUME NEW m, NEW o \in Strings, Sound(m, o), m.str[o].buffer # NULL,
         NEW text \in Seq(Chars), Len(text) <= MaxLength, Len(text) < m.str[o].allocated
  PROVE  /\ Sound(Write(m, o, text), NULL)
         /\ OnlyChanges(m, Write(m, o, text), o)
         /\ Content(Write(m, o, text), o) = text
<1> DEFINE n == Write(m, o, text)
           s == m.str[o]
           b == s.buffer
           old == m.heap[b]
           cells == [i \in DOMAIN old |-> IF i <= Len(text) THEN text[i]
                                         ELSE IF i = Len(text) + 1 THEN 0 ELSE old[i]]
<1>0. /\ s \in Objects /\ Whole(m, o, FALSE) /\ m.str \in [Strings -> Objects]
      /\ DOMAIN m.heap = Buffers /\ b \in Buffers
  BY Owner DEF Sound
<1>1. s.allocated \in Nat /\ old \in [1 .. s.allocated -> Cells] /\ DOMAIN old = 1 .. s.allocated
  BY <1>0 DEF Objects, Whole
<1>2. Len(text) \in Nat /\ \A i \in 1 .. Len(text) : text[i] \in Chars
  BY LenProperties, ElementOfSeq
<1>3. /\ n.str = [m.str EXCEPT ![o].length = Len(text)]
      /\ n.heap = [m.heap EXCEPT ![b] = cells]
  BY DEF Write
<1>4. cells \in [1 .. s.allocated -> Cells]
  <2> SUFFICES ASSUME NEW i \in 1 .. s.allocated
               PROVE  (IF i <= Len(text) THEN text[i]
                       ELSE IF i = Len(text) + 1 THEN 0 ELSE old[i]) \in Cells
    BY <1>1
  <2>1. CASE i <= Len(text)
    <3>1. i \in 1 .. Len(text)
      BY <1>1, <1>2, <2>1
    <3> QED
      BY <1>2, <2>1, <3>1 DEF Cells
  <2>2. CASE ~(i <= Len(text))
    <3>1. 0 \in Cells /\ old[i] \in Cells
      BY ONLY <1>1, i \in 1 .. s.allocated, StringAssumption, Zenon DEF Cells
    <3> QED
      BY <2>2, <3>1, Zenon
  <2> QED
    BY <2>1, <2>2
<1>5. (\A i \in 1 .. Len(text) : cells[i] = text[i]) /\ cells[Len(text) + 1] = 0
  <2>1. (\A i \in 1 .. Len(text) : i \in DOMAIN old) /\ Len(text) + 1 \in DOMAIN old
    BY <1>1, <1>2
  <2> HIDE DEF old
  <2> QED
    BY ONLY <1>2, <2>1, SMT
<1>6. /\ n.str[o].length = Len(text) /\ n.str[o].buffer = b
      /\ n.str[o].allocated = s.allocated
      /\ n.str \in [Strings -> Objects]
      /\ \A q \in Strings \ {o} : n.str[q] = m.str[q]
  <2> DEFINE t == [s EXCEPT !.length = Len(text)]
  <2>1. n.str = [m.str EXCEPT ![o] = t]
    BY <1>0, <1>3
  <2>2. /\ t \in Objects /\ t.buffer = b /\ t.allocated = s.allocated
        /\ t.length = Len(text)
    BY <1>0, <1>2 DEF Objects
  <2> HIDE DEF t, n
  <2> QED
    BY <1>0, <2>1, <2>2
<1>7. /\ DOMAIN n.heap = Buffers /\ n.heap[b] = cells
      /\ \A a \in Buffers \ {b} : n.heap[a] = m.heap[a]
  BY <1>0, <1>3
<1> HIDE DEF cells, n
<1>8. OnlyChanges(m, n, o)
  <2> SUFFICES ASSUME NEW q \in Strings \ {o}, m.str[q].buffer # NULL
               PROVE  n.heap[m.str[q].buffer] = m.heap[m.str[q].buffer]
    BY <1>6 DEF OnlyChanges
  <2>1. m.str[q].buffer \in Buffers /\ m.str[q].buffer # b
    BY Owner DEF Sound
  <2> QED
    BY <1>7, <2>1
<1>9. Whole(n, o, TRUE)
  <2>1. \A i \in 1 .. Len(text) : cells[i] \in Chars
    BY <1>2, <1>5
  <2>2. s.allocated \in 1 .. MaxLength + 1 \cup 1 .. 2 * MaxLength
    BY <1>0 DEF Whole
  <2> QED
    BY <1>0, <1>4, <1>5, <1>6, <1>7, <2>1, <2>2 DEF Whole
<1>10. Sound(n, NULL)
  <2>1. \A a \in Buffers : n.heap[a] # NULL =>
          a = n.str[o].buffer \/ \E q \in Strings \ {o} : m.str[q].buffer = a
    <3> SUFFICES ASSUME NEW a \in Buffers \ {b}, n.heap[a] # NULL
                 PROVE  \E q \in Strings \ {o} : m.str[q].buffer = a
      BY <1>6
    <3>1. m.heap[a] # NULL
      BY <1>7
    <3> QED
      BY <3>1 DEF Sound
  <2>2. \A q \in Strings \ {o} : m.str[q].buffer # n.str[o].buffer
    <3>1. \A q \in Strings \ {o} : m.str[q].buffer # b
      BY DEF Sound
    <3> QED
      BY <1>6, <3>1
  <2>3. Whole(n, o, o # NULL)
    BY <1>9 DEF Whole
  <2> QED
    BY <1>6, <1>7, <1>8, <2>1, <2>2, <2>3, SoundAfter
<1>11. Content(n, o) = text
  BY <1>5, <1>6, <1>7, <1>10, ContentIs
<1> QED
  BY <1>8, <1>10, <1>11 DEF n

LEMMA ClearedSound ==
  ASSUME NEW m, Sound(m, NULL), NEW o \in Strings
  PROVE  /\ Sound(Cleared(m, o), NULL)
         /\ OnlyChanges(m, Cleared(m, o), o)
         /\ Cleared(m, o).str[o].length = 0
         /\ Content(Cleared(m, o), o) = <<>>
         /\ \A b \in Buffers : m.heap[b] = NULL => Cleared(m, o).heap[b] = NULL
<1> DEFINE s == m.str[o]
           n == Cleared(m, o)
           cells == [m.heap[s.buffer] EXCEPT ![1] = 0]
<1>0. s \in Objects /\ Whole(m, o, TRUE) /\ m.str \in [Strings -> Objects] /\ DOMAIN m.heap = Buffers
  <2>1. Whole(m, o, o # NULL) /\ o # NULL
    BY StringAssumption DEF Sound
  <2>2. Whole(m, o, TRUE)
    BY <2>1 DEF Whole
  <2> QED
    BY <2>2 DEF Sound
<1>1. CASE s.buffer = NULL
  <2>1. n = m /\ s.length = 0
    BY <1>0, <1>1 DEF Cleared, Whole, NoBuffer
  <2> QED
    BY <2>1 DEF OnlyChanges, Content
<1>2. CASE s.buffer # NULL
  <2>1. s.buffer \in Buffers /\ m.heap[s.buffer] # NULL
    BY <1>2, Owner
  <2>2. /\ n.str = [m.str EXCEPT ![o].length = 0]
        /\ n.heap = [m.heap EXCEPT ![s.buffer] = cells]
    BY <1>0, <1>2, <2>1 DEF Cleared
  <2>3. /\ n.str[o].length = 0 /\ n.str[o].buffer = s.buffer
        /\ n.str[o].allocated = s.allocated
        /\ n.str \in [Strings -> Objects]
        /\ \A q \in Strings \ {o} : n.str[q] = m.str[q]
    <3> DEFINE t == [s EXCEPT !.length = 0]
    <3>1. n.str = [m.str EXCEPT ![o] = t]
      BY <1>0, <2>2
    <3>2. /\ t \in Objects /\ t.buffer = s.buffer /\ t.allocated = s.allocated
          /\ t.length = 0
      BY <1>0 DEF Objects
    <3> HIDE DEF t, n
    <3> QED
      BY <1>0, <3>1, <3>2
  <2>4. /\ DOMAIN n.heap = Buffers /\ n.heap[s.buffer] = cells
        /\ \A a \in Buffers \ {s.buffer} : n.heap[a] = m.heap[a]
    BY <1>0, <2>1, <2>2
  <2>5. /\ s.allocated \in Nat /\ 0 < s.allocated
        /\ s.allocated \in 1 .. MaxLength + 1 \cup 1 .. 2 * MaxLength
        /\ m.heap[s.buffer] \in [1 .. s.allocated -> Cells]
    BY <1>0, <1>2 DEF Objects, Whole
  <2>6. cells \in [1 .. s.allocated -> Cells] /\ cells[1] = 0
    BY <2>5, StringAssumption DEF Cells
  <2> HIDE DEF n, cells
  <2>7. OnlyChanges(m, n, o)
    <3> SUFFICES ASSUME NEW q \in Strings \ {o}, m.str[q].buffer # NULL
                 PROVE  n.heap[m.str[q].buffer] = m.heap[m.str[q].buffer]
      BY <2>3 DEF OnlyChanges
    <3>1. m.str[q].buffer \in Buffers /\ m.str[q].buffer # s.buffer
      BY Owner DEF Sound
    <3> QED
      BY <2>4, <3>1
  <2>8. Whole(n, o, TRUE)
    BY <1>2, <2>3, <2>4, <2>5, <2>6, StringAssumption DEF Whole
  <2>9. Sound(n, NULL)
    <3>1. \A a \in Buffers : n.heap[a] # NULL =>
            a = n.str[o].buffer \/ \E q \in Strings \ {o} : m.str[q].buffer = a
      <4> SUFFICES ASSUME NEW a \in Buffers \ {s.buffer}, n.heap[a] # NULL
                   PROVE  \E q \in Strings \ {o} : m.str[q].buffer = a
        BY <2>3
      <4>1. m.heap[a] # NULL
        BY <2>4
      <4> QED
        BY <4>1 DEF Sound
    <3>2. \A q \in Strings \ {o} : m.str[q].buffer # n.str[o].buffer
      <4>1. \A q \in Strings \ {o} : m.str[q].buffer # s.buffer
        BY <1>2 DEF Sound
      <4> QED
        BY <2>3, <4>1
    <3>3. Whole(n, o, o # NULL)
      BY <2>8 DEF Whole
    <3> QED
      BY <2>3, <2>4, <2>7, <3>1, <3>2, <3>3, SoundAfter
  <2>10. Content(n, o) = <<>>
    BY <2>3 DEF Content
  <2> QED
    BY <2>1, <2>3, <2>4, <2>7, <2>9, <2>10 DEF n
<1> QED
  BY <1>1, <1>2

LEMMA ResetSound ==
  ASSUME NEW m, Sound(m, NULL), NEW o \in Strings
  PROVE  /\ Sound(Reset(m, o), NULL)
         /\ OnlyChanges(m, Reset(m, o), o)
         /\ Reset(m, o).str[o] = NoBuffer
<1> DEFINE n == Reset(m, o)
           b == m.str[o].buffer
<1>0. /\ m.str \in [Strings -> Objects] /\ NoBuffer \in Objects
      /\ NoBuffer.buffer = NULL
  BY StringAssumption DEF Sound, Objects, NoBuffer
<1>1. /\ n.str = [m.str EXCEPT ![o] = NoBuffer]
      /\ n.heap = [a \in Buffers |-> IF a = b THEN NULL ELSE m.heap[a]]
  BY DEF Reset, Release
<1>2. /\ n.str \in [Strings -> Objects] /\ n.str[o] = NoBuffer
      /\ \A q \in Strings \ {o} : n.str[q] = m.str[q]
  BY <1>0, <1>1
<1>3. /\ DOMAIN n.heap = Buffers
      /\ \A a \in Buffers : n.heap[a] = IF a = b THEN NULL ELSE m.heap[a]
  BY <1>1
<1> HIDE DEF n
<1>4. OnlyChanges(m, n, o)
  <2> SUFFICES ASSUME NEW q \in Strings \ {o}, m.str[q].buffer # NULL
               PROVE  n.heap[m.str[q].buffer] = m.heap[m.str[q].buffer]
    BY <1>2 DEF OnlyChanges
  <2>1. m.str[q].buffer \in Buffers /\ m.str[q].buffer # b
    BY Owner DEF Sound
  <2> QED
    BY <1>3, <2>1
<1>5. Sound(n, NULL)
  <2>1. \A a \in Buffers : n.heap[a] # NULL => \E q \in Strings \ {o} : m.str[q].buffer = a
    BY <1>3 DEF Sound
  <2>2. Whole(n, o, o # NULL)
    BY <1>0, <1>2 DEF Whole
  <2>3. n.str[o].buffer = NULL
    BY <1>0, <1>2
  <2> QED
    BY <1>2, <1>3, <1>4, <2>1, <2>2, <2>3, SoundAfter
<1> QED
  BY <1>2, <1>4, <1>5 DEF n

\* A move: o becomes what p was, and p is empty.
LEMMA StealSound ==
  ASSUME NEW m, Sound(m, NULL), NEW o \in Strings, NEW p \in Strings,
         m.str[o] = NoBuffer
  PROVE  /\ Sound(Steal(m, o, p), NULL)
         /\ Content(Steal(m, o, p), p) = <<>>
         /\ o # p => Content(Steal(m, o, p), o) = Content(m, p)
         /\ \A q \in Strings \ {o, p} : Content(Steal(m, o, p), q) = Content(m, q)
<1> DEFINE n == Steal(m, o, p)
<1>0. /\ m.str \in [Strings -> Objects] /\ NoBuffer \in Objects
      /\ NoBuffer.buffer = NULL /\ NoBuffer.length = 0 /\ DOMAIN m.heap = Buffers
  BY StringAssumption DEF Sound, Objects, NoBuffer
<1>1. /\ n.heap = m.heap
      /\ n.str = [q \in Strings |-> IF q = p THEN NoBuffer
                                    ELSE IF q = o THEN m.str[p] ELSE m.str[q]]
  BY DEF Steal
<1>2. /\ n.str \in [Strings -> Objects] /\ n.str[p] = NoBuffer
      /\ o # p => n.str[o] = m.str[p]
      /\ \A q \in Strings \ {o, p} : n.str[q] = m.str[q]
  BY <1>0, <1>1
<1>h. n.heap = m.heap
  BY <1>1
<1> HIDE DEF n
<1>3. ASSUME NEW q \in Strings PROVE Whole(n, q, q # NULL)
  <2>1. CASE q = p
    BY <1>0, <1>2, <2>1 DEF Whole
  <2>2. CASE q = o /\ o # p
    <3>1. Whole(m, p, p # NULL) /\ p # NULL /\ o # NULL
      BY StringAssumption DEF Sound
    <3> QED
      BY <1>h, <1>2, <2>2, <3>1 DEF Whole
  <2>3. CASE q \notin {o, p}
    <3>1. Whole(m, q, q # NULL)
      BY DEF Sound
    <3> QED
      BY <1>h, <1>2, <2>3, <3>1 DEF Whole
  <2> QED
    BY <2>1, <2>2, <2>3
<1>4. ASSUME NEW a \in Buffers, n.heap[a] # NULL
      PROVE  \E q \in Strings : n.str[q].buffer = a
  <2>1. PICK q \in Strings : m.str[q].buffer = a
    BY <1>h, <1>4 DEF Sound
  <2>2. q # o
    BY <1>0, <2>1, StringAssumption
  <2> QED
    BY <1>2, <2>1, <2>2
<1>5. ASSUME NEW q \in Strings, NEW r \in Strings, q # r, n.str[q].buffer # NULL
      PROVE  n.str[q].buffer # n.str[r].buffer
  <2>1. q # p
    BY <1>0, <1>2, <1>5
  <2>2. CASE r = p
    BY <1>0, <1>2, <1>5, <2>2
  <2>3. CASE r # p
    BY <1>0, <1>2, <1>5, <2>1, <2>3 DEF Sound
  <2> QED
    BY <2>2, <2>3
<1>6. Sound(n, NULL)
  BY <1>0, <1>h, <1>2, <1>3, <1>4, <1>5 DEF Sound
<1>7. /\ Content(n, p) = <<>>
      /\ o # p => Content(n, o) = Content(m, p)
      /\ \A q \in Strings \ {o, p} : Content(n, q) = Content(m, q)
  BY <1>0, <1>h, <1>2 DEF Content
<1> QED
  BY <1>6, <1>7 DEF n

\* The heap with one cell written; and what that means for the cells.
Stored(m, b, i, c) == [m.heap EXCEPT ![b][i] = c]

OneCell(m, n, s, i, c) ==
  /\ i \in 1 .. s.allocated
  /\ DOMAIN n.heap = Buffers
  /\ \A a \in Buffers \ {s.buffer} : n.heap[a] = m.heap[a]
  /\ n.heap[s.buffer] \in [1 .. s.allocated -> Cells]
  /\ \A j \in 1 .. s.allocated :
       n.heap[s.buffer][j] = IF j = i THEN c ELSE m.heap[s.buffer][j]

LEMMA StoreCell ==
  ASSUME NEW m, NEW x, Sound(m, x), NEW o \in Strings, NEW s, s = m.str[o], s.buffer # NULL,
         NEW i, i \in 1 .. s.allocated, NEW c, c \in Chars,
         NEW n, n.heap = Stored(m, s.buffer, i, c)
  PROVE  OneCell(m, n, s, i, c)
<1> DEFINE b == s.buffer
           cells == [m.heap[b] EXCEPT ![i] = c]
<1>0. /\ s \in Objects /\ Whole(m, o, o # x) /\ DOMAIN m.heap = Buffers
      /\ b \in Buffers
  BY Owner DEF Sound
<1>1. s.allocated \in Nat /\ m.heap[b] \in [1 .. s.allocated -> Cells]
  BY <1>0 DEF Objects, Whole
<1>2. /\ DOMAIN n.heap = Buffers /\ n.heap[b] = cells
      /\ \A a \in Buffers \ {b} : n.heap[a] = m.heap[a]
  BY <1>0 DEF Stored
<1>3. /\ cells \in [1 .. s.allocated -> Cells]
      /\ \A j \in 1 .. s.allocated : cells[j] = IF j = i THEN c ELSE m.heap[b][j]
  BY <1>1 DEF Cells
<1> HIDE DEF cells
<1> QED
  BY <1>2, <1>3 DEF OneCell

\* One cell of the text, or its terminator, is written, and perhaps the length.
LEMMA StoreSound ==
  ASSUME NEW m, NEW x, Sound(m, x), NEW o \in Strings, x \in {NULL, o},
         NEW s, s = m.str[o], s.buffer # NULL,
         NEW n, NEW y, y \in {NULL, o}, NEW i, NEW c, c \in Chars,
         OneCell(m, n, s, i, c),
         n.str \in [Strings -> Objects],
         n.str[o].buffer = s.buffer, n.str[o].allocated = s.allocated,
         n.str[o].length <= MaxLength, n.str[o].length < s.allocated,
         \A q \in Strings \ {o} : n.str[q] = m.str[q],
         \A j \in 1 .. n.str[o].length : j = i \/ m.heap[s.buffer][j] \in Chars,
         y = NULL => IF i = n.str[o].length + 1 THEN c = 0
                     ELSE m.heap[s.buffer][n.str[o].length + 1] = 0
  PROVE  Sound(n, y) /\ OnlyChanges(m, n, o)
<1> DEFINE b == s.buffer
           cells == n.heap[b]
           len == n.str[o].length
<1>0. /\ s \in Objects /\ Whole(m, o, o # x) /\ DOMAIN m.heap = Buffers
      /\ b \in Buffers
  BY Owner DEF Sound
<1>1. /\ s.allocated \in Nat /\ m.heap[b] \in [1 .. s.allocated -> Cells]
      /\ s.allocated \in 1 .. MaxLength + 1 \cup 1 .. 2 * MaxLength
  BY <1>0 DEF Objects, Whole
<1>2. /\ len \in Nat /\ n.str[o].length = len
      /\ n.str[o].buffer = b /\ n.str[o].allocated = s.allocated
  BY DEF Objects
<1>3. /\ DOMAIN n.heap = Buffers /\ n.heap[b] = cells
      /\ \A a \in Buffers \ {b} : n.heap[a] = m.heap[a]
  BY DEF OneCell
<1>4. /\ i \in 1 .. s.allocated /\ cells \in [1 .. s.allocated -> Cells]
      /\ \A j \in 1 .. s.allocated : cells[j] = IF j = i THEN c ELSE m.heap[b][j]
  BY DEF OneCell
<1>5. y = NULL => IF i = len + 1 THEN c = 0 ELSE m.heap[b][len + 1] = 0
  OBVIOUS
<1>6. /\ len <= MaxLength /\ len < s.allocated
      /\ \A j \in 1 .. len : j = i \/ m.heap[b][j] \in Chars
  OBVIOUS
<1> HIDE DEF cells, len
<1>7. OnlyChanges(m, n, o)
  <2> SUFFICES ASSUME NEW q \in Strings \ {o}, m.str[q].buffer # NULL
               PROVE  n.heap[m.str[q].buffer] = m.heap[m.str[q].buffer]
    BY DEF OnlyChanges
  <2>1. m.str[q].buffer \in Buffers /\ m.str[q].buffer # b
    BY Owner DEF Sound
  <2> QED
    BY <1>3, <2>1
<1>8. Whole(n, o, o # y)
  <2>1. \A j \in 1 .. len : cells[j] \in Chars
    <3> SUFFICES ASSUME NEW j \in 1 .. len PROVE cells[j] \in Chars
      OBVIOUS
    <3>1. j \in 1 .. s.allocated
      BY <1>1, <1>2, <1>6
    <3> QED
      BY <1>4, <1>6, <3>1
  <2>2. ASSUME o # y PROVE cells[len + 1] = 0
    <3>1. y = NULL /\ len + 1 \in 1 .. s.allocated
      BY <1>1, <1>2, <1>6, <2>2
    <3> QED
      BY <1>4, <1>5, <3>1
  <2> QED
    BY <1>1, <1>2, <1>3, <1>4, <1>6, <2>1, <2>2 DEF Whole
<1>9. Sound(n, y)
  <2>1. \A a \in Buffers : n.heap[a] # NULL =>
          a = n.str[o].buffer \/ \E q \in Strings \ {o} : m.str[q].buffer = a
    <3> SUFFICES ASSUME NEW a \in Buffers \ {b}, n.heap[a] # NULL
                 PROVE  \E q \in Strings \ {o} : m.str[q].buffer = a
      BY <1>2
    <3>1. m.heap[a] # NULL
      BY <1>3
    <3> QED
      BY <3>1 DEF Sound
  <2>2. \A q \in Strings \ {o} : m.str[q].buffer # n.str[o].buffer
    <3>1. \A q \in Strings \ {o} : m.str[q].buffer # b
      BY DEF Sound
    <3> QED
      BY <1>2, <3>1
  <2>3. /\ x \in {NULL, o} /\ y \in {NULL, o} /\ Sound(m, x)
        /\ n.str \in [Strings -> Objects] /\ DOMAIN n.heap = Buffers
    BY <1>3
  <2> HIDE DEF b
  <2> QED
    BY ONLY o \in Strings, <1>7, <1>8, <2>1, <2>2, <2>3, SoundAfter
<1> QED
  BY <1>7, <1>9

-----------------------------------------------------------------------------
(* The operations: each keeps the objects sound, and changes the values as *)
(* StringValues says.                                                      *)

LEMMA SameMemory ==
  ASSUME NEW m, NEW n, NEW x, Sound(n, x), m.str = n.str, m.heap = n.heap
  PROVE  Sound(m, x) /\ \A o \in Strings : Content(m, o) = Content(n, o)
  BY DEF Sound, Whole, Content

\* What the abstract specification sees.
Val == [o \in Strings |-> IF o = building THEN <<>> ELSE Content(Memory, o)]

\* An operation of a finished object leaves what its helpers made of it.
LEMMA IdleStep ==
  ASSUME SInv, Idle, NEW n, Sound(n, NULL), Become(n)
  PROVE  /\ SInv'
         /\ building = NULL /\ building' = NULL
         /\ \A o \in Strings : Content(Memory, o)' = Content(n, o)
<1>1. building = NULL /\ building' = NULL /\ left' = left
  BY DEF Idle
<1>2. Memory'.str = n.str /\ Memory'.heap = n.heap
  BY DEF Memory, Become
<1>3. Sound(Memory', NULL) /\ \A o \in Strings : Content(Memory', o) = Content(n, o)
  BY <1>2, SameMemory
<1> QED
  BY <1>1, <1>3 DEF SInv

\* The value of one object changes.
LEMMA ValueStep ==
  ASSUME building = NULL, building' = NULL, NEW o \in Strings, NEW t,
         Content(Memory, o)' = t,
         \A q \in Strings \ {o} : Content(Memory, q)' = Content(Memory, q)
  PROVE  Val' = [Val EXCEPT ![o] = t]
<1>1. \A q \in Strings : q # NULL
  BY StringAssumption
<1>2. \A q \in Strings : Val[q] = Content(Memory, q) /\ Val'[q] = Content(Memory, q)'
  BY <1>1 DEF Val
<1>3. Val = [q \in Strings |-> Val[q]] /\ Val' = [q \in Strings |-> Val'[q]]
  BY DEF Val
<1>4. \A q \in Strings : Val'[q] = IF q = o THEN t ELSE Val[q]
  BY <1>2
<1> HIDE DEF Val
<1> QED
  BY <1>3, <1>4

LEMMA FreeBuffer ==
  ASSUME SInv, NEW b \in FreeBuffers
  PROVE  b \in Buffers /\ Memory.heap[b] = NULL /\ Memory.str = str /\ Memory.heap = heap
  BY DEF FreeBuffers, Memory

LEMMA CopyUtf32Step ==
  ASSUME SInv, NEW o \in Strings, NEW text \in Texts, NEW b \in FreeBuffers,
         CopyUtf32(o, text, b)
  PROVE  SInv' /\ Values!Construct(o)
<1> DEFINE m == WantWrite(Memory, o, Len(text), b)
           n == Write(m, o, text)
<1>1. Idle /\ str[o] = NoBuffer /\ Become(n)
  BY DEF CopyUtf32
<1>2. text \in Seq(Chars) /\ Len(text) \in Nat /\ Len(text) <= MaxLength
  <2>1. PICK k \in 0 .. MaxLength : text \in [1 .. k -> Chars]
    BY DEF Texts
  <2>2. text \in Seq(Chars)
    BY <2>1, SeqDef
  <2>3. Len(text) = k
    BY <2>1, <2>2, LenProperties
  <2> QED
    BY <2>1, <2>2, <2>3
<1>3. Sound(Memory, NULL) /\ Memory.str[o].length = 0
  BY <1>1 DEF SInv, Idle, Memory, NoBuffer
<1>4. Roomy(Memory, m, o, Len(text))
  BY <1>2, <1>3, FreeBuffer, WantWriteRoomy
<1>5. /\ Sound(m, o) /\ OnlyChanges(Memory, m, o) /\ m.str[o].buffer # NULL
      /\ Len(text) < m.str[o].allocated
  BY <1>2, <1>3, <1>4 DEF Roomy
<1> HIDE DEF m
<1>6. Sound(n, NULL) /\ OnlyChanges(m, n, o) /\ Content(n, o) = text
  BY <1>2, <1>5, WriteSound
<1> HIDE DEF n
<1>7. \A q \in Strings \ {o} : Content(n, q) = Content(Memory, q)
  BY <1>3, <1>5, <1>6, ContentKept
<1>8. /\ SInv' /\ building = NULL /\ building' = NULL
      /\ \A q \in Strings : Content(Memory, q)' = Content(n, q)
  BY <1>1, <1>6, IdleStep
<1>9. Val' = [Val EXCEPT ![o] = text]
  BY <1>6, <1>7, <1>8, ValueStep
<1>10. Val[o] = <<>>
  BY <1>3, <1>8, StringAssumption DEF Val, Content
<1> QED
  BY <1>8, <1>9, <1>10 DEF Val, Values!Construct, Values!Texts, Texts

\* A constructor that decodes is not seen before it is done.
LEMMA DecodeBeginStep ==
  ASSUME SInv, NEW o \in Strings, NEW units \in 0 .. MaxLength, NEW b \in FreeBuffers,
         DecodeBegin(o, units, b)
  PROVE  SInv' /\ Val' = Val
<1> DEFINE n == WantWrite(Memory, o, units, b)
<1>1. building = NULL /\ str[o] = NoBuffer /\ Become(n) /\ building' = o /\ left' = units
  BY DEF DecodeBegin
<1>2. Sound(Memory, NULL) /\ Memory.str[o].length = 0 /\ units \in Nat /\ units <= MaxLength
  BY <1>1, StringAssumption DEF SInv, Memory, NoBuffer
<1>3. Roomy(Memory, n, o, units)
  BY <1>2, FreeBuffer, WantWriteRoomy
<1> HIDE DEF n
<1>4. Memory'.str = n.str /\ Memory'.heap = n.heap /\ str' = n.str
  BY <1>1 DEF Memory, Become
<1>5. Sound(Memory', o) /\ \A q \in Strings : Content(Memory', q) = Content(n, q)
  BY <1>3, <1>4, SameMemory DEF Roomy
<1>6. SInv'
  BY <1>1, <1>2, <1>3, <1>4, <1>5 DEF SInv, Roomy
<1>7. \A q \in Strings \ {o} : Content(Memory', q) = Content(Memory, q)
  BY <1>2, <1>3, <1>5, ContentKept DEF Roomy
<1>8. Content(Memory, o) = <<>>
  BY <1>2 DEF Content
<1>9. Val' = Val
  <2>1. \A q \in Strings : Val'[q] = Val[q]
    BY <1>1, <1>7, <1>8, StringAssumption DEF Val
  <2> QED
    BY <2>1 DEF Val
<1> QED
  BY <1>6, <1>9

\* Next returns a character: it is stored behind the text, for which
\* _wantWrite has made room.
LEMMA DecodeCharStep ==
  ASSUME SInv, NEW c \in Chars \ {0}, NEW b \in FreeBuffers, DecodeChar(c, b)
  PROVE  SInv' /\ Val' = Val
<1> DEFINE m == WantWrite(Memory, building, 1, b)
           s == m.str[building]
           n == [str  |-> [m.str EXCEPT ![building].length = @ + 1],
                 heap |-> [m.heap EXCEPT ![s.buffer][s.length + 1] = c]]
<1>1. /\ building # NULL /\ left > 0 /\ left' \in 0 .. left - 1
      /\ Become(n) /\ building' = building
  BY DEF DecodeChar
<1>2. /\ building \in Strings /\ Sound(Memory, building) /\ left \in 0 .. MaxLength
      /\ Memory.str[building].length + left <= MaxLength
      /\ Memory.str[building].length \in Nat
  <2>1. building \in Strings /\ Sound(Memory, building) /\ str[building].buffer # NULL
    BY <1>1 DEF SInv
  <2>2. Memory.str[building].length \in Nat
    BY <2>1, Owner DEF Memory
  <2> QED
    BY <1>1, <2>1, <2>2 DEF SInv, Memory
<1>3. Roomy(Memory, m, building, 1)
  <2>1. Memory.str[building].length + 1 <= MaxLength /\ 1 \in Nat
    BY <1>1, <1>2, StringAssumption
  <2>2. b \in Buffers /\ Memory.heap[b] = NULL
    BY FreeBuffer
  <2> QED
    BY <1>2, <2>1, <2>2, WantWriteRoomy
<1> HIDE DEF m
<1>4. /\ Sound(m, building) /\ OnlyChanges(Memory, m, building) /\ s.buffer # NULL
      /\ s.length = Memory.str[building].length
      /\ s.length + 1 < s.allocated
  BY <1>3 DEF Roomy
<1>5. /\ s \in Objects /\ Whole(m, building, FALSE) /\ m.str \in [Strings -> Objects]
  BY <1>2, <1>4 DEF Sound
<1>6. /\ s.length \in Nat /\ s.allocated \in Nat
      /\ s.length + left <= MaxLength
      /\ \A j \in 1 .. s.length : m.heap[s.buffer][j] \in Chars
  BY <1>2, <1>4, <1>5 DEF Objects, Whole
<1> DEFINE t == [s EXCEPT !.length = s.length + 1]
<1>7. /\ n.str = [m.str EXCEPT ![building] = t]
      /\ n.heap = [m.heap EXCEPT ![s.buffer][s.length + 1] = c]
  BY <1>2, <1>5
<1>8. /\ t \in Objects /\ t.length = s.length + 1 /\ t.buffer = s.buffer
      /\ t.allocated = s.allocated
  BY <1>5, <1>6 DEF Objects
<1>9. t = [m.str[building] EXCEPT !.length = s.length + 1]
  OBVIOUS
<1> HIDE DEF t, n
<1>10. /\ n.str \in [Strings -> Objects] /\ n.str[building] = t
       /\ \A q \in Strings \ {building} : n.str[q] = m.str[q]
  BY <1>2, <1>5, <1>7, <1>8
<1> HIDE DEF s
<1>11. /\ s.length + 1 \in Nat /\ s.length + 1 <= MaxLength
       /\ s.length + 1 \in 1 .. s.allocated
       /\ \A j \in 1 .. s.length + 1 : j = s.length + 1 \/ m.heap[s.buffer][j] \in Chars
  <2>1. s.length + 1 \in 1 .. s.allocated /\ s.length + 1 <= MaxLength
    BY <1>1, <1>2, <1>4, <1>6, StringAssumption
  <2>2. \A j \in 1 .. s.length + 1 : j = s.length + 1 \/ j \in 1 .. s.length
    BY <1>6
  <2> QED
    BY <1>6, <2>1, <2>2
<1>12. /\ Sound(n, building) /\ OnlyChanges(m, n, building)
       /\ n.str[building].length = s.length + 1 /\ n.str[building].buffer = s.buffer
  <2> DEFINE len == s.length + 1
  <2>1. /\ len <= MaxLength /\ len < s.allocated /\ len \in 1 .. s.allocated
        /\ \A j \in 1 .. len : j = len \/ m.heap[s.buffer][j] \in Chars
    BY <1>4, <1>11
  <2>2. /\ n.str[building].length = len /\ n.str[building].buffer = s.buffer
        /\ n.str[building].allocated = s.allocated
    BY <1>8, <1>10
  <2>3. n.heap = Stored(m, s.buffer, len, c)
    BY <1>7 DEF Stored
  <2> HIDE DEF len
  <2>4. /\ building \in Strings /\ building # NULL /\ c \in Chars /\ Sound(m, building)
        /\ s = m.str[building] /\ s.buffer # NULL
    BY <1>1, <1>2, <1>4 DEF s
  <2>5. OneCell(m, n, s, len, c)
    BY ONLY <2>1, <2>3, <2>4, StoreCell
  <2>6. Sound(n, building) /\ OnlyChanges(m, n, building)
    <3>1. building \in {NULL, building}
      OBVIOUS
    <3> QED
      BY ONLY <1>10, <2>1, <2>2, <2>4, <2>5, <3>1, StoreSound
  <2> QED
    BY <2>2, <2>6 DEF len
<1>13. Memory'.str = n.str /\ Memory'.heap = n.heap /\ str' = n.str
  BY <1>1 DEF Memory, Become
<1>14. Sound(Memory', building) /\ \A q \in Strings : Content(Memory', q) = Content(n, q)
  BY <1>12, <1>13, SameMemory
<1>15. SInv'
  <2>1. str'[building].buffer # NULL /\ str'[building].length = s.length + 1
    BY <1>4, <1>12, <1>13 DEF s
  <2>2. left' \in 0 .. MaxLength /\ s.length + 1 + left' <= MaxLength
    BY <1>1, <1>2, <1>6, StringAssumption
  <2> QED
    BY <1>1, <1>2, <1>14, <2>1, <2>2 DEF SInv
<1>16. \A q \in Strings \ {building} : Content(Memory', q) = Content(Memory, q)
  <2>1. \A q \in Strings \ {building} : Content(m, q) = Content(Memory, q)
    BY <1>2, <1>4, ContentKept DEF s
  <2>2. \A q \in Strings \ {building} : Content(n, q) = Content(m, q)
    BY <1>2, <1>4, <1>12, ContentKept
  <2> QED
    BY <1>14, <2>1, <2>2
<1>17. Val' = Val
  BY <1>1, <1>16 DEF Val
<1> QED
  BY <1>15, <1>17

\* The terminator: the object is seen, with the text that was decoded.
LEMMA DecodeEndStep ==
  ASSUME SInv, DecodeEnd
  PROVE  SInv' /\ \E o \in Strings : Values!Construct(o)
<1>0. PICK o \in Strings \cup {NULL} : o = building
  BY DEF SInv
<1> DEFINE s == str[o]
           n == [str |-> str, heap |-> [heap EXCEPT ![s.buffer][s.length + 1] = 0]]
<1>1. /\ o # NULL /\ building' = NULL /\ left' = 0
      /\ str' = n.str /\ heap' = n.heap
  BY <1>0 DEF DecodeEnd
<1>2. /\ o \in Strings /\ Sound(Memory, o) /\ s.buffer # NULL
      /\ Memory.str = str /\ Memory.heap = heap
  BY <1>0, <1>1 DEF SInv, Memory
<1>3. /\ s \in Objects /\ Whole(Memory, o, FALSE) /\ str \in [Strings -> Objects]
  BY <1>2 DEF Sound
<1>4. /\ s.length \in Nat /\ s.allocated \in Nat
      /\ s.length < s.allocated /\ s.length <= MaxLength
      /\ \A j \in 1 .. s.length : heap[s.buffer][j] \in Chars
  BY <1>2, <1>3 DEF Objects, Whole
<1>5. s.length + 1 \in 1 .. s.allocated /\ 0 \in Chars
  BY <1>4, StringAssumption
<1>6. s = [s EXCEPT !.length = s.length]
  BY <1>3 DEF Objects
<1>7. n.str = str /\ n.heap = [heap EXCEPT ![s.buffer][s.length + 1] = 0]
  OBVIOUS
<1> HIDE DEF n
<1>8. Sound(n, NULL) /\ OnlyChanges(Memory, n, o)
  <2> DEFINE i == s.length + 1
  <2>1. i \in 1 .. s.allocated /\ n.heap = Stored(Memory, s.buffer, i, 0)
    BY <1>2, <1>5, <1>7 DEF Stored
  <2>2. /\ n.str[o] = s /\ n.str[o].length + 1 = i /\ n.str[o].length <= MaxLength
        /\ n.str[o].length < s.allocated
        /\ \A j \in 1 .. n.str[o].length : heap[s.buffer][j] \in Chars
    BY <1>4, <1>7
  <2>3. /\ Memory.str[o] = s /\ \A q \in Strings \ {o} : n.str[q] = Memory.str[q]
        /\ n.str \in [Strings -> Objects]
    BY <1>2, <1>3, <1>7
  <2> HIDE DEF i, s
  <2>4. OneCell(Memory, n, s, i, 0)
    BY ONLY <1>2, <1>5, <2>1, <2>3, StoreCell
  <2>5. NULL \in {NULL, o} /\ o \in {NULL, o}
    OBVIOUS
  <2> QED
    BY ONLY <1>2, <1>5, <2>1, <2>2, <2>3, <2>4, <2>5, StoreSound
<1>9. Memory'.str = n.str /\ Memory'.heap = n.heap
  BY <1>1 DEF Memory
<1>10. Sound(Memory', NULL) /\ \A q \in Strings : Content(Memory', q) = Content(n, q)
  BY <1>8, <1>9, SameMemory
<1>11. SInv'
  BY <1>1, <1>10, StringAssumption DEF SInv
<1>12. \A q \in Strings \ {o} : Content(Memory', q) = Content(Memory, q)
  BY <1>2, <1>8, <1>10, ContentKept
<1>13. Content(Memory', o) \in Values!Texts
  <2> DEFINE t == Content(n, o)
  <2>1. t \in Seq(Chars) /\ Len(t) \in 0 .. MaxLength
    BY <1>2, <1>8, ContentFacts
  <2> HIDE DEF t
  <2>2. t \in [1 .. Len(t) -> Chars]
    BY <2>1, LenProperties
  <2> QED
    BY <1>2, <1>10, <2>1, <2>2 DEF Values!Texts, t
<1>14. Val[o] = <<>> /\ Val' = [Val EXCEPT ![o] = Content(Memory', o)]
  <2>1. Val[o] = <<>>
    BY <1>0, <1>2 DEF Val
  <2>2. \A q \in Strings : Val'[q] = IF q = o THEN Content(Memory', o) ELSE Val[q]
    BY <1>0, <1>1, <1>12, StringAssumption DEF Val
  <2>3. Val' = [q \in Strings |-> Val'[q]] /\ Val = [q \in Strings |-> Val[q]]
    BY DEF Val
  <2> HIDE DEF Val
  <2> QED
    BY <2>1, <2>2, <2>3
<1>15. Values!Construct(o)
  BY <1>13, <1>14 DEF Val, Values!Construct
<1> QED
  BY <1>2, <1>11, <1>15

\* A copy, of an object that may be the one assigned to: that one is cleared
\* before it is read.
LEMMA AssignedSound ==
  ASSUME SInv, building = NULL, NEW o \in Strings, NEW p \in Strings, NEW b \in FreeBuffers
  PROVE  /\ Sound(Assigned(o, p, b), NULL)
         /\ Content(Assigned(o, p, b), o) = IF o = p THEN <<>> ELSE Content(Memory, p)
         /\ \A q \in Strings \ {o} : Content(Assigned(o, p, b), q) = Content(Memory, q)
<1> DEFINE m == Cleared(Memory, o)
           chars == m.str[p].length
           text == Content(m, p)
           w == WantWrite(m, o, chars, b)
           n == Write(w, o, text)
<1>0. Sound(Memory, NULL)
  BY DEF SInv
<1>1. /\ Sound(m, NULL) /\ OnlyChanges(Memory, m, o) /\ m.str[o].length = 0
      /\ Content(m, o) = <<>> /\ m.heap[b] = NULL /\ b \in Buffers
  BY <1>0, ClearedSound, FreeBuffer
<1>2. Assigned(o, p, b) = n
  BY DEF Assigned
<1> HIDE DEF m
<1>3. /\ chars \in 0 .. MaxLength /\ text \in Seq(Chars) /\ Len(text) = chars
  BY <1>1, ContentFacts
<1> HIDE DEF text, chars
<1>4. chars \in Nat /\ m.str[o].length + chars <= MaxLength
  BY <1>1, <1>3, StringAssumption
<1>5. Roomy(m, w, o, chars)
  BY <1>1, <1>4, WantWriteRoomy
<1> HIDE DEF w
<1>6. /\ Sound(w, o) /\ OnlyChanges(m, w, o) /\ w.str[o].buffer # NULL
      /\ Len(text) <= MaxLength /\ Len(text) < w.str[o].allocated
  BY <1>1, <1>3, <1>4, <1>5, StringAssumption DEF Roomy
<1>7. Sound(n, NULL) /\ OnlyChanges(w, n, o) /\ Content(n, o) = text
  BY <1>3, <1>6, WriteSound
<1> HIDE DEF n
<1>8. \A q \in Strings \ {o} : Content(m, q) = Content(Memory, q)
  BY <1>0, <1>1, ContentKept
<1>9. \A q \in Strings \ {o} : Content(w, q) = Content(m, q)
  BY <1>1, <1>6, ContentKept
<1>10. \A q \in Strings \ {o} : Content(n, q) = Content(w, q)
  BY <1>6, <1>7, ContentKept
<1>11. text = IF o = p THEN <<>> ELSE Content(Memory, p)
  BY <1>1, <1>8 DEF text
<1> QED
  BY <1>2, <1>7, <1>8, <1>9, <1>10, <1>11

LEMMA CopyAssignStep ==
  ASSUME SInv, NEW o \in Strings, NEW p \in Strings, NEW b \in FreeBuffers,
         CopyAssign(o, p, b)
  PROVE  SInv' /\ Values!Copy(o, p)
<1> DEFINE n == Assigned(o, p, b)
<1>1. Idle /\ Become(n) /\ building = NULL
  BY DEF CopyAssign, Idle
<1>2. /\ Sound(n, NULL) /\ Content(n, o) = IF o = p THEN <<>> ELSE Content(Memory, p)
      /\ \A q \in Strings \ {o} : Content(n, q) = Content(Memory, q)
  BY <1>1, AssignedSound
<1> HIDE DEF n
<1>3. /\ SInv' /\ building' = NULL
      /\ \A q \in Strings : Content(Memory, q)' = Content(n, q)
  BY <1>1, <1>2, IdleStep
<1> DEFINE t == IF o = p THEN <<>> ELSE Content(Memory, p)
<1>4. Content(Memory, o)' = t /\ \A q \in Strings \ {o} : Content(Memory, q)' = Content(Memory, q)
  BY <1>2, <1>3
<1>5. t = IF o = p THEN <<>> ELSE Val[p]
  BY <1>1, StringAssumption DEF Val
<1> HIDE DEF t
<1>6. Val' = [Val EXCEPT ![o] = t]
  BY <1>1, <1>3, <1>4, ValueStep
<1> QED
  BY <1>3, <1>5, <1>6, Zenon DEF Val, Values!Copy

\* A copy of an empty object has no buffer either.
LEMMA CopyConstructStep ==
  ASSUME SInv, NEW o \in Strings, NEW p \in Strings, NEW b \in FreeBuffers,
         CopyConstruct(o, p, b)
  PROVE  SInv' /\ Values!Copy(o, p)
<1>1. /\ Idle /\ building = NULL /\ o # p /\ str[o] = NoBuffer
  BY DEF CopyConstruct, Idle
<1>2. CASE str[p].length = 0
  <2>1. str' = str /\ heap' = heap /\ Become(Memory)
    BY <1>2 DEF CopyConstruct, Become, Memory
  <2>2. Sound(Memory, NULL)
    BY <1>1 DEF SInv
  <2>3. /\ SInv' /\ building' = NULL
        /\ \A q \in Strings : Content(Memory, q)' = Content(Memory, q)
    BY <1>1, <2>1, <2>2, IdleStep
  <2>4. Content(Memory, o) = <<>> /\ Content(Memory, p) = <<>>
    BY <1>1, <1>2 DEF Content, Memory, NoBuffer
  <2>5. Content(Memory, o)' = <<>> /\ \A q \in Strings \ {o} : Content(Memory, q)' = Content(Memory, q)
    BY <2>3, <2>4
  <2>6. Val' = [Val EXCEPT ![o] = <<>>]
    BY <1>1, <2>3, <2>5, ValueStep
  <2>7. Val[p] = <<>>
    BY <1>1, <2>4, StringAssumption DEF Val
  <2> QED
    BY <1>1, <2>3, <2>6, <2>7, Zenon DEF Val, Values!Copy
<1>3. CASE str[p].length # 0
  <2>1. CopyAssign(o, p, b)
    BY <1>1, <1>3 DEF CopyConstruct, CopyAssign
  <2> QED
    BY <2>1, CopyAssignStep
<1> QED
  BY <1>2, <1>3

\* A move into an object that has no buffer, or has given it up.
LEMMA MovedStep ==
  ASSUME SInv, Idle, NEW o \in Strings, NEW p \in Strings, NEW m, Sound(m, NULL),
         OnlyChanges(Memory, m, o), m.str[o] = NoBuffer, Become(Steal(m, o, p))
  PROVE  SInv' /\ Values!Move(o, p)
<1> DEFINE n == Steal(m, o, p)
<1>0. Sound(Memory, NULL) /\ building = NULL
  BY DEF SInv, Idle
<1>1. /\ Sound(n, NULL) /\ Content(n, p) = <<>>
      /\ o # p => Content(n, o) = Content(m, p)
      /\ \A q \in Strings \ {o, p} : Content(n, q) = Content(m, q)
  BY StealSound
<1> HIDE DEF n
<1>2. \A q \in Strings \ {o} : Content(m, q) = Content(Memory, q)
  BY <1>0, ContentKept
<1>3. /\ SInv' /\ building' = NULL
      /\ \A q \in Strings : Content(Memory, q)' = Content(n, q)
  BY <1>0, <1>1, IdleStep DEF n
<1>4. \A q \in Strings : Val[q] = Content(Memory, q) /\ Val'[q] = Content(Memory, q)'
  BY <1>0, <1>3, StringAssumption DEF Val
<1>5. \A q \in Strings : Val'[q] = IF q = p THEN <<>> ELSE IF q = o THEN Val[p] ELSE Val[q]
  BY <1>1, <1>2, <1>3, <1>4
<1>6. Val = [q \in Strings |-> Val[q]] /\ Val' = [q \in Strings |-> Val'[q]]
  BY DEF Val
<1> HIDE DEF Val
<1>7. Val' = [Val EXCEPT ![o] = Val[p], ![p] = <<>>]
  BY <1>5, <1>6
<1> QED
  BY <1>3, <1>7 DEF Val, Values!Move

LEMMA MoveConstructStep ==
  ASSUME SInv, NEW o \in Strings, NEW p \in Strings, MoveConstruct(o, p)
  PROVE  SInv' /\ Values!Move(o, p)
<1>1. Idle /\ Sound(Memory, NULL) /\ Memory.str[o] = NoBuffer /\ Become(Steal(Memory, o, p))
  BY DEF MoveConstruct, Idle, SInv, Memory
<1>2. OnlyChanges(Memory, Memory, o)
  BY DEF OnlyChanges
<1> QED
  BY <1>1, <1>2, MovedStep

LEMMA MoveAssignStep ==
  ASSUME SInv, NEW o \in Strings, NEW p \in Strings, MoveAssign(o, p)
  PROVE  SInv' /\ Values!Move(o, p)
<1>1. Idle /\ Sound(Memory, NULL) /\ Become(Steal(Reset(Memory, o), o, p))
  BY DEF MoveAssign, Idle, SInv
<1> DEFINE m == Reset(Memory, o)
<1>2. Sound(m, NULL) /\ OnlyChanges(Memory, m, o) /\ m.str[o] = NoBuffer
  BY <1>1, ResetSound
<1> HIDE DEF m
<1> QED
  BY <1>1, <1>2, MovedStep DEF m

\* Cleared or destroyed, the object is empty.
LEMMA EmptiedStep ==
  ASSUME SInv, NEW o \in Strings, Clear(o) \/ Destroy(o)
  PROVE  SInv' /\ Values!Clear(o)
<1>1. ASSUME NEW n, Idle, Become(n), Sound(n, NULL), OnlyChanges(Memory, n, o), Content(n, o) = <<>>
      PROVE  SInv' /\ Values!Clear(o)
  <2>1. /\ SInv' /\ building = NULL /\ building' = NULL
        /\ \A q \in Strings : Content(Memory, q)' = Content(n, q)
    BY <1>1, IdleStep
  <2>2. \A q \in Strings \ {o} : Content(n, q) = Content(Memory, q)
    BY <1>1, <2>1, ContentKept DEF SInv
  <2>3. Content(Memory, o)' = <<>> /\ \A q \in Strings \ {o} : Content(Memory, q)' = Content(Memory, q)
    BY <1>1, <2>1, <2>2
  <2>4. Val' = [Val EXCEPT ![o] = <<>>]
    BY <2>1, <2>3, ValueStep
  <2> QED
    BY <2>1, <2>4 DEF Val, Values!Clear
<1>2. CASE Clear(o)
  <2>1. Idle /\ Sound(Memory, NULL) /\ Become(Cleared(Memory, o))
    BY <1>2 DEF Clear, Idle, SInv
  <2> QED
    BY <1>1, <2>1, ClearedSound
<1>3. CASE Destroy(o)
  <2>1. Idle /\ Sound(Memory, NULL) /\ Become(Reset(Memory, o))
    BY <1>3 DEF Destroy, Idle, SInv
  <2>2. Content(Reset(Memory, o), o) = <<>>
    BY <2>1, ResetSound DEF Content, NoBuffer
  <2> QED
    BY <1>1, <2>1, <2>2, ResetSound
<1> QED
  BY <1>2, <1>3

LEMMA SetAtStep ==
  ASSUME SInv, NEW o \in Strings, NEW i \in 1 .. MaxLength, NEW c \in Chars, SetAt(o, i, c)
  PROVE  SInv' /\ Values!SetAt(o)
<1> DEFINE s == str[o]
           n == [str |-> str, heap |-> [heap EXCEPT ![s.buffer][i] = c]]
<1>1. /\ Idle /\ Become(n) /\ i \in 1 .. s.length
  BY DEF SetAt, Become
<1>2. /\ Sound(Memory, NULL) /\ Memory.str = str /\ Memory.heap = heap /\ building = NULL
      /\ Memory.str[o] = s
  BY <1>1 DEF SInv, Idle, Memory
<1>3. /\ s \in Objects /\ Whole(Memory, o, TRUE) /\ str \in [Strings -> Objects]
  <2>1. Whole(Memory, o, o # NULL) /\ o # NULL
    BY <1>2, StringAssumption DEF Sound
  <2>2. Whole(Memory, o, TRUE)
    BY <2>1 DEF Whole
  <2> QED
    BY <1>2, <2>2 DEF Sound
<1>4. s.buffer # NULL
  BY <1>1, <1>2, <1>3 DEF Whole, NoBuffer
<1>5. /\ s.length \in Nat /\ s.allocated \in Nat
      /\ s.length < s.allocated /\ s.length <= MaxLength
      /\ \A j \in 1 .. s.length : heap[s.buffer][j] \in Chars
      /\ heap[s.buffer][s.length + 1] = 0
  BY <1>2, <1>3, <1>4 DEF Objects, Whole
<1>6. /\ n.str = str /\ n.heap = Stored(Memory, s.buffer, i, c)
      /\ n.str \in [Strings -> Objects] /\ n.str[o] = s
      /\ \A q \in Strings \ {o} : n.str[q] = Memory.str[q]
  BY <1>2, <1>3 DEF Stored
<1> HIDE DEF n
<1>7. i \in 1 .. s.allocated /\ i # s.length + 1
  BY <1>1, <1>5
<1> DEFINE len == s.length
<1>8. /\ len \in Nat /\ len <= MaxLength /\ len < s.allocated /\ s.length = len
      /\ \A j \in 1 .. len : j = i \/ Memory.heap[s.buffer][j] \in Chars
      /\ Memory.heap[s.buffer][len + 1] = 0 /\ i # len + 1
  BY <1>2, <1>5, <1>7
<1> HIDE DEF s, len
<1>9. OneCell(Memory, n, s, i, c)
  BY ONLY c \in Chars, o \in Strings, <1>2, <1>4, <1>6, <1>7, StoreCell
<1>10. Sound(n, NULL) /\ OnlyChanges(Memory, n, o)
  <2>1. NULL \in {NULL, o}
    OBVIOUS
  <2>2. /\ n.str[o].length <= MaxLength /\ n.str[o].length < s.allocated
        /\ i # n.str[o].length + 1 /\ Memory.heap[s.buffer][n.str[o].length + 1] = 0
        /\ \A j \in 1 .. n.str[o].length : Memory.heap[s.buffer][j] \in Chars
    BY <1>6, <1>8, <1>2, <1>5
  <2> QED
    BY ONLY c \in Chars, o \in Strings, <1>2, <1>4, <1>6, <1>9, <2>1, <2>2, StoreSound
<1>11. /\ SInv' /\ building' = NULL
       /\ \A q \in Strings : Content(Memory, q)' = Content(n, q)
  BY <1>1, <1>10, IdleStep
<1>12. \A q \in Strings \ {o} : Content(n, q) = Content(Memory, q)
  BY <1>2, <1>10, ContentKept
<1> DEFINE old == Content(Memory, o)
           new == Content(n, o)
           t == [old EXCEPT ![i] = c]
<1>13. /\ old \in Seq(Chars) /\ Len(old) = len
       /\ \A j \in 1 .. len : old[j] = Memory.heap[s.buffer][j]
  BY <1>2, <1>8, ContentFacts
<1>14. t \in Seq(Chars) /\ Len(t) = len /\ \A j \in 1 .. len : t[j] = IF j = i THEN c ELSE old[j]
  <2> HIDE DEF old
  <2>1. DOMAIN old = 1 .. len /\ DOMAIN t = 1 .. len /\ \A j \in 1 .. len : old[j] \in Chars
    BY <1>13, LenProperties, ElementOfSeq
  <2>2. t \in [1 .. len -> Chars]
    BY <1>13, <2>1, LenProperties
  <2>3. t \in Seq(Chars)
    <3> HIDE DEF t
    <3> QED
      BY ONLY <1>8, <2>2, SMT
  <2>4. Len(t) = len
    BY <1>8, <2>1, <2>3, LenProperties
  <2>5. \A j \in 1 .. len : t[j] = IF j = i THEN c ELSE old[j]
    BY <2>1
  <2> QED
    BY <2>3, <2>4, <2>5
<1>15. new = t
  <2> HIDE DEF old, t
  <2>1. n.str[o].length = Len(t) /\ n.str[o].buffer = s.buffer
    BY <1>6, <1>8, <1>14
  <2>2. \A j \in 1 .. Len(t) : n.heap[n.str[o].buffer][j] = t[j]
    <3>1. \A j \in 1 .. len : j \in 1 .. s.allocated
      BY <1>3, <1>8 DEF Objects
    <3> QED
      BY <1>9, <1>13, <1>14, <2>1, <3>1 DEF OneCell
  <2> QED
    BY <1>10, <1>14, <2>1, <2>2, ContentIs
<1>16. i \in 1 .. Len(Val[o]) /\ Val[o] = old
  BY <1>1, <1>2, <1>8, <1>13, StringAssumption DEF Val, s
<1> HIDE DEF old, new, t
<1>17. Val' = [Val EXCEPT ![o] = t]
  BY <1>2, <1>11, <1>12, <1>15, ValueStep DEF new
<1>18. Val' = [Val EXCEPT ![o][i] = c]
  <2>1. t = [Val[o] EXCEPT ![i] = c]
    BY <1>16 DEF t
  <2> HIDE DEF Val
  <2> QED
    BY <1>17, <2>1, Zenon
<1> QED
  BY <1>11, <1>16, <1>18 DEF Val, Values!SetAt

-----------------------------------------------------------------------------
(* The theorems.                                                           *)

LEMMA InitSound == Init => SInv /\ Values!Init
<1> SUFFICES ASSUME Init PROVE SInv /\ Values!Init
  OBVIOUS
<1>1. /\ Memory.str = [o \in Strings |-> NoBuffer] /\ Memory.heap = [b \in Buffers |-> NULL]
      /\ building = NULL /\ left = 0
  BY DEF Init, Memory
<1>2. NoBuffer \in Objects /\ NoBuffer.buffer = NULL /\ NoBuffer.length = 0
  BY DEF NoBuffer, Objects
<1>3. Sound(Memory, NULL)
  BY <1>1, <1>2 DEF Sound, Whole
<1>4. Val = [o \in Strings |-> <<>>]
  BY <1>1, <1>2 DEF Val, Content
<1> QED
  BY <1>1, <1>3, <1>4, StringAssumption DEF SInv, Val, Values!Init

\* Every step is one of the values, or is not seen.
LEMMA StepSound ==
  SInv /\ [Next]_vars => SInv' /\ (Values!Next \/ Val' = Val)
<1> SUFFICES ASSUME SInv, [Next]_vars PROVE SInv' /\ (Values!Next \/ Val' = Val)
  OBVIOUS
<1>1. ASSUME NEW o \in Strings, NEW b \in FreeBuffers, NEW text \in Texts, CopyUtf32(o, text, b)
      PROVE  SInv' /\ Values!Next
  BY <1>1, CopyUtf32Step DEF Values!Next
<1>2. ASSUME NEW o \in Strings, NEW b \in FreeBuffers, NEW units \in 0 .. MaxLength,
             DecodeBegin(o, units, b)
      PROVE  SInv' /\ Val' = Val
  BY <1>2, DecodeBeginStep
<1>3. ASSUME NEW o \in Strings, NEW b \in FreeBuffers, NEW p \in Strings,
             CopyAssign(o, p, b) \/ CopyConstruct(o, p, b)
      PROVE  SInv' /\ Values!Next
  BY <1>3, CopyAssignStep, CopyConstructStep DEF Values!Next
<1>4. ASSUME NEW c \in Chars \ {0}, NEW b \in FreeBuffers, DecodeChar(c, b)
      PROVE  SInv' /\ Val' = Val
  BY <1>4, DecodeCharStep
<1>5. ASSUME DecodeEnd
      PROVE  SInv' /\ Values!Next
  BY <1>5, DecodeEndStep DEF Values!Next
<1>6. ASSUME NEW o \in Strings, NEW p \in Strings, MoveConstruct(o, p) \/ MoveAssign(o, p)
      PROVE  SInv' /\ Values!Next
  BY <1>6, MoveConstructStep, MoveAssignStep DEF Values!Next
<1>7. ASSUME NEW o \in Strings, Clear(o) \/ Destroy(o)
      PROVE  SInv' /\ Values!Next
  BY <1>7, EmptiedStep DEF Values!Next
<1>8. ASSUME NEW o \in Strings, NEW i \in 1 .. MaxLength, NEW c \in Chars, SetAt(o, i, c)
      PROVE  SInv' /\ Values!Next
  BY <1>8, SetAtStep DEF Values!Next
<1>9. CASE UNCHANGED vars
  <2>1. /\ Memory'.str = Memory.str /\ Memory'.heap = Memory.heap
        /\ str' = str /\ building' = building /\ left' = left
    BY <1>9 DEF vars, Memory
  <2>2. Sound(Memory', building) /\ \A o \in Strings : Content(Memory', o) = Content(Memory, o)
    BY <2>1, SameMemory DEF SInv
  <2> QED
    BY <2>1, <2>2 DEF SInv, Val
<1> QED
  BY <1>1, <1>2, <1>3, <1>4, <1>5, <1>6, <1>7, <1>8, <1>9 DEF Next

\* In every state every String owns its buffer alone, of the size it
\* believes, and has written every character of its text.
THEOREM StringsSound == Spec => []SInv
  BY InitSound, StepSound, PTL DEF Spec

\* No buffer is shared, leaked, or used after it was freed, whatever
\* constructors, assignments, moves and destructors a thread calls.
THEOREM BuffersOwned == Spec => []Owned
<1>1. SInv => Owned
  <2> SUFFICES ASSUME SInv PROVE Owned
    OBVIOUS
  <2>1. Sound(Memory, building) /\ Memory.str = str /\ Memory.heap = heap
    BY DEF SInv, Memory
  <2>2. \A o, p \in Strings : o # p /\ str[o].buffer # NULL => str[o].buffer # str[p].buffer
    BY <2>1 DEF Sound
  <2>3. {b \in Buffers : heap[b] # NULL} = {str[o].buffer : o \in Strings} \ {NULL}
    <3>1. \A o \in Strings : str[o].buffer # NULL =>
            str[o].buffer \in Buffers /\ heap[str[o].buffer] # NULL
      BY <2>1, Owner
    <3>2. \A b \in Buffers : heap[b] # NULL => b # NULL /\ \E o \in Strings : str[o].buffer = b
      BY <2>1, StringAssumption DEF Sound
    <3> QED
      BY <3>1, <3>2
  <2>4. ASSUME NEW o \in Strings, str[o].buffer = NULL PROVE str[o] = NoBuffer
    BY <2>1, <2>4 DEF Sound, Whole
  <2>5. ASSUME NEW o \in Strings, str[o].buffer # NULL
        PROVE  /\ str[o].allocated = Len(heap[str[o].buffer])
               /\ str[o].allocated \in 1 .. MaxLength + 1 \cup 1 .. 2 * MaxLength
    <3> DEFINE cells == heap[str[o].buffer]
               n == str[o].allocated
    <3>1. n \in Nat /\ n \in 1 .. MaxLength + 1 \cup 1 .. 2 * MaxLength /\ cells \in [1 .. n -> Cells]
      BY <2>1, <2>5, Owner DEF Sound, Whole
    <3> HIDE DEF cells, n
    <3>2. cells \in Seq(Cells)
      BY <3>1, SeqDef
    <3>3. Len(cells) = n
      BY <3>1, <3>2, LenProperties
    <3> QED
      BY <3>1, <3>3 DEF cells, n
  <2> QED
    BY <2>2, <2>3, <2>4, <2>5 DEF Owned
<1> QED
  BY <1>1, StringsSound, PTL

\* Every write is inside of the buffer, and every text has its terminator,
\* except while a constructor decodes into it.
THEOREM TextsTerminated == Spec => []Terminated
<1>1. SInv => Terminated
  <2> SUFFICES ASSUME SInv, NEW o \in Strings, str[o].buffer # NULL
               PROVE  /\ str[o].length < Len(heap[str[o].buffer])
                      /\ o = building \/ heap[str[o].buffer][str[o].length + 1] = 0
    BY DEF Terminated
  <2> DEFINE cells == heap[str[o].buffer]
             n == str[o].allocated
  <2>1. Sound(Memory, building) /\ Memory.str = str /\ Memory.heap = heap
    BY DEF SInv, Memory
  <2>2. Whole(Memory, o, o # building)
    BY <2>1 DEF Sound
  <2>3. /\ n \in Nat /\ cells \in [1 .. n -> Cells] /\ str[o].length < n
        /\ o = building \/ cells[str[o].length + 1] = 0
    BY <2>1, <2>2, Owner DEF Whole
  <2> HIDE DEF cells, n
  <2>4. cells \in Seq(Cells)
    BY <2>3, SeqDef
  <2>5. Len(cells) = n
    BY <2>3, <2>4, LenProperties
  <2> QED
    BY <2>3, <2>5 DEF cells
<1> QED
  BY <1>1, StringsSound, PTL

\* The buffers implement values: no sequence of operations lets the text of
\* one String change with another, or shows a cell that was never written.
THEOREM BuffersImplementValues == Spec => ImplementsValues
<1>1. Init => Values!Init
  BY InitSound
<1>2. SInv /\ [Next]_vars => [Values!Next]_Val
  BY StepSound
<1> QED
  BY <1>1, <1>2, StringsSound, PTL DEF Spec, ImplementsValues, Values!Spec, Val

-----------------------------------------------------------------------------
(* Comparison.  What follows is about texts; they are those of the objects *)
(* in CompareIs and ContainsIs.                                            *)

LEMMA LeastNumber ==
  ASSUME NEW T \in SUBSET Nat, T # {}
  PROVE  \E n \in T : \A m \in T : n <= m
<1> DEFINE Below == {ss \in Nat \X Nat : ss[1] < ss[2]}
<1>1. OpToRel(<, Nat) = Below
  BY Zenon DEF OpToRel
<1>2. IsWellFoundedOn(Below, Nat)
  BY <1>1, NatLessThanWellFounded, Zenon
<1>3. \E n \in T : \A m \in T : ~(<<m, n>> \in Below)
  <2> HIDE DEF Below
  <2> QED BY <1>2, WFMin
<1>4. PICK n \in T : \A m \in T : ~(<<m, n>> \in Below)
  BY <1>3
<1>5. ASSUME NEW m \in T PROVE n <= m
  <2>1. ~(<<m, n>> \in Below)
    BY <1>4
  <2>2. n \in Nat /\ m \in Nat
    OBVIOUS
  <2>3. ~(m < n)
    BY <2>1, <2>2, Zenon
  <2> QED BY <2>2, <2>3
<1> QED BY <1>5

Differing(s, t) == {i \in 1 .. Len(s) : i <= Len(t) /\ s[i] # t[i]}

\* The texts are the same before the first place where they differ, if there is one.
FirstOf(s, t) == CHOOSE i \in Differing(s, t) : \A j \in Differing(s, t) : i <= j

LEMMA Characters ==
  ASSUME NEW s \in Seq(Chars)
  PROVE  Len(s) \in Nat /\ \A i \in 1 .. Len(s) : s[i] \in Nat
<1>1. Len(s) \in Nat /\ \A i \in 1 .. Len(s) : s[i] \in Chars
  OBVIOUS
<1> QED BY <1>1, StringAssumption, Zenon

LEMMA FirstIs ==
  ASSUME NEW s \in Seq(Chars), NEW t \in Seq(Chars), Differing(s, t) # {}
  PROVE  LET f == FirstOf(s, t)
         IN  /\ f \in 1 .. Len(s) /\ f <= Len(t) /\ s[f] # t[f]
             /\ \A j \in 1 .. Len(s) : j < f => s[j] = t[j]
<1>1. Differing(s, t) \in SUBSET Nat
  BY DEF Differing
<1>2. \E i \in Differing(s, t) : \A j \in Differing(s, t) : i <= j
  BY <1>1, LeastNumber
<1>3. FirstOf(s, t) \in Differing(s, t) /\ \A j \in Differing(s, t) : FirstOf(s, t) <= j
  BY <1>2, Zenon DEF FirstOf
<1> DEFINE f == FirstOf(s, t)
<1> HIDE DEF f
<1>4. f \in 1 .. Len(s) /\ f <= Len(t) /\ s[f] # t[f]
  BY <1>3 DEF Differing, f
<1>5. ASSUME NEW j \in 1 .. Len(s), j < f PROVE s[j] = t[j]
  <2>1. j \notin Differing(s, t)
    BY <1>3, <1>4, <1>5 DEF f
  <2>2. j <= Len(t)
    BY <1>4, <1>5
  <2> QED BY <2>1, <2>2 DEF Differing
<1> QED BY <1>4, <1>5 DEF f

LEMMA SameBeginning ==
  ASSUME NEW s \in Seq(Chars), NEW t \in Seq(Chars), NEW n \in Nat, n <= Len(s), n <= Len(t)
  PROVE  SubSeq(s, 1, n) = SubSeq(t, 1, n) <=> \A i \in 1 .. n : s[i] = t[i]
<1>1. \A i \in 1 .. n : s[i] \in Chars /\ t[i] \in Chars
  OBVIOUS
<1>2. /\ SubSeq(s, 1, n) \in Seq(Chars) /\ SubSeq(t, 1, n) \in Seq(Chars)
      /\ Len(SubSeq(s, 1, n)) = IF 1 <= n THEN n - 1 + 1 ELSE 0
      /\ Len(SubSeq(t, 1, n)) = IF 1 <= n THEN n - 1 + 1 ELSE 0
      /\ \A i \in 1 .. n - 1 + 1 : SubSeq(s, 1, n)[i] = s[1 + i - 1] /\ SubSeq(t, 1, n)[i] = t[1 + i - 1]
  BY <1>1, SubSeqProperties
<1> DEFINE u == SubSeq(s, 1, n)
           v == SubSeq(t, 1, n)
<1> HIDE DEF u, v
<1>3. /\ u \in Seq(Chars) /\ v \in Seq(Chars) /\ Len(u) = n /\ Len(v) = n
      /\ \A i \in 1 .. n : u[i] = s[i] /\ v[i] = t[i]
  BY <1>2 DEF u, v
<1>4. ASSUME \A i \in 1 .. n : s[i] = t[i] PROVE u = v
  BY <1>3, <1>4, SeqEqual
<1> QED BY <1>3, <1>4 DEF u, v

\* The order goes by the first place where the texts differ, or by their lengths.
LEMMA PrecedesIs ==
  ASSUME NEW s \in Seq(Chars), NEW t \in Seq(Chars)
  PROVE  Precedes(s, t) <=> IF Differing(s, t) # {} THEN s[FirstOf(s, t)] < t[FirstOf(s, t)]
                                                  ELSE Len(s) < Len(t)
<1> DEFINE Upto(n) == /\ n <= Len(t) /\ \A i \in 1 .. n : s[i] = t[i]
                      /\ \/ n = Len(s) /\ n < Len(t)
                         \/ n < Len(s) /\ n < Len(t) /\ s[n + 1] < t[n + 1]
<1>1. Len(s) \in Nat /\ Len(t) \in Nat
      /\ (\A i \in 1 .. Len(s) : s[i] \in Nat) /\ (\A i \in 1 .. Len(t) : t[i] \in Nat)
  BY Characters
<1>2. Precedes(s, t) <=> \E n \in 0 .. Len(s) : Upto(n)
  <2>1. ASSUME NEW n \in 0 .. Len(s), n <= Len(t)
        PROVE  SubSeq(s, 1, n) = SubSeq(t, 1, n) <=> \A i \in 1 .. n : s[i] = t[i]
    BY <1>1, <2>1, SameBeginning
  <2> QED BY <2>1, Zenon DEF Precedes
<1>3. CASE Differing(s, t) # {}
  <2> DEFINE f == FirstOf(s, t)
  <2>1. /\ f \in 1 .. Len(s) /\ f <= Len(t) /\ s[f] # t[f]
        /\ \A j \in 1 .. Len(s) : j < f => s[j] = t[j]
    BY <1>3, FirstIs
  <2> HIDE DEF f
  <2>2. ASSUME s[f] < t[f] PROVE \E n \in 0 .. Len(s) : Upto(n)
    <3>1. f - 1 \in 0 .. Len(s) /\ (f - 1) + 1 = f
      BY <2>1
    <3>2. Upto(f - 1)
      BY <1>1, <2>1, <2>2, <3>1
    <3> QED BY <3>1, <3>2
  <2>3. ASSUME NEW n \in 0 .. Len(s), Upto(n) PROVE s[f] < t[f]
    <3>1. n < f
      <4> SUFFICES ASSUME f <= n PROVE FALSE
        BY <2>1
      <4>1. f \in 1 .. n
        BY <2>1
      <4> QED BY <2>1, <2>3, <4>1
    <3>2. n < Len(s) /\ n < Len(t) /\ s[n + 1] < t[n + 1]
      BY <1>1, <2>1, <2>3, <3>1
    <3>3. n + 1 = f
      <4> SUFFICES ASSUME n + 1 < f PROVE FALSE
        BY <2>1, <3>1
      <4>1. n + 1 \in 1 .. Len(s) /\ n + 1 \in 1 .. Len(t)
        BY <1>1, <3>2
      <4>2. s[n + 1] = t[n + 1] /\ s[n + 1] \in Nat
        BY <1>1, <2>1, <4>1
      <4> QED BY <3>2, <4>2
    <3> QED BY <3>2, <3>3
  <2> QED BY <1>2, <1>3, <2>2, <2>3 DEF f
<1>4. CASE Differing(s, t) = {}
  <2>1. \A i \in 1 .. Len(s) : i <= Len(t) => s[i] = t[i]
    BY <1>4 DEF Differing
  <2>2. ASSUME Len(s) < Len(t) PROVE \E n \in 0 .. Len(s) : Upto(n)
    <3>1. Len(s) \in 0 .. Len(s) /\ Upto(Len(s))
      BY <1>1, <2>1, <2>2
    <3> QED BY <3>1
  <2>3. ASSUME NEW n \in 0 .. Len(s), Upto(n) PROVE Len(s) < Len(t)
    <3> SUFFICES ASSUME ~(Len(s) < Len(t)) PROVE FALSE
      OBVIOUS
    <3>1. n < Len(s) /\ n < Len(t) /\ s[n + 1] < t[n + 1]
      BY <1>1, <2>3
    <3>2. n + 1 \in 1 .. Len(s) /\ n + 1 <= Len(t)
      BY <1>1, <3>1
    <3>3. s[n + 1] = t[n + 1] /\ s[n + 1] \in Nat
      BY <1>1, <2>1, <3>2
    <3> QED BY <3>1, <3>3
  <2> QED BY <1>2, <1>4, <2>2, <2>3
<1> QED BY <1>3, <1>4

LEMMA SameText ==
  ASSUME NEW s \in Seq(Chars), NEW t \in Seq(Chars)
  PROVE  s = t <=> Differing(s, t) = {} /\ Len(s) = Len(t)
<1>1. ASSUME s = t PROVE Differing(s, t) = {} /\ Len(s) = Len(t)
  BY <1>1 DEF Differing
<1>2. ASSUME Differing(s, t) = {}, Len(s) = Len(t) PROVE s = t
  <2>1. \A i \in 1 .. Len(s) : s[i] = t[i]
    BY <1>2 DEF Differing
  <2> QED BY <1>2, <2>1, SeqEqual
<1> QED BY <1>1, <1>2

Sign(x, y) == IF x < y THEN "less" ELSE IF x > y THEN "greater" ELSE "equal"

LEMMA CompareIs ==
  ASSUME SInv, NEW o \in Strings, NEW p \in Strings
  PROVE  LET s == Content(Memory, o)
             t == Content(Memory, p)
         IN  /\ Compare(o, p) = "equal" <=> s = t
             /\ Compare(o, p) = "less" <=> Precedes(s, t)
<1> DEFINE s == Content(Memory, o)
           t == Content(Memory, p)
<1>1. Sound(Memory, building) /\ Memory.str = str /\ Memory.heap = heap
  BY DEF SInv, Memory
<1>2. /\ s \in Seq(Chars) /\ t \in Seq(Chars)
      /\ Len(s) = str[o].length /\ Len(t) = str[p].length
  BY <1>1, ContentFacts
<1>3. Compare(o, p) = IF str[o].buffer = str[p].buffer THEN "equal"
                      ELSE IF Differing(s, t) # {} THEN Sign(s[FirstOf(s, t)], t[FirstOf(s, t)])
                      ELSE Sign(str[o].length, str[p].length)
  BY Zenon DEF Compare, Differing, FirstOf, Sign
<1>4. CASE str[o].buffer = str[p].buffer
  <2>1. s = t
    <3>1. CASE o = p
      BY <3>1
    <3>2. CASE o # p
      <4>1. str[o].buffer = NULL /\ str[p].buffer = NULL
        BY <1>1, <1>4, <3>2 DEF Sound
      <4>2. str[o] = NoBuffer /\ str[p] = NoBuffer
        BY <1>1, <4>1 DEF Sound, Whole
      <4>3. Memory.str[o].length = 0 /\ Memory.str[p].length = 0
        BY <1>1, <4>2 DEF NoBuffer
      <4> QED BY <4>3 DEF Content
    <3> QED BY <3>1, <3>2
  <2> HIDE DEF s, t
  <2>2. ~Precedes(s, t)
    <3>1. Differing(s, t) = {} /\ Len(s) = Len(t) /\ Len(s) \in Nat
      BY <1>2, <2>1, SameText
    <3> QED BY <1>2, <3>1, PrecedesIs
  <2>3. Compare(o, p) = "equal"
    BY <1>3, <1>4
  <2> QED BY <2>1, <2>2, <2>3 DEF s, t
<1>5. CASE str[o].buffer # str[p].buffer
  <2> HIDE DEF s, t
  <2>1. CASE Differing(s, t) # {}
    <3> DEFINE f == FirstOf(s, t)
    <3>1. f \in 1 .. Len(s) /\ f <= Len(t) /\ s[f] # t[f]
      BY <1>2, <2>1, FirstIs
    <3>2. s[f] \in Nat /\ t[f] \in Nat
      <4>1. f \in 1 .. Len(s) /\ f \in 1 .. Len(t)
        BY <1>2, <3>1
      <4> QED BY <1>2, <4>1, Characters
    <3>3. Precedes(s, t) <=> s[f] < t[f]
      BY <1>2, <2>1, PrecedesIs
    <3>4. s # t
      BY <1>2, <2>1, SameText
    <3>5. Compare(o, p) = Sign(s[f], t[f])
      BY <1>3, <1>5, <2>1
    <3> HIDE DEF f
    <3>6. /\ Compare(o, p) = "equal" <=> s = t
          /\ Compare(o, p) = "less" <=> Precedes(s, t)
      BY <3>1, <3>2, <3>3, <3>4, <3>5 DEF Sign
    <3> QED BY <3>6 DEF s, t
  <2>2. CASE Differing(s, t) = {}
    <3>1. Precedes(s, t) <=> Len(s) < Len(t)
      BY <1>2, <2>2, PrecedesIs
    <3>2. s = t <=> Len(s) = Len(t)
      BY <1>2, <2>2, SameText
    <3>3. Compare(o, p) = Sign(Len(s), Len(t))
      BY <1>2, <1>3, <1>5, <2>2
    <3>4. Len(s) \in Nat /\ Len(t) \in Nat
      BY <1>2
    <3>5. /\ Compare(o, p) = "equal" <=> s = t
          /\ Compare(o, p) = "less" <=> Precedes(s, t)
      BY <3>1, <3>2, <3>3, <3>4 DEF Sign
    <3> QED BY <3>5 DEF s, t
  <2> QED BY <2>1, <2>2
<1> QED BY <1>4, <1>5

LEMMA ContainsIs ==
  ASSUME SInv, NEW o \in Strings, NEW p \in Strings
  PROVE  LET s == Content(Memory, o)
             t == Content(Memory, p)
         IN  Contains(o, p) <=> \E x \in 0 .. Len(s) : \E y \in 0 .. Len(s) : SubSeq(s, x + 1, y) = t
<1> DEFINE s == Content(Memory, o)
           t == Content(Memory, p)
           n == str[p].length
           l == str[o].length
<1>1. Sound(Memory, building) /\ Memory.str = str /\ Memory.heap = heap
  BY DEF SInv, Memory
<1>2. /\ s \in Seq(Chars) /\ t \in Seq(Chars) /\ l \in Nat /\ n \in Nat
      /\ Len(s) = l /\ Len(t) = n
      /\ \A i \in 1 .. l : s[i] = heap[str[o].buffer][i]
      /\ \A i \in 1 .. n : t[i] = heap[str[p].buffer][i]
  <2>1. l \in 0 .. MaxLength /\ s \in Seq(Chars) /\ Len(s) = l
        /\ \A i \in 1 .. l : s[i] = heap[str[o].buffer][i]
    BY <1>1, ContentFacts, Zenon
  <2>2. n \in 0 .. MaxLength /\ t \in Seq(Chars) /\ Len(t) = n
        /\ \A i \in 1 .. n : t[i] = heap[str[p].buffer][i]
    BY <1>1, ContentFacts, Zenon
  <2> HIDE DEF s, t, l, n
  <2> QED BY ONLY <2>1, <2>2
<1>3. Contains(o, p) <=> \/ n = 0
                         \/ n <= l /\ \E i \in 0 .. l - n : \A j \in 1 .. n : s[i + j] = t[j]
  <2> HIDE DEF s, t, l, n
  <2>1. Contains(o, p) <=>
          \/ n = 0
          \/ n <= l /\ \E i \in 0 .. l - n : \A j \in 1 .. n :
                 heap[str[o].buffer][i + j] = heap[str[p].buffer][j]
    BY Zenon DEF Contains, l, n
  <2>2. ASSUME NEW i \in 0 .. l - n, NEW j \in 1 .. n
        PROVE  /\ s[i + j] = heap[str[o].buffer][i + j]
               /\ t[j] = heap[str[p].buffer][j]
    <3>1. i + j \in 1 .. l
      BY <1>2, <2>2
    <3> QED BY <1>2, <3>1
  <2> QED BY <2>1, <2>2, Zenon
<1> HIDE DEF s, t, l, n
<1>4. ASSUME NEW x \in 0 .. l, NEW y \in 0 .. l
      PROVE  /\ SubSeq(s, x + 1, y) \in Seq(Chars)
             /\ Len(SubSeq(s, x + 1, y)) = IF x < y THEN y - x ELSE 0
             /\ \A j \in 1 .. y - x : SubSeq(s, x + 1, y)[j] = s[x + j]
  <2>1. x + 1 \in Int /\ y \in Int /\ \A i \in x + 1 .. y : s[i] \in Chars
    <3>1. \A i \in x + 1 .. y : i \in 1 .. Len(s)
      BY <1>2
    <3> QED BY <1>2, <3>1
  <2>2. /\ SubSeq(s, x + 1, y) \in Seq(Chars)
        /\ Len(SubSeq(s, x + 1, y)) = IF x + 1 <= y THEN y - (x + 1) + 1 ELSE 0
        /\ \A j \in 1 .. y - (x + 1) + 1 : SubSeq(s, x + 1, y)[j] = s[(x + 1) + j - 1]
    BY <2>1, SubSeqProperties
  <2>3. y - (x + 1) + 1 = y - x /\ \A j \in 1 .. y - x : (x + 1) + j - 1 = x + j
    BY <1>2
  <2> QED BY <1>2, <2>2, <2>3
<1>5. ASSUME n = 0 PROVE \E x \in 0 .. l : \E y \in 0 .. l : SubSeq(s, x + 1, y) = t
  <2>1. 0 \in 0 .. l
    BY <1>2
  <2>2. SubSeq(s, 0 + 1, 0) \in Seq(Chars) /\ Len(SubSeq(s, 0 + 1, 0)) = 0
    BY <1>4, <2>1
  <2>3. SubSeq(s, 0 + 1, 0) = t
    BY <1>2, <1>5, <2>2, SeqEqual
  <2> QED BY <2>1, <2>3
<1>6. ASSUME n # 0, n <= l, NEW i \in 0 .. l - n, \A j \in 1 .. n : s[i + j] = t[j]
      PROVE  \E x \in 0 .. l : \E y \in 0 .. l : SubSeq(s, x + 1, y) = t
  <2>1. i \in 0 .. l /\ i + n \in 0 .. l /\ i < i + n /\ (i + n) - i = n
    BY <1>2, <1>6
  <2> DEFINE w == SubSeq(s, i + 1, i + n)
  <2>2. w \in Seq(Chars) /\ Len(w) = n /\ \A j \in 1 .. n : w[j] = s[i + j]
    BY <1>4, <2>1
  <2> HIDE DEF w
  <2>3. w = t
    BY <1>2, <1>6, <2>2, SeqEqual
  <2> QED BY <2>1, <2>3 DEF w
<1>7. ASSUME n # 0, NEW x \in 0 .. l, NEW y \in 0 .. l, SubSeq(s, x + 1, y) = t
      PROVE  n <= l /\ \E i \in 0 .. l - n : \A j \in 1 .. n : s[i + j] = t[j]
  <2>1. /\ n = IF x < y THEN y - x ELSE 0
        /\ \A j \in 1 .. y - x : t[j] = s[x + j]
    BY <1>2, <1>4, <1>7
  <2>2. n = y - x /\ n <= l /\ x \in 0 .. l - n
    BY <1>2, <1>7, <2>1
  <2>3. \A j \in 1 .. n : s[x + j] = t[j]
    BY <2>1, <2>2
  <2> QED BY <2>2, <2>3
<1>8. Contains(o, p) <=> \E x \in 0 .. l : \E y \in 0 .. l : SubSeq(s, x + 1, y) = t
  BY <1>3, <1>5, <1>6, <1>7
<1> QED BY <1>2, <1>8 DEF s, t

\* operator<=> and contains go by the texts alone: that two Strings have the same
\* address, or no buffer, tells nothing that their texts do not.
THEOREM TextsCompared == Spec => []ComparesByValue
<1>1. SInv => ComparesByValue
  BY CompareIs, ContainsIs DEF ComparesByValue
<1> QED BY <1>1, StringsSound, PTL

=============================================================================
