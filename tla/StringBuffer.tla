---------------------------- MODULE StringBuffer ----------------------------
(***************************************************************************)
(* The class String as it is stored: every object holds the address of a   *)
(* buffer on the heap, the number of characters in it and the number of    *)
(* characters it has room for.  Objects are copied, moved, cleared,        *)
(* assigned to themselves and destroyed in any order.                      *)
(*                                                                         *)
(* A destroyed object, one moved from and one built by String() all hold   *)
(* no buffer, so the model reuses the name of one for the next.  Running   *)
(* out of memory is left out.                                              *)
(***************************************************************************)
EXTENDS Naturals, Sequences

CONSTANTS
    Strings,    \* the String objects of a thread
    Buffers,    \* the addresses operator new returns
    NULL,       \* nullptr; also "no object" and "nothing allocated here"
    Chars,      \* code points; 0 is the terminator and may also be in a text
    Junk,       \* a cell of the heap nobody has written to
    MaxLength   \* bound: the longest source text, in units of its encoding

ASSUME StringAssumption ==
    /\ NULL \notin Strings \cup Buffers
    /\ Chars \subseteq Nat /\ 0 \in Chars /\ Junk \notin Chars
    /\ MaxLength \in Nat
    /\ \A n \in 0 .. 2 * MaxLength + 1 : NULL \notin [1 .. n -> Chars \cup {Junk}]

VARIABLES
    str,        \* the three members of each object
    heap,       \* the cells of each buffer, or NULL
    building,   \* the object a constructor is decoding into, or NULL
    left        \* units of the source text the decoder has not read yet

vars == <<str, heap, building, left>>

NoBuffer == [buffer |-> NULL, length |-> 0, allocated |-> 0]

Texts == UNION {[1 .. n -> Chars] : n \in 0 .. MaxLength}

Init ==
    /\ str = [o \in Strings |-> NoBuffer]
    /\ heap = [b \in Buffers |-> NULL]
    /\ building = NULL
    /\ left = 0

-----------------------------------------------------------------------------
(* The private helpers.  Each takes the objects and the heap as a record m  *)
(* and returns what it makes of them.                                       *)

Memory == [str |-> str, heap |-> heap]

(* A bug this code could have had: no room for the terminator.              *)
RequiredUnterminated(s, chars) == s.length + chars

Required(s, chars) == s.length + chars + 1

Grown(s, chars) ==
    IF s.allocated * 2 < Required(s, chars) THEN Required(s, chars) ELSE s.allocated * 2

(* memset is given the number of characters, so it clears that many bytes.  *)
Uninitialised(size) == [i \in 1 .. size |-> IF 4 * i <= size THEN 0 ELSE Junk]

Release(h, b) == [a \in Buffers |-> IF a = b THEN NULL ELSE h[a]]

(* operator new returns some address that is free.                          *)
Reallocate(m, o, size, b) ==
    LET s == m.str[o]
        cells == [i \in 1 .. size |->
                     IF i <= s.length THEN m.heap[s.buffer][i] ELSE Uninitialised(size)[i]]
    IN [str  |-> [m.str EXCEPT ![o].buffer = b, ![o].allocated = size],
        heap |-> [Release(m.heap, s.buffer) EXCEPT ![b] = cells]]

WantWrite(m, o, chars, b) ==
    IF m.str[o].allocated < Required(m.str[o], chars)
    THEN Reallocate(m, o, Grown(m.str[o], chars), b)
    ELSE m

(* memcpy to the beginning of the buffer, the length and the terminator.    *)
Write(m, o, text) ==
    LET b == m.str[o].buffer
    IN [str  |-> [m.str EXCEPT ![o].length = Len(text)],
        heap |-> [m.heap EXCEPT ![b] =
                     [i \in DOMAIN @ |-> IF i <= Len(text) THEN text[i]
                                         ELSE IF i = Len(text) + 1 THEN 0 ELSE @[i]]]]

Cleared(m, o) ==
    IF m.str[o].buffer = NULL THEN m
    ELSE [str  |-> [m.str EXCEPT ![o].length = 0],
          heap |-> [m.heap EXCEPT ![m.str[o].buffer][1] = 0]]

Reset(m, o) ==
    [str  |-> [m.str EXCEPT ![o] = NoBuffer],
     heap |-> Release(m.heap, m.str[o].buffer)]

(* A bug this code could have had: the other object keeps its buffer.       *)
StealShared(m, o, p) == [m EXCEPT !.str[o] = m.str[p]]

Steal(m, o, p) ==
    [m EXCEPT !.str = [q \in Strings |-> IF q = p THEN NoBuffer
                                         ELSE IF q = o THEN m.str[p] ELSE m.str[q]]]

Content(m, o) ==
    IF m.str[o].length = 0 THEN <<>> ELSE SubSeq(m.heap[m.str[o].buffer], 1, m.str[o].length)

Become(m) == str' = m.str /\ heap' = m.heap

FreeBuffers == {b \in Buffers : heap[b] = NULL}

-----------------------------------------------------------------------------
(* String(const T*, size_t): the object is new.  UTF-32 is copied, every    *)
(* other encoding, and ANSI after it has become UTF-16, is decoded          *)
(* character by character.                                                  *)

Idle == building = NULL /\ UNCHANGED <<building, left>>

CopyUtf32(o, text, b) ==
    /\ Idle
    /\ str[o] = NoBuffer
    /\ Become(Write(WantWrite(Memory, o, Len(text), b), o, text))

DecodeBegin(o, units, b) ==
    /\ building = NULL
    /\ str[o] = NoBuffer
    /\ Become(WantWrite(Memory, o, units, b))
    /\ building' = o
    /\ left' = units

(* Next has read one unit or more and returned a character other than 0.    *)
DecodeChar(c, b) ==
    /\ building # NULL
    /\ left > 0
    /\ left' \in 0 .. left - 1
    /\ LET m == WantWrite(Memory, building, 1, b)
           s == m.str[building]
       IN Become([str  |-> [m.str EXCEPT ![building].length = @ + 1],
                  heap |-> [m.heap EXCEPT ![s.buffer][s.length + 1] = c]])
    /\ UNCHANGED building

(* The text is read, or Next has returned 0 before its end.                 *)
DecodeEnd ==
    /\ building # NULL
    /\ heap' = [heap EXCEPT ![str[building].buffer][str[building].length + 1] = 0]
    /\ building' = NULL
    /\ left' = 0
    /\ UNCHANGED str

Assigned(o, p, b) ==
    LET m == Cleared(Memory, o)
    IN Write(WantWrite(m, o, m.str[p].length, b), o, Content(m, p))

CopyAssign(o, p, b) ==
    /\ Idle
    /\ Become(Assigned(o, p, b))

CopyConstruct(o, p, b) ==
    /\ Idle
    /\ o # p /\ str[o] = NoBuffer
    /\ IF str[p].length = 0 THEN UNCHANGED <<str, heap>> ELSE Become(Assigned(o, p, b))

MoveConstruct(o, p) ==
    /\ Idle
    /\ o # p /\ str[o] = NoBuffer
    /\ Become(Steal(Memory, o, p))

(* A bug this code could have had: the texts change places.                 *)
MoveBySwapping(o, p) ==
    /\ Idle
    /\ str' = [str EXCEPT ![o] = str[p], ![p] = str[o]]
    /\ UNCHANGED heap

MoveAssign(o, p) ==
    /\ Idle
    /\ Become(Steal(Reset(Memory, o), o, p))

Clear(o) ==
    /\ Idle
    /\ Become(Cleared(Memory, o))

Destroy(o) ==
    /\ Idle
    /\ Become(Reset(Memory, o))

(* operator[] of an index below length(), assigned to.                      *)
SetAt(o, i, c) ==
    /\ Idle
    /\ i \in 1 .. str[o].length
    /\ heap' = [heap EXCEPT ![str[o].buffer][i] = c]
    /\ UNCHANGED str

Next ==
    \/ \E o \in Strings, b \in FreeBuffers :
           \/ \E text \in Texts : CopyUtf32(o, text, b)
           \/ \E units \in 0 .. MaxLength : DecodeBegin(o, units, b)
           \/ \E p \in Strings : CopyAssign(o, p, b) \/ CopyConstruct(o, p, b)
    \/ \E c \in Chars \ {0}, b \in FreeBuffers : DecodeChar(c, b)
    \/ DecodeEnd
    \/ \E o \in Strings :
           \/ \E p \in Strings : MoveConstruct(o, p) \/ MoveAssign(o, p)
           \/ Clear(o) \/ Destroy(o)
           \/ \E i \in 1 .. MaxLength, c \in Chars : SetAt(o, i, c)

Spec == Init /\ [][Next]_vars

-----------------------------------------------------------------------------
(* The pure operations, on the stored form.                                 *)

(* A bug this code could have had: a text equals each of its beginnings.    *)
CompareBeginnings(o, p) ==
    LET a == Content(Memory, o)
        b == Content(Memory, p)
        Different == {i \in 1 .. Len(a) : i <= Len(b) /\ a[i] # b[i]}
        First == CHOOSE i \in Different : \A j \in Different : i <= j
    IN IF Different = {} THEN "equal" ELSE IF a[First] < b[First] THEN "less" ELSE "greater"

(* operator<=>                                                              *)
Compare(o, p) ==
    LET a == Content(Memory, o)
        b == Content(Memory, p)
        Different == {i \in 1 .. Len(a) : i <= Len(b) /\ a[i] # b[i]}
        First == CHOOSE i \in Different : \A j \in Different : i <= j
        Sign(x, y) == IF x < y THEN "less" ELSE IF x > y THEN "greater" ELSE "equal"
    IN IF str[o].buffer = str[p].buffer THEN "equal"
       ELSE IF Different # {} THEN Sign(a[First], b[First])
       ELSE Sign(str[o].length, str[p].length)

(* contains                                                                 *)
Contains(o, p) ==
    LET n == str[p].length
    IN \/ n = 0
       \/ /\ n <= str[o].length
          /\ \E i \in 0 .. str[o].length - n :
                 \A j \in 1 .. n : heap[str[o].buffer][i + j] = heap[str[p].buffer][j]

-----------------------------------------------------------------------------

(* No buffer is shared, leaked or freed while it is in use: the buffers on *)
(* the heap are those of the objects, each of one object, each as large as *)
(* its object believes (delete[] runs once per buffer) and none larger     *)
(* than twice what its texts have needed (_wantWrite).                     *)
Owned ==
    /\ \A o, p \in Strings : o # p /\ str[o].buffer # NULL => str[o].buffer # str[p].buffer
    /\ {b \in Buffers : heap[b] # NULL} = {str[o].buffer : o \in Strings} \ {NULL}
    /\ \A o \in Strings :
           IF str[o].buffer = NULL THEN str[o] = NoBuffer
           ELSE /\ str[o].allocated = Len(heap[str[o].buffer])
                /\ str[o].allocated \in 1 .. MaxLength + 1 \cup 1 .. 2 * MaxLength

(* Every write is inside of its buffer and every text is terminated: there *)
(* is room for the terminator at all times, and it is there except while a *)
(* constructor decodes.  Encode and the hash read up to it.                *)
Terminated ==
    \A o \in Strings : str[o].buffer # NULL =>
        /\ str[o].length < Len(heap[str[o].buffer])
        /\ o = building \/ heap[str[o].buffer][str[o].length + 1] = 0

(* The lexicographic order of texts.                                       *)
Precedes(s, t) ==
    \E n \in 0 .. Len(s) :
        /\ n <= Len(t) /\ SubSeq(s, 1, n) = SubSeq(t, 1, n)
        /\ \/ n = Len(s) /\ n < Len(t)
           \/ n < Len(s) /\ n < Len(t) /\ s[n + 1] < t[n + 1]

(* operator<=>, which first looks at addresses and at emptiness, orders    *)
(* any two objects by their texts alone, whatever their history; contains  *)
(* finds a text wherever it is.                                            *)
ComparesByValue ==
    building = NULL =>
        \A o, p \in Strings :
            LET s == Content(Memory, o)
                t == Content(Memory, p)
            IN /\ Compare(o, p) = "equal" <=> s = t
               /\ Compare(o, p) = "less" <=> Precedes(s, t)
               /\ Contains(o, p) <=> \E x \in 0 .. Len(s) : \E y \in 0 .. Len(s) : SubSeq(s, x + 1, y) = t

Values == INSTANCE StringValues
    WITH value <- [o \in Strings |-> IF o = building THEN <<>> ELSE Content(Memory, o)]

(* Every sequence of operations on buffers is one on values: no object     *)
(* changes with another, and no text holds a cell that was never written.  *)
ImplementsValues == Values!Spec

=============================================================================
