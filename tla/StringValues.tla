---------------------------- MODULE StringValues ----------------------------
(***************************************************************************)
(* What the class String promises: every object is a value, and an         *)
(* operation on one object changes no other, except that moving out of an  *)
(* object empties it.  How the characters are stored is in StringBuffer.   *)
(***************************************************************************)
EXTENDS Naturals, Sequences

CONSTANTS
    Strings,    \* the String objects of a thread
    Chars,      \* code points; 0 is one of them
    MaxLength   \* bound: the longest text

VARIABLE value  \* the text of each object

Texts == UNION {[1 .. n -> Chars] : n \in 0 .. MaxLength}

Init == value = [o \in Strings |-> <<>>]

Construct(o) ==
    /\ value[o] = <<>>
    /\ \E text \in Texts : value' = [value EXCEPT ![o] = text]

(* An object that is assigned to itself loses its text.                    *)
Copy(o, p) == value' = [value EXCEPT ![o] = IF o = p THEN <<>> ELSE value[p]]

Move(o, p) == value' = [value EXCEPT ![o] = value[p], ![p] = <<>>]

Clear(o) == value' = [value EXCEPT ![o] = <<>>]

SetAt(o) ==
    \E i \in 1 .. Len(value[o]), c \in Chars : value' = [value EXCEPT ![o][i] = c]

Next ==
    \E o \in Strings :
        \/ Construct(o) \/ Clear(o) \/ SetAt(o)
        \/ \E p \in Strings : Copy(o, p) \/ Move(o, p)

Spec == Init /\ [][Next]_value

=============================================================================
