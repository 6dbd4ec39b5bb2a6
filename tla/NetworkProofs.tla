---------------------------- MODULE NetworkProofs ----------------------------
(***************************************************************************)
(* The objects that the sockets are, for any number of variables and       *)
(* objects: references are counted right, and an assignment moves or       *)
(* copies what it is given.  And the addresses that they are given as      *)
(* text, whatever the text and the address: what is printed denotes what   *)
(* was given, and what is read is what the text denotes, but for the       *)
(* losses that are stated.                                                 *)
(*                                                                         *)
(* Owners.  What an operation gives back may take a chain of objects with  *)
(* it, so the heart of the proof is what Drop does to a memory whose       *)
(* counts are right but for one pending reference (DropSound): every step  *)
(* destroys an object that nothing refers to any more and leaves the       *)
(* reference of its member pending, or ends.  What is destroyed is a set   *)
(* of objects to which only its own members, and the place that was        *)
(* released, refer, so nothing that code can still reach is in it          *)
(* (ReachAvoids).                                                          *)
(*                                                                         *)
(* Addresses.  Every loop over a text has a state after each character,    *)
(* and the proofs go along the text: a text that denotes an address fills  *)
(* it piece by piece (ParsesV4, ReadsWords), the copy that follows "::"    *)
(* is right up to where it meets itself and periodic from there (MovesTo), *)
(* a text that is not refused is of the shape that is stated (RefusesV4,   *)
(* WellReadStep), and what is printed is words, a "::" and words           *)
(* (LeftPart, MiddlePart, RightPart).                                      *)
(*                                                                         *)
(* The loops and Drop and Reach are recursive functions of a natural       *)
(* number.  That they exist, and what holds of all their values, is shown  *)
(* by Counting, which is induction for a set of numbers.                   *)
(***************************************************************************)
EXTENDS Owners, Addresses, FiniteSetTheorems, WellFoundedInduction, TLAPS

-----------------------------------------------------------------------------
(* Recursion over the natural numbers.                                     *)

LEMMA LeastNumber ==
  ASSUME NEW T \in SUBSET Nat, T # {}
  PROVE  \E n \in T : \A m \in T : n <= m
<1> DEFINE Below == {ss \in Nat \X Nat : ss[1] < ss[2]}
<1>1. OpToRel(<, Nat) = Below
  BY Zenon DEF OpToRel
<1>2. IsWellFoundedOn(Below, Nat)
  BY <1>1, NatLessThanWellFounded, Zenon
<1>3. \E n \in T : \A m \in T : ~(<<m, n>> \in Below)
  <2> HIDE DEF Below
  <2> QED BY <1>2, WFMin
<1>4. PICK n \in T : \A m \in T : ~(<<m, n>> \in Below)
  BY <1>3
<1>5. ASSUME NEW m \in T PROVE n <= m
  <2>1. ~(<<m, n>> \in Below)
    BY <1>4
  <2>2. n \in Nat /\ m \in Nat
    OBVIOUS
  <2>3. ~(m < n)
    BY <2>1, <2>2, Zenon
  <2> QED BY <2>2, <2>3
<1> QED BY <1>5

LEMMA Counting ==
  ASSUME NEW T, 0 \in T, \A n \in Nat : n \in T => n + 1 \in T
  PROVE  Nat \subseteq T
<1> SUFFICES ASSUME Nat \ T # {} PROVE FALSE
  OBVIOUS
<1>1. PICK n \in Nat \ T : \A m \in Nat \ T : n <= m
  BY LeastNumber
<1>2. n # 0
  BY <1>1
<1>3. n - 1 \in Nat /\ n - 1 < n /\ (n - 1) + 1 = n
  BY <1>2
<1>4. n - 1 \in T
  BY <1>1, <1>3
<1> QED BY <1>1, <1>3, <1>4

N == Cardinality(Resources)

LEMMA SizeType == IsFiniteSet(Resources) /\ N \in Nat
  BY OwnersAssumption, FS_CardinalityType DEF N

-----------------------------------------------------------------------------
(* The two recursive functions of the model have the values their          *)
(* definitions say.                                                        *)

WithinTo(h, roots, n, w) ==
  w = [i \in 0..n |-> IF i = 0 THEN roots ELSE Further(h, w[i - 1])]

LEMMA WithinExists ==
  ASSUME NEW h, NEW roots
  PROVE  \A n \in Nat : \E w : WithinTo(h, roots, n, w)
<1> DEFINE T == {n \in Nat : \E w : WithinTo(h, roots, n, w)}
<1>1. 0 \in T
  <2> DEFINE w == [i \in 0..0 |-> roots]
  <2>1. w = [i \in 0..0 |-> IF i = 0 THEN roots ELSE Further(h, w[i - 1])]
    OBVIOUS
  <2> QED BY <2>1 DEF WithinTo
<1>2. ASSUME NEW n \in Nat, n \in T PROVE n + 1 \in T
  <2>1. PICK w : w = [i \in 0..n |-> IF i = 0 THEN roots ELSE Further(h, w[i - 1])]
    BY <1>2 DEF WithinTo
  <2> DEFINE v == [i \in 0..(n + 1) |-> IF i = n + 1 THEN Further(h, w[n]) ELSE w[i]]
  <2>2. ASSUME NEW i \in 0..(n + 1)
        PROVE  v[i] = IF i = 0 THEN roots ELSE Further(h, v[i - 1])
    <3>1. CASE i = n + 1
      <4>1. v[i] = Further(h, w[n]) /\ i # 0 /\ i - 1 = n /\ v[n] = w[n]
        BY <3>1
      <4> QED BY <4>1
    <3>2. CASE i \in 0..n
      <4>1. v[i] = w[i] /\ (i # 0 => i - 1 \in 0..(n + 1) /\ i - 1 # n + 1)
        BY <3>2
      <4>2. i # 0 => v[i - 1] = w[i - 1]
        BY <4>1
      <4>3. w[i] = IF i = 0 THEN roots ELSE Further(h, w[i - 1])
        BY <2>1, <3>2
      <4> QED BY <4>1, <4>2, <4>3
    <3> QED BY <3>1, <3>2
  <2>3. v = [i \in 0..(n + 1) |-> IF i = 0 THEN roots ELSE Further(h, v[i - 1])]
    BY <2>2
  <2> HIDE DEF v
  <2> QED BY <2>3 DEF WithinTo
<1>3. Nat \subseteq T
  <2> HIDE DEF T
  <2> QED BY <1>1, <1>2, Counting
<1> QED BY <1>3

LEMMA ReachIs ==
  ASSUME NEW h, NEW roots
  PROVE  \E w : WithinTo(h, roots, N, w) /\ Reach(h, roots) = w[N]
<1> DEFINE w == CHOOSE w : w = [n \in 0..N |-> IF n = 0 THEN roots ELSE Further(h, w[n - 1])]
<1>1. WithinTo(h, roots, N, w)
  BY WithinExists, SizeType DEF WithinTo
<1>2. Reach(h, roots) = w[N]
  BY DEF Reach, N
<1> HIDE DEF w
<1> QED BY <1>1, <1>2

DroppedTo(m, r, n, d) ==
  d = [i \in 0..n |-> IF i = 0 THEN [m |-> m, r |-> r] ELSE DropOne(d[i - 1])]

LEMMA DroppedExists ==
  ASSUME NEW m, NEW r
  PROVE  \A n \in Nat : \E d : DroppedTo(m, r, n, d)
<1> DEFINE T == {n \in Nat : \E d : DroppedTo(m, r, n, d)}
<1>1. 0 \in T
  <2> DEFINE d == [i \in 0..0 |-> [m |-> m, r |-> r]]
  <2>1. d = [i \in 0..0 |-> IF i = 0 THEN [m |-> m, r |-> r] ELSE DropOne(d[i - 1])]
    OBVIOUS
  <2> QED BY <2>1 DEF DroppedTo
<1>2. ASSUME NEW n \in Nat, n \in T PROVE n + 1 \in T
  <2>1. PICK d : d = [i \in 0..n |-> IF i = 0 THEN [m |-> m, r |-> r] ELSE DropOne(d[i - 1])]
    BY <1>2 DEF DroppedTo
  <2> DEFINE v == [i \in 0..(n + 1) |-> IF i = n + 1 THEN DropOne(d[n]) ELSE d[i]]
  <2>2. ASSUME NEW i \in 0..(n + 1)
        PROVE  v[i] = IF i = 0 THEN [m |-> m, r |-> r] ELSE DropOne(v[i - 1])
    <3>1. CASE i = n + 1
      <4>1. v[i] = DropOne(d[n]) /\ i # 0 /\ i - 1 = n /\ v[n] = d[n]
        BY <3>1
      <4> QED BY <4>1
    <3>2. CASE i \in 0..n
      <4>1. v[i] = d[i] /\ (i # 0 => i - 1 \in 0..(n + 1) /\ i - 1 # n + 1)
        BY <3>2
      <4>2. i # 0 => v[i - 1] = d[i - 1]
        BY <4>1
      <4>3. d[i] = IF i = 0 THEN [m |-> m, r |-> r] ELSE DropOne(d[i - 1])
        BY <2>1, <3>2
      <4> QED BY <4>1, <4>2, <4>3
    <3> QED BY <3>1, <3>2
  <2>3. v = [i \in 0..(n + 1) |-> IF i = 0 THEN [m |-> m, r |-> r] ELSE DropOne(v[i - 1])]
    BY <2>2
  <2> HIDE DEF v
  <2> QED BY <2>3 DEF DroppedTo
<1>3. Nat \subseteq T
  <2> HIDE DEF T
  <2> QED BY <1>1, <1>2, Counting
<1> QED BY <1>3

LEMMA DropIs ==
  ASSUME NEW m, NEW r
  PROVE  \E d : DroppedTo(m, r, N, d) /\ Drop(m, r) = d[N].m
<1> DEFINE d == CHOOSE d : d = [n \in 0..N |-> IF n = 0 THEN [m |-> m, r |-> r] ELSE DropOne(d[n - 1])]
<1>0. \E v : v = [n \in 0..N |-> IF n = 0 THEN [m |-> m, r |-> r] ELSE DropOne(v[n - 1])]
  <2>1. \E v : DroppedTo(m, r, N, v)
    BY DroppedExists, SizeType
  <2> QED BY <2>1, Zenon DEF DroppedTo
<1>1. DroppedTo(m, r, N, d)
  BY <1>0, Zenon DEF DroppedTo
<1>2. Drop(m, r) = d[N].m
  BY DEF Drop, N
<1> HIDE DEF d
<1> QED BY <1>1, <1>2

-----------------------------------------------------------------------------
(* What cannot be reached: a set that no root is in and no place outside   *)
(* of it refers to.                                                        *)

LEMMA ReachAvoids ==
  ASSUME NEW h \in [Places -> Resources \cup {NULL}], NEW roots \in SUBSET Places, NEW S,
         roots \cap S = {},
         \A y \in Places : h[y] \in S => y \in S
  PROVE  Reach(h, roots) \subseteq Places \ S
<1>1. PICK w : WithinTo(h, roots, N, w) /\ Reach(h, roots) = w[N]
  BY ReachIs
<1>2. w = [i \in 0..N |-> IF i = 0 THEN roots ELSE Further(h, w[i - 1])]
  BY <1>1 DEF WithinTo
<1> DEFINE T == {n \in Nat : n \in 0..N => w[n] \subseteq Places \ S}
<1>3. 0 \in T
  BY <1>2, SizeType
<1>4. ASSUME NEW n \in Nat, n \in T PROVE n + 1 \in T
  <2> SUFFICES ASSUME n + 1 \in 0..N PROVE w[n + 1] \subseteq Places \ S
    OBVIOUS
  <2>1. n \in 0..N /\ n + 1 # 0 /\ (n + 1) - 1 = n
    BY SizeType
  <2>2. w[n] \subseteq Places \ S
    BY <1>4, <2>1
  <2>3. w[n + 1] = Further(h, w[n])
    BY <1>2, <2>1
  <2> QED BY <2>2, <2>3 DEF Further, Places
<1>5. Nat \subseteq T
  <2> HIDE DEF T
  <2> QED BY <1>3, <1>4, Counting
<1>6. N \in T
  BY <1>5, SizeType
<1> QED BY <1>1, <1>6, SizeType

-----------------------------------------------------------------------------
(* A memory whose counts are right, but for the reference of one resource  *)
(* q that is still to be given back, and for the places D, which do not    *)
(* count.  extra are the references that no place has.                     *)

Memories == [refs : [Resources -> Nat], held : [Places -> Resources \cup {NULL}]]

Holders(h, D, r) == {x \in Places \ D : h[x] = r}

CountIs(m, D, extra, q, r) ==
  /\ IsFiniteSet(Holders(m.held, D, r))
  /\ m.refs[r] = Cardinality(Holders(m.held, D, r)) + extra[r] + (IF r = q THEN 1 ELSE 0)

Sound(m, D, extra, q) ==
  /\ m \in Memories
  /\ q \in Resources \cup {NULL}
  /\ extra \in [Resources -> Nat]
  /\ \A r \in Resources : CountIs(m, D, extra, q, r)
  /\ \A r \in Resources : m.refs[r] = 0 => m.held[r] = NULL

LEMMA NullIsNone == NULL \notin Resources /\ NULL \notin Places /\ Resources \subseteq Places
  BY OwnersAssumption DEF Places

\* The last reference of an object goes when nothing refers to it.
LEMMA LastReference ==
  ASSUME NEW m, NEW D, NEW extra, NEW q \in Resources,
         Sound(m, D, extra, q), ~(m.refs[q] > 1)
  PROVE  m.refs[q] = 1 /\ Holders(m.held, D, q) = {} /\ extra[q] = 0
<1>1. /\ IsFiniteSet(Holders(m.held, D, q))
      /\ m.refs[q] = Cardinality(Holders(m.held, D, q)) + extra[q] + 1
  BY DEF Sound, CountIs
<1>2. Cardinality(Holders(m.held, D, q)) \in Nat
  BY <1>1, FS_CardinalityType
<1>3. extra[q] \in Nat
  BY DEF Sound
<1>4. m.refs[q] = 1 /\ Cardinality(Holders(m.held, D, q)) = 0 /\ extra[q] = 0
  BY <1>1, <1>2, <1>3
<1> QED BY <1>1, <1>4, FS_EmptySet

-----------------------------------------------------------------------------
(* What has gone when a reference was dropped: m0 is the memory before,    *)
(* m the memory now.                                                       *)

Destroyed(m0, m) == {x \in Resources : m0.refs[x] # 0 /\ m.refs[x] = 0}

Dropped(m0, m, D, extra) ==
  /\ \A x \in Resources : m.refs[x] <= m0.refs[x]
  /\ \A y \in Places : y \notin Destroyed(m0, m) => m.held[y] = m0.held[y]
  /\ \A x \in Destroyed(m0, m) : extra[x] = 0
  /\ \A y \in Places : m0.held[y] \in Destroyed(m0, m) => y \in Destroyed(m0, m) \cup D
  /\ Destroyed(m0, m) \cap D = {}

\* The places D are out of reach of whatever is dropped: no set of objects
\* that only its own members refer to has one of them.
Safe(m0, D, extra) ==
  /\ D \subseteq Places /\ \A a, b \in D : a = b
  /\ \A S \in SUBSET Resources :
       /\ \A x \in S : extra[x] = 0
       /\ \A y \in Places : m0.held[y] \in S => y \in S
       => S \cap D = {}

LEMMA DropLast ==
  ASSUME NEW m0 \in Memories, NEW D, NEW extra, Safe(m0, D, extra),
         NEW m, NEW q \in Resources, Sound(m, D, extra, q), Dropped(m0, m, D, extra),
         ~(m.refs[q] > 1),
         NEW k, k = [m EXCEPT !.refs[q] = 0, !.held[q] = NULL]
  PROVE  /\ Sound(k, D, extra, m.held[q])
         /\ Dropped(m0, k, D, extra)
         /\ Destroyed(m0, k) = Destroyed(m0, m) \cup {q}
         /\ q \notin Destroyed(m0, m)
<1>1. m.refs[q] = 1 /\ Holders(m.held, D, q) = {} /\ extra[q] = 0
  BY LastReference
<1>2. /\ m \in Memories /\ extra \in [Resources -> Nat]
      /\ m.refs \in [Resources -> Nat] /\ m.held \in [Places -> Resources \cup {NULL}]
      /\ m0.refs \in [Resources -> Nat] /\ m0.held \in [Places -> Resources \cup {NULL}]
  BY DEF Sound, Memories
<1>3. k.refs = [m.refs EXCEPT ![q] = 0] /\ k.held = [m.held EXCEPT ![q] = NULL]
  BY <1>2 DEF Memories
<1>4. k \in Memories
  BY <1>2, NullIsNone DEF Memories
<1>5. m0.refs[q] >= 1
  <2>1. m.refs[q] <= m0.refs[q]
    BY DEF Dropped
  <2> QED BY <1>1, <1>2, <2>1
<1>6. Destroyed(m0, k) = Destroyed(m0, m) \cup {q}
  <2>1. m0.refs[q] # 0
    BY <1>5, <1>2
  <2>2. k.refs[q] = 0
    BY <1>2, <1>3
  <2>3. \A x \in Resources : x # q => k.refs[x] = m.refs[x]
    BY <1>2, <1>3
  <2> QED BY <2>1, <2>2, <2>3 DEF Destroyed
<1>7. q \notin Destroyed(m0, m)
  BY <1>1 DEF Destroyed
<1>8. m.held[q] = m0.held[q]
  BY <1>7, NullIsNone DEF Dropped
<1>9. \A y \in Places : m0.held[y] \in Destroyed(m0, k) => y \in Destroyed(m0, k) \cup D
  <2> SUFFICES ASSUME NEW y \in Places, m0.held[y] = q, y \notin D PROVE y \in Destroyed(m0, m)
    BY <1>6 DEF Dropped
  <2>1. m.held[y] # q
    BY <1>1 DEF Holders
  <2> QED BY <2>1 DEF Dropped
<1>10. \A x \in Destroyed(m0, k) : extra[x] = 0
  BY <1>1, <1>6 DEF Dropped
<1>11. Destroyed(m0, k) \cap D = {}
  <2> SUFFICES ASSUME q \in D PROVE FALSE
    BY <1>6 DEF Dropped
  <2>1. D = {q}
    BY DEF Safe
  <2>2. \A y \in Places : m0.held[y] \in Destroyed(m0, k) => y \in Destroyed(m0, k)
    BY <1>9, <1>6, <2>1
  <2>3. Destroyed(m0, k) \in SUBSET Resources
    BY DEF Destroyed
  <2>4. Destroyed(m0, k) \cap D = {}
    BY <1>10, <2>2, <2>3 DEF Safe
  <2> QED BY <2>1, <2>4, <1>6
<1>12. Dropped(m0, k, D, extra)
  <2>1. \A x \in Resources : k.refs[x] <= m0.refs[x]
    <3> TAKE x \in Resources
    <3>1. CASE x = q
      BY <3>1, <1>2, <1>3
    <3>2. CASE x # q
      BY <3>2, <1>2, <1>3 DEF Dropped
    <3> QED BY <3>1, <3>2
  <2>2. \A y \in Places : y \notin Destroyed(m0, k) => k.held[y] = m0.held[y]
    <3> TAKE y \in Places
    <3>1. CASE y = q
      BY <3>1, <1>6
    <3>2. CASE y # q
      BY <3>2, <1>2, <1>3, <1>6 DEF Dropped
    <3> QED BY <3>1, <3>2
  <2> QED BY <2>1, <2>2, <1>9, <1>10, <1>11 DEF Dropped
<1>13. ASSUME NEW r \in Resources PROVE CountIs(k, D, extra, m.held[q], r)
  <2> DEFINE A == Holders(m.held, D, r)
             B == Holders(k.held, D, r)
  <2>1. IsFiniteSet(A) /\ m.refs[r] = Cardinality(A) + extra[r] + (IF r = q THEN 1 ELSE 0)
    BY DEF Sound, CountIs
  <2>2. Cardinality(A) \in Nat /\ extra[r] \in Nat
    BY <2>1, <1>2, FS_CardinalityType
  <2>3. B = A \ {q}
    BY <1>2, <1>3, NullIsNone DEF Holders
  <2>4. q \in A <=> r = m.held[q]
    BY <1>11, <1>6, NullIsNone DEF Holders
  <2>5. /\ IsFiniteSet(B)
        /\ Cardinality(B) = IF q \in A THEN Cardinality(A) - 1 ELSE Cardinality(A)
    <3> HIDE DEF A, B
    <3>1. /\ IsFiniteSet(A \ {q})
          /\ Cardinality(A \ {q}) = IF q \in A THEN Cardinality(A) - 1 ELSE Cardinality(A)
      BY <2>1, FS_RemoveElement
    <3> QED BY <3>1, <2>3
  <2>6. CASE r = q
    <3>1. A = {}
      BY <1>1, <2>6
    <3>2. Cardinality(B) = 0 /\ r # m.held[q]
      BY <3>1, <2>3, <2>4, FS_EmptySet
    <3>3. k.refs[r] = 0 /\ extra[r] = 0
      BY <2>6, <1>1, <1>2, <1>3
    <3> QED BY <3>2, <3>3, <2>5 DEF CountIs
  <2>7. CASE r # q
    <3>1. k.refs[r] = m.refs[r]
      BY <2>7, <1>2, <1>3
    <3>2. CASE r = m.held[q]
      <4>1. q \in A
        BY <2>4, <3>2
      <4>2. Cardinality(B) = Cardinality(A) - 1
        BY <2>5, <4>1
      <4> HIDE DEF A, B
      <4>3. k.refs[r] = Cardinality(B) + extra[r] + 1
        BY <4>2, <3>1, <2>1, <2>2, <2>7
      <4> QED BY <4>3, <3>2, <2>5 DEF CountIs, A, B
    <3>3. CASE r # m.held[q]
      <4>1. q \notin A
        BY <2>4, <3>3
      <4>2. Cardinality(B) = Cardinality(A)
        BY <2>5, <4>1
      <4> HIDE DEF A, B
      <4>3. k.refs[r] = Cardinality(B) + extra[r] + 0
        BY <4>2, <3>1, <2>1, <2>2, <2>7
      <4> QED BY <4>3, <3>3, <2>5 DEF CountIs, A, B
    <3> QED BY <3>2, <3>3
  <2> QED BY <2>6, <2>7
<1>14. \A r \in Resources : k.refs[r] = 0 => k.held[r] = NULL
  BY <1>2, <1>3, NullIsNone DEF Sound
<1>15. m.held[q] \in Resources \cup {NULL}
  BY <1>2, NullIsNone
<1>16. Sound(k, D, extra, m.held[q])
  BY <1>2, <1>4, <1>13, <1>14, <1>15 DEF Sound
<1> QED BY <1>6, <1>7, <1>12, <1>16

LEMMA DropOneOfMany ==
  ASSUME NEW m0 \in Memories, NEW D, NEW extra,
         NEW m, NEW q \in Resources, Sound(m, D, extra, q), Dropped(m0, m, D, extra),
         m.refs[q] > 1,
         NEW k, k = [m EXCEPT !.refs[q] = @ - 1]
  PROVE  /\ Sound(k, D, extra, NULL)
         /\ Dropped(m0, k, D, extra)
<1>1. /\ m \in Memories /\ extra \in [Resources -> Nat]
      /\ m.refs \in [Resources -> Nat] /\ m.held \in [Places -> Resources \cup {NULL}]
      /\ m0.refs \in [Resources -> Nat] /\ m0.held \in [Places -> Resources \cup {NULL}]
  BY DEF Sound, Memories
<1>2. k.refs = [m.refs EXCEPT ![q] = m.refs[q] - 1] /\ k.held = m.held
  BY <1>1 DEF Memories
<1>3. m.refs[q] - 1 \in Nat /\ m.refs[q] - 1 # 0 /\ m.refs[q] # 0 /\ m.refs[q] - 1 <= m.refs[q]
  BY <1>1
<1>4. k \in Memories
  BY <1>1, <1>3 DEF Memories
<1>5. Destroyed(m0, k) = Destroyed(m0, m)
  <2>1. k.refs[q] # 0 /\ m.refs[q] # 0
    BY <1>1, <1>2, <1>3
  <2>2. \A x \in Resources : x # q => k.refs[x] = m.refs[x]
    BY <1>1, <1>2
  <2> QED BY <2>1, <2>2 DEF Destroyed
<1>6. \A x \in Resources : k.refs[x] <= m0.refs[x]
  <2> TAKE x \in Resources
  <2>1. m.refs[x] <= m0.refs[x] /\ m.refs[x] \in Nat /\ m0.refs[x] \in Nat
    BY <1>1 DEF Dropped
  <2>2. k.refs[x] = IF x = q THEN m.refs[x] - 1 ELSE m.refs[x]
    BY <1>1, <1>2
  <2> QED BY <2>1, <2>2
<1>7. Dropped(m0, k, D, extra)
  BY <1>2, <1>5, <1>6 DEF Dropped
<1>8. ASSUME NEW r \in Resources PROVE CountIs(k, D, extra, NULL, r)
  <2> DEFINE A == Holders(m.held, D, r)
  <2>1. IsFiniteSet(A) /\ m.refs[r] = Cardinality(A) + extra[r] + (IF r = q THEN 1 ELSE 0)
    BY DEF Sound, CountIs
  <2>2. Cardinality(A) \in Nat /\ extra[r] \in Nat
    BY <2>1, <1>1, FS_CardinalityType
  <2>3. k.refs[r] = IF r = q THEN m.refs[r] - 1 ELSE m.refs[r]
    BY <1>1, <1>2
  <2>4. r # NULL
    BY NullIsNone
  <2> HIDE DEF A
  <2>5. k.refs[r] = Cardinality(A) + extra[r] + 0
    BY <2>1, <2>2, <2>3
  <2> QED BY <2>1, <2>4, <2>5, <1>2 DEF CountIs, A
<1>9. \A r \in Resources : k.refs[r] = 0 => k.held[r] = NULL
  <2> TAKE r \in Resources
  <2>1. CASE r = q
    BY <2>1, <1>1, <1>2, <1>3
  <2>2. CASE r # q
    BY <2>2, <1>1, <1>2 DEF Sound
  <2> QED BY <2>1, <2>2
<1> QED BY <1>1, <1>4, <1>7, <1>8, <1>9 DEF Sound

-----------------------------------------------------------------------------
\* The steps that drop a reference: after n of them nothing is pending, or n
\* objects have gone.  So nothing is pending when all of them have had a turn.
LEMMA DropSound ==
  ASSUME NEW m0, NEW D, NEW extra, NEW q0, Sound(m0, D, extra, q0), Safe(m0, D, extra)
  PROVE  Sound(Drop(m0, q0), D, extra, NULL) /\ Dropped(m0, Drop(m0, q0), D, extra)
<1> DEFINE Gone0(m) == Destroyed(m0, m)
           So(s, n) == /\ Sound(s.m, D, extra, s.r)
                       /\ Dropped(m0, s.m, D, extra)
                       /\ s.r # NULL => IsFiniteSet(Gone0(s.m)) /\ Cardinality(Gone0(s.m)) = n
<1>1. PICK d : DroppedTo(m0, q0, N, d) /\ Drop(m0, q0) = d[N].m
  BY DropIs
<1>2. d = [i \in 0..N |-> IF i = 0 THEN [m |-> m0, r |-> q0] ELSE DropOne(d[i - 1])]
  BY <1>1 DEF DroppedTo
<1>3. m0 \in Memories /\ N \in Nat
  BY SizeType DEF Sound
<1> DEFINE T == {n \in Nat : n \in 0..N => So(d[n], n)}
<1>4. 0 \in T
  <2>1. d[0].m = m0 /\ d[0].r = q0
    BY <1>2, <1>3
  <2>2. Gone0(m0) = {}
    BY DEF Destroyed
  <2>3. \A x \in Resources : m0.refs[x] <= m0.refs[x]
    BY <1>3 DEF Memories
  <2>4. Dropped(m0, m0, D, extra)
    BY <2>2, <2>3 DEF Dropped
  <2>5. IsFiniteSet({}) /\ Cardinality({}) = 0
    BY FS_EmptySet
  <2> QED BY <2>1, <2>2, <2>4, <2>5
<1>5. ASSUME NEW n \in Nat, n \in T PROVE n + 1 \in T
  <2> SUFFICES ASSUME n + 1 \in 0..N PROVE So(d[n + 1], n + 1)
    OBVIOUS
  <2>1. n \in 0..N /\ n + 1 # 0 /\ (n + 1) - 1 = n
    BY <1>3
  <2> DEFINE s == d[n]
             t == d[n + 1]
             q == s.r
  <2>2. t = DropOne(s)
    BY <1>2, <2>1
  <2>3. So(s, n)
    BY <1>5, <2>1
  <2>4. q \in Resources \cup {NULL} /\ s.m \in Memories
    BY <2>3 DEF Sound
  <2>5. CASE q = NULL
    BY <2>2, <2>3, <2>5 DEF DropOne
  <2>6. CASE q # NULL /\ s.m.refs[q] > 1
    <3>1. t.m = [s.m EXCEPT !.refs[q] = @ - 1] /\ t.r = NULL
      BY <2>2, <2>6 DEF DropOne
    <3> HIDE DEF s, t
    <3>2. Sound(t.m, D, extra, NULL) /\ Dropped(m0, t.m, D, extra)
      BY <1>3, <2>3, <2>4, <2>6, <3>1, DropOneOfMany
    <3> QED BY <3>1, <3>2 DEF t
  <2>7. CASE q # NULL /\ ~(s.m.refs[q] > 1)
    <3>1. t.m = [s.m EXCEPT !.refs[q] = 0, !.held[q] = NULL] /\ t.r = s.m.held[q]
      BY <2>2, <2>7 DEF DropOne
    <3> HIDE DEF s, t
    <3>2. /\ Sound(t.m, D, extra, s.m.held[q])
          /\ Dropped(m0, t.m, D, extra)
          /\ Gone0(t.m) = Gone0(s.m) \cup {q}
          /\ q \notin Gone0(s.m)
      BY <1>3, <2>3, <2>4, <2>7, <3>1, DropLast
    <3>3. IsFiniteSet(Gone0(s.m)) /\ Cardinality(Gone0(s.m)) = n
      BY <2>3, <2>7
    <3> HIDE DEF Gone0
    <3>4. IsFiniteSet(Gone0(t.m)) /\ Cardinality(Gone0(t.m)) = n + 1
      BY <3>2, <3>3, FS_AddElement
    <3> QED BY <3>1, <3>2, <3>4 DEF t
  <2> QED BY <2>5, <2>6, <2>7
<1>6. So(d[N], N)
  <2>1. Nat \subseteq T
    <3> HIDE DEF T
    <3> QED BY <1>4, <1>5, Counting
  <2> QED BY <2>1, <1>3
<1>7. d[N].r = NULL
  <2> SUFFICES ASSUME d[N].r # NULL PROVE FALSE
    OBVIOUS
  <2> DEFINE q == d[N].r
             m == d[N].m
  <2>1. Cardinality(Gone0(m)) = Cardinality(Resources)
    BY <1>6 DEF N
  <2>2. Gone0(m) \in SUBSET Resources
    BY DEF Destroyed
  <2>3. Gone0(m) = Resources
    <3> HIDE DEF Gone0, m, q
    <3> QED BY <2>1, <2>2, SizeType, FS_Subset
  <2>4. q \in Resources /\ Sound(m, D, extra, q)
    BY <1>6 DEF Sound
  <2>5. m.refs[q] = 0
    BY <2>3, <2>4 DEF Destroyed
  <2>6. ~(m.refs[q] > 1)
    BY <2>5
  <2>7. m.refs[q] = 1
    <3> HIDE DEF q, m
    <3> QED BY <2>4, <2>6, LastReference
  <2> QED BY <2>5, <2>7
<1> QED BY <1>1, <1>6, <1>7

-----------------------------------------------------------------------------
(* The single steps the operations are made of, each on a sound memory.    *)

\* A pending reference is put into a place that is empty and there.
LEMMA Take ==
  ASSUME NEW m, NEW extra, NEW q, Sound(m, {}, extra, q),
         NEW p \in Places, m.held[p] = NULL, ~Gone(m, p)
  PROVE  Sound([m EXCEPT !.held[p] = q], {}, extra, NULL)
<1> DEFINE k == [m EXCEPT !.held[p] = q]
<1>1. /\ m \in Memories /\ extra \in [Resources -> Nat] /\ q \in Resources \cup {NULL}
      /\ m.refs \in [Resources -> Nat] /\ m.held \in [Places -> Resources \cup {NULL}]
  BY DEF Sound, Memories
<1>2. k.refs = m.refs /\ k.held = [m.held EXCEPT ![p] = q] /\ k \in Memories
  BY <1>1 DEF Memories
<1> HIDE DEF k
<1>3. ASSUME NEW r \in Resources PROVE CountIs(k, {}, extra, NULL, r)
  <2> DEFINE A == Holders(m.held, {}, r)
             B == Holders(k.held, {}, r)
  <2>1. IsFiniteSet(A) /\ m.refs[r] = Cardinality(A) + extra[r] + (IF r = q THEN 1 ELSE 0)
    BY DEF Sound, CountIs
  <2>2. Cardinality(A) \in Nat /\ extra[r] \in Nat
    BY <2>1, <1>1, FS_CardinalityType
  <2>3. B = IF r = q THEN A \cup {p} ELSE A
    BY <1>1, <1>2, NullIsNone DEF Holders
  <2>4. p \notin A
    BY NullIsNone DEF Holders
  <2>5. r # NULL
    BY NullIsNone
  <2> HIDE DEF A, B
  <2>6. /\ IsFiniteSet(A \cup {p})
        /\ Cardinality(A \cup {p}) = Cardinality(A) + 1
    BY <2>1, <2>4, FS_AddElement
  <2>7. IsFiniteSet(B) /\ k.refs[r] = Cardinality(B) + extra[r] + 0
    BY <2>1, <2>2, <2>3, <2>6, <1>2
  <2> QED BY <2>5, <2>7 DEF CountIs, B
<1>4. \A r \in Resources : k.refs[r] = 0 => k.held[r] = NULL
  BY <1>1, <1>2 DEF Sound, Gone
<1>5. Sound(k, {}, extra, NULL)
  BY <1>1, <1>2, <1>3, <1>4 DEF Sound
<1> QED BY <1>5 DEF k

\* What a place has becomes pending.
LEMMA Give ==
  ASSUME NEW m, NEW extra, Sound(m, {}, extra, NULL), NEW p \in Places
  PROVE  Sound([m EXCEPT !.held[p] = NULL], {}, extra, m.held[p])
<1> DEFINE k == [m EXCEPT !.held[p] = NULL]
           q == m.held[p]
<1>1. /\ m \in Memories /\ extra \in [Resources -> Nat] /\ q \in Resources \cup {NULL}
      /\ m.refs \in [Resources -> Nat] /\ m.held \in [Places -> Resources \cup {NULL}]
  BY DEF Sound, Memories
<1>2. k.refs = m.refs /\ k.held = [m.held EXCEPT ![p] = NULL] /\ k \in Memories
  BY <1>1 DEF Memories
<1> HIDE DEF k
<1>3. ASSUME NEW r \in Resources PROVE CountIs(k, {}, extra, q, r)
  <2> DEFINE A == Holders(m.held, {}, r)
             B == Holders(k.held, {}, r)
  <2>1. r # NULL
    BY NullIsNone
  <2>2. IsFiniteSet(A) /\ m.refs[r] = Cardinality(A) + extra[r] + 0
    BY <2>1 DEF Sound, CountIs
  <2>3. Cardinality(A) \in Nat /\ extra[r] \in Nat
    BY <2>2, <1>1, FS_CardinalityType
  <2>4. B = A \ {p} /\ (p \in A <=> r = q)
    BY <1>1, <1>2, <2>1 DEF Holders
  <2> HIDE DEF A, B, q
  <2>5. /\ IsFiniteSet(A \ {p})
        /\ Cardinality(A \ {p}) = IF p \in A THEN Cardinality(A) - 1 ELSE Cardinality(A)
    BY <2>2, FS_RemoveElement
  <2>6. IsFiniteSet(B) /\ k.refs[r] = Cardinality(B) + extra[r] + (IF r = q THEN 1 ELSE 0)
    BY <2>2, <2>3, <2>4, <2>5, <1>2
  <2> QED BY <2>6 DEF CountIs, B
<1>4. \A r \in Resources : k.refs[r] = 0 => k.held[r] = NULL
  BY <1>1, <1>2 DEF Sound
<1>5. Sound(k, {}, extra, q)
  BY <1>1, <1>2, <1>3, <1>4 DEF Sound
<1> QED BY <1>5 DEF k

\* A place does not count while what it had is given back.
LEMMA Hide ==
  ASSUME NEW m, NEW extra, Sound(m, {}, extra, NULL), NEW p \in Places
  PROVE  Sound(m, {p}, extra, m.held[p])
<1> DEFINE q == m.held[p]
<1>1. /\ m \in Memories /\ extra \in [Resources -> Nat] /\ q \in Resources \cup {NULL}
      /\ m.refs \in [Resources -> Nat] /\ m.held \in [Places -> Resources \cup {NULL}]
  BY DEF Sound, Memories
<1>2. ASSUME NEW r \in Resources PROVE CountIs(m, {p}, extra, q, r)
  <2> DEFINE A == Holders(m.held, {}, r)
             B == Holders(m.held, {p}, r)
  <2>1. r # NULL
    BY NullIsNone
  <2>2. IsFiniteSet(A) /\ m.refs[r] = Cardinality(A) + extra[r] + 0
    BY <2>1 DEF Sound, CountIs
  <2>3. Cardinality(A) \in Nat /\ extra[r] \in Nat
    BY <2>2, <1>1, FS_CardinalityType
  <2>4. B = A \ {p} /\ (p \in A <=> r = q)
    BY <1>1, <2>1 DEF Holders
  <2> HIDE DEF A, B, q
  <2>5. /\ IsFiniteSet(A \ {p})
        /\ Cardinality(A \ {p}) = IF p \in A THEN Cardinality(A) - 1 ELSE Cardinality(A)
    BY <2>2, FS_RemoveElement
  <2>6. IsFiniteSet(B) /\ m.refs[r] = Cardinality(B) + extra[r] + (IF r = q THEN 1 ELSE 0)
    BY <2>2, <2>3, <2>4, <2>5
  <2> QED BY <2>6 DEF CountIs, B
<1>3. Sound(m, {p}, extra, q)
  BY <1>1, <1>2 DEF Sound
<1> QED BY <1>3

\* It is empty afterwards.
LEMMA Unhide ==
  ASSUME NEW m, NEW p \in Places, NEW extra, Sound(m, {p}, extra, NULL)
  PROVE  Sound([m EXCEPT !.held[p] = NULL], {}, extra, NULL)
<1> DEFINE k == [m EXCEPT !.held[p] = NULL]
<1>1. /\ m \in Memories /\ extra \in [Resources -> Nat]
      /\ m.refs \in [Resources -> Nat] /\ m.held \in [Places -> Resources \cup {NULL}]
  BY DEF Sound, Memories
<1>2. k.refs = m.refs /\ k.held = [m.held EXCEPT ![p] = NULL] /\ k \in Memories
  BY <1>1 DEF Memories
<1> HIDE DEF k
<1>3. \A r \in Resources : Holders(k.held, {}, r) = Holders(m.held, {p}, r)
  BY <1>1, <1>2, NullIsNone DEF Holders
<1>4. \A r \in Resources : CountIs(k, {}, extra, NULL, r)
  BY <1>2, <1>3 DEF Sound, CountIs
<1>5. \A r \in Resources : k.refs[r] = 0 => k.held[r] = NULL
  BY <1>1, <1>2 DEF Sound
<1>6. Sound(k, {}, extra, NULL)
  BY <1>1, <1>2, <1>4, <1>5 DEF Sound
<1> QED BY <1>6 DEF k

\* A reference is added, and is pending.
LEMMA Refer ==
  ASSUME NEW m, NEW extra, Sound(m, {}, extra, NULL), NEW q \in Resources
  PROVE  Sound([m EXCEPT !.refs[q] = @ + 1], {}, extra, q)
<1> DEFINE k == [m EXCEPT !.refs[q] = @ + 1]
<1>1. /\ m \in Memories /\ extra \in [Resources -> Nat]
      /\ m.refs \in [Resources -> Nat] /\ m.held \in [Places -> Resources \cup {NULL}]
  BY DEF Sound, Memories
<1>2. k.refs = [m.refs EXCEPT ![q] = m.refs[q] + 1] /\ k.held = m.held
  BY <1>1 DEF Memories
<1>3. m.refs[q] \in Nat /\ m.refs[q] + 1 \in Nat /\ m.refs[q] + 1 # 0
  BY <1>1
<1>4. k \in Memories
  BY <1>1, <1>3 DEF Memories
<1> HIDE DEF k
<1>5. ASSUME NEW r \in Resources PROVE CountIs(k, {}, extra, q, r)
  <2> DEFINE A == Holders(m.held, {}, r)
  <2>1. r # NULL
    BY NullIsNone
  <2>2. IsFiniteSet(A) /\ m.refs[r] = Cardinality(A) + extra[r] + 0
    BY <2>1 DEF Sound, CountIs
  <2>3. Cardinality(A) \in Nat /\ extra[r] \in Nat
    BY <2>2, <1>1, FS_CardinalityType
  <2>4. k.refs[r] = IF r = q THEN m.refs[r] + 1 ELSE m.refs[r]
    BY <1>1, <1>2
  <2> HIDE DEF A
  <2>5. k.refs[r] = Cardinality(A) + extra[r] + (IF r = q THEN 1 ELSE 0)
    BY <2>2, <2>3, <2>4
  <2> QED BY <2>2, <2>5, <1>2 DEF CountIs, A
<1>6. \A r \in Resources : k.refs[r] = 0 => k.held[r] = NULL
  <2> TAKE r \in Resources
  <2>1. CASE r = q
    BY <2>1, <1>1, <1>2, <1>3
  <2>2. CASE r # q
    BY <2>2, <1>1, <1>2 DEF Sound
  <2> QED BY <2>1, <2>2
<1>7. Sound(k, {}, extra, q)
  BY <1>1, <1>4, <1>5, <1>6 DEF Sound
<1> QED BY <1>7 DEF k

\* What is pending goes to other code, or is lost, and the reverse.
LEMMA Charge ==
  ASSUME NEW m, NEW extra, NEW q \in Resources, Sound(m, {}, extra, q)
  PROVE  Sound(m, {}, [extra EXCEPT ![q] = @ + 1], NULL)
<1> DEFINE e == [extra EXCEPT ![q] = @ + 1]
<1>1. m \in Memories /\ extra \in [Resources -> Nat]
  BY DEF Sound
<1>2. e \in [Resources -> Nat]
  BY <1>1
<1>3. ASSUME NEW r \in Resources PROVE CountIs(m, {}, e, NULL, r)
  <2> DEFINE A == Holders(m.held, {}, r)
  <2>1. IsFiniteSet(A) /\ m.refs[r] = Cardinality(A) + extra[r] + (IF r = q THEN 1 ELSE 0)
    BY DEF Sound, CountIs
  <2>2. Cardinality(A) \in Nat /\ extra[r] \in Nat
    BY <2>1, <1>1, FS_CardinalityType
  <2>3. e[r] = (IF r = q THEN extra[r] + 1 ELSE extra[r]) /\ r # NULL
    BY <1>1, NullIsNone
  <2> HIDE DEF A, e
  <2>4. m.refs[r] = Cardinality(A) + e[r] + 0
    BY <2>1, <2>2, <2>3
  <2> QED BY <2>1, <2>3, <2>4 DEF CountIs, A
<1> HIDE DEF e
<1>4. Sound(m, {}, e, NULL)
  BY <1>1, <1>2, <1>3 DEF Sound
<1> QED BY <1>4 DEF e

LEMMA Uncharge ==
  ASSUME NEW m, NEW extra, NEW q \in Resources, Sound(m, {}, extra, NULL), extra[q] > 0
  PROVE  Sound(m, {}, [extra EXCEPT ![q] = @ - 1], q)
<1> DEFINE e == [extra EXCEPT ![q] = @ - 1]
<1>1. m \in Memories /\ extra \in [Resources -> Nat]
  BY DEF Sound
<1>2. e \in [Resources -> Nat]
  <2>1. extra[q] - 1 \in Nat
    BY <1>1
  <2> QED BY <1>1, <2>1
<1>3. ASSUME NEW r \in Resources PROVE CountIs(m, {}, e, q, r)
  <2> DEFINE A == Holders(m.held, {}, r)
  <2>1. r # NULL
    BY NullIsNone
  <2>2. IsFiniteSet(A) /\ m.refs[r] = Cardinality(A) + extra[r] + 0
    BY <2>1 DEF Sound, CountIs
  <2>3. Cardinality(A) \in Nat /\ extra[r] \in Nat
    BY <2>2, <1>1, FS_CardinalityType
  <2>4. e[r] = IF r = q THEN extra[r] - 1 ELSE extra[r]
    BY <1>1
  <2> HIDE DEF A, e
  <2>5. m.refs[r] = Cardinality(A) + e[r] + (IF r = q THEN 1 ELSE 0)
    BY <2>2, <2>3, <2>4
  <2> QED BY <2>2, <2>5 DEF CountIs, A
<1> HIDE DEF e
<1>4. Sound(m, {}, e, q)
  BY <1>1, <1>2, <1>3 DEF Sound
<1> QED BY <1>4 DEF e

-----------------------------------------------------------------------------
(* The inductive invariant: the counts are right, and what is gone holds   *)
(* nothing.                                                                *)

Extra == [r \in Resources |-> raw[r] + leaked[r]]

OwnersInv ==
  /\ class \in {"CO", "RawSocket"}
  /\ raw \in [Resources -> Nat]
  /\ leaked \in [Resources -> Nat]
  /\ dangling \in BOOLEAN
  /\ Sound(Memory, {}, Extra, NULL)

LEMMA InvTypes ==
  ASSUME OwnersInv
  PROVE  /\ refs \in [Resources -> Nat] /\ held \in [Places -> Resources \cup {NULL}]
         /\ raw \in [Resources -> Nat] /\ leaked \in [Resources -> Nat]
         /\ Memory \in Memories /\ Memory.refs = refs /\ Memory.held = held
         /\ Extra \in [Resources -> Nat]
  BY DEF OwnersInv, Sound, Memories, Memory, Extra

\* The invariant after a step that ends in memory m.
LEMMA InvAfter ==
  ASSUME NEW m, Become(m), Sound(m, {}, Extra', NULL),
         class' \in {"CO", "RawSocket"}, raw' \in [Resources -> Nat],
         leaked' \in [Resources -> Nat], dangling' \in BOOLEAN
  PROVE  OwnersInv'
<1>1. m \in Memories
  BY DEF Sound
<1>2. m = Memory'
  BY <1>1 DEF Become, Memory, Memories
<1>3. Sound(Memory', {}, Extra', NULL)
  BY <1>2
<1> QED BY <1>3 DEF OwnersInv, Sound, CountIs, Holders, Memory

\* No object refers to an object nobody can reach, but those that go with it.
LEMMA Unreachable ==
  ASSUME OwnersInv, NEW h \in [Places -> Resources \cup {NULL}],
         NEW S \in SUBSET Resources, \A x \in S : Extra[x] = 0,
         \A y \in Places : h[y] \in S => y \in S
  PROVE  Reach(h, Roots) \subseteq Places \ S
<1>1. Roots \subseteq Places
  BY DEF Roots, Places
<1>2. Roots \cap S = {}
  <2>1. \A x \in S : x \notin Locals
    BY OwnersAssumption
  <2>2. ASSUME NEW x \in S PROVE ~(raw[x] > 0)
    <3>1. raw[x] + leaked[x] = 0 /\ raw[x] \in Nat /\ leaked[x] \in Nat
      BY InvTypes DEF Extra
    <3> QED BY <3>1
  <2> QED BY <2>1, <2>2 DEF Roots
<1> QED BY <1>1, <1>2, ReachAvoids

\* What code uses is there, and is not dropped with what it gives back.
LEMMA AccessibleAlive ==
  ASSUME OwnersInv, NEW p \in Accessible
  PROVE  p \in Places /\ ~Gone(Memory, p) /\ Safe(Memory, {p}, Extra)
<1>1. CASE Counted
  <2>1. p \in Reach(held, Roots)
    BY <1>1 DEF Accessible
  <2>2. \A S \in SUBSET Resources :
          /\ \A x \in S : Extra[x] = 0
          /\ \A y \in Places : held[y] \in S => y \in S
          => p \in Places \ S
    BY <2>1, InvTypes, Unreachable
  <2>3. p \in Places
    <3>1. \A x \in {} : Extra[x] = 0
      OBVIOUS
    <3>2. {} \in SUBSET Resources /\ \A y \in Places : held[y] \in {} => y \in {}
      OBVIOUS
    <3> QED BY <2>2, <3>1, <3>2
  <2>4. Safe(Memory, {p}, Extra)
    BY <2>2, <2>3, InvTypes DEF Safe
  <2>5. ASSUME Gone(Memory, p) PROVE FALSE
    <3>1. p \in Resources /\ refs[p] = 0
      BY <2>5, InvTypes DEF Gone
    <3> DEFINE A == Holders(held, {}, p)
    <3>2. IsFiniteSet(A) /\ 0 = Cardinality(A) + Extra[p] + 0 /\ Extra[p] \in Nat
      BY <3>1, InvTypes, NullIsNone DEF OwnersInv, Sound, CountIs
    <3>3. Cardinality(A) \in Nat
      BY <3>2, FS_CardinalityType
    <3>4. Cardinality(A) = 0 /\ Extra[p] = 0
      BY <3>2, <3>3
    <3>5. A = {}
      <4> HIDE DEF A
      <4> QED BY <3>2, <3>4, FS_EmptySet
    <3>6. \A y \in Places : held[y] \in {p} => y \in {p}
      BY <3>5 DEF Holders
    <3>7. \A x \in {p} : Extra[x] = 0
      BY <3>4
    <3>8. {p} \in SUBSET Resources
      BY <3>1
    <3>9. p \in Places \ {p}
      BY <2>2, <3>6, <3>7, <3>8
    <3> QED BY <3>9
  <2> QED BY <2>3, <2>4, <2>5
<1>2. CASE ~Counted
  <2>1. p \in Locals /\ p \notin Resources
    BY <1>2, OwnersAssumption DEF Accessible
  <2> QED BY <2>1 DEF Places, Gone, Safe
<1> QED BY <1>1, <1>2

LEMMA ReleasedSound ==
  ASSUME OwnersInv, NEW p \in Accessible
  PROVE  /\ Sound(Released(p), {}, Extra, NULL)
         /\ Released(p).held[p] = NULL
         /\ ~Gone(Released(p), p)
         /\ Drop(Memory, held[p]) \in Memories
         /\ Dropped(Memory, Drop(Memory, held[p]), {p}, Extra)
<1> DEFINE d == Drop(Memory, held[p])
<1>1. p \in Places /\ ~Gone(Memory, p) /\ Safe(Memory, {p}, Extra)
  BY AccessibleAlive
<1>2. Memory.held[p] = held[p]
  BY InvTypes
<1>3. Sound(Memory, {p}, Extra, held[p])
  BY <1>1, <1>2, Hide DEF OwnersInv
<1>4. Sound(d, {p}, Extra, NULL) /\ Dropped(Memory, d, {p}, Extra)
  BY <1>1, <1>3, DropSound
<1>5. d \in Memories
  BY <1>4 DEF Sound
<1>6. Released(p) = [d EXCEPT !.held[p] = NULL]
  BY DEF Released
<1> HIDE DEF d
<1>7. Sound(Released(p), {}, Extra, NULL)
  BY <1>1, <1>4, <1>6, Unhide
<1>8. Released(p).held[p] = NULL /\ Released(p).refs = d.refs
  BY <1>1, <1>5, <1>6 DEF Memories
<1>9. ~Gone(Released(p), p)
  <2> SUFFICES ASSUME p \in Resources, d.refs[p] = 0 PROVE FALSE
    BY <1>8 DEF Gone
  <2>1. p \in Destroyed(Memory, d)
    BY <1>1 DEF Gone, Destroyed
  <2> QED BY <1>4, <2>1 DEF Dropped
<1> QED BY <1>4, <1>5, <1>7, <1>8, <1>9 DEF d

-----------------------------------------------------------------------------
(* The steps keep the invariant.                                           *)

LEMMA InitInv == Init => OwnersInv
<1> SUFFICES ASSUME Init PROVE OwnersInv
  OBVIOUS
<1>1. refs = [r \in Resources |-> 0] /\ held = [p \in Places |-> NULL]
      /\ raw = [r \in Resources |-> 0] /\ leaked = [r \in Resources |-> 0]
  BY DEF Init
<1>2. Memory \in Memories /\ Memory.refs = refs /\ Memory.held = held
  BY <1>1 DEF Memory, Memories
<1>3. Extra \in [Resources -> Nat] /\ \A r \in Resources : Extra[r] = 0
  BY <1>1 DEF Extra
<1>4. ASSUME NEW r \in Resources PROVE CountIs(Memory, {}, Extra, NULL, r)
  <2>1. Holders(held, {}, r) = {}
    BY <1>1, NullIsNone DEF Holders
  <2>2. IsFiniteSet({}) /\ Cardinality({}) = 0
    BY FS_EmptySet
  <2>3. refs[r] = 0 /\ r # NULL
    BY <1>1, NullIsNone
  <2> QED BY <2>1, <2>2, <2>3, <1>2, <1>3 DEF CountIs
<1>5. \A r \in Resources : Memory.held[r] = NULL
  BY <1>1, <1>2, NullIsNone
<1>6. Sound(Memory, {}, Extra, NULL)
  BY <1>2, <1>3, <1>4, <1>5 DEF Sound
<1>7. class \in {"CO", "RawSocket"} /\ dangling \in BOOLEAN
  BY DEF Init
<1>8. raw \in [Resources -> Nat] /\ leaked \in [Resources -> Nat]
  BY <1>1
<1> QED BY <1>6, <1>7, <1>8 DEF OwnersInv

LEMMA CreateInv ==
  ASSUME OwnersInv, NEW r \in Resources, Create(r) PROVE OwnersInv'
<1> DEFINE m == [Memory EXCEPT !.refs[r] = @ + 1]
<1>1. Sound(m, {}, Extra, r)
  BY Refer DEF OwnersInv
<1>2. refs' = m.refs /\ held' = m.held
  <2>1. m.refs = [refs EXCEPT ![r] = refs[r] + 1] /\ m.held = held
    BY InvTypes DEF Memory
  <2>2. refs[r] + 1 = 1
    BY DEF Create
  <2> QED BY <2>1, <2>2 DEF Create
<1>3. raw[r] = 0
  <2> DEFINE A == Holders(held, {}, r)
             c == Cardinality(A)
  <2>1. IsFiniteSet(A) /\ 0 = c + Extra[r] + 0
    BY InvTypes, NullIsNone DEF OwnersInv, Sound, CountIs, Create
  <2>2. c \in Nat
    BY <2>1, FS_CardinalityType
  <2>3. Extra[r] = raw[r] + leaked[r] /\ raw[r] \in Nat /\ leaked[r] \in Nat
    BY InvTypes DEF Extra
  <2> DEFINE e == Extra[r]
             a == raw[r]
             l == leaked[r]
  <2>4. 0 = c + e + 0 /\ c \in Nat /\ e = a + l /\ a \in Nat /\ l \in Nat
    BY <2>1, <2>2, <2>3
  <2> HIDE DEF c, e, a, l
  <2>5. a = 0
    BY ONLY <2>4
  <2> QED BY <2>5 DEF a
<1>4. Extra' = [Extra EXCEPT ![r] = @ + 1]
  <2>1. ASSUME NEW x \in Resources PROVE Extra'[x] = [Extra EXCEPT ![r] = @ + 1][x]
    <3>1. CASE x = r
      <4>1. raw'[r] = 1 /\ leaked' = leaked
        BY InvTypes DEF Create
      <4>2. Extra'[r] = 1 + leaked[r] /\ Extra[r] = 0 + leaked[r] /\ leaked[r] \in Nat
        BY <4>1, <1>3, InvTypes DEF Extra
      <4>3. [Extra EXCEPT ![r] = @ + 1][r] = Extra[r] + 1
        BY InvTypes
      <4> QED BY <4>2, <4>3, <3>1
    <3>2. CASE x # r
      BY <3>2, InvTypes DEF Create, Extra
    <3> QED BY <3>1, <3>2
  <2>2. Extra' = [x \in Resources |-> Extra'[x]]
    BY DEF Extra
  <2> QED BY <2>1, <2>2, InvTypes
<1> HIDE DEF m
<1>5. Sound(m, {}, Extra', NULL)
  BY <1>1, <1>4, Charge
<1>6. /\ class' \in {"CO", "RawSocket"} /\ raw' \in [Resources -> Nat]
      /\ leaked' \in [Resources -> Nat] /\ dangling' \in BOOLEAN
  BY InvTypes DEF Create, OwnersInv
<1> QED BY <1>2, <1>5, <1>6, InvAfter DEF Become

\* A reference of other code becomes pending.
LEMMA ExtraLess ==
  ASSUME OwnersInv, NEW r \in Resources, raw[r] > 0,
         raw' = [raw EXCEPT ![r] = @ - 1], UNCHANGED leaked
  PROVE  /\ raw' \in [Resources -> Nat]
         /\ Sound(Memory, {}, Extra', r)
<1>1. raw[r] - 1 \in Nat
  BY InvTypes
<1>2. raw' \in [Resources -> Nat]
  BY <1>1, InvTypes
<1>3. ASSUME NEW x \in Resources PROVE Extra'[x] = [Extra EXCEPT ![r] = @ - 1][x]
  <2>1. Extra'[x] = raw'[x] + leaked[x] /\ Extra[x] = raw[x] + leaked[x]
    BY DEF Extra
  <2>2. raw'[x] = IF x = r THEN raw[x] - 1 ELSE raw[x]
    BY InvTypes
  <2>3. [Extra EXCEPT ![r] = @ - 1][x] = IF x = r THEN Extra[x] - 1 ELSE Extra[x]
    BY InvTypes
  <2>4. raw[x] \in Nat /\ leaked[x] \in Nat
    BY InvTypes
  <2> QED BY <2>1, <2>2, <2>3, <2>4
<1>4. Extra' = [Extra EXCEPT ![r] = @ - 1]
  <2>1. Extra' = [x \in Resources |-> Extra'[x]]
    BY DEF Extra
  <2> QED BY <2>1, <1>3, InvTypes
<1>5. Extra[r] > 0
  <2>1. Extra[r] = raw[r] + leaked[r] /\ raw[r] \in Nat /\ leaked[r] \in Nat
    BY InvTypes DEF Extra
  <2> QED BY <2>1
<1> QED BY <1>2, <1>4, <1>5, Uncharge DEF OwnersInv

LEMMA GiveBackInv ==
  ASSUME OwnersInv, NEW r \in Resources, GiveBack(r) PROVE OwnersInv'
<1>1. raw' \in [Resources -> Nat] /\ Sound(Memory, {}, Extra', r)
  BY ExtraLess DEF GiveBack
<1>2. Safe(Memory, {}, Extra')
  BY DEF Safe
<1>3. Sound(Drop(Memory, r), {}, Extra', NULL)
  BY <1>1, <1>2, DropSound
<1>4. Become(Drop(Memory, r)) /\ UNCHANGED <<class, leaked, dangling>>
  BY DEF GiveBack
<1> QED BY <1>1, <1>3, <1>4, InvAfter DEF OwnersInv

LEMMA InheritInv ==
  ASSUME OwnersInv, NEW p \in Accessible, NEW r \in Resources, Inherit(p, r) PROVE OwnersInv'
<1> DEFINE m == [Memory EXCEPT !.held[p] = r]
<1>1. raw' \in [Resources -> Nat] /\ Sound(Memory, {}, Extra', r)
  BY ExtraLess DEF Inherit
<1>2. p \in Places /\ ~Gone(Memory, p)
  BY AccessibleAlive
<1>3. Memory.held[p] = NULL
  BY InvTypes DEF Inherit
<1>4. Become(m)
  BY InvTypes DEF Inherit, Become, Memory
<1> HIDE DEF m
<1>5. Sound(m, {}, Extra', NULL)
  BY <1>1, <1>2, <1>3, Take DEF m
<1>6. UNCHANGED <<class, leaked, dangling>>
  BY DEF Inherit
<1> QED BY <1>1, <1>4, <1>5, <1>6, InvAfter DEF OwnersInv

\* A new reference to r is put into an empty place.
LEMMA AddReference ==
  ASSUME OwnersInv, NEW p \in Accessible, held[p] = NULL, NEW r \in Resources,
         Become([Referenced(Memory, r) EXCEPT !.held[p] = r]),
         UNCHANGED <<class, raw, leaked, dangling>>
  PROVE  OwnersInv'
<1> DEFINE k == [Memory EXCEPT !.refs[r] = @ + 1]
<1>1. Referenced(Memory, r) = k
  BY NullIsNone DEF Referenced
<1>2. Sound(k, {}, Extra, r)
  BY Refer DEF OwnersInv
<1>3. k.held = held /\ k.refs = [refs EXCEPT ![r] = refs[r] + 1]
  BY DEF Memory
<1>4. p \in Places /\ ~Gone(k, p)
  <2>1. p \in Places /\ ~Gone(Memory, p)
    BY AccessibleAlive
  <2>2. ASSUME p \in Resources PROVE k.refs[p] # 0
    <3>1. refs[p] # 0 /\ refs[p] \in Nat
      BY <2>1, <2>2, InvTypes DEF Gone
    <3>2. k.refs[p] = IF p = r THEN refs[p] + 1 ELSE refs[p]
      BY <1>3, <2>2, InvTypes
    <3> QED BY <3>1, <3>2
  <2> QED BY <2>1, <2>2 DEF Gone
<1> HIDE DEF k
<1> DEFINE m == [k EXCEPT !.held[p] = r]
<1>5. Sound(m, {}, Extra, NULL)
  BY <1>2, <1>3, <1>4, Take
<1>6. Become(m)
  BY <1>1
<1> HIDE DEF m
<1>7. Extra' = Extra
  BY DEF Extra
<1> QED BY <1>5, <1>6, <1>7, InvAfter DEF OwnersInv

LEMMA MoveConstructInv ==
  ASSUME OwnersInv, NEW p \in Accessible, NEW q \in Accessible, MoveConstruct(p, q)
  PROVE  OwnersInv'
<1> DEFINE k == [Memory EXCEPT !.held[q] = NULL]
<1>1. p \in Places /\ q \in Places /\ ~Gone(Memory, p) /\ p # q
  BY AccessibleAlive DEF MoveConstruct
<1>2. Sound(k, {}, Extra, held[q])
  BY <1>1, Give, InvTypes DEF OwnersInv
<1>3. k.held = [held EXCEPT ![q] = NULL] /\ k.refs = refs
  BY DEF Memory
<1>4. k.held[p] = NULL /\ ~Gone(k, p)
  BY <1>1, <1>3, InvTypes DEF MoveConstruct, Gone
<1> HIDE DEF k
<1> DEFINE m == [k EXCEPT !.held[p] = held[q]]
<1>5. Sound(m, {}, Extra, NULL)
  BY <1>1, <1>2, <1>4, Take
<1>6. k \in Memories
  BY <1>2 DEF Sound
<1>7. m.refs = refs /\ m.held = [[held EXCEPT ![q] = NULL] EXCEPT ![p] = held[q]]
  BY <1>3, <1>6 DEF Memories
<1>8. [[held EXCEPT ![q] = NULL] EXCEPT ![p] = held[q]] = [held EXCEPT ![p] = held[q], ![q] = NULL]
  BY <1>1, InvTypes
<1>9. Become(m)
  BY <1>7, <1>8 DEF Become, MoveConstruct
<1> HIDE DEF m
<1>10. Extra' = Extra /\ UNCHANGED <<class, raw, leaked, dangling>>
  BY DEF Extra, MoveConstruct
<1> QED BY <1>5, <1>9, <1>10, InvAfter DEF OwnersInv

LEMMA ReleaseInv ==
  ASSUME OwnersInv, NEW p \in Accessible, Release(p) PROVE OwnersInv'
<1>1. Sound(Released(p), {}, Extra, NULL)
  BY ReleasedSound
<1>2. Become(Released(p)) /\ UNCHANGED <<class, raw, leaked, dangling>>
  BY DEF Release
<1>3. Extra' = Extra
  BY <1>2 DEF Extra
<1> QED BY <1>1, <1>2, <1>3, InvAfter DEF OwnersInv

LEMMA DangleInv ==
  ASSUME OwnersInv, Dangle PROVE OwnersInv'
<1>1. Become(Memory) /\ Extra' = Extra /\ dangling' = TRUE /\ UNCHANGED <<class, raw, leaked>>
  BY DEF Dangle, Become, Memory, Extra
<1> QED BY <1>1, InvAfter DEF OwnersInv

LEMMA CopyAssignInv ==
  ASSUME OwnersInv, NEW p \in Accessible, NEW q \in Accessible, CopyAssign(p, q)
  PROVE  OwnersInv'
<1> DEFINE m == Released(p)
           k == Referenced(m, m.held[q])
           n == [k EXCEPT !.held[p] = m.held[q]]
<1>1. /\ Sound(m, {}, Extra, NULL) /\ m.held[p] = NULL /\ ~Gone(m, p)
      /\ p \in Places /\ q \in Places
  BY ReleasedSound, AccessibleAlive
<1>2. /\ m \in Memories /\ m.held[q] \in Resources \cup {NULL}
      /\ m.refs \in [Resources -> Nat] /\ m.held \in [Places -> Resources \cup {NULL}]
  BY <1>1 DEF Sound, Memories
<1>3. CASE Gone(m, q)
  BY <1>3, DangleInv DEF CopyAssign
<1>4. CASE ~Gone(m, q)
  <2>1. Become(n) /\ UNCHANGED <<class, raw, leaked, dangling>>
    BY <1>4 DEF CopyAssign
  <2> HIDE DEF m
  <2>2. Sound(k, {}, Extra, m.held[q])
    BY <1>1, <1>2, Refer DEF Referenced
  <2>3. k.held = m.held
    BY <1>2 DEF Referenced, Memories
  <2>4. ~Gone(k, p)
    <3> SUFFICES ASSUME p \in Resources PROVE k.refs[p] # 0
      BY DEF Gone
    <3>1. m.refs[p] # 0 /\ m.refs[p] \in Nat
      BY <1>1, <1>2 DEF Gone
    <3>2. k.refs[p] = IF p = m.held[q] THEN m.refs[p] + 1 ELSE m.refs[p]
      <4>1. CASE m.held[q] = NULL
        BY <4>1, NullIsNone DEF Referenced
      <4>2. CASE m.held[q] # NULL
        <5>1. k.refs = [m.refs EXCEPT ![m.held[q]] = m.refs[m.held[q]] + 1]
          BY <4>2, <1>2 DEF Referenced, Memories
        <5> QED BY <5>1, <1>2
      <4> QED BY <4>1, <4>2
    <3> QED BY <3>1, <3>2
  <2> HIDE DEF k
  <2>5. Sound(n, {}, Extra, NULL)
    BY <1>1, <2>2, <2>3, <2>4, Take
  <2>6. Extra' = Extra
    BY <2>1 DEF Extra
  <2> HIDE DEF n
  <2> QED BY <2>1, <2>5, <2>6, InvAfter DEF OwnersInv
<1> QED BY <1>3, <1>4

LEMMA MoveAssignInv ==
  ASSUME OwnersInv, NEW p \in Accessible, NEW q \in Accessible, MoveAssign(p, q)
  PROVE  OwnersInv'
<1> DEFINE m == Released(p)
           n == [m EXCEPT !.held[p] = m.held[q], !.held[q] = NULL]
<1>1. /\ Sound(m, {}, Extra, NULL) /\ m.held[p] = NULL /\ ~Gone(m, p)
      /\ p \in Places /\ q \in Places
  BY ReleasedSound, AccessibleAlive
<1>2. /\ m \in Memories
      /\ m.refs \in [Resources -> Nat] /\ m.held \in [Places -> Resources \cup {NULL}]
  BY <1>1 DEF Sound, Memories
<1>3. CASE Gone(m, q)
  BY <1>3, DangleInv DEF MoveAssign
<1>4. CASE ~Gone(m, q)
  <2>1. Become(n) /\ UNCHANGED <<class, raw, leaked, dangling>>
    BY <1>4 DEF MoveAssign
  <2> HIDE DEF m
  <2>2. n.refs = m.refs /\ n.held = [m.held EXCEPT ![p] = m.held[q], ![q] = NULL]
    BY <1>2 DEF Memories
  <2>3. CASE p = q
    <3>1. n.held = m.held
      BY <2>2, <2>3, <1>1, <1>2
    <3>2. Become(m)
      BY <3>1, <2>1, <2>2 DEF Become
    <3>3. Extra' = Extra
      BY <2>1 DEF Extra
    <3> QED BY <2>1, <3>2, <3>3, <1>1, InvAfter DEF OwnersInv
  <2>4. CASE p # q
    <3> DEFINE k == [m EXCEPT !.held[q] = NULL]
               g == [k EXCEPT !.held[p] = m.held[q]]
    <3>1. Sound(k, {}, Extra, m.held[q])
      BY <1>1, Give
    <3>2. k.held = [m.held EXCEPT ![q] = NULL] /\ k.refs = m.refs /\ k \in Memories
      BY <1>2, <3>1 DEF Memories, Sound
    <3>3. k.held[p] = NULL /\ ~Gone(k, p)
      BY <1>1, <1>2, <2>4, <3>2 DEF Gone
    <3> HIDE DEF k
    <3>4. Sound(g, {}, Extra, NULL)
      BY <1>1, <3>1, <3>3, Take
    <3>5. g.refs = m.refs /\ g.held = [[m.held EXCEPT ![q] = NULL] EXCEPT ![p] = m.held[q]]
      BY <3>2 DEF Memories
    <3>6. g.held = n.held
      BY <2>2, <2>4, <3>5, <1>1, <1>2
    <3>7. Become(g)
      BY <2>1, <2>2, <3>5, <3>6 DEF Become
    <3>8. Extra' = Extra
      BY <2>1 DEF Extra
    <3> HIDE DEF g
    <3> QED BY <2>1, <3>4, <3>7, <3>8, InvAfter DEF OwnersInv
  <2> QED BY <2>3, <2>4
<1> QED BY <1>3, <1>4

LEMMA StoreThroughInv ==
  ASSUME OwnersInv, NEW p \in Accessible, NEW r \in Resources, StoreThrough(p, r)
  PROVE  OwnersInv'
<1> DEFINE k == [Memory EXCEPT !.held[p] = NULL]
<1>1. p \in Places /\ ~Gone(Memory, p)
  BY AccessibleAlive
<1>2. Sound(k, {}, Extra, held[p])
  BY <1>1, Give, InvTypes DEF OwnersInv
<1>3. k.held = [held EXCEPT ![p] = NULL] /\ k.refs = refs /\ k \in Memories
  BY <1>2 DEF Memory, Sound
<1> HIDE DEF k
<1>4. leaked' \in [Resources -> Nat] /\ Sound(k, {}, Extra', NULL)
  <2>1. CASE held[p] = NULL
    <3>1. leaked' = leaked /\ raw' = raw
      BY <2>1 DEF StoreThrough
    <3>2. Extra' = Extra
      BY <3>1 DEF Extra
    <3> QED BY <1>2, <2>1, <3>1, <3>2, InvTypes
  <2>2. CASE held[p] # NULL
    <3>1. leaked' = [leaked EXCEPT ![held[p]] = leaked[held[p]] + 1] /\ raw' = raw
      BY <2>2 DEF StoreThrough
    <3>2. held[p] \in Resources
      BY <1>1, <2>2, InvTypes
    <3>3. leaked[held[p]] + 1 \in Nat
      BY <3>2, InvTypes
    <3>4. leaked' \in [Resources -> Nat]
      BY <3>1, <3>3, InvTypes
    <3>5. ASSUME NEW x \in Resources PROVE Extra'[x] = [Extra EXCEPT ![held[p]] = @ + 1][x]
      <4>1. Extra'[x] = raw[x] + leaked'[x] /\ Extra[x] = raw[x] + leaked[x]
        BY <3>1 DEF Extra
      <4>2. leaked'[x] = IF x = held[p] THEN leaked[x] + 1 ELSE leaked[x]
        BY <3>1, <3>2, InvTypes
      <4>3. [Extra EXCEPT ![held[p]] = @ + 1][x] = IF x = held[p] THEN Extra[x] + 1 ELSE Extra[x]
        BY InvTypes
      <4>4. raw[x] \in Nat /\ leaked[x] \in Nat
        BY InvTypes
      <4> QED BY <4>1, <4>2, <4>3, <4>4
    <3>6. Extra' = [Extra EXCEPT ![held[p]] = @ + 1]
      <4>1. Extra' = [x \in Resources |-> Extra'[x]]
        BY DEF Extra
      <4> QED BY <4>1, <3>5, InvTypes
    <3>7. Sound(k, {}, Extra', NULL)
      BY <1>2, <3>2, <3>6, Charge
    <3> QED BY <3>4, <3>7
  <2> QED BY <2>1, <2>2
<1> DEFINE g == [k EXCEPT !.refs[r] = @ + 1]
<1>5. Sound(g, {}, Extra', r)
  BY <1>4, Refer
<1>6. g.held = k.held /\ g.refs = [refs EXCEPT ![r] = refs[r] + 1] /\ g \in Memories
  BY <1>3, <1>5 DEF Memories, Sound
<1>7. refs[r] = 0
  BY DEF StoreThrough
<1>8. g.refs = [refs EXCEPT ![r] = 1]
  BY <1>6, <1>7
<1> HIDE DEF g
<1>9. g.held[p] = NULL /\ ~Gone(g, p)
  <2>1. g.held[p] = NULL
    BY <1>1, <1>3, <1>6, InvTypes
  <2>2. ASSUME p \in Resources PROVE g.refs[p] # 0
    <3>1. refs[p] # 0
      BY <2>2, <1>1, InvTypes DEF Gone
    <3> QED BY <3>1, <2>2, <1>7, <1>8, InvTypes
  <2> QED BY <2>1, <2>2 DEF Gone
<1> DEFINE n == [g EXCEPT !.held[p] = r]
<1>10. Sound(n, {}, Extra', NULL)
  BY <1>1, <1>5, <1>9, Take
<1>11. n.refs = [refs EXCEPT ![r] = 1] /\ n.held = [[held EXCEPT ![p] = NULL] EXCEPT ![p] = r]
  BY <1>3, <1>6, <1>8 DEF Memories
<1>12. n.held = [held EXCEPT ![p] = r]
  BY <1>11, <1>1, InvTypes
<1>13. Become(n) /\ UNCHANGED <<class, raw, dangling>>
  BY <1>11, <1>12 DEF StoreThrough, Become
<1> HIDE DEF n
<1> QED BY <1>4, <1>10, <1>13, InvAfter DEF OwnersInv

LEMMA NextInv ==
  ASSUME OwnersInv, [Next]_vars PROVE OwnersInv'
<1>1. CASE UNCHANGED vars
  <2>1. Become(Memory) /\ Extra' = Extra /\ UNCHANGED <<class, raw, leaked, dangling>>
    BY <1>1 DEF vars, Become, Memory, Extra
  <2> QED BY <2>1, InvAfter DEF OwnersInv
<1>2. ASSUME NEW r \in Resources, Create(r) \/ GiveBack(r) PROVE OwnersInv'
  BY <1>2, CreateInv, GiveBackInv
<1>3. ASSUME NEW p \in Accessible, NEW r \in Resources, AddNew(p, r) \/ Open(p, r)
      PROVE  OwnersInv'
  BY <1>3, AddReference DEF AddNew, Open
<1>4. ASSUME NEW p \in Accessible, NEW r \in Resources, Inherit(p, r) \/ StoreThrough(p, r)
      PROVE  OwnersInv'
  BY <1>4, InheritInv, StoreThroughInv
<1>5. ASSUME NEW p \in Accessible, NEW q \in Accessible, CopyConstruct(p, q) PROVE OwnersInv'
  <2>1. held[q] \in Resources
    BY <1>5, AccessibleAlive, InvTypes DEF CopyConstruct
  <2> QED BY <1>5, <2>1, AddReference DEF CopyConstruct
<1>6. ASSUME NEW p \in Accessible, NEW q \in Accessible,
             MoveConstruct(p, q) \/ CopyAssign(p, q) \/ MoveAssign(p, q)
      PROVE  OwnersInv'
  BY <1>6, MoveConstructInv, CopyAssignInv, MoveAssignInv
<1>7. ASSUME NEW p \in Accessible, Release(p) PROVE OwnersInv'
  BY <1>7, ReleaseInv
<1> QED BY <1>1, <1>2, <1>3, <1>4, <1>5, <1>6, <1>7 DEF Next

\* The counts of the COs and RawSockets and those of the objects agree at any
\* time, so that nothing is given back twice or while a place still names it.
THEOREM OwnersInvariant == Spec => []OwnersInv
<1> QED BY InitInv, NextInv, PTL DEF Spec

THEOREM EveryReferenceIsOwned == Spec => []EveryReferenceOwned
<1>1. OwnersInv => EveryReferenceOwned
  <2> SUFFICES ASSUME OwnersInv, NEW r \in Resources
               PROVE  refs[r] = Cardinality({p \in Places : held[p] = r}) + raw[r] + leaked[r]
    BY DEF EveryReferenceOwned
  <2> DEFINE A == {p \in Places : held[p] = r}
             c == Cardinality(A)
  <2>1. Holders(held, {}, r) = A
    BY DEF Holders
  <2>2. IsFiniteSet(A) /\ refs[r] = c + Extra[r] + 0
    BY <2>1, InvTypes, NullIsNone DEF OwnersInv, Sound, CountIs
  <2>3. c \in Nat
    BY <2>2, FS_CardinalityType
  <2>4. Extra[r] = raw[r] + leaked[r] /\ raw[r] \in Nat /\ leaked[r] \in Nat
    BY InvTypes DEF Extra
  <2> HIDE DEF c
  <2>5. refs[r] = c + raw[r] + leaked[r]
    BY ONLY <2>2, <2>3, <2>4
  <2> QED BY <2>5 DEF c
<1> QED BY <1>1, OwnersInvariant, PTL

\* What is released first leaves the other place alone, unless nothing but the
\* assigned place kept that.
LEMMA AssignmentStep ==
  ASSUME OwnersInv, NEW p \in Accessible, NEW q \in Accessible,
         CopyAssign(p, q) \/ MoveAssign(p, q)
  PROVE  \/ p = q /\ held'[p] = NULL
         \/ held'[p] = held[q] /\ held'[q] \in {held[q], NULL}
         \/ dangling' /\ q \notin Reach([held EXCEPT ![p] = NULL], Roots)
<1> DEFINE d == Drop(Memory, held[p])
           m == Released(p)
           S == Destroyed(Memory, d)
<1>1. /\ Sound(m, {}, Extra, NULL) /\ m.held[p] = NULL
      /\ d \in Memories /\ Dropped(Memory, d, {p}, Extra)
      /\ p \in Places /\ q \in Places /\ ~Gone(Memory, q)
  BY ReleasedSound, AccessibleAlive
<1>2. m = [d EXCEPT !.held[p] = NULL]
  BY DEF Released
<1> HIDE DEF d, m
<1>3. m.refs = d.refs /\ m.held = [d.held EXCEPT ![p] = NULL]
  BY <1>1, <1>2 DEF Memories
<1>4. m \in Memories /\ m.held \in [Places -> Resources \cup {NULL}]
      /\ d.held \in [Places -> Resources \cup {NULL}]
  BY <1>1 DEF Sound, Memories
<1>5. CASE Gone(m, q)
  <2>1. dangling' = TRUE
    BY <1>5 DEF CopyAssign, MoveAssign, Dangle, m
  <2>2. q \in S
    BY <1>1, <1>3, <1>5 DEF Gone, Destroyed
  <2> DEFINE h == [held EXCEPT ![p] = NULL]
  <2>3. h \in [Places -> Resources \cup {NULL}] /\ S \in SUBSET Resources
    BY InvTypes DEF Destroyed
  <2>4. \A x \in S : Extra[x] = 0
    BY <1>1 DEF Dropped
  <2>5. \A y \in Places : h[y] \in S => y \in S
    <3> SUFFICES ASSUME NEW y \in Places, h[y] \in S PROVE y \in S
      OBVIOUS
    <3>1. y # p
      BY <1>1, InvTypes, NullIsNone DEF Destroyed
    <3>2. Memory.held[y] \in S
      BY <3>1, InvTypes
    <3> QED BY <3>1, <3>2, <1>1 DEF Dropped
  <2> HIDE DEF h, S
  <2>6. Reach(h, Roots) \subseteq Places \ S
    BY <2>3, <2>4, <2>5, Unreachable
  <2> QED BY <2>1, <2>2, <2>6 DEF h
<1>6. CASE ~Gone(m, q) /\ p = q
  <2>1. CASE CopyAssign(p, q)
    <3> DEFINE k == Referenced(m, m.held[q])
               n == [k EXCEPT !.held[p] = m.held[q]]
    <3>1. k = m
      BY <1>1, <1>6 DEF Referenced
    <3>2. held' = n.held
      BY <1>6, <2>1 DEF CopyAssign, Become, m
    <3>3. n.held[p] = NULL
      BY <3>1, <1>1, <1>4, <1>6 DEF Memories
    <3> QED BY <3>2, <3>3, <1>6
  <2>2. CASE MoveAssign(p, q)
    <3> DEFINE n == [m EXCEPT !.held[p] = m.held[q], !.held[q] = NULL]
    <3>1. held' = n.held
      BY <1>6, <2>2 DEF MoveAssign, Become, m
    <3>2. n.held[p] = NULL
      BY <1>1, <1>4, <1>6 DEF Memories
    <3> QED BY <3>1, <3>2, <1>6
  <2> QED BY <2>1, <2>2
<1>7. CASE ~Gone(m, q) /\ p # q
  <2>1. q \notin S
    BY <1>3, <1>7 DEF Gone, Destroyed
  <2>2. d.held[q] = held[q]
    BY <1>1, <2>1, InvTypes DEF Dropped
  <2>3. m.held[q] = held[q]
    BY <1>1, <1>3, <1>4, <1>7, <2>2
  <2>4. CASE CopyAssign(p, q)
    <3> DEFINE k == Referenced(m, m.held[q])
               n == [k EXCEPT !.held[p] = m.held[q]]
    <3>1. held' = n.held
      BY <1>7, <2>4 DEF CopyAssign, Become, m
    <3>2. k \in [refs : {k.refs}, held : [Places -> Resources \cup {NULL}]] /\ k.held = m.held
      BY <1>4 DEF Referenced, Memories
    <3> HIDE DEF k
    <3>3. n.held = [m.held EXCEPT ![p] = m.held[q]]
      BY <3>2
    <3> QED BY <3>1, <3>3, <2>3, <1>1, <1>4, <1>7
  <2>5. CASE MoveAssign(p, q)
    <3> DEFINE n == [m EXCEPT !.held[p] = m.held[q], !.held[q] = NULL]
    <3>1. held' = n.held
      BY <1>7, <2>5 DEF MoveAssign, Become, m
    <3>2. n.held = [m.held EXCEPT ![p] = m.held[q], ![q] = NULL]
      BY <1>4 DEF Memories
    <3> QED BY <3>1, <3>2, <2>3, <1>1, <1>4, <1>7
  <2> QED BY <2>4, <2>5
<1> QED BY <1>5, <1>6, <1>7

\* What an assignment leaves in its two places, for any objects that refer to
\* each other in any way: the place that is read was not affected by what is
\* released first, or only the assigned place kept it.
THEOREM AssignmentsAssign == Spec => AssignsWhatItIsGiven
<1>1. OwnersInv =>
        \A p, q \in Accessible :
          CopyAssign(p, q) \/ MoveAssign(p, q) =>
            \/ p = q /\ held'[p] = NULL
            \/ held'[p] = held[q] /\ held'[q] \in {held[q], NULL}
            \/ dangling' /\ q \notin Reach([held EXCEPT ![p] = NULL], Roots)
  BY AssignmentStep
<1> QED BY <1>1, OwnersInvariant, PTL DEF AssignsWhatItIsGiven

-----------------------------------------------------------------------------
(* Addresses.  A loop over a text is a recursive function of the place it  *)
(* has come to.                                                            *)

Loops(f, n, S, a, step) ==
  f \in [0 .. n -> S] /\ f[0] = a /\ \A i \in 1 .. n : f[i] = step[i][f[i - 1]]

LEMMA LoopExists ==
  ASSUME NEW n \in Nat, NEW S, NEW a \in S, NEW step \in [1 .. n -> [S -> S]]
  PROVE  \E f : Loops(f, n, S, a, step)
<1> DEFINE Runs(f, m) == f \in [0 .. m -> S] /\ f[0] = a /\ \A i \in 1 .. m : f[i] = step[i][f[i - 1]]
           T == {m \in Nat : m <= n => \E f : Runs(f, m)}
<1>1. 0 \in T
  <2> DEFINE f == [i \in 0 .. 0 |-> a]
  <2>1. Runs(f, 0)
    OBVIOUS
  <2> HIDE DEF f, Runs
  <2> QED BY <2>1
<1>2. ASSUME NEW m \in Nat, m \in T PROVE m + 1 \in T
  <2> SUFFICES ASSUME m + 1 <= n PROVE \E f : Runs(f, m + 1)
    OBVIOUS
  <2>1. PICK f : Runs(f, m)
    BY <1>2
  <2>2. m + 1 \in 1 .. n /\ m \in 0 .. m
    BY SMT
  <2> DEFINE x == step[m + 1][f[m]]
             g == [i \in 0 .. m + 1 |-> IF i = m + 1 THEN x ELSE f[i]]
  <2>3. x \in S
    BY ONLY <2>1, <2>2, step \in [1 .. n -> [S -> S]], Zenon
  <2> HIDE DEF x
  <2>4. g \in [0 .. m + 1 -> S]
    <3>1. \A i \in 0 .. m : f[i] \in S
      BY ONLY <2>1, Zenon
    <3> QED BY ONLY <2>3, <3>1, m \in Nat, SMT
  <2>5. g[m + 1] = x /\ \A i \in 0 .. m : g[i] = f[i]
    BY ONLY m \in Nat, SMT
  <2> HIDE DEF g
  <2>6. g[0] = a
    <3>1. 0 \in 0 .. m
      BY ONLY m \in Nat, SMT
    <3> QED BY ONLY <2>1, <2>5, <3>1, Zenon
  <2>7. ASSUME NEW i \in 1 .. m + 1 PROVE g[i] = step[i][g[i - 1]]
    <3>1. CASE i = m + 1
      <4>1. i - 1 = m /\ m \in 0 .. m
        BY <3>1
      <4>2. g[i] = x /\ g[i - 1] = f[m]
        BY ONLY <2>5, <3>1, <4>1, Zenon
      <4> QED BY ONLY <4>1, <4>2, <3>1, Zenon DEF x
    <3>2. CASE i # m + 1
      <4>1. i \in 1 .. m /\ i \in 0 .. m /\ i - 1 \in 0 .. m
        BY <3>2
      <4> QED BY ONLY <2>1, <2>5, <4>1, Zenon
    <3> QED BY <3>1, <3>2
  <2>8. Runs(g, m + 1)
    BY ONLY <2>4, <2>6, <2>7, Zenon
  <2> HIDE DEF Runs
  <2> QED BY <2>8
<1>3. Nat \subseteq T
  <2> HIDE DEF T
  <2> QED BY <1>1, <1>2, Counting
<1>4. n \in Nat /\ n <= n
  OBVIOUS
<1>5. \E f : Runs(f, n)
  BY <1>3, <1>4
<1> QED BY ONLY <1>5, Zenon DEF Loops

Chars == Nat \cup Marks

LEMMA CharsAre ==
  /\ \A c \in Nat : IsNumber(c) /\ c # Dot /\ c # Colon /\ c # LeftBracket /\ c # RightBracket
  /\ \A c \in Chars : IsNumber(c) => c \in Nat
  /\ Dot # Colon /\ LeftBracket # Dot /\ LeftBracket # Colon /\ RightBracket # Colon
  /\ ~IsNumber(Dot) /\ ~IsNumber(Colon) /\ ~IsNumber(LeftBracket)
  /\ Dot \in Chars /\ Colon \in Chars
<1>1. \A c \in Nat : c \notin Marks
  <2>1. \A c \in Nat : c \in Int
    OBVIOUS
  <2>2. Marks \cap Int = {}
    BY ONLY AddressesAssumption, Zenon
  <2>3. \A c \in Int : c \in Marks => c \in Marks \cap Int
    BY ONLY Zenon
  <2> QED BY ONLY <2>1, <2>2, <2>3, Zenon
<1>2. /\ Dot # Colon /\ LeftBracket # Dot /\ LeftBracket # Colon
      /\ RightBracket # Colon /\ Dot \in Marks /\ Colon \in Marks /\ LeftBracket \in Marks
      /\ RightBracket \in Marks
  <2>1. /\ Dot # Colon /\ LeftBracket \notin {Dot, Colon}
        /\ {RightBracket, Bad} \cap {Dot, Colon, LeftBracket} = {}
    BY ONLY AddressesAssumption, Zenon
  <2>2. RightBracket = Colon => Colon \in {RightBracket, Bad} \cap {Dot, Colon, LeftBracket}
    BY ONLY Zenon
  <2> QED BY ONLY <2>1, <2>2, Zenon DEF Marks
<1>3. \A c : IsNumber(c) <=> c \notin Marks
  BY ONLY Zenon DEF IsNumber
<1> QED BY ONLY <1>1, <1>2, <1>3, Zenon DEF Chars

-----------------------------------------------------------------------------
(* IPv4::Parse.                                                            *)

V4States == [addr : [1..4 -> Bytes], part : Bytes, dots : Nat, good : BOOLEAN]
V4Start == [addr |-> <<0, 0, 0, 0>>, part |-> 0, dots |-> 0, good |-> TRUE]

ReadsV4(t, f) ==
  /\ f \in [0 .. Len(t) -> V4States]
  /\ f[0] = V4Start /\ \A i \in 1 .. Len(t) : f[i] = ReadV4(f[i - 1], t[i])

LEMMA FourBytes ==
  ASSUME NEW B, NEW a \in B, NEW b \in B, NEW c \in B, NEW d \in B
  PROVE  <<a, b, c, d>> \in [1..4 -> B]
OBVIOUS

LEMMA ReadV4Type ==
  ASSUME NEW s \in V4States, NEW c \in Chars
  PROVE  ReadV4(s, c) \in V4States
<1>1. /\ s = [addr |-> s.addr, part |-> s.part, dots |-> s.dots, good |-> s.good]
      /\ s.addr \in [1..4 -> Bytes] /\ s.part \in Bytes /\ s.dots \in Nat /\ s.good \in BOOLEAN
  BY DEF V4States
<1>2. 0 \in Bytes /\ \A n \in Nat : n % 256 \in Bytes
  BY SMT DEF Bytes
<1>3. \A a \in [1..4 -> Bytes], p \in Bytes, d \in Nat, q \in BOOLEAN :
        [addr |-> a, part |-> p, dots |-> d, good |-> q] \in V4States
  BY DEF V4States
<1>4. CASE c = Dot
  <2>1. s.addr[2] \in Bytes /\ s.addr[3] \in Bytes /\ s.addr[4] \in Bytes
    <3>1. 2 \in 1..4 /\ 3 \in 1..4 /\ 4 \in 1..4
      OBVIOUS
    <3> QED BY ONLY <1>1, <3>1, Zenon
  <2>2. <<s.addr[2], s.addr[3], s.addr[4], s.part>> \in [1..4 -> Bytes]
    BY ONLY <1>1, <2>1, FourBytes, Zenon
  <2>3. s.dots + 1 \in Nat /\ (s.good /\ s.dots < 3) \in BOOLEAN
    BY ONLY <1>1, SMT
  <2> QED BY ONLY <1>2, <1>3, <1>4, <2>2, <2>3, Zenon DEF ReadV4
<1>5. CASE c # Dot
  <2> DEFINE p == IF IsNumber(c) THEN c % 256 ELSE 0
             q == s.good /\ IsNumber(c)
  <2>1. p \in Bytes
    BY ONLY <1>2, CharsAre, c \in Chars, Zenon
  <2>2. q \in BOOLEAN
    BY ONLY <1>1, Zenon
  <2>3. ReadV4(s, c) = [addr |-> s.addr, part |-> p, dots |-> s.dots, good |-> q]
    BY ONLY <1>5, Zenon DEF ReadV4
  <2> HIDE DEF p, q
  <2> QED BY ONLY <1>1, <1>3, <2>1, <2>2, <2>3, Zenon
<1> QED BY <1>4, <1>5

LEMMA ParseV4Is ==
  ASSUME NEW t \in Seq(Chars)
  PROVE  \E f : /\ ReadsV4(t, f)
                /\ ParseV4(t) = IF f[Len(t)].good /\ f[Len(t)].dots = 3
                                THEN [version |-> 4, addr |-> f[Len(t)].addr] ELSE None
<1> DEFINE n == Len(t)
           step == [i \in 1 .. n |-> [s \in V4States |-> ReadV4(s, t[i])]]
           g == CHOOSE g : g = [i \in 0 .. n |-> IF i = 0 THEN V4Start ELSE ReadV4(g[i - 1], t[i])]
<1>1. n \in Nat /\ \A i \in 1 .. n : t[i] \in Chars
  OBVIOUS
<1>2. V4Start \in V4States
  <2>1. 0 \in Bytes
    BY SMT DEF Bytes
  <2>2. <<0, 0, 0, 0>> \in [1..4 -> Bytes]
    BY ONLY <2>1, FourBytes, Zenon
  <2> QED BY ONLY <2>1, <2>2, SMT DEF V4Start, V4States
<1> HIDE DEF n
<1>3. \A i \in 1 .. n : \A s \in V4States : ReadV4(s, t[i]) \in V4States
  BY ONLY <1>1, ReadV4Type, Zenon
<1>4. step \in [1 .. n -> [V4States -> V4States]]
  BY ONLY <1>3, Zenon
<1>5. PICK f : Loops(f, n, V4States, V4Start, step)
  <2> HIDE DEF step
  <2> QED BY ONLY <1>1, <1>2, <1>4, LoopExists, Zenon
<1>5a. f \in [0 .. n -> V4States] /\ f[0] = V4Start /\ \A i \in 1 .. n : f[i] = step[i][f[i - 1]]
  BY ONLY <1>5, Zenon DEF Loops
<1>6. ASSUME NEW i \in 1 .. n PROVE f[i] = ReadV4(f[i - 1], t[i])
  <2>1. i - 1 \in 0 .. n
    BY ONLY <1>1, i \in 1 .. n, SMT
  <2>2. f[i - 1] \in V4States
    BY ONLY <2>1, <1>5a, Zenon
  <2> QED BY ONLY <1>5a, <2>2, i \in 1 .. n, Zenon
<1>7. f = [i \in 0 .. n |-> IF i = 0 THEN V4Start ELSE ReadV4(f[i - 1], t[i])]
  <2>1. ASSUME NEW i \in 0 .. n PROVE f[i] = IF i = 0 THEN V4Start ELSE ReadV4(f[i - 1], t[i])
    <3>1. i # 0 => i \in 1 .. n
      BY ONLY <1>1, i \in 0 .. n, SMT
    <3> QED BY ONLY <1>5a, <1>6, <3>1, Zenon
  <2>2. f = [i \in 0 .. n |-> f[i]]
    BY ONLY <1>5a, Zenon
  <2> QED BY ONLY <2>1, <2>2, Zenon
<1>8. g = [i \in 0 .. n |-> IF i = 0 THEN V4Start ELSE ReadV4(g[i - 1], t[i])]
  BY ONLY <1>7, Zenon
<1>9. ParseV4(t) = IF g[n].good /\ g[n].dots = 3 THEN [version |-> 4, addr |-> g[n].addr] ELSE None
  BY ONLY Zenon DEF ParseV4, V4Start, n
<1> HIDE DEF g, step
<1>10. g[0] = V4Start /\ \A i \in 1 .. n : g[i] = ReadV4(g[i - 1], t[i])
  <2>1. 0 \in 0 .. n /\ \A i \in 1 .. n : i \in 0 .. n /\ i # 0
    BY ONLY <1>1, SMT
  <2> QED BY ONLY <1>8, <2>1, Zenon
<1>11. \A i \in 0 .. n : g[i] \in V4States
  <2> DEFINE T == {m \in Nat : m <= n => g[m] \in V4States}
  <2>1. 0 \in T
    BY ONLY <1>2, <1>10, Zenon
  <2>2. ASSUME NEW m \in Nat, m \in T PROVE m + 1 \in T
    <3> SUFFICES ASSUME m + 1 <= n PROVE g[m + 1] \in V4States
      OBVIOUS
    <3>1. m <= n /\ m + 1 \in 1 .. n /\ (m + 1) - 1 = m
      BY ONLY <1>1, m \in Nat, m + 1 <= n, SMT
    <3> QED BY ONLY <1>3, <1>10, <2>2, <3>1, Zenon
  <2>3. Nat \subseteq T
    <3> HIDE DEF T
    <3> QED BY ONLY <2>1, <2>2, Counting, Zenon
  <2> QED BY ONLY <1>1, <2>3, SMT
<1>12. g \in [0 .. n -> V4States]
  BY ONLY <1>8, <1>11, Zenon
<1>13. ReadsV4(t, g)
  BY ONLY <1>10, <1>12, Zenon DEF ReadsV4, n
<1> QED BY ONLY <1>9, <1>13, Zenon DEF n

Reading(a, p, d) == [addr |-> a, part |-> p, dots |-> d, good |-> TRUE]

LEMMA ReadByte ==
  ASSUME NEW a, NEW p, NEW d, NEW c \in Bytes, NEW s,
         s = Reading(a, p, d)
  PROVE  ReadV4(s, c) = Reading(a, c, d)
<1>1. c \in Nat /\ c % 256 = c
  BY SMT DEF Bytes
<1>2. c # Dot /\ IsNumber(c)
  BY ONLY CharsAre, <1>1, Zenon
<1>3. s.addr = a /\ s.dots = d /\ s.good = TRUE
  BY DEF Reading
<1>4. ReadV4(s, c) = Reading(s.addr, c, s.dots)
  BY ONLY <1>1, <1>2, <1>3, Zenon DEF ReadV4, Reading
<1> QED BY ONLY <1>3, <1>4, Zenon DEF Reading

LEMMA ReadDot ==
  ASSUME NEW w, NEW x, NEW y, NEW z, NEW p, NEW d \in 0..2, NEW e, e = d + 1, NEW s,
         s = Reading(<<w, x, y, z>>, p, d)
  PROVE  ReadV4(s, Dot) = Reading(<<x, y, z, p>>, 0, e)
<1>1. /\ s.addr[2] = x /\ s.addr[3] = y /\ s.addr[4] = z /\ s.part = p /\ s.dots = d /\ d + 1 = e
      /\ (s.good /\ s.dots < 3) = TRUE
  BY SMT DEF Reading
<1>2. ReadV4(s, Dot) = [addr |-> <<s.addr[2], s.addr[3], s.addr[4], s.part>>, part |-> 0,
                        dots |-> s.dots + 1, good |-> s.good /\ s.dots < 3]
  BY ONLY Zenon DEF ReadV4
<1> QED BY ONLY <1>1, <1>2, Zenon DEF Reading

LEMMA MeaningV4Is ==
  ASSUME NEW t \in Seq(Chars), MeaningV4(t) # None
  PROVE  /\ Len(t) = 7
         /\ t[1] \in Bytes /\ t[3] \in Bytes /\ t[5] \in Bytes /\ t[7] \in Bytes
         /\ t[2] = Dot /\ t[4] = Dot /\ t[6] = Dot
         /\ MeaningV4(t) = [version |-> 4, addr |-> <<t[1], t[3], t[5], t[7]>>]
<1>1. Len(t) = 7 /\ \A i \in 1..7 : IF i % 2 = 1 THEN t[i] \in Bytes ELSE t[i] = Dot
  BY ONLY MeaningV4(t) # None, Zenon DEF MeaningV4
<1>2. t[1] \in Bytes /\ t[3] \in Bytes /\ t[5] \in Bytes /\ t[7] \in Bytes
      /\ t[2] = Dot /\ t[4] = Dot /\ t[6] = Dot
  BY ONLY <1>1, SMT
<1>3. MeaningV4(t) = [version |-> 4, addr |-> [i \in 1..4 |-> t[2 * i - 1]]]
  BY ONLY MeaningV4(t) # None, Zenon DEF MeaningV4
<1>4. [i \in 1..4 |-> t[2 * i - 1]] = <<t[1], t[3], t[5], t[7]>>
  <2> DEFINE l == [i \in 1..4 |-> t[2 * i - 1]]
  <2>1. l[1] = t[1] /\ l[2] = t[3] /\ l[3] = t[5] /\ l[4] = t[7]
    BY SMT
  <2>2. l = [i \in 1..4 |-> l[i]]
    BY Zenon
  <2> HIDE DEF l
  <2>3. l = <<l[1], l[2], l[3], l[4]>>
    BY ONLY <2>2, SMT
  <2> QED BY ONLY <2>1, <2>3, Zenon DEF l
<1> QED BY ONLY <1>1, <1>2, <1>3, <1>4, Zenon

LEMMA ParsesV4 ==
  ASSUME NEW t \in Seq(Chars), MeaningV4(t) # None
  PROVE  ParseV4(t) = [version |-> 4, addr |-> <<0, t[1], t[3], t[5]>>] /\ ParseV4(t) \in IPs
<1>1. PICK f : /\ ReadsV4(t, f)
               /\ ParseV4(t) = IF f[Len(t)].good /\ f[Len(t)].dots = 3
                               THEN [version |-> 4, addr |-> f[Len(t)].addr] ELSE None
  BY ONLY t \in Seq(Chars), ParseV4Is, Zenon
<1>2. /\ Len(t) = 7
      /\ t[1] \in Bytes /\ t[3] \in Bytes /\ t[5] \in Bytes /\ t[7] \in Bytes
      /\ t[2] = Dot /\ t[4] = Dot /\ t[6] = Dot
  BY ONLY t \in Seq(Chars), MeaningV4(t) # None, MeaningV4Is, Zenon
<1>3. f[0] = V4Start /\ \A i \in 1..7 : f[i] = ReadV4(f[i - 1], t[i])
  BY ONLY <1>1, <1>2, Zenon DEF ReadsV4
<1>4. /\ f[1] = ReadV4(f[0], t[1]) /\ f[2] = ReadV4(f[1], t[2]) /\ f[3] = ReadV4(f[2], t[3])
      /\ f[4] = ReadV4(f[3], t[4]) /\ f[5] = ReadV4(f[4], t[5]) /\ f[6] = ReadV4(f[5], t[6])
      /\ f[7] = ReadV4(f[6], t[7])
  BY ONLY <1>3, SMT
<1>5. 0 \in 0..2 /\ 1 \in 0..2 /\ 2 \in 0..2 /\ 0 + 1 = 1 /\ 1 + 1 = 2 /\ 2 + 1 = 3
  OBVIOUS
<1>5a. f[0] = Reading(<<0, 0, 0, 0>>, 0, 0)
  BY ONLY <1>3, Zenon DEF V4Start, Reading
<1>6. f[1] = Reading(<<0, 0, 0, 0>>, t[1], 0)
  <2>1. ReadV4(f[0], t[1]) = Reading(<<0, 0, 0, 0>>, t[1], 0)
    BY ONLY <1>2, <1>5a, ReadByte
  <2> QED BY ONLY <1>4, <2>1, Zenon
<1>7. f[2] = Reading(<<0, 0, 0, t[1]>>, 0, 1)
  <2>1. ReadV4(f[1], Dot) = Reading(<<0, 0, 0, t[1]>>, 0, 1)
    BY ONLY <1>5, <1>6, ReadDot
  <2> QED BY ONLY <1>2, <1>4, <2>1, Zenon
<1>8. f[3] = Reading(<<0, 0, 0, t[1]>>, t[3], 1)
  <2>1. ReadV4(f[2], t[3]) = Reading(<<0, 0, 0, t[1]>>, t[3], 1)
    BY ONLY <1>2, <1>7, ReadByte
  <2> QED BY ONLY <1>4, <2>1, Zenon
<1>9. f[4] = Reading(<<0, 0, t[1], t[3]>>, 0, 2)
  <2>1. ReadV4(f[3], Dot) = Reading(<<0, 0, t[1], t[3]>>, 0, 2)
    BY ONLY <1>5, <1>8, ReadDot
  <2> QED BY ONLY <1>2, <1>4, <2>1, Zenon
<1>10. f[5] = Reading(<<0, 0, t[1], t[3]>>, t[5], 2)
  <2>1. ReadV4(f[4], t[5]) = Reading(<<0, 0, t[1], t[3]>>, t[5], 2)
    BY ONLY <1>2, <1>9, ReadByte
  <2> QED BY ONLY <1>4, <2>1, Zenon
<1>11. f[6] = Reading(<<0, t[1], t[3], t[5]>>, 0, 3)
  <2>1. ReadV4(f[5], Dot) = Reading(<<0, t[1], t[3], t[5]>>, 0, 3)
    BY ONLY <1>5, <1>10, ReadDot
  <2> QED BY ONLY <1>2, <1>4, <2>1, Zenon
<1>12. f[7] = Reading(<<0, t[1], t[3], t[5]>>, t[7], 3)
  <2>1. ReadV4(f[6], t[7]) = Reading(<<0, t[1], t[3], t[5]>>, t[7], 3)
    BY ONLY <1>2, <1>11, ReadByte
  <2> QED BY ONLY <1>4, <2>1, Zenon
<1>13. f[7].good = TRUE /\ f[7].dots = 3 /\ f[7].addr = <<0, t[1], t[3], t[5]>>
  BY ONLY <1>12 DEF Reading
<1>14. ParseV4(t) = [version |-> 4, addr |-> <<0, t[1], t[3], t[5]>>]
  BY ONLY <1>1, <1>2, <1>13, Zenon
<1>15. <<0, t[1], t[3], t[5]>> \in [1..4 -> Bytes]
  <2>1. 0 \in Bytes
    BY SMT DEF Bytes
  <2> QED BY ONLY <1>2, <2>1, FourBytes, Zenon
<1> QED BY ONLY <1>14, <1>15, SMT DEF IPs

\* How many of the first i characters are c.
UpTo(t, c, i) == {j \in 1 .. i : t[j] = c}

LEMMA UpToGrows ==
  ASSUME NEW t, NEW c, NEW i \in Nat
  PROVE  /\ UpTo(t, c, 0) = {}
         /\ t[i + 1] = c => UpTo(t, c, i + 1) = UpTo(t, c, i) \cup {i + 1}
         /\ t[i + 1] # c => UpTo(t, c, i + 1) = UpTo(t, c, i)
         /\ i + 1 \notin UpTo(t, c, i)
         /\ IsFiniteSet(UpTo(t, c, i))
<1>1. 1 .. 0 = {} /\ 1 .. i + 1 = (1 .. i) \cup {i + 1} /\ i + 1 \notin 1 .. i
  BY SMT
<1>2. IsFiniteSet(1 .. i)
  BY FS_Interval
<1>3. UpTo(t, c, i) \in SUBSET (1 .. i)
  BY ONLY Zenon DEF UpTo
<1> QED BY <1>1, <1>2, <1>3, FS_Subset, Zenon DEF UpTo

LEMMA UpToCounts ==
  ASSUME NEW t, NEW c, NEW i \in Nat
  PROVE  /\ Cardinality(UpTo(t, c, i)) \in Nat
         /\ t[i + 1] = c => Cardinality(UpTo(t, c, i + 1)) = Cardinality(UpTo(t, c, i)) + 1
         /\ t[i + 1] # c => Cardinality(UpTo(t, c, i + 1)) = Cardinality(UpTo(t, c, i))
         /\ Cardinality(UpTo(t, c, 0)) = 0
<1>1. Cardinality({}) = 0
  BY FS_EmptySet, Zenon
<1>2. \A S, x : IsFiniteSet(S) /\ x \notin S => Cardinality(S \cup {x}) = Cardinality(S) + 1
  BY FS_AddElement
<1>3. \A S : IsFiniteSet(S) => Cardinality(S) \in Nat
  BY FS_CardinalityType
<1>4. /\ UpTo(t, c, 0) = {} /\ IsFiniteSet(UpTo(t, c, i)) /\ i + 1 \notin UpTo(t, c, i)
      /\ t[i + 1] = c => UpTo(t, c, i + 1) = UpTo(t, c, i) \cup {i + 1}
      /\ t[i + 1] # c => UpTo(t, c, i + 1) = UpTo(t, c, i)
  BY ONLY UpToGrows, i \in Nat, SMT
<1>5. t[i + 1] = c => Cardinality(UpTo(t, c, i + 1)) = Cardinality(UpTo(t, c, i)) + 1
  BY ONLY <1>2, <1>4, Zenon
<1> QED BY ONLY <1>1, <1>3, <1>4, <1>5, Zenon

LEMMA RefusesV4 ==
  ASSUME NEW t \in Seq(Chars), ParseV4(t) # None
  PROVE  /\ ParseV4(t).version = 4
         /\ \A i \in DOMAIN t : IsNumber(t[i]) \/ t[i] = Dot
         /\ Cardinality(Indices(t, Dot)) = 3
<1> DEFINE n == Len(t)
<1>1. PICK f : /\ ReadsV4(t, f)
               /\ ParseV4(t) = IF f[n].good /\ f[n].dots = 3
                               THEN [version |-> 4, addr |-> f[n].addr] ELSE None
  BY ONLY t \in Seq(Chars), ParseV4Is, Zenon
<1>2. /\ f[n].good /\ f[n].dots = 3 /\ ParseV4(t) = [version |-> 4, addr |-> f[n].addr]
  BY ONLY <1>1, ParseV4(t) # None, Zenon
<1>3. f[0] = V4Start /\ (\A i \in 1 .. n : f[i] = ReadV4(f[i - 1], t[i])) /\ n \in Nat /\ DOMAIN t = 1 .. n
  BY ONLY <1>1, t \in Seq(Chars), SMT DEF ReadsV4
<1> HIDE DEF n
<1> DEFINE Good(i) == /\ f[i].good => \A j \in 1 .. i : IsNumber(t[j]) \/ t[j] = Dot
                      /\ f[i].dots = Cardinality(UpTo(t, Dot, i))
           T == {m \in Nat : m <= n => Good(m)}
<1>4. 0 \in T
  <2>1. f[0].dots = 0
    BY ONLY <1>3 DEF V4Start
  <2>2. 1 .. 0 = {}
    OBVIOUS
  <2>3. 0 \in Nat
    OBVIOUS
  <2> QED BY ONLY <2>1, <2>2, <2>3, UpToCounts, Zenon
<1>5. ASSUME NEW m \in Nat, m \in T PROVE m + 1 \in T
  <2> SUFFICES ASSUME m + 1 <= n PROVE Good(m + 1)
    OBVIOUS
  <2>1. m <= n /\ m + 1 \in 1 .. n /\ (m + 1) - 1 = m /\ 1 .. m + 1 = (1 .. m) \cup {m + 1}
    BY ONLY <1>3, m \in Nat, m + 1 <= n, SMT
  <2>2. f[m + 1] = ReadV4(f[m], t[m + 1]) /\ Good(m)
    BY ONLY <1>3, <1>5, <2>1, Zenon
  <2>3. CASE t[m + 1] = Dot
    <3>1. f[m + 1].dots = f[m].dots + 1 /\ f[m + 1].good = (f[m].good /\ f[m].dots < 3)
      BY ONLY <2>2, <2>3 DEF ReadV4
    <3>2. Cardinality(UpTo(t, Dot, m + 1)) = Cardinality(UpTo(t, Dot, m)) + 1
      BY ONLY <2>3, m \in Nat, UpToCounts, Zenon
    <3>3. f[m + 1].dots = Cardinality(UpTo(t, Dot, m + 1))
      BY ONLY <2>2, <3>1, <3>2, Zenon
    <3> QED BY ONLY <2>1, <2>2, <2>3, <3>1, <3>3, Zenon
  <2>4. CASE t[m + 1] # Dot
    <3>1. f[m + 1].dots = f[m].dots /\ f[m + 1].good = (f[m].good /\ IsNumber(t[m + 1]))
      BY ONLY <2>2, <2>4 DEF ReadV4
    <3> QED BY ONLY <2>1, <2>2, <2>4, <3>1, m \in Nat, UpToCounts, Zenon
  <2> QED BY <2>3, <2>4
<1>6. Nat \subseteq T
  <2> HIDE DEF T
  <2> QED BY ONLY <1>4, <1>5, Counting, Zenon
<1>7. Good(n)
  <2>1. n <= n
    BY ONLY <1>3, SMT
  <2> QED BY ONLY <1>3, <1>6, <2>1, Zenon
<1>8. UpTo(t, Dot, n) = Indices(t, Dot)
  BY ONLY <1>3, Zenon DEF UpTo, Indices
<1>9. ParseV4(t).version = 4
  BY ONLY <1>2
<1> QED BY ONLY <1>2, <1>3, <1>7, <1>8, <1>9, Zenon

-----------------------------------------------------------------------------
(* IPv6::Parse: the loop over the text.                                    *)

V6States == [addr : Seq(Bytes), compress : Int, colon : BOOLEAN, good : BOOLEAN]
V6Start == [addr |-> <<>>, compress |-> -1, colon |-> FALSE, good |-> TRUE]

ReadsV6(t, f) ==
  /\ f \in [0 .. Len(t) -> V6States]
  /\ f[0] = V6Start /\ \A i \in 1 .. Len(t) : f[i] = ReadV6(f[i - 1], t[i])

\* (An interval of numbers that large must stay folded.)
From0(m) == 0 .. m

LEMMA ShortsAre ==
  /\ \A n \in Shorts : n \in Nat /\ n <= 65535
  /\ \A n \in Int : 0 <= n /\ n <= 65535 => n \in Shorts
<1>1. Shorts = From0(65535)
  BY ONLY SMT DEF Shorts, From0
<1>2. ASSUME NEW m \in Int PROVE \A n \in From0(m) : n \in Nat /\ n <= m
  BY ONLY m \in Int, SMT DEF From0
<1>3. ASSUME NEW m \in Int, NEW n \in Int, 0 <= n, n <= m PROVE n \in From0(m)
  BY ONLY m \in Int, n \in Int, 0 <= n, n <= m, SMT DEF From0
<1>4. 65535 \in Int
  BY ONLY SMT
<1>5. \A n \in Shorts : n \in Nat /\ n <= 65535
  BY ONLY <1>1, <1>2, <1>4, SMT
<1>6. \A n \in Int : 0 <= n /\ n <= 65535 => n \in Shorts
  BY ONLY <1>1, <1>3, <1>4, SMT
<1> QED BY ONLY <1>5, <1>6, SMT

LEMMA WordType ==
  ASSUME NEW n \in Shorts
  PROVE  /\ Word(n) \in Seq(Bytes) /\ Len(Word(n)) = 2
         /\ Word(n)[1] \in Bytes /\ Word(n)[2] \in Bytes
         /\ n \in Nat
<1>1. n \in Nat /\ n <= 65535
  BY ONLY n \in Shorts, ShortsAre
<1>2. n \div 256 <= 255 /\ n \div 256 >= 0 /\ n \div 256 \in Int
  BY ONLY <1>1, SMT
<1>3. n \div 256 \in Bytes /\ n % 256 \in Bytes
  BY ONLY <1>1, <1>2, SMT DEF Bytes
<1> DEFINE a == n \div 256
           b == n % 256
<1> HIDE DEF a, b
<1>4. a \in Bytes /\ b \in Bytes
  BY ONLY <1>3, Zenon DEF a, b
<1>5. <<a, b>> \in Seq(Bytes) /\ Len(<<a, b>>) = 2 /\ <<a, b>>[1] = a /\ <<a, b>>[2] = b
  BY ONLY <1>4
<1>6. n \in Nat
  BY ONLY <1>1, SMT
<1>7. Word(n) = <<a, b>>
  BY ONLY Zenon DEF Word, a, b
<1> QED BY ONLY <1>4, <1>5, <1>6, <1>7, Zenon

LEMMA ReadV6Type ==
  ASSUME NEW s \in V6States, NEW c
  PROVE  ReadV6(s, c) \in V6States
<1>1. s.addr \in Seq(Bytes) /\ s.compress \in Int /\ s.good \in BOOLEAN
  BY DEF V6States
<1>2. Len(s.addr) \in Int
  BY <1>1
<1>3. \A a \in Seq(Bytes), d \in Int, p \in BOOLEAN, q \in BOOLEAN :
        [addr |-> a, compress |-> d, colon |-> p, good |-> q] \in V6States
  BY DEF V6States
<1>4. c \in Shorts => s.addr \o Word(c) \in Seq(Bytes)
  <2> SUFFICES ASSUME c \in Shorts PROVE s.addr \o Word(c) \in Seq(Bytes)
    OBVIOUS
  <2>1. Word(c) \in Seq(Bytes)
    BY WordType, Zenon
  <2> QED BY ONLY <1>1, <2>1
<1>5. FALSE \in BOOLEAN /\ TRUE \in BOOLEAN /\ \A q \in BOOLEAN : \A x, y, z : (q /\ x = y) \in BOOLEAN /\ (q /\ x < z) \in BOOLEAN
  OBVIOUS
<1>6. CASE c = Colon /\ s.colon
  BY ONLY <1>1, <1>2, <1>3, <1>5, <1>6, Zenon DEF ReadV6
<1>7. CASE c = Colon /\ ~s.colon
  BY ONLY <1>1, <1>3, <1>5, <1>7, Zenon DEF ReadV6
<1>8. CASE c # Colon /\ c \in Shorts
  BY ONLY <1>1, <1>3, <1>4, <1>5, <1>8, Zenon DEF ReadV6
<1>9. CASE c # Colon /\ c \notin Shorts
  BY ONLY <1>1, <1>3, <1>5, <1>9, Zenon DEF ReadV6
<1> QED BY <1>6, <1>7, <1>8, <1>9

LEMMA ParseV6Is ==
  ASSUME NEW t \in Seq(Chars)
  PROVE  \E f : /\ ReadsV6(t, f)
                /\ ParseV6(t) =
                     IF ~f[Len(t)].good THEN None
                     ELSE IF f[Len(t)].compress # -1
                       THEN [version |-> 6, addr |-> Decompress(f[Len(t)].addr, f[Len(t)].compress)]
                     ELSE IF Len(f[Len(t)].addr) = 16 THEN [version |-> 6, addr |-> f[Len(t)].addr]
                     ELSE None
<1> DEFINE n == Len(t)
           step == [i \in 1 .. n |-> [s \in V6States |-> ReadV6(s, t[i])]]
           g == CHOOSE g : g = [i \in 0 .. n |-> IF i = 0 THEN V6Start ELSE ReadV6(g[i - 1], t[i])]
<1>1. n \in Nat
  OBVIOUS
<1>2. V6Start \in V6States
  <2>1. <<>> \in Seq(Bytes) /\ -1 \in Int
    OBVIOUS
  <2> QED BY ONLY <2>1, SMT DEF V6Start, V6States
<1> HIDE DEF n
<1>3. \A i \in 1 .. n : \A s \in V6States : ReadV6(s, t[i]) \in V6States
  BY ONLY ReadV6Type, Zenon
<1>4. step \in [1 .. n -> [V6States -> V6States]]
  BY ONLY <1>3, Zenon
<1>5. PICK f : Loops(f, n, V6States, V6Start, step)
  <2> HIDE DEF step
  <2> QED BY ONLY <1>1, <1>2, <1>4, LoopExists, Zenon
<1>5a. f \in [0 .. n -> V6States] /\ f[0] = V6Start /\ \A i \in 1 .. n : f[i] = step[i][f[i - 1]]
  BY ONLY <1>5, Zenon DEF Loops
<1>6. ASSUME NEW i \in 1 .. n PROVE f[i] = ReadV6(f[i - 1], t[i])
  <2>1. i - 1 \in 0 .. n
    BY ONLY <1>1, i \in 1 .. n, SMT
  <2>2. f[i - 1] \in V6States
    BY ONLY <2>1, <1>5a, Zenon
  <2> QED BY ONLY <1>5a, <2>2, i \in 1 .. n, Zenon
<1>7. f = [i \in 0 .. n |-> IF i = 0 THEN V6Start ELSE ReadV6(f[i - 1], t[i])]
  <2>1. ASSUME NEW i \in 0 .. n PROVE f[i] = IF i = 0 THEN V6Start ELSE ReadV6(f[i - 1], t[i])
    <3>1. i # 0 => i \in 1 .. n
      BY ONLY <1>1, i \in 0 .. n, SMT
    <3> QED BY ONLY <1>5a, <1>6, <3>1, Zenon
  <2>2. f = [i \in 0 .. n |-> f[i]]
    BY ONLY <1>5a, Zenon
  <2> QED BY ONLY <2>1, <2>2, Zenon
<1>8. g = [i \in 0 .. n |-> IF i = 0 THEN V6Start ELSE ReadV6(g[i - 1], t[i])]
  BY ONLY <1>7, Zenon
<1>9. ParseV6(t) =
        IF ~g[n].good THEN None
        ELSE IF g[n].compress # -1
          THEN [version |-> 6, addr |-> Decompress(g[n].addr, g[n].compress)]
        ELSE IF Len(g[n].addr) = 16 THEN [version |-> 6, addr |-> g[n].addr]
        ELSE None
  BY ONLY Zenon DEF ParseV6, V6Start, n
<1> HIDE DEF g, step
<1>10. g[0] = V6Start /\ \A i \in 1 .. n : g[i] = ReadV6(g[i - 1], t[i])
  <2>1. 0 \in 0 .. n /\ \A i \in 1 .. n : i \in 0 .. n /\ i # 0
    BY ONLY <1>1, SMT
  <2> QED BY ONLY <1>8, <2>1, Zenon
<1>11. \A i \in 0 .. n : g[i] \in V6States
  <2> DEFINE T == {m \in Nat : m <= n => g[m] \in V6States}
  <2>1. 0 \in T
    BY ONLY <1>2, <1>10, Zenon
  <2>2. ASSUME NEW m \in Nat, m \in T PROVE m + 1 \in T
    <3> SUFFICES ASSUME m + 1 <= n PROVE g[m + 1] \in V6States
      OBVIOUS
    <3>1. m <= n /\ m + 1 \in 1 .. n /\ (m + 1) - 1 = m
      BY ONLY <1>1, m \in Nat, m + 1 <= n, SMT
    <3> QED BY ONLY <1>3, <1>10, <2>2, <3>1, Zenon
  <2>3. Nat \subseteq T
    <3> HIDE DEF T
    <3> QED BY ONLY <2>1, <2>2, Counting, Zenon
  <2> QED BY ONLY <1>1, <2>3, SMT
<1>12. g \in [0 .. n -> V6States]
  BY ONLY <1>8, <1>11, Zenon
<1>13. ReadsV6(t, g)
  BY ONLY <1>10, <1>12, Zenon DEF ReadsV6, n
<1> QED BY ONLY <1>9, <1>13, Zenon DEF n

\* What is known of a text of which i characters have been read, into s, and
\* none refused.  A "::" has been seen only where d is, or at d and d + 1.
Groups(t) == [j \in 1 .. Len(t) |-> t[j] # Colon]
WellRead(t, s, i, d) ==
  /\ \A j \in 1 .. i : t[j] = Colon \/ t[j] \in Shorts
  /\ Len(s.addr) = 2 * Cardinality(UpTo(Groups(t), TRUE, i)) /\ Len(s.addr) <= 16
  /\ s.colon => i > 0 /\ t[i] = Colon
  /\ \A j \in Doubles(t) : j < i => s.compress # -1 /\ (j = d \/ j = d + 1)
  /\ i > 0 /\ t[i] = Colon /\ ~s.colon => s.compress # -1 /\ i = d + 1

LEMMA StaysRefused ==
  ASSUME NEW s \in V6States, NEW c, ReadV6(s, c).good
  PROVE  s.good
<1>1. s.good \in BOOLEAN
  BY DEF V6States
<1>2. CASE c = Colon /\ s.colon
  <2>1. ReadV6(s, c).good = (s.good /\ s.compress = -1)
    BY ONLY <1>2 DEF ReadV6
  <2> QED BY ONLY <1>1, <2>1, ReadV6(s, c).good, Zenon
<1>3. CASE ~(c = Colon /\ s.colon) /\ (c = Colon \/ c \in Shorts)
  <2>1. ReadV6(s, c).good = (s.good /\ Len(s.addr) < 16)
    BY ONLY <1>3 DEF ReadV6
  <2> QED BY ONLY <1>1, <2>1, ReadV6(s, c).good, Zenon
<1>4. CASE c # Colon /\ c \notin Shorts
  <2>1. ReadV6(s, c).good = FALSE
    BY ONLY <1>4 DEF ReadV6
  <2> QED BY ONLY <2>1, ReadV6(s, c).good, Zenon
<1> QED BY ONLY <1>2, <1>3, <1>4, Zenon

LEMMA WellReadStep ==
  ASSUME NEW t \in Seq(Chars), NEW i \in Nat, i + 1 <= Len(t), NEW s \in V6States, NEW d \in Int,
         s.good, ReadV6(s, t[i + 1]).good, WellRead(t, s, i, d)
  PROVE  \E e \in Int : WellRead(t, ReadV6(s, t[i + 1]), i + 1, e)
<1> DEFINE c == t[i + 1]
           r == ReadV6(s, t[i + 1])
           n == Cardinality(UpTo(Groups(t), TRUE, i))
           m == Cardinality(UpTo(Groups(t), TRUE, i + 1))
<1>1. s.addr \in Seq(Bytes) /\ s.compress \in Int /\ s.good \in BOOLEAN /\ s.colon \in BOOLEAN
  BY DEF V6States
<1>2. Len(s.addr) \in Nat
  BY <1>1
<1>3. /\ n \in Nat /\ (c # Colon => m = n + 1) /\ (c = Colon => m = n)
  <2>1. Groups(t)[i + 1] = (c # Colon)
    BY DEF Groups
  <2> QED BY ONLY <2>1, UpToCounts, i \in Nat, Zenon
<1>4. \A j \in Doubles(t) : j < i + 1 => j < i \/ (j = i /\ i > 0 /\ t[i] = Colon /\ c = Colon)
  <2>1. ASSUME NEW j \in Doubles(t), j < i + 1 PROVE j < i \/ (j = i /\ i > 0 /\ t[i] = Colon /\ c = Colon)
    <3>1. j \in 1 .. Len(t) - 1 /\ t[j] = Colon /\ t[j + 1] = Colon
      BY ONLY j \in Doubles(t), Zenon DEF Doubles
    <3>2. Len(t) \in Nat
      OBVIOUS
    <3>3. j < i \/ j = i
      BY ONLY <3>1, <3>2, j < i + 1, i \in Nat, SMT
    <3>4. j > 0
      BY ONLY <3>1, <3>2, SMT
    <3>5. CASE j < i
      BY ONLY <3>5, Zenon
    <3>6. CASE j = i
      <4>1. t[i] = Colon /\ c = Colon /\ i > 0
        BY ONLY <3>1, <3>4, <3>6, Zenon
      <4> QED BY ONLY <3>6, <4>1, Zenon
    <3> QED BY ONLY <3>3, <3>5, <3>6, Zenon
  <2> QED BY ONLY <2>1, Zenon
<1>5. \A j \in 1 .. i + 1 : j \in 1 .. i \/ j = i + 1
  OBVIOUS
<1>6. /\ \A j \in 1 .. i : t[j] = Colon \/ t[j] \in Shorts
      /\ Len(s.addr) = 2 * n /\ Len(s.addr) <= 16
      /\ s.colon => i > 0 /\ t[i] = Colon
      /\ \A j \in Doubles(t) : j < i => s.compress # -1 /\ (j = d \/ j = d + 1)
      /\ i > 0 /\ t[i] = Colon /\ ~s.colon => s.compress # -1 /\ i = d + 1
  BY ONLY WellRead(t, s, i, d), Zenon DEF WellRead
<1>6a. i + 1 > 0 /\ i \in Int /\ 0 <= i
  OBVIOUS
<1>6b. r.good
  BY ONLY ReadV6(s, t[i + 1]).good, Zenon
<1> HIDE DEF n, m
<1>7. CASE c = Colon /\ s.colon
  <2>1. r = [addr |-> s.addr, compress |-> Len(s.addr), colon |-> FALSE, good |-> s.good /\ s.compress = -1]
    BY ONLY <1>7, Zenon DEF ReadV6
  <2>2. r.addr = s.addr /\ r.compress = Len(s.addr) /\ r.colon = FALSE /\ r.good = (s.good /\ s.compress = -1)
    BY ONLY <2>1
  <2> HIDE DEF r, c
  <2>3. s.good /\ s.compress = -1 /\ r.compress # -1
    <3>1. Len(s.addr) # -1
      BY ONLY <1>2, SMT
    <3> QED BY ONLY <3>1, <2>2, <1>6b, Zenon
  <2>4. \A j \in Doubles(t) : j < i + 1 => r.compress # -1 /\ (j = i \/ j = i + 1)
    BY ONLY <1>4, <1>6, <2>3, Zenon
  <2>5. \A j \in 1 .. i + 1 : t[j] = Colon \/ t[j] \in Shorts
    BY ONLY <1>5, <1>6, <1>7, Zenon DEF c
  <2>6. Len(r.addr) = 2 * m /\ Len(r.addr) <= 16
    BY ONLY <1>3, <1>6, <1>7, <2>2, Zenon
  <2>7. WellRead(t, r, i + 1, i)
    BY ONLY <2>2, <2>3, <2>4, <2>5, <2>6, Zenon DEF WellRead, m
  <2> QED BY ONLY <1>6a, <2>3, <2>7, Zenon DEF r
<1>8. CASE c = Colon /\ ~s.colon
  <2>1. r = [addr |-> s.addr, compress |-> s.compress, colon |-> TRUE, good |-> s.good /\ Len(s.addr) < 16]
    BY ONLY <1>8, Zenon DEF ReadV6
  <2>2. r.addr = s.addr /\ r.compress = s.compress /\ r.colon = TRUE /\ r.good = (s.good /\ Len(s.addr) < 16)
    BY ONLY <2>1
  <2> HIDE DEF r, c
  <2>3. s.good
    BY ONLY <2>2, <1>6b, Zenon
  <2>4. \A j \in Doubles(t) : j < i + 1 => r.compress # -1 /\ (j = d \/ j = d + 1)
    BY ONLY <1>4, <1>6, <1>8, <2>2, Zenon
  <2>5. \A j \in 1 .. i + 1 : t[j] = Colon \/ t[j] \in Shorts
    BY ONLY <1>5, <1>6, <1>8, Zenon DEF c
  <2>6. Len(r.addr) = 2 * m /\ Len(r.addr) <= 16
    BY ONLY <1>3, <1>6, <1>8, <2>2, Zenon
  <2>7. WellRead(t, r, i + 1, d)
    BY ONLY <1>6a, <1>8, <2>2, <2>3, <2>4, <2>5, <2>6, Zenon DEF WellRead, m, c
  <2> QED BY ONLY d \in Int, <2>3, <2>7, Zenon DEF r
<1>9. CASE c # Colon /\ c \in Shorts
  <2>1. r = [addr |-> s.addr \o Word(c), compress |-> s.compress, colon |-> FALSE, good |-> s.good /\ Len(s.addr) < 16]
    BY ONLY <1>9, Zenon DEF ReadV6
  <2>2. r.addr = s.addr \o Word(c) /\ r.compress = s.compress /\ r.colon = FALSE /\ r.good = (s.good /\ Len(s.addr) < 16)
    <3> DEFINE x == s.addr \o Word(c)
               y == s.good /\ Len(s.addr) < 16
    <3> HIDE DEF x, y, r
    <3>1. r = [addr |-> x, compress |-> s.compress, colon |-> FALSE, good |-> y]
      BY ONLY <2>1, Zenon DEF x, y
    <3>2. r.addr = x /\ r.compress = s.compress /\ r.colon = FALSE /\ r.good = y
      BY ONLY <3>1
    <3> QED BY ONLY <3>2, Zenon DEF x, y
  <2> HIDE DEF r, c
  <2>3. s.good /\ Len(s.addr) < 16
    BY ONLY <2>2, <1>6b, Zenon
  <2>4. \A j \in Doubles(t) : j < i + 1 => r.compress # -1 /\ (j = d \/ j = d + 1)
    BY ONLY <1>4, <1>6, <1>9, <2>2, Zenon
  <2>5. \A j \in 1 .. i + 1 : t[j] = Colon \/ t[j] \in Shorts
    BY ONLY <1>5, <1>6, <1>9, Zenon DEF c
  <2>6. Word(c) \in Seq(Bytes) /\ Len(Word(c)) = 2
    BY ONLY <1>9, WordType, Zenon
  <2>7. Len(r.addr) = Len(s.addr) + 2
    <3>1. \A x, y \in Seq(Bytes) : Len(x \o y) = Len(x) + Len(y)
      OBVIOUS
    <3> QED BY ONLY <1>1, <2>2, <2>6, <3>1, Zenon
  <2>8. Len(r.addr) = 2 * m /\ Len(r.addr) <= 16
    BY ONLY <1>2, <1>3, <1>6, <1>9, <2>3, <2>7, SMT
  <2>9. WellRead(t, r, i + 1, d)
    BY ONLY <1>6a, <1>9, <2>2, <2>3, <2>4, <2>5, <2>8, Zenon DEF WellRead, m, c
  <2> QED BY ONLY d \in Int, <2>3, <2>9, Zenon DEF r
<1>10. CASE c # Colon /\ c \notin Shorts
  <2>1. r = [addr |-> s.addr, compress |-> s.compress, colon |-> FALSE, good |-> FALSE]
    BY ONLY <1>10, Zenon DEF ReadV6
  <2>2. ~r.good
    BY ONLY <2>1
  <2> QED BY ONLY <2>2, ReadV6(s, t[i + 1]).good, Zenon
<1> QED BY ONLY <1>7, <1>8, <1>9, <1>10, Zenon

LEMMA RefusesV6 ==
  ASSUME NEW t \in Seq(Chars), ParseV6(t) # None
  PROVE  /\ ParseV6(t).version = 6
         /\ \A i \in DOMAIN t : t[i] = Colon \/ t[i] \in Shorts
         /\ Cardinality(DOMAIN t \ Indices(t, Colon)) <= 8
         /\ \A i, j \in Doubles(t) : i - j \in -1..1
<1> DEFINE n == Len(t)
<1>1. PICK f : /\ ReadsV6(t, f)
               /\ ParseV6(t) =
                    IF ~f[n].good THEN None
                    ELSE IF f[n].compress # -1
                      THEN [version |-> 6, addr |-> Decompress(f[n].addr, f[n].compress)]
                    ELSE IF Len(f[n].addr) = 16 THEN [version |-> 6, addr |-> f[n].addr]
                    ELSE None
  BY ONLY t \in Seq(Chars), ParseV6Is, Zenon
<1>2. f[n].good /\ \E a : ParseV6(t) = [version |-> 6, addr |-> a]
  BY ONLY <1>1, ParseV6(t) # None, Zenon
<1>3. n \in Nat /\ DOMAIN t = 1 .. n
  BY ONLY t \in Seq(Chars), SMT
<1>4. f \in [0 .. n -> V6States] /\ f[0] = V6Start /\ \A i \in 1 .. n : f[i] = ReadV6(f[i - 1], t[i])
  BY ONLY <1>1, Zenon DEF ReadsV6
<1> HIDE DEF n
<1> DEFINE Well(m) == f[m].good => \E d \in Int : WellRead(t, f[m], m, d)
           T == {m \in Nat : m <= n => Well(m)}
<1>5. 0 \in T
  <2>1. V6Start.addr = <<>> /\ V6Start.colon = FALSE /\ Len(<<>>) = 0
    BY DEF V6Start
  <2>2. Cardinality(UpTo(Groups(t), TRUE, 0)) = 0 /\ 0 \in Nat
    BY UpToCounts
  <2>3. WellRead(t, V6Start, 0, 0)
    <3>1. 1 .. 0 = {} /\ 0 = 2 * 0 /\ 0 <= 16 /\ ~(0 > 0)
      OBVIOUS
    <3>2. \A j \in Doubles(t) : ~(j < 0)
      BY ONLY <1>3, SMT DEF Doubles, n
    <3> QED BY ONLY <2>1, <2>2, <3>1, <3>2, Zenon DEF WellRead
  <2>4. 0 \in Int
    OBVIOUS
  <2> QED BY ONLY <1>4, <2>2, <2>3, <2>4, Zenon
<1>6. ASSUME NEW m \in Nat, m \in T PROVE m + 1 \in T
  <2> SUFFICES ASSUME m + 1 <= n PROVE Well(m + 1)
    OBVIOUS
  <2> SUFFICES ASSUME f[m + 1].good PROVE \E d \in Int : WellRead(t, f[m + 1], m + 1, d)
    OBVIOUS
  <2>1. m <= n /\ m + 1 \in 1 .. n /\ (m + 1) - 1 = m /\ m \in 0 .. n
    BY ONLY <1>3, m \in Nat, m + 1 <= n, SMT
  <2>2. f[m] \in V6States /\ f[m + 1] = ReadV6(f[m], t[m + 1]) /\ Well(m)
    BY ONLY <1>4, <1>6, <2>1, Zenon
  <2>3. m + 1 <= Len(t)
    BY ONLY m + 1 <= n, Zenon DEF n
  <2>4. f[m].good
    BY ONLY <2>2, f[m + 1].good, StaysRefused, Zenon
  <2>5. PICK d \in Int : WellRead(t, f[m], m, d)
    BY ONLY <2>2, <2>4, Zenon
  <2> QED BY ONLY t \in Seq(Chars), m \in Nat, f[m + 1].good, <2>2, <2>3, <2>4, <2>5, WellReadStep, Zenon
<1>7. Nat \subseteq T
  <2> HIDE DEF T
  <2> QED BY ONLY <1>5, <1>6, Counting, Zenon
<1>8. PICK d \in Int : WellRead(t, f[n], n, d)
  <2>1. n <= n
    BY ONLY <1>3, SMT
  <2> QED BY ONLY <1>2, <1>3, <1>7, <2>1, Zenon
<1>9. UpTo(Groups(t), TRUE, n) = DOMAIN t \ Indices(t, Colon)
  <2>1. \A j \in 1 .. n : Groups(t)[j] = (t[j] # Colon)
    BY ONLY Zenon DEF Groups, n
  <2> QED BY ONLY <1>3, <2>1, Zenon DEF UpTo, Indices
<1>10. Cardinality(UpTo(Groups(t), TRUE, n)) <= 8
  <2>1. Cardinality(UpTo(Groups(t), TRUE, n)) \in Nat
    BY ONLY <1>3, UpToCounts, Zenon
  <2>2. 2 * Cardinality(UpTo(Groups(t), TRUE, n)) <= 16
    BY ONLY <1>8, Zenon DEF WellRead
  <2>3. \A k \in Nat : 2 * k <= 16 => k <= 8
    OBVIOUS
  <2> QED BY ONLY <2>1, <2>2, <2>3, Zenon
<1>11. \A i \in Doubles(t) : i = d \/ i = d + 1
  <2>1. \A i \in Doubles(t) : i < n
    BY ONLY <1>3, SMT DEF Doubles, n
  <2> QED BY ONLY <1>8, <2>1, Zenon DEF WellRead
<1>12. \A i, j \in Doubles(t) : i - j \in -1..1
  BY ONLY <1>11, d \in Int, SMT
<1>13. ParseV6(t).version = 6
  BY ONLY <1>2
<1>14. \A i \in DOMAIN t : t[i] = Colon \/ t[i] \in Shorts
  BY ONLY <1>3, <1>8, Zenon DEF WellRead
<1> QED BY ONLY <1>9, <1>10, <1>12, <1>13, <1>14, Zenon

-----------------------------------------------------------------------------
(* What is read of words: the first bytes of a sequence of them.           *)

ByteOf(v, k) == Word(v[(k + 1) \div 2])[2 - (k % 2)]
FirstBytes(v, x) == [k \in 1 .. 2 * x |-> ByteOf(v, k)]

LEMMA ByteType ==
  ASSUME NEW v \in Seq(Shorts), NEW k \in 1 .. 2 * Len(v)
  PROVE  ByteOf(v, k) \in Bytes
<1>1. Len(v) \in Nat /\ \A i \in 1 .. Len(v) : v[i] \in Shorts
  OBVIOUS
<1>2. (k + 1) \div 2 \in 1 .. Len(v)
  BY ONLY <1>1, k \in 1 .. 2 * Len(v), SMT
<1>3. k % 2 = 0 \/ k % 2 = 1
  BY ONLY <1>1, k \in 1 .. 2 * Len(v), SMT
<1>4. 2 - 0 = 2 /\ 2 - 1 = 1
  OBVIOUS
<1> DEFINE w == v[(k + 1) \div 2]
<1>5. w \in Shorts
  BY ONLY <1>1, <1>2, Zenon
<1>6. Word(w)[1] \in Bytes /\ Word(w)[2] \in Bytes
  BY ONLY <1>5, WordType, Zenon
<1> QED BY ONLY <1>3, <1>4, <1>6, Zenon DEF ByteOf

LEMMA FirstBytesType ==
  ASSUME NEW v \in Seq(Shorts), NEW x \in 0 .. Len(v)
  PROVE  FirstBytes(v, x) \in Seq(Bytes) /\ Len(FirstBytes(v, x)) = 2 * x
<1>1. Len(v) \in Nat
  OBVIOUS
<1>2. 2 * x \in Nat /\ \A k \in 1 .. 2 * x : k \in 1 .. 2 * Len(v)
  BY ONLY <1>1, x \in 0 .. Len(v), SMT
<1>3. \A k \in 1 .. 2 * x : ByteOf(v, k) \in Bytes
  BY ONLY <1>2, v \in Seq(Shorts), ByteType, Zenon
<1> DEFINE m == 2 * x
<1> HIDE DEF m
<1>4. m \in Nat /\ FirstBytes(v, x) = [k \in 1 .. m |-> ByteOf(v, k)] /\ \A k \in 1 .. m : ByteOf(v, k) \in Bytes
  BY ONLY <1>2, <1>3, Zenon DEF m, FirstBytes
<1>5. FirstBytes(v, x) \in Seq(Bytes) /\ Len(FirstBytes(v, x)) = m
  BY ONLY <1>4
<1> QED BY ONLY <1>5, Zenon DEF m

LEMMA Joined ==
  ASSUME NEW S, NEW x \in Seq(S), NEW y \in Seq(S)
  PROVE  /\ x \o y \in Seq(S) /\ Len(x \o y) = Len(x) + Len(y)
         /\ \A k \in 1 .. Len(x) : (x \o y)[k] = x[k]
         /\ \A k \in 1 .. Len(y) : (x \o y)[Len(x) + k] = y[k]
<1>1. x \o y \in Seq(S)
  OBVIOUS
<1>2. Len(x \o y) = Len(x) + Len(y)
  OBVIOUS
<1>3. \A k \in 1 .. Len(x) : (x \o y)[k] = x[k]
  OBVIOUS
<1>4. \A k \in 1 .. Len(y) : (x \o y)[Len(x) + k] = y[k]
  OBVIOUS
<1> QED BY <1>1, <1>2, <1>3, <1>4

LEMMA SameSeq ==
  ASSUME NEW S, NEW x \in Seq(S), NEW y \in Seq(S), Len(x) = Len(y),
         \A k \in 1 .. Len(x) : x[k] = y[k]
  PROVE  x = y
OBVIOUS

LEMMA FirstBytesGrow ==
  ASSUME NEW v \in Seq(Shorts), NEW x \in 0 .. Len(v), x < Len(v)
  PROVE  FirstBytes(v, x) \o Word(v[x + 1]) = FirstBytes(v, x + 1)
<1> DEFINE a == FirstBytes(v, x)
           w == Word(v[x + 1])
           b == FirstBytes(v, x + 1)
<1>1. Len(v) \in Nat /\ x + 1 \in 0 .. Len(v) /\ x + 1 \in 1 .. Len(v) /\ 2 * (x + 1) = 2 * x + 2 /\ x \in Nat
  BY ONLY v \in Seq(Shorts), x \in 0 .. Len(v), x < Len(v), SMT
<1>2. a \in Seq(Bytes) /\ Len(a) = 2 * x
  BY ONLY FirstBytesType, v \in Seq(Shorts), x \in 0 .. Len(v), Zenon
<1>3. b \in Seq(Bytes) /\ Len(b) = 2 * x + 2
  BY ONLY FirstBytesType, v \in Seq(Shorts), <1>1, Zenon
<1>4. v[x + 1] \in Shorts
  BY ONLY v \in Seq(Shorts), <1>1
<1>5. w \in Seq(Bytes) /\ Len(w) = 2
  BY ONLY <1>4, WordType, Zenon
<1>6. \A k \in 1 .. 2 * x : a[k] = b[k]
  <2>1. \A k \in 1 .. 2 * x : k \in 1 .. 2 * (x + 1)
    BY ONLY <1>1, SMT
  <2> QED BY ONLY <2>1, Zenon DEF FirstBytes
<1>7. b[2 * x + 1] = w[1] /\ b[2 * x + 2] = w[2]
  <2>1. /\ 2 * x + 1 \in 1 .. 2 * (x + 1) /\ 2 * x + 2 \in 1 .. 2 * (x + 1)
        /\ ((2 * x + 1) + 1) \div 2 = x + 1 /\ ((2 * x + 2) + 1) \div 2 = x + 1
        /\ 2 - ((2 * x + 1) % 2) = 1 /\ 2 - ((2 * x + 2) % 2) = 2
    BY ONLY <1>1, SMT
  <2>2. b[2 * x + 1] = ByteOf(v, 2 * x + 1) /\ b[2 * x + 2] = ByteOf(v, 2 * x + 2)
    BY ONLY <2>1, Zenon DEF FirstBytes
  <2>3. ByteOf(v, 2 * x + 1) = w[1] /\ ByteOf(v, 2 * x + 2) = w[2]
    BY ONLY <2>1, Zenon DEF ByteOf
  <2> QED BY ONLY <2>2, <2>3, Zenon
<1> HIDE DEF a, w, b
<1>8. a \o w = b
  <2>1. /\ a \o w \in Seq(Bytes) /\ Len(a \o w) = Len(a) + Len(w)
        /\ \A k \in 1 .. Len(a) : (a \o w)[k] = a[k]
        /\ \A k \in 1 .. Len(w) : (a \o w)[Len(a) + k] = w[k]
    <3>1. a \in Seq(Bytes) /\ w \in Seq(Bytes)
      BY ONLY <1>2, <1>5, Zenon
    <3> QED BY ONLY <3>1, Joined
  <2>2. 1 \in 1 .. 2 /\ 2 \in 1 .. 2
    OBVIOUS
  <2>3. (a \o w)[2 * x + 1] = w[1] /\ (a \o w)[2 * x + 2] = w[2]
    BY ONLY <1>2, <1>5, <2>1, <2>2, Zenon
  <2>4. \A k \in 1 .. 2 * x + 2 : k \in 1 .. 2 * x \/ k = 2 * x + 1 \/ k = 2 * x + 2
    BY ONLY <1>1, SMT
  <2>5. \A k \in 1 .. 2 * x + 2 : (a \o w)[k] = b[k]
    BY ONLY <1>2, <1>6, <1>7, <2>1, <2>3, <2>4, Zenon
  <2>6. Len(a \o w) = 2 * x + 2
    BY ONLY <1>2, <1>5, <2>1, Zenon
  <2> QED BY ONLY <1>3, <2>1, <2>5, <2>6, SameSeq, Zenon
<1> QED BY ONLY <1>8, Zenon DEF a, w, b

\* The state in which the first x of the words v have been read.
HasRead(v, x, d, e) == [addr |-> FirstBytes(v, x), compress |-> d, colon |-> e, good |-> TRUE]

LEMMA ReadsWord ==
  ASSUME NEW v \in Seq(Shorts), Len(v) <= 8, NEW x \in 0 .. Len(v), x < Len(v),
         NEW d, NEW e, NEW s, s = HasRead(v, x, d, e)
  PROVE  ReadV6(s, v[x + 1]) = HasRead(v, x + 1, d, FALSE)
<1> DEFINE c == v[x + 1]
<1>1. s.addr = FirstBytes(v, x) /\ s.compress = d /\ s.colon = e /\ s.good = TRUE
  BY ONLY s = HasRead(v, x, d, e) DEF HasRead
<1>2. Len(FirstBytes(v, x)) = 2 * x
  BY ONLY v \in Seq(Shorts), x \in 0 .. Len(v), FirstBytesType, Zenon
<1>3. 2 * x < 16 /\ c \in Shorts
  BY ONLY v \in Seq(Shorts), x \in 0 .. Len(v), x < Len(v), Len(v) <= 8, SMT
<1>4. c # Colon
  BY ONLY <1>3, WordType, CharsAre, Zenon
<1>5. s.addr \o Word(c) = FirstBytes(v, x + 1)
  BY ONLY <1>1, v \in Seq(Shorts), x \in 0 .. Len(v), x < Len(v), FirstBytesGrow, Zenon
<1>6. (s.good /\ Len(s.addr) < 16) = TRUE
  BY ONLY <1>1, <1>2, <1>3, Zenon
<1>7. ReadV6(s, c) = [addr |-> s.addr \o Word(c), compress |-> s.compress, colon |-> FALSE,
                      good |-> s.good /\ Len(s.addr) < 16]
  BY ONLY <1>3, <1>4, Zenon DEF ReadV6
<1> QED BY ONLY <1>1, <1>5, <1>6, <1>7, Zenon DEF HasRead

LEMMA ReadsColon ==
  ASSUME NEW v \in Seq(Shorts), NEW x \in 0 .. Len(v), x < 8, NEW d, NEW s, s = HasRead(v, x, d, FALSE)
  PROVE  ReadV6(s, Colon) = HasRead(v, x, d, TRUE)
<1>1. s.addr = FirstBytes(v, x) /\ s.compress = d /\ s.colon = FALSE /\ s.good = TRUE
  BY ONLY s = HasRead(v, x, d, FALSE) DEF HasRead
<1>2. Len(FirstBytes(v, x)) = 2 * x
  BY ONLY v \in Seq(Shorts), x \in 0 .. Len(v), FirstBytesType, Zenon
<1>3. 2 * x < 16
  BY ONLY v \in Seq(Shorts), x \in 0 .. Len(v), x < 8, SMT
<1>4. (s.good /\ Len(s.addr) < 16) = TRUE
  BY ONLY <1>1, <1>2, <1>3, Zenon
<1>5. ReadV6(s, Colon) = [addr |-> s.addr, compress |-> s.compress, colon |-> TRUE,
                          good |-> s.good /\ Len(s.addr) < 16]
  BY ONLY <1>1, Zenon DEF ReadV6
<1> QED BY ONLY <1>1, <1>4, <1>5, Zenon DEF HasRead

LEMMA ReadsDouble ==
  ASSUME NEW v \in Seq(Shorts), NEW x \in 0 .. Len(v), NEW s, s = HasRead(v, x, -1, TRUE)
  PROVE  ReadV6(s, Colon) = HasRead(v, x, 2 * x, FALSE)
<1>1. s.addr = FirstBytes(v, x) /\ s.compress = -1 /\ s.colon = TRUE /\ s.good = TRUE
  BY ONLY s = HasRead(v, x, -1, TRUE) DEF HasRead
<1>2. Len(s.addr) = 2 * x
  BY ONLY <1>1, v \in Seq(Shorts), x \in 0 .. Len(v), FirstBytesType, Zenon
<1>3. (s.good /\ s.compress = -1) = TRUE
  BY ONLY <1>1, Zenon
<1>4. ReadV6(s, Colon) = [addr |-> s.addr, compress |-> Len(s.addr), colon |-> FALSE,
                          good |-> s.good /\ s.compress = -1]
  BY ONLY <1>1, Zenon DEF ReadV6
<1> QED BY ONLY <1>1, <1>2, <1>3, <1>4, Zenon DEF HasRead

\* Words with colons between them, read from the place p on.
WordsFrom(t, p, l, v, x) ==
  \A j \in 1 .. l : IF j % 2 = 1 THEN t[p + j] = v[x + (j + 1) \div 2] ELSE t[p + j] = Colon

WordsRead(f, q, v, y, d) == f[q] = HasRead(v, y, d, FALSE)

\* They have not been read yet, but the x words before them have.
WordsAhead(t, f, p, l, q, v, x, y, d) ==
  /\ t \in Seq(Chars) /\ ReadsV6(t, f) /\ v \in Seq(Shorts) /\ Len(v) <= 8
  /\ p \in Nat /\ l \in Nat /\ (l = 0 \/ l % 2 = 1) /\ q = p + l /\ q <= Len(t)
  /\ x \in Nat /\ y = x + (l + 1) \div 2 /\ y <= Len(v)
  /\ f[p] = HasRead(v, x, d, FALSE) /\ WordsFrom(t, p, l, v, x)

LEMMA ReadsWords ==
  ASSUME NEW t, NEW f, NEW p, NEW l, NEW q, NEW v, NEW x, NEW y, NEW d,
         WordsAhead(t, f, p, l, q, v, x, y, d)
  PROVE  WordsRead(f, q, v, y, d)
<1>0. /\ t \in Seq(Chars) /\ ReadsV6(t, f) /\ v \in Seq(Shorts) /\ Len(v) <= 8
      /\ p \in Nat /\ l \in Nat /\ (l = 0 \/ l % 2 = 1) /\ p + l <= Len(t)
      /\ x \in Nat /\ x + (l + 1) \div 2 <= Len(v)
      /\ f[p] = HasRead(v, x, d, FALSE) /\ WordsFrom(t, p, l, v, x)
      /\ q = p + l /\ y = x + (l + 1) \div 2
  BY ONLY WordsAhead(t, f, p, l, q, v, x, y, d), Zenon DEF WordsAhead
<1> DEFINE At(i) == f[p + i] = HasRead(v, x + (i + 1) \div 2, d, i > 0 /\ i % 2 = 0)
           T == {i \in Nat : i <= l => At(i)}
<1>1. 0 \in T
  <2>1. p + 0 = p /\ x + (0 + 1) \div 2 = x /\ (0 > 0 /\ 0 % 2 = 0) = FALSE /\ 0 \in Nat
    BY ONLY <1>0, SMT
  <2>2. At(0)
    BY ONLY <1>0, <2>1, Zenon
  <2> QED BY ONLY <2>1, <2>2, Zenon
<1>2. ASSUME NEW i \in Nat, i \in T PROVE i + 1 \in T
  <2> SUFFICES ASSUME i + 1 <= l PROVE At(i + 1)
    OBVIOUS
  <2> DEFINE z == x + (i + 1) \div 2
             c == t[p + (i + 1)]
  <2>1. /\ i <= l /\ i + 1 \in 1 .. l /\ p + (i + 1) \in 1 .. Len(t) /\ (p + (i + 1)) - 1 = p + i
        /\ i + 1 > 0 /\ Len(t) \in Nat
    BY ONLY <1>0, i \in Nat, i + 1 <= l, SMT
  <2>2. At(i)
    BY ONLY <1>2, <2>1, Zenon
  <2>3. f[p + (i + 1)] = ReadV6(f[p + i], c)
    BY ONLY <1>0, <2>1, Zenon DEF ReadsV6
  <2>4. IF (i + 1) % 2 = 1 THEN c = v[x + ((i + 1) + 1) \div 2] ELSE c = Colon
    BY ONLY <1>0, <2>1, Zenon DEF WordsFrom
  <2>5. CASE i % 2 = 0
    <3>1. /\ (i + 1) % 2 = 1 /\ x + ((i + 1) + 1) \div 2 = z + 1 /\ z \in 0 .. Len(v) /\ z < Len(v)
          /\ (i + 1 > 0 /\ (i + 1) % 2 = 0) = FALSE
      BY ONLY <1>0, <2>1, <2>5, i \in Nat, i + 1 <= l, SMT
    <3>2. c = v[z + 1]
      BY ONLY <2>4, <3>1, Zenon
    <3> HIDE DEF c, z
    <3> DEFINE e == i > 0 /\ i % 2 = 0
    <3>3. f[p + i] = HasRead(v, z, d, e)
      BY ONLY <2>2, Zenon DEF z
    <3> HIDE DEF e
    <3>4. ReadV6(f[p + i], c) = HasRead(v, z + 1, d, FALSE)
      <4>1. z \in 0 .. Len(v) /\ z < Len(v)
        BY ONLY <3>1, Zenon
      <4>2. ASSUME NEW s, s = HasRead(v, z, d, e) PROVE ReadV6(s, c) = HasRead(v, z + 1, d, FALSE)
        <5>1. ReadV6(s, v[z + 1]) = HasRead(v, z + 1, d, FALSE)
          BY ONLY <1>0, <4>1, <4>2, ReadsWord, Zenon
        <5> QED BY ONLY <3>2, <5>1, Zenon
      <4> QED BY ONLY <3>3, <4>2, Zenon
    <3> QED BY ONLY <2>3, <3>1, <3>4, Zenon
  <2>6. CASE i % 2 # 0
    <3>1. /\ (i + 1) % 2 = 0 /\ x + ((i + 1) + 1) \div 2 = z /\ (i > 0 /\ i % 2 = 0) = FALSE
          /\ (i + 1 > 0 /\ (i + 1) % 2 = 0) = TRUE /\ (i + 1) % 2 # 1
      BY ONLY <1>0, <2>1, <2>6, i \in Nat, SMT
    <3>2. z \in 0 .. Len(v) /\ z < 8
      BY ONLY <1>0, <2>1, <2>6, i \in Nat, i + 1 <= l, SMT
    <3>3. c = Colon
      BY ONLY <2>4, <3>1, Zenon
    <3> HIDE DEF c, z
    <3>4. f[p + i] = HasRead(v, z, d, FALSE)
      BY ONLY <2>2, <3>1, Zenon DEF z
    <3>5. ReadV6(f[p + i], Colon) = HasRead(v, z, d, TRUE)
      BY ONLY <1>0, <3>2, <3>4, ReadsColon, Zenon
    <3> QED BY ONLY <2>3, <3>1, <3>3, <3>5, Zenon
  <2> QED BY ONLY <2>5, <2>6, Zenon
<1>3. Nat \subseteq T
  <2> HIDE DEF T
  <2> QED BY ONLY <1>1, <1>2, Counting, Zenon
<1>4. At(l)
  <2>1. l <= l
    BY ONLY <1>0, SMT
  <2> QED BY ONLY <1>0, <1>3, <2>1, Zenon
<1>5. (l > 0 /\ l % 2 = 0) = FALSE
  BY ONLY <1>0, SMT
<1> QED BY ONLY <1>0, <1>4, <1>5, Zenon DEF WordsRead

LEMMA WordsInType ==
  ASSUME NEW u \in Seq(Chars), AreWords(u)
  PROVE  /\ Len(u) \in Nat /\ (Len(u) = 0 \/ Len(u) % 2 = 1)
         /\ WordsIn(u) \in Seq(Shorts) /\ Len(WordsIn(u)) = (Len(u) + 1) \div 2
         /\ \A j \in 1 .. Len(u) : IF j % 2 = 1 THEN u[j] = WordsIn(u)[(j + 1) \div 2] ELSE u[j] = Colon
<1> DEFINE n == Len(u)
           m == (n + 1) \div 2
<1>1. n \in Nat
  OBVIOUS
<1>2. u = <<>> => n = 0
  OBVIOUS
<1>3. \/ n = 0
      \/ n % 2 = 1 /\ \A i \in 1 .. n : IF i % 2 = 1 THEN u[i] \in Shorts ELSE u[i] = Colon
  BY ONLY AreWords(u), <1>2, Zenon DEF AreWords
<1>4. n = 0 \/ n % 2 = 1
  BY ONLY <1>3, Zenon
<1>5. \A i \in 1 .. n : IF i % 2 = 1 THEN u[i] \in Shorts ELSE u[i] = Colon
  <2>1. n = 0 => 1 .. n = {}
    BY ONLY <1>1, SMT
  <2> QED BY ONLY <1>3, <2>1, Zenon
<1>6. WordsIn(u) = [i \in 1 .. m |-> u[2 * i - 1]]
  BY ONLY Zenon DEF WordsIn
<1> HIDE DEF n
<1>7. m \in Nat /\ \A i \in 1 .. m : 2 * i - 1 \in 1 .. n /\ (2 * i - 1) % 2 = 1
  BY ONLY <1>1, <1>4, SMT
<1>8. \A i \in 1 .. m : u[2 * i - 1] \in Shorts
  BY ONLY <1>5, <1>7, Zenon
<1>9. \A j \in 1 .. n : j % 2 = 1 => (j + 1) \div 2 \in 1 .. m /\ 2 * ((j + 1) \div 2) - 1 = j
  BY ONLY <1>1, SMT
<1> HIDE DEF m
<1>10. WordsIn(u) \in Seq(Shorts) /\ Len(WordsIn(u)) = m
  BY ONLY <1>6, <1>7, <1>8
<1>11. ASSUME NEW j \in 1 .. n
       PROVE  IF j % 2 = 1 THEN u[j] = WordsIn(u)[(j + 1) \div 2] ELSE u[j] = Colon
  BY ONLY <1>5, <1>6, <1>9, j \in 1 .. n, Zenon
<1> QED BY ONLY <1>1, <1>4, <1>10, <1>11, Zenon DEF n, m

LEMMA AddressBytes ==
  ASSUME NEW v PROVE Address(v) = [version |-> 6, addr |-> FirstBytes(v, 8)]
<1>1. 2 * 8 = 16
  OBVIOUS
<1> QED BY ONLY <1>1, Zenon DEF Address, FirstBytes, ByteOf

LEMMA ParsesV6Whole ==
  ASSUME NEW t \in Seq(Chars), AreWords(t), Len(t) = 15
  PROVE  ParseV6(t) = Address(WordsIn(t))
<1> DEFINE v == WordsIn(t)
<1>1. /\ v \in Seq(Shorts) /\ Len(v) = (15 + 1) \div 2
      /\ \A j \in 1 .. 15 : IF j % 2 = 1 THEN t[j] = v[(j + 1) \div 2] ELSE t[j] = Colon
  BY ONLY t \in Seq(Chars), AreWords(t), Len(t) = 15, WordsInType, Zenon
<1> HIDE DEF v
<1>2. PICK f : /\ ReadsV6(t, f)
               /\ ParseV6(t) =
                    IF ~f[Len(t)].good THEN None
                    ELSE IF f[Len(t)].compress # -1
                      THEN [version |-> 6, addr |-> Decompress(f[Len(t)].addr, f[Len(t)].compress)]
                    ELSE IF Len(f[Len(t)].addr) = 16 THEN [version |-> 6, addr |-> f[Len(t)].addr]
                    ELSE None
  BY ONLY t \in Seq(Chars), ParseV6Is, Zenon
<1>3. Len(v) = 8
  BY ONLY <1>1, SMT
<1>4. f[0] = HasRead(v, 0, -1, FALSE)
  <2>1. FirstBytes(v, 0) = <<>>
    <3>1. 2 * 0 = 0 /\ \A w : [k \in 1 .. 0 |-> ByteOf(w, k)] = <<>>
      BY SMT
    <3> QED BY ONLY <3>1, Zenon DEF FirstBytes
  <2>2. f[0] = V6Start
    BY ONLY <1>2, Zenon DEF ReadsV6
  <2> QED BY ONLY <2>1, <2>2, Zenon DEF V6Start, HasRead
<1>5. WordsFrom(t, 0, 15, v, 0)
  <2>1. \A j \in 1 .. 15 : 0 + j = j /\ 0 + (j + 1) \div 2 = (j + 1) \div 2
    BY SMT
  <2> QED BY ONLY <1>1, <2>1, Zenon DEF WordsFrom
<1>6. f[15] = HasRead(v, 8, -1, FALSE)
  <2>1. /\ 0 \in Nat /\ 15 \in Nat /\ 15 % 2 = 1 /\ 0 + 15 = 15 /\ 15 <= 15
        /\ 0 + (15 + 1) \div 2 = 8 /\ 8 <= 8
    BY SMT
  <2>2. WordsAhead(t, f, 0, 15, 15, v, 0, 8, -1)
    BY ONLY t \in Seq(Chars), Len(t) = 15, <1>1, <1>2, <1>3, <1>4, <1>5, <2>1, Zenon DEF WordsAhead
  <2>3. WordsRead(f, 15, v, 8, -1)
    BY ONLY <2>2, ReadsWords, Zenon
  <2> QED BY ONLY <2>3, Zenon DEF WordsRead
<1>7. f[15].good = TRUE /\ f[15].compress = -1 /\ f[15].addr = FirstBytes(v, 8)
  BY ONLY <1>6 DEF HasRead
<1>8. Len(FirstBytes(v, 8)) = 16
  <2>1. 8 \in 0 .. Len(v) /\ 2 * 8 = 16
    BY ONLY <1>3
  <2> QED BY ONLY <1>1, <2>1, FirstBytesType, Zenon
<1>9. ParseV6(t) = [version |-> 6, addr |-> FirstBytes(v, 8)]
  BY ONLY <1>2, <1>7, <1>8, Len(t) = 15, Zenon
<1> QED BY ONLY <1>9, AddressBytes, Zenon DEF v

\* The parts before and after two characters.
SplitAt(t, S, d) ==
  /\ SubSeq(t, 1, d - 1) \in Seq(S) /\ Len(SubSeq(t, 1, d - 1)) = d - 1
  /\ \A j \in 1 .. d - 1 : SubSeq(t, 1, d - 1)[j] = t[j]
  /\ SubSeq(t, d + 2, Len(t)) \in Seq(S) /\ Len(SubSeq(t, d + 2, Len(t))) = Len(t) - d - 1
  /\ \A j \in 1 .. Len(t) - d - 1 : SubSeq(t, d + 2, Len(t))[j] = t[(d + 1) + j]

LEMMA CutInTwo ==
  ASSUME NEW S, NEW t \in Seq(S), NEW d \in 1 .. Len(t) - 1
  PROVE  SplitAt(t, S, d)
<1>1. SubSeq(t, 1, d - 1) \in Seq(S)
  OBVIOUS
<1>2. Len(SubSeq(t, 1, d - 1)) = d - 1
  OBVIOUS
<1>3. \A j \in 1 .. d - 1 : SubSeq(t, 1, d - 1)[j] = t[j]
  OBVIOUS
<1>4. SubSeq(t, d + 2, Len(t)) \in Seq(S)
  OBVIOUS
<1>5. Len(SubSeq(t, d + 2, Len(t))) = Len(t) - d - 1
  OBVIOUS
<1>6. \A j \in 1 .. Len(t) - d - 1 : SubSeq(t, d + 2, Len(t))[j] = t[(d + 1) + j]
  OBVIOUS
<1> QED BY ONLY <1>1, <1>2, <1>3, <1>4, <1>5, <1>6, Zenon DEF SplitAt

LEMMA Sides ==
  ASSUME NEW t \in Seq(Chars), Doubles(t) # {}
  PROVE  \E d \in 1 .. Len(t) - 1 :
           /\ t[d] = Colon /\ t[d + 1] = Colon
           /\ Before(t) \in Seq(Chars) /\ Len(Before(t)) = d - 1
           /\ \A j \in 1 .. d - 1 : Before(t)[j] = t[j]
           /\ After(t) \in Seq(Chars) /\ Len(After(t)) = Len(t) - d - 1
           /\ \A j \in 1 .. Len(t) - d - 1 : After(t)[j] = t[(d + 1) + j]
<1> DEFINE d == Min(Doubles(t))
<1>1. Len(t) \in Nat
  OBVIOUS
<1>2. Doubles(t) \in SUBSET Nat
  BY ONLY <1>1, SMT DEF Doubles
<1>3. d \in Doubles(t)
  <2>1. \E x \in Doubles(t) : \A y \in Doubles(t) : x <= y
    BY ONLY <1>2, Doubles(t) # {}, LeastNumber, Zenon
  <2> QED BY ONLY <2>1, Zenon DEF Min
<1>4. Before(t) = SubSeq(t, 1, d - 1) /\ After(t) = SubSeq(t, d + 2, Len(t))
  BY ONLY Zenon DEF Before, After
<1> HIDE DEF d
<1>5. d \in 1 .. Len(t) - 1 /\ t[d] = Colon /\ t[d + 1] = Colon
  BY ONLY <1>3, Zenon DEF Doubles
<1> DEFINE S == Chars
<1> HIDE DEF S
<1>6. t \in Seq(S)
  BY ONLY t \in Seq(Chars), Zenon DEF S
<1>7. SplitAt(t, S, d)
  BY ONLY <1>5, <1>6, CutInTwo, Zenon
<1> QED BY ONLY <1>4, <1>5, <1>7, Zenon DEF S, SplitAt

\* The words of a text with a "::", and where it stands among them.
AllWords(t) == WordsIn(Before(t)) \o WordsIn(After(t))

LEMMA AllWordsType ==
  ASSUME NEW t \in Seq(Chars), Doubles(t) # {}, AreWords(Before(t)), AreWords(After(t)), Gap(t) > 0
  PROVE  \E x, z \in Nat :
           /\ WordsIn(Before(t)) \in Seq(Shorts) /\ Len(WordsIn(Before(t))) = x
           /\ WordsIn(After(t)) \in Seq(Shorts) /\ Len(WordsIn(After(t))) = z
           /\ AllWords(t) \in Seq(Shorts) /\ Len(AllWords(t)) = x + z
           /\ \A k \in 1 .. x : AllWords(t)[k] = WordsIn(Before(t))[k]
           /\ \A k \in 1 .. z : AllWords(t)[x + k] = WordsIn(After(t))[k]
           /\ Gap(t) = 8 - x - z /\ x + z < 8
<1> DEFINE B == WordsIn(Before(t))
           C == WordsIn(After(t))
           v == AllWords(t)
<1>1. Before(t) \in Seq(Chars) /\ After(t) \in Seq(Chars)
  BY ONLY t \in Seq(Chars), Doubles(t) # {}, Sides, Zenon
<1>2. B \in Seq(Shorts) /\ C \in Seq(Shorts)
  BY ONLY <1>1, AreWords(Before(t)), AreWords(After(t)), WordsInType, Zenon
<1>3. Gap(t) = 8 - Len(B) - Len(C)
  BY ONLY Zenon DEF Gap
<1>4. v = B \o C
  BY ONLY Zenon DEF AllWords
<1> HIDE DEF B, C, v
<1>5. Len(B) \in Nat /\ Len(C) \in Nat
  BY ONLY <1>2
<1>6. /\ v \in Seq(Shorts) /\ Len(v) = Len(B) + Len(C)
      /\ \A k \in 1 .. Len(B) : v[k] = B[k]
      /\ \A k \in 1 .. Len(C) : v[Len(B) + k] = C[k]
  BY ONLY <1>2, <1>4, Joined
<1>7. Len(B) + Len(C) < 8
  BY ONLY <1>3, <1>5, Gap(t) > 0, SMT
<1> QED BY ONLY <1>2, <1>3, <1>5, <1>6, <1>7, Zenon DEF B, C, v

LEMMA ParsesV6Doubled ==
  ASSUME NEW t \in Seq(Chars), Doubles(t) # {}, AreWords(Before(t)), AreWords(After(t)), Gap(t) > 0,
         NEW x \in Nat, NEW z \in Nat, Len(WordsIn(Before(t))) = x, Len(WordsIn(After(t))) = z
  PROVE  ParseV6(t) = [version |-> 6, addr |-> Decompress(FirstBytes(AllWords(t), x + z), 2 * x)]
<1> DEFINE n == Len(t)
           B == WordsIn(Before(t))
           C == WordsIn(After(t))
           v == AllWords(t)
           b == Before(t)
           c == After(t)
<1>1. PICK f : /\ ReadsV6(t, f)
               /\ ParseV6(t) =
                    IF ~f[n].good THEN None
                    ELSE IF f[n].compress # -1
                      THEN [version |-> 6, addr |-> Decompress(f[n].addr, f[n].compress)]
                    ELSE IF Len(f[n].addr) = 16 THEN [version |-> 6, addr |-> f[n].addr]
                    ELSE None
  BY ONLY t \in Seq(Chars), ParseV6Is, Zenon
<1>2. PICK d \in 1 .. n - 1 :
           /\ t[d] = Colon /\ t[d + 1] = Colon
           /\ b \in Seq(Chars) /\ Len(b) = d - 1
           /\ \A j \in 1 .. d - 1 : b[j] = t[j]
           /\ c \in Seq(Chars) /\ Len(c) = n - d - 1
           /\ \A j \in 1 .. n - d - 1 : c[j] = t[(d + 1) + j]
  BY ONLY t \in Seq(Chars), Doubles(t) # {}, Sides, Zenon
<1>3. n \in Nat
  OBVIOUS
<1>4. /\ (d - 1 = 0 \/ (d - 1) % 2 = 1) /\ x = ((d - 1) + 1) \div 2
      /\ \A j \in 1 .. d - 1 : IF j % 2 = 1 THEN b[j] = B[(j + 1) \div 2] ELSE b[j] = Colon
  BY ONLY <1>2, AreWords(Before(t)), x = Len(WordsIn(Before(t))), WordsInType, Zenon
<1>5. /\ (n - d - 1 = 0 \/ (n - d - 1) % 2 = 1) /\ z = ((n - d - 1) + 1) \div 2
      /\ \A j \in 1 .. n - d - 1 : IF j % 2 = 1 THEN c[j] = C[(j + 1) \div 2] ELSE c[j] = Colon
  BY ONLY <1>2, AreWords(After(t)), z = Len(WordsIn(After(t))), WordsInType, Zenon
<1>6. /\ v \in Seq(Shorts) /\ Len(v) = x + z /\ x + z < 8
      /\ \A k \in 1 .. x : v[k] = B[k]
      /\ \A k \in 1 .. z : v[x + k] = C[k]
  <2>1. PICK k \in Nat, m \in Nat :
           /\ Len(WordsIn(Before(t))) = k /\ Len(WordsIn(After(t))) = m
           /\ AllWords(t) \in Seq(Shorts) /\ Len(AllWords(t)) = k + m
           /\ \A i \in 1 .. k : AllWords(t)[i] = WordsIn(Before(t))[i]
           /\ \A i \in 1 .. m : AllWords(t)[k + i] = WordsIn(After(t))[i]
           /\ k + m < 8
    BY ONLY t \in Seq(Chars), Doubles(t) # {}, AreWords(Before(t)), AreWords(After(t)), Gap(t) > 0,
            AllWordsType, Zenon
  <2>2. k = x /\ m = z
    BY ONLY <2>1, Len(WordsIn(Before(t))) = x, Len(WordsIn(After(t))) = z, Zenon
  <2> QED BY ONLY <2>1, <2>2, Zenon
<1> HIDE DEF n, B, C, v, b, c
<1>7. f[0] = V6Start /\ \A i \in 1 .. n : f[i] = ReadV6(f[i - 1], t[i])
  BY ONLY <1>1, Zenon DEF ReadsV6, n
<1>8. WordsAhead(t, f, 0, d - 1, d - 1, v, 0, x, -1)
  <2>1. WordsFrom(t, 0, d - 1, v, 0)
    <3>1. \A j \in 1 .. d - 1 : /\ 0 + j = j /\ 0 + (j + 1) \div 2 = (j + 1) \div 2
                                /\ (j % 2 = 1 => (j + 1) \div 2 \in 1 .. x)
      BY ONLY <1>2, <1>3, <1>4, x \in Nat, SMT
    <3>2. ASSUME NEW j \in 1 .. d - 1
          PROVE  IF j % 2 = 1 THEN t[0 + j] = v[0 + (j + 1) \div 2] ELSE t[0 + j] = Colon
      <4>1. CASE j % 2 = 1
        <5>1. t[0 + j] = B[(j + 1) \div 2]
          BY ONLY <1>2, <1>4, <3>1, <4>1, j \in 1 .. d - 1, Zenon
        <5>2. v[0 + (j + 1) \div 2] = B[(j + 1) \div 2]
          BY ONLY <1>6, <3>1, <4>1, j \in 1 .. d - 1, Zenon
        <5> QED BY ONLY <4>1, <5>1, <5>2, Zenon
      <4>2. CASE j % 2 # 1
        BY ONLY <1>2, <1>4, <3>1, <4>2, j \in 1 .. d - 1, Zenon
      <4> QED BY ONLY <4>1, <4>2, Zenon
    <3> QED BY ONLY <3>2, Zenon DEF WordsFrom
  <2>2. f[0] = HasRead(v, 0, -1, FALSE)
    <3>1. FirstBytes(v, 0) = <<>>
      <4>1. 2 * 0 = 0 /\ \A w : [k \in 1 .. 0 |-> ByteOf(w, k)] = <<>>
        BY SMT
      <4> QED BY ONLY <4>1, Zenon DEF FirstBytes
    <3> QED BY ONLY <1>7, <3>1, Zenon DEF V6Start, HasRead
  <2>3. /\ 0 \in Nat /\ d - 1 \in Nat /\ d - 1 = 0 + (d - 1) /\ d - 1 <= Len(t)
        /\ x = 0 + ((d - 1) + 1) \div 2 /\ x <= Len(v) /\ Len(v) <= 8
    BY ONLY <1>2, <1>3, <1>4, <1>6, x \in Nat, z \in Nat, SMT DEF n
  <2> QED BY ONLY t \in Seq(Chars), <1>1, <1>4, <1>6, <2>1, <2>2, <2>3, Zenon DEF WordsAhead
<1>9. f[d - 1] = HasRead(v, x, -1, FALSE)
  <2>1. WordsRead(f, d - 1, v, x, -1)
    BY ONLY <1>8, ReadsWords, Zenon
  <2> QED BY ONLY <2>1, Zenon DEF WordsRead
<1>10. x \in 0 .. Len(v) /\ x < 8 /\ d \in 1 .. n /\ d + 1 \in 1 .. n /\ (d + 1) - 1 = d
  BY ONLY <1>2, <1>3, <1>6, x \in Nat, z \in Nat, SMT
<1>11. f[d] = HasRead(v, x, -1, TRUE)
  <2>1. ReadV6(f[d - 1], Colon) = HasRead(v, x, -1, TRUE)
    BY ONLY <1>6, <1>9, <1>10, ReadsColon, Zenon
  <2> QED BY ONLY <1>2, <1>7, <1>10, <2>1, Zenon
<1>12. f[d + 1] = HasRead(v, x, 2 * x, FALSE)
  <2>1. ReadV6(f[d], Colon) = HasRead(v, x, 2 * x, FALSE)
    BY ONLY <1>6, <1>10, <1>11, ReadsDouble, Zenon
  <2> QED BY ONLY <1>2, <1>7, <1>10, <2>1, Zenon
<1>13. WordsAhead(t, f, d + 1, n - d - 1, n, v, x, x + z, 2 * x)
  <2>1. WordsFrom(t, d + 1, n - d - 1, v, x)
    <3>1. \A j \in 1 .. n - d - 1 : j % 2 = 1 => (j + 1) \div 2 \in 1 .. z
      BY ONLY <1>2, <1>3, <1>5, z \in Nat, SMT
    <3>2. ASSUME NEW j \in 1 .. n - d - 1
          PROVE  IF j % 2 = 1 THEN t[(d + 1) + j] = v[x + (j + 1) \div 2] ELSE t[(d + 1) + j] = Colon
      BY ONLY <1>2, <1>5, <1>6, <3>1, j \in 1 .. n - d - 1, Zenon
    <3> QED BY ONLY <3>2, Zenon DEF WordsFrom
  <2>2. /\ d + 1 \in Nat /\ n - d - 1 \in Nat /\ n = (d + 1) + (n - d - 1) /\ n <= Len(t)
        /\ x + z = x + ((n - d - 1) + 1) \div 2 /\ x + z <= Len(v) /\ Len(v) <= 8
    BY ONLY <1>2, <1>3, <1>5, <1>6, x \in Nat, z \in Nat, SMT DEF n
  <2> QED BY ONLY t \in Seq(Chars), x \in Nat, <1>1, <1>5, <1>6, <1>12, <2>1, <2>2, Zenon DEF WordsAhead
<1>14. f[n] = HasRead(v, x + z, 2 * x, FALSE)
  <2>1. WordsRead(f, n, v, x + z, 2 * x)
    BY ONLY <1>13, ReadsWords, Zenon
  <2> QED BY ONLY <2>1, Zenon DEF WordsRead
<1>15. f[n].good = TRUE /\ f[n].compress = 2 * x /\ f[n].addr = FirstBytes(v, x + z)
  BY ONLY <1>14 DEF HasRead
<1>16. 2 * x # -1
  BY ONLY x \in Nat, SMT
<1> QED BY ONLY <1>1, <1>15, <1>16, Zenon DEF n, v

-----------------------------------------------------------------------------
(* IPv6::Parse: the copy.                                                  *)

LEMMA Wraps ==
  ASSUME NEW h \in 1 .. 16, NEW a \in Nat
  PROVE  /\ a < h => a % h = a
         /\ a >= h => (a - h) % h = a % h
         /\ a % h \in 0 .. h - 1
<1>1. a < h => a % h = a
  OBVIOUS
<1>2. a % h \in 0 .. h - 1
  OBVIOUS
<1>3. a >= h => (a - h) % h = a % h
  OBVIOUS
<1> QED BY <1>1, <1>2, <1>3

Unmoved(read) == [k \in 1..16 |-> IF k <= Len(read) THEN read[k] ELSE 0]
Moves(read, c, f) ==
  /\ f \in [0 .. Len(read) - c -> [1..16 -> Bytes]]
  /\ f[0] = Unmoved(read)
  /\ \A j \in 1 .. Len(read) - c :
       f[j] = [f[j - 1] EXCEPT ![16 - (Len(read) - c) + j] = f[j - 1][c + j]]

LEMMA UnmovedType ==
  ASSUME NEW read \in Seq(Bytes) PROVE Unmoved(read) \in [1..16 -> Bytes]
<1>1. 0 \in Bytes
  BY SMT DEF Bytes
<1>2. Len(read) \in Nat /\ \A k \in 1 .. Len(read) : read[k] \in Bytes
  OBVIOUS
<1>3. \A k \in 1..16 : k <= Len(read) => k \in 1 .. Len(read)
  BY ONLY <1>2, SMT
<1> QED BY ONLY <1>1, <1>2, <1>3, Zenon DEF Unmoved

LEMMA CopiedMoves ==
  ASSUME NEW read \in Seq(Bytes), NEW c \in 0 .. Len(read), Len(read) < 16
  PROVE  \E f : Moves(read, c, f) /\ Copied(read, c) = f[Len(read) - c]
<1> DEFINE n == Len(read) - c
           S == [1..16 -> Bytes]
           a == Unmoved(read)
           step == [j \in 1 .. n |-> [m \in S |-> [m EXCEPT ![16 - n + j] = m[c + j]]]]
           g == CHOOSE g : g = [j \in 0 .. n |->
                  IF j = 0 THEN a ELSE [g[j - 1] EXCEPT ![16 - n + j] = g[j - 1][c + j]]]
<1>1. n \in Nat /\ \A j \in 1 .. n : 16 - n + j \in 1..16 /\ c + j \in 1..16
  <2> DEFINE l == Len(read)
  <2>1. l \in Nat
    BY ONLY read \in Seq(Bytes)
  <2>2. l < 16 /\ c \in 0 .. l
    BY ONLY c \in 0 .. Len(read), Len(read) < 16, Zenon
  <2> HIDE DEF l
  <2>3. \A j \in 1 .. l - c : 16 - (l - c) + j \in 1..16 /\ c + j \in 1..16
    BY ONLY <2>1, <2>2, SMT
  <2>4. l - c \in Nat
    BY ONLY <2>1, <2>2, SMT
  <2> QED BY ONLY <2>3, <2>4, Zenon DEF l
<1>2. a \in S
  BY ONLY read \in Seq(Bytes), UnmovedType, Zenon
<1>9. Copied(read, c) = g[n]
  BY ONLY Zenon DEF Copied, Unmoved
<1> HIDE DEF n, a
<1>3. \A j \in 1 .. n : \A m \in S : [m EXCEPT ![16 - n + j] = m[c + j]] \in S
  BY ONLY <1>1
<1>4. step \in [1 .. n -> [S -> S]]
  <2> HIDE DEF S
  <2> QED BY ONLY <1>3, Zenon
<1>5. PICK f : Loops(f, n, S, a, step)
  <2> HIDE DEF step, S
  <2> QED BY ONLY <1>1, <1>2, <1>4, LoopExists, Zenon
<1>5a. f \in [0 .. n -> S] /\ f[0] = a /\ \A i \in 1 .. n : f[i] = step[i][f[i - 1]]
  <2> HIDE DEF step, S
  <2> QED BY ONLY <1>5, Zenon DEF Loops
<1> HIDE DEF S
<1>6. ASSUME NEW i \in 1 .. n PROVE f[i] = [f[i - 1] EXCEPT ![16 - n + i] = f[i - 1][c + i]]
  <2>1. i - 1 \in 0 .. n
    BY ONLY <1>1, i \in 1 .. n, SMT
  <2>2. f[i - 1] \in S
    BY ONLY <2>1, <1>5a, Zenon
  <2> QED BY ONLY <1>5a, <2>2, i \in 1 .. n, Zenon
<1> DEFINE Next1(h, i) == [h[i - 1] EXCEPT ![16 - n + i] = h[i - 1][c + i]]
<1>7. f = [i \in 0 .. n |-> IF i = 0 THEN a ELSE Next1(f, i)]
  <2> HIDE DEF Next1
  <2>1. ASSUME NEW i \in 0 .. n PROVE f[i] = IF i = 0 THEN a ELSE Next1(f, i)
    <3>1. i # 0 => i \in 1 .. n
      BY ONLY <1>1, i \in 0 .. n, SMT
    <3>2. \A j \in 1 .. n : f[j] = Next1(f, j)
      BY ONLY <1>6, Zenon DEF Next1
    <3> QED BY ONLY <1>5a, <3>1, <3>2, Zenon
  <2>2. f = [i \in 0 .. n |-> f[i]]
    BY ONLY <1>5a, Zenon
  <2> QED BY ONLY <2>1, <2>2, Zenon
<1>8. g = [i \in 0 .. n |-> IF i = 0 THEN a ELSE Next1(g, i)]
  BY ONLY <1>7, Zenon
<1> HIDE DEF g, step, Next1
<1>10. g[0] = a /\ \A i \in 1 .. n : g[i] = Next1(g, i)
  <2>1. 0 \in 0 .. n /\ \A i \in 1 .. n : i \in 0 .. n /\ i # 0
    BY ONLY <1>1, SMT
  <2> QED BY ONLY <1>8, <2>1, Zenon
<1>11. \A i \in 0 .. n : g[i] \in S
  <2> DEFINE T == {m \in Nat : m <= n => g[m] \in S}
  <2>1. 0 \in T
    BY ONLY <1>2, <1>10, Zenon
  <2>2. ASSUME NEW m \in Nat, m \in T PROVE m + 1 \in T
    <3> SUFFICES ASSUME m + 1 <= n PROVE g[m + 1] \in S
      OBVIOUS
    <3>1. m <= n /\ m + 1 \in 1 .. n /\ (m + 1) - 1 = m
      BY ONLY <1>1, m \in Nat, m + 1 <= n, SMT
    <3>2. g[m] \in S
      BY ONLY <2>2, <3>1, Zenon
    <3>3. g[m + 1] = [g[m] EXCEPT ![16 - n + (m + 1)] = g[m][c + (m + 1)]]
      BY ONLY <1>10, <3>1, Zenon DEF Next1
    <3> QED BY ONLY <1>3, <3>1, <3>2, <3>3, Zenon
  <2>3. Nat \subseteq T
    <3> HIDE DEF T
    <3> QED BY ONLY <2>1, <2>2, Counting, Zenon
  <2> QED BY ONLY <1>1, <2>3, SMT
<1>12. g \in [0 .. n -> S]
  BY ONLY <1>8, <1>11, Zenon
<1>13. Moves(read, c, g)
  BY ONLY <1>10, <1>12, Zenon DEF Moves, Next1, n, a, S
<1> QED BY ONLY <1>9, <1>13, Zenon DEF n

\* What has been moved repeats what h bytes hold.
Moved(read, c, f, n, h) ==
  \A k \in 1..16 : f[n][k] = IF 16 - n < k THEN read[c + ((k - (16 - n) - 1) % h) + 1]
                             ELSE Unmoved(read)[k]

LEMMA MovesTo ==
  ASSUME NEW read \in Seq(Bytes), NEW c \in 0 .. Len(read), Len(read) < 16, NEW f, Moves(read, c, f),
         NEW n, n = Len(read) - c, NEW h, h = 16 - Len(read)
  PROVE  Moved(read, c, f, n, h)
<1> DEFINE l == Len(read)
           a == Unmoved(read)
           From(k) == read[c + ((k - (16 - n) - 1) % h) + 1]
           At(j) == \A k \in 1..16 : f[j][k] = IF 16 - n < k /\ k <= 16 - n + j THEN From(k) ELSE a[k]
           T == {j \in Nat : j <= n => At(j)}
<1>1. l \in Nat /\ l < 16 /\ c \in 0 .. l /\ n = l - c /\ h = 16 - l
  BY ONLY read \in Seq(Bytes), c \in 0 .. Len(read), Len(read) < 16, n = Len(read) - c, h = 16 - Len(read)
<1>2. \A k \in 1..16 : k <= l => a[k] = read[k]
  BY ONLY Zenon DEF Unmoved
<1>3. /\ f \in [0 .. n -> [1..16 -> Bytes]] /\ f[0] = a
      /\ \A j \in 1 .. n : f[j] = [f[j - 1] EXCEPT ![16 - n + j] = f[j - 1][c + j]]
  BY ONLY Moves(read, c, f), n = Len(read) - c, Zenon DEF Moves
<1> HIDE DEF l, a
<1>4. n \in 0..15 /\ h \in 1..16
  BY ONLY <1>1, SMT
<1>5. At(0)
  <2>1. \A k \in 1..16 : ~(16 - n < k /\ k <= 16 - n + 0)
    BY ONLY <1>4, SMT
  <2> QED BY ONLY <1>3, <2>1, Zenon
<1>6. ASSUME NEW j \in Nat, j \in T PROVE j + 1 \in T
  <2> SUFFICES ASSUME j + 1 <= n PROVE At(j + 1)
    OBVIOUS
  <2> DEFINE K == 16 - n + (j + 1)
             s == c + (j + 1)
  <2>1. j <= n /\ j \in 0 .. n /\ j + 1 \in 1 .. n /\ (j + 1) - 1 = j /\ K \in 1..16 /\ s \in 1..16 /\ s <= l
    BY ONLY <1>1, <1>4, j \in Nat, j + 1 <= n, SMT
  <2>2. At(j)
    BY ONLY <1>6, <2>1, Zenon
  <2>3. f[j] \in [1..16 -> Bytes] /\ f[j + 1] = [f[j] EXCEPT ![K] = f[j][s]]
    BY ONLY <1>3, <2>1, Zenon
  <2>4. From(K) = f[j][s]
    <3>1. CASE j < h
      <4>1. s <= 16 - n /\ K - (16 - n) - 1 = j /\ c + j + 1 = s
        BY ONLY <1>1, <1>4, <2>1, <3>1, SMT
      <4>2. j % h = j
        BY ONLY <1>4, <3>1, j \in Nat, Wraps, Zenon
      <4>3. From(K) = read[s]
        BY ONLY <4>1, <4>2, Zenon
      <4>4. ~(16 - n < s)
        BY ONLY <1>4, <2>1, <4>1, SMT
      <4>5. f[j][s] = a[s]
        <5> HIDE DEF s, From
        <5> QED BY ONLY <2>1, <2>2, <4>4, Zenon
      <4>6. a[s] = read[s]
        <5> HIDE DEF s
        <5> QED BY ONLY <1>2, <2>1, Zenon
      <4> QED BY ONLY <4>3, <4>5, <4>6, Zenon
    <3>2. CASE j >= h
      <4>1. 16 - n < s /\ s <= 16 - n + j /\ K - (16 - n) - 1 = j /\ s - (16 - n) - 1 = j - h
        BY ONLY <1>1, <1>4, <2>1, <3>2, SMT
      <4>2. (j - h) % h = j % h
        BY ONLY <1>4, <3>2, j \in Nat, Wraps, Zenon
      <4>3. From(K) = From(s)
        BY ONLY <4>1, <4>2, Zenon
      <4>4. f[j][s] = From(s)
        <5> HIDE DEF s, From
        <5> QED BY ONLY <2>1, <2>2, <4>1, Zenon
      <4> QED BY ONLY <4>3, <4>4, Zenon
    <3>3. j < h \/ j >= h
      BY ONLY <1>4, j \in Nat, SMT
    <3> QED BY ONLY <3>1, <3>2, <3>3, Zenon
  <2> HIDE DEF s, From
  <2>5. ASSUME NEW k \in 1..16
        PROVE  f[j + 1][k] = IF 16 - n < k /\ k <= 16 - n + (j + 1) THEN From(k) ELSE a[k]
    <3>1. CASE k = K
      <4>1. 16 - n < k /\ k <= 16 - n + (j + 1)
        BY ONLY <1>4, <3>1, j \in Nat, SMT
      <4>2. f[j + 1][k] = f[j][s]
        BY ONLY <2>3, <3>1, k \in 1..16, Zenon
      <4> QED BY ONLY <2>4, <3>1, <4>1, <4>2, Zenon
    <3>2. CASE k # K
      <4>1. (16 - n < k /\ k <= 16 - n + (j + 1)) <=> (16 - n < k /\ k <= 16 - n + j)
        BY ONLY <1>4, <3>2, j \in Nat, k \in 1..16, SMT
      <4>2. f[j + 1][k] = f[j][k]
        <5> HIDE DEF K
        <5> QED BY ONLY <2>3, <3>2, k \in 1..16, Zenon
      <4> QED BY ONLY <2>2, <4>1, <4>2, k \in 1..16, Zenon
    <3> QED BY ONLY <3>1, <3>2, Zenon
  <2> QED BY ONLY <2>5, Zenon
<1>7. Nat \subseteq T
  <2>1. 0 \in T
    <3>1. 0 \in Nat
      OBVIOUS
    <3> HIDE DEF At
    <3> QED BY ONLY <1>5, <3>1, Zenon
  <2> HIDE DEF T
  <2> QED BY ONLY <2>1, <1>6, Counting, Zenon
<1>8. At(n)
  <2>1. n \in Nat /\ n <= n
    BY ONLY <1>4, SMT
  <2> HIDE DEF At
  <2> QED BY ONLY <1>7, <2>1, Zenon
<1>9. \A k \in 1..16 : k <= 16 - n + n
  BY ONLY <1>4, SMT
<1> HIDE DEF From
<1>10. \A k \in 1..16 : f[n][k] = IF 16 - n < k THEN From(k) ELSE a[k]
  BY ONLY <1>8, <1>9, Zenon
<1> QED BY ONLY <1>10, Zenon DEF From, a, Moved

\* What follows the "::" as it has been copied.
Repeated(C, g) == [i \in 1 .. Len(C) |-> C[((i - 1) % g) + 1]]

LEMMA ZerosAre ==
  ASSUME NEW g \in Nat
  PROVE  Zeros(g) \in Seq(Shorts) /\ Len(Zeros(g)) = g /\ \A k \in 1 .. g : Zeros(g)[k] = 0
<1>1. 0 \in Shorts
  BY SMT DEF Shorts
<1>2. [i \in 1 .. g |-> 0] \in Seq(Shorts) /\ Len([i \in 1 .. g |-> 0]) = g /\ \A k \in 1 .. g : [i \in 1 .. g |-> 0][k] = 0
  BY ONLY <1>1, g \in Nat
<1> QED BY ONLY <1>2, Zenon DEF Zeros

LEMMA RepeatedAre ==
  ASSUME NEW C \in Seq(Shorts), Len(C) < 8, NEW g \in 1 .. 8
  PROVE  /\ Repeated(C, g) \in Seq(Shorts) /\ Len(Repeated(C, g)) = Len(C)
         /\ \A k \in 1 .. Len(C) : Repeated(C, g)[k] = C[((k - 1) % g) + 1] /\ ((k - 1) % g) + 1 \in 1 .. Len(C)
<1> DEFINE n == Len(C)
           r == Repeated(C, g)
           F(k) == C[((k - 1) % g) + 1]
<1>1. n \in Nat /\ \A k \in 1 .. n : C[k] \in Shorts
  BY ONLY C \in Seq(Shorts)
<1>2. r = [i \in 1 .. n |-> F(i)]
  BY ONLY Zenon DEF Repeated
<1> HIDE DEF n, r
<1>3. ASSUME NEW k \in 1 .. n PROVE ((k - 1) % g) + 1 \in 1 .. n
  <2>1. k - 1 \in Nat /\ g \in 1..16
    BY ONLY <1>1, k \in 1 .. n, g \in 1 .. 8, SMT
  <2>2. (k - 1 < g => (k - 1) % g = k - 1) /\ (k - 1) % g \in 0 .. g - 1
    BY ONLY <2>1, Wraps, Zenon
  <2> QED BY ONLY <1>1, <2>1, <2>2, k \in 1 .. n, g \in 1 .. 8, SMT
<1>4. \A k \in 1 .. n : F(k) \in Shorts
  BY ONLY <1>1, <1>3, Zenon
<1> HIDE DEF F
<1>5. r \in Seq(Shorts) /\ Len(r) = n /\ \A k \in 1 .. n : r[k] = F(k)
  BY ONLY <1>1, <1>2, <1>4
<1> QED BY ONLY <1>3, <1>5, Zenon DEF n, r, F

\* Words, zeros and words, eight in all, place by place.
InThree(w, B, D, x, z) ==
  /\ w \in Seq(Shorts) /\ Len(w) = 8
  /\ \A i \in 1 .. x : w[i] = B[i]
  /\ \A i \in x + 1 .. 8 - z : w[i] = 0
  /\ \A i \in 8 - z + 1 .. 8 : w[i] = D[i - (8 - z)]

LEMMA ThreeParts ==
  ASSUME NEW B \in Seq(Shorts), NEW D \in Seq(Shorts), NEW x \in Nat, NEW z \in Nat, NEW g \in Nat,
         Len(B) = x, Len(D) = z, x + z + g = 8
  PROVE  InThree(B \o Zeros(g) \o D, B, D, x, z)
<1> DEFINE m == B \o Zeros(g)
           w == m \o D
<1>1. Zeros(g) \in Seq(Shorts) /\ Len(Zeros(g)) = g /\ \A k \in 1 .. g : Zeros(g)[k] = 0
  BY ONLY g \in Nat, ZerosAre, Zenon
<1>2. /\ m \in Seq(Shorts) /\ Len(m) = x + g
      /\ \A k \in 1 .. x : m[k] = B[k]
      /\ \A k \in 1 .. g : m[x + k] = Zeros(g)[k]
  <2>1. /\ m \in Seq(Shorts) /\ Len(m) = Len(B) + Len(Zeros(g))
        /\ \A k \in 1 .. Len(B) : m[k] = B[k]
        /\ \A k \in 1 .. Len(Zeros(g)) : m[Len(B) + k] = Zeros(g)[k]
    <3>1. Zeros(g) \in Seq(Shorts)
      BY ONLY <1>1, Zenon
    <3> QED BY ONLY B \in Seq(Shorts), <3>1, Joined
  <2> QED BY ONLY <1>1, <2>1, Len(B) = x, Zenon
<1>3. /\ w \in Seq(Shorts) /\ Len(w) = (x + g) + z
      /\ \A k \in 1 .. x + g : w[k] = m[k]
      /\ \A k \in 1 .. z : w[(x + g) + k] = D[k]
  <2>1. m \in Seq(Shorts)
    BY ONLY <1>2, Zenon
  <2> HIDE DEF m
  <2>2. /\ w \in Seq(Shorts) /\ Len(w) = Len(m) + Len(D)
        /\ \A k \in 1 .. Len(m) : w[k] = m[k]
        /\ \A k \in 1 .. Len(D) : w[Len(m) + k] = D[k]
    BY ONLY D \in Seq(Shorts), <2>1, Joined
  <2> QED BY ONLY <1>2, <2>2, Len(D) = z, Zenon
<1>4. /\ (x + g) + z = 8 /\ x + g = 8 - z
      /\ \A i \in 1 .. x : i \in 1 .. x + g
      /\ \A i \in x + 1 .. 8 - z : i \in 1 .. x + g /\ i - x \in 1 .. g /\ x + (i - x) = i
      /\ \A i \in 8 - z + 1 .. 8 : i - (8 - z) \in 1 .. z /\ (x + g) + (i - (8 - z)) = i
  BY ONLY x \in Nat, z \in Nat, g \in Nat, x + z + g = 8, SMT
<1> HIDE DEF m, w
<1>5. \A i \in 1 .. x : w[i] = B[i]
  BY ONLY <1>2, <1>3, <1>4, Zenon
<1>6. ASSUME NEW i \in x + 1 .. 8 - z PROVE w[i] = 0
  <2>1. i \in 1 .. x + g /\ i - x \in 1 .. g /\ x + (i - x) = i
    BY ONLY <1>4, i \in x + 1 .. 8 - z, Zenon
  <2>2. w[i] = m[i]
    BY ONLY <1>3, <2>1, Zenon
  <2>3. m[x + (i - x)] = Zeros(g)[i - x]
    BY ONLY <1>2, <2>1, Zenon
  <2>4. Zeros(g)[i - x] = 0
    BY ONLY <1>1, <2>1, Zenon
  <2> QED BY ONLY <2>1, <2>2, <2>3, <2>4, Zenon
<1>7. ASSUME NEW i \in 8 - z + 1 .. 8 PROVE w[i] = D[i - (8 - z)]
  <2>1. i - (8 - z) \in 1 .. z /\ (x + g) + (i - (8 - z)) = i
    BY ONLY <1>4, i \in 8 - z + 1 .. 8, Zenon
  <2>2. w[(x + g) + (i - (8 - z))] = D[i - (8 - z)]
    BY ONLY <1>3, <2>1, Zenon
  <2> QED BY ONLY <2>1, <2>2, Zenon
<1>8. Len(w) = 8
  BY ONLY <1>3, <1>4, Zenon
<1> QED BY ONLY <1>3, <1>5, <1>6, <1>7, <1>8, Zenon DEF w, m, InThree

LEMMA HalfWraps ==
  ASSUME NEW g \in 1 .. 8, NEW y \in 0 .. 15
  PROVE  /\ (y % (2 * g)) \div 2 = (y \div 2) % g
         /\ (y % (2 * g)) % 2 = y % 2
         /\ y % (2 * g) \in 0 .. y
<1>1. g = 1 \/ g = 2 \/ g = 3 \/ g = 4 \/ g = 5 \/ g = 6 \/ g = 7 \/ g = 8
  OBVIOUS
<1>2. CASE g = 1
  BY ONLY <1>2, y \in 0 .. 15, SMT
<1>3. CASE g = 2
  BY ONLY <1>3, y \in 0 .. 15, SMT
<1>4. CASE g = 3
  BY ONLY <1>4, y \in 0 .. 15, SMT
<1>5. CASE g = 4
  BY ONLY <1>5, y \in 0 .. 15, SMT
<1>6. CASE g = 5
  BY ONLY <1>6, y \in 0 .. 15, SMT
<1>7. CASE g = 6
  BY ONLY <1>7, y \in 0 .. 15, SMT
<1>8. CASE g = 7
  BY ONLY <1>8, y \in 0 .. 15, SMT
<1>9. CASE g = 8
  BY ONLY <1>9, y \in 0 .. 15, SMT
<1> QED BY ONLY <1>1, <1>2, <1>3, <1>4, <1>5, <1>6, <1>7, <1>8, <1>9, Zenon

\* The words v are x words B and z words C, and g are wanting to eight.
Around(v, B, C, x, z, g) ==
  /\ B \in Seq(Shorts) /\ C \in Seq(Shorts) /\ x \in Nat /\ z \in Nat /\ g \in 1 .. 8
  /\ Len(B) = x /\ Len(C) = z /\ x + z + g = 8
  /\ v \in Seq(Shorts) /\ Len(v) = x + z
  /\ \A k \in 1 .. x : v[k] = B[k]
  /\ \A k \in 1 .. z : v[x + k] = C[k]

DecompressedInto(v, B, C, x, z, g) ==
  Decompress(FirstBytes(v, x + z), 2 * x) = FirstBytes(B \o Zeros(g) \o Repeated(C, g), 8)

LEMMA Decompresses ==
  ASSUME NEW v, NEW B, NEW C, NEW x, NEW z, NEW g, Around(v, B, C, x, z, g)
  PROVE  DecompressedInto(v, B, C, x, z, g)
<1> DEFINE read == FirstBytes(v, x + z)
           c == 2 * x
           n == 2 * z
           h == 2 * g
           D == Repeated(C, g)
           w == B \o Zeros(g) \o D
<1>w. /\ B \in Seq(Shorts) /\ C \in Seq(Shorts) /\ x \in Nat /\ z \in Nat /\ g \in 1 .. 8
      /\ Len(B) = x /\ Len(C) = z /\ x + z + g = 8
      /\ v \in Seq(Shorts) /\ Len(v) = x + z
      /\ \A k \in 1 .. x : v[k] = B[k]
      /\ \A k \in 1 .. z : v[x + k] = C[k]
  BY ONLY Around(v, B, C, x, z, g), Zenon DEF Around
<1>0. x + z < 8 /\ x + z \in 0 .. Len(v) /\ z < 8 /\ g \in Nat
  BY ONLY <1>w, SMT
<1>1. read \in Seq(Bytes) /\ Len(read) = 2 * (x + z)
  BY ONLY <1>w, <1>0, FirstBytesType, Zenon
<1>2. /\ c \in 0 .. Len(read) /\ Len(read) < 16 /\ n = Len(read) - c /\ h = 16 - Len(read)
      /\ 16 - n = c + h
  BY ONLY <1>w, <1>0, <1>1, SMT
<1>3. PICK f : Moves(read, c, f) /\ Copied(read, c) = f[Len(read) - c]
  <2> HIDE DEF read, c
  <2> QED BY ONLY <1>1, <1>2, CopiedMoves, Zenon
<1>4. \A k \in 1..16 : f[n][k] = IF 16 - n < k THEN read[c + ((k - (16 - n) - 1) % h) + 1]
                                 ELSE Unmoved(read)[k]
  <2> HIDE DEF read, c, n, h
  <2>1. Moved(read, c, f, n, h)
    BY ONLY <1>1, <1>2, <1>3, MovesTo, Zenon
  <2> QED BY ONLY <2>1, Zenon DEF Moved
<1>5. Decompress(read, c) = [k \in 1..16 |-> IF c < k /\ k <= 16 - n THEN 0 ELSE f[n][k]]
  <2> HIDE DEF read, c, n, h
  <2> QED BY ONLY <1>2, <1>3, Zenon DEF Decompress
<1>6. /\ D \in Seq(Shorts) /\ Len(D) = z
      /\ \A k \in 1 .. z : D[k] = C[((k - 1) % g) + 1] /\ ((k - 1) % g) + 1 \in 1 .. z
  BY ONLY <1>w, <1>0, RepeatedAre, Zenon
<1>7. /\ w \in Seq(Shorts) /\ Len(w) = 8
      /\ \A i \in 1 .. x : w[i] = B[i]
      /\ \A i \in x + 1 .. 8 - z : w[i] = 0
      /\ \A i \in 8 - z + 1 .. 8 : w[i] = D[i - (8 - z)]
  <2> HIDE DEF D
  <2>1. InThree(w, B, D, x, z)
    BY ONLY <1>w, <1>0, <1>6, ThreeParts, Zenon
  <2> QED BY ONLY <2>1, Zenon DEF InThree
<1>8. \A k \in 1 .. 2 * (x + z) : read[k] = ByteOf(v, k)
  BY ONLY Zenon DEF FirstBytes
<1> HIDE DEF read, D, w
<1>9. ASSUME NEW k \in 1..16 PROVE Decompress(read, c)[k] = ByteOf(w, k)
  <2> DEFINE i == (k + 1) \div 2
  <2>1. i \in 1 .. 8
    BY ONLY k \in 1..16, SMT
  <2>2. Decompress(read, c)[k] = IF c < k /\ k <= 16 - n THEN 0 ELSE f[n][k]
    <3> HIDE DEF c, n
    <3> QED BY ONLY <1>5, k \in 1..16, Zenon
  <2>3. ByteOf(w, k) = Word(w[i])[2 - (k % 2)] /\ ByteOf(v, k) = Word(v[i])[2 - (k % 2)]
    BY ONLY Zenon DEF ByteOf
  <2>4. CASE k <= c
    <3>1. i \in 1 .. x /\ ~(c < k) /\ ~(16 - n < k) /\ k \in 1 .. 2 * (x + z) /\ k <= 2 * (x + z)
      BY ONLY <1>w, <1>0, <2>4, k \in 1..16, SMT
    <3>2. Unmoved(read)[k] = read[k]
      BY ONLY <1>1, <3>1, k \in 1..16, Zenon DEF Unmoved
    <3>3. Decompress(read, c)[k] = ByteOf(v, k)
      <4> HIDE DEF c, n, h
      <4> QED BY ONLY <1>4, <1>8, <2>2, <3>1, <3>2, k \in 1..16, Zenon
    <3>4. w[i] = v[i]
      <4> HIDE DEF i
      <4> QED BY ONLY <1>w, <1>7, <3>1, Zenon
    <3> QED BY ONLY <2>3, <3>3, <3>4, Zenon
  <2>5. CASE c < k /\ k <= 16 - n
    <3>1. i \in x + 1 .. 8 - z
      BY ONLY <1>w, <1>0, <2>5, k \in 1..16, SMT
    <3>2. w[i] = 0
      <4> HIDE DEF i
      <4> QED BY ONLY <1>7, <3>1, Zenon
    <3>3. Word(0) = <<0, 0>> /\ (k % 2 = 0 \/ k % 2 = 1)
      BY ONLY k \in 1..16, SMT DEF Word
    <3>4. Word(0)[2 - (k % 2)] = 0
      <4>1. <<0, 0>>[2 - 0] = 0 /\ <<0, 0>>[2 - 1] = 0
        OBVIOUS
      <4> QED BY ONLY <3>3, <4>1, Zenon
    <3> QED BY ONLY <2>2, <2>3, <2>5, <3>2, <3>4, Zenon
  <2>6. CASE 16 - n < k
    <3> DEFINE y == k - (16 - n) - 1
               s == c + (y % h) + 1
               m == y \div 2
    <3>1. y \in 0 .. 15 /\ i \in 8 - z + 1 .. 8 /\ i - (8 - z) = m + 1 /\ m + 1 \in 1 .. z /\ (m + 1) - 1 = m
          /\ y < n /\ y % 2 = (k + 1) % 2 /\ ~(c < k /\ k <= 16 - n)
      BY ONLY <1>w, <1>0, <2>6, k \in 1..16, SMT
    <3>2. (y % h) \div 2 = m % g /\ (y % h) % 2 = y % 2 /\ y % h \in 0 .. y
      BY ONLY <1>w, <3>1, HalfWraps, Zenon
    <3>3. /\ s \in 1 .. 2 * (x + z) /\ (s + 1) \div 2 = x + ((m % g) + 1) /\ s % 2 = k % 2
      <4> DEFINE r == y % h
      <4>1. r \in Nat /\ r \div 2 = m % g /\ r % 2 = (k + 1) % 2 /\ r < n
        <5> HIDE DEF m, h, n
        <5>1. y \in 0 .. 15 /\ y < n /\ y % h \in 0 .. y
          BY ONLY <3>1, <3>2, Zenon
        <5>2. n \in Int
          BY ONLY <1>w, SMT DEF n
        <5> HIDE DEF y
        <5>3. r \in Nat /\ r < n
          BY ONLY <5>1, <5>2, SMT
        <5> QED BY ONLY <3>1, <3>2, <5>3, Zenon
      <4> HIDE DEF r, m, y
      <4>2. s = 2 * x + r + 1
        BY ONLY Zenon DEF r
      <4>3. 2 * x + r + 1 \in 1 .. 2 * (x + z) /\ (2 * x + r + 1 + 1) \div 2 = x + ((r \div 2) + 1)
            /\ (2 * x + r + 1) % 2 = k % 2
        <5>1. x \in Nat /\ z \in Nat /\ n = 2 * z
          BY ONLY <1>w, Zenon DEF n
        <5>2. (2 * x + r + 1 + 1) \div 2 = x + ((r \div 2) + 1)
          BY ONLY <4>1, <5>1, SMT
        <5>3. (2 * x + r + 1) % 2 = k % 2
          BY ONLY <4>1, <5>1, k \in 1..16, SMT
        <5>4. 2 * x + r + 1 \in 1 .. 2 * (x + z)
          BY ONLY <4>1, <5>1, SMT
        <5> QED BY ONLY <5>2, <5>3, <5>4, Zenon
      <4> QED BY ONLY <4>1, <4>2, <4>3, Zenon
    <3>4. Decompress(read, c)[k] = ByteOf(v, s)
      <4>1. f[n][k] = read[s]
        <5> HIDE DEF c, n, h
        <5> QED BY ONLY <1>4, <2>6, k \in 1..16, Zenon
      <4> HIDE DEF s
      <4> QED BY ONLY <1>8, <2>2, <3>1, <3>3, <4>1, Zenon
    <3>5. w[i] = v[x + ((m % g) + 1)]
      <4> HIDE DEF i, m
      <4>1. w[i] = D[m + 1]
        BY ONLY <1>7, <3>1, Zenon
      <4>2. D[m + 1] = C[(m % g) + 1] /\ (m % g) + 1 \in 1 .. z
        <5>1. D[m + 1] = C[(((m + 1) - 1) % g) + 1] /\ (((m + 1) - 1) % g) + 1 \in 1 .. z
          BY ONLY <1>6, <3>1, Zenon
        <5>2. (m + 1) - 1 = m
          BY ONLY <3>1, Zenon
        <5> QED BY ONLY <5>1, <5>2, Zenon
      <4>3. v[x + ((m % g) + 1)] = C[(m % g) + 1]
        BY ONLY <1>w, <4>2, Zenon
      <4> QED BY ONLY <4>1, <4>2, <4>3, Zenon
    <3>6. ByteOf(v, s) = Word(v[x + ((m % g) + 1)])[2 - (k % 2)]
      <4> HIDE DEF s
      <4> QED BY ONLY <3>3, Zenon DEF ByteOf
    <3> QED BY ONLY <2>3, <3>4, <3>5, <3>6, Zenon
  <2>7. k <= c \/ (c < k /\ k <= 16 - n) \/ 16 - n < k
    BY ONLY <1>w, <1>0, k \in 1..16, SMT
  <2> QED BY ONLY <2>4, <2>5, <2>6, <2>7, Zenon
<1>10. FirstBytes(w, 8) = [k \in 1..16 |-> ByteOf(w, k)]
  <2>1. 2 * 8 = 16
    OBVIOUS
  <2> QED BY ONLY <2>1, Zenon DEF FirstBytes
<1>11. Decompress(read, c) = [k \in 1..16 |-> ByteOf(w, k)]
  <2>1. \A k \in 1..16 : (IF c < k /\ k <= 16 - n THEN 0 ELSE f[n][k]) = Decompress(read, c)[k]
    <3> HIDE DEF c, n
    <3> QED BY ONLY <1>5, Zenon
  <2>2. Decompress(read, c) = [k \in 1..16 |-> Decompress(read, c)[k]]
    <3> HIDE DEF c, n
    <3> QED BY ONLY <1>5, Zenon
  <2> HIDE DEF c, n
  <2> QED BY ONLY <1>9, <2>2, Zenon
<1> QED BY ONLY <1>10, <1>11, Zenon DEF read, w, D, DecompressedInto

-----------------------------------------------------------------------------
(* IP::Parse.                                                              *)

LEMMA ParsesV6 ==
  ASSUME NEW t \in Seq(Chars), MeaningV6(t) # None
  PROVE  /\ MeaningV6(t).version = 6
         /\ ParseV6(t) = IF Doubles(t) = {} THEN MeaningV6(t)
                         ELSE Address(WordsIn(Before(t)) \o Zeros(Gap(t)) \o Repeated(WordsIn(After(t)), Gap(t)))
<1>1. \A v : Address(v).version = 6
  <2>1. ASSUME NEW v PROVE Address(v).version = 6
    <3> DEFINE b == FirstBytes(v, 8)
    <3> HIDE DEF b
    <3>1. Address(v) = [version |-> 6, addr |-> b]
      BY ONLY AddressBytes, Zenon DEF b
    <3> QED BY ONLY <3>1
  <2> QED BY ONLY <2>1, Zenon
<1>2. CASE Doubles(t) = {}
  <2>1. AreWords(t) /\ Len(t) = 15 /\ MeaningV6(t) = Address(WordsIn(t))
    BY ONLY <1>2, MeaningV6(t) # None, Zenon DEF MeaningV6
  <2>2. ParseV6(t) = Address(WordsIn(t))
    BY ONLY <2>1, t \in Seq(Chars), ParsesV6Whole, Zenon
  <2> QED BY ONLY <1>1, <1>2, <2>1, <2>2, Zenon
<1>3. CASE Doubles(t) # {}
  <2> DEFINE B == WordsIn(Before(t))
             C == WordsIn(After(t))
             g == Gap(t)
             v == AllWords(t)
  <2>1. /\ AreWords(Before(t)) /\ AreWords(After(t)) /\ Gap(t) > 0
        /\ MeaningV6(t) = Address(B \o Zeros(g) \o C)
    BY ONLY <1>3, MeaningV6(t) # None, Zenon DEF MeaningV6
  <2>2. PICK x \in Nat, z \in Nat :
           /\ B \in Seq(Shorts) /\ Len(B) = x
           /\ C \in Seq(Shorts) /\ Len(C) = z
           /\ v \in Seq(Shorts) /\ Len(v) = x + z
           /\ \A k \in 1 .. x : v[k] = B[k]
           /\ \A k \in 1 .. z : v[x + k] = C[k]
           /\ g = 8 - x - z /\ x + z < 8
    BY ONLY <1>3, <2>1, t \in Seq(Chars), AllWordsType, Zenon
  <2>3. g \in 1 .. 8 /\ x + z + g = 8
    <3>1. g = 8 - x - z /\ x + z < 8
      BY ONLY <2>2, Zenon
    <3> HIDE DEF g
    <3> QED BY ONLY <3>1, x \in Nat, z \in Nat, SMT
  <2>4. ParseV6(t) = [version |-> 6, addr |-> Decompress(FirstBytes(v, x + z), 2 * x)]
    BY ONLY <1>3, <2>1, <2>2, t \in Seq(Chars), ParsesV6Doubled, Zenon
  <2> HIDE DEF B, C, g, v
  <2>5. Decompress(FirstBytes(v, x + z), 2 * x) = FirstBytes(B \o Zeros(g) \o Repeated(C, g), 8)
    <3>1. Around(v, B, C, x, z, g)
      BY ONLY <2>2, <2>3, x \in Nat, z \in Nat, Zenon DEF Around
    <3>2. DecompressedInto(v, B, C, x, z, g)
      BY ONLY <3>1, Decompresses, Zenon
    <3> QED BY ONLY <3>2, Zenon DEF DecompressedInto
  <2>6. ParseV6(t) = Address(B \o Zeros(g) \o Repeated(C, g))
    BY ONLY <2>4, <2>5, AddressBytes, Zenon
  <2> QED BY ONLY <1>1, <1>3, <2>1, <2>6, Zenon DEF B, C, g
<1> QED BY ONLY <1>2, <1>3, Zenon

\* ReadsItsMeaning, of a text and what was read of it.
ReadRight(t, p) ==
  IF Meaning(t) # None
  THEN LET meant == Meaning(t)
           after == WordsIn(After(t))
           repeated == [i \in 1 .. Len(after) |-> after[((i - 1) % Gap(t)) + 1]]
       IN  p = IF meant.version = 4
                 THEN [version |-> 4, addr |-> <<0, meant.addr[1], meant.addr[2], meant.addr[3]>>]
               ELSE IF Doubles(t) = {} THEN meant
               ELSE Address(WordsIn(Before(t)) \o Zeros(Gap(t)) \o repeated)
  ELSE p # None =>
    IF p.version = 4
    THEN /\ \A i \in DOMAIN t : IsNumber(t[i]) \/ t[i] = Dot
         /\ Cardinality(Indices(t, Dot)) = 3
    ELSE /\ \A i \in DOMAIN t : t[i] = Colon \/ t[i] \in Shorts
         /\ Cardinality(DOMAIN t \ Indices(t, Colon)) <= 8
         /\ \A i, j \in Doubles(t) : i - j \in -1..1

LEMMA ParsedRight ==
  ASSUME NEW t \in Seq(Chars)
  PROVE  ReadRight(t, ParseIP(t))
<1>1. 4 # 6
  OBVIOUS
<1>2. CASE Indices(t, Colon) # {}
  <2>1. ParseIP(t) = ParseV6(t) /\ Meaning(t) = MeaningV6(t)
    BY ONLY <1>2, Zenon DEF ParseIP, Meaning
  <2>2. CASE MeaningV6(t) # None
    <3>1. /\ MeaningV6(t).version = 6
          /\ ParseV6(t) = IF Doubles(t) = {} THEN MeaningV6(t)
                          ELSE Address(WordsIn(Before(t)) \o Zeros(Gap(t)) \o Repeated(WordsIn(After(t)), Gap(t)))
      BY ONLY t \in Seq(Chars), <2>2, ParsesV6, Zenon
    <3> QED BY ONLY <1>1, <2>1, <2>2, <3>1, Zenon DEF ReadRight, Repeated
  <2>3. CASE ~(MeaningV6(t) # None)
    <3>1. CASE ParseV6(t) # None
      <4>1. /\ ParseV6(t).version = 6
            /\ \A i \in DOMAIN t : t[i] = Colon \/ t[i] \in Shorts
            /\ Cardinality(DOMAIN t \ Indices(t, Colon)) <= 8
            /\ \A i, j \in Doubles(t) : i - j \in -1..1
        BY ONLY t \in Seq(Chars), <3>1, RefusesV6, Zenon
      <4> QED BY ONLY <1>1, <2>1, <2>3, <4>1, Zenon DEF ReadRight
    <3>2. CASE ~(ParseV6(t) # None)
      BY ONLY <2>1, <2>3, <3>2, Zenon DEF ReadRight
    <3> QED BY ONLY <3>1, <3>2, Zenon
  <2> QED BY ONLY <2>2, <2>3, Zenon
<1>3. CASE ~(Indices(t, Colon) # {})
  <2>1. ParseIP(t) = ParseV4(t) /\ Meaning(t) = MeaningV4(t)
    BY ONLY <1>3, Zenon DEF ParseIP, Meaning
  <2>2. CASE MeaningV4(t) # None
    <3> DEFINE a == <<t[1], t[3], t[5], t[7]>>
    <3>1. MeaningV4(t) = [version |-> 4, addr |-> a]
      BY ONLY t \in Seq(Chars), <2>2, MeaningV4Is, Zenon
    <3>2. ParseV4(t) = [version |-> 4, addr |-> <<0, t[1], t[3], t[5]>>]
      BY ONLY t \in Seq(Chars), <2>2, ParsesV4, Zenon
    <3>3. a[1] = t[1] /\ a[2] = t[3] /\ a[3] = t[5]
      OBVIOUS
    <3> HIDE DEF a
    <3>4. MeaningV4(t).version = 4 /\ MeaningV4(t).addr = a
      BY ONLY <3>1
    <3>5. ParseV4(t) = [version |-> 4, addr |-> <<0, MeaningV4(t).addr[1], MeaningV4(t).addr[2], MeaningV4(t).addr[3]>>]
      BY ONLY <3>2, <3>3, <3>4, Zenon
    <3> QED BY ONLY <2>1, <2>2, <3>4, <3>5, Zenon DEF ReadRight
  <2>3. CASE ~(MeaningV4(t) # None)
    <3>1. CASE ParseV4(t) # None
      <4>1. /\ ParseV4(t).version = 4
            /\ \A i \in DOMAIN t : IsNumber(t[i]) \/ t[i] = Dot
            /\ Cardinality(Indices(t, Dot)) = 3
        BY ONLY t \in Seq(Chars), <3>1, RefusesV4, Zenon
      <4> QED BY ONLY <2>1, <2>3, <4>1, Zenon DEF ReadRight
    <3>2. CASE ~(ParseV4(t) # None)
      BY ONLY <2>1, <2>3, <3>2, Zenon DEF ReadRight
    <3> QED BY ONLY <3>1, <3>2, Zenon
  <2> QED BY ONLY <2>2, <2>3, Zenon
<1> QED BY ONLY <1>2, <1>3, Zenon

-----------------------------------------------------------------------------
(* IP::ToString.                                                           *)

LEMMA PrintsV4 ==
  ASSUME NEW a \in [1..4 -> Bytes]
  PROVE  PrintV4(a) \in Seq(Chars) /\ Meaning(PrintV4(a)) = [version |-> 4, addr |-> a]
<1> DEFINE t == PrintV4(a)
<1>1. a[1] \in Bytes /\ a[2] \in Bytes /\ a[3] \in Bytes /\ a[4] \in Bytes
  <2>1. 1 \in 1..4 /\ 2 \in 1..4 /\ 3 \in 1..4 /\ 4 \in 1..4
    OBVIOUS
  <2> QED BY ONLY <2>1, a \in [1..4 -> Bytes], Zenon
<1>2. \A b \in Bytes : b \in Chars /\ b # Colon
  <2>1. \A b \in Bytes : b \in Nat
    BY SMT DEF Bytes
  <2> QED BY ONLY <2>1, CharsAre, Zenon DEF Chars
<1>3. Dot \in Chars /\ Dot # Colon
  BY ONLY CharsAre, Zenon
<1>4. t = <<a[1], Dot, a[2], Dot, a[3], Dot, a[4]>>
  BY ONLY Zenon DEF PrintV4
<1> HIDE DEF t
<1>5. /\ t \in Seq(Chars) /\ Len(t) = 7 /\ t[1] = a[1] /\ t[2] = Dot /\ t[3] = a[2] /\ t[4] = Dot
      /\ t[5] = a[3] /\ t[6] = Dot /\ t[7] = a[4]
  <2> DEFINE S == Chars
  <2> HIDE DEF S
  <2>1. a[1] \in S /\ a[2] \in S /\ a[3] \in S /\ a[4] \in S /\ Dot \in S
    BY ONLY <1>1, <1>2, <1>3, Zenon DEF S
  <2>2. t \in Seq(S)
    BY ONLY <2>1, <1>4
  <2>3. /\ Len(t) = 7 /\ t[1] = a[1] /\ t[2] = Dot /\ t[3] = a[2] /\ t[4] = Dot
        /\ t[5] = a[3] /\ t[6] = Dot /\ t[7] = a[4]
    BY ONLY <1>4
  <2> QED BY ONLY <2>2, <2>3, Zenon DEF S
<1>6. \A i \in 1..7 : i = 1 \/ i = 2 \/ i = 3 \/ i = 4 \/ i = 5 \/ i = 6 \/ i = 7
  OBVIOUS
<1>7. Indices(t, Colon) = {}
  <2>1. DOMAIN t = 1..7
    BY ONLY <1>5
  <2>2. \A i \in 1..7 : t[i] # Colon
    BY ONLY <1>1, <1>2, <1>3, <1>5, <1>6, Zenon
  <2> QED BY ONLY <2>1, <2>2, Zenon DEF Indices
<1>8. \A i \in 1..7 : IF i % 2 = 1 THEN t[i] \in Bytes ELSE t[i] = Dot
  <2>1. /\ 1 % 2 = 1 /\ 2 % 2 # 1 /\ 3 % 2 = 1 /\ 4 % 2 # 1 /\ 5 % 2 = 1 /\ 6 % 2 # 1 /\ 7 % 2 = 1
    OBVIOUS
  <2> QED BY ONLY <1>1, <1>5, <1>6, <2>1, Zenon
<1>9. [i \in 1..4 |-> t[2 * i - 1]] = a
  <2>1. \A i \in 1..4 : t[2 * i - 1] = a[i]
    <3>1. \A i \in 1..4 : i = 1 \/ i = 2 \/ i = 3 \/ i = 4
      OBVIOUS
    <3>2. 2 * 1 - 1 = 1 /\ 2 * 2 - 1 = 3 /\ 2 * 3 - 1 = 5 /\ 2 * 4 - 1 = 7
      OBVIOUS
    <3> QED BY ONLY <1>5, <3>1, <3>2, Zenon
  <2> QED BY ONLY <2>1, a \in [1..4 -> Bytes], Zenon
<1>10. MeaningV4(t) = [version |-> 4, addr |-> [i \in 1..4 |-> t[2 * i - 1]]]
  <2>1. Len(t) = 7
    BY ONLY <1>5, Zenon
  <2> QED BY ONLY <2>1, <1>8, Zenon DEF MeaningV4
<1>11. Meaning(t) = MeaningV4(t)
  BY ONLY <1>7, Zenon DEF Meaning
<1> QED BY ONLY <1>5, <1>9, <1>10, <1>11, Zenon DEF t

LEMMA WordOfIs ==
  ASSUME NEW a \in [1..16 -> Bytes], NEW i \in 1 .. 8
  PROVE  WordOf(a, i) \in Shorts /\ Word(WordOf(a, i)) = <<a[2 * i - 1], a[2 * i]>>
<1> DEFINE x == a[2 * i - 1]
           y == a[2 * i]
           w == 256 * x + y
<1>1. 2 * i - 1 \in 1..16 /\ 2 * i \in 1..16
  BY ONLY i \in 1 .. 8, SMT
<1>2. x \in Bytes /\ y \in Bytes
  BY ONLY <1>1, a \in [1..16 -> Bytes], Zenon
<1> HIDE DEF x, y
<1>3. x \in Nat /\ x <= 255 /\ y \in Nat /\ y <= 255
  BY ONLY <1>2, SMT DEF Bytes
<1>4. w \in Nat /\ w <= 65535 /\ w \div 256 = x /\ w % 256 = y
  BY ONLY <1>3, SMT
<1>5. WordOf(a, i) = w
  BY ONLY Zenon DEF WordOf, x, y
<1> HIDE DEF w
<1>6. w \in Shorts
  BY ONLY <1>4, ShortsAre, SMT
<1>7. Word(w) = <<x, y>>
  BY ONLY <1>4, SMT DEF Word
<1> QED BY ONLY <1>5, <1>6, <1>7, Zenon DEF x, y

ZeroRuns(a) ==
  {r \in (1..8) \X (2..8) :
     r[1] + r[2] <= 9 /\ \A j \in r[1] .. r[1] + r[2] - 1 : WordOf(a, j) = 0}

LEMMA ZeroRunIs ==
  ASSUME NEW a PROVE ZeroRun(a) = <<9, 0>> \/ ZeroRun(a) \in ZeroRuns(a)
<1> DEFINE Runs == ZeroRuns(a)
           Longest == {r \in Runs : \A s \in Runs : s[2] <= r[2]}
<1>1. ZeroRun(a) = IF Runs = {} THEN <<9, 0>> ELSE CHOOSE r \in Longest : \A s \in Longest : r[1] <= s[1]
  BY ONLY Zenon DEF ZeroRun, ZeroRuns
<1>2. \A r \in Runs : r[1] \in 1..8 /\ r[2] \in 2..8
  BY ONLY SMT DEF ZeroRuns
<1> HIDE DEF Runs
<1>3. CASE Runs # {}
  <2>1. \E r \in Runs : \A s \in Runs : s[2] <= r[2]
    <3> DEFINE T == {9 - r[2] : r \in Runs}
    <3>1. T \in SUBSET Nat /\ T # {}
      BY ONLY <1>2, <1>3, SMT
    <3>2. PICK m \in T : \A k \in T : m <= k
      <4> HIDE DEF T
      <4> QED BY ONLY <3>1, LeastNumber, Zenon
    <3>3. PICK r \in Runs : m = 9 - r[2]
      BY ONLY <3>2, Zenon
    <3>4. ASSUME NEW s \in Runs PROVE s[2] <= r[2]
      <4>1. 9 - r[2] <= 9 - s[2]
        BY ONLY <3>2, <3>3, s \in Runs, Zenon
      <4>2. r[2] \in Int /\ s[2] \in Int
        BY ONLY <1>2, r \in Runs, s \in Runs, SMT
      <4> QED BY ONLY <4>1, <4>2, SMT
    <3> QED BY ONLY <3>4, Zenon
  <2>2. Longest # {}
    BY ONLY <2>1, Zenon
  <2>3. \E r \in Longest : \A s \in Longest : r[1] <= s[1]
    <3>1. \A r \in Longest : r[1] \in 1..8
      BY ONLY <1>2, Zenon
    <3> HIDE DEF Longest
    <3> DEFINE T == {r[1] : r \in Longest}
    <3>2. T \in SUBSET Nat /\ T # {}
      BY ONLY <2>2, <3>1, SMT
    <3>3. PICK m \in T : \A k \in T : m <= k
      <4> HIDE DEF T
      <4> QED BY ONLY <3>2, LeastNumber, Zenon
    <3>4. PICK r \in Longest : m = r[1]
      BY ONLY <3>3, Zenon
    <3> QED BY ONLY <3>3, <3>4, Zenon
  <2>4. ZeroRun(a) = CHOOSE r \in Longest : \A s \in Longest : r[1] <= s[1]
    BY ONLY <1>1, <1>3, Zenon
  <2>5. ZeroRun(a) \in Longest
    <3> HIDE DEF Longest
    <3> QED BY ONLY <2>3, <2>4, Zenon
  <2> QED BY ONLY <2>5, Zenon DEF Runs
<1>4. CASE Runs = {}
  BY ONLY <1>1, <1>4, Zenon
<1> QED BY ONLY <1>3, <1>4, Zenon

Prints(f, run, a) ==
  f[0] = <<>> /\ \A i \in 1..8 : f[i] = PrintWord(run, a, f[i - 1], i)

LEMMA PrintWordType ==
  ASSUME NEW a \in [1..16 -> Bytes], NEW run, NEW t \in Seq(Chars), NEW i \in 1..8
  PROVE  PrintWord(run, a, t, i) \in Seq(Chars)
<1> DEFINE S == Chars
           w == WordOf(a, i)
<1>1. Colon \in S /\ w \in S
  <2>1. w \in Shorts
    BY ONLY a \in [1..16 -> Bytes], i \in 1..8, WordOfIs, Zenon
  <2>2. w \in Nat
    BY ONLY <2>1, WordType, Zenon
  <2> QED BY ONLY <2>2, CharsAre, Zenon DEF Chars
<1> HIDE DEF S, w
<1>2. t \in Seq(S)
  BY ONLY t \in Seq(Chars), Zenon DEF S
<1>3. t \o <<Colon, Colon>> \in Seq(S) /\ t \o <<Colon>> \in Seq(S) /\ t \o <<w>> \in Seq(S)
      /\ (t \o <<Colon>>) \o <<w>> \in Seq(S)
  BY ONLY <1>1, <1>2
<1>4. \/ PrintWord(run, a, t, i) = t \o <<Colon, Colon>> \/ PrintWord(run, a, t, i) = t
      \/ PrintWord(run, a, t, i) = t \o <<w>> \/ PrintWord(run, a, t, i) = (t \o <<Colon>>) \o <<w>>
  BY ONLY Zenon DEF PrintWord, w
<1> QED BY ONLY <1>2, <1>3, <1>4, Zenon DEF S

LEMMA PrintV6Is ==
  ASSUME NEW a \in [1..16 -> Bytes]
  PROVE  \E f : /\ f \in [0..8 -> Seq(Chars)] /\ Prints(f, ZeroRun(a), a)
                /\ PrintV6(a) = f[8]
<1> DEFINE S == Seq(Chars)
           run == ZeroRun(a)
           step == [i \in 1..8 |-> [t \in S |-> PrintWord(run, a, t, i)]]
           g == CHOOSE g : g = [i \in 0..8 |-> IF i = 0 THEN <<>> ELSE PrintWord(run, a, g[i - 1], i)]
<1>1. 8 \in Nat
  OBVIOUS
<1>2. <<>> \in S
  OBVIOUS
<1>3. \A i \in 1..8 : \A t \in S : PrintWord(run, a, t, i) \in S
  BY ONLY a \in [1..16 -> Bytes], PrintWordType, Zenon
<1>9. PrintV6(a) = g[8]
  BY ONLY Zenon DEF PrintV6
<1> HIDE DEF S, run
<1>4. step \in [1..8 -> [S -> S]]
  BY ONLY <1>3, Zenon
<1>5. PICK f : Loops(f, 8, S, <<>>, step)
  <2> HIDE DEF step
  <2> QED BY ONLY <1>1, <1>2, <1>4, LoopExists, Zenon
<1>5a. f \in [0..8 -> S] /\ f[0] = <<>> /\ \A i \in 1..8 : f[i] = step[i][f[i - 1]]
  <2> HIDE DEF step
  <2> QED BY ONLY <1>5, Zenon DEF Loops
<1>6. ASSUME NEW i \in 1..8 PROVE f[i] = PrintWord(run, a, f[i - 1], i)
  <2>1. i - 1 \in 0..8
    BY ONLY i \in 1..8, SMT
  <2>2. f[i - 1] \in S
    BY ONLY <2>1, <1>5a, Zenon
  <2> QED BY ONLY <1>5a, <2>2, i \in 1..8, Zenon
<1>7. f = [i \in 0..8 |-> IF i = 0 THEN <<>> ELSE PrintWord(run, a, f[i - 1], i)]
  <2>1. ASSUME NEW i \in 0..8 PROVE f[i] = IF i = 0 THEN <<>> ELSE PrintWord(run, a, f[i - 1], i)
    <3>1. i # 0 => i \in 1..8
      BY ONLY i \in 0..8, SMT
    <3> QED BY ONLY <1>5a, <1>6, <3>1, Zenon
  <2>2. f = [i \in 0..8 |-> f[i]]
    BY ONLY <1>5a, Zenon
  <2> QED BY ONLY <2>1, <2>2, Zenon
<1>8. g = [i \in 0..8 |-> IF i = 0 THEN <<>> ELSE PrintWord(run, a, g[i - 1], i)]
  BY ONLY <1>7, Zenon
<1> HIDE DEF g, step
<1>10. g[0] = <<>> /\ \A i \in 1..8 : g[i] = PrintWord(run, a, g[i - 1], i)
  <2>1. 0 \in 0..8 /\ \A i \in 1..8 : i \in 0..8 /\ i # 0
    BY SMT
  <2> QED BY ONLY <1>8, <2>1, Zenon
<1>11. \A i \in 0..8 : g[i] \in S
  <2> DEFINE T == {m \in Nat : m <= 8 => g[m] \in S}
  <2>1. 0 \in T
    BY ONLY <1>2, <1>10, Zenon
  <2>2. ASSUME NEW m \in Nat, m \in T PROVE m + 1 \in T
    <3> SUFFICES ASSUME m + 1 <= 8 PROVE g[m + 1] \in S
      OBVIOUS
    <3>1. m <= 8 /\ m + 1 \in 1..8 /\ (m + 1) - 1 = m
      BY ONLY m \in Nat, m + 1 <= 8, SMT
    <3> QED BY ONLY <1>3, <1>10, <2>2, <3>1, Zenon
  <2>3. Nat \subseteq T
    <3> HIDE DEF T
    <3> QED BY ONLY <2>1, <2>2, Counting, Zenon
  <2> QED BY ONLY <2>3, SMT
<1>12. g \in [0..8 -> S]
  BY ONLY <1>8, <1>11, Zenon
<1>13. Prints(g, run, a)
  BY ONLY <1>10, Zenon DEF Prints
<1> QED BY ONLY <1>9, <1>12, <1>13, Zenon DEF S, run

\* After the place o there are n words of a, from the one after word w on,
\* with a colon between each two.
Width(n) == IF n = 0 THEN 0 ELSE 2 * n - 1
WordsAt(t, o, n, a, w) ==
  \A j \in 1 .. 2 * n - 1 : IF j % 2 = 1 THEN t[o + j] = WordOf(a, w + (j + 1) \div 2) ELSE t[o + j] = Colon

With(t, x) == (IF t # <<>> /\ t[Len(t)] # Colon THEN t \o <<Colon>> ELSE t) \o <<x>>

\* What is printed so far is kept, and one more word follows.
OneMore(t, u, o, n, a, w) ==
  /\ Len(u) = o + Width(n + 1) /\ WordsAt(u, o, n + 1, a, w)
  /\ \A j \in 1 .. Len(t) : u[j] = t[j]

LEMMA WithWord ==
  ASSUME NEW a \in [1..16 -> Bytes], NEW t \in Seq(Chars), NEW o \in Nat, NEW n \in Nat, NEW w \in Nat,
         w + n + 1 <= 8, Len(t) = o + Width(n), WordsAt(t, o, n, a, w),
         n = 0 => t = <<>> \/ t[Len(t)] = Colon
  PROVE  OneMore(t, With(t, WordOf(a, w + n + 1)), o, n, a, w)
<1> DEFINE x == WordOf(a, w + n + 1)
           u == With(t, x)
           S == Chars
           l == Len(t)
<1>1. x \in S /\ x # Colon /\ Colon \in S
  <2>1. w + n + 1 \in 1 .. 8
    BY ONLY n \in Nat, w \in Nat, w + n + 1 <= 8, SMT
  <2>2. x \in Shorts
    BY ONLY <2>1, a \in [1..16 -> Bytes], WordOfIs, Zenon
  <2>3. x \in Nat
    BY ONLY <2>2, WordType, Zenon
  <2> QED BY ONLY <2>3, CharsAre, Zenon DEF Chars
<1>2. l \in Nat /\ (t = <<>> => l = 0)
  OBVIOUS
<1> HIDE DEF x, S
<1>3. t \in Seq(S)
  BY ONLY t \in Seq(Chars), Zenon DEF S
<1>4. CASE n = 0
  <2>1. u = t \o <<x>>
    BY ONLY <1>4, n = 0 => t = <<>> \/ t[Len(t)] = Colon, Zenon DEF With
  <2>2. Width(n) = 0 /\ Width(n + 1) = 1 /\ 2 * (n + 1) - 1 = 1
    BY ONLY <1>4, SMT DEF Width
  <2> HIDE DEF u
  <2>3. Len(u) = l + 1 /\ u[l + 1] = x /\ \A j \in 1 .. l : u[j] = t[j]
    BY ONLY <1>1, <1>2, <1>3, <2>1
  <2>4. l = o
    BY ONLY <1>2, <2>2, Len(t) = o + Width(n), o \in Nat, SMT
  <2>5. WordsAt(u, o, n + 1, a, w)
    <3>1. \A j \in 1 .. 1 : j = 1 /\ j % 2 = 1 /\ w + (j + 1) \div 2 = w + n + 1
      BY ONLY <1>4, w \in Nat, SMT
    <3>2. \A j \in 1 .. 1 : IF j % 2 = 1 THEN u[o + j] = WordOf(a, w + (j + 1) \div 2) ELSE u[o + j] = Colon
      BY ONLY <2>3, <2>4, <3>1, Zenon DEF x
    <3> QED BY ONLY <2>2, <3>2, Zenon DEF WordsAt
  <2>6. Len(u) = o + Width(n + 1)
    BY ONLY <2>2, <2>3, <2>4, Zenon
  <2>7. OneMore(t, u, o, n, a, w)
    BY ONLY <2>3, <2>5, <2>6, Zenon DEF OneMore
  <2> QED BY ONLY <2>7, Zenon DEF u, x
<1>5. CASE n # 0
  <2> DEFINE m == 2 * n - 1
  <2>1. m \in Nat /\ m % 2 = 1 /\ m \in 1 .. m /\ Width(n) = m /\ Width(n + 1) = m + 2 /\ 2 * (n + 1) - 1 = m + 2
        /\ w + (m + 1) \div 2 = w + n /\ w + n \in 1 .. 8
    BY ONLY <1>5, n \in Nat, w \in Nat, w + n + 1 <= 8, SMT DEF Width
  <2>2. l = o + m /\ t # <<>>
    BY ONLY <1>2, <2>1, Len(t) = o + Width(n), o \in Nat, SMT
  <2>3. t[l] # Colon
    <3>1. t[o + m] = WordOf(a, w + n)
      BY ONLY WordsAt(t, o, n, a, w), <2>1, Zenon DEF WordsAt
    <3>2. WordOf(a, w + n) \in Shorts
      BY ONLY <2>1, a \in [1..16 -> Bytes], WordOfIs, Zenon
    <3>3. WordOf(a, w + n) \in Nat
      BY ONLY <3>2, WordType, Zenon
    <3> QED BY ONLY <2>2, <3>1, <3>3, CharsAre, Zenon
  <2>4. u = (t \o <<Colon>>) \o <<x>>
    BY ONLY <2>2, <2>3, Zenon DEF With
  <2> HIDE DEF u, m
  <2>5. Len(u) = l + 2 /\ u[l + 1] = Colon /\ u[l + 2] = x /\ \A j \in 1 .. l : u[j] = t[j]
    <3> DEFINE v == t \o <<Colon>>
    <3>1. v \in Seq(S) /\ Len(v) = l + 1 /\ v[l + 1] = Colon /\ \A j \in 1 .. l : v[j] = t[j]
      BY ONLY <1>1, <1>2, <1>3
    <3>2. u = v \o <<x>>
      BY ONLY <2>4, Zenon
    <3> HIDE DEF v
    <3>3. Len(u) = Len(v) + 1 /\ u[Len(v) + 1] = x /\ \A j \in 1 .. Len(v) : u[j] = v[j]
      <4>1. v \in Seq(S) /\ x \in S
        BY ONLY <1>1, <3>1, Zenon
      <4> QED BY ONLY <3>2, <4>1
    <3>4. (l + 1) + 1 = l + 2 /\ l + 1 \in 1 .. l + 1 /\ \A j \in 1 .. l : j \in 1 .. l + 1
      BY ONLY <1>2, SMT
    <3> QED BY ONLY <3>1, <3>3, <3>4, Zenon
  <2>6. ASSUME NEW j \in 1 .. m + 2
        PROVE  IF j % 2 = 1 THEN u[o + j] = WordOf(a, w + (j + 1) \div 2) ELSE u[o + j] = Colon
    <3>1. j \in 1 .. m \/ j = m + 1 \/ j = m + 2
      BY ONLY <2>1, j \in 1 .. m + 2, SMT
    <3>2. CASE j \in 1 .. m
      <4>1. o + j \in 1 .. l
        BY ONLY <2>1, <2>2, <3>2, o \in Nat, SMT
      <4>2. u[o + j] = t[o + j]
        BY ONLY <2>5, <4>1, Zenon
      <4> QED BY ONLY WordsAt(t, o, n, a, w), <3>2, <4>2, Zenon DEF WordsAt, m
    <3>3. CASE j = m + 1
      <4>1. j % 2 # 1 /\ o + j = l + 1
        BY ONLY <2>1, <2>2, <3>3, o \in Nat, SMT
      <4> QED BY ONLY <2>5, <4>1, Zenon
    <3>4. CASE j = m + 2
      <4>1. o + j = l + 2 /\ w + (j + 1) \div 2 = w + n + 1
        BY ONLY <2>1, <2>2, <3>4, o \in Nat, w \in Nat, n \in Nat, SMT DEF m
      <4>2. u[o + j] = WordOf(a, w + (j + 1) \div 2)
        BY ONLY <2>5, <4>1, Zenon DEF x
      <4>3. j % 2 = 1
        BY ONLY <2>1, <3>4, SMT
      <4> QED BY ONLY <4>2, <4>3, Zenon
    <3> QED BY ONLY <3>1, <3>2, <3>3, <3>4, Zenon
  <2>7. WordsAt(u, o, n + 1, a, w)
    BY ONLY <2>1, <2>6, Zenon DEF WordsAt
  <2>8. Len(u) = o + Width(n + 1)
    BY ONLY <2>1, <2>2, <2>5, o \in Nat, SMT
  <2>9. OneMore(t, u, o, n, a, w)
    BY ONLY <2>5, <2>7, <2>8, Zenon DEF OneMore
  <2> QED BY ONLY <2>9, Zenon DEF u, x
<1> QED BY ONLY <1>4, <1>5, Zenon DEF x

Left(t, a, p) == Len(t) = Width(p) /\ WordsAt(t, 0, p, a, 0)

\* Words, the "::", and n words after the run.
Both(t, a, p, g, n) ==
  /\ Len(t) = Width(p) + 2 + Width(n)
  /\ WordsAt(t, 0, p, a, 0)
  /\ t[Width(p) + 1] = Colon /\ t[Width(p) + 2] = Colon
  /\ WordsAt(t, Width(p) + 2, n, a, p + g)

LEMMA WidthIs ==
  ASSUME NEW n \in Nat
  PROVE  Width(n) \in Nat /\ (n > 0 => Width(n) = 2 * n - 1) /\ \A j \in 1 .. 2 * n - 1 : j \in 1 .. Width(n)
BY SMT DEF Width

LEMMA ToEight == \A k \in 0..8 : k \in Nat /\ k <= 8
BY SMT

Doubled(t, u, c) ==
  Len(u) = Len(t) + 2 /\ u[Len(t) + 1] = c /\ u[Len(t) + 2] = c /\ \A j \in 1 .. Len(t) : u[j] = t[j]

LEMMA TwoMore ==
  ASSUME NEW S, NEW t \in Seq(S), NEW c \in S
  PROVE  Doubled(t, t \o <<c, c>>, c)
<1>1. <<c, c>> \in Seq(S) /\ Len(<<c, c>>) = 2 /\ <<c, c>>[1] = c /\ <<c, c>>[2] = c /\ 1 \in 1 .. 2 /\ 2 \in 1 .. 2
  OBVIOUS
<1> DEFINE d == <<c, c>>
           u == t \o d
<1> HIDE DEF d
<1>2. d \in Seq(S) /\ Len(d) = 2 /\ d[1] = c /\ d[2] = c /\ 1 \in 1 .. 2 /\ 2 \in 1 .. 2
  BY ONLY <1>1, Zenon DEF d
<1>3. /\ Len(u) = Len(t) + Len(d)
      /\ \A k \in 1 .. Len(t) : u[k] = t[k]
      /\ \A k \in 1 .. Len(d) : u[Len(t) + k] = d[k]
  <2>1. d \in Seq(S)
    BY ONLY <1>2, Zenon
  <2> QED BY ONLY t \in Seq(S), <2>1, Joined
<1> HIDE DEF u
<1>4. Doubled(t, u, c)
  BY ONLY <1>2, <1>3, Zenon DEF Doubled
<1> QED BY ONLY <1>4, Zenon DEF u, d

LEMMA LeftPart ==
  ASSUME NEW a \in [1..16 -> Bytes], NEW f \in [0..8 -> Seq(Chars)], f[0] = <<>>, NEW q \in 0..8,
         \A i \in 1 .. q : f[i] = With(f[i - 1], WordOf(a, i))
  PROVE  Left(f[q], a, q)
<1> DEFINE T == {i \in Nat : i <= q => Left(f[i], a, i)}
<1>1. 0 \in T
  <2>1. Len(<<>>) = 0 /\ Width(0) = 0 /\ 1 .. 2 * 0 - 1 = {}
    BY SMT DEF Width
  <2>2. Left(f[0], a, 0)
    BY ONLY <2>1, f[0] = <<>>, Zenon DEF Left, WordsAt
  <2>3. 0 \in Nat
    OBVIOUS
  <2> QED BY ONLY <2>2, <2>3, Zenon
<1>2. ASSUME NEW i \in Nat, i \in T PROVE i + 1 \in T
  <2> SUFFICES ASSUME i + 1 <= q PROVE Left(f[i + 1], a, i + 1)
    OBVIOUS
  <2>1. i <= q /\ i \in 0..8 /\ i + 1 \in 1 .. q /\ (i + 1) - 1 = i /\ 0 + i + 1 <= 8 /\ 0 + i + 1 = i + 1 /\ 0 \in Nat
    <3>1. q \in Nat /\ q <= 8
      BY ONLY q \in 0..8, ToEight, Zenon
    <3>2. i <= q /\ i <= 8 /\ 0 + i + 1 <= 8
      BY ONLY <3>1, i \in Nat, i + 1 <= q, SMT
    <3>3. i \in 0..8 /\ i + 1 \in 1 .. q
      BY ONLY <3>1, <3>2, i \in Nat, i + 1 <= q, SMT
    <3>4. (i + 1) - 1 = i /\ 0 + i + 1 = i + 1 /\ 0 \in Nat
      BY ONLY i \in Nat, SMT
    <3> QED BY ONLY <3>2, <3>3, <3>4, Zenon
  <2>2. Left(f[i], a, i) /\ f[i] \in Seq(Chars)
    BY ONLY <1>2, <2>1, f \in [0..8 -> Seq(Chars)], Zenon
  <2>3. Width(i) \in Nat /\ Width(i + 1) \in Nat /\ i + 1 \in Nat
    <3>1. i + 1 \in Nat
      OBVIOUS
    <3> QED BY ONLY <3>1, i \in Nat, WidthIs, Zenon
  <2>4. Len(f[i]) = 0 + Width(i) /\ WordsAt(f[i], 0, i, a, 0) /\ 0 + Width(i + 1) = Width(i + 1)
    <3>1. \A k \in Nat : 0 + k = k
      OBVIOUS
    <3> QED BY ONLY <2>2, <2>3, <3>1, Zenon DEF Left
  <2>5. i = 0 => f[i] = <<>>
    BY ONLY f[0] = <<>>, Zenon
  <2>6. OneMore(f[i], With(f[i], WordOf(a, 0 + i + 1)), 0, i, a, 0)
    BY ONLY a \in [1..16 -> Bytes], i \in Nat, <2>1, <2>2, <2>4, <2>5, WithWord, Zenon
  <2>7. f[i + 1] = With(f[i], WordOf(a, 0 + i + 1))
    BY ONLY <2>1, \A j \in 1 .. q : f[j] = With(f[j - 1], WordOf(a, j)), Zenon
  <2>8. OneMore(f[i], f[i + 1], 0, i, a, 0)
    BY ONLY <2>6, <2>7, Zenon
  <2> QED BY ONLY <2>4, <2>8, Zenon DEF OneMore, Left
<1>3. Nat \subseteq T
  <2> HIDE DEF T
  <2> QED BY ONLY <1>1, <1>2, Counting, Zenon
<1>4. q \in Nat /\ q <= q
  BY ONLY q \in 0..8, SMT
<1> QED BY ONLY <1>3, <1>4, Zenon

LEMMA RightPart ==
  ASSUME NEW a \in [1..16 -> Bytes], NEW f \in [0..8 -> Seq(Chars)],
         NEW p \in Nat, NEW g \in Nat, p + g <= 8, Both(f[p + g], a, p, g, 0),
         \A i \in p + g + 1 .. 8 : f[i] = With(f[i - 1], WordOf(a, i))
  PROVE  Both(f[8], a, p, g, 8 - p - g)
<1> DEFINE o == Width(p) + 2
           w == p + g
           T == {n \in Nat : n <= 8 - p - g => Both(f[p + g + n], a, p, g, n)}
<1>0. Width(p) \in Nat /\ o \in Nat /\ w \in Nat
  <2>1. Width(p) \in Nat
    BY ONLY p \in Nat, WidthIs, Zenon
  <2>2. \A k \in Nat : k + 2 \in Nat
    OBVIOUS
  <2>3. p + g \in Nat
    OBVIOUS
  <2> QED BY ONLY <2>1, <2>2, <2>3, Zenon
<1>1. 0 \in T
  <2>1. p + g + 0 = p + g /\ 0 \in Nat
    OBVIOUS
  <2> QED BY ONLY <2>1, Both(f[p + g], a, p, g, 0), Zenon
<1>2. ASSUME NEW n \in Nat, n \in T PROVE n + 1 \in T
  <2> SUFFICES ASSUME n + 1 <= 8 - p - g PROVE Both(f[p + g + (n + 1)], a, p, g, n + 1)
    OBVIOUS
  <2> DEFINE t == f[p + g + n]
             u == f[p + g + (n + 1)]
  <2>1. /\ n <= 8 - p - g /\ p + g + n \in 0..8 /\ p + g + (n + 1) \in p + g + 1 .. 8
        /\ (p + g + (n + 1)) - 1 = p + g + n /\ w + n + 1 <= 8 /\ p + g + (n + 1) = w + n + 1
    BY ONLY n \in Nat, p \in Nat, g \in Nat, n + 1 <= 8 - p - g, SMT
  <2>2. t \in Seq(Chars) /\ Both(t, a, p, g, n)
    BY ONLY <1>2, <2>1, f \in [0..8 -> Seq(Chars)], Zenon
  <2>3. u = With(t, WordOf(a, w + n + 1))
    <3>1. u = With(t, WordOf(a, p + g + (n + 1)))
      BY ONLY <2>1, \A i \in p + g + 1 .. 8 : f[i] = With(f[i - 1], WordOf(a, i)), Zenon
    <3> QED BY ONLY <2>1, <3>1, Zenon
  <2> HIDE DEF t, u, w
  <2>4. /\ Len(t) = o + Width(n) /\ WordsAt(t, o, n, a, w)
        /\ t[Width(p) + 1] = Colon /\ t[o] = Colon /\ WordsAt(t, 0, p, a, 0)
    BY ONLY <2>2, Zenon DEF Both, w
  <2>5. n = 0 => t[Len(t)] = Colon
    <3>1. n = 0 => Len(t) = o
      <4> HIDE DEF o
      <4> QED BY ONLY <1>0, <2>4, SMT DEF Width
    <3> QED BY ONLY <2>4, <3>1, Zenon
  <2> HIDE DEF o
  <2>6. OneMore(t, u, o, n, a, w)
    BY ONLY a \in [1..16 -> Bytes], n \in Nat, <1>0, <2>1, <2>2, <2>3, <2>4, <2>5, WithWord, Zenon
  <2>7. /\ Len(u) = o + Width(n + 1) /\ WordsAt(u, o, n + 1, a, w)
        /\ \A j \in 1 .. Len(t) : u[j] = t[j]
    BY ONLY <2>6, Zenon DEF OneMore
  <2>8. Width(p) + 1 \in 1 .. Len(t) /\ o \in 1 .. Len(t) /\ \A j \in 1 .. 2 * p - 1 : 0 + j \in 1 .. Len(t)
    <3>1. Width(n) \in Nat /\ \A j \in 1 .. 2 * p - 1 : j \in 1 .. Width(p)
      BY ONLY n \in Nat, p \in Nat, WidthIs, Zenon
    <3>2. o = Width(p) + 2
      BY ONLY Zenon DEF o
    <3>3. Len(t) = o + Width(n)
      BY ONLY <2>4, Zenon
    <3>4. \A j \in 1 .. 2 * p - 1 : 0 + j = j
      BY ONLY p \in Nat, SMT
    <3>5. \A x, y, l \in Nat : l = (x + 2) + y => x + 1 \in 1 .. l /\ x + 2 \in 1 .. l /\ 1 .. x \subseteq 1 .. l
      BY SMT
    <3>6. Len(t) \in Nat
      BY ONLY <2>2
    <3>7. Width(p) + 1 \in 1 .. Len(t) /\ Width(p) + 2 \in 1 .. Len(t) /\ 1 .. Width(p) \subseteq 1 .. Len(t)
      BY ONLY <1>0, <3>1, <3>2, <3>3, <3>5, <3>6, Zenon
    <3> QED BY ONLY <3>1, <3>2, <3>4, <3>7, Zenon
  <2>9. WordsAt(u, 0, p, a, 0)
    BY ONLY <2>4, <2>7, <2>8, Zenon DEF WordsAt
  <2>10. Both(u, a, p, g, n + 1)
    BY ONLY <2>4, <2>7, <2>8, <2>9, Zenon DEF Both, o, w
  <2> QED BY ONLY <2>10, Zenon DEF u
<1>3. Nat \subseteq T
  <2> HIDE DEF T
  <2> QED BY ONLY <1>1, <1>2, Counting, Zenon
<1>4. 8 - p - g \in Nat /\ 8 - p - g <= 8 - p - g /\ p + g + (8 - p - g) = 8
  BY ONLY p \in Nat, g \in Nat, p + g <= 8, SMT
<1>5. Both(f[p + g + (8 - p - g)], a, p, g, 8 - p - g)
  BY ONLY <1>3, <1>4, Zenon
<1> QED BY ONLY <1>4, <1>5, Zenon

\* What lies between them.
LEMMA MiddlePart ==
  ASSUME NEW a \in [1..16 -> Bytes], NEW f \in [0..8 -> Seq(Chars)],
         NEW p \in Nat, NEW g \in Nat, g >= 1, p + g <= 8, Left(f[p], a, p),
         f[p + 1] = f[p] \o <<Colon, Colon>>,
         \A i \in p + 2 .. p + g : f[i] = f[i - 1]
  PROVE  Both(f[p + g], a, p, g, 0)
<1> DEFINE T == {n \in Nat : n + 1 <= g => f[p + (n + 1)] = f[p + 1]}
           t == f[p]
           u == f[p + 1]
<1>1. 0 \in T
  <2>1. p + (0 + 1) = p + 1 /\ 0 \in Nat
    BY ONLY p \in Nat, SMT
  <2> QED BY ONLY <2>1, Zenon
<1>2. ASSUME NEW n \in Nat, n \in T PROVE n + 1 \in T
  <2>0. n + 1 \in Nat
    BY ONLY n \in Nat, SMT
  <2> SUFFICES ASSUME (n + 1) + 1 <= g PROVE f[p + ((n + 1) + 1)] = f[p + 1]
    BY <2>0, Zenon
  <2>1. n + 1 <= g /\ p + ((n + 1) + 1) \in p + 2 .. p + g /\ (p + ((n + 1) + 1)) - 1 = p + (n + 1)
    BY ONLY n \in Nat, p \in Nat, g \in Nat, (n + 1) + 1 <= g, SMT
  <2>2. f[p + (n + 1)] = f[p + 1]
    BY ONLY <1>2, <2>1, Zenon
  <2> QED BY ONLY <2>1, <2>2, \A i \in p + 2 .. p + g : f[i] = f[i - 1], Zenon
<1>3. Nat \subseteq T
  <2> HIDE DEF T
  <2> QED BY ONLY <1>1, <1>2, Counting, Zenon
<1>4. f[p + g] = u
  <2>1. g - 1 \in Nat /\ (g - 1) + 1 = g /\ g <= g
    BY ONLY g \in Nat, g >= 1, SMT
  <2>2. f[p + ((g - 1) + 1)] = u
    BY ONLY <1>3, <2>1, Zenon
  <2> QED BY ONLY <2>1, <2>2, Zenon
<1>5. p \in 0..8
  BY ONLY p \in Nat, g \in Nat, g >= 1, p + g <= 8, SMT
<1>6. t \in Seq(Chars) /\ Len(t) = Width(p) /\ WordsAt(t, 0, p, a, 0) /\ Width(p) \in Nat
  <2>1. Width(p) \in Nat
    BY ONLY p \in Nat, WidthIs, Zenon
  <2> QED BY ONLY <1>5, <2>1, f \in [0..8 -> Seq(Chars)], Left(f[p], a, p), Zenon DEF Left
<1>7. u = t \o <<Colon, Colon>>
  BY ONLY f[p + 1] = f[p] \o <<Colon, Colon>>, Zenon
<1> HIDE DEF t, u
<1>8. Len(u) = Len(t) + 2 /\ u[Len(t) + 1] = Colon /\ u[Len(t) + 2] = Colon /\ \A j \in 1 .. Len(t) : u[j] = t[j]
  <2> DEFINE S == Chars
  <2> HIDE DEF S
  <2>1. t \in Seq(S) /\ Colon \in S
    BY ONLY <1>6, CharsAre, Zenon DEF S
  <2>2. Doubled(t, t \o <<Colon, Colon>>, Colon)
    BY ONLY <2>1, TwoMore, Zenon
  <2> QED BY ONLY <1>7, <2>2, Zenon DEF Doubled
<1>9. WordsAt(u, 0, p, a, 0)
  <2>1. \A j \in 1 .. 2 * p - 1 : 0 + j \in 1 .. Len(t)
    <3>1. \A j \in 1 .. 2 * p - 1 : j \in 1 .. Width(p)
      BY ONLY p \in Nat, WidthIs, Zenon
    <3>2. \A j \in 1 .. 2 * p - 1 : 0 + j = j
      BY ONLY p \in Nat, SMT
    <3> QED BY ONLY <1>6, <3>1, <3>2, Zenon
  <2> QED BY ONLY <1>6, <1>8, <2>1, Zenon DEF WordsAt
<1>10. WordsAt(u, Width(p) + 2, 0, a, p + g)
  <2>1. 1 .. 2 * 0 - 1 = {}
    OBVIOUS
  <2> QED BY ONLY <2>1, Zenon DEF WordsAt
<1>11. Width(p) + 2 + Width(0) = Width(p) + 2
  BY ONLY <1>6, SMT DEF Width
<1>12. Both(u, a, p, g, 0)
  BY ONLY <1>6, <1>8, <1>9, <1>10, <1>11, Zenon DEF Both
<1> QED BY ONLY <1>4, <1>12, Zenon

\* A text that is n words of a, from the one after word w on.
TheWords(x, n, a, w) ==
  /\ AreWords(x) /\ WordsIn(x) \in Seq(Shorts) /\ Len(WordsIn(x)) = n
  /\ \A i \in 1 .. n : WordsIn(x)[i] = WordOf(a, w + i)

LEMMA TheWordsAre ==
  ASSUME NEW a \in [1..16 -> Bytes], NEW x \in Seq(Chars), NEW n \in Nat, NEW w \in Nat, w + n <= 8,
         Len(x) = Width(n), WordsAt(x, 0, n, a, w)
  PROVE  TheWords(x, n, a, w)
<1>1. CASE n = 0
  <2>1. Width(n) = 0 /\ (0 + 1) \div 2 = 0 /\ 1 .. 0 = {}
    BY ONLY <1>1, SMT DEF Width
  <2>2. Len(x) = 0
    BY ONLY <2>1, Len(x) = Width(n), Zenon
  <2>3. x = <<>>
    BY ONLY <2>2, x \in Seq(Chars), SMT
  <2>4. AreWords(x)
    BY ONLY <2>3, Zenon DEF AreWords
  <2>5. WordsIn(x) \in Seq(Shorts) /\ Len(WordsIn(x)) = (Len(x) + 1) \div 2
    BY ONLY x \in Seq(Chars), <2>4, WordsInType, Zenon
  <2>6. Len(WordsIn(x)) = n
    BY ONLY <1>1, <2>1, <2>2, <2>5, Zenon
  <2>7. 1 .. n = {}
    BY ONLY <1>1, <2>1, Zenon
  <2> QED BY ONLY <2>4, <2>5, <2>6, <2>7, Zenon DEF TheWords
<1>2. CASE n # 0
  <2> DEFINE m == 2 * n - 1
  <2>1. Width(n) = m /\ m \in Nat /\ m % 2 = 1 /\ (m + 1) \div 2 = n
    BY ONLY <1>2, n \in Nat, SMT DEF Width
  <2>2. Len(x) = m
    BY ONLY <2>1, Len(x) = Width(n), Zenon
  <2>3. \A j \in 1 .. m : IF j % 2 = 1 THEN x[0 + j] = WordOf(a, w + (j + 1) \div 2) ELSE x[0 + j] = Colon
    BY ONLY WordsAt(x, 0, n, a, w), Zenon DEF WordsAt
  <2>4. \A j \in 1 .. m : 0 + j = j /\ w + (j + 1) \div 2 \in 1 .. 8
    BY ONLY n \in Nat, w \in Nat, w + n <= 8, SMT
  <2>5. \A i \in 1 .. n : 2 * i - 1 \in 1 .. m /\ (2 * i - 1) % 2 = 1 /\ w + ((2 * i - 1) + 1) \div 2 = w + i
    BY ONLY n \in Nat, w \in Nat, SMT
  <2> HIDE DEF m
  <2>6. \A j \in 1 .. m : IF j % 2 = 1 THEN x[j] = WordOf(a, w + (j + 1) \div 2) ELSE x[j] = Colon
    BY ONLY <2>3, <2>4, Zenon
  <2>7. \A k \in 1..8 : WordOf(a, k) \in Shorts
    BY ONLY a \in [1..16 -> Bytes], WordOfIs, Zenon
  <2>8. \A j \in 1 .. m : IF j % 2 = 1 THEN x[j] \in Shorts ELSE x[j] = Colon
    BY ONLY <2>4, <2>6, <2>7, Zenon
  <2>9. AreWords(x)
    BY ONLY <2>1, <2>2, <2>8, Zenon DEF AreWords
  <2>10. WordsIn(x) \in Seq(Shorts) /\ Len(WordsIn(x)) = (Len(x) + 1) \div 2
    BY ONLY x \in Seq(Chars), <2>9, WordsInType, Zenon
  <2>11. Len(WordsIn(x)) = n
    BY ONLY <2>1, <2>2, <2>10, Zenon
  <2>12. WordsIn(x) = [i \in 1 .. n |-> x[2 * i - 1]]
    BY ONLY <2>1, <2>2, Zenon DEF WordsIn
  <2>13. \A i \in 1 .. n : x[2 * i - 1] = WordOf(a, w + i)
    BY ONLY <2>5, <2>6, Zenon
  <2>14. \A i \in 1 .. n : WordsIn(x)[i] = WordOf(a, w + i)
    BY ONLY <2>12, <2>13, Zenon
  <2> QED BY ONLY <2>9, <2>10, <2>11, <2>14, Zenon DEF TheWords
<1> QED BY ONLY <1>1, <1>2, Zenon

LEMMA ItsAddress ==
  ASSUME NEW a \in [1..16 -> Bytes], NEW v, \A i \in 1..8 : v[i] = WordOf(a, i)
  PROVE  Address(v) = [version |-> 6, addr |-> a]
<1>1. ASSUME NEW k \in 1..16 PROVE Word(v[(k + 1) \div 2])[2 - (k % 2)] = a[k]
  <2> DEFINE i == (k + 1) \div 2
  <2>1. i \in 1..8 /\ ((k = 2 * i - 1 /\ 2 - (k % 2) = 1) \/ (k = 2 * i /\ 2 - (k % 2) = 2))
    BY ONLY k \in 1..16, SMT
  <2> HIDE DEF i
  <2>2. Word(v[i]) = <<a[2 * i - 1], a[2 * i]>>
    BY ONLY <2>1, a \in [1..16 -> Bytes], \A j \in 1..8 : v[j] = WordOf(a, j), WordOfIs, Zenon
  <2> DEFINE x == a[2 * i - 1]
             y == a[2 * i]
             w == Word(v[i])
  <2>3. w = <<x, y>>
    BY ONLY <2>2, Zenon
  <2>4. (k = 2 * i - 1 => x = a[k]) /\ (k = 2 * i => y = a[k])
    BY ONLY Zenon
  <2> HIDE DEF x, y, w
  <2>5. w[1] = x /\ w[2] = y
    BY ONLY <2>3
  <2>6. w[2 - (k % 2)] = a[k]
    BY ONLY <2>1, <2>4, <2>5, Zenon
  <2> QED BY ONLY <2>6, Zenon DEF w, i
<1>2. [k \in 1..16 |-> Word(v[(k + 1) \div 2])[2 - (k % 2)]] = a
  BY ONLY <1>1, a \in [1..16 -> Bytes], Zenon
<1> QED BY ONLY <1>2, Zenon DEF Address

LEMMA NoDouble ==
  ASSUME NEW a \in [1..16 -> Bytes], NEW t, NEW n \in Nat, NEW w \in Nat, w + n <= 8,
         WordsAt(t, 0, n, a, w)
  PROVE  \A j \in 1 .. 2 * n - 1 : t[j] # Colon \/ t[j + 1] # Colon
<1> SUFFICES ASSUME NEW j \in 1 .. 2 * n - 1 PROVE t[j] # Colon \/ t[j + 1] # Colon
  OBVIOUS
<1>1. \A k \in 1 .. 2 * n - 1 : k % 2 = 1 => t[k] # Colon
  <2> SUFFICES ASSUME NEW k \in 1 .. 2 * n - 1, k % 2 = 1 PROVE t[k] # Colon
    OBVIOUS
  <2>1. 0 + k = k /\ w + (k + 1) \div 2 \in 1 .. 8
    BY ONLY n \in Nat, w \in Nat, w + n <= 8, k \in 1 .. 2 * n - 1, SMT
  <2>2. t[k] = WordOf(a, w + (k + 1) \div 2)
    BY ONLY WordsAt(t, 0, n, a, w), <2>1, k \in 1 .. 2 * n - 1, k % 2 = 1, Zenon DEF WordsAt
  <2>3. t[k] \in Shorts
    BY ONLY a \in [1..16 -> Bytes], <2>1, <2>2, WordOfIs, Zenon
  <2>4. t[k] \in Nat
    BY ONLY <2>3, WordType, Zenon
  <2> QED BY ONLY <2>4, CharsAre, Zenon
<1>2. j % 2 = 1 \/ ((j + 1) % 2 = 1 /\ j + 1 \in 1 .. 2 * n - 1)
  BY ONLY n \in Nat, j \in 1 .. 2 * n - 1, SMT
<1> QED BY ONLY <1>1, <1>2, j \in 1 .. 2 * n - 1, Zenon

LEMMA MeansWhole ==
  ASSUME NEW a \in [1..16 -> Bytes], NEW t \in Seq(Chars), Left(t, a, 8)
  PROVE  Indices(t, Colon) # {} /\ MeaningV6(t) = [version |-> 6, addr |-> a]
<1>1. Width(8) = 15 /\ 8 \in Nat /\ 0 \in Nat /\ 0 + 8 <= 8 /\ 2 * 8 - 1 = 15 /\ 15 - 1 = 14 /\ 0 + 2 = 2 /\ 2 \in 1 .. 15 /\ 2 % 2 # 1
      /\ \A i \in 1..8 : 0 + i = i
  BY SMT DEF Width
<1>2. Len(t) = 15 /\ WordsAt(t, 0, 8, a, 0)
  BY ONLY Left(t, a, 8), <1>1, Zenon DEF Left
<1>3. TheWords(t, 8, a, 0)
  BY ONLY a \in [1..16 -> Bytes], t \in Seq(Chars), <1>1, <1>2, TheWordsAre, Zenon
<1>4. Doubles(t) = {}
  <2>1. \A j \in 1 .. 15 : t[j] # Colon \/ t[j + 1] # Colon
    BY ONLY a \in [1..16 -> Bytes], <1>1, <1>2, NoDouble, Zenon
  <2>2. \A j \in 1 .. 14 : j \in 1 .. 15
    OBVIOUS
  <2> QED BY ONLY <1>1, <1>2, <2>1, <2>2, Zenon DEF Doubles
<1>5. Indices(t, Colon) # {}
  <2>1. t[2] = Colon
    BY ONLY <1>1, <1>2, Zenon DEF WordsAt
  <2>2. DOMAIN t = 1 .. Len(t)
    BY ONLY t \in Seq(Chars)
  <2>3. 2 \in Indices(t, Colon)
    BY ONLY <1>1, <1>2, <2>1, <2>2, Zenon DEF Indices
  <2> QED BY ONLY <2>3, Zenon
<1>6. AreWords(t) /\ \A i \in 1..8 : WordsIn(t)[i] = WordOf(a, i)
  BY ONLY <1>1, <1>3, Zenon DEF TheWords
<1>7. MeaningV6(t) = Address(WordsIn(t))
  BY ONLY <1>2, <1>4, <1>6, Zenon DEF MeaningV6
<1>8. Address(WordsIn(t)) = [version |-> 6, addr |-> a]
  BY ONLY a \in [1..16 -> Bytes], <1>6, ItsAddress, Zenon
<1> QED BY ONLY <1>5, <1>7, <1>8, Zenon

LEMMA MeansDoubled ==
  ASSUME NEW a \in [1..16 -> Bytes], NEW t \in Seq(Chars), NEW p \in Nat, NEW g \in Nat, NEW n \in Nat,
         p + g + n = 8, g >= 1, Both(t, a, p, g, n), \A j \in p + 1 .. p + g : WordOf(a, j) = 0
  PROVE  Indices(t, Colon) # {} /\ MeaningV6(t) = [version |-> 6, addr |-> a]
<1> DEFINE d == Width(p) + 1
           x == Width(p)
           y == Width(n)
           B == Before(t)
           C == After(t)
<1>1. x \in Nat /\ y \in Nat
  BY ONLY p \in Nat, n \in Nat, WidthIs, Zenon
<1>2. /\ Len(t) = x + 2 + y /\ WordsAt(t, 0, p, a, 0) /\ t[x + 1] = Colon /\ t[x + 2] = Colon
      /\ WordsAt(t, x + 2, n, a, p + g)
  BY ONLY Both(t, a, p, g, n), Zenon DEF Both
<1>3. \A j \in 1 .. 2 * p - 1 : j \in 1 .. x
  BY ONLY p \in Nat, WidthIs, Zenon
<1>4. \A j \in 1 .. x : j \in 1 .. 2 * p - 1
  BY ONLY p \in Nat, SMT DEF Width
<1>5. \A j \in 1 .. 2 * n - 1 : j \in 1 .. y
  BY ONLY n \in Nat, WidthIs, Zenon
<1>6. p <= 8 /\ 0 + p <= 8 /\ 0 \in Nat /\ p + g \in Nat /\ (p + g) + n <= 8 /\ 8 - p - n = g /\ g > 0 /\ p + n + g = 8
  BY ONLY p \in Nat, g \in Nat, n \in Nat, p + g + n = 8, g >= 1, SMT
<1> HIDE DEF x, y
<1>7. d = x + 1
  BY ONLY Zenon DEF x
<1> HIDE DEF d
<1>8. d \in Doubles(t) /\ \A j \in Doubles(t) : d <= j
  <2>1. d \in 1 .. Len(t) - 1 /\ d + 1 = x + 2
    BY ONLY <1>1, <1>2, <1>7, SMT
  <2>2. d \in Doubles(t)
    BY ONLY <1>2, <1>7, <2>1, Zenon DEF Doubles
  <2>3. ASSUME NEW j \in Doubles(t) PROVE d <= j
    <3>1. j \in 1 .. Len(t) - 1 /\ t[j] = Colon /\ t[j + 1] = Colon
      BY ONLY j \in Doubles(t), Zenon DEF Doubles
    <3>2. \A k \in 1 .. 2 * p - 1 : t[k] # Colon \/ t[k + 1] # Colon
      BY ONLY a \in [1..16 -> Bytes], p \in Nat, <1>2, <1>6, NoDouble, Zenon
    <3>3. j \notin 1 .. x
      BY ONLY <1>4, <3>1, <3>2, Zenon
    <3>4. j \in Nat /\ j >= 1
      <4>1. Len(t) \in Nat
        BY ONLY t \in Seq(Chars)
      <4> QED BY ONLY <3>1, <4>1, SMT
    <3> QED BY ONLY <1>1, <1>7, <3>3, <3>4, SMT
  <2> QED BY ONLY <2>2, <2>3, Zenon
<1>9. Min(Doubles(t)) = d
  <2>1. Len(t) \in Nat
    BY ONLY t \in Seq(Chars)
  <2>2. \A j \in Doubles(t) : j \in Int
    BY ONLY <2>1, SMT DEF Doubles
  <2> DEFINE M == Min(Doubles(t))
  <2>3. M \in Doubles(t) /\ \A j \in Doubles(t) : M <= j
    BY ONLY <1>8, Zenon DEF Min
  <2> HIDE DEF M
  <2>4. M <= d /\ d <= M /\ M \in Int /\ d \in Int
    BY ONLY <1>8, <2>2, <2>3, Zenon
  <2>5. M = d
    BY ONLY <2>4, SMT
  <2> QED BY ONLY <2>5, Zenon DEF M
<1>10. B = SubSeq(t, 1, d - 1) /\ C = SubSeq(t, d + 2, Len(t))
  BY ONLY <1>9, Zenon DEF Before, After
<1> DEFINE S == Chars
<1> HIDE DEF S, B, C
<1>11. t \in Seq(S)
  BY ONLY t \in Seq(Chars), Zenon DEF S
<1>12. d \in 1 .. Len(t) - 1 /\ d - 1 = x /\ Len(t) - d - 1 = y
  BY ONLY <1>1, <1>2, <1>7, SMT
<1>12a. d \in 1 .. Len(t) - 1
  BY ONLY <1>12, Zenon
<1>12b. SplitAt(t, S, d)
  BY ONLY <1>11, <1>12a, CutInTwo, Zenon
<1>13. B \in Seq(S) /\ Len(B) = d - 1 /\ \A j \in 1 .. d - 1 : B[j] = t[j]
  BY ONLY <1>10, <1>12b, Zenon DEF SplitAt
<1>14. C \in Seq(S) /\ Len(C) = Len(t) - d - 1 /\ \A j \in 1 .. Len(t) - d - 1 : C[j] = t[(d + 1) + j]
  BY ONLY <1>10, <1>12b, Zenon DEF SplitAt
<1>15. TheWords(B, p, a, 0)
  <2>1. \A j \in 1 .. 2 * p - 1 : 0 + j = j
    BY ONLY p \in Nat, SMT
  <2>2. \A j \in 1 .. 2 * p - 1 : B[0 + j] = t[0 + j]
    BY ONLY <1>3, <1>12, <1>13, <2>1, Zenon
  <2>3. WordsAt(B, 0, p, a, 0)
    BY ONLY <1>2, <2>2, Zenon DEF WordsAt
  <2>4. B \in Seq(Chars) /\ Len(B) = Width(p)
    BY ONLY <1>12, <1>13, Zenon DEF S, x
  <2> QED BY ONLY a \in [1..16 -> Bytes], p \in Nat, <1>6, <2>3, <2>4, TheWordsAre, Zenon
<1>16. TheWords(C, n, a, p + g)
  <2>1. \A j \in 1 .. 2 * n - 1 : 0 + j = j
    BY ONLY n \in Nat, SMT
  <2>2. d + 1 = x + 2
    BY ONLY <1>1, <1>7, SMT
  <2>3. \A j \in 1 .. 2 * n - 1 : C[0 + j] = t[(x + 2) + j]
    BY ONLY <1>5, <1>12, <1>14, <2>1, <2>2, Zenon
  <2>4. \A j \in 1 .. 2 * n - 1 :
          IF j % 2 = 1 THEN t[(x + 2) + j] = WordOf(a, (p + g) + (j + 1) \div 2) ELSE t[(x + 2) + j] = Colon
    BY ONLY <1>2, Zenon DEF WordsAt
  <2>5. WordsAt(C, 0, n, a, p + g)
    BY ONLY <2>3, <2>4, Zenon DEF WordsAt
  <2>6. C \in Seq(Chars) /\ Len(C) = Width(n)
    BY ONLY <1>12, <1>14, Zenon DEF S, y
  <2> QED BY ONLY a \in [1..16 -> Bytes], n \in Nat, <1>6, <2>5, <2>6, TheWordsAre, Zenon
<1> DEFINE BW == WordsIn(B)
           CW == WordsIn(C)
           v == BW \o Zeros(g) \o CW
<1>17. /\ AreWords(B) /\ BW \in Seq(Shorts) /\ Len(BW) = p /\ \A i \in 1 .. p : BW[i] = WordOf(a, 0 + i)
       /\ AreWords(C) /\ CW \in Seq(Shorts) /\ Len(CW) = n /\ \A i \in 1 .. n : CW[i] = WordOf(a, (p + g) + i)
  BY ONLY <1>15, <1>16, Zenon DEF TheWords
<1>18. Gap(t) = g
  <2>1. Gap(t) = 8 - Len(BW) - Len(CW)
    BY ONLY Zenon DEF Gap, B, C
  <2> HIDE DEF BW, CW
  <2> QED BY ONLY <1>6, <1>17, <2>1, Zenon
<1>19. MeaningV6(t) = Address(v)
  BY ONLY <1>6, <1>8, <1>17, <1>18, Zenon DEF MeaningV6, B, C
<1>20. InThree(v, BW, CW, p, n)
  <2> HIDE DEF BW, CW
  <2> QED BY ONLY <1>6, <1>17, p \in Nat, n \in Nat, g \in Nat, ThreeParts, Zenon
<1> HIDE DEF BW, CW, v
<1>21. ASSUME NEW i \in 1..8 PROVE v[i] = WordOf(a, i)
  <2>1. /\ \A k \in 1 .. p : v[k] = BW[k]
        /\ \A k \in p + 1 .. 8 - n : v[k] = 0
        /\ \A k \in 8 - n + 1 .. 8 : v[k] = CW[k - (8 - n)]
    BY ONLY <1>20, Zenon DEF InThree
  <2>2. \/ i \in 1 .. p /\ 0 + i = i
        \/ i \in p + 1 .. 8 - n /\ i \in p + 1 .. p + g
        \/ i \in 8 - n + 1 .. 8 /\ i - (8 - n) \in 1 .. n /\ (p + g) + (i - (8 - n)) = i
    BY ONLY i \in 1..8, p \in Nat, g \in Nat, n \in Nat, p + g + n = 8, SMT
  <2> QED BY ONLY <1>17, <2>1, <2>2, \A j \in p + 1 .. p + g : WordOf(a, j) = 0, Zenon
<1>22. Address(v) = [version |-> 6, addr |-> a]
  BY ONLY a \in [1..16 -> Bytes], <1>21, ItsAddress, Zenon
<1>23. Indices(t, Colon) # {}
  <2>1. DOMAIN t = 1 .. Len(t)
    BY ONLY t \in Seq(Chars)
  <2>2. d \in 1 .. Len(t)
    BY ONLY <1>1, <1>2, <1>7, SMT
  <2>3. d \in Indices(t, Colon)
    BY ONLY <1>2, <1>7, <2>1, <2>2, Zenon DEF Indices
  <2> QED BY ONLY <2>3, Zenon
<1> QED BY ONLY <1>19, <1>22, <1>23, Zenon

LEMMA PrintsV6 ==
  ASSUME NEW a \in [1..16 -> Bytes]
  PROVE  PrintV6(a) \in Seq(Chars) /\ Meaning(PrintV6(a)) = [version |-> 6, addr |-> a]
<1> DEFINE run == ZeroRun(a)
           t == PrintV6(a)
<1>1. PICK f : f \in [0..8 -> Seq(Chars)] /\ Prints(f, run, a) /\ t = f[8]
  BY ONLY a \in [1..16 -> Bytes], PrintV6Is, Zenon
<1>2. run = <<9, 0>> \/ run \in ZeroRuns(a)
  BY ONLY ZeroRunIs, Zenon
<1> HIDE DEF run, t
<1>3. f[0] = <<>> /\ \A i \in 1..8 : f[i] = PrintWord(run, a, f[i - 1], i)
  BY ONLY <1>1, Zenon DEF Prints
<1>4. \A s, i : PrintWord(run, a, s, i) =
                  IF i = run[1] THEN s \o <<Colon, Colon>>
                  ELSE IF run[1] < i /\ i < run[1] + run[2] THEN s ELSE With(s, WordOf(a, i))
  BY ONLY Zenon DEF PrintWord, With
<1>5. 8 \in 0..8
  OBVIOUS
<1>6. t \in Seq(Chars)
  BY ONLY <1>1, <1>5, Zenon
<1>7. CASE run = <<9, 0>>
  <2>1. run[1] = 9
    BY ONLY <1>7
  <2>2. \A i \in 1..8 : i # 9 /\ ~(9 < i)
    BY SMT
  <2>3. \A i \in 1..8 : f[i] = With(f[i - 1], WordOf(a, i))
    BY ONLY <1>3, <1>4, <2>1, <2>2, Zenon
  <2>4. Left(t, a, 8)
    BY ONLY a \in [1..16 -> Bytes], <1>1, <1>3, <1>5, <2>3, LeftPart, Zenon
  <2>5. Indices(t, Colon) # {} /\ MeaningV6(t) = [version |-> 6, addr |-> a]
    BY ONLY a \in [1..16 -> Bytes], <1>6, <2>4, MeansWhole, Zenon
  <2> QED BY ONLY <1>6, <2>5, Zenon DEF Meaning, t
<1>8. CASE run \in ZeroRuns(a)
  <2> DEFINE p == run[1] - 1
             g == run[2]
             n == 8 - p - g
  <2>1. /\ run[1] \in 1..8 /\ g \in 2..8 /\ run[1] + g <= 9
        /\ \A j \in run[1] .. run[1] + g - 1 : WordOf(a, j) = 0
    BY ONLY <1>8, SMT DEF ZeroRuns
  <2> HIDE DEF g
  <2>2. p \in Nat /\ p \in 0..8 /\ p + 1 = run[1] /\ p + g <= 8 /\ g \in Nat /\ g >= 1 /\ n \in Nat /\ p + g + n = 8
        /\ run[1] + g - 1 = p + g
    <3> DEFINE q == run[1]
    <3>1. q \in 1..8 /\ g \in 2..8 /\ q + g <= 9
      BY ONLY <2>1, Zenon
    <3> HIDE DEF q
    <3>2. q \in Nat /\ q >= 1 /\ q <= 8 /\ g \in Nat /\ g >= 1
      BY ONLY <3>1, SMT
    <3>3. /\ q - 1 \in Nat /\ q - 1 \in 0..8 /\ (q - 1) + 1 = q /\ (q - 1) + g <= 8
          /\ 8 - (q - 1) - g \in Nat /\ (q - 1) + g + (8 - (q - 1) - g) = 8 /\ q + g - 1 = (q - 1) + g
      BY ONLY <3>1, <3>2, SMT
    <3> QED BY ONLY <3>2, <3>3, Zenon DEF q
  <2>3. run[1] + run[2] = p + g + 1
    BY ONLY <2>1, SMT DEF g
  <2> HIDE DEF p, n
  <2>4. ASSUME NEW i \in 1..p PROVE f[i] = With(f[i - 1], WordOf(a, i))
    <3>1. i \in 1..8 /\ i # p + 1 /\ ~(p + 1 < i)
      BY ONLY <2>2, i \in 1..p, SMT
    <3> QED BY ONLY <1>3, <1>4, <2>2, <3>1, Zenon
  <2>5. f[p + 1] = f[p] \o <<Colon, Colon>>
    <3>1. p + 1 \in 1..8 /\ (p + 1) - 1 = p
      BY ONLY <2>1, <2>2, SMT
    <3> QED BY ONLY <1>3, <1>4, <2>2, <3>1, Zenon
  <2>6. ASSUME NEW i \in p + 2 .. p + g PROVE f[i] = f[i - 1]
    <3>1. i \in 1..8 /\ i # p + 1 /\ p + 1 < i /\ i < p + g + 1
      BY ONLY <2>2, i \in p + 2 .. p + g, SMT
    <3> QED BY ONLY <1>3, <1>4, <2>2, <2>3, <3>1, Zenon
  <2>7. ASSUME NEW i \in p + g + 1 .. 8 PROVE f[i] = With(f[i - 1], WordOf(a, i))
    <3>1. i \in 1..8 /\ i # p + 1 /\ ~(i < p + g + 1)
      BY ONLY <2>2, i \in p + g + 1 .. 8, SMT
    <3> QED BY ONLY <1>3, <1>4, <2>2, <2>3, <3>1, Zenon
  <2>8. Left(f[p], a, p)
    BY ONLY a \in [1..16 -> Bytes], <1>1, <1>3, <2>2, <2>4, LeftPart, Zenon
  <2>9. Both(f[p + g], a, p, g, 0)
    BY ONLY a \in [1..16 -> Bytes], <1>1, <2>2, <2>5, <2>6, <2>8, MiddlePart, Zenon
  <2>10. Both(t, a, p, g, n)
    <3>1. Both(f[8], a, p, g, 8 - p - g)
      BY ONLY a \in [1..16 -> Bytes], <1>1, <2>2, <2>7, <2>9, RightPart, Zenon
    <3> QED BY ONLY <1>1, <3>1, Zenon DEF n
  <2>11. \A j \in p + 1 .. p + g : WordOf(a, j) = 0
    BY ONLY <2>1, <2>2, Zenon
  <2>12. Indices(t, Colon) # {} /\ MeaningV6(t) = [version |-> 6, addr |-> a]
    BY ONLY a \in [1..16 -> Bytes], <1>6, <2>2, <2>10, <2>11, MeansDoubled, Zenon
  <2> QED BY ONLY <1>6, <2>12, Zenon DEF Meaning, t
<1> QED BY ONLY <1>2, <1>7, <1>8, Zenon

-----------------------------------------------------------------------------
(* SocketAddress::Parse.                                                   *)

\* What begins with a bracket is no IPv6 address, and neither is nothing.
LEMMA NotV6 ==
  ASSUME NEW u \in Seq(Chars), u = <<>> \/ u[1] = LeftBracket
  PROVE  ParseV6(u) = None
<1>1. CASE u = <<>>
  <2>1. PICK f : /\ ReadsV6(u, f)
                 /\ ParseV6(u) =
                      IF ~f[Len(u)].good THEN None
                      ELSE IF f[Len(u)].compress # -1
                        THEN [version |-> 6, addr |-> Decompress(f[Len(u)].addr, f[Len(u)].compress)]
                      ELSE IF Len(f[Len(u)].addr) = 16 THEN [version |-> 6, addr |-> f[Len(u)].addr]
                      ELSE None
    BY ONLY u \in Seq(Chars), ParseV6Is, Zenon
  <2>2. Len(u) = 0
    BY ONLY <1>1
  <2>3. f[0] = V6Start
    BY ONLY <2>1, Zenon DEF ReadsV6
  <2>4. f[0].good = TRUE /\ f[0].compress = -1 /\ Len(f[0].addr) # 16
    BY ONLY <2>3 DEF V6Start
  <2> QED BY ONLY <2>1, <2>2, <2>4, Zenon
<1>2. CASE u # <<>>
  <2>1. 1 \in DOMAIN u
    BY ONLY <1>2, u \in Seq(Chars), SMT
  <2>2. u[1] = LeftBracket
    BY ONLY <1>2, u = <<>> \/ u[1] = LeftBracket, Zenon
  <2>3. u[1] # Colon /\ u[1] \notin Shorts
    <3>1. \A c \in Shorts : c \in Nat
      BY ONLY WordType, Zenon
    <3> QED BY ONLY <2>2, <3>1, CharsAre, Zenon
  <2>4. ParseV6(u) # None => \A i \in DOMAIN u : u[i] = Colon \/ u[i] \in Shorts
    BY ONLY u \in Seq(Chars), RefusesV6, Zenon
  <2> QED BY ONLY <2>1, <2>3, <2>4, Zenon
<1> QED BY ONLY <1>1, <1>2, Zenon

LEMMA LastIndex ==
  ASSUME NEW t \in Seq(Chars), NEW T, T \subseteq 1 .. Len(t), T # {}
  PROVE  Max(T) \in T
<1> DEFINE n == Len(t)
           R == {n - i : i \in T}
<1>1. n \in Nat
  OBVIOUS
<1> HIDE DEF n
<1>2. T \subseteq 1 .. n
  BY ONLY T \subseteq 1 .. Len(t), Zenon DEF n
<1>3. R \in SUBSET Nat /\ R # {}
  <2>1. \A i \in 1 .. n : n - i \in Nat
    BY ONLY <1>1, SMT
  <2>2. \A i \in T : n - i \in Nat
    BY ONLY <1>2, <2>1, Zenon
  <2> QED BY ONLY <2>2, T # {}, Zenon
<1>4. PICK m \in R : \A k \in R : m <= k
  <2> HIDE DEF R
  <2> QED BY ONLY <1>3, LeastNumber, Zenon
<1>5. PICK i \in T : m = n - i
  BY ONLY <1>4, Zenon
<1>6. ASSUME NEW j \in T PROVE i >= j
  <2>1. n - i <= n - j
    BY ONLY <1>4, <1>5, j \in T, Zenon
  <2>2. i \in Int /\ j \in Int
    BY ONLY <1>1, <1>2, i \in T, j \in T, SMT
  <2> QED BY ONLY <1>1, <2>1, <2>2, SMT
<1> QED BY ONLY <1>6, Zenon DEF Max

LEMMA BracketedNever ==
  ASSUME NEW t \in Seq(Chars), t = <<>> \/ t[1] = LeftBracket
  PROVE  ParseBracketed(t) = None
<1> DEFINE closed == Indices(t, RightBracket)
           e == IF closed = {} THEN 0 ELSE Max(closed)
           u == SubSeq(t, 1, e)
<1>1. ParseBracketed(t) =
        IF e = Len(t) THEN Whole(ParseV6(t), 0)
        ELSE IF t[e + 1] # Colon THEN None
        ELSE Whole(ParseV6(u), Port(SubSeq(t, e + 2, Len(t))))
  BY ONLY Zenon DEF ParseBracketed
<1>2. e \in 0 .. Len(t)
  <2>1. Len(t) \in Nat /\ DOMAIN t = 1 .. Len(t)
    OBVIOUS
  <2>2. closed \subseteq 1 .. Len(t)
    BY ONLY <2>1, Zenon DEF Indices
  <2> HIDE DEF closed
  <2>3. closed # {} => Max(closed) \in 1 .. Len(t)
    BY ONLY t \in Seq(Chars), <2>2, LastIndex, Zenon
  <2>4. 0 \in 0 .. Len(t) /\ \A k \in 1 .. Len(t) : k \in 0 .. Len(t)
    BY ONLY <2>1, SMT
  <2> QED BY ONLY <2>3, <2>4, Zenon
<1> DEFINE S == Chars
<1>3. t \in Seq(S)
  OBVIOUS
<1> HIDE DEF e, S
<1>4. u \in Seq(S) /\ (u = <<>> \/ (t # <<>> /\ u[1] = t[1]))
  BY ONLY <1>2, <1>3
<1> HIDE DEF u
<1>5. ParseV6(u) = None
  BY ONLY <1>4, t = <<>> \/ t[1] = LeftBracket, NotV6, Zenon DEF S
<1>6. ParseV6(t) = None
  BY ONLY t \in Seq(Chars), t = <<>> \/ t[1] = LeftBracket, NotV6, Zenon
<1>7. \A p : Whole(None, p) = None
  BY ONLY Zenon DEF Whole
<1> QED BY ONLY <1>1, <1>5, <1>6, <1>7, Zenon

LEMMA FirstColonIs ==
  ASSUME NEW t \in Seq(Chars)
  PROVE  FirstColon(t) \in 0 .. Len(t) /\ \A k : Indices(t, Colon) = {k} => FirstColon(t) = k
<1> DEFINE T == Indices(t, Colon)
<1>1. Len(t) \in Nat /\ DOMAIN t = 1 .. Len(t)
  OBVIOUS
<1>2. T \subseteq 1 .. Len(t)
  BY ONLY <1>1, Zenon DEF Indices
<1>3. FirstColon(t) = IF T = {} THEN 0 ELSE Min(T)
  BY ONLY Zenon DEF FirstColon
<1> HIDE DEF T
<1>4. 0 \in 0 .. Len(t) /\ \A k \in 1 .. Len(t) : k \in 0 .. Len(t) /\ k \in Nat
  BY ONLY <1>1, SMT
<1>5. T # {} => Min(T) \in T
  <2>1. T \in SUBSET Nat
    BY ONLY <1>2, <1>4, Zenon
  <2>2. T # {} => \E n \in T : \A m \in T : n <= m
    BY ONLY <2>1, LeastNumber, Zenon
  <2> QED BY ONLY <2>2, Zenon DEF Min
<1>6. FirstColon(t) \in 0 .. Len(t)
  BY ONLY <1>2, <1>3, <1>4, <1>5, Zenon
<1>7. \A k : T = {k} => FirstColon(t) = k
  BY ONLY <1>3, <1>5, Zenon
<1> QED BY ONLY <1>6, <1>7, Zenon DEF T

Cut(n) == n % 65536

LEMMA PortIs ==
  /\ \A u : Port(u) # None => u # <<>> /\ Port(u) = Cut(u[1])
  /\ \A u : u # <<>> /\ IsNumber(u[1]) /\ ~(u[1] >= LongRange) => Port(u) = Cut(u[1])
  /\ \A n \in Nat : Cut(n) \in Shorts
<1>1. \A n : Cut(n) = n % 65536
  BY DEF Cut
<1>2. ASSUME NEW u
      PROVE  Port(u) = IF u = <<>> \/ ~IsNumber(u[1]) \/ u[1] >= LongRange THEN None ELSE Cut(u[1])
  BY ONLY SMT DEF Port, Cut
<1>3. ASSUME NEW n \in Nat PROVE Cut(n) \in Shorts
  <2>2. Cut(n) \in Int /\ 0 <= Cut(n) /\ Cut(n) <= 65535
    BY ONLY n \in Nat, SMT DEF Cut
  <2> QED BY ONLY ShortsAre, <2>2, SMT
<1> QED BY ONLY <1>2, <1>3, Zenon

LEMMA PlainPort ==
  ASSUME NEW t \in Seq(Chars), ParsePlain(t) # None
  PROVE  t # <<>> /\ ParsePlain(t).port = t[FirstColon(t) + 1] % 65536
<1> DEFINE k == FirstColon(t)
           u == SubSeq(t, k + 1, Len(t))
           x == ParseV4(IF k = 0 THEN t ELSE SubSeq(t, 1, k - 1))
           p == Port(u)
           S == Chars
<1>1. ParsePlain(t) = Whole(x, p)
  BY ONLY Zenon DEF ParsePlain
<1>2. k \in 0 .. Len(t)
  BY ONLY t \in Seq(Chars), FirstColonIs, Zenon
<1>3. t \in Seq(S)
  OBVIOUS
<1> HIDE DEF k, x, S
<1>4. p # None => u # <<>> /\ p = Cut(u[1])
  BY ONLY PortIs, Zenon
<1>5. u # <<>> => t # <<>> /\ u[1] = t[k + 1]
  BY ONLY <1>2, <1>3
<1> HIDE DEF u, p
<1>6. x # None /\ p # None /\ ParsePlain(t) = [ip |-> x, port |-> p]
  BY ONLY <1>1, ParsePlain(t) # None, Zenon DEF Whole
<1>7. ParsePlain(t).port = p
  BY ONLY <1>6
<1>8. t # <<>> /\ ParsePlain(t).port = Cut(t[k + 1])
  BY ONLY <1>4, <1>5, <1>6, <1>7, Zenon
<1> QED BY ONLY <1>8, SMT DEF k, Cut

\* "<an address>:<a port>" is read.
LEMMA PlainRead ==
  ASSUME NEW t \in Seq(Chars), NEW k \in Indices(t, Colon), k + 1 = Len(t),
         MeaningV4(SubSeq(t, 1, k - 1)) # None, t[Len(t)] \in Shorts
  PROVE  t[1] # LeftBracket /\ ParsePlain(t) # None
<1> DEFINE S == Chars
           s == SubSeq(t, 1, k - 1)
           n == Len(t)
<1>1. n \in Nat /\ DOMAIN t = 1 .. n
  OBVIOUS
<1>2. k \in 1 .. n /\ t[k] = Colon
  BY ONLY <1>1, k \in Indices(t, Colon), Zenon DEF Indices
<1>3. t \in Seq(S)
  OBVIOUS
<1> HIDE DEF S
<1>4. s \in Seq(S) /\ Len(s) = k - 1 /\ \A j \in 1 .. k - 1 : s[j] = t[j]
  BY ONLY <1>2, <1>3
<1> HIDE DEF s
<1>5. /\ Len(s) = 7
      /\ s[1] \in Bytes /\ s[3] \in Bytes /\ s[5] \in Bytes /\ s[7] \in Bytes
      /\ s[2] = Dot /\ s[4] = Dot /\ s[6] = Dot
  BY ONLY <1>4, MeaningV4(SubSeq(t, 1, k - 1)) # None, MeaningV4Is, Zenon DEF s, S
<1>6. k = 8 /\ n = 9 /\ k - 1 = 7 /\ k # 0
  <2>1. k - 1 = 7 /\ k + 1 = n /\ k \in 1 .. n
    BY ONLY <1>2, <1>4, <1>5, k + 1 = Len(t), Zenon
  <2> HIDE DEF n
  <2> QED BY ONLY <1>1, <2>1, SMT
<1>7. \A b : b \in Bytes \/ b \in Shorts => b \in Nat
  <2>1. \A b \in Bytes : b \in Nat
    BY SMT DEF Bytes
  <2> QED BY ONLY <2>1, WordType, Zenon
<1>8. \A j \in 1..9 : j = 8 \/ j = 9 \/ j \in 1..7
  OBVIOUS
<1>9. \A j \in 1..7 : j = 1 \/ j = 2 \/ j = 3 \/ j = 4 \/ j = 5 \/ j = 6 \/ j = 7
  OBVIOUS
<1>10. \A j \in 1..7 : t[j] = Dot \/ t[j] \in Nat
  BY ONLY <1>4, <1>5, <1>6, <1>7, <1>9, Zenon
<1>11. \A j \in 1..9 : t[j] = Colon => j = 8
  <2>1. t[9] \in Nat
    BY ONLY <1>6, <1>7, t[Len(t)] \in Shorts, Zenon
  <2> QED BY ONLY <1>8, <1>10, <2>1, CharsAre, Zenon
<1>12. Indices(t, Colon) = {k}
  BY ONLY <1>1, <1>2, <1>6, <1>11, Zenon DEF Indices
<1>13. FirstColon(t) = k
  BY ONLY t \in Seq(Chars), <1>12, FirstColonIs, Zenon
<1>14. t[1] # LeftBracket
  <2>1. 1 \in 1..7
    OBVIOUS
  <2> QED BY ONLY <1>10, <2>1, CharsAre, Zenon
<1> DEFINE u == SubSeq(t, k + 1, n)
           x == ParseV4(s)
           p == Port(u)
<1>15. x \in IPs
  BY ONLY <1>4, MeaningV4(SubSeq(t, 1, k - 1)) # None, ParsesV4, Zenon DEF s, S
<1>16. p \in Shorts
  <2>1. u # <<>> /\ u[1] = t[n]
    BY ONLY <1>1, <1>2, <1>3, <1>6
  <2> HIDE DEF u
  <2>2. t[n] \in Shorts /\ t[n] \in Nat
    BY ONLY <1>7, t[Len(t)] \in Shorts, Zenon
  <2>3. t[n] \in 0 .. LongRange - 1 /\ LongRange \in Nat
    BY ONLY <2>2, AddressesAssumption, Zenon
  <2>4. ~(t[n] >= LongRange)
    BY ONLY <2>3, SMT
  <2>5. IsNumber(t[n])
    BY ONLY <2>2, CharsAre, Zenon
  <2> QED BY ONLY <2>1, <2>2, <2>4, <2>5, PortIs, Zenon
<1>17. ParsePlain(t) = Whole(x, p)
  BY ONLY <1>6, <1>13, Zenon DEF ParsePlain, s
<1> HIDE DEF x, p
<1>18. x # None /\ p # None /\ [ip |-> x, port |-> p] # None
  <2>1. [ip |-> x, port |-> p] \in [ip : IPs, port : Shorts]
    BY ONLY <1>15, <1>16
  <2> QED BY ONLY <1>15, <1>16, <2>1, AddressesAssumption, Zenon
<1> QED BY ONLY <1>14, <1>17, <1>18, Zenon DEF Whole

-----------------------------------------------------------------------------
(* The invariants.                                                         *)

\* PortAsGiven, of a text and what SocketAddress::Parse makes of it.
ParsedSocket(t) == IF t # <<>> /\ t[1] = LeftBracket THEN ParseBracketed(t) ELSE ParsePlain(t)

PortRight(t, s) ==
  /\ s # None => t[1] # LeftBracket /\ s.port = t[FirstColon(t) + 1] % 65536
  /\ \A colon \in Indices(t, Colon) :
       /\ colon + 1 = Len(t)
       /\ MeaningV4(SubSeq(t, 1, colon - 1)) # None
       /\ t[Len(t)] \in Shorts
       => s # None

LEMMA SocketParsedRight ==
  ASSUME NEW t \in Seq(Chars)
  PROVE  PortRight(t, ParsedSocket(t))
<1> DEFINE s == ParsedSocket(t)
<1>1. CASE t # <<>> /\ t[1] = LeftBracket
  <2>1. s = None
    BY ONLY <1>1, t \in Seq(Chars), BracketedNever, Zenon DEF ParsedSocket
  <2> HIDE DEF s
  <2>2. ASSUME NEW k \in Indices(t, Colon), k + 1 = Len(t),
               MeaningV4(SubSeq(t, 1, k - 1)) # None, t[Len(t)] \in Shorts
        PROVE  FALSE
    <3>1. t[1] # LeftBracket
      BY ONLY t \in Seq(Chars), <2>2, PlainRead, Zenon
    <3> QED BY ONLY <1>1, <3>1, Zenon
  <2>3. PortRight(t, s)
    BY ONLY <2>1, <2>2, SMT DEF PortRight
  <2> QED BY ONLY <2>3, Zenon DEF s
<1>2. CASE ~(t # <<>> /\ t[1] = LeftBracket)
  <2>1. s = ParsePlain(t)
    BY ONLY <1>2, Zenon DEF ParsedSocket
  <2> HIDE DEF s
  <2>2. s # None => t[1] # LeftBracket
    <3>1. ASSUME s # None PROVE t # <<>>
      <4>1. ParsePlain(t) # None
        BY ONLY <2>1, <3>1, Zenon
      <4> QED BY ONLY <4>1, t \in Seq(Chars), PlainPort
    <3> QED BY ONLY <1>2, <3>1, Zenon
  <2>3. s # None => s.port = t[FirstColon(t) + 1] % 65536
    <3>1. ASSUME s # None PROVE s.port = t[FirstColon(t) + 1] % 65536
      <4>1. ParsePlain(t) # None
        BY ONLY <2>1, <3>1, Zenon
      <4>2. ParsePlain(t).port = t[FirstColon(t) + 1] % 65536
        BY ONLY <4>1, t \in Seq(Chars), PlainPort
      <4> QED BY ONLY <2>1, <4>2
    <3> QED BY ONLY <3>1
  <2>4. ASSUME NEW k \in Indices(t, Colon), k + 1 = Len(t),
               MeaningV4(SubSeq(t, 1, k - 1)) # None, t[Len(t)] \in Shorts
        PROVE  s # None
    BY ONLY t \in Seq(Chars), <2>1, <2>4, PlainRead, Zenon
  <2>5. PortRight(t, s)
    BY ONLY <2>2, <2>3, <2>4, SMT DEF PortRight
  <2> QED BY ONLY <2>5, Zenon DEF s
<1> QED BY ONLY <1>1, <1>2, Zenon

\* Of an empty text it does not matter what is read of it.
LEMMA SocketParsed ==
  ASSUME text \in Seq(Chars), ParseSocket
  PROVE  socket' = ParsedSocket(text)
<1>1. PICK first \in FirstOf(text) :
        socket' = IF first = LeftBracket THEN ParseBracketed(text) ELSE ParsePlain(text)
  BY Zenon DEF ParseSocket
<1>2. CASE text = <<>>
  <2>1. ParseBracketed(text) = None
    BY ONLY <1>2, text \in Seq(Chars), BracketedNever, Zenon
  <2>2. ParsePlain(text) = None
    <3>1. ASSUME ParsePlain(text) # None PROVE text # <<>>
      BY ONLY <3>1, text \in Seq(Chars), PlainPort
    <3> QED BY ONLY <1>2, <3>1, Zenon
  <2> QED BY ONLY <1>1, <1>2, <2>1, <2>2, Zenon DEF ParsedSocket
<1>3. CASE text # <<>>
  <2>1. first = text[1]
    BY ONLY <1>1, <1>3, Zenon DEF FirstOf
  <2> QED BY ONLY <1>1, <1>3, <2>1, Zenon DEF ParsedSocket
<1> QED BY <1>2, <1>3

\* The inductive invariant: what was printed denotes what was given, and what
\* was read is what the parsers make of the text.
AddressInv ==
  /\ phase \in {"print", "parse", "socket", "system", "done"}
  /\ text \in Seq(Chars)
  /\ given # None => given \in IPs
  /\ phase = "print" => given # None
  /\ PrintsItsMeaning
  /\ phase \in {"socket", "system", "done"} => ip = ParseIP(text)
  /\ phase \in {"system", "done"} => socket = ParsedSocket(text)
  /\ phase \in {"print", "parse", "socket"} => socket = None

LEMMA PhasesDiffer ==
  /\ "print" # "parse" /\ "print" # "socket" /\ "print" # "system" /\ "print" # "done"
  /\ "parse" # "socket" /\ "parse" # "system" /\ "parse" # "done"
  /\ "socket" # "system" /\ "socket" # "done" /\ "system" # "done"
OBVIOUS

\* What is printed of an address denotes it.
LEMMA PrintedRight ==
  ASSUME NEW a \in IPs, NEW t, t = IF a.version = 4 THEN PrintV4(a.addr) ELSE PrintV6(a.addr)
  PROVE  t \in Seq(Chars) /\ Meaning(t) = a
<1> DEFINE V4 == [1..4 -> Bytes]
           V6 == [1..16 -> Bytes]
<1>1. a \in [version : {4}, addr : V4] \/ a \in [version : {6}, addr : V6]
  BY ONLY a \in IPs, Zenon DEF IPs
<1> HIDE DEF V4, V6
<1>2. CASE a \in [version : {4}, addr : V4]
  <2>1. a.version = 4 /\ a.addr \in V4 /\ a = [version |-> 4, addr |-> a.addr]
    BY ONLY <1>2
  <2>2. PrintV4(a.addr) \in Seq(Chars) /\ Meaning(PrintV4(a.addr)) = [version |-> 4, addr |-> a.addr]
    BY ONLY <2>1, PrintsV4, Zenon DEF V4
  <2>3. t = PrintV4(a.addr)
    BY ONLY <2>1, t = IF a.version = 4 THEN PrintV4(a.addr) ELSE PrintV6(a.addr), Zenon
  <2> QED BY ONLY <2>1, <2>2, <2>3, Zenon
<1>3. CASE a \in [version : {6}, addr : V6]
  <2>1. a.version = 6 /\ a.addr \in V6 /\ a = [version |-> 6, addr |-> a.addr] /\ 6 # 4
    BY ONLY <1>3
  <2>2. PrintV6(a.addr) \in Seq(Chars) /\ Meaning(PrintV6(a.addr)) = [version |-> 6, addr |-> a.addr]
    BY ONLY <2>1, PrintsV6, Zenon DEF V6
  <2>3. t = PrintV6(a.addr)
    BY ONLY <2>1, t = IF a.version = 4 THEN PrintV4(a.addr) ELSE PrintV6(a.addr), Zenon
  <2> QED BY ONLY <2>1, <2>2, <2>3, Zenon
<1> QED BY ONLY <1>1, <1>2, <1>3, Zenon

LEMMA AddressInvInit == AddressInit => AddressInv
<1> SUFFICES ASSUME AddressInit PROVE AddressInv
  OBVIOUS
<1>1. \/ phase = "parse" /\ text \in Texts /\ given = None
      \/ phase = "print" /\ text = <<>> /\ given \in Addrs
  BY Zenon DEF AddressInit
<1>2. socket = None
  BY Zenon DEF AddressInit
<1>3. Texts \subseteq Seq(Chars)
  BY ONLY AddressesAssumption, Zenon DEF Chars
<1>4. Addrs \subseteq IPs /\ None \notin IPs
  BY ONLY AddressesAssumption, Zenon
<1>5. <<>> \in Seq(Chars)
  OBVIOUS
<1>6. CASE phase = "parse" /\ text \in Texts /\ given = None
  <2>1. text \in Seq(Chars)
    BY ONLY <1>3, <1>6, Zenon
  <2> QED BY ONLY <1>2, <1>6, <2>1, PhasesDiffer, Zenon DEF AddressInv, PrintsItsMeaning
<1>7. CASE phase = "print" /\ text = <<>> /\ given \in Addrs
  <2>1. text \in Seq(Chars) /\ given \in IPs /\ given # None
    BY ONLY <1>4, <1>5, <1>7, Zenon
  <2> QED BY ONLY <1>2, <1>7, <2>1, PhasesDiffer, Zenon DEF AddressInv, PrintsItsMeaning
<1> QED BY ONLY <1>1, <1>6, <1>7, Zenon

LEMMA AddressInvNext == AddressInv /\ [AddressNext]_addressVars => AddressInv'
<1> SUFFICES ASSUME AddressInv, [AddressNext]_addressVars PROVE AddressInv'
  OBVIOUS
<1> USE PhasesDiffer
<1>1. CASE PrintIP
  <2>1. /\ phase = "print" /\ phase' = "parse" /\ given' = given /\ ip' = ip /\ socket' = socket
        /\ text' = IF given.version = 4 THEN PrintV4(given.addr) ELSE PrintV6(given.addr)
    BY ONLY <1>1, Zenon DEF PrintIP
  <2>2. given # None /\ given \in IPs /\ socket = None
    BY ONLY AddressInv, <2>1, Zenon DEF AddressInv
  <2>3. text' \in Seq(Chars) /\ Meaning(text') = given
    BY ONLY <2>1, <2>2, PrintedRight, Zenon
  <2>4. PrintsItsMeaning'
    BY ONLY <2>1, <2>3, Zenon DEF PrintsItsMeaning, Meaning, MeaningV4, MeaningV6, Indices
  <2> QED BY ONLY PhasesDiffer, <2>1, <2>2, <2>3, <2>4, Zenon DEF AddressInv
<1>2. CASE Parse
  <2>1. /\ phase = "parse" /\ phase' = "socket" /\ text' = text /\ given' = given /\ socket' = socket
        /\ ip' = ParseIP(text)
    BY ONLY <1>2, Zenon DEF Parse
  <2> QED BY ONLY PhasesDiffer, AddressInv, <2>1, Zenon DEF AddressInv, PrintsItsMeaning
<1>3. CASE ParseSocket
  <2>1. /\ phase = "socket" /\ (phase' = "done" \/ phase' = "system") /\ text' = text /\ given' = given
        /\ ip' = ip /\ socket' = ParsedSocket(text)
    <3>1. text \in Seq(Chars)
      BY ONLY AddressInv, Zenon DEF AddressInv
    <3>2. socket' = ParsedSocket(text)
      BY ONLY <1>3, <3>1, SocketParsed, Zenon
    <3> QED BY ONLY <1>3, <3>2, Zenon DEF ParseSocket
  <2> QED BY ONLY PhasesDiffer, AddressInv, <2>1, Zenon DEF AddressInv, PrintsItsMeaning
<1>4. CASE ToSystem
  <2>1. /\ phase = "system" /\ phase' = "done" /\ text' = text /\ given' = given
        /\ ip' = ip /\ socket' = socket
    BY ONLY <1>4, Zenon DEF ToSystem
  <2> QED BY ONLY PhasesDiffer, AddressInv, <2>1, Zenon DEF AddressInv, PrintsItsMeaning
<1>5. CASE UNCHANGED addressVars
  <2>1. phase' = phase /\ text' = text /\ given' = given /\ ip' = ip /\ socket' = socket
    BY ONLY <1>5 DEF addressVars
  <2> QED BY ONLY AddressInv, <2>1, Zenon DEF AddressInv, PrintsItsMeaning
<1> QED BY <1>1, <1>2, <1>3, <1>4, <1>5, Zenon DEF AddressNext

\* The text is one that can be read, what was printed denotes what was given,
\* and the results are those of IP::Parse and SocketAddress::Parse.
THEOREM AddressInvariant == AddressSpec => []AddressInv
<1>1. AddressInit => AddressInv
  BY AddressInvInit
<1>2. AddressInv /\ [AddressNext]_addressVars => AddressInv'
  BY AddressInvNext
<1> QED BY <1>1, <1>2, PTL DEF AddressSpec

\* Whatever address is printed, with its longest run of zeros left out, the
\* text denotes that address (IPv4::ToString, IPv6::ToString).
THEOREM MeaningsPrinted == AddressSpec => []PrintsItsMeaning
<1>1. AddressInv => PrintsItsMeaning
  BY Zenon DEF AddressInv
<1> QED BY <1>1, AddressInvariant, PTL

\* Every text that denotes an address is read as it, but for the two losses,
\* and every other is refused but for the exceptions (IP::Parse).
THEOREM MeaningsRead == AddressSpec => []ReadsItsMeaning
<1>1. AddressInv => ReadsItsMeaning
  <2> SUFFICES ASSUME AddressInv, phase \in {"socket", "system", "done"} PROVE ReadRight(text, ip)
    BY Zenon DEF ReadsItsMeaning, ReadRight
  <2>1. text \in Seq(Chars) /\ ip = ParseIP(text)
    BY Zenon DEF AddressInv
  <2> QED BY ONLY <2>1, ParsedRight, Zenon
<1> QED BY <1>1, AddressInvariant, PTL

\* A port that was given is the port that is read; without one the port is
\* the first part of the address, and what is in brackets is never read
\* (SocketAddress::Parse).
THEOREM PortsGiven == AddressSpec => []PortAsGiven
<1>1. AddressInv => PortAsGiven
  <2> SUFFICES ASSUME AddressInv PROVE PortAsGiven
    OBVIOUS
  <2>1. text \in Seq(Chars)
    BY Zenon DEF AddressInv
  <2>2. socket = None \/ socket = ParsedSocket(text)
    BY PhasesDiffer, Zenon DEF AddressInv
  <2>3. phase \in {"system", "done"} => socket = ParsedSocket(text)
    BY Zenon DEF AddressInv
  <2>4. PortRight(text, ParsedSocket(text))
    BY ONLY <2>1, SocketParsedRight, Zenon
  <2>5. ASSUME socket # None PROVE text[1] # LeftBracket /\ socket.port = text[FirstColon(text) + 1] % 65536
    <3>1. socket = ParsedSocket(text)
      BY ONLY <2>2, <2>5, Zenon
    <3>2. PortRight(text, socket)
      BY ONLY <2>4, <3>1, Zenon
    <3> QED BY ONLY <2>5, <3>2 DEF PortRight
  <2>6. ASSUME phase \in {"system", "done"}, NEW k \in Indices(text, Colon), k + 1 = Len(text),
               MeaningV4(SubSeq(text, 1, k - 1)) # None, text[Len(text)] \in Shorts
        PROVE  socket # None
    <3>1. PortRight(text, socket)
      BY ONLY <2>3, <2>4, <2>6, Zenon
    <3> QED BY ONLY <2>6, <3>1 DEF PortRight
  <2> QED BY ONLY <2>5, <2>6 DEF PortAsGiven
<1> QED BY <1>1, AddressInvariant, PTL
=============================================================================
