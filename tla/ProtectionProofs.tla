-------------------------- MODULE ProtectionProofs --------------------------
(***************************************************************************)
(* Without trouble the scopes keep their promise, for any threads, pages   *)
(* and depth.  The invariant says what every open scope remembers: of a    *)
(* page that an outer scope of the same thread covers, that it was open,   *)
(* and of any other page its first protection.                             *)
(***************************************************************************)
EXTENDS Protection, SequenceTheorems, TLAPS

Nested(t, i, p) == \E j \in 1..i - 1 : Covers(scopes[t][j], p)

OpenOrOriginal == \A p \in Pages : prot[p] = IF InScope(p) THEN "all" ELSE original[p]

Remembered ==
  \A t \in Threads : \A i \in 1..Len(scopes[t]) : \A p \in Pages :
    Covers(scopes[t][i], p) =>
      scopes[t][i].prev = IF Nested(t, i, p) THEN "all" ELSE original[p]

Apart ==
  \A t, u \in Threads : t # u =>
    \A i \in 1..Len(scopes[t]), j \in 1..Len(scopes[u]) : \A p \in Pages :
      ~(Covers(scopes[t][i], p) /\ Covers(scopes[u][j], p))

Sound == ~faulted /\ OpenOrOriginal /\ Remembered /\ Apart

Exclusive ==
  guarded => ~overlapped /\ \A t \in Threads : scopes[t] # <<>> => mutex = t

Inv == TypeOK /\ Exclusive /\ (~Trouble => Sound)

-----------------------------------------------------------------------------
\* What the steps below need to know of a stack of scopes.
LEMMA Stack ==
  ASSUME NEW S, NEW s \in Seq(S)
  PROVE  /\ Len(s) \in Nat /\ DOMAIN s = 1..Len(s)
         /\ \A i \in 1..Len(s) : s[i] \in S
         /\ s # <<>> => Len(s) \in Nat \ {0}
  BY EmptySeq

\* The innermost scope removed.
LEMMA Popped ==
  ASSUME NEW S, NEW s \in Seq(S), s # <<>>
  PROVE  /\ SubSeq(s, 1, Len(s) - 1) \in Seq(S)
         /\ Len(SubSeq(s, 1, Len(s) - 1)) = Len(s) - 1
         /\ \A i \in 1..Len(s) - 1 : SubSeq(s, 1, Len(s) - 1)[i] = s[i]
         /\ Len(s) \in Nat \ {0} /\ s[Len(s)] \in S
<1> DEFINE m == Len(s) - 1
<1>1. Len(s) \in Nat \ {0} /\ m \in Nat /\ \A i \in 1..Len(s) : s[i] \in S
  BY Stack
<1>2. \A i \in 1..m : s[i] \in S
  BY <1>1
<1>3. /\ SubSeq(s, 1, m) \in Seq(S) /\ Len(SubSeq(s, 1, m)) = IF 1 <= m THEN m - 1 + 1 ELSE 0
      /\ \A i \in 1..m - 1 + 1 : SubSeq(s, 1, m)[i] = s[1 + i - 1]
  <2> HIDE DEF m
  <2> QED
    BY <1>1, <1>2, SubSeqProperties
<1>4. Len(SubSeq(s, 1, m)) = m
  <2> HIDE DEF m
  <2> QED
    BY <1>1, <1>3
<1>5. \A i \in 1..m : SubSeq(s, 1, m)[i] = s[i]
  <2> SUFFICES ASSUME NEW i \in 1..m PROVE SubSeq(s, 1, m)[i] = s[i]
    OBVIOUS
  <2>1. i \in 1..m - 1 + 1 /\ 1 + i - 1 = i
    BY <1>1
  <2> QED
    BY <2>1, <1>3
<1> QED
  BY <1>1, <1>3, <1>4, <1>5

\* A new innermost scope.
LEMMA Pushed ==
  ASSUME NEW S, NEW s \in Seq(S), NEW e \in S
  PROVE  /\ Append(s, e) \in Seq(S) /\ Len(Append(s, e)) = Len(s) + 1 /\ Len(s) \in Nat
         /\ \A i \in 1..Len(s) : Append(s, e)[i] = s[i]
         /\ Append(s, e)[Len(s) + 1] = e
         /\ Append(s, e) # <<>>
  BY AppendProperties

LEMMA InitInv == Init => Inv
<1> SUFFICES ASSUME Init PROVE Inv
  OBVIOUS
<1>1. TypeOK
  <2>1. scopes \in [Threads -> Seq(Scope)]
    BY EmptySeq DEF Init
  <2> QED
    BY <2>1 DEF Init, TypeOK
<1>2. Exclusive
  BY DEF Init, Exclusive
<1>3. Sound
  BY DEF Init, Sound, OpenOrOriginal, Remembered, Apart, InScope
<1> QED
  BY <1>1, <1>2, <1>3 DEF Inv, Trouble

LEMMA TypeStep == TypeOK /\ [Next]_vars => TypeOK'
<1> SUFFICES ASSUME TypeOK, [Next]_vars PROVE TypeOK'
  OBVIOUS
<1> USE DEF TypeOK, history
<1>1. ASSUME NEW t \in Threads, Lock(t) \/ Unlock(t) PROVE TypeOK'
  BY <1>1 DEF Lock, Unlock
<1>2. ASSUME NEW t \in Threads, NEW p \in Pages, Store(t, p) PROVE TypeOK'
  BY <1>2 DEF Store
<1>3. ASSUME NEW t \in Threads, NEW first \in Pages, NEW last \in Pages, Begin(t, first, last)
      PROVE  TypeOK'
  <2>1. [first |-> first, last |-> last, prev |-> prot[first]] \in Scope
    BY DEF Scope
  <2>2. scopes' \in [Threads -> Seq(Scope)]
    <3>1. Append(scopes[t], [first |-> first, last |-> last, prev |-> prot[first]]) \in Seq(Scope)
      BY <2>1, Pushed
    <3> QED
      BY <1>3, <3>1 DEF Begin
  <2>3. prot' \in [Pages -> Protections]
    BY <1>3 DEF Begin, Protected, Protections
  <2>4. overlapped' \in BOOLEAN /\ mixed' \in BOOLEAN
    BY <1>3 DEF Begin
  <2> QED
    BY <1>3, <2>2, <2>3, <2>4 DEF Begin
<1>4. ASSUME NEW t \in Threads, End(t) PROVE TypeOK'
  <2>1. /\ scopes[t] \in Seq(Scope) /\ scopes[t] # <<>>
        /\ SubSeq(scopes[t], 1, Len(scopes[t]) - 1) \in Seq(Scope)
        /\ Top(t).prev \in Protections
    <3>1. scopes[t] \in Seq(Scope) /\ scopes[t] # <<>>
      BY <1>4 DEF End
    <3>2. SubSeq(scopes[t], 1, Len(scopes[t]) - 1) \in Seq(Scope) /\ Top(t) \in Scope
      BY <3>1, Popped DEF Top
    <3> QED
      BY <3>1, <3>2 DEF Scope
  <2> QED
    BY <1>4, <2>1 DEF End, Protected
<1>5. CASE UNCHANGED vars
  BY <1>5 DEF vars
<1> QED
  BY <1>1, <1>2, <1>3, <1>4, <1>5 DEF Next, Step

LEMMA ExclusiveStep == TypeOK /\ Exclusive /\ [Next]_vars => Exclusive'
<1> SUFFICES ASSUME TypeOK, Exclusive, [Next]_vars PROVE Exclusive'
  OBVIOUS
<1> USE DEF Exclusive, history
<1>1. ASSUME NEW t \in Threads, Lock(t) \/ Unlock(t) PROVE Exclusive'
  BY <1>1, ProtectionAssumption DEF Lock, Unlock
<1>2. ASSUME NEW t \in Threads, NEW p \in Pages, Store(t, p) PROVE Exclusive'
  BY <1>2 DEF Store
<1>3. ASSUME NEW t \in Threads, NEW first \in Pages, NEW last \in Pages, Begin(t, first, last)
      PROVE  Exclusive'
  <2>1. \A u \in Threads \ {t} : scopes'[u] = scopes[u]
    BY <1>3 DEF Begin, TypeOK
  <2>2. guarded => mutex = t /\ \A u \in Threads \ {t} : scopes[u] = <<>>
    BY <1>3 DEF Begin
  <2>3. guarded => ~overlapped'
    <3>1. <<>> \in Seq(Scope) /\ DOMAIN <<>> = {}
      BY EmptySeq
    <3>2. guarded => \A u \in Threads \ {t} : DOMAIN scopes[u] = {}
      BY <2>2, <3>1
    <3>3. overlapped' <=> (overlapped \/ \E u \in Threads \ {t} : \E i \in DOMAIN scopes[u] :
                             scopes[u][i].first <= last /\ first <= scopes[u][i].last)
      BY <1>3 DEF Begin
    <3> QED
      BY <3>2, <3>3
  <2> QED
    BY <1>3, <2>1, <2>2, <2>3 DEF Begin
<1>4. ASSUME NEW t \in Threads, End(t) PROVE Exclusive'
  BY <1>4 DEF End, TypeOK
<1>5. CASE UNCHANGED vars
  BY <1>5 DEF vars
<1> QED
  BY <1>1, <1>2, <1>3, <1>4, <1>5 DEF Next, Step

-----------------------------------------------------------------------------
LEMMA BeginSound ==
  ASSUME TypeOK, Exclusive, Exclusive', Sound, ~Trouble',
         NEW t \in Threads, NEW first \in Pages, NEW last \in Pages, Begin(t, first, last)
  PROVE  Sound'
<1> DEFINE n == Len(scopes[t])
           new == [first |-> first, last |-> last, prev |-> prot[first]]
<1> USE DEF Sound
<1>1. /\ scopes' \in [Threads -> Seq(Scope)] /\ n \in Nat
      /\ scopes'[t] = Append(scopes[t], new)
      /\ Len(scopes'[t]) = n + 1
      /\ \A i \in 1..n : scopes'[t][i] = scopes[t][i]
      /\ scopes'[t][n + 1] = new
      /\ \A u \in Threads : u # t => scopes'[u] = scopes[u]
  <2>1. new \in Scope /\ scopes[t] \in Seq(Scope)
    BY DEF TypeOK, Scope
  <2> QED
    BY <2>1, Pushed DEF Begin, TypeOK
<1>0. \A u \in Threads :
        /\ Len(scopes[u]) \in Nat /\ scopes[u] \in Seq(Scope) /\ scopes'[u] \in Seq(Scope)
        /\ DOMAIN scopes[u] = 1..Len(scopes[u]) /\ DOMAIN scopes'[u] = 1..Len(scopes'[u])
        /\ \A i \in 1..Len(scopes[u]) : i \in 1..Len(scopes'[u]) /\ scopes'[u][i] = scopes[u][i]
  <2> SUFFICES ASSUME NEW u \in Threads
               PROVE  /\ Len(scopes[u]) \in Nat /\ scopes[u] \in Seq(Scope) /\ scopes'[u] \in Seq(Scope)
                      /\ DOMAIN scopes[u] = 1..Len(scopes[u]) /\ DOMAIN scopes'[u] = 1..Len(scopes'[u])
                      /\ \A i \in 1..Len(scopes[u]) :
                            i \in 1..Len(scopes'[u]) /\ scopes'[u][i] = scopes[u][i]
    OBVIOUS
  <2>1. scopes[u] \in Seq(Scope) /\ scopes'[u] \in Seq(Scope)
    BY <1>1 DEF TypeOK
  <2>2. Len(scopes[u]) \in Nat /\ DOMAIN scopes[u] = 1..Len(scopes[u]) /\ DOMAIN scopes'[u] = 1..Len(scopes'[u])
    BY <2>1, Stack
  <2>3. CASE u = t
    BY <2>1, <2>2, <2>3, <1>1
  <2>4. CASE u # t
    BY <2>1, <2>2, <2>4, <1>1
  <2> QED
    BY <2>3, <2>4
<1>2. \A p \in Pages : Covers(new, p) <=> first <= p /\ p <= last
  BY DEF Covers
<1>3. ~overlapped' /\ ~mixed'
  BY DEF Trouble, Exclusive, Begin, history
<1>4. \A u \in Threads : u # t => \A i \in 1..Len(scopes[u]) : \A p \in Pages :
        ~(Covers(new, p) /\ Covers(scopes[u][i], p))
  <2> SUFFICES ASSUME NEW u \in Threads, u # t, NEW i \in 1..Len(scopes[u]), NEW p \in Pages,
                      Covers(new, p), Covers(scopes[u][i], p)
               PROVE  FALSE
    OBVIOUS
  <2>1. i \in DOMAIN scopes[u] /\ scopes[u][i] \in Scope
    BY <1>0, Stack
  <2>2. ~(scopes[u][i].first <= last /\ first <= scopes[u][i].last)
    BY <1>3, <2>1 DEF Begin
  <2>3. /\ scopes[u][i].first \in Nat /\ scopes[u][i].last \in Nat
        /\ first \in Nat /\ last \in Nat /\ p \in Nat
    BY <2>1, ProtectionAssumption DEF Scope
  <2>4. /\ first <= p /\ p <= last
        /\ scopes[u][i].first <= p /\ p <= scopes[u][i].last
    BY DEF Covers
  <2> QED
    BY <2>2, <2>3, <2>4
<1>5. \A p \in Pages : first <= p /\ p <= last => prot[p] = prot[first]
  <2>1. ~\E p \in first..last : prot[p] # prot[first]
    BY <1>3 DEF Begin
  <2>2. \A p \in Pages : first <= p /\ p <= last => p \in first..last
    BY ProtectionAssumption
  <2> QED
    BY <2>1, <2>2
<1>6. \A p \in Pages : InScope(p)' <=> InScope(p) \/ (first <= p /\ p <= last)
  <2> SUFFICES ASSUME NEW p \in Pages PROVE InScope(p)' <=> InScope(p) \/ Covers(new, p)
    BY <1>2
  <2>1. ASSUME InScope(p)' PROVE InScope(p) \/ Covers(new, p)
    <3>1. PICK u \in Threads : \E i \in 1..Len(scopes'[u]) : Covers(scopes'[u][i], p)
      BY <2>1, <1>1 DEF InScope, Covers
    <3>2. PICK i \in 1..Len(scopes'[u]) : Covers(scopes'[u][i], p)
      BY <3>1
    <3>3. scopes[u] \in Seq(Scope)
      BY DEF TypeOK
    <3>4. CASE u # t
      BY <3>2, <3>3, <3>4, <1>1 DEF InScope
    <3>5. CASE u = t /\ i \in 1..n
      BY <3>2, <3>3, <3>5, <1>1 DEF InScope
    <3>6. CASE u = t /\ i = n + 1
      BY <3>2, <3>6, <1>1
    <3> QED
      BY <1>1, <3>4, <3>5, <3>6
  <2>2. ASSUME InScope(p) PROVE InScope(p)'
    <3>1. PICK u \in Threads : \E i \in DOMAIN scopes[u] : Covers(scopes[u][i], p)
      BY <2>2 DEF InScope
    <3>2. PICK i \in DOMAIN scopes[u] : Covers(scopes[u][i], p)
      BY <3>1
    <3>4. i \in DOMAIN scopes'[u] /\ scopes'[u][i] = scopes[u][i]
      BY <1>0
    <3> QED
      BY <3>2, <3>4 DEF InScope, Covers
  <2>3. ASSUME Covers(new, p) PROVE InScope(p)'
    <3>1. scopes'[t] \in Seq(Scope) /\ n + 1 \in DOMAIN scopes'[t]
      BY <1>0, <1>1
    <3>2. Covers(scopes'[t][n + 1], p)
      BY <2>3, <1>1
    <3> QED
      BY <3>1, <3>2 DEF InScope, Covers
  <2> QED
    BY <2>1, <2>2, <2>3
<1>7. OpenOrOriginal'
  BY <1>6 DEF OpenOrOriginal, Begin, Protected, TypeOK, history
<1>8. \A u \in Threads : \A i \in 1..Len(scopes[u]) : \A p \in Pages :
        Nested(u, i, p)' <=> Nested(u, i, p)
  <2> SUFFICES ASSUME NEW u \in Threads, NEW i \in 1..Len(scopes[u]), NEW p \in Pages
               PROVE  Nested(u, i, p)' <=> Nested(u, i, p)
    OBVIOUS
  <2>1. Len(scopes[u]) \in Nat
    BY DEF TypeOK
  <2>2. \A j \in 1..i - 1 : scopes'[u][j] = scopes[u][j]
    BY <1>1, <2>1
  <2> QED
    BY <2>2 DEF Nested, Covers
<1>9. ASSUME NEW k, k = n + 1, NEW p \in Pages, Covers(new, p)
      PROVE  Nested(t, k, p)' <=> InScope(p)
  <2>1. InScope(p) <=> \E i \in 1..n : Covers(scopes[t][i], p)
    BY <1>0, <1>4, <1>9 DEF InScope
  <2>2. 1..k - 1 = 1..n
    BY <1>1, <1>9
  <2>3. Nested(t, k, p)' <=> \E j \in 1..n : Covers(scopes'[t][j], p)
    BY <2>2 DEF Nested, Covers
  <2>4. \A j \in 1..n : scopes'[t][j] = scopes[t][j]
    BY <1>1
  <2> QED
    BY <2>1, <2>3, <2>4
<1>10. Remembered'
  <2> SUFFICES ASSUME NEW u \in Threads, NEW i \in 1..Len(scopes'[u]), NEW p \in Pages,
                      Covers(scopes'[u][i], p)
               PROVE  scopes'[u][i].prev = IF Nested(u, i, p)' THEN "all" ELSE original'[p]
    BY DEF Remembered, Covers
  <2>1. original' = original
    BY DEF Begin, history
  <2>2. Len(scopes[u]) \in Nat
    BY DEF TypeOK
  <2>3. CASE u # t \/ i \in 1..n
    <3>1. i \in 1..Len(scopes[u]) /\ scopes'[u][i] = scopes[u][i]
      BY <2>3, <1>1
    <3> QED
      BY <3>1, <2>1, <1>8 DEF Remembered
  <2>4. CASE u = t /\ i = n + 1
    <3>1. Covers(new, p) /\ scopes'[u][i].prev = prot[first]
      BY <2>4, <1>1
    <3>2. prot[p] = prot[first]
      BY <3>1, <1>2, <1>5
    <3>3. Nested(u, i, p)' <=> InScope(p)
      BY <3>1, <2>4, <1>9
    <3> QED
      BY <3>1, <3>2, <3>3, <2>1 DEF OpenOrOriginal
  <2> QED
    BY <1>1, <2>3, <2>4
<1>11. Apart'
  <2> SUFFICES ASSUME NEW u \in Threads, NEW v \in Threads, u # v,
                      NEW i \in 1..Len(scopes'[u]), NEW j \in 1..Len(scopes'[v]), NEW p \in Pages,
                      Covers(scopes'[u][i], p), Covers(scopes'[v][j], p)
               PROVE  FALSE
    BY DEF Apart, Covers
  <2>1. Len(scopes[u]) \in Nat /\ Len(scopes[v]) \in Nat
    BY DEF TypeOK
  <2>2. CASE u = t /\ i = n + 1
    BY <2>2, <1>1, <1>4
  <2>3. CASE v = t /\ j = n + 1
    BY <2>3, <1>1, <1>4
  <2>4. CASE ~(u = t /\ i = n + 1) /\ ~(v = t /\ j = n + 1)
    <3>1. i \in 1..Len(scopes[u]) /\ scopes'[u][i] = scopes[u][i]
      <4>1. CASE u = t
        BY <2>1, <2>4, <1>1, <4>1
      <4>2. CASE u # t
        BY <1>1, <4>2
      <4> QED
        BY <4>1, <4>2
    <3>2. j \in 1..Len(scopes[v]) /\ scopes'[v][j] = scopes[v][j]
      <4>1. CASE v = t
        <5>1. j \in 1..n + 1 /\ j # n + 1
          BY <2>4, <1>1, <4>1
        <5>2. j \in 1..n
          BY <5>1, <1>1
        <5>3. scopes'[t][j] = scopes[t][j]
          BY <5>2, <1>1
        <5> QED
          BY <5>2, <5>3, <4>1
      <4>2. CASE v # t
        BY <1>1, <4>2
      <4> QED
        BY <4>1, <4>2
    <3> QED
      BY <3>1, <3>2 DEF Apart
  <2> QED
    BY <2>2, <2>3, <2>4
<1> QED
  BY <1>7, <1>10, <1>11 DEF Begin, Covers

LEMMA EndSound ==
  ASSUME TypeOK, Sound, NEW t \in Threads, End(t)
  PROVE  Sound'
<1> DEFINE n == Len(scopes[t])
           top == scopes[t][n]
<1> USE DEF Sound
<1>1. /\ scopes' \in [Threads -> Seq(Scope)] /\ n \in Nat \ {0}
      /\ Len(scopes'[t]) = n - 1
      /\ \A i \in 1..n - 1 : scopes'[t][i] = scopes[t][i]
      /\ \A u \in Threads : u # t => scopes'[u] = scopes[u]
      /\ top \in Scope
  BY Popped DEF End, TypeOK
<1>2. \A u \in Threads : /\ Len(scopes[u]) \in Nat /\ Len(scopes'[u]) \in Nat
                         /\ Len(scopes'[u]) <= Len(scopes[u])
                         /\ DOMAIN scopes[u] = 1..Len(scopes[u])
                         /\ DOMAIN scopes'[u] = 1..Len(scopes'[u])
                         /\ \A i \in 1..Len(scopes'[u]) : scopes'[u][i] = scopes[u][i]
                         /\ \A i \in 1..Len(scopes'[u]) : i \in 1..Len(scopes[u])
  <2> SUFFICES ASSUME NEW u \in Threads
               PROVE  /\ Len(scopes[u]) \in Nat /\ Len(scopes'[u]) \in Nat
                      /\ Len(scopes'[u]) <= Len(scopes[u])
                      /\ DOMAIN scopes[u] = 1..Len(scopes[u])
                      /\ DOMAIN scopes'[u] = 1..Len(scopes'[u])
                      /\ \A i \in 1..Len(scopes'[u]) : scopes'[u][i] = scopes[u][i]
                      /\ \A i \in 1..Len(scopes'[u]) : i \in 1..Len(scopes[u])
    OBVIOUS
  <2>1. scopes[u] \in Seq(Scope) /\ scopes'[u] \in Seq(Scope)
    BY <1>1 DEF TypeOK
  <2>2. /\ Len(scopes[u]) \in Nat /\ DOMAIN scopes[u] = 1..Len(scopes[u])
        /\ Len(scopes'[u]) \in Nat /\ DOMAIN scopes'[u] = 1..Len(scopes'[u])
    BY <2>1, Stack
  <2>3. CASE u = t
    BY <2>2, <2>3, <1>1
  <2>4. CASE u # t
    BY <2>2, <2>4, <1>1
  <2> QED
    BY <2>3, <2>4
<1>3. \A p \in Pages : ~Covers(top, p) => (InScope(p)' <=> InScope(p))
  <2> SUFFICES ASSUME NEW p \in Pages, ~Covers(top, p) PROVE InScope(p)' <=> InScope(p)
    OBVIOUS
  <2>1. ASSUME InScope(p)' PROVE InScope(p)
    BY <2>1, <1>2 DEF InScope, Covers
  <2>2. ASSUME InScope(p) PROVE InScope(p)'
    <3>0. PICK u \in Threads : \E i \in 1..Len(scopes[u]) : Covers(scopes[u][i], p)
      BY <2>2, <1>2 DEF InScope
    <3>1. PICK i \in 1..Len(scopes[u]) : Covers(scopes[u][i], p)
      BY <3>0
    <3>2. i \in 1..Len(scopes'[u])
      <4>1. CASE u = t
        BY <3>1, <1>1, <4>1
      <4>2. CASE u # t
        BY <1>1, <4>2
      <4> QED
        BY <4>1, <4>2
    <3> QED
      BY <3>1, <3>2, <1>2 DEF InScope, Covers
  <2> QED
    BY <2>1, <2>2
<1>4. \A p \in Pages : Covers(top, p) => (InScope(p)' <=> Nested(t, n, p))
  <2> SUFFICES ASSUME NEW p \in Pages, Covers(top, p) PROVE InScope(p)' <=> Nested(t, n, p)
    OBVIOUS
  <2>1. \A u \in Threads : u # t => \A i \in 1..Len(scopes'[u]) : ~Covers(scopes'[u][i], p)
    <3> SUFFICES ASSUME NEW u \in Threads, u # t, NEW i \in 1..Len(scopes'[u]),
                        Covers(scopes'[u][i], p)
                 PROVE  FALSE
      OBVIOUS
    <3>1. i \in 1..Len(scopes[u]) /\ Covers(scopes[u][i], p)
      BY <1>1
    <3>2. n \in 1..Len(scopes[t])
      BY <1>1
    <3> QED
      BY <3>1, <3>2 DEF Apart
  <2>2. InScope(p)' <=> \E i \in 1..n - 1 : Covers(scopes'[t][i], p)
    <3>1. DOMAIN scopes'[t] = 1..n - 1
      BY <1>1, <1>2
    <3>2. InScope(p)' <=> \E u \in Threads : \E i \in 1..Len(scopes'[u]) : Covers(scopes'[u][i], p)
      BY <1>2 DEF InScope, Covers
    <3> QED
      BY <1>1, <2>1, <3>1, <3>2
  <2> QED
    BY <1>1, <2>2 DEF Nested
<1>5. OpenOrOriginal'
  <2> SUFFICES ASSUME NEW p \in Pages
               PROVE  prot'[p] = IF InScope(p)' THEN "all" ELSE original[p]
    BY DEF OpenOrOriginal, End, history
  <2>1. CASE Covers(top, p)
    <3>1. prot'[p] = top.prev
      BY <2>1 DEF End, Protected, Top, Covers
    <3>2. top.prev = IF Nested(t, n, p) THEN "all" ELSE original[p]
      BY <2>1, <1>1 DEF Remembered
    <3> QED
      BY <2>1, <3>1, <3>2, <1>4
  <2>2. CASE ~Covers(top, p)
    <3>1. prot'[p] = prot[p]
      BY <2>2 DEF End, Protected, Top, Covers
    <3> QED
      BY <2>2, <3>1, <1>3 DEF OpenOrOriginal
  <2> QED
    BY <2>1, <2>2
<1>6. Remembered'
  <2> SUFFICES ASSUME NEW u \in Threads, NEW i \in 1..Len(scopes'[u]), NEW p \in Pages,
                      Covers(scopes'[u][i], p)
               PROVE  scopes'[u][i].prev = IF Nested(u, i, p)' THEN "all" ELSE original'[p]
    BY DEF Remembered, Covers
  <2>1. i \in 1..Len(scopes[u]) /\ scopes'[u][i] = scopes[u][i]
    BY <1>2
  <2>2. \A j \in 1..i - 1 : scopes'[u][j] = scopes[u][j]
    BY <1>2
  <2>3. Nested(u, i, p)' <=> Nested(u, i, p)
    BY <2>2 DEF Nested, Covers
  <2> QED
    BY <2>1, <2>3 DEF Remembered, End, history
<1>7. Apart'
  <2> SUFFICES ASSUME NEW u \in Threads, NEW v \in Threads, u # v,
                      NEW i \in 1..Len(scopes'[u]), NEW j \in 1..Len(scopes'[v]), NEW p \in Pages,
                      Covers(scopes'[u][i], p), Covers(scopes'[v][j], p)
               PROVE  FALSE
    BY DEF Apart, Covers
  <2> QED
    BY <1>2 DEF Apart
<1> QED
  BY <1>5, <1>6, <1>7 DEF End, Covers

LEMMA SoundKept ==
  ASSUME Sound, UNCHANGED <<prot, scopes, original>>, ~faulted'
  PROVE  Sound'
BY DEF Sound, OpenOrOriginal, Remembered, Apart, InScope, Nested, Covers

LEMMA NextInv == Inv /\ [Next]_vars => Inv'
<1> SUFFICES ASSUME Inv, [Next]_vars PROVE Inv'
  OBVIOUS
<1>1. TypeOK' /\ Exclusive'
  BY TypeStep, ExclusiveStep DEF Inv
<1>2. ASSUME ~Trouble' PROVE Sound'
  <2>1. ~Trouble
    BY <1>2 DEF Trouble, Next, Step, Lock, Unlock, Store, Begin, End, vars, history
  <2>2. Sound
    BY <2>1 DEF Inv
  <2>3. ASSUME NEW t \in Threads, Lock(t) \/ Unlock(t) PROVE Sound'
    <3>1. UNCHANGED <<prot, scopes, original>> /\ faulted' = faulted
      BY <2>3 DEF Lock, Unlock, history
    <3> QED
      BY <2>2, <3>1, SoundKept DEF Sound
  <2>4. ASSUME NEW t \in Threads, NEW p \in Pages, Store(t, p) PROVE Sound'
    <3>1. scopes[t] \in Seq(Scope) /\ Len(scopes[t]) \in DOMAIN scopes[t]
      BY <2>4 DEF Store, Inv, TypeOK
    <3>2. prot[p] = "all"
      BY <2>2, <2>4, <3>1 DEF Store, Top, Sound, OpenOrOriginal, InScope
    <3>3. UNCHANGED <<prot, scopes, original>> /\ ~faulted'
      BY <2>4, <3>2 DEF Store, history
    <3> QED
      BY <2>2, <3>3, SoundKept
  <2>5. ASSUME NEW t \in Threads, NEW first \in Pages, NEW last \in Pages, Begin(t, first, last)
        PROVE  Sound'
    BY <1>1, <1>2, <2>2, <2>5, BeginSound DEF Inv
  <2>6. ASSUME NEW t \in Threads, End(t) PROVE Sound'
    BY <2>2, <2>6, EndSound DEF Inv
  <2>7. CASE UNCHANGED vars
    BY <2>2, <2>7, SoundKept DEF vars, Sound
  <2> QED
    BY <2>3, <2>4, <2>5, <2>6, <2>7 DEF Next, Step
<1> QED
  BY <1>1, <1>2 DEF Inv

LEMMA AlwaysInv == Spec => []Inv
  BY InitInv, NextInv, PTL DEF Spec

-----------------------------------------------------------------------------
\* Every variable of the scopes, the pages and the lock has its type.
THEOREM TypeCorrect == Spec => []TypeOK
  BY AlwaysInv, PTL DEF Inv

\* Without trouble every page in a scope is open to stores: for any number of
\* threads, pages and nested scopes (UnFuckScope with Copy, Fill and Write).
THEOREM ScopesOpen == Spec => []WritableInScope
<1>1. Inv => WritableInScope
  BY DEF Inv, WritableInScope, Sound, OpenOrOriginal
<1> QED
  BY AlwaysInv, <1>1, PTL

\* Without trouble every page has its protection back when the last scope over
\* it has ended (~UnFuckScope).
THEOREM ScopesClose == Spec => []RestoredAfter
<1>1. Inv => RestoredAfter
  BY DEF Inv, RestoredAfter, Sound, OpenOrOriginal
<1> QED
  BY AlwaysInv, <1>1, PTL
=============================================================================
