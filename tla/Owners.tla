------------------------------- MODULE Owners -------------------------------
(***************************************************************************)
(* The two classes that own something of Windows: CO, a counted reference  *)
(* to an object, and RawSocket, the handle of a socket, with TCPSocket     *)
(* that creates one.  Both have one member, which is empty or names what   *)
(* is owned, and the same constructors, assignments and destructor; only a *)
(* CO can be copied.                                                       *)
(*                                                                         *)
(* An object may have a CO as a member of its own, as the nodes of a list  *)
(* do, which goes when the object goes.  What was given back may be used   *)
(* again for another purpose.                                              *)
(***************************************************************************)
EXTENDS Integers, FiniteSets

CONSTANTS
  Locals,     \* variables of the class, on the stack
  Resources,  \* objects, or handles; also the places of the objects' members
  NULL,       \* nullptr or INVALID_SOCKET
  MaxRefs     \* bound on the references to an object

ASSUME OwnersAssumption ==
  /\ IsFiniteSet(Resources)
  /\ Locals \cap Resources = {} /\ NULL \notin Locals \cup Resources
  /\ MaxRefs \in Nat \ {0}

VARIABLES
  class,     \* "CO" or "RawSocket"
  refs,      \* the references to each resource; 0 if it is gone
  held,      \* what each place owns
  raw,       \* the references that belong to other code
  leaked,    \* those that were overwritten through operator&
  dangling   \* an assignment used a place inside an object that was gone

vars == <<class, refs, held, raw, leaked, dangling>>

Places == Locals \cup Resources
Counted == class = "CO"
Memory == [refs |-> refs, held |-> held]

\* What code can reach from some roots, through the members of objects.
Further(h, places) == places \cup ({h[p] : p \in places} \ {NULL})

Reach(h, roots) ==
  LET within[n \in 0..Cardinality(Resources)] ==
        IF n = 0 THEN roots ELSE Further(h, within[n - 1])
  IN  within[Cardinality(Resources)]

Roots == Locals \cup {r \in Resources : raw[r] > 0}
Accessible == IF Counted THEN Reach(held, Roots) ELSE Locals

Init ==
  /\ class \in {"CO", "RawSocket"}
  /\ refs = [r \in Resources |-> 0]
  /\ held = [p \in Places |-> NULL]
  /\ raw = [r \in Resources |-> 0]
  /\ leaked = [r \in Resources |-> 0]
  /\ dangling = FALSE

-----------------------------------------------------------------------------
\* One reference less.  The last one takes the object's member with it, and
\* perhaps the object that one refers to.
DropOne(s) ==
  IF s.r = NULL THEN s
  ELSE IF s.m.refs[s.r] > 1
    THEN [m |-> [s.m EXCEPT !.refs[s.r] = @ - 1], r |-> NULL]
    ELSE [m |-> [s.m EXCEPT !.refs[s.r] = 0, !.held[s.r] = NULL], r |-> s.m.held[s.r]]

Drop(m, r) ==
  LET after[n \in 0..Cardinality(Resources)] ==
        IF n = 0 THEN [m |-> m, r |-> r] ELSE DropOne(after[n - 1])
  IN  after[Cardinality(Resources)].m

\* Release, or Invalidate, of a place.
Released(p) == [Drop(Memory, held[p]) EXCEPT !.held[p] = NULL]

Become(m) == refs' = m.refs /\ held' = m.held

Referenced(m, r) == IF r = NULL THEN m ELSE [m EXCEPT !.refs[r] = @ + 1]

\* A place is used after it is gone: whatever happens then is not followed.
Dangle == dangling' = TRUE /\ UNCHANGED <<class, refs, held, raw, leaked>>

Gone(m, p) == p \in Resources /\ m.refs[p] = 0

\* The program creates an object, or opens a socket, that no CO and no
\* RawSocket knows, or gives back such a one.
Create(r) ==
  /\ refs[r] = 0
  /\ refs' = [refs EXCEPT ![r] = 1]
  /\ raw' = [raw EXCEPT ![r] = 1]
  /\ UNCHANGED <<class, held, leaked, dangling>>

GiveBack(r) ==
  /\ raw[r] > 0
  /\ raw' = [raw EXCEPT ![r] = @ - 1]
  /\ Become(Drop(Memory, r))
  /\ UNCHANGED <<class, leaked, dangling>>

-----------------------------------------------------------------------------
(* Constructors: the place is a new local.                                 *)

\* CO(T*, InheritReference_Tag), RawSocket(SOCKET)
Inherit(p, r) ==
  /\ p \in Locals /\ held[p] = NULL /\ raw[r] > 0
  /\ held' = [held EXCEPT ![p] = r]
  /\ raw' = [raw EXCEPT ![r] = @ - 1]
  /\ UNCHANGED <<class, refs, leaked, dangling>>

\* CO(T*, AddNewReference_Tag)
AddNew(p, r) ==
  /\ Counted /\ refs[r] < MaxRefs
  /\ p \in Locals /\ held[p] = NULL /\ r \in Accessible
  /\ Become([Referenced(Memory, r) EXCEPT !.held[p] = r])
  /\ UNCHANGED <<class, raw, leaked, dangling>>

\* TCPSocket(IPVersion); socket() may fail, and then the handle is invalid.
Open(p, r) ==
  /\ ~Counted /\ refs[r] = 0
  /\ p \in Locals /\ held[p] = NULL
  /\ Become([Referenced(Memory, r) EXCEPT !.held[p] = r])
  /\ UNCHANGED <<class, raw, leaked, dangling>>

CopyConstruct(p, q) ==
  /\ Counted /\ held[q] # NULL /\ refs[held[q]] < MaxRefs
  /\ p \in Locals /\ held[p] = NULL
  /\ Become([Referenced(Memory, held[q]) EXCEPT !.held[p] = held[q]])
  /\ UNCHANGED <<class, raw, leaked, dangling>>

\* Mutant: the other keeps the handle
MoveConstructKeeping(p, q) ==
  /\ p \in Locals /\ held[p] = NULL /\ held[q] # NULL
  /\ held' = [held EXCEPT ![p] = held[q]]
  /\ UNCHANGED <<class, refs, raw, leaked, dangling>>

\* Also a TCPSocket that becomes a RawSocket.
MoveConstruct(p, q) ==
  /\ p \in Locals /\ held[p] = NULL /\ held[q] # NULL
  /\ held' = [held EXCEPT ![p] = held[q], ![q] = NULL]
  /\ UNCHANGED <<class, refs, raw, leaked, dangling>>

-----------------------------------------------------------------------------
(* The others.                                                             *)

\* The destructor, Release and Invalidate.
Release(p) ==
  /\ held[p] # NULL
  /\ Become(Released(p))
  /\ UNCHANGED <<class, raw, leaked, dangling>>

\* What is held is released before the other is looked at.
CopyAssign(p, q) ==
  /\ Counted
  /\ held[q] # NULL => refs[held[q]] < MaxRefs
  /\ LET m == Released(p)
     IN  IF Gone(m, q) THEN Dangle
         ELSE /\ Become([Referenced(m, m.held[q]) EXCEPT !.held[p] = m.held[q]])
              /\ UNCHANGED <<class, raw, leaked, dangling>>

\* Mutant: the other gets what the place had
MoveAssignSwapping(p, q) ==
  /\ held' = [held EXCEPT ![p] = held[q], ![q] = held[p]]
  /\ UNCHANGED <<class, refs, raw, leaked, dangling>>

MoveAssign(p, q) ==
  LET m == Released(p)
  IN  IF Gone(m, q) THEN Dangle
      ELSE /\ Become([m EXCEPT !.held[p] = m.held[q], !.held[q] = NULL])
           /\ UNCHANGED <<class, raw, leaked, dangling>>

\* &co is given to a function that stores an object there.
StoreThrough(p, r) ==
  /\ Counted /\ refs[r] = 0
  /\ refs' = [refs EXCEPT ![r] = 1]
  /\ leaked' = IF held[p] = NULL THEN leaked ELSE [leaked EXCEPT ![held[p]] = @ + 1]
  /\ held' = [held EXCEPT ![p] = r]
  /\ UNCHANGED <<class, raw, dangling>>

Next ==
  /\ ~dangling
  /\ \/ \E r \in Resources : Create(r) \/ GiveBack(r)
     \/ \E p \in Accessible, r \in Resources :
          Inherit(p, r) \/ AddNew(p, r) \/ Open(p, r) \/ StoreThrough(p, r)
     \/ \E p, q \in Accessible :
          CopyConstruct(p, q) \/ MoveConstruct(p, q) \/ CopyAssign(p, q) \/ MoveAssign(p, q)
     \/ \E p \in Accessible : Release(p)

Spec == Init /\ [][Next]_vars
-----------------------------------------------------------------------------
\* Every reference has exactly one owner: a place, other code, or, where
\* operator& was used on a CO that held something, nobody any more.  So
\* nothing is given back twice, or while a place still names it, when its
\* handle may belong to somebody else; and nothing else is leaked.
EveryReferenceOwned ==
  \A r \in Resources :
    refs[r] = Cardinality({p \in Places : held[p] = r}) + raw[r] + leaked[r]

\* After an assignment the place owns what the other place owned before, and
\* the other still does or does not, as it was copied or moved, unless a place
\* is assigned to itself and gives up what it has, or the other place lies
\* inside an object that only the assigned place kept alive, and is read when
\* it is gone.
AssignsWhatItIsGiven ==
  [][ \A p, q \in Accessible :
        CopyAssign(p, q) \/ MoveAssign(p, q) =>
          \/ p = q /\ held'[p] = NULL
          \/ held'[p] = held[q] /\ held'[q] \in {held[q], NULL}
          \/ dangling' /\ q \notin Reach([held EXCEPT ![p] = NULL], Roots) ]_vars
=============================================================================
