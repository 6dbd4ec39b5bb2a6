----------------------------- MODULE Protection -----------------------------
(***************************************************************************)
(* Memory::UnFuckScope and the functions that write through it: for its    *)
(* duration a scope makes pages writable, and then gives them back the     *)
(* protection that VirtualProtect said they had.  Threads have scopes of   *)
(* their own, also nested ones.                                            *)
(*                                                                         *)
(* A program may guard what it patches with an Atomic: then a thread holds *)
(* its Locked from before its first scope until after its last.  All pages *)
(* are committed, so VirtualProtect does what it is asked to.              *)
(***************************************************************************)
EXTENDS Integers, Sequences

CONSTANTS
  Threads,
  Pages,     \* an interval of page numbers
  NoThread,  \* the mutex is free
  MaxDepth   \* bound on the scopes of a thread

ASSUME ProtectionAssumption ==
  /\ Pages \subseteq Nat /\ \A a, b \in Pages : a..b \subseteq Pages
  /\ NoThread \notin Threads
  /\ MaxDepth \in Nat

VARIABLES
  guarded,     \* the program guards its scopes with an Atomic
  mutex,       \* Atomic::m_mutex
  prot,        \* the protection of each page
  scopes,      \* the scopes of each thread, the innermost last
  faulted,     \* a store has met a page that is not writable
  original,    \* history: the protection before any scope
  overlapped,  \* history: scopes of two threads had a page in common
  mixed        \* history: a scope began over pages of different protection

vars == <<guarded, mutex, prot, scopes, faulted, original, overlapped, mixed>>
history == <<guarded, original>>

Protections == {"read", "write", "all"}  \* "all" is PAGE_EXECUTE_READWRITE

Covers(s, p) == s.first <= p /\ p <= s.last
Top(t) == scopes[t][Len(scopes[t])]

\* VirtualProtect
Protected(first, last, as) ==
  [p \in Pages |-> IF first <= p /\ p <= last THEN as ELSE prot[p]]

Init ==
  /\ guarded \in BOOLEAN
  /\ mutex = NoThread
  /\ original \in [Pages -> Protections]
  /\ prot = original
  /\ scopes = [t \in Threads |-> <<>>]
  /\ faulted = FALSE /\ overlapped = FALSE /\ mixed = FALSE

\* Mutant: the mutex is not asked
LockAnyway(t) ==
  /\ guarded
  /\ mutex' = t
  /\ UNCHANGED <<prot, scopes, faulted, overlapped, mixed, history>>

\* Atomic::Lock and the end of the Locked.  Deref hands the lock on to another
\* Locked of the same thread.
Lock(t) ==
  /\ guarded /\ mutex = NoThread
  /\ mutex' = t
  /\ UNCHANGED <<prot, scopes, faulted, overlapped, mixed, history>>

Unlock(t) ==
  /\ mutex = t /\ scopes[t] = <<>>
  /\ mutex' = NoThread
  /\ UNCHANGED <<prot, scopes, faulted, overlapped, mixed, history>>

\* The constructor: of the old protections it is told that of the first page.
Begin(t, first, last) ==
  /\ guarded => mutex = t
  /\ Len(scopes[t]) < MaxDepth
  /\ first <= last
  /\ scopes' = [scopes EXCEPT ![t] =
                  Append(@, [first |-> first, last |-> last, prev |-> prot[first]])]
  /\ prot' = Protected(first, last, "all")
  /\ overlapped' = (overlapped \/ \E u \in Threads \ {t} : \E i \in DOMAIN scopes[u] :
                      scopes[u][i].first <= last /\ first <= scopes[u][i].last)
  /\ mixed' = (mixed \/ \E p \in first..last : prot[p] # prot[first])
  /\ UNCHANGED <<mutex, faulted, history>>

\* A store of Copy, Fill or Write, or of the code in a scope of its own.
Store(t, p) ==
  /\ scopes[t] # <<>> /\ Covers(Top(t), p)
  /\ faulted' = (prot[p] = "read")
  /\ UNCHANGED <<mutex, prot, scopes, overlapped, mixed, history>>

\* Mutant: what was the case is not given back
EndOpen(t) ==
  /\ scopes[t] # <<>>
  /\ scopes' = [scopes EXCEPT ![t] = SubSeq(@, 1, Len(@) - 1)]
  /\ UNCHANGED <<mutex, prot, faulted, overlapped, mixed, history>>

\* The destructor.
End(t) ==
  /\ scopes[t] # <<>>
  /\ prot' = Protected(Top(t).first, Top(t).last, Top(t).prev)
  /\ scopes' = [scopes EXCEPT ![t] = SubSeq(@, 1, Len(@) - 1)]
  /\ UNCHANGED <<mutex, faulted, overlapped, mixed, history>>

Step(t) ==
  \/ Lock(t) \/ Unlock(t) \/ End(t)
  \/ \E p \in Pages : Store(t, p)
  \/ \E first, last \in Pages : Begin(t, first, last)

\* A fault ends the program.
Next == ~faulted /\ \E t \in Threads : Step(t)

Spec == Init /\ [][Next]_vars
-----------------------------------------------------------------------------
Scope == [first : Pages, last : Pages, prev : Protections]

TypeOK ==
  /\ guarded \in BOOLEAN
  /\ mutex \in Threads \cup {NoThread}
  /\ prot \in [Pages -> Protections] /\ original \in [Pages -> Protections]
  /\ scopes \in [Threads -> Seq(Scope)]
  /\ faulted \in BOOLEAN /\ overlapped \in BOOLEAN /\ mixed \in BOOLEAN

\* What the scopes do not cope with: pages of different protection, and, if
\* nothing guards them, other threads on the same pages.
Trouble == mixed \/ (overlapped /\ ~guarded)

InScope(p) == \E t \in Threads : \E i \in DOMAIN scopes[t] : Covers(scopes[t][i], p)

\* "Removes memory protection from a region while in scope": however scopes
\* are nested, whatever other threads patch elsewhere, and also on the same
\* pages if the scopes are guarded, every page in a scope can be written to
\* and executed, so that no store of Copy, Fill or Write faults.
WritableInScope ==
  ~Trouble => ~faulted /\ \A p \in Pages : InScope(p) => prot[p] = "all"

\* Under the same conditions a page that is in no scope any more has the
\* protection it had before the first.
RestoredAfter ==
  ~Trouble => \A p \in Pages : ~InScope(p) => prot[p] = original[p]
=============================================================================
