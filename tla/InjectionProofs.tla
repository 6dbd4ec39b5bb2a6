-------------------------- MODULE InjectionProofs --------------------------
(***************************************************************************)
(* The first half proves what Install keeps, of the module FunctionHook    *)
(* alone: for any number of hooks, functions and pages and any placement   *)
(* of the functions on the pages.  Its inductive invariant is IInv.        *)
(*                                                                         *)
(* The second half is the safety of Injection, for any number of threads   *)
(* and any game: the game never runs half hooked, and what its threads see *)
(* of their calls is GameCalls.  That Install is sound there too comes     *)
(* from the first half.                                                    *)
(***************************************************************************)
EXTENDS Injection, TLAPS

-----------------------------------------------------------------------------
(* FunctionHook.                                                           *)

\* Install generates the page, the trampoline and the saved bytes of a hook
\* in this order; only the hook it stands in has some of them and not all.
Generation ==
  /\ \A h \in Hooks :
       /\ Built(h) => genPage[h] # NULL
       /\ originalCode[h] # NULL => Built(h)
       /\ genPage[h] # NULL => Built(h) \/ (h = cur /\ step = "build")
       /\ Built(h) => originalCode[h] # NULL \/ (h = cur /\ step = "save")
  /\ step = "allocate" => genPage[cur] = NULL
  /\ step = "build" => genPage[cur] # NULL /\ ~Built(cur)
  /\ step = "save" => Built(cur) /\ originalCode[cur] = NULL
  /\ step \in {"unprotect", "opcode", "operand", "nops", "reprotect"}
       => originalCode[cur] # NULL

\* No page serves two hooks.
PagesDistinct ==
  \A h, k \in Hooks : genPage[h] # NULL /\ genPage[h] = genPage[k] => h = k

\* A trampoline only enters jumpers whose own trampoline was built before.
TrampolinesEnterBuilt ==
  \A h \in Hooks : trampoline[h] \in GenPages =>
    \E k \in Hooks : genPage[k] = trampoline[h] /\ Built(k)

\* While Install is in a patch, only the page of its target may be writable,
\* and what it was before is in previousProtection, unless the size it passed
\* to VirtualProtect was 0: then it never gets to the restoring call.
ProtectionHeld ==
  /\ step \in {"idle", "allocate", "search", "build", "save", "unprotect"} =>
       \A p \in Pages : prot[p] = ImageProt
  /\ \A p \in Pages : p # PageOf[Target[cur]] => prot[p] = ImageProt
  /\ step \in {"opcode", "operand", "nops", "reprotect"} /\ hookSize[cur] # 0 =>
       previousProtection = ImageProt
  /\ step = "reprotect" => hookSize[cur] # 0

IInv ==
  /\ TypeOK
  /\ Generation
  /\ PagesDistinct
  /\ TrampolinesEnterBuilt
  /\ TrampolinesReachBody
  /\ RedirectsAreComplete
  /\ SavedCodePredatesPatch
  /\ TornOnlyInsidePatch
  /\ ProtectionHeld

\* The invariant holds before the first call of Install.
LEMMA InitInv == Init => IInv
<1> SUFFICES ASSUME Init PROVE IInv
  OBVIOUS
<1> USE HookAssumption DEF Init
<1>1. TypeOK
  BY DEF TypeOK, Code, Pristine, Protections, Steps, Crashes
<1>2. Generation
  BY DEF Generation, Built
<1>3. PagesDistinct
  BY DEF PagesDistinct
<1>4. TrampolinesEnterBuilt
  BY DEF TrampolinesEnterBuilt
<1>5. TrampolinesReachBody
  BY DEF TrampolinesReachBody
<1>6. RedirectsAreComplete
  BY DEF RedirectsAreComplete, Pristine
<1>7. SavedCodePredatesPatch
  BY DEF SavedCodePredatesPatch
<1>8. TornOnlyInsidePatch
  BY DEF TornOnlyInsidePatch, Torn, Pristine
<1>9. ProtectionHeld
  BY DEF ProtectionHeld
<1> QED
  BY <1>1, <1>2, <1>3, <1>4, <1>5, <1>6, <1>7, <1>8, <1>9 DEF IInv

\* What a step leaves alone keeps the conjuncts that speak only of it.
LEMMA GeneratedKept ==
  ASSUME IInv, UNCHANGED <<genPage, trampoline>>
  PROVE  PagesDistinct' /\ TrampolinesEnterBuilt' /\ TrampolinesReachBody'
  BY DEF IInv, PagesDistinct, TrampolinesEnterBuilt, TrampolinesReachBody, Built

\* A step that leaves the entries and the hooks' fields alone keeps what they
\* say of each other.
LEMMA EntriesKept ==
  ASSUME IInv, UNCHANGED <<implVars, code>>
  PROVE  RedirectsAreComplete' /\ SavedCodePredatesPatch'
  BY DEF IInv, RedirectsAreComplete, SavedCodePredatesPatch, Built, implVars

\* A process that dies leaves everything as it was.
LEMMA DieInv ==
  ASSUME IInv, NEW cause \in Crashes, Die(cause)
  PROVE  IInv'
<1> USE DEF Die, IInv, implVars
<1>1. TypeOK'
  BY DEF TypeOK
<1>2. Generation'
  BY DEF Generation, Built
<1>3. PagesDistinct' /\ TrampolinesEnterBuilt' /\ TrampolinesReachBody'
  BY GeneratedKept
<1>4. RedirectsAreComplete' /\ SavedCodePredatesPatch'
  BY EntriesKept
<1>5. TornOnlyInsidePatch'
  BY DEF TornOnlyInsidePatch, Torn
<1>6. ProtectionHeld'
  BY DEF ProtectionHeld
<1> QED
  BY <1>1, <1>2, <1>3, <1>4, <1>5, <1>6

\* Install goes to the step its hook has not done yet: to the generation if it
\* has no page, otherwise past all of it.
LEMMA InstallBeginInv ==
  ASSUME IInv, NEW h \in Hooks, InstallBegin(h)
  PROVE  IInv'
<1> USE DEF InstallBegin, At, IInv, implVars
<1>1. TypeOK'
  BY DEF TypeOK, Steps
<1>2. Generation'
  BY DEF Generation, Built
<1>3. PagesDistinct' /\ TrampolinesEnterBuilt' /\ TrampolinesReachBody'
  BY GeneratedKept
<1>4. RedirectsAreComplete' /\ SavedCodePredatesPatch'
  BY EntriesKept
<1>5. TornOnlyInsidePatch'
  BY DEF TornOnlyInsidePatch, Torn
<1>6. ProtectionHeld'
  BY HookAssumption DEF ProtectionHeld, TypeOK
<1> QED
  BY <1>1, <1>2, <1>3, <1>4, <1>5, <1>6

\* A search that does not end changes nothing.
LEMMA SearchForEverInv ==
  ASSUME IInv, SearchForEver
  PROVE  IInv'
<1> USE DEF SearchForEver, At, IInv, implVars
<1>1. TypeOK'
  BY DEF TypeOK, Steps
<1>2. Generation'
  BY DEF Generation, Built
<1>3. PagesDistinct' /\ TrampolinesEnterBuilt' /\ TrampolinesReachBody'
  BY GeneratedKept
<1>4. RedirectsAreComplete' /\ SavedCodePredatesPatch'
  BY EntriesKept
<1>5. TornOnlyInsidePatch'
  BY DEF TornOnlyInsidePatch, Torn
<1>6. ProtectionHeld'
  BY DEF ProtectionHeld
<1> QED
  BY <1>1, <1>2, <1>3, <1>4, <1>5, <1>6

\* The new page is nobody's: no trampoline and no entry leads to it yet.
LEMMA AllocatePageInv ==
  ASSUME IInv, AllocatePage
  PROVE  IInv'
<1> USE HookAssumption DEF AllocatePage, At, IInv
<1> PICK p \in GenPages \ {genPage[h] : h \in Hooks} :
      genPage' = [genPage EXCEPT ![cur] = p]
  OBVIOUS
<1>0. cur \in Hooks /\ genPage \in [Hooks -> GenPages \cup {NULL}]
      /\ trampoline \in [Hooks -> GenPages \cup {Body, NULL}]
  BY DEF TypeOK
<1>p. /\ genPage'[cur] = p /\ p # NULL /\ p # Body
      /\ \A h \in Hooks : h # cur => genPage'[h] = genPage[h]
      /\ \A h \in Hooks : genPage[h] # p
  BY <1>0
<1>n. genPage[cur] = NULL /\ ~Built(cur) /\ originalCode[cur] = NULL
  BY <1>0 DEF Generation
<1>1. TypeOK'
  BY DEF TypeOK, Steps
<1>2. Generation'
  BY <1>0, <1>p, <1>n DEF Generation, Built
<1>3. PagesDistinct'
  BY <1>0, <1>p DEF PagesDistinct
<1>4. TrampolinesEnterBuilt'
  BY <1>0, <1>p, <1>n DEF TrampolinesEnterBuilt, Built
<1>5. \A h \in Hooks : trampoline[h] # p
  BY <1>0, <1>p DEF TrampolinesEnterBuilt
<1>6. TrampolinesReachBody'
  <2> SUFFICES ASSUME NEW S \in (SUBSET Hooks) \ {{}}
               PROVE  \E h \in S : \A k \in S :
                        genPage'[k] = NULL \/ trampoline'[h] # genPage'[k]
    BY DEF TrampolinesReachBody
  <2>1. PICK h \in S : \A k \in S : genPage[k] = NULL \/ trampoline[h] # genPage[k]
    BY DEF TrampolinesReachBody
  <2> QED
    BY <2>1, <1>0, <1>5, <1>p
<1>7. RedirectsAreComplete'
  BY <1>0, <1>p, <1>n DEF RedirectsAreComplete, Built
<1>8. SavedCodePredatesPatch'
  BY <1>0, <1>p, <1>n DEF SavedCodePredatesPatch
<1>9. TornOnlyInsidePatch'
  BY DEF TornOnlyInsidePatch, Torn
<1>10. ProtectionHeld'
  BY DEF ProtectionHeld
<1> QED
  BY <1>1, <1>2, <1>3, <1>4, <1>6, <1>7, <1>8, <1>9, <1>10

\* No entry leads to the page being built, so the trampoline that is built
\* from the entry of the target does not enter its own jumper.
LEMMA BuildTrampolineInv ==
  ASSUME IInv, BuildTrampoline
  PROVE  IInv'
<1> USE HookAssumption DEF BuildTrampoline, At, IInv
<1> DEFINE c == code[Target[cur]]
<1> PICK n \in TrampolineSizes(c) : hookSize' = [hookSize EXCEPT ![cur] = n]
  OBVIOUS
<1>0. cur \in Hooks /\ genPage \in [Hooks -> GenPages \cup {NULL}]
      /\ trampoline \in [Hooks -> GenPages \cup {Body, NULL}]
      /\ c \in Code /\ Target[cur] \in Functions
  BY DEF TypeOK
<1>t. /\ trampoline'[cur] = c.operand /\ c.operand \in GenPages \cup {Body}
      /\ \A h \in Hooks : h # cur => trampoline'[h] = trampoline[h]
  BY <1>0 DEF Code
<1>n. genPage[cur] # NULL /\ ~Built(cur) /\ originalCode[cur] = NULL
  BY <1>0 DEF Generation
<1>b. Built(cur)' /\ \A h \in Hooks : Built(h) => Built(h)'
  BY <1>0, <1>t DEF Built
<1>1. TypeOK'
  <2>1. n \in Nat
    BY DEF TrampolineSizes, PatchSize
  <2>2. trampoline' \in [Hooks -> GenPages \cup {Body, NULL}]
    BY <1>0, <1>t
  <2> QED
    BY <2>1, <2>2 DEF TypeOK, Steps
<1>2. Generation'
  BY <1>0, <1>t, <1>n, <1>b DEF Generation, Built
<1>3. PagesDistinct'
  BY DEF PagesDistinct
<1>4. c.operand \in GenPages =>
        \E k \in Hooks : genPage[k] = c.operand /\ Built(k)
  BY <1>0 DEF RedirectsAreComplete
<1>5. TrampolinesEnterBuilt'
  BY <1>0, <1>t, <1>b, <1>4 DEF TrampolinesEnterBuilt
<1>6. c.operand # genPage[cur] /\ \A h \in Hooks : trampoline[h] # genPage[cur]
  BY <1>0, <1>n, <1>4 DEF TrampolinesEnterBuilt, PagesDistinct
<1>7. TrampolinesReachBody'
  <2> SUFFICES ASSUME NEW S \in (SUBSET Hooks) \ {{}}
               PROVE  \E h \in S : \A k \in S :
                        genPage'[k] = NULL \/ trampoline'[h] # genPage'[k]
    BY DEF TrampolinesReachBody
  <2>1. CASE S = {cur}
    BY <2>1, <1>6, <1>t
  <2>2. CASE S # {cur}
    <3>1. S \ {cur} \in (SUBSET Hooks) \ {{}}
      BY <2>2
    <3>2. PICK h \in S \ {cur} : \A k \in S \ {cur} :
            genPage[k] = NULL \/ trampoline[h] # genPage[k]
      BY <3>1 DEF TrampolinesReachBody
    <3> QED
      BY <3>2, <1>6, <1>t
  <2> QED
    BY <2>1, <2>2
<1>8. RedirectsAreComplete'
  BY <1>b DEF RedirectsAreComplete
<1>9. SavedCodePredatesPatch'
  BY DEF SavedCodePredatesPatch
<1>10. TornOnlyInsidePatch'
  BY DEF TornOnlyInsidePatch, Torn
<1>11. ProtectionHeld'
  BY DEF ProtectionHeld
<1> QED
  BY <1>1, <1>2, <1>3, <1>5, <1>7, <1>8, <1>9, <1>10, <1>11

\* The saved bytes are the target's before this hook's patch: the entry does
\* not lead to this hook's page, because an entry leads to saved hooks only.
LEMMA SaveOriginalInv ==
  ASSUME IInv, SaveOriginal
  PROVE  IInv'
<1> USE HookAssumption DEF SaveOriginal, At, IInv
<1>0. cur \in Hooks /\ code[Target[cur]] \in Code /\ Target[cur] \in Functions
      /\ originalCode \in [Hooks -> Code \cup {NULL}]
  BY DEF TypeOK
<1>s. /\ originalCode'[cur] = code[Target[cur]] /\ originalCode'[cur] # NULL
      /\ \A h \in Hooks : h # cur => originalCode'[h] = originalCode[h]
  BY <1>0
<1>n. Built(cur) /\ genPage[cur] # NULL /\ originalCode[cur] = NULL
  BY <1>0 DEF Generation
<1>1. TypeOK'
  BY <1>0 DEF TypeOK, Steps
<1>2. Generation'
  BY <1>0, <1>s, <1>n DEF Generation, Built
<1>3. PagesDistinct' /\ TrampolinesEnterBuilt' /\ TrampolinesReachBody'
  BY GeneratedKept
<1>4. RedirectsAreComplete'
  BY <1>0, <1>s DEF RedirectsAreComplete, Built
<1>5. code[Target[cur]].operand # genPage[cur]
  <2>1. CASE code[Target[cur]].operand = Body
    BY <2>1, <1>0 DEF TypeOK
  <2>2. CASE code[Target[cur]].operand # Body
    BY <2>2, <1>0, <1>n DEF RedirectsAreComplete, PagesDistinct
  <2> QED
    BY <2>1, <2>2
<1>6. SavedCodePredatesPatch'
  BY <1>0, <1>s, <1>5 DEF SavedCodePredatesPatch
<1>7. TornOnlyInsidePatch'
  BY DEF TornOnlyInsidePatch, Torn
<1>8. ProtectionHeld'
  BY DEF ProtectionHeld
<1> QED
  BY <1>1, <1>2, <1>3, <1>4, <1>6, <1>7, <1>8

\* VirtualProtect makes one page writable and keeps what it was.
LEMMA UnprotectInv ==
  ASSUME IInv, Unprotect
  PROVE  IInv'
<1> USE HookAssumption DEF Unprotect, At, IInv, implVars
<1>1. TypeOK'
  BY DEF TypeOK, Steps, Protections
<1>2. Generation'
  BY DEF Generation, Built
<1>3. PagesDistinct' /\ TrampolinesEnterBuilt' /\ TrampolinesReachBody'
  BY GeneratedKept
<1>4. RedirectsAreComplete' /\ SavedCodePredatesPatch'
  BY EntriesKept
<1>5. TornOnlyInsidePatch'
  BY DEF TornOnlyInsidePatch, Torn
<1>6. ProtectionHeld'
  BY DEF ProtectionHeld, TypeOK
<1> QED
  BY <1>1, <1>2, <1>3, <1>4, <1>5, <1>6

\* A step that writes the entry of the target but not its operand.
LEMMA OperandKept ==
  ASSUME IInv, UNCHANGED implVars,
         \A f \in Functions : code'[f].operand = code[f].operand
  PROVE  RedirectsAreComplete' /\ SavedCodePredatesPatch'
  BY DEF IInv, RedirectsAreComplete, SavedCodePredatesPatch, Built, implVars

\* The first store of the patch: the entry is torn from here on.
LEMMA PatchOpcodeInv ==
  ASSUME IInv, PatchOpcode
  PROVE  IInv'
<1>1. CASE Die("write fault")
  BY <1>1, DieInv DEF Crashes
<1>2. CASE ~Die("write fault")
  <2> USE HookAssumption DEF PatchOpcode, At, IInv, implVars
  <2> DEFINE f == Target[cur]
  <2>0. cur \in Hooks /\ f \in Functions /\ code[f] \in Code
    BY DEF TypeOK
  <2>c. /\ code' = [code EXCEPT ![f].opcode = IF @ = "E8" THEN @ ELSE "E9"]
        /\ step' = "operand"
        /\ UNCHANGED <<implVars, prot, cur, previousProtection, crash>>
    BY <1>2
  <2>e. /\ code'[f].operand = code[f].operand
        /\ code'[f] \in Code
        /\ \A g \in Functions : g # f => code'[g] = code[g]
    BY <2>0, <2>c DEF TypeOK, Code
  <2>1. TypeOK'
    <3>1. code' \in [Functions -> Code]
      BY <2>0, <2>c, <2>e DEF TypeOK
    <3> QED
      BY <3>1, <2>c DEF TypeOK, Steps
  <2>2. Generation'
    BY <2>c DEF Generation, Built
  <2>3. PagesDistinct' /\ TrampolinesEnterBuilt' /\ TrampolinesReachBody'
    BY <2>c, GeneratedKept
  <2>4. RedirectsAreComplete' /\ SavedCodePredatesPatch'
    BY <2>c, <2>e, OperandKept
  <2>5. TornOnlyInsidePatch'
    BY <2>c, <2>e DEF TornOnlyInsidePatch, Torn
  <2>6. ProtectionHeld'
    BY <2>c DEF ProtectionHeld
  <2> QED
    BY <2>1, <2>2, <2>3, <2>4, <2>5, <2>6
<1> QED
  BY <1>1, <1>2

\* The store that redirects the function: its hook is complete by now.
LEMMA PatchOperandInv ==
  ASSUME IInv, PatchOperand
  PROVE  IInv'
<1> USE HookAssumption DEF PatchOperand, At, IInv, implVars
<1> DEFINE f == Target[cur]
<1>0. cur \in Hooks /\ f \in Functions /\ code[f] \in Code
      /\ genPage[cur] \in GenPages
  BY DEF TypeOK, Generation
<1>e. /\ code'[f].operand = genPage[cur]
      /\ code'[f] \in Code
      /\ \A g \in Functions : g # f => code'[g] = code[g]
  BY <1>0 DEF TypeOK, Code
<1>1. TypeOK'
  <2>1. code' \in [Functions -> Code]
    BY <1>0, <1>e DEF TypeOK
  <2> QED
    BY <2>1 DEF TypeOK, Steps
<1>2. Generation'
  BY DEF Generation, Built
<1>3. PagesDistinct' /\ TrampolinesEnterBuilt' /\ TrampolinesReachBody'
  BY GeneratedKept
<1>4. RedirectsAreComplete'
  <2>1. Built(cur) /\ originalCode[cur] # NULL
    BY <1>0 DEF Generation
  <2> QED
    BY <2>1, <1>0, <1>e DEF RedirectsAreComplete, Built
<1>5. SavedCodePredatesPatch'
  BY DEF SavedCodePredatesPatch
<1>6. TornOnlyInsidePatch'
  BY <1>0, <1>e DEF TornOnlyInsidePatch, Torn
<1>7. ProtectionHeld'
  BY DEF ProtectionHeld
<1> QED
  BY <1>1, <1>2, <1>3, <1>4, <1>5, <1>6, <1>7

\* The fill behind the jump, or the process that dies in it.
LEMMA PatchNopsInv ==
  ASSUME IInv, PatchNops
  PROVE  IInv'
<1>1. CASE Die("runaway fill")
  BY <1>1, DieInv DEF Crashes
<1>2. CASE ~Die("runaway fill")
  <2> USE HookAssumption DEF PatchNops, At, IInv, implVars
  <2> DEFINE f == Target[cur]
  <2>0. cur \in Hooks /\ f \in Functions /\ code[f] \in Code
        /\ hookSize[cur] \in Nat
    BY DEF TypeOK
  <2>h. ~(hookSize[cur] < PatchSize)
    BY <1>2
  <2>c. /\ hookSize[cur] # 0
        /\ step' = "reprotect"
        /\ UNCHANGED <<implVars, prot, cur, previousProtection, crash>>
    BY <2>0, <2>h DEF PatchSize
  <2>w. code' = code \/ code' = [code EXCEPT ![f].tail = "nop"]
    BY <2>h
  <2>e. /\ code'[f].operand = code[f].operand /\ code'[f].opcode = code[f].opcode
        /\ code'[f] \in Code
        /\ \A g \in Functions : g # f => code'[g] = code[g]
    <3>1. CASE code' = code
      BY <3>1, <2>0
    <3>2. CASE code' = [code EXCEPT ![f].tail = "nop"]
      BY <3>2, <2>0 DEF TypeOK, Code
    <3> QED
      BY <2>w, <3>1, <3>2
  <2>1. TypeOK'
    <3>1. code' \in [Functions -> Code]
      BY <2>0, <2>w, <2>e DEF TypeOK
    <3> QED
      BY <3>1, <2>c DEF TypeOK, Steps
  <2>2. Generation'
    BY <2>c DEF Generation, Built
  <2>3. PagesDistinct' /\ TrampolinesEnterBuilt' /\ TrampolinesReachBody'
    BY <2>c, GeneratedKept
  <2>4. RedirectsAreComplete' /\ SavedCodePredatesPatch'
    BY <2>c, <2>e, OperandKept
  <2>5. TornOnlyInsidePatch'
    BY <2>c, <2>e DEF TornOnlyInsidePatch, Torn
  <2>6. ProtectionHeld'
    BY <2>c DEF ProtectionHeld
  <2> QED
    BY <2>1, <2>2, <2>3, <2>4, <2>5, <2>6
<1> QED
  BY <1>1, <1>2

\* The second VirtualProtect gives the page what the first one found.
LEMMA ReprotectInv ==
  ASSUME IInv, Reprotect
  PROVE  IInv'
<1> USE HookAssumption DEF Reprotect, At, IInv, implVars
<1>1. TypeOK'
  BY DEF TypeOK, Steps
<1>2. Generation'
  BY DEF Generation, Built
<1>3. PagesDistinct' /\ TrampolinesEnterBuilt' /\ TrampolinesReachBody'
  BY GeneratedKept
<1>4. RedirectsAreComplete' /\ SavedCodePredatesPatch'
  BY EntriesKept
<1>5. TornOnlyInsidePatch'
  BY DEF TornOnlyInsidePatch, Torn
<1>6. ProtectionHeld'
  BY DEF ProtectionHeld, TypeOK
<1> QED
  BY <1>1, <1>2, <1>3, <1>4, <1>5, <1>6

\* The invariant is inductive.
LEMMA NextInv ==
  ASSUME IInv, [Next]_vars
  PROVE  IInv'
<1>1. ASSUME NEW h \in Hooks, InstallBegin(h) PROVE IInv'
  BY <1>1, InstallBeginInv
<1>2. CASE AllocatePage
  BY <1>2, AllocatePageInv
<1>3. CASE AllocateNothing
  BY <1>3, DieInv DEF AllocateNothing, Crashes
<1>4. CASE BuildTrampoline
  BY <1>4, BuildTrampolineInv
<1>5. CASE SaveOriginal
  BY <1>5, SaveOriginalInv
<1>6. CASE Unprotect
  BY <1>6, UnprotectInv
<1>7. CASE PatchOpcode
  BY <1>7, PatchOpcodeInv
<1>8. CASE PatchOperand
  BY <1>8, PatchOperandInv
<1>9. CASE PatchNops
  BY <1>9, PatchNopsInv
<1>10. CASE Reprotect
  BY <1>10, ReprotectInv
<1>11. CASE SearchForEver
  BY <1>11, SearchForEverInv
<1>12. CASE UNCHANGED vars
  BY <1>12 DEF vars, implVars, IInv, TypeOK, Generation, PagesDistinct,
     TrampolinesEnterBuilt, TrampolinesReachBody, RedirectsAreComplete,
     SavedCodePredatesPatch, TornOnlyInsidePatch, Torn, ProtectionHeld, Built
<1> QED
  BY <1>1, <1>2, <1>3, <1>4, <1>5, <1>6, <1>7, <1>8, <1>9, <1>10, <1>11, <1>12
     DEF Next, InstallStep

\* At every point of Install, of any hook and in any order, all of this holds.
THEOREM Inductive == Spec => []IInv
<1>1. Init => IInv
  BY InitInv
<1>2. IInv /\ [Next]_vars => IInv'
  BY NextInv
<1> QED
  BY <1>1, <1>2, PTL DEF Spec

-----------------------------------------------------------------------------
\* The variables of the hooks and of the installing thread have their types.
THEOREM TypeCorrect == Spec => []TypeOK
<1>1. IInv => TypeOK
  BY DEF IInv
<1> QED
  BY <1>1, Inductive, PTL

\* However many hooks are stacked on however many functions, a call that
\* enters a trampoline gets to the function's own code.
THEOREM TrampolinesEnd == Spec => []TrampolinesReachBody
<1>1. IInv => TrampolinesReachBody
  BY DEF IInv
<1> QED
  BY <1>1, Inductive, PTL

\* Install redirects a function only to a page it has finished.
THEOREM RedirectsComplete == Spec => []RedirectsAreComplete
<1>1. IInv => RedirectsAreComplete
  BY DEF IInv
<1> QED
  BY <1>1, Inductive, PTL

\* Install never saves its own patch as the original bytes.
THEOREM SavedPredates == Spec => []SavedCodePredatesPatch
<1>1. IInv => SavedCodePredatesPatch
  BY DEF IInv
<1> QED
  BY <1>1, Inductive, PTL

\* An entry is torn only between the two stores of PatchOpcode, PatchOperand.
THEOREM TornInside == Spec => []TornOnlyInsidePatch
<1>1. IInv => TornOnlyInsidePatch
  BY DEF IInv
<1> QED
  BY <1>1, Inductive, PTL

\* Between two calls of Install every page has the protection it came with.
THEOREM Restored == Spec => []ProtectionRestored
<1>1. IInv => ProtectionRestored
  BY DEF IInv, TypeOK, ProtectionHeld, ProtectionRestored, At
<1> QED
  BY <1>1, Inductive, PTL

\* No step of Install rewrites code it generated before.
THEOREM Generated == Spec => GeneratedOnce
<1> DEFINE Kept ==
      \A h \in Hooks :
        /\ genPage[h] # NULL => genPage'[h] = genPage[h]
        /\ Built(h) => trampoline'[h] = trampoline[h]
                       /\ hookSize'[h] = hookSize[h]
<1>1. ASSUME IInv, [Next]_vars PROVE Kept
  <2>0. TypeOK /\ Generation
    BY <1>1 DEF IInv
  <2>1. CASE AllocatePage
    BY <2>0, <2>1 DEF AllocatePage, At, TypeOK, Generation
  <2>2. CASE BuildTrampoline
    BY <2>0, <2>2 DEF BuildTrampoline, At, TypeOK, Generation, Built
  <2>3. CASE UNCHANGED <<genPage, trampoline, hookSize>>
    BY <2>3
  <2>4. \/ AllocatePage \/ BuildTrampoline
        \/ UNCHANGED <<genPage, trampoline, hookSize>>
    BY <1>1 DEF Next, InstallStep, vars, implVars, InstallBegin,
       AllocateNothing, SearchForEver, SaveOriginal, Unprotect, PatchOpcode, PatchOperand,
       PatchNops, Reprotect, Die
  <2> QED
    BY <2>1, <2>2, <2>3, <2>4
<1>2. IInv /\ [Next]_vars => [Kept]_vars
  BY <1>1
<1> QED
  BY <1>2, Inductive, PTL DEF Spec, GeneratedOnce

-----------------------------------------------------------------------------
(* Injection.                                                              *)

\* The loader has called Install on h.
Started(h) == IF h = InitWorldHook THEN ip > 5 ELSE ip > 6

Hooked(h) == Built(h) /\ genPage[h] # NULL /\ code[Target[h]].operand = genPage[h]

\* Where launcher, game and loader can be together.  The game's threads run
\* only after the launcher has seen the loader's end.
LauncherPlace ==
  /\ launcher \in {Checks[i] : i \in DOMAIN Checks} \cup {"create", "failed"} => game = "none"
  /\ game = "none" => loader = "none"
  /\ launcher \in {"write", "spawn"} => loader = "none"
  /\ launcher \in {"write", "spawn", "wait", "resume"} => game \in {"suspended", "terminated"}
  /\ launcher = "resume" => loader \in {"none", "ended"} \/ ~Alive
  /\ game \in {"running", "unloading", "exiting"} =>
       launcher = "done" /\ loader \in {"none", "ended"}

\* How far the loader has come in AttachScript, and what it has done by then.
LoaderPlace ==
  /\ loader \in {"none", "loading"} => ip = 1 /\ ~attached
  /\ loader = "attaching" => ~attached
  /\ loader = "ended" => ip = IF attached THEN 7 ELSE 1
  /\ step # "idle" => loader = "attaching" /\ ip = IF cur = InitWorldHook THEN 6 ELSE 7
  /\ (logReady <=> ip > 2) /\ (imageBase <=> ip > 3)
  /\ \A h \in Hooks : (callback[h] <=> h = InitWorldHook /\ ip > 4)

\* A hook is complete once Install has returned, and nothing of it is there
\* before Install was called.
HooksPlace ==
  /\ \A h \in Hooks :
       IF Started(h) THEN step = "idle" \/ cur # h => Hooked(h) ELSE genPage[h] = NULL
  /\ step \in {"nops", "reprotect"} => code[Target[cur]].operand = genPage[cur]
  /\ \A f \in Functions :
       (\A h \in Hooks : Started(h) => Target[h] # f) => code[f] = Pristine(f)

\* Where a thread can be in its call: through the hook of the function it
\* called if there is one.  The body has run when the call is left.
ThreadPlace(t) ==
  /\ pc[t] = "idle" => fn[t] = NULL /\ via[t] = NULL
  /\ pc[t] # "idle" =>
       /\ fn[t] \in Functions
       /\ IF via[t] = NULL
            THEN pc[t] \in {"prologue", "leave"} /\ (attached => \A h \in Hooks : Target[h] # fn[t])
            ELSE attached /\ pc[t] # "prologue" /\ Target[via[t]] = fn[t]
  /\ ran[t] = IF pc[t] \in {"log", "leave"} THEN <<fn[t]>> ELSE <<>>
  /\ pc[t] = "callback" => via[t] = InitWorldHook
  /\ pc[t] = "trampoline" => via[t] # InitWorldHook

ThreadsPlace ==
  /\ freed # {} => game \in {"exiting", "terminated"}
  /\ game \in {"none", "suspended"} => \A t \in Threads : pc[t] = "idle"
  /\ \A t \in Threads : ThreadPlace(t)

JInv ==
  /\ IInv
  /\ InjectionTypeOK
  /\ LauncherPlace
  /\ LoaderPlace
  /\ HooksPlace
  /\ ThreadsPlace
  /\ NoThreadMeetsHalfADone

-----------------------------------------------------------------------------
(* What a step leaves alone.                                               *)

LEMMA ScriptFacts ==
  /\ Len(AttachScript) = 6
  /\ AttachScript[1].op = "prompt" /\ AttachScript[2].op = "logger"
  /\ AttachScript[3].op = "image base" /\ AttachScript[4].op = "callback"
  /\ AttachScript[5].op = "install" /\ AttachScript[6].op = "install"
  /\ AttachScript[4].hook = InitWorldHook
  /\ AttachScript[5].hook = InitWorldHook
  /\ AttachScript[6].hook = FuncInvokeHook
<1> DEFINE a == [op |-> "prompt", hook |-> NULL]
           b == [op |-> "logger", hook |-> NULL]
           c == [op |-> "image base", hook |-> NULL]
           d == [op |-> "callback", hook |-> InitWorldHook]
           e == [op |-> "install", hook |-> InitWorldHook]
           f == [op |-> "install", hook |-> FuncInvokeHook]
<1>1. AttachScript = <<a, b, c, d, e, f>>
  BY DEF AttachScript
<1>2. /\ a.op = "prompt" /\ b.op = "logger" /\ c.op = "image base"
      /\ d.op = "callback" /\ e.op = "install" /\ f.op = "install"
      /\ d.hook = InitWorldHook /\ e.hook = InitWorldHook /\ f.hook = FuncInvokeHook
  OBVIOUS
<1> HIDE DEF a, b, c, d, e, f
<1>3. /\ Len(AttachScript) = 6
      /\ AttachScript[1] = a /\ AttachScript[2] = b /\ AttachScript[3] = c
      /\ AttachScript[4] = d /\ AttachScript[5] = e /\ AttachScript[6] = f
  BY <1>1
<1> QED
  BY <1>2, <1>3

LEMMA CheckFacts == DOMAIN Checks = 1..3 /\ Len(Checks) = 3
  BY DEF Checks

LEMMA CheckNames ==
  {Checks[i] : i \in DOMAIN Checks} = {"game binary", "client library", "debug privilege"}
<1> DEFINE a == "game binary"
           b == "client library"
           c == "debug privilege"
<1>1. Checks = <<a, b, c>>
  BY DEF Checks
<1> HIDE DEF a, b, c
<1>2. DOMAIN Checks = 1..3
  BY <1>1
<1>3. Checks[1] = a /\ Checks[2] = b /\ Checks[3] = c
  BY <1>1
<1>4. {Checks[i] : i \in DOMAIN Checks} = {a, b, c}
  BY <1>2, <1>3
<1> QED
  BY <1>4 DEF a, b, c

\* The two hooks are two, and each function is hooked once.
LEMMA TwoHooks ==
  /\ InitWorldHook \in Hooks /\ FuncInvokeHook \in Hooks
  /\ InitWorldHook # FuncInvokeHook
  /\ \A h \in Hooks : h = InitWorldHook \/ h = FuncInvokeHook
  /\ \A h, k \in Hooks : Target[h] = Target[k] => h = k
  /\ \A h \in Hooks : h # NULL /\ Target[h] \in Functions /\ Target[h] # NULL
  BY InjectionAssumption, HookAssumption

LEMMA VarsKept ==
  ASSUME IInv, UNCHANGED vars
  PROVE  IInv'
  BY NextInv

\* Destructors give pages back; nothing else of the hooks changes.
LEMMA FreedInv ==
  ASSUME IInv, freed' \subseteq GenPages,
         UNCHANGED <<installed, genPage, trampoline, hookSize, originalCode, code,
                     prot, step, cur, previousProtection, crash>>
  PROVE  IInv'
<1> USE DEF IInv
<1>1. TypeOK'
  BY DEF TypeOK
<1>2. Generation'
  BY DEF Generation, Built
<1>3. PagesDistinct' /\ TrampolinesEnterBuilt' /\ TrampolinesReachBody'
  BY GeneratedKept
<1>4. RedirectsAreComplete' /\ SavedCodePredatesPatch'
  BY DEF RedirectsAreComplete, SavedCodePredatesPatch, Built
<1>5. TornOnlyInsidePatch'
  BY DEF TornOnlyInsidePatch, Torn
<1>6. ProtectionHeld'
  BY DEF ProtectionHeld
<1> QED
  BY <1>1, <1>2, <1>3, <1>4, <1>5, <1>6

LEMMA HooksKept ==
  ASSUME HooksPlace, UNCHANGED <<genPage, trampoline, code, step, cur, ip>>
  PROVE  HooksPlace'
  BY DEF HooksPlace, Hooked, Built, Started

LEMMA LoaderKept ==
  ASSUME LoaderPlace, UNCHANGED <<step, cur, loaderVars>>
  PROVE  LoaderPlace'
  BY DEF LoaderPlace, loaderVars

\* A thread stays in place while nobody moves it.
LEMMA ThreadKept ==
  ASSUME NEW t \in Threads, ThreadPlace(t), attached' = attached,
         pc'[t] = pc[t], fn'[t] = fn[t], ran'[t] = ran[t], via'[t] = via[t]
  PROVE  ThreadPlace(t)'
  BY DEF ThreadPlace

LEMMA CrashKept ==
  ASSUME NoThreadMeetsHalfADone, UNCHANGED crash
  PROVE  NoThreadMeetsHalfADone'
  BY DEF NoThreadMeetsHalfADone

\* Nothing that the launcher finds is hooked; no thread is in a call.
LEMMA InjectionInitInv == InjectionInit => JInv
<1> SUFFICES ASSUME InjectionInit PROVE JInv
  OBVIOUS
<1> USE InjectionAssumption, CheckFacts DEF InjectionInit
<1>1. IInv
  BY InitInv
<1>2. InjectionTypeOK
  <2>1. launcher \in {Checks[i] : i \in DOMAIN Checks}
    OBVIOUS
  <2>2. Len(AttachScript) = 6 /\ ip = 1
    BY ScriptFacts
  <2>3. ip \in 1..Len(AttachScript) + 1
    BY <2>2
  <2>4. <<>> \in Seq(Functions)
    OBVIOUS
  <2>5. ran \in [Threads -> Seq(Functions)]
    BY <2>4
  <2> QED
    BY <1>1, <2>1, <2>3, <2>5 DEF IInv, InjectionTypeOK
<1>3. LauncherPlace
  BY DEF LauncherPlace, Checks
<1>4. LoaderPlace
  BY DEF LoaderPlace, Init
<1>5. HooksPlace
  BY HookAssumption DEF HooksPlace, Started, Init
<1>6. ThreadsPlace
  BY DEF ThreadsPlace, ThreadPlace, Init
<1>7. NoThreadMeetsHalfADone
  BY DEF NoThreadMeetsHalfADone, Init
<1> QED
  BY <1>1, <1>2, <1>3, <1>4, <1>5, <1>6, <1>7 DEF JInv

\* The game's state may change under threads that stay where they are.
LEMMA ThreadsKept ==
  ASSUME ThreadsPlace, UNCHANGED <<freed, attached, threadVars>>,
         game' \in {"none", "suspended"} => game \in {"none", "suspended"},
         game \in {"exiting", "terminated"} => game' \in {"exiting", "terminated"}
  PROVE  ThreadsPlace'
<1>1. \A t \in Threads : ThreadPlace(t)'
  BY ThreadKept DEF ThreadsPlace, threadVars
<1> QED
  BY <1>1 DEF ThreadsPlace, threadVars

\* A step that leaves the hooks and the loader's progress alone, and the
\* threads where they are.
LEMMA OthersKept ==
  ASSUME JInv, UNCHANGED <<vars, attached, ip, threadVars>>,
         game' \in {"none", "suspended"} => game \in {"none", "suspended"},
         game \in {"exiting", "terminated"} => game' \in {"exiting", "terminated"}
  PROVE  IInv' /\ HooksPlace' /\ ThreadsPlace' /\ NoThreadMeetsHalfADone'
<1> USE DEF JInv, vars, implVars
<1>1. IInv'
  BY VarsKept
<1>2. HooksPlace'
  BY HooksKept
<1>3. ThreadsPlace'
  BY ThreadsKept
<1>4. NoThreadMeetsHalfADone'
  BY CrashKept
<1> QED
  BY <1>1, <1>2, <1>3, <1>4

-----------------------------------------------------------------------------
(* The launcher                                                            *)

LEMMA CheckInv ==
  ASSUME JInv, NEW i \in DOMAIN Checks, Check(i)
  PROVE  JInv'
<1> USE DEF JInv, Check, loaderVars, threadVars
<1>1. IInv' /\ HooksPlace' /\ ThreadsPlace' /\ NoThreadMeetsHalfADone'
  BY OthersKept
<1>2. launcher' \in {"failed", "create"} \cup {Checks[j] : j \in DOMAIN Checks}
  BY CheckFacts
<1>3. InjectionTypeOK'
  BY <1>1, <1>2 DEF IInv, InjectionTypeOK, LauncherEnds
<1>4. LauncherPlace'
  BY <1>2, CheckNames DEF LauncherPlace
<1>5. LoaderPlace'
  BY LoaderKept DEF vars
<1> QED
  BY <1>1, <1>3, <1>4, <1>5

LEMMA CreateGameInv ==
  ASSUME JInv, CreateGame
  PROVE  JInv'
<1> USE DEF JInv, CreateGame, loaderVars, threadVars
<1>0. game = "none"
  BY DEF LauncherPlace
<1>1. IInv' /\ HooksPlace' /\ ThreadsPlace' /\ NoThreadMeetsHalfADone'
  BY <1>0, OthersKept
<1>2. InjectionTypeOK'
  BY <1>1 DEF IInv, InjectionTypeOK, LauncherEnds
<1>3. LauncherPlace'
  BY <1>0, CheckNames DEF LauncherPlace
<1>4. LoaderPlace'
  BY LoaderKept DEF vars
<1> QED
  BY <1>1, <1>2, <1>3, <1>4

LEMMA WritePathInv ==
  ASSUME JInv, WritePath
  PROVE  JInv'
<1> USE DEF JInv, WritePath, loaderVars, threadVars
<1>1. IInv' /\ HooksPlace' /\ ThreadsPlace' /\ NoThreadMeetsHalfADone'
  BY OthersKept
<1>2. InjectionTypeOK'
  BY <1>1 DEF IInv, InjectionTypeOK, LauncherEnds
<1>3. LauncherPlace'
  BY CheckNames DEF LauncherPlace
<1>4. LoaderPlace'
  BY LoaderKept DEF vars
<1> QED
  BY <1>1, <1>2, <1>3, <1>4

LEMMA SpawnLoaderInv ==
  ASSUME JInv, SpawnLoader
  PROVE  JInv'
<1> USE DEF JInv, SpawnLoader, loaderVars, threadVars
<1>1. IInv' /\ HooksPlace' /\ ThreadsPlace' /\ NoThreadMeetsHalfADone'
  BY OthersKept
<1>2. loader = "none" /\ loader' \in {"none", "loading"}
  BY DEF LauncherPlace
<1>3. InjectionTypeOK'
  BY <1>1, <1>2 DEF IInv, InjectionTypeOK, LauncherEnds
<1>4. LauncherPlace'
  BY <1>2, CheckNames DEF LauncherPlace
<1>5. LoaderPlace'
  BY <1>2 DEF LoaderPlace, vars
<1> QED
  BY <1>1, <1>3, <1>4, <1>5

LEMMA WaitLoaderInv ==
  ASSUME JInv, WaitLoader
  PROVE  JInv'
<1> USE DEF JInv, WaitLoader, loaderVars, threadVars
<1>1. IInv' /\ HooksPlace' /\ ThreadsPlace' /\ NoThreadMeetsHalfADone'
  BY OthersKept
<1>2. InjectionTypeOK'
  BY <1>1 DEF IInv, InjectionTypeOK, LauncherEnds
<1>3. LauncherPlace'
  BY CheckNames DEF LauncherPlace, Alive, vars
<1>4. LoaderPlace'
  BY LoaderKept DEF vars
<1> QED
  BY <1>1, <1>2, <1>3, <1>4

\* The threads of the game begin to run when the loader has ended.
LEMMA ResumeGameInv ==
  ASSUME JInv, ResumeGame
  PROVE  JInv'
<1> USE DEF JInv, ResumeGame, loaderVars, threadVars
<1>0. game \in {"suspended", "terminated"}
  BY DEF LauncherPlace
<1>1. IInv' /\ HooksPlace' /\ ThreadsPlace' /\ NoThreadMeetsHalfADone'
  BY <1>0, OthersKept
<1>2. InjectionTypeOK'
  BY <1>0, <1>1 DEF IInv, InjectionTypeOK, LauncherEnds
<1>3. LauncherPlace'
  BY <1>0, CheckNames DEF LauncherPlace
<1>4. LoaderPlace'
  BY LoaderKept DEF vars
<1> QED
  BY <1>1, <1>2, <1>3, <1>4

-----------------------------------------------------------------------------
(* The loader                                                              *)

\* While the loader works the game is suspended, and no thread is in a call.
LEMMA LoaderAlone ==
  ASSUME JInv, Alive, loader \in {"loading", "attaching"}
  PROVE  /\ game = "suspended" /\ launcher # "resume"
         /\ freed = {} /\ ~attached
         /\ \A t \in Threads : pc[t] = "idle"
<1>1. game = "suspended"
  BY DEF JInv, InjectionTypeOK, LauncherPlace, Alive
<1> QED
  BY <1>1 DEF JInv, LauncherPlace, LoaderPlace, ThreadsPlace

\* So whatever it changes, threads and launcher stay in place.
LEMMA LoaderAside ==
  ASSUME JInv, Alive, loader \in {"loading", "attaching"},
         loader' \in {"attaching", "ended"},
         UNCHANGED <<launcherVars, game, freed, threadVars>>
  PROVE  LauncherPlace' /\ ThreadsPlace'
<1> USE DEF JInv, launcherVars, threadVars
<1>0. /\ game = "suspended" /\ launcher # "resume" /\ freed = {}
      /\ \A t \in Threads : pc[t] = "idle"
  BY LoaderAlone
<1>1. LauncherPlace'
  BY <1>0, CheckNames DEF LauncherPlace
<1>2. ASSUME NEW t \in Threads PROVE ThreadPlace(t)'
  BY <1>0, <1>2 DEF ThreadsPlace, ThreadPlace
<1> QED
  BY <1>0, <1>1, <1>2 DEF ThreadsPlace

LEMMA LoadLibraryInv ==
  ASSUME JInv, LoadLibrary
  PROVE  JInv'
<1> USE DEF JInv, LoadLibrary, vars, implVars
<1>1. IInv' /\ HooksPlace' /\ NoThreadMeetsHalfADone'
  BY VarsKept, HooksKept, CrashKept
<1>2. LauncherPlace' /\ ThreadsPlace'
  BY LoaderAside
<1>3. InjectionTypeOK'
  BY <1>1 DEF IInv, InjectionTypeOK, launcherVars, threadVars
<1>4. LoaderPlace'
  BY DEF LoaderPlace
<1> QED
  BY <1>1, <1>2, <1>3, <1>4

\* The statements before the first Install.
LEMMA BeforeInstall ==
  ASSUME JInv, NEW k \in 1..4, ip = k, ip' = k + 1, UNCHANGED vars
  PROVE  IInv' /\ HooksPlace' /\ NoThreadMeetsHalfADone' /\ ip' \in 1..Len(AttachScript) + 1
<1> USE DEF JInv, vars, implVars
<1>1. IInv' /\ NoThreadMeetsHalfADone'
  BY VarsKept, CrashKept
<1>2. \A h \in Hooks : ~Started(h) /\ ~Started(h)'
  BY DEF Started
<1>3. HooksPlace'
  BY <1>2 DEF HooksPlace
<1>4. Len(AttachScript) = 6
  BY ScriptFacts
<1>5. ip' \in 1..Len(AttachScript) + 1
  BY <1>4
<1> QED
  BY <1>1, <1>3, <1>5

LEMMA Script ==
  ASSUME JInv, NEW o, Attaching(o)
  PROVE  /\ ip \in 1..6
         /\ o = "prompt" => ip = 1
         /\ o = "logger" => ip = 2
         /\ o = "image base" => ip = 3
         /\ o = "callback" => ip = 4 /\ AttachScript[ip].hook = InitWorldHook
         /\ o = "install" => \/ ip = 5 /\ AttachScript[ip].hook = InitWorldHook
                             \/ ip = 6 /\ AttachScript[ip].hook = FuncInvokeHook
<1>1. ip \in 1..7
  <2>1. ip \in 1..Len(AttachScript) + 1
    BY DEF JInv, InjectionTypeOK
  <2>2. Len(AttachScript) = 6
    BY ScriptFacts
  <2> QED
    BY <2>1, <2>2
<1>2. ip <= 6 /\ AttachScript[ip].op = o
  BY ScriptFacts DEF Attaching
<1>3. ip = 1 \/ ip = 2 \/ ip = 3 \/ ip = 4 \/ ip = 5 \/ ip = 6
  BY <1>1, <1>2
<1>4. CASE ip = 1
  <2>1. AttachScript[ip].op = "prompt"
    BY <1>4, ScriptFacts, Zenon
  <2>2. o = "prompt"
    BY <1>2, <2>1
  <2> QED
    BY <2>1, <2>2, <1>4
<1>5. CASE ip = 2
  <2>1. AttachScript[ip].op = "logger"
    BY <1>5, ScriptFacts, Zenon
  <2>2. o = "logger"
    BY <1>2, <2>1
  <2> QED
    BY <2>1, <2>2, <1>5
<1>6. CASE ip = 3
  <2>1. AttachScript[ip].op = "image base"
    BY <1>6, ScriptFacts, Zenon
  <2>2. o = "image base"
    BY <1>2, <2>1
  <2>3. o # "prompt" /\ o # "logger" /\ o # "callback" /\ o # "install"
    BY <2>2
  <2>4. ip \in 1..6
    BY <1>6
  <2> QED
    BY <2>3, <2>4, <1>6
<1>7. CASE ip = 4
  <2>1. AttachScript[ip].op = "callback" /\ AttachScript[ip].hook = InitWorldHook
    BY <1>7, ScriptFacts, Zenon
  <2>2. o = "callback"
    BY <1>2, <2>1
  <2> QED
    BY <2>1, <2>2, <1>7
<1>8. CASE ip = 5
  <2>1. AttachScript[ip].op = "install" /\ AttachScript[ip].hook = InitWorldHook
    BY <1>8, ScriptFacts, Zenon
  <2>2. o = "install"
    BY <1>2, <2>1
  <2> QED
    BY <2>1, <2>2, <1>8
<1>9. CASE ip = 6
  <2>1. AttachScript[ip].op = "install" /\ AttachScript[ip].hook = FuncInvokeHook
    BY <1>9, ScriptFacts, Zenon
  <2>2. o = "install"
    BY <1>2, <2>1
  <2> QED
    BY <2>1, <2>2, <1>9
<1> QED
  BY <1>3, <1>4, <1>5, <1>6, <1>7, <1>8, <1>9

LEMMA AnswerPromptInv ==
  ASSUME JInv, AnswerPrompt
  PROVE  JInv'
<1> USE DEF JInv, AnswerPrompt, Attaching
<1>0. ip = 1
  BY Script
<1>1. IInv' /\ HooksPlace' /\ NoThreadMeetsHalfADone' /\ ip' \in 1..Len(AttachScript) + 1
  BY <1>0, BeforeInstall
<1>2. LauncherPlace' /\ ThreadsPlace'
  BY LoaderAside DEF vars, implVars
<1>3. InjectionTypeOK'
  BY <1>1 DEF IInv, InjectionTypeOK, launcherVars, threadVars
<1>4. LoaderPlace'
  BY <1>0 DEF LoaderPlace, vars
<1> QED
  BY <1>1, <1>2, <1>3, <1>4

LEMMA InitLoggerInv ==
  ASSUME JInv, InitLogger
  PROVE  JInv'
<1> USE DEF JInv, InitLogger, Attaching
<1>0. ip = 2
  BY Script
<1>1. IInv' /\ HooksPlace' /\ NoThreadMeetsHalfADone' /\ ip' \in 1..Len(AttachScript) + 1
  BY <1>0, BeforeInstall
<1>2. LauncherPlace' /\ ThreadsPlace'
  BY LoaderAside DEF vars, implVars
<1>3. InjectionTypeOK'
  BY <1>1 DEF IInv, InjectionTypeOK, launcherVars, threadVars
<1>4. LoaderPlace'
  BY <1>0 DEF LoaderPlace, vars
<1> QED
  BY <1>1, <1>2, <1>3, <1>4

\* The logger is there, so setting the image base does not fail.
LEMMA SetImageBaseInv ==
  ASSUME JInv, SetImageBase
  PROVE  JInv'
<1>0. ip = 3
  BY Script DEF SetImageBase
<1>r. logReady
  BY <1>0 DEF JInv, LoaderPlace
<1>l. imageBase' \in BOOLEAN /\ imageBase' /\ ip' = 4 /\ UNCHANGED vars
  <2>1. imageBase' = TRUE /\ ip' = ip + 1 /\ UNCHANGED vars
    BY <1>r, Zenon DEF SetImageBase
  <2>2. imageBase' \in BOOLEAN /\ imageBase'
    BY <2>1, Zenon
  <2> QED
    BY <2>1, <2>2, <1>0
<1>k. /\ Alive /\ loader = "attaching" /\ step = "idle"
      /\ UNCHANGED <<launcherVars, game, loader, attached, logReady, callback,
                      threadVars>>
  BY DEF SetImageBase, Attaching
<1>1. IInv' /\ HooksPlace' /\ NoThreadMeetsHalfADone' /\ ip' \in 1..Len(AttachScript) + 1
  BY <1>0, <1>l, BeforeInstall
<1> USE DEF JInv
<1>2. LauncherPlace' /\ ThreadsPlace'
  BY <1>k, <1>l, LoaderAside DEF vars, implVars
<1>3. InjectionTypeOK'
  BY <1>1, <1>k, <1>l DEF IInv, InjectionTypeOK, launcherVars, threadVars
<1>4. LoaderPlace'
  BY <1>0, <1>k, <1>l, <1>r DEF LoaderPlace, vars
<1> QED
  BY <1>1, <1>2, <1>3, <1>4

LEMMA SetCallbackInv ==
  ASSUME JInv, SetCallback
  PROVE  JInv'
<1> USE DEF JInv, SetCallback, Attaching
<1>0. ip = 4 /\ AttachScript[ip].hook = InitWorldHook
  BY Script
<1>c. callback' \in [Hooks -> BOOLEAN] /\ \A h \in Hooks : callback'[h] <=> h = InitWorldHook
  BY <1>0, TwoHooks DEF InjectionTypeOK, LoaderPlace
<1>1. IInv' /\ HooksPlace' /\ NoThreadMeetsHalfADone' /\ ip' \in 1..Len(AttachScript) + 1
  BY <1>0, BeforeInstall
<1>2. LauncherPlace' /\ ThreadsPlace'
  BY LoaderAside DEF vars, implVars
<1>3. InjectionTypeOK'
  BY <1>1, <1>c DEF IInv, InjectionTypeOK, launcherVars, threadVars
<1>4. LoaderPlace'
  BY <1>0, <1>c DEF LoaderPlace, vars
<1> QED
  BY <1>1, <1>2, <1>3, <1>4

\* Install is called for a hook that nothing was done for.
LEMMA CallInstallInv ==
  ASSUME JInv, CallInstall
  PROVE  JInv'
<1>1. /\ Alive /\ loader = "attaching" /\ step = "idle"
      /\ UNCHANGED <<launcherVars, game, loader, attached, imageBase, logReady,
                     callback, threadVars>>
  BY DEF CallInstall, Attaching
<1>2. PICK h \in Hooks : /\ AttachScript[ip].hook = h
                         /\ ip = IF h = InitWorldHook THEN 5 ELSE 6
  BY Script, TwoHooks DEF CallInstall
<1>3. imageBase
  BY <1>2 DEF JInv, LoaderPlace
<1>4. InstallBegin(h) /\ ip' = ip + 1
  BY <1>2, <1>3 DEF CallInstall
<1>5. ip \in {5, 6} /\ ip' = (IF h = InitWorldHook THEN 6 ELSE 7) /\ ~Started(h)
  BY <1>2, <1>4 DEF Started
<1>6. genPage[h] = NULL
  BY <1>5 DEF JInv, HooksPlace
<1>7. /\ cur' = h /\ step' = "allocate"
      /\ UNCHANGED <<genPage, trampoline, freed, code, crash>>
  BY <1>4, <1>6 DEF InstallBegin, implVars
<1> USE DEF JInv
<1>8. IInv' /\ NoThreadMeetsHalfADone'
  BY <1>4, <1>7, InstallBeginInv, CrashKept
<1>9. LauncherPlace' /\ ThreadsPlace'
  BY <1>1, <1>7, LoaderAside
<1>10. InjectionTypeOK'
  <2>1. ip' \in 1..Len(AttachScript) + 1
    <3>1. Len(AttachScript) = 6
      BY ScriptFacts
    <3>2. ip' \in {6, 7}
      BY <1>5
    <3> QED
      BY <3>1, <3>2
  <2> QED
    BY <1>1, <1>8, <2>1 DEF IInv, InjectionTypeOK, launcherVars, threadVars
<1>11. LoaderPlace'
  BY <1>1, <1>5, <1>7 DEF LoaderPlace
<1>12. HooksPlace'
  <2>1. \A k \in Hooks : k # h => (Started(k)' <=> Started(k))
    BY <1>2, <1>5, TwoHooks DEF Started
  <2>2. Started(h)'
    BY <1>5 DEF Started
  <2>3. \A k \in Hooks : Started(k) => Started(k)'
    BY <2>1, <2>2
  <2>4. \A k \in Hooks : k # h /\ Started(k) => Hooked(k)'
    BY <1>1, <1>7 DEF HooksPlace, Hooked, Built
  <2>5. \A k \in Hooks : k # h /\ ~Started(k) => genPage'[k] = NULL
    BY <1>7 DEF HooksPlace
  <2>6. \A k \in Hooks :
          IF Started(k)' THEN step' = "idle" \/ cur' # k => Hooked(k)'
                         ELSE genPage'[k] = NULL
    BY <1>7, <2>1, <2>2, <2>4, <2>5
  <2>7. \A f \in Functions :
          (\A k \in Hooks : Started(k)' => Target[k] # f) => code'[f] = Pristine(f)
    BY <1>7, <2>3 DEF HooksPlace
  <2> QED
    BY <1>7, <2>6, <2>7 DEF HooksPlace
<1> QED
  BY <1>8, <1>9, <1>10, <1>11, <1>12

\* What a step of Install changes: the hook it is called for, and the entry
\* of its target.
LEMMA InstallStepFacts ==
  ASSUME IInv, InstallStep,
         step \in {"nops", "reprotect"} => code[Target[cur]].operand = genPage[cur]
  PROVE  /\ step # "idle" /\ cur' = cur /\ freed' = freed
         /\ \A h \in Hooks : h # cur =>
              genPage'[h] = genPage[h] /\ trampoline'[h] = trampoline[h]
         /\ \A f \in Functions : f # Target[cur] => code'[f] = code[f]
         /\ step' = "idle" => step = "reprotect" /\ UNCHANGED <<genPage, trampoline, code>>
         /\ step' \in {"nops", "reprotect"} => code'[Target[cur]].operand = genPage'[cur]
         /\ crash' \in {"none", "null page", "write fault", "runaway fill"}
<1>t. /\ cur \in Hooks /\ genPage \in [Hooks -> GenPages \cup {NULL}]
      /\ trampoline \in [Hooks -> GenPages \cup {Body, NULL}]
      /\ code \in [Functions -> Code] /\ Target[cur] \in Functions
      /\ code[Target[cur]] \in Code
  BY HookAssumption DEF IInv, TypeOK
<1> USE DEF At, Die, implVars
<1>1. CASE AllocatePage
  BY <1>t, <1>1 DEF AllocatePage
<1>2. CASE AllocateNothing
  BY <1>2 DEF AllocateNothing
<1>3. CASE BuildTrampoline
  BY <1>t, <1>3 DEF BuildTrampoline
<1>4. CASE SaveOriginal
  BY <1>4 DEF SaveOriginal
<1>5. CASE Unprotect
  BY <1>5 DEF Unprotect
<1>6. CASE PatchOpcode
  <2>1. CASE Die("write fault")
    BY <1>6, <2>1 DEF PatchOpcode
  <2>2. CASE ~Die("write fault")
    BY <1>t, <1>6, <2>2 DEF PatchOpcode
  <2> QED
    BY <2>1, <2>2
<1>7. CASE PatchOperand
  BY <1>t, <1>7 DEF PatchOperand, Code
<1>8. CASE PatchNops
  <2>1. CASE Die("runaway fill")
    BY <1>8, <2>1 DEF PatchNops
  <2>2. CASE ~Die("runaway fill")
    <3>1. /\ step = "nops" /\ step' = "reprotect" /\ crash = "none"
          /\ UNCHANGED <<implVars, prot, cur, previousProtection, crash>>
          /\ code' = code \/ code' = [code EXCEPT ![Target[cur]].tail = "nop"]
      BY <1>8, <2>2 DEF PatchNops
    <3>2. /\ code'[Target[cur]].operand = code[Target[cur]].operand
          /\ \A f \in Functions : f # Target[cur] => code'[f] = code[f]
      BY <1>t, <3>1 DEF Code
    <3> QED
      BY <3>1, <3>2
  <2> QED
    BY <2>1, <2>2
<1>9. CASE Reprotect
  BY <1>9 DEF Reprotect
<1>10. CASE SearchForEver
  BY <1>10 DEF SearchForEver
<1> QED
  BY <1>1, <1>2, <1>3, <1>4, <1>5, <1>6, <1>7, <1>8, <1>9, <1>10 DEF InstallStep

LEMMA RunInstallInv ==
  ASSUME JInv, RunInstall
  PROVE  JInv'
<1>1. /\ Alive /\ loader = "attaching" /\ InstallStep
      /\ UNCHANGED <<launcherVars, game, loaderVars, threadVars>>
  BY DEF RunInstall
<1>2. step \in {"nops", "reprotect"} => code[Target[cur]].operand = genPage[cur]
  BY DEF JInv, HooksPlace
<1>3. IInv
  BY DEF JInv
<1>4. /\ step # "idle" /\ cur' = cur /\ freed' = freed
      /\ \A h \in Hooks : h # cur =>
           genPage'[h] = genPage[h] /\ trampoline'[h] = trampoline[h]
      /\ \A f \in Functions : f # Target[cur] => code'[f] = code[f]
      /\ step' = "idle" => step = "reprotect" /\ UNCHANGED <<genPage, trampoline, code>>
      /\ step' \in {"nops", "reprotect"} => code'[Target[cur]].operand = genPage'[cur]
      /\ crash' \in {"none", "null page", "write fault", "runaway fill"}
  BY <1>1, <1>2, <1>3, InstallStepFacts
<1>5. IInv'
  BY <1>1, <1>3, NextInv DEF Next
<1>6. NoThreadMeetsHalfADone'
  BY <1>4 DEF NoThreadMeetsHalfADone
<1>7. LauncherPlace' /\ ThreadsPlace'
  BY <1>1, <1>4, LoaderAside DEF loaderVars
<1>8. InjectionTypeOK'
  BY <1>1, <1>5 DEF JInv, IInv, InjectionTypeOK, launcherVars, loaderVars, threadVars
<1>9. LoaderPlace'
  BY <1>1, <1>4 DEF JInv, LoaderPlace, loaderVars
<1>10. HooksPlace'
  <2>0. ip' = ip /\ cur \in Hooks
    BY <1>1, <1>3 DEF loaderVars, IInv, TypeOK
  <2>1. \A h \in Hooks : Started(h)' <=> Started(h)
    BY <2>0 DEF Started
  <2>2. Started(cur)
    <3>1. ip = IF cur = InitWorldHook THEN 6 ELSE 7
      BY <1>4 DEF JInv, LoaderPlace
    <3> QED
      BY <3>1 DEF Started
  <2>3. \A h \in Hooks : h # cur =>
          IF Started(h)' THEN Hooked(h)' ELSE genPage'[h] = NULL
    BY <1>4, <2>1, <2>0, TwoHooks DEF JInv, HooksPlace, Hooked, Built
  <2>4. step' = "idle" => Hooked(cur)'
    BY <1>2, <1>3, <1>4, <2>0 DEF IInv, Generation, Hooked, Built
  <2>5. \A f \in Functions :
          (\A h \in Hooks : Started(h)' => Target[h] # f) => code'[f] = Pristine(f)
    BY <1>4, <2>0, <2>1, <2>2 DEF JInv, HooksPlace
  <2> QED
    BY <1>4, <2>0, <2>1, <2>2, <2>3, <2>4, <2>5 DEF HooksPlace
<1> QED
  BY <1>5, <1>6, <1>7, <1>8, <1>9, <1>10 DEF JInv

\* The end of DllMain: both hooks are complete.
LEMMA FinishAttachInv ==
  ASSUME JInv, FinishAttach
  PROVE  JInv'
<1>1. /\ Alive /\ loader = "attaching" /\ loader' = "ended" /\ attached' = TRUE
      /\ UNCHANGED <<vars, launcherVars, game, ip, imageBase, logReady, callback,
                     threadVars>>
  BY DEF FinishAttach
<1>2. ip = 7
  <2>1. Len(AttachScript) = 6
    BY ScriptFacts
  <2>2. ip \in 1..7 /\ ip > 6
    BY <2>1 DEF JInv, InjectionTypeOK, FinishAttach
  <2> QED
    BY <2>2
<1>3. IInv' /\ HooksPlace' /\ NoThreadMeetsHalfADone'
  BY <1>1, VarsKept, HooksKept, CrashKept DEF JInv, vars, implVars
<1>4. LauncherPlace' /\ ThreadsPlace'
  BY <1>1, LoaderAside DEF vars, implVars
<1>5. InjectionTypeOK'
  BY <1>1, <1>3 DEF JInv, IInv, InjectionTypeOK, launcherVars, threadVars
<1>6. LoaderPlace'
  BY <1>1, <1>2 DEF JInv, LoaderPlace, vars, FinishAttach
<1> QED
  BY <1>3, <1>4, <1>5, <1>6 DEF JInv

-----------------------------------------------------------------------------
(* The game's threads                                                      *)

\* While the game's threads run nobody installs: the game is hooked
\* completely if the client is loaded, and not at all if it is not.
LEMMA WhileRunning ==
  ASSUME JInv, Running
  PROVE  /\ loader \in {"none", "ended"} /\ step = "idle" /\ freed = {}
         /\ game \in {"running", "unloading"} /\ launcher = "done"
         /\ \A f \in Functions : ~Torn(f)
         /\ attached => logReady /\ (\A h \in Hooks : Hooked(h))
         /\ ~attached => \A f \in Functions : code[f] = Pristine(f)
         /\ attached => \A f \in Functions :
              code[f].operand # Body => \E h \in Hooks : Target[h] = f
<1>1. /\ game \in {"running", "unloading"} /\ launcher = "done" /\ freed = {}
      /\ loader \in {"none", "ended"}
  BY DEF Running, JInv, LauncherPlace, ThreadsPlace
<1>2. step = "idle"
  BY <1>1 DEF JInv, LoaderPlace
<1>3. \A f \in Functions : ~Torn(f)
  BY <1>2 DEF JInv, IInv, TornOnlyInsidePatch
<1>4. CASE attached
  <2>1. ip = 7 /\ logReady
    BY <1>1, <1>4 DEF JInv, LoaderPlace
  <2>2. \A h \in Hooks : Started(h)
    BY <2>1 DEF Started
  <2>3. \A h \in Hooks : Hooked(h)
    BY <1>2, <2>2 DEF JInv, HooksPlace
  <2>4. \A f \in Functions : code[f].operand # Body => \E h \in Hooks : Target[h] = f
    BY DEF JInv, IInv, RedirectsAreComplete
  <2> QED
    BY <1>1, <1>2, <1>3, <1>4, <2>1, <2>3, <2>4
<1>5. CASE ~attached
  <2>1. ip = 1
    BY <1>1, <1>5 DEF JInv, LoaderPlace
  <2>2. \A h \in Hooks : ~Started(h)
    BY <2>1 DEF Started
  <2>3. \A f \in Functions : code[f] = Pristine(f)
    BY <2>2 DEF JInv, HooksPlace
  <2> QED
    BY <1>1, <1>2, <1>3, <1>5, <2>3
<1> QED
  BY <1>4, <1>5

\* A step of one thread that leaves it in place keeps the invariant.
LEMMA ThreadMoved ==
  ASSUME JInv, Running, NEW t \in Threads,
         UNCHANGED <<vars, launcherVars, game, loaderVars>>,
         \A u \in Threads \ {t} : /\ pc'[u] = pc[u] /\ fn'[u] = fn[u]
                                  /\ ran'[u] = ran[u] /\ via'[u] = via[u],
         pc' \in [Threads -> {"idle", "prologue", "relay", "callback",
                              "trampoline", "log", "leave"}],
         fn' \in [Threads -> Functions \cup {NULL}],
         ran' \in [Threads -> Seq(Functions)],
         via' \in [Threads -> Hooks \cup {NULL}],
         ThreadPlace(t)'
  PROVE  JInv'
<1>1. IInv' /\ HooksPlace' /\ NoThreadMeetsHalfADone' /\ LoaderPlace'
  BY VarsKept, HooksKept, CrashKept, LoaderKept DEF JInv, vars, implVars, loaderVars
<1>2. LauncherPlace'
  BY DEF JInv, LauncherPlace, launcherVars, loaderVars, Alive, vars
<1>3. InjectionTypeOK'
  BY <1>1 DEF JInv, IInv, InjectionTypeOK, launcherVars, loaderVars
<1>4. ThreadsPlace'
  <2>1. game' \in {"running", "unloading"} /\ freed' = {}
    BY WhileRunning DEF vars, implVars
  <2>2. \A u \in Threads : ThreadPlace(u)'
    <3> SUFFICES ASSUME NEW u \in Threads PROVE ThreadPlace(u)'
      OBVIOUS
    <3>1. CASE u = t
      BY <3>1
    <3>2. CASE u # t
      <4>1. ThreadPlace(u) /\ attached' = attached
        BY DEF JInv, ThreadsPlace, loaderVars
      <4> QED
        BY <3>2, <4>1, ThreadKept
    <3> QED
      BY <3>1, <3>2
  <2> QED
    BY <2>1, <2>2 DEF ThreadsPlace
<1> QED
  BY <1>1, <1>2, <1>3, <1>4 DEF JInv

\* The entry of a function leads into its body, or to the relay of its hook.
LEMMA EntryOf ==
  ASSUME JInv, Running, NEW f \in Functions
  PROVE  /\ ~Torn(f)
         /\ code[f].operand = Body => (attached => \A h \in Hooks : Target[h] # f)
         /\ code[f].operand # Body =>
              /\ attached /\ HookOf(code[f].operand) \in Hooks
              /\ Target[HookOf(code[f].operand)] = f
<1>0. /\ genPage \in [Hooks -> GenPages \cup {NULL}] /\ PagesDistinct
  BY DEF JInv, IInv, TypeOK
<1>1. ~Torn(f)
  BY WhileRunning
<1>2. ASSUME code[f].operand = Body, attached, NEW h \in Hooks PROVE Target[h] # f
  <2>1. genPage[h] # NULL /\ code[Target[h]].operand = genPage[h]
    BY <1>2, WhileRunning DEF Hooked
  <2> QED
    BY <1>0, <1>2, <2>1, HookAssumption
<1>3. ASSUME code[f].operand # Body
      PROVE  /\ attached /\ HookOf(code[f].operand) \in Hooks
             /\ Target[HookOf(code[f].operand)] = f
  <2>1. attached
    <3>1. Pristine(f).operand = Body
      BY DEF Pristine
    <3> QED
      BY <1>3, <3>1, WhileRunning
  <2>2. PICK h \in Hooks : Target[h] = f
    BY <1>3, <2>1, WhileRunning
  <2>3. genPage[h] # NULL /\ genPage[h] = code[f].operand
    BY <2>1, <2>2, WhileRunning DEF Hooked
  <2>4. HookOf(code[f].operand) = h
    BY <1>0, <2>3 DEF HookOf, PagesDistinct
  <2> QED
    BY <2>1, <2>2, <2>4
<1> QED
  BY <1>1, <1>2, <1>3

LEMMA CallFunctionInv ==
  ASSUME JInv, NEW t \in Threads, NEW f \in Functions, CallFunction(t, f)
  PROVE  JInv'
<1>0. Running /\ pc[t] = "idle"
  BY DEF CallFunction, Moves, DiesAt
<1>1. ~Torn(f)
  BY <1>0, EntryOf
<1>2. fn[t] = NULL /\ via[t] = NULL /\ ran[t] = <<>>
  BY <1>0 DEF JInv, ThreadsPlace, ThreadPlace
<1>3. /\ pc \in [Threads -> {"idle", "prologue", "relay", "callback",
                             "trampoline", "log", "leave"}]
      /\ fn \in [Threads -> Functions \cup {NULL}]
      /\ ran \in [Threads -> Seq(Functions)]
      /\ via \in [Threads -> Hooks \cup {NULL}]
  BY DEF JInv, InjectionTypeOK
<1>4. /\ fn' = [fn EXCEPT ![t] = f] /\ ran' = ran
      /\ UNCHANGED <<vars, launcherVars, game, loaderVars>>
  BY <1>1 DEF CallFunction, Moves
<1>5. attached' = attached
  BY <1>4 DEF loaderVars
<1>6. CASE code[f].operand = Body
  <2>1. pc' = [pc EXCEPT ![t] = "prologue"] /\ via' = via
    BY <1>1, <1>6 DEF CallFunction, Moves
  <2>2. ThreadPlace(t)'
    BY <1>0, <1>2, <1>3, <1>4, <1>5, <1>6, <2>1, EntryOf DEF ThreadPlace
  <2> QED
    BY <1>0, <1>3, <1>4, <2>1, <2>2, ThreadMoved
<1>7. CASE code[f].operand # Body
  <2> DEFINE h == HookOf(code[f].operand)
  <2>1. pc' = [pc EXCEPT ![t] = "relay"] /\ via' = [via EXCEPT ![t] = h]
    BY <1>1, <1>7 DEF CallFunction, Moves
  <2>2. attached /\ h \in Hooks /\ Target[h] = f
    BY <1>0, <1>7, EntryOf
  <2> HIDE DEF h
  <2>3. ThreadPlace(t)'
    BY <1>2, <1>3, <1>4, <1>5, <2>1, <2>2, TwoHooks DEF ThreadPlace
  <2> QED
    BY <1>0, <1>3, <1>4, <2>1, <2>2, <2>3, ThreadMoved
<1> QED
  BY <1>6, <1>7

\* What a thread inside of a call can rely on.
LEMMA InsideFacts ==
  ASSUME JInv, Running, NEW t \in Threads, pc[t] # "idle"
  PROVE  /\ fn[t] \in Functions /\ fn[t] # NULL
         /\ ran[t] = IF pc[t] \in {"log", "leave"} THEN <<fn[t]>> ELSE <<>>
         /\ pc[t] = "prologue" => via[t] = NULL /\ code[fn[t]] = Pristine(fn[t])
         /\ pc[t] \in {"relay", "callback", "trampoline", "log"} =>
              /\ attached /\ logReady /\ via[t] \in Hooks /\ Target[via[t]] = fn[t]
              /\ Built(via[t]) /\ genPage[via[t]] \notin freed
              /\ callback[via[t]] <=> via[t] = InitWorldHook
         /\ pc[t] = "callback" => via[t] = InitWorldHook
         /\ pc[t] = "trampoline" => via[t] # InitWorldHook
<1>1. ThreadPlace(t) /\ via[t] \in Hooks \cup {NULL} /\ freed = {}
  BY WhileRunning DEF JInv, ThreadsPlace, InjectionTypeOK
<1>2. /\ fn[t] \in Functions /\ fn[t] # NULL
      /\ ran[t] = IF pc[t] \in {"log", "leave"} THEN <<fn[t]>> ELSE <<>>
      /\ pc[t] = "callback" => via[t] = InitWorldHook
      /\ pc[t] = "trampoline" => via[t] # InitWorldHook
  BY <1>1, InjectionAssumption DEF ThreadPlace
<1>3. ASSUME pc[t] = "prologue"
      PROVE  via[t] = NULL /\ code[fn[t]] = Pristine(fn[t])
  <2>1. via[t] = NULL /\ (attached => \A h \in Hooks : Target[h] # fn[t])
    BY <1>1, <1>3 DEF ThreadPlace
  <2>2. CASE attached
    BY <1>2, <2>1, <2>2 DEF JInv, HooksPlace
  <2>3. CASE ~attached
    <3>1. \A f \in Functions : code[f] = Pristine(f)
      BY <2>3, WhileRunning
    <3> QED
      BY <1>2, <2>1, <3>1
  <2> QED
    BY <2>1, <2>2, <2>3
<1>4. ASSUME pc[t] \in {"relay", "callback", "trampoline", "log"}
      PROVE  /\ attached /\ logReady /\ via[t] \in Hooks /\ Target[via[t]] = fn[t]
             /\ Built(via[t]) /\ genPage[via[t]] \notin freed
             /\ callback[via[t]] <=> via[t] = InitWorldHook
  <2>1. attached /\ via[t] \in Hooks /\ Target[via[t]] = fn[t]
    BY <1>1, <1>4 DEF ThreadPlace
  <2>2. logReady /\ Built(via[t])
    BY <2>1, WhileRunning DEF Hooked
  <2>3. callback[via[t]] <=> via[t] = InitWorldHook
    <3>1. ip = 7
      BY <2>1, WhileRunning DEF JInv, LoaderPlace
    <3> QED
      BY <2>1, <3>1 DEF JInv, LoaderPlace
  <2> QED
    BY <1>1, <2>1, <2>2, <2>3
<1> QED
  BY <1>2, <1>3, <1>4

LEMMA ThreadTypes ==
  ASSUME JInv
  PROVE  /\ pc \in [Threads -> {"idle", "prologue", "relay", "callback",
                                "trampoline", "log", "leave"}]
         /\ fn \in [Threads -> Functions \cup {NULL}]
         /\ ran \in [Threads -> Seq(Functions)]
         /\ via \in [Threads -> Hooks \cup {NULL}]
  BY DEF JInv, InjectionTypeOK

\* The first body of a call.
LEMMA FirstBody ==
  ASSUME NEW f \in Functions
  PROVE  /\ Append(<<>>, f) = <<f>> /\ <<f>> \in Seq(Functions) /\ <<f>> # <<>>
         /\ <<>> \in Seq(Functions)
  OBVIOUS

LEMMA LeavePrologueStep ==
  ASSUME JInv, NEW t \in Threads, LeavePrologue(t)
  PROVE  /\ Running /\ pc[t] = "prologue"
         /\ pc' = [pc EXCEPT ![t] = "leave"] /\ ran' = [ran EXCEPT ![t] = <<fn[t]>>]
         /\ UNCHANGED <<vars, launcherVars, game, loaderVars, fn, via>>
<1>1. Running /\ pc[t] = "prologue"
  BY DEF LeavePrologue, Moves, DiesAt
<1>2. code[fn[t]] = Pristine(fn[t]) /\ ran[t] = <<>> /\ fn[t] \in Functions
  BY <1>1, InsideFacts
<1>3. Append(ran[t], fn[t]) = <<fn[t]>>
  BY <1>2, FirstBody
<1> QED
  BY <1>1, <1>2, <1>3 DEF LeavePrologue, Moves

LEMMA LeavePrologueInv ==
  ASSUME JInv, NEW t \in Threads, LeavePrologue(t)
  PROVE  JInv'
<1>1. /\ Running /\ pc[t] = "prologue"
      /\ pc' = [pc EXCEPT ![t] = "leave"] /\ ran' = [ran EXCEPT ![t] = <<fn[t]>>]
      /\ UNCHANGED <<vars, launcherVars, game, loaderVars, fn, via>>
  BY LeavePrologueStep
<1>2. ThreadPlace(t)'
  BY <1>1, ThreadTypes DEF JInv, ThreadsPlace, ThreadPlace, loaderVars
<1>3. ran' \in [Threads -> Seq(Functions)]
  <2>1. fn[t] \in Functions
    BY <1>1, InsideFacts
  <2>2. <<fn[t]>> \in Seq(Functions)
    BY <2>1, FirstBody
  <2> QED
    BY <1>1, <2>2, ThreadTypes
<1>4. \A u \in Threads \ {t} : pc'[u] = pc[u] /\ fn'[u] = fn[u] /\ ran'[u] = ran[u] /\ via'[u] = via[u]
  BY <1>1, ThreadTypes
<1> QED
  BY <1>1, <1>2, <1>3, <1>4, ThreadTypes, ThreadMoved

LEMMA EnterRelayInv ==
  ASSUME JInv, NEW t \in Threads, EnterRelay(t)
  PROVE  JInv'
<1>1. Running /\ pc[t] = "relay"
  BY DEF EnterRelay, Moves, DiesAt
<1>2. genPage[via[t]] \notin freed /\ (callback[via[t]] <=> via[t] = InitWorldHook)
  BY <1>1, InsideFacts
<1>3. /\ pc' = [pc EXCEPT ![t] = IF callback[via[t]] THEN "callback" ELSE "trampoline"]
      /\ UNCHANGED <<vars, launcherVars, game, loaderVars, fn, ran, via>>
  BY <1>2 DEF EnterRelay, Moves
<1>4. pc'[t] = IF via[t] = InitWorldHook THEN "callback" ELSE "trampoline"
  BY <1>2, <1>3, ThreadTypes
<1>5. ThreadPlace(t)'
  BY <1>1, <1>3, <1>4, ThreadTypes DEF JInv, ThreadsPlace, ThreadPlace, loaderVars
<1> QED
  BY <1>1, <1>3, <1>5, ThreadTypes, ThreadMoved

\* A call that gets to the trampoline has its own function's body run.
LEMMA RunTrampolineStep ==
  ASSUME JInv, NEW t \in Threads, NEW from \in {"callback", "trampoline"}, NEW to,
         RunTrampoline(t, from, to)
  PROVE  /\ Running /\ pc[t] = from
         /\ pc' = [pc EXCEPT ![t] = to] /\ ran' = [ran EXCEPT ![t] = <<fn[t]>>]
         /\ UNCHANGED <<vars, launcherVars, game, loaderVars, fn, via>>
<1>1. Running /\ pc[t] = from
  BY DEF RunTrampoline, Moves, DiesAt
<1>2. /\ Built(via[t]) /\ genPage[via[t]] \notin freed /\ Target[via[t]] = fn[t]
      /\ ran[t] = <<>> /\ fn[t] \in Functions
  BY <1>1, InsideFacts
<1>3. Append(ran[t], Target[via[t]]) = <<fn[t]>>
  BY <1>2, FirstBody
<1> QED
  BY <1>1, <1>2, <1>3 DEF RunTrampoline, Moves

LEMMA RunTrampolineInv ==
  ASSUME JInv, NEW t \in Threads, CallTrampoline(t) \/ CallbackTrampoline(t)
  PROVE  JInv'
<1>1. /\ Running /\ pc[t] \in {"callback", "trampoline"}
      /\ \/ pc' = [pc EXCEPT ![t] = "leave"]
         \/ pc' = [pc EXCEPT ![t] = "log"]
      /\ ran' = [ran EXCEPT ![t] = <<fn[t]>>]
      /\ UNCHANGED <<vars, launcherVars, game, loaderVars, fn, via>>
  BY RunTrampolineStep DEF CallTrampoline, CallbackTrampoline
<1>2. via[t] \in Hooks
  BY <1>1, InsideFacts
<1>3. ThreadPlace(t)'
  BY <1>1, <1>2, ThreadTypes, TwoHooks DEF JInv, ThreadsPlace, ThreadPlace, loaderVars
<1>4. ran' \in [Threads -> Seq(Functions)]
  <2>1. fn[t] \in Functions
    BY <1>1, InsideFacts
  <2>2. <<fn[t]>> \in Seq(Functions)
    BY <2>1, FirstBody
  <2> QED
    BY <1>1, <2>2, ThreadTypes
<1>5. \A u \in Threads \ {t} : pc'[u] = pc[u] /\ fn'[u] = fn[u] /\ ran'[u] = ran[u] /\ via'[u] = via[u]
  BY <1>1, ThreadTypes
<1> QED
  BY <1>1, <1>3, <1>4, <1>5, ThreadTypes, ThreadMoved

LEMMA CallbackLogInv ==
  ASSUME JInv, NEW t \in Threads, CallbackLog(t)
  PROVE  JInv'
<1>1. Running /\ pc[t] = "log"
  BY DEF CallbackLog, Moves, DiesAt
<1>2. logReady /\ via[t] \in Hooks
  BY <1>1, InsideFacts
<1>3. /\ pc' = [pc EXCEPT ![t] = "leave"]
      /\ UNCHANGED <<vars, launcherVars, game, loaderVars, fn, ran, via>>
  BY <1>2 DEF CallbackLog, Moves
<1>4. ThreadPlace(t)'
  BY <1>1, <1>2, <1>3, ThreadTypes DEF JInv, ThreadsPlace, ThreadPlace, loaderVars
<1> QED
  BY <1>1, <1>3, <1>4, ThreadTypes, ThreadMoved

LEMMA ReturnToGameInv ==
  ASSUME JInv, NEW t \in Threads, ReturnToGame(t)
  PROVE  JInv'
<1>1. /\ Running /\ pc[t] = "leave" /\ pc' = [pc EXCEPT ![t] = "idle"]
      /\ fn' = [fn EXCEPT ![t] = NULL] /\ ran' = [ran EXCEPT ![t] = <<>>]
      /\ via' = [via EXCEPT ![t] = NULL]
      /\ UNCHANGED <<vars, launcherVars, game, loaderVars>>
  BY DEF ReturnToGame, Moves
<1>2. ThreadPlace(t)'
  BY <1>1, ThreadTypes DEF ThreadPlace
<1> QED
  BY <1>1, <1>2, ThreadTypes, ThreadMoved

-----------------------------------------------------------------------------
(* The ends of the game's process and of the launcher                      *)

\* A step that ends the process, or the launcher, and nothing else.
LEMMA EndingKept ==
  ASSUME JInv, UNCHANGED <<vars, pathWritten, loaderVars, threadVars>>,
         \/ /\ game' \in {"unloading", "exiting", "terminated"} /\ launcher' = launcher
            /\ \/ game \in {"running", "unloading", "exiting"}
               \/ game' = "terminated" /\ game \notin {"none", "terminated"}
            /\ game = "exiting" => game' = "terminated"
         \/ /\ launcher' = "killed" /\ launcher \notin LauncherEnds /\ game' = game
  PROVE  JInv'
<1>0. game \in {"none", "suspended", "running", "unloading", "exiting", "terminated"}
  BY DEF JInv, InjectionTypeOK
<1>1. IInv' /\ HooksPlace' /\ ThreadsPlace' /\ NoThreadMeetsHalfADone'
  BY <1>0, OthersKept DEF loaderVars
<1>2. InjectionTypeOK'
  BY <1>1 DEF JInv, IInv, InjectionTypeOK, LauncherEnds, loaderVars, threadVars
<1>3. LauncherPlace'
  BY <1>0, CheckNames DEF JInv, LauncherPlace, LauncherEnds, loaderVars, Alive, vars
<1>4. LoaderPlace'
  BY LoaderKept DEF JInv, vars
<1> QED
  BY <1>1, <1>2, <1>3, <1>4 DEF JInv

\* ~Impl gives a page back when no thread runs any more.
LEMMA DestroyHookInv ==
  ASSUME JInv, NEW h \in Hooks, DestroyHook(h)
  PROVE  JInv'
<1>1. /\ game = "exiting" /\ game' \in {"exiting", "terminated"}
      /\ freed' = freed \cup {genPage[h]} /\ genPage[h] # NULL
      /\ UNCHANGED <<installed, genPage, trampoline, hookSize, originalCode, code,
                     prot, step, cur, previousProtection, crash>>
      /\ UNCHANGED <<launcherVars, loaderVars, threadVars>>
  BY DEF DestroyHook
<1>2. freed' \subseteq GenPages
  BY <1>1 DEF JInv, IInv, TypeOK
<1>3. IInv' /\ HooksPlace' /\ NoThreadMeetsHalfADone' /\ LoaderPlace'
  BY <1>1, <1>2, FreedInv, HooksKept, CrashKept, LoaderKept DEF JInv, loaderVars
<1>4. InjectionTypeOK'
  BY <1>1, <1>3 DEF JInv, IInv, InjectionTypeOK, launcherVars, loaderVars, threadVars
<1>5. LauncherPlace'
  BY <1>1, CheckNames DEF JInv, LauncherPlace, launcherVars, loaderVars
<1>6. ThreadsPlace'
  <2>1. \A t \in Threads : ThreadPlace(t)'
    BY <1>1, ThreadKept DEF JInv, ThreadsPlace, loaderVars, threadVars
  <2> QED
    BY <1>1, <2>1 DEF ThreadsPlace
<1> QED
  BY <1>3, <1>4, <1>5, <1>6 DEF JInv

LEMMA EndingInv ==
  ASSUME JInv, Ending
  PROVE  JInv'
<1> USE DEF Running, Alive, launcherVars, LauncherEnds
<1>1. CASE ExitGame
  BY <1>1, EndingKept DEF ExitGame
<1>2. ASSUME NEW h \in Hooks, DestroyHook(h) PROVE JInv'
  BY <1>2, DestroyHookInv
<1>3. CASE FinishExit
  BY <1>3, EndingKept DEF FinishExit
<1>4. CASE UnloadClient
  BY <1>4, EndingKept DEF UnloadClient
<1>5. CASE TerminateSelf
  BY <1>5, EndingKept DEF TerminateSelf
<1>6. CASE KillGame
  BY <1>6, EndingKept DEF KillGame
<1>7. CASE KillLauncher
  BY <1>7, EndingKept DEF KillLauncher
<1> QED
  BY <1>1, <1>2, <1>3, <1>4, <1>5, <1>6, <1>7 DEF Ending

-----------------------------------------------------------------------------
LEMMA StutterInv ==
  ASSUME JInv, UNCHANGED allVars
  PROVE  JInv'
<1> USE DEF JInv, allVars, launcherVars, loaderVars, threadVars
<1>1. IInv' /\ HooksPlace' /\ ThreadsPlace' /\ NoThreadMeetsHalfADone'
  BY OthersKept
<1>2. InjectionTypeOK'
  BY <1>1 DEF IInv, InjectionTypeOK
<1>3. LauncherPlace'
  BY DEF LauncherPlace, Alive, vars
<1>4. LoaderPlace'
  BY LoaderKept DEF vars
<1> QED
  BY <1>1, <1>2, <1>3, <1>4

LEMMA ThreadStepInv ==
  ASSUME JInv, NEW t \in Threads, ThreadStep(t)
  PROVE  JInv'
<1>1. ASSUME NEW f \in Functions, CallFunction(t, f) PROVE JInv'
  BY <1>1, CallFunctionInv
<1>2. CASE LeavePrologue(t)
  BY <1>2, LeavePrologueInv
<1>3. CASE EnterRelay(t)
  BY <1>3, EnterRelayInv
<1>4. CASE CallTrampoline(t) \/ CallbackTrampoline(t)
  BY <1>4, RunTrampolineInv
<1>5. CASE CallbackLog(t)
  BY <1>5, CallbackLogInv
<1>6. CASE ReturnToGame(t)
  BY <1>6, ReturnToGameInv
<1> QED
  BY <1>1, <1>2, <1>3, <1>4, <1>5, <1>6 DEF ThreadStep, InsideCall

LEMMA LauncherStepInv ==
  ASSUME JInv, LauncherStep
  PROVE  JInv'
  BY CheckInv, CreateGameInv, WritePathInv, SpawnLoaderInv, WaitLoaderInv,
     ResumeGameInv DEF LauncherStep

LEMMA LoaderStepInv ==
  ASSUME JInv, LoaderStep
  PROVE  JInv'
  BY LoadLibraryInv, AnswerPromptInv, InitLoggerInv, SetImageBaseInv, SetCallbackInv,
     CallInstallInv, RunInstallInv, FinishAttachInv DEF LoaderStep

LEMMA InjectionNextInv ==
  ASSUME JInv, [InjectionNext]_allVars
  PROVE  JInv'
<1>1. CASE LauncherStep
  BY <1>1, LauncherStepInv
<1>2. CASE LoaderStep
  BY <1>2, LoaderStepInv
<1>3. ASSUME NEW t \in Threads, ThreadStep(t) PROVE JInv'
  BY <1>3, ThreadStepInv
<1>4. CASE Ending
  BY <1>4, EndingInv
<1>5. CASE UNCHANGED allVars
  BY <1>5, StutterInv
<1> QED
  BY <1>1, <1>2, <1>3, <1>4, <1>5 DEF InjectionNext

\* Whatever the launcher, the loader, the game's threads and the user do, and
\* in whatever order, launcher, loader, hooks and threads stay in place.
THEOREM InjectionInductive == SafeSpec => []JInv
<1>1. InjectionInit => JInv
  BY InjectionInitInv
<1>2. JInv /\ [InjectionNext]_allVars => JInv'
  BY InjectionNextInv
<1> QED
  BY <1>1, <1>2, PTL DEF SafeSpec

\* The variables of launcher, loader, hooks and threads have their types.
THEOREM InjectionTypeCorrect == SafeSpec => []InjectionTypeOK
<1>1. JInv => InjectionTypeOK
  BY DEF JInv
<1> QED
  BY <1>1, InjectionInductive, PTL

\* No call of any thread of the game meets an entry half written, a page
\* given back, or a logger, an image base or a trampoline not there yet.
THEOREM NothingMetHalfDone == SafeSpec => []NoThreadMeetsHalfADone
<1>1. JInv => NoThreadMeetsHalfADone
  BY DEF JInv
<1> QED
  BY <1>1, InjectionInductive, PTL

\* The threads of the game run with both hooks complete or with none begun.
THEOREM NeverHalfHooked == SafeSpec => []HookedCompletelyOrNotAtAll
<1>1. JInv => HookedCompletelyOrNotAtAll
  BY WhileRunning DEF HookedCompletelyOrNotAtAll, Hooked
<1> QED
  BY <1>1, InjectionInductive, PTL

\* With the client loaded every call of a hooked function goes through its
\* hook, and every call of InitWorld through the callback.
THEOREM EveryCallSeen == SafeSpec => []ClientSeesEveryCall
<1>1. JInv => ClientSeesEveryCall
  <2> SUFFICES ASSUME JInv, attached, NEW t \in Threads, NEW h \in Hooks,
                      fn[t] = Target[h]
               PROVE  /\ via[t] # NULL /\ Target[via[t]] = fn[t]
                      /\ via[t] = InitWorldHook => pc[t] # "trampoline"
    BY DEF ClientSeesEveryCall
  <2>1. ThreadPlace(t)
    BY DEF JInv, ThreadsPlace
  <2>2. fn[t] # NULL
    BY TwoHooks
  <2>3. pc[t] # "idle"
    BY <2>1, <2>2 DEF ThreadPlace
  <2> QED
    BY <2>1, <2>3 DEF ThreadPlace
<1> QED
  BY <1>1, InjectionInductive, PTL

-----------------------------------------------------------------------------
(* The game's calls: every step maps to a step of GameCalls or to none.    *)

\* A step of a thread is a call, the body, the return, or inside of the hook.
LEMMA ThreadStepMaps ==
  ASSUME JInv, NEW t \in Threads, ThreadStep(t)
  PROVE  \/ \E f \in Functions : Calls!Call(t, f)
         \/ Calls!RunBody(t)
         \/ Calls!Return(t)
         \/ UNCHANGED <<fn, ran>>
<1>1. ASSUME NEW f \in Functions, CallFunction(t, f) PROVE Calls!Call(t, f)
  <2>1. Running /\ pc[t] = "idle"
    BY <1>1 DEF CallFunction, Moves, DiesAt
  <2>2. fn[t] = NULL
    BY <2>1 DEF JInv, ThreadsPlace, ThreadPlace
  <2>3. ~Torn(f)
    BY <2>1, EntryOf
  <2> QED
    BY <1>1, <2>2, <2>3 DEF CallFunction, Calls!Call
<1>2. CASE LeavePrologue(t)
  <2>1. /\ Running /\ pc[t] = "prologue"
        /\ ran' = [ran EXCEPT ![t] = <<fn[t]>>] /\ fn' = fn
    BY <1>2, LeavePrologueStep
  <2> QED
    BY <2>1, InsideFacts DEF Calls!RunBody
<1>3. CASE EnterRelay(t)
  BY <1>3 DEF EnterRelay, DiesAt, threadVars
<1>4. CASE CallTrampoline(t) \/ CallbackTrampoline(t)
  <2>1. /\ Running /\ pc[t] \in {"callback", "trampoline"}
        /\ ran' = [ran EXCEPT ![t] = <<fn[t]>>] /\ fn' = fn
    BY <1>4, RunTrampolineStep DEF CallTrampoline, CallbackTrampoline
  <2> QED
    BY <2>1, InsideFacts DEF Calls!RunBody
<1>5. CASE CallbackLog(t)
  BY <1>5 DEF CallbackLog, DiesAt, threadVars
<1>6. CASE ReturnToGame(t)
  <2>1. Running /\ pc[t] = "leave"
    BY <1>6 DEF ReturnToGame, Moves
  <2>2. ran[t] # <<>>
    <3>1. ran[t] = <<fn[t]>> /\ fn[t] \in Functions
      BY <2>1, InsideFacts
    <3> QED
      BY <3>1, FirstBody
  <2> QED
    BY <1>6, <2>2 DEF ReturnToGame, Calls!Return
<1> QED
  BY <1>1, <1>2, <1>3, <1>4, <1>5, <1>6 DEF ThreadStep, InsideCall

\* The hooks are transparent, for any number of threads: Injection implements
\* GameCalls, which knows nothing of them.
THEOREM Transparent == SafeSpec => CallsAreTransparent
<1>1. InjectionInit => Calls!CallsInit
  BY DEF InjectionInit, Calls!CallsInit
<1>2. JInv /\ [InjectionNext]_allVars => [Calls!CallsNext]_<<fn, ran>>
  <2> SUFFICES ASSUME JInv, [InjectionNext]_allVars
               PROVE  Calls!CallsNext \/ UNCHANGED <<fn, ran>>
    OBVIOUS
  <2>1. CASE LauncherStep
    BY <2>1 DEF LauncherStep, Check, CreateGame, WritePath, SpawnLoader, WaitLoader,
       ResumeGame, threadVars
  <2>2. CASE LoaderStep
    BY <2>2 DEF LoaderStep, LoadLibrary, AnswerPrompt, InitLogger, SetImageBase,
       SetCallback, CallInstall, RunInstall, FinishAttach, threadVars
  <2>3. ASSUME NEW t \in Threads, ThreadStep(t)
        PROVE  Calls!CallsNext \/ UNCHANGED <<fn, ran>>
    BY <2>3, ThreadStepMaps DEF Calls!CallsNext
  <2>4. CASE Ending
    BY <2>4 DEF Ending, ExitGame, DestroyHook, FinishExit, UnloadClient,
       TerminateSelf, KillGame, KillLauncher, threadVars
  <2>5. CASE UNCHANGED allVars
    BY <2>5 DEF allVars, threadVars
  <2> QED
    BY <2>1, <2>2, <2>3, <2>4, <2>5 DEF InjectionNext
<1> QED
  BY <1>1, <1>2, InjectionInductive, PTL
     DEF SafeSpec, CallsAreTransparent, Calls!CallsSpec, Calls!callVars

=============================================================================
