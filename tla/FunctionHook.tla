---------------------------- MODULE FunctionHook ----------------------------
(***************************************************************************)
(* FunctionHooks::Impl: a hook redirects a function of the game to a       *)
(* relay.  Install generates a page with a relay jumper and a trampoline,  *)
(* then overwrites the first bytes of the target with a jump to it.        *)
(*                                                                         *)
(* One installing thread calls Install on any hook, any number of times.   *)
(* Every store another thread could observe is a step of its own.  The     *)
(* target's bytes are kept as the three parts Install writes: the opcode,  *)
(* the 32-bit operand, and the bytes that are filled with NOPs.            *)
(***************************************************************************)
EXTENDS Naturals

CONSTANTS
  Hooks,      \* the SymbolHook objects
  Functions,  \* the hooked functions of the game
  Target,     \* Target[h]: the function h hooks (SYMBOL_ADDR(Name))
  CallSites,  \* the targets whose first byte is E8, a relative call
  Pages,      \* the pages of the game image
  PageOf,     \* PageOf[f]: the page the first bytes of f lie on
  ImageProt,  \* the protection of the game's code pages
  GenPages,   \* the pages AllocatePageNear can return
  HookSizes,  \* the values CreateTrampoline can return
  NULL,       \* a null pointer
  Body        \* the operand of code that no hook has written: f's own code

Protections == {"RX", "RWX"}

\* The bytes a patch can reach: the first one, the four that hold a jump's or
\* a call's operand, and the rest of the instructions the patch cuts.
Code == [ opcode : {"E8", "E9", "other"}, operand : GenPages \cup {Body},
          tail : {"own", "nop"} ]

ASSUME HookAssumption ==
  /\ Target \in [Hooks -> Functions]
  /\ CallSites \subseteq Functions
  /\ PageOf \in [Functions -> Pages]
  /\ ImageProt \in Protections
  /\ HookSizes \subseteq Nat
  /\ NULL \notin GenPages \cup {Body} \cup Code
  /\ Body \notin GenPages

VARIABLES
  installed,          \* Impl::installed, of each hook
  genPage,            \* Impl::genPage, where the relay jumper starts
  trampoline,         \* NULL, or what the code at Impl::trampoline runs
  hookSize,           \* Impl::hookSize
  originalCode,       \* Impl::originalCode
  freed,              \* the generated pages given back by ~Impl
  code,               \* the first bytes of each function
  prot,               \* the protection of each page of the image
  step, cur,          \* where the installing thread is, and in which hook
  previousProtection, \* the local of Install
  crash               \* why the process died, or "none"

implVars == <<installed, genPage, trampoline, hookSize, originalCode, freed>>
vars == <<implVars, code, prot, step, cur, previousProtection, crash>>

PatchSize == 5  \* sizeof(Patch), the bytes a near jump takes

Pristine(f) == [ opcode  |-> IF f \in CallSites THEN "E8" ELSE "other",
                 operand |-> Body,
                 tail    |-> "own" ]

Steps == {"idle", "allocate", "search", "build", "save", "unprotect",
          "opcode", "operand", "nops", "reprotect"}

Crashes == {"none", "null page", "write fault", "runaway fill",
            "torn entry", "freed page", "not ready"}

Init ==
  /\ installed = [h \in Hooks |-> FALSE]
  /\ genPage = [h \in Hooks |-> NULL]
  /\ trampoline = [h \in Hooks |-> NULL]
  /\ hookSize = [h \in Hooks |-> 0]
  /\ originalCode = [h \in Hooks |-> NULL]
  /\ freed = {}
  /\ code = [f \in Functions |-> Pristine(f)]
  /\ prot = [p \in Pages |-> ImageProt]
  /\ step = "idle"
  /\ cur \in Hooks
  /\ previousProtection = ImageProt
  /\ crash = "none"

-----------------------------------------------------------------------------
At(s) == crash = "none" /\ step = s

Die(cause) ==
  /\ crash' = cause
  /\ UNCHANGED <<implVars, code, prot, step, cur, previousProtection>>

(* Mutants: what a plausible mistake in Install would make of the action   *)
(* that follows them.  No specification uses them.                         *)

\* without `if (!genPage)`
RegenerateAlways(h) ==
  /\ At("idle") /\ ~installed[h] /\ cur' = h
  /\ step' = IF genPage[h] = NULL THEN "allocate" ELSE "build"
  /\ UNCHANGED <<implVars, code, prot, previousProtection, crash>>

\* with the memcpy of the original bytes outside of `if (!genPage)`
SaveAlways(h) ==
  /\ At("idle") /\ ~installed[h] /\ cur' = h
  /\ step' = IF genPage[h] = NULL THEN "allocate" ELSE "save"
  /\ UNCHANGED <<implVars, code, prot, previousProtection, crash>>

\* Install returns at once for an installed hook, and generates code only if
\* the hook has no page yet.
InstallBegin(h) ==
  /\ At("idle")
  /\ ~installed[h]
  /\ cur' = h
  /\ step' = IF genPage[h] = NULL THEN "allocate" ELSE "unprotect"
  /\ UNCHANGED <<implVars, code, prot, previousProtection, crash>>

\* GenerateCode: the page, and the relay jumper at its start.
AllocatePage ==
  /\ At("allocate")
  /\ \E p \in GenPages \ {genPage[h] : h \in Hooks} :
       genPage' = [genPage EXCEPT ![cur] = p]
  /\ step' = "build"
  /\ UNCHANGED <<installed, trampoline, hookSize, originalCode, freed, code,
                 prot, cur, previousProtection, crash>>

\* AllocatePageNear found nothing: the assertion is empty in this build, and
\* the first byte of the jumper is stored through a null pointer.
AllocateNothing ==
  /\ At("allocate")
  /\ Die("null page")

\* AllocatePageNear does not return: its upward search goes round within an
\* allocation (PageAlloc, Stuck), and this thread with it.
SearchForEver ==
  /\ At("allocate")
  /\ step' = "search"
  /\ UNCHANGED <<implVars, code, prot, cur, previousProtection, crash>>

\* What CreateTrampoline can return for the code it finds: a patched entry is
\* one five-byte jump; after a leading call only the decoder can fail.
TrampolineSizes(c) ==
  CASE c.opcode = "E9" -> {PatchSize}
    [] c.opcode = "E8" -> {PatchSize} \cup (HookSizes \cap {0})
    [] OTHER           -> HookSizes

\* Mutant: without the memcpy of the original bytes
BuildUnsaved ==
  LET c == code[Target[cur]] IN
  /\ At("build")
  /\ trampoline' = [trampoline EXCEPT ![cur] = c.operand]
  /\ \E n \in TrampolineSizes(c) : hookSize' = [hookSize EXCEPT ![cur] = n]
  /\ step' = "unprotect"
  /\ UNCHANGED <<installed, genPage, originalCode, freed, code, prot, cur,
                 previousProtection, crash>>

\* GenerateCode: the trampoline runs what the target runs at this moment.
BuildTrampoline ==
  LET c == code[Target[cur]] IN
  /\ At("build")
  /\ trampoline' = [trampoline EXCEPT ![cur] = c.operand]
  /\ \E n \in TrampolineSizes(c) : hookSize' = [hookSize EXCEPT ![cur] = n]
  /\ step' = "save"
  /\ UNCHANGED <<installed, genPage, originalCode, freed, code, prot, cur,
                 previousProtection, crash>>

SaveOriginal ==
  /\ At("save")
  /\ originalCode' = [originalCode EXCEPT ![cur] = code[Target[cur]]]
  /\ step' = "unprotect"
  /\ UNCHANGED <<installed, genPage, trampoline, hookSize, freed, code, prot,
                 cur, previousProtection, crash>>

\* VirtualProtect fails for a region of size 0; nobody looks at its result.
Unprotect ==
  LET p == PageOf[Target[cur]] IN
  /\ At("unprotect")
  /\ IF hookSize[cur] = 0
       THEN UNCHANGED <<prot, previousProtection>>
       ELSE /\ previousProtection' = prot[p]
            /\ prot' = [prot EXCEPT ![p] = "RWX"]
  /\ step' = "opcode"
  /\ UNCHANGED <<implVars, code, cur, crash>>

\* The patch keeps an E8 opcode, so that a call site stays a call.
PatchOpcode ==
  LET f == Target[cur] IN
  /\ At("opcode")
  /\ IF prot[PageOf[f]] = "RWX"
       THEN /\ code' = [code EXCEPT ![f].opcode = IF @ = "E8" THEN @ ELSE "E9"]
            /\ step' = "operand"
            /\ UNCHANGED <<implVars, prot, cur, previousProtection, crash>>
       ELSE Die("write fault")

\* Mutant: an early end for targets that stay calls, and for jumps as well
SkipOperand ==
  /\ At("operand")
  /\ step' = "nops"
  /\ UNCHANGED <<implVars, code, prot, cur, previousProtection, crash>>

PatchOperand ==
  /\ At("operand")
  /\ code' = [code EXCEPT ![Target[cur]].operand = genPage[cur]]
  /\ step' = "nops"
  /\ UNCHANGED <<implVars, prot, cur, previousProtection, crash>>

\* nopsCount is a size_t: a hookSize below five wraps it around, and the fill
\* runs off the end of the writable memory.
PatchNops ==
  /\ At("nops")
  /\ IF hookSize[cur] < PatchSize
       THEN Die("runaway fill")
       ELSE /\ code' = IF hookSize[cur] = PatchSize THEN code
                       ELSE [code EXCEPT ![Target[cur]].tail = "nop"]
            /\ step' = "reprotect"
            /\ UNCHANGED <<implVars, prot, cur, previousProtection, crash>>

\* Mutant: the second VirtualProtect given the protection of the first
ReprotectWritable ==
  /\ At("reprotect")
  /\ prot' = [prot EXCEPT ![PageOf[Target[cur]]] = "RWX"]
  /\ previousProtection' = prot[PageOf[Target[cur]]]
  /\ step' = "idle"
  /\ UNCHANGED <<implVars, code, cur, crash>>

Reprotect ==
  /\ At("reprotect")
  /\ prot' = [prot EXCEPT ![PageOf[Target[cur]]] = previousProtection]
  /\ previousProtection' = prot[PageOf[Target[cur]]]
  /\ step' = "idle"
  /\ UNCHANGED <<implVars, code, cur, crash>>

InstallStep ==
  \/ AllocatePage \/ AllocateNothing \/ SearchForEver \/ BuildTrampoline
  \/ SaveOriginal \/ Unprotect \/ PatchOpcode \/ PatchOperand \/ PatchNops
  \/ Reprotect

Next == (\E h \in Hooks : InstallBegin(h)) \/ InstallStep

Spec == Init /\ [][Next]_vars

-----------------------------------------------------------------------------
Built(h) == trampoline[h] # NULL

\* A thread that decodes the entry between the two stores of the patch jumps
\* to nowhere.
Torn(f) == code[f].opcode = "E9" /\ code[f].operand = Body

TypeOK ==
  /\ installed \in [Hooks -> BOOLEAN]
  /\ genPage \in [Hooks -> GenPages \cup {NULL}]
  /\ trampoline \in [Hooks -> GenPages \cup {Body, NULL}]
  /\ hookSize \in [Hooks -> Nat]
  /\ originalCode \in [Hooks -> Code \cup {NULL}]
  /\ freed \subseteq GenPages
  /\ code \in [Functions -> Code]
  /\ prot \in [Pages -> Protections]
  /\ step \in Steps
  /\ cur \in Hooks
  /\ previousProtection \in Protections
  /\ crash \in Crashes

\* Calls that enter a trampoline get through to the function's own code: the
\* trampolines of hooks stacked on one function never lead round in a circle.
\* A circle is a set of hooks whose trampolines all enter jumpers of the set.
TrampolinesReachBody ==
  \A S \in (SUBSET Hooks) \ {{}} :
    \E h \in S : \A k \in S : genPage[k] = NULL \/ trampoline[h] # genPage[k]

\* No thread can be sent to a page before the code on it is complete: a
\* function that jumps to a generated page jumps to one whose trampoline is
\* built and whose hook has saved the bytes the jump overwrote.
RedirectsAreComplete ==
  \A f \in Functions : code[f].operand # Body =>
    \E h \in Hooks : /\ Target[h] = f
                     /\ genPage[h] = code[f].operand
                     /\ Built(h)
                     /\ originalCode[h] # NULL

\* The bytes a hook saved are those from before its own patch, however often
\* Install is called again: writing them back would undo the hook.
SavedCodePredatesPatch ==
  \A h \in Hooks :
    originalCode[h] # NULL => originalCode[h].operand # genPage[h]

\* Install leaves the protection of the game's pages as it found them, also
\* for targets that share a page.
ProtectionRestored ==
  At("idle") => prot = [p \in Pages |-> ImageProt]

\* An entry is torn only while Install stands between its two stores.
TornOnlyInsidePatch ==
  \A f \in Functions : Torn(f) => step = "operand" /\ Target[cur] = f

\* Code on a generated page is never rewritten: a thread may be running it.
GeneratedOnce ==
  [][ \A h \in Hooks :
        /\ genPage[h] # NULL => genPage'[h] = genPage[h]
        /\ Built(h) => trampoline'[h] = trampoline[h]
                       /\ hookSize'[h] = hookSize[h] ]_vars

\* "Note that if returned value is less than 5 it means that valid trampoline
\* couldn't be created": a target without a valid trampoline stays unpatched.
PatchedOnlyWithValidTrampoline ==
  \A h \in Hooks :
    (Built(h) /\ code[Target[h]].operand = genPage[h]) => hookSize[h] >= PatchSize
=============================================================================
