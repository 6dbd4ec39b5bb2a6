------------------------------ MODULE Injection ------------------------------
(***************************************************************************)
(* The launcher starts the game suspended, loads the client library into   *)
(* it with a remote thread, waits for that thread, and resumes the game.   *)
(* The library's DllMain installs the two hooks of the client; the threads *)
(* of the game then call the hooked functions until the process ends.      *)
(*                                                                         *)
(* Actors: the launcher, the loader thread (the installing thread of       *)
(* FunctionHook), the game's threads, and the user, who answers message    *)
(* boxes and may kill either process.                                      *)
(***************************************************************************)
EXTENDS FunctionHook, Sequences

CONSTANTS
  InitWorldHook,   \* the hook with a callback
  FuncInvokeHook,  \* the hook without one
  Threads          \* the threads of the game

ASSUME InjectionAssumption ==
  /\ Hooks = {InitWorldHook, FuncInvokeHook}
  /\ Target[InitWorldHook] # Target[FuncInvokeHook]
  /\ NULL \notin Hooks \cup Functions

VARIABLES
  launcher,     \* where WinMain of the launcher is
  pathWritten,  \* the library's path is in the game's memory
  game,         \* the state of the game's process
  loader,       \* the state of the remote thread
  ip,           \* the next entry of AttachScript DllMain runs
  attached,     \* the library is loaded
  imageBase,    \* Game::ImageBase is set
  logReady,     \* Logger::m_file is initialized
  callback,     \* SymbolHook::Callback, of each hook: set or empty
  pc,           \* pc[t]: where thread t is in a call of a hooked function
  fn, ran,      \* the function it calls, and those whose bodies ran for it
  via           \* the hook whose relay the call came through, or NULL

launcherVars == <<launcher, pathWritten>>
loaderVars == <<loader, ip, attached, imageBase, logReady, callback>>
threadVars == <<pc, fn, ran, via>>
allVars == <<vars, launcherVars, game, loaderVars, threadVars>>

\* WinMain's checks before the process is created, in order.
Checks == <<"game binary", "client library", "debug privilege">>

LauncherEnds == {"done", "failed", "killed"}

\* DLL_PROCESS_ATTACH, statement by statement.
AttachScript ==
  << [op |-> "prompt",     hook |-> NULL],
     [op |-> "logger",     hook |-> NULL],
     [op |-> "image base", hook |-> NULL],
     [op |-> "callback",   hook |-> InitWorldHook],
     [op |-> "install",    hook |-> InitWorldHook],
     [op |-> "install",    hook |-> FuncInvokeHook] >>

InjectionInit ==
  /\ Init
  /\ launcher = Checks[1]
  /\ pathWritten = FALSE
  /\ game = "none"
  /\ loader = "none"
  /\ ip = 1
  /\ attached = FALSE
  /\ imageBase = FALSE
  /\ logReady = FALSE
  /\ callback = [h \in Hooks |-> FALSE]
  /\ pc = [t \in Threads |-> "idle"]
  /\ fn = [t \in Threads |-> NULL]
  /\ ran = [t \in Threads |-> <<>>]
  /\ via = [t \in Threads |-> NULL]

Alive == crash = "none" /\ game \notin {"none", "terminated"}

\* The game's threads run while the process is not suspended or exiting.
Running == crash = "none" /\ game \in {"running", "unloading"}

-----------------------------------------------------------------------------
(* The launcher                                                            *)

\* A check that fails shows a message box, and WinMain returns 1.
Check(i) ==
  /\ launcher = Checks[i]
  /\ launcher' \in {"failed", IF i = Len(Checks) THEN "create" ELSE Checks[i + 1]}
  /\ UNCHANGED <<vars, pathWritten, game, loaderVars, threadVars>>

\* Mutant: without CREATE_SUSPENDED
CreateGameRunning ==
  /\ launcher = "create"
  /\ \/ launcher' = "write" /\ game' = "running"
     \/ launcher' = "failed" /\ UNCHANGED game
  /\ UNCHANGED <<vars, pathWritten, loaderVars, threadVars>>

\* CreateProcessW, with CREATE_SUSPENDED.
CreateGame ==
  /\ launcher = "create"
  /\ \/ launcher' = "write" /\ game' = "suspended"
     \/ launcher' = "failed" /\ UNCHANGED game
  /\ UNCHANGED <<vars, pathWritten, loaderVars, threadVars>>

\* VirtualAllocEx and WriteProcessMemory; their results are not looked at.
WritePath ==
  /\ launcher = "write"
  /\ pathWritten' \in IF Alive THEN BOOLEAN ELSE {FALSE}
  /\ launcher' = "spawn"
  /\ UNCHANGED <<vars, game, loaderVars, threadVars>>

\* CreateRemoteThread; a failure is not looked at either.
SpawnLoader ==
  /\ launcher = "spawn"
  /\ launcher' = "wait"
  /\ loader' \in IF Alive THEN {"loading", "none"} ELSE {"none"}
  /\ UNCHANGED <<vars, pathWritten, game, ip, attached, imageBase, logReady,
                 callback, threadVars>>

(* Mutants of WaitLoader: a bounded wait; a wait for the library's return  *)
(* only; a return when the library was not loaded.                         *)
WaitWithTimeout ==
  /\ launcher = "wait"
  /\ launcher' = "resume"
  /\ UNCHANGED <<vars, pathWritten, game, loaderVars, threadVars>>

WaitForEndOnly ==
  /\ launcher = "wait"
  /\ loader = "ended"
  /\ launcher' = "resume"
  /\ UNCHANGED <<vars, pathWritten, game, loaderVars, threadVars>>

GiveUpUnattached ==
  /\ launcher = "wait"
  /\ loader \in {"none", "ended"} \/ ~Alive
  /\ launcher' = IF attached THEN "resume" ELSE "failed"
  /\ UNCHANGED <<vars, pathWritten, game, loaderVars, threadVars>>

\* WaitForSingleObject(thread, INFINITE) returns when the thread has ended,
\* by itself or with its process, and at once for a null handle.
WaitLoader ==
  /\ launcher = "wait"
  /\ loader \in {"none", "ended"} \/ ~Alive
  /\ launcher' = "resume"
  /\ UNCHANGED <<vars, pathWritten, game, loaderVars, threadVars>>

ResumeGame ==
  /\ launcher = "resume"
  /\ launcher' = "done"
  /\ game' = IF game = "suspended" /\ Alive THEN "running" ELSE game
  /\ UNCHANGED <<vars, pathWritten, loaderVars, threadVars>>

LauncherStep ==
  \/ \E i \in DOMAIN Checks : Check(i)
  \/ CreateGame \/ WritePath \/ SpawnLoader \/ WaitLoader \/ ResumeGame

-----------------------------------------------------------------------------
(* The loader thread                                                       *)

Attaching(op) ==
  /\ Alive
  /\ loader = "attaching"
  /\ step = "idle"
  /\ ip <= Len(AttachScript)
  /\ AttachScript[ip].op = op

\* LoadLibraryW: it fails for a path that was not written, or by itself.
LoadLibrary ==
  /\ Alive
  /\ loader = "loading"
  /\ \/ pathWritten /\ loader' = "attaching"
     \/ loader' = "ended"
  /\ UNCHANGED <<vars, launcherVars, game, ip, attached, imageBase, logReady,
                 callback, threadVars>>

\* PromoteDebugger: the user closes the message box.
AnswerPrompt ==
  /\ Attaching("prompt")
  /\ ip' = ip + 1
  /\ UNCHANGED <<vars, launcherVars, game, loader, attached, imageBase,
                 logReady, callback, threadVars>>

\* InitConsole and Logger::Initialize, and the first message.
InitLogger ==
  /\ Attaching("logger")
  /\ logReady' = TRUE
  /\ ip' = ip + 1
  /\ UNCHANGED <<vars, launcherVars, game, loader, attached, imageBase,
                 callback, threadVars>>

\* Game::ImageBase is set and logged.
SetImageBase ==
  /\ Attaching("image base")
  /\ IF logReady THEN imageBase' = TRUE /\ ip' = ip + 1 /\ UNCHANGED vars
                 ELSE Die("not ready") /\ UNCHANGED <<imageBase, ip>>
  /\ UNCHANGED <<launcherVars, game, loader, attached, logReady, callback,
                 threadVars>>

\* Mutant: the callback given to the other hook
SetOtherCallback ==
  /\ Attaching("callback")
  /\ callback' = [callback EXCEPT ![FuncInvokeHook] = TRUE]
  /\ ip' = ip + 1
  /\ UNCHANGED <<vars, launcherVars, game, loader, attached, imageBase,
                 logReady, threadVars>>

SetCallback ==
  /\ Attaching("callback")
  /\ callback' = [callback EXCEPT ![AttachScript[ip].hook] = TRUE]
  /\ ip' = ip + 1
  /\ UNCHANGED <<vars, launcherVars, game, loader, attached, imageBase,
                 logReady, threadVars>>

\* Install is called with ImageBase + offset: without the base, GenerateCode
\* decodes unmapped memory.
CallInstall ==
  /\ Attaching("install")
  /\ IF imageBase THEN InstallBegin(AttachScript[ip].hook) /\ ip' = ip + 1
                  ELSE Die("not ready") /\ UNCHANGED ip
  /\ UNCHANGED <<launcherVars, game, loader, attached, imageBase, logReady,
                 callback, threadVars>>

RunInstall ==
  /\ Alive
  /\ loader = "attaching"
  /\ InstallStep
  /\ UNCHANGED <<launcherVars, game, loaderVars, threadVars>>

\* DllMain returns TRUE and the remote thread ends.
FinishAttach ==
  /\ Alive
  /\ loader = "attaching"
  /\ step = "idle"
  /\ ip > Len(AttachScript)
  /\ loader' = "ended"
  /\ attached' = TRUE
  /\ UNCHANGED <<vars, launcherVars, game, ip, imageBase, logReady, callback,
                 threadVars>>

LoaderStep ==
  \/ LoadLibrary \/ AnswerPrompt \/ InitLogger \/ SetImageBase
  \/ SetCallback \/ CallInstall \/ RunInstall \/ FinishAttach

-----------------------------------------------------------------------------
(* The game's threads                                                      *)

Moves(t, from, to) ==
  /\ Running
  /\ pc[t] = from
  /\ pc' = [pc EXCEPT ![t] = to]
  /\ UNCHANGED <<launcherVars, game, loaderVars>>

DiesAt(t, from, cause) ==
  /\ Running
  /\ pc[t] = from
  /\ Die(cause)
  /\ UNCHANGED <<launcherVars, game, loaderVars, threadVars>>

HookOf(page) == CHOOSE h \in Hooks : genPage[h] = page

\* The thread decodes the entry of f: it runs the function's own first
\* instructions, or jumps to a relay jumper.
CallFunction(t, f) ==
  IF Torn(f)
    THEN DiesAt(t, "idle", "torn entry")
    ELSE /\ fn' = [fn EXCEPT ![t] = f]
         /\ IF code[f].operand = Body
              THEN Moves(t, "idle", "prologue") /\ UNCHANGED via
              ELSE /\ Moves(t, "idle", "relay")
                   /\ via' = [via EXCEPT ![t] = HookOf(code[f].operand)]
         /\ UNCHANGED <<vars, ran>>

\* The thread is between two of the instructions that a patch overwrites.
LeavePrologue(t) ==
  /\ pc[t] = "prologue"
  /\ IF code[fn[t]] = Pristine(fn[t])
       THEN /\ Moves(t, "prologue", "leave")
            /\ ran' = [ran EXCEPT ![t] = Append(@, fn[t])]
            /\ UNCHANGED <<vars, fn, via>>
       ELSE DiesAt(t, "prologue", "torn entry")

\* The jumper enters Relay, which calls the callback if there is one and the
\* trampoline otherwise.
EnterRelay(t) ==
  /\ pc[t] = "relay"
  /\ IF genPage[via[t]] \in freed
       THEN DiesAt(t, "relay", "freed page")
       ELSE /\ Moves(t, "relay",
                     IF callback[via[t]] THEN "callback" ELSE "trampoline")
            /\ UNCHANGED <<vars, fn, ran, via>>

\* The trampoline runs the function whose first instructions it copied; that
\* the copy does what they do is Trampoline's subject.
RunTrampoline(t, from, to) ==
  /\ pc[t] = from
  /\ IF Built(via[t]) /\ genPage[via[t]] \notin freed
       THEN /\ Moves(t, from, to)
            /\ ran' = [ran EXCEPT ![t] = Append(@, Target[via[t]])]
            /\ UNCHANGED <<vars, fn, via>>
       ELSE DiesAt(t, from, IF Built(via[t]) THEN "freed page" ELSE "not ready")

CallTrampoline(t) == RunTrampoline(t, "trampoline", "leave")

\* Mutant: the callback calls the function by its address in the game instead
CallbackCallsTarget(t) ==
  /\ Moves(t, "callback", "relay")
  /\ UNCHANGED <<vars, fn, ran, via>>

\* The callback of InitWorldHook calls the trampoline first; then it asks the
\* world for its name and logs it.
CallbackTrampoline(t) == RunTrampoline(t, "callback", "log")

\* Mutant: the callback calls the trampoline for the result that it returns
CallbackRunsTwice(t) ==
  IF logReady THEN RunTrampoline(t, "log", "leave") ELSE DiesAt(t, "log", "not ready")

CallbackLog(t) ==
  IF logReady THEN Moves(t, "log", "leave") /\ UNCHANGED <<vars, fn, ran, via>>
              ELSE DiesAt(t, "log", "not ready")

ReturnToGame(t) ==
  /\ Moves(t, "leave", "idle")
  /\ fn' = [fn EXCEPT ![t] = NULL]
  /\ ran' = [ran EXCEPT ![t] = <<>>]
  /\ via' = [via EXCEPT ![t] = NULL]
  /\ UNCHANGED vars

InsideCall(t) ==
  \/ LeavePrologue(t) \/ EnterRelay(t) \/ CallTrampoline(t)
  \/ CallbackTrampoline(t) \/ CallbackLog(t) \/ ReturnToGame(t)

ThreadStep(t) == (\E f \in Functions : CallFunction(t, f)) \/ InsideCall(t)

-----------------------------------------------------------------------------
(* The end of the game's process, and of the launcher                      *)

\* ExitProcess stops every other thread.
ExitGame ==
  /\ Running
  /\ game' = "exiting"
  /\ UNCHANGED <<vars, launcherVars, loaderVars, threadVars>>

\* DLL_PROCESS_DETACH of an exiting process destroys the static hooks:
\* ~SymbolHook calls Remove, which returns because installed is never set,
\* and ~Impl hands the page to _aligned_free.  The page came from
\* VirtualAlloc, so the call may as well bring the process down.
DestroyHook(h) ==
  /\ crash = "none" /\ game = "exiting"
  /\ attached
  /\ genPage[h] \notin freed \cup {NULL}
  /\ freed' = freed \cup {genPage[h]}
  /\ game' \in {"exiting", "terminated"}
  /\ UNCHANGED <<installed, genPage, trampoline, hookSize, originalCode, code,
                 prot, step, cur, previousProtection, crash>>
  /\ UNCHANGED <<launcherVars, loaderVars, threadVars>>

FinishExit ==
  /\ crash = "none" /\ game = "exiting"
  /\ attached => \A h \in Hooks : genPage[h] \in freed \cup {NULL}
  /\ game' = "terminated"
  /\ UNCHANGED <<vars, launcherVars, loaderVars, threadVars>>

\* DLL_PROCESS_DETACH of a running process: a message box, behind which the
\* threads go on, and TerminateProcess before any destructor.
UnloadClient ==
  /\ Running /\ game = "running" /\ attached
  /\ game' = "unloading"
  /\ UNCHANGED <<vars, launcherVars, loaderVars, threadVars>>

TerminateSelf ==
  /\ Running /\ game = "unloading"
  /\ game' = "terminated"
  /\ UNCHANGED <<vars, launcherVars, loaderVars, threadVars>>

KillGame ==
  /\ Alive
  /\ game' = "terminated"
  /\ UNCHANGED <<vars, launcherVars, loaderVars, threadVars>>

KillLauncher ==
  /\ launcher \notin LauncherEnds
  /\ launcher' = "killed"
  /\ UNCHANGED <<vars, pathWritten, game, loaderVars, threadVars>>

Ending ==
  \/ ExitGame \/ (\E h \in Hooks : DestroyHook(h)) \/ FinishExit
  \/ UnloadClient \/ TerminateSelf \/ KillGame \/ KillLauncher

-----------------------------------------------------------------------------
InjectionNext ==
  LauncherStep \/ LoaderStep \/ (\E t \in Threads : ThreadStep(t)) \/ Ending

\* Programs that can take a step eventually do, and the user closes the
\* message boxes.  Nobody has to call, to exit or to kill.
InjectionFairness ==
  /\ WF_allVars(LauncherStep)
  /\ WF_allVars(LoaderStep)
  /\ \A t \in Threads : WF_allVars(InsideCall(t))

SafeSpec == InjectionInit /\ [][InjectionNext]_allVars
InjectionSpec == SafeSpec /\ InjectionFairness

-----------------------------------------------------------------------------
InjectionTypeOK ==
  /\ TypeOK
  /\ launcher \in LauncherEnds \cup {Checks[i] : i \in DOMAIN Checks}
                    \cup {"create", "write", "spawn", "wait", "resume"}
  /\ pathWritten \in BOOLEAN
  /\ game \in {"none", "suspended", "running", "unloading", "exiting",
               "terminated"}
  /\ loader \in {"none", "loading", "attaching", "ended"}
  /\ ip \in 1..Len(AttachScript) + 1
  /\ attached \in BOOLEAN /\ imageBase \in BOOLEAN /\ logReady \in BOOLEAN
  /\ callback \in [Hooks -> BOOLEAN]
  /\ pc \in [Threads -> {"idle", "prologue", "relay", "callback",
                         "trampoline", "log", "leave"}]
  /\ fn \in [Threads -> Functions \cup {NULL}]
  /\ ran \in [Threads -> Seq(Functions)]
  /\ via \in [Threads -> Hooks \cup {NULL}]

\* The process dies in the client's code only if AllocatePageNear finds no
\* page or a target is too short to hook: no thread meets a half-written
\* entry, a page that was given back, or a logger, an image base or a
\* trampoline that is not there yet.
NoThreadMeetsHalfADone ==
  crash \in {"none", "null page", "write fault", "runaway fill"}

\* From the moment the game runs, it is hooked completely or not at all.
HookedCompletelyOrNotAtAll ==
  Running =>
    \/ attached /\ \A h \in Hooks :
                     code[Target[h]].operand = genPage[h] /\ Built(h)
    \/ ~attached /\ \A f \in Functions : code[f] = Pristine(f)

\* With the client loaded no call of a hooked function goes past its hook,
\* and none of InitWorld past its callback.
ClientSeesEveryCall ==
  attached => \A t \in Threads :
    fn[t] \in {Target[h] : h \in Hooks} =>
      via[t] # NULL /\ Target[via[t]] = fn[t]
      /\ (via[t] = InitWorldHook => pc[t] # "trampoline")

\* The hooks are transparent in this: for each call of the game, hooked or not,
\* through the callback or past it, unloading or not, the body of the function
\* that was called runs exactly once and nothing else does, before the call
\* returns: the game's calls are those of GameCalls.  (Where generated code
\* differs from the code it stands for is Trampoline's and RelayJumper's
\* subject.)
Calls == INSTANCE GameCalls
CallsAreTransparent == Calls!CallsSpec

\* Install searches for a page and never returns, and neither do the remote
\* thread, the loader and the launcher's wait.
SearchesForEver == launcher = "wait" /\ step = "search" /\ Alive

\* Neither a failed injection nor a dying game keeps the launcher waiting; only
\* a search for a page that does not end does, until somebody kills one of the
\* processes.
LauncherFinishes == <>(launcher \in LauncherEnds) \/ <>[]SearchesForEver

\* The launcher never leaves the game suspended, unless it is killed or the
\* search for a page keeps it waiting.
GameIsResumed ==
  \/ game = "suspended" ~>
       (game # "suspended" \/ crash # "none" \/ launcher = "killed")
  \/ <>[]SearchesForEver

\* A call through a hook returns as long as the process runs.
CallsReturn ==
  \A t \in Threads : pc[t] # "idle" ~> (pc[t] = "idle" \/ ~Running)
=============================================================================
