# VotV-MP: models, checks and proofs

VotV-MP is a multiplayer mod for a game built on Unreal Engine. A **launcher**
starts the game suspended and loads a **client library** into it; the library
patches two functions of the game so that they call the client (**hooks**).
Around that core the repository has a string class with its encodings, a logger
and, not used by either program yet, sockets, addresses, scopes over protected
memory and a few owners of resources. There are no tests and no documentation
beside the comments.

This directory holds TLA+ models of that code, the TLC runs that check them on
small instances, and TLAPS proofs for every instance of each model.
Paths below are relative to `src/Source/`.

    tlc -workers 2 -config MCFunctionHook.cfg MCFunctionHook      # a run
    tlapm InjectionProofs.tla                                     # the proofs

`PROJECT.json` lists every run, the lines each definition translates, the
findings, the hazards, and for each checked property a mutant: a plausible
mistake in one definition that the property catches.

## Inventory

| Component | State | Operations | Hard behaviour | What makes it right |
|---|---|---|---|---|
| Launcher, `Launcher/Main.cpp` | where `WinMain` is, the game's process and remote thread | check files and privilege, `CreateProcess` suspended, write the path, remote thread on `LoadLibraryW`, wait, resume | every Windows call may fail and most results are ignored; either process may be killed | it ends, and leaves no game suspended, if `Install` comes to an end; the game runs only hooked completely or not at all |
| Client entry point, `Client/Main.cpp` | image base, logger, callback, attached | `DllMain`: prompt, `Initialize`; on detach message box and `TerminateProcess`, or destructors | runs on the loader's thread, before or beside the game's threads | whatever a hooked call uses is there before the call |
| Hooks, `Client/Hooks/SymbolHook.hpp`, `Impl/FunctionHook.*` | per hook: page, trampoline, size, saved bytes, `installed`; the game's code and page protection | `Install`, `Remove` (does nothing), `~Impl`; the relay | stores into code other threads may be running; hooks stacked on a function; repeated `Install` | an entry leads only to complete pages; trampolines reach the function; protection is restored |
| Relay jumper and relay, `FunctionHook.cpp:75-144`, `FunctionHook.hpp` | registers and stack of one call | put the hook's address into the first free parameter slot, jump to the relay, relay calls the hook | slot arithmetic for registers, stack, big results | the relay reads exactly the caller's arguments and its hook; the caller gets its stack back |
| Trampoline builder, `Impl/Common.cpp:6-152` | cursor in the original and the written code, highest jump destination | decode, copy or transform each of the first instructions | relative operands, jumps within what is copied, the end of the function | the copy does what the original does |
| Page allocator, `Impl/Common.cpp:154-263` | the search's cursor; the process's address space | `VirtualQuery`, `VirtualAlloc`, go on | other threads allocate in between; the size of a region counts from the page asked about | a page within reach, found if there is one; the search ends |
| String, `Common/String.*` | buffer, length, room | construct from any encoding, copy, move, assign, clear, write, compare, contains, `parseInt` | manual memory; self-assignment; terminator; numbers that wrap around | buffers behave as values: never shared, leaked, overrun; a number is read or refused |
| Encodings, `Common/Encodings/` | cursor, state of a table-driven decoder | `Next`, `Encode`, `Validate`, `UnicodeLength` | malformed and unfinished sequences, limits of every length | text survives; nothing else gets in; how far behind the end is read |
| Addresses, `Network/IP*`, `SocketAddress.*` | none | parse and print, `ToSystem` | limits of parts, the gap of `::`, a missing port | what is printed denotes the address; what is read is what the text denotes |
| Sockets, `Network/RawSocket.*`, `TCPSocket.*`; `Common/CO.hpp` | a handle; a counted reference | construct, copy, move, release, `operator&` | what is released may hold what is assigned; handles are reused | each reference has one owner and is given back once |
| Memory access, `Common/Memory.*`; `Common/Atomic.hpp` | protection of pages; a mutex | lift protection for a scope, write; lock | nested and overlapping scopes of several threads | pages writable in a scope, protection restored after it |
| Logger, `Logging/Logging.*` | an open file in a `Box` | `Initialize`, `Print` | used from several threads without a lock; used before `Initialize` | initialised before use |
| Game bindings, `Client/Game/` | `ImageBase` | addresses of symbols, call thunks | `ImageBase` has to be set first | as above |
| `Common/Box.hpp`, `Bytes.hpp`, `Vector.hpp`, formatters, asserts, build files, the HDE disassembler | | | | not modelled, see below |

How they interact: the launcher's remote thread runs `DllMain` inside of the
game, `DllMain` calls `Initialize`, which sets what the hooks need and then
calls `Install` on the two static hooks. `Install` asks `AllocatePageNear` for a
page, writes the relay jumper and lets `CreateTrampoline` write the trampoline
onto it, saves the original bytes and redirects the function. From then on each
thread of the game that calls the function goes through jumper, relay, callback
(or straight) and trampoline. The callback of `InitWorldHook` makes a `String`
of a UTF-16 name and logs it as UTF-8.

## Modules

| Module | Models | Runs | Proofs |
|---|---|---|---|
| `FunctionHook` | `Impl::Install` store by store, for any set of hooks | `function_hook`, `hook_too_short` | `InjectionProofs` |
| `GameCalls` | abstract: what a call of the game's own functions does | as a property of `injection` | `InjectionProofs` |
| `Injection` | extends `FunctionHook`: launcher, `DllMain`, threads of the game, kills, unloading | `injection` | `InjectionProofs` |
| `RelayJumper` | one hooked call, instruction by instruction | `relay_jumper` | `RelayJumperProofs` |
| `Trampoline` | `CreateTrampoline`, then original and copy run side by side | `trampoline`, `trampoline_call` | `TrampolineProofs` |
| `PageAlloc` | `AllocatePageNear` among allocating threads | `page_alloc` | `PageAllocProofs` |
| `StringValues` | abstract: strings are values | as a property of `string_buffer` | `StringBufferProofs` |
| `StringBuffer` | `String` with its heap | `string_buffer` | `StringBufferProofs` |
| `Encodings` | decoding, `parseInt`, `UnicodeLength`, encoding, decoding again | `encodings` | `EncodingsProofs` |
| `Addresses` | IPv4, IPv6 and socket addresses, parsed and printed | `addresses` | `NetworkProofs` |
| `Owners` | `CO` and `RawSocket`: who gives back what | `owners` | `NetworkProofs` |
| `Protection` | `UnFuckScope` and `Atomic` among threads | `protection` | `ProtectionProofs` |

The `MC...` modules give the constants their values.

### FunctionHook

The target's first bytes are kept as the three parts `Install` writes: opcode,
operand, and the rest that is filled with NOPs. A generated page is a model
value; `trampoline[h]` is what the code built there runs, the function's own
body or the jumper of the hook whose patch it was built from. `step` is where
the one installing thread is; each store that another thread can observe is an
action, and nothing else: `AllocatePage`, `BuildTrampoline`, `SaveOriginal`,
`Unprotect`, `PatchOpcode`, `PatchOperand`, `PatchNops`, `Reprotect`. What
`CreateTrampoline` returns is any member of `HookSizes`. Faults end the process
(`crash`): a null page, a write to a protected page, the runaway `memset`.

Run `function_hook` calls `Install` on three hooks, two on one function and one
on a call site (a target that starts with `E8`), all on one page, in any order and
any number of times: `installed` is never set in the code, so `Install` never
returns early. The search for a page may also find nothing (`AllocateNothing`) or never
return (`SearchForEver`, see `PageAlloc`). Sizes 0, 3, 5 and 7 are a failed `VirtualProtect`, a trampoline
that is too short, a patch without and with NOPs. It shows that no circle of
trampolines, no incomplete page behind an entry, no saved copy of a hook's own
patch and no forgotten protection can come of it.

Run `hook_too_short`: `Install` does not look at the size. It patches functions
for which there is no valid trampoline, and then fills `hookSize - 5` bytes, a
number that has wrapped around.

### Injection

The actors are the launcher, the remote thread (which is `FunctionHook`'s
installing thread), two threads of the game and the user. Each result the
launcher ignores may be a failure. A thread of the game stands in the prologue of
a function, in relay, callback, trampoline or log; `fn`, `ran` and `via` are what
it called, the bodies that have run for it, one after the other, and through which hook. Meeting anything half done
(a torn entry, a page given back, a missing trampoline or logger) is a crash, and
`NoThreadMeetsHalfADone` says which crashes are left: those of `Install` itself.

`CallsAreTransparent` is a refinement: hidden behind hooks, callbacks, kills and
unloading, each call is a call of `GameCalls`, for which the body of the function runs
exactly once, and no other body, before it returns: `ran` keeps every body that ran, so
that a second one is not overlooked. It does not say that generated code does what the
code it stands for does: where it does not, `Trampoline` and `RelayJumper` say.

A fault in `DllMain` (`crash`) ends the game's process: nothing handles it, and the
Windows loader is assumed not to.

Fairness. A process that can take a step takes one in the end, so the launcher,
the remote thread and each thread *inside of a call* are weakly fair; `DllMain`'s
and the launcher's message boxes are closed by the user. Nobody has to call a
function, unload the library, or kill anything. Under that `CallsReturn` holds, and
`LauncherFinishes` and `GameIsResumed` hold with one exception, `SearchesForEver`: if
`AllocatePageNear` does not return, neither do `Install`, the remote thread and the
infinite wait at `Launcher/Main.cpp:64`, and the game stays suspended until the user
kills one of the processes. A game that dies does not keep the launcher: a process
that ends signals its threads.

Two threads are enough for two of them to be in one entry or on both sides of a
patch; two hooks are all the client has.

### RelayJumper

One call with up to seven arguments, which is every register slot and three sizes
of tail on the stack. Its result is of one of three kinds: `classResult` is what
`Generate` and `HeadSize` test (no void, fundamental type, pointer or reference),
`bigResult` is what the caller goes by (it does not fit RAX, so slot 0 is a pointer
to it). Every big result is a class; an enum, or a structure of one, two, four or
eight bytes, is counted as a class and is not big (`SlotMiscounted`). The stack is
an array of dwords, because the payload is stored in halves. The relay is the one
the templates in `FunctionHook.hpp` instantiate for that signature, on the slots the
compiler gives its parameters. Run `relay_jumper` shows that the relay finds its
arguments and its hook and that the caller's frame is kept.

With a miscounted slot the payload goes one slot too far: the relay takes the fourth
argument, or whatever was in the slot, for its hook. `RelayGetsItsParameters` says
exactly that, and that it finds the other arguments. The comment in `Generate` says
the slot is used "if return value cannot be stored in RAX"; `HookFound` proves that
the relay has its hook (`RelayGetsItsHook`) wherever the code counts like that. Neither of the
functions hooked today returns anything, so the repository does not meet it yet.

`StackPointerAccounted` says what the jumper does to the stack pointer: a call whose
payload goes in a register ends with its caller's; one whose payload goes on the
stack comes back with sixteen bytes taken that nobody gives back. A function
without parameters and without a counted result, for which the code emits data
instead of an instruction (`FunctionHook.cpp:116`), and one with a miscounted slot,
whose relay looks into something that is no hook, are the only ones that are lost,
and `CallsComeBack` leaves them out by name. Fairness: a processor goes on.

### Trampoline

An instruction is its kind, its length and the address it names; a function is
any three of them, of nine kinds, then one long plain instruction. The builder's loop
is `Decode`; afterwards original and copy are executed together for each outcome of each
condition. A displacement reaches 256 bytes and the trampoline is 200 away.
`DivergesOnlyKnownWays` lists how a trampoline may fail: a call that became a jump
(`trampoline_call`), an operand out of reach, a jump over an item that got longer. Everything
else it does right. `ShortOnlyIfEnded`: fewer than five bytes only if the function
ends there. `ReadsOnOnlyInBranch`: the decoder goes on behind a jump out of the function
only after a jump into it, but then always, because the wrong address is
compared. Three instructions are enough for a jump, what it jumps over and where
it lands, within five bytes. `jumpBack` is always true, as in the one call.

### PageAlloc

Addresses count pages, with a granularity of two and a range of seven. The address
space has nineteen layouts around the hooked function's image: free or filled below and above, one and
several regions to an allocation, and images of one and two regions, as the loader maps them. Other
threads take or free memory three times at most, once per half of the search and
once more. Fairness is that of the search itself: nothing blocks it. It is shown
that a page is within reach, the nearest below if there is one, and that no
granule free all the time is overlooked.

`VirtualQuery` counts the size of a region from the page it was asked about
(`RegionSize`), and the upward search adds that to the base of the allocation
(`Behind`). From the base of an allocation this leads past its region; from any page
further on it leads to another page of the same allocation, again behind its base, and
the search goes round in it: `Stuck`. So it is in the image of the hooked function,
unless the function lies in the last granule of its image. `SearchEnds` says that a search either
ends or stays `Stuck` for ever, and `Injection` takes the latter over as
`SearchForEver`.

### StringBuffer, StringValues

Every public operation that changes a `String`, on a heap of cells in which what was never
written is `Junk`. Decoding is a step per character, everything else is one step,
as an object belongs to one thread. Two objects, texts up to three
characters over `{0, 1, 2}` and buffers grown both ways. `Owned` and `Terminated`
are the memory safety, `ComparesByValue` states that the short cuts of
`operator<=>` are right, and `ImplementsValues` is the refinement. A string assigned
to itself becomes empty; `StringValues` says so.

### Encodings

Every source of up to four bytes, of one byte per class of the decoder's table, and up to three
UTF-16 units around each limit, malformed ones included. A source is decoded, its
code points are encoded either way, and the result is decoded.
A source has a zero behind it, or came with its length only (`sized`): the
constructors of `String` take `string_view`s and pointers with a length, and the buffer
of `_decodeFromANSI` has no terminator. `Readable` is what `Next` may find at a position,
behind such a source anything. `ReadsToTheEnd`: a terminator is never passed, only paired
with a high surrogate at the end; behind a source without one the decoder reads, and
makes part of the text, what would complete its last character, up to three bytes
or one unit. `Validate` and `UnicodeLength` have nothing but the terminator to stop at, so what
is said of them is said of sources that have one. `ValidIsLossless` ties `Validate` to the decoder,
except for an unfinished sequence at the end, which `Validate` accepts and the
decoder drops. What the decoder makes of a lone surrogate is not text, and
`RoundTrip` leaves it out.

`CountsChars` compares `UnicodeLength` with the decoder: that of UTF-16 counts
what would be decoded, and steps over the terminator behind a high surrogate; that of UTF-8
returns -1 for every text that is all there (`Utf8.hpp:49` has the two results the
wrong way round).

`parseInt` is run on numerals of up to four characters over `+ - 0 1 9 A`, for
integers of four and of eight bits that stand for those of 32 and 64; the
arithmetic is modulo 2^8 as the code's is modulo 2^64. `ParsesWhatFits`: a number that
fits is read, nothing else is, but for numbers beyond the width of the
accumulator, which may be taken for what they are equal to modulo it.

### Addresses

A text is a sequence of numbers and of the characters between them, with `Bad` for
any other character. A run of digits is one number, read as decimal or
hexadecimal as its place wants, so no two numbers stand next to each other.
`Meaning` is the reference: it states the shape of a text and the
address it denotes by the rules of the notation, without the code's loops. The loops are
kept: `ReadV4` and `ReadV6` are what a parser does for one item of the text, `Copied` goes byte by
byte, and `PrintWord` is one turn of the printing loop.

The texts have up to five IPv4 parts out of empty, 0, 9 and 300, up to nine IPv6
groups, each empty or a word of its own, which has every place and number of `::`,
with ports around 16 bits, in brackets, and malformed; the printed addresses have
zeros in every pattern. `LongRange` stands for the limit of `std::stoul`.

`PrintsItsMeaning` holds as one would wish. `ReadsItsMeaning` states the two losses
exactly: only a dot stores the number before it, so an IPv4 address loses its last
part and the others move by one; and the words behind a `::` are copied upwards over
themselves. `PortAsGiven` says that without a port the first part of the
address is taken for it (`SocketAddress.cpp:25`), where the header promises 0, and
that an address in brackets is never read: `IPv6::Parse` is given the brackets too. Of an
empty text the parser asks for the first character all the same (`FirstOf`); whatever it
finds, the text is refused.

### Owners

`CO` and `RawSocket` have the same shape: one member, empty or naming what is
owned. `held` says what each place owns, `refs` how often each object is referenced,
`raw` what code outside of the classes owns. An object may itself have a `CO`
as a member: then releasing one object releases the next. Two variables and three
objects, two references to each at most: enough for a chain that goes with its
head, an object referenced from a variable and from an object, and a handle that
the system uses again. `EveryReferenceOwned`: given back once and lost only
through `operator&` on a `CO` that holds something. `AssignsWhatItIsGiven` names the
one case in which an assignment goes wrong: it releases the old object before it
reads the other `CO`, which may be a member of that object (`CO.hpp:39`).

Sockets are not copied: `NONCOPYABLE_CLASS` stands among `RawSocket`'s private
members, and though it defaults the copies instead of deleting them, nothing inside of the
class uses them.

### Protection

`UnFuckScope` asks `VirtualProtect` for the old protection and gives it back.
Two threads, each with up to three nested scopes over two pages of any
protection, in a program that guards its scopes with an `Atomic` or does not:
ranges that are equal, apart and inside one another. `WritableInScope` and
`RestoredAfter` hold unless there was `Trouble`: a scope over pages of different
protection, of which only the first one's is remembered, or scopes of two threads over one page with
nothing to guard them. Neither program has such scopes.

## What is proved

Each proof module extends the module it is about. Everything holds for all values of
the constants that satisfy the module's assumption.

**`InjectionProofs`, first half: `FunctionHook`** (`HookAssumption`: the constants
have their types, the null pointer and "the function's own code" are no page):
`TypeCorrect`, `TrampolinesEnd`, `RedirectsComplete`, `SavedPredates`, `TornInside`,
`Restored`, that is `TypeOK` and every invariant of run `function_hook`, and
`Generated`, an action property. None of them but the types is inductive alone.
`IInv` adds

* `Generation`: page, trampoline and saved bytes appear in this order, and only the
  hook `Install` stands in has some and not all of them; so the store of the operand
  finds a complete hook;
* `PagesDistinct`: no page serves two hooks, so a new page is in nobody's entry;
* `TrampolinesEnterBuilt`: a trampoline enters only jumpers that were complete
  before it, which is why the new one cannot close a circle;
* `ProtectionHeld`: during a patch only the target's page is writable, and what it
  was before is in the local variable.

**`InjectionProofs`, second half: `Injection`** (`InjectionAssumption`: the two
hooks have different targets), for any number of threads of the game:
`InjectionTypeCorrect`, `NothingMetHalfDone`, `NeverHalfHooked`, `EveryCallSeen`,
and `Transparent`, the step simulation of `GameCalls`. `JInv` takes `IInv` over, as
the loader's steps are steps of `FunctionHook`, and adds where the actors can be
together: `LauncherPlace` (no thread of the game runs while the loader does, because
the launcher resumes only after it), `LoaderPlace` (what each line of `Initialize`
has set), `HooksPlace` (a hook is complete after its `Install` and untouched before
it) and `ThreadsPlace`.

**`RelayJumperProofs`** (`MaxArgsAssumption`: a natural number), for functions of
any number of arguments and each kind of result: `JumperPlaced` (the invariant
`RInv`), `ParametersFound`, `HookFound` (the relay finds its hook wherever no slot is
miscounted), `StackAccounted` and `FrameAbove`. `Frame` says where the caller's
arguments lie, and that nobody puts anything where a miscounting relay looks;
`Place` lists, instruction by instruction, the stack pointer and where return
address and payload are. The lemmas before them compute what the jumper's
instructions are for each first free slot, and what the relay's parameter list is on
both sides of the split.

**`StringBufferProofs`** (`StringAssumption`: characters are numbers with 0 among
them, what was never written is none, null is no address), for any number of objects
and buffers and any length: `StringsSound`, `BuffersOwned`, `TextsTerminated` and
`BuffersImplementValues`, the step simulation of `StringValues`. `SInv` is `Sound`:
each object owns its buffer alone, it has the size the object believes, and every
cell of its text has been written; with room for what is still to be decoded. Each
helper that an operation calls keeps `Sound` and changes one object only, so an
operation is a chain of such steps. `TextsCompared` (`ComparesByValue`) needs only
that the two texts are written: two texts are equal, or differ first at one place or
in length, and the code's loops and short cuts find the same.

**`PageAllocProofs`** (`PageAllocAssumption`, `LayoutsAssumption`: allocations start
at multiples of the granularity, are without gaps and do not overlap):
`TypeCorrect`, `FoundInRange`, `FindsWhatIsFree`, `TakesNearest`, `StuckForGood`. `Searching`
says which addresses the searches look at; since the rest of a region is counted from its
allocation's base, the upper one may look into the function's own image, of
which no page is free. `Remaining` says that what was free all the time is not
passed yet. `StuckForGood` is the step behind the finding: in the middle of an allocation the rest of a
region is less than what has to be skipped, and what is left leads to no other place
than behind the base again.

**`ProtectionProofs`** (`ProtectionAssumption`: pages are an interval, the free
mutex is no thread), for any threads, pages and depth: `TypeCorrect`, `ScopesOpen`,
`ScopesClose`. The invariant says what each open scope remembers: of a page an outer
scope covers, that it was open; of any other its first protection; and that without
`Trouble` no two threads' scopes meet.

**`TrampolineProofs`** (`TrampolineAssumption`: addresses and lengths are numbers),
for any start of a function, any number of instructions and any place of the
trampoline: `TrampolineInvariant`, `DivergesOnlyInKnownWays`, `ShortFunctionsEnded`,
`ReadsOnInBranches`. The run has three instructions and one distance. The functions
are those of `Codes`: no jump leads into the middle of an instruction, which is how compilers
write functions. The first half of the invariant is about the builder: the items lie
one behind the other (`Chain`), each is what its instruction makes of it (`Taken`),
and `maxJmpRef` is the greatest destination within the function (`MaxOf`). The
second half is a simulation: a run of the original stands at an instruction exactly
while the run of the copy stands at its item (`InStep`). Falling through keeps it
so, a jump out leaves both for the same address, and a displacement that was copied
meets the item of its destination if all items in between have kept their length;
that they have not is one of the known ways.

**`NetworkProofs`, first half: `Owners`** (`OwnersAssumption`: finitely many
resources, none of which is a variable), for any number of variables, resources and references: `OwnersInvariant`,
`EveryReferenceIsOwned`, and the action property `AssignmentsAssign`. One `Release`
may destroy a chain of objects, each of whose members names the next. `DropSound`
follows the chain with one reference pending: the counts are right except for that
one, and every link hands it on or ends. `ReachAvoids` says that what is destroyed
on the way was reachable from nowhere else, so an assignment can only go wrong when
its source is a member of what it destroys. The property names exactly that case.

**`NetworkProofs`, second half: `Addresses`** (`AddressesAssumption`: numbers and the
characters of the notation differ, `std::nullopt` is no address, and the texts are
what the model calls texts), for texts of any length and every address:
`AddressInvariant`, `MeaningsPrinted`, `MeaningsRead` and `PortsGiven`, that is all
three invariants of the run. Of `LongRange` the proofs need only that every port is below it.
`AddressInv` says that a printed text denotes what was printed, and
that `ip` and `socket` are what the parsers make of the text; what remains are facts
about the parsers and printers as functions:

* A text that denotes an address fills it piece by piece (`ParsesV4`, `ReadsWords`,
  `ReadsDouble`); `Sides` cuts it at its `::`.
* The copy upwards is right until it comes to what it has already written, and
  repeats itself with the length of the gap from there (`MovesTo`, `Decompresses`).
* A text that was not refused has the stated shape after each of its characters
  (`RefusesV4`, `WellReadStep`).
* What is printed is words, `::`, words, or eight words: the loop is in one of
  three parts (`LeftPart`, `MiddlePart`, `RightPart`), and `MeansDoubled` reads the whole
  by the rules of `Meaning`. That the run left out is the first of the longest ones is not
  needed, only that it is one of zeros and that there is no other `::`.

**`EncodingsProofs`** (`EncodingAssumption`: bytes and units have their widths, an
`int` has no more values than a `uint64_t`, both an even number), for sources of any
length and any units: all six properties of the run. `DecoderInvariant` says where
the decoder is and that its state and bits are those of a sequence which may still
end in a scalar value; `Utf8Step` reads the code's table, class by class, as the
table of well-formed sequences. From it

* `SourceIsRead` and `DecodesOnlyScalars` follow at once: without a terminator the bytes
  that a state still waits for (`Rest`) end within the character that was begun (`Reaches`);
* `TextSurvives` is a forward simulation: the second decoder is always between two
  characters that were encoded or inside of one (`Follows`, `InChar`);
* `ValidIsKept` and `LengthsCount` run `Validate` and `UnicodeLength` beside the
  decoder: as long as nothing was rejected, what they have seen is what has been
  decoded and what the unfinished sequence has so far (`AsRead`), and what they have still to
  count is what is still to be decoded (`CountedSoFar`);
* `NumbersAreRead`: what `_parseBigInt` has read, at the weight of its place, is
  equal to what its digits add up to modulo 2^64 (`ReadsTheSum`); two numbers within
  one type that are equal modulo its values are the same number.

`TypeOK` of `FunctionHook`, `InjectionTypeOK`, `GeneratedOnce` and the inductive
invariants are proved and not checked by a run.

Many definitions are recursive functions of a number: lengths, weights, the states
of a table, links of a chain, loops over a text. The theorems of the library for these take an operator
as their parameter, which the provers cannot instantiate, so the proofs that need
induction state it for a set of numbers (`Counting`: a set that has 0, and with each
number the next, has all of them), which follows from least elements, and show with
it that each function exists before they use it.

Only model-checked:

* Liveness, which depends on fairness: `LauncherFinishes`, `GameIsResumed`,
  `CallsReturn`, `CallsComeBack`, `SearchEnds`.
* What the two `violation` runs refute is not a theorem.

## What is not modelled

* Logger: the format of messages, and the data race of two threads that log at
  once, which is in `fmt`'s buffer. Today one hook logs, from the game's threads.
* The ANSI conversions (calls of Windows); `Next` and `UnicodeLength` of UTF-32, which nothing
  calls; running out of memory.
* `bind`, `listen` and `connect`, calls of Winsock whose results are dropped;
  `Accept` and `IsConnected`, which are declared and not defined; the UDP socket, whose files
  are empty.
* `Memory::TryRead`, which rests on structured exceptions; pointers and arrays of `Memory`.
* Member functions that return structures, for which the compiler swaps the
  first two slots, and floating-point parameters.
* `Box`, `Bytes`, `Vector`, the helpers and formatters for Win32: storage and wording.
* The class layouts of the game, the third-party disassembler, the build.

Seen in reading, in code that no model covers: the array form of `Memory::Write`
(`Common/Memory.hpp:117`) goes on by one byte per element; `TryRead` of a type
(`Common/Memory.hpp:138`) would not compile if it were used; `String::FromAuto` calls
`Validate` without the length it was given (`Common/String.hpp:135`).

## Plan

Done, in this order, because everything depends on the first: `FunctionHook`, `Injection`
over it, the three parts `Install` calls, strings and encodings, the parts no program uses yet, the proofs.
What would be next:

1. `Remove` and `~Impl` as they would have to be for hooks to be taken out while
   the game runs, once the code does more than return.
2. Two logging threads, once the logger has a lock or a queue of its own.
3. Sockets with their connections, once `Accept` and `IsConnected` are written.
4. Liveness of the search and of `Injection` by hand, as chains of leads-to from the
   proved invariants.
