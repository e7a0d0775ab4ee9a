# alloc_hook: TLA+ models

`liballoc_hook.so` is preloaded into an Android program. It stands in for the C
allocation functions (and for `mmap`, `ioctl`, `close`, to see DMA buffers),
remembers every live allocation with the backtrace of its caller, and writes
what is live, or what was live at the peak, to a file on request. Its state is
shared by all threads of the program and by a signal handler that may interrupt
any of them; most of what can go wrong is in how their steps interleave. The
backtraces come from a copy of Android's libunwindstack, whose maps, ELF
objects and caches are shared by all threads too. These modules model both,
TLC checks them on small instances, and TLAPS proves for instances of any size
what matters most of the tracker, of the `debug_` functions around it, of the
interposed functions from the process's start, of the unwind loop, of the
handshake between threads, and of the maps they share.

All paths below are relative to the repository root.

## 1. Inventory

| component | state | operations |
|---|---|---|
| **PointerData** (`backtrace/src/PointerData.cpp`) | `pointers_` (mangled pointer to size, backtrace index, type), `key_to_index_`, `frames_` (reference counted), `backtraces_info_`, counters, peaks, `peak_list_`, two mutexes | `Add`, `Remove`, `DumpLiveToFile`, `DumpPeakInfo` |
| **listings** (same file) | none | `GetList`, `GetUniqueList`, totals |
| **debug_ functions** (`backtrace/src/malloc_debug.cpp`) | the rwlock | `malloc free realloc calloc memalign posix_memalign mmap munmap` |
| **disable flag** (`backtrace/src/debug_disable.cpp`) | one flag per thread | `ScopedDisableDebugCalls`, `DebugDisableSet` |
| **dumps** (`malloc_debug.cpp`) | signal handler | `singal_dump_heap`, `checkpoint`, `debug_finalize` |
| **DMA buffers** (`malloc_debug.cpp`, namespace `DMA_BUF`) | `inode_set`, `gpu_ioctl_alloc` per thread | `debug_ioctl`, `debug_close`, `debug_mmap64`, `debug_mmap` of a descriptor |
| **interposition** (`src/alloc_hook.cpp`) | `m_sys_*`, `allocHook_setup`, `in_preinit_phase`, the static hook | the C symbols |
| **Config, DebugData** | options and limits, constant after start | `Init` from the environment |
| **Unwind** (`backtrace/src/UnwindBacktrace.cpp`) | none | one unwind for each `Add` |
| **Unwinder, Regs** (`unwindstack/`) | registers, frames, last error | the loop of `Unwind`, signal frames, pc adjustment |
| **AndroidUnwinder, ThreadUnwinder, ThreadEntry** | once-flag, entries with reference count, mutex and wait value, the signal's action | unwinds of the own and of another thread |
| **Maps, MapInfo, Global** | the list of maps and its rwlock, links between maps, one `Elf` for each with a mutex | `Find`, `Reparse`, `GetElf`, the search for a variable |
| **Elf, ElfInterface, Symbols** | headers, sections, symbol caches | `Step`, names, build id, load bias |
| **ArmExidx** | none | the exception table's opcodes |
| **DwarfSection, DwarfCfa, DwarfOp, DwarfMemory** | caches of FDEs, CIEs and rows | `Step` |

How they interact. A C function goes to its `debug_` function, which, unless
the thread's disable flag is up, takes the rwlock for reading, raises the flag
(so that allocations the library makes itself are not tracked), calls the
system allocator and the tracker, and undoes both. `Add` unwinds the stack
without any mutex, interns the backtrace under `frame_mutex_`, then enters the
pointer under `pointer_mutex_`; `Remove` goes the other way. Dumps hold both
mutexes. At exit `debug_finalize` takes the rwlock for writing and keeps it.
An unwind finds the map of a pc (and reparses the maps when there is none),
the `Elf` of the map (made by the first thread that needs it), and asks it to
step: through `.debug_frame`, `.eh_frame` or the ARM exception table.

What is hard: an index into `frames_` is carried on a thread's stack between
two critical sections; addresses and descriptors are reused the moment they are
given back; the signal handler runs the allocation path on top of itself;
`debug_finalize` races with threads that do not know that the process is
exiting; system calls fail between two updates of the tracker; the first calls
of several threads race for the construction of the hook; maps are reparsed
while others use them; signals arrive after whoever sent them gave up; caches
outlive the calls that filled them. `PROJECT.json` lists each of these hazards
with its line and the properties that watch it.

What makes the parts correct: the tracker keeps every backtrace as long as a
pointer needs it and no longer, its counters never wrap, its dumps show one
moment; the `debug_` functions keep it in step with the allocator and the
kernel; flag and lock nest; an exit gets exclusive use of the library and
completes; an unwind ends, shows the true callers as far as unwind information
goes, and says when it did not get to the end.

## 2. Modules

| module | what it is |
|---|---|
| `PointerList` | `GetList`, `GetUniqueList` (sort and merge) and the totals, as pure operators |
| `PointerData` | the tracker as a state machine; its properties; the refinement mapping to `AllocTracker` |
| `AllocTracker` | abstract: one map changed by one atomic step per `Add` and `Remove`, and reports that stay true while they are written |
| `MallocDebug` | EXTENDS `PointerData`: the `debug_` functions, rwlock, disable flag, signal handler, exit, and an allocator that may fail |
| `Config` | `ParseValue` and `Config::Init` on an environment |
| `AllocHook` | EXTENDS `Config`: the interposed functions, start-up, and the `debug_` functions of dma-bufs and GPU memory, over the abstract tracker |
| `Regs`, `Unwinder` | what the loop needs of the registers of six architectures; the loop |
| `ThreadUnwinder` | `AndroidUnwinder`, `ThreadUnwinder` and `ThreadEntry` |
| `Maps` | `LocalUpdatableMaps`, `MapInfo::GetElf`, `Global::FindAndReadVariable` |
| `ArmExidx`, `Symbols`, `ElfInterface` | the exception table and the symbol table as operators; an ELF file and the calls on it |
| `DwarfMemory`, `DwarfOp`, `DwarfCfa`, `DwarfSection` | encoded values, the expression machine and the call frame machine as operators on their states; the section with its caches |
| `PointerData_proofs` | theorems about `PointerData` |
| `MallocDebug_proofs` | EXTENDS it: the tracker's theorems inside the library; rwlock and disable flag; the tracker and the system allocator |
| `Sums_proofs` | lemmas on sums over finite sets |
| `Tracker_proofs` | the counters and reference counts against what is tracked; `PointerData` and `MallocDebug` implement `AllocTracker` |
| `AllocHook_proofs` | start-up, owners and entries of `AllocHook` |
| `Unwinder_proofs` | the loop's guess and its last error |
| `ThreadUnwinder_proofs` | theorems about `ThreadUnwinder` |
| `Maps_proofs` | the list of maps during and between its reparses, the search in it, where the `Elf` objects of maps start, which maps share one |
| `MC...` | instances for TLC, and the properties that speak of the instance's own truth (the functions a section was assembled from, the call chain of a thread) |

Names of state follow the source (`pointers_`, `frames_`, `inode_set`,
`entries_`, `lock_`). `PROJECT.json` maps each definition to the lines it stands
for. An operator named `X_Something` and marked `\* mutant` just before `X` is
`X` with a plausible bug; TLC finds the named property violated when it takes
X's place.

### PointerData

One `Caller` is a thread or a handler on top of one; `pc` says where it is in
its call. Taking a mutex is a step, the section up to the next lock or unlock
is another. So `Add` is `CallAdd`; the outcome of the unwind (`UnwindOk`,
`NoBacktrace`, `UnwindExit`); lock, `AddBacktrace`; lock, `AddPointer`; and at a
new peak worth recording lock and `RecordPeakList`, `pointer_mutex_` still held.
`Remove` is `CallRemove`; lock, `RemoveUntracked` or `RemovePointer`; lock,
`RemoveBacktrace`. A dump takes both mutexes, `CollectList` makes the list and
`PrintList` stands for the time it takes to write.

Abstractions. A backtrace is a model value with a depth. A `FrameInfoType*` is
its index: `frames_` is a node-based map, so pointers to entries are equal
exactly when indices are. `alloc_time`, which only orders the lines of a live
dump, is left out, as is the text; a live dump is a set of entries. `RealSize` keeps
its width: it cuts sizes off at `PointerMaxSize + 1`, the model's 2^31. Options
and limits of `Config` are CONSTANTS.

### MallocDebug

A caller is `<<t, "main">>` or `<<t, "sig">>`; while the handler of `t` runs,
its main code stands still. `at` is the location in the `debug_` function
(`rdlock`, `disable`, `body`, `system`, `enable`, `unlock`, and the locations of
`debug_finalize`), `call` the function, its arguments and result. `heap` is the
system allocator (external): a new block takes any free address, so reuse
happens at once; a call in `FailOps` may fail. The allocator's own calls are
atomic and a signal does not strike inside them. The rwlock is external and as
bionic has it: a thread that has it for writing gets EDEADLK from `rdlock`, and
its `unlock` gives up the write lock; with `PREFER_WRITER` a pending writer
holds readers back. `ScopedConcurrentLock::Init` asks for that kind for API
level 23 and above only; below, the attribute is used uninitialised, and the kind
is any (`InitialKind`). `src/build_android.sh` builds for 21, which is
`ANDROID_API` in the runs that have a writer. The handler's `StringPrintf` allocates the file name through the
hooked `malloc` (directly when the thread is inside the library) and frees it.
Calls of a thread whose flag is up go straight to the system and are modelled
where the library makes them, in the handler. The program is well behaved: it
frees and reallocates what it has, once. Addresses are small numbers; 0 is null
and `UINTPTR_MAX` is `MAP_FAILED`.

### AllocHook and Config

From the process's start: `preinit` until the constructor with priority 201,
`setup` while the hook is constructed, `hook` for the guard of the function
static. A call goes `hook` (RESOLVE and the two tests), then either `direct` to
the system or `inst` (construct, or wait for whoever does), `body`, `sys`,
`track`, `insert`. The tracker is a plain map here, which `TrackerSpec` of
`md_heap` justifies; the read lock, which does not exclude these calls from one
another, is left to `MallocDebug`. Descriptors are numbers the kernel gives out again, each
with the inode of its dma-buf, or with none; inode numbers come back when the
last descriptor is closed. `inode_set` is written without a mutex: when two threads
were at it together, whichever of them ends first, any elements may be missing
from the set afterwards and an insertion may report anything (`overlapped`);
that the container itself may break is not modelled. Driver calls and mappings
may fail; a `DMA_HEAP_IOCTL_ALLOC` that fails leaves in its argument the number
that the program left there, 0 or a descriptor that it holds and does not close
meanwhile. That the program's initialisation calls `malloc`
and `free` before anything else is the assumption of the comment at
`src/alloc_hook.cpp:86`, and it is needed: `ResolvedBeforeUse` rests on it.
`CallsAssumption` says which arguments each function takes; `free(NULL)` is
among them, in the proofs though not in the run, whose states it would multiply
by ten.
`Config` keeps widths, scaled: `size_t` wraps at `SIZE_MAX + 1`, a megabyte is `MB`.

### Unwinder and Regs

A world is a stopped thread with its true call chain; `Unwind` is one action per
stage of the loop's body. `Elf::Step` with the unwind information of the right
function leads to the next activation, with none it fails, with the wrong one
it fails or goes astray (`Astray`). The loop does not know which happened; the
history fields `sure`, `guessed` and `why` do, for the properties. After a
signal's frame the Elf may still hold the error of its last failed `Step`, since
`StepIfSignalHandler` clears nothing (`LastErrors`). An unwind starts without a
dex pc; registers of an activation of the interpreter bring one. A row of an
`S`-augmented CIE makes its frame a signal frame, whose pc is put back to the exact
one, also when the registers of the row could not be read afterwards.

### ThreadUnwinder

Every lock, wait, wake, and system call of requester and handler is a step;
targets run, exit, and take signals late or never. Waits may time out at any
time; with `SlowThreads = FALSE` a wait whose wake is on its way, by a thread
that is running, does not (the timeouts are seconds, the work is not). With
`TRUE`, `PausedForUnwind` fails: the handler gives up while the unwind goes on.

`lagging` is a history variable: the targets that ever had two signals
unanswered when a request for them timed out. `PausedForUnwind` makes an
exception of them, because the proof attempt showed that it must, and TLC then
found the case with four requests. Two signals of earlier requests are late
and arrive while another request has the entry but has not yet locked it. The
`Wake` of the first handler makes `wait_value_` 1, and as nobody answers it
gives up; the `Wake` of the second makes it 2, which that handler takes for the
end of an unwind. Now the requester locks the entry, sets the value to 0 and
sends its signal; the second handler's last `Wake` makes it 1, the requester
takes that for a context and unwinds, and the thread runs on, although the comment
at `ThreadUnwinder.cpp:65-66` says it pauses until the unwind is complete.

### Maps

Regions are in pages, files have the sizes of the ELFs found in them, an `Elf`
is where it starts and whether it is valid. A lookup takes the steps `Find`,
`ReparseParse`, `ReparseMatch`, `ReparseFinish`, then those of `GetElf` with one
step per mutex. A `MapInfo` lives as long as the list or a thread has it; links
are weak. `ReparseMatch` is one turn of `Reparse`'s outer loop: the inner one
stops at the first old object that matches or starts above (`StopsAt`), having
dropped those before it. The sort at the end is `ByAddress`: no two objects that
are left start at the same place, so the order is the only one. That layouts are in address
order without overlap (`LayoutAssumption`) is how the kernel writes
`/proc/self/maps`. The search for a variable looks into maps of the libraries it
was given only (`SearchLibs`), and goes on when the descriptor it found there
cannot be read.

### ElfInterface, ArmExidx, Symbols

An ELF is a record of headers and tables of which a prefix can be read. Most
calls are one action, as `Elf`'s lock makes them; stepping through the
exception table takes one for each opcode. Registers and addresses wrap at
`2^WordBits` and `U64`, the size of a symbol at `SizeMod`, the 2^32 of
`Symbols::Info`; no symbol of the instance is that large.

### DwarfSection, DwarfCfa, DwarfOp, DwarfMemory

`DwarfCfa` and `DwarfOp` are operators from a machine's state to its next one,
their tables as in the code; `DwarfSection` drives them one instruction at a
time. Sections are bytes: `MCDwarf` assembles them from functions whose rows are
written down beside their instructions, in the 32-bit and 64-bit formats, with and
without augmentation, so that the reader is checked against something it did
not compute. The widths of 2-, 4- and 8-byte values are scaled to `W2`, `W4` and
`W8` bytes.

## 3. Runs

Passing runs:

| run | instance | shows |
|---|---|---|
| `pd_tracker` | 2 callers, 2 pointers, 2 backtraces, host and dma, failed unwinds, exit functions, peaks recorded | `FramesPresent`, `ReferencesCover`: backtraces live as long as needed; `CountersCover`; `PeakListFresh` |
| `md_heap` | 2 threads, malloc, calloc, realloc, free, mmap, munmap, 2 addresses, checkpoints, an exit without dump at API level 21; calloc and opening the file may fail | `NoPhantom`, `LiveTracked`, `ExactAccounting`; `FinalizeExclusive`, whatever the kind of the rwlock; `TrackerSpec`: the library implements `AllocTracker` |
| `md_signal` | 2 threads, the signal anywhere outside the tracker, sizes up to and above the limit, malloc may fail, peaks recorded, fairness; no writer, so that the rwlock's kind and the API level do not matter | `ScopesNest`, `FailuresContained`, `OperationsReturn` |
| `hook_dma` | 2 threads from the process's start, 2 addresses, 2 descriptors, 2 inodes, 5 calls, fairness | `ResolvedBeforeUse`, `HooksReturn`: start-up is safe; `EntriesExist`, `FirstBufsTracked`, `OneMappingPerRequest`: the tracker and the kernel agree |
| `uw_threads` | 2 requesters, 1 target, 2 entries, 4 requests, every failure, fairness | `EntryAlive`, `PausedForUnwind`, `NeverDefault`, `RequestsReturn` |
| `uw_maps` | 2 threads, 3 lookups, 1 change of mappings among 3 layouts (a library in two places, hidden behind an empty map, a JIT region, a file inside an archive, a device) | `ListIsParse`, `OffsetsLeadToElf`, `OneElf`, `LookupsReturn` |
| `uw_unwind` | chains of up to 2 functions of 17 kinds under `main`, 6 architectures, 2 frame limits | `CallersRight`, `NoGuessLeft`, `ErrorTells`; `Terminates`: the loop ends unless it turns for ever in a skipped library |
| `uw_dwarf` | 3 formats with 3 functions, sections cut at every byte, illegal instructions, every op code on every small stack, loops; 2 calls | `RowIsDeclared`, `EveryFunctionFound`, `RegistersOfCaller`, `StackDiscipline`, `StepReturns` |
| `uw_elf` | ARM files with every form of prologue, and others with damaged tables, sections and notes; 3 calls | `CallerRestored`, `NamesRight`, `FramesUsed`, `MemoryAgrees` |

Runs that show where the code and what is said of it disagree (one property
each, quoted in `PROJECT.json` under findings):

| run | violated | because |
|---|---|---|
| `md_exit_dump` | `FinalizeExclusive` | the dump nested in `debug_finalize` unlocks the write lock |
| `md_exit_waits` | `ExitCompletes` | built for API level 21 the rwlock need not prefer writers, and two readers that take turns keep `debug_finalize` waiting for ever |
| `uw_maps_in_use` | `MapsInUseStay` | the search for a variable walks the list without its lock while a lookup reparses it |

The passing properties also have limits that are the code's, each shown by
changing one value of a passing run:

- `md_heap` with `FailOps = {"malloc"}`: `NoPhantom` fails, a failed `malloc` or
  `mmap` is added as an entry for null or `MAP_FAILED` (`malloc_debug.cpp:132`).
- `md_heap` with `FailOps = {"realloc"}`: `NoPhantom` fails the same way, and
  `LiveTracked` when checked alone: the block that `realloc` left alone is no
  longer tracked (`malloc_debug.cpp:194-202`).
- `md_heap` with `Size = {1, 2}`: `TrackerSpec` fails, `calloc` does not check
  the limit that `malloc` and `memalign` check (`malloc_debug.cpp:222`) and the
  dump shows a size cut to 31 bits.
- `md_signal` with `SignalsStrikeTracker = TRUE`: `OperationsReturn` fails. The
  handler takes `pointer_mutex_` and `frame_mutex_`, which are not recursive;
  when its own thread holds one, no dump is written and the thread stops,
  whereas `README.md:172` offers `kill -33` at any time.
- `md_exit_waits` with `ANDROID_API = 23`: `ExitCompletes` holds; the pending
  writer holds new readers back.
- `uw_unwind` without the exception in `Terminates`: it fails. Unwind information that
  leads round two frames of a library to be skipped adds no frame, so neither the
  limit nor the test for a repeated frame (`Unwinder.cpp:308-312`) ends the loop.
- `uw_dwarf` with `F1(<< >>)` for `F1(<<0>>)`: `RowIsDeclared` fails. `restore_state` brings back `pc_start`
  with the row (`DwarfCfa.cpp:406`); as the very last instruction nothing sets it
  again, and the row is cached for program counters before it, although
  `DwarfLocation.h:46` calls it the range where the locations are valid.
  Usually a `nop` for alignment follows.
- `uw_unwind` with errors of other threads (`OtherErrors`): `ErrorTells` fails,
  `GetLastError` takes the lock anew (`Unwinder.cpp:257`).

Observations that no run states: `GetUniqueList` merges neighbours only and
leaves duplicates when backtraces alternate (`PointerData.cpp:223`); a checkpoint
takes the list of the peak away from the dump at exit (`PointerData.cpp:242`);
the entry of a dma-buf goes with the first descriptor although a dup of it
keeps the buffer (`malloc_debug.cpp:375`); the dump signal, 33, is also the one
`ThreadUnwinder` would install its handler for; the handler's reference to its
`ThreadEntry` is never dropped (`ThreadUnwinder.cpp:57`); `Reparse` does not
compare offsets (`Maps.cpp:186`); an unwind that finds a failed initialization
gets no error (`AndroidUnwinder.cpp:78`); the result of `debug_initialize` is
ignored (`alloc_hook.cpp:40`); the size of a note's description is compared with
a difference that can wrap (`ElfInterface.cpp:244`).

Bounds. `MaxUsed` and `MaxIndex` stop new calls, never calls under way, once
the counters or the indices given out reach them; in `MallocDebug`
`WithinBounds` also leaves an address for every call under way, and `MaxSignals`
bounds signals. `MaxCalls`, `MaxRequests`, `MaxMoves` and `MaxRemaps` bound what
the program does; `MaxIterations` stands for the 1000 of `DwarfOp`. They are
large enough for what the properties are about: a backtrace shared by two
pointers and freed and interned again under a new index, an address or a
descriptor reused while its old entry is on its way out, an `Add` over an entry
that was not removed, a second peak above the first, a signal in each location,
a second request while the signal of the first is under way, a reparse in each
step of a lookup, a second step through a section whose caches are warm.
Callers and threads are interchangeable: symmetry is used where no liveness is
checked.

Deadlock is checked for the tracker, for sections, and where the program can
always dump. `CHECK_DEADLOCK FALSE` is set where the system may really stop: the
process has exited, the unwind is done, or the program has used up its calls.

In the `MallocDebug` runs unwinds give frames or fail. An unwind that ends in one
of the exit functions makes `Add` return without recording anything, by design
(`PointerData.cpp:54`); `pd_tracker` has it.

Fairness. `MDFairness` and its counterparts in `AllocHook` and `ThreadUnwinder`
are weak fairness of each thread's steps inside the library: a running thread
goes on when it can; in `Maps` that some thread does. `DwarfSection` and
`Unwinder` are one thread's call: it runs. (`Runs` of `DwarfSection` says
so without ENABLED, which is costly to evaluate there.) Nothing makes a thread win a mutex or the rwlock against others, because neither
`std::mutex` nor the rwlock promises that; `OperationsReturn` therefore says
what happens once no more calls come in. `MDWokenSpec` adds strong fairness of
taking the write lock, so that `ExitCompletes` is not refuted by a writer that a
free lock passes by again and again, but only by readers that never leave the lock
free. Delivery of signals is not fair.

## 4. Proofs

All theorems hold for any threads, addresses, sizes, backtraces, options and
bounds that the named assumptions of `PointerData`, `MallocDebug`, `Unwinder`,
`ThreadUnwinder`, `AllocHook` and `Maps` allow: finitely many callers, numbers where
numbers are meant, the names for nobody and nothing apart from the others, and
room in the size limit for the name of a dump (`NameAssumption`); in `AllocHook`
addresses and descriptors are different numbers, as they share the tracker's
keys, and calls have the arguments of their functions (`CallsAssumption`).
`Unwinder` is for any maps, code, stack and call chain; it assumes that no
interpreter's frame, which alone has a dex pc, is in a map to be skipped
(`DexAssumption`: the hook's own library is no interpreter). `Maps` is for any
files and any sequences of regions that are not empty, ascend and do not overlap.
`Spec` is the tracker called by anybody; `MDSpec` the tracker inside the library.

| theorem | states | hypothesis |
|---|---|---|
| **`PointerData_proofs`** | | |
| `Invariance`, `Typing` | `Spec => []IInv`, `[]TypeOK` | |
| `FramesAlwaysPresent` | `Spec => []FramesPresent`: the unchecked `find()` of `GetList` always finds | |
| `ReferencesSuffice`, `OneIndexPerBacktrace` | `Spec => []ReferencesCover`, `[]Interned` | |
| `PeaksAlwaysBound` | `Spec => []PeaksBound` | |
| `ReportsStayCurrent` | `Spec => []ReportCurrent` | |
| `PeakListOfPeak` | action property: `peak_list_` only ever becomes the listing of a state at its peak, or empty | |
| **`MallocDebug_proofs`** | | |
| `TrackerInLibrary` | all state invariants above under `MDSpec` | |
| `ScopesInvariant`, `ScopesAlwaysNest` | `MDSpec => []ScopeInv`, `[]ScopesNest` | `NoDumpAtExit`, `[]FinalizerNotStruck` |
| `FinalizeAlwaysExclusive` | `MDSpec => []FinalizeExclusive` | `NoDumpAtExit`, `[]FinalizerNotStruck` |
| `OwnInvariant` | `MDSpec => []OwnInv` | |
| `FailuresAlwaysContained` | `MDSpec => []FailuresContained` | |
| `NeverPhantom` | `MDSpec => []NoPhantom` | `AllocationsSucceed` |
| `AlwaysLiveTracked` | `MDSpec => []LiveTracked` | `EveryAddRecords` |
| **`Tracker_proofs`** | | |
| `CountersAlwaysCover` | `Spec => []CountersCover`, `MDSpec => []CountersCover` | |
| `AccountingExact` | `MDSpec => []ExactAccounting` | `AllocationsSucceed` |
| `TrackerImplements` | `Spec => TrackerSpec` | `SizesFit` |
| `LibraryImplements` | `MDSpec => TrackerSpec` | `SizesFit` |
| **`Unwinder_proofs`** | | |
| `UnwindInvariant`, `NoGuessIsLeft` | `Spec => []UnwindInv`, `[]NoGuessLeft` | |
| `ErrorInvariant`, `ErrorsTell` | `Spec => [](UnwindInv /\ ErrorInv)`, `[]ErrorTells` | `OtherErrors = {}` |
| **`ThreadUnwinder_proofs`** | | |
| `UseInvariant`, `EntriesLive`, `SignalsHarmless` | `Spec => []UseInv`, `[]EntryAlive`, `[]NeverDefault` | |
| `UnwoundThreadsStand` | `Spec => []PausedForUnwind` | `SlowThreads = FALSE` |
| **`AllocHook_proofs`** | | |
| `HookInvariant` | `Spec => []HookInv` | |
| `StartUpResolves` | `Spec => []ResolvedBeforeUse` | |
| `EntriesAlwaysExist`, `FirstBufsAlwaysTracked` | `Spec => []EntriesExist`, `[]FirstBufsTracked` | |
| `OneMapping` | `Spec => []OneMappingPerRequest` | |
| **`Maps_proofs`** | | |
| `Typed`, `ListHolds` | `Spec => []TypeOK`, `[]ListInv` | |
| `ListIsParseHolds` | `Spec => []ListIsParse` | |
| `FindFinds` | `Spec => []FindRight`: `Find` answers with the map of the pc, with none only if there is none | |
| `OffsetsLeadToElfHolds` | `Spec => []OffsetsLeadToElf` | |
| `OneElfHolds` | `Spec => []OneElf` | |

The hypotheses are about constants, but for `FinalizerNotStruck`, which is about
the behaviour. They hold in the runs that check the property, and cannot be dropped:
each says what the code needs and does not ensure.

- `NoDumpAtExit`: when the process exits, the options ask for no dump then.
  `md_exit_dump` shows the nested dump unlock the write lock.
- `FinalizerNotStruck`: no dump signal strikes the finalizing thread once it has
  the write lock; the handler's dump would unlock it the same way. A dump signal
  is always configured (`Config.cpp:73`), and the theorems have it: handlers run on
  top of all other threads, and of the finalizing one until it has the lock.
- `AllocationsSucceed`: `malloc`, `realloc` and `mmap` do not fail; a failed
  call is added as an entry for null or `MAP_FAILED`, and the second one over the
  entry of the first. `calloc`, `memalign`, `munmap` and the dump's file may fail.
- `EveryAddRecords`: pointers are tracked, no unwind ends in an exit function,
  which makes `Add` return without an entry, and no `realloc` or `munmap` fails,
  which leaves a block whose entry is gone.
- `SizesFit`: sizes fit in the 31 bits of `PointerInfoType`. `malloc` and
  `memalign` ensure it; `calloc` and `realloc` of null do not.
- `OtherErrors = {}`: no other thread uses the Elf between `Step` and
  `GetLastError`; see section 3.
- `SlowThreads = FALSE`: see `ThreadUnwinder` in section 2.

The arguments.

*Backtraces.* `FramesPresent` is not inductive: when `RemoveBacktrace` frees an
entry, why does no pointer need it? Because `references` is at least the number
of pointers that have the index plus the number of callers that carry it from
one critical section to the other (`ReferencesCover`), so at 1 the caller that
drops the reference is the only user (lemma `LastReference`, from a cardinality
argument over the disjoint sets `Kept` and `Carried`). That in turn needs that
every carried index is present (`UsersPresent`), that new indices are unused
(`IndicesBelow`), that `key_to_index_` leads to the entry that is counted
(`Interned`), and that a caller about to intern has frames (`TracesTaken`).
`IInv` is their conjunction. It needs no mutexes, as each section is one step;
`ReportCurrent` needs them (`Exclusion`). `PeakListOfPeak` needs that between
`AddPointer` and `RecordPeakList` nobody moves the counters (`AtPeak`), although
the caller waits for `frame_mutex_` meanwhile.

*From the tracker to the library.* The lemmas about the tracker's steps are
stated of `AnyNext`, a step of any caller with any argument. A step of
`MallocDebug` is one of these, or leaves the tracker alone; so what they
preserve is preserved under `MDSpec`, where the arguments include the results of
failed calls, and callers the signal handlers.

*Lock and flag.* `ScopeInv` says for each caller's place which lock and flag it
has: readers are counted by the callers between `rdlock` and `unlock` (a
cardinality), the flag of a thread is up when its code or the handler on top
of it is inside, and a handler saves what it found. Both scopes together are
needed: whether the handler tracks depends on the flag it interrupts.

*The heap.* `OwnInv` gives every block one owner: the program, one call, or one
handler's file name; and ties what the tracker is told to the block that the
caller has at that moment. That a late `Remove` hits no new block follows from
order: `Remove` comes before the system's `free`, so the address is still the
caller's. `NoPhantom` and `LiveTracked` add the two directions (`OnlyBlocks`,
`KeptTracked`).

*Accounting.* `ExactBytes` and `ExactRefs` are equalities, so every step must
account for what it adds and removes. They need that `Add` never finds an entry
at its address (`NewEntries`, from `OwnInv`), and that an index is carried only
between two sections (`CarriedBetween`). The sums are folds over a set whose
order `CHOOSE` decides. The library's induction theorems cannot be used for
them, but a property of the sets of each size is a set of natural numbers, and
`Sums_proofs` does the induction on that set, from its least element (`LeastNat`).
It gives that a sum is a natural number, depends only on the sizes, and changes
by the size of one entry when that goes.

*Refinement.* `AddPointer` is `Track`, `RemovePointer` is `Untrack`,
`CollectList` is `OpenReport`, `PrintList` is `CloseReport`; all other steps
leave the abstract state alone. Three of these are not obvious. `Track` and
`Untrack` are allowed only while nobody prints: `Exclusion`. Interning and
freeing a backtrace changes what an index means, but not what the entries show:
an index that goes has no entry (`LastReference`), and a new one was not in use.
And a report shows what is live because no size is cut (`KnownSizes`,
`CallSizes`).

*Threads.* `UseInv`: an entry's count is at least the number of requesters that
have it, and greater while a handler has it too, since the handler's own
reference is never dropped; while a requester may put back the old action it
has `action_mutex`. `HandshakeInv`: how many signals are in flight bounds
`wait_value_` (`SignalsFew`), and the value says where the handler stands
(`ValueTells`). It is not inductive for a target with two late signals; that is
how the exception `lagging` was found.

*The unwind.* That a failed guess leaves at most one frame to remove needs that
the turn after a guess adds no dex frame before its real one. It does not,
because a step that failed left the registers alone, and their dex pc was shown
and cleared (`DexOnce`), or the frame was skipped; this is where `DexAssumption`
is needed. `GuessAdds` compares the number of frames with that before the guess.
`ErrorSays` follows the last error through the turn: it is set whenever there is
no map, whenever no step was possible outside device memory, and when the limit
is reached; and a guess starts with the error of the turn before, which only an
Elf can replace.

*Start-up.* `OneConstructs`: the thread that takes the guard of the static is the
only one between `construct` and `lowered`, the flag is up for a part of that
time only, and until it is done nobody is inside a `debug_` function and nothing
is tracked. `ResolvesEnough`: past RESOLVE a call has what its own name needs;
what other names need (`realloc` of null, `is_dma_buf`) follows because before the
end of the initialisation only `malloc`, `free` and `mmap` are called, of which
`mmap` does not get past the test of `in_preinit_phase`.

*What the hooks hold.* `OneOwner` gives what exists, addresses and descriptors
alike, one owner: the program, or the call it was passed to or that made it.
`CallHas` says what a call at each place has left of it; `free`, `realloc`,
`munmap` and `close` hold what they have already taken out of the tracker, so the
system's turn makes no entry stale. The lost and wrong insertions into
`inode_set` cost nothing here: an entry is added only for the descriptor the
call still holds. A call that went straight to the system holds nothing
tracked, because while the flag is up nothing is, and because the only calls
that bypass the hook during the initialisation are mappings; `munmap`, which
could hit an entry, is not among its calls.

*The list of maps.* Between two reparses `ListInv` says of `maps_` that it is a
`Chain` for the layout parsed last, object by object and link by link, and that
every region that was there before kept its object (`StillThere`). In the middle
of one, which the write lock gives to a single thread, the list is half emptied
and the links lead from old objects to new ones and back. What holds
then is that there is a list `K`, the one the reparse would end with if it found no
further old object, that is already a `Chain` (`Matching`): matching puts the old
object in the new one's place in `K`, and the links are exactly what the three
assignments of `Relink` make them. Nothing is dropped that would match later,
because old ones and layout both ascend (`OldOnes`, `FoundOrPending`); and the
`weak_ptr`s of the new object still lock, because all of `K` is in the list.

*The binary search* is a recursive function on intervals of the list. That it is
defined and finds the map in every interval that has it goes by the interval's
width, as the least width of a counterexample cannot be one (`LeastNat`).

*Where an `Elf` starts.* `OffsetsLeadToElf` speaks of settled maps only, but another
thread copies an `Elf` with its offset in `ShareElf`; so `ElfInv` has `Leads` for all maps,
also for one whose mutex is held, and for each thread on its way through
`GetElf` what it may rely on when it gets there (`Sought`): the mutex is its
own, the map has no `Elf` yet and `elf_offset` 0, and the previous map it walked
to has the same name. `elf_start` of a map without an `Elf` is 0 (`Fresh`), which the
way through offset 0 leaves as it is. For an `Elf` read from memory all this
holds until the first change of the mappings (`Mapped`).

*One Elf for a pair of maps.* A code map and the read-only map before it can be
opened at once by two threads; `GetElf` ends by giving its `Elf` to the other map,
or by taking the one that is there. `OneElf` says this for pairs with nothing
but blank maps between them, and until the program first changes its mappings:
a code map that is opened while it has no such neighbour keeps its `Elf`, and a
read-only map that is mapped later opens the file again, so there are then two
objects for one ELF (TLC finds this with a layout in which the neighbour comes
late). Until then a Reparse can still happen at any time. The invariant (`OneInv`)
has three parts. `Steady`: the object of the kernel's k-th region is the k-th, its
`prev` is `k - 1` and it stays in the list, in the middle of a Reparse too, which
links an object it has found again to the neighbour it had; this uses `ListInv`.
`Walking`: a thread in `GetPrevRealMap` has passed only blank maps, so when it
arrives, at the map of that name or at none, there is no other pair. `Paired`: a
code map that has left `GetElf` with a valid `Elf` has a neighbour whose mutex was
free then and which has an `Elf`, the same one if it starts in the same place. No
later step parts them: only a map without an `Elf` takes its mutex to open one.

All inductive invariants were checked by TLC on the runs' instances before they
were proved.

Only model-checked: liveness (`OperationsReturn`, `RequestsReturn`, ...), which the provers cannot express; that the two totals of the
sorted and merged peak list add up to the sum over the table (`PeakListFresh`
says it, `PeakListOfPeak` has the rest); `CallersRight`, which
counts the frames of the true call chain along the stack; and the ELF and DWARF
decoders, whose properties compare what they compute with tables
written down in the instance. The induction that `Sums_proofs` and the binary search
do over a number would, for the decoders, have to go over all byte strings.

## 5. Plan

1. Done: the tracker, the `debug_` functions, start-up, DMA buffers,
   configuration; of unwindstack the loop, the handshake between threads, the
   maps, ELF files, exception tables and DWARF; proofs of the tracker, the
   library around it, start-up and DMA buffers, the unwind loop, the handshake,
   the list of maps, the offsets of their `Elf` objects and which maps share one.
2. Proofs: `CallersRight` of `Unwinder`, with the induction along the stack that
   `Sums_proofs` does over a number.
3. The lists of JIT and dex files with their seqlock, and the cached reads of
   `MemoryCache`.

## 6. Not modelled

The wording and layout of dumps, logging, demangling. In unwindstack what the
library never reaches or what only reads: the Elf cache (never enabled), maps
of other processes, from files and buffers, `Maps::Add` and `Sort`, `MapInfo`'s
next-map walk, load bias and build id of a map (each a compare-and-swap of a value
any thread computes alike), remote and ranged memory readers, `GetFdes` and the
`Log` functions. The lists of JIT and dex files (`GlobalDebugImpl`, `JitDebug`,
`DexFiles`), which ART writes: `Maps` has the search for them and the lock around
it. android-base, bionic, the kernel interface headers, the OpenCL stub, the
test programs and scripts. A program that frees what it does not have is out of
scope, as is a signal inside the system allocator.
