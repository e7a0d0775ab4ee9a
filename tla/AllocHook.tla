----------------------------- MODULE AllocHook ------------------------------
(***************************************************************************)
(* The C functions the library interposes, from a program's call down to   *)
(* the system: the lazy lookup of the system's functions (RESOLVE), the    *)
(* construction of the one AllocHook by whichever thread comes first, and  *)
(* the debug_ functions, those of dma-bufs and GPU memory in full.  The    *)
(* tracker is the map PointerData promises (AllocTracker); the read lock   *)
(* that every debug_ function shares is left to MallocDebug.               *)
(***************************************************************************)
EXTENDS Config, FiniteSets, Functions

CONSTANTS
  Thread, Addr, Fd, Inode,
  SizeOf(_),   \* the size of the dma-buf with that inode number
  Envs,        \* environments the process may start in
  Calls,       \* the calls the program may make: records [fn, ...]
  MaxCalls     \* bound: calls of the program

ASSUME BoundAssumption == IsFiniteSet(Thread) /\ MaxCalls \in Nat
ASSUME NameAssumption  == Addr \cup Fd \subseteq Nat \ {0} /\ Addr \cap Fd = {}
ASSUME EnvAssumption ==
  \A e \in Envs : {e.min, e.peak} \subseteq Int \cup {Unset, NotANumber}

VARIABLES
  resolved,    \* the m_sys_ pointers that are set
  preinit,     \* in_preinit_phase
  setup,       \* InitState::allocHook_setup
  hook,        \* AllocHook::inst()'s static: its guard
  env, config, \* the environment; g_debug and its Config, or NoDebug
  inode_set, gpu_ioctl_alloc,
  overlapped,  \* history: the threads whose insertion into inode_set another's ran into
  tracked,     \* PointerData: key -> type, size
  at, call,    \* where each thread is, and in which call
  fds, maps, blocks,   \* the system: fd -> inode, address -> what is mapped, heap
  mine,        \* what the program has and may pass on
  requests, grants,    \* GPU allocations each thread asked for; DMA mappings added
  owed,        \* fds whose dma-buf was the first of its inode number
  calls

startVars == << resolved, preinit, setup, hook, env, config >>
dmaVars   == << inode_set, overlapped, gpu_ioctl_alloc, requests, grants, owed >>
sysVars   == << fds, maps, blocks, mine >>
vars      == << startVars, dmaVars, tracked, at, call, sysVars, calls >>

NoDebug    == [options |-> {}]
NoFile     == 0            \* a file that is no dma-buf
NULL       == 0
MAP_FAILED == -2           \* (void* )-1, no address
NoCall     == [fn |-> "none"]

Heap   == {"malloc", "calloc", "memalign", "posix_memalign"}
MapFns == {"mmap", "munmap", "mmap64"}

Init ==
  /\ resolved = {} /\ preinit = TRUE /\ setup = FALSE
  /\ hook = "none"
  /\ env \in Envs /\ config = NoDebug
  /\ inode_set = {} /\ overlapped = {} /\ gpu_ioctl_alloc = [t \in Thread |-> FALSE]
  /\ tracked = << >>
  /\ at = [t \in Thread |-> "program"] /\ call = [t \in Thread |-> NoCall]
  /\ fds = << >> /\ maps = << >> /\ blocks = {} /\ mine = {}
  /\ requests = [t \in Thread |-> 0] /\ grants = [t \in Thread |-> 0]
  /\ owed = {} /\ calls = 0

Go(t, l) == at' = [at EXCEPT ![t] = l]
Put(f, k, v)  == [x \in DOMAIN f \cup {k} |-> IF x = k THEN v ELSE f[x]]
Drop(f, k)    == Restrict(f, DOMAIN f \ {k})

----------------------------------------------------------------------------
(* The program.  It passes on what it has, and hands it over for the time  *)
(* of the call.  Its initialisation makes calls of malloc and free.        *)
Arguments(c) ==
  CASE c.fn = "munmap"                  -> c.ptr \in mine
    [] c.fn \in {"free", "realloc"}     -> c.ptr \in mine \cup {NULL}
    [] c.fn = "close"                   -> c.fd \in mine
    [] c.fn = "ioctl"                   -> /\ c.request = "CAM_MEM_ION_MAP_PA" => c.fd \in mine
                                           /\ c.request = "DMA_HEAP_IOCTL_ALLOC" => c.fd \in mine \cup {0}
    [] c.fn \in {"mmap", "mmap64"}      -> c.fd \in mine \cup {-1}
    [] OTHER                            -> TRUE

Passed(c) == {c[x] : x \in DOMAIN c \cap {"ptr", "fd"}}

(* What the C functions are passed.  DMA_HEAP_IOCTL_ALLOC's argument has a *)
(* place for the new fd, in which the program left 0 or an fd it has.      *)
PassesPtr(c) == c.fn \in {"free", "munmap", "realloc"}
PassesFd(c)  == \/ c.fn \in {"mmap", "mmap64", "close"}
                \/ c.fn = "ioctl" /\ c.request \in {"CAM_MEM_ION_MAP_PA", "DMA_HEAP_IOCTL_ALLOC"}

IsCall(c) ==
  /\ {"fn"} \cup (IF c.fn = "ioctl" THEN {"request"} ELSE {}) \subseteq DOMAIN c
  /\ "ptr" \in DOMAIN c <=> PassesPtr(c)
  /\ "fd" \in DOMAIN c <=> PassesFd(c)
  /\ PassesPtr(c) => c.ptr \in Addr \cup {NULL}
  /\ c.fn = "munmap" => c.ptr # NULL
  /\ PassesFd(c) => c.fd \in Fd \cup {-1, 0}
  /\ c.fn = "ioctl" /\ PassesFd(c) => c.fd # -1
  /\ c.fn = "close" => c.fd \in Fd

ASSUME CallsAssumption ==
  \A c \in Calls :
    IsCall(c) /\ c.fn \in Heap \cup MapFns \cup {"free", "realloc", "ioctl", "close"}

(* The bound on addresses leaves one for every call under way.             *)
MayAllocate(c) == c.fn \in Heap \cup {"realloc", "mmap", "mmap64"}
FreeAddr       == Addr \ (blocks \cup DOMAIN maps)
RoomForAll     == Cardinality(FreeAddr) > Cardinality({s \in Thread : MayAllocate(call[s])})

ProgramCall(t) ==
  /\ at[t] = "program" /\ calls < MaxCalls
  /\ \E c \in Calls :
       /\ Arguments(c) /\ (MayAllocate(c) => RoomForAll)
       /\ preinit => c.fn \in {"malloc", "free", "mmap"}
       /\ c.fn = "munmap" => c.ptr \in DOMAIN maps
       /\ c.fn \in {"free", "realloc"} => c.ptr \in blocks \cup {NULL}
       /\ call' = [call EXCEPT ![t] = c]
       /\ mine' = mine \ Passed(c)
       /\ owed' = IF c.fn = "close" THEN owed \ {c.fd} ELSE owed
  /\ Go(t, "hook") /\ calls' = calls + 1
  /\ UNCHANGED << startVars, inode_set, overlapped, gpu_ioctl_alloc, requests, grants, tracked, fds, maps, blocks >>

MarkInitDone ==
  /\ preinit /\ {"malloc", "free"} \subseteq resolved
  /\ preinit' = FALSE
  /\ UNCHANGED << resolved, setup, hook, env, config, dmaVars, tracked, at, call, sysVars, calls >>

(* open and dup are not interposed: another file, or another fd for the    *)
(* same dma-buf.                                                           *)
FreeFds == Fd \ DOMAIN fds

ProgramOpens ==
  /\ calls < MaxCalls /\ calls' = calls + 1
  /\ \E fd \in FreeFds, i \in {NoFile} \cup {fds[g] : g \in mine \cap DOMAIN fds} :
       fds' = Put(fds, fd, i) /\ mine' = mine \cup {fd}
  /\ UNCHANGED << startVars, dmaVars, tracked, at, call, maps, blocks >>
----------------------------------------------------------------------------
(* The interposed functions: RESOLVE, and the choice between the system    *)
(* and the hook.                                                           *)
Resolves_OnlyItself(fn) == IF fn \in Heap \cup {"free", "realloc"} THEN {fn} ELSE {}  \* mutant

Resolves(fn) ==
  CASE fn = "posix_memalign" -> {"memalign", "posix_memalign"}
    [] fn \in {"malloc", "calloc", "memalign", "free", "realloc"} -> {fn}
    [] OTHER -> {}

ChecksSetup(fn) == fn \in {"malloc", "free", "calloc", "realloc"} \cup MapFns

Hook(t) ==
  /\ at[t] = "hook"
  /\ resolved' = resolved \cup Resolves(call[t].fn)
  /\ Go(t, IF ChecksSetup(call[t].fn) /\ (setup \/ (preinit /\ call[t].fn \in MapFns))
           THEN "direct" ELSE "inst")
  /\ UNCHANGED << preinit, setup, hook, env, config, dmaVars, tracked, call, sysVars, calls >>

(* AllocHook::inst(): one thread constructs, the others wait for it.       *)
Inst(t) ==
  /\ at[t] = "inst"
  /\ \/ hook = "none" /\ hook' = "running" /\ Go(t, "construct")
     \/ hook = "done" /\ UNCHANGED hook /\ Go(t, "body")
  /\ UNCHANGED << resolved, preinit, setup, env, config, dmaVars, tracked, call, sysVars, calls >>

RaiseSetup_Not == UNCHANGED setup   \* mutant: InitState does not raise the flag

RaiseSetup == setup' = TRUE

(* AllocHook::AllocHook: debug_initialize under InitState.                 *)
Construct(t) ==
  /\ at[t] = "construct" /\ RaiseSetup /\ Go(t, "initialize")
  /\ UNCHANGED << resolved, preinit, hook, env, config, dmaVars, tracked, call, sysVars, calls >>

(* debug_initialize.  What it may allocate (printf's buffer) comes back to *)
(* the hooks: straight to the system while the flag is up, else to inst(), *)
(* which waits for this very thread.                                       *)
DebugInitialize(t) ==
  /\ at[t] = "initialize" /\ setup
  /\ resolved' \in {resolved, resolved \cup {"malloc"}}
  /\ config' = ConfigInit(env)
  /\ Go(t, "constructed")
  /\ UNCHANGED << preinit, setup, hook, env, dmaVars, tracked, call, sysVars, calls >>

Constructed_GuardFirst(t) ==  \* mutant
  \/ /\ at[t] = "constructed" /\ hook' = "done" /\ Go(t, "lowered")
     /\ UNCHANGED << resolved, preinit, setup, env, config, dmaVars, tracked, call, sysVars, calls >>
  \/ /\ at[t] = "lowered" /\ setup' = FALSE /\ Go(t, "body")
     /\ UNCHANGED << resolved, preinit, hook, env, config, dmaVars, tracked, call, sysVars, calls >>

(* The flag comes down first, then the guard lets the others in.           *)
Constructed(t) ==
  \/ /\ at[t] = "constructed" /\ setup' = FALSE /\ Go(t, "lowered")
     /\ UNCHANGED << resolved, preinit, hook, env, config, dmaVars, tracked, call, sysVars, calls >>
  \/ /\ at[t] = "lowered" /\ hook' = "done" /\ Go(t, "body")
     /\ UNCHANGED << resolved, preinit, setup, env, config, dmaVars, tracked, call, sysVars, calls >>
----------------------------------------------------------------------------
(* The system, for a call c: what changes, and what the call returns.      *)
SysHeap(c, r) ==
  \/ /\ c.fn \in Heap \/ (c.fn = "realloc" /\ c.ptr = NULL)
     /\ r \in FreeAddr /\ blocks' = blocks \cup {r}
  \/ /\ c.fn = "free" \/ (c.fn = "realloc" /\ c.ptr # NULL /\ c.size = 0)
     /\ r = NULL /\ blocks' = blocks \ {c.ptr}
  \/ /\ c.fn = "realloc" /\ c.ptr # NULL /\ c.size # 0
     /\ r \in FreeAddr \cup {c.ptr} /\ blocks' = (blocks \ {c.ptr}) \cup {r}

(* A munmap of a part, or one that fails, leaves the address mapped.       *)
SysMap(c, r) ==
  \/ /\ c.fn \in {"mmap", "mmap64"}
     /\ \/ r \in FreeAddr /\ maps' = Put(maps, r, c.fd)
        \/ r = MAP_FAILED /\ UNCHANGED maps
  \/ /\ c.fn = "munmap"
     /\ \/ r = NULL /\ maps' = Drop(maps, c.ptr)
        \/ r = c.ptr /\ UNCHANGED maps

(* A driver call may fail; DMA_HEAP_IOCTL_ALLOC gives a new dma-buf and an *)
(* fd for it in its argument, or leaves there what the program left.  An   *)
(* inode number may come back once its dma-buf is gone.                    *)
SysFd(c, r) ==
  \/ /\ c.fn = "ioctl" /\ c.request = "DMA_HEAP_IOCTL_ALLOC"
     /\ \/ \E i \in Inode \ Range(fds) : r \in FreeFds /\ fds' = Put(fds, r, i)
        \/ r = c.fd /\ UNCHANGED fds
  \/ c.fn = "ioctl" /\ c.request # "DMA_HEAP_IOCTL_ALLOC" /\ r = NULL /\ UNCHANGED fds
  \/ c.fn = "close" /\ r = NULL /\ fds' = Drop(fds, c.fd)

System(c, r) ==
  \/ SysHeap(c, r) /\ UNCHANGED << fds, maps >>
  \/ SysMap(c, r) /\ UNCHANGED << fds, blocks >>
  \/ SysFd(c, r) /\ UNCHANGED << maps, blocks >>

Results == Addr \cup Fd \cup {NULL, MAP_FAILED, -1}

(* What the program has after the call: the result, and an fd it lent.     *)
Gets(c, r) ==
  ({r} \cap (Addr \cup Fd)) \cup (IF c.fn \in {"ioctl", "mmap", "mmap64"} THEN Passed(c) \cap Fd ELSE {})

Returns(t, c, r) ==
  /\ Go(t, "program") /\ call' = [call EXCEPT ![t] = NoCall]
  /\ mine' = mine \cup Gets(c, r)

Direct(t) ==
  /\ at[t] = "direct"
  /\ \E r \in Results : System(call[t], r) /\ Returns(t, call[t], r)
  /\ UNCHANGED << startVars, dmaVars, tracked, calls >>
----------------------------------------------------------------------------
(* The debug_ functions.  free, realloc, munmap and close first take their *)
(* pointer or fd out of the tracker.                                       *)
Removing(c) == c.fn \in {"free", "realloc", "munmap", "close"}

DebugRemove_ClosesFirst(t) ==  \* mutant: close removes the entry after the system call
  \/ /\ at[t] = "body" /\ call[t].fn = "close" /\ fds' = Drop(fds, call[t].fd) /\ Go(t, "closed")
     /\ UNCHANGED << startVars, dmaVars, tracked, call, maps, blocks, mine, calls >>
  \/ /\ at[t] = "closed" /\ tracked' = Drop(tracked, call[t].fd) /\ Returns(t, call[t], NULL)
     /\ UNCHANGED << startVars, dmaVars, fds, maps, blocks, calls >>
  \/ /\ at[t] = "body" /\ Removing(call[t]) /\ call[t].fn # "close"
     /\ tracked' = Drop(tracked, call[t].ptr) /\ Go(t, "sys")
     /\ UNCHANGED << startVars, dmaVars, call, sysVars, calls >>

DebugRemove(t) ==
  /\ at[t] = "body" /\ Removing(call[t])
  /\ tracked' = Restrict(tracked, DOMAIN tracked \ Passed(call[t]))
  /\ Go(t, "sys")
  /\ UNCHANGED << startVars, dmaVars, call, sysVars, calls >>

(* Then the system's turn.                                                 *)
IsGpuAlloc(c) == c.fn = "ioctl" /\ c.request \in
                   {"KBASE_IOCTL_MEM_ALLOC", "KBASE_IOCTL_MEM_ALLOC_EX", "IOCTL_KGSL_GPUOBJ_ALLOC"}

DebugSys(t) ==
  /\ at[t] = "sys" \/ (at[t] = "body" /\ ~ Removing(call[t]))
  /\ \E r \in Results :
       /\ System(call[t], r)
       /\ call' = [call EXCEPT ![t] = Put(@, "r", r)]
  /\ Go(t, "track")
  /\ UNCHANGED << startVars, dmaVars, tracked, mine, calls >>

(* And the tracker's.  Which fd to ask fdinfo about, if any.               *)
AsksAbout(c) ==
  CASE c.fn = "ioctl" /\ c.request = "DMA_HEAP_IOCTL_ALLOC" -> {c.r}
    [] c.fn = "ioctl" /\ c.request = "CAM_MEM_ION_MAP_PA"   -> {c.fd}
    [] c.fn = "mmap" /\ c.fd >= 0 -> {c.fd}
    [] OTHER -> {}

Tracks(k, type, n) == tracked' = Put(tracked, k, [type |-> type, size |-> n])

(* mmap64 after a GPU allocation.                                          *)
Mmap64Adds_KeepsFlag(t) ==  \* mutant: the flag stays up
  /\ Tracks(call[t].r, "DMA", call[t].size) /\ UNCHANGED gpu_ioctl_alloc

Mmap64Adds(t) ==
  /\ gpu_ioctl_alloc' = [gpu_ioctl_alloc EXCEPT ![t] = FALSE]
  /\ Tracks(call[t].r, "DMA", call[t].size)

DebugTrack(t) ==
  LET c    == call[t]
      done == Returns(t, c, c.r)
  IN
  /\ at[t] = "track" /\ AsksAbout(c) = {}
  /\ \/ /\ IsGpuAlloc(c) /\ done
        /\ gpu_ioctl_alloc' = [gpu_ioctl_alloc EXCEPT ![t] = TRUE]
        /\ requests' = [requests EXCEPT ![t] = @ + 1]
        /\ UNCHANGED << tracked, grants >>
     \/ /\ c.fn = "mmap64" /\ gpu_ioctl_alloc[t] /\ done
        /\ Mmap64Adds(t)
        /\ grants' = [grants EXCEPT ![t] = @ + 1] /\ UNCHANGED requests
     \/ /\ c.fn \in Heap \cup {"realloc"} /\ c.r # NULL /\ done
        /\ Tracks(c.r, "HOST", c.size)
        /\ UNCHANGED << gpu_ioctl_alloc, requests, grants >>
     \/ /\ c.fn = "mmap" /\ done /\ Tracks(c.r, "MMAP", c.size)
        /\ UNCHANGED << gpu_ioctl_alloc, requests, grants >>
     \/ /\ ~ IsGpuAlloc(c) /\ c.fn \notin Heap \cup {"mmap"}
        /\ c.fn = "realloc" => c.r = NULL
        /\ c.fn = "mmap64" => ~ gpu_ioctl_alloc[t]
        /\ done /\ UNCHANGED << tracked, gpu_ioctl_alloc, requests, grants >>
  /\ UNCHANGED << startVars, inode_set, overlapped, owed, fds, maps, blocks, calls >>

(* is_dma_buf: fdinfo says whether the file is a dma-buf, its inode number *)
(* (or else stat does) and its size.                                       *)
IsDmaBufRead(t) ==
  LET fd == CHOOSE g \in AsksAbout(call[t]) : TRUE
      is == fd \in DOMAIN fds /\ fds[fd] # NoFile
  IN
  /\ at[t] = "track" /\ AsksAbout(call[t]) # {}
  /\ \/ is /\ Go(t, "insert") /\ UNCHANGED mine
        /\ call' = [call EXCEPT ![t] = Put(Put(@, "inode", fds[fd]), "dma", fd)]
     \/ ~ is /\ Returns(t, call[t], call[t].r)
  /\ UNCHANGED << startVars, dmaVars, tracked, fds, maps, blocks, calls >>

(* inode_set.insert(inode).second.  Only read locks protect the set: of    *)
(* two threads that insert at once either may lose its element or another, *)
(* and be told anything, the one that ends last as well as the first.      *)
IsDmaBufInsert(t) ==
  LET c      == call[t]
      others == {s \in Thread \ {t} : at[s] = "insert"}
      raced  == t \in overlapped \/ others # {}
      all    == inode_set \cup {c.inode}
  IN
  /\ at[t] = "insert"
  /\ overlapped' = (overlapped \cup others) \ {t}
  /\ inode_set' \in IF raced THEN SUBSET all ELSE {all}
  /\ \E fresh \in IF raced THEN BOOLEAN ELSE {c.inode \notin inode_set} :
       /\ IF fresh THEN Tracks(c.dma, "DMA", SizeOf(c.inode)) ELSE UNCHANGED tracked
       /\ owed' = IF fresh /\ ~ raced THEN owed \cup {c.dma} ELSE owed
  /\ Returns(t, c, c.r)
  /\ UNCHANGED << startVars, gpu_ioctl_alloc, requests, grants, fds, maps, blocks, calls >>
----------------------------------------------------------------------------
ThreadStep(t) ==
  \/ Hook(t) \/ Inst(t) \/ Construct(t) \/ DebugInitialize(t) \/ Constructed(t)
  \/ Direct(t) \/ DebugRemove(t) \/ DebugSys(t) \/ DebugTrack(t)
  \/ IsDmaBufRead(t) \/ IsDmaBufInsert(t)

Next ==
  \/ \E t \in Thread : ProgramCall(t) \/ ThreadStep(t)
  \/ ProgramOpens \/ MarkInitDone

(* A thread inside the library runs.                                       *)
Spec == Init /\ [][Next]_vars /\ \A t \in Thread : WF_vars(ThreadStep(t))
----------------------------------------------------------------------------
(* The m_sys_ functions a thread calls in its next step.                   *)
DebugUses(c) ==
  CASE c.fn = "posix_memalign" -> {"memalign"}
    [] c.fn = "realloc" -> {IF c.ptr = NULL THEN "malloc" ELSE IF c.size = 0 THEN "free" ELSE "realloc"}
    [] c.fn \in {"malloc", "calloc", "memalign", "free"} -> {c.fn}
    [] OTHER -> {}

Uses(t) ==
  CASE at[t] = "direct" -> {call[t].fn} \ MapFns
    [] at[t] \in {"body", "sys"} -> DebugUses(call[t])
    [] at[t] = "track" -> IF AsksAbout(call[t]) = {} THEN {} ELSE {"free"}
    [] OTHER -> {}

(* No m_sys_ pointer is called while it is null, and no debug_ function    *)
(* runs before g_debug is there, whichever call of whichever thread comes  *)
(* first: realloc, posix_memalign and is_dma_buf call functions that their *)
(* own hook did not resolve.                                               *)
ResolvedBeforeUse ==
  \A t \in Thread :
    /\ Uses(t) \subseteq resolved
    /\ at[t] \in {"body", "sys", "track", "insert"} => config # NoDebug

(* Every entry of the tracker stands for something that exists: a block, a *)
(* mapping, or an open fd of a dma-buf with the size it has.  Calls that   *)
(* bypass the tracker during the start-up, fd numbers that another thread  *)
(* gets back, partial and failed munmaps and races on inode_set included.  *)
EntriesExist ==
  \A k \in DOMAIN tracked :
    \/ k = MAP_FAILED
    \/ k \in blocks /\ tracked[k].type = "HOST"
    \/ k \in DOMAIN maps /\ tracked[k].type \in {"MMAP", "DMA"}
    \/ k \in DOMAIN fds /\ fds[k] # NoFile /\ tracked[k] = [type |-> "DMA", size |-> SizeOf(fds[k])]

(* A dma-buf that is the first with its inode number stays tracked until   *)
(* its fd is closed, whatever other threads close meanwhile.               *)
FirstBufsTracked == \A fd \in owed \cap mine : fd \in DOMAIN tracked

(* A mapping counts as GPU memory at most once for each GPU allocation the *)
(* same thread asked for, also when the driver refused or the mapping      *)
(* failed.                                                                 *)
OneMappingPerRequest ==
  \A t \in Thread : grants[t] + (IF gpu_ioctl_alloc[t] THEN 1 ELSE 0) <= requests[t]
----------------------------------------------------------------------------
(* The inductive invariant.  Where threads are, and what calls are.        *)
Constructing == {"construct", "initialize", "constructed", "lowered"}
Inside       == {"body", "sys", "track", "insert"}
Places       == {"program", "hook", "direct", "inst"} \cup Constructing \cup Inside

TypeOK ==
  /\ at \in [Thread -> Places] /\ DOMAIN call = Thread
  /\ \A t \in Thread : IsCall(call[t]) /\ (at[t] = "program" <=> call[t].fn = "none")
  /\ \A t \in Thread : at[t] \in {"track", "insert"} => "r" \in DOMAIN call[t]
  /\ gpu_ioctl_alloc \in [Thread -> BOOLEAN]
  /\ requests \in [Thread -> Nat] /\ grants \in [Thread -> Nat]
  /\ blocks \subseteq Addr /\ DOMAIN maps \subseteq Addr /\ DOMAIN fds \subseteq Fd

(* One thread constructs the hook, and nobody is inside a debug_ function  *)
(* or has anything tracked before it is done.  InitState's flag is up for  *)
(* part of that time only.                                                 *)
OneConstructs ==
  /\ hook \in {"none", "running", "done"}
  /\ \A t \in Thread : at[t] \in Constructing => hook = "running"
  /\ \A t, u \in Thread : at[t] \in Constructing /\ at[u] \in Constructing => t = u
  /\ setup => \E t \in Thread : at[t] \in {"initialize", "constructed"}
  /\ \A t \in Thread : at[t] \in Inside => hook = "done"
  /\ hook = "done" \/ (\E t \in Thread : at[t] \in {"constructed", "lowered"}) => config # NoDebug
  /\ hook # "done" => DOMAIN tracked = {} /\ owed = {}

(* What is resolved, and what bypasses the hook.                           *)
Resolving(t) ==
  /\ at[t] \notin {"program", "hook"} => Resolves(call[t].fn) \subseteq resolved
  /\ preinit => call[t].fn \in {"none", "malloc", "free", "mmap"}
  /\ at[t] = "direct" => ChecksSetup(call[t].fn)
  /\ at[t] \in {"inst"} \cup Constructing \cup Inside /\ call[t].fn \in MapFns => ~ preinit

ResolvesEnough ==
  /\ ~ preinit => {"malloc", "free"} \subseteq resolved
  /\ \A t \in Thread : Resolving(t)

ConfigRead == env \in Envs /\ config \in {NoDebug, ConfigInit(env)}

(* What exists has one owner: the program, or the call it was passed to or *)
(* that has made it.                                                       *)
Exists == blocks \cup DOMAIN maps \cup DOMAIN fds

Owns(t) ==
  IF at[t] \in {"track", "insert"} THEN Gets(call[t], call[t].r) ELSE Passed(call[t]) \cap (Addr \cup Fd)

OneOwner ==
  /\ mine \subseteq Exists
  /\ \A t \in Thread : Owns(t) \subseteq Exists \ mine
  /\ \A t, u \in Thread : t # u => Owns(t) \cap Owns(u) = {}
  /\ blocks \cap DOMAIN maps = {}

CallHas(t) ==
  LET c == call[t] IN
  /\ at[t] \notin {"track", "insert"} =>
       /\ c.fn \in {"free", "realloc"} => c.ptr \in blocks \cup {NULL}
       /\ c.fn = "munmap" => c.ptr \in DOMAIN maps
       /\ c.fn = "close" => c.fd \notin owed
  /\ at[t] \in {"direct", "sys"} /\ Removing(c) => Owns(t) \cap DOMAIN tracked = {}
  /\ at[t] = "track" =>
       /\ c.fn \in Heap \cup {"realloc"} => c.r \in blocks \cup {NULL}
       /\ c.fn \in {"mmap", "mmap64"} => c.r \in DOMAIN maps \cup {MAP_FAILED}
       /\ c.fn = "ioctl" /\ c.request = "DMA_HEAP_IOCTL_ALLOC" => c.r \in Fd \cup {0}
  /\ at[t] = "insert" =>
       /\ c.dma \in Owns(t) \cap DOMAIN fds
       /\ fds[c.dma] = c.inode /\ c.inode # NoFile

OwedTracked == owed \subseteq DOMAIN tracked \cap Fd

OwnInv == OneOwner /\ (\A t \in Thread : CallHas(t)) /\ OwedTracked /\ EntriesExist

HookInv == TypeOK /\ OneConstructs /\ ResolvesEnough /\ ConfigRead /\ OwnInv
=============================================================================
