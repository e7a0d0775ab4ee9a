---------------------------- MODULE MallocDebug ----------------------------
(***************************************************************************)
(* The debug_ functions that stand in for malloc, free, realloc, calloc,   *)
(* memalign, mmap and munmap, the dump of the heap (from a checkpoint, the *)
(* signal handler or the exit), and debug_finalize, on top of PointerData. *)
(*                                                                         *)
(* A caller is a thread's own code, << t, "main" >>, or the dump signal's  *)
(* handler on that thread, << t, "sig" >>: while the handler runs the main *)
(* code stands still wherever the signal struck.                           *)
(***************************************************************************)
EXTENDS PointerData

CONSTANTS
  Thread,
  NoThread,     \* writer of an rwlock nobody has for writing
  ANDROID_API,  \* the API level of the build
  Ops,          \* the calls the program makes
  FailOps,      \* the system calls that may fail
  SignalsStrikeTracker,  \* whether signals strike inside the tracker too
  MaxSignals    \* bound: signals delivered

ASSUME ThreadAssumption == Caller = Thread \X {"main", "sig"} /\ NoThread \notin Thread
ASSUME SignalAssumption == SignalsStrikeTracker \in BOOLEAN /\ MaxSignals \in Nat
ASSUME APIAssumption    == ANDROID_API \in Nat
ASSUME NameAssumption   == "DUMP_ON_SIGNAL" \in Options => \E n \in Size : n <= PointerMaxSize

VARIABLES
  heap,       \* the allocator's blocks and mappings: address -> type, size, direct
  user,       \* the addresses the program has and may pass on
  lock_,      \* ScopedConcurrentLock::lock_
  lock_kind,  \* its kind
  disabled,   \* g_disable_key of each thread
  at,         \* where each caller is in its debug_ function
  call,       \* that function, its arguments and its result
  saved,      \* ScopedDisableDebugCalls::disabled_
  handler,    \* what the signal handler of each thread does next
  temp,       \* the file name it allocated
  signals     \* signals delivered so far

heapVars == << heap, user >>
lockVars == << lock_, lock_kind >>
sigVars  == << handler, temp, signals >>
mdVars   == << heapVars, lockVars, disabled, at, call, saved, sigVars >>
allVars  == << vars, mdVars >>

Tid(c)  == c[1]
Main(t) == << t, "main" >>
Sig(t)  == << t, "sig" >>

NULL       == 0
MAP_FAILED == UINTPTR_MAX
Address    == Pointer \ {NULL, MAP_FAILED}

NoCall == [fn |-> "none", ptr |-> NULL, size |-> 0, result |-> NULL]

TrackPointers == "TRACK_ALLOCS" \in Options

(* Config::Init turns on the dump at exit together with recording peaks.   *)
DumpOnExit == "RECORD_MEMORY_PEAK" \in Options

(* ScopedConcurrentLock::Init.  Below API 23 pthread_rwlockattr_setkind_np *)
(* is compiled out, and pthread_rwlock_init reads an attribute nobody      *)
(* wrote: the rwlock may be of either kind.  The repository builds for 21. *)
InitialKind(kind) ==
  /\ kind \in {"PREFER_READER", "PREFER_WRITER"}
  /\ ANDROID_API >= 23 => kind = "PREFER_WRITER"

(* debug_initialize.                                                       *)
MDInit ==
  /\ Init
  /\ heap = << >> /\ user = {}
  /\ lock_ = [readers |-> 0, writer |-> NoThread, pending |-> {}]
  /\ InitialKind(lock_kind)
  /\ disabled = [t \in Thread |-> FALSE]
  /\ at = [c \in Caller |-> "user"]
  /\ call = [c \in Caller |-> NoCall]
  /\ saved = [c \in Caller |-> FALSE]
  /\ handler = [t \in Thread |-> "none"]
  /\ temp = [t \in Thread |-> NULL]
  /\ signals = 0

----------------------------------------------------------------------------
(* Scheduling: the handler preempts the code it interrupts.                *)
Running(c) == (handler[Tid(c)] = "none") = (c = Main(Tid(c)))

Move(c, l) == at' = [at EXCEPT ![c] = l]

(* A caller's debug_ function starts another part of its work only once    *)
(* the call it made to the tracker has returned.                           *)
Here(c, l) == Running(c) /\ at[c] = l /\ pc[c] = "idle"

(* The tracker's own steps.                                                *)
TrackerStep(c) == Running(c) /\ Step(c) /\ UNCHANGED mdVars

----------------------------------------------------------------------------
(* The rwlock, as bionic implements it.  A thread that has it for writing  *)
(* gets EDEADLK from rdlock, which ScopedConcurrentLock ignores, and its   *)
(* unlock gives up the write lock.                                         *)
MayRead == /\ lock_.writer = NoThread
           /\ lock_kind = "PREFER_WRITER" => lock_.pending = {}

RdLock(c) ==
  /\ Here(c, "rdlock")
  /\ \/ lock_.writer = Tid(c) /\ UNCHANGED lock_
     \/ MayRead /\ lock_' = [lock_ EXCEPT !.readers = @ + 1]
  /\ Move(c, "disable")
  /\ UNCHANGED << vars, heapVars, lock_kind, disabled, call, saved, sigVars >>

Unlocked(t) ==
  IF lock_.writer = t THEN [lock_ EXCEPT !.writer = NoThread]
  ELSE IF lock_.writer = NoThread /\ lock_.readers > 0 THEN [lock_ EXCEPT !.readers = @ - 1]
  ELSE lock_

(* ~ScopedConcurrentLock.                                                  *)
ReleaseLock(t) == lock_' = Unlocked(t)

WrWait(c) ==
  /\ Here(c, "wrlock") /\ Tid(c) \notin lock_.pending
  /\ lock_.readers > 0 \/ lock_.writer # NoThread
  /\ lock_' = [lock_ EXCEPT !.pending = @ \cup {Tid(c)}]
  /\ UNCHANGED << vars, heapVars, lock_kind, disabled, at, call, saved, sigVars >>

(* BlockAllOperations.                                                     *)
WrLock_NoWait(c) ==  \* mutant: readers are not waited for
  /\ Here(c, "wrlock") /\ lock_.writer = NoThread
  /\ lock_' = [lock_ EXCEPT !.writer = Tid(c), !.pending = @ \ {Tid(c)}]
  /\ Move(c, "fin_disable")
  /\ UNCHANGED << vars, heapVars, lock_kind, disabled, call, saved, sigVars >>

WrLock(c) ==
  /\ Here(c, "wrlock")
  /\ lock_.readers = 0 /\ lock_.writer = NoThread
  /\ lock_' = [lock_ EXCEPT !.writer = Tid(c), !.pending = @ \ {Tid(c)}]
  /\ Move(c, "fin_disable")
  /\ UNCHANGED << vars, heapVars, lock_kind, disabled, call, saved, sigVars >>

----------------------------------------------------------------------------
(* ScopedDisableDebugCalls.                                                *)
Disable(c) ==
  /\ Here(c, "disable")
  /\ saved' = [saved EXCEPT ![c] = disabled[Tid(c)]]
  /\ disabled' = [disabled EXCEPT ![Tid(c)] = TRUE]
  /\ Move(c, "body")
  /\ UNCHANGED << vars, heapVars, lockVars, call, sigVars >>

Enable_Always(c) ==  \* mutant: the flag is cleared whatever it was before
  /\ Here(c, "enable") /\ disabled' = [disabled EXCEPT ![Tid(c)] = FALSE]
  /\ saved' = [saved EXCEPT ![c] = FALSE] /\ Move(c, "unlock")
  /\ UNCHANGED << vars, heapVars, lockVars, call, sigVars >>

Enable(c) ==
  /\ Here(c, "enable")
  /\ disabled' = [disabled EXCEPT ![Tid(c)] = saved[c]]
  /\ saved' = [saved EXCEPT ![c] = FALSE]
  /\ Move(c, "unlock")
  /\ UNCHANGED << vars, heapVars, lockVars, call, sigVars >>

----------------------------------------------------------------------------
(* Calls of the program.  It frees and reallocates what it has, once.  The *)
(* bounds leave the tracker an index and room to count, and the allocator  *)
(* an address, for every call under way.                                   *)
(* posix_memalign is memalign behind a check of its alignment.             *)
Allocates == {"malloc", "calloc", "memalign", "mmap"}

Awaiting == { c \in Caller : call[c].fn \in Allocates \cup {"realloc"} /\ call[c].result = NULL }
Naming   == { t \in Thread : handler[t] = "name" }

WithinBounds ==
  /\ cur_hash_index_ + Cardinality(Caller) <= MaxIndex
  /\ \A n \in Size : current_used_ + n * Cardinality(Caller) <= MaxUsed
  /\ Cardinality(Address \ DOMAIN heap) > Cardinality(Awaiting) + Cardinality(Naming)

Enter(c, fn, p, n) ==
  /\ call' = [call EXCEPT ![c] = [fn |-> fn, ptr |-> p, size |-> n, result |-> NULL]]
  /\ Move(c, "rdlock")
  /\ UNCHANGED << vars, heap, lockVars, disabled, saved >>

ProgramAllocates(c) ==
  \E fn \in Ops \cap Allocates, n \in Size :
    WithinBounds /\ Enter(c, fn, NULL, n) /\ UNCHANGED user

ProgramGivesBack(c) ==
  \E fn \in Ops \cap {"free", "munmap"}, p \in user :
    /\ (heap[p].type = "MMAP") = (fn = "munmap")
    /\ Enter(c, fn, p, 0) /\ user' = user \ {p}

ProgramReallocates(c) ==
  /\ "realloc" \in Ops /\ WithinBounds
  /\ \E n \in Size \cup {0} :
       \/ Enter(c, "realloc", NULL, n) /\ UNCHANGED user
       \/ \E p \in user : /\ heap[p].type = "HOST"
                          /\ Enter(c, "realloc", p, n) /\ user' = user \ {p}

ProgramDumps(c) ==
  "checkpoint" \in Ops /\ Enter(c, "dump_heap", NULL, 0) /\ UNCHANGED user

ProgramCall(c) ==
  /\ Here(c, "user") /\ c = Main(Tid(c))
  /\ ~ disabled[Tid(c)]
  /\ \/ ProgramAllocates(c) \/ ProgramGivesBack(c) \/ ProgramReallocates(c) \/ ProgramDumps(c)
  /\ UNCHANGED sigVars

(* The process exits: ~AllocHook on one of its threads.                    *)
ProgramExits(c) ==
  /\ "exit" \in Ops /\ Here(c, "user") /\ c = Main(Tid(c))
  /\ \A d \in Caller : call[d].fn \notin {"finalize", "exit_dump"}
  /\ call' = [call EXCEPT ![c] = [NoCall EXCEPT !.fn = "finalize"]]
  /\ Move(c, "wrlock")
  /\ UNCHANGED << vars, heapVars, lockVars, disabled, saved, sigVars >>

----------------------------------------------------------------------------
(* The system's part: sys_malloc and its kin, mmap and munmap.             *)
NewBlock(p, n, type) ==
  /\ p \in Address \ DOMAIN heap
  /\ heap' = Put(heap, p, [type |-> type, size |-> n, direct |-> FALSE])

TypeOf(fn) == IF fn = "mmap" THEN "MMAP" ELSE "HOST"

(* What the debug_ function does with the result r of the system call: it  *)
(* adds it to the tracker and returns it.                                  *)
Track_MallocOnly(c, r) ==  \* mutant: only malloc adds its result
  /\ call' = [call EXCEPT ![c].result = r] /\ Move(c, "enable")
  /\ IF call[c].fn = "malloc" THEN CallAdd(c, r, call[c].size, "HOST") ELSE UNCHANGED vars

Track(c, r) ==
  /\ call' = [call EXCEPT ![c].result = r]
  /\ Move(c, "enable")
  /\ IF TrackPointers THEN CallAdd(c, r, call[c].size, TypeOf(call[c].fn))
     ELSE UNCHANGED vars

Return(c, r) ==
  /\ call' = [call EXCEPT ![c].result = r]
  /\ Move(c, "enable")
  /\ UNCHANGED << vars, heap >>

(* calloc, and realloc of a null pointer, have no limit on the size.       *)
TooLarge(c) ==
  /\ call[c].size > PointerMaxSize
  /\ \/ call[c].fn \in {"malloc", "memalign", "mmap"}
     \/ call[c].fn = "realloc" /\ call[c].ptr # NULL

(* malloc, calloc, memalign, realloc of null.                              *)
IsNew(c) == call[c].fn \in Allocates \ {"mmap"} \/ (call[c].fn = "realloc" /\ call[c].ptr = NULL)

(* memalign and calloc check the result before they add it; malloc and the *)
(* realloc of null (InternalMalloc) do not.                                *)
AllocBody(c) ==
  /\ Here(c, "body") /\ IsNew(c) /\ ~ TooLarge(c)
  /\ \/ \E p \in Address :
          NewBlock(p, call[c].size, "HOST") /\ Track(c, p)
     \/ /\ call[c].fn \in FailOps /\ call[c].fn \in {"calloc", "memalign"}
        /\ Return(c, NULL)
     \/ /\ call[c].fn \in FailOps /\ call[c].fn \in {"malloc", "realloc"}
        /\ Track(c, NULL) /\ UNCHANGED heap
  /\ UNCHANGED << user, lockVars, disabled, saved, sigVars >>

(* mmap of anonymous memory, fd < 0: the result is added unchecked.        *)
MmapBody(c) ==
  /\ Here(c, "body") /\ call[c].fn = "mmap" /\ ~ TooLarge(c)
  /\ \/ \E p \in Address :
          NewBlock(p, call[c].size, "MMAP") /\ Track(c, p)
     \/ "mmap" \in FailOps /\ Track(c, MAP_FAILED) /\ UNCHANGED heap
  /\ UNCHANGED << user, lockVars, disabled, saved, sigVars >>

TooLargeBody(c) ==
  /\ Here(c, "body") /\ TooLarge(c)
  /\ Return(c, NULL)
  /\ UNCHANGED << user, lockVars, disabled, saved, sigVars >>

(* free, munmap and realloc take the pointer out of the tracker first.     *)
RemoveBody_FreesFirst(c) ==  \* mutant: the memory goes before its entry
  /\ Here(c, "body") /\ call[c].ptr # NULL /\ ~ TooLarge(c)
  /\ CallRemove(c, call[c].ptr) /\ heap' = Erase(heap, call[c].ptr) /\ Move(c, "system")
  /\ UNCHANGED << user, lockVars, disabled, call, saved, sigVars >>

RemoveBody(c) ==
  /\ Here(c, "body") /\ call[c].ptr # NULL /\ ~ TooLarge(c)
  /\ IF TrackPointers THEN CallRemove(c, call[c].ptr) ELSE UNCHANGED vars
  /\ Move(c, "system")
  /\ UNCHANGED << heapVars, lockVars, disabled, call, saved, sigVars >>

(* Then they give it back.  munmap may fail, and leave the mapping.        *)
Frees(c) == call[c].fn \in {"free", "munmap"} \/ (call[c].fn = "realloc" /\ call[c].size = 0)

SystemFree(c) ==
  /\ Here(c, "system") /\ Frees(c)
  /\ \/ heap' = Erase(heap, call[c].ptr) /\ UNCHANGED call
     \/ /\ call[c].fn = "munmap" /\ "munmap" \in FailOps
        /\ call' = [call EXCEPT ![c].result = call[c].ptr]
        /\ UNCHANGED heap
  /\ Move(c, "enable")
  /\ UNCHANGED << vars, user, lockVars, disabled, saved, sigVars >>

(* realloc: the block stays or moves, or nothing changes and the result is *)
(* null, which is added like any other.                                    *)
SystemRealloc(c) ==
  /\ Here(c, "system") /\ call[c].fn = "realloc" /\ ~ Frees(c)
  /\ \/ \E p \in Address \ (DOMAIN heap \ {call[c].ptr}) :
          /\ heap' = Put(Erase(heap, call[c].ptr), p,
                         [type |-> "HOST", size |-> call[c].size, direct |-> FALSE])
          /\ Track(c, p)
     \/ "realloc" \in FailOps /\ Track(c, NULL) /\ UNCHANGED heap
  /\ UNCHANGED << user, lockVars, disabled, saved, sigVars >>

(* debug_dump_heap, once it has the lock; open may fail.                   *)
DumpBody(c) ==
  /\ Here(c, "body") /\ call[c].fn \in {"dump_heap", "exit_dump"}
  /\ \/ CallDump(c)
     \/ "open" \in FailOps /\ UNCHANGED vars
  /\ Move(c, "enable")
  /\ UNCHANGED << heapVars, lockVars, disabled, call, saved, sigVars >>

----------------------------------------------------------------------------
(* The lock is released, and back to the caller.  The program gets the    *)
(* result; after a realloc or munmap that did nothing it still has the old *)
(* pointer.  A handler keeps the result as its file name.                  *)
GivenTo(c) ==
  LET done == call[c]
  IN  IF done.result \in Address THEN {done.result}
      ELSE IF done.fn = "realloc" /\ done.size # 0 THEN {done.ptr} \ {NULL}
      ELSE {}

Unlock(c) ==
  /\ Here(c, "unlock")
  /\ ReleaseLock(Tid(c))
  /\ IF call[c].fn = "exit_dump"
     THEN /\ Move(c, "fin_info") /\ call' = [call EXCEPT ![c].fn = "finalize"]
          /\ UNCHANGED << user, temp >>
     ELSE /\ Move(c, "user") /\ call' = [call EXCEPT ![c] = NoCall]
          /\ IF c = Main(Tid(c))
             THEN user' = user \cup GivenTo(c) /\ UNCHANGED temp
             ELSE temp' = [temp EXCEPT ![Tid(c)] = IF call[c].fn = "malloc" THEN call[c].result ELSE @]
                  /\ UNCHANGED user
  /\ UNCHANGED << vars, heap, lock_kind, disabled, saved, handler, signals >>

----------------------------------------------------------------------------
(* singal_dump_heap: the file name is allocated before the dump and freed  *)
(* after it, through the hooked malloc and free: directly when the thread  *)
(* was inside the library.                                                 *)
Deliver(t) ==
  /\ "DUMP_ON_SIGNAL" \in Options /\ signals < MaxSignals /\ WithinBounds
  /\ handler[t] = "none" /\ at[Main(t)] # "exited"
  /\ SignalsStrikeTracker \/ pc[Main(t)] = "idle"
  /\ handler' = [handler EXCEPT ![t] = IF "BACKTRACE" \in Options THEN "name" ELSE "return"]
  /\ signals' = signals + 1
  /\ UNCHANGED << vars, heapVars, lockVars, disabled, at, call, saved, temp >>

Handle(t, from, to) ==
  /\ Here(Sig(t), "user") /\ handler[t] = from
  /\ handler' = [handler EXCEPT ![t] = to]
  /\ UNCHANGED signals

NameSize == CHOOSE n \in Size : n <= PointerMaxSize

HandlerName(t) ==
  /\ Handle(t, "name", "dump")
  /\ \/ ~ disabled[t] /\ Enter(Sig(t), "malloc", NULL, NameSize) /\ UNCHANGED << user, temp >>
     \/ /\ disabled[t]
        /\ \E p \in Address \ DOMAIN heap :
             /\ heap' = Put(heap, p, [type |-> "HOST", size |-> NameSize, direct |-> TRUE])
             /\ temp' = [temp EXCEPT ![t] = p]
        /\ UNCHANGED << vars, user, lockVars, disabled, at, call, saved >>

HandlerDump(t) ==
  /\ Handle(t, "dump", "release")
  /\ Enter(Sig(t), "dump_heap", NULL, 0) /\ UNCHANGED << user, temp >>

HandlerRelease(t) ==
  /\ Handle(t, "release", "return")
  /\ temp' = [temp EXCEPT ![t] = NULL]
  /\ \/ ~ disabled[t] /\ temp[t] # NULL /\ Enter(Sig(t), "free", temp[t], 0) /\ UNCHANGED user
     \/ /\ disabled[t] \/ temp[t] = NULL
        /\ heap' = Erase(heap, temp[t])
        /\ UNCHANGED << vars, user, lockVars, disabled, at, call, saved >>

HandlerReturn(t) ==
  /\ Handle(t, "return", "none")
  /\ UNCHANGED << vars, heapVars, lockVars, disabled, at, call, saved, temp >>

----------------------------------------------------------------------------
(* debug_finalize.  It keeps the write lock: nothing is released.          *)
FinDisable(c) ==
  /\ Here(c, "fin_disable")
  /\ disabled' = [disabled EXCEPT ![Tid(c)] = TRUE]
  /\ IF "BACKTRACE" \in Options /\ DumpOnExit
     THEN Move(c, "rdlock") /\ call' = [call EXCEPT ![c].fn = "exit_dump"]
     ELSE Move(c, "fin_info") /\ UNCHANGED call
  /\ UNCHANGED << vars, heapVars, lockVars, saved, sigVars >>

FinInfo(c) ==
  /\ Here(c, "fin_info")
  /\ IF TrackPointers THEN CallPeakInfo(c) ELSE UNCHANGED vars
  /\ Move(c, "exited")
  /\ UNCHANGED << heapVars, lockVars, disabled, call, saved, sigVars >>

----------------------------------------------------------------------------
LibraryStep(c) ==
  \/ TrackerStep(c)
  \/ RdLock(c) \/ Disable(c)
  \/ AllocBody(c) \/ MmapBody(c) \/ TooLargeBody(c) \/ RemoveBody(c) \/ SystemFree(c) \/ SystemRealloc(c)
  \/ DumpBody(c)
  \/ Enable(c) \/ Unlock(c)
  \/ WrWait(c) \/ WrLock(c) \/ FinDisable(c) \/ FinInfo(c)

HandlerStep(t) == HandlerName(t) \/ HandlerDump(t) \/ HandlerRelease(t) \/ HandlerReturn(t)

Arrival == \/ \E c \in Caller : ProgramCall(c) \/ ProgramExits(c)
           \/ \E t \in Thread : Deliver(t)

MDNext ==
  \/ Arrival
  \/ \E c \in Caller : LibraryStep(c)
  \/ \E t \in Thread : HandlerStep(t)

MDSpec == MDInit /\ [][MDNext]_allVars

(* A thread inside the library, or in the handler, is running.             *)
MDFairness ==
  /\ \A c \in Caller : WF_allVars(LibraryStep(c))
  /\ \A t \in Thread : WF_allVars(HandlerStep(t))

MDFairSpec == MDSpec /\ MDFairness

(* And a thread that waits for the write lock is woken in time whenever    *)
(* the lock is free: what keeps it waiting then is the readers alone.      *)
MDWokenSpec == MDFairSpec /\ \A c \in Caller : SF_allVars(WrLock(c))

----------------------------------------------------------------------------
(* What is tracked exists: an entry is made after the system gave the      *)
(* memory and goes before the system takes it back, so a dump never shows  *)
(* memory that was freed, or freed and given to somebody else meanwhile.   *)
NoPhantom ==
  \A k \in DOMAIN pointers_ :
    LET p == DemanglePointer(k)
    IN  /\ p \in DOMAIN heap
        /\ pointers_[k].size = heap[p].size /\ pointers_[k].mem_type = heap[p].type

(* Failed system calls do no further harm: the tracker adds their null or  *)
(* MAP_FAILED result, and loses a block that realloc or munmap left alone, *)
(* but what it says of any real address stays true.                        *)
FailuresContained ==
  \A k \in DOMAIN pointers_ :
    LET p == DemanglePointer(k)
    IN  \/ p \in {NULL, MAP_FAILED}
        \/ p \in DOMAIN heap /\ pointers_[k].size = heap[p].size

(* What the program has is tracked: an address that was freed and given    *)
(* out again by another thread is not taken out of the tracker by the free *)
(* that is still under way.                                                *)
LiveTracked ==
  \A p \in user : ~ heap[p].direct => ManglePointer(p) \in DOMAIN pointers_

(* The counters are the sums of what is tracked, to the byte, and every    *)
(* reference on a backtrace has its pointer or its caller: nothing leaks   *)
(* from the tracker.                                                       *)
ExactAccounting ==
  /\ current_host_ = TrackedBytes("HOST") /\ current_dma_ = TrackedBytes("DMA")
  /\ \A h \in DOMAIN frames_ :
       frames_[h].references = Cardinality(Kept(h)) + Cardinality(Carried(h))

(* The locations between rdlock and unlock.                                *)
InLock == {"disable", "body", "system", "enable", "unlock"}

(* The scopes nest, also where a signal handler runs on top of a debug_    *)
(* function: a thread's flag is up whenever its code, or its handler, is   *)
(* inside the tracker, so that allocations made there do not come back to  *)
(* it, and down again whenever the thread is in its own code; and the lock *)
(* has as many readers as there are callers between rdlock and unlock.     *)
ScopesNest ==
  /\ \A c \in Caller : pc[c] # "idle" => disabled[Tid(c)]
  /\ \A t \in Thread : at[Main(t)] = "user" /\ at[Sig(t)] = "user" => ~ disabled[t]
  /\ lock_.readers = Cardinality({ c \in Caller : at[c] \in InLock })

(* Once debug_finalize has the lock no other thread is, or gets, inside a  *)
(* debug_ function.                                                        *)
Finalizing(t) ==
  /\ call[Main(t)].fn \in {"finalize", "exit_dump"}
  /\ at[Main(t)] # "wrlock"

FinalizeExclusive ==
  \A t \in Thread : Finalizing(t) =>
    \A c \in Caller : Tid(c) # t => at[c] \notin InLock /\ pc[c] = "idle"

(* Once no more calls and signals come in, everyone is back in his own     *)
(* code.                                                                   *)
OperationsReturn ==
  \/ []<>(\A c \in Caller : at[c] = "user")
  \/ []<><< Arrival >>_allVars

(* debug_finalize gets the lock and completes, even when other threads     *)
(* never stop calling: "when a write lock is pending, read locks are no    *)
(* longer granted".                                                        *)
ExitCompletes ==
  \A t \in Thread : at[Main(t)] = "wrlock" ~> at[Main(t)] = "exited" /\ pc[Main(t)] = "idle"

----------------------------------------------------------------------------
(* Why the properties above hold: the invariants they are proved from.     *)

Functions == Allocates \cup {"none", "realloc", "free", "munmap", "dump_heap", "exit_dump", "finalize"}
Places    == InLock \cup {"user", "rdlock", "wrlock", "fin_disable", "fin_info", "exited"}
CallType  == { k \in [fn : Functions, ptr : Address \cup {NULL}, size : Nat,
                      result : Address \cup {NULL, MAP_FAILED}] :
               k.fn = "malloc" => k.result \in Address \cup {NULL} }
BlockType == [type : {"HOST", "MMAP"}, size : Nat, direct : BOOLEAN]

MDTypeOK ==
  /\ DOMAIN heap \subseteq Address /\ heap \in [DOMAIN heap -> BlockType]
  /\ user \subseteq Address
  /\ lock_ \in [readers : Nat, writer : Thread \cup {NoThread}, pending : SUBSET Thread]
  /\ disabled \in [Thread -> BOOLEAN] /\ saved \in [Caller -> BOOLEAN]
  /\ at \in [Caller -> Places] /\ call \in [Caller -> CallType]
  /\ handler \in [Thread -> {"none", "name", "dump", "release", "return"}]
  /\ "DUMP_ON_SIGNAL" \in Options \/ \A t \in Thread : handler[t] = "none"
  /\ temp \in [Thread -> Address \cup {NULL}]

(* Where a caller can be while the tracker works for it, and a handler     *)
(* that has not been started is nowhere.                                   *)
TrackerCalled ==
  /\ \A c \in Caller : pc[c] # "idle" => at[c] \in {"system", "enable", "exited"}
  /\ \A t \in Thread : handler[t] = "none" => at[Sig(t)] = "user"

Final == {"fin_disable", "fin_info", "exited"}

(* Nothing in debug_finalize gives up its write lock: it dumps nothing     *)
(* itself, and no dump signal strikes the finalizing thread once it has    *)
(* the lock.  Signals to all other threads go on as before.                *)
NoDumpAtExit == "exit" \in Ops => ~ ("BACKTRACE" \in Options /\ DumpOnExit)

FinalizerNotStruck == \A t \in Thread : at[Main(t)] \in Final => handler[t] = "none"

(* The write lock is the finalizing thread's from the moment it has it.    *)
LockHeld ==
  /\ lock_.readers = Cardinality({ c \in Caller : at[c] \in InLock })
  /\ lock_.writer # NoThread => lock_.readers = 0
  /\ \A c \in Caller : at[c] \in Final => lock_.writer = Tid(c)
  /\ \A c \in Caller : at[c] \in Final \cup {"wrlock"} =>
       "exit" \in Ops /\ c = Main(Tid(c))
  /\ \A t \in Thread : lock_.writer = t => at[Main(t)] \in Final
  /\ \A c \in Caller : call[c].fn \in {"finalize", "exit_dump"} => at[c] \in Final \cup {"wrlock"}

(* A thread's flag is up for its code or for the handler on top of it, and *)
(* each of the two scopes puts back what it found.                         *)
Up == {"body", "system", "enable"}

FlagsUp ==
  \A t \in Thread :
    /\ disabled[t] <=> (at[Main(t)] \in Up \cup {"fin_info", "exited"} \/ at[Sig(t)] \in Up)
    /\ at[Main(t)] \in Up => ~ saved[Main(t)]
    /\ at[Sig(t)] \in Up => (saved[Sig(t)] <=> at[Main(t)] \in Up)

ScopeInv == TrackerCalled /\ LockHeld /\ FlagsUp

(* Every block has one owner: the program, the call that has or hands out  *)
(* the block, or a handler.  A call has its argument until it has given    *)
(* the block back, or again when the system call left the block alone.     *)
Keeps(c) ==
  \/ at[c] \notin {"enable", "unlock"}
  \/ call[c].fn = "realloc" /\ call[c].size # 0

Has(c) == { p \in Address : \/ p = call[c].result
                            \/ p = call[c].ptr /\ call[c].result \notin Address /\ Keeps(c) }

Owned ==
  /\ user \subseteq DOMAIN heap
  /\ \A p \in user : ~ heap[p].direct
  /\ \A c \in Caller : \A p \in Has(c) : p \in DOMAIN heap \ user /\ ~ heap[p].direct
  /\ \A c, d \in Caller : c # d => Has(c) \cap Has(d) = {}
  /\ \A t \in Thread : temp[t] # NULL =>
       /\ temp[t] \in DOMAIN heap \ user
       /\ \A c \in Caller : temp[t] \notin Has(c)
       /\ \A u \in Thread : u # t => temp[u] # temp[t]

(* What a call knows at each place.                                        *)
CallGoesOn(c) ==
  /\ at[c] = "user" => call[c] = NoCall
  /\ at[c] \in {"wrlock", "fin_disable"} => c = Main(Tid(c))
  /\ at[c] \in {"wrlock"} \cup Final => call[c].ptr = NULL
  /\ at[c] = "system" => call[c].ptr # NULL
  /\ call[c].ptr # NULL => call[c].fn \in {"free", "munmap", "realloc"}
  /\ at[c] \notin {"enable", "unlock"} => call[c].result = NULL
  /\ call[c].result # NULL => call[c].fn \in Allocates \cup {"realloc", "munmap"}

CallsGoOn == \A c \in Caller : CallGoesOn(c)

(* The handler's file name was allocated, and will be freed, with the flag *)
(* as it was when the signal struck: the code below it stands still.       *)
Flag(t) == IF at[Sig(t)] \in Up THEN saved[Sig(t)] ELSE disabled[t]

NamesMatch ==
  \A t \in Thread :
    /\ handler[t] \in {"none", "name", "return"} => temp[t] = NULL
    /\ temp[t] # NULL => (heap[temp[t]].direct <=> Flag(t))
    /\ call[Sig(t)].fn = "malloc" => handler[t] = "dump" /\ ~ Flag(t)

(* A block is in the tracker between the end of Add and the start of       *)
(* Remove: Add is told of a block the caller has, and a caller gives back  *)
(* no block that is tracked.                                               *)
Adding   == {"backtrace", "bt_lock", "bt_held", "add_lock", "add_held"}
Removing == {"rm_lock", "rm_held"}

Matches(p, size, type) == p \in DOMAIN heap /\ heap[p].size = size /\ heap[p].type = type

CallTracks(c) ==
  /\ pc[c] \in Adding =>
       /\ at[c] = "enable" /\ arg[c].ptr = call[c].result
       /\ arg[c].ptr \in Address => Matches(arg[c].ptr, arg[c].size, arg[c].type)
  /\ pc[c] \in Removing => at[c] = "system" /\ arg[c].ptr = call[c].ptr
  /\ at[c] = "system" /\ pc[c] \notin Removing => ManglePointer(call[c].ptr) \notin DOMAIN pointers_
  /\ pc[c] \in Adding \cup Removing => TrackPointers

EntryMatches(k) ==
  LET p == DemanglePointer(k)
  IN  \/ p \in {NULL, MAP_FAILED}
      \/ /\ p \in Address /\ ~ heap[p].direct
         /\ Matches(p, pointers_[k].size, pointers_[k].mem_type)

TracksOwned ==
  /\ \A c \in Caller : CallTracks(c)
  /\ \A k \in DOMAIN pointers_ : EntryMatches(k) /\ TrackPointers

OwnInv == TrackerCalled /\ Owned /\ CallsGoOn /\ NamesMatch /\ TracksOwned

(* Nothing but blocks is added when the allocating system calls succeed.   *)
AllocationsSucceed == FailOps \cap {"malloc", "realloc", "mmap"} = {}

OnlyBlocks ==
  /\ \A c \in Caller : pc[c] \in Adding => arg[c].ptr \in Address
  /\ \A k \in DOMAIN pointers_ : DemanglePointer(k) \in Address

(* Every Add makes its entry, and a block that was taken out is given      *)
(* back.                                                                   *)
EveryAddRecords ==
  /\ TrackPointers /\ "exit" \notin UnwindResults
  /\ FailOps \cap {"realloc", "munmap"} = {}

Settled(c) == IF at[c] = "system" \/ pc[c] \in Adding THEN {} ELSE Has(c)

KeptTracked ==
  /\ \A p \in user : ManglePointer(p) \in DOMAIN pointers_
  /\ \A c \in Caller : /\ \A p \in Settled(c) : ManglePointer(p) \in DOMAIN pointers_
                       /\ pc[c] \in Adding => Has(c) \subseteq {arg[c].ptr}
  /\ \A t \in Thread : temp[t] # NULL /\ ~ heap[temp[t]].direct =>
       ManglePointer(temp[t]) \in DOMAIN pointers_

(* Add is never told of an address that has an entry.                      *)
NewEntries ==
  \A c \in Caller : pc[c] \in Adding => ManglePointer(arg[c].ptr) \notin DOMAIN pointers_
============================================================================
