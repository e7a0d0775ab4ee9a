------------------------ MODULE MallocDebug_proofs ------------------------
(***************************************************************************)
(* Proofs about MallocDebug: the tracker's invariants hold inside the      *)
(* library, the scopes of the lock and of the disable flag nest, and every *)
(* block has one owner, so that the tracker's entries are of blocks that   *)
(* exist and the program's blocks are in the tracker.                      *)
(***************************************************************************)
EXTENDS MallocDebug, PointerData_proofs

----------------------------------------------------------------------------
(* Callers and threads.                                                    *)
LEMMA CallerOf ==
  ASSUME NEW t \in Thread
  PROVE  /\ Main(t) \in Caller /\ Sig(t) \in Caller /\ Main(t) # Sig(t)
         /\ Tid(Main(t)) = t /\ Tid(Sig(t)) = t
BY ThreadAssumption DEF Main, Sig, Tid

LEMMA ThreadOf ==
  ASSUME NEW c \in Caller
  PROVE  /\ Tid(c) \in Thread
         /\ c = Main(Tid(c)) \/ c = Sig(Tid(c))
         /\ \A t \in Thread : (c = Main(t) => Tid(c) = t) /\ (c = Sig(t) => Tid(c) = t)
<1>1. PICK t \in Thread, k \in {"main", "sig"} : c = << t, k >>
  BY ThreadAssumption
<1> QED BY <1>1 DEF Main, Sig, Tid

LEMMA AddressRange ==
  /\ NULL \in 0 .. UINTPTR_MAX /\ MAP_FAILED \in 0 .. UINTPTR_MAX
  /\ Address \subseteq 0 .. UINTPTR_MAX
  /\ NULL \notin Address /\ MAP_FAILED \notin Address
BY PointerAssumption DEF NULL, MAP_FAILED, Address

LEMMA NoCallType == NoCall \in CallType
BY AddressRange DEF NoCall, CallType, Functions

(* The tracker's own steps are one caller's.                               *)
LEMMA StepLocal ==
  ASSUME TypeOK, NEW c \in Caller, Step(c)
  PROVE  pc[c] # "idle" /\ \A d \in Caller : d # c => pc'[d] = pc[d] /\ arg'[d] = arg[d]
<1> USE DEF Goto, TypeOK
<1>1. CASE AddStep(c)
  BY <1>1 DEF AddStep, UnwindOk, NoBacktrace, UnwindExit, AddBacktrace, AddPointer, RecordPeakList,
              LockFrames, LockPointers
<1>2. CASE RemoveStep(c)
  BY <1>2 DEF RemoveStep, RemoveUntracked, RemovePointer, RemoveBacktrace, LockFrames, LockPointers
<1>3. CASE DumpStep(c)
  BY <1>3 DEF DumpStep, CollectList, PrintList, DumpPeakInfo, LockFrames, LockPointers
<1> QED BY <1>1, <1>2, <1>3 DEF Step

----------------------------------------------------------------------------
(* Types, and what the library calls of the tracker.                       *)
LEMMA InitMDType == MDInit => MDTypeOK
BY NoCallType, AddressRange, ThreadAssumption
   DEF MDInit, MDTypeOK, Places, InLock, BlockType

LEMMA EnterType ==
  ASSUME MDTypeOK, NEW c \in Caller, NEW fn \in Functions, NEW p \in Address \cup {NULL},
         NEW n \in Nat, Enter(c, fn, p, n), UNCHANGED handler, UNCHANGED temp,
         user' \subseteq user
  PROVE  MDTypeOK'
<1>1. [fn |-> fn, ptr |-> p, size |-> n, result |-> NULL] \in CallType
  BY AddressRange DEF CallType
<1>2. call' \in [Caller -> CallType] /\ at' \in [Caller -> Places]
  BY <1>1 DEF Enter, Move, MDTypeOK, Places
<1>3. UNCHANGED << heap, lock_, disabled, saved >>
  BY DEF Enter, lockVars
<1> QED BY <1>2, <1>3 DEF MDTypeOK

LEMMA BlockAdded ==
  ASSUME MDTypeOK, NEW p \in Address, NEW b \in BlockType
  PROVE  /\ DOMAIN Put(heap, p, b) \subseteq Address
         /\ Put(heap, p, b) \in [DOMAIN Put(heap, p, b) -> BlockType]
BY DEF MDTypeOK, Put

LEMMA BlockErased ==
  ASSUME MDTypeOK, NEW p
  PROVE  /\ DOMAIN Erase(heap, p) \subseteq Address
         /\ Erase(heap, p) \in [DOMAIN Erase(heap, p) -> BlockType]
BY DEF MDTypeOK, Erase

LEMMA ResultType ==
  ASSUME MDTypeOK, NEW c \in Caller, NEW r \in Address \cup {NULL, MAP_FAILED},
         call[c].fn # "malloc" \/ r \in Address \cup {NULL},
         call' = [call EXCEPT ![c].result = r]
  PROVE  call' \in [Caller -> CallType]
<1>1. PICK k : k = call[c] /\ k \in CallType
  BY DEF MDTypeOK
<1>2. [k EXCEPT !.result = r] \in CallType
  BY <1>1 DEF CallType
<1>3. call' = [call EXCEPT ![c] = [k EXCEPT !.result = r]]
  BY <1>1 DEF MDTypeOK
<1> QED BY <1>2, <1>3 DEF MDTypeOK

LEMMA TrackIsAny ==
  ASSUME MDTypeOK, NEW c \in Caller, NEW r \in Address \cup {NULL, MAP_FAILED},
         call[c].fn # "malloc" \/ r \in Address \cup {NULL}, Track(c, r)
  PROVE  /\ AnyCall(c) \/ UNCHANGED vars
         /\ call' \in [Caller -> CallType] /\ at' \in [Caller -> Places]
<1>1. call[c].size \in Nat /\ TypeOf(call[c].fn) \in MemType /\ r \in 0 .. UINTPTR_MAX
  BY AddressRange DEF MDTypeOK, CallType, TypeOf, MemType
<1>2. AnyCall(c) \/ UNCHANGED vars
  BY <1>1 DEF Track, AnyCall
<1> QED BY <1>2, ResultType DEF Track, Move, MDTypeOK, Places, InLock

LEMMA BodyType ==
  ASSUME MDTypeOK, NEW c \in Caller,
         \/ AllocBody(c) \/ MmapBody(c) \/ TooLargeBody(c) \/ RemoveBody(c)
         \/ SystemFree(c) \/ SystemRealloc(c) \/ DumpBody(c)
  PROVE  MDTypeOK' /\ (AnyCall(c) \/ UNCHANGED vars)
<1>1. UNCHANGED << user, lock_, disabled, saved, handler, temp >>
  BY DEF AllocBody, MmapBody, TooLargeBody, RemoveBody, SystemFree, SystemRealloc, DumpBody,
         heapVars, lockVars, sigVars
<1>2. SUFFICES /\ DOMAIN heap' \subseteq Address /\ heap' \in [DOMAIN heap' -> BlockType]
               /\ at' \in [Caller -> Places] /\ call' \in [Caller -> CallType]
               /\ AnyCall(c) \/ UNCHANGED vars
  BY <1>1 DEF MDTypeOK
<1>3. /\ call[c].size \in Nat /\ call[c].ptr \in Address \cup {NULL}
      /\ call[c].ptr \in 0 .. UINTPTR_MAX
  BY AddressRange DEF MDTypeOK, CallType
<1>4. \A type \in {"HOST", "MMAP"} :
         [type |-> type, size |-> call[c].size, direct |-> FALSE] \in BlockType
  BY <1>3 DEF BlockType
<1>5. /\ \A l \in Places : Move(c, l) => at' \in [Caller -> Places]
      /\ {"enable", "system"} \subseteq Places
  BY DEF Move, MDTypeOK, Places, InLock
<1>6. ASSUME NEW p \in Address, NEW type \in {"HOST", "MMAP"}, NewBlock(p, call[c].size, type)
      PROVE  DOMAIN heap' \subseteq Address /\ heap' \in [DOMAIN heap' -> BlockType]
  BY <1>4, <1>6, BlockAdded DEF NewBlock
<1>7. UNCHANGED heap => DOMAIN heap' \subseteq Address /\ heap' \in [DOMAIN heap' -> BlockType]
  BY DEF MDTypeOK
<1>8. UNCHANGED call => call' \in [Caller -> CallType]
  BY DEF MDTypeOK
<1>9. ASSUME Return(c, NULL)
      PROVE  UNCHANGED heap /\ UNCHANGED vars
             /\ at' \in [Caller -> Places] /\ call' \in [Caller -> CallType]
  BY <1>5, <1>9, ResultType DEF Return
<1>10. CASE AllocBody(c)
  BY <1>6, <1>7, <1>9, <1>10, TrackIsAny DEF AllocBody
<1>11. CASE MmapBody(c)
  BY <1>6, <1>7, <1>9, <1>11, TrackIsAny DEF MmapBody
<1>12. CASE TooLargeBody(c)
  BY <1>7, <1>9, <1>12 DEF TooLargeBody
<1>13. CASE RemoveBody(c)
  BY <1>3, <1>5, <1>7, <1>8, <1>13 DEF RemoveBody, AnyCall, heapVars
<1>14. CASE SystemFree(c)
  <2>1. DOMAIN heap' \subseteq Address /\ heap' \in [DOMAIN heap' -> BlockType]
    BY <1>7, <1>14, BlockErased DEF SystemFree
  <2> QED BY <1>3, <1>5, <1>8, <1>14, <2>1, ResultType DEF SystemFree
<1>15. CASE SystemRealloc(c)
  <2>1. ASSUME NEW p \in Address, NEW b \in BlockType,
               heap' = Put(Erase(heap, call[c].ptr), p, b)
        PROVE  DOMAIN heap' \subseteq Address /\ heap' \in [DOMAIN heap' -> BlockType]
    BY <2>1 DEF MDTypeOK, Put, Erase
  <2> QED BY <1>4, <1>7, <1>15, <2>1, TrackIsAny DEF SystemRealloc
<1>16. CASE DumpBody(c)
  BY <1>5, <1>7, <1>8, <1>16 DEF DumpBody, AnyCall, heapVars
<1> QED BY <1>10, <1>11, <1>12, <1>13, <1>14, <1>15, <1>16

LEMMA ScopeType ==
  ASSUME MDTypeOK, NEW c \in Caller,
         RdLock(c) \/ Disable(c) \/ Enable(c) \/ Unlock(c) \/ WrWait(c) \/ WrLock(c)
           \/ FinDisable(c) \/ FinInfo(c) \/ ProgramExits(c)
  PROVE  MDTypeOK' /\ (AnyCall(c) \/ UNCHANGED vars)
<1> USE DEF MDTypeOK, lockVars, heapVars, sigVars, Move
<1>0. Tid(c) \in Thread
  BY ThreadOf
<1>p. {"disable", "body", "unlock", "fin_disable", "fin_info", "exited", "rdlock", "user",
        "wrlock"} \subseteq Places
  BY DEF Places, InLock
<1>1. CASE RdLock(c)
  BY <1>1, <1>p DEF RdLock
<1>2. CASE Disable(c)
  BY <1>0, <1>2, <1>p DEF Disable
<1>3. CASE Enable(c)
  BY <1>0, <1>3, <1>p DEF Enable
<1>4. CASE Unlock(c)
  <2>1. Unlocked(Tid(c)) \in [readers : Nat, writer : Thread \cup {NoThread}, pending : SUBSET Thread]
    BY DEF Unlocked
  <2>2. GivenTo(c) \subseteq Address
    <3>1. call[c].ptr \in Address \cup {NULL}
      BY DEF CallType
    <3> QED BY <3>1 DEF GivenTo
  <2>3. call' \in [Caller -> CallType]
    <3>1. PICK k : k = call[c] /\ k \in CallType
      OBVIOUS
    <3>2. NoCall \in CallType /\ [k EXCEPT !.fn = "finalize"] \in CallType
      BY <3>1, NoCallType DEF CallType, Functions
    <3> QED BY <1>4, <3>1, <3>2 DEF Unlock
  <2>4. user' \subseteq Address
    BY <1>4, <2>2 DEF Unlock
  <2>5. temp' \in [Thread -> Address \cup {NULL}]
    <3>1. call[c].fn = "malloc" => call[c].result \in Address \cup {NULL}
      BY DEF CallType
    <3> QED BY <1>0, <1>4, <3>1 DEF Unlock
  <2>6. at' \in [Caller -> Places]
    BY <1>4, <1>p DEF Unlock
  <2>7. lock_' \in [readers : Nat, writer : Thread \cup {NoThread}, pending : SUBSET Thread]
    BY <1>4, <2>1 DEF Unlock, ReleaseLock
  <2>8. UNCHANGED << vars, heap, disabled, saved, handler >>
    BY <1>4 DEF Unlock
  <2> QED BY <2>3, <2>4, <2>5, <2>6, <2>7, <2>8
<1>5. CASE WrWait(c)
  BY <1>0, <1>5 DEF WrWait
<1>6. CASE WrLock(c)
  BY <1>0, <1>6, <1>p DEF WrLock
<1>7. CASE FinDisable(c)
  <2>0. PICK k : k = call[c] /\ k \in CallType
    OBVIOUS
  <2>1. [k EXCEPT !.fn = "exit_dump"] \in CallType
    BY <2>0 DEF CallType, Functions
  <2>2. call' \in [Caller -> CallType]
    BY <1>7, <2>0, <2>1 DEF FinDisable
  <2> QED BY <1>0, <1>7, <1>p, <2>2 DEF FinDisable
<1>8. CASE FinInfo(c)
  BY <1>8, <1>p DEF FinInfo, AnyCall
<1>9. CASE ProgramExits(c)
  <2>1. [NoCall EXCEPT !.fn = "finalize"] \in CallType
    BY AddressRange DEF NoCall, CallType, Functions
  <2> QED BY <1>9, <1>p, <2>1 DEF ProgramExits
<1> QED BY <1>1, <1>2, <1>3, <1>4, <1>5, <1>6, <1>7, <1>8, <1>9

LEMMA CallsType ==
  ASSUME MDTypeOK, NEW c \in Caller, ProgramCall(c)
  PROVE  MDTypeOK' /\ UNCHANGED vars
<1>1. UNCHANGED << handler, temp >> /\ Size \subseteq Nat /\ user \subseteq Address
  BY SizeAssumption DEF ProgramCall, sigVars, MDTypeOK
<1>2. \E fn \in Functions, p \in Address \cup {NULL}, n \in Nat :
        Enter(c, fn, p, n) /\ user' \subseteq user
  <2>1. CASE ProgramAllocates(c)
    BY <1>1, <2>1 DEF ProgramAllocates, Functions, Allocates
  <2>2. CASE ProgramGivesBack(c)
    BY <1>1, <2>2 DEF ProgramGivesBack, Functions
  <2>3. CASE ProgramReallocates(c)
    BY <1>1, <2>3 DEF ProgramReallocates, Functions
  <2>4. CASE ProgramDumps(c)
    BY <1>1, <2>4 DEF ProgramDumps, Functions
  <2> QED BY <2>1, <2>2, <2>3, <2>4 DEF ProgramCall
<1> QED BY <1>1, <1>2, EnterType DEF Enter


LEMMA HandlerType ==
  ASSUME MDTypeOK, NEW t \in Thread, Deliver(t) \/ HandlerStep(t)
  PROVE  MDTypeOK' /\ UNCHANGED vars
<1> USE CallerOf, SizeAssumption DEF sigVars, heapVars, lockVars, Handle
<1>1. CASE Deliver(t)
  BY <1>1 DEF Deliver, MDTypeOK
<1>e. ASSUME NEW fn \in Functions, NEW p \in Address \cup {NULL}, NEW n \in Nat,
             Enter(Sig(t), fn, p, n), UNCHANGED user, NEW h \in {"dump", "release", "return"},
             handler[t] # "none", handler' = [handler EXCEPT ![t] = h],
             temp' \in [Thread -> Address \cup {NULL}]
      PROVE  MDTypeOK' /\ UNCHANGED vars
  <2>1. [fn |-> fn, ptr |-> p, size |-> n, result |-> NULL] \in CallType
    BY AddressRange DEF CallType
  <2>2. call' \in [Caller -> CallType] /\ at' \in [Caller -> Places]
    BY <1>e, <2>1 DEF Enter, Move, MDTypeOK, Places
  <2> QED BY <1>e, <2>2 DEF Enter, MDTypeOK
<1>2. CASE HandlerName(t)
  <2>1. NameSize \in Nat
    <3>1. "DUMP_ON_SIGNAL" \in Options
      BY <1>2 DEF HandlerName, MDTypeOK
    <3> QED BY <3>1, NameAssumption DEF NameSize
  <2>2. CASE Enter(Sig(t), "malloc", NULL, NameSize) /\ UNCHANGED << user, temp >>
    BY <1>2, <1>e, <2>1, <2>2 DEF HandlerName, Functions, Allocates, MDTypeOK
  <2>3. ASSUME NEW p \in Address \ DOMAIN heap,
               heap' = Put(heap, p, [type |-> "HOST", size |-> NameSize, direct |-> TRUE]),
               temp' = [temp EXCEPT ![t] = p],
               UNCHANGED << vars, user, lockVars, disabled, at, call, saved >>
        PROVE  MDTypeOK' /\ UNCHANGED vars
    <3>1. [type |-> "HOST", size |-> NameSize, direct |-> TRUE] \in BlockType
      BY <2>1 DEF BlockType
    <3> QED BY <1>2, <2>3, <3>1, BlockAdded DEF HandlerName, MDTypeOK
  <2> QED BY <1>2, <2>2, <2>3 DEF HandlerName
<1>3. CASE HandlerDump(t)
  BY <1>3, <1>e, AddressRange DEF HandlerDump, Functions, MDTypeOK
<1>4. CASE HandlerRelease(t)
  <2>1. temp[t] \in Address \cup {NULL} /\ temp' \in [Thread -> Address \cup {NULL}]
    BY <1>4, AddressRange DEF HandlerRelease, MDTypeOK
  <2>2. CASE Enter(Sig(t), "free", temp[t], 0) /\ UNCHANGED user
    BY <1>4, <1>e, <2>1, <2>2 DEF HandlerRelease, Functions
  <2>3. CASE heap' = Erase(heap, temp[t])
             /\ UNCHANGED << vars, user, lockVars, disabled, at, call, saved >>
    BY <1>4, <2>1, <2>3, BlockErased DEF HandlerRelease, MDTypeOK
  <2> QED BY <1>4, <2>2, <2>3 DEF HandlerRelease
<1>5. CASE HandlerReturn(t)
  BY <1>5 DEF HandlerReturn, MDTypeOK
<1> QED BY <1>1, <1>2, <1>3, <1>4, <1>5 DEF HandlerStep

LEMMA MDStuttering ==
  ASSUME UNCHANGED allVars
  PROVE  UNCHANGED vars /\ UNCHANGED << heap, user, lock_, disabled, at, call, saved, handler, temp >>
BY DEF allVars, mdVars, heapVars, lockVars, sigVars

(* Every step of the library is a step of the tracker, or none of it.      *)
LEMMA MDNextType ==
  ASSUME MDTypeOK, [MDNext]_allVars
  PROVE  MDTypeOK' /\ [AnyNext]_vars
<1>1. CASE UNCHANGED allVars
  BY <1>1, MDStuttering DEF MDTypeOK
<1>2. ASSUME NEW c \in Caller, LibraryStep(c) \/ ProgramExits(c)
      PROVE  MDTypeOK' /\ [AnyNext]_vars
  <2>1. CASE TrackerStep(c)
    BY <2>1 DEF TrackerStep, AnyNext, mdVars, heapVars, lockVars, sigVars, MDTypeOK
  <2> QED BY <1>2, <2>1, BodyType, ScopeType DEF LibraryStep, AnyNext
<1>3. ASSUME NEW c \in Caller, ProgramCall(c)
      PROVE  MDTypeOK' /\ [AnyNext]_vars
  BY <1>3, CallsType
<1>4. ASSUME NEW t \in Thread, Deliver(t) \/ HandlerStep(t)
      PROVE  MDTypeOK' /\ [AnyNext]_vars
  BY <1>4, HandlerType
<1> QED BY <1>1, <1>2, <1>3, <1>4 DEF MDNext, Arrival

(* The library uses the tracker as PointerData's callers may: everything   *)
(* proved of the tracker holds inside the library as well, with its        *)
(* signal handlers and the results of failed system calls.  The maps of    *)
(* backtraces stay whole, each backtrace is kept once and counted, the     *)
(* peaks bound the counters, and a dump prints the state of one moment.    *)
THEOREM TrackerInLibrary ==
  MDSpec => [](MDTypeOK /\ IInv /\ Exclusion /\ FramesPresent /\ PeaksBound /\ ReportCurrent)
<1> DEFINE J == MDTypeOK /\ IInv /\ Exclusion /\ Balanced /\ PeaksBound /\ ReportCurrent
<1>1. MDInit => J
  <2>1. MDInit => Init
    BY DEF MDInit
  <2>2. Init => Exclusion /\ Balanced /\ PeaksBound /\ ReportCurrent
    BY CallerAssumption
       DEF Init, Exclusion, PointerSection, FrameSection, Balanced, PeaksBound, ReportCurrent
  <2> QED BY <2>1, <2>2, InitMDType, InitIInv
<1>2. J /\ [MDNext]_allVars => J'
  <2> SUFFICES ASSUME J, [MDNext]_allVars PROVE J'
    OBVIOUS
  <2>1. MDTypeOK' /\ [AnyNext]_vars
    BY MDNextType
  <2>2. TypeOK
    BY DEF IInv
  <2> QED BY <2>1, <2>2, NextIInv, AnyExclusion, NextPeaks, NextReport
<1>3. J => FramesPresent
  BY DEF IInv, FramesPresent, UsersPresent, TypeOK
<1> QED BY <1>1, <1>2, <1>3, PTL DEF MDSpec

----------------------------------------------------------------------------
(* A caller that moves: the others stay, and their calls of the tracker.   *)
LEMMA AnyCallLocal ==
  ASSUME TypeOK, NEW c \in Caller, AnyCall(c)
  PROVE  /\ \A d \in Caller : d # c => pc'[d] = pc[d] /\ arg'[d] = arg[d]
         /\ UNCHANGED pointers_
BY DEF TypeOK, AnyCall, CallAdd, CallRemove, CallDump, CallPeakInfo, Goto, dataVars, mapVars

Moves(c, l) ==
  /\ Running(c) /\ at' = [at EXCEPT ![c] = l] /\ UNCHANGED handler
  /\ \A d \in Caller : d # c => pc'[d] = pc[d]

LEMMA BodyMoves ==
  ASSUME TypeOK, MDTypeOK, NEW c \in Caller,
         \/ AllocBody(c) \/ MmapBody(c) \/ TooLargeBody(c) \/ RemoveBody(c)
         \/ SystemFree(c) \/ SystemRealloc(c) \/ DumpBody(c)
  PROVE  /\ \E l \in {"system", "enable"} : Moves(c, l)
         /\ at[c] \in {"body", "system"}
         /\ UNCHANGED << user, lock_, disabled, saved, temp >>
         /\ \A d \in Caller : call'[d].fn = call[d].fn
<1>1. \A d \in Caller : d # c => pc'[d] = pc[d]
  BY BodyType, AnyCallLocal DEF vars, callerVars
<1>2. \A d \in Caller : call'[d].fn = call[d].fn
  <2>1. UNCHANGED call \/ \E r : call' = [call EXCEPT ![c].result = r]
    BY DEF AllocBody, MmapBody, TooLargeBody, RemoveBody, SystemFree, SystemRealloc, DumpBody,
           Track, Return
  <2>2. ASSUME NEW r, call' = [call EXCEPT ![c].result = r]
        PROVE  \A d \in Caller : call'[d].fn = call[d].fn
    BY <2>2 DEF MDTypeOK, CallType
  <2> QED BY <2>1, <2>2
<1>3. /\ \E l \in {"system", "enable"} : at' = [at EXCEPT ![c] = l]
      /\ Running(c) /\ at[c] \in {"body", "system"}
      /\ UNCHANGED << user, lock_, disabled, saved, handler, temp >>
  BY DEF AllocBody, MmapBody, TooLargeBody, RemoveBody, SystemFree, SystemRealloc, DumpBody,
         Track, Return, Move, Here, heapVars, lockVars, sigVars
<1> QED BY <1>1, <1>2, <1>3 DEF Moves

LEMMA CalledMoves ==
  ASSUME MDTypeOK, TrackerCalled, NEW c \in Caller, NEW l \in Places, Moves(c, l),
         pc'[c] # "idle" => l \in {"system", "enable", "exited"}
  PROVE  TrackerCalled'
<1>1. \A d \in Caller : pc'[d] # "idle" => at'[d] \in {"system", "enable", "exited"}
  BY DEF TrackerCalled, Moves, MDTypeOK
<1>2. ASSUME NEW t \in Thread, handler'[t] = "none"
      PROVE  at'[Sig(t)] = "user"
  <2>1. c # Sig(t)
    BY <1>2, CallerOf DEF Moves, Running
  <2> QED BY <1>2, <2>1, CallerOf DEF TrackerCalled, Moves, MDTypeOK
<1> QED BY <1>1, <1>2 DEF TrackerCalled

LEMMA ScopeMoves ==
  ASSUME MDTypeOK, NEW c \in Caller,
         RdLock(c) \/ Disable(c) \/ Enable(c) \/ Unlock(c) \/ WrLock(c) \/ FinDisable(c)
           \/ ProgramCall(c) \/ ProgramExits(c)
  PROVE  (\E l \in Places : Moves(c, l)) /\ UNCHANGED vars /\ pc[c] = "idle"
<1> USE DEF Here, Move, Moves, vars, callerVars, sigVars, Places, InLock
<1>1. CASE RdLock(c) \/ Disable(c) \/ Enable(c) \/ Unlock(c)
  BY <1>1 DEF RdLock, Disable, Enable, Unlock
<1>2. CASE WrLock(c) \/ FinDisable(c) \/ ProgramExits(c)
  BY <1>2 DEF WrLock, FinDisable, ProgramExits
<1>3. CASE ProgramCall(c)
  BY <1>3 DEF ProgramCall, ProgramAllocates, ProgramGivesBack, ProgramReallocates, ProgramDumps, Enter
<1> QED BY <1>1, <1>2, <1>3

LEMMA NextCalled ==
  ASSUME TypeOK, MDTypeOK, TrackerCalled, [MDNext]_allVars
  PROVE  TrackerCalled'
<1>1. CASE UNCHANGED allVars
  BY <1>1, MDStuttering DEF vars, callerVars, TrackerCalled
<1>2. ASSUME NEW c \in Caller, LibraryStep(c) \/ ProgramCall(c) \/ ProgramExits(c)
      PROVE  TrackerCalled'
  <2>1. CASE TrackerStep(c)
    BY <2>1, StepLocal DEF TrackerStep, mdVars, sigVars, TrackerCalled
  <2>2. CASE WrWait(c)
    BY <2>2 DEF WrWait, vars, callerVars, sigVars, TrackerCalled
  <2>3. CASE FinInfo(c)
    <3>1. \A d \in Caller : d # c => pc'[d] = pc[d]
      BY <2>3, AnyCallLocal DEF FinInfo, AnyCall, vars, callerVars
    <3>2. Moves(c, "exited") /\ "exited" \in Places
      BY <2>3, <3>1 DEF FinInfo, Move, Moves, Here, sigVars, Places
    <3> QED BY <3>2, CalledMoves
  <2>4. CASE \/ RdLock(c) \/ Disable(c) \/ Enable(c) \/ Unlock(c) \/ WrLock(c) \/ FinDisable(c)
             \/ ProgramCall(c) \/ ProgramExits(c)
    BY <2>4, ScopeMoves, CalledMoves DEF vars, callerVars
  <2>5. CASE \/ AllocBody(c) \/ MmapBody(c) \/ TooLargeBody(c) \/ RemoveBody(c)
             \/ SystemFree(c) \/ SystemRealloc(c) \/ DumpBody(c)
    <3>1. {"system", "enable"} \subseteq Places
      BY DEF Places, InLock
    <3> QED BY <2>5, <3>1, BodyMoves, CalledMoves
  <2> QED BY <1>2, <2>1, <2>2, <2>3, <2>4, <2>5 DEF LibraryStep
<1>3. ASSUME NEW t \in Thread, Deliver(t) \/ HandlerStep(t)
      PROVE  TrackerCalled'
  <2>1. UNCHANGED vars
    BY <1>3, HandlerType
  <2>2. /\ \A u \in Thread : u # t => handler'[u] = handler[u]
        /\ \A d \in Caller : d # Sig(t) => at'[d] = at[d]
        /\ at'[Sig(t)] = at[Sig(t)] \/ (pc[Sig(t)] = "idle" /\ handler'[t] # "none")
        /\ handler'[t] = "none" => at'[Sig(t)] = "user"
    <3>0. DOMAIN at = Caller /\ DOMAIN handler = Thread /\ Sig(t) \in Caller
      BY CallerOf DEF MDTypeOK
    <3> USE <3>0 DEF Handle, Here, Enter, Move
    <3>1. CASE Deliver(t)
      BY <3>1 DEF Deliver
    <3>2. CASE HandlerName(t)
      BY <3>2 DEF HandlerName
    <3>3. CASE HandlerDump(t)
      BY <3>3 DEF HandlerDump
    <3>4. CASE HandlerRelease(t)
      BY <3>4 DEF HandlerRelease
    <3>5. CASE HandlerReturn(t)
      BY <3>5 DEF HandlerReturn
    <3> QED BY <1>3, <3>1, <3>2, <3>3, <3>4, <3>5 DEF HandlerStep
  <2>3. \A u \in Thread : u # t => Sig(u) # Sig(t)
    BY CallerOf
  <2> QED BY <2>1, <2>2, <2>3, CallerOf DEF TrackerCalled, vars, callerVars
<1> QED BY <1>1, <1>2, <1>3 DEF MDNext, Arrival

----------------------------------------------------------------------------
(* The lock.                                                               *)
Inside == { c \in Caller : at[c] \in InLock }

LEMMA InsideFinite == IsFiniteSet(Inside) /\ Cardinality(Inside) \in Nat
BY CallerAssumption, CardSubset, FS_Subset DEF Inside

LEMMA InsideSame ==
  ASSUME MDTypeOK, NEW c \in Caller, NEW l, at' = [at EXCEPT ![c] = l],
         at[c] \in InLock <=> l \in InLock
  PROVE  Inside' = Inside
BY DEF Inside, MDTypeOK

LEMMA InsideEnters ==
  ASSUME MDTypeOK, NEW c \in Caller, NEW l \in InLock, at' = [at EXCEPT ![c] = l], at[c] \notin InLock
  PROVE  Cardinality(Inside') = Cardinality(Inside) + 1
<1>1. Inside' = Inside \cup {c} /\ c \notin Inside
  BY DEF Inside, MDTypeOK
<1> QED BY <1>1, InsideFinite, FS_AddElement

LEMMA InsideLeaves ==
  ASSUME MDTypeOK, NEW c \in Caller, NEW l, l \notin InLock, at' = [at EXCEPT ![c] = l], at[c] \in InLock
  PROVE  Cardinality(Inside') = Cardinality(Inside) - 1
<1>1. Inside' = Inside \ {c} /\ c \in Inside
  BY DEF Inside, MDTypeOK
<1> QED BY <1>1, InsideFinite, FS_RemoveElement

LEMMA SomeoneInside ==
  ASSUME LockHeld, MDTypeOK, NEW c \in Caller, at[c] \in InLock
  PROVE  lock_.readers > 0 /\ lock_.writer = NoThread /\ lock_.readers = Cardinality(Inside)
<1>1. c \in Inside /\ lock_.readers = Cardinality(Inside)
  BY DEF Inside, LockHeld
<1>2. lock_.readers \in Nat /\ lock_.readers # 0
  BY <1>1, InsideFinite, FS_EmptySet DEF MDTypeOK
<1> QED BY <1>1, <1>2 DEF LockHeld

(* No handler runs on top of a thread that finalizes.                      *)
LEMMA FinalizerAlone ==
  ASSUME NoDumpAtExit, FinalizerNotStruck, MDTypeOK, LockHeld, NEW c \in Caller, at[c] \in Final
  PROVE  /\ c = Main(Tid(c)) /\ handler[Tid(c)] = "none"
         /\ ~ ("BACKTRACE" \in Options /\ DumpOnExit)
BY ThreadOf DEF NoDumpAtExit, FinalizerNotStruck, LockHeld

LEMMA LockQuiet ==
  ASSUME MDTypeOK, LockHeld, NEW c \in Caller, NEW l \in Places, at' = [at EXCEPT ![c] = l],
         lock_'.readers = lock_.readers, lock_'.writer = lock_.writer,
         at[c] \in InLock <=> l \in InLock,
         at[c] \in Final <=> l \in Final,
         l = "wrlock" => "exit" \in Ops /\ c = Main(Tid(c)),
         call'[c].fn \in {"finalize", "exit_dump"} => l \in Final \cup {"wrlock"},
         \A d \in Caller : d # c => call'[d].fn = call[d].fn
  PROVE  LockHeld'
<1>1. Inside' = Inside
  BY InsideSame
<1>2. \A d \in Caller : at'[d] = IF d = c THEN l ELSE at[d]
  BY DEF MDTypeOK
<1>3. lock_'.readers = Cardinality({ d \in Caller : at'[d] \in InLock })
  BY <1>1 DEF Inside, LockHeld
<1>4. lock_'.writer # NoThread => lock_'.readers = 0
  BY DEF LockHeld
<1>5. \A d \in Caller : at'[d] \in Final => lock_'.writer = Tid(d)
  BY <1>2 DEF LockHeld
<1>6. \A d \in Caller : at'[d] \in Final \cup {"wrlock"} => "exit" \in Ops /\ d = Main(Tid(d))
  BY <1>2 DEF LockHeld
<1>7. \A t \in Thread : lock_'.writer = t => at'[Main(t)] \in Final
  BY <1>2, CallerOf DEF LockHeld
<1>8. \A d \in Caller : call'[d].fn \in {"finalize", "exit_dump"} => at'[d] \in Final \cup {"wrlock"}
  BY <1>2 DEF LockHeld
<1> QED BY <1>3, <1>4, <1>5, <1>6, <1>7, <1>8 DEF LockHeld

LEMMA RdLockHeld ==
  ASSUME NoDumpAtExit, FinalizerNotStruck, MDTypeOK, LockHeld, NEW c \in Caller, RdLock(c)
  PROVE  LockHeld'
<1>1. at[c] = "rdlock" /\ at' = [at EXCEPT ![c] = "disable"] /\ UNCHANGED call /\ Running(c)
  BY DEF RdLock, Here, Move
<1>2. lock_.writer # Tid(c)
  <2> SUFFICES ASSUME lock_.writer = Tid(c) PROVE FALSE
    OBVIOUS
  <2>1. at[Main(Tid(c))] \in Final /\ Main(Tid(c)) \in Caller
    BY ThreadOf, CallerOf DEF LockHeld
  <2>2. handler[Tid(c)] = "none"
    BY <2>1, ThreadOf DEF FinalizerNotStruck
  <2> QED BY <1>1, <2>1, <2>2 DEF Running, Final
<1>3. lock_.writer = NoThread /\ lock_' = [lock_ EXCEPT !.readers = lock_.readers + 1]
  BY <1>2 DEF RdLock, MayRead
<1>4. Cardinality(Inside') = Cardinality(Inside) + 1
  BY <1>1, InsideEnters DEF InLock
<1>5. \A d \in Caller : at'[d] = IF d = c THEN "disable" ELSE at[d]
  BY <1>1 DEF MDTypeOK
<1>6. lock_'.readers = Cardinality({ d \in Caller : at'[d] \in InLock }) /\ lock_'.writer = NoThread
  BY <1>3, <1>4 DEF Inside, LockHeld, MDTypeOK
<1>7. \A d \in Caller : at[d] \notin Final
  BY <1>3, ThreadOf, ThreadAssumption DEF LockHeld
<1>8. \A d \in Caller : call'[d].fn \in {"finalize", "exit_dump"} => at'[d] \in Final \cup {"wrlock"}
  BY <1>1, <1>5 DEF LockHeld, Final
<1>9. \A d \in Caller : at'[d] \in Final \cup {"wrlock"} =>
        at'[d] \notin Final /\ "exit" \in Ops /\ d = Main(Tid(d))
  BY <1>5, <1>7 DEF LockHeld, Final
<1> QED BY <1>6, <1>8, <1>9, ThreadAssumption DEF LockHeld

LEMMA UnlockHeld ==
  ASSUME MDTypeOK, LockHeld, NEW c \in Caller, Unlock(c)
  PROVE  LockHeld' /\ at' = [at EXCEPT ![c] = "user"] /\ call' = [call EXCEPT ![c] = NoCall]
<1>1. at[c] = "unlock" /\ at[c] \in InLock
  BY DEF Unlock, Here, InLock
<1>2. call[c].fn \notin {"finalize", "exit_dump"}
  BY <1>1 DEF LockHeld, Final
<1>3. at' = [at EXCEPT ![c] = "user"] /\ call' = [call EXCEPT ![c] = NoCall]
  BY <1>2 DEF Unlock, Move
<1>4. /\ lock_.writer = NoThread /\ lock_.readers = Cardinality(Inside)
      /\ lock_' = [lock_ EXCEPT !.readers = lock_.readers - 1]
  BY <1>1, SomeoneInside, ThreadOf, ThreadAssumption DEF Unlock, ReleaseLock, Unlocked
<1>5. Cardinality(Inside') = Cardinality(Inside) - 1
  BY <1>1, <1>3, InsideLeaves DEF InLock
<1>6. /\ \A d \in Caller : at'[d] = IF d = c THEN "user" ELSE at[d]
      /\ \A d \in Caller : call'[d].fn = IF d = c THEN "none" ELSE call[d].fn
  BY <1>3 DEF MDTypeOK, NoCall
<1>7. lock_'.readers = Cardinality({ d \in Caller : at'[d] \in InLock }) /\ lock_'.writer = NoThread
  BY <1>4, <1>5 DEF Inside, MDTypeOK
<1>8. \A d \in Caller : at[d] \notin Final
  BY <1>4, ThreadOf, ThreadAssumption DEF LockHeld
<1>9. \A d \in Caller : call'[d].fn \in {"finalize", "exit_dump"} => at'[d] \in Final \cup {"wrlock"}
  BY <1>6 DEF LockHeld
<1>10. \A d \in Caller : at'[d] \in Final \cup {"wrlock"} =>
        at'[d] \notin Final /\ "exit" \in Ops /\ d = Main(Tid(d))
  BY <1>6, <1>8 DEF LockHeld, Final
<1> QED BY <1>3, <1>7, <1>9, <1>10, ThreadAssumption DEF LockHeld

LEMMA WrLockHeld ==
  ASSUME MDTypeOK, LockHeld, NEW c \in Caller, WrLock(c)
  PROVE  LockHeld'
<1>1. /\ at[c] = "wrlock" /\ at' = [at EXCEPT ![c] = "fin_disable"] /\ UNCHANGED call
      /\ lock_.readers = 0 /\ lock_.writer = NoThread
      /\ lock_'.readers = 0 /\ lock_'.writer = Tid(c)
  BY DEF WrLock, Here, Move, MDTypeOK
<1>2. Inside' = Inside
  BY <1>1, InsideSame DEF InLock
<1>3. \A d \in Caller : at'[d] = IF d = c THEN "fin_disable" ELSE at[d]
  BY <1>1 DEF MDTypeOK
<1>4. lock_'.readers = Cardinality({ d \in Caller : at'[d] \in InLock })
  BY <1>1, <1>2 DEF Inside, LockHeld
<1>5. \A d \in Caller : at[d] \notin Final
  BY <1>1, ThreadOf, ThreadAssumption DEF LockHeld
<1>6. c = Main(Tid(c)) /\ "exit" \in Ops
  BY <1>1 DEF LockHeld
<1>7. \A d \in Caller : at'[d] \in Final => lock_'.writer = Tid(d)
  BY <1>1, <1>3, <1>5
<1>8. \A d \in Caller : at'[d] \in Final \cup {"wrlock"} => "exit" \in Ops /\ d = Main(Tid(d))
  BY <1>3, <1>6 DEF LockHeld
<1>9. \A t \in Thread : lock_'.writer = t => at'[Main(t)] \in Final
  BY <1>1, <1>3, <1>6, CallerOf DEF Final
<1>10. \A d \in Caller : call'[d].fn \in {"finalize", "exit_dump"} => at'[d] \in Final \cup {"wrlock"}
  BY <1>1, <1>3 DEF LockHeld, Final
<1> QED BY <1>1, <1>4, <1>7, <1>8, <1>9, <1>10 DEF LockHeld

LEMMA ProgramCallEnters ==
  ASSUME MDTypeOK, NEW c \in Caller, ProgramCall(c)
  PROVE  /\ at[c] = "user" /\ at' = [at EXCEPT ![c] = "rdlock"] /\ Running(c)
         /\ UNCHANGED << lock_, disabled, saved, handler, temp, heap >>
         /\ call'[c].fn \in Functions \ {"finalize", "exit_dump", "none"}
         /\ \A d \in Caller : d # c => call'[d] = call[d]
<1> USE DEF ProgramCall, Here, Enter, Move, lockVars, sigVars, MDTypeOK, Functions, Allocates
<1>1. CASE ProgramAllocates(c)
  BY <1>1 DEF ProgramAllocates
<1>2. CASE ProgramGivesBack(c)
  BY <1>2 DEF ProgramGivesBack
<1>3. CASE ProgramReallocates(c)
  BY <1>3 DEF ProgramReallocates
<1>4. CASE ProgramDumps(c)
  BY <1>4 DEF ProgramDumps
<1> QED BY <1>1, <1>2, <1>3, <1>4

LEMMA HandlerStepEnters ==
  ASSUME MDTypeOK, NEW t \in Thread, Deliver(t) \/ HandlerStep(t)
  PROVE  /\ UNCHANGED << lock_, disabled, saved, user >>
         /\ \A u \in Thread : u # t => handler'[u] = handler[u] /\ temp'[u] = temp[u]
         /\ \/ UNCHANGED << at, call >>
            \/ /\ at[Sig(t)] = "user" /\ at' = [at EXCEPT ![Sig(t)] = "rdlock"]
               /\ call'[Sig(t)].fn \in {"malloc", "free", "dump_heap"}
               /\ \A d \in Caller : d # Sig(t) => call'[d] = call[d]
<1>0. DOMAIN at = Caller /\ DOMAIN handler = Thread /\ DOMAIN call = Caller /\ DOMAIN temp = Thread
      /\ Sig(t) \in Caller
  BY CallerOf DEF MDTypeOK
<1> USE <1>0 DEF Handle, Here, Enter, Move, lockVars, heapVars
<1>1. CASE Deliver(t)
  BY <1>1 DEF Deliver
<1>2. CASE HandlerName(t)
  BY <1>2 DEF HandlerName
<1>3. CASE HandlerDump(t)
  BY <1>3 DEF HandlerDump
<1>4. CASE HandlerRelease(t)
  BY <1>4 DEF HandlerRelease
<1>5. CASE HandlerReturn(t)
  BY <1>5 DEF HandlerReturn
<1> QED BY <1>1, <1>2, <1>3, <1>4, <1>5 DEF HandlerStep

LEMMA NextLock ==
  ASSUME NoDumpAtExit, FinalizerNotStruck, TypeOK, MDTypeOK, LockHeld, [MDNext]_allVars
  PROVE  LockHeld'
<1> USE DEF Final, InLock
<1>0. {"disable", "body", "system", "enable", "unlock", "fin_disable", "fin_info", "exited", "rdlock",
        "user", "wrlock"} \subseteq Places
  BY DEF Places
<1>1. CASE UNCHANGED << at, call, lock_ >>
  BY <1>1 DEF LockHeld
<1>2. ASSUME NEW c \in Caller, LibraryStep(c) \/ ProgramCall(c) \/ ProgramExits(c)
      PROVE  LockHeld'
  <2>1. CASE TrackerStep(c)
    BY <1>1, <2>1 DEF TrackerStep, mdVars, lockVars
  <2>2. CASE WrWait(c)
    <3>1. lock_'.readers = lock_.readers /\ lock_'.writer = lock_.writer /\ UNCHANGED << at, call >>
      BY <2>2 DEF WrWait, MDTypeOK
    <3> QED BY <3>1 DEF LockHeld
  <2>3. CASE FinInfo(c)
    <3>1. at[c] = "fin_info" /\ at' = [at EXCEPT ![c] = "exited"] /\ UNCHANGED << lock_, call >>
      BY <2>3 DEF FinInfo, Here, Move, lockVars
    <3> QED BY <1>0, <3>1, LockQuiet
  <2>4. CASE FinDisable(c)
    <3>1. at[c] = "fin_disable" /\ UNCHANGED lock_
      BY <2>4 DEF FinDisable, Here, lockVars
    <3>2. at' = [at EXCEPT ![c] = "fin_info"] /\ UNCHANGED call
      BY <2>4, <3>1, FinalizerAlone DEF FinDisable, Move
    <3> QED BY <1>0, <3>1, <3>2, LockQuiet
  <2>5. CASE Disable(c)
    <3>1. at[c] = "disable" /\ at' = [at EXCEPT ![c] = "body"] /\ UNCHANGED << lock_, call >>
      BY <2>5 DEF Disable, Here, Move, lockVars
    <3> QED BY <1>0, <3>1, LockQuiet DEF LockHeld
  <2>6. CASE Enable(c)
    <3>1. at[c] = "enable" /\ at' = [at EXCEPT ![c] = "unlock"] /\ UNCHANGED << lock_, call >>
      BY <2>6 DEF Enable, Here, Move, lockVars
    <3> QED BY <1>0, <3>1, LockQuiet DEF LockHeld
  <2>7. CASE ProgramCall(c)
    <3>1. /\ at[c] = "user" /\ at' = [at EXCEPT ![c] = "rdlock"] /\ UNCHANGED lock_
          /\ call'[c].fn \notin {"finalize", "exit_dump"}
          /\ \A d \in Caller : d # c => call'[d].fn = call[d].fn
      BY <2>7, ProgramCallEnters
    <3> QED BY <1>0, <3>1, LockQuiet
  <2>8. CASE ProgramExits(c)
    <3>1. /\ at[c] = "user" /\ at' = [at EXCEPT ![c] = "wrlock"] /\ UNCHANGED lock_
          /\ "exit" \in Ops /\ c = Main(Tid(c))
          /\ \A d \in Caller : d # c => call'[d].fn = call[d].fn
      BY <2>8 DEF ProgramExits, Here, Move, lockVars, MDTypeOK
    <3> QED BY <1>0, <3>1, LockQuiet
  <2>9. CASE \/ AllocBody(c) \/ MmapBody(c) \/ TooLargeBody(c) \/ RemoveBody(c)
             \/ SystemFree(c) \/ SystemRealloc(c) \/ DumpBody(c)
    <3>1. PICK l \in {"system", "enable"} : Moves(c, l)
      BY <2>9, BodyMoves
    <3>2. /\ at[c] \in {"body", "system"} /\ UNCHANGED lock_
          /\ \A d \in Caller : call'[d].fn = call[d].fn
      BY <2>9, BodyMoves
    <3> QED BY <1>0, <3>1, <3>2, LockQuiet DEF Moves, LockHeld
  <2> QED BY <1>2, <2>1, <2>2, <2>3, <2>4, <2>5, <2>6, <2>7, <2>8, <2>9, RdLockHeld, UnlockHeld,
             WrLockHeld DEF LibraryStep
<1>3. ASSUME NEW t \in Thread, Deliver(t) \/ HandlerStep(t)
      PROVE  LockHeld'
  <2>1. CASE UNCHANGED << at, call >>
    BY <1>1, <1>3, <2>1, HandlerStepEnters
  <2>2. CASE ~ UNCHANGED << at, call >>
    BY <1>0, <1>3, <2>2, HandlerStepEnters, CallerOf, LockQuiet
  <2> QED BY <2>1, <2>2
<1> QED BY <1>1, <1>2, <1>3, MDStuttering DEF MDNext, Arrival

----------------------------------------------------------------------------
(* The flags.                                                              *)
LEMMA FlagsQuiet ==
  ASSUME MDTypeOK, FlagsUp, NEW c \in Caller, NEW l \in Places, at' = [at EXCEPT ![c] = l],
         UNCHANGED << disabled, saved >>,
         at[c] \in Up <=> l \in Up, at[c] \in {"fin_info", "exited"} <=> l \in {"fin_info", "exited"}
  PROVE  FlagsUp'
<1> SUFFICES ASSUME NEW t \in Thread
             PROVE  /\ at'[Main(t)] \in Up <=> at[Main(t)] \in Up
                    /\ at'[Main(t)] \in {"fin_info", "exited"} <=> at[Main(t)] \in {"fin_info", "exited"}
                    /\ at'[Sig(t)] \in Up <=> at[Sig(t)] \in Up
  BY DEF FlagsUp
<1>1. \A d \in Caller : at'[d] = IF d = c THEN l ELSE at[d]
  BY DEF MDTypeOK
<1> QED BY <1>1, CallerOf

LEMMA DisableFlags ==
  ASSUME NoDumpAtExit, FinalizerNotStruck, MDTypeOK, TrackerCalled, LockHeld, FlagsUp, NEW c \in Caller, Disable(c)
  PROVE  FlagsUp'
<1>1. /\ at[c] = "disable" /\ Running(c) /\ Tid(c) \in Thread
      /\ \A d \in Caller : at'[d] = IF d = c THEN "body" ELSE at[d]
      /\ \A d \in Caller : saved'[d] = IF d = c THEN disabled[Tid(c)] ELSE saved[d]
      /\ \A t \in Thread : disabled'[t] = IF t = Tid(c) THEN TRUE ELSE disabled[t]
  BY ThreadOf DEF Disable, Here, Move, MDTypeOK
<1> SUFFICES ASSUME NEW t \in Thread
             PROVE  /\ disabled'[t] <=> (at'[Main(t)] \in Up \cup {"fin_info", "exited"} \/ at'[Sig(t)] \in Up)
                    /\ at'[Main(t)] \in Up => ~ saved'[Main(t)]
                    /\ at'[Sig(t)] \in Up => (saved'[Sig(t)] <=> at'[Main(t)] \in Up)
  BY DEF FlagsUp
<1>2. CASE t # Tid(c)
  BY <1>1, <1>2, CallerOf DEF FlagsUp
<1>3. CASE c = Main(t)
  <2>1. at[Sig(t)] = "user" /\ Tid(c) = t /\ ~ disabled[t]
    BY <1>1, <1>3, CallerOf DEF Running, TrackerCalled, FlagsUp, Up
  <2> QED BY <1>1, <1>3, <2>1, CallerOf DEF Up
<1>4. CASE c = Sig(t)
  <2>1. Tid(c) = t /\ handler[t] # "none"
    BY <1>1, <1>4, CallerOf DEF Running
  <2>2. at[Main(t)] \notin {"fin_info", "exited"}
    BY <2>1, CallerOf DEF FinalizerNotStruck, Final
  <2>3. disabled[t] <=> at[Main(t)] \in Up
    BY <1>1, <1>4, <2>2 DEF FlagsUp, Up
  <2> QED BY <1>1, <1>4, <2>1, <2>2, <2>3, CallerOf DEF Up, FlagsUp
<1> QED BY <1>2, <1>3, <1>4, ThreadOf

LEMMA EnableFlags ==
  ASSUME NoDumpAtExit, FinalizerNotStruck, MDTypeOK, TrackerCalled, LockHeld, FlagsUp, NEW c \in Caller, Enable(c)
  PROVE  FlagsUp'
<1>1. /\ at[c] = "enable" /\ Running(c) /\ Tid(c) \in Thread
      /\ \A d \in Caller : at'[d] = IF d = c THEN "unlock" ELSE at[d]
      /\ \A d \in Caller : saved'[d] = IF d = c THEN FALSE ELSE saved[d]
      /\ \A t \in Thread : disabled'[t] = IF t = Tid(c) THEN saved[c] ELSE disabled[t]
  BY ThreadOf DEF Enable, Here, Move, MDTypeOK
<1> SUFFICES ASSUME NEW t \in Thread
             PROVE  /\ disabled'[t] <=> (at'[Main(t)] \in Up \cup {"fin_info", "exited"} \/ at'[Sig(t)] \in Up)
                    /\ at'[Main(t)] \in Up => ~ saved'[Main(t)]
                    /\ at'[Sig(t)] \in Up => (saved'[Sig(t)] <=> at'[Main(t)] \in Up)
  BY DEF FlagsUp
<1>2. CASE t # Tid(c)
  BY <1>1, <1>2, CallerOf DEF FlagsUp
<1>3. CASE c = Main(t)
  <2>1. at[Sig(t)] = "user" /\ Tid(c) = t /\ saved[c] = FALSE
    <3>1. saved[c] \in BOOLEAN /\ ~ saved[c]
      BY <1>1, <1>3 DEF FlagsUp, Up, MDTypeOK
    <3> QED BY <1>1, <1>3, <3>1, CallerOf DEF Running, TrackerCalled
  <2> QED BY <1>1, <1>3, <2>1, CallerOf DEF Up
<1>4. CASE c = Sig(t)
  <2>1. Tid(c) = t /\ handler[t] # "none"
    BY <1>1, <1>4, CallerOf DEF Running
  <2>2. at[Main(t)] \notin {"fin_info", "exited"}
    BY <2>1, CallerOf DEF FinalizerNotStruck, Final
  <2>3. saved[c] <=> at[Main(t)] \in Up
    BY <1>1, <1>4 DEF FlagsUp, Up
  <2> QED BY <1>1, <1>4, <2>1, <2>2, <2>3, CallerOf DEF Up, FlagsUp
<1> QED BY <1>2, <1>3, <1>4, ThreadOf

LEMMA FinDisableFlags ==
  ASSUME NoDumpAtExit, FinalizerNotStruck, MDTypeOK, TrackerCalled, LockHeld, FlagsUp, NEW c \in Caller, FinDisable(c)
  PROVE  FlagsUp'
<1>1. at[c] = "fin_disable" /\ c = Main(Tid(c)) /\ Tid(c) \in Thread
  BY ThreadOf, FinalizerAlone DEF FinDisable, Here, Final
<1>2. at' = [at EXCEPT ![c] = "fin_info"] /\ UNCHANGED saved
  BY <1>1, FinalizerAlone DEF FinDisable, Move, Final
<1>3. /\ \A d \in Caller : at'[d] = IF d = c THEN "fin_info" ELSE at[d]
      /\ \A t \in Thread : disabled'[t] = IF t = Tid(c) THEN TRUE ELSE disabled[t]
  BY <1>1, <1>2 DEF FinDisable, MDTypeOK
<1>4. at[Sig(Tid(c))] = "user"
  BY <1>1, FinalizerAlone DEF TrackerCalled, Final
<1> SUFFICES ASSUME NEW t \in Thread
             PROVE  /\ disabled'[t] <=> (at'[Main(t)] \in Up \cup {"fin_info", "exited"} \/ at'[Sig(t)] \in Up)
                    /\ at'[Main(t)] \in Up => ~ saved'[Main(t)]
                    /\ at'[Sig(t)] \in Up => (saved'[Sig(t)] <=> at'[Main(t)] \in Up)
  BY DEF FlagsUp
<1>5. CASE t # Tid(c)
  BY <1>1, <1>2, <1>3, <1>5, CallerOf DEF FlagsUp
<1>6. CASE t = Tid(c)
  <2>1. /\ c = Main(t) /\ Main(t) \in Caller /\ Sig(t) \in Caller /\ Sig(t) # c
        /\ at[Sig(t)] = "user"
    BY <1>1, <1>4, <1>6, CallerOf
  <2>2. at'[Main(t)] = "fin_info" /\ at'[Sig(t)] = "user" /\ disabled'[t]
    BY <1>3, <1>6, <2>1
  <2> QED BY <2>2 DEF Up
<1> QED BY <1>5, <1>6

LEMMA NextFlags ==
  ASSUME NoDumpAtExit, FinalizerNotStruck, TypeOK, MDTypeOK, TrackerCalled, LockHeld, FlagsUp, [MDNext]_allVars
  PROVE  FlagsUp'
<1> USE DEF Up
<1>0. {"disable", "body", "system", "enable", "unlock", "fin_disable", "fin_info", "exited", "rdlock",
        "user", "wrlock"} \subseteq Places
  BY DEF Places, InLock
<1>1. CASE UNCHANGED << at, disabled, saved >>
  BY <1>1 DEF FlagsUp
<1>2. ASSUME NEW c \in Caller, LibraryStep(c) \/ ProgramCall(c) \/ ProgramExits(c)
      PROVE  FlagsUp'
  <2>1. CASE TrackerStep(c) \/ WrWait(c)
    BY <1>1, <2>1 DEF TrackerStep, WrWait, mdVars
  <2>2. CASE RdLock(c) \/ WrLock(c) \/ FinInfo(c) \/ ProgramExits(c)
    <3>1. CASE RdLock(c)
      BY <1>0, <3>1, FlagsQuiet DEF RdLock, Here, Move
    <3>2. CASE WrLock(c)
      BY <1>0, <3>2, FlagsQuiet DEF WrLock, Here, Move
    <3>3. CASE FinInfo(c)
      BY <1>0, <3>3, FlagsQuiet DEF FinInfo, Here, Move
    <3>4. CASE ProgramExits(c)
      BY <1>0, <3>4, FlagsQuiet DEF ProgramExits, Here, Move
    <3> QED BY <2>2, <3>1, <3>2, <3>3, <3>4
  <2>3. CASE Unlock(c)
    <3>1. at[c] = "unlock" /\ at' = [at EXCEPT ![c] = "user"] /\ UNCHANGED << disabled, saved >>
      BY <2>3, UnlockHeld DEF Unlock, Here
    <3> QED BY <1>0, <3>1, FlagsQuiet
  <2>4. CASE ProgramCall(c)
    BY <1>0, <2>4, ProgramCallEnters, FlagsQuiet
  <2>5. CASE \/ AllocBody(c) \/ MmapBody(c) \/ TooLargeBody(c) \/ RemoveBody(c)
             \/ SystemFree(c) \/ SystemRealloc(c) \/ DumpBody(c)
    <3>1. PICK l \in {"system", "enable"} : Moves(c, l)
      BY <2>5, BodyMoves
    <3>2. at[c] \in {"body", "system"} /\ UNCHANGED << disabled, saved >>
      BY <2>5, BodyMoves
    <3> QED BY <1>0, <3>1, <3>2, FlagsQuiet DEF Moves
  <2> QED BY <1>2, <2>1, <2>2, <2>3, <2>4, <2>5, DisableFlags, EnableFlags, FinDisableFlags
             DEF LibraryStep
<1>3. ASSUME NEW t \in Thread, Deliver(t) \/ HandlerStep(t)
      PROVE  FlagsUp'
  <2>1. CASE UNCHANGED << at, call >>
    BY <1>1, <1>3, <2>1, HandlerStepEnters
  <2>2. CASE ~ UNCHANGED << at, call >>
    BY <1>0, <1>3, <2>2, HandlerStepEnters, CallerOf, FlagsQuiet
  <2> QED BY <2>1, <2>2
<1> QED BY <1>1, <1>2, <1>3, MDStuttering DEF MDNext, Arrival

(* The lock and flag invariant holds of every behaviour in which nothing   *)
(* on the finalizing thread takes and releases its write lock.             *)
THEOREM ScopesInvariant ==
  ASSUME NoDumpAtExit PROVE MDSpec /\ []FinalizerNotStruck => []ScopeInv
<1>1. MDInit => ScopeInv
  <2> SUFFICES ASSUME MDInit PROVE ScopeInv
    OBVIOUS
  <2>1. { c \in Caller : at[c] \in InLock } = {}
    BY DEF MDInit, InLock
  <2>2. LockHeld
    BY <2>1, FS_EmptySet, ThreadAssumption, CallerOf DEF MDInit, LockHeld, Final, NoCall
  <2>3. TrackerCalled /\ FlagsUp
    BY CallerOf DEF MDInit, Init, TrackerCalled, FlagsUp, Up
  <2> QED BY <2>2, <2>3 DEF ScopeInv
<1>2. TypeOK /\ MDTypeOK /\ FinalizerNotStruck /\ ScopeInv /\ [MDNext]_allVars => ScopeInv'
  BY NextCalled, NextLock, NextFlags DEF ScopeInv
<1>3. IInv => TypeOK
  BY DEF IInv
<1> QED BY <1>1, <1>2, <1>3, TrackerInLibrary, PTL DEF MDSpec

(* ScopedConcurrentLock and ScopedDisableDebugCalls nest, whatever the     *)
(* threads and the signal handlers on top of them do: the flag is up       *)
(* inside the tracker and down in the program's code, and the rwlock has a *)
(* reader for every caller between rdlock and unlock.                      *)
THEOREM ScopesAlwaysNest ==
  ASSUME NoDumpAtExit PROVE MDSpec /\ []FinalizerNotStruck => []ScopesNest
<1>1. ScopeInv => ScopesNest
  <2> SUFFICES ASSUME ScopeInv PROVE ScopesNest
    OBVIOUS
  <2>1. ASSUME NEW c \in Caller, pc[c] # "idle" PROVE disabled[Tid(c)]
    <3>1. at[c] \in {"system", "enable", "exited"}
      BY <2>1 DEF ScopeInv, TrackerCalled
    <3>2. at[c] = "exited" => c = Main(Tid(c))
      BY DEF ScopeInv, LockHeld, Final
    <3> QED BY <3>1, <3>2, ThreadOf DEF ScopeInv, FlagsUp, Up
  <2>2. \A t \in Thread : at[Main(t)] = "user" /\ at[Sig(t)] = "user" => ~ disabled[t]
    BY DEF ScopeInv, FlagsUp, Up
  <2> QED BY <2>1, <2>2 DEF ScopeInv, LockHeld, ScopesNest
<1> QED BY <1>1, ScopesInvariant, PTL

(* BlockAllOperations works: once debug_finalize has the write lock no     *)
(* other thread is, or gets, inside a debug_ function, with the dump       *)
(* signal on: signals strike the other threads, and this one until it has  *)
(* the lock, at any step.  A dump at exit gives the lock up, as the run    *)
(* md_exit_dump shows, and a signal that strikes the finalizing thread     *)
(* does the same: its handler's debug_dump_heap unlocks.                   *)
THEOREM FinalizeAlwaysExclusive ==
  ASSUME NoDumpAtExit PROVE MDSpec /\ []FinalizerNotStruck => []FinalizeExclusive
<1>1. MDTypeOK /\ ScopeInv => FinalizeExclusive
  <2> SUFFICES ASSUME MDTypeOK, ScopeInv, NEW t \in Thread, Finalizing(t),
                      NEW c \in Caller, Tid(c) # t
               PROVE  at[c] \notin InLock /\ pc[c] = "idle"
    BY DEF FinalizeExclusive
  <2>1. at[Main(t)] \in Final
    BY CallerOf DEF Finalizing, ScopeInv, LockHeld
  <2>2. lock_.writer = t
    BY <2>1, CallerOf DEF ScopeInv, LockHeld
  <2>3. at[c] \notin InLock
    BY <2>2, SomeoneInside, ThreadAssumption DEF ScopeInv
  <2>4. at[c] \notin Final
    BY <2>2 DEF ScopeInv, LockHeld
  <2> QED BY <2>3, <2>4 DEF ScopeInv, TrackerCalled, InLock, Final
<1> QED BY <1>1, ScopesInvariant, TrackerInLibrary, PTL
----------------------------------------------------------------------------
(* Effects.                                                                *)
LEMMA TrackEffects ==
  ASSUME TypeOK, MDTypeOK, NEW c \in Caller, NEW r \in Address \cup {NULL, MAP_FAILED}, Track(c, r)
  PROVE  /\ at'[c] = "enable" /\ \A d \in Caller : d # c => at'[d] = at[d]
         /\ call'[c].fn = call[c].fn /\ call'[c].ptr = call[c].ptr /\ call'[c].size = call[c].size
         /\ call'[c].result = r /\ \A d \in Caller : d # c => call'[d] = call[d]
         /\ UNCHANGED pointers_
         /\ \A d \in Caller : d # c => pc'[d] = pc[d] /\ arg'[d] = arg[d]
         /\ ~ TrackPointers => UNCHANGED << pc, arg >>
         /\ TrackPointers => /\ pc'[c] = "backtrace"
                             /\ arg'[c].ptr = r /\ arg'[c].size = call[c].size
                             /\ arg'[c].type = TypeOf(call[c].fn)
<1>1. at'[c] = "enable" /\ \A d \in Caller : d # c => at'[d] = at[d]
  BY DEF Track, Move, MDTypeOK
<1>2. /\ call'[c].fn = call[c].fn /\ call'[c].ptr = call[c].ptr /\ call'[c].size = call[c].size
      /\ call'[c].result = r /\ \A d \in Caller : d # c => call'[d] = call[d]
  BY DEF Track, MDTypeOK, CallType
<1>3. CASE ~ TrackPointers
  BY <1>1, <1>2, <1>3 DEF Track, vars, dataVars, mapVars, callerVars
<1>4. CASE TrackPointers
  BY <1>1, <1>2, <1>4 DEF Track, CallAdd, Goto, TypeOK, dataVars, mapVars
<1> QED BY <1>3, <1>4

LEMMA ReturnEffects ==
  ASSUME MDTypeOK, NEW c \in Caller, Return(c, NULL)
  PROVE  /\ at'[c] = "enable" /\ \A d \in Caller : d # c => at'[d] = at[d]
         /\ call'[c].fn = call[c].fn /\ call'[c].ptr = call[c].ptr /\ call'[c].size = call[c].size
         /\ call'[c].result = NULL /\ \A d \in Caller : d # c => call'[d] = call[d]
         /\ UNCHANGED << pointers_, pc, arg, heap >>
<1>1. at'[c] = "enable" /\ \A d \in Caller : d # c => at'[d] = at[d]
  BY DEF Return, Move, MDTypeOK
<1>2. /\ call'[c].fn = call[c].fn /\ call'[c].ptr = call[c].ptr /\ call'[c].size = call[c].size
      /\ call'[c].result = NULL /\ \A d \in Caller : d # c => call'[d] = call[d]
  BY DEF Return, MDTypeOK, CallType
<1> QED BY <1>1, <1>2 DEF Return, vars, dataVars, mapVars, callerVars

(* Each step of a debug_ function, as one of six.                          *)
OnlyAt(c) == \A d \in Caller : d # c => at'[d] = at[d] /\ call'[d] = call[d]
OnlyPc(c) == \A d \in Caller : d # c => pc'[d] = pc[d] /\ arg'[d] = arg[d]

SameCall(c) ==
  call'[c].fn = call[c].fn /\ call'[c].ptr = call[c].ptr /\ call'[c].size = call[c].size

Adds(c) ==
  /\ ~ TrackPointers => UNCHANGED << pc, arg >>
  /\ TrackPointers => /\ pc'[c] = "backtrace"
                      /\ arg'[c].ptr = call'[c].result /\ arg'[c].size = call[c].size
                      /\ arg'[c].type = TypeOf(call[c].fn)

(* A new block, from the system's allocator or mmap.                       *)
GetsBlock(c) ==
  /\ at[c] = "body" /\ at'[c] = "enable" /\ call[c].fn \in Allocates \cup {"realloc"}
  /\ call[c].fn = "realloc" => call[c].ptr = NULL
  /\ \E p \in Address \ DOMAIN heap :
       /\ call'[c].result = p
       /\ heap' = Put(heap, p, [type |-> TypeOf(call[c].fn), size |-> call[c].size, direct |-> FALSE])
  /\ Adds(c)

(* A failed allocation that is added, from malloc, realloc or mmap.        *)
AddsFailure(c) ==
  /\ at[c] \in {"body", "system"} /\ at'[c] = "enable" /\ UNCHANGED heap
  /\ call'[c].result \in {NULL, MAP_FAILED} /\ call[c].fn \in FailOps \cap {"malloc", "realloc", "mmap"}
  /\ at[c] = "system" => call[c].fn = "realloc" /\ call[c].size # 0
  /\ at[c] = "body" /\ call[c].fn = "realloc" => call[c].ptr = NULL
  /\ Adds(c)

(* A failure that is not added: calloc, memalign, and sizes too large.     *)
GetsNothing(c) ==
  /\ at[c] = "body" /\ at'[c] = "enable" /\ UNCHANGED << heap, pc, arg >> /\ call'[c].result = NULL
  /\ call[c].fn \in {"malloc", "calloc", "memalign", "mmap", "realloc"}
  /\ call[c].fn = "realloc" => call[c].size # 0

StartsRemove(c) ==
  /\ at[c] = "body" /\ at'[c] = "system" /\ UNCHANGED << heap, call >> /\ call[c].ptr # NULL
  /\ TrackPointers => pc'[c] = "rm_lock" /\ arg'[c].ptr = call[c].ptr
  /\ ~ TrackPointers => UNCHANGED << pc, arg >>

GivesBack(c) ==
  /\ at[c] = "system" /\ at'[c] = "enable" /\ UNCHANGED << pc, arg >> /\ pc[c] = "idle"
  /\ \/ /\ heap' = Erase(heap, call[c].ptr) /\ UNCHANGED call
        /\ call[c].fn = "realloc" => call[c].size = 0
     \/ /\ UNCHANGED heap /\ call[c].fn = "munmap" /\ "munmap" \in FailOps
        /\ call'[c].result = call[c].ptr

Reallocates(c) ==
  /\ at[c] = "system" /\ at'[c] = "enable" /\ pc[c] = "idle" /\ call[c].fn = "realloc"
  /\ \E p \in Address \ (DOMAIN heap \ {call[c].ptr}) :
       /\ call'[c].result = p
       /\ heap' = Put(Erase(heap, call[c].ptr), p,
                      [type |-> "HOST", size |-> call[c].size, direct |-> FALSE])
  /\ Adds(c)

Dumps(c) ==
  /\ at[c] = "body" /\ at'[c] = "enable" /\ UNCHANGED << heap, call, arg >>
  /\ call[c].fn \in {"dump_heap", "exit_dump"} /\ pc'[c] \notin Adding \cup Removing

LEMMA BodyEffects ==
  ASSUME TypeOK, MDTypeOK, NEW c \in Caller,
         \/ AllocBody(c) \/ MmapBody(c) \/ TooLargeBody(c) \/ RemoveBody(c)
         \/ SystemFree(c) \/ SystemRealloc(c) \/ DumpBody(c)
  PROVE  /\ OnlyAt(c) /\ OnlyPc(c) /\ SameCall(c) /\ UNCHANGED pointers_ /\ pc[c] = "idle"
         /\ Running(c) /\ UNCHANGED << user, disabled, saved, handler, temp >>
         /\ \/ GetsBlock(c) \/ AddsFailure(c) \/ GetsNothing(c) \/ StartsRemove(c)
            \/ GivesBack(c) \/ Reallocates(c) \/ Dumps(c)
<1>1. /\ pc[c] = "idle" /\ Running(c) /\ UNCHANGED << user, disabled, saved, handler, temp >>
  BY DEF AllocBody, MmapBody, TooLargeBody, RemoveBody, SystemFree, SystemRealloc, DumpBody,
         Here, heapVars, sigVars
<1>2. OnlyPc(c) /\ UNCHANGED pointers_
  BY BodyType, AnyCallLocal DEF vars, callerVars, OnlyPc, dataVars, mapVars
<1>3. SUFFICES /\ OnlyAt(c) /\ SameCall(c)
               /\ \/ GetsBlock(c) \/ AddsFailure(c) \/ GetsNothing(c) \/ StartsRemove(c)
                  \/ GivesBack(c) \/ Reallocates(c) \/ Dumps(c)
  BY <1>1, <1>2
<1>4. ASSUME NEW r \in Address \cup {NULL, MAP_FAILED}, Track(c, r)
      PROVE  OnlyAt(c) /\ SameCall(c) /\ Adds(c) /\ at'[c] = "enable" /\ call'[c].result = r
  BY <1>4, TrackEffects DEF OnlyAt, SameCall, Adds
<1>5. ASSUME Return(c, NULL)
      PROVE  /\ OnlyAt(c) /\ SameCall(c) /\ UNCHANGED << heap, pc, arg >>
             /\ at'[c] = "enable" /\ call'[c].result = NULL
  BY <1>5, ReturnEffects DEF OnlyAt, SameCall
<1>6. CASE AllocBody(c)
  <2>1. /\ at[c] = "body" /\ call[c].fn \in {"malloc", "calloc", "memalign", "realloc"}
        /\ call[c].fn = "realloc" => call[c].ptr = NULL
        /\ TypeOf(call[c].fn) = "HOST"
    BY <1>6 DEF AllocBody, Here, IsNew, Allocates, TypeOf
  <2>2. ASSUME NEW p \in Address, NewBlock(p, call[c].size, "HOST"), Track(c, p)
        PROVE  OnlyAt(c) /\ SameCall(c) /\ GetsBlock(c)
    BY <1>4, <2>1, <2>2 DEF NewBlock, GetsBlock, Allocates
  <2>3. ASSUME call[c].fn \in {"calloc", "memalign"}, Return(c, NULL)
        PROVE  OnlyAt(c) /\ SameCall(c) /\ GetsNothing(c)
    BY <1>5, <2>1, <2>3 DEF GetsNothing
  <2>4. ASSUME call[c].fn \in FailOps, call[c].fn \in {"malloc", "realloc"}, Track(c, NULL), UNCHANGED heap
        PROVE  OnlyAt(c) /\ SameCall(c) /\ AddsFailure(c)
    BY <1>4, <2>1, <2>4 DEF AddsFailure
  <2> QED BY <1>6, <2>2, <2>3, <2>4 DEF AllocBody
<1>7. CASE MmapBody(c)
  <2>1. at[c] = "body" /\ call[c].fn = "mmap" /\ TypeOf(call[c].fn) = "MMAP"
    BY <1>7 DEF MmapBody, Here, TypeOf
  <2>2. ASSUME NEW p \in Address, NewBlock(p, call[c].size, "MMAP"), Track(c, p)
        PROVE  OnlyAt(c) /\ SameCall(c) /\ GetsBlock(c)
    BY <1>4, <2>1, <2>2 DEF NewBlock, GetsBlock, Allocates
  <2>3. ASSUME "mmap" \in FailOps, Track(c, MAP_FAILED), UNCHANGED heap
        PROVE  OnlyAt(c) /\ SameCall(c) /\ AddsFailure(c)
    BY <1>4, <2>1, <2>3 DEF AddsFailure
  <2> QED BY <1>7, <2>2, <2>3 DEF MmapBody
<1>8. CASE TooLargeBody(c)
  <2>1. /\ at[c] = "body" /\ call[c].fn \in {"malloc", "memalign", "mmap", "realloc"}
        /\ call[c].size # 0
    BY <1>8, SizeAssumption DEF TooLargeBody, Here, TooLarge, MDTypeOK, CallType
  <2> QED BY <1>5, <1>8, <2>1 DEF TooLargeBody, GetsNothing
<1>9. CASE RemoveBody(c)
  <2>1. OnlyAt(c) /\ SameCall(c) /\ UNCHANGED << heap, call >> /\ at[c] = "body" /\ at'[c] = "system"
        /\ call[c].ptr # NULL
    BY <1>9 DEF RemoveBody, Here, Move, heapVars, OnlyAt, SameCall, MDTypeOK
  <2>2. /\ TrackPointers => pc'[c] = "rm_lock" /\ arg'[c].ptr = call[c].ptr
        /\ ~ TrackPointers => UNCHANGED << pc, arg >>
    BY <1>9 DEF RemoveBody, CallRemove, Goto, TypeOK, NoArg, vars, callerVars
  <2> QED BY <2>1, <2>2 DEF StartsRemove
<1>10. CASE SystemFree(c)
  <2>1. /\ at[c] = "system" /\ at'[c] = "enable" /\ \A d \in Caller : d # c => at'[d] = at[d]
        /\ UNCHANGED << pc, arg >>
    BY <1>10 DEF SystemFree, Here, Move, MDTypeOK, vars, callerVars
  <2>2. CASE heap' = Erase(heap, call[c].ptr) /\ UNCHANGED call
    BY <1>1, <1>10, <2>1, <2>2 DEF SystemFree, Frees, GivesBack, OnlyAt, SameCall
  <2>3. CASE /\ call[c].fn = "munmap" /\ "munmap" \in FailOps
             /\ call' = [call EXCEPT ![c].result = call[c].ptr] /\ UNCHANGED heap
    <3>1. /\ \A d \in Caller : d # c => call'[d] = call[d]
          /\ SameCall(c) /\ call'[c].result = call[c].ptr
      BY <2>3 DEF MDTypeOK, CallType, SameCall
    <3> QED BY <1>1, <2>1, <2>3, <3>1 DEF GivesBack, OnlyAt
  <2> QED BY <1>10, <2>2, <2>3 DEF SystemFree
<1>11. CASE SystemRealloc(c)
  <2>1. at[c] = "system" /\ call[c].fn = "realloc" /\ call[c].size # 0
    BY <1>11 DEF SystemRealloc, Here, Frees
  <2>2. ASSUME NEW p \in Address \ (DOMAIN heap \ {call[c].ptr}), Track(c, p),
               heap' = Put(Erase(heap, call[c].ptr), p,
                           [type |-> "HOST", size |-> call[c].size, direct |-> FALSE])
        PROVE  OnlyAt(c) /\ SameCall(c) /\ Reallocates(c)
    BY <1>1, <1>4, <2>1, <2>2 DEF Reallocates
  <2>3. ASSUME "realloc" \in FailOps, Track(c, NULL), UNCHANGED heap
        PROVE  OnlyAt(c) /\ SameCall(c) /\ AddsFailure(c)
    BY <1>4, <2>1, <2>3 DEF AddsFailure
  <2> QED BY <1>11, <2>2, <2>3 DEF SystemRealloc
<1>12. CASE DumpBody(c)
  <2>1. /\ at[c] = "body" /\ at'[c] = "enable" /\ \A d \in Caller : d # c => at'[d] = at[d]
        /\ UNCHANGED << heap, call >> /\ call[c].fn \in {"dump_heap", "exit_dump"}
    BY <1>12 DEF DumpBody, Here, Move, MDTypeOK, heapVars
  <2>2. UNCHANGED arg /\ pc'[c] \notin Adding \cup Removing
    BY <1>1, <1>12 DEF DumpBody, CallDump, Goto, TypeOK, vars, callerVars, Adding, Removing
  <2> QED BY <2>1, <2>2 DEF Dumps, OnlyAt, SameCall
<1> QED BY <1>6, <1>7, <1>8, <1>9, <1>10, <1>11, <1>12

(* The calls that only move on, and the ones that start.                   *)
MovesOn(c) ==
  /\ OnlyAt(c) /\ UNCHANGED call /\ at'[c] # at[c]
  /\ \/ at[c] = "rdlock" /\ at'[c] = "disable"
     \/ at[c] = "disable" /\ at'[c] = "body"
     \/ at[c] = "enable" /\ at'[c] = "unlock"
     \/ at[c] = "wrlock" /\ at'[c] = "fin_disable"
     \/ at[c] = "fin_disable" /\ at'[c] = "fin_info"
     \/ at[c] = "fin_info" /\ at'[c] = "exited"

LEMMA MovesOnEffects ==
  ASSUME TypeOK, MDTypeOK, NEW c \in Caller,
         \/ RdLock(c) \/ Disable(c) \/ Enable(c) \/ WrLock(c) \/ FinInfo(c)
         \/ FinDisable(c) /\ ~ ("BACKTRACE" \in Options /\ DumpOnExit)
  PROVE  /\ MovesOn(c) /\ OnlyPc(c) /\ UNCHANGED << heap, user, pointers_, arg, handler, temp >>
         /\ Running(c) /\ pc[c] = "idle" /\ pc'[c] \notin Adding \cup Removing
<1> USE DEF Here, Move, heapVars, sigVars, MDTypeOK
<1>0. ASSUME UNCHANGED vars, pc[c] = "idle"
      PROVE  OnlyPc(c) /\ UNCHANGED << pointers_, arg >> /\ pc'[c] \notin Adding \cup Removing
  BY <1>0 DEF vars, dataVars, mapVars, callerVars, OnlyPc, Adding, Removing
<1>1. CASE RdLock(c)
  BY <1>0, <1>1 DEF RdLock, MovesOn, OnlyAt
<1>2. CASE Disable(c)
  BY <1>0, <1>2 DEF Disable, MovesOn, OnlyAt
<1>3. CASE Enable(c)
  BY <1>0, <1>3 DEF Enable, MovesOn, OnlyAt
<1>4. CASE WrLock(c)
  BY <1>0, <1>4 DEF WrLock, MovesOn, OnlyAt
<1>5. CASE FinInfo(c)
  <2>1. OnlyPc(c) /\ UNCHANGED << pointers_, arg >> /\ pc'[c] \notin Adding \cup Removing
    BY <1>0, <1>5 DEF FinInfo, CallPeakInfo, Goto, TypeOK, OnlyPc, dataVars, mapVars, Adding, Removing
  <2> QED BY <1>5, <2>1 DEF FinInfo, MovesOn, OnlyAt
<1>6. CASE FinDisable(c) /\ ~ ("BACKTRACE" \in Options /\ DumpOnExit)
  BY <1>0, <1>6 DEF FinDisable, MovesOn, OnlyAt
<1> QED BY <1>1, <1>2, <1>3, <1>4, <1>5, <1>6

(* debug_finalize, at its dump.                                            *)
LEMMA ExitDumpEffects ==
  ASSUME MDTypeOK, NEW c \in Caller, FinDisable(c), "BACKTRACE" \in Options /\ DumpOnExit
  PROVE  /\ OnlyAt(c) /\ at[c] = "fin_disable" /\ at'[c] = "rdlock" /\ call'[c].fn = "exit_dump"
         /\ call'[c].ptr = call[c].ptr /\ call'[c].result = call[c].result
         /\ UNCHANGED vars /\ UNCHANGED << heap, user, handler, temp >> /\ Running(c) /\ pc[c] = "idle"
<1>1. /\ \A d \in Caller : d # c => call'[d] = call[d]
      /\ call'[c].fn = "exit_dump" /\ call'[c].ptr = call[c].ptr /\ call'[c].result = call[c].result
  BY DEF FinDisable, MDTypeOK, CallType
<1> QED BY <1>1 DEF FinDisable, Here, Move, heapVars, sigVars, MDTypeOK, OnlyAt

LEMMA UnlockEffects ==
  ASSUME MDTypeOK, NEW c \in Caller, Unlock(c)
  PROVE  /\ OnlyAt(c) /\ at[c] = "unlock" /\ UNCHANGED vars
         /\ UNCHANGED << heap, handler, disabled, saved >> /\ Running(c) /\ pc[c] = "idle"
         /\ \/ /\ call[c].fn = "exit_dump" /\ at'[c] = "fin_info" /\ call'[c].fn = "finalize"
               /\ call'[c].ptr = call[c].ptr /\ call'[c].result = call[c].result
               /\ UNCHANGED << user, temp >>
            \/ /\ at'[c] = "user" /\ call'[c] = NoCall
               /\ c = Main(Tid(c)) /\ user' = user \cup GivenTo(c) /\ UNCHANGED temp
            \/ /\ at'[c] = "user" /\ call'[c] = NoCall
               /\ c = Sig(Tid(c)) /\ UNCHANGED user
               /\ \A t \in Thread : t # Tid(c) => temp'[t] = temp[t]
               /\ temp'[Tid(c)] = IF call[c].fn = "malloc" THEN call[c].result ELSE temp[Tid(c)]
<1>1. /\ \A d \in Caller : d # c => at'[d] = at[d] /\ call'[d] = call[d]
      /\ at[c] = "unlock" /\ Running(c) /\ pc[c] = "idle"
      /\ UNCHANGED vars /\ UNCHANGED << heap, handler, disabled, saved >>
  BY DEF Unlock, Here, Move, MDTypeOK
<1>2. CASE call[c].fn = "exit_dump"
  <2>1. call'[c].fn = "finalize" /\ call'[c].ptr = call[c].ptr /\ call'[c].result = call[c].result
    BY <1>2 DEF Unlock, MDTypeOK, CallType
  <2> QED BY <1>1, <1>2, <2>1 DEF Unlock, Move, MDTypeOK, OnlyAt
<1>3. CASE call[c].fn # "exit_dump"
  <2>1. at'[c] = "user" /\ call'[c] = NoCall
    BY <1>3 DEF Unlock, Move, MDTypeOK
  <2>2. CASE c = Main(Tid(c))
    BY <1>1, <1>3, <2>1, <2>2 DEF Unlock, OnlyAt
  <2>3. CASE c # Main(Tid(c))
    BY <1>1, <1>3, <2>1, <2>3, ThreadOf DEF Unlock, OnlyAt, MDTypeOK
  <2> QED BY <2>2, <2>3
<1> QED BY <1>2, <1>3

Starts(c, fn, p) ==
  /\ OnlyAt(c) /\ at[c] = "user" /\ at'[c] = "rdlock"
  /\ call'[c].fn = fn /\ call'[c].ptr = p /\ call'[c].result = NULL

LEMMA EnterEffects ==
  ASSUME MDTypeOK, NEW c \in Caller, NEW fn, NEW p, NEW n, at[c] = "user", Enter(c, fn, p, n)
  PROVE  Starts(c, fn, p) /\ UNCHANGED heap
BY DEF Enter, Move, MDTypeOK, OnlyAt, Starts

LEMMA ProgramCallEffects ==
  ASSUME MDTypeOK, NEW c \in Caller, ProgramCall(c)
  PROVE  /\ UNCHANGED << heap, handler, temp >> /\ c = Main(Tid(c))
         /\ \/ \E fn \in Functions : Starts(c, fn, NULL) /\ UNCHANGED user
            \/ \E fn \in {"free", "munmap", "realloc"}, p \in user :
                 Starts(c, fn, p) /\ user' = user \ {p}
<1>1. at[c] = "user" /\ c = Main(Tid(c)) /\ UNCHANGED << handler, temp >>
  BY DEF ProgramCall, Here, sigVars
<1>2. CASE ProgramAllocates(c)
  BY <1>1, <1>2, EnterEffects DEF ProgramAllocates, Functions, Allocates
<1>3. CASE ProgramGivesBack(c)
  BY <1>1, <1>3, EnterEffects DEF ProgramGivesBack
<1>4. CASE ProgramReallocates(c)
  BY <1>1, <1>4, EnterEffects DEF ProgramReallocates, Functions
<1>5. CASE ProgramDumps(c)
  BY <1>1, <1>5, EnterEffects DEF ProgramDumps, Functions
<1> QED BY <1>2, <1>3, <1>4, <1>5 DEF ProgramCall

LEMMA ProgramExitsEffects ==
  ASSUME MDTypeOK, NEW c \in Caller, ProgramExits(c)
  PROVE  /\ OnlyAt(c) /\ at[c] = "user" /\ at'[c] = "wrlock" /\ c = Main(Tid(c))
         /\ call'[c].fn = "finalize" /\ call'[c].ptr = NULL /\ call'[c].result = NULL
         /\ UNCHANGED vars /\ UNCHANGED << heap, user, handler, temp >> /\ Running(c)
BY DEF ProgramExits, Here, Move, heapVars, sigVars, MDTypeOK, OnlyAt, NoCall

(* A handler's own steps.                                                  *)
LEMMA HandlerEffects ==
  ASSUME MDTypeOK, NEW t \in Thread, Deliver(t) \/ HandlerStep(t)
  PROVE  /\ UNCHANGED vars /\ UNCHANGED << user, disabled, saved >>
         /\ \A u \in Thread : u # t => temp'[u] = temp[u] /\ handler'[u] = handler[u]
         /\ \/ /\ UNCHANGED << heap, at, call, temp >>
               /\ \/ handler[t] = "none" /\ handler'[t] \in {"name", "return"}
                  \/ at[Sig(t)] = "user" /\ handler[t] = "return" /\ handler'[t] = "none"
            \/ /\ UNCHANGED << heap, temp >> /\ Starts(Sig(t), "malloc", NULL)
               /\ ~ disabled[t] /\ handler'[t] = "dump"
            \/ /\ UNCHANGED << at, call >> /\ disabled[t] /\ at[Sig(t)] = "user"
               /\ handler'[t] = "dump"
               /\ \E p \in Address \ DOMAIN heap :
                    /\ temp'[t] = p
                    /\ heap' = Put(heap, p, [type |-> "HOST", size |-> NameSize, direct |-> TRUE])
            \/ /\ UNCHANGED << heap, temp >> /\ Starts(Sig(t), "dump_heap", NULL)
               /\ handler'[t] = "release"
            \/ /\ UNCHANGED heap /\ Starts(Sig(t), "free", temp[t]) /\ temp[t] # NULL
               /\ ~ disabled[t] /\ temp'[t] = NULL /\ handler'[t] = "return"
            \/ /\ UNCHANGED << at, call >> /\ at[Sig(t)] = "user" /\ (disabled[t] \/ temp[t] = NULL)
               /\ heap' = Erase(heap, temp[t]) /\ temp'[t] = NULL /\ handler'[t] = "return"
<1>0. DOMAIN handler = Thread /\ DOMAIN temp = Thread /\ Sig(t) \in Caller /\ UNCHANGED vars
  BY CallerOf, HandlerType DEF MDTypeOK
<1> USE <1>0 DEF Handle, Here, heapVars
<1>1. CASE Deliver(t)
  BY <1>1 DEF Deliver
<1>2. CASE HandlerName(t)
  BY <1>2, EnterEffects DEF HandlerName, Enter
<1>3. CASE HandlerDump(t)
  BY <1>3, EnterEffects DEF HandlerDump, Enter
<1>4. CASE HandlerRelease(t)
  BY <1>4, EnterEffects DEF HandlerRelease, Enter
<1>5. CASE HandlerReturn(t)
  BY <1>5 DEF HandlerReturn
<1> QED BY <1>1, <1>2, <1>3, <1>4, <1>5 DEF HandlerStep

----------------------------------------------------------------------------
(* What the calls know.                                                    *)
LEMMA GoesOnFrame ==
  ASSUME CallsGoOn, NEW c \in Caller, OnlyAt(c), CallGoesOn(c)'
  PROVE  CallsGoOn'
BY DEF CallsGoOn, CallGoesOn, OnlyAt

LEMMA NextGoesOn ==
  ASSUME TypeOK, MDTypeOK, CallsGoOn, [MDNext]_allVars
  PROVE  CallsGoOn'
<1> USE DEF CallGoesOn, Final
<1>1. CASE UNCHANGED << at, call >>
  BY <1>1 DEF CallsGoOn
<1>2. ASSUME NEW c \in Caller, LibraryStep(c) \/ ProgramCall(c) \/ ProgramExits(c)
      PROVE  CallsGoOn'
  <2>0. CallGoesOn(c)
    BY DEF CallsGoOn
  <2>1. CASE TrackerStep(c) \/ WrWait(c)
    BY <1>1, <2>1 DEF TrackerStep, WrWait, mdVars
  <2>2. CASE \/ AllocBody(c) \/ MmapBody(c) \/ TooLargeBody(c) \/ RemoveBody(c)
             \/ SystemFree(c) \/ SystemRealloc(c) \/ DumpBody(c)
    <3>1. /\ OnlyAt(c) /\ SameCall(c)
          /\ \/ GetsBlock(c) \/ AddsFailure(c) \/ GetsNothing(c) \/ StartsRemove(c)
             \/ GivesBack(c) \/ Reallocates(c) \/ Dumps(c)
      BY <2>2, BodyEffects
    <3>2. CallGoesOn(c)'
      BY <2>0, <3>1 DEF SameCall, GetsBlock, AddsFailure, GetsNothing, StartsRemove, GivesBack,
                        Reallocates, Dumps, Allocates
    <3> QED BY <3>1, <3>2, GoesOnFrame
  <2>3. CASE \/ RdLock(c) \/ Disable(c) \/ Enable(c) \/ WrLock(c) \/ FinInfo(c)
             \/ FinDisable(c) /\ ~ ("BACKTRACE" \in Options /\ DumpOnExit)
    <3>1. MovesOn(c)
      BY <2>3, MovesOnEffects
    <3>2. CallGoesOn(c)'
      BY <2>0, <3>1 DEF MovesOn
    <3> QED BY <3>1, <3>2, GoesOnFrame DEF MovesOn
  <2>4. CASE FinDisable(c) /\ "BACKTRACE" \in Options /\ DumpOnExit
    BY <2>0, <2>4, ExitDumpEffects, GoesOnFrame
  <2>5. CASE Unlock(c)
    <3>1. NoCall.ptr = NULL /\ NoCall.result = NULL
      BY DEF NoCall
    <3>2. OnlyAt(c) /\ CallGoesOn(c)'
      BY <2>0, <2>5, <3>1, UnlockEffects DEF Allocates
    <3> QED BY <3>2, GoesOnFrame
  <2>6. CASE ProgramCall(c)
    <3>1. OnlyAt(c) /\ CallGoesOn(c)'
      BY <2>6, ProgramCallEffects DEF Starts
    <3> QED BY <3>1, GoesOnFrame
  <2>7. CASE ProgramExits(c)
    BY <2>7, ProgramExitsEffects, GoesOnFrame
  <2> QED BY <1>2, <2>1, <2>2, <2>3, <2>4, <2>5, <2>6, <2>7 DEF LibraryStep
<1>3. ASSUME NEW t \in Thread, Deliver(t) \/ HandlerStep(t)
      PROVE  CallsGoOn'
  <2>1. CASE UNCHANGED << at, call >>
    BY <1>1, <2>1
  <2>2. CASE \E fn \in {"malloc", "free", "dump_heap"} : \E p :
               Starts(Sig(t), fn, p) /\ (p = NULL \/ fn = "free")
    <3>1. OnlyAt(Sig(t)) /\ CallGoesOn(Sig(t))' /\ Sig(t) \in Caller
      BY <2>2, CallerOf DEF Starts
    <3> QED BY <3>1, GoesOnFrame
  <2> QED BY <1>3, <2>1, <2>2, HandlerEffects
<1> QED BY <1>1, <1>2, <1>3, MDStuttering DEF MDNext, Arrival

----------------------------------------------------------------------------
(* Who owns a block.                                                       *)
LEMMA HasFrame ==
  ASSUME NEW c \in Caller, OnlyAt(c)
  PROVE  \A d \in Caller : d # c => Has(d)' = Has(d)
BY DEF OnlyAt, Has, Keeps

LEMMA OneBlock ==
  ASSUME NEW c \in Caller
  PROVE  /\ Has(c) \subseteq Address
         /\ \A p, q \in Has(c) : p = q
         /\ call[c].result \in Address => Has(c) = {call[c].result}
         /\ call[c].result \notin Address /\ Keeps(c) => Has(c) = {call[c].ptr} \cap Address
         /\ call[c].result \notin Address /\ ~ Keeps(c) => Has(c) = {}
BY DEF Has

(* A caller's step that leaves the program's blocks, the handlers' and the *)
(* other callers' alone, and ends with a block it had or a new one.        *)
LEMMA OwnedFrame ==
  ASSUME MDTypeOK, Owned, NEW c \in Caller, OnlyAt(c), UNCHANGED << user, temp >>,
         \A p \in Has(c)' : /\ p \in DOMAIN heap' /\ ~ heap'[p].direct
                            /\ p \in Has(c) \/ p \notin DOMAIN heap,
         \A q \in DOMAIN heap : q \notin Has(c) => q \in DOMAIN heap' /\ heap'[q] = heap[q]
  PROVE  Owned'
<1>0. \A d \in Caller : d # c => Has(d)' = Has(d)
  BY HasFrame
<1>1. user' \subseteq DOMAIN heap' /\ \A p \in user' : ~ heap'[p].direct
  BY DEF Owned
<1>2. \A d \in Caller : \A p \in Has(d)' : p \in DOMAIN heap' \ user' /\ ~ heap'[p].direct
  BY <1>0 DEF Owned
<1>3. \A d, e \in Caller : d # e => Has(d)' \cap Has(e)' = {}
  BY <1>0 DEF Owned
<1>4. \A t \in Thread : temp'[t] # NULL =>
       /\ temp'[t] \in DOMAIN heap' \ user'
       /\ \A d \in Caller : temp'[t] \notin Has(d)'
       /\ \A u \in Thread : u # t => temp'[u] # temp'[t]
  BY <1>0 DEF Owned
<1> QED BY <1>1, <1>2, <1>3, <1>4 DEF Owned

LEMMA OwnedQuiet ==
  ASSUME MDTypeOK, Owned, NEW c \in Caller, OnlyAt(c), UNCHANGED << heap, user, temp >>,
         Has(c)' \subseteq Has(c)
  PROVE  Owned'
BY OwnedFrame DEF Owned

LEMMA BodyOwned ==
  ASSUME TypeOK, MDTypeOK, CallsGoOn, Owned, NEW c \in Caller,
         \/ AllocBody(c) \/ MmapBody(c) \/ TooLargeBody(c) \/ RemoveBody(c)
         \/ SystemFree(c) \/ SystemRealloc(c) \/ DumpBody(c)
  PROVE  Owned'
<1>1. OnlyAt(c) /\ SameCall(c) /\ UNCHANGED << user, temp >>
  BY BodyEffects
<1>2. CallGoesOn(c) /\ call[c].ptr \in Address \cup {NULL}
  BY DEF CallsGoOn, MDTypeOK, CallType
<1>n. NULL \notin Address /\ MAP_FAILED \notin Address
  BY AddressRange
<1>3. at[c] \in {"body", "system"} => call[c].result = NULL /\ Has(c) = {call[c].ptr} \cap Address
  BY <1>2, <1>n DEF CallGoesOn, Has, Keeps
<1>4. CASE GetsBlock(c)
  <2>1. PICK p \in Address \ DOMAIN heap :
          /\ call'[c].result = p
          /\ heap' = Put(heap, p, [type |-> TypeOf(call[c].fn), size |-> call[c].size, direct |-> FALSE])
    BY <1>4 DEF GetsBlock
  <2>2. Has(c)' = {p}
    BY <2>1 DEF Has
  <2>3. /\ p \in DOMAIN heap' /\ heap'[p].direct = FALSE
        /\ \A q \in DOMAIN heap : q \in DOMAIN heap' /\ heap'[q] = heap[q]
    BY <2>1 DEF Put
  <2> QED BY <1>1, <2>1, <2>2, <2>3, OwnedFrame
<1>5. CASE Reallocates(c)
  <2>1. PICK p \in Address \ (DOMAIN heap \ {call[c].ptr}) :
          /\ call'[c].result = p
          /\ heap' = Put(Erase(heap, call[c].ptr), p,
                         [type |-> "HOST", size |-> call[c].size, direct |-> FALSE])
    BY <1>5 DEF Reallocates
  <2>2. Has(c)' = {p} /\ Has(c) = {call[c].ptr}
    BY <1>2, <1>3, <1>5, <2>1 DEF Has, Reallocates, CallGoesOn
  <2>3. /\ p \in DOMAIN heap' /\ heap'[p].direct = FALSE
        /\ \A q \in DOMAIN heap : q # call[c].ptr => q \in DOMAIN heap' /\ heap'[q] = heap[q]
    BY <2>1 DEF Put, Erase
  <2>4. p \in Has(c) \/ p \notin DOMAIN heap
    BY <2>1, <2>2
  <2> QED BY <1>1, <2>2, <2>3, <2>4, OwnedFrame
<1>6. CASE GivesBack(c) /\ heap' = Erase(heap, call[c].ptr) /\ UNCHANGED call
  <2>1. Has(c)' = {} /\ Has(c) = {call[c].ptr}
    BY <1>1, <1>2, <1>3, <1>6 DEF Has, Keeps, GivesBack, CallGoesOn
  <2>2. \A q \in DOMAIN heap : q # call[c].ptr => q \in DOMAIN heap' /\ heap'[q] = heap[q]
    BY <1>6 DEF Erase
  <2> QED BY <1>1, <2>1, <2>2, OwnedFrame
<1>7. CASE /\ UNCHANGED heap /\ at[c] \in {"body", "system"}
           /\ \/ AddsFailure(c) \/ GetsNothing(c) \/ StartsRemove(c) \/ Dumps(c)
              \/ GivesBack(c) /\ call'[c].result = call[c].ptr
  <2>1. Has(c)' \subseteq Has(c)
    BY <1>1, <1>2, <1>3, <1>7, <1>n DEF Has, Keeps, SameCall, AddsFailure, GetsNothing, StartsRemove,
                                        Dumps, GivesBack, CallGoesOn
  <2> QED BY <1>1, <1>7, <2>1, OwnedQuiet
<1>8. \/ GetsBlock(c) \/ AddsFailure(c) \/ GetsNothing(c) \/ StartsRemove(c)
      \/ GivesBack(c) \/ Reallocates(c) \/ Dumps(c)
  BY BodyEffects
<1>9. CASE GivesBack(c)
  BY <1>6, <1>7, <1>9 DEF GivesBack
<1>10. CASE AddsFailure(c) \/ GetsNothing(c) \/ StartsRemove(c) \/ Dumps(c)
  BY <1>7, <1>10 DEF AddsFailure, GetsNothing, StartsRemove, Dumps
<1> QED BY <1>4, <1>5, <1>8, <1>9, <1>10

(* The program passes a block it has to a call, or gets one back.          *)
LEMMA ProgramCallOwned ==
  ASSUME MDTypeOK, CallsGoOn, Owned, NEW c \in Caller, ProgramCall(c)
  PROVE  Owned'
<1>0. NULL \notin Address /\ user \subseteq Address
  BY AddressRange DEF MDTypeOK
<1>1. UNCHANGED << heap, temp >>
  BY ProgramCallEffects
<1>2. ASSUME NEW fn, Starts(c, fn, NULL), UNCHANGED user
      PROVE  Owned'
  <2>1. Has(c)' = {}
    BY <1>0, <1>2 DEF Starts, Has
  <2> QED BY <1>1, <1>2, <2>1, OwnedQuiet DEF Starts
<1>3. ASSUME NEW fn, NEW p \in user, Starts(c, fn, p), user' = user \ {p}
      PROVE  Owned'
  <2>1. Has(c)' = {p} /\ \A d \in Caller : d # c => Has(d)' = Has(d)
    BY <1>0, <1>3, HasFrame DEF Starts, Has, Keeps
  <2>2. user' \subseteq DOMAIN heap' /\ \A q \in user' : ~ heap'[q].direct
    BY <1>1, <1>3 DEF Owned
  <2>3. \A d \in Caller : \A q \in Has(d)' : q \in DOMAIN heap' \ user' /\ ~ heap'[q].direct
    BY <1>1, <1>3, <2>1 DEF Owned
  <2>4. \A d, e \in Caller : d # e => Has(d)' \cap Has(e)' = {}
    BY <1>3, <2>1 DEF Owned
  <2>5. \A t \in Thread : temp'[t] # NULL =>
         /\ temp'[t] \in DOMAIN heap' \ user'
         /\ \A d \in Caller : temp'[t] \notin Has(d)'
         /\ \A u \in Thread : u # t => temp'[u] # temp'[t]
    BY <1>1, <1>3, <2>1 DEF Owned
  <2> QED BY <2>2, <2>3, <2>4, <2>5 DEF Owned
<1> QED BY <1>2, <1>3, ProgramCallEffects

LEMMA GivenHas ==
  ASSUME MDTypeOK, NEW c \in Caller, at[c] = "unlock"
  PROVE  GivenTo(c) = Has(c)
<1>1. call[c].ptr \in Address \cup {NULL} /\ NULL \notin Address
  BY AddressRange DEF MDTypeOK, CallType
<1> QED BY <1>1 DEF GivenTo, Has, Keeps

LEMMA UnlockOwned ==
  ASSUME MDTypeOK, CallsGoOn, Owned, NEW c \in Caller, Unlock(c)
  PROVE  Owned'
<1>0. NULL \notin Address /\ UNCHANGED heap /\ OnlyAt(c) /\ at[c] = "unlock" /\ CallGoesOn(c)
  BY AddressRange, UnlockEffects DEF CallsGoOn
<1>1. CASE /\ call[c].fn = "exit_dump" /\ at'[c] = "fin_info" /\ call'[c].fn = "finalize"
           /\ call'[c].ptr = call[c].ptr /\ call'[c].result = call[c].result
           /\ UNCHANGED << user, temp >>
  <2>1. Has(c)' = {}
    BY <1>0, <1>1 DEF Has, CallGoesOn, Allocates
  <2> QED BY <1>0, <1>1, <2>1, OwnedQuiet
<1>2. ASSUME call'[c] = NoCall
      PROVE  Has(c)' = {} /\ \A d \in Caller : d # c => Has(d)' = Has(d)
  BY <1>0, <1>2, HasFrame DEF Has, NoCall
<1>3. CASE call'[c] = NoCall /\ user' = user \cup GivenTo(c) /\ UNCHANGED temp
  <2>1. user' = user \cup Has(c)
    BY <1>0, <1>3, GivenHas
  <2>2. user' \subseteq DOMAIN heap' /\ \A q \in user' : ~ heap'[q].direct
    BY <1>0, <2>1 DEF Owned
  <2>3. \A d \in Caller : \A q \in Has(d)' : q \in DOMAIN heap' \ user' /\ ~ heap'[q].direct
    BY <1>0, <1>2, <1>3, <2>1 DEF Owned
  <2>4. \A d, e \in Caller : d # e => Has(d)' \cap Has(e)' = {}
    BY <1>2, <1>3 DEF Owned
  <2>5. \A t \in Thread : temp'[t] # NULL =>
         /\ temp'[t] \in DOMAIN heap' \ user'
         /\ \A d \in Caller : temp'[t] \notin Has(d)'
         /\ \A u \in Thread : u # t => temp'[u] # temp'[t]
    BY <1>0, <1>2, <1>3, <2>1 DEF Owned
  <2> QED BY <2>2, <2>3, <2>4, <2>5 DEF Owned
<1>4. CASE /\ call'[c] = NoCall /\ UNCHANGED user
           /\ \A t \in Thread : t # Tid(c) => temp'[t] = temp[t]
           /\ temp'[Tid(c)] = IF call[c].fn = "malloc" THEN call[c].result ELSE temp[Tid(c)]
  <2>0. \A t \in Thread : temp'[t] # NULL =>
          temp'[t] = temp[t] \/ (t = Tid(c) /\ temp'[t] \in Has(c))
    <3>1. call[c].fn = "malloc" => call[c].result \in Address \cup {NULL}
      BY DEF MDTypeOK, CallType
    <3> QED BY <1>4, <3>1 DEF Has
  <2>1. user' \subseteq DOMAIN heap' /\ \A q \in user' : ~ heap'[q].direct
    BY <1>0, <1>4 DEF Owned
  <2>2. \A d \in Caller : \A q \in Has(d)' : q \in DOMAIN heap' \ user' /\ ~ heap'[q].direct
    BY <1>0, <1>2, <1>4 DEF Owned
  <2>3. \A d, e \in Caller : d # e => Has(d)' \cap Has(e)' = {}
    BY <1>2, <1>4 DEF Owned
  <2>4. \A t \in Thread : temp'[t] # NULL =>
         /\ temp'[t] \in DOMAIN heap' \ user'
         /\ \A d \in Caller : temp'[t] \notin Has(d)'
    BY <1>0, <1>2, <1>4, <2>0 DEF Owned
  <2>5. \A t, u \in Thread : temp'[t] # NULL /\ u # t => temp'[u] # temp'[t]
    BY <2>0 DEF Owned
  <2> QED BY <2>1, <2>2, <2>3, <2>4, <2>5 DEF Owned
<1> QED BY <1>1, <1>3, <1>4, UnlockEffects

LEMMA HandlerOwned ==
  ASSUME MDTypeOK, CallsGoOn, Owned, NamesMatch, NEW t \in Thread, Deliver(t) \/ HandlerStep(t)
  PROVE  Owned'
<1>0. NULL \notin Address /\ UNCHANGED user /\ Sig(t) \in Caller
      /\ \A u \in Thread : u # t => temp'[u] = temp[u]
  BY AddressRange, HandlerEffects, CallerOf
<1>1. ASSUME UNCHANGED << at, call >>
      PROVE  \A d \in Caller : Has(d)' = Has(d)
  BY <1>1 DEF Has, Keeps
<1>2. CASE UNCHANGED << heap, at, call, temp >>
  BY <1>0, <1>1, <1>2 DEF Owned
<1>3. ASSUME NEW fn, UNCHANGED << heap, temp >>, Starts(Sig(t), fn, NULL)
      PROVE  Owned'
  <2>1. Has(Sig(t))' = {}
    BY <1>0, <1>3 DEF Starts, Has
  <2> QED BY <1>0, <1>3, <2>1, OwnedQuiet DEF Starts
<1>4. ASSUME NEW p \in Address \ DOMAIN heap, NEW b, UNCHANGED << at, call >>, temp'[t] = p,
             heap' = Put(heap, p, b)
      PROVE  Owned'
  <2>1. p \in DOMAIN heap' /\ \A q \in DOMAIN heap : q \in DOMAIN heap' /\ heap'[q] = heap[q]
    BY <1>4 DEF Put
  <2>2. user' \subseteq DOMAIN heap' /\ \A q \in user' : ~ heap'[q].direct
    BY <1>0, <2>1 DEF Owned
  <2>3. \A d \in Caller : \A q \in Has(d)' : q \in DOMAIN heap' \ user' /\ ~ heap'[q].direct
    BY <1>0, <1>1, <1>4, <2>1 DEF Owned
  <2>4. \A d, e \in Caller : d # e => Has(d)' \cap Has(e)' = {}
    BY <1>1, <1>4 DEF Owned
  <2>5. \A u \in Thread : temp'[u] # NULL =>
         /\ temp'[u] \in DOMAIN heap' \ user'
         /\ \A d \in Caller : temp'[u] \notin Has(d)'
    BY <1>0, <1>1, <1>4, <2>1 DEF Owned
  <2>6. \A u, v \in Thread : temp'[u] # NULL /\ v # u => temp'[v] # temp'[u]
    BY <1>0, <1>4 DEF Owned
  <2> QED BY <2>2, <2>3, <2>4, <2>5, <2>6 DEF Owned
<1>5. CASE /\ UNCHANGED heap /\ Starts(Sig(t), "free", temp[t]) /\ temp[t] # NULL /\ temp'[t] = NULL
           /\ ~ disabled[t]
  <2>0. temp[t] \in Address
    BY <1>5 DEF MDTypeOK
  <2>1. Has(Sig(t))' = {temp[t]} /\ \A d \in Caller : d # Sig(t) => Has(d)' = Has(d)
    BY <1>0, <1>5, <2>0, HasFrame DEF Starts, Has, Keeps
  <2>d. ~ heap[temp[t]].direct
    BY <1>5 DEF NamesMatch, Flag, Starts, Up
  <2>2. user' \subseteq DOMAIN heap' /\ \A q \in user' : ~ heap'[q].direct
    BY <1>0, <1>5 DEF Owned
  <2>3. \A d \in Caller : \A q \in Has(d)' : q \in DOMAIN heap' \ user' /\ ~ heap'[q].direct
    BY <1>0, <1>5, <2>1, <2>d DEF Owned
  <2>4. \A d, e \in Caller : d # e => Has(d)' \cap Has(e)' = {}
    BY <1>5, <2>1 DEF Owned
  <2>5. \A u \in Thread : temp'[u] # NULL =>
         /\ temp'[u] \in DOMAIN heap' \ user'
         /\ \A d \in Caller : temp'[u] \notin Has(d)'
    BY <1>0, <1>5, <2>1 DEF Owned
  <2>6. \A u, v \in Thread : temp'[u] # NULL /\ v # u => temp'[v] # temp'[u]
    BY <1>0, <1>5 DEF Owned
  <2> QED BY <2>2, <2>3, <2>4, <2>5, <2>6 DEF Owned
<1>6. CASE UNCHANGED << at, call >> /\ heap' = Erase(heap, temp[t]) /\ temp'[t] = NULL
  <2>1. \A q \in DOMAIN heap : q # temp[t] => q \in DOMAIN heap' /\ heap'[q] = heap[q]
    BY <1>6 DEF Erase
  <2>0. temp[t] = NULL => \A q \in DOMAIN heap : q # temp[t]
    BY <1>0 DEF MDTypeOK
  <2>2. user' \subseteq DOMAIN heap' /\ \A q \in user' : ~ heap'[q].direct
    BY <1>0, <2>0, <2>1 DEF Owned
  <2>3. \A d \in Caller : \A q \in Has(d)' : q \in DOMAIN heap' \ user' /\ ~ heap'[q].direct
    BY <1>0, <1>1, <1>6, <2>0, <2>1 DEF Owned
  <2>4. \A d, e \in Caller : d # e => Has(d)' \cap Has(e)' = {}
    BY <1>1, <1>6 DEF Owned
  <2>5. \A u \in Thread : temp'[u] # NULL =>
         /\ temp'[u] \in DOMAIN heap' \ user'
         /\ \A d \in Caller : temp'[u] \notin Has(d)'
    BY <1>0, <1>1, <1>6, <2>0, <2>1 DEF Owned
  <2>6. \A u, v \in Thread : temp'[u] # NULL /\ v # u => temp'[v] # temp'[u]
    BY <1>0, <1>6 DEF Owned
  <2> QED BY <2>2, <2>3, <2>4, <2>5, <2>6 DEF Owned
<1> QED BY <1>2, <1>3, <1>4, <1>5, <1>6, HandlerEffects

LEMMA MovesOnHas ==
  ASSUME MDTypeOK, CallsGoOn, NEW c \in Caller, MovesOn(c)
  PROVE  Has(c)' = Has(c)
BY DEF MovesOn, Has, Keeps

LEMMA NextOwned ==
  ASSUME TypeOK, MDTypeOK, CallsGoOn, NamesMatch, Owned, [MDNext]_allVars
  PROVE  Owned'
<1>1. CASE UNCHANGED << heap, user, at, call, temp >>
  BY <1>1 DEF Owned, Has, Keeps
<1>2. ASSUME NEW c \in Caller, LibraryStep(c) \/ ProgramCall(c) \/ ProgramExits(c)
      PROVE  Owned'
  <2>0. CallGoesOn(c) /\ NULL \notin Address
    BY AddressRange DEF CallsGoOn
  <2>1. CASE TrackerStep(c) \/ WrWait(c)
    BY <1>1, <2>1 DEF TrackerStep, WrWait, mdVars, heapVars, sigVars
  <2>2. CASE \/ RdLock(c) \/ Disable(c) \/ Enable(c) \/ WrLock(c) \/ FinInfo(c)
             \/ FinDisable(c) /\ ~ ("BACKTRACE" \in Options /\ DumpOnExit)
    BY <2>2, MovesOnEffects, MovesOnHas, OwnedQuiet DEF MovesOn
  <2>3. CASE FinDisable(c) /\ "BACKTRACE" \in Options /\ DumpOnExit
    <3>1. /\ OnlyAt(c) /\ UNCHANGED << heap, user, temp >>
          /\ at[c] = "fin_disable" /\ call'[c].ptr = call[c].ptr /\ call'[c].result = call[c].result
      BY <2>3, ExitDumpEffects
    <3>2. Has(c)' = {}
      BY <2>0, <3>1 DEF Has, CallGoesOn, Final
    <3> QED BY <3>1, <3>2, OwnedQuiet
  <2>4. CASE ProgramExits(c)
    <3>1. Has(c)' = {}
      BY <2>0, <2>4, ProgramExitsEffects DEF Has
    <3> QED BY <2>4, <3>1, ProgramExitsEffects, OwnedQuiet
  <2> QED BY <1>2, <2>1, <2>2, <2>3, <2>4, BodyOwned, UnlockOwned, ProgramCallOwned DEF LibraryStep
<1>3. ASSUME NEW t \in Thread, Deliver(t) \/ HandlerStep(t)
      PROVE  Owned'
  BY <1>3, HandlerOwned
<1> QED BY <1>1, <1>2, <1>3, MDStuttering DEF MDNext, Arrival

----------------------------------------------------------------------------
(* The handlers' file names.                                               *)
LEMMA NamesFrame ==
  ASSUME MDTypeOK, Owned, NamesMatch, NEW c \in Caller, OnlyAt(c), Running(c),
         UNCHANGED << handler, temp >>,
         \A q \in DOMAIN heap : q \notin Has(c) => heap'[q] = heap[q],
         \A t \in Thread : t # Tid(c) => disabled'[t] = disabled[t],
         \A d \in Caller : d # c => saved'[d] = saved[d],
         c = Sig(Tid(c)) => /\ Flag(Tid(c))' <=> Flag(Tid(c))
                            /\ call'[c].fn = "malloc" => call[c].fn = "malloc"
  PROVE  NamesMatch'
<1> SUFFICES ASSUME NEW t \in Thread
             PROVE  /\ handler'[t] \in {"none", "name", "return"} => temp'[t] = NULL
                    /\ temp'[t] # NULL => (heap'[temp'[t]].direct <=> Flag(t)')
                    /\ call'[Sig(t)].fn = "malloc" => handler'[t] = "dump" /\ ~ Flag(t)'
  BY DEF NamesMatch
<1>1. temp[t] # NULL => heap'[temp[t]] = heap[temp[t]]
  BY DEF Owned
<1>2. CASE Sig(t) # c /\ t # Tid(c)
  <2>1. at'[Sig(t)] = at[Sig(t)] /\ call'[Sig(t)] = call[Sig(t)] /\ disabled'[t] = disabled[t]
        /\ saved'[Sig(t)] = saved[Sig(t)]
    BY <1>2, CallerOf DEF OnlyAt
  <2>2. Flag(t)' = Flag(t)
    BY <2>1 DEF Flag
  <2> QED BY <1>1, <2>1, <2>2 DEF NamesMatch
<1>3. CASE c = Sig(t)
  <2>1. t = Tid(c)
    BY <1>3, CallerOf
  <2> QED BY <1>1, <1>3, <2>1 DEF NamesMatch
<1>4. CASE c # Sig(t) /\ t = Tid(c)
  <2>1. handler[t] = "none" /\ call'[Sig(t)] = call[Sig(t)]
    BY <1>4, ThreadOf, CallerOf DEF Running, OnlyAt
  <2> QED BY <2>1 DEF NamesMatch
<1> QED BY <1>2, <1>3, <1>4

LEMMA HandlerNames ==
  ASSUME MDTypeOK, CallsGoOn, Owned, NamesMatch, NEW t \in Thread, Deliver(t) \/ HandlerStep(t)
  PROVE  NamesMatch'
<1>0. /\ UNCHANGED << disabled, saved >> /\ NULL \notin Address /\ DOMAIN heap \subseteq Address
      /\ \A u \in Thread : u # t => temp'[u] = temp[u] /\ handler'[u] = handler[u]
      /\ CallGoesOn(Sig(t)) /\ Sig(t) \in Caller
  BY HandlerEffects, AddressRange, CallerOf DEF CallsGoOn, MDTypeOK
<1>1. OnlyAt(Sig(t)) /\ \A q \in DOMAIN heap : q # temp[t] => heap'[q] = heap[q]
  <2>1. ASSUME NEW p \in Address \ DOMAIN heap, NEW b, heap' = Put(heap, p, b)
        PROVE  \A q \in DOMAIN heap : heap'[q] = heap[q]
    BY <2>1 DEF Put
  <2>2. ASSUME heap' = Erase(heap, temp[t])
        PROVE  \A q \in DOMAIN heap : q # temp[t] => heap'[q] = heap[q]
    BY <2>2 DEF Erase
  <2>3. UNCHANGED << at, call >> => OnlyAt(Sig(t))
    BY DEF OnlyAt
  <2>4. OnlyAt(Sig(t))
    BY <2>3, HandlerEffects DEF Starts
  <2>5. \/ UNCHANGED heap \/ heap' = Erase(heap, temp[t])
        \/ \E p \in Address \ DOMAIN heap : \E b : heap' = Put(heap, p, b)
    BY HandlerEffects
  <2> QED BY <2>1, <2>2, <2>4, <2>5
<1> SUFFICES ASSUME NEW u \in Thread
             PROVE  /\ handler'[u] \in {"none", "name", "return"} => temp'[u] = NULL
                    /\ temp'[u] # NULL => (heap'[temp'[u]].direct <=> Flag(u)')
                    /\ call'[Sig(u)].fn = "malloc" => handler'[u] = "dump" /\ ~ Flag(u)'
  BY DEF NamesMatch
<1>2. CASE u # t
  <2>1. /\ at'[Sig(u)] = at[Sig(u)] /\ call'[Sig(u)] = call[Sig(u)] /\ temp'[u] = temp[u]
        /\ handler'[u] = handler[u]
    BY <1>0, <1>1, <1>2, CallerOf DEF OnlyAt
  <2>2. Flag(u)' = Flag(u)
    BY <1>0, <2>1 DEF Flag
  <2>3. temp[u] # NULL => heap'[temp[u]] = heap[temp[u]]
    BY <1>1, <1>2 DEF Owned
  <2> QED BY <2>1, <2>2, <2>3 DEF NamesMatch
<1>3. CASE u = t
  <2>0. at[Sig(t)] = "user" => call[Sig(t)].fn = "none"
    BY <1>0 DEF CallGoesOn, NoCall
  <2>1. CASE /\ UNCHANGED << heap, at, call, temp >>
             /\ \/ handler[t] = "none" /\ handler'[t] \in {"name", "return"}
                \/ at[Sig(t)] = "user" /\ handler[t] = "return" /\ handler'[t] = "none"
    <3>1. temp[t] = NULL /\ call[Sig(t)].fn # "malloc"
      BY <2>1 DEF NamesMatch
    <3> QED BY <1>3, <2>1, <3>1
  <2>2. CASE /\ UNCHANGED << heap, temp >> /\ Starts(Sig(t), "malloc", NULL)
             /\ ~ disabled[t] /\ handler'[t] = "dump"
    <3>1. (Flag(t)' <=> Flag(t)) /\ ~ Flag(t)
      BY <1>0, <2>2 DEF Flag, Starts, Up
    <3> QED BY <1>3, <2>2, <3>1 DEF NamesMatch, Starts
  <2>3. CASE /\ UNCHANGED << heap, temp >> /\ Starts(Sig(t), "dump_heap", NULL)
             /\ handler'[t] = "release"
    <3>1. Flag(t)' <=> Flag(t)
      BY <1>0, <2>3 DEF Flag, Starts, Up
    <3> QED BY <1>3, <2>3, <3>1 DEF NamesMatch, Starts
  <2>4. ASSUME UNCHANGED << at, call >>, disabled[t], at[Sig(t)] = "user", handler'[t] = "dump",
               NEW p \in Address \ DOMAIN heap, temp'[t] = p,
               heap' = Put(heap, p, [type |-> "HOST", size |-> NameSize, direct |-> TRUE])
        PROVE  /\ handler'[t] \in {"none", "name", "return"} => temp'[t] = NULL
               /\ temp'[t] # NULL => (heap'[temp'[t]].direct <=> Flag(t)')
               /\ call'[Sig(t)].fn = "malloc" => handler'[t] = "dump" /\ ~ Flag(t)'
    <3>1. Flag(t)' /\ heap'[p].direct = TRUE
      BY <1>0, <2>4 DEF Flag, Up, Put
    <3> QED BY <2>0, <2>4, <3>1
  <2>5. CASE Starts(Sig(t), "free", temp[t]) /\ temp'[t] = NULL
    BY <1>3, <2>5 DEF Starts
  <2>6. CASE UNCHANGED << at, call >> /\ at[Sig(t)] = "user" /\ temp'[t] = NULL
    BY <1>3, <2>0, <2>6
  <2> QED BY <1>3, <2>1, <2>2, <2>3, <2>4, <2>5, <2>6, HandlerEffects
<1> QED BY <1>2, <1>3

LEMMA UnlockNames ==
  ASSUME MDTypeOK, CallsGoOn, Owned, NamesMatch, NEW c \in Caller, Unlock(c)
  PROVE  NamesMatch'
<1>0. /\ OnlyAt(c) /\ at[c] = "unlock" /\ UNCHANGED << heap, handler, disabled, saved >> /\ Running(c)
      /\ at'[c] \in {"user", "fin_info"} /\ call'[c].fn # "malloc"
  BY UnlockEffects DEF NoCall
<1>1. CASE UNCHANGED temp
  <2>1. c = Sig(Tid(c)) => (Flag(Tid(c))' <=> Flag(Tid(c)))
    BY <1>0 DEF Flag, Up
  <2> QED BY <1>0, <1>1, <2>1, NamesFrame
<1>2. CASE /\ c = Sig(Tid(c))
           /\ \A t \in Thread : t # Tid(c) => temp'[t] = temp[t]
           /\ temp'[Tid(c)] = IF call[c].fn = "malloc" THEN call[c].result ELSE temp[Tid(c)]
  <2> SUFFICES ASSUME NEW t \in Thread
               PROVE  /\ handler'[t] \in {"none", "name", "return"} => temp'[t] = NULL
                      /\ temp'[t] # NULL => (heap'[temp'[t]].direct <=> Flag(t)')
                      /\ call'[Sig(t)].fn = "malloc" => handler'[t] = "dump" /\ ~ Flag(t)'
    BY DEF NamesMatch
  <2>1. CASE t # Tid(c)
    <3>1. at'[Sig(t)] = at[Sig(t)] /\ call'[Sig(t)] = call[Sig(t)] /\ temp'[t] = temp[t]
      BY <1>0, <1>2, <2>1, CallerOf DEF OnlyAt
    <3>2. Flag(t)' = Flag(t)
      BY <1>0, <3>1 DEF Flag
    <3> QED BY <1>0, <3>1, <3>2 DEF NamesMatch
  <2>2. CASE t = Tid(c)
    <3>1. (Flag(t)' <=> Flag(t)) /\ c = Sig(t)
      BY <1>0, <1>2, <2>2 DEF Flag, Up
    <3>2. call[c].fn = "malloc" /\ call[c].result # NULL =>
            call[c].result \in Has(c) /\ ~ heap[call[c].result].direct
      BY DEF MDTypeOK, CallType, Has, Owned
    <3> QED BY <1>0, <1>2, <2>2, <3>1, <3>2 DEF NamesMatch
  <2> QED BY <2>1, <2>2
<1> QED BY <1>1, <1>2, UnlockEffects

LEMMA NextNames ==
  ASSUME TypeOK, MDTypeOK, CallsGoOn, Owned, NamesMatch, [MDNext]_allVars
  PROVE  NamesMatch'
<1>1. CASE UNCHANGED << heap, at, call, temp, handler, disabled, saved >>
  BY <1>1 DEF NamesMatch, Flag
<1>2. ASSUME NEW c \in Caller, LibraryStep(c) \/ ProgramCall(c) \/ ProgramExits(c)
      PROVE  NamesMatch'
  <2>0. CallGoesOn(c) /\ Tid(c) \in Thread /\ Main(Tid(c)) # Sig(Tid(c))
    BY ThreadOf, CallerOf DEF CallsGoOn
  <2>1. CASE TrackerStep(c) \/ WrWait(c)
    BY <1>1, <2>1 DEF TrackerStep, WrWait, mdVars, heapVars, sigVars
  <2>2. CASE \/ AllocBody(c) \/ MmapBody(c) \/ TooLargeBody(c) \/ RemoveBody(c)
             \/ SystemFree(c) \/ SystemRealloc(c) \/ DumpBody(c)
    <3>1. /\ OnlyAt(c) /\ Running(c) /\ UNCHANGED << disabled, saved, handler, temp >>
          /\ call'[c].fn = call[c].fn
      BY <2>2, BodyEffects DEF SameCall
    <3>2. c = Sig(Tid(c)) => (Flag(Tid(c))' <=> Flag(Tid(c)))
      <4>1. at[c] \in Up /\ at'[c] \in Up
        BY <2>2, BodyMoves DEF Moves, Up, MDTypeOK
      <4> QED BY <3>1, <4>1 DEF Flag
    <3>3. \A q \in DOMAIN heap : q \notin Has(c) => heap'[q] = heap[q]
      <4>1. /\ \/ GetsBlock(c) \/ AddsFailure(c) \/ GetsNothing(c) \/ StartsRemove(c)
               \/ GivesBack(c) \/ Reallocates(c) \/ Dumps(c)
        BY <2>2, BodyEffects
      <4>2. CASE GetsBlock(c)
        BY <4>2 DEF GetsBlock, Put
      <4>3. CASE Reallocates(c)
        <5>1. Has(c) = {call[c].ptr} \cap Address
          BY <2>0, <4>3, AddressRange DEF Reallocates, Has, Keeps, CallGoesOn
        <5> QED BY <4>3, <5>1 DEF Reallocates, Put, Erase, MDTypeOK
      <4>4. CASE GivesBack(c)
        <5>1. Has(c) = {call[c].ptr} \cap Address
          BY <2>0, <4>4, AddressRange DEF GivesBack, Has, Keeps, CallGoesOn
        <5> QED BY <4>4, <5>1 DEF GivesBack, Erase, MDTypeOK
      <4> QED BY <4>1, <4>2, <4>3, <4>4 DEF AddsFailure, GetsNothing, StartsRemove, Dumps
    <3> QED BY <3>1, <3>2, <3>3, NamesFrame
  <2>3. CASE RdLock(c) \/ WrLock(c) \/ FinInfo(c)
    <3>1. /\ MovesOn(c) /\ UNCHANGED << heap, handler, temp >> /\ Running(c)
          /\ at[c] \notin Up /\ at'[c] \notin Up
      BY <2>3, MovesOnEffects DEF RdLock, WrLock, FinInfo, Here, Move, MDTypeOK, Up
    <3>2. UNCHANGED << disabled, saved >>
      BY <2>3 DEF RdLock, WrLock, FinInfo
    <3>3. c = Sig(Tid(c)) => (Flag(Tid(c))' <=> Flag(Tid(c)))
      BY <3>1, <3>2 DEF Flag
    <3> QED BY <3>1, <3>2, <3>3, NamesFrame DEF MovesOn
  <2>4. CASE Disable(c) \/ Enable(c)
    <3>1. /\ MovesOn(c) /\ UNCHANGED << heap, handler, temp >> /\ Running(c)
      BY <2>4, MovesOnEffects
    <3>2. /\ \A t \in Thread : t # Tid(c) => disabled'[t] = disabled[t]
          /\ \A d \in Caller : d # c => saved'[d] = saved[d]
      BY <2>0, <2>4 DEF Disable, Enable, MDTypeOK
    <3>3. CASE Disable(c)
      <4>1. at[c] = "disable" /\ at'[c] = "body" /\ saved'[c] = disabled[Tid(c)]
        BY <3>3 DEF Disable, Here, Move, MDTypeOK
      <4>2. c = Sig(Tid(c)) => (Flag(Tid(c))' <=> Flag(Tid(c)))
        BY <4>1 DEF Flag, Up
      <4> QED BY <3>1, <3>2, <4>2, NamesFrame DEF MovesOn
    <3>4. CASE Enable(c)
      <4>1. at[c] = "enable" /\ at'[c] = "unlock" /\ disabled'[Tid(c)] = saved[c]
        BY <2>0, <3>4 DEF Enable, Here, Move, MDTypeOK
      <4>2. c = Sig(Tid(c)) => (Flag(Tid(c))' <=> Flag(Tid(c)))
        BY <4>1 DEF Flag, Up
      <4> QED BY <3>1, <3>2, <4>2, NamesFrame DEF MovesOn
    <3> QED BY <2>4, <3>3, <3>4
  <2>5. CASE FinDisable(c)
    <3>1. /\ OnlyAt(c) /\ Running(c) /\ UNCHANGED << heap, handler, temp, saved >>
          /\ \A t \in Thread : t # Tid(c) => disabled'[t] = disabled[t]
          /\ at[c] = "fin_disable"
      BY <2>0, <2>5, MovesOnEffects, ExitDumpEffects DEF FinDisable, Here, MDTypeOK, MovesOn
    <3>2. c # Sig(Tid(c))
      BY <2>0, <3>1 DEF CallGoesOn
    <3> QED BY <3>1, <3>2, NamesFrame
  <2>6. CASE ProgramCall(c) \/ ProgramExits(c)
    <3>1. /\ OnlyAt(c) /\ Running(c) /\ UNCHANGED << heap, handler, temp, saved, disabled >>
          /\ c # Sig(Tid(c))
      BY <2>0, <2>6, ProgramCallEffects, ProgramCallEnters, ProgramExitsEffects
         DEF Starts, ProgramExits
    <3> QED BY <3>1, NamesFrame
  <2> QED BY <1>2, <2>1, <2>2, <2>3, <2>4, <2>5, <2>6, UnlockNames DEF LibraryStep
<1>3. ASSUME NEW t \in Thread, Deliver(t) \/ HandlerStep(t)
      PROVE  NamesMatch'
  BY <1>3, HandlerNames
<1> QED BY <1>1, <1>2, <1>3, MDStuttering DEF MDNext, Arrival

----------------------------------------------------------------------------
(* What the tracker's own steps do to the entries.                         *)
Records(c) ==
  /\ pc[c] \in Adding /\ pc'[c] \notin Adding \cup Removing
  /\ \E h : pointers_' = Put(pointers_, ManglePointer(arg[c].ptr),
                             [size |-> arg[c].size, hash_index |-> h, mem_type |-> arg[c].type])

Forgets(c) ==
  /\ pc[c] \in Removing /\ pc'[c] \notin Adding \cup Removing
  /\ pointers_' = Erase(pointers_, ManglePointer(arg[c].ptr))

Continues(c) ==
  /\ UNCHANGED pointers_
  /\ pc'[c] \in Adding => /\ pc[c] \in Adding /\ arg'[c].ptr = arg[c].ptr
                          /\ arg'[c].size = arg[c].size /\ arg'[c].type = arg[c].type
  /\ pc'[c] \in Removing => pc[c] \in Removing /\ arg'[c].ptr = arg[c].ptr
  /\ pc[c] \in Removing => pc'[c] \in Removing
  /\ pc[c] \in Adding => pc'[c] \in Adding \/ "exit" \in UnwindResults

LEMMA StepKinds ==
  ASSUME TypeOK, NEW c \in Caller, Step(c)
  PROVE  Records(c) \/ Forgets(c) \/ Continues(c)
<1> USE DEF Goto, dataVars, mapVars, Adding, Removing, TypeOK
<1>1. CASE AddPointer(c)
  BY <1>1 DEF AddPointer, Records
<1>2. CASE RemovePointer(c)
  BY <1>2 DEF RemovePointer, Forgets
<1>3. CASE RemoveUntracked(c)
  <2>1. Erase(pointers_, ManglePointer(arg[c].ptr)) = pointers_
    BY <1>3 DEF RemoveUntracked, Erase
  <2> QED BY <1>3, <2>1 DEF RemoveUntracked, Forgets
<1>4. CASE UnwindOk(c)
  <2>1. PICK b : arg' = [arg EXCEPT ![c].frames = b]
    BY <1>4 DEF UnwindOk
  <2>2. arg'[c].ptr = arg[c].ptr /\ arg'[c].size = arg[c].size /\ arg'[c].type = arg[c].type
    BY <2>1 DEF ArgType
  <2> QED BY <1>4, <2>2 DEF UnwindOk, Continues
<1>5. CASE NoBacktrace(c)
  BY <1>5 DEF NoBacktrace, Continues
<1>6. CASE UnwindExit(c)
  BY <1>6 DEF UnwindExit, Continues
<1>7. CASE AddBacktrace(c) \/ RemoveBacktrace(c)
  BY <1>7 DEF AddBacktrace, RemoveBacktrace, Continues
<1>8. CASE RecordPeakList(c) \/ DumpStep(c)
  BY <1>8 DEF RecordPeakList, DumpStep, CollectList, PrintList, DumpPeakInfo, LockFrames,
              LockPointers, Continues
<1>9. CASE \/ LockFrames(c, "bt_lock", "bt_held") \/ LockPointers(c, "add_lock", "add_held")
           \/ LockFrames(c, "peak_lock", "peak_held") \/ LockPointers(c, "rm_lock", "rm_held")
           \/ LockFrames(c, "rmbt_lock", "rmbt_held")
  BY <1>9 DEF LockFrames, LockPointers, Continues
<1> QED BY <1>1, <1>2, <1>3, <1>4, <1>5, <1>6, <1>7, <1>8, <1>9 DEF Step, AddStep, RemoveStep

LEMMA Mangling ==
  /\ \A p \in 0 .. UINTPTR_MAX : /\ ManglePointer(p) \in 0 .. UINTPTR_MAX
                                 /\ DemanglePointer(ManglePointer(p)) = p
  /\ \A k \in 0 .. UINTPTR_MAX : /\ DemanglePointer(k) \in 0 .. UINTPTR_MAX
                                 /\ ManglePointer(DemanglePointer(k)) = k
  /\ \A p, q \in 0 .. UINTPTR_MAX : ManglePointer(p) = ManglePointer(q) => p = q
BY PointerAssumption DEF ManglePointer, DemanglePointer

(* Steps outside the tracker.                                              *)
LEMMA TracksFrame ==
  ASSUME TypeOK, MDTypeOK, Owned, TracksOwned, NEW c \in Caller, OnlyAt(c), OnlyPc(c),
         UNCHANGED pointers_, CallTracks(c)', NEW S,
         \A d \in Caller : d # c => S \cap Has(d) = {},
         \A q \in DOMAIN heap : q \notin S => q \in DOMAIN heap' /\ heap'[q] = heap[q],
         \A p \in S \cap Address : ManglePointer(p) \notin DOMAIN pointers_
  PROVE  TracksOwned'
<1>1. ASSUME NEW d \in Caller, d # c
      PROVE  CallTracks(d)'
  <2>1. CallTracks(d) /\ pc'[d] = pc[d] /\ arg'[d] = arg[d] /\ at'[d] = at[d] /\ call'[d] = call[d]
    BY <1>1 DEF TracksOwned, OnlyAt, OnlyPc
  <2>2. ASSUME pc[d] \in Adding, arg[d].ptr \in Address
        PROVE  Matches(arg[d].ptr, arg[d].size, arg[d].type)'
    <3>1. arg[d].ptr \in Has(d)
      BY <2>1, <2>2 DEF CallTracks, Has
    <3>2. arg[d].ptr \in DOMAIN heap /\ arg[d].ptr \notin S
      BY <1>1, <3>1 DEF Owned
    <3> QED BY <2>1, <2>2, <3>2 DEF CallTracks, Matches
  <2> QED BY <2>1, <2>2 DEF CallTracks
<1>2. ASSUME NEW k \in DOMAIN pointers_
      PROVE  EntryMatches(k)' /\ TrackPointers
  <2>1. EntryMatches(k) /\ TrackPointers /\ k \in 0 .. UINTPTR_MAX
    BY DEF TracksOwned, TypeOK
  <2>2. ASSUME NEW p, p = DemanglePointer(k), p \in Address, p \in DOMAIN heap
        PROVE  p \in DOMAIN heap' /\ heap'[p] = heap[p]
    BY <2>1, <2>2, Mangling
  <2> QED BY <2>1, <2>2 DEF EntryMatches, Matches
<1> QED BY <1>1, <1>2 DEF TracksOwned

LEMMA TracksQuiet ==
  ASSUME TypeOK, MDTypeOK, Owned, TracksOwned, NEW c \in Caller, OnlyAt(c), OnlyPc(c),
         UNCHANGED << pointers_, heap >>, CallTracks(c)'
  PROVE  TracksOwned'
<1>1. \A d \in Caller : d # c => {} \cap Has(d) = {}
  OBVIOUS
<1> QED BY <1>1, TracksFrame

LEMMA BodyTracks ==
  ASSUME TypeOK, MDTypeOK, CallsGoOn, Owned, TracksOwned, NEW c \in Caller,
         \/ AllocBody(c) \/ MmapBody(c) \/ TooLargeBody(c) \/ RemoveBody(c)
         \/ SystemFree(c) \/ SystemRealloc(c) \/ DumpBody(c)
  PROVE  TracksOwned'
<1>1. /\ OnlyAt(c) /\ OnlyPc(c) /\ SameCall(c) /\ UNCHANGED pointers_ /\ pc[c] = "idle"
      /\ \/ GetsBlock(c) \/ AddsFailure(c) \/ GetsNothing(c) \/ StartsRemove(c)
         \/ GivesBack(c) \/ Reallocates(c) \/ Dumps(c)
  BY BodyEffects
<1>2. CallGoesOn(c) /\ CallTracks(c) /\ NULL \notin Address /\ MAP_FAILED \notin Address
      /\ call[c].ptr \in Address \cup {NULL}
  BY AddressRange DEF CallsGoOn, TracksOwned, MDTypeOK, CallType
<1>3. ASSUME Adds(c), at'[c] = "enable",
             call'[c].result \in Address =>
               /\ call'[c].result \in DOMAIN heap'
               /\ heap'[call'[c].result].size = call[c].size
               /\ heap'[call'[c].result].type = TypeOf(call[c].fn)
      PROVE  CallTracks(c)'
  <2>1. CASE TrackPointers
    BY <1>3, <2>1 DEF Adds, CallTracks, Adding, Removing, Matches
  <2>2. CASE ~ TrackPointers
    BY <1>1, <1>3, <2>2 DEF Adds, CallTracks, Adding, Removing
  <2> QED BY <2>1, <2>2
<1>4. CASE GetsBlock(c)
  <2>1. PICK p \in Address \ DOMAIN heap :
          /\ call'[c].result = p
          /\ heap' = Put(heap, p, [type |-> TypeOf(call[c].fn), size |-> call[c].size, direct |-> FALSE])
    BY <1>4 DEF GetsBlock
  <2>2. /\ p \in DOMAIN heap' /\ heap'[p].size = call[c].size /\ heap'[p].type = TypeOf(call[c].fn)
        /\ \A q \in DOMAIN heap : q \in DOMAIN heap' /\ heap'[q] = heap[q]
    BY <2>1 DEF Put
  <2>3. CallTracks(c)'
    BY <1>1, <1>3, <1>4, <2>1, <2>2 DEF GetsBlock, Matches, SameCall
  <2>4. \A d \in Caller : d # c => {} \cap Has(d) = {}
    OBVIOUS
  <2> QED BY <1>1, <2>2, <2>3, <2>4, TracksFrame
<1>5. CASE Reallocates(c)
  <2>1. PICK p \in Address \ (DOMAIN heap \ {call[c].ptr}) :
          /\ call'[c].result = p
          /\ heap' = Put(Erase(heap, call[c].ptr), p,
                         [type |-> "HOST", size |-> call[c].size, direct |-> FALSE])
    BY <1>5 DEF Reallocates
  <2>2. /\ p \in DOMAIN heap' /\ heap'[p].size = call[c].size /\ heap'[p].type = "HOST"
        /\ \A q \in DOMAIN heap : q # call[c].ptr => q \in DOMAIN heap' /\ heap'[q] = heap[q]
    BY <2>1 DEF Put, Erase
  <2>3. CallTracks(c)'
    BY <1>1, <1>3, <1>5, <2>1, <2>2 DEF Reallocates, Matches, SameCall, TypeOf
  <2>4. call[c].ptr \in Has(c) /\ ManglePointer(call[c].ptr) \notin DOMAIN pointers_
    BY <1>1, <1>2, <1>5 DEF Reallocates, Has, Keeps, CallGoesOn, CallTracks, Removing
  <2>5. \A d \in Caller : d # c => {call[c].ptr} \cap Has(d) = {}
    BY <2>4 DEF Owned
  <2> QED BY <1>1, <2>2, <2>3, <2>4, <2>5, TracksFrame
<1>6. CASE GivesBack(c)
  <2>1. CallTracks(c)'
    BY <1>1, <1>6 DEF GivesBack, CallTracks, Adding, Removing
  <2>2. CASE heap' = Erase(heap, call[c].ptr)
    <3>1. call[c].ptr \in Has(c) /\ ManglePointer(call[c].ptr) \notin DOMAIN pointers_
      BY <1>1, <1>2, <1>6 DEF GivesBack, Has, Keeps, CallGoesOn, CallTracks, Removing
    <3>2. \A d \in Caller : d # c => {call[c].ptr} \cap Has(d) = {}
      BY <3>1 DEF Owned
    <3>3. \A q \in DOMAIN heap : q # call[c].ptr => q \in DOMAIN heap' /\ heap'[q] = heap[q]
      BY <2>2 DEF Erase
    <3> QED BY <1>1, <2>1, <3>1, <3>2, <3>3, TracksFrame
  <2>3. CASE UNCHANGED heap
    BY <1>1, <2>1, <2>3, TracksQuiet
  <2> QED BY <1>6, <2>2, <2>3 DEF GivesBack
<1>7. CASE AddsFailure(c)
  <2>1. CallTracks(c)'
    BY <1>2, <1>3, <1>7 DEF AddsFailure
  <2> QED BY <1>1, <1>7, <2>1, TracksQuiet DEF AddsFailure
<1>8. CASE GetsNothing(c) \/ StartsRemove(c) \/ Dumps(c)
  <2>1. CallTracks(c)'
    <3>1. CASE GetsNothing(c)
      BY <1>1, <3>1 DEF GetsNothing, CallTracks, Adding, Removing
    <3>2. CASE StartsRemove(c) /\ TrackPointers
      BY <1>1, <3>2 DEF StartsRemove, CallTracks, Adding, Removing
    <3>3. CASE StartsRemove(c) /\ ~ TrackPointers
      BY <1>1, <3>3 DEF StartsRemove, CallTracks, Adding, Removing, TracksOwned
    <3>4. CASE Dumps(c)
      BY <1>1, <3>4 DEF Dumps, CallTracks, Adding, Removing
    <3> QED BY <1>8, <3>1, <3>2, <3>3, <3>4
  <2> QED BY <1>1, <1>8, <2>1, TracksQuiet DEF GetsNothing, StartsRemove, Dumps
<1> QED BY <1>1, <1>4, <1>5, <1>6, <1>7, <1>8

LEMMA TrackerTracks ==
  ASSUME TypeOK, MDTypeOK, CallsGoOn, Owned, TracksOwned, NEW c \in Caller, TrackerStep(c)
  PROVE  TracksOwned'
<1>0. /\ UNCHANGED << heap, at, call >> /\ OnlyAt(c) /\ OnlyPc(c) /\ CallTracks(c) /\ CallGoesOn(c)
      /\ arg[c].ptr \in 0 .. UINTPTR_MAX
  BY StepLocal
     DEF TrackerStep, mdVars, heapVars, OnlyAt, OnlyPc, TracksOwned, CallsGoOn, TypeOK, ArgType
<1>1. CASE Continues(c)
  <2>1. CallTracks(c)'
    BY <1>0, <1>1 DEF Continues, CallTracks, Matches
  <2> QED BY <1>0, <1>1, <2>1, TracksQuiet DEF Continues
<1>2. CASE Records(c)
  <2>1. PICK h : pointers_' = Put(pointers_, ManglePointer(arg[c].ptr),
                                  [size |-> arg[c].size, hash_index |-> h, mem_type |-> arg[c].type])
    BY <1>2 DEF Records
  <2>2. PICK k : k = ManglePointer(arg[c].ptr)
    OBVIOUS
  <2>3. /\ DOMAIN pointers_' = DOMAIN pointers_ \cup {k}
        /\ pointers_'[k].size = arg[c].size /\ pointers_'[k].mem_type = arg[c].type
        /\ \A j \in DOMAIN pointers_ : j # k => pointers_'[j] = pointers_[j]
    BY <2>1, <2>2 DEF Put
  <2>4. /\ at[c] = "enable" /\ arg[c].ptr = call[c].result /\ TrackPointers
        /\ arg[c].ptr \in Address => Matches(arg[c].ptr, arg[c].size, arg[c].type)
    BY <1>0, <1>2 DEF Records, CallTracks
  <2>5. arg[c].ptr \in {NULL, MAP_FAILED} \/ (arg[c].ptr \in Has(c) /\ ~ heap[arg[c].ptr].direct)
    BY <2>4 DEF MDTypeOK, CallType, Has, Owned
  <2>6. EntryMatches(k)'
    <3>1. DemanglePointer(k) = arg[c].ptr
      BY <1>0, <2>2, Mangling
    <3> QED BY <1>0, <2>3, <2>4, <2>5, <3>1 DEF EntryMatches, Matches, Has
  <2>7. \A j \in DOMAIN pointers_' : EntryMatches(j)' /\ TrackPointers
    <3>1. ASSUME NEW j \in DOMAIN pointers_, j # k
          PROVE  EntryMatches(j)'
      BY <1>0, <2>3, <3>1 DEF TracksOwned, EntryMatches, Matches
    <3> QED BY <2>3, <2>4, <2>6, <3>1
  <2>8. ASSUME NEW d \in Caller PROVE CallTracks(d)'
    <3>1. CASE d = c
      BY <1>0, <1>2, <2>4, <3>1 DEF Records, CallTracks
    <3>2. CASE d # c
      <4>1. CallTracks(d) /\ pc'[d] = pc[d] /\ arg'[d] = arg[d] /\ at'[d] = at[d] /\ call'[d] = call[d]
        BY <1>0, <3>2 DEF TracksOwned, OnlyPc, OnlyAt
      <4>2. ASSUME at[d] = "system" PROVE ManglePointer(call[d].ptr) # k
        <5>1. call[d].ptr \in Has(d) /\ call[d].ptr \in Address
          <6>1. CallGoesOn(d) /\ call[d] \in CallType /\ call[d].ptr \in Address \cup {NULL}
            BY DEF CallsGoOn, MDTypeOK, CallType
          <6>2. call[d].ptr \in Address /\ call[d].result \notin Address /\ Keeps(d)
            BY <4>2, <6>1, AddressRange DEF CallGoesOn, Keeps
          <6> QED BY <6>2 DEF Has
        <5>2. call[d].ptr # arg[c].ptr
          BY <2>5, <3>2, <5>1, AddressRange DEF Owned
        <5> QED BY <1>0, <2>2, <5>1, <5>2, Mangling, AddressRange
      <4> QED BY <1>0, <2>3, <4>1, <4>2 DEF CallTracks, Matches
    <3> QED BY <3>1, <3>2
  <2> QED BY <2>7, <2>8 DEF TracksOwned
<1>3. CASE Forgets(c)
  <2>2. PICK k : k = ManglePointer(arg[c].ptr)
    OBVIOUS
  <2>3. /\ DOMAIN pointers_' = DOMAIN pointers_ \ {k}
        /\ \A j \in DOMAIN pointers_ : j # k => pointers_'[j] = pointers_[j]
    BY <1>3, <2>2 DEF Forgets, Erase
  <2>4. at[c] = "system" /\ arg[c].ptr = call[c].ptr
    BY <1>0, <1>3 DEF Forgets, CallTracks
  <2>5. \A j \in DOMAIN pointers_' : EntryMatches(j)' /\ TrackPointers
    BY <1>0, <2>3 DEF TracksOwned, EntryMatches, Matches
  <2>6. ASSUME NEW d \in Caller PROVE CallTracks(d)'
    <3>1. CASE d = c
      BY <1>0, <1>3, <2>2, <2>3, <2>4, <3>1 DEF Forgets, CallTracks
    <3>2. CASE d # c
      BY <1>0, <2>3, <3>2 DEF TracksOwned, OnlyPc, OnlyAt, CallTracks, Matches
    <3> QED BY <3>1, <3>2
  <2> QED BY <2>5, <2>6 DEF TracksOwned
<1> QED BY <1>1, <1>2, <1>3, StepKinds DEF TrackerStep

(* A caller that the tracker does not work for.                            *)
LEMMA TracksIdle ==
  ASSUME NEW c \in Caller, pc'[c] \notin Adding \cup Removing, at'[c] # "system"
  PROVE  CallTracks(c)'
BY DEF CallTracks

LEMMA HandlerTracks ==
  ASSUME TypeOK, MDTypeOK, TrackerCalled, Owned, NamesMatch, TracksOwned, NEW t \in Thread,
         Deliver(t) \/ HandlerStep(t)
  PROVE  TracksOwned'
<1>0. /\ UNCHANGED << pointers_, pc, arg >> /\ Sig(t) \in Caller /\ OnlyPc(Sig(t))
      /\ NULL \notin Address
  BY HandlerEffects, CallerOf, AddressRange DEF vars, dataVars, mapVars, callerVars, OnlyPc
<1>1. CASE UNCHANGED << heap, at, call >>
  BY <1>0, <1>1 DEF TracksOwned, CallTracks, EntryMatches, Matches
<1>2. ASSUME at[Sig(t)] = "user" PROVE pc'[Sig(t)] \notin Adding \cup Removing
  BY <1>0, <1>2 DEF TrackerCalled, Adding, Removing
<1>3. ASSUME NEW fn, NEW p, Starts(Sig(t), fn, p), UNCHANGED heap
      PROVE  TracksOwned'
  <2>1. OnlyAt(Sig(t)) /\ CallTracks(Sig(t))'
    BY <1>0, <1>2, <1>3, TracksIdle DEF Starts
  <2> QED BY <1>0, <1>3, <2>1, TracksQuiet
<1>4. ASSUME UNCHANGED << at, call >>, at[Sig(t)] = "user"
      PROVE  OnlyAt(Sig(t)) /\ CallTracks(Sig(t))'
  BY <1>0, <1>2, <1>4, TracksIdle DEF OnlyAt
<1>5. ASSUME UNCHANGED << at, call >>, at[Sig(t)] = "user",
             NEW p \in Address \ DOMAIN heap, NEW b, heap' = Put(heap, p, b)
      PROVE  TracksOwned'
  <2>1. \A q \in DOMAIN heap : q \notin {} => q \in DOMAIN heap' /\ heap'[q] = heap[q]
    BY <1>5 DEF Put
  <2> QED BY <1>0, <1>4, <1>5, <2>1, TracksFrame
<1>6. CASE /\ UNCHANGED << at, call >> /\ at[Sig(t)] = "user" /\ (disabled[t] \/ temp[t] = NULL)
           /\ heap' = Erase(heap, temp[t])
  <2>1. \A q \in DOMAIN heap : q \notin {temp[t]} => q \in DOMAIN heap' /\ heap'[q] = heap[q]
    BY <1>6 DEF Erase
  <2>2. \A d \in Caller : d # Sig(t) => {temp[t]} \cap Has(d) = {}
    BY <1>0 DEF Owned, Has
  <2>3. ASSUME temp[t] \in Address
        PROVE  ManglePointer(temp[t]) \notin DOMAIN pointers_
    <3>1. heap[temp[t]].direct
      BY <1>0, <1>6, <2>3 DEF NamesMatch, Flag, Up
    <3>2. DemanglePointer(ManglePointer(temp[t])) = temp[t] /\ temp[t] \notin {NULL, MAP_FAILED}
      BY <2>3, Mangling, AddressRange
    <3> QED BY <3>1, <3>2 DEF TracksOwned, EntryMatches
  <2> QED BY <1>0, <1>4, <1>6, <2>1, <2>2, <2>3, TracksFrame
<1> QED BY <1>1, <1>3, <1>5, <1>6, HandlerEffects

LEMMA NextTracks ==
  ASSUME TypeOK, MDTypeOK, TrackerCalled, CallsGoOn, Owned, NamesMatch, TracksOwned,
         [MDNext]_allVars
  PROVE  TracksOwned'
<1>1. CASE UNCHANGED << heap, at, call, pointers_, pc, arg >>
  BY <1>1 DEF TracksOwned, CallTracks, EntryMatches, Matches
<1>u. UNCHANGED vars => UNCHANGED << pointers_, pc, arg >>
  BY DEF vars, dataVars, mapVars, callerVars
<1>2. ASSUME NEW c \in Caller, LibraryStep(c) \/ ProgramCall(c) \/ ProgramExits(c)
      PROVE  TracksOwned'
  <2>0. ASSUME OnlyAt(c), UNCHANGED vars, UNCHANGED heap, pc[c] = "idle", at'[c] # "system"
        PROVE  TracksOwned'
    <3>1. OnlyPc(c) /\ UNCHANGED pointers_ /\ pc'[c] \notin Adding \cup Removing
      BY <1>u, <2>0 DEF OnlyPc, Adding, Removing
    <3> QED BY <2>0, <3>1, TracksIdle, TracksQuiet
  <2>1. CASE WrWait(c)
    BY <1>1, <1>u, <2>1 DEF WrWait, heapVars
  <2>2. CASE \/ RdLock(c) \/ Disable(c) \/ Enable(c) \/ WrLock(c) \/ FinInfo(c)
             \/ FinDisable(c) /\ ~ ("BACKTRACE" \in Options /\ DumpOnExit)
    <3>1. /\ MovesOn(c) /\ OnlyPc(c) /\ UNCHANGED << heap, pointers_ >>
          /\ pc'[c] \notin Adding \cup Removing
      BY <2>2, MovesOnEffects
    <3> QED BY <3>1, TracksIdle, TracksQuiet DEF MovesOn
  <2>3. CASE FinDisable(c) /\ "BACKTRACE" \in Options /\ DumpOnExit
    BY <2>0, <2>3, ExitDumpEffects
  <2>4. CASE Unlock(c)
    BY <2>0, <2>4, UnlockEffects
  <2>5. CASE ProgramCall(c) \/ ProgramExits(c)
    <3>1. UNCHANGED vars /\ pc[c] = "idle"
      BY <2>5, ScopeMoves
    <3>2. OnlyAt(c) /\ UNCHANGED heap /\ at'[c] # "system"
      BY <2>5, ProgramCallEffects, ProgramExitsEffects DEF Starts
    <3> QED BY <2>0, <3>1, <3>2
  <2> QED BY <1>2, <2>1, <2>2, <2>3, <2>4, <2>5, BodyTracks, TrackerTracks DEF LibraryStep
<1>3. ASSUME NEW t \in Thread, Deliver(t) \/ HandlerStep(t)
      PROVE  TracksOwned'
  BY <1>3, HandlerTracks
<1> QED BY <1>1, <1>2, <1>3, <1>u, MDStuttering DEF MDNext, Arrival

----------------------------------------------------------------------------
(* Every block has one owner, and an entry of the tracker is of a block    *)
(* that exists: in every reachable state each address the program holds, a *)
(* debug_ function is working on or a handler keeps as its file name       *)
(* belongs to exactly one of them, however threads and signal handlers     *)
(* interleave.                                                             *)
THEOREM OwnInvariant == MDSpec => []OwnInv
<1>1. MDInit => OwnInv
  <2>1. ASSUME MDInit PROVE OwnInv
    <3>0. /\ heap = << >> /\ user = {} /\ at = [c \in Caller |-> "user"]
          /\ call = [c \in Caller |-> NoCall] /\ temp = [t \in Thread |-> NULL]
          /\ pc = [c \in Caller |-> "idle"] /\ pointers_ = << >>
      BY <2>1 DEF MDInit, Init
    <3>1. \A c \in Caller : pc[c] = "idle" /\ at[c] = "user" /\ call[c] = NoCall
      BY <3>0
    <3>2. \A t \in Thread : temp[t] = NULL /\ at[Sig(t)] = "user" /\ call[Sig(t)] = NoCall
      BY <3>0, CallerOf
    <3>3. NoCall.fn = "none" /\ NoCall.ptr = NULL /\ NoCall.result = NULL /\ NULL \notin Address
      BY AddressRange DEF NoCall
    <3>4. TrackerCalled
      BY <3>1, <3>2 DEF TrackerCalled
    <3>5. CallsGoOn
      BY <3>1, <3>3 DEF CallsGoOn, CallGoesOn, Final
    <3>6. Owned
      BY <3>0, <3>1, <3>2, <3>3 DEF Owned, Has
    <3>7. NamesMatch
      BY <3>2, <3>3 DEF NamesMatch
    <3>8. TracksOwned
      <4>1. DOMAIN pointers_ = {}
        BY <3>0
      <4> QED BY <3>1, <4>1 DEF TracksOwned, CallTracks, Adding, Removing
    <3> QED BY <3>4, <3>5, <3>6, <3>7, <3>8 DEF OwnInv
  <2> QED BY <2>1
<1>2. TypeOK /\ MDTypeOK /\ OwnInv /\ [MDNext]_allVars => OwnInv'
  BY NextCalled, NextGoesOn, NextOwned, NextNames, NextTracks DEF OwnInv
<1>3. MDTypeOK /\ IInv => TypeOK /\ MDTypeOK
  BY DEF IInv
<1> QED BY <1>1, <1>2, <1>3, TrackerInLibrary, PTL DEF MDSpec

(* Failed system calls do no further harm, whatever fails and however the  *)
(* calls interleave: what the tracker says of a real address is the size   *)
(* of the block that is there.                                             *)
THEOREM FailuresAlwaysContained == MDSpec => []FailuresContained
<1>1. OwnInv => FailuresContained
  BY DEF OwnInv, TracksOwned, EntryMatches, Matches, FailuresContained
<1> QED BY <1>1, OwnInvariant, PTL

----------------------------------------------------------------------------
(* Entries are of blocks only, when the allocating calls succeed.          *)
LEMMA NextOnlyBlocks ==
  ASSUME AllocationsSucceed, TypeOK, MDTypeOK, TrackerCalled, CallsGoOn, OnlyBlocks,
         [MDNext]_allVars
  PROVE  OnlyBlocks'
<1>1. CASE UNCHANGED << pointers_, pc, arg >>
  BY <1>1 DEF OnlyBlocks
<1>u. UNCHANGED vars => UNCHANGED << pointers_, pc, arg >>
  BY DEF vars, dataVars, mapVars, callerVars
<1>f. ASSUME NEW c \in Caller, OnlyPc(c), UNCHANGED pointers_,
             pc'[c] \in Adding => arg'[c].ptr \in Address
      PROVE  OnlyBlocks'
  BY <1>f DEF OnlyBlocks, OnlyPc
<1>2. ASSUME NEW c \in Caller, LibraryStep(c) \/ ProgramCall(c) \/ ProgramExits(c)
      PROVE  OnlyBlocks'
  <2>1. CASE TrackerStep(c)
    <3>0. OnlyPc(c) /\ arg[c].ptr \in 0 .. UINTPTR_MAX
      BY <2>1, StepLocal DEF TrackerStep, OnlyPc, TypeOK, ArgType
    <3>1. CASE Continues(c)
      BY <1>f, <3>0, <3>1 DEF Continues, OnlyBlocks
    <3>2. CASE Records(c) \/ Forgets(c)
      <4>1. \A d \in Caller : pc'[d] \in Adding => arg'[d].ptr \in Address
        BY <3>0, <3>2 DEF Records, Forgets, OnlyBlocks, OnlyPc
      <4>2. \A k \in DOMAIN pointers_' :
              \/ k \in DOMAIN pointers_
              \/ k = ManglePointer(arg[c].ptr) /\ pc[c] \in Adding
        BY <3>2 DEF Records, Forgets, Put, Erase
      <4>3. pc[c] \in Adding => DemanglePointer(ManglePointer(arg[c].ptr)) \in Address
        BY <3>0, Mangling DEF OnlyBlocks
      <4>4. \A k \in DOMAIN pointers_' : DemanglePointer(k) \in Address
        BY <4>2, <4>3 DEF OnlyBlocks
      <4> QED BY <4>1, <4>4 DEF OnlyBlocks
    <3> QED BY <2>1, <3>1, <3>2, StepKinds DEF TrackerStep
  <2>2. CASE \/ AllocBody(c) \/ MmapBody(c) \/ TooLargeBody(c) \/ RemoveBody(c)
             \/ SystemFree(c) \/ SystemRealloc(c) \/ DumpBody(c)
    <3>1. /\ OnlyPc(c) /\ UNCHANGED pointers_ /\ pc[c] = "idle" /\ pc[c] \notin Adding
          /\ \/ GetsBlock(c) \/ AddsFailure(c) \/ GetsNothing(c) \/ StartsRemove(c)
             \/ GivesBack(c) \/ Reallocates(c) \/ Dumps(c)
      BY <2>2, BodyEffects DEF Adding
    <3>2. CASE GetsBlock(c) \/ Reallocates(c)
      <4>1. Adds(c) /\ call'[c].result \in Address
        BY <3>2 DEF GetsBlock, Reallocates
      <4>2. pc'[c] \in Adding => arg'[c].ptr \in Address
        BY <3>1, <4>1 DEF Adds
      <4> QED BY <1>f, <3>1, <4>2
    <3>3. ~ AddsFailure(c)
      BY DEF AddsFailure, AllocationsSucceed
    <3>4. CASE GetsNothing(c) \/ StartsRemove(c) \/ GivesBack(c) \/ Dumps(c)
      <4>1. pc'[c] \notin Adding
        BY <3>1, <3>4 DEF GetsNothing, StartsRemove, GivesBack, Dumps, Adding, Removing
      <4> QED BY <1>f, <3>1, <4>1
    <3> QED BY <3>1, <3>2, <3>3, <3>4
  <2>3. CASE FinInfo(c)
    BY <1>f, <2>3, MovesOnEffects
  <2>4. CASE \/ RdLock(c) \/ Disable(c) \/ Enable(c) \/ Unlock(c) \/ WrLock(c) \/ FinDisable(c)
             \/ ProgramCall(c) \/ ProgramExits(c)
    BY <1>1, <1>u, <2>4, ScopeMoves
  <2>5. CASE WrWait(c)
    BY <1>1, <1>u, <2>5 DEF WrWait
  <2> QED BY <1>2, <2>1, <2>2, <2>3, <2>4, <2>5 DEF LibraryStep
<1>3. ASSUME NEW t \in Thread, Deliver(t) \/ HandlerStep(t)
      PROVE  OnlyBlocks'
  BY <1>1, <1>3, <1>u, HandlerEffects
<1> QED BY <1>1, <1>2, <1>3, <1>u, MDStuttering DEF MDNext, Arrival

(* What is tracked exists, with its size and type: no dump shows memory    *)
(* that was freed, or freed and given to another thread meanwhile.  The    *)
(* hypothesis is needed: malloc, realloc and mmap add the result of a call *)
(* that failed.                                                            *)
THEOREM NeverPhantom ==
  ASSUME AllocationsSucceed
  PROVE  MDSpec => []NoPhantom
<1>1. MDInit => OnlyBlocks
  <2>1. ASSUME MDInit PROVE OnlyBlocks
    <3>1. pc = [c \in Caller |-> "idle"] /\ DOMAIN pointers_ = {}
      BY <2>1 DEF MDInit, Init
    <3> QED BY <3>1 DEF OnlyBlocks, Adding
  <2> QED BY <2>1
<1>2. TypeOK /\ MDTypeOK /\ OwnInv /\ OnlyBlocks /\ [MDNext]_allVars => OnlyBlocks'
  BY NextOnlyBlocks DEF OwnInv
<1>3. MDTypeOK /\ IInv => TypeOK /\ MDTypeOK
  BY DEF IInv
<1>4. OwnInv /\ OnlyBlocks => NoPhantom
  <2>1. ASSUME OwnInv, OnlyBlocks, NEW k \in DOMAIN pointers_
        PROVE  /\ DemanglePointer(k) \in DOMAIN heap
               /\ pointers_[k].size = heap[DemanglePointer(k)].size
               /\ pointers_[k].mem_type = heap[DemanglePointer(k)].type
    <3>1. EntryMatches(k) /\ DemanglePointer(k) \in Address
      BY <2>1 DEF OwnInv, TracksOwned, OnlyBlocks
    <3> QED BY <3>1, AddressRange DEF EntryMatches, Matches
  <2> QED BY <2>1 DEF NoPhantom
<1> QED BY <1>1, <1>2, <1>3, <1>4, OwnInvariant, TrackerInLibrary, PTL DEF MDSpec

----------------------------------------------------------------------------
(* What is kept is tracked.                                                *)
IsTracked(p) == ManglePointer(p) \in DOMAIN pointers_

CallKept(c) ==
  /\ \A p \in Settled(c) : IsTracked(p)
  /\ pc[c] \in Adding => Has(c) \subseteq {arg[c].ptr}

LEMMA KeptParts ==
  KeptTracked <=> /\ \A p \in user : IsTracked(p)
                  /\ \A c \in Caller : CallKept(c)
                  /\ \A t \in Thread : temp[t] # NULL /\ ~ heap[temp[t]].direct => IsTracked(temp[t])
BY DEF KeptTracked, IsTracked, CallKept

(* A caller's step outside the tracker.                                    *)
LEMMA KeptFrame ==
  ASSUME KeptTracked, Owned, NEW c \in Caller, OnlyAt(c), OnlyPc(c),
         UNCHANGED << pointers_, user, temp >>, CallKept(c)',
         \A q \in DOMAIN heap : q \notin Has(c) => heap'[q] = heap[q]
  PROVE  KeptTracked'
<1>1. ASSUME NEW d \in Caller, d # c PROVE CallKept(d)'
  <2>1. pc'[d] = pc[d] /\ arg'[d] = arg[d] /\ at'[d] = at[d] /\ Has(d)' = Has(d)
    BY <1>1, HasFrame DEF OnlyAt, OnlyPc
  <2>2. Settled(d)' = Settled(d)
    BY <2>1 DEF Settled
  <2> QED BY <2>1, <2>2, KeptParts DEF CallKept, IsTracked
<1>2. \A t \in Thread : temp[t] # NULL => heap'[temp[t]] = heap[temp[t]]
  BY DEF Owned
<1>3. \A p \in user' : IsTracked(p)'
  BY KeptParts DEF IsTracked
<1>4. \A t \in Thread : temp'[t] # NULL /\ ~ heap'[temp'[t]].direct => IsTracked(temp[t])
  BY <1>2, KeptParts
<1> QED BY <1>1, <1>3, <1>4 DEF KeptTracked, CallKept, IsTracked

LEMMA KeptNothing ==
  ASSUME NEW c \in Caller, Has(c)' = {}
  PROVE  CallKept(c)'
BY DEF CallKept, Settled

LEMMA TrackerKept ==
  ASSUME EveryAddRecords, TypeOK, MDTypeOK, CallsGoOn, Owned, TracksOwned, KeptTracked,
         NEW c \in Caller, TrackerStep(c)
  PROVE  KeptTracked'
<1>0. /\ UNCHANGED << heap, at, call, user, temp >> /\ OnlyAt(c) /\ OnlyPc(c)
      /\ CallTracks(c) /\ CallGoesOn(c) /\ CallKept(c) /\ arg[c].ptr \in 0 .. UINTPTR_MAX
  BY StepLocal, KeptParts
     DEF TrackerStep, mdVars, heapVars, sigVars, OnlyAt, OnlyPc, TracksOwned, CallsGoOn, TypeOK, ArgType
<1>h. \A d \in Caller : Has(d)' = Has(d) /\ Has(d) \subseteq Address
  BY <1>0 DEF Has, Keeps
<1>1. CASE Continues(c)
  <2>1. pc'[c] \in Adding <=> pc[c] \in Adding
    BY <1>1 DEF Continues, EveryAddRecords
  <2>2. Settled(c)' = Settled(c) /\ UNCHANGED pointers_
    BY <1>0, <1>1, <1>h, <2>1 DEF Settled, Continues
  <2>3. pc'[c] \in Adding => arg'[c].ptr = arg[c].ptr
    BY <1>1 DEF Continues
  <2>4. CallKept(c)'
    BY <1>0, <1>h, <2>1, <2>2, <2>3 DEF CallKept, IsTracked
  <2> QED BY <1>0, <2>2, <2>4, KeptFrame
<1>2. CASE Records(c)
  <2>1. /\ DOMAIN pointers_' = DOMAIN pointers_ \cup {ManglePointer(arg[c].ptr)}
        /\ pc[c] \in Adding /\ pc'[c] \notin Adding
    BY <1>2 DEF Records, Put
  <2>2. CallKept(c)'
    <3>1. Settled(c)' \subseteq {arg[c].ptr}
      BY <1>0, <1>h, <2>1 DEF CallKept, Settled
    <3> QED BY <2>1, <3>1 DEF CallKept, IsTracked
  <2>3. ASSUME NEW d \in Caller, d # c PROVE CallKept(d)'
    <3>1. pc'[d] = pc[d] /\ arg'[d] = arg[d] /\ Settled(d)' = Settled(d) /\ CallKept(d)
      BY <1>0, <1>h, <2>3, KeptParts DEF OnlyPc, Settled
    <3> QED BY <1>h, <2>1, <3>1 DEF CallKept, IsTracked
  <2>4. /\ \A p \in user' : IsTracked(p)'
        /\ \A t \in Thread : temp'[t] # NULL /\ ~ heap'[temp'[t]].direct => IsTracked(temp[t])
    BY <1>0, <2>1, KeptParts DEF IsTracked
  <2> QED BY <1>0, <2>1, <2>2, <2>3, <2>4 DEF KeptTracked, CallKept, IsTracked
<1>3. CASE Forgets(c)
  <2>1. /\ DOMAIN pointers_' = DOMAIN pointers_ \ {ManglePointer(arg[c].ptr)}
        /\ pc'[c] \notin Adding /\ at[c] = "system" /\ arg[c].ptr = call[c].ptr
    BY <1>0, <1>3 DEF Forgets, Erase, CallTracks
  <2>2. arg[c].ptr \in Has(c)
    <3>1. call[c].ptr \in Address /\ call[c].result \notin Address /\ Keeps(c)
      BY <1>0, <2>1, AddressRange DEF CallGoesOn, Keeps, MDTypeOK, CallType
    <3> QED BY <2>1, <3>1 DEF Has
  <2>3. ASSUME NEW p \in Address, p # arg[c].ptr, IsTracked(p) PROVE IsTracked(p)'
    <3>1. ManglePointer(p) # ManglePointer(arg[c].ptr)
      BY <1>0, <2>3, Mangling, AddressRange
    <3> QED BY <2>1, <2>3, <3>1 DEF IsTracked
  <2>4. CallKept(c)'
    BY <1>0, <2>1 DEF CallKept, Settled
  <2>5. ASSUME NEW d \in Caller, d # c PROVE CallKept(d)'
    <3>1. pc'[d] = pc[d] /\ arg'[d] = arg[d] /\ Settled(d)' = Settled(d) /\ CallKept(d)
      BY <1>0, <1>h, <2>5, KeptParts DEF OnlyPc, Settled
    <3>2. \A p \in Settled(d) : p \in Address /\ p # arg[c].ptr
      BY <1>h, <2>2, <2>5 DEF Settled, Owned
    <3> QED BY <1>h, <2>3, <3>1, <3>2 DEF CallKept
  <2>6. \A p \in user' : IsTracked(p)'
    BY <1>0, <2>2, <2>3, KeptParts DEF Owned, MDTypeOK
  <2>7. \A t \in Thread : temp'[t] # NULL /\ ~ heap'[temp'[t]].direct => IsTracked(temp[t])'
    BY <1>0, <2>2, <2>3, KeptParts DEF Owned, MDTypeOK
  <2> QED BY <1>0, <2>4, <2>5, <2>6, <2>7 DEF KeptTracked, CallKept, IsTracked
<1> QED BY <1>1, <1>2, <1>3, StepKinds DEF TrackerStep

LEMMA BodyKept ==
  ASSUME EveryAddRecords, TypeOK, MDTypeOK, CallsGoOn, Owned, KeptTracked, NEW c \in Caller,
         \/ AllocBody(c) \/ MmapBody(c) \/ TooLargeBody(c) \/ RemoveBody(c)
         \/ SystemFree(c) \/ SystemRealloc(c) \/ DumpBody(c)
  PROVE  KeptTracked'
<1>1. /\ OnlyAt(c) /\ OnlyPc(c) /\ SameCall(c) /\ UNCHANGED << pointers_, user, temp >>
      /\ pc[c] = "idle" /\ pc[c] \notin Adding
      /\ \/ GetsBlock(c) \/ AddsFailure(c) \/ GetsNothing(c) \/ StartsRemove(c)
         \/ GivesBack(c) \/ Reallocates(c) \/ Dumps(c)
  BY BodyEffects DEF Adding
<1>2. /\ CallGoesOn(c) /\ CallKept(c) /\ NULL \notin Address /\ MAP_FAILED \notin Address
      /\ call[c].ptr \in Address \cup {NULL} /\ TrackPointers
  BY AddressRange, KeptParts DEF CallsGoOn, MDTypeOK, CallType, EveryAddRecords
<1>3. at[c] \in {"body", "system"} => call[c].result = NULL /\ Has(c) = {call[c].ptr} \cap Address
  BY <1>2 DEF CallGoesOn, Has, Keeps
<1>4. CASE GetsBlock(c) \/ Reallocates(c)
  <2>1. /\ at[c] \in {"body", "system"} /\ Adds(c) /\ call'[c].result \in Address
    BY <1>4 DEF GetsBlock, Reallocates
  <2>2. Has(c)' = {call'[c].result}
    BY <2>1 DEF Has
  <2>3. CallKept(c)'
    BY <1>2, <2>1, <2>2 DEF CallKept, Settled, Adds, Adding
  <2>4. \A q \in DOMAIN heap : q \notin Has(c) => heap'[q] = heap[q]
    <3>1. CASE GetsBlock(c)
      BY <3>1 DEF GetsBlock, Put
    <3>2. CASE Reallocates(c)
      BY <1>3, <2>1, <3>2 DEF Reallocates, Put, Erase, MDTypeOK
    <3> QED BY <1>4, <3>1, <3>2
  <2> QED BY <1>1, <2>3, <2>4, KeptFrame
<1>5. CASE AddsFailure(c)
  <2>1. call[c].ptr = NULL /\ call'[c].result \notin Address /\ UNCHANGED heap
    BY <1>2, <1>5 DEF AddsFailure, EveryAddRecords, CallGoesOn
  <2>2. Has(c)' = {}
    BY <1>1, <1>2, <2>1 DEF Has, SameCall
  <2> QED BY <1>1, <2>1, <2>2, KeptNothing, KeptFrame
<1>6. CASE GetsNothing(c) \/ Dumps(c)
  <2>1. /\ at[c] = "body" /\ at'[c] = "enable" /\ pc'[c] \notin Adding /\ UNCHANGED heap
        /\ call'[c].result = NULL
    BY <1>1, <1>3, <1>6 DEF GetsNothing, Dumps
  <2>2. Has(c)' \subseteq Has(c)
    BY <1>1, <1>2, <1>3, <2>1 DEF Has, SameCall
  <2>3. Settled(c) = Has(c) /\ Settled(c)' = Has(c)'
    BY <1>1, <2>1 DEF Settled
  <2>4. CallKept(c)'
    BY <1>1, <1>2, <2>1, <2>2, <2>3 DEF CallKept, IsTracked
  <2> QED BY <1>1, <2>1, <2>4, KeptFrame
<1>7. CASE StartsRemove(c)
  <2>1. at'[c] = "system" /\ pc'[c] \notin Adding /\ UNCHANGED heap
    BY <1>2, <1>7 DEF StartsRemove, Adding
  <2>2. CallKept(c)'
    BY <2>1 DEF CallKept, Settled
  <2> QED BY <1>1, <2>1, <2>2, KeptFrame
<1>8. CASE GivesBack(c)
  <2>1. /\ at[c] = "system" /\ at'[c] = "enable" /\ heap' = Erase(heap, call[c].ptr)
        /\ UNCHANGED call /\ (call[c].fn = "realloc" => call[c].size = 0)
    BY <1>8 DEF GivesBack, EveryAddRecords
  <2>2. Has(c)' = {}
    BY <1>2, <1>3, <2>1 DEF Has, Keeps
  <2>3. \A q \in DOMAIN heap : q \notin Has(c) => heap'[q] = heap[q]
    BY <1>3, <2>1 DEF Erase, MDTypeOK
  <2> QED BY <1>1, <2>2, <2>3, KeptNothing, KeptFrame
<1> QED BY <1>1, <1>4, <1>5, <1>6, <1>7, <1>8

(* A call gets its block from the program, or gives it back.               *)
LEMMA HandsOver ==
  ASSUME KeptTracked, NEW c \in Caller, OnlyAt(c), UNCHANGED << heap, pointers_, pc, arg >>,
         pc[c] = "idle", \A p \in Has(c)' : IsTracked(p), \A p \in user' : IsTracked(p),
         \A t \in Thread : temp'[t] # NULL /\ ~ heap[temp'[t]].direct => IsTracked(temp'[t])
  PROVE  KeptTracked'
<1>1. ASSUME NEW d \in Caller, d # c PROVE CallKept(d)'
  <2>1. Settled(d)' = Settled(d) /\ Has(d)' = Has(d)
    BY <1>1, HasFrame DEF OnlyAt, Settled
  <2> QED BY <2>1, KeptParts DEF CallKept, IsTracked
<1>2. CallKept(c)'
  BY DEF CallKept, Settled, IsTracked, Adding
<1> QED BY <1>1, <1>2 DEF KeptTracked, CallKept, IsTracked

LEMMA UnlockKept ==
  ASSUME MDTypeOK, CallsGoOn, KeptTracked, NEW c \in Caller, Unlock(c)
  PROVE  KeptTracked'
<1>0. /\ OnlyAt(c) /\ at[c] = "unlock" /\ pc[c] = "idle" /\ UNCHANGED << heap, pointers_, pc, arg >>
      /\ CallGoesOn(c) /\ NULL \notin Address
  BY UnlockEffects, AddressRange DEF vars, dataVars, mapVars, callerVars, CallsGoOn
<1>1. /\ \A p \in Has(c) : IsTracked(p)
      /\ \A p \in user : IsTracked(p)
      /\ \A t \in Thread : temp[t] # NULL /\ ~ heap[temp[t]].direct => IsTracked(temp[t])
  BY <1>0, KeptParts DEF CallKept, Settled, Adding
<1>2. Has(c)' = {}
  <2>1. call'[c] = NoCall => Has(c)' = {}
    BY <1>0 DEF Has, NoCall
  <2>2. call[c].fn = "exit_dump" /\ call'[c].ptr = call[c].ptr /\ call'[c].result = call[c].result
          => Has(c)' = {}
    BY <1>0 DEF Has, CallGoesOn, Allocates
  <2> QED BY <2>1, <2>2, UnlockEffects
<1>3. \A p \in user' : IsTracked(p)
  BY <1>0, <1>1, GivenHas, UnlockEffects
<1>4. \A t \in Thread : temp'[t] # NULL => temp'[t] = temp[t] \/ temp'[t] \in Has(c)
  <2>1. call[c].fn = "malloc" => call[c].result \in Address \cup {NULL}
    BY DEF MDTypeOK, CallType
  <2> QED BY <2>1, UnlockEffects DEF Has
<1> QED BY <1>0, <1>1, <1>2, <1>3, <1>4, HandsOver

LEMMA HandlerKept ==
  ASSUME MDTypeOK, TrackerCalled, Owned, NamesMatch, KeptTracked, NEW t \in Thread,
         Deliver(t) \/ HandlerStep(t)
  PROVE  KeptTracked'
<1>0. /\ UNCHANGED << pointers_, pc, arg, user >> /\ Sig(t) \in Caller /\ NULL \notin Address
      /\ \A u \in Thread : u # t => temp'[u] = temp[u]
  BY HandlerEffects, CallerOf, AddressRange DEF vars, dataVars, mapVars, callerVars
<1>1. ASSUME UNCHANGED << at, call >>,
             \A u \in Thread : temp'[u] # NULL /\ ~ heap'[temp'[u]].direct => IsTracked(temp'[u])
      PROVE  KeptTracked'
  <2>1. \A d \in Caller : Has(d)' = Has(d) /\ Settled(d)' = Settled(d)
    BY <1>0, <1>1 DEF Has, Keeps, Settled
  <2> QED BY <1>0, <1>1, <2>1 DEF KeptTracked, IsTracked
<1>k. /\ \A p \in user : IsTracked(p)
      /\ \A u \in Thread : temp[u] # NULL /\ ~ heap[temp[u]].direct => IsTracked(temp[u])
  BY KeptParts
<1>2. CASE UNCHANGED << heap, at, call, temp >>
  BY <1>1, <1>2, <1>k
<1>3. ASSUME NEW fn, NEW p, Starts(Sig(t), fn, p), UNCHANGED heap, p \in Address => IsTracked(p),
             temp'[t] = temp[t] \/ temp'[t] = NULL
      PROVE  KeptTracked'
  <2>1. OnlyAt(Sig(t)) /\ pc[Sig(t)] = "idle"
    BY <1>0, <1>3 DEF Starts, TrackerCalled
  <2>2. \A q \in Has(Sig(t))' : IsTracked(q)
    BY <1>0, <1>3 DEF Starts, Has
  <2> QED BY <1>0, <1>3, <1>k, <2>1, <2>2, HandsOver
<1>4. ASSUME NEW p \in Address \ DOMAIN heap, UNCHANGED << at, call >>, temp'[t] = p,
             heap' = Put(heap, p, [type |-> "HOST", size |-> NameSize, direct |-> TRUE])
      PROVE  KeptTracked'
  <2>1. heap'[p].direct /\ \A q \in DOMAIN heap : heap'[q] = heap[q]
    BY <1>4 DEF Put
  <2>2. \A u \in Thread : u # t /\ temp[u] # NULL => heap'[temp[u]] = heap[temp[u]]
    BY <2>1 DEF Owned
  <2>3. ASSUME NEW u \in Thread, temp'[u] # NULL, ~ heap'[temp'[u]].direct
        PROVE  IsTracked(temp'[u])
    <3>1. u # t
      BY <1>4, <2>1, <2>3
    <3> QED BY <1>0, <1>k, <2>2, <2>3, <3>1
  <2> QED BY <1>1, <1>4, <2>3
<1>5. CASE /\ UNCHANGED heap /\ Starts(Sig(t), "free", temp[t]) /\ temp[t] # NULL /\ temp'[t] = NULL
           /\ ~ disabled[t]
  <2>1. ~ heap[temp[t]].direct
    BY <1>5 DEF NamesMatch, Flag, Starts, Up
  <2> QED BY <1>3, <1>5, <1>k, <2>1
<1>6. CASE UNCHANGED << at, call >> /\ heap' = Erase(heap, temp[t]) /\ temp'[t] = NULL
  <2>1. \A q \in DOMAIN heap : q # temp[t] => heap'[q] = heap[q]
    BY <1>6 DEF Erase
  <2>2. \A u \in Thread : u # t /\ temp[u] # NULL => heap'[temp[u]] = heap[temp[u]]
    BY <2>1 DEF Owned
  <2> QED BY <1>0, <1>1, <1>6, <1>k, <2>2
<1>7. CASE UNCHANGED << heap, temp >> /\ \E fn : Starts(Sig(t), fn, NULL)
  BY <1>0, <1>3, <1>7
<1> QED BY <1>2, <1>4, <1>5, <1>6, <1>7, HandlerEffects

LEMMA NextKept ==
  ASSUME EveryAddRecords, TypeOK, MDTypeOK, OwnInv, KeptTracked, [MDNext]_allVars
  PROVE  KeptTracked'
<1> USE DEF OwnInv
<1>u. UNCHANGED vars => UNCHANGED << pointers_, pc, arg >>
  BY DEF vars, dataVars, mapVars, callerVars
<1>1. CASE UNCHANGED << heap, user, at, call, temp, pointers_, pc, arg >>
  BY <1>1 DEF KeptTracked, Settled, Has, Keeps
<1>2. ASSUME NEW c \in Caller, LibraryStep(c) \/ ProgramCall(c) \/ ProgramExits(c)
      PROVE  KeptTracked'
  <2>0. CallGoesOn(c) /\ CallKept(c) /\ NULL \notin Address
    BY AddressRange, KeptParts DEF CallsGoOn
  <2>1. CASE WrWait(c)
    BY <1>1, <1>u, <2>1 DEF WrWait, heapVars, sigVars
  <2>2. CASE \/ RdLock(c) \/ Disable(c) \/ Enable(c) \/ WrLock(c) \/ FinInfo(c)
             \/ FinDisable(c) /\ ~ ("BACKTRACE" \in Options /\ DumpOnExit)
    <3>1. /\ MovesOn(c) /\ OnlyPc(c) /\ UNCHANGED << heap, user, temp, pointers_ >> /\ pc[c] = "idle"
          /\ pc'[c] \notin Adding /\ Has(c)' = Has(c)
      BY <2>2, MovesOnEffects, MovesOnHas
    <3>2. Settled(c) = Has(c)
      BY <3>1 DEF MovesOn, Settled, Adding
    <3>3. Settled(c)' = Has(c)'
      BY <3>1 DEF MovesOn, Settled
    <3>4. CallKept(c)'
      BY <2>0, <3>1, <3>2, <3>3 DEF CallKept, IsTracked
    <3> QED BY <3>1, <3>4, KeptFrame DEF MovesOn
  <2>3. ASSUME OnlyAt(c), UNCHANGED vars, UNCHANGED << heap, user, temp >>, Has(c)' = {}
        PROVE  KeptTracked'
    <3>1. OnlyPc(c) /\ UNCHANGED pointers_
      BY <1>u, <2>3 DEF OnlyPc
    <3> QED BY <2>3, <3>1, KeptNothing, KeptFrame
  <2>4. CASE FinDisable(c) /\ "BACKTRACE" \in Options /\ DumpOnExit
    <3>1. /\ OnlyAt(c) /\ UNCHANGED vars /\ UNCHANGED << heap, user, temp >>
          /\ at[c] = "fin_disable" /\ call'[c].ptr = call[c].ptr /\ call'[c].result = call[c].result
      BY <2>4, ExitDumpEffects
    <3>2. Has(c)' = {}
      BY <2>0, <3>1 DEF Has, CallGoesOn, Final
    <3> QED BY <2>3, <3>1, <3>2
  <2>5. CASE ProgramExits(c)
    <3>1. Has(c)' = {}
      BY <2>0, <2>5, ProgramExitsEffects DEF Has
    <3> QED BY <2>3, <2>5, <3>1, ProgramExitsEffects
  <2>6. CASE ProgramCall(c)
    <3>1. UNCHANGED << pointers_, pc, arg >> /\ pc[c] = "idle" /\ UNCHANGED << heap, temp >>
      BY <1>u, <2>6, ScopeMoves, ProgramCallEffects
    <3>2. PICK fn, p : /\ Starts(c, fn, p) /\ p \in user \cup {NULL} /\ user' \subseteq user
      BY <2>6, ProgramCallEffects
    <3>3. Has(c)' \subseteq user
      BY <2>0, <3>2 DEF Starts, Has
    <3> QED BY <3>1, <3>2, <3>3, HandsOver, KeptParts DEF Starts
  <2> QED BY <1>2, <2>1, <2>2, <2>4, <2>5, <2>6, TrackerKept, BodyKept, UnlockKept DEF LibraryStep
<1>3. ASSUME NEW t \in Thread, Deliver(t) \/ HandlerStep(t)
      PROVE  KeptTracked'
  BY <1>3, HandlerKept
<1> QED BY <1>1, <1>2, <1>3, <1>u, MDStuttering DEF MDNext, Arrival

(* What the program has is tracked: no free or realloc that is still under *)
(* way takes out the entry of a block that was given out again meanwhile.  *)
(* The hypothesis is needed: an Add that the unwinder leaves by exit makes *)
(* no entry, and a failed realloc or munmap leaves a block without its     *)
(* entry.                                                                  *)
THEOREM AlwaysLiveTracked ==
  ASSUME EveryAddRecords
  PROVE  MDSpec => []LiveTracked
<1>1. MDInit => KeptTracked
  <2>1. ASSUME MDInit PROVE KeptTracked
    <3>1. /\ pc = [c \in Caller |-> "idle"] /\ user = {} /\ call = [c \in Caller |-> NoCall]
          /\ temp = [t \in Thread |-> NULL]
      BY <2>1 DEF MDInit, Init
    <3>2. \A c \in Caller : Has(c) = {}
      BY <3>1, AddressRange DEF Has, NoCall
    <3> QED BY <3>1, <3>2 DEF KeptTracked, Settled
  <2> QED BY <2>1
<1>2. TypeOK /\ MDTypeOK /\ OwnInv /\ KeptTracked /\ [MDNext]_allVars => KeptTracked'
  BY NextKept
<1>3. MDTypeOK /\ IInv => TypeOK /\ MDTypeOK
  BY DEF IInv
<1>4. KeptTracked => LiveTracked
  BY DEF KeptTracked, LiveTracked
<1> QED BY <1>1, <1>2, <1>3, <1>4, OwnInvariant, TrackerInLibrary, PTL DEF MDSpec
============================================================================
