---------------------------- MODULE PointerData ----------------------------
(***************************************************************************)
(* PointerData: the maps of live allocations and of their backtraces, the  *)
(* usage counters and the listing taken at the peak, shared by every       *)
(* thread of the traced program.  pointer_mutex_ guards the first map and  *)
(* the counters, frame_mutex_ the backtraces; Add and Remove take them one *)
(* after the other, the listings take both.                                *)
(*                                                                         *)
(* A caller is a thread, or a signal handler running on top of one.  Each  *)
(* step below is what a caller does between two points where another one   *)
(* can get in: taking a mutex and the section it protects are two steps.   *)
(***************************************************************************)
EXTENDS Integers, Sequences, FiniteSets, FiniteSetsExt, PointerList

CONSTANTS
  Caller,          \* execution contexts that use the tracker
  NoCaller,        \* owner of a free mutex
  Pointer,         \* pointer values that are added and removed
  Size,            \* sizes they are added with
  Types,           \* and types
  Backtrace,       \* what an unwind can return
  NoTrace,         \* the frames of an entry that was never filled in
  UnwindResults,   \* outcomes of Unwind: "ok", "failed", "exit"
  Options,         \* Config::options()
  MinSizeBytes,    \* Config::backtrace_min_size_bytes()
  MaxSizeBytes,    \* Config::backtrace_max_size_bytes()
  DumpPeakVal,     \* Config::backtrace_dump_peak_val()
  MaxUsed,         \* bound: no Add starts that would take current_used_ above it
  MaxIndex         \* bound: no Add starts once this many indices were given out

MemType == {"HOST", "MMAP", "DMA"}

ASSUME CallerAssumption  == IsFiniteSet(Caller) /\ NoCaller \notin Caller
ASSUME PointerAssumption == UINTPTR_MAX \in Nat /\ Pointer \subseteq 0 .. UINTPTR_MAX
ASSUME SizeAssumption    == Size \subseteq Nat /\ PointerMaxSize \in Nat /\ Types \subseteq MemType
ASSUME ConfigAssumption  == {MinSizeBytes, MaxSizeBytes, DumpPeakVal} \subseteq Nat
ASSUME TraceAssumption   == NoTrace \notin Backtrace
ASSUME BoundAssumption   == MaxUsed \in Nat /\ MaxIndex \in Nat

VARIABLES
  pointers_,         \* mangled pointer -> size, hash_index, mem_type
  key_to_index_,     \* backtrace -> hash index
  frames_,           \* hash index -> references, frames
  backtraces_info_,  \* hash index -> symbolised backtrace
  cur_hash_index_,
  current_used_, current_host_, current_dma_,
  peak_tot_, peak_host_, peak_dma_,
  peak_list_,        \* GetUniqueList at the last recorded peak
  pointer_mutex_, frame_mutex_,  \* who holds them
  pc,                \* where each caller is
  arg,               \* the arguments of its call
  hash_index,        \* its local hash_index, 0 while it has none
  report             \* the list it prints

mapVars     == << pointers_, key_to_index_, frames_, backtraces_info_, cur_hash_index_ >>
frameVars   == << key_to_index_, frames_, backtraces_info_, cur_hash_index_ >>
currentVars == << current_used_, current_host_, current_dma_ >>
peakVars    == << peak_tot_, peak_host_, peak_dma_ >>
counterVars == << currentVars, peakVars >>
dataVars    == << mapVars, counterVars, peak_list_ >>
callerVars  == << pc, arg, hash_index, report >>
vars        == << dataVars, pointer_mutex_, frame_mutex_, callerVars >>

NoArg == [ptr |-> 0, size |-> 0, type |-> "HOST", frames |-> NoTrace]

NothingReported == {}

(* map[k] = v, and erase(k).                                               *)
Put(f, k, v)  == [x \in DOMAIN f \cup {k} |-> IF x = k THEN v ELSE f[x]]
Erase(f, k)   == [x \in DOMAIN f \ {k} |-> f[x]]

Goto(c, l) == pc' = [pc EXCEPT ![c] = l]

(* Initialize.                                                             *)
Init ==
  /\ pointers_ = << >> /\ key_to_index_ = << >> /\ frames_ = << >>
  /\ backtraces_info_ = << >> /\ peak_list_ = << >>
  /\ cur_hash_index_ = kBacktraceEmptyIndex + 1
  /\ current_used_ = 0 /\ current_host_ = 0 /\ current_dma_ = 0
  /\ peak_tot_ = 0 /\ peak_host_ = 0 /\ peak_dma_ = 0
  /\ pointer_mutex_ = NoCaller /\ frame_mutex_ = NoCaller
  /\ pc = [c \in Caller |-> "idle"]
  /\ arg = [c \in Caller |-> NoArg]
  /\ hash_index = [c \in Caller |-> 0]
  /\ report = [c \in Caller |-> NothingReported]

----------------------------------------------------------------------------
(* The mutexes.                                                            *)

LockPointers(c, from, to) ==
  /\ pc[c] = from /\ pointer_mutex_ = NoCaller
  /\ pointer_mutex_' = c /\ Goto(c, to)
  /\ UNCHANGED << dataVars, frame_mutex_, arg, hash_index, report >>

LockFrames(c, from, to) ==
  /\ pc[c] = from /\ frame_mutex_ = NoCaller
  /\ frame_mutex_' = c /\ Goto(c, to)
  /\ UNCHANGED << dataVars, pointer_mutex_, arg, hash_index, report >>

----------------------------------------------------------------------------
(* Add, with AddBacktrace.                                                 *)

CallAdd(c, p, size, type) ==
  /\ pc[c] = "idle"
  /\ current_used_ + size <= MaxUsed /\ cur_hash_index_ < MaxIndex
  /\ arg' = [arg EXCEPT ![c] = [ptr |-> p, size |-> size, type |-> type, frames |-> NoTrace]]
  /\ Goto(c, "backtrace")
  /\ UNCHANGED << dataVars, pointer_mutex_, frame_mutex_, hash_index, report >>

ShouldBacktraceAllocSize(size) ==
  \/ "BACKTRACE_SPECIFIC_SIZES" \notin Options
  \/ size >= MinSizeBytes /\ size <= MaxSizeBytes

WillUnwind(c) == ShouldBacktraceAllocSize(arg[c].size) /\ "BACKTRACE" \in Options

(* Unwind gave frames: ERROR_NONE or ERROR_MAX_FRAMES_EXCEEDED.            *)
UnwindOk(c) ==
  /\ pc[c] = "backtrace" /\ WillUnwind(c) /\ "ok" \in UnwindResults
  /\ \E b \in Backtrace : arg' = [arg EXCEPT ![c].frames = b]
  /\ Goto(c, "bt_lock")
  /\ UNCHANGED << dataVars, pointer_mutex_, frame_mutex_, hash_index, report >>

(* AddBacktrace returns kBacktraceEmptyIndex: the size is filtered, no     *)
(* backtraces are taken, or Unwind failed.                                 *)
NoBacktrace(c) ==
  /\ pc[c] = "backtrace"
  /\ WillUnwind(c) => "failed" \in UnwindResults
  /\ hash_index' = [hash_index EXCEPT ![c] = kBacktraceEmptyIndex]
  /\ Goto(c, "add_lock")
  /\ UNCHANGED << dataVars, pointer_mutex_, frame_mutex_, arg, report >>

(* ERROR_EXIT_FUNC, kBacktraceExitIndex: Add returns, nothing is recorded. *)
UnwindExit(c) ==
  /\ pc[c] = "backtrace" /\ WillUnwind(c) /\ "exit" \in UnwindResults
  /\ arg' = [arg EXCEPT ![c] = NoArg]
  /\ Goto(c, "idle")
  /\ UNCHANGED << dataVars, pointer_mutex_, frame_mutex_, hash_index, report >>

(* frames_[h]: operator[] makes an entry when there is none.               *)
FrameInfo(h) == IF h \in DOMAIN frames_ THEN frames_[h]
                ELSE [references |-> 0, frames |-> NoTrace]

NewBacktrace(b) ==
  /\ key_to_index_' = Put(key_to_index_, b, cur_hash_index_)
  /\ frames_' = Put(frames_, cur_hash_index_, [references |-> 1, frames |-> b])
  /\ backtraces_info_' = Put(backtraces_info_, cur_hash_index_, b)
  /\ cur_hash_index_' = cur_hash_index_ + 1

KnownBacktrace_Uncounted(h) ==  \* mutant: references++ is missing
  UNCHANGED << frames_, key_to_index_, backtraces_info_, cur_hash_index_ >>

KnownBacktrace(h) ==
  /\ frames_' = Put(frames_, h, [ references |-> FrameInfo(h).references + 1,
                                   frames     |-> FrameInfo(h).frames ])
  /\ UNCHANGED << key_to_index_, backtraces_info_, cur_hash_index_ >>

AddBacktrace(c) ==
  LET b     == arg[c].frames
      known == b \in DOMAIN key_to_index_
      h     == IF known THEN key_to_index_[b] ELSE cur_hash_index_
  IN  /\ pc[c] = "bt_held"
      /\ IF known THEN KnownBacktrace(h) ELSE NewBacktrace(b)
      /\ hash_index' = [hash_index EXCEPT ![c] = h]
      /\ frame_mutex_' = NoCaller /\ Goto(c, "add_lock")
      /\ UNCHANGED << pointers_, counterVars, peak_list_, pointer_mutex_, arg, report >>

(* The rest of Add, under pointer_mutex_.  When the total reaches a new    *)
(* peak worth recording the section goes on to take frame_mutex_ as well.  *)
HostPart_Any(size, type) == size  \* mutant: dma memory counts as host memory

HostPart(size, type) == IF type = "DMA" THEN 0 ELSE size

DmaPart(size, type)  == IF type = "DMA" THEN size ELSE 0

RaiseTo(peak, current) == IF current > peak THEN current ELSE peak

RecordsPeak_AnyAdd(used) ==  \* mutant: not only at a new peak
  "RECORD_MEMORY_PEAK" \in Options /\ used > DumpPeakVal

RecordsPeak(used) ==
  /\ peak_tot_ < used
  /\ "RECORD_MEMORY_PEAK" \in Options /\ used > DumpPeakVal

AddPointer(c) ==
  LET a    == arg[c]
      used == current_used_ + a.size
      host == current_host_ + HostPart(a.size, a.type)
      dma  == current_dma_ + DmaPart(a.size, a.type)
  IN  /\ pc[c] = "add_held"
      /\ pointers_' = Put(pointers_, ManglePointer(a.ptr),
                          [size |-> a.size, hash_index |-> hash_index[c], mem_type |-> a.type])
      /\ current_used_' = used /\ current_host_' = host /\ current_dma_' = dma
      /\ peak_host_' = RaiseTo(peak_host_, host)
      /\ peak_dma_'  = RaiseTo(peak_dma_, dma)
      /\ peak_tot_'  = RaiseTo(peak_tot_, used)
      /\ arg' = [arg EXCEPT ![c] = NoArg]
      /\ hash_index' = [hash_index EXCEPT ![c] = 0]
      /\ IF RecordsPeak(used)
         THEN Goto(c, "peak_lock") /\ UNCHANGED pointer_mutex_
         ELSE Goto(c, "idle") /\ pointer_mutex_' = NoCaller
      /\ UNCHANGED << frameVars, peak_list_, frame_mutex_, report >>

RecordPeakList(c) ==
  /\ pc[c] = "peak_held"
  /\ peak_list_' = GetUniqueList(pointers_, frames_, backtraces_info_)
  /\ pointer_mutex_' = NoCaller /\ frame_mutex_' = NoCaller
  /\ Goto(c, "idle")
  /\ UNCHANGED << mapVars, counterVars, arg, hash_index, report >>

----------------------------------------------------------------------------
(* Remove, with RemoveBacktrace.                                           *)

CallRemove(c, p) ==
  /\ pc[c] = "idle"
  /\ arg' = [arg EXCEPT ![c] = [NoArg EXCEPT !.ptr = p]]
  /\ Goto(c, "rm_lock")
  /\ UNCHANGED << dataVars, pointer_mutex_, frame_mutex_, hash_index, report >>

RemoveUntracked(c) ==
  /\ pc[c] = "rm_held"
  /\ ManglePointer(arg[c].ptr) \notin DOMAIN pointers_
  /\ pointer_mutex_' = NoCaller
  /\ arg' = [arg EXCEPT ![c] = NoArg]
  /\ Goto(c, "idle")
  /\ UNCHANGED << dataVars, frame_mutex_, hash_index, report >>

RemovePointer(c) ==
  LET k == ManglePointer(arg[c].ptr)
      e == pointers_[k]
  IN  /\ pc[c] = "rm_held" /\ k \in DOMAIN pointers_
      /\ current_used_' = current_used_ - e.size
      /\ current_host_' = current_host_ - HostPart(e.size, e.mem_type)
      /\ current_dma_'  = current_dma_ - DmaPart(e.size, e.mem_type)
      /\ pointers_' = Erase(pointers_, k)
      /\ pointer_mutex_' = NoCaller
      /\ arg' = [arg EXCEPT ![c] = NoArg]
      /\ IF e.hash_index <= kBacktraceEmptyIndex
         THEN Goto(c, "idle") /\ UNCHANGED hash_index
         ELSE Goto(c, "rmbt_lock") /\ hash_index' = [hash_index EXCEPT ![c] = e.hash_index]
      /\ UNCHANGED << frameVars, peakVars, peak_list_, frame_mutex_, report >>

DropReference_AtOnce(h) ==  \* mutant: frees without looking at references
  /\ key_to_index_' = Erase(key_to_index_, frames_[h].frames)
  /\ frames_' = Erase(frames_, h) /\ backtraces_info_' = Erase(backtraces_info_, h)

DropReference_Never(h) ==  \* mutant: a reference is leaked
  UNCHANGED << key_to_index_, frames_, backtraces_info_ >>

DropReference(h) ==
  IF frames_[h].references = 1
  THEN /\ key_to_index_' = Erase(key_to_index_, frames_[h].frames)
       /\ frames_' = Erase(frames_, h)
       /\ backtraces_info_' = Erase(backtraces_info_, h)
  ELSE /\ frames_' = Put(frames_, h, [ references |-> frames_[h].references - 1,
                                       frames     |-> frames_[h].frames ])
       /\ UNCHANGED << key_to_index_, backtraces_info_ >>

RemoveBacktrace(c) ==
  LET h == hash_index[c]
  IN  /\ pc[c] = "rmbt_held"
      /\ IF h \in DOMAIN frames_ THEN DropReference(h)
         ELSE UNCHANGED << key_to_index_, frames_, backtraces_info_ >>
      /\ frame_mutex_' = NoCaller
      /\ hash_index' = [hash_index EXCEPT ![c] = 0]
      /\ Goto(c, "idle")
      /\ UNCHANGED << pointers_, cur_hash_index_, counterVars, peak_list_,
                      pointer_mutex_, arg, report >>

----------------------------------------------------------------------------
(* DumpLiveToFile and DumpPeakInfo.                                        *)

CallDump(c) ==
  /\ pc[c] = "idle"
  /\ Goto(c, "dump_lock")
  /\ UNCHANGED << dataVars, pointer_mutex_, frame_mutex_, arg, hash_index, report >>

(* The list to print: what is live now, or, when peaks are recorded, the   *)
(* listing of the last peak, which is moved out and so is gone afterwards. *)
(* The order by alloc_time does not matter to what is printed per entry.   *)
CollectList(c) ==
  /\ pc[c] = "dump_held"
  /\ report' = [report EXCEPT ![c] =
                  IF "RECORD_MEMORY_PEAK" \in Options
                  THEN { peak_list_[i] : i \in DOMAIN peak_list_ }
                  ELSE GetList(pointers_, backtraces_info_)]
  /\ peak_list_' = << >>
  /\ Goto(c, "dump_print")
  /\ UNCHANGED << mapVars, counterVars, pointer_mutex_, frame_mutex_, arg, hash_index >>

(* The totals and the entries go to the file under both mutexes.           *)
PrintList_KeepsLock(c) ==  \* mutant: frame_mutex_ is not released
  /\ pc[c] = "dump_print" /\ pointer_mutex_' = NoCaller /\ Goto(c, "idle")
  /\ report' = [report EXCEPT ![c] = NothingReported]
  /\ UNCHANGED << dataVars, frame_mutex_, arg, hash_index >>

PrintList(c) ==
  /\ pc[c] = "dump_print"
  /\ report' = [report EXCEPT ![c] = NothingReported]
  /\ pointer_mutex_' = NoCaller /\ frame_mutex_' = NoCaller
  /\ Goto(c, "idle")
  /\ UNCHANGED << dataVars, arg, hash_index >>

CallPeakInfo(c) ==
  /\ pc[c] = "idle"
  /\ Goto(c, "info_lock")
  /\ UNCHANGED << dataVars, pointer_mutex_, frame_mutex_, arg, hash_index, report >>

DumpPeakInfo(c) ==
  /\ pc[c] = "info_held"
  /\ pointer_mutex_' = NoCaller
  /\ Goto(c, "idle")
  /\ UNCHANGED << dataVars, frame_mutex_, arg, hash_index, report >>

----------------------------------------------------------------------------
Call(c) ==
  \/ \E p \in Pointer, s \in Size, t \in Types : CallAdd(c, p, s, t)
  \/ \E p \in Pointer : CallRemove(c, p)
  \/ CallDump(c)
  \/ CallPeakInfo(c)

AddStep(c) ==
  \/ UnwindOk(c) \/ NoBacktrace(c) \/ UnwindExit(c)
  \/ LockFrames(c, "bt_lock", "bt_held") \/ AddBacktrace(c)
  \/ LockPointers(c, "add_lock", "add_held") \/ AddPointer(c)
  \/ LockFrames(c, "peak_lock", "peak_held") \/ RecordPeakList(c)

RemoveStep(c) ==
  \/ LockPointers(c, "rm_lock", "rm_held") \/ RemoveUntracked(c) \/ RemovePointer(c)
  \/ LockFrames(c, "rmbt_lock", "rmbt_held") \/ RemoveBacktrace(c)

DumpStep(c) ==
  \/ LockPointers(c, "dump_lock", "dump_lock2")
  \/ LockFrames(c, "dump_lock2", "dump_held")
  \/ CollectList(c) \/ PrintList(c)
  \/ LockPointers(c, "info_lock", "info_held") \/ DumpPeakInfo(c)

Step(c) == AddStep(c) \/ RemoveStep(c) \/ DumpStep(c)

Next == \E c \in Caller : Call(c) \/ Step(c)

Spec == Init /\ [][Next]_vars

----------------------------------------------------------------------------
PointerInfoType == [size : Nat, hash_index : Nat, mem_type : MemType]
FrameInfoType   == [references : Nat, frames : Backtrace]
ArgType         == [ptr : 0 .. UINTPTR_MAX, size : Nat, type : MemType,
                    frames : Backtrace \cup {NoTrace}]

Labels == {"idle", "backtrace", "bt_lock", "bt_held", "add_lock", "add_held",
           "peak_lock", "peak_held", "rm_lock", "rm_held", "rmbt_lock", "rmbt_held",
           "dump_lock", "dump_lock2", "dump_held", "dump_print", "info_lock", "info_held"}

(* Every map, counter and local of PointerData has the type PointerData.h  *)
(* declares for it.                                                        *)
TypeOK ==
  /\ DOMAIN pointers_ \subseteq 0 .. UINTPTR_MAX
  /\ pointers_ \in [DOMAIN pointers_ -> PointerInfoType]
  /\ DOMAIN key_to_index_ \subseteq Backtrace
  /\ key_to_index_ \in [DOMAIN key_to_index_ -> Nat]
  /\ DOMAIN frames_ \subseteq Nat
  /\ frames_ \in [DOMAIN frames_ -> FrameInfoType]
  /\ backtraces_info_ \in [DOMAIN frames_ -> Backtrace]
  /\ cur_hash_index_ \in Nat
  /\ {peak_tot_, peak_host_, peak_dma_} \subseteq Nat
  /\ {current_used_, current_host_, current_dma_} \subseteq Int
  /\ pointer_mutex_ \in Caller \cup {NoCaller}
  /\ frame_mutex_ \in Caller \cup {NoCaller}
  /\ pc \in [Caller -> Labels]
  /\ arg \in [Caller -> ArgType]
  /\ hash_index \in [Caller -> Nat]
  /\ DOMAIN report = Caller

(* GetList uses what find() returns for an entry's hash_index without a    *)
(* check: every tracked pointer with a backtrace must have its frames and  *)
(* its symbolised backtrace in the maps, whatever the callers interleave.  *)
FramesPresent ==
  \A k \in DOMAIN pointers_ :
    pointers_[k].hash_index > kBacktraceEmptyIndex =>
      /\ pointers_[k].hash_index \in DOMAIN frames_
      /\ pointers_[k].hash_index \in DOMAIN backtraces_info_

(* A backtrace is kept once: key_to_index_ leads to the frames_ entry that *)
(* holds it and there is no other, so a reference taken through            *)
(* key_to_index_ and the one RemoveBacktrace drops are on the same entry.  *)
Interned ==
  /\ \A b \in DOMAIN key_to_index_ :
       key_to_index_[b] \in DOMAIN frames_ /\ frames_[key_to_index_[b]].frames = b
  /\ \A h \in DOMAIN frames_ :
       /\ frames_[h].frames \in DOMAIN key_to_index_
       /\ key_to_index_[frames_[h].frames] = h
       /\ backtraces_info_[h] = frames_[h].frames

(* Who counts on an index: the tracked pointers that have it, and callers  *)
(* between AddBacktrace and pointers_, or between pointers_ and            *)
(* RemoveBacktrace, where no mutex is held.                                *)
Kept(h)    == { k \in DOMAIN pointers_ : pointers_[k].hash_index = h }
Carried(h) == { c \in Caller : hash_index[c] = h }

(* references never falls below the number of those: no interleaving of    *)
(* AddBacktrace and RemoveBacktrace frees frames that are still needed.    *)
ReferencesCover ==
  \A h \in DOMAIN frames_ :
    frames_[h].references >= Cardinality(Kept(h)) + Cardinality(Carried(h))

(* The inductive strengthening of FramesPresent and ReferencesCover.       *)
TracesTaken ==
  \A c \in Caller : pc[c] \in {"bt_lock", "bt_held"} => arg[c].frames \in Backtrace

IndicesBelow ==
  /\ cur_hash_index_ > kBacktraceEmptyIndex
  /\ \A h \in DOMAIN frames_ : h > kBacktraceEmptyIndex /\ h < cur_hash_index_

UsersPresent ==
  /\ \A k \in DOMAIN pointers_ :
       pointers_[k].hash_index > kBacktraceEmptyIndex => pointers_[k].hash_index \in DOMAIN frames_
  /\ \A c \in Caller :
       hash_index[c] > kBacktraceEmptyIndex => hash_index[c] \in DOMAIN frames_

(* No caller ever holds an index that frames_ has lost, in the maps or on  *)
(* its stack between two sections, and each such hold is counted: the      *)
(* reason why the backtraces survive as long as the pointers that need     *)
(* them.                                                                   *)
IInv ==
  /\ TypeOK /\ Interned /\ TracesTaken /\ IndicesBelow /\ UsersPresent /\ ReferencesCover

Tracked(type) == { k \in DOMAIN pointers_ : (pointers_[k].mem_type = "DMA") = (type = "DMA") }
TrackedBytes(type) == MapThenSumSet(LAMBDA k : pointers_[k].size, Tracked(type))

TracedBytes == MapThenSumSet(LAMBDA k : RealSize(pointers_[k].size),
                 { k \in DOMAIN pointers_ : pointers_[k].hash_index > kBacktraceEmptyIndex })

(* The three counters agree, and cover what is tracked: the subtractions   *)
(* of Remove never wrap, in any order of Add and Remove, an Add over an    *)
(* entry that was not removed included.                                    *)
CountersCover ==
  /\ current_used_ = current_host_ + current_dma_
  /\ current_host_ >= TrackedBytes("HOST")
  /\ current_dma_ >= TrackedBytes("DMA")

(* A caller carries an index only between two critical sections.           *)
CarriedBetween ==
  \A c \in Caller : hash_index[c] # 0 => pc[c] \in {"add_lock", "add_held", "rmbt_lock", "rmbt_held"}

(* The peaks bound the counters and each other; the total peak is one      *)
(* moment's, so it may be less than the sum of the two others.             *)
PeaksBound ==
  /\ current_host_ <= peak_host_ /\ current_dma_ <= peak_dma_
  /\ current_used_ <= peak_tot_ /\ peak_tot_ <= peak_host_ + peak_dma_

(* peak_list_ is never older or newer than the peak: it is only replaced   *)
(* by a listing of the very state that reached peak_tot_, or given away    *)
(* whole to a dump.                                                        *)
PeakListFresh ==
  [][peak_list_' # peak_list_ =>
       \/ /\ current_used_ = peak_tot_ /\ UNCHANGED << pointers_, peak_tot_ >>
          /\ HostUse(peak_list_') + DmaUse(peak_list_') = TracedBytes
       \/ peak_list_' = << >>]_vars

(* The sections of the two mutexes.                                        *)
PointerSection == {"add_held", "peak_lock", "peak_held", "rm_held",
                   "dump_lock2", "dump_held", "dump_print", "info_held"}
FrameSection   == {"bt_held", "peak_held", "rmbt_held", "dump_held", "dump_print"}

Exclusion ==
  \A c \in Caller : /\ pc[c] \in PointerSection <=> pointer_mutex_ = c
                    /\ pc[c] \in FrameSection <=> frame_mutex_ = c

(* A dump of the live allocations lists the state at one moment: nothing   *)
(* is added or removed from the time the list is made until it is written. *)
ReportCurrent ==
  "RECORD_MEMORY_PEAK" \notin Options =>
    \A c \in Caller : pc[c] = "dump_print" =>
                        report[c] = GetList(pointers_, backtraces_info_)

----------------------------------------------------------------------------
(* The refinement: the index of an entry stands for the backtrace that     *)
(* frames_ has for it.                                                     *)
AllocationType == [size : Size \cup {0}, mem_type : MemType, trace : Backtrace \cup {NoTrace}]

Allocation(k) ==
  LET e == pointers_[k]
  IN  [ size     |-> e.size, mem_type |-> e.mem_type,
        trace    |-> IF e.hash_index > kBacktraceEmptyIndex
                     THEN FrameInfo(e.hash_index).frames ELSE NoTrace ]

ShownAllocation(r) ==
  << ManglePointer(r.pointer),
     [size |-> r.size, mem_type |-> r.mem_type, trace |-> r.backtrace_info] >>

(* Dumps of a recorded peak are not reports of what is live.               *)
Printing == { c \in Caller : pc[c] = "dump_print" /\ "RECORD_MEMORY_PEAK" \notin Options }

Tracker == INSTANCE AllocTracker WITH
  Client <- Caller,
  Key    <- 0 .. UINTPTR_MAX,
  Info   <- AllocationType,
  Traced <- LAMBDA i : i.trace # NoTrace,
  live   <- [k \in DOMAIN pointers_ |-> Allocation(k)],
  open   <- Printing,
  shown  <- [c \in Caller |-> IF c \in Printing
                              THEN { ShownAllocation(r) : r \in report[c] } ELSE {}]

(* Sizes that PointerInfoType can hold.                                    *)
SizesFit == \A n \in Size : n <= PointerMaxSize

(* PointerData implements AllocTracker: Add and Remove take effect in one  *)
(* step each, an entry keeps the backtrace it was added with however the   *)
(* indices are shared, counted and freed, and dumps are exact.             *)
TrackerSpec == Tracker!TSpec
============================================================================
