---------------------------- MODULE PointerList ----------------------------
(***************************************************************************)
(* The listings PointerData makes of its live allocations: GetList, the    *)
(* sort and the merge of GetUniqueList, and the totals DumpLiveToFile      *)
(* prints above a listing.  Pure operators; the maps they read are passed  *)
(* as arguments.                                                           *)
(*                                                                         *)
(* A FrameInfoType* is its hash index: frames_ is a node based map, so two *)
(* entries have the same frame_info exactly when they have the same index. *)
(***************************************************************************)
EXTENDS Naturals, Sequences
LOCAL INSTANCE SequencesExt
LOCAL INSTANCE FiniteSetsExt

CONSTANTS
  UINTPTR_MAX,     \* largest pointer value; keys are mangled with it
  PointerMaxSize,  \* PointerInfoType::MaxSize(), 2^31 - 1 in the code
  Depth            \* number of frames of each backtrace

kBacktraceExitIndex  == 0
kBacktraceEmptyIndex == 1

(* XOR with all ones.                                                      *)
ManglePointer(p)   == UINTPTR_MAX - p
DemanglePointer(k) == UINTPTR_MAX - k

(* size & ~(1U << 31): the mask is a 32 bit value, so everything from bit  *)
(* 31 upwards is cut off.                                                  *)
RealSize(size) == size % (PointerMaxSize + 1)

----------------------------------------------------------------------------
(* GetList with only_with_backtrace: one record for each tracked pointer   *)
(* that has a backtrace.  Both find() results are used unchecked.          *)
ListInfo_Mangled(pointers, infos, k) ==  \* mutant: the pointer is not demangled
  [ pointer |-> k, num_allocations |-> 1, size |-> RealSize(pointers[k].size),
    mem_type |-> pointers[k].mem_type, frame_info |-> pointers[k].hash_index,
    backtrace_info |-> infos[pointers[k].hash_index] ]

ListInfo(pointers, infos, k) ==
  [ pointer         |-> DemanglePointer(k),
    num_allocations |-> 1,
    size            |-> RealSize(pointers[k].size),
    mem_type        |-> pointers[k].mem_type,
    frame_info      |-> pointers[k].hash_index,
    backtrace_info  |-> infos[pointers[k].hash_index] ]

GetList(pointers, infos) ==
  { ListInfo(pointers, infos, k) :
      k \in { j \in DOMAIN pointers :
                pointers[j].hash_index > kBacktraceEmptyIndex } }

(* The order of GetUniqueList: size, then depth of the backtrace, both     *)
(* descending, then pointer.  frame_info is never null in a list.          *)
SortsBefore(frames, a, b) ==
  LET da == Depth[frames[a.frame_info].frames]
      db == Depth[frames[b.frame_info].frames]
  IN  \/ a.size > b.size
      \/ a.size = b.size /\ da > db
      \/ a.size = b.size /\ da = db /\ a.pointer < b.pointer

SameAllocation(a, b) == a.size = b.size /\ a.frame_info = b.frame_info

(* The loop after the sort: an entry is counted into its predecessor when  *)
(* both have the size and the backtrace of the run's first entry.          *)
MergeNext(merged, info) ==
  IF merged # << >> /\ SameAllocation(Last(merged), info)
  THEN [merged EXCEPT ![Len(merged)].num_allocations = @ + 1]
  ELSE Append(merged, info)

GetUniqueList(pointers, frames, infos) ==
  FoldLeft(MergeNext, << >>,
           SetToSortSeq(GetList(pointers, infos),
                        LAMBDA a, b : SortsBefore(frames, a, b)))

(* The two totals of DumpLiveToFile.                                       *)
Bytes(info) == info.size * info.num_allocations

HostUse(list) == FoldLeft(LAMBDA sum, i : IF i.mem_type = "DMA" THEN sum ELSE sum + Bytes(i), 0, list)
DmaUse(list)  == FoldLeft(LAMBDA sum, i : IF i.mem_type = "DMA" THEN sum + Bytes(i) ELSE sum, 0, list)
============================================================================
