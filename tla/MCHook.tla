------------------------------- MODULE MCHook -------------------------------
(***************************************************************************)
(* The interposed functions on two threads, from the process's start: heap *)
(* calls, GPU memory, and dma-bufs whose inode and fd numbers come back.   *)
(***************************************************************************)
EXTENDS AllocHook

MCSizeOf(i) == 10 + i
MCEnvs  == { [min |-> Unset, peak |-> 5], [min |-> NotANumber, peak |-> -1] }
MCCalls ==
  { [fn |-> "malloc", size |-> 1], [fn |-> "posix_memalign", size |-> 1] }
  \cup { [fn |-> "free", ptr |-> p] : p \in Addr }
  \cup { [fn |-> "realloc", ptr |-> p, size |-> IF p = NULL THEN 1 ELSE 0] : p \in {NULL, 100} }
  \cup { [fn |-> "realloc", ptr |-> 101, size |-> 1] }
  \cup { [fn |-> "munmap", ptr |-> p] : p \in Addr }
  \cup { [fn |-> "mmap", fd |-> fd, size |-> 1] : fd \in Fd \cup {-1} }
  \cup { [fn |-> "mmap64", fd |-> -1, size |-> 1] }
  \cup { [fn |-> "ioctl", request |-> "KBASE_IOCTL_MEM_ALLOC"] }
  \cup { [fn |-> "ioctl", request |-> "DMA_HEAP_IOCTL_ALLOC", fd |-> fd] : fd \in {0, 3} }
  \cup { [fn |-> "ioctl", request |-> "CAM_MEM_ION_MAP_PA", fd |-> fd] : fd \in Fd }
  \cup { [fn |-> "close", fd |-> fd] : fd \in Fd }

(* Every call returns: nobody waits for ever at the guard of the hook's    *)
(* construction, the constructing thread least of all.                     *)
HooksReturn == \A t \in Thread : at[t] # "program" ~> at[t] = "program"
=============================================================================
