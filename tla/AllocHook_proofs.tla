-------------------------- MODULE AllocHook_proofs --------------------------
(***************************************************************************)
(* Theorems about AllocHook: start-up never calls what is not there, and   *)
(* what the tracker has exists, for any number of threads.                 *)
(***************************************************************************)
EXTENDS AllocHook, TLAPS

----------------------------------------------------------------------------
(* Calls.  The result and what is_dma_buf read are put next to the         *)
(* arguments, which stay.                                                  *)
LEMMA PassedIs ==
  ASSUME NEW c, IsCall(c)
  PROVE  Passed(c) = IF PassesPtr(c) THEN {c.ptr} ELSE IF PassesFd(c) THEN {c.fd} ELSE {}
<1>1. ~ (PassesPtr(c) /\ PassesFd(c))
  BY DEF PassesPtr, PassesFd
<1> QED BY <1>1 DEF IsCall, Passed

LEMMA PutAt ==
  ASSUME NEW c, NEW k, NEW v
  PROVE  /\ DOMAIN Put(c, k, v) = DOMAIN c \cup {k}
         /\ Put(c, k, v)[k] = v
         /\ \A x \in DOMAIN c \ {k} : Put(c, k, v)[x] = c[x]
BY DEF Put

LEMMA CallStays ==
  ASSUME NEW c, IsCall(c), NEW k, k \notin {"fn", "ptr", "fd", "request"}, NEW v,
         NEW d, d = Put(c, k, v)
  PROVE  /\ IsCall(d) /\ d.fn = c.fn /\ Passed(d) = Passed(c)
         /\ PassesPtr(c) => d.ptr = c.ptr
         /\ PassesFd(c) => d.fd = c.fd
         /\ c.fn = "ioctl" => d.request = c.request
         /\ \A x : Gets(d, x) = Gets(c, x)
<1>1. DOMAIN d = DOMAIN c \cup {k} /\ \A x \in DOMAIN c : x # k => d[x] = c[x]
  BY DEF Put
<1>2. d.fn = c.fn /\ (c.fn = "ioctl" => d.request = c.request)
  BY <1>1 DEF IsCall
<1>3. (PassesPtr(c) => d.ptr = c.ptr) /\ (PassesFd(c) => d.fd = c.fd)
  BY <1>1 DEF IsCall
<1>4. (PassesPtr(d) <=> PassesPtr(c)) /\ (PassesFd(d) <=> PassesFd(c))
  BY <1>2 DEF PassesPtr, PassesFd
<1>5. IsCall(d)
  <2>1. \A x \in {"fn", "ptr", "fd", "request"} : x \in DOMAIN d <=> x \in DOMAIN c
    BY <1>1
  <2>2. {"fn"} \cup (IF d.fn = "ioctl" THEN {"request"} ELSE {}) \subseteq DOMAIN d
    BY <2>1, <1>2 DEF IsCall
  <2>3. ("ptr" \in DOMAIN d <=> PassesPtr(d)) /\ ("fd" \in DOMAIN d <=> PassesFd(d))
    BY <2>1, <1>4 DEF IsCall
  <2>4. /\ PassesPtr(d) => d.ptr \in Addr \cup {NULL}
        /\ d.fn = "munmap" => d.ptr # NULL
    BY <1>2, <1>3, <1>4 DEF IsCall, PassesPtr
  <2>5. /\ PassesFd(d) => d.fd \in Fd \cup {-1, 0}
        /\ d.fn = "ioctl" /\ PassesFd(d) => d.fd # -1
        /\ d.fn = "close" => d.fd \in Fd
    BY <1>2, <1>3, <1>4 DEF IsCall, PassesFd
  <2> QED BY <2>2, <2>3, <2>4, <2>5 DEF IsCall
<1>6. Passed(d) = Passed(c)
  BY <1>3, <1>4, <1>5, PassedIs
<1>7. \A x : Gets(d, x) = Gets(c, x)
  BY <1>2, <1>6 DEF Gets
<1> QED BY <1>2, <1>3, <1>5, <1>6, <1>7

LEMMA IsCallStays ==
  ASSUME NEW c, IsCall(c), NEW k, k \notin {"fn", "ptr", "fd", "request"}, NEW v,
         NEW d, d = Put(c, k, v)
  PROVE  IsCall(d) /\ d.fn = c.fn
<1>1. IsCall(d)
  BY CallStays
<1>2. d.fn = c.fn
  BY CallStays
<1> QED BY <1>1, <1>2

LEMMA NoCallIs == IsCall(NoCall) /\ NoCall.fn = "none" /\ Passed(NoCall) = {}
BY DEF NoCall, IsCall, Passed, PassesPtr, PassesFd

----------------------------------------------------------------------------
(* The system.  It takes away nothing but what the call was passed, and    *)
(* what the call gets is new or was passed to it.                          *)
Kept(x) ==
  /\ x \in blocks => x \in blocks'
  /\ x \in DOMAIN maps => x \in DOMAIN maps'
  /\ x \in DOMAIN fds => x \in DOMAIN fds' /\ fds'[x] = fds[x]

SysTypes == /\ blocks \subseteq Addr /\ DOMAIN maps \subseteq Addr /\ DOMAIN fds \subseteq Fd
            /\ blocks \cap DOMAIN maps = {}

HasArguments(c) ==
  /\ IsCall(c) /\ Passed(c) \cap (Addr \cup Fd) \subseteq Exists
  /\ c.fn \in {"free", "realloc"} => c.ptr \in blocks \cup {NULL}
  /\ c.fn = "munmap" => c.ptr \in DOMAIN maps

SystemEffect(c, r) ==
  /\ SysTypes'
  /\ \A x : x \notin Passed(c) \/ ~ Removing(c) => Kept(x)
  /\ Gets(c, r) \subseteq Exists'
  /\ Gets(c, r) \cap Exists \subseteq Passed(c)
  /\ c.fn \in Heap \cup {"realloc"} => r \in blocks' \cup {NULL}
  /\ c.fn \in {"mmap", "mmap64"} => r \in DOMAIN maps' \cup {MAP_FAILED}
  /\ c.fn = "ioctl" /\ c.request = "DMA_HEAP_IOCTL_ALLOC" => r \in Fd \cup {0}

LEMMA FdsLent ==
  ASSUME SysTypes, NEW c, HasArguments(c)
  PROVE  Passed(c) \cap Fd \subseteq DOMAIN fds
BY NameAssumption DEF SysTypes, HasArguments, Exists

LEMMA SystemHeap ==
  ASSUME SysTypes, NEW c, NEW r \in Results, HasArguments(c),
         SysHeap(c, r), UNCHANGED << fds, maps >>
  PROVE  SystemEffect(c, r)
<1>1. c.fn \in Heap \cup {"free", "realloc"} /\ r \in Addr \cup {NULL}
  BY DEF SysHeap, FreeAddr, SysTypes, HasArguments, IsCall, PassesPtr
<1>2. Gets(c, r) = {r} \cap Addr
  BY <1>1, NameAssumption DEF Gets, Heap, NULL
<1>3. CASE c.fn \in Heap \/ (c.fn = "realloc" /\ c.ptr = NULL)
  <2>1. r \in FreeAddr /\ blocks' = blocks \cup {r}
    BY <1>3 DEF SysHeap, Heap
  <2>5. SysTypes'
    BY <1>1, <1>2, <2>1 DEF SysTypes, FreeAddr
  <2>6. \A x : x \notin Passed(c) \/ ~ Removing(c) => Kept(x)
    BY <1>1, <1>2, <2>1 DEF Kept
  <2>7. Gets(c, r) \subseteq Exists' /\ Gets(c, r) \cap Exists \subseteq Passed(c)
    BY <1>1, <1>2, <2>1, NameAssumption DEF Exists, FreeAddr, SysTypes
  <2>8. r \in blocks'
    BY <1>1, <1>2, <2>1
  <2> QED BY <1>1, <2>5, <2>6, <2>7, <2>8 DEF SystemEffect, Heap
<1>4. CASE c.fn = "free" \/ (c.fn = "realloc" /\ c.ptr # NULL /\ c.size = 0)
  <2>1. r = NULL /\ blocks' = blocks \ {c.ptr}
    BY <1>4 DEF SysHeap, Heap
  <2>2. Passed(c) = {c.ptr} /\ Removing(c) /\ Gets(c, r) = {}
    BY <1>2, <1>4, <2>1, PassedIs, NameAssumption DEF HasArguments, PassesPtr, Removing, NULL
  <2> QED BY <1>1, <1>4, <2>1, <2>2 DEF SystemEffect, SysTypes, Kept, Exists, Heap
<1>5. CASE c.fn = "realloc" /\ c.ptr # NULL /\ c.size # 0
  <2>1. r \in FreeAddr \cup {c.ptr} /\ blocks' = (blocks \ {c.ptr}) \cup {r}
    BY <1>5 DEF SysHeap, Heap
  <2>2. Passed(c) = {c.ptr} /\ Removing(c) /\ c.ptr \in blocks
    BY <1>5, PassedIs DEF HasArguments, PassesPtr, Removing
  <2>5. SysTypes'
    BY <1>1, <1>2, <1>5, <2>1, <2>2 DEF SysTypes, FreeAddr
  <2>6. \A x : x \notin Passed(c) \/ ~ Removing(c) => Kept(x)
    BY <1>1, <1>2, <1>5, <2>1, <2>2 DEF Kept
  <2>7. Gets(c, r) \subseteq Exists' /\ Gets(c, r) \cap Exists \subseteq Passed(c)
    BY <1>1, <1>2, <1>5, <2>1, <2>2, NameAssumption DEF Exists, FreeAddr, SysTypes
  <2>8. r \in blocks'
    BY <1>1, <1>2, <1>5, <2>1, <2>2
  <2> QED BY <1>1, <2>5, <2>6, <2>7, <2>8 DEF SystemEffect, Heap
<1> QED BY <1>3, <1>4, <1>5 DEF SysHeap

LEMMA SystemMaps ==
  ASSUME SysTypes, NEW c, NEW r \in Results, HasArguments(c),
         SysMap(c, r), UNCHANGED << fds, blocks >>
  PROVE  SystemEffect(c, r)
<1>1. CASE c.fn \in {"mmap", "mmap64"} /\ r \in FreeAddr /\ maps' = Put(maps, r, c.fd)
  <2>1. DOMAIN maps' = DOMAIN maps \cup {r}
    BY <1>1, PutAt
  <2>2. Gets(c, r) = {r} \cup (Passed(c) \cap Fd)
    BY <1>1 DEF Gets, FreeAddr
  <2>3. Passed(c) \cap Fd \subseteq DOMAIN fds /\ r \notin Exists
    BY <1>1, FdsLent, NameAssumption DEF FreeAddr, Exists, SysTypes
  <2> QED BY <1>1, <2>1, <2>2, <2>3 DEF SystemEffect, SysTypes, Kept, Exists, FreeAddr, Heap
<1>2. CASE c.fn \in {"mmap", "mmap64"} /\ r = MAP_FAILED /\ UNCHANGED maps
  <2>1. Gets(c, r) = Passed(c) \cap Fd
    BY <1>2, NameAssumption DEF Gets, MAP_FAILED
  <2> QED BY <1>2, <2>1, FdsLent DEF SystemEffect, SysTypes, Kept, Exists, Heap
<1>3. CASE c.fn = "munmap" /\ r = NULL /\ maps' = Drop(maps, c.ptr)
  <2>1. DOMAIN maps' = DOMAIN maps \ {c.ptr}
    BY <1>3 DEF Drop, Restrict
  <2>2. Passed(c) = {c.ptr} /\ Removing(c) /\ Gets(c, r) = {}
    BY <1>3, PassedIs, NameAssumption DEF HasArguments, PassesPtr, Removing, NULL, Gets
  <2> QED BY <1>3, <2>1, <2>2 DEF SystemEffect, SysTypes, Kept, Exists, Heap
<1>4. CASE c.fn = "munmap" /\ r = c.ptr /\ UNCHANGED maps
  <2>1. Passed(c) = {c.ptr} /\ Removing(c) /\ c.ptr \in DOMAIN maps
    BY <1>4, PassedIs DEF HasArguments, PassesPtr, Removing
  <2>2. Gets(c, r) = {c.ptr}
    BY <1>4, <2>1 DEF Gets, SysTypes
  <2> QED BY <1>4, <2>1, <2>2 DEF SystemEffect, SysTypes, Kept, Exists, Heap
<1> QED BY <1>1, <1>2, <1>3, <1>4 DEF SysMap

LEMMA SystemFds ==
  ASSUME SysTypes, NEW c, NEW r \in Results, HasArguments(c),
         SysFd(c, r), UNCHANGED << maps, blocks >>
  PROVE  SystemEffect(c, r)
<1>1. CASE c.fn = "ioctl" /\ c.request = "DMA_HEAP_IOCTL_ALLOC" /\ r \in FreeFds /\ \E i : fds' = Put(fds, r, i)
  <2>1. PICK i : r \in FreeFds /\ fds' = Put(fds, r, i)
    BY <1>1
  <2>2. DOMAIN fds' = DOMAIN fds \cup {r} /\ \A x \in DOMAIN fds : fds'[x] = fds[x]
    BY <2>1 DEF FreeFds, Put
  <2>3. Passed(c) \cap Fd \subseteq DOMAIN fds
    BY FdsLent
  <2>4. Gets(c, r) = {r} \cup (Passed(c) \cap Fd) /\ r \in Fd \ Exists
    BY <1>1, <2>1, NameAssumption DEF FreeFds, Gets, Exists, SysTypes
  <2> QED BY <1>1, <2>2, <2>3, <2>4 DEF SystemEffect, SysTypes, Kept, Exists, Heap
<1>2. CASE /\ c.fn = "ioctl" /\ UNCHANGED fds
           /\ \/ c.request = "DMA_HEAP_IOCTL_ALLOC" /\ r = c.fd
              \/ c.request # "DMA_HEAP_IOCTL_ALLOC" /\ r = NULL
  <2>1. Gets(c, r) = Passed(c) \cap Fd
    <3>1. CASE c.request = "DMA_HEAP_IOCTL_ALLOC" /\ r = c.fd
      <4>1. Passed(c) = {r} /\ r \in Fd \cup {0}
        BY <1>2, <3>1, PassedIs DEF HasArguments, IsCall, PassesPtr, PassesFd
      <4> QED BY <1>2, <4>1, NameAssumption DEF Gets
    <3>2. CASE r = NULL
      BY <1>2, <3>2, NameAssumption DEF Gets, NULL
    <3> QED BY <1>2, <3>1, <3>2
  <2>2. Passed(c) \cap Fd \subseteq DOMAIN fds
    BY FdsLent
  <2>3. \A x : Kept(x)
    BY <1>2 DEF Kept
  <2>4. SysTypes' /\ Exists' = Exists
    BY <1>2 DEF SysTypes, Exists
  <2>5. c.request = "DMA_HEAP_IOCTL_ALLOC" => r \in Fd \cup {0}
    BY <1>2 DEF HasArguments, IsCall, PassesFd
  <2> QED BY <1>2, <2>1, <2>2, <2>3, <2>4, <2>5 DEF SystemEffect, Exists, Heap
<1>3. CASE c.fn = "close" /\ r = NULL /\ fds' = Drop(fds, c.fd)
  <2>1. DOMAIN fds' = DOMAIN fds \ {c.fd} /\ \A x \in DOMAIN fds' : fds'[x] = fds[x]
    BY <1>3 DEF Drop, Restrict
  <2>2. Passed(c) = {c.fd} /\ Removing(c) /\ Gets(c, r) = {}
    BY <1>3, PassedIs, NameAssumption DEF HasArguments, PassesPtr, PassesFd, Removing, NULL, Gets
  <2> QED BY <1>3, <2>1, <2>2 DEF SystemEffect, SysTypes, Kept, Exists, Heap
<1> QED BY <1>1, <1>2, <1>3 DEF SysFd

LEMMA SystemDoes ==
  ASSUME SysTypes, NEW c, NEW r \in Results, HasArguments(c), System(c, r)
  PROVE  SystemEffect(c, r)
BY SystemHeap, SystemMaps, SystemFds DEF System

----------------------------------------------------------------------------
(* One thread takes a step; the others stand where they were.              *)
Others(t) == \A u \in Thread \ {t} : at'[u] = at[u] /\ call'[u] = call[u]

LEMMA OthersOwn ==
  ASSUME NEW t \in Thread, Others(t)
  PROVE  \A u \in Thread \ {t} : Owns(u)' = Owns(u)
BY DEF Others, Owns, Gets

(* What exists keeps one owner when the thread's own things and what it    *)
(* hands out are new or were its own.                                      *)
LEMMA OwnersStep ==
  ASSUME OneOwner, NEW t \in Thread, Others(t),
         \A x \in Exists : x \notin Owns(t) => x \in Exists',
         mine' \subseteq Exists', Owns(t)' \subseteq Exists' \ mine',
         \A x \in mine' \cup Owns(t)' : x \in Exists => x \in mine \cup Owns(t),
         (blocks \cap DOMAIN maps = {})'
  PROVE  OneOwner'
<1>1. \A u \in Thread \ {t} : Owns(u)' = Owns(u)
  BY OthersOwn
<1>2. \A u \in Thread \ {t} : /\ Owns(u) \subseteq Exists \ mine
                              /\ Owns(u) \cap Owns(t) = {}
  BY DEF OneOwner
<1>3. \A u \in Thread : (Owns(u) \subseteq Exists \ mine)'
  BY <1>1, <1>2
<1>4. \A u, v \in Thread : u # v => Owns(u)' \cap Owns(v)' = {}
  <2>1. \A u \in Thread \ {t} : Owns(u)' \cap Owns(t)' = {}
    BY <1>1, <1>2
  <2>2. \A u, v \in Thread \ {t} : u # v => Owns(u)' \cap Owns(v)' = {}
    BY <1>1 DEF OneOwner
  <2> QED BY <2>1, <2>2
<1> QED BY <1>3, <1>4 DEF OneOwner

(* What others know of their calls stays true while nothing of theirs is   *)
(* taken away, tracked or owed.                                            *)
LEMMA OwnsIs ==
  ASSUME TypeOK, OneOwner, NEW u \in Thread
  PROVE  /\ Owns(u) \subseteq (Addr \cup Fd) \cap Exists
         /\ MAP_FAILED \notin Owns(u)
         /\ at[u] \notin {"track", "insert"} =>
              /\ PassesPtr(call[u]) => call[u].ptr \in Owns(u) \cup {NULL}
              /\ PassesFd(call[u]) => call[u].fd \in Owns(u) \cup {-1, 0}
         /\ at[u] \in {"track", "insert"} /\ call[u].r \in Addr \cup Fd => call[u].r \in Owns(u)
<1>1. Owns(u) \subseteq Exists /\ Exists \subseteq Addr \cup Fd
  BY DEF OneOwner, TypeOK, Exists
<1>2. MAP_FAILED \notin Addr \cup Fd
  BY NameAssumption DEF MAP_FAILED
<1>3. IsCall(call[u])
  BY DEF TypeOK
<1>4. ASSUME at[u] \notin {"track", "insert"}
      PROVE  /\ PassesPtr(call[u]) => call[u].ptr \in Owns(u) \cup {NULL}
             /\ PassesFd(call[u]) => call[u].fd \in Owns(u) \cup {-1, 0}
  <2>1. Owns(u) = Passed(call[u]) \cap (Addr \cup Fd)
    BY <1>4 DEF Owns
  <2>2. ~ (PassesPtr(call[u]) /\ PassesFd(call[u]))
    BY DEF PassesPtr, PassesFd
  <2> QED BY <1>3, <2>1, <2>2, PassedIs DEF IsCall
<1>5. at[u] \in {"track", "insert"} /\ call[u].r \in Addr \cup Fd => call[u].r \in Owns(u)
  BY DEF Owns, Gets
<1> QED BY <1>1, <1>2, <1>4, <1>5

LEMMA OthersHave ==
  ASSUME TypeOK, OneOwner, \A u \in Thread : CallHas(u), NEW t \in Thread, Others(t),
         \A x : x \notin Owns(t) => Kept(x),
         DOMAIN tracked' \subseteq DOMAIN tracked \cup Owns(t) \cup {MAP_FAILED},
         owed' \subseteq owed \cup Owns(t)
  PROVE  \A u \in Thread \ {t} : CallHas(u)'
<1> SUFFICES ASSUME NEW u \in Thread \ {t} PROVE CallHas(u)'
  OBVIOUS
<1>1. at'[u] = at[u] /\ call'[u] = call[u] /\ Owns(u)' = Owns(u)
  BY OthersOwn DEF Others
<1>2. Owns(u) \cap Owns(t) = {} /\ CallHas(u)
  BY DEF OneOwner
<1>3. \A x \in Owns(u) : Kept(x) /\ x # MAP_FAILED
  BY <1>2, OwnsIs
<1> DEFINE c == call[u]
<1>4. ASSUME at[u] \notin {"track", "insert"}
      PROVE  /\ c.fn \in {"free", "realloc"} => c.ptr \in blocks' \cup {NULL}
             /\ c.fn = "munmap" => c.ptr \in DOMAIN maps'
             /\ c.fn = "close" => c.fd \notin owed'
  <2>1. /\ c.fn \in {"free", "realloc"} => c.ptr \in blocks \cup {NULL}
        /\ c.fn = "munmap" => c.ptr \in DOMAIN maps
        /\ c.fn = "close" => c.fd \notin owed
    BY <1>2, <1>4 DEF CallHas
  <2>2. c.fn \in {"free", "realloc", "munmap"} => c.ptr \in Owns(u) \cup {NULL}
    BY <1>4, OwnsIs DEF PassesPtr
  <2>3. c.fn = "close" => c.fd \in Owns(u)
    <3>1. c.fn = "close" => c.fd \in Fd
      BY DEF TypeOK, IsCall
    <3>2. 0 \notin Fd /\ -1 \notin Fd
      BY NameAssumption
    <3>3. c.fn = "close" => c.fd \in Owns(u) \cup {-1, 0}
      BY <1>4, OwnsIs DEF PassesFd
    <3> QED BY <3>1, <3>2, <3>3
  <2>4. NULL \notin DOMAIN maps
    BY NameAssumption DEF TypeOK, NULL
  <2> QED BY <1>2, <1>3, <2>1, <2>2, <2>3, <2>4 DEF Kept
<1>5. at[u] \in {"direct", "sys"} /\ Removing(c) => Owns(u) \cap DOMAIN tracked' = {}
  BY <1>2, <1>3 DEF CallHas
<1>6. ASSUME at[u] = "track"
      PROVE  /\ c.fn \in Heap \cup {"realloc"} => c.r \in blocks' \cup {NULL}
             /\ c.fn \in {"mmap", "mmap64"} => c.r \in DOMAIN maps' \cup {MAP_FAILED}
             /\ c.fn = "ioctl" /\ c.request = "DMA_HEAP_IOCTL_ALLOC" => c.r \in Fd \cup {0}
  <2>1. /\ c.fn \in Heap \cup {"realloc"} => c.r \in blocks \cup {NULL}
        /\ c.fn \in {"mmap", "mmap64"} => c.r \in DOMAIN maps \cup {MAP_FAILED}
        /\ c.fn = "ioctl" /\ c.request = "DMA_HEAP_IOCTL_ALLOC" => c.r \in Fd \cup {0}
    BY <1>2, <1>6 DEF CallHas
  <2>2. c.r \in blocks \cup DOMAIN maps => Kept(c.r)
    BY <1>3, <1>6, OwnsIs DEF TypeOK
  <2> QED BY <2>1, <2>2 DEF Kept
<1>7. at[u] = "insert" =>
        /\ c.dma \in Owns(u) \cap DOMAIN fds'
        /\ fds'[c.dma] = c.inode /\ c.inode # NoFile
  BY <1>2, <1>3 DEF CallHas, Kept
<1> HIDE DEF c
<1>8. c = call'[u]
  BY <1>1 DEF c
<1> QED BY <1>1, <1>4, <1>5, <1>6, <1>7, <1>8 DEF CallHas

----------------------------------------------------------------------------
(* OwnInv is kept, one lemma for each kind of step.                        *)
Entry(k) ==
  \/ k = MAP_FAILED
  \/ k \in blocks /\ tracked[k].type = "HOST"
  \/ k \in DOMAIN maps /\ tracked[k].type \in {"MMAP", "DMA"}
  \/ k \in DOMAIN fds /\ fds[k] # NoFile /\ tracked[k] = [type |-> "DMA", size |-> SizeOf(fds[k])]

LEMMA EntriesKept ==
  ASSUME EntriesExist,
         \A k \in DOMAIN tracked' : \/ Entry(k)'
                                    \/ k \in DOMAIN tracked /\ tracked'[k] = tracked[k] /\ Kept(k)
  PROVE  EntriesExist'
<1> SUFFICES ASSUME NEW k \in DOMAIN tracked' PROVE Entry(k)'
  BY DEF EntriesExist, Entry
<1>1. CASE Entry(k)'
  BY <1>1
<1>2. CASE k \in DOMAIN tracked /\ tracked'[k] = tracked[k] /\ Kept(k)
  <2>1. Entry(k)
    BY <1>2 DEF EntriesExist, Entry
  <2> QED BY <1>2, <2>1 DEF Entry, Kept
<1> QED BY <1>1, <1>2

LEMMA KeptAll == UNCHANGED << fds, maps, blocks >> => (\A x : Kept(x)) /\ Exists' = Exists
BY DEF Kept, Exists

LEMMA GoDoes ==
  ASSUME TypeOK, NEW t \in Thread, NEW l, Go(t, l)
  PROVE  at'[t] = l /\ \A u \in Thread \ {t} : at'[u] = at[u]
BY DEF TypeOK, Go

LEMMA CallDoes ==
  ASSUME TypeOK, NEW t \in Thread, NEW c, call' = [call EXCEPT ![t] = c]
  PROVE  call'[t] = c /\ \A u \in Thread \ {t} : call'[u] = call[u]
BY DEF TypeOK

LEMMA ArgumentsHeld ==
  ASSUME TypeOK, OwnInv, NEW t \in Thread, at[t] \notin {"track", "insert"}
  PROVE  /\ HasArguments(call[t]) /\ SysTypes
         /\ Owns(t) = Passed(call[t]) \cap (Addr \cup Fd)
         /\ Owns(t) \subseteq Exists \ mine
<1>1. Owns(t) = Passed(call[t]) \cap (Addr \cup Fd) /\ Owns(t) \subseteq Exists \ mine
  BY DEF Owns, OwnInv, OneOwner
<1>2. CallHas(t) /\ IsCall(call[t])
  BY DEF OwnInv, TypeOK
<1> QED BY <1>1, <1>2 DEF HasArguments, SysTypes, CallHas, OwnInv, OneOwner, TypeOK

(* A call goes on without the system or the tracker.                       *)
LEMMA OwnMoves ==
  ASSUME TypeOK, OwnInv, NEW t \in Thread, Others(t), call'[t] = call[t],
         at[t] \notin {"track", "insert"}, at'[t] \notin {"track", "insert"},
         at'[t] \in {"direct", "sys"} /\ Removing(call[t]) => Owns(t) \cap DOMAIN tracked' = {},
         UNCHANGED << owed, fds, maps, blocks, mine >>,
         DOMAIN tracked' \subseteq DOMAIN tracked, owed \subseteq DOMAIN tracked',
         \A k \in DOMAIN tracked' : tracked'[k] = tracked[k]
  PROVE  OwnInv'
<1>1. (\A x : Kept(x)) /\ Exists' = Exists
  BY KeptAll
<1>2. Owns(t)' = Owns(t) /\ Owns(t) \subseteq Exists \ mine
  BY ArgumentsHeld DEF Owns
<1>3. OneOwner'
  BY <1>1, <1>2, OwnersStep DEF OwnInv, OneOwner
<1>4. \A u \in Thread \ {t} : CallHas(u)'
  BY <1>1, OthersHave DEF OwnInv
<1>5. CallHas(t)'
  BY <1>2 DEF OwnInv, CallHas
<1>6. EntriesExist' /\ OwedTracked'
  BY <1>1, EntriesKept DEF OwnInv, OwedTracked
<1> QED BY <1>3, <1>4, <1>5, <1>6 DEF OwnInv

LEMMA OwnStartUp ==
  ASSUME TypeOK, OwnInv, OneConstructs, ResolvesEnough, NEW t \in Thread,
         Hook(t) \/ Inst(t) \/ Construct(t) \/ DebugInitialize(t) \/ Constructed(t)
  PROVE  OwnInv'
<1>1. /\ UNCHANGED << owed, tracked, fds, maps, blocks, mine, call >>
      /\ at[t] \in {"hook", "inst"} \cup Constructing
  BY DEF Hook, Inst, Construct, DebugInitialize, Constructed, dmaVars, sysVars, Constructing
<1>2. Others(t) /\ at'[t] \in {"direct", "inst", "body"} \cup Constructing
  BY <1>1, GoDoes DEF Hook, Inst, Construct, DebugInitialize, Constructed, Constructing, Others
<1>3. at'[t] = "direct" /\ Removing(call[t]) => DOMAIN tracked = {}
  <2>1. at'[t] = "direct" =>
          at[t] = "hook" /\ (setup \/ (preinit /\ call[t].fn \in MapFns))
    BY GoDoes DEF Hook, Inst, Construct, DebugInitialize, Constructed
  <2>2. setup => DOMAIN tracked = {}
    BY DEF OneConstructs, Constructing
  <2>3. preinit /\ call[t].fn \in MapFns => ~ Removing(call[t])
    BY DEF ResolvesEnough, Resolving, MapFns, Removing
  <2> QED BY <2>1, <2>2, <2>3
<1> QED BY <1>1, <1>2, <1>3, OwnMoves DEF OwnInv, OwedTracked, Constructing

LEMMA OwnRemove ==
  ASSUME TypeOK, OwnInv, NEW t \in Thread, DebugRemove(t)
  PROVE  OwnInv'
<1>1. /\ at[t] = "body" /\ Removing(call[t]) /\ at'[t] = "sys" /\ Others(t)
      /\ UNCHANGED << owed, fds, maps, blocks, mine, call >>
  BY GoDoes DEF DebugRemove, sysVars, dmaVars, Others
<1>2. /\ DOMAIN tracked' = DOMAIN tracked \ Passed(call[t])
      /\ \A k \in DOMAIN tracked' : tracked'[k] = tracked[k]
  BY DEF DebugRemove, Restrict
<1>3. Owns(t) = Passed(call[t]) \cap (Addr \cup Fd) /\ CallHas(t) /\ IsCall(call[t])
  BY <1>1, ArgumentsHeld DEF OwnInv, TypeOK
<1>4. owed \cap Passed(call[t]) = {}
  <2>1. owed \subseteq Fd /\ NULL \notin Fd
    BY NameAssumption DEF OwnInv, OwedTracked, NULL
  <2>2. CASE PassesPtr(call[t])
    BY <1>3, <2>1, <2>2, PassedIs, NameAssumption DEF IsCall
  <2>3. CASE call[t].fn = "close"
    BY <1>1, <1>3, <2>3, PassedIs DEF PassesPtr, PassesFd, CallHas
  <2> QED BY <1>1, <2>2, <2>3 DEF Removing, PassesPtr
<1>5. owed \subseteq DOMAIN tracked'
  BY <1>2, <1>4 DEF OwnInv, OwedTracked
<1> QED BY <1>1, <1>2, <1>3, <1>5, OwnMoves

LEMMA OwnProgramCall ==
  ASSUME TypeOK, OwnInv, NEW t \in Thread, ProgramCall(t)
  PROVE  OwnInv'
<1>1. PICK c \in Calls :
        /\ Arguments(c) /\ call' = [call EXCEPT ![t] = c]
        /\ c.fn = "munmap" => c.ptr \in DOMAIN maps
        /\ c.fn \in {"free", "realloc"} => c.ptr \in blocks \cup {NULL}
        /\ mine' = mine \ Passed(c)
        /\ owed' = IF c.fn = "close" THEN owed \ {c.fd} ELSE owed
  BY DEF ProgramCall
<1>2. /\ at[t] = "program" /\ at'[t] = "hook" /\ call'[t] = c /\ Others(t)
      /\ UNCHANGED << tracked, fds, maps, blocks >>
  BY <1>1, GoDoes, CallDoes DEF ProgramCall, Others
<1>3. Owns(t) = {}
  BY <1>2, PassedIs DEF TypeOK, Owns, PassesPtr, PassesFd
<1>4. IsCall(c) /\ Passed(c) \cap (Addr \cup Fd) \subseteq mine
  <2>1. IsCall(c)
    BY CallsAssumption
  <2>2. (PassesPtr(c) => c.ptr \in mine \cup {NULL}) /\ (PassesFd(c) => c.fd \in mine \cup {-1, 0})
    BY <1>1 DEF Arguments, PassesPtr, PassesFd
  <2> QED BY <2>1, <2>2, PassedIs, NameAssumption DEF NULL
<1>5. Owns(t)' = Passed(c) \cap (Addr \cup Fd)
  BY <1>2 DEF Owns
<1>6. (\A x : Kept(x)) /\ Exists' = Exists
  BY <1>2, KeptAll
<1>7. OneOwner'
  <2>1. mine' \subseteq Exists' /\ Owns(t)' \subseteq Exists' \ mine'
    BY <1>1, <1>4, <1>5, <1>6 DEF OwnInv, OneOwner
  <2>2. \A x \in mine' \cup Owns(t)' : x \in mine
    BY <1>1, <1>4, <1>5
  <2>3. (blocks \cap DOMAIN maps = {})'
    BY <1>2 DEF OwnInv, OneOwner
  <2> QED BY <1>2, <1>6, <2>1, <2>2, <2>3, OwnersStep DEF OwnInv
<1>8. \A u \in Thread \ {t} : CallHas(u)'
  BY <1>1, <1>2, <1>6, OthersHave DEF OwnInv
<1>9. CallHas(t)'
  BY <1>1, <1>2 DEF CallHas
<1>10. EntriesExist' /\ OwedTracked'
  BY <1>1, <1>2, <1>6, EntriesKept DEF OwnInv, OwedTracked
<1> QED BY <1>7, <1>8, <1>9, <1>10 DEF OwnInv

LEMMA OwnProgramOpens ==
  ASSUME TypeOK, OwnInv, ProgramOpens
  PROVE  OwnInv'
<1>1. PICK fd \in FreeFds : (\E i : fds' = Put(fds, fd, i)) /\ mine' = mine \cup {fd}
  BY DEF ProgramOpens
<1>2. UNCHANGED << at, call, tracked, owed, maps, blocks >>
  BY DEF ProgramOpens, dmaVars
<1>3. /\ DOMAIN fds' = DOMAIN fds \cup {fd} /\ \A x \in DOMAIN fds : fds'[x] = fds[x]
      /\ fd \in Fd
  BY <1>1 DEF Put, FreeFds
<1>4. (\A x : Kept(x)) /\ Exists' = Exists \cup {fd}
  BY <1>2, <1>3 DEF Kept, Exists
<1>5. fd \notin Exists
  BY <1>1, NameAssumption DEF FreeFds, Exists, TypeOK
<1>6. \A u \in Thread : Owns(u)' = Owns(u)
  BY <1>2 DEF Owns, Gets
<1>7. OneOwner'
  BY <1>1, <1>2, <1>4, <1>5, <1>6 DEF OwnInv, OneOwner
<1>8. ASSUME NEW u \in Thread PROVE CallHas(u)'
  BY <1>2, <1>4, <1>6 DEF OwnInv, CallHas, Kept
<1>9. EntriesExist' /\ OwedTracked'
  BY <1>2, <1>4, EntriesKept DEF OwnInv, OwedTracked
<1> QED BY <1>7, <1>8, <1>9 DEF OwnInv

LEMMA OwnStands ==
  ASSUME OwnInv, UNCHANGED << at, call, tracked, owed, fds, maps, blocks, mine >>
  PROVE  OwnInv'
BY DEF OwnInv, OneOwner, CallHas, OwedTracked, EntriesExist, Owns, Gets, Exists

(* The system's turn: an entry of the tracker is not taken away.           *)
LEMMA SystemStep ==
  ASSUME TypeOK, OwnInv, NEW t \in Thread, NEW r \in Results, System(call[t], r),
         at[t] \in {"direct", "sys"} \/ (at[t] = "body" /\ ~ Removing(call[t]))
  PROVE  /\ SystemEffect(call[t], r)
         /\ \A x : x \notin Owns(t) \/ x \in DOMAIN tracked => Kept(x)
         /\ Gets(call[t], r) \cap Exists \subseteq Owns(t)
<1>1. /\ HasArguments(call[t]) /\ SysTypes
      /\ Owns(t) = Passed(call[t]) \cap (Addr \cup Fd)
  BY ArgumentsHeld
<1>2. SystemEffect(call[t], r)
  BY <1>1, SystemDoes
<1>3. Exists \subseteq Addr \cup Fd
  BY <1>1 DEF SysTypes, Exists
<1>4. \A x : x \notin Owns(t) => Kept(x)
  BY <1>1, <1>2, <1>3 DEF SystemEffect, Kept, Exists
<1>5. ASSUME NEW x \in DOMAIN tracked, x \in Owns(t) PROVE Kept(x)
  <2>1. ~ Removing(call[t])
    BY <1>5 DEF OwnInv, CallHas
  <2> QED BY <1>2, <2>1 DEF SystemEffect
<1>6. Gets(call[t], r) \cap Exists \subseteq Owns(t)
  BY <1>1, <1>2, <1>3 DEF SystemEffect
<1> QED BY <1>2, <1>4, <1>5, <1>6

LEMMA NoneOwned ==
  ASSUME NEW t \in Thread, at'[t] = "program", call'[t] = NoCall
  PROVE  Owns(t)' = {} /\ CallHas(t)'
<1>1. NoCall.fn = "none" /\ Passed(NoCall) = {}
  BY NoCallIs
<1> QED BY <1>1 DEF Owns, CallHas, Removing

LEMMA ReturnsDoes ==
  ASSUME TypeOK, NEW t \in Thread, NEW c, NEW r, Returns(t, c, r)
  PROVE  /\ at'[t] = "program" /\ call'[t] = NoCall /\ Others(t)
         /\ mine' = mine \cup Gets(c, r) /\ Owns(t)' = {} /\ CallHas(t)'
BY GoDoes, CallDoes, NoneOwned DEF Returns, Others

LEMMA OwnDirect ==
  ASSUME TypeOK, OwnInv, NEW t \in Thread, Direct(t)
  PROVE  OwnInv'
<1>1. PICK r \in Results : System(call[t], r) /\ Returns(t, call[t], r)
  BY DEF Direct
<1>2. at[t] = "direct" /\ UNCHANGED << tracked, owed >>
  BY DEF Direct, dmaVars
<1>3. /\ SystemEffect(call[t], r)
      /\ \A x : x \notin Owns(t) \/ x \in DOMAIN tracked => Kept(x)
      /\ Gets(call[t], r) \cap Exists \subseteq Owns(t)
  BY <1>1, <1>2, SystemStep
<1>4. /\ Others(t) /\ mine' = mine \cup Gets(call[t], r) /\ Owns(t)' = {} /\ CallHas(t)'
  BY <1>1, ReturnsDoes
<1>5. OneOwner'
  <2>1. \A x \in Exists : x \notin Owns(t) => x \in Exists'
    BY <1>3 DEF Kept, Exists
  <2>2. mine' \subseteq Exists'
    BY <1>3, <1>4, <2>1 DEF SystemEffect, OwnInv, OneOwner
  <2>3. \A x \in mine' \cup Owns(t)' : x \in Exists => x \in mine \cup Owns(t)
    BY <1>3, <1>4
  <2>4. (blocks \cap DOMAIN maps = {})'
    BY <1>3 DEF SystemEffect, SysTypes
  <2> QED BY <1>4, <2>1, <2>2, <2>3, <2>4, OwnersStep DEF OwnInv
<1>6. \A u \in Thread \ {t} : CallHas(u)'
  BY <1>2, <1>3, <1>4, OthersHave DEF OwnInv
<1>7. EntriesExist' /\ OwedTracked'
  BY <1>2, <1>3, EntriesKept DEF OwnInv, OwedTracked
<1> QED BY <1>4, <1>5, <1>6, <1>7 DEF OwnInv

LEMMA OwnSys ==
  ASSUME TypeOK, OwnInv, NEW t \in Thread, DebugSys(t)
  PROVE  OwnInv'
<1>1. PICK r \in Results : System(call[t], r) /\ call' = [call EXCEPT ![t] = Put(@, "r", r)]
  BY DEF DebugSys
<1>2. /\ at[t] = "sys" \/ (at[t] = "body" /\ ~ Removing(call[t]))
      /\ UNCHANGED << tracked, owed, mine >>
  BY DEF DebugSys, dmaVars
<1>3. /\ SystemEffect(call[t], r)
      /\ \A x : x \notin Owns(t) \/ x \in DOMAIN tracked => Kept(x)
      /\ Gets(call[t], r) \cap Exists \subseteq Owns(t)
  BY <1>1, <1>2, SystemStep
<1>4. at'[t] = "track" /\ Others(t) /\ call'[t] = Put(call[t], "r", r)
  BY <1>1, GoDoes DEF DebugSys, Others, TypeOK
<1>5. /\ call'[t].r = r /\ call'[t].fn = call[t].fn
      /\ call[t].fn = "ioctl" => call'[t].request = call[t].request
      /\ Gets(call'[t], r) = Gets(call[t], r)
  <2>1. PICK c : c = call[t]
    OBVIOUS
  <2>2. PICK d : d = Put(c, "r", r)
    OBVIOUS
  <2>3. IsCall(c)
    BY <2>1 DEF TypeOK
  <2>4. d.fn = c.fn /\ (c.fn = "ioctl" => d.request = c.request) /\ Gets(d, r) = Gets(c, r)
    <3>1. "r" \notin {"fn", "ptr", "fd", "request"}
      OBVIOUS
    <3>2. d.fn = c.fn /\ \A x : Gets(d, x) = Gets(c, x)
      BY <2>2, <2>3, <3>1, CallStays
    <3>3. c.fn = "ioctl" => d.request = c.request
      BY <2>2, <2>3, <3>1, CallStays
    <3> QED BY <3>2, <3>3
  <2>5. d.r = r
    BY <2>2 DEF Put
  <2> QED BY <1>4, <2>1, <2>2, <2>4, <2>5
<1>6. Owns(t)' = Gets(call[t], r)
  BY <1>4, <1>5 DEF Owns, Gets
<1>7. OneOwner'
  <2>1. \A x \in Exists : x \notin Owns(t) => x \in Exists'
    BY <1>3 DEF Kept, Exists
  <2>2. mine \cap Owns(t) = {} /\ mine \subseteq Exists
    BY DEF OwnInv, OneOwner
  <2>3. mine' \subseteq Exists' /\ Owns(t)' \subseteq Exists' \ mine'
    BY <1>2, <1>3, <1>6, <2>1, <2>2 DEF SystemEffect
  <2>4. \A x \in mine' \cup Owns(t)' : x \in Exists => x \in mine \cup Owns(t)
    BY <1>2, <1>3, <1>6
  <2>5. (blocks \cap DOMAIN maps = {})'
    BY <1>3 DEF SystemEffect, SysTypes
  <2> QED BY <1>4, <2>1, <2>3, <2>4, <2>5, OwnersStep DEF OwnInv
<1>8. \A u \in Thread \ {t} : CallHas(u)'
  BY <1>2, <1>3, <1>4, OthersHave DEF OwnInv
<1>9. CallHas(t)'
  BY <1>3, <1>4, <1>5 DEF CallHas, SystemEffect
<1>10. EntriesExist' /\ OwedTracked'
  BY <1>2, <1>3, EntriesKept DEF OwnInv, OwedTracked
<1> QED BY <1>7, <1>8, <1>9, <1>10 DEF OwnInv

(* A call that ends hands over what it has, tracked or not.                *)
LEMMA OwnReturns ==
  ASSUME TypeOK, OwnInv, NEW t \in Thread, at[t] \in {"track", "insert"},
         Returns(t, call[t], call[t].r), UNCHANGED << fds, maps, blocks >>,
         DOMAIN tracked' \subseteq DOMAIN tracked \cup Owns(t) \cup {MAP_FAILED},
         \A k \in DOMAIN tracked' : Entry(k)' \/ (k \in DOMAIN tracked /\ tracked'[k] = tracked[k]),
         owed' \subseteq owed \cup Owns(t), owed' \subseteq DOMAIN tracked' \cap Fd
  PROVE  OwnInv'
<1>1. (\A x : Kept(x)) /\ Exists' = Exists
  BY KeptAll
<1>2. Owns(t) = Gets(call[t], call[t].r)
  BY DEF Owns
<1>3. Others(t) /\ mine' = mine \cup Owns(t) /\ Owns(t)' = {} /\ CallHas(t)'
  BY <1>2, ReturnsDoes
<1>4. OneOwner'
  <2>1. mine \subseteq Exists /\ Owns(t) \subseteq Exists /\ (blocks \cap DOMAIN maps = {})'
    BY DEF OwnInv, OneOwner
  <2> QED BY <1>1, <1>3, <2>1, OwnersStep DEF OwnInv
<1>5. \A u \in Thread \ {t} : CallHas(u)'
  BY <1>1, <1>3, OthersHave DEF OwnInv
<1>6. EntriesExist' /\ OwedTracked'
  BY <1>1, EntriesKept DEF OwnInv, OwedTracked
<1> QED BY <1>3, <1>4, <1>5, <1>6 DEF OwnInv

LEMMA OwnTrack ==
  ASSUME TypeOK, OwnInv, NEW t \in Thread, DebugTrack(t)
  PROVE  OwnInv'
<1> PICK c : c = call[t]
  OBVIOUS
<1>1. /\ at[t] = "track" /\ Returns(t, c, c.r)
      /\ UNCHANGED << owed, fds, maps, blocks >>
  BY DEF DebugTrack
<1>2. \/ UNCHANGED tracked
      \/ c.fn \in Heap \cup {"realloc"} /\ c.r # NULL /\ Tracks(c.r, "HOST", c.size)
      \/ c.fn = "mmap" /\ Tracks(c.r, "MMAP", c.size)
      \/ c.fn = "mmap64" /\ Tracks(c.r, "DMA", c.size)
  BY DEF DebugTrack, Mmap64Adds
<1>3. CallHas(t) /\ OwedTracked
  BY DEF OwnInv
<1>4. CASE UNCHANGED tracked
  BY <1>1, <1>3, <1>4, OwnReturns DEF OwedTracked
<1>5. ASSUME NEW type, NEW n, Tracks(c.r, type, n),
             \/ type = "HOST" /\ c.r \in blocks
             \/ type \in {"MMAP", "DMA"} /\ c.r \in DOMAIN maps \cup {MAP_FAILED}
      PROVE  OwnInv'
  <2>1. PICK k : k = c.r
    OBVIOUS
  <2>2. /\ DOMAIN tracked' = DOMAIN tracked \cup {k}
        /\ tracked'[k] = [type |-> type, size |-> n]
        /\ \A x \in DOMAIN tracked : x # k => tracked'[x] = tracked[x]
    BY <1>5, <2>1 DEF Tracks, Put
  <2>3. k \in Owns(t) \cup {MAP_FAILED}
    BY <1>1, <1>5, <2>1, OwnsIs DEF TypeOK, OwnInv
  <2>4. Entry(k)'
    BY <1>1, <1>5, <2>1, <2>2 DEF Entry
  <2>5. \A x \in DOMAIN tracked' : Entry(x)' \/ (x \in DOMAIN tracked /\ tracked'[x] = tracked[x])
    BY <2>2, <2>4
  <2>6. DOMAIN tracked' \subseteq DOMAIN tracked \cup Owns(t) \cup {MAP_FAILED}
    BY <2>2, <2>3
  <2>7. owed' \subseteq owed \cup Owns(t) /\ owed' \subseteq DOMAIN tracked' \cap Fd
    BY <1>1, <1>3, <2>2 DEF OwedTracked
  <2> QED BY <1>1, <2>5, <2>6, <2>7, OwnReturns
<1>6. CASE c.fn \in Heap \cup {"realloc"} /\ c.r # NULL /\ Tracks(c.r, "HOST", c.size)
  BY <1>1, <1>3, <1>5, <1>6 DEF CallHas
<1>7. CASE c.fn = "mmap" /\ Tracks(c.r, "MMAP", c.size)
  BY <1>1, <1>3, <1>5, <1>7 DEF CallHas
<1>8. CASE c.fn = "mmap64" /\ Tracks(c.r, "DMA", c.size)
  BY <1>1, <1>3, <1>5, <1>8 DEF CallHas
<1> QED BY <1>2, <1>4, <1>6, <1>7, <1>8

LEMMA OwnRead ==
  ASSUME TypeOK, OwnInv, NEW t \in Thread, IsDmaBufRead(t)
  PROVE  OwnInv'
<1>1. PICK c : c = call[t]
  OBVIOUS
<1>2. PICK fd \in AsksAbout(c) : fd = CHOOSE g \in AsksAbout(c) : TRUE
  BY <1>1 DEF IsDmaBufRead
<1>3. /\ at[t] = "track" /\ UNCHANGED << tracked, owed, fds, maps, blocks >>
  BY DEF IsDmaBufRead, dmaVars
<1>4. \/ /\ fd \in DOMAIN fds /\ fds[fd] # NoFile /\ Go(t, "insert") /\ UNCHANGED mine
         /\ call' = [call EXCEPT ![t] = Put(Put(@, "inode", fds[fd]), "dma", fd)]
      \/ Returns(t, c, c.r)
  BY <1>1, <1>2 DEF IsDmaBufRead
<1>5. CASE Returns(t, c, c.r)
  BY <1>1, <1>3, <1>5, OwnReturns DEF OwnInv, OwedTracked
<1>6. CASE /\ fd \in DOMAIN fds /\ fds[fd] # NoFile /\ Go(t, "insert") /\ UNCHANGED mine
           /\ call' = [call EXCEPT ![t] = Put(Put(@, "inode", fds[fd]), "dma", fd)]
  <2>1. PICK b : b = Put(c, "inode", fds[fd])
    OBVIOUS
  <2>2. PICK d : d = Put(b, "dma", fd)
    OBVIOUS
  <2>3. /\ call'[t] = d /\ at'[t] = "insert" /\ Others(t)
    BY <1>1, <1>6, <2>1, <2>2, GoDoes DEF TypeOK, Others
  <2>4. IsCall(c)
    BY <1>1 DEF TypeOK
  <2>5. IsCall(b) /\ b.fn = c.fn /\ \A x : Gets(b, x) = Gets(c, x)
    <3>1. "inode" \notin {"fn", "ptr", "fd", "request"}
      OBVIOUS
    <3>2. b.fn = c.fn /\ \A x : Gets(b, x) = Gets(c, x)
      BY <2>1, <2>4, <3>1, CallStays
    <3>3. IsCall(b)
      BY <2>1, <2>4, <3>1, CallStays
    <3> QED BY <3>2, <3>3
  <2>6. d.fn = c.fn /\ \A x : Gets(d, x) = Gets(c, x)
    <3>1. "dma" \notin {"fn", "ptr", "fd", "request"}
      OBVIOUS
    <3>2. d.fn = b.fn /\ \A x : Gets(d, x) = Gets(b, x)
      BY <2>2, <2>5, <3>1, CallStays
    <3> QED BY <2>5, <3>2
  <2>7. d.inode = fds[fd] /\ d.dma = fd /\ d.r = c.r
    BY <1>1, <1>3, <2>1, <2>2 DEF Put, TypeOK
  <2>8. Owns(t)' = Owns(t)
    BY <1>1, <1>3, <2>3, <2>6, <2>7 DEF Owns, Gets
  <2>9. fd \in Owns(t)
    <3>1. fd \in Fd
      BY <1>6 DEF TypeOK
    <3>2. CASE fd = c.r
      BY <1>1, <1>3, <3>1, <3>2, OwnsIs DEF OwnInv
    <3>3. CASE fd = c.fd /\ c.fn \in {"ioctl", "mmap"} /\ PassesFd(c)
      <4>1. Passed(c) = {c.fd}
        BY <2>4, <3>3, PassedIs DEF PassesPtr
      <4> QED BY <1>1, <1>3, <3>1, <3>3, <4>1 DEF Owns, Gets
    <3> QED BY <1>2, <3>2, <3>3 DEF AsksAbout, PassesFd
  <2>10. (\A x : Kept(x)) /\ Exists' = Exists
    BY <1>3, KeptAll
  <2>11. OneOwner'
    BY <1>6, <2>3, <2>8, <2>10, OwnersStep, <1>3 DEF OwnInv, OneOwner
  <2>12. \A u \in Thread \ {t} : CallHas(u)'
    BY <1>3, <2>3, <2>10, OthersHave DEF OwnInv
  <2>13. CallHas(t)'
    BY <1>3, <1>6, <2>3, <2>7, <2>8, <2>9 DEF CallHas
  <2>14. EntriesExist' /\ OwedTracked'
    BY <1>3, <2>10, EntriesKept DEF OwnInv, OwedTracked
  <2> QED BY <2>11, <2>12, <2>13, <2>14 DEF OwnInv
<1> QED BY <1>4, <1>5, <1>6

LEMMA OwnInsert ==
  ASSUME TypeOK, OwnInv, NEW t \in Thread, IsDmaBufInsert(t)
  PROVE  OwnInv'
<1> PICK c : c = call[t]
  OBVIOUS
<1>1. at[t] = "insert" /\ Returns(t, c, c.r) /\ UNCHANGED << fds, maps, blocks >>
  BY DEF IsDmaBufInsert
<1>2. /\ c.dma \in Owns(t) \cap DOMAIN fds /\ c.dma \in Fd
      /\ fds[c.dma] = c.inode /\ c.inode # NoFile
  BY <1>1 DEF OwnInv, CallHas, TypeOK
<1>3. \/ Tracks(c.dma, "DMA", SizeOf(c.inode)) /\ owed' \subseteq owed \cup {c.dma}
      \/ UNCHANGED << tracked, owed >>
  BY DEF IsDmaBufInsert
<1>4. CASE UNCHANGED << tracked, owed >>
  BY <1>1, <1>4, OwnReturns DEF OwnInv, OwedTracked
<1>5. CASE Tracks(c.dma, "DMA", SizeOf(c.inode)) /\ owed' \subseteq owed \cup {c.dma}
  <2>1. PICK k : k = c.dma
    OBVIOUS
  <2>2. /\ DOMAIN tracked' = DOMAIN tracked \cup {k}
        /\ tracked'[k] = [type |-> "DMA", size |-> SizeOf(c.inode)]
        /\ \A x \in DOMAIN tracked : x # k => tracked'[x] = tracked[x]
    BY <1>5, <2>1 DEF Tracks, Put
  <2>3. Entry(k)'
    BY <1>1, <1>2, <2>1, <2>2 DEF Entry
  <2>4. \A x \in DOMAIN tracked' : Entry(x)' \/ (x \in DOMAIN tracked /\ tracked'[x] = tracked[x])
    BY <2>2, <2>3
  <2>5. owed' \subseteq owed \cup Owns(t) /\ owed' \subseteq DOMAIN tracked' \cap Fd
    BY <1>2, <1>5, <2>1, <2>2 DEF OwnInv, OwedTracked
  <2> QED BY <1>1, <1>2, <2>1, <2>2, <2>4, <2>5, OwnReturns
<1> QED BY <1>3, <1>4, <1>5

----------------------------------------------------------------------------
(* Types.                                                                  *)
CountsTyped ==
  /\ gpu_ioctl_alloc \in [Thread -> BOOLEAN]
  /\ requests \in [Thread -> Nat] /\ grants \in [Thread -> Nat]

LEMMA TypeFrom ==
  ASSUME TypeOK, NEW t \in Thread, NEW l \in Places, Go(t, l), DOMAIN call' = Thread,
         \A u \in Thread \ {t} : call'[u] = call[u],
         IsCall(call'[t]), l = "program" <=> call'[t].fn = "none",
         l \in {"track", "insert"} => "r" \in DOMAIN call'[t],
         SysTypes', CountsTyped'
  PROVE  TypeOK'
<1>1. at'[t] = l /\ (\A u \in Thread \ {t} : at'[u] = at[u]) /\ at' \in [Thread -> Places]
  BY GoDoes DEF Go, TypeOK
<1>2. \A u \in Thread : IsCall(call'[u])
  BY DEF TypeOK
<1>3. \A u \in Thread : at'[u] = "program" <=> call'[u].fn = "none"
  BY <1>1 DEF TypeOK
<1>4. \A u \in Thread : at'[u] \in {"track", "insert"} => "r" \in DOMAIN call'[u]
  BY <1>1 DEF TypeOK
<1> QED BY <1>1, <1>2, <1>3, <1>4 DEF TypeOK, SysTypes, CountsTyped

LEMMA SysTyped == TypeOK /\ OwnInv => SysTypes /\ CountsTyped
BY DEF TypeOK, OwnInv, OneOwner, SysTypes, CountsTyped

LEMMA SysTypedStill ==
  SysTypes /\ UNCHANGED << fds, maps, blocks >> => SysTypes'
BY DEF SysTypes

LEMMA CountsStill ==
  CountsTyped /\ UNCHANGED << gpu_ioctl_alloc, requests, grants >> => CountsTyped'
BY DEF CountsTyped

(* Steps that only move a thread.                                          *)
LEMMA TypeMoves ==
  ASSUME TypeOK, OwnInv, NEW t \in Thread, NEW l \in Places \ {"program", "track", "insert"},
         Go(t, l), at[t] # "program",
         UNCHANGED << call, fds, maps, blocks, gpu_ioctl_alloc, requests, grants >>
  PROVE  TypeOK'
<1>1. SysTypes' /\ CountsTyped'
  BY SysTyped, SysTypedStill, CountsStill
<1>2. DOMAIN call' = Thread /\ IsCall(call'[t]) /\ call'[t].fn # "none"
  BY DEF TypeOK
<1> QED BY <1>1, <1>2, TypeFrom

LEMMA TypeReturns ==
  ASSUME TypeOK, NEW t \in Thread, NEW c, NEW r, Returns(t, c, r), SysTypes', CountsTyped'
  PROVE  TypeOK'
<1>1. call'[t] = NoCall /\ DOMAIN call' = Thread /\ \A u \in Thread \ {t} : call'[u] = call[u]
  BY CallDoes DEF Returns, TypeOK
<1>2. Go(t, "program") /\ "program" \in Places
  BY DEF Returns, Places
<1> QED BY <1>1, <1>2, NoCallIs, TypeFrom

LEMMA TypeStep ==
  ASSUME TypeOK, OwnInv, [Next]_vars
  PROVE  TypeOK'
<1>0. SysTypes /\ CountsTyped
  BY SysTyped
<1>1. CASE ProgramOpens
  <2>1. UNCHANGED << at, call, maps, blocks, gpu_ioctl_alloc, requests, grants >> /\ DOMAIN fds' \subseteq Fd
    BY <1>1 DEF ProgramOpens, dmaVars, Put, FreeFds, TypeOK
  <2> QED BY <2>1 DEF TypeOK
<1>2. CASE MarkInitDone \/ UNCHANGED vars
  <2>1. UNCHANGED << at, call, fds, maps, blocks, gpu_ioctl_alloc, requests, grants >>
    BY <1>2 DEF MarkInitDone, vars, dmaVars, sysVars
  <2> QED BY <2>1 DEF TypeOK
<1>3. ASSUME NEW t \in Thread, ProgramCall(t) PROVE TypeOK'
  <2>1. PICK c \in Calls : call' = [call EXCEPT ![t] = c]
    BY <1>3 DEF ProgramCall
  <2>2. Go(t, "hook") /\ "hook" \in Places
    BY <1>3 DEF ProgramCall, Places
  <2>3. /\ UNCHANGED << fds, maps, blocks, gpu_ioctl_alloc, requests, grants >>
    BY <1>3 DEF ProgramCall
  <2>4. SysTypes' /\ CountsTyped'
    BY <1>0, <2>3, SysTypedStill, CountsStill
  <2>5. IsCall(c) /\ c.fn # "none"
    BY CallsAssumption DEF Heap, MapFns
  <2>6. call'[t] = c /\ DOMAIN call' = Thread /\ \A u \in Thread \ {t} : call'[u] = call[u]
    BY <2>1, CallDoes DEF TypeOK
  <2> QED BY <2>2, <2>4, <2>5, <2>6, TypeFrom
<1>4. ASSUME NEW t \in Thread,
             Hook(t) \/ Inst(t) \/ Construct(t) \/ DebugInitialize(t) \/ Constructed(t) \/ DebugRemove(t)
      PROVE  TypeOK'
  <2>1. /\ UNCHANGED << call, fds, maps, blocks, gpu_ioctl_alloc, requests, grants >>
        /\ at[t] # "program"
    BY <1>4 DEF Hook, Inst, Construct, DebugInitialize, Constructed, DebugRemove, dmaVars, sysVars
  <2>2. \E l \in {"direct", "inst", "construct", "initialize", "constructed", "lowered", "body", "sys"} :
          Go(t, l)
    BY <1>4 DEF Hook, Inst, Construct, DebugInitialize, Constructed, DebugRemove
  <2> QED BY <2>1, <2>2, TypeMoves DEF Places, Constructing, Inside
<1>5. ASSUME NEW t \in Thread, Direct(t) PROVE TypeOK'
  <2>1. PICK r \in Results : System(call[t], r) /\ Returns(t, call[t], r)
    BY <1>5 DEF Direct
  <2>2. SysTypes' /\ CountsTyped'
    BY <1>0, <1>5, <2>1, SystemStep, CountsStill DEF Direct, SystemEffect, dmaVars
  <2> QED BY <2>1, <2>2, TypeReturns
<1>6. ASSUME NEW t \in Thread, DebugSys(t) PROVE TypeOK'
  <2>1. PICK r \in Results : System(call[t], r) /\ call' = [call EXCEPT ![t] = Put(@, "r", r)]
    BY <1>6 DEF DebugSys
  <2>2. SysTypes' /\ CountsTyped'
    <3>1. SysTypes'
      BY <1>6, <2>1, SystemStep DEF DebugSys, SystemEffect
    <3>2. CountsTyped'
      BY <1>0, <1>6, CountsStill DEF DebugSys, dmaVars
    <3> QED BY <3>1, <3>2
  <2>3. PICK c : c = call[t]
    OBVIOUS
  <2>4. PICK d : d = Put(c, "r", r)
    OBVIOUS
  <2>5. IsCall(c) /\ c.fn # "none"
    BY <1>6, <2>3 DEF TypeOK, DebugSys
  <2>6. IsCall(d) /\ d.fn # "none"
    <3>1. "r" \notin {"fn", "ptr", "fd", "request"}
      OBVIOUS
    <3> QED BY <2>4, <2>5, <3>1, IsCallStays
  <2>7. call'[t] = d /\ DOMAIN call' = Thread /\ \A u \in Thread \ {t} : call'[u] = call[u]
    BY <2>1, <2>3, <2>4 DEF TypeOK
  <2>8. "r" \in DOMAIN d
    BY <2>4 DEF Put
  <2> QED BY <1>6, <2>2, <2>6, <2>7, <2>8, TypeFrom DEF DebugSys, Places, Inside
<1>7. ASSUME NEW t \in Thread, DebugTrack(t) PROVE TypeOK'
  <2>1. Returns(t, call[t], call[t].r) /\ UNCHANGED << fds, maps, blocks >>
    BY <1>7 DEF DebugTrack
  <2>2. /\ gpu_ioctl_alloc' \in {gpu_ioctl_alloc, [gpu_ioctl_alloc EXCEPT ![t] = TRUE],
                               [gpu_ioctl_alloc EXCEPT ![t] = FALSE]}
        /\ requests' \in {requests, [requests EXCEPT ![t] = @ + 1]}
        /\ grants' \in {grants, [grants EXCEPT ![t] = @ + 1]}
    BY <1>7 DEF DebugTrack, Mmap64Adds
  <2>3. CountsTyped'
    <3>1. gpu_ioctl_alloc' \in [Thread -> BOOLEAN]
      BY <1>0, <2>2 DEF CountsTyped
    <3>2. requests' \in [Thread -> Nat] /\ grants' \in [Thread -> Nat]
      BY <1>0, <2>2 DEF CountsTyped
    <3> QED BY <3>1, <3>2 DEF CountsTyped
  <2> QED BY <1>0, <2>1, <2>3, SysTypedStill, TypeReturns
<1>8. ASSUME NEW t \in Thread, IsDmaBufInsert(t) PROVE TypeOK'
  <2>1. Returns(t, call[t], call[t].r)
    BY <1>8 DEF IsDmaBufInsert
  <2>2. SysTypes' /\ CountsTyped'
    BY <1>0, <1>8, SysTypedStill, CountsStill DEF IsDmaBufInsert
  <2> QED BY <2>1, <2>2, TypeReturns
<1>9. ASSUME NEW t \in Thread, IsDmaBufRead(t) PROVE TypeOK'
  <2>1. SysTypes' /\ CountsTyped'
    BY <1>0, <1>9, SysTypedStill, CountsStill DEF IsDmaBufRead, dmaVars
  <2>2. CASE Returns(t, call[t], call[t].r)
    BY <2>1, <2>2, TypeReturns
  <2>3. ASSUME NEW i, NEW fd, Go(t, "insert"),
               call' = [call EXCEPT ![t] = Put(Put(@, "inode", i), "dma", fd)]
        PROVE  TypeOK'
    <3>1. PICK c : c = call[t]
      OBVIOUS
    <3>2. PICK b : b = Put(c, "inode", i)
      OBVIOUS
    <3>3. PICK d : d = Put(b, "dma", fd)
      OBVIOUS
    <3>4. IsCall(c) /\ c.fn # "none" /\ "r" \in DOMAIN c
      BY <1>9, <3>1 DEF TypeOK, IsDmaBufRead
    <3>5. IsCall(b) /\ b.fn = c.fn
      <4>1. "inode" \notin {"fn", "ptr", "fd", "request"}
        OBVIOUS
      <4> QED BY <3>2, <3>4, <4>1, IsCallStays
    <3>6. IsCall(d) /\ d.fn = b.fn
      <4>1. "dma" \notin {"fn", "ptr", "fd", "request"}
        OBVIOUS
      <4> QED BY <3>3, <3>5, <4>1, IsCallStays
    <3>7. call'[t] = d /\ DOMAIN call' = Thread /\ \A u \in Thread \ {t} : call'[u] = call[u]
      BY <2>3, <3>1, <3>2, <3>3 DEF TypeOK
    <3>8. "r" \in DOMAIN d
      BY <3>2, <3>3, <3>4 DEF Put
    <3> QED BY <2>1, <2>3, <3>4, <3>5, <3>6, <3>7, <3>8, TypeFrom DEF Places, Inside
  <2> QED BY <1>9, <2>2, <2>3 DEF IsDmaBufRead
<1> QED BY <1>1, <1>2, <1>3, <1>4, <1>5, <1>6, <1>7, <1>8, <1>9 DEF Next, ThreadStep

----------------------------------------------------------------------------
(* The construction of the hook.                                           *)
LEMMA ConfigIs ==
  ASSUME NEW e
  PROVE  /\ ConfigInit(e) # NoDebug
         /\ ConfigInit(e).options = {"BACKTRACE_SPECIFIC_SIZES", "BACKTRACE", "TRACK_ALLOCS", "DUMP_ON_SIGNAL"}
                 \cup (IF ParseValue(e.peak).ok THEN {"RECORD_MEMORY_PEAK"} ELSE {})
         /\ ConfigInit(e).dump_peak_val = (ParseValue(e.peak).value * MB) % (SIZE_MAX + 1)
<1>1. PICK o : o = {"BACKTRACE_SPECIFIC_SIZES", "BACKTRACE", "TRACK_ALLOCS", "DUMP_ON_SIGNAL"}
                      \cup (IF ParseValue(e.peak).ok THEN {"RECORD_MEMORY_PEAK"} ELSE {})
  OBVIOUS
<1>2. PICK v : v = (ParseValue(e.peak).value * MB) % (SIZE_MAX + 1)
  OBVIOUS
<1>3. ConfigInit(e).options = o /\ ConfigInit(e).dump_peak_val = v
  BY <1>1, <1>2 DEF ConfigInit
<1>4. ConfigInit(e) # NoDebug
  <2>1. NoDebug.options = {} /\ "BACKTRACE" \in o
    BY <1>1 DEF NoDebug
  <2> QED BY <1>3, <2>1
<1> QED BY <1>1, <1>2, <1>3, <1>4

(* A step that does not construct.                                         *)
LEMMA ConstructsMoves ==
  ASSUME TypeOK, OneConstructs, NEW t \in Thread, NEW l \in Places \ Constructing, Go(t, l),
         at[t] \notin Constructing, UNCHANGED << setup, hook, config >>,
         l \in Inside => hook = "done",
         hook # "done" => DOMAIN tracked' = {} /\ owed' = {}
  PROVE  OneConstructs'
<1>1. at'[t] = l /\ \A u \in Thread \ {t} : at'[u] = at[u]
  BY GoDoes
<1>2. \A u \in Thread : at'[u] \in Constructing => at'[u] = at[u]
  BY <1>1
<1>3. \A u \in Thread : at'[u] \in Inside => hook = "done"
  BY <1>1 DEF OneConstructs
<1>4. setup => \E u \in Thread : at'[u] \in {"initialize", "constructed"}
  <2>1. SUFFICES ASSUME setup PROVE \E u \in Thread : at'[u] \in {"initialize", "constructed"}
    OBVIOUS
  <2>2. PICK u \in Thread : at[u] \in {"initialize", "constructed"}
    BY <2>1 DEF OneConstructs
  <2>3. u # t
    BY <2>2 DEF Constructing
  <2> QED BY <1>1, <2>2, <2>3
<1>5. hook = "done" \/ (\E u \in Thread : at'[u] \in {"constructed", "lowered"}) => config # NoDebug
  BY <1>2 DEF OneConstructs, Constructing
<1> QED BY <1>2, <1>3, <1>4, <1>5 DEF OneConstructs

(* A step of the thread that constructs.                                   *)
LEMMA ConstructsStep ==
  ASSUME TypeOK, OneConstructs, NEW t \in Thread, NEW l \in Constructing, Go(t, l),
         at[t] \in Constructing, UNCHANGED << hook, tracked, owed >>,
         setup' => l \in {"initialize", "constructed"},
         l \in {"constructed", "lowered"} => config' # NoDebug
  PROVE  OneConstructs'
<1>1. at'[t] = l /\ \A u \in Thread \ {t} : at'[u] = at[u]
  BY GoDoes
<1>2. hook = "running" /\ \A u \in Thread \ {t} : at[u] \notin Constructing
  BY DEF OneConstructs
<1>3. \A u \in Thread \ {t} : at'[u] \notin Constructing \cup Inside
  BY <1>1, <1>2 DEF OneConstructs
<1>4. l \notin Inside
  BY DEF Constructing, Inside
<1>5. \A u \in Thread : at'[u] \in Constructing => u = t
  BY <1>3
<1>6. \A u \in Thread : at'[u] \notin Inside
  BY <1>1, <1>3, <1>4
<1>7. (\E u \in Thread : at'[u] \in {"constructed", "lowered"}) => config' # NoDebug
  BY <1>1, <1>3 DEF Constructing
<1> QED BY <1>1, <1>2, <1>5, <1>6, <1>7 DEF OneConstructs

LEMMA ConstructsNext ==
  ASSUME TypeOK, OneConstructs, [Next]_vars
  PROVE  OneConstructs'
<1>1. CASE ProgramOpens \/ MarkInitDone \/ UNCHANGED vars
  <2>1. UNCHANGED << at, hook, setup, config, tracked, owed >>
    BY <1>1 DEF ProgramOpens, MarkInitDone, vars, startVars, dmaVars
  <2> QED BY <2>1 DEF OneConstructs
<1>2. ASSUME NEW t \in Thread, ProgramCall(t) PROVE OneConstructs'
  <2>1. /\ UNCHANGED << setup, hook, config, tracked >> /\ owed' \subseteq owed
        /\ Go(t, "hook") /\ at[t] = "program"
    BY <1>2 DEF ProgramCall, startVars
  <2>2. hook # "done" => DOMAIN tracked' = {} /\ owed' = {}
    BY <2>1 DEF OneConstructs
  <2> QED BY <2>1, <2>2, ConstructsMoves DEF Places, Constructing, Inside
<1>3. ASSUME NEW t \in Thread, Hook(t) PROVE OneConstructs'
  <2>1. /\ UNCHANGED << setup, hook, config, tracked, owed >> /\ at[t] = "hook"
        /\ \E l \in {"direct", "inst"} : Go(t, l)
    BY <1>3 DEF Hook, dmaVars
  <2>2. hook # "done" => DOMAIN tracked' = {} /\ owed' = {}
    BY <2>1 DEF OneConstructs
  <2> QED BY <2>1, <2>2, ConstructsMoves DEF Places, Constructing, Inside
<1>4. ASSUME NEW t \in Thread, Inst(t), hook = "done" PROVE OneConstructs'
  <2>1. /\ UNCHANGED << setup, hook, config >> /\ at[t] = "inst" /\ Go(t, "body")
    BY <1>4 DEF Inst
  <2> QED BY <1>4, <2>1, ConstructsMoves DEF Places, Constructing, Inside
<1>5. ASSUME NEW t \in Thread, Inst(t), hook = "none" PROVE OneConstructs'
  <2>1. /\ UNCHANGED << setup, config, tracked, owed >> /\ at[t] = "inst" /\ Go(t, "construct")
        /\ hook' = "running"
    BY <1>5 DEF Inst, dmaVars
  <2>2. at'[t] = "construct" /\ \A u \in Thread \ {t} : at'[u] = at[u]
    BY <2>1, GoDoes
  <2>3. \A u \in Thread : at[u] \notin Constructing \cup Inside
    BY <1>5 DEF OneConstructs
  <2>4. ~ setup
    BY <2>3 DEF OneConstructs, Constructing
  <2>5. \A u \in Thread : at'[u] \in Constructing \cup Inside => u = t
    BY <2>2, <2>3
  <2>6. \A u \in Thread : at'[u] \notin Inside \cup {"constructed", "lowered"}
    BY <2>2, <2>3, <2>5 DEF Constructing, Inside
  <2>7. DOMAIN tracked' = {} /\ owed' = {}
    BY <1>5, <2>1 DEF OneConstructs
  <2> QED BY <2>1, <2>4, <2>5, <2>6, <2>7 DEF OneConstructs
<1>6. ASSUME NEW t \in Thread, Construct(t) PROVE OneConstructs'
  <2>1. /\ UNCHANGED << hook, tracked, owed >> /\ at[t] = "construct" /\ Go(t, "initialize")
    BY <1>6 DEF Construct, dmaVars
  <2> QED BY <2>1, ConstructsStep DEF Constructing
<1>7. ASSUME NEW t \in Thread, DebugInitialize(t) PROVE OneConstructs'
  <2>1. /\ UNCHANGED << hook, tracked, owed >> /\ at[t] = "initialize" /\ Go(t, "constructed")
        /\ config' = ConfigInit(env)
    BY <1>7 DEF DebugInitialize, dmaVars
  <2>2. config' # NoDebug
    BY <2>1, ConfigIs
  <2> QED BY <2>1, <2>2, ConstructsStep DEF Constructing
<1>8. ASSUME NEW t \in Thread, Constructed(t), at[t] = "constructed" PROVE OneConstructs'
  <2>1. /\ UNCHANGED << hook, tracked, owed, config >> /\ Go(t, "lowered") /\ setup' = FALSE
    BY <1>8 DEF Constructed, dmaVars
  <2>2. config' # NoDebug
    BY <1>8, <2>1 DEF OneConstructs
  <2> QED BY <1>8, <2>1, <2>2, ConstructsStep DEF Constructing
<1>9. ASSUME NEW t \in Thread, Constructed(t), at[t] = "lowered" PROVE OneConstructs'
  <2>1. UNCHANGED << setup, config >> /\ Go(t, "body") /\ hook' = "done"
    BY <1>9 DEF Constructed
  <2>2. at'[t] = "body" /\ \A u \in Thread \ {t} : at'[u] = at[u]
    BY <2>1, GoDoes
  <2>3. /\ \A u \in Thread \ {t} : at[u] \notin Constructing
        /\ config # NoDebug
    BY <1>9 DEF OneConstructs, Constructing
  <2>4. \A u \in Thread : at'[u] \notin Constructing
    BY <2>2, <2>3 DEF Constructing
  <2>5. ~ setup
    BY <1>9, <2>3 DEF OneConstructs, Constructing
  <2> QED BY <2>1, <2>3, <2>4, <2>5 DEF OneConstructs
<1>10. ASSUME NEW t \in Thread, NEW l \in Places \ Constructing, Go(t, l),
              at[t] \in {"direct"} \cup Inside, UNCHANGED << setup, hook, config >>,
              at[t] = "direct" => l = "program" /\ UNCHANGED << tracked, owed >>
       PROVE  OneConstructs'
  <2>1. at[t] \in Inside => hook = "done"
    BY DEF OneConstructs
  <2>2. at[t] \notin Constructing
    BY <1>10 DEF Constructing, Inside
  <2>3. hook # "done" => DOMAIN tracked' = {} /\ owed' = {}
    BY <1>10, <2>1 DEF OneConstructs
  <2>4. l \in Inside => hook = "done"
    BY <1>10, <2>1 DEF Inside
  <2> QED BY <1>10, <2>2, <2>3, <2>4, ConstructsMoves
<1>11. ASSUME NEW t \in Thread,
              \/ Direct(t) \/ DebugRemove(t) \/ DebugSys(t) \/ DebugTrack(t)
              \/ IsDmaBufRead(t) \/ IsDmaBufInsert(t)
       PROVE  OneConstructs'
  <2>1. CASE Direct(t)
    <3>1. /\ Go(t, "program") /\ at[t] = "direct" /\ UNCHANGED << setup, hook, config, tracked, owed >>
      BY <2>1 DEF Direct, Returns, startVars, dmaVars
    <3> QED BY <3>1, <1>10 DEF Places, Constructing, Inside
  <2>2. CASE \/ DebugRemove(t) \/ DebugSys(t) \/ DebugTrack(t)
             \/ IsDmaBufRead(t) \/ IsDmaBufInsert(t)
    <3>1. at[t] \in Inside /\ UNCHANGED << setup, hook, config >>
      BY <2>2 DEF DebugRemove, DebugSys, DebugTrack, IsDmaBufRead, IsDmaBufInsert, Inside, startVars
    <3>2. \E l \in {"sys", "track", "program", "insert"} : Go(t, l)
      BY <2>2 DEF DebugRemove, DebugSys, DebugTrack, IsDmaBufRead, IsDmaBufInsert, Returns
    <3>3. at[t] # "direct" /\ {"sys", "track", "program", "insert"} \subseteq Places \ Constructing
      BY <3>1 DEF Places, Constructing, Inside
    <3> QED BY <3>1, <3>2, <3>3, <1>10
  <2> QED BY <1>11, <2>1, <2>2
<1> QED
  BY <1>1, <1>2, <1>3, <1>4, <1>5, <1>6, <1>7, <1>8, <1>9, <1>11
  DEF Next, ThreadStep, Inst, Constructed

----------------------------------------------------------------------------
(* What is resolved.                                                       *)
Grows == resolved \subseteq resolved' /\ (preinit' => preinit)

Beyond == {"inst"} \cup Constructing \cup Inside

LEMMA ResolvingStays ==
  ASSUME Grows, NEW t \in Thread, Resolving(t), call'[t].fn = call[t].fn,
         at'[t] = at[t] \/ (at[t] \in Beyond /\ at'[t] \in Beyond)
  PROVE  Resolving(t)'
<1>1. preinit' => call'[t].fn \in {"none", "malloc", "free", "mmap"}
  BY DEF Resolving, Grows
<1>2. at'[t] \notin {"program", "hook"} => Resolves(call'[t].fn) \subseteq resolved'
  BY DEF Resolving, Grows, Beyond, Constructing, Inside
<1>3. at'[t] = "direct" => ChecksSetup(call'[t].fn)
  BY DEF Resolving, Beyond, Constructing, Inside
<1>4. at'[t] \in Beyond /\ call'[t].fn \in MapFns => ~ preinit'
  BY DEF Resolving, Grows, Beyond
<1> QED BY <1>1, <1>2, <1>3, <1>4 DEF Resolving, Beyond

LEMMA ResolvesStep ==
  ASSUME TypeOK, ResolvesEnough, UNCHANGED preinit, resolved \subseteq resolved',
         NEW t \in Thread, NEW l, Go(t, l),
         \A u \in Thread \ {t} : call'[u] = call[u],
         \/ Resolving(t)'
         \/ call'[t].fn = call[t].fn /\ at[t] \in Beyond /\ l \in Beyond
         \/ call'[t] = NoCall /\ l = "program"
  PROVE  ResolvesEnough'
<1>1. at'[t] = l /\ \A u \in Thread \ {t} : at'[u] = at[u]
  BY GoDoes
<1>2. Grows
  BY DEF Grows
<1>3. \A u \in Thread \ {t} : Resolving(u)'
  BY <1>1, <1>2, ResolvingStays DEF ResolvesEnough
<1>4. Resolving(t)'
  <2>1. CASE call'[t].fn = call[t].fn /\ at[t] \in Beyond /\ l \in Beyond
    BY <1>1, <1>2, <2>1, ResolvingStays DEF ResolvesEnough
  <2>2. CASE call'[t] = NoCall /\ l = "program"
    BY <1>1, <2>2 DEF Resolving, NoCall, Constructing, Inside, MapFns
  <2> QED BY <2>1, <2>2
<1> QED BY <1>3, <1>4 DEF ResolvesEnough

LEMMA ResolvesNext ==
  ASSUME TypeOK, ResolvesEnough, [Next]_vars
  PROVE  ResolvesEnough'
<1>1. CASE ProgramOpens \/ UNCHANGED vars
  <2>1. UNCHANGED << resolved, preinit, at, call >>
    BY <1>1 DEF ProgramOpens, vars, startVars
  <2> QED BY <2>1 DEF ResolvesEnough, Resolving
<1>2. CASE MarkInitDone
  <2>1. Grows /\ UNCHANGED << at, call >> /\ {"malloc", "free"} \subseteq resolved'
    BY <1>2 DEF MarkInitDone, Grows
  <2>2. \A t \in Thread : Resolving(t)'
    BY <2>1, ResolvingStays DEF ResolvesEnough
  <2> QED BY <2>1, <2>2 DEF ResolvesEnough
<1>3. ASSUME NEW t \in Thread, ProgramCall(t) PROVE ResolvesEnough'
  <2>1. PICK c \in Calls : /\ call' = [call EXCEPT ![t] = c]
                           /\ preinit => c.fn \in {"malloc", "free", "mmap"}
    BY <1>3 DEF ProgramCall
  <2>2. UNCHANGED << resolved, preinit >> /\ Go(t, "hook")
    BY <1>3 DEF ProgramCall, startVars
  <2>3. call'[t] = c /\ (\A u \in Thread \ {t} : call'[u] = call[u]) /\ at'[t] = "hook"
    BY <2>1, <2>2, CallDoes, GoDoes
  <2>4. Resolving(t)'
    BY <2>1, <2>2, <2>3 DEF Resolving, Constructing, Inside
  <2> QED BY <2>2, <2>3, <2>4, ResolvesStep
<1>4. ASSUME NEW t \in Thread, Hook(t) PROVE ResolvesEnough'
  <2>1. /\ UNCHANGED << preinit, call >> /\ resolved' = resolved \cup Resolves(call[t].fn)
    BY <1>4 DEF Hook
  <2>2. PICK l : Go(t, l) /\ \/ l = "direct" /\ ChecksSetup(call[t].fn)
                             \/ l = "inst" /\ (preinit => ~ ChecksSetup(call[t].fn) \/ call[t].fn \notin MapFns)
    BY <1>4 DEF Hook
  <2>3. at'[t] = l
    BY <2>2, GoDoes
  <2>4. call[t].fn \in MapFns => ChecksSetup(call[t].fn)
    BY DEF ChecksSetup
  <2>5. preinit => call[t].fn \in {"none", "malloc", "free", "mmap"}
    BY DEF ResolvesEnough, Resolving
  <2>6. Resolving(t)'
    BY <2>1, <2>2, <2>3, <2>4, <2>5 DEF Resolving, Constructing, Inside
  <2> QED BY <2>1, <2>2, <2>6, ResolvesStep
<1>5. ASSUME NEW t \in Thread,
             \/ Inst(t) \/ Construct(t) \/ DebugInitialize(t) \/ Constructed(t) \/ DebugRemove(t)
      PROVE  ResolvesEnough'
  <2>1. UNCHANGED << preinit, call >> /\ resolved \subseteq resolved'
    BY <1>5 DEF Inst, Construct, DebugInitialize, Constructed, DebugRemove, startVars
  <2>2. at[t] \in Beyond
    BY <1>5
       DEF Inst, Construct, DebugInitialize, Constructed, DebugRemove, Beyond, Constructing, Inside
  <2>3. \E l \in Beyond : Go(t, l)
    BY <1>5
       DEF Inst, Construct, DebugInitialize, Constructed, DebugRemove, Beyond, Constructing, Inside
  <2> QED BY <2>1, <2>2, <2>3, ResolvesStep
<1>6. ASSUME NEW t \in Thread, NEW c, NEW r, UNCHANGED << resolved, preinit >>, Returns(t, c, r)
      PROVE  ResolvesEnough'
  <2>1. call'[t] = NoCall /\ (\A u \in Thread \ {t} : call'[u] = call[u]) /\ Go(t, "program")
    BY <1>6, CallDoes DEF Returns
  <2> QED BY <1>6, <2>1, ResolvesStep
<1>7. ASSUME NEW t \in Thread, NEW l \in Beyond, NEW d, Go(t, l), at[t] \in Beyond,
             UNCHANGED << resolved, preinit >>, call' = [call EXCEPT ![t] = d], d.fn = call[t].fn
      PROVE  ResolvesEnough'
  <2>1. call'[t].fn = call[t].fn /\ \A u \in Thread \ {t} : call'[u] = call[u]
    BY <1>7, CallDoes
  <2> QED BY <1>7, <2>1, ResolvesStep
<1>8. ASSUME NEW t \in Thread, Direct(t) \/ DebugTrack(t) \/ IsDmaBufInsert(t) PROVE ResolvesEnough'
  <2>1. (\E r : Returns(t, call[t], r)) /\ UNCHANGED << resolved, preinit >>
    BY <1>8 DEF Direct, DebugTrack, IsDmaBufInsert, startVars
  <2> QED BY <2>1, <1>6
<1>9. ASSUME NEW t \in Thread, DebugSys(t) PROVE ResolvesEnough'
  <2>1. PICK r : call' = [call EXCEPT ![t] = Put(@, "r", r)]
    BY <1>9 DEF DebugSys
  <2>2. PICK d : d = Put(call[t], "r", r)
    OBVIOUS
  <2>3. /\ UNCHANGED << resolved, preinit >> /\ Go(t, "track") /\ at[t] \in Beyond /\ "track" \in Beyond
    BY <1>9 DEF DebugSys, startVars, Beyond, Inside
  <2>4. d.fn = call[t].fn
    BY <2>2, IsCallStays DEF TypeOK
  <2>5. call' = [call EXCEPT ![t] = d]
    BY <2>1, <2>2
  <2> QED BY <2>3, <2>4, <2>5, <1>7
<1>10. ASSUME NEW t \in Thread, IsDmaBufRead(t) PROVE ResolvesEnough'
  <2>1. UNCHANGED << resolved, preinit >> /\ at[t] \in Beyond /\ "insert" \in Beyond
    BY <1>10 DEF IsDmaBufRead, startVars, Beyond, Inside
  <2>2. CASE Returns(t, call[t], call[t].r)
    BY <2>1, <2>2, <1>6
  <2>3. ASSUME NEW i, NEW fd, Go(t, "insert"),
               call' = [call EXCEPT ![t] = Put(Put(@, "inode", i), "dma", fd)]
        PROVE  ResolvesEnough'
    <3>1. PICK b : b = Put(call[t], "inode", i)
      OBVIOUS
    <3>2. PICK d : d = Put(b, "dma", fd)
      OBVIOUS
    <3>3. IsCall(b) /\ b.fn = call[t].fn
      BY <3>1, IsCallStays DEF TypeOK
    <3>4. d.fn = call[t].fn
      BY <3>2, <3>3, IsCallStays
    <3>5. call' = [call EXCEPT ![t] = d]
      BY <2>3, <3>1, <3>2
    <3> QED BY <2>1, <2>3, <3>4, <3>5, <1>7
  <2> QED BY <1>10, <2>2, <2>3 DEF IsDmaBufRead
<1> QED
  BY <1>1, <1>2, <1>3, <1>4, <1>5, <1>8, <1>9, <1>10 DEF Next, ThreadStep

----------------------------------------------------------------------------
(* The invariant holds.                                                    *)
LEMMA ConfigNext ==
  ASSUME ConfigRead, [Next]_vars
  PROVE  ConfigRead'
<1>1. env' = env
  BY
     DEF Next, ThreadStep, ProgramCall, ProgramOpens, MarkInitDone, Hook, Inst, Construct,
         DebugInitialize,
         Constructed, Direct, DebugRemove, DebugSys, DebugTrack, IsDmaBufRead, IsDmaBufInsert, vars, startVars
<1>2. config' \in {config, ConfigInit(env)}
  BY
     DEF Next, ThreadStep, ProgramCall, ProgramOpens, MarkInitDone, Hook, Inst, Construct,
         DebugInitialize,
         Constructed, Direct, DebugRemove, DebugSys, DebugTrack, IsDmaBufRead, IsDmaBufInsert, vars, startVars
<1> QED BY <1>1, <1>2 DEF ConfigRead

LEMMA OwnNext ==
  ASSUME TypeOK, OneConstructs, ResolvesEnough, OwnInv, [Next]_vars
  PROVE  OwnInv'
<1>1. CASE MarkInitDone \/ UNCHANGED vars
  <2>1. UNCHANGED << at, call, tracked, owed, fds, maps, blocks, mine >>
    BY <1>1 DEF MarkInitDone, vars, dmaVars, sysVars
  <2> QED BY <2>1, OwnStands
<1>2. ASSUME NEW t \in Thread, ThreadStep(t) PROVE OwnInv'
  BY <1>2, OwnStartUp, OwnDirect, OwnRemove, OwnSys, OwnTrack, OwnRead, OwnInsert DEF ThreadStep
<1> QED BY <1>1, <1>2, OwnProgramCall, OwnProgramOpens DEF Next

LEMMA HookInit == Init => HookInv
<1> SUFFICES ASSUME Init PROVE HookInv
  OBVIOUS
<1>1. \A t \in Thread : at[t] = "program" /\ call[t] = NoCall
  BY DEF Init
<1>2. TypeOK
  <2>1. \A t \in Thread : IsCall(call[t]) /\ call[t].fn = "none"
    BY <1>1, NoCallIs
  <2>2. at \in [Thread -> Places] /\ DOMAIN call = Thread
    BY DEF Init, Places
  <2>3. gpu_ioctl_alloc \in [Thread -> BOOLEAN] /\ requests \in [Thread -> Nat] /\ grants \in [Thread -> Nat]
    BY DEF Init
  <2>4. blocks \subseteq Addr /\ DOMAIN maps \subseteq Addr /\ DOMAIN fds \subseteq Fd
    BY DEF Init
  <2> QED BY <1>1, <2>1, <2>2, <2>3, <2>4 DEF TypeOK
<1>3. OneConstructs
  BY <1>1 DEF Init, OneConstructs, Constructing, Inside
<1>4. ResolvesEnough
  BY <1>1 DEF Init, ResolvesEnough, Resolving, NoCall, Constructing, Inside
<1>5. ConfigRead
  BY DEF Init, ConfigRead
<1>6. OwnInv
  <2>1. \A t \in Thread : Owns(t) = {}
    BY <1>1, NoCallIs DEF Owns
  <2>2. OneOwner
    BY <2>1 DEF OneOwner, Init, Exists
  <2>3. \A t \in Thread : CallHas(t)
    BY <1>1, NoCallIs DEF CallHas
  <2>4. OwedTracked /\ EntriesExist
    BY DEF Init, OwedTracked, EntriesExist
  <2> QED BY <2>2, <2>3, <2>4 DEF OwnInv
<1> QED BY <1>2, <1>3, <1>4, <1>5, <1>6 DEF HookInv

(* The invariant of the interposed functions: one thread constructs the    *)
(* hook, what a call needs is resolved before it gets there, and every     *)
(* block, mapping and fd has one owner that the tracker's entry follows.   *)
THEOREM HookInvariant == Spec => []HookInv
<1>1. HookInv /\ [Next]_vars => HookInv'
  BY TypeStep, ConstructsNext, ResolvesNext, ConfigNext, OwnNext DEF HookInv
<1> QED BY HookInit, <1>1, PTL DEF Spec

----------------------------------------------------------------------------
(* What it says.                                                           *)
(* No pointer of the system's functions is called while it is null, and no *)
(* debug_ function runs before g_debug is there, for any number of threads *)
(* that start the process up together.                                     *)
THEOREM StartUpResolves == Spec => []ResolvedBeforeUse
<1>1. HookInv => ResolvedBeforeUse
  <2> SUFFICES ASSUME HookInv, NEW t \in Thread
               PROVE  /\ Uses(t) \subseteq resolved
                      /\ at[t] \in {"body", "sys", "track", "insert"} => config # NoDebug
    BY DEF ResolvedBeforeUse
  <2>1. PICK c : c = call[t]
    OBVIOUS
  <2>2. /\ at[t] \notin {"program", "hook"} => Resolves(c.fn) \subseteq resolved
        /\ preinit => c.fn \in {"none", "malloc", "free", "mmap"}
        /\ at[t] = "direct" => ChecksSetup(c.fn)
        /\ at[t] \in Inside /\ c.fn \in MapFns => ~ preinit
        /\ ~ preinit => {"malloc", "free"} \subseteq resolved
    BY <2>1 DEF HookInv, ResolvesEnough, Resolving
  <2>3. at[t] = "direct" => {c.fn} \ MapFns \subseteq resolved
    BY <2>2 DEF ChecksSetup, Resolves, Heap
  <2>4. at[t] \in {"body", "sys"} /\ c.fn = "posix_memalign" => "memalign" \in resolved
    BY <2>2 DEF Resolves
  <2>5. at[t] \in {"body", "sys"} /\ c.fn = "realloc" => {"malloc", "free"} \subseteq resolved
    BY <2>2
  <2>6. at[t] \in {"body", "sys"} /\ c.fn \in Heap \cup {"free", "realloc"} => c.fn \in resolved
    BY <2>2 DEF Resolves, Heap
  <2>7. at[t] = "track" /\ AsksAbout(c) # {} => "free" \in resolved
    BY <2>2 DEF AsksAbout, Inside, MapFns
  <2>8. Uses(t) \subseteq resolved
    <3>1. CASE at[t] = "direct"
      BY <2>1, <2>3, <3>1 DEF Uses
    <3>2. CASE at[t] \in {"body", "sys"}
      <4>1. Uses(t) = DebugUses(c)
        BY <2>1, <3>2 DEF Uses
      <4>2. DebugUses(c) \subseteq resolved
        BY <2>4, <2>5, <2>6, <3>2 DEF DebugUses, Heap
      <4> QED BY <4>1, <4>2
    <3>3. CASE at[t] \notin {"direct", "body", "sys"}
      <4>1. Uses(t) = {} \/ (at[t] = "track" /\ AsksAbout(c) # {} /\ Uses(t) = {"free"})
        BY <2>1, <3>3 DEF Uses
      <4> QED BY <2>7, <4>1
    <3> QED BY <3>1, <3>2, <3>3
  <2>9. at[t] \in {"body", "sys", "track", "insert"} => config # NoDebug
    BY DEF HookInv, OneConstructs, Inside
  <2> QED BY <2>8, <2>9
<1> QED BY <1>1, HookInvariant, PTL

(* Every entry of the tracker stands for a block, a mapping or a dma-buf   *)
(* that exists, whatever bypassed the hooks, whoever got an fd number back *)
(* and however munmap ended.                                               *)
THEOREM EntriesAlwaysExist == Spec => []EntriesExist
<1>1. HookInv => EntriesExist
  BY DEF HookInv, OwnInv
<1> QED BY <1>1, HookInvariant, PTL

(* A dma-buf that was the first with its inode number is tracked until its *)
(* fd is closed.                                                           *)
THEOREM FirstBufsAlwaysTracked == Spec => []FirstBufsTracked
<1>1. HookInv => FirstBufsTracked
  BY DEF HookInv, OwnInv, OwedTracked, FirstBufsTracked
<1> QED BY <1>1, HookInvariant, PTL

(* A mapping counts as GPU memory at most once for each GPU allocation the *)
(* same thread asked for.                                                  *)
THEOREM OneMapping == Spec => []OneMappingPerRequest
<1>1. Init => OneMappingPerRequest
  BY DEF Init, OneMappingPerRequest
<1>2. TypeOK /\ OneMappingPerRequest /\ [Next]_vars => OneMappingPerRequest'
  <2> SUFFICES ASSUME TypeOK, OneMappingPerRequest, [Next]_vars, NEW u \in Thread
               PROVE  (grants[u] + (IF gpu_ioctl_alloc[u] THEN 1 ELSE 0) <= requests[u])'
    BY DEF OneMappingPerRequest
  <2>1. /\ gpu_ioctl_alloc \in [Thread -> BOOLEAN]
        /\ requests[u] \in Nat /\ grants[u] \in Nat
        /\ requests \in [Thread -> Nat] /\ grants \in [Thread -> Nat]
        /\ grants[u] + (IF gpu_ioctl_alloc[u] THEN 1 ELSE 0) <= requests[u]
    BY DEF TypeOK, OneMappingPerRequest
  <2>2. CASE UNCHANGED << gpu_ioctl_alloc, requests, grants >>
    BY <2>1, <2>2
  <2>3. ASSUME NEW t \in Thread, DebugTrack(t)
        PROVE  (grants[u] + (IF gpu_ioctl_alloc[u] THEN 1 ELSE 0) <= requests[u])'
    <3>1. CASE /\ gpu_ioctl_alloc' = [gpu_ioctl_alloc EXCEPT ![t] = TRUE]
               /\ requests' = [requests EXCEPT ![t] = @ + 1] /\ UNCHANGED grants
      <4>1. CASE u = t
        BY <2>1, <3>1, <4>1
      <4>2. CASE u # t
        BY <2>1, <3>1, <4>2
      <4> QED BY <4>1, <4>2
    <3>2. CASE /\ gpu_ioctl_alloc[t] /\ gpu_ioctl_alloc' = [gpu_ioctl_alloc EXCEPT ![t] = FALSE]
               /\ grants' = [grants EXCEPT ![t] = @ + 1] /\ UNCHANGED requests
      <4>1. CASE u = t
        BY <2>1, <3>2, <4>1
      <4>2. CASE u # t
        BY <2>1, <3>2, <4>2
      <4> QED BY <4>1, <4>2
    <3> QED BY <2>2, <2>3, <3>1, <3>2 DEF DebugTrack, Mmap64Adds
  <2>4. (\E t \in Thread : DebugTrack(t)) \/ UNCHANGED << gpu_ioctl_alloc, requests, grants >>
    BY
       DEF Next, ThreadStep, ProgramCall, ProgramOpens, MarkInitDone, Hook, Inst, Construct,
           DebugInitialize,
           Constructed, Direct, DebugRemove, DebugSys, IsDmaBufRead, IsDmaBufInsert, vars, dmaVars
  <2> QED BY <2>2, <2>3, <2>4
<1>3. HookInv => TypeOK
  BY DEF HookInv
<1> QED BY <1>1, <1>2, <1>3, HookInvariant, PTL DEF Spec
=============================================================================
