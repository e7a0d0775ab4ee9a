--------------------------- MODULE Tracker_proofs ---------------------------
(***************************************************************************)
(* Proofs about what the tracker promises: its counters and the references *)
(* on each backtrace are those of the entries; and PointerData, alone and  *)
(* under the debug_ functions, implements AllocTracker.                    *)
(***************************************************************************)
EXTENDS MallocDebug_proofs, Sums_proofs

----------------------------------------------------------------------------
(* Bytes tracked, of a map like pointers_.                                 *)
OfType(m, type) == { k \in DOMAIN m : (m[k].mem_type = "DMA") = (type = "DMA") }
BytesOf(m, type) == SizeSum(m, OfType(m, type))
PartOf(e, type) == IF type = "DMA" THEN DmaPart(e.size, e.mem_type) ELSE HostPart(e.size, e.mem_type)

IsMap(m) == /\ IsFiniteSet(DOMAIN m) /\ m \in [DOMAIN m -> PointerInfoType]

LEMMA TrackedIs ==
  ASSUME NEW type
  PROVE  /\ TrackedBytes(type) = BytesOf(pointers_, type)
         /\ TrackedBytes(type)' = BytesOf(pointers_', type)
BY DEF TrackedBytes, Tracked, BytesOf, OfType, SizeSum, MapThenSumSet, MapThenFoldSet

LEMMA MapOk == TypeOK => IsMap(pointers_)
<1>1. IsFiniteSet(0 .. UINTPTR_MAX)
  BY FS_Interval, PointerAssumption
<1> QED BY <1>1, FS_Subset DEF IsMap, TypeOK

LEMMA OfTypeOk ==
  ASSUME NEW m, IsMap(m), NEW type
  PROVE  IsFiniteSet(OfType(m, type)) /\ Sized(m, OfType(m, type)) /\ BytesOf(m, type) \in Nat
<1>1. IsFiniteSet(OfType(m, type))
  BY FS_Subset DEF IsMap, OfType
<1>2. Sized(m, OfType(m, type))
  BY DEF IsMap, OfType, Sized, PointerInfoType
<1> QED BY <1>1, <1>2, SizeSumType DEF BytesOf

LEMMA BytesErase ==
  ASSUME NEW m, IsMap(m), NEW k \in DOMAIN m, NEW type \in {"HOST", "DMA"}
  PROVE  /\ IsMap(Erase(m, k))
         /\ BytesOf(m, type) = BytesOf(Erase(m, k), type) + PartOf(m[k], type)
<1>1. PICK n : n = Erase(m, k)
  OBVIOUS
<1>2. DOMAIN n = DOMAIN m \ {k} /\ \A x \in DOMAIN n : n[x] = m[x]
  BY <1>1 DEF Erase
<1>3. IsMap(n)
  BY <1>1, <1>2, FS_Subset DEF IsMap, Erase
<1>4. OfType(n, type) = OfType(m, type) \ {k}
  BY <1>2 DEF OfType
<1>5. BytesOf(n, type) = SizeSum(m, OfType(m, type) \ {k})
  <2>1. \A x \in OfType(n, type) : n[x].size = m[x].size
    BY <1>2 DEF OfType
  <2>2. SizeSum(n, OfType(n, type)) = SizeSum(m, OfType(n, type))
    BY <1>3, <2>1, OfTypeOk, SizeSumSame
  <2> QED BY <1>4, <2>2 DEF BytesOf
<1>6. m[k].size \in Nat /\ BytesOf(m, type) \in Nat /\ BytesOf(n, type) \in Nat
  BY <1>3, OfTypeOk DEF IsMap, PointerInfoType
<1>7. CASE k \in OfType(m, type)
  <2>1. BytesOf(m, type) = m[k].size + BytesOf(n, type)
    BY <1>5, <1>7, OfTypeOk, SizeSumRemove DEF BytesOf
  <2>2. PartOf(m[k], type) = m[k].size
    BY <1>7 DEF PartOf, OfType, HostPart, DmaPart
  <2> QED BY <1>1, <1>3, <1>6, <2>1, <2>2
<1>8. CASE k \notin OfType(m, type)
  <2>1. OfType(m, type) \ {k} = OfType(m, type)
    BY <1>8
  <2>2. BytesOf(m, type) = BytesOf(n, type)
    BY <1>5, <2>1 DEF BytesOf
  <2>3. PartOf(m[k], type) = 0
    BY <1>8 DEF PartOf, OfType, HostPart, DmaPart
  <2> QED BY <1>1, <1>3, <1>6, <2>2, <2>3
<1> QED BY <1>7, <1>8

LEMMA BytesPut ==
  ASSUME NEW m, IsMap(m), NEW k, NEW e \in PointerInfoType, NEW type \in {"HOST", "DMA"}
  PROVE  /\ IsMap(Put(m, k, e))
         /\ k \notin DOMAIN m => BytesOf(Put(m, k, e), type) = BytesOf(m, type) + PartOf(e, type)
         /\ BytesOf(Put(m, k, e), type) <= BytesOf(m, type) + PartOf(e, type)
<1>1. PICK n : n = Put(m, k, e)
  OBVIOUS
<1>2. /\ DOMAIN n = DOMAIN m \cup {k} /\ n[k] = e /\ \A x \in DOMAIN m : x # k => n[x] = m[x]
  BY <1>1 DEF Put
<1>3. IsMap(n)
  <2>1. IsFiniteSet(DOMAIN n)
    BY <1>2, FS_AddElement DEF IsMap
  <2>2. n \in [DOMAIN n -> PointerInfoType]
    BY <1>1, <1>2 DEF IsMap, Put
  <2> QED BY <2>1, <2>2 DEF IsMap
<1>4. BytesOf(n, type) = BytesOf(Erase(n, k), type) + PartOf(e, type)
  BY <1>2, <1>3, BytesErase
<1>5. Erase(n, k) = Erase(m, k)
  BY <1>2 DEF Erase
<1>6. PartOf(e, type) \in Nat
  BY DEF PartOf, HostPart, DmaPart, PointerInfoType
<1>7. CASE k \notin DOMAIN m
  <2>1. Erase(m, k) = m
    BY <1>7 DEF Erase, IsMap
  <2> QED BY <1>1, <1>3, <1>4, <1>5, <1>6, <1>7, <2>1, OfTypeOk
<1>8. CASE k \in DOMAIN m
  <2>1. IsMap(Erase(m, k)) /\ BytesOf(m, type) = BytesOf(Erase(m, k), type) + PartOf(m[k], type)
    BY <1>8, BytesErase
  <2>2. PartOf(m[k], type) \in Nat
    BY <1>8 DEF PartOf, HostPart, DmaPart, PointerInfoType, IsMap
  <2>3. BytesOf(m, type) \in Nat /\ BytesOf(Erase(m, k), type) \in Nat
    BY <2>1, OfTypeOk
  <2> QED BY <1>1, <1>3, <1>4, <1>5, <1>6, <1>8, <2>1, <2>2, <2>3
<1> QED BY <1>7, <1>8

----------------------------------------------------------------------------
(* The counters.                                                           *)
LEMMA PointersKept ==
  ASSUME NEW c \in Caller, AnyCall(c) \/ Step(c), ~ AddPointer(c), ~ RemovePointer(c)
  PROVE  UNCHANGED pointers_
<1> USE DEF dataVars, mapVars
<1>1. CASE AnyCall(c)
  BY <1>1 DEF AnyCall, CallAdd, CallRemove, CallDump, CallPeakInfo
<1>2. CASE AddStep(c)
  BY <1>2 DEF AddStep, UnwindOk, NoBacktrace, UnwindExit, AddBacktrace, RecordPeakList,
              LockFrames, LockPointers
<1>3. CASE RemoveStep(c)
  BY <1>3 DEF RemoveStep, RemoveUntracked, RemoveBacktrace, LockFrames, LockPointers
<1>4. CASE DumpStep(c)
  BY <1>4 DEF DumpStep, CollectList, PrintList, DumpPeakInfo, LockFrames, LockPointers
<1> QED BY <1>1, <1>2, <1>3, <1>4 DEF Step

(* What Add and Remove do to the map and to the counters.                  *)
LEMMA AddPointerBytes ==
  ASSUME TypeOK, NEW c \in Caller, AddPointer(c)
  PROVE  \E k \in 0 .. UINTPTR_MAX, e \in PointerInfoType :
           /\ k = ManglePointer(arg[c].ptr) /\ pointers_' = Put(pointers_, k, e)
           /\ PartOf(e, "HOST") \in Nat /\ PartOf(e, "DMA") \in Nat
           /\ current_used_' = current_used_ + PartOf(e, "HOST") + PartOf(e, "DMA")
           /\ current_host_' = current_host_ + PartOf(e, "HOST")
           /\ current_dma_' = current_dma_ + PartOf(e, "DMA")
<1>1. PICK e : e = [size |-> arg[c].size, hash_index |-> hash_index[c], mem_type |-> arg[c].type]
  OBVIOUS
<1>2. e \in PointerInfoType /\ e.size = arg[c].size /\ e.mem_type = arg[c].type
  BY <1>1 DEF TypeOK, ArgType, PointerInfoType
<1>3. /\ pointers_' = Put(pointers_, ManglePointer(arg[c].ptr), e)
      /\ current_used_' = current_used_ + e.size
      /\ current_host_' = current_host_ + HostPart(e.size, e.mem_type)
      /\ current_dma_' = current_dma_ + DmaPart(e.size, e.mem_type)
  BY <1>1, <1>2 DEF AddPointer
<1>4. e.size \in Nat /\ current_used_ \in Int
  BY <1>2 DEF TypeOK, PointerInfoType
<1>5. /\ PartOf(e, "HOST") \in Nat /\ PartOf(e, "DMA") \in Nat
      /\ current_used_' = current_used_ + PartOf(e, "HOST") + PartOf(e, "DMA")
      /\ current_host_' = current_host_ + PartOf(e, "HOST")
      /\ current_dma_' = current_dma_ + PartOf(e, "DMA")
  BY <1>3, <1>4 DEF PartOf, HostPart, DmaPart
<1>6. ManglePointer(arg[c].ptr) \in 0 .. UINTPTR_MAX
  BY Mangling DEF TypeOK, ArgType
<1> QED BY <1>2, <1>3, <1>5, <1>6

LEMMA RemovePointerBytes ==
  ASSUME TypeOK, NEW c \in Caller, RemovePointer(c)
  PROVE  \E k \in DOMAIN pointers_ :
           /\ k = ManglePointer(arg[c].ptr) /\ pointers_' = Erase(pointers_, k)
           /\ PartOf(pointers_[k], "HOST") \in Nat /\ PartOf(pointers_[k], "DMA") \in Nat
           /\ current_used_' = current_used_ - PartOf(pointers_[k], "HOST") - PartOf(pointers_[k], "DMA")
           /\ current_host_' = current_host_ - PartOf(pointers_[k], "HOST")
           /\ current_dma_' = current_dma_ - PartOf(pointers_[k], "DMA")
<1>1. PICK k : k = ManglePointer(arg[c].ptr)
  OBVIOUS
<1>2. k \in DOMAIN pointers_ /\ pointers_[k].size \in Nat /\ current_used_ \in Int
  BY <1>1 DEF RemovePointer, TypeOK, PointerInfoType
<1>3. /\ pointers_' = Erase(pointers_, k)
      /\ current_used_' = current_used_ - pointers_[k].size
      /\ current_host_' = current_host_ - HostPart(pointers_[k].size, pointers_[k].mem_type)
      /\ current_dma_' = current_dma_ - DmaPart(pointers_[k].size, pointers_[k].mem_type)
  BY <1>1 DEF RemovePointer
<1>4. /\ PartOf(pointers_[k], "HOST") \in Nat /\ PartOf(pointers_[k], "DMA") \in Nat
      /\ current_used_' = current_used_ - PartOf(pointers_[k], "HOST") - PartOf(pointers_[k], "DMA")
      /\ current_host_' = current_host_ - PartOf(pointers_[k], "HOST")
      /\ current_dma_' = current_dma_ - PartOf(pointers_[k], "DMA")
  BY <1>2, <1>3 DEF PartOf, HostPart, DmaPart
<1> QED BY <1>1, <1>2, <1>3, <1>4

LEMMA CoverIs ==
  /\ CountersCover <=> /\ current_used_ = current_host_ + current_dma_
                       /\ current_host_ >= BytesOf(pointers_, "HOST")
                       /\ current_dma_ >= BytesOf(pointers_, "DMA")
  /\ CountersCover' <=> /\ current_used_' = current_host_' + current_dma_'
                        /\ current_host_' >= BytesOf(pointers_', "HOST")
                        /\ current_dma_' >= BytesOf(pointers_', "DMA")
BY TrackedIs DEF CountersCover

LEMMA NextCover == TypeOK /\ CountersCover /\ [AnyNext]_vars => CountersCover'
<1> SUFFICES ASSUME TypeOK, CountersCover, [AnyNext]_vars PROVE CountersCover'
  OBVIOUS
<1>0. /\ IsMap(pointers_) /\ BytesOf(pointers_, "HOST") \in Nat /\ BytesOf(pointers_, "DMA") \in Nat
      /\ current_used_ \in Int /\ current_host_ \in Int /\ current_dma_ \in Int
  BY MapOk, OfTypeOk DEF TypeOK
<1>1. CASE UNCHANGED counterVars /\ UNCHANGED pointers_
  BY <1>1, CoverIs DEF counterVars, currentVars
<1>2. ASSUME NEW c \in Caller, AddPointer(c) PROVE CountersCover'
  <2>1. PICK k \in 0 .. UINTPTR_MAX, e \in PointerInfoType :
           /\ pointers_' = Put(pointers_, k, e)
           /\ PartOf(e, "HOST") \in Nat /\ PartOf(e, "DMA") \in Nat
           /\ current_used_' = current_used_ + PartOf(e, "HOST") + PartOf(e, "DMA")
           /\ current_host_' = current_host_ + PartOf(e, "HOST")
           /\ current_dma_' = current_dma_ + PartOf(e, "DMA")
    BY <1>2, AddPointerBytes
  <2>2. /\ IsMap(pointers_')
        /\ BytesOf(pointers_', "HOST") <= BytesOf(pointers_, "HOST") + PartOf(e, "HOST")
        /\ BytesOf(pointers_', "DMA") <= BytesOf(pointers_, "DMA") + PartOf(e, "DMA")
    BY <1>0, <2>1, BytesPut
  <2>3. BytesOf(pointers_', "HOST") \in Nat /\ BytesOf(pointers_', "DMA") \in Nat
    BY <2>2, OfTypeOk
  <2> QED BY <1>0, <2>1, <2>2, <2>3, CoverIs
<1>3. ASSUME NEW c \in Caller, RemovePointer(c) PROVE CountersCover'
  <2>1. PICK k \in DOMAIN pointers_ :
           /\ pointers_' = Erase(pointers_, k)
           /\ PartOf(pointers_[k], "HOST") \in Nat /\ PartOf(pointers_[k], "DMA") \in Nat
           /\ current_used_' = current_used_ - PartOf(pointers_[k], "HOST") - PartOf(pointers_[k], "DMA")
           /\ current_host_' = current_host_ - PartOf(pointers_[k], "HOST")
           /\ current_dma_' = current_dma_ - PartOf(pointers_[k], "DMA")
    BY <1>3, RemovePointerBytes
  <2>2. /\ IsMap(pointers_')
        /\ BytesOf(pointers_, "HOST") = BytesOf(pointers_', "HOST") + PartOf(pointers_[k], "HOST")
        /\ BytesOf(pointers_, "DMA") = BytesOf(pointers_', "DMA") + PartOf(pointers_[k], "DMA")
    BY <1>0, <2>1, BytesErase
  <2>3. BytesOf(pointers_', "HOST") \in Nat /\ BytesOf(pointers_', "DMA") \in Nat
    BY <2>2, OfTypeOk
  <2> QED BY <1>0, <2>1, <2>2, <2>3, CoverIs
<1>4. CASE AnyNext
  BY <1>1, <1>2, <1>3, <1>4, CountersKept, PointersKept DEF AnyNext
<1>5. CASE UNCHANGED vars
  BY <1>1, <1>5 DEF vars, dataVars, mapVars
<1> QED BY <1>4, <1>5

LEMMA NothingCounted ==
  ASSUME Init
  PROVE  /\ BytesOf(pointers_, "HOST") = 0 /\ BytesOf(pointers_, "DMA") = 0
         /\ current_used_ = 0 /\ current_host_ = 0 /\ current_dma_ = 0
<1>1. DOMAIN pointers_ = {}
  BY DEF Init
<1>2. OfType(pointers_, "HOST") = {} /\ OfType(pointers_, "DMA") = {}
  BY <1>1 DEF OfType
<1> QED BY <1>2, SizeSumEmpty DEF BytesOf, Init

(* The counters cover what is tracked, in PointerData alone and inside the *)
(* library: current_used_ -= size never wraps, whatever the order of Add   *)
(* and Remove, also when an address is added that already has an entry.    *)
THEOREM CountersAlwaysCover ==
  /\ Spec => []CountersCover
  /\ MDSpec => []CountersCover
<1>1. Init => CountersCover
  BY NothingCounted, CoverIs
<1>2. Spec => []CountersCover
  BY <1>1, NextCover, Typing, NextIsAny, PTL DEF Spec
<1>3. MDSpec => []CountersCover
  <2>1. MDInit => CountersCover
    BY <1>1 DEF MDInit
  <2>2. MDTypeOK /\ IInv /\ CountersCover /\ [MDNext]_allVars => CountersCover'
    BY NextCover, MDNextType DEF IInv
  <2> QED BY <2>1, <2>2, TrackerInLibrary, PTL DEF MDSpec
<1> QED BY <1>2, <1>3

----------------------------------------------------------------------------
(* Add is never told of an address that has an entry.                      *)
LEMMA FreeUntracked ==
  ASSUME TracksOwned, NEW p \in Address \ DOMAIN heap
  PROVE  ManglePointer(p) \notin DOMAIN pointers_
<1>1. DemanglePointer(ManglePointer(p)) = p /\ p \notin {NULL, MAP_FAILED}
  BY Mangling, AddressRange
<1> QED BY <1>1 DEF TracksOwned, EntryMatches, Matches

LEMMA TrackerNewEntries ==
  ASSUME TypeOK, OwnInv, OnlyBlocks, NewEntries, NEW c \in Caller, Step(c)
  PROVE  NewEntries'
<1>0. OnlyPc(c)
  BY StepLocal DEF OnlyPc
<1>1. CASE Continues(c)
  BY <1>0, <1>1 DEF Continues, OnlyPc, NewEntries
<1>2. CASE Forgets(c)
  BY <1>0, <1>2 DEF Forgets, Erase, OnlyPc, NewEntries
<1>3. CASE Records(c)
  <2>1. /\ pc[c] \in Adding /\ pc'[c] \notin Adding
        /\ DOMAIN pointers_' = DOMAIN pointers_ \cup {ManglePointer(arg[c].ptr)}
    BY <1>3 DEF Records, Put
  <2>2. \A d \in Caller : pc[d] \in Adding => arg[d].ptr \in Address /\ arg[d].ptr \in Has(d)
    BY DEF OwnInv, TracksOwned, CallTracks, OnlyBlocks, Has
  <2>3. \A d \in Caller : d # c /\ pc[d] \in Adding => arg[d].ptr # arg[c].ptr
    BY <2>1, <2>2 DEF OwnInv, Owned
  <2>4. ASSUME NEW d \in Caller, d # c, pc[d] \in Adding
        PROVE  ManglePointer(arg[d].ptr) # ManglePointer(arg[c].ptr)
    <3>1. arg[d].ptr \in 0 .. UINTPTR_MAX /\ arg[c].ptr \in 0 .. UINTPTR_MAX
      BY DEF TypeOK, ArgType
    <3> QED BY <2>3, <2>4, <3>1, Mangling
  <2> QED BY <1>0, <2>1, <2>4 DEF OnlyPc, NewEntries
<1> QED BY <1>1, <1>2, <1>3, StepKinds

LEMMA NextNewEntries ==
  ASSUME AllocationsSucceed, TypeOK, MDTypeOK, OwnInv, OnlyBlocks, NewEntries, [MDNext]_allVars
  PROVE  NewEntries'
<1>1. CASE UNCHANGED << pointers_, pc, arg >>
  BY <1>1 DEF NewEntries
<1>u. UNCHANGED vars => UNCHANGED << pointers_, pc, arg >>
  BY DEF vars, dataVars, mapVars, callerVars
<1>f. ASSUME NEW c \in Caller, OnlyPc(c), UNCHANGED pointers_,
             pc'[c] \in Adding => ManglePointer(arg'[c].ptr) \notin DOMAIN pointers_
      PROVE  NewEntries'
  BY <1>f DEF NewEntries, OnlyPc
<1>2. ASSUME NEW c \in Caller, LibraryStep(c) \/ ProgramCall(c) \/ ProgramExits(c)
      PROVE  NewEntries'
  <2>1. CASE TrackerStep(c)
    BY <2>1, TrackerNewEntries DEF TrackerStep
  <2>2. CASE \/ AllocBody(c) \/ MmapBody(c) \/ TooLargeBody(c) \/ RemoveBody(c)
             \/ SystemFree(c) \/ SystemRealloc(c) \/ DumpBody(c)
    <3>1. /\ OnlyPc(c) /\ UNCHANGED pointers_ /\ pc[c] = "idle" /\ pc[c] \notin Adding \cup Removing
          /\ \/ GetsBlock(c) \/ AddsFailure(c) \/ GetsNothing(c) \/ StartsRemove(c)
             \/ GivesBack(c) \/ Reallocates(c) \/ Dumps(c)
      BY <2>2, BodyEffects DEF Adding, Removing
    <3>2. CASE GetsBlock(c) \/ Reallocates(c)
      <4>1. Adds(c) /\ ManglePointer(call'[c].result) \notin DOMAIN pointers_
        <5>1. CASE GetsBlock(c)
          BY <5>1, FreeUntracked DEF GetsBlock, OwnInv
        <5>2. CASE Reallocates(c)
          <6>1. at[c] = "system" => ManglePointer(call[c].ptr) \notin DOMAIN pointers_
            BY <3>1 DEF OwnInv, TracksOwned, CallTracks
          <6> QED BY <5>2, <6>1, FreeUntracked DEF Reallocates, OwnInv
        <5> QED BY <3>2, <5>1, <5>2
      <4>2. pc'[c] \in Adding => ManglePointer(arg'[c].ptr) \notin DOMAIN pointers_
        BY <3>1, <4>1 DEF Adds
      <4> QED BY <1>f, <3>1, <4>2
    <3>3. ~ AddsFailure(c)
      BY DEF AddsFailure, AllocationsSucceed
    <3>4. CASE GetsNothing(c) \/ StartsRemove(c) \/ GivesBack(c) \/ Dumps(c)
      <4>1. pc'[c] \notin Adding
        BY <3>1, <3>4 DEF GetsNothing, StartsRemove, GivesBack, Dumps, Adding, Removing
      <4> QED BY <1>f, <3>1, <4>1
    <3> QED BY <3>1, <3>2, <3>3, <3>4
  <2>3. CASE FinInfo(c)
    BY <1>f, <2>3, MovesOnEffects
  <2>4. CASE \/ RdLock(c) \/ Disable(c) \/ Enable(c) \/ Unlock(c) \/ WrLock(c) \/ FinDisable(c)
             \/ ProgramCall(c) \/ ProgramExits(c)
    BY <1>1, <1>u, <2>4, ScopeMoves
  <2>5. CASE WrWait(c)
    BY <1>1, <1>u, <2>5 DEF WrWait
  <2> QED BY <1>2, <2>1, <2>2, <2>3, <2>4, <2>5 DEF LibraryStep
<1>3. ASSUME NEW t \in Thread, Deliver(t) \/ HandlerStep(t)
      PROVE  NewEntries'
  BY <1>1, <1>3, <1>u, HandlerEffects
<1> QED BY <1>1, <1>2, <1>3, <1>u, MDStuttering DEF MDNext, Arrival

----------------------------------------------------------------------------
(* The counters to the byte, when every Add makes a new entry.             *)
ExactBytes ==
  current_host_ = TrackedBytes("HOST") /\ current_dma_ = TrackedBytes("DMA")

LEMMA NextExactBytes == TypeOK /\ NewEntries /\ ExactBytes /\ [AnyNext]_vars => ExactBytes'
<1> SUFFICES ASSUME TypeOK, NewEntries, ExactBytes, [AnyNext]_vars PROVE ExactBytes'
  OBVIOUS
<1>i. /\ current_host_ = BytesOf(pointers_, "HOST") /\ current_dma_ = BytesOf(pointers_, "DMA")
      /\ ExactBytes' <=> /\ current_host_' = BytesOf(pointers_', "HOST")
                         /\ current_dma_' = BytesOf(pointers_', "DMA")
  BY TrackedIs DEF ExactBytes
<1>0. /\ IsMap(pointers_) /\ BytesOf(pointers_, "HOST") \in Nat /\ BytesOf(pointers_, "DMA") \in Nat
  BY MapOk, OfTypeOk
<1>1. CASE UNCHANGED counterVars /\ UNCHANGED pointers_
  BY <1>1, <1>i DEF counterVars, currentVars
<1>2. ASSUME NEW c \in Caller, AddPointer(c) PROVE ExactBytes'
  <2>1. PICK k \in 0 .. UINTPTR_MAX, e \in PointerInfoType :
           /\ k = ManglePointer(arg[c].ptr) /\ pointers_' = Put(pointers_, k, e)
           /\ current_host_' = current_host_ + PartOf(e, "HOST")
           /\ current_dma_' = current_dma_ + PartOf(e, "DMA")
    BY <1>2, AddPointerBytes
  <2>2. k \notin DOMAIN pointers_
    BY <1>2, <2>1 DEF AddPointer, NewEntries, Adding
  <2>3. /\ BytesOf(pointers_', "HOST") = BytesOf(pointers_, "HOST") + PartOf(e, "HOST")
        /\ BytesOf(pointers_', "DMA") = BytesOf(pointers_, "DMA") + PartOf(e, "DMA")
    BY <1>0, <2>1, <2>2, BytesPut
  <2> QED BY <1>i, <2>1, <2>3
<1>3. ASSUME NEW c \in Caller, RemovePointer(c) PROVE ExactBytes'
  <2>1. PICK k \in DOMAIN pointers_ :
           /\ pointers_' = Erase(pointers_, k)
           /\ PartOf(pointers_[k], "HOST") \in Nat /\ PartOf(pointers_[k], "DMA") \in Nat
           /\ current_host_' = current_host_ - PartOf(pointers_[k], "HOST")
           /\ current_dma_' = current_dma_ - PartOf(pointers_[k], "DMA")
    BY <1>3, RemovePointerBytes
  <2>2. /\ IsMap(pointers_')
        /\ BytesOf(pointers_, "HOST") = BytesOf(pointers_', "HOST") + PartOf(pointers_[k], "HOST")
        /\ BytesOf(pointers_, "DMA") = BytesOf(pointers_', "DMA") + PartOf(pointers_[k], "DMA")
    BY <1>0, <2>1, BytesErase
  <2>3. BytesOf(pointers_', "HOST") \in Nat /\ BytesOf(pointers_', "DMA") \in Nat
    BY <2>2, OfTypeOk
  <2> QED BY <1>i, <2>1, <2>2, <2>3
<1>4. CASE AnyNext
  BY <1>1, <1>2, <1>3, <1>4, CountersKept, PointersKept DEF AnyNext
<1>5. CASE UNCHANGED vars
  BY <1>1, <1>5 DEF vars, dataVars, mapVars
<1> QED BY <1>4, <1>5

----------------------------------------------------------------------------
(* A caller carries an index only between two critical sections.           *)
LEMMA NextCarried == TypeOK /\ CarriedBetween /\ [AnyNext]_vars => CarriedBetween'
<1> SUFFICES ASSUME TypeOK, CarriedBetween, [AnyNext]_vars PROVE CarriedBetween'
  OBVIOUS
<1> USE DEF TypeOK, CarriedBetween, Goto
<1>1. ASSUME NEW c \in Caller, AnyCall(c) PROVE CarriedBetween'
  BY <1>1 DEF AnyCall, CallAdd, CallRemove, CallDump, CallPeakInfo
<1>2. ASSUME NEW c \in Caller, AddStep(c) PROVE CarriedBetween'
  <2>1. CASE UnwindOk(c) \/ NoBacktrace(c) \/ UnwindExit(c)
    BY <2>1 DEF UnwindOk, NoBacktrace, UnwindExit
  <2>2. CASE AddBacktrace(c)
    BY <2>2 DEF AddBacktrace
  <2>3. CASE AddPointer(c)
    BY <2>3 DEF AddPointer
  <2>4. CASE \/ LockFrames(c, "bt_lock", "bt_held") \/ LockPointers(c, "add_lock", "add_held")
             \/ LockFrames(c, "peak_lock", "peak_held") \/ RecordPeakList(c)
    BY <2>4 DEF LockFrames, LockPointers, RecordPeakList
  <2> QED BY <1>2, <2>1, <2>2, <2>3, <2>4 DEF AddStep
<1>3. ASSUME NEW c \in Caller, RemoveStep(c) PROVE CarriedBetween'
  <2>1. CASE RemovePointer(c)
    BY <2>1 DEF RemovePointer
  <2>2. CASE RemoveBacktrace(c)
    BY <2>2 DEF RemoveBacktrace
  <2>3. CASE \/ LockPointers(c, "rm_lock", "rm_held") \/ LockFrames(c, "rmbt_lock", "rmbt_held")
             \/ RemoveUntracked(c)
    BY <2>3 DEF LockFrames, LockPointers, RemoveUntracked
  <2> QED BY <1>3, <2>1, <2>2, <2>3 DEF RemoveStep
<1>4. ASSUME NEW c \in Caller, DumpStep(c) PROVE CarriedBetween'
  BY <1>4 DEF DumpStep, CollectList, PrintList, DumpPeakInfo, LockFrames, LockPointers
<1>5. CASE UNCHANGED vars
  BY <1>5 DEF vars, callerVars
<1> QED BY <1>1, <1>2, <1>3, <1>4, <1>5 DEF AnyNext, Step

----------------------------------------------------------------------------
(* Every reference on a backtrace has its pointer or its caller.           *)
ExactRefs ==
  \A h \in DOMAIN frames_ :
    frames_[h].references = Cardinality(Kept(h)) + Cardinality(Carried(h))

LEMMA UsersCounted ==
  ASSUME IInv, ExactRefs, NEW h \in DOMAIN frames_
  PROVE  /\ IsFiniteSet(Kept(h)) /\ IsFiniteSet(Carried(h)) /\ h > 1
         /\ Cardinality(Kept(h)) \in Nat /\ Cardinality(Carried(h)) \in Nat
         /\ frames_[h].references = Cardinality(Kept(h)) + Cardinality(Carried(h))
BY UsersFinite, FS_CardinalityType DEF IInv, IndicesBelow, kBacktraceEmptyIndex, ExactRefs

LEMMA RefsSame ==
  ASSUME ExactRefs, UNCHANGED frames_,
         \A h \in DOMAIN frames_ : Kept(h)' = Kept(h) /\ Carried(h)' = Carried(h)
  PROVE  ExactRefs'
BY DEF ExactRefs

(* Steps that leave the maps alone.                                        *)
LEMMA RefsQuiet ==
  ASSUME IInv, ExactRefs, UNCHANGED << pointers_, frames_ >>,
         \A c \in Caller : \/ hash_index'[c] = hash_index[c]
                           \/ hash_index[c] \in {0, 1} /\ hash_index'[c] \in {0, 1}
  PROVE  ExactRefs'
<1>1. ASSUME NEW h \in DOMAIN frames_
      PROVE  Kept(h)' = Kept(h) /\ Carried(h)' = Carried(h)
  <2>1. h > 1
    BY UsersCounted
  <2> QED BY <2>1 DEF Kept, Carried
<1> QED BY <1>1, RefsSame

LEMMA RefsKnown ==
  ASSUME IInv, CarriedBetween, ExactRefs, NEW c \in Caller, AddBacktrace(c),
         arg[c].frames \in DOMAIN key_to_index_
  PROVE  ExactRefs'
<1>1. PICK g : g = key_to_index_[arg[c].frames]
  OBVIOUS
<1>2. g \in DOMAIN frames_ /\ frames_[g].references \in Nat
  BY <1>1 DEF IInv, Interned, TypeOK, FrameInfoType
<1>3. /\ DOMAIN frames_' = DOMAIN frames_ /\ frames_'[g].references = frames_[g].references + 1
      /\ \A h \in DOMAIN frames_ : h # g => frames_'[h] = frames_[h]
      /\ UNCHANGED pointers_ /\ hash_index' = [hash_index EXCEPT ![c] = g]
  BY <1>1, <1>2 DEF AddBacktrace, KnownBacktrace, FrameInfo, Put
<1>4. hash_index[c] = 0
  BY DEF AddBacktrace, CarriedBetween
<1>5. \A h \in DOMAIN frames_ : Kept(h)' = Kept(h)
  BY <1>3 DEF Kept
<1>u. \A h \in DOMAIN frames_ : h > 1
  BY UsersCounted
<1>6. \A h \in DOMAIN frames_ : h # g => Carried(h)' = Carried(h)
  BY <1>3, <1>4, <1>u DEF Carried, IInv, TypeOK
<1>7. Carried(g)' = Carried(g) \cup {c} /\ c \notin Carried(g)
  BY <1>2, <1>3, <1>4, <1>u DEF Carried, IInv, TypeOK
<1>8. Cardinality(Carried(g)') = Cardinality(Carried(g)) + 1
  BY <1>2, <1>7, UsersCounted, FS_AddElement
<1>9. ASSUME NEW h \in DOMAIN frames_
      PROVE  frames_'[h].references = Cardinality(Kept(h)') + Cardinality(Carried(h)')
  <2>1. CASE h = g
    BY <1>2, <1>3, <1>5, <1>8, <2>1, UsersCounted
  <2>2. CASE h # g
    BY <1>3, <1>5, <1>6, <2>2, UsersCounted
  <2> QED BY <2>1, <2>2
<1> QED BY <1>3, <1>9 DEF ExactRefs

LEMMA RefsNew ==
  ASSUME IInv, CarriedBetween, ExactRefs, NEW c \in Caller, AddBacktrace(c),
         arg[c].frames \notin DOMAIN key_to_index_
  PROVE  ExactRefs'
<1>1. PICK g : g = cur_hash_index_
  OBVIOUS
<1>2. g \in Nat /\ g > 1 /\ g \notin DOMAIN frames_
  BY <1>1 DEF IInv, TypeOK, IndicesBelow, kBacktraceEmptyIndex
<1>3. /\ DOMAIN frames_' = DOMAIN frames_ \cup {g} /\ frames_'[g].references = 1
      /\ \A h \in DOMAIN frames_ : frames_'[h] = frames_[h]
      /\ UNCHANGED pointers_ /\ hash_index' = [hash_index EXCEPT ![c] = g]
  BY <1>1, <1>2 DEF AddBacktrace, NewBacktrace, Put
<1>4. hash_index[c] = 0
  BY DEF AddBacktrace, CarriedBetween
<1>5. Kept(g)' = {} /\ Carried(g)' = {c}
  <2>1. Kept(g)' = Kept(g) /\ Kept(g) = {}
    BY <1>2, <1>3 DEF Kept, IInv, UsersPresent, kBacktraceEmptyIndex
  <2>2. Carried(g)' = {c}
    BY <1>2, <1>3 DEF Carried, IInv, TypeOK, UsersPresent, kBacktraceEmptyIndex
  <2> QED BY <2>1, <2>2
<1>6. Cardinality(Kept(g)') = 0 /\ Cardinality(Carried(g)') = 1
  BY <1>5, FS_EmptySet, FS_Singleton
<1>7. ASSUME NEW h \in DOMAIN frames_
      PROVE  frames_'[h].references = Cardinality(Kept(h)') + Cardinality(Carried(h)')
  <2>1. Kept(h)' = Kept(h)
    BY <1>3 DEF Kept
  <2>2. h > 1
    BY UsersCounted
  <2>3. Carried(h)' = Carried(h)
    BY <1>2, <1>3, <1>4, <2>2 DEF Carried, IInv, TypeOK
  <2> QED BY <1>3, <2>1, <2>3, UsersCounted
<1> QED BY <1>3, <1>6, <1>7 DEF ExactRefs

(* The caller's reference becomes the pointer's.                           *)
LEMMA RefsAdd ==
  ASSUME IInv, NewEntries, ExactRefs, NEW c \in Caller, AddPointer(c)
  PROVE  ExactRefs'
<1>1. PICK k, g : k = ManglePointer(arg[c].ptr) /\ g = hash_index[c]
  OBVIOUS
<1>2. k \notin DOMAIN pointers_
  BY <1>1 DEF AddPointer, NewEntries, Adding
<1>3. /\ DOMAIN pointers_' = DOMAIN pointers_ \cup {k} /\ pointers_'[k].hash_index = g
      /\ \A x \in DOMAIN pointers_ : pointers_'[x] = pointers_[x]
      /\ UNCHANGED frames_ /\ hash_index' = [hash_index EXCEPT ![c] = 0]
  BY <1>1, <1>2 DEF AddPointer, Put, frameVars
<1>4. ASSUME NEW h \in DOMAIN frames_
      PROVE  frames_[h].references = Cardinality(Kept(h)') + Cardinality(Carried(h)')
  <2>0. /\ IsFiniteSet(Kept(h)) /\ IsFiniteSet(Carried(h)) /\ h > 1
        /\ Cardinality(Kept(h)) \in Nat /\ Cardinality(Carried(h)) \in Nat
        /\ frames_[h].references = Cardinality(Kept(h)) + Cardinality(Carried(h))
    BY UsersCounted
  <2>1. CASE h = g
    <3>1. Kept(h)' = Kept(h) \cup {k} /\ k \notin Kept(h)
      BY <1>2, <1>3, <2>1 DEF Kept
    <3>2. Carried(h)' = Carried(h) \ {c} /\ c \in Carried(h)
      BY <1>1, <1>3, <2>0, <2>1 DEF Carried, IInv, TypeOK
    <3>3. Cardinality(Kept(h)') = Cardinality(Kept(h)) + 1
      BY <2>0, <3>1, FS_AddElement
    <3>4. Cardinality(Carried(h)') = Cardinality(Carried(h)) - 1
      BY <2>0, <3>2, FS_RemoveElement
    <3> QED BY <2>0, <3>3, <3>4
  <2>2. CASE h # g
    <3>1. Kept(h)' = Kept(h)
      BY <1>2, <1>3, <2>2 DEF Kept
    <3>2. Carried(h)' = Carried(h)
      BY <1>1, <1>3, <2>0, <2>2 DEF Carried, IInv, TypeOK
    <3> QED BY <2>0, <3>1, <3>2
  <2> QED BY <2>1, <2>2
<1> QED BY <1>3, <1>4 DEF ExactRefs

(* The pointer's reference becomes the caller's.                           *)
LEMMA RefsRemove ==
  ASSUME IInv, CarriedBetween, ExactRefs, NEW c \in Caller, RemovePointer(c)
  PROVE  ExactRefs'
<1>1. PICK k : k = ManglePointer(arg[c].ptr)
  OBVIOUS
<1>2. PICK g : g = pointers_[k].hash_index
  OBVIOUS
<1>3. k \in DOMAIN pointers_ /\ g \in Nat /\ hash_index[c] = 0
  BY <1>1, <1>2 DEF RemovePointer, IInv, TypeOK, PointerInfoType, CarriedBetween
<1>4. /\ DOMAIN pointers_' = DOMAIN pointers_ \ {k}
      /\ \A x \in DOMAIN pointers_ : x # k => pointers_'[x] = pointers_[x]
      /\ UNCHANGED frames_
      /\ g <= 1 => UNCHANGED hash_index
      /\ g > 1 => hash_index' = [hash_index EXCEPT ![c] = g]
  BY <1>1, <1>2, <1>3 DEF RemovePointer, Erase, frameVars, kBacktraceEmptyIndex
<1>5. ASSUME NEW h \in DOMAIN frames_
      PROVE  frames_[h].references = Cardinality(Kept(h)') + Cardinality(Carried(h)')
  <2>0. /\ IsFiniteSet(Kept(h)) /\ IsFiniteSet(Carried(h)) /\ h > 1
        /\ Cardinality(Kept(h)) \in Nat /\ Cardinality(Carried(h)) \in Nat
        /\ frames_[h].references = Cardinality(Kept(h)) + Cardinality(Carried(h))
    BY UsersCounted
  <2>1. CASE h = g
    <3>1. Kept(h)' = Kept(h) \ {k} /\ k \in Kept(h)
      BY <1>2, <1>3, <1>4, <2>1 DEF Kept
    <3>2. Carried(h)' = Carried(h) \cup {c} /\ c \notin Carried(h)
      BY <1>3, <1>4, <2>0, <2>1 DEF Carried, IInv, TypeOK
    <3>3. Cardinality(Kept(h)') = Cardinality(Kept(h)) - 1
      BY <2>0, <3>1, FS_RemoveElement
    <3>4. Cardinality(Carried(h)') = Cardinality(Carried(h)) + 1
      BY <2>0, <3>2, FS_AddElement
    <3> QED BY <2>0, <3>3, <3>4
  <2>2. CASE h # g
    <3>1. Kept(h)' = Kept(h)
      BY <1>2, <1>3, <1>4, <2>2 DEF Kept
    <3>2. Carried(h)' = Carried(h)
      BY <1>3, <1>4, <2>0, <2>2 DEF Carried, IInv, TypeOK
    <3> QED BY <2>0, <3>1, <3>2
  <2> QED BY <2>1, <2>2
<1> QED BY <1>4, <1>5 DEF ExactRefs

LEMMA RefsDrop ==
  ASSUME IInv, ExactRefs, NEW c \in Caller, RemoveBacktrace(c)
  PROVE  ExactRefs'
<1>1. PICK g : g = hash_index[c]
  OBVIOUS
<1>2. UNCHANGED pointers_ /\ hash_index' = [hash_index EXCEPT ![c] = 0]
  BY DEF RemoveBacktrace
<1>3. CASE g \notin DOMAIN frames_
  <2>1. hash_index[c] \in {0, 1} /\ UNCHANGED frames_
    BY <1>1, <1>3 DEF RemoveBacktrace, IInv, UsersPresent, TypeOK, kBacktraceEmptyIndex
  <2> QED BY <1>2, <2>1, RefsQuiet DEF IInv, TypeOK
<1>4. CASE g \in DOMAIN frames_
  <2>1. /\ IsFiniteSet(Carried(g)) /\ g > 1
        /\ Cardinality(Kept(g)) \in Nat /\ Cardinality(Carried(g)) \in Nat
        /\ frames_[g].references = Cardinality(Kept(g)) + Cardinality(Carried(g))
    BY <1>4, UsersCounted
  <2>2. Kept(g)' = Kept(g) /\ Carried(g)' = Carried(g) \ {c} /\ c \in Carried(g)
    BY <1>1, <1>2, <2>1 DEF Kept, Carried, IInv, TypeOK
  <2>3. Cardinality(Carried(g)') = Cardinality(Carried(g)) - 1
    BY <2>1, <2>2, FS_RemoveElement
  <2>4. /\ DOMAIN frames_' \subseteq DOMAIN frames_
        /\ \A h \in DOMAIN frames_' : h # g => frames_'[h] = frames_[h]
        /\ g \in DOMAIN frames_' => frames_'[g].references = frames_[g].references - 1
    <3>1. CASE frames_[g].references = 1
      BY <1>1, <1>4, <3>1 DEF RemoveBacktrace, DropReference, Erase
    <3>2. CASE frames_[g].references # 1
      BY <1>1, <1>4, <3>2 DEF RemoveBacktrace, DropReference, Put
    <3> QED BY <3>1, <3>2
  <2>5. ASSUME NEW h \in DOMAIN frames_'
        PROVE  frames_'[h].references = Cardinality(Kept(h)') + Cardinality(Carried(h)')
    <3>1. CASE h = g
      <4>1. frames_'[g].references = frames_[g].references - 1
        BY <2>4, <3>1
      <4>2. Cardinality(Kept(g)') = Cardinality(Kept(g))
        BY <2>2
      <4> QED BY <2>1, <2>3, <3>1, <4>1, <4>2
    <3>2. CASE h # g
      <4>1. h \in DOMAIN frames_ /\ h > 1
        BY <2>4, UsersCounted
      <4>2. Kept(h)' = Kept(h) /\ Carried(h)' = Carried(h)
        BY <1>1, <1>2, <3>2, <4>1 DEF Kept, Carried, IInv, TypeOK
      <4> QED BY <2>4, <3>2, <4>1, <4>2, UsersCounted
    <3> QED BY <3>1, <3>2
  <2> QED BY <2>5 DEF ExactRefs
<1> QED BY <1>3, <1>4

LEMMA NextRefs ==
  IInv /\ CarriedBetween /\ NewEntries /\ ExactRefs /\ [AnyNext]_vars => ExactRefs'
<1> SUFFICES ASSUME IInv, CarriedBetween, NewEntries, ExactRefs, [AnyNext]_vars PROVE ExactRefs'
  OBVIOUS
<1>1. CASE UNCHANGED << pointers_, frames_, hash_index >>
  BY <1>1, RefsQuiet
<1> USE DEF dataVars, mapVars
<1>2. ASSUME NEW c \in Caller, AnyCall(c) PROVE ExactRefs'
  BY <1>1, <1>2 DEF AnyCall, CallAdd, CallRemove, CallDump, CallPeakInfo
<1>3. ASSUME NEW c \in Caller, NoBacktrace(c) PROVE ExactRefs'
  <2>1. hash_index[c] = 0
    BY <1>3 DEF NoBacktrace, CarriedBetween
  <2> QED BY <1>3, <2>1, RefsQuiet DEF NoBacktrace, kBacktraceEmptyIndex, IInv, TypeOK
<1>4. ASSUME NEW c \in Caller,
             \/ UnwindOk(c) \/ UnwindExit(c) \/ RecordPeakList(c) \/ RemoveUntracked(c) \/ DumpStep(c)
             \/ LockFrames(c, "bt_lock", "bt_held") \/ LockPointers(c, "add_lock", "add_held")
             \/ LockFrames(c, "peak_lock", "peak_held") \/ LockPointers(c, "rm_lock", "rm_held")
             \/ LockFrames(c, "rmbt_lock", "rmbt_held")
      PROVE  ExactRefs'
  BY <1>1, <1>4 DEF UnwindOk, UnwindExit, RecordPeakList, RemoveUntracked, DumpStep, CollectList,
     PrintList, DumpPeakInfo, LockFrames, LockPointers
<1>5. ASSUME NEW c \in Caller, Step(c) PROVE ExactRefs'
  BY <1>3, <1>4, <1>5, RefsKnown, RefsNew, RefsAdd, RefsRemove, RefsDrop DEF Step, AddStep, RemoveStep
<1>6. CASE UNCHANGED vars
  BY <1>1, <1>6 DEF vars, callerVars
<1> QED BY <1>2, <1>5, <1>6 DEF AnyNext

(* Nothing leaks from the tracker and nothing is counted twice: when the   *)
(* allocating calls succeed the counters are the sums of what is tracked,  *)
(* to the byte, and every reference on a backtrace has its pointer or its  *)
(* caller, whatever threads, signal handlers and reused addresses          *)
(* interleave.  The hypothesis is needed: a failed malloc adds the null    *)
(* pointer, the second one over the entry of the first.                    *)
THEOREM AccountingExact ==
  ASSUME AllocationsSucceed
  PROVE  MDSpec => []ExactAccounting
<1> DEFINE J == OnlyBlocks /\ NewEntries /\ CarriedBetween /\ ExactBytes /\ ExactRefs
<1>1. MDInit => J
  <2>1. ASSUME MDInit PROVE J
    <3>1. /\ pc = [c \in Caller |-> "idle"] /\ DOMAIN pointers_ = {} /\ DOMAIN frames_ = {}
          /\ hash_index = [c \in Caller |-> 0] /\ Init
      BY <2>1 DEF MDInit, Init
    <3>2. OnlyBlocks /\ NewEntries /\ CarriedBetween /\ ExactRefs
      BY <3>1 DEF OnlyBlocks, NewEntries, CarriedBetween, ExactRefs, Adding
    <3>3. ExactBytes
      BY <3>1, NothingCounted, TrackedIs DEF ExactBytes
    <3> QED BY <3>2, <3>3
  <2> QED BY <2>1
<1>2. MDTypeOK /\ IInv /\ OwnInv /\ J /\ [MDNext]_allVars => J'
  <2> SUFFICES ASSUME MDTypeOK, IInv, OwnInv, J, [MDNext]_allVars PROVE J'
    OBVIOUS
  <2>1. TypeOK /\ [AnyNext]_vars /\ TrackerCalled /\ CallsGoOn
    BY MDNextType DEF IInv, OwnInv
  <2>2. OnlyBlocks' /\ NewEntries'
    BY <2>1, NextOnlyBlocks, NextNewEntries
  <2>3. CarriedBetween' /\ ExactBytes' /\ ExactRefs'
    BY <2>1, NextCarried, NextExactBytes, NextRefs
  <2> QED BY <2>2, <2>3
<1>3. J => ExactAccounting
  BY DEF ExactBytes, ExactRefs, ExactAccounting
<1> QED BY <1>1, <1>2, <1>3, OwnInvariant, TrackerInLibrary, PTL DEF MDSpec

----------------------------------------------------------------------------
(* The abstract state, and the abstract steps in terms of it.              *)
Live  == [k \in DOMAIN pointers_ |-> Allocation(k)]
Shown == [c \in Caller |-> IF c \in Printing THEN { ShownAllocation(r) : r \in report[c] } ELSE {}]

Traces(i) == i.trace # NoTrace
Listing == { << k, Live[k] >> : k \in { j \in DOMAIN Live : Traces(Live[j]) } }

LEMMA Abstract ==
  /\ Tracker!TInit <=> Live = << >> /\ Printing = {} /\ Shown = [c \in Caller |-> {}]
  /\ UNCHANGED << Live, Printing, Shown >> => UNCHANGED Tracker!tvars
BY DEF Tracker!TInit, Tracker!tvars, Live, Shown

LEMMA AbstractTrack ==
  ASSUME NEW k \in 0 .. UINTPTR_MAX, NEW i \in AllocationType, Printing = {},
         Live' = [x \in DOMAIN Live \cup {k} |-> IF x = k THEN i ELSE Live[x]],
         UNCHANGED << Printing, Shown >>
  PROVE  Tracker!TNext
<1>1. Tracker!Track(k, i)
  BY DEF Tracker!Track, Live, Shown
<1> QED BY <1>1 DEF Tracker!TNext

LEMMA AbstractUntrack ==
  ASSUME NEW k \in 0 .. UINTPTR_MAX, Printing = {}, k \in DOMAIN Live,
         Live' = [x \in DOMAIN Live \ {k} |-> Live[x]],
         UNCHANGED << Printing, Shown >>
  PROVE  Tracker!TNext
<1>1. Tracker!Untrack(k)
  BY DEF Tracker!Untrack, Live, Shown
<1> QED BY <1>1 DEF Tracker!TNext

LEMMA AbstractOpen ==
  ASSUME NEW c \in Caller, Printing = {}, Printing' = {c}, UNCHANGED Live,
         Shown' = [Shown EXCEPT ![c] = Listing]
  PROVE  Tracker!TNext
<1>1. Tracker!OpenReport(c)
  BY DEF Tracker!OpenReport, Tracker!Snapshot, Listing, Traces, Live, Shown
<1> QED BY <1>1 DEF Tracker!TNext

LEMMA AbstractClose ==
  ASSUME NEW c \in Caller, c \in Printing, Printing' = Printing \ {c}, UNCHANGED Live,
         Shown' = [Shown EXCEPT ![c] = {}]
  PROVE  Tracker!TNext
<1>1. Tracker!CloseReport(c)
  BY DEF Tracker!CloseReport, Live, Shown
<1> QED BY <1>1 DEF Tracker!TNext

----------------------------------------------------------------------------
(* Sizes: PointerInfoType keeps 31 bits of a size.                         *)
KnownSizes ==
  /\ \A c \in Caller : pc[c] \in Adding => arg[c].size \in Size \cup {0}
  /\ \A k \in DOMAIN pointers_ : pointers_[k].size \in Size \cup {0}

LEMMA RealSizeOf ==
  ASSUME SizesFit, NEW n \in Size \cup {0}
  PROVE  RealSize(n) = n
<1>1. n \in Nat /\ n <= PointerMaxSize /\ PointerMaxSize \in Nat
  BY SizeAssumption DEF SizesFit
<1> QED BY <1>1 DEF RealSize

(* An entry stands for an allocation with the backtrace of its index.      *)
LEMMA AllocationIs ==
  ASSUME IInv, KnownSizes, NEW k \in DOMAIN pointers_
  PROVE  /\ Allocation(k) \in AllocationType
         /\ Allocation(k).size = pointers_[k].size /\ Allocation(k).mem_type = pointers_[k].mem_type
         /\ Traces(Allocation(k)) <=> pointers_[k].hash_index > kBacktraceEmptyIndex
         /\ pointers_[k].hash_index > kBacktraceEmptyIndex =>
              Allocation(k).trace = backtraces_info_[pointers_[k].hash_index]
<1>1. PICK e : e = pointers_[k]
  OBVIOUS
<1>2. e \in PointerInfoType /\ e.size \in Size \cup {0}
  BY <1>1 DEF IInv, TypeOK, KnownSizes
<1>3. ASSUME e.hash_index > kBacktraceEmptyIndex
      PROVE  /\ FrameInfo(e.hash_index).frames \in Backtrace
             /\ FrameInfo(e.hash_index).frames = backtraces_info_[e.hash_index]
  <2>1. e.hash_index \in DOMAIN frames_
    BY <1>1, <1>3 DEF IInv, UsersPresent
  <2>2. frames_[e.hash_index] \in FrameInfoType
    BY <2>1 DEF IInv, TypeOK
  <2> QED BY <2>1, <2>2 DEF FrameInfo, FrameInfoType, IInv, Interned
<1>4. PICK b : b = IF e.hash_index > kBacktraceEmptyIndex
                   THEN FrameInfo(e.hash_index).frames ELSE NoTrace
  OBVIOUS
<1>5. Allocation(k) = [size |-> e.size, mem_type |-> e.mem_type, trace |-> b]
  BY <1>1, <1>4 DEF Allocation
<1>6. b \in Backtrace \cup {NoTrace} /\ (b # NoTrace <=> e.hash_index > kBacktraceEmptyIndex)
  BY <1>3, <1>4, TraceAssumption
<1>7. e.hash_index > kBacktraceEmptyIndex => b = backtraces_info_[e.hash_index]
  BY <1>3, <1>4
<1>8. Allocation(k) \in AllocationType
  BY <1>2, <1>5, <1>6 DEF AllocationType, PointerInfoType
<1>9. Allocation(k).size = e.size /\ Allocation(k).mem_type = e.mem_type /\ Allocation(k).trace = b
  BY <1>5
<1> QED BY <1>1, <1>6, <1>7, <1>8, <1>9 DEF Traces

(* The records of GetList are the entries with a backtrace.                *)
LEMMA ListIsListing ==
  ASSUME SizesFit, IInv, KnownSizes
  PROVE  { ShownAllocation(r) : r \in GetList(pointers_, backtraces_info_) } = Listing
<1>1. ASSUME NEW k \in DOMAIN pointers_, pointers_[k].hash_index > kBacktraceEmptyIndex
      PROVE  ShownAllocation(ListInfo(pointers_, backtraces_info_, k)) = << k, Allocation(k) >>
  <2>1. PICK r : r = ListInfo(pointers_, backtraces_info_, k)
    OBVIOUS
  <2>2. PICK e : e = pointers_[k]
    OBVIOUS
  <2>3. /\ r.pointer = DemanglePointer(k) /\ r.size = RealSize(e.size) /\ r.mem_type = e.mem_type
        /\ r.backtrace_info = backtraces_info_[e.hash_index]
    BY <2>1, <2>2 DEF ListInfo
  <2>4. ManglePointer(r.pointer) = k /\ r.size = e.size
    BY <2>2, <2>3, Mangling, RealSizeOf DEF IInv, TypeOK, KnownSizes
  <2>5. Allocation(k) = [size |-> e.size, mem_type |-> e.mem_type, trace |-> Allocation(k).trace]
    BY <2>2 DEF Allocation
  <2>6. Allocation(k).trace = backtraces_info_[e.hash_index]
    BY <1>1, <2>2, AllocationIs
  <2> QED BY <2>1, <2>3, <2>4, <2>5, <2>6 DEF ShownAllocation
<1>2. PICK T : T = { j \in DOMAIN pointers_ : pointers_[j].hash_index > kBacktraceEmptyIndex }
  OBVIOUS
<1>3. GetList(pointers_, backtraces_info_) = { ListInfo(pointers_, backtraces_info_, k) : k \in T }
  BY <1>2 DEF GetList
<1>4. { j \in DOMAIN Live : Traces(Live[j]) } = T
  BY <1>2, AllocationIs DEF Live
<1>5. Listing = { << k, Allocation(k) >> : k \in T }
  BY <1>2, <1>4 DEF Listing, Live
<1>6. \A k \in T : ShownAllocation(ListInfo(pointers_, backtraces_info_, k)) = << k, Allocation(k) >>
  BY <1>1, <1>2
<1> QED BY <1>3, <1>5, <1>6

----------------------------------------------------------------------------
(* Who prints, and what.                                                   *)
SamePrints(c) == (pc'[c] = "dump_print" <=> pc[c] = "dump_print") /\ (pc[c] = "dump_print" => report'[c] = report[c])

LEMMA PrintsKept ==
  ASSUME \A c \in Caller : SamePrints(c)
  PROVE  UNCHANGED << Printing, Shown >>
<1>1. Printing' = Printing
  BY DEF Printing, SamePrints
<1>2. \A c \in Printing : report'[c] = report[c]
  BY DEF Printing, SamePrints
<1> QED BY <1>1, <1>2 DEF Shown

(* Steps that change no entry and no backtrace that an entry has.          *)
LEMMA LiveKept ==
  ASSUME UNCHANGED pointers_,
         \A k \in DOMAIN pointers_ : pointers_[k].hash_index > kBacktraceEmptyIndex =>
           FrameInfo(pointers_[k].hash_index)'.frames = FrameInfo(pointers_[k].hash_index).frames
  PROVE  UNCHANGED Live
<1>1. \A k \in DOMAIN pointers_ : Allocation(k)' = Allocation(k)
  BY DEF Allocation
<1> QED BY <1>1 DEF Live

LEMMA NothingSeen ==
  ASSUME UNCHANGED << pointers_, frames_ >>, \A c \in Caller : SamePrints(c)
  PROVE  UNCHANGED Tracker!tvars
<1>1. UNCHANGED Live
  BY LiveKept DEF FrameInfo
<1> QED BY <1>1, PrintsKept, Abstract

LEMMA TraceAdded ==
  ASSUME IInv, NEW c \in Caller, AddBacktrace(c)
  PROVE  UNCHANGED Tracker!tvars
<1>1. UNCHANGED pointers_ /\ \A d \in Caller : SamePrints(d)
  BY DEF AddBacktrace, Goto, IInv, TypeOK, SamePrints
<1>2. \A h \in DOMAIN frames_ : h \in DOMAIN frames_' /\ frames_'[h].frames = frames_[h].frames
  <2>1. CASE arg[c].frames \in DOMAIN key_to_index_
    BY <2>1 DEF AddBacktrace, KnownBacktrace, FrameInfo, Put
  <2>2. CASE arg[c].frames \notin DOMAIN key_to_index_
    <3>1. cur_hash_index_ \notin DOMAIN frames_
      BY DEF IInv, IndicesBelow, TypeOK
    <3> QED BY <2>2, <3>1 DEF AddBacktrace, NewBacktrace, Put
  <2> QED BY <2>1, <2>2
<1>3. UNCHANGED Live
  BY <1>1, <1>2, LiveKept DEF IInv, UsersPresent, FrameInfo
<1> QED BY <1>1, <1>3, PrintsKept, Abstract

(* The frames that go have no entry any more.                              *)
LEMMA TraceDropped ==
  ASSUME IInv, NEW c \in Caller, RemoveBacktrace(c)
  PROVE  UNCHANGED Tracker!tvars
<1>1. UNCHANGED pointers_ /\ \A d \in Caller : SamePrints(d)
  BY DEF RemoveBacktrace, Goto, IInv, TypeOK, SamePrints
<1>2. PICK g : g = hash_index[c]
  OBVIOUS
<1>3. CASE g \notin DOMAIN frames_
  BY <1>1, <1>2, <1>3, NothingSeen DEF RemoveBacktrace
<1>4. CASE g \in DOMAIN frames_ /\ frames_[g].references # 1
  <2>1. \A h \in DOMAIN frames_ : h \in DOMAIN frames_' /\ frames_'[h].frames = frames_[h].frames
    BY <1>2, <1>4 DEF RemoveBacktrace, DropReference, Put
  <2>2. UNCHANGED Live
    BY <1>1, <2>1, LiveKept DEF IInv, UsersPresent, FrameInfo
  <2> QED BY <1>1, <2>2, PrintsKept, Abstract
<1>5. CASE g \in DOMAIN frames_ /\ frames_[g].references = 1
  <2>1. \A k \in DOMAIN pointers_ : pointers_[k].hash_index # g
    BY <1>2, <1>5, LastReference DEF Kept
  <2>2. \A h \in DOMAIN frames_ : h # g => h \in DOMAIN frames_' /\ frames_'[h] = frames_[h]
    BY <1>2, <1>5 DEF RemoveBacktrace, DropReference, Erase
  <2>3. UNCHANGED Live
    BY <1>1, <2>1, <2>2, LiveKept DEF IInv, UsersPresent, FrameInfo
  <2> QED BY <1>1, <2>3, PrintsKept, Abstract
<1> QED BY <1>3, <1>4, <1>5

(* Nobody prints while the entries change.                                 *)
LEMMA NobodyPrints ==
  ASSUME Exclusion, NEW c \in Caller, pc[c] \in PointerSection \ {"dump_print"}
  PROVE  Printing = {} /\ \A d \in Caller : pc[d] # "dump_print"
<1>1. ASSUME NEW d \in Caller, pc[d] = "dump_print" PROVE FALSE
  BY <1>1 DEF Exclusion, PointerSection
<1> QED BY <1>1 DEF Printing

LEMMA PointerAdded ==
  ASSUME IInv, IInv', KnownSizes, KnownSizes', Exclusion, NEW c \in Caller, AddPointer(c)
  PROVE  Tracker!TNext
<1>1. PICK k : k = ManglePointer(arg[c].ptr)
  OBVIOUS
<1>2. /\ k \in 0 .. UINTPTR_MAX
      /\ DOMAIN pointers_' = DOMAIN pointers_ \cup {k} /\ UNCHANGED frames_
      /\ \A x \in DOMAIN pointers_ : x # k => pointers_'[x] = pointers_[x]
  BY <1>1, Mangling DEF AddPointer, Put, frameVars, IInv, TypeOK, ArgType
<1>3. Printing = {} /\ \A d \in Caller : pc[d] # "dump_print"
  BY NobodyPrints DEF AddPointer, PointerSection
<1>4. \A d \in Caller : SamePrints(d)
  BY <1>3 DEF AddPointer, Goto, IInv, TypeOK, SamePrints
<1>5. \A x \in DOMAIN pointers_ : x # k => Allocation(x)' = Allocation(x)
  BY <1>2 DEF Allocation, FrameInfo
<1>6. PICK i : i = Allocation(k)'
  OBVIOUS
<1>7. i \in AllocationType
  <2>1. (IInv /\ KnownSizes /\ k \in DOMAIN pointers_ => Allocation(k) \in AllocationType)'
    BY AllocationIs, PTL
  <2> QED BY <1>2, <1>6, <2>1
<1>8. Live' = [x \in DOMAIN Live \cup {k} |-> IF x = k THEN i ELSE Live[x]]
  BY <1>2, <1>5, <1>6 DEF Live
<1> QED BY <1>2, <1>3, <1>4, <1>7, <1>8, PrintsKept, AbstractTrack

LEMMA PointerRemoved ==
  ASSUME IInv, Exclusion, NEW c \in Caller, RemovePointer(c)
  PROVE  Tracker!TNext
<1>1. PICK k : k = ManglePointer(arg[c].ptr)
  OBVIOUS
<1>2. /\ k \in 0 .. UINTPTR_MAX /\ k \in DOMAIN pointers_
      /\ DOMAIN pointers_' = DOMAIN pointers_ \ {k} /\ UNCHANGED frames_
      /\ \A x \in DOMAIN pointers_ : x # k => pointers_'[x] = pointers_[x]
  BY <1>1 DEF RemovePointer, Erase, frameVars, IInv, TypeOK
<1>3. Printing = {} /\ \A d \in Caller : pc[d] # "dump_print"
  BY NobodyPrints DEF RemovePointer, PointerSection
<1>4. \A d \in Caller : SamePrints(d)
  BY <1>3 DEF RemovePointer, Goto, IInv, TypeOK, SamePrints
<1>5. \A x \in DOMAIN pointers_ : x # k => Allocation(x)' = Allocation(x)
  BY <1>2 DEF Allocation, FrameInfo
<1>6. Live' = [x \in DOMAIN Live \ {k} |-> Live[x]] /\ k \in DOMAIN Live
  BY <1>2, <1>5 DEF Live
<1> QED BY <1>2, <1>3, <1>4, <1>6, PrintsKept, AbstractUntrack

LEMMA ListCollected ==
  ASSUME SizesFit, IInv, KnownSizes, Exclusion, NEW c \in Caller, CollectList(c)
  PROVE  Tracker!TNext \/ UNCHANGED Tracker!tvars
<1>1. Printing = {} /\ \A d \in Caller : pc[d] # "dump_print"
  BY NobodyPrints DEF CollectList, PointerSection
<1>2. /\ UNCHANGED << pointers_, frames_ >> /\ pc'[c] = "dump_print"
      /\ \A d \in Caller : d # c => pc'[d] = pc[d]
  BY DEF CollectList, mapVars, Goto, IInv, TypeOK
<1>3. UNCHANGED Live
  BY <1>2, LiveKept DEF FrameInfo
<1>4. CASE "RECORD_MEMORY_PEAK" \in Options
  <2>1. Printing' = Printing /\ Shown' = Shown
    BY <1>4 DEF Printing, Shown
  <2> QED BY <1>3, <2>1, Abstract
<1>5. CASE "RECORD_MEMORY_PEAK" \notin Options
  <2>1. Printing' = {c}
    BY <1>1, <1>2, <1>5 DEF Printing
  <2>2. report'[c] = GetList(pointers_, backtraces_info_)
    BY <1>5 DEF CollectList, IInv, TypeOK
  <2>3. { ShownAllocation(r) : r \in report'[c] } = Listing
    BY <2>2, ListIsListing
  <2>4. Shown' = [Shown EXCEPT ![c] = Listing]
    <3>1. Shown' = [d \in Caller |-> IF d = c THEN { ShownAllocation(r) : r \in report'[d] } ELSE {}]
      BY <2>1 DEF Shown
    <3>2. Shown = [d \in Caller |-> {}]
      BY <1>1 DEF Shown
    <3> QED BY <2>3, <3>1, <3>2
  <2> QED BY <1>1, <1>3, <2>1, <2>4, AbstractOpen
<1> QED BY <1>4, <1>5

LEMMA ListPrinted ==
  ASSUME IInv, Exclusion, NEW c \in Caller, PrintList(c)
  PROVE  Tracker!TNext \/ UNCHANGED Tracker!tvars
<1>1. /\ UNCHANGED << pointers_, frames_ >> /\ pc[c] = "dump_print" /\ pc'[c] = "idle"
      /\ \A d \in Caller : d # c => pc'[d] = pc[d] /\ report'[d] = report[d]
  BY DEF PrintList, dataVars, mapVars, Goto, IInv, TypeOK
<1>2. UNCHANGED Live
  BY <1>1, LiveKept DEF FrameInfo
<1>3. CASE "RECORD_MEMORY_PEAK" \in Options
  <2>1. Printing' = Printing /\ Shown' = Shown
    BY <1>3 DEF Printing, Shown
  <2> QED BY <1>2, <2>1, Abstract
<1>4. CASE "RECORD_MEMORY_PEAK" \notin Options
  <2>1. c \in Printing /\ Printing' = Printing \ {c}
    BY <1>1, <1>4 DEF Printing
  <2>2. Shown' = [Shown EXCEPT ![c] = {}]
    <3>1. \A d \in Caller : d # c /\ d \in Printing => report'[d] = report[d]
      BY <1>1
    <3> QED BY <2>1, <3>1 DEF Shown
  <2> QED BY <1>2, <2>1, <2>2, AbstractClose
<1> QED BY <1>3, <1>4

LEMMA StepRefines ==
  ASSUME SizesFit, IInv, IInv', KnownSizes, KnownSizes', Exclusion, [AnyNext]_vars
  PROVE  Tracker!TNext \/ UNCHANGED Tracker!tvars
<1> USE DEF dataVars, mapVars
<1>1. ASSUME NEW c \in Caller, AnyCall(c) PROVE UNCHANGED Tracker!tvars
  <2>1. UNCHANGED << pointers_, frames_, report >> /\ pc[c] = "idle" /\ pc'[c] # "dump_print"
        /\ \A d \in Caller : d # c => pc'[d] = pc[d]
    BY <1>1 DEF AnyCall, CallAdd, CallRemove, CallDump, CallPeakInfo, Goto, IInv, TypeOK
  <2>2. \A d \in Caller : SamePrints(d)
    BY <2>1 DEF SamePrints
  <2> QED BY <2>1, <2>2, NothingSeen
<1>2. ASSUME NEW c \in Caller,
             \/ UnwindOk(c) \/ NoBacktrace(c) \/ UnwindExit(c) \/ RecordPeakList(c)
             \/ RemoveUntracked(c) \/ DumpPeakInfo(c)
             \/ LockFrames(c, "bt_lock", "bt_held") \/ LockPointers(c, "add_lock", "add_held")
             \/ LockFrames(c, "peak_lock", "peak_held") \/ LockPointers(c, "rm_lock", "rm_held")
             \/ LockFrames(c, "rmbt_lock", "rmbt_held") \/ LockPointers(c, "dump_lock", "dump_lock2")
             \/ LockFrames(c, "dump_lock2", "dump_held") \/ LockPointers(c, "info_lock", "info_held")
      PROVE  UNCHANGED Tracker!tvars
  <2>1. /\ UNCHANGED << pointers_, frames_, report >> /\ pc[c] # "dump_print" /\ pc'[c] # "dump_print"
        /\ \A d \in Caller : d # c => pc'[d] = pc[d]
    BY <1>2 DEF UnwindOk, NoBacktrace, UnwindExit, RecordPeakList, RemoveUntracked, DumpPeakInfo,
                LockFrames, LockPointers, Goto, IInv, TypeOK
  <2>2. \A d \in Caller : SamePrints(d)
    BY <2>1 DEF SamePrints
  <2> QED BY <2>1, <2>2, NothingSeen
<1>3. ASSUME NEW c \in Caller, Step(c) PROVE Tracker!TNext \/ UNCHANGED Tracker!tvars
  BY <1>2, <1>3, TraceAdded, TraceDropped, PointerAdded, PointerRemoved, ListCollected, ListPrinted
     DEF Step, AddStep, RemoveStep, DumpStep
<1>4. CASE UNCHANGED vars
  BY <1>4, NothingSeen DEF vars, callerVars, SamePrints
<1> QED BY <1>1, <1>3, <1>4 DEF AnyNext

----------------------------------------------------------------------------
(* Where the sizes come from.                                              *)
LEMMA SizesFrame ==
  ASSUME KnownSizes, NEW c \in Caller, OnlyPc(c), UNCHANGED pointers_,
         pc'[c] \in Adding => arg'[c].size \in Size \cup {0}
  PROVE  KnownSizes'
BY DEF KnownSizes, OnlyPc

LEMMA StepSizes ==
  ASSUME TypeOK, KnownSizes, NEW c \in Caller, Step(c)
  PROVE  KnownSizes'
<1>0. OnlyPc(c)
  BY StepLocal DEF OnlyPc
<1>1. CASE Continues(c)
  BY <1>0, <1>1, SizesFrame DEF Continues, KnownSizes
<1>2. CASE Forgets(c)
  <2>1. \A k \in DOMAIN pointers_' : k \in DOMAIN pointers_ /\ pointers_'[k] = pointers_[k]
    BY <1>2 DEF Forgets, Erase
  <2> QED BY <1>0, <1>2, <2>1 DEF Forgets, KnownSizes, OnlyPc
<1>3. CASE Records(c)
  <2>1. \A k \in DOMAIN pointers_' : \/ k \in DOMAIN pointers_ /\ pointers_'[k] = pointers_[k]
                                     \/ pointers_'[k].size = arg[c].size
    BY <1>3 DEF Records, Put
  <2> QED BY <1>0, <1>3, <2>1 DEF Records, KnownSizes, OnlyPc
<1> QED BY <1>1, <1>2, <1>3, StepKinds

LEMMA NextSizes == TypeOK /\ KnownSizes /\ [Next]_vars => KnownSizes'
<1> SUFFICES ASSUME TypeOK, KnownSizes, [Next]_vars PROVE KnownSizes'
  OBVIOUS
<1>1. CASE UNCHANGED vars
  BY <1>1 DEF vars, dataVars, mapVars, callerVars, KnownSizes
<1>2. ASSUME NEW c \in Caller, Call(c) PROVE KnownSizes'
  <2>1. OnlyPc(c) /\ UNCHANGED pointers_
    BY <1>2, AnyCallLocal, PointerAssumption, SizeAssumption DEF Call, AnyCall, OnlyPc
  <2>2. pc'[c] \in Adding => arg'[c].size \in Size \cup {0}
    BY <1>2 DEF Call, CallAdd, CallRemove, CallDump, CallPeakInfo, Goto, TypeOK, Adding
  <2> QED BY <2>1, <2>2, SizesFrame
<1> QED BY <1>1, <1>2, StepSizes DEF Next

(* The sizes the debug_ functions are called with.                         *)
CallSizes == \A c \in Caller : call[c].size \in Size \cup {0}

LEMMA NextCallSizes ==
  ASSUME TypeOK, MDTypeOK, CallSizes, [MDNext]_allVars
  PROVE  CallSizes'
<1>0. ASSUME NEW c \in Caller, NEW fn, NEW p, NEW n \in Size \cup {0}, Enter(c, fn, p, n)
      PROVE  CallSizes'
  BY <1>0 DEF Enter, CallSizes, MDTypeOK
<1>1. CASE UNCHANGED call
  BY <1>1 DEF CallSizes
<1>2. ASSUME NEW c \in Caller, LibraryStep(c) PROVE CallSizes'
  <2>1. ASSUME \A d \in Caller : d # c => call'[d] = call[d],
               call'[c].size = call[c].size \/ call'[c] = NoCall
        PROVE  CallSizes'
    BY <2>1 DEF CallSizes, NoCall
  <2>2. CASE \/ AllocBody(c) \/ MmapBody(c) \/ TooLargeBody(c) \/ RemoveBody(c)
             \/ SystemFree(c) \/ SystemRealloc(c) \/ DumpBody(c)
    BY <2>1, <2>2, BodyEffects DEF OnlyAt, SameCall
  <2>3. CASE TrackerStep(c) \/ RdLock(c) \/ Disable(c) \/ Enable(c) \/ WrWait(c) \/ WrLock(c) \/ FinInfo(c)
    BY <1>1, <2>3 DEF TrackerStep, mdVars, RdLock, Disable, Enable, WrWait, WrLock, FinInfo
  <2>4. CASE FinDisable(c) \/ Unlock(c)
    <3>1. \A d \in Caller : d # c => call'[d] = call[d]
      BY <2>4 DEF FinDisable, Unlock, MDTypeOK
    <3>2. call'[c].size = call[c].size \/ call'[c] = NoCall
      BY <2>4 DEF FinDisable, Unlock, MDTypeOK, CallType
    <3> QED BY <2>1, <3>1, <3>2
  <2> QED BY <1>2, <2>2, <2>3, <2>4 DEF LibraryStep
<1>3. ASSUME NEW c \in Caller, ProgramCall(c) PROVE CallSizes'
  BY <1>0, <1>3 DEF ProgramCall, ProgramAllocates, ProgramGivesBack, ProgramReallocates, ProgramDumps
<1>4. ASSUME NEW c \in Caller, ProgramExits(c) PROVE CallSizes'
  BY <1>4 DEF ProgramExits, CallSizes, MDTypeOK, NoCall
<1>5. ASSUME NEW t \in Thread, Deliver(t) \/ HandlerStep(t) PROVE CallSizes'
  <2>0. Sig(t) \in Caller
    BY CallerOf
  <2>1. CASE HandlerName(t)
    <3>1. NameSize \in Size
      BY <2>1, NameAssumption DEF HandlerName, Handle, MDTypeOK, NameSize
    <3> QED BY <1>0, <1>1, <2>0, <2>1, <3>1 DEF HandlerName
  <2>2. CASE HandlerDump(t) \/ HandlerRelease(t)
    BY <1>0, <1>1, <2>0, <2>2 DEF HandlerDump, HandlerRelease
  <2>3. CASE Deliver(t) \/ HandlerReturn(t)
    BY <1>1, <2>3 DEF Deliver, HandlerReturn
  <2> QED BY <1>5, <2>1, <2>2, <2>3 DEF HandlerStep
<1> QED BY <1>1, <1>2, <1>3, <1>4, <1>5 DEF MDNext, Arrival, allVars, mdVars

LEMMA NextLibrarySizes ==
  ASSUME TypeOK, MDTypeOK, CallSizes, KnownSizes, [MDNext]_allVars
  PROVE  KnownSizes'
<1>1. CASE UNCHANGED << pointers_, pc, arg >>
  BY <1>1 DEF KnownSizes
<1>u. UNCHANGED vars => UNCHANGED << pointers_, pc, arg >>
  BY DEF vars, dataVars, mapVars, callerVars
<1>2. ASSUME NEW c \in Caller, LibraryStep(c) \/ ProgramCall(c) \/ ProgramExits(c)
      PROVE  KnownSizes'
  <2>1. CASE TrackerStep(c)
    BY <2>1, StepSizes DEF TrackerStep
  <2>2. CASE \/ AllocBody(c) \/ MmapBody(c) \/ TooLargeBody(c) \/ RemoveBody(c)
             \/ SystemFree(c) \/ SystemRealloc(c) \/ DumpBody(c)
    <3>1. /\ OnlyPc(c) /\ UNCHANGED pointers_ /\ pc[c] \notin Adding
          /\ \/ GetsBlock(c) \/ AddsFailure(c) \/ GetsNothing(c) \/ StartsRemove(c)
             \/ GivesBack(c) \/ Reallocates(c) \/ Dumps(c)
      BY <2>2, BodyEffects DEF Adding
    <3>2. CASE Adds(c)
      BY <3>1, <3>2, SizesFrame DEF Adds, CallSizes
    <3>3. CASE GetsNothing(c) \/ StartsRemove(c) \/ GivesBack(c) \/ Dumps(c)
      <4>1. pc'[c] \notin Adding
        BY <3>1, <3>3 DEF GetsNothing, StartsRemove, GivesBack, Dumps, Adding
      <4> QED BY <3>1, <4>1, SizesFrame
    <3> QED BY <3>1, <3>2, <3>3 DEF GetsBlock, AddsFailure, Reallocates
  <2>3. CASE FinInfo(c)
    BY <2>3, MovesOnEffects, SizesFrame
  <2>4. CASE \/ RdLock(c) \/ Disable(c) \/ Enable(c) \/ Unlock(c) \/ WrLock(c) \/ FinDisable(c)
             \/ ProgramCall(c) \/ ProgramExits(c)
    BY <1>1, <1>u, <2>4, ScopeMoves
  <2>5. CASE WrWait(c)
    BY <1>1, <1>u, <2>5 DEF WrWait
  <2> QED BY <1>2, <2>1, <2>2, <2>3, <2>4, <2>5 DEF LibraryStep
<1>3. ASSUME NEW t \in Thread, Deliver(t) \/ HandlerStep(t)
      PROVE  KnownSizes'
  BY <1>1, <1>3, <1>u, HandlerEffects
<1> QED BY <1>1, <1>2, <1>3, <1>u, MDStuttering DEF MDNext, Arrival

----------------------------------------------------------------------------
LEMMA InitRefines == Init => Tracker!TInit /\ KnownSizes /\ Exclusion
<1> SUFFICES ASSUME Init PROVE Tracker!TInit /\ KnownSizes /\ Exclusion
  OBVIOUS
<1>1. DOMAIN pointers_ = {} /\ pc = [c \in Caller |-> "idle"]
  BY DEF Init
<1>2. Printing = {} /\ KnownSizes
  BY <1>1 DEF Printing, KnownSizes, Adding
<1>3. Live = << >> /\ Shown = [c \in Caller |-> {}]
  BY <1>1, <1>2 DEF Live, Shown
<1>4. Exclusion
  BY CallerAssumption DEF Init, Exclusion, PointerSection, FrameSection
<1> QED BY <1>2, <1>3, <1>4, Abstract

(* PointerData implements AllocTracker, for any number of callers: Add and *)
(* Remove take effect in one step each, an entry keeps the backtrace it    *)
(* was added with however indices are shared, counted and freed, and a     *)
(* dump shows exactly what is live until it is written.  The hypothesis is *)
(* needed: PointerInfoType keeps 31 bits of a size.                        *)
THEOREM TrackerImplements ==
  ASSUME SizesFit
  PROVE  Spec => TrackerSpec
<1>1. TypeOK /\ KnownSizes /\ [Next]_vars => KnownSizes'
  BY NextSizes
<1>2. Spec => [](IInv /\ KnownSizes /\ Exclusion)
  BY <1>1, InitRefines, Invariance, Typing, ExclusionInvariant, PTL DEF Spec
<1>3. /\ IInv /\ KnownSizes /\ Exclusion /\ (IInv /\ KnownSizes /\ Exclusion)' /\ [Next]_vars
      => [Tracker!TNext]_(Tracker!tvars)
  BY StepRefines, NextIsAny
<1>4. Init => Tracker!TInit
  BY InitRefines
<1> QED BY <1>2, <1>3, <1>4, PTL DEF Spec, TrackerSpec, Tracker!TSpec

(* The same under the debug_ functions, with their signal handlers, their  *)
(* failed system calls and debug_finalize.                                 *)
THEOREM LibraryImplements ==
  ASSUME SizesFit
  PROVE  MDSpec => TrackerSpec
<1> DEFINE J == MDTypeOK /\ IInv /\ Exclusion /\ CallSizes /\ KnownSizes
<1>1. MDInit => Tracker!TInit /\ KnownSizes /\ CallSizes
  <2>1. MDInit => Init /\ CallSizes
    BY DEF MDInit, CallSizes, NoCall
  <2> QED BY <2>1, InitRefines
<1>2. MDTypeOK /\ IInv /\ CallSizes /\ KnownSizes /\ [MDNext]_allVars => CallSizes' /\ KnownSizes'
  BY NextCallSizes, NextLibrarySizes DEF IInv
<1>3. MDSpec => []J
  BY <1>1, <1>2, TrackerInLibrary, PTL DEF MDSpec
<1>4. J /\ J' /\ [MDNext]_allVars => [Tracker!TNext]_(Tracker!tvars)
  BY StepRefines, MDNextType
<1> QED BY <1>1, <1>3, <1>4, PTL DEF MDSpec, TrackerSpec, Tracker!TSpec
============================================================================
