------------------------ MODULE PointerData_proofs ------------------------
(***************************************************************************)
(* Proofs about PointerData: its type invariant, and that the frames of    *)
(* every tracked pointer are in the maps when GetList looks for them.      *)
(***************************************************************************)
EXTENDS PointerData, TLAPS, FiniteSetTheorems

(* What the counting argument needs of Cardinality.                        *)
LEMMA CardSubset ==
  ASSUME NEW S, NEW T, IsFiniteSet(S), T \subseteq S
  PROVE  /\ Cardinality(S) \in Nat /\ Cardinality(T) \in Nat
         /\ Cardinality(T) <= Cardinality(S)
BY FS_Subset, FS_CardinalityType

LEMMA CardPlusOne ==
  ASSUME NEW S, NEW T, NEW x, IsFiniteSet(S), T \subseteq S \cup {x}
  PROVE  /\ Cardinality(S) \in Nat /\ Cardinality(T) \in Nat
         /\ Cardinality(T) <= Cardinality(S) + 1
<1>1. /\ IsFiniteSet(S \cup {x})
      /\ Cardinality(S \cup {x}) = IF x \in S THEN Cardinality(S) ELSE Cardinality(S) + 1
  BY FS_AddElement
<1>2. Cardinality(S) \in Nat
  BY FS_CardinalityType
<1>3. Cardinality(T) \in Nat /\ Cardinality(T) <= Cardinality(S \cup {x})
  BY <1>1, CardSubset
<1> QED BY <1>1, <1>2, <1>3

LEMMA CardMinusOne ==
  ASSUME NEW S, NEW T, NEW x \in S, IsFiniteSet(S), T \subseteq S \ {x}
  PROVE  /\ Cardinality(S) \in Nat /\ Cardinality(T) \in Nat
         /\ Cardinality(T) <= Cardinality(S) - 1
<1>1. /\ IsFiniteSet(S \ {x})
      /\ Cardinality(S \ {x}) = Cardinality(S) - 1
  BY FS_RemoveElement
<1>2. Cardinality(S) \in Nat
  BY FS_CardinalityType
<1>3. Cardinality(T) \in Nat /\ Cardinality(T) <= Cardinality(S \ {x})
  BY <1>1, CardSubset
<1> QED BY <1>1, <1>2, <1>3

(* Only finitely many pointers and callers can count on an index.          *)
LEMMA UsersFinite ==
  ASSUME TypeOK, NEW h
  PROVE  IsFiniteSet(Kept(h)) /\ IsFiniteSet(Carried(h))
<1>1. IsFiniteSet(0 .. UINTPTR_MAX)
  BY FS_Interval, PointerAssumption
<1>2. Kept(h) \subseteq 0 .. UINTPTR_MAX
  BY DEF TypeOK, Kept
<1>3. Carried(h) \subseteq Caller
  BY DEF Carried
<1> QED BY <1>1, <1>2, <1>3, FS_Subset, CallerAssumption

----------------------------------------------------------------------------
LEMMA InitIInv == Init => IInv
<1> SUFFICES ASSUME Init PROVE IInv
  OBVIOUS
<1> USE DEF Init, kBacktraceEmptyIndex
<1>1. TypeOK
  BY PointerAssumption DEF TypeOK, Labels, NoArg, ArgType, MemType
<1>2. Interned /\ TracesTaken /\ IndicesBelow /\ UsersPresent /\ ReferencesCover
  BY DEF Interned, TracesTaken, IndicesBelow, UsersPresent, ReferencesCover
<1> QED BY <1>1, <1>2 DEF IInv

(* A step that leaves the maps alone, and no caller with a new index.      *)
LEMMA QuietStep ==
  ASSUME IInv, TypeOK', TracesTaken', UNCHANGED mapVars,
         \A c \in Caller : hash_index'[c] \in {hash_index[c], 0, kBacktraceEmptyIndex}
  PROVE  IInv'
<1> USE DEF kBacktraceEmptyIndex
<1>1. /\ UNCHANGED pointers_ /\ UNCHANGED key_to_index_ /\ UNCHANGED frames_
      /\ UNCHANGED backtraces_info_ /\ UNCHANGED cur_hash_index_
  BY DEF mapVars
<1>2. Interned' /\ IndicesBelow' /\ UsersPresent'
  BY <1>1 DEF IInv, Interned, IndicesBelow, UsersPresent
<1>3. ReferencesCover'
  <2> SUFFICES ASSUME NEW h \in DOMAIN frames_
               PROVE  frames_[h].references >= Cardinality(Kept(h)') + Cardinality(Carried(h)')
    BY <1>1 DEF ReferencesCover
  <2>1. Kept(h)' = Kept(h)
    BY <1>1 DEF Kept
  <2>2. Carried(h)' \subseteq Carried(h)
    BY DEF Carried, IInv, IndicesBelow
  <2>3. /\ Cardinality(Kept(h)) \in Nat
        /\ Cardinality(Carried(h)) \in Nat /\ Cardinality(Carried(h)') \in Nat
        /\ Cardinality(Carried(h)') <= Cardinality(Carried(h))
    BY <2>2, UsersFinite, CardSubset DEF IInv
  <2>4. /\ frames_[h].references \in Nat
        /\ frames_[h].references >= Cardinality(Kept(h)) + Cardinality(Carried(h))
    BY DEF IInv, ReferencesCover, TypeOK, FrameInfoType
  <2> QED BY <2>1, <2>3, <2>4
<1> QED BY <1>2, <1>3 DEF IInv

(* Steps that only move a caller on: calls, mutexes, unwinding, listings.  *)
LEMMA LockStep ==
  ASSUME IInv, NEW c \in Caller, NEW from \in Labels, NEW to \in Labels \ {"bt_lock"},
         to = "bt_held" => from = "bt_lock",
         LockPointers(c, from, to) \/ LockFrames(c, from, to)
  PROVE  IInv'
<1> USE DEF LockPointers, LockFrames, Goto, dataVars, mapVars, counterVars, currentVars, peakVars
<1>1. TypeOK'
  BY DEF IInv, TypeOK
<1>2. TracesTaken'
  BY DEF IInv, TypeOK, TracesTaken
<1>3. UNCHANGED mapVars /\ UNCHANGED hash_index
  OBVIOUS
<1> QED BY <1>1, <1>2, <1>3, QuietStep

(* The calls with any arguments of the right type: the lemmas cover the    *)
(* debug_ functions too, which add the results of failed system calls.     *)
AnyCall(c) ==
  \/ \E p \in 0 .. UINTPTR_MAX, s \in Nat, t \in MemType : CallAdd(c, p, s, t)
  \/ \E p \in 0 .. UINTPTR_MAX : CallRemove(c, p)
  \/ CallDump(c)
  \/ CallPeakInfo(c)

AnyNext == \E c \in Caller : AnyCall(c) \/ Step(c)

LEMMA NextIsAny == [Next]_vars => [AnyNext]_vars
BY PointerAssumption, SizeAssumption DEF Next, AnyNext, Call, AnyCall

LEMMA CallStep ==
  ASSUME IInv, NEW c \in Caller, AnyCall(c)
  PROVE  IInv'
<1> USE DEF Goto, dataVars, mapVars, counterVars, currentVars, peakVars
<1>1. \E a \in ArgType, l \in Labels \ {"bt_lock", "bt_held"} :
         /\ arg' = [arg EXCEPT ![c] = a] /\ pc' = [pc EXCEPT ![c] = l]
         /\ UNCHANGED << dataVars, pointer_mutex_, frame_mutex_, hash_index, report >>
  <2>1. CASE \E p \in 0 .. UINTPTR_MAX, s \in Nat, t \in MemType : CallAdd(c, p, s, t)
    BY <2>1 DEF CallAdd, ArgType, Labels
  <2>2. CASE \E p \in 0 .. UINTPTR_MAX : CallRemove(c, p)
    BY <2>2 DEF CallRemove, ArgType, Labels, NoArg, MemType
  <2>3. CASE CallDump(c) \/ CallPeakInfo(c)
    <3>1. arg' = [arg EXCEPT ![c] = arg[c]] /\ arg[c] \in ArgType
      BY <2>3 DEF CallDump, CallPeakInfo, IInv, TypeOK
    <3> QED BY <2>3, <3>1 DEF CallDump, CallPeakInfo, Labels
  <2> QED BY <2>1, <2>2, <2>3 DEF AnyCall
<1>2. TypeOK'
  BY <1>1 DEF IInv, TypeOK
<1>3. TracesTaken'
  BY <1>1 DEF IInv, TypeOK, TracesTaken
<1>4. UNCHANGED mapVars /\ UNCHANGED hash_index
  BY <1>1
<1> QED BY <1>2, <1>3, <1>4, QuietStep

LEMMA ListingStep ==
  ASSUME IInv, NEW c \in Caller,
         \/ RecordPeakList(c) \/ CollectList(c) \/ PrintList(c) \/ DumpPeakInfo(c)
         \/ RemoveUntracked(c)
  PROVE  IInv'
<1> USE DEF RecordPeakList, CollectList, PrintList, DumpPeakInfo, RemoveUntracked, Goto,
            dataVars, mapVars, counterVars, currentVars, peakVars
<1>1. NoArg \in ArgType
  BY PointerAssumption DEF NoArg, ArgType, MemType
<1>2. TypeOK'
  BY <1>1 DEF IInv, TypeOK, Labels
<1>3. TracesTaken'
  BY DEF IInv, TypeOK, TracesTaken
<1>4. UNCHANGED mapVars /\ UNCHANGED hash_index
  OBVIOUS
<1> QED BY <1>2, <1>3, <1>4, QuietStep

LEMMA UnwindStep ==
  ASSUME IInv, NEW c \in Caller, UnwindOk(c) \/ NoBacktrace(c) \/ UnwindExit(c)
  PROVE  IInv'
<1> USE DEF UnwindOk, NoBacktrace, UnwindExit, Goto, kBacktraceEmptyIndex,
            dataVars, mapVars, counterVars, currentVars, peakVars
<1>1. NoArg \in ArgType
  BY PointerAssumption DEF NoArg, ArgType, MemType
<1>2. arg' \in [Caller -> ArgType]
  BY <1>1 DEF IInv, TypeOK, ArgType
<1>3. TypeOK'
  BY <1>2 DEF IInv, TypeOK, Labels
<1>4. TracesTaken'
  BY DEF IInv, TypeOK, TracesTaken, ArgType
<1>5. UNCHANGED mapVars /\ \A d \in Caller : hash_index'[d] \in {hash_index[d], 1}
  BY DEF IInv, TypeOK
<1> QED BY <1>3, <1>4, <1>5, QuietStep

(* A backtrace that is already known: one more reference, one more holder. *)
LEMMA KnownBacktraceStep ==
  ASSUME IInv, NEW c \in Caller, AddBacktrace(c), arg[c].frames \in DOMAIN key_to_index_
  PROVE  IInv'
<1> DEFINE g == key_to_index_[arg[c].frames]
           e == frames_[g]
<1>1. g \in DOMAIN frames_ /\ g \in Nat /\ g > 1 /\ e \in FrameInfoType
  BY DEF IInv, Interned, TypeOK, IndicesBelow, kBacktraceEmptyIndex
<1>2. /\ frames_' = [frames_ EXCEPT ![g] = [references |-> e.references + 1, frames |-> e.frames]]
      /\ UNCHANGED << key_to_index_, backtraces_info_, cur_hash_index_, pointers_ >>
      /\ hash_index' = [hash_index EXCEPT ![c] = g]
      /\ pc' = [pc EXCEPT ![c] = "add_lock"] /\ frame_mutex_' = NoCaller
      /\ UNCHANGED << counterVars, peak_list_, pointer_mutex_, arg, report >>
  BY <1>1 DEF AddBacktrace, KnownBacktrace, Put, FrameInfo, Goto, FrameInfoType, IInv, TypeOK
<1> USE DEF counterVars, currentVars, peakVars
<1>3. TypeOK'
  BY <1>1, <1>2 DEF IInv, TypeOK, FrameInfoType, Labels
<1>4. DOMAIN frames_' = DOMAIN frames_ /\ \A h \in DOMAIN frames_ : frames_'[h].frames = frames_[h].frames
  BY <1>1, <1>2
<1>5. Interned' /\ IndicesBelow'
  BY <1>2, <1>4 DEF IInv, Interned, IndicesBelow
<1>6. TracesTaken' /\ UsersPresent'
  BY <1>1, <1>2, <1>4 DEF IInv, TypeOK, TracesTaken, UsersPresent
<1>7. ReferencesCover'
  <2> SUFFICES ASSUME NEW h \in DOMAIN frames_
               PROVE  frames_'[h].references >= Cardinality(Kept(h)') + Cardinality(Carried(h)')
    BY <1>4 DEF ReferencesCover
  <2>1. IsFiniteSet(Kept(h)) /\ IsFiniteSet(Carried(h))
    BY UsersFinite DEF IInv
  <2>2. Kept(h)' = Kept(h) /\ Cardinality(Kept(h)) \in Nat
    BY <1>2, <2>1, CardSubset DEF Kept
  <2>3. /\ frames_[h].references \in Nat
        /\ frames_[h].references >= Cardinality(Kept(h)) + Cardinality(Carried(h))
    BY DEF IInv, ReferencesCover, TypeOK, FrameInfoType
  <2>4. CASE h = g
    <3>1. Carried(h)' \subseteq Carried(h) \cup {c}
      BY <1>2 DEF Carried, IInv, TypeOK
    <3>2. frames_'[h].references = frames_[h].references + 1
      BY <1>1, <1>2, <2>4
    <3>3. /\ Cardinality(Carried(h)) \in Nat /\ Cardinality(Carried(h)') \in Nat
          /\ Cardinality(Carried(h)') <= Cardinality(Carried(h)) + 1
      BY <2>1, <3>1, CardPlusOne
    <3> QED BY <2>2, <2>3, <3>2, <3>3
  <2>5. CASE h # g
    <3>1. Carried(h)' \subseteq Carried(h)
      BY <1>2, <2>5 DEF Carried, IInv, TypeOK
    <3>2. frames_'[h] = frames_[h]
      BY <1>1, <1>2, <2>5
    <3>3. /\ Cardinality(Carried(h)) \in Nat /\ Cardinality(Carried(h)') \in Nat
          /\ Cardinality(Carried(h)') <= Cardinality(Carried(h))
      BY <2>1, <3>1, CardSubset
    <3> QED BY <2>2, <2>3, <3>2, <3>3
  <2> QED BY <2>4, <2>5
<1> QED BY <1>3, <1>5, <1>6, <1>7 DEF IInv

(* A new backtrace: its index is not in use anywhere yet.                  *)
LEMMA NewBacktraceStep ==
  ASSUME IInv, NEW c \in Caller, AddBacktrace(c), arg[c].frames \notin DOMAIN key_to_index_
  PROVE  IInv'
<1> DEFINE g == cur_hash_index_
           b == arg[c].frames
<1>1. g \in Nat /\ g > 1 /\ g \notin DOMAIN frames_ /\ b \in Backtrace
  BY DEF IInv, TypeOK, IndicesBelow, kBacktraceEmptyIndex, TracesTaken, AddBacktrace
<1>2. /\ frames_' = Put(frames_, g, [references |-> 1, frames |-> b])
      /\ key_to_index_' = Put(key_to_index_, b, g)
      /\ backtraces_info_' = Put(backtraces_info_, g, b)
      /\ cur_hash_index_' = g + 1
      /\ hash_index' = [hash_index EXCEPT ![c] = g]
      /\ pc' = [pc EXCEPT ![c] = "add_lock"] /\ frame_mutex_' = NoCaller
      /\ UNCHANGED << pointers_, counterVars, peak_list_, pointer_mutex_, arg, report >>
  BY DEF AddBacktrace, NewBacktrace, Goto
<1> USE DEF counterVars, currentVars, peakVars
<1>3. TypeOK'
  BY <1>1, <1>2 DEF IInv, TypeOK, FrameInfoType, Labels, Put
<1>4. Interned'
  BY <1>1, <1>2 DEF IInv, TypeOK, Interned, Put
<1>5. IndicesBelow'
  BY <1>1, <1>2 DEF IInv, TypeOK, IndicesBelow, Put, kBacktraceEmptyIndex
<1>6. TracesTaken' /\ UsersPresent'
  BY <1>1, <1>2 DEF IInv, TypeOK, TracesTaken, UsersPresent, Put
<1>7. ReferencesCover'
  <2> SUFFICES ASSUME NEW h \in DOMAIN frames_'
               PROVE  frames_'[h].references >= Cardinality(Kept(h)') + Cardinality(Carried(h)')
    BY DEF ReferencesCover
  <2>1. IsFiniteSet(Kept(h)) /\ IsFiniteSet(Carried(h))
    BY UsersFinite DEF IInv
  <2>2. Kept(h)' = Kept(h)
    BY <1>2 DEF Kept
  <2>3. CASE h = g
    <3>1. Kept(h) = {}
      BY <1>1, <2>3 DEF Kept, IInv, UsersPresent, kBacktraceEmptyIndex
    <3>2. Carried(h)' \subseteq {} \cup {c}
      BY <1>1, <1>2, <2>3 DEF Carried, IInv, TypeOK, UsersPresent, kBacktraceEmptyIndex
    <3>3. Cardinality(Kept(h)') = 0
      BY <2>2, <3>1, FS_EmptySet
    <3>5. Cardinality(Carried(h)') \in Nat /\ Cardinality(Carried(h)') <= Cardinality({}) + 1
      BY <3>2, FS_EmptySet, CardPlusOne
    <3>4. frames_'[h].references = 1
      BY <1>2, <2>3 DEF Put
    <3> QED BY <3>3, <3>4, <3>5, FS_EmptySet
  <2>4. CASE h # g
    <3>1. h \in DOMAIN frames_ /\ frames_'[h] = frames_[h]
      BY <1>2, <2>4 DEF Put
    <3>2. Carried(h)' \subseteq Carried(h)
      BY <1>2, <2>4 DEF Carried, IInv, TypeOK
    <3>3. /\ Cardinality(Kept(h)) \in Nat
          /\ Cardinality(Carried(h)) \in Nat /\ Cardinality(Carried(h)') \in Nat
          /\ Cardinality(Carried(h)') <= Cardinality(Carried(h))
      BY <2>1, <3>2, CardSubset
    <3>4. /\ frames_[h].references \in Nat
          /\ frames_[h].references >= Cardinality(Kept(h)) + Cardinality(Carried(h))
      BY <3>1 DEF IInv, ReferencesCover, TypeOK, FrameInfoType
    <3> QED BY <2>2, <3>1, <3>3, <3>4
  <2> QED BY <2>3, <2>4
<1> QED BY <1>3, <1>4, <1>5, <1>6, <1>7 DEF IInv

(* The caller's hold on its index becomes the tracked pointer's.           *)
LEMMA AddPointerStep ==
  ASSUME IInv, NEW c \in Caller, AddPointer(c)
  PROVE  IInv'
<1> DEFINE k == ManglePointer(arg[c].ptr)
           g == hash_index[c]
           e == [size |-> arg[c].size, hash_index |-> g, mem_type |-> arg[c].type]
<1> USE DEF counterVars, currentVars, peakVars, frameVars, kBacktraceEmptyIndex
<1>1. k \in 0 .. UINTPTR_MAX /\ e \in PointerInfoType
  BY PointerAssumption DEF ManglePointer, IInv, TypeOK, ArgType, PointerInfoType
<1>2. /\ pointers_' = Put(pointers_, k, e)
      /\ UNCHANGED << key_to_index_, frames_, backtraces_info_, cur_hash_index_ >>
      /\ hash_index' = [hash_index EXCEPT ![c] = 0]
      /\ arg' = [arg EXCEPT ![c] = NoArg]
      /\ pc' \in { [pc EXCEPT ![c] = "peak_lock"], [pc EXCEPT ![c] = "idle"] }
      /\ pointer_mutex_' \in {pointer_mutex_, NoCaller}
      /\ UNCHANGED << frame_mutex_, report >>
  BY DEF AddPointer, Goto
<1>3. TypeOK'
  <2>1. /\ {current_used_, current_host_, current_dma_}' \subseteq Int
        /\ {peak_tot_, peak_host_, peak_dma_}' \subseteq Nat
    BY DEF AddPointer, IInv, TypeOK, ArgType, HostPart, DmaPart, RaiseTo
  <2>2. DOMAIN pointers_' \subseteq 0 .. UINTPTR_MAX /\ pointers_' \in [DOMAIN pointers_' -> PointerInfoType]
    BY <1>1, <1>2 DEF IInv, TypeOK, Put
  <2>3. NoArg \in ArgType
    BY PointerAssumption DEF NoArg, ArgType, MemType
  <2> QED BY <1>2, <2>1, <2>2, <2>3 DEF IInv, TypeOK, Labels
<1>4. Interned' /\ IndicesBelow'
  BY <1>2 DEF IInv, Interned, IndicesBelow
<1>5. TracesTaken' /\ UsersPresent'
  BY <1>2 DEF IInv, TypeOK, TracesTaken, UsersPresent, Put
<1>6. ReferencesCover'
  <2> SUFFICES ASSUME NEW h \in DOMAIN frames_
               PROVE  frames_[h].references >= Cardinality(Kept(h)') + Cardinality(Carried(h)')
    BY <1>2 DEF ReferencesCover
  <2>1. IsFiniteSet(Kept(h)) /\ IsFiniteSet(Carried(h))
    BY UsersFinite DEF IInv
  <2>2. /\ frames_[h].references \in Nat
        /\ frames_[h].references >= Cardinality(Kept(h)) + Cardinality(Carried(h))
    BY DEF IInv, ReferencesCover, TypeOK, FrameInfoType
  <2>3. h > 1
    BY DEF IInv, IndicesBelow
  <2>4. CASE h = g
    <3>1. Kept(h)' \subseteq Kept(h) \cup {k}
      BY <1>2 DEF Kept, Put
    <3>2. c \in Carried(h) /\ Carried(h)' \subseteq Carried(h) \ {c}
      BY <1>2, <2>3, <2>4 DEF Carried, IInv, TypeOK
    <3>3. /\ Cardinality(Kept(h)) \in Nat /\ Cardinality(Kept(h)') \in Nat
          /\ Cardinality(Kept(h)') <= Cardinality(Kept(h)) + 1
      BY <2>1, <3>1, CardPlusOne
    <3>4. /\ Cardinality(Carried(h)) \in Nat /\ Cardinality(Carried(h)') \in Nat
          /\ Cardinality(Carried(h)') <= Cardinality(Carried(h)) - 1
      BY <2>1, <3>2, CardMinusOne
    <3> QED BY <2>2, <3>3, <3>4
  <2>5. CASE h # g
    <3>1. Kept(h)' \subseteq Kept(h)
      BY <1>2, <2>5 DEF Kept, Put
    <3>2. Carried(h)' \subseteq Carried(h)
      BY <1>2, <2>3 DEF Carried, IInv, TypeOK
    <3>3. /\ Cardinality(Kept(h)) \in Nat /\ Cardinality(Kept(h)') \in Nat
          /\ Cardinality(Kept(h)') <= Cardinality(Kept(h))
      BY <2>1, <3>1, CardSubset
    <3>4. /\ Cardinality(Carried(h)) \in Nat /\ Cardinality(Carried(h)') \in Nat
          /\ Cardinality(Carried(h)') <= Cardinality(Carried(h))
      BY <2>1, <3>2, CardSubset
    <3> QED BY <2>2, <3>3, <3>4
  <2> QED BY <2>4, <2>5
<1> QED BY <1>3, <1>4, <1>5, <1>6 DEF IInv

(* The tracked pointer's hold becomes the caller's.                        *)
LEMMA RemovePointerStep ==
  ASSUME IInv, NEW c \in Caller, RemovePointer(c)
  PROVE  IInv'
<1> DEFINE k == ManglePointer(arg[c].ptr)
           g == pointers_[k].hash_index
<1> USE DEF counterVars, currentVars, peakVars, frameVars, kBacktraceEmptyIndex
<1>1. k \in DOMAIN pointers_ /\ pointers_[k] \in PointerInfoType /\ g \in Nat
  BY DEF RemovePointer, IInv, TypeOK, PointerInfoType
<1>2. /\ pointers_' = Erase(pointers_, k)
      /\ UNCHANGED << key_to_index_, frames_, backtraces_info_, cur_hash_index_ >>
      /\ \/ g <= 1 /\ UNCHANGED hash_index
         \/ g > 1 /\ hash_index' = [hash_index EXCEPT ![c] = g]
      /\ arg' = [arg EXCEPT ![c] = NoArg]
      /\ pc' \in { [pc EXCEPT ![c] = "rmbt_lock"], [pc EXCEPT ![c] = "idle"] }
      /\ pointer_mutex_' = NoCaller
      /\ UNCHANGED << peakVars, frame_mutex_, report >>
  BY <1>1 DEF RemovePointer, Goto
<1>3. TypeOK'
  <2>1. {current_used_, current_host_, current_dma_}' \subseteq Int
    BY <1>1 DEF RemovePointer, IInv, TypeOK, PointerInfoType, HostPart, DmaPart
  <2>2. DOMAIN pointers_' \subseteq 0 .. UINTPTR_MAX /\ pointers_' \in [DOMAIN pointers_' -> PointerInfoType]
    BY <1>2 DEF IInv, TypeOK, Erase
  <2>3. NoArg \in ArgType
    BY PointerAssumption DEF NoArg, ArgType, MemType
  <2> QED BY <1>1, <1>2, <2>1, <2>2, <2>3 DEF IInv, TypeOK, Labels
<1>4. Interned' /\ IndicesBelow'
  BY <1>2 DEF IInv, Interned, IndicesBelow
<1>5. TracesTaken' /\ UsersPresent'
  BY <1>1, <1>2 DEF IInv, TypeOK, TracesTaken, UsersPresent, Erase
<1>6. ReferencesCover'
  <2> SUFFICES ASSUME NEW h \in DOMAIN frames_
               PROVE  frames_[h].references >= Cardinality(Kept(h)') + Cardinality(Carried(h)')
    BY <1>2 DEF ReferencesCover
  <2>1. IsFiniteSet(Kept(h)) /\ IsFiniteSet(Carried(h))
    BY UsersFinite DEF IInv
  <2>2. /\ frames_[h].references \in Nat
        /\ frames_[h].references >= Cardinality(Kept(h)) + Cardinality(Carried(h))
    BY DEF IInv, ReferencesCover, TypeOK, FrameInfoType
  <2>3. CASE h = g
    <3>1. k \in Kept(h) /\ Kept(h)' \subseteq Kept(h) \ {k}
      BY <1>1, <1>2, <2>3 DEF Kept, Erase
    <3>2. Carried(h)' \subseteq Carried(h) \cup {c}
      BY <1>2 DEF Carried, IInv, TypeOK
    <3>3. /\ Cardinality(Kept(h)) \in Nat /\ Cardinality(Kept(h)') \in Nat
          /\ Cardinality(Kept(h)') <= Cardinality(Kept(h)) - 1
      BY <2>1, <3>1, CardMinusOne
    <3>4. /\ Cardinality(Carried(h)) \in Nat /\ Cardinality(Carried(h)') \in Nat
          /\ Cardinality(Carried(h)') <= Cardinality(Carried(h)) + 1
      BY <2>1, <3>2, CardPlusOne
    <3> QED BY <2>2, <3>3, <3>4
  <2>4. CASE h # g
    <3>1. Kept(h)' \subseteq Kept(h)
      BY <1>2 DEF Kept, Erase
    <3>2. Carried(h)' \subseteq Carried(h)
      BY <1>2, <2>4 DEF Carried, IInv, TypeOK
    <3>3. /\ Cardinality(Kept(h)) \in Nat /\ Cardinality(Kept(h)') \in Nat
          /\ Cardinality(Kept(h)') <= Cardinality(Kept(h))
      BY <2>1, <3>1, CardSubset
    <3>4. /\ Cardinality(Carried(h)) \in Nat /\ Cardinality(Carried(h)') \in Nat
          /\ Cardinality(Carried(h)') <= Cardinality(Carried(h))
      BY <2>1, <3>2, CardSubset
    <3> QED BY <2>2, <3>3, <3>4
  <2> QED BY <2>3, <2>4
<1> QED BY <1>3, <1>4, <1>5, <1>6 DEF IInv

(* The last reference is the caller's own: when it frees the frames no     *)
(* tracked pointer and no other caller has the index.                      *)
LEMMA LastReference ==
  ASSUME IInv, NEW c \in Caller, NEW g \in DOMAIN frames_, g = hash_index[c],
         frames_[g].references = 1
  PROVE  Kept(g) = {} /\ Carried(g) = {c}
<1>1. IsFiniteSet(Kept(g)) /\ IsFiniteSet(Carried(g))
  BY UsersFinite DEF IInv
<1>2. c \in Carried(g)
  BY DEF Carried
<1>3. Cardinality(Kept(g)) \in Nat /\ Cardinality(Carried(g)) \in Nat
  BY <1>1, FS_CardinalityType
<1>4. Cardinality(Carried(g)) # 0
  BY <1>1, <1>2, FS_EmptySet
<1>5. 1 >= Cardinality(Kept(g)) + Cardinality(Carried(g))
  BY DEF IInv, ReferencesCover
<1>6. Cardinality(Kept(g)) = 0 /\ Cardinality(Carried(g)) = 1
  BY <1>3, <1>4, <1>5
<1>7. Kept(g) = {}
  BY <1>1, <1>6, FS_EmptySet
<1>8. \E x : Carried(g) = {x}
  BY <1>1, <1>6, FS_Singleton
<1> QED BY <1>2, <1>7, <1>8

LEMMA FreeFramesStep ==
  ASSUME IInv, NEW c \in Caller, RemoveBacktrace(c), hash_index[c] \in DOMAIN frames_,
         frames_[hash_index[c]].references = 1
  PROVE  IInv'
<1> DEFINE g == hash_index[c]
           b == frames_[g].frames
<1> USE DEF counterVars, currentVars, peakVars, kBacktraceEmptyIndex
<1>1. Kept(g) = {} /\ Carried(g) = {c}
  BY LastReference
<1>2. /\ key_to_index_' = Erase(key_to_index_, b) /\ frames_' = Erase(frames_, g)
      /\ backtraces_info_' = Erase(backtraces_info_, g)
      /\ hash_index' = [hash_index EXCEPT ![c] = 0]
      /\ pc' = [pc EXCEPT ![c] = "idle"] /\ frame_mutex_' = NoCaller
      /\ UNCHANGED << pointers_, cur_hash_index_, counterVars, peak_list_,
                      pointer_mutex_, arg, report >>
  BY DEF RemoveBacktrace, DropReference, Goto
<1>3. TypeOK'
  BY <1>2 DEF IInv, TypeOK, Erase, Labels
<1>4. Interned'
  BY <1>2 DEF IInv, TypeOK, Interned, Erase
<1>5. IndicesBelow' /\ TracesTaken'
  BY <1>2 DEF IInv, TypeOK, IndicesBelow, TracesTaken, Erase
<1>6. UsersPresent'
  BY <1>1, <1>2 DEF IInv, TypeOK, UsersPresent, Kept, Carried, Erase
<1>7. ReferencesCover'
  <2> SUFFICES ASSUME NEW h \in DOMAIN frames_'
               PROVE  frames_'[h].references >= Cardinality(Kept(h)') + Cardinality(Carried(h)')
    BY DEF ReferencesCover
  <2>1. h \in DOMAIN frames_ /\ h # g /\ frames_'[h] = frames_[h] /\ h > 1
    BY <1>2 DEF Erase, IInv, IndicesBelow
  <2>2. Kept(h)' = Kept(h) /\ Carried(h)' = Carried(h)
    BY <1>2, <2>1 DEF Kept, Carried, IInv, TypeOK
  <2> QED BY <2>1, <2>2 DEF IInv, ReferencesCover
<1> QED BY <1>3, <1>4, <1>5, <1>6, <1>7 DEF IInv

LEMMA KeepFramesStep ==
  ASSUME IInv, NEW c \in Caller, RemoveBacktrace(c),
         NEW g \in DOMAIN frames_, g = hash_index[c], frames_[g].references # 1
  PROVE  IInv'
<1> USE DEF counterVars, currentVars, peakVars, kBacktraceEmptyIndex
<1>1. /\ frames_' = [frames_ EXCEPT ![g] = [ references |-> frames_[g].references - 1,
                                           frames     |-> frames_[g].frames ]]
      /\ UNCHANGED << key_to_index_, backtraces_info_ >>
      /\ hash_index' = [hash_index EXCEPT ![c] = 0]
      /\ pc' = [pc EXCEPT ![c] = "idle"] /\ frame_mutex_' = NoCaller
      /\ UNCHANGED << pointers_, cur_hash_index_, counterVars, peak_list_,
                      pointer_mutex_, arg, report >>
  BY DEF RemoveBacktrace, DropReference, Goto, Put, IInv, TypeOK
<1>2. IsFiniteSet(Kept(g)) /\ IsFiniteSet(Carried(g)) /\ c \in Carried(g)
  BY UsersFinite DEF IInv, Carried
<1>3. \A h \in DOMAIN frames_ :
        /\ frames_[h].references \in Nat
        /\ frames_[h].references >= Cardinality(Kept(h)) + Cardinality(Carried(h))
  BY DEF IInv, ReferencesCover, TypeOK, FrameInfoType
<1>4. /\ Cardinality(Kept(g)) \in Nat /\ Cardinality(Carried(g)) \in Nat
      /\ Cardinality(Carried(g)') \in Nat
      /\ Cardinality(Carried(g)') <= Cardinality(Carried(g)) - 1
      /\ Kept(g)' = Kept(g)
  <2>1. g > 1
    BY DEF IInv, IndicesBelow
  <2>2. Carried(g)' \subseteq Carried(g) \ {c}
    BY <1>1, <2>1 DEF Carried, IInv, TypeOK
  <2>3. Kept(g)' = Kept(g)
    BY <1>1 DEF Kept
  <2> QED BY <1>2, <2>2, <2>3, CardMinusOne, CardSubset
<1>5. frames_[g].references \in Nat /\ frames_[g].references > 1
  <2>1. /\ frames_[g].references \in Nat
        /\ frames_[g].references >= Cardinality(Kept(g)) + Cardinality(Carried(g))
    BY <1>3
  <2>2. Cardinality(Kept(g)) + Cardinality(Carried(g)) >= 1
    BY <1>4
  <2> QED BY <1>4, <2>1, <2>2
<1>6. TypeOK'
  BY <1>1, <1>5 DEF IInv, TypeOK, FrameInfoType, Labels
<1>7. DOMAIN frames_' = DOMAIN frames_ /\ \A h \in DOMAIN frames_ : frames_'[h].frames = frames_[h].frames
  BY <1>1 DEF IInv, TypeOK, FrameInfoType
<1>8. Interned' /\ IndicesBelow'
  BY <1>1, <1>7 DEF IInv, Interned, IndicesBelow
<1>9. TracesTaken' /\ UsersPresent'
  BY <1>1, <1>7 DEF IInv, TypeOK, TracesTaken, UsersPresent
<1>10. ReferencesCover'
  <2> SUFFICES ASSUME NEW h \in DOMAIN frames_
               PROVE  frames_'[h].references >= Cardinality(Kept(h)') + Cardinality(Carried(h)')
    BY <1>7 DEF ReferencesCover
  <2>1. CASE h = g
    <3>1. frames_'[h].references = frames_[h].references - 1
      BY <1>1, <2>1 DEF IInv, TypeOK, FrameInfoType
    <3> QED BY <1>3, <1>4, <2>1, <3>1
  <2>2. CASE h # g
    <3>1. frames_'[h] = frames_[h]
      BY <1>1, <2>2
    <3>2. h > 1
      BY DEF IInv, IndicesBelow
    <3>3. Kept(h)' = Kept(h) /\ Carried(h)' = Carried(h)
      BY <1>1, <2>2, <3>2 DEF Kept, Carried, IInv, TypeOK
    <3> QED BY <1>3, <3>1, <3>3
  <2> QED BY <2>1, <2>2
<1> QED BY <1>6, <1>8, <1>9, <1>10 DEF IInv

LEMMA RemoveBacktraceStep ==
  ASSUME IInv, NEW c \in Caller, RemoveBacktrace(c)
  PROVE  IInv'
<1>1. CASE hash_index[c] \in DOMAIN frames_
  BY <1>1, FreeFramesStep, KeepFramesStep
<1>2. CASE hash_index[c] \notin DOMAIN frames_
  <2> USE DEF RemoveBacktrace, Goto, mapVars, counterVars, currentVars, peakVars
  <2>1. TypeOK' /\ TracesTaken'
    BY <1>2 DEF IInv, TypeOK, TracesTaken, Labels
  <2>2. UNCHANGED mapVars /\ \A d \in Caller : hash_index'[d] \in {hash_index[d], 0}
    BY <1>2 DEF IInv, TypeOK
  <2> QED BY <2>1, <2>2, QuietStep
<1> QED BY <1>1, <1>2

----------------------------------------------------------------------------
LEMMA StepIInv ==
  ASSUME IInv, NEW c \in Caller, Step(c)
  PROVE  IInv'
<1>1. CASE AddStep(c)
  BY <1>1, LockStep, UnwindStep, KnownBacktraceStep, NewBacktraceStep, AddPointerStep,
     ListingStep DEF AddStep, Labels
<1>2. CASE RemoveStep(c)
  BY <1>2, LockStep, ListingStep, RemovePointerStep, RemoveBacktraceStep DEF RemoveStep, Labels
<1>3. CASE DumpStep(c)
  BY <1>3, LockStep, ListingStep DEF DumpStep, Labels
<1> QED BY <1>1, <1>2, <1>3 DEF Step

LEMMA NextIInv == IInv /\ [AnyNext]_vars => IInv'
<1> SUFFICES ASSUME IInv, [AnyNext]_vars PROVE IInv'
  OBVIOUS
<1>1. CASE UNCHANGED vars
  <2> USE <1>1 DEF vars, dataVars, mapVars, counterVars, currentVars, peakVars, callerVars
  <2>1. TypeOK' /\ TracesTaken'
    BY DEF IInv, TypeOK, TracesTaken
  <2>2. UNCHANGED mapVars /\ UNCHANGED hash_index
    OBVIOUS
  <2> QED BY <2>1, <2>2, QuietStep
<1>2. CASE AnyNext
  BY <1>2, CallStep, StepIInv DEF AnyNext
<1> QED BY <1>1, <1>2

(* The inductive invariant holds of every behaviour of PointerData, for    *)
(* any number of callers, pointers, sizes and backtraces.                  *)
THEOREM Invariance == Spec => []IInv
BY InitIInv, NextIInv, NextIsAny, PTL DEF Spec

(* The maps, counters and locals keep their types.                         *)
THEOREM Typing == Spec => []TypeOK
<1>1. IInv => TypeOK
  BY DEF IInv
<1> QED BY <1>1, Invariance, PTL

(* GetList always finds the frames and the symbolised backtrace of a       *)
(* tracked pointer: the unchecked find() of PointerData::GetList is safe.  *)
THEOREM FramesAlwaysPresent == Spec => []FramesPresent
<1>1. IInv => FramesPresent
  BY DEF IInv, FramesPresent, UsersPresent, TypeOK
<1> QED BY <1>1, Invariance, PTL

(* References are never fewer than the users of an index.                  *)
THEOREM ReferencesSuffice == Spec => []ReferencesCover
<1>1. IInv => ReferencesCover
  BY DEF IInv
<1> QED BY <1>1, Invariance, PTL

(* Each backtrace is kept under one index.                                 *)
THEOREM OneIndexPerBacktrace == Spec => []Interned
<1>1. IInv => Interned
  BY DEF IInv
<1> QED BY <1>1, Invariance, PTL

----------------------------------------------------------------------------
(* The counters.  The total is the sum of the two others, which is what    *)
(* bounds a new total peak by the two other peaks.                         *)
Balanced == current_used_ = current_host_ + current_dma_

LEMMA AddPeaks ==
  ASSUME TypeOK, Balanced, PeaksBound, NEW c \in Caller, AddPointer(c)
  PROVE  Balanced' /\ PeaksBound'
<1> DEFINE a == arg[c]
<1>1. /\ a.size \in Nat
      /\ HostPart(a.size, a.type) \in Nat /\ DmaPart(a.size, a.type) \in Nat
      /\ a.size = HostPart(a.size, a.type) + DmaPart(a.size, a.type)
  BY DEF TypeOK, ArgType, HostPart, DmaPart
<1> QED BY <1>1 DEF TypeOK, Balanced, PeaksBound, AddPointer, RaiseTo

LEMMA RemovePeaks ==
  ASSUME TypeOK, Balanced, PeaksBound, NEW c \in Caller, RemovePointer(c)
  PROVE  Balanced' /\ PeaksBound'
<1> DEFINE e == pointers_[ManglePointer(arg[c].ptr)]
<1>1. /\ e.size \in Nat
      /\ HostPart(e.size, e.mem_type) \in Nat /\ DmaPart(e.size, e.mem_type) \in Nat
      /\ e.size = HostPart(e.size, e.mem_type) + DmaPart(e.size, e.mem_type)
  BY DEF TypeOK, RemovePointer, PointerInfoType, HostPart, DmaPart
<1> QED BY <1>1 DEF TypeOK, Balanced, PeaksBound, RemovePointer, peakVars

(* Only AddPointer and RemovePointer touch the counters.                   *)
LEMMA CountersKept ==
  ASSUME NEW c \in Caller, AnyCall(c) \/ Step(c), ~ AddPointer(c), ~ RemovePointer(c)
  PROVE  UNCHANGED counterVars
<1> USE DEF dataVars
<1>1. CASE AnyCall(c)
  BY <1>1 DEF AnyCall, CallAdd, CallRemove, CallDump, CallPeakInfo
<1>2. CASE AddStep(c)
  BY <1>2 DEF AddStep, UnwindOk, NoBacktrace, UnwindExit, AddBacktrace, RecordPeakList,
              LockFrames, LockPointers
<1>3. CASE RemoveStep(c)
  BY <1>3 DEF RemoveStep, RemoveUntracked, RemoveBacktrace, LockFrames, LockPointers
<1>4. CASE DumpStep(c)
  BY <1>4 DEF DumpStep, CollectList, PrintList, DumpPeakInfo, LockFrames, LockPointers
<1> QED BY <1>1, <1>2, <1>3, <1>4 DEF Step

LEMMA NextPeaks == TypeOK /\ Balanced /\ PeaksBound /\ [AnyNext]_vars => (Balanced /\ PeaksBound)'
<1> SUFFICES ASSUME TypeOK, Balanced, PeaksBound, [AnyNext]_vars PROVE (Balanced /\ PeaksBound)'
  OBVIOUS
<1>1. CASE UNCHANGED counterVars
  BY <1>1 DEF counterVars, currentVars, peakVars, Balanced, PeaksBound
<1>2. CASE UNCHANGED vars
  BY <1>1, <1>2 DEF vars, dataVars
<1>3. CASE AnyNext
  BY <1>1, <1>3, AddPeaks, RemovePeaks, CountersKept DEF AnyNext
<1> QED BY <1>2, <1>3

(* The peaks bound the counters, and the total peak the two others' sum.   *)
THEOREM PeaksAlwaysBound == Spec => []PeaksBound
<1>1. Init => Balanced /\ PeaksBound
  BY DEF Init, Balanced, PeaksBound
<1> QED BY <1>1, NextPeaks, Typing, NextIsAny, PTL DEF Spec

----------------------------------------------------------------------------
(* The mutexes.                                                            *)
LEMMA NextExclusion ==
  ASSUME TypeOK, Exclusion, NEW c \in Caller, AnyCall(c) \/ Step(c)
  PROVE  Exclusion'
<1> USE CallerAssumption DEF Exclusion, Goto, TypeOK, PointerSection, FrameSection
<1>1. CASE AnyCall(c)
  BY <1>1 DEF AnyCall, CallAdd, CallRemove, CallDump, CallPeakInfo
<1>2. CASE AddStep(c)
  <2>1. CASE UnwindOk(c) \/ NoBacktrace(c) \/ UnwindExit(c)
    BY <2>1 DEF UnwindOk, NoBacktrace, UnwindExit
  <2>2. CASE LockFrames(c, "bt_lock", "bt_held") \/ LockPointers(c, "add_lock", "add_held")
    BY <2>2 DEF LockFrames, LockPointers
  <2>3. CASE LockFrames(c, "peak_lock", "peak_held")
    BY <2>3 DEF LockFrames
  <2>4. CASE AddBacktrace(c)
    BY <2>4 DEF AddBacktrace
  <2>5. CASE AddPointer(c)
    BY <2>5 DEF AddPointer
  <2>6. CASE RecordPeakList(c)
    BY <2>6 DEF RecordPeakList
  <2> QED BY <1>2, <2>1, <2>2, <2>3, <2>4, <2>5, <2>6 DEF AddStep
<1>3. CASE RemoveStep(c)
  <2>1. CASE LockFrames(c, "rmbt_lock", "rmbt_held") \/ LockPointers(c, "rm_lock", "rm_held")
    BY <2>1 DEF LockFrames, LockPointers
  <2>2. CASE RemoveUntracked(c) \/ RemovePointer(c)
    BY <2>2 DEF RemoveUntracked, RemovePointer
  <2>3. CASE RemoveBacktrace(c)
    BY <2>3 DEF RemoveBacktrace
  <2> QED BY <1>3, <2>1, <2>2, <2>3 DEF RemoveStep
<1>4. CASE DumpStep(c)
  <2>1. CASE LockPointers(c, "dump_lock", "dump_lock2") \/ LockPointers(c, "info_lock", "info_held")
    BY <2>1 DEF LockPointers
  <2>2. CASE LockFrames(c, "dump_lock2", "dump_held")
    BY <2>2 DEF LockFrames
  <2>3. CASE CollectList(c)
    BY <2>3 DEF CollectList
  <2>4. CASE PrintList(c) \/ DumpPeakInfo(c)
    BY <2>4 DEF PrintList, DumpPeakInfo
  <2> QED BY <1>4, <2>1, <2>2, <2>3, <2>4 DEF DumpStep
<1> QED BY <1>1, <1>2, <1>3, <1>4 DEF Step

LEMMA AnyExclusion == TypeOK /\ Exclusion /\ [AnyNext]_vars => Exclusion'
<1> SUFFICES ASSUME TypeOK, Exclusion, [AnyNext]_vars PROVE Exclusion'
  OBVIOUS
<1>1. CASE UNCHANGED vars
  BY <1>1 DEF vars, callerVars, Exclusion
<1>2. CASE AnyNext
  BY <1>2, NextExclusion DEF AnyNext
<1> QED BY <1>1, <1>2

LEMMA ExclusionInvariant == Spec => []Exclusion
<1>1. Init => Exclusion
  BY CallerAssumption DEF Init, Exclusion, PointerSection, FrameSection
<1> QED BY <1>1, AnyExclusion, Typing, NextIsAny, PTL DEF Spec

(* While a caller prints, the two maps a listing reads can be changed by   *)
(* nobody: AddPointer and RemovePointer need pointer_mutex_, and the       *)
(* changes of the backtraces frame_mutex_.                                 *)
LEMMA ReportStep ==
  ASSUME TypeOK, Exclusion, ReportCurrent, NEW c \in Caller, AnyCall(c) \/ Step(c)
  PROVE  ReportCurrent'
<1> SUFFICES ASSUME "RECORD_MEMORY_PEAK" \notin Options, NEW d \in Caller, pc'[d] = "dump_print"
             PROVE  report'[d] = GetList(pointers_, backtraces_info_)'
  BY DEF ReportCurrent
<1> USE DEF Goto, dataVars, mapVars, frameVars, TypeOK
<1>1. CASE CollectList(c) /\ d = c
  BY <1>1 DEF CollectList
<1>2. CASE ~ (CollectList(c) /\ d = c)
  <2>1. d # c /\ pc[d] = "dump_print"
    <3>1. CASE AnyCall(c)
      BY <1>2, <3>1 DEF AnyCall, CallAdd, CallRemove, CallDump, CallPeakInfo
    <3>2. CASE AddStep(c)
      BY <1>2, <3>2 DEF AddStep, UnwindOk, NoBacktrace, UnwindExit, AddBacktrace, AddPointer,
                        RecordPeakList, LockFrames, LockPointers
    <3>3. CASE RemoveStep(c)
      BY <1>2, <3>3 DEF RemoveStep, RemoveUntracked, RemovePointer, RemoveBacktrace,
                        LockFrames, LockPointers
    <3>4. CASE DumpStep(c)
      BY <1>2, <3>4 DEF DumpStep, CollectList, PrintList, DumpPeakInfo, LockFrames, LockPointers
    <3> QED BY <3>1, <3>2, <3>3, <3>4 DEF Step
  <2>2. /\ pc[c] \notin {"add_held", "rm_held", "bt_held", "rmbt_held", "dump_held", "dump_print"}
        /\ report[d] = GetList(pointers_, backtraces_info_)
    BY <2>1 DEF Exclusion, PointerSection, FrameSection, ReportCurrent
  <2>3. UNCHANGED pointers_ /\ UNCHANGED backtraces_info_ /\ report'[d] = report[d]
    <3>1. CASE AnyCall(c)
      BY <2>1, <3>1 DEF AnyCall, CallAdd, CallRemove, CallDump, CallPeakInfo
    <3>2. CASE AddStep(c)
      BY <2>1, <2>2, <3>2 DEF AddStep, UnwindOk, NoBacktrace, UnwindExit, AddBacktrace, AddPointer,
                        RecordPeakList, LockFrames, LockPointers
    <3>3. CASE RemoveStep(c)
      BY <2>1, <2>2, <3>3 DEF RemoveStep, RemoveUntracked, RemovePointer, RemoveBacktrace,
                        LockFrames, LockPointers
    <3>4. CASE DumpStep(c)
      BY <2>1, <2>2, <3>4 DEF DumpStep, CollectList, PrintList, DumpPeakInfo, LockFrames, LockPointers
    <3> QED BY <3>1, <3>2, <3>3, <3>4 DEF Step
  <2> QED BY <2>2, <2>3
<1> QED BY <1>1, <1>2

LEMMA NextReport == TypeOK /\ Exclusion /\ ReportCurrent /\ [AnyNext]_vars => ReportCurrent'
<1> SUFFICES ASSUME TypeOK, Exclusion, ReportCurrent, [AnyNext]_vars PROVE ReportCurrent'
  OBVIOUS
<1>1. CASE UNCHANGED vars
  BY <1>1 DEF vars, dataVars, mapVars, callerVars, ReportCurrent
<1>2. CASE AnyNext
  BY <1>2, ReportStep DEF AnyNext
<1> QED BY <1>1, <1>2

(* What a dump prints is what is live for as long as it prints.            *)
THEOREM ReportsStayCurrent == Spec => []ReportCurrent
<1>1. Init => ReportCurrent
  BY DEF Init, ReportCurrent
<1> QED BY <1>1, NextReport, Typing, ExclusionInvariant, NextIsAny, PTL DEF Spec

----------------------------------------------------------------------------
(* From a new peak to its listing the counters stand still: the section    *)
(* keeps pointer_mutex_ while it waits for frame_mutex_.                   *)
AtPeak ==
  \A c \in Caller : pc[c] \in {"peak_lock", "peak_held"} => current_used_ = peak_tot_

LEMMA NextAtPeak == TypeOK /\ Exclusion /\ AtPeak /\ [AnyNext]_vars => AtPeak'
<1> SUFFICES ASSUME TypeOK, Exclusion, AtPeak, [AnyNext]_vars,
                    NEW d \in Caller, pc'[d] \in {"peak_lock", "peak_held"}
             PROVE  current_used_' = peak_tot_'
  BY DEF AtPeak
<1> USE DEF Goto, TypeOK
<1>1. ASSUME NEW c \in Caller, AddPointer(c) PROVE current_used_' = peak_tot_'
  <2>1. CASE d = c
    <3>1. RecordsPeak(current_used_ + arg[c].size)
      BY <1>1, <2>1 DEF AddPointer
    <3> QED BY <1>1, <3>1 DEF AddPointer, RecordsPeak, RaiseTo, ArgType
  <2>2. CASE d # c
    BY <1>1, <2>2 DEF AddPointer, Exclusion, PointerSection
  <2> QED BY <2>1, <2>2
<1>2. ASSUME NEW c \in Caller, RemovePointer(c) PROVE current_used_' = peak_tot_'
  <2>1. d # c /\ pc[d] \in {"peak_lock", "peak_held"}
    BY <1>2 DEF RemovePointer
  <2> QED BY <1>2, <2>1 DEF RemovePointer, Exclusion, PointerSection
<1>3. ASSUME NEW c \in Caller, AnyCall(c) \/ Step(c), ~ AddPointer(c), ~ RemovePointer(c)
      PROVE  current_used_' = peak_tot_'
  <2>1. UNCHANGED << current_used_, peak_tot_ >>
    BY <1>3, CountersKept DEF counterVars, currentVars, peakVars
  <2>2. pc[d] \in {"peak_lock", "peak_held"}
    <3>1. CASE AnyCall(c)
      BY <3>1 DEF AnyCall, CallAdd, CallRemove, CallDump, CallPeakInfo
    <3>2. CASE AddStep(c)
      BY <1>3, <3>2 DEF AddStep, UnwindOk, NoBacktrace, UnwindExit, AddBacktrace, RecordPeakList,
                        LockFrames, LockPointers
    <3>3. CASE RemoveStep(c)
      BY <1>3, <3>3 DEF RemoveStep, RemoveUntracked, RemoveBacktrace, LockFrames, LockPointers
    <3>4. CASE DumpStep(c)
      BY <3>4 DEF DumpStep, CollectList, PrintList, DumpPeakInfo, LockFrames, LockPointers
    <3> QED BY <1>3, <3>1, <3>2, <3>3, <3>4 DEF Step
  <2> QED BY <2>1, <2>2 DEF AtPeak
<1>4. CASE UNCHANGED vars
  BY <1>4 DEF vars, dataVars, counterVars, currentVars, peakVars, callerVars, AtPeak
<1> QED BY <1>1, <1>2, <1>3, <1>4 DEF AnyNext

(* The listing of the peak is of the very state that reached it: a step    *)
(* that gives peak_list_ a new value lists the maps as they stand with     *)
(* current_used_ at peak_tot_, or gives the list away whole to a dump.     *)
THEOREM PeakListOfPeak ==
  Spec => [][peak_list_' # peak_list_ =>
               \/ /\ current_used_ = peak_tot_ /\ UNCHANGED << pointers_, peak_tot_ >>
                  /\ peak_list_' = GetUniqueList(pointers_, frames_, backtraces_info_)
               \/ peak_list_' = << >>]_vars
<1> DEFINE A == peak_list_' # peak_list_ =>
                  \/ /\ current_used_ = peak_tot_ /\ UNCHANGED << pointers_, peak_tot_ >>
                     /\ peak_list_' = GetUniqueList(pointers_, frames_, backtraces_info_)
                  \/ peak_list_' = << >>
<1>1. Init => AtPeak
  BY DEF Init, AtPeak
<1>2. Spec => [](TypeOK /\ Exclusion /\ AtPeak)
  BY <1>1, NextAtPeak, Typing, ExclusionInvariant, NextIsAny, PTL DEF Spec
<1>3. AtPeak /\ [Next]_vars => [A]_vars
  <2> SUFFICES ASSUME AtPeak, Next PROVE A
    OBVIOUS
  <2> USE DEF dataVars
  <2>1. PICK c \in Caller : AnyCall(c) \/ Step(c)
    BY PointerAssumption, SizeAssumption DEF Next, Call, AnyCall
  <2>2. CASE RecordPeakList(c)
    BY <2>2 DEF RecordPeakList, AtPeak, mapVars, counterVars, peakVars
  <2>3. CASE CollectList(c)
    BY <2>3 DEF CollectList
  <2>4. CASE AnyCall(c)
    BY <2>4 DEF AnyCall, CallAdd, CallRemove, CallDump, CallPeakInfo
  <2>5. CASE AddStep(c) /\ ~ RecordPeakList(c)
    BY <2>5 DEF AddStep, UnwindOk, NoBacktrace, UnwindExit, AddBacktrace, AddPointer,
                LockFrames, LockPointers
  <2>6. CASE RemoveStep(c)
    BY <2>6 DEF RemoveStep, RemoveUntracked, RemovePointer, RemoveBacktrace, LockFrames, LockPointers
  <2>7. CASE DumpStep(c) /\ ~ CollectList(c)
    BY <2>7 DEF DumpStep, PrintList, DumpPeakInfo, LockFrames, LockPointers
  <2> QED BY <2>1, <2>2, <2>3, <2>4, <2>5, <2>6, <2>7 DEF Step
<1> HIDE DEF A
<1>4. Spec => [][A]_vars
  BY <1>2, <1>3, PTL DEF Spec
<1> QED BY <1>4 DEF A
===========================================================================
