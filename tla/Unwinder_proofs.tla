-------------------------- MODULE Unwinder_proofs --------------------------
(***************************************************************************)
(* Proofs about Unwinder: a guess that led nowhere leaves no frame         *)
(* (UnwindInv); and what the error says of the frames (ErrorInv).          *)
(***************************************************************************)
EXTENDS Unwinder, TLAPS

----------------------------------------------------------------------------
(* The operators that steps are built from.                                *)

(* One takes an element, if there is one.                                  *)
LEMMA OneOf ==
  ASSUME NEW S, NEW none
  PROVE  (S # {} => One(S, none) \in S) /\ (S = {} => One(S, none) = none)
BY DEF One

LEMMA FindOne ==
  ASSUME NEW pc
  PROVE  Find(pc) \in Regions \cup {NoMap}
BY OneOf DEF Find

LEMMA FuncName ==
  ASSUME NEW a
  PROVE  Func(a).name \in Names
<1>1. PICK F : F = {f \in Funcs : f.lo <= a /\ a < f.hi}
  OBVIOUS
<1>2. PICK none : none = [lo |-> 0, hi |-> 0, name |-> "", cfi |-> FALSE, signal |-> FALSE, jit |-> FALSE, tramp |-> FALSE]
  OBVIOUS
<1>3. Func(a) = One(F, none)
  BY <1>1, <1>2 DEF Func
<1>4. Func(a) \in F \/ Func(a) = none
  BY <1>3, OneOf
<1>5. CASE Func(a) \in F
  BY <1>1, <1>5 DEF Names
<1>6. CASE Func(a) = none
  <2>1. none.name = ""
    BY <1>2
  <2>2. Func(a).name = ""
    BY <1>6, <2>1
  <2> QED BY <2>2 DEF Names
<1> QED BY <1>4, <1>5, <1>6

(* The adjustment is a number.                                             *)
LEMMA AdjustmentType ==
  ASSUME world \in Worlds, NEW rel \in Int, NEW m \in Regions
  PROVE  PcAdjustment(rel, m) \in Int
<1>1. m.bias \in Int
  BY CodeAssumption
<1>2. PICK wide : wide = Wide(rel - m.bias - 5)
  OBVIOUS
<1>3. GetPcAdjustment(world.arch, rel, m.valid, m.bias, wide) \in Int
  <2>1. CASE world.arch = "ARM"
    BY <2>1, <1>1 DEF GetPcAdjustment
  <2>2. CASE world.arch = "ARM64"
    BY <2>2 DEF GetPcAdjustment
  <2>3. CASE world.arch \in {"MIPS", "MIPS64"}
    BY <2>3 DEF GetPcAdjustment
  <2>4. CASE world.arch \in {"X86", "X86_64"}
    BY <2>4 DEF GetPcAdjustment
  <2> QED BY <2>1, <2>2, <2>3, <2>4, WorldAssumption
<1> QED BY <1>2, <1>3 DEF PcAdjustment

(* Registers stay registers.                                               *)
LEMMA FallbackType ==
  ASSUME NEW arch, NEW r \in Registers
  PROVE  fallback_pc(arch, r) \in Registers /\ fallback_pc(arch, r).dex = r.dex
<1>1. r.pc % PacBit \in Int
  BY CodeAssumption DEF Registers
<1> QED BY <1>1 DEF fallback_pc, strip_pac, Registers

LEMMA ReturnType ==
  ASSUME world \in Worlds, NEW r \in Registers
  PROVE  /\ SetPcFromReturnAddress(world.arch, r, world) \in Registers
         /\ SetPcFromReturnAddress(world.arch, r, world).dex = r.dex
<1>1. Word(world, r.sp) \in Int
  BY WorldAssumption DEF Word, Unreadable
<1> QED BY <1>1 DEF SetPcFromReturnAddress, Registers

LEMMA SignalType ==
  ASSUME world \in Worlds, NEW r \in Registers, NEW code
  PROVE  /\ StepIfSignalHandler(world.arch, r, code, world).regs \in Registers
         /\ StepIfSignalHandler(world.arch, r, code, world).regs.dex = r.dex
<1>1. PICK at : at = Sigcontext(world.arch, code, r.sp, world)
  OBVIOUS
<1>2. Saved(world, at) \in Registers
  BY WorldAssumption DEF Saved, Unreadable, Registers
<1>3. PICK s : s = [Saved(world, at) EXCEPT !.dex = r.dex]
  OBVIOUS
<1>4. s \in Registers /\ s.dex = r.dex
  BY <1>2, <1>3 DEF Registers
<1>5. StepIfSignalHandler(world.arch, r, code, world).regs \in {s, r}
  BY <1>1, <1>3 DEF StepIfSignalHandler
<1> QED BY <1>4, <1>5

(* The registers of an activation.                                         *)
LEMMA ActsType ==
  ASSUME world \in Worlds, NEW k \in 1..Len(world.acts)
  PROVE  world.acts[k].regs \in Registers /\ NotSkipped(world.acts[k].regs)
BY WorldAssumption, DexAssumption

----------------------------------------------------------------------------
----------------------------------------------------------------------------
(* What the steps do to the loop's locals that the invariants speak of.    *)

(* All of them stay, but for those of S.                                   *)
Keeps(S) == \A f \in {"ph", "attempt", "error", "map", "adj", "ignore", "stepped", "device", "finished",
                      "guessed", "why"} \ S : un'[f] = un[f]

Shape == DOMAIN un = DOMAIN Start

LEMMA DoneFields ==
  ASSUME Shape, NEW e, Done(e)
  PROVE  Shape' /\ un'.ph = "done" /\ un'.error = e /\ Keeps({"ph", "error"})
BY DEF Done, Set, Keeps, Start, Shape

LEMMA UnwindFields ==
  ASSUME Shape, Unwind
  PROVE  Shape' /\ un'.ph = "loop" /\ Keeps({"ph"})
BY DEF Unwind, Set, Keeps, Start, Shape

LEMMA UnmappedFields ==
  ASSUME Shape, Unmapped
  PROVE  /\ Shape' /\ Keeps({"ph", "map", "adj", "ignore", "error"})
         /\ un'.ph = "fill" /\ un'.map = NoMap /\ un'.adj = 0 /\ un'.ignore = FALSE
         /\ un'.error = NoMapError
BY DEF Unmapped, Set, Keeps, Start, Shape

LEMMA LocateFields ==
  ASSUME Shape, Locate
  PROVE  /\ Shape'
         /\ \/ /\ un'.ph = "done" /\ un'.error = un.error /\ Keeps({"ph", "error"})
               /\ Find(regs.pc).name \in StopMaps
            \/ /\ un'.ph = "fill" /\ un'.map = Find(regs.pc) /\ Keeps({"ph", "map", "adj", "ignore"})
               /\ un'.adj = PcAdjustment(regs.pc - un'.map.lo + un'.map.bias, un'.map)
               /\ un'.ignore => un'.map.name \in SkipMaps
<1>1. PICK m : m = Find(regs.pc)
  OBVIOUS
<1>2. PICK ignore : ignore = (un.skip /\ m.name \in SkipMaps)
  OBVIOUS
<1>3. PICK adj : adj = PcAdjustment(regs.pc - m.lo + m.bias, m)
  OBVIOUS
<1>4. CASE ~ignore /\ m.name \in StopMaps
  <2>1. Done(un.error)
    BY <1>1, <1>2, <1>4 DEF Locate
  <2> QED BY <2>1, <1>1, <1>4, DoneFields
<1>5. CASE ~(~ignore /\ m.name \in StopMaps)
  <2>1. \E rel, look, jit :
          Set([ph |-> "fill", pc |-> regs.pc, sp |-> regs.sp, map |-> m, rel |-> rel, adj |-> adj,
               look |-> look, ignore |-> ignore, jit |-> jit])
    BY <1>1, <1>2, <1>3, <1>5 DEF Locate
  <2>2. /\ Shape' /\ Keeps({"ph", "map", "adj", "ignore"})
        /\ un'.ph = "fill" /\ un'.map = m /\ un'.adj = adj /\ un'.ignore = ignore
    BY <2>1 DEF Set, Keeps, Start, Shape
  <2> QED BY <2>2, <1>1, <1>2, <1>3
<1> QED BY <1>4, <1>5

(* The dex pc of this turn, if it is to be shown.                          *)
ShowsDex == ~un.ignore /\ regs.dex # 0
DexFirst == IF ShowsDex THEN Append(frames, Frame(regs.dex, "dex")) ELSE frames

LEMMA FillInFields ==
  ASSUME Shape, FillIn
  PROVE  /\ Shape' /\ un'.adj = un.adj /\ regs' = IF ShowsDex THEN [regs EXCEPT !.dex = 0] ELSE regs
         /\ \/ /\ ShowsDex /\ frames' = DexFirst /\ un'.ph = "done"
               /\ un'.error = "MAX_FRAMES_EXCEEDED" /\ Keeps({"ph", "error"})
            \/ /\ un'.ph = "step" /\ un'.stepped = FALSE /\ un'.device = FALSE /\ un'.finished = FALSE
               /\ Keeps({"ph", "stepped", "device", "finished"})
               /\ ShowsDex => Len(DexFirst) # world.max_frames
               /\ frames' = IF un.ignore THEN frames
                            ELSE Append(DexFirst, [Frame(regs.pc - un.adj, "real") EXCEPT !.num = Len(DexFirst)])
<1>1. PICK dex : dex = ShowsDex
  OBVIOUS
<1>2. PICK first : first = DexFirst
  OBVIOUS
<1>3. first = IF dex THEN Append(frames, Frame(regs.dex, "dex")) ELSE frames
  BY <1>1, <1>2 DEF DexFirst
<1>4. CASE dex /\ Len(first) = world.max_frames
  <2>1. Done("MAX_FRAMES_EXCEEDED") /\ frames' = first /\ regs' = [regs EXCEPT !.dex = 0]
    BY <1>1, <1>3, <1>4 DEF FillIn, ShowsDex, RoomAfterDex
  <2> QED BY <2>1, <1>1, <1>2, <1>4, DoneFields DEF Keeps
<1>5. CASE ~(dex /\ Len(first) = world.max_frames)
  <2>1. /\ regs' = IF dex THEN [regs EXCEPT !.dex = 0] ELSE regs
        /\ frames' = IF un.ignore THEN frames
                     ELSE Append(first, [Frame(regs.pc - un.adj, "real") EXCEPT !.num = Len(first)])
        /\ \E skip, warned :
             Set([ph |-> "step", adjust |-> TRUE, skip |-> skip, warned |-> warned,
                  stepped |-> FALSE, device |-> FALSE, finished |-> FALSE])
    BY <1>1, <1>3, <1>5 DEF FillIn, ShowsDex, RoomAfterDex
  <2>2. /\ Shape' /\ Keeps({"ph", "stepped", "device", "finished"})
        /\ un'.ph = "step" /\ un'.stepped = FALSE /\ un'.device = FALSE /\ un'.finished = FALSE
    BY <2>1 DEF Set, Keeps, Start, Shape
  <2> QED BY <2>1, <2>2, <1>1, <1>2, <1>5 DEF Keeps
<1> QED BY <1>4, <1>5

LEMMA DoNotStepFields ==
  ASSUME Shape, DoNotStep
  PROVE  Shape' /\ un'.ph = "name" /\ un'.device = (un.map # NoMap) /\ Keeps({"ph", "device"})
BY DEF DoNotStep, Set, Keeps, Start, Shape

LEMMA StepSignalFields ==
  ASSUME Shape, StepSignal
  PROVE  /\ Shape' /\ Keeps({"ph", "stepped", "error"})
         /\ un'.ph = "name" /\ un'.stepped = TRUE
<1>1. \E e, look : Set([ph |-> "name", stepped |-> TRUE, error |-> e, look |-> look])
  BY DEF StepSignal
<1> QED BY <1>1 DEF Set, Keeps, Start, Shape

(* Elf::Step failed, led astray, to the end, or to the caller.             *)
StepFailed   == /\ regs' = regs /\ un'.error \in LastErrors("UNWIND_INFO")
                /\ Keeps({"ph", "error"})
StepAstray   == /\ regs' \in Astray /\ un'.stepped = TRUE
                /\ Keeps({"ph", "error", "stepped"})
StepFinished == /\ regs' = regs /\ (un.map.valid \/ un.jit) /\ un'.error \in LastErrors("NONE")
                /\ un'.stepped = TRUE /\ un'.finished = TRUE
                /\ Keeps({"ph", "error", "stepped", "finished"})
StepToCaller == /\ \E k \in 1..Len(world.acts) : regs' = world.acts[k].regs
                /\ un'.stepped = TRUE /\ Keeps({"ph", "error", "stepped"})

LEMMA StepFields ==
  ASSUME Shape, Step, world \in Worlds
  PROVE  /\ Shape' /\ un'.ph = "name"
         /\ StepFailed \/ StepAstray \/ StepFinished \/ StepToCaller
<1>1. CASE StepFails
  <2>1. PICK e, look : e \in LastErrors("UNWIND_INFO") /\ Set([ph |-> "name", error |-> e, look |-> look])
    BY <1>1 DEF StepFails
  <2>2. Shape' /\ un'.ph = "name" /\ un'.error \in LastErrors("UNWIND_INFO") /\ Keeps({"ph", "error"})
    BY <2>1 DEF Set, Keeps, Start, Shape
  <2> QED BY <1>1, <2>2 DEF StepFailed, StepFails
<1>2. CASE Steps
  <2>1. PICK k, look, e :
          /\ k = One(Right, 0) /\ e \in LastErrors("NONE")
          /\ \/ /\ regs' \in Astray
                /\ Set([ph |-> "name", stepped |-> TRUE, look |-> look, error |-> e, sure |-> Sure])
             \/ /\ UNCHANGED regs
                /\ Set([ph |-> "name", stepped |-> TRUE, look |-> look, error |-> e, finished |-> TRUE])
             \/ /\ Right # {} /\ k < Len(world.acts) /\ regs' = world.acts[k + 1].regs
                /\ Set([ph |-> "name", stepped |-> TRUE, look |-> look, error |-> e])
    BY <1>2 DEF Steps
  <2>2. CASE /\ regs' \in Astray
             /\ Set([ph |-> "name", stepped |-> TRUE, look |-> look, error |-> e, sure |-> Sure])
    <3>1. Shape' /\ un'.ph = "name" /\ un'.stepped = TRUE /\ Keeps({"ph", "error", "stepped"})
      BY <2>2 DEF Set, Keeps, Start, Shape
    <3> QED BY <2>2, <3>1 DEF StepAstray
  <2>3. CASE /\ UNCHANGED regs
             /\ Set([ph |-> "name", stepped |-> TRUE, look |-> look, error |-> e, finished |-> TRUE])
    <3>1. /\ Shape' /\ un'.ph = "name" /\ un'.stepped = TRUE /\ un'.finished = TRUE
          /\ un'.error \in LastErrors("NONE") /\ Keeps({"ph", "error", "stepped", "finished"})
      BY <2>1, <2>3 DEF Set, Keeps, Start, Shape
    <3> QED BY <1>2, <2>3, <3>1 DEF StepFinished, Steps, Known
  <2>4. CASE /\ Right # {} /\ k < Len(world.acts) /\ regs' = world.acts[k + 1].regs
             /\ Set([ph |-> "name", stepped |-> TRUE, look |-> look, error |-> e])
    <3>1. Shape' /\ un'.ph = "name" /\ un'.stepped = TRUE /\ Keeps({"ph", "error", "stepped"})
      BY <2>4 DEF Set, Keeps, Start, Shape
    <3>2. k \in DOMAIN world.acts
      BY <2>1, <2>4, OneOf DEF Right, Here
    <3>3. k + 1 \in 1..Len(world.acts)
      BY <2>4, <3>2, WorldAssumption
    <3> QED BY <2>4, <3>1, <3>3 DEF StepToCaller
  <2> QED BY <2>1, <2>2, <2>3, <2>4
<1> QED BY <1>1, <1>2 DEF Step

LEMMA ResolveFields ==
  ASSUME Shape, Resolve
  PROVE  /\ Shape'
         /\ \E fn \in Names :
              /\ frames' = IF HasFrame THEN [frames EXCEPT ![Top].fn = fn] ELSE frames
              /\ \/ /\ HasFrame /\ fn \in ExitFunctions
                    /\ un'.ph = "done" /\ un'.error = "EXIT_FUNC" /\ Keeps({"ph", "error"})
                 \/ /\ un.finished /\ ~(HasFrame /\ fn \in ExitFunctions)
                    /\ un'.ph = "done" /\ Keeps({"ph"})
                 \/ ~un.finished /\ un'.ph = "next" /\ Keeps({"ph"})
<1>1. PICK fn : fn = IF un.map.valid \/ un.jit THEN Func(un.look).name ELSE ""
  OBVIOUS
<1>2. fn \in Names
  BY <1>1, FuncName DEF Names
<1>3. frames' = IF HasFrame THEN [frames EXCEPT ![Top].fn = fn] ELSE frames
  BY <1>1 DEF Resolve
<1>4. CASE HasFrame /\ fn \in ExitFunctions
  <2>1. Done("EXIT_FUNC")
    BY <1>1, <1>4 DEF Resolve
  <2> QED BY <2>1, <1>2, <1>3, <1>4, DoneFields
<1>5. CASE ~(HasFrame /\ fn \in ExitFunctions) /\ un.finished
  <2>1. Done(un.error)
    BY <1>1, <1>5 DEF Resolve
  <2>2. Shape' /\ un'.ph = "done" /\ Keeps({"ph"})
    BY <2>1, DoneFields DEF Keeps
  <2> QED BY <2>2, <1>2, <1>3, <1>5
<1>6. CASE ~(HasFrame /\ fn \in ExitFunctions) /\ ~un.finished
  <2>1. Set([ph |-> "next"])
    BY <1>1, <1>6 DEF Resolve
  <2>2. Shape' /\ un'.ph = "next" /\ Keeps({"ph"})
    BY <2>1 DEF Set, Keeps, Start, Shape
  <2> QED BY <2>2, <1>2, <1>3, <1>6
<1> QED BY <1>4, <1>5, <1>6

LEMMA SteppedFields ==
  ASSUME Shape, Stepped
  PROVE  /\ Shape'
         /\ \/ un'.ph = "done" /\ un'.error = "REPEATED_FRAME" /\ Keeps({"ph", "error"})
            \/ /\ un'.ph = "loop" /\ un'.attempt = FALSE /\ Keeps({"ph", "attempt", "error"})
               /\ un'.error = IF Len(frames) = world.max_frames THEN "MAX_FRAMES_EXCEEDED" ELSE un.error
<1>1. CASE Repeated(regs)
  BY <1>1, DoneFields DEF Stepped
<1>2. CASE ~Repeated(regs)
  BY <1>2 DEF Stepped, Set, Keeps, Start, Shape
<1> QED BY <1>1, <1>2

LEMMA GuessFields ==
  ASSUME Shape, Guess
  PROVE  /\ Shape'
         /\ \/ un'.ph = "done" /\ Keeps({"ph"}) /\ regs' = regs
            \/ /\ un'.ph = "loop" /\ ~un.device /\ regs' = SetPcFromReturnAddress(world.arch, regs, world)
               /\ un'.attempt = TRUE /\ un'.guessed = Len(frames) /\ un'.why = un.error
               /\ Keeps({"ph", "attempt", "guessed", "why"})
<1>1. PICK r : r = SetPcFromReturnAddress(world.arch, regs, world)
  OBVIOUS
<1>2. CASE un.device \/ r = regs
  <2>1. Done(un.error) /\ regs' = regs
    BY <1>1, <1>2 DEF Guess
  <2> QED BY <2>1, DoneFields DEF Keeps
<1>3. CASE ~(un.device \/ r = regs)
  <2>1. regs' = r /\ \E sure : Set([ph |-> "loop", attempt |-> TRUE, guessed |-> Len(frames),
                                    why |-> un.error, sure |-> sure])
    BY <1>1, <1>3 DEF Guess
  <2>2. /\ Shape' /\ un'.ph = "loop" /\ un'.attempt = TRUE /\ un'.guessed = Len(frames)
        /\ un'.why = un.error /\ Keeps({"ph", "attempt", "guessed", "why"})
    BY <2>1 DEF Set, Keeps, Start, Shape
  <2> QED BY <2>1, <2>2, <1>1, <1>3
<1> QED BY <1>2, <1>3

----------------------------------------------------------------------------
(* UnwindInv, in the initial state and step by step.                       *)

LEMMA WorldKept ==
  ASSUME Next
  PROVE  world' = world
BY DEF Next, Unwind, Full, Unmapped, Locate, FillIn, DoNotStep, StepSignal, Step, Resolve, Stepped, GuessFailed, Guess

LEMMA InvInit == Init => UnwindInv
<1> SUFFICES ASSUME Init PROVE UnwindInv
  OBVIOUS
<1>1. world \in Worlds /\ frames = << >> /\ un = Start
  BY DEF Init
<1>2. /\ un.ph = "start" /\ un.attempt = FALSE /\ un.finished = FALSE /\ un.stepped = FALSE
      /\ un.adj = 0 /\ un.guessed = 0
  BY <1>1 DEF Start
<1>3. world.acts[1].regs \in Registers /\ world.pc \in Int /\ world.max_frames \in Nat
  BY <1>1, WorldAssumption
<1>4. regs \in Registers /\ regs.dex = 0
  <2>1. PICK r : r = world.acts[1].regs
    OBVIOUS
  <2>2. regs = [r EXCEPT !.pc = world.pc, !.dex = 0]
    BY <2>1 DEF Init
  <2>3. PICK p : p = [r EXCEPT !.pc = world.pc]
    OBVIOUS
  <2>4. p \in Registers /\ regs = [p EXCEPT !.dex = 0]
    BY <1>3, <2>1, <2>2, <2>3 DEF Registers
  <2> QED BY <2>4 DEF Registers
<1>5. frames \in Seq(FrameType) /\ Len(frames) <= world.max_frames
  BY <1>1, <1>3
<1>6. DOMAIN un = DOMAIN Start
  BY <1>1
<1>7. TypeOK
  BY <1>1, <1>2, <1>4, <1>5, <1>6 DEF TypeOK, At
<1>8. DexOnce /\ GuessAdds /\ NoGuessLeft
  BY <1>2, <1>4 DEF DexOnce, GuessAdds, NoGuessLeft, At
<1> QED BY <1>7, <1>8 DEF UnwindInv

LEMMA InvUnwind ==
  ASSUME UnwindInv, Unwind, world' = world
  PROVE  UnwindInv'
<1>1. Shape' /\ un'.ph = "loop" /\ Keeps({"ph"})
  BY UnwindFields DEF UnwindInv, TypeOK, Shape
<1>2. regs' \in Registers /\ regs'.dex = regs.dex /\ frames' = frames
  BY FallbackType DEF UnwindInv, TypeOK, Unwind
<1>3. regs.dex = 0 /\ frames = << >> /\ ~un.attempt /\ ~un.finished
  BY DEF UnwindInv, TypeOK, DexOnce, Unwind
<1>4. TypeOK'
  BY <1>1, <1>2 DEF UnwindInv, TypeOK, At, Keeps, Shape
<1>5. DexOnce'
  BY <1>1, <1>2, <1>3 DEF DexOnce, NotSkipped, At, Keeps
<1>6. GuessAdds' /\ NoGuessLeft'
  BY <1>1, <1>3 DEF GuessAdds, NoGuessLeft, At, Keeps
<1> QED BY <1>4, <1>5, <1>6 DEF UnwindInv

LEMMA InvFull ==
  ASSUME UnwindInv, Full, world' = world
  PROVE  UnwindInv'
<1>1. Shape' /\ un'.ph = "done" /\ Keeps({"ph", "error"})
  BY DoneFields DEF UnwindInv, TypeOK, Shape, Full
<1>2. UNCHANGED << regs, frames >> /\ At("loop")
  BY DEF Full
<1>3. TypeOK'
  BY <1>1, <1>2 DEF UnwindInv, TypeOK, At, Keeps, Shape
<1>4. DexOnce'
  BY <1>1 DEF DexOnce, At
<1>5. GuessAdds' /\ NoGuessLeft'
  BY <1>1, <1>2 DEF UnwindInv, GuessAdds, NoGuessLeft, TypeOK, At, Keeps
<1> QED BY <1>3, <1>4, <1>5 DEF UnwindInv

LEMMA InvUnmapped ==
  ASSUME UnwindInv, Unmapped, world' = world
  PROVE  UnwindInv'
<1>1. /\ Shape' /\ Keeps({"ph", "map", "adj", "ignore", "error"})
      /\ un'.ph = "fill" /\ un'.adj = 0 /\ un'.ignore = FALSE
  BY UnmappedFields DEF UnwindInv, TypeOK, Shape
<1>2. UNCHANGED << regs, frames >> /\ At("loop") /\ Len(frames) < world.max_frames
  BY DEF Unmapped
<1>3. TypeOK'
  BY <1>1, <1>2 DEF UnwindInv, TypeOK, At, Keeps, Shape
<1>4. DexOnce'
  BY <1>1, <1>2 DEF UnwindInv, DexOnce, At, Keeps
<1>5. GuessAdds' /\ NoGuessLeft'
  BY <1>1, <1>2 DEF UnwindInv, GuessAdds, NoGuessLeft, At, Keeps
<1> QED BY <1>3, <1>4, <1>5 DEF UnwindInv

LEMMA InvLocate ==
  ASSUME UnwindInv, Locate, world' = world
  PROVE  UnwindInv'
<1>1. UNCHANGED << regs, frames >> /\ At("loop") /\ Len(frames) < world.max_frames /\ Find(regs.pc) # NoMap
  BY DEF Locate
<1>2. CASE Shape' /\ un'.ph = "done" /\ Keeps({"ph", "error"})
  <2>1. TypeOK'
    BY <1>1, <1>2 DEF UnwindInv, TypeOK, At, Keeps, Shape
  <2>2. DexOnce'
    BY <1>2 DEF DexOnce, At
  <2>3. GuessAdds' /\ NoGuessLeft'
    BY <1>1, <1>2 DEF UnwindInv, GuessAdds, NoGuessLeft, TypeOK, At, Keeps
  <2> QED BY <2>1, <2>2, <2>3 DEF UnwindInv
<1>3. CASE /\ Shape' /\ un'.ph = "fill" /\ un'.map = Find(regs.pc) /\ Keeps({"ph", "map", "adj", "ignore"})
           /\ un'.adj = PcAdjustment(regs.pc - un'.map.lo + un'.map.bias, un'.map)
           /\ un'.ignore => un'.map.name \in SkipMaps
  <2>1. PICK m \in Regions : m = un'.map
    BY <1>1, <1>3, FindOne
  <2>2. m.lo \in Int /\ m.bias \in Int /\ regs.pc \in Int
    BY CodeAssumption DEF UnwindInv, TypeOK, Registers
  <2>3. PICK rel \in Int : rel = regs.pc - m.lo + m.bias
    BY <2>2
  <2>4. un'.adj \in Int
    BY <1>3, <2>1, <2>3, AdjustmentType DEF UnwindInv, TypeOK
  <2>5. TypeOK'
    BY <1>1, <1>3, <2>4 DEF UnwindInv, TypeOK, At, Keeps, Shape
  <2>6. un'.ignore => regs.dex = 0
    BY <1>1, <1>3 DEF UnwindInv, DexOnce, NotSkipped
  <2>7. DexOnce'
    BY <1>1, <1>3, <2>6 DEF UnwindInv, DexOnce, At, Keeps
  <2>8. GuessAdds' /\ NoGuessLeft'
    BY <1>1, <1>3 DEF UnwindInv, GuessAdds, NoGuessLeft, At, Keeps
  <2> QED BY <2>5, <2>7, <2>8 DEF UnwindInv
<1> QED BY <1>2, <1>3, LocateFields DEF UnwindInv, TypeOK, Shape

(* One frame changes.                                                      *)
LEMMA SeqExcept ==
  ASSUME NEW T, NEW g \in Seq(T), NEW i \in DOMAIN g, NEW f \in T,
         NEW h, h = [g EXCEPT ![i] = f]
  PROVE  h \in Seq(T) /\ Len(h) = Len(g)
OBVIOUS

LEMMA FramesExcept ==
  ASSUME NEW g \in Seq(FrameType), NEW i, NEW f, g[i] \in FrameType => f \in FrameType,
         NEW h, h = [g EXCEPT ![i] = f]
  PROVE  h \in Seq(FrameType) /\ Len(h) = Len(g)
<1>1. CASE i \in DOMAIN g
  <2>1. f \in FrameType
    BY <1>1
  <2> QED BY <1>1, <2>1, SeqExcept
<1>2. CASE i \notin DOMAIN g
  <2>1. h = g
    BY <1>2
  <2> QED BY <2>1
<1> QED BY <1>1, <1>2

(* The frames that FillIn adds.                                            *)
LEMMA FramesFilled ==
  ASSUME TypeOK, FillIn
  PROVE  /\ DexFirst \in Seq(FrameType)
         /\ Len(DexFirst) = IF ShowsDex THEN Len(frames) + 1 ELSE Len(frames)
         /\ frames' \in Seq(FrameType)
         /\ un'.ph = "done" => Len(frames') = Len(DexFirst)
         /\ un'.ph = "step" => Len(frames') = IF un.ignore THEN Len(frames) ELSE Len(DexFirst) + 1
<1>1. /\ regs \in Registers /\ frames \in Seq(FrameType) /\ un.adj \in Int /\ Shape
  BY DEF TypeOK, Shape
<1>2. \A pc \in Int : Frame(pc, "real") \in FrameType /\ Frame(pc, "dex") \in FrameType
  <2>1. Len(frames) \in Nat /\ "" \in Names
    BY <1>1 DEF Names
  <2> QED BY <2>1 DEF Frame, FrameType
<1>3. DexFirst \in Seq(FrameType) /\ Len(DexFirst) = IF ShowsDex THEN Len(frames) + 1 ELSE Len(frames)
  BY <1>1, <1>2 DEF DexFirst, Registers
<1>4. PICK real : real = [Frame(regs.pc - un.adj, "real") EXCEPT !.num = Len(DexFirst)]
  OBVIOUS
<1>5. regs.pc - un.adj \in Int /\ Len(DexFirst) \in Nat
  BY <1>1, <1>3 DEF Registers
<1>6. real \in FrameType
  BY <1>2, <1>4, <1>5 DEF FrameType
<1>7. \/ un'.ph = "done" /\ frames' = DexFirst
      \/ un'.ph = "step" /\ frames' = IF un.ignore THEN frames ELSE Append(DexFirst, real)
  BY <1>1, <1>4, FillInFields
<1> QED BY <1>1, <1>3, <1>6, <1>7

LEMMA InvFillIn ==
  ASSUME UnwindInv, FillIn, world' = world
  PROVE  UnwindInv'
<1>1. TypeOK /\ Shape /\ At("fill")
  BY DEF UnwindInv, TypeOK, Shape, FillIn
<1>2. /\ Shape' /\ un'.adj = un.adj /\ regs' = IF ShowsDex THEN [regs EXCEPT !.dex = 0] ELSE regs
      /\ un'.ignore = un.ignore /\ un'.attempt = un.attempt /\ un'.guessed = un.guessed
      /\ \/ ShowsDex /\ un'.ph = "done" /\ un'.stepped = un.stepped /\ un'.finished = un.finished
         \/ /\ un'.ph = "step" /\ un'.stepped = FALSE /\ un'.finished = FALSE
            /\ ShowsDex => Len(DexFirst) # world.max_frames
  BY <1>1, FillInFields DEF Keeps
<1>3. /\ Len(DexFirst) = IF ShowsDex THEN Len(frames) + 1 ELSE Len(frames)
      /\ frames' \in Seq(FrameType)
      /\ un'.ph = "done" => Len(frames') = Len(DexFirst)
      /\ un'.ph = "step" => Len(frames') = IF un.ignore THEN Len(frames) ELSE Len(DexFirst) + 1
  BY <1>1, FramesFilled
<1>4. /\ Len(frames) \in Nat /\ Len(frames) < world.max_frames /\ world.max_frames \in Nat
  BY <1>1, WorldAssumption DEF TypeOK
<1>5. regs' \in Registers /\ (un'.ph = "step" => regs'.dex = 0)
  BY <1>1, <1>2 DEF UnwindInv, TypeOK, DexOnce, Registers, ShowsDex
<1>6. TypeOK'
  <2>1. Len(frames') <= world.max_frames
    BY <1>2, <1>3, <1>4
  <2>2. un'.ph = "step" /\ ~un'.ignore => frames' # << >>
    BY <1>2, <1>3, <1>4
  <2> QED BY <1>1, <1>2, <1>3, <1>5, <2>1, <2>2 DEF TypeOK, At, Shape
<1>7. DexOnce'
  BY <1>2, <1>5 DEF DexOnce, At
<1>8. un.attempt => ~ShowsDex /\ ~un.stepped /\ Len(frames) = un.guessed
  BY <1>1 DEF UnwindInv, DexOnce, GuessAdds, ShowsDex
<1>9. GuessAdds'
  BY <1>2, <1>3, <1>4, <1>8 DEF UnwindInv, GuessAdds, At
<1>10. NoGuessLeft'
  BY <1>2, <1>8 DEF NoGuessLeft, At
<1> QED BY <1>6, <1>7, <1>9, <1>10 DEF UnwindInv

LEMMA InvDoNotStep ==
  ASSUME UnwindInv, DoNotStep, world' = world
  PROVE  UnwindInv'
<1>1. Shape' /\ un'.ph = "name" /\ Keeps({"ph", "device"})
  BY DoNotStepFields DEF UnwindInv, TypeOK, Shape
<1>2. UNCHANGED << regs, frames >> /\ At("step")
  BY DEF DoNotStep
<1>3. TypeOK'
  BY <1>1, <1>2 DEF UnwindInv, TypeOK, At, Keeps, Shape
<1>4. DexOnce'
  BY <1>1, <1>2 DEF UnwindInv, DexOnce, GuessAdds, At, Keeps
<1>5. GuessAdds' /\ NoGuessLeft'
  BY <1>1, <1>2 DEF UnwindInv, GuessAdds, NoGuessLeft, At, Keeps
<1> QED BY <1>3, <1>4, <1>5 DEF UnwindInv

(* A signal's frame gets its own pc, and stays a frame.                    *)
LEMMA FrameKept ==
  ASSUME TypeOK, NEW signal \in BOOLEAN, NEW fs, fs = FrameOf(signal)
  PROVE  fs \in Seq(FrameType) /\ Len(fs) = Len(frames)
<1>1. frames \in Seq(FrameType) /\ un.adj \in Int
  BY DEF TypeOK
<1>2. CASE fs = [frames EXCEPT ![Top].pc = @ + un.adj]
  <2>1. PICK top, f : top = frames[Top] /\ f = [top EXCEPT !.pc = top.pc + un.adj]
    OBVIOUS
  <2>2. top \in FrameType => top.pc + un.adj \in Int
    BY <1>1 DEF FrameType
  <2>3. top \in FrameType => f \in FrameType
    BY <2>1, <2>2 DEF FrameType
  <2>4. fs = [frames EXCEPT ![Top] = f]
    BY <1>2, <2>1
  <2>5. frames[Top] \in FrameType => f \in FrameType
    BY <2>1, <2>3
  <2>6. PICK i : i = Top
    OBVIOUS
  <2>7. PICK g \in Seq(FrameType) : g = frames
    BY <1>1
  <2>8. fs = [g EXCEPT ![i] = f] /\ (g[i] \in FrameType => f \in FrameType)
    BY <2>4, <2>5, <2>6, <2>7
  <2>9. fs \in Seq(FrameType) /\ Len(fs) = Len(g)
    BY ONLY <2>8, FramesExcept
  <2> QED BY <2>7, <2>9
<1>3. CASE fs = frames
  BY <1>1, <1>3
<1> QED BY <1>2, <1>3 DEF FrameOf

LEMMA InvStepSignal ==
  ASSUME UnwindInv, StepSignal, world' = world
  PROVE  UnwindInv'
<1>1. Shape' /\ un'.ph = "name" /\ un'.stepped = TRUE /\ Keeps({"ph", "stepped", "error"})
  BY StepSignalFields DEF UnwindInv, TypeOK, Shape
<1>2. At("step") /\ regs' = StepIfSignalHandler(world.arch, regs, Code(regs.pc), world).regs
  BY DEF StepSignal, SignalHandler
<1>3. regs' \in Registers /\ regs'.dex = regs.dex
  BY <1>2, SignalType DEF UnwindInv, TypeOK
<1>4. regs.dex = 0
  BY <1>2 DEF UnwindInv, DexOnce
<1>5. frames' \in Seq(FrameType) /\ Len(frames') = Len(frames)
  <2>1. frames' = FrameOf(TRUE)
    BY DEF StepSignal
  <2> QED BY <2>1, FrameKept DEF UnwindInv
<1>6. TypeOK'
  BY <1>1, <1>2, <1>3, <1>5 DEF UnwindInv, TypeOK, At, Keeps, Shape
<1>7. DexOnce'
  BY <1>1, <1>3, <1>4 DEF DexOnce, NotSkipped, At
<1>8. GuessAdds' /\ NoGuessLeft'
  BY <1>1, <1>2, <1>5 DEF UnwindInv, GuessAdds, NoGuessLeft, At, Keeps
<1> QED BY <1>6, <1>7, <1>8 DEF UnwindInv

LEMMA InvStep ==
  ASSUME UnwindInv, Step, world' = world
  PROVE  UnwindInv'
<1>1. world \in Worlds /\ Shape /\ At("step") /\ regs \in Registers
  BY DEF UnwindInv, TypeOK, Shape, Step
<1>0. frames' \in Seq(FrameType) /\ Len(frames') = Len(frames)
  <2>1. \E signal : frames' = FrameOf(signal)
    BY DEF Step, StepFails, Steps
  <2>2. PICK signal : frames' = FrameOf(signal)
    BY <2>1
  <2>3. frames' = FrameOf(TRUE) \/ frames' = FrameOf(FALSE)
    BY <2>2 DEF FrameOf
  <2> QED BY <2>3, FrameKept DEF UnwindInv
<1>2. Shape' /\ un'.ph = "name"
  BY <1>1, StepFields
<1>3. regs.dex = 0 /\ ~un.stepped /\ ~un.finished
  BY <1>1 DEF UnwindInv, DexOnce, GuessAdds
<1>4. /\ regs' \in Registers /\ NotSkipped(regs')
      /\ ~un'.stepped => regs' = regs
      /\ un'.finished => un'.stepped
      /\ Keeps({"ph", "error", "stepped", "finished"})
  <2>1. CASE StepFailed
    BY <2>1, <1>1, <1>3 DEF StepFailed, Keeps, NotSkipped
  <2>2. CASE StepAstray
    <3>1. regs' \in Registers /\ NotSkipped(regs')
      BY <2>2, DexAssumption DEF StepAstray
    <3>2. un'.stepped = TRUE /\ Keeps({"ph", "error", "stepped", "finished"})
      BY <2>2 DEF StepAstray, Keeps
    <3> QED BY <3>1, <3>2
  <2>3. CASE StepFinished
    BY <2>3, <1>1, <1>3 DEF StepFinished, Keeps, NotSkipped
  <2>4. CASE StepToCaller
    BY <2>4, <1>1, ActsType DEF StepToCaller, Keeps
  <2> QED BY <1>1, <2>1, <2>2, <2>3, <2>4, StepFields
<1>5. TypeOK'
  BY <1>0, <1>1, <1>2, <1>4 DEF UnwindInv, TypeOK, At, Keeps, Shape
<1>6. DexOnce'
  BY <1>2, <1>3, <1>4 DEF DexOnce, NotSkipped, At
<1>7. GuessAdds' /\ NoGuessLeft'
  BY <1>0, <1>1, <1>2, <1>4 DEF UnwindInv, GuessAdds, NoGuessLeft, At, Keeps
<1> QED BY <1>5, <1>6, <1>7 DEF UnwindInv

LEMMA InvResolve ==
  ASSUME UnwindInv, Resolve, world' = world
  PROVE  UnwindInv'
<1>1. Shape /\ At("name") /\ frames \in Seq(FrameType) /\ regs' = regs
  BY DEF UnwindInv, TypeOK, Shape, Resolve
<1>2. PICK fn \in Names :
        /\ Shape'
        /\ frames' = IF HasFrame THEN [frames EXCEPT ![Top].fn = fn] ELSE frames
        /\ \/ un'.ph = "done" /\ un'.error = "EXIT_FUNC" /\ Keeps({"ph", "error"})
           \/ un'.ph = "done" /\ un.finished /\ Keeps({"ph"})
           \/ un'.ph = "next" /\ Keeps({"ph"})
  BY <1>1, ResolveFields
<1>3. frames' \in Seq(FrameType) /\ Len(frames') = Len(frames)
  <2>1. PICK top, f : top = frames[Top] /\ f = [top EXCEPT !.fn = fn]
    OBVIOUS
  <2>2. top \in FrameType => f \in FrameType
    BY <2>1 DEF FrameType
  <2>3. CASE frames' = [frames EXCEPT ![Top] = f]
    <3>1. frames[Top] \in FrameType => f \in FrameType
      BY <2>1, <2>2
    <3>2. PICK h : h = frames'
      OBVIOUS
    <3> QED BY <1>1, <2>3, <3>1, <3>2, FramesExcept
  <2> QED BY <1>1, <1>2, <2>1, <2>3
<1>4. TypeOK'
  BY <1>1, <1>2, <1>3 DEF UnwindInv, TypeOK, At, Keeps, Shape
<1>5. DexOnce'
  BY <1>1, <1>2 DEF UnwindInv, DexOnce, At, Keeps
<1>6. GuessAdds'
  BY <1>1, <1>2, <1>3 DEF UnwindInv, GuessAdds, At, Keeps
<1>7. NoGuessLeft'
  BY <1>1, <1>2 DEF UnwindInv, GuessAdds, NoGuessLeft, At, Keeps
<1> QED BY <1>4, <1>5, <1>6, <1>7 DEF UnwindInv

LEMMA InvStepped ==
  ASSUME UnwindInv, Stepped, world' = world
  PROVE  UnwindInv'
<1>1. /\ Shape' /\ un'.adj = un.adj /\ un'.guessed = un.guessed
      /\ un'.stepped = un.stepped /\ un'.finished = un.finished
      /\ un'.ph = "done" \/ (un'.ph = "loop" /\ un'.attempt = FALSE)
  BY SteppedFields DEF UnwindInv, TypeOK, Shape, Keeps
<1>2. UNCHANGED << regs, frames >> /\ At("next") /\ un.stepped
  BY DEF Stepped
<1>3. TypeOK'
  BY <1>1, <1>2 DEF UnwindInv, TypeOK, At, Shape
<1>4. DexOnce'
  BY <1>1, <1>2 DEF UnwindInv, DexOnce, At
<1>5. GuessAdds' /\ NoGuessLeft'
  BY <1>1, <1>2 DEF UnwindInv, GuessAdds, NoGuessLeft, At
<1> QED BY <1>3, <1>4, <1>5 DEF UnwindInv

LEMMA InvGuessFailed ==
  ASSUME UnwindInv, GuessFailed, world' = world
  PROVE  UnwindInv'
<1>1. At("next") /\ ~un.stepped /\ un.attempt /\ regs' = regs
  BY DEF GuessFailed
<1>2. Shape' /\ un'.ph = "done" /\ Keeps({"ph", "error"})
  BY DoneFields DEF GuessFailed, UnwindInv, TypeOK, Shape
<1>3. /\ frames \in Seq(FrameType) /\ Len(frames) \in Nat /\ un.guessed \in Nat
      /\ Len(frames) \in un.guessed..(un.guessed + 1)
  BY <1>1 DEF UnwindInv, TypeOK, GuessAdds, At
<1>4. DexOnce' /\ GuessAdds'
  BY <1>2 DEF UnwindInv, DexOnce, GuessAdds, At, Keeps
<1>5. CASE KeepGuess
  <2>1. frames' = frames
    BY <1>5 DEF GuessFailed
  <2>2. Len(frames) = 0 \/ (Len(frames) <= 2 /\ Find(frames[1].pc) = NoMap)
    BY <1>3, <1>5 DEF KeepGuess
  <2>3. TypeOK'
    BY <1>1, <1>2, <2>1 DEF UnwindInv, TypeOK, At, Keeps, Shape
  <2>4. NoGuessLeft'
    BY <1>2, <1>3, <2>1, <2>2 DEF NoGuessLeft, At, Keeps
  <2> QED BY <1>4, <2>3, <2>4 DEF UnwindInv
<1>6. CASE ~KeepGuess
  <2>1. frames' = SubSeq(frames, 1, Len(frames) - 1)
    BY <1>6 DEF GuessFailed
  <2>2. Len(frames) > 0
    BY <1>3, <1>6 DEF KeepGuess
  <2>3. frames' \in Seq(FrameType) /\ Len(frames') = Len(frames) - 1
    <3>1. PICK n : n = Len(frames) - 1
      OBVIOUS
    <3>2. SubSeq(frames, 1, n) \in Seq(FrameType) /\ Len(SubSeq(frames, 1, n)) = n
      BY <1>3, <2>2, <3>1
    <3> QED BY <2>1, <3>1, <3>2
  <2>4. world.max_frames \in Nat
    BY WorldAssumption DEF UnwindInv, TypeOK
  <2>5. TypeOK'
    BY <1>1, <1>2, <1>3, <2>3, <2>4 DEF UnwindInv, TypeOK, At, Keeps, Shape
  <2>6. NoGuessLeft'
    BY <1>2, <1>3, <2>3 DEF NoGuessLeft, At, Keeps
  <2> QED BY <1>4, <2>5, <2>6 DEF UnwindInv
<1> QED BY <1>5, <1>6

LEMMA InvGuess ==
  ASSUME UnwindInv, Guess, world' = world
  PROVE  UnwindInv'
<1>1. /\ Shape /\ At("next") /\ ~un.stepped /\ ~un.attempt /\ frames' = frames /\ regs.dex = 0
      /\ regs \in Registers /\ world \in Worlds /\ frames \in Seq(FrameType)
  BY DEF UnwindInv, TypeOK, DexOnce, Shape, Guess
<1>2. CASE Shape' /\ un'.ph = "done" /\ Keeps({"ph"}) /\ regs' = regs
  <2>1. TypeOK'
    BY <1>1, <1>2 DEF UnwindInv, TypeOK, At, Keeps, Shape
  <2>2. DexOnce'
    BY <1>2 DEF DexOnce, At
  <2>3. GuessAdds' /\ NoGuessLeft'
    BY <1>1, <1>2 DEF UnwindInv, GuessAdds, NoGuessLeft, At, Keeps
  <2> QED BY <2>1, <2>2, <2>3 DEF UnwindInv
<1>3. CASE /\ Shape' /\ un'.ph = "loop" /\ regs' = SetPcFromReturnAddress(world.arch, regs, world)
           /\ un'.attempt = TRUE /\ un'.guessed = Len(frames) /\ Keeps({"ph", "attempt", "guessed", "why"})
  <2>1. regs' \in Registers /\ regs'.dex = 0
    BY <1>1, <1>3, ReturnType
  <2>2. TypeOK'
    BY <1>1, <1>3, <2>1 DEF UnwindInv, TypeOK, At, Keeps, Shape
  <2>3. DexOnce'
    BY <1>3, <2>1 DEF DexOnce, NotSkipped, At
  <2>4. GuessAdds' /\ NoGuessLeft'
    BY <1>1, <1>3 DEF UnwindInv, GuessAdds, NoGuessLeft, At, Keeps
  <2> QED BY <2>2, <2>3, <2>4 DEF UnwindInv
<1> QED BY <1>1, <1>2, <1>3, GuessFields

(* Frames and registers have their types, the dex pc of a frame is shown   *)
(* once, and a guess adds at most one frame (Unwinder.cpp, Unwind).        *)
THEOREM UnwindInvariant == Spec => []UnwindInv
<1>1. UnwindInv /\ [Next]_vars => UnwindInv'
  <2>1. CASE Next
    BY <2>1, WorldKept, InvUnwind, InvFull, InvUnmapped, InvLocate, InvFillIn, InvDoNotStep, InvStepSignal,
       InvStep, InvResolve, InvStepped, InvGuessFailed, InvGuess DEF Next
  <2>2. CASE UNCHANGED vars
    BY <2>2 DEF vars, UnwindInv, TypeOK, DexOnce, GuessAdds, NoGuessLeft, At
  <2> QED BY <2>1, <2>2
<1> QED BY <1>1, InvInit, PTL DEF Spec

(* A guess that led nowhere leaves no frame (Unwinder.cpp, Unwind).        *)
THEOREM NoGuessIsLeft == Spec => []NoGuessLeft
BY UnwindInvariant, PTL DEF UnwindInv

----------------------------------------------------------------------------
(* ErrorInv, when no other thread uses the Elf.                            *)

LEMMA ErrorInit == Init => ErrorInv
<1> SUFFICES ASSUME Init PROVE ErrorInv
  OBVIOUS
<1>1. un.ph = "start" /\ un.finished = FALSE
  BY DEF Init, Start
<1> QED BY <1>1 DEF ErrorInv, ErrorSays, ErrorTells, At

(* The end of an unwind that was not finished.                             *)
LEMMA EndTells ==
  ASSUME un'.ph = "done", ~un'.finished,
         un'.error = "NONE" => un'.device \/ Find(regs'.pc).name \in StopMaps,
         un'.attempt /\ un'.map = NoMap => un'.error = un'.why
  PROVE  ErrorInv'
BY DEF ErrorInv, ErrorSays, ErrorTells, At

LEMMA ErrorUnwind ==
  ASSUME UnwindInv, ErrorInv, Unwind, world' = world
  PROVE  ErrorInv'
<1>1. un'.ph = "loop" /\ Keeps({"ph"})
  BY UnwindFields DEF UnwindInv, TypeOK, Shape
<1>2. frames' = << >> /\ ~un.attempt /\ ~un.finished
  BY DEF UnwindInv, TypeOK, Unwind
<1>3. world.max_frames > 0 /\ Len(<< >>) = 0
  BY WorldAssumption DEF UnwindInv, TypeOK
<1>4. Len(frames') # world'.max_frames
  BY <1>2, <1>3
<1> QED BY <1>1, <1>2, <1>4 DEF ErrorInv, ErrorSays, ErrorTells, At, Keeps

LEMMA ErrorFull ==
  ASSUME UnwindInv, ErrorInv, Full
  PROVE  ErrorInv'
<1>1. un'.ph = "done" /\ un'.error = un.error /\ Keeps({"ph", "error"})
  BY DoneFields DEF UnwindInv, TypeOK, Shape, Full
<1>2. Len(frames) \in Nat /\ world.max_frames \in Nat /\ Len(frames) <= world.max_frames
  BY WorldAssumption DEF UnwindInv, TypeOK
<1>3. At("loop") /\ Len(frames) = world.max_frames
  BY <1>2 DEF Full
<1>4. un.error # "NONE" /\ ~un.finished /\ (un.attempt => un.error = un.why)
  BY <1>3 DEF ErrorInv, ErrorSays, At
<1>5. ~un'.finished
  BY <1>1, <1>4 DEF Keeps
<1> QED BY <1>1, <1>4, <1>5, EndTells DEF Keeps

LEMMA ErrorUnmapped ==
  ASSUME UnwindInv, ErrorInv, Unmapped
  PROVE  ErrorInv'
<1>1. /\ Keeps({"ph", "map", "adj", "ignore", "error"}) /\ un'.error = NoMapError
      /\ un'.ph = "fill" /\ un'.map = NoMap
  BY UnmappedFields DEF UnwindInv, TypeOK, Shape
<1>2. At("loop")
  BY DEF Unmapped
<1>3. ~un.finished /\ (un.attempt => un.error # "NONE" /\ un.error = un.why)
  BY <1>2 DEF ErrorInv, ErrorSays, At
<1>4. un'.error # "NONE" /\ (un.attempt => un'.error = un.why)
  BY <1>1, <1>3 DEF NoMapError
<1> QED BY <1>1, <1>3, <1>4 DEF ErrorInv, ErrorSays, ErrorTells, At, Keeps

LEMMA ErrorLocate ==
  ASSUME UnwindInv, ErrorInv, Locate
  PROVE  ErrorInv'
<1>1. At("loop") /\ Find(regs.pc) # NoMap /\ regs' = regs /\ Shape
  BY DEF Locate, UnwindInv, TypeOK, Shape
<1>2. ~un.finished /\ (un.attempt => un.error = un.why)
  BY <1>1 DEF ErrorInv, ErrorSays, At
<1>3. CASE /\ un'.ph = "done" /\ un'.error = un.error /\ Keeps({"ph", "error"})
           /\ Find(regs.pc).name \in StopMaps
  BY <1>1, <1>2, <1>3, EndTells DEF Keeps
<1>4. CASE un'.ph = "fill" /\ un'.map = Find(regs.pc) /\ Keeps({"ph", "map", "adj", "ignore"})
  BY <1>1, <1>2, <1>4 DEF ErrorInv, ErrorSays, ErrorTells, At, Keeps
<1> QED BY <1>1, <1>3, <1>4, LocateFields

LEMMA ErrorFillIn ==
  ASSUME UnwindInv, ErrorInv, FillIn
  PROVE  ErrorInv'
<1>1. Shape /\ At("fill") /\ (un.attempt => ~ShowsDex)
  BY DEF UnwindInv, TypeOK, DexOnce, ShowsDex, Shape, FillIn
<1>2. /\ ~un.finished /\ (un.map = NoMap => un.error # "NONE")
      /\ un.attempt /\ un.map = NoMap => un.error = un.why
  BY <1>1 DEF ErrorInv, ErrorSays, At
<1>3. CASE ShowsDex /\ un'.ph = "done" /\ un'.error = "MAX_FRAMES_EXCEEDED" /\ Keeps({"ph", "error"})
  BY <1>1, <1>2, <1>3, EndTells DEF Keeps
<1>4. CASE un'.ph = "step" /\ un'.finished = FALSE /\ Keeps({"ph", "stepped", "device", "finished"})
  BY <1>2, <1>4 DEF ErrorInv, ErrorSays, ErrorTells, At, Keeps
<1> QED BY <1>1, <1>3, <1>4, FillInFields

LEMMA ErrorDoNotStep ==
  ASSUME UnwindInv, ErrorInv, DoNotStep
  PROVE  ErrorInv'
<1>1. un'.ph = "name" /\ un'.device = (un.map # NoMap) /\ Keeps({"ph", "device"})
  BY DoNotStepFields DEF UnwindInv, TypeOK, Shape
<1>2. At("step") /\ ~un.stepped
  BY DEF UnwindInv, GuessAdds, DoNotStep
<1>3. /\ ~un.finished /\ (un.map = NoMap => un.error # "NONE")
      /\ un.attempt /\ un.map = NoMap => un.error = un.why
  BY <1>2 DEF ErrorInv, ErrorSays, At
<1> QED BY <1>1, <1>2, <1>3 DEF ErrorInv, ErrorSays, ErrorTells, At, Keeps

LEMMA ErrorStepSignal ==
  ASSUME UnwindInv, ErrorInv, StepSignal
  PROVE  ErrorInv'
<1>1. un'.ph = "name" /\ un'.stepped = TRUE /\ Keeps({"ph", "stepped", "error"})
  BY StepSignalFields DEF UnwindInv, TypeOK, Shape
<1>2. At("step") /\ un.map # NoMap
  BY DEF StepSignal
<1>3. ~un.finished
  BY <1>2 DEF ErrorInv, ErrorSays, At
<1> QED BY <1>1, <1>2, <1>3 DEF ErrorInv, ErrorSays, ErrorTells, At, Keeps

LEMMA ErrorStep ==
  ASSUME OtherErrors = {}, UnwindInv, ErrorInv, Step
  PROVE  ErrorInv'
<1>1. At("step") /\ un.map # NoMap /\ ~un.stepped /\ Shape /\ world \in Worlds
  BY DEF Step, UnwindInv, GuessAdds, TypeOK, Shape
<1>2. ~un.finished /\ un'.ph = "name"
  BY <1>1, StepFields DEF ErrorInv, ErrorSays, At
<1>3. CASE StepFailed
  <2>1. un'.error # "NONE" /\ Keeps({"ph", "error"})
    BY <1>3 DEF StepFailed, LastErrors
  <2> QED BY <1>1, <1>2, <2>1 DEF ErrorInv, ErrorSays, ErrorTells, At, Keeps
<1>4. CASE StepAstray \/ StepToCaller
  <2>1. un'.stepped = TRUE /\ Keeps({"ph", "error", "stepped"})
    BY <1>4 DEF StepAstray, StepToCaller
  <2> QED BY <1>1, <1>2, <2>1 DEF ErrorInv, ErrorSays, ErrorTells, At, Keeps
<1>5. CASE StepFinished
  <2>1. un'.stepped = TRUE /\ un'.error = "NONE" /\ Keeps({"ph", "error", "stepped", "finished"})
    BY <1>5 DEF StepFinished, LastErrors
  <2> QED BY <1>1, <1>2, <2>1 DEF ErrorInv, ErrorSays, ErrorTells, At, Keeps
<1> QED BY <1>1, <1>3, <1>4, <1>5, StepFields

LEMMA ErrorResolve ==
  ASSUME UnwindInv, ErrorInv, Resolve
  PROVE  ErrorInv'
<1>1. Shape /\ At("name") /\ frames \in Seq(FrameType) /\ (~un.ignore => frames # << >>) /\ regs' = regs
  BY DEF UnwindInv, TypeOK, Shape, Resolve
<1>2. /\ un.stepped => un.map # NoMap
      /\ ~un.stepped => un.error # "NONE" \/ un.device
      /\ un.attempt /\ un.map = NoMap => un.error = un.why
      /\ un.finished => un.error = "NONE" /\ un.map # NoMap
  BY <1>1 DEF ErrorInv, ErrorSays, At
<1>3. PICK fn \in Names :
        /\ frames' = IF HasFrame THEN [frames EXCEPT ![Top].fn = fn] ELSE frames
        /\ \/ HasFrame /\ fn \in ExitFunctions /\ un'.ph = "done" /\ un'.error = "EXIT_FUNC" /\ Keeps({"ph", "error"})
           \/ un.finished /\ un'.ph = "done" /\ Keeps({"ph"})
           \/ ~un.finished /\ un'.ph = "next" /\ Keeps({"ph"})
  BY <1>1, ResolveFields
<1>4. CASE HasFrame /\ fn \in ExitFunctions /\ un'.ph = "done" /\ un'.error = "EXIT_FUNC" /\ Keeps({"ph", "error"})
  <2>1. un.map # NoMap /\ Top \in DOMAIN frames
    BY <1>1, <1>4 DEF HasFrame, Top
  <2>2. Top = Len(frames') /\ frames'[Top].fn = fn
    <3>1. PICK f : f = [frames[Top] EXCEPT !.fn = fn]
      OBVIOUS
    <3>2. frames[Top] \in FrameType
      BY <1>1, <2>1
    <3>3. f \in FrameType /\ f.fn = fn
      BY <3>1, <3>2 DEF FrameType
    <3>4. frames' = [frames EXCEPT ![Top] = f]
      BY <1>3, <1>4, <3>1
    <3>5. PICK h : h = frames'
      OBVIOUS
    <3> QED BY <1>1, <2>1, <3>3, <3>4, <3>5, SeqExcept DEF Top
  <2> QED BY <1>4, <2>1, <2>2 DEF ErrorInv, ErrorSays, ErrorTells, At, Keeps
<1>5. CASE un.finished /\ un'.ph = "done" /\ Keeps({"ph"})
  BY <1>2, <1>5 DEF ErrorInv, ErrorSays, ErrorTells, At, Keeps
<1>6. CASE ~un.finished /\ un'.ph = "next" /\ Keeps({"ph"})
  BY <1>2, <1>6 DEF ErrorInv, ErrorSays, ErrorTells, At, Keeps
<1> QED BY <1>3, <1>4, <1>5, <1>6

LEMMA ErrorStepped ==
  ASSUME UnwindInv, ErrorInv, Stepped, world' = world
  PROVE  ErrorInv'
<1>1. At("next") /\ un.stepped /\ Shape /\ frames' = frames
  BY DEF UnwindInv, TypeOK, Shape, Stepped
<1>2. ~un.finished /\ un.map # NoMap
  BY <1>1 DEF ErrorInv, ErrorSays, At
<1>3. CASE un'.ph = "done" /\ un'.error = "REPEATED_FRAME" /\ Keeps({"ph", "error"})
  BY <1>2, <1>3, EndTells DEF Keeps
<1>4. CASE /\ un'.ph = "loop" /\ un'.attempt = FALSE /\ Keeps({"ph", "attempt", "error"})
           /\ un'.error = IF Len(frames) = world.max_frames THEN "MAX_FRAMES_EXCEEDED" ELSE un.error
  BY <1>1, <1>2, <1>4 DEF ErrorInv, ErrorSays, ErrorTells, At, Keeps
<1> QED BY <1>1, <1>3, <1>4, SteppedFields

LEMMA ErrorGuessFailed ==
  ASSUME UnwindInv, ErrorInv, GuessFailed
  PROVE  ErrorInv'
<1>1. At("next") /\ ~un.stepped /\ un.attempt /\ Shape
  BY DEF UnwindInv, TypeOK, Shape, GuessFailed
<1>2. un'.ph = "done" /\ un'.error = un.error /\ Keeps({"ph", "error"})
  BY <1>1, DoneFields DEF GuessFailed
<1>3. /\ ~un.finished /\ (un.error # "NONE" \/ un.device)
      /\ un.map = NoMap => un.error = un.why
  BY <1>1 DEF ErrorInv, ErrorSays, At
<1> QED BY <1>2, <1>3, EndTells DEF Keeps

LEMMA ErrorGuess ==
  ASSUME UnwindInv, ErrorInv, Guess
  PROVE  ErrorInv'
<1>1. At("next") /\ ~un.stepped /\ ~un.attempt /\ Shape
  BY DEF UnwindInv, TypeOK, Shape, Guess
<1>2. ~un.finished /\ (un.error # "NONE" \/ un.device)
  BY <1>1 DEF ErrorInv, ErrorSays, At
<1>3. CASE un'.ph = "done" /\ Keeps({"ph"})
  BY <1>1, <1>2, <1>3, EndTells DEF Keeps
<1>4. CASE /\ un'.ph = "loop" /\ ~un.device /\ un'.why = un.error
           /\ Keeps({"ph", "attempt", "guessed", "why"})
  BY <1>2, <1>4 DEF ErrorInv, ErrorSays, ErrorTells, At, Keeps
<1> QED BY <1>1, <1>3, <1>4, GuessFields

(* The last error on the way through the loop (Unwinder.cpp, Unwind).      *)
THEOREM ErrorInvariant ==
  ASSUME OtherErrors = {}
  PROVE  Spec => [](UnwindInv /\ ErrorInv)
<1>1. UnwindInv /\ ErrorInv /\ [Next]_vars => ErrorInv'
  <2>1. CASE Next
    BY <2>1, WorldKept, ErrorUnwind, ErrorFull, ErrorUnmapped, ErrorLocate, ErrorFillIn, ErrorDoNotStep,
       ErrorStepSignal, ErrorStep, ErrorResolve, ErrorStepped, ErrorGuessFailed, ErrorGuess DEF Next
  <2>2. CASE UNCHANGED vars
    BY <2>2 DEF vars, ErrorInv, ErrorSays, ErrorTells, At
  <2> QED BY <2>1, <2>2
<1> QED BY <1>1, ErrorInit, UnwindInvariant, PTL DEF Spec

(* When no other thread uses the Elf, the last error tells how the unwind  *)
(* ended (Unwinder.cpp, Unwind; Elf.cpp, GetLastError).                    *)
THEOREM ErrorsTell ==
  ASSUME OtherErrors = {}
  PROVE  Spec => []ErrorTells
BY ErrorInvariant, PTL DEF ErrorInv

============================================================================
