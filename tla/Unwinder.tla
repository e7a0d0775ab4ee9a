----------------------------- MODULE Unwinder -----------------------------
(***************************************************************************)
(* Unwinder::Unwind: the loop that turns registers into frames.            *)
(*                                                                         *)
(* A world is a stopped thread: arch, pc (as the registers have it, signed *)
(* or not), acts (its true call chain, innermost first: [regs, fn]), its   *)
(* memory (word, and saved for whole register sets), code (the signal      *)
(* trampoline's) and the caller's max_frames.                              *)
(* Elf::Step with the unwind information of the right function leads from  *)
(* one activation to the next; with any other it fails or leads astray.    *)
(***************************************************************************)
EXTENDS Regs, Sequences, FiniteSets

CONSTANTS
  Worlds,
  Regions,       \* the maps: [lo, hi, flags, name, valid, bias]
  Funcs,         \* the functions: [lo, hi, name, cfi, signal, jit, tramp]; signal: their CIE's
                 \* augmentation has an 'S'
  Astray,        \* registers a wrong step may leave
  SkipMaps,      \* initial_map_names_to_skip: the hook's own library
  StopMaps,      \* maps whose suffix is to be ignored
  ExitFunctions, \* mangle_function_to_exit
  OtherErrors    \* errors other threads leave in a shared Elf before GetLastError

VARIABLES
  world, regs, frames,
  un       \* the loop's locals; sure, guessed and why are history: the real frames before it went
           \* astray (-1: it did not), those before the last guess, and the error then

vars == << world, regs, frames, un >>

NoMap == [lo |-> 0, hi |-> 0, flags |-> {}, name |-> "", valid |-> FALSE, bias |-> 0]
Start == [ph |-> "start", adjust |-> FALSE, attempt |-> FALSE, skip |-> TRUE, error |-> "NONE",
          pc |-> 0, sp |-> 0, map |-> NoMap, rel |-> 0, adj |-> 0, look |-> 0, jit |-> FALSE,
          ignore |-> FALSE, stepped |-> FALSE, device |-> FALSE, finished |-> FALSE, warned |-> FALSE,
          sure |-> -1, guessed |-> 0, why |-> "NONE"]

Init ==
  /\ world \in Worlds /\ regs = [world.acts[1].regs EXCEPT !.pc = world.pc, !.dex = 0]
  /\ frames = << >> /\ un = Start

One(S, none) == IF S = {} THEN none ELSE CHOOSE x \in S : TRUE
Find(pc)  == One({m \in Regions : m.lo <= pc /\ pc < m.hi}, NoMap)
Func(a)   == One({f \in Funcs : f.lo <= a /\ a < f.hi},
                 [lo |-> 0, hi |-> 0, name |-> "", cfi |-> FALSE, signal |-> FALSE, jit |-> FALSE, tramp |-> FALSE])

Registers == [pc : Int, sp : Int, lr : Int, dex : Int]

ASSUME CodeAssumption ==
  /\ PacBit \in Nat \ {0}
  /\ \A m \in Regions : {m.lo, m.bias} \subseteq Int

ASSUME WorldAssumption ==
  \A w \in Worlds :
    /\ w.arch \in {"ARM", "ARM64", "MIPS", "MIPS64", "X86", "X86_64"}
    /\ w.pc \in Int /\ w.max_frames \in Nat \ {0}
    /\ 1 \in DOMAIN w.acts /\ DOMAIN w.acts = 1..Len(w.acts)
    /\ \A k \in DOMAIN w.acts : w.acts[k].regs \in Registers
    /\ \A a \in DOMAIN w.word : w.word[a] \in Int
    /\ \A a \in DOMAIN w.saved : w.saved[a] \in Registers

(* A signal interrupted somebody: no signal frame is the outermost one,    *)
(* which alone can end an unwind.                                          *)
ASSUME SignalFrameAssumption ==
  \A w \in Worlds : \A f \in Funcs : f.name = w.acts[Len(w.acts)].fn => ~f.signal

(* No interpreter runs in the hook's own library.                          *)
NotSkipped(r) == r.dex # 0 => Find(r.pc).name \notin SkipMaps

ASSUME DexAssumption ==
  /\ Astray \subseteq Registers /\ \A r \in Astray : NotSkipped(r)
  /\ \A w \in Worlds : \A k \in DOMAIN w.acts : NotSkipped(w.acts[k].regs)

Wide(a)   == a % 4 = 0          \* thumb code mixes 16 and 32 bit instructions
Code(pc)  == IF Func(pc).lo = pc /\ Func(pc).tramp THEN world.code ELSE ""

At(p)     == un.ph = p
Set(u)    == un' = [f \in DOMAIN un |-> IF f \in DOMAIN u THEN u[f] ELSE un[f]]
Done(e)   == Set([ph |-> "done", error |-> e])

(* The first pc may carry a signature.                                     *)
Unwind ==
  /\ At("start")
  /\ regs' = IF Find(regs.pc) = NoMap THEN fallback_pc(world.arch, regs) ELSE regs
  /\ Set([ph |-> "loop"]) /\ UNCHANGED << world, frames >>

Full ==
  /\ At("loop") /\ Len(frames) >= world.max_frames
  /\ Done(un.error) /\ UNCHANGED << world, regs, frames >>

\* mutant
NoMapError_Always == "INVALID_MAP"

(* A pc that was only guessed does not hide the error before it.           *)
NoMapError == IF ~un.attempt \/ un.error = "NONE" THEN "INVALID_MAP" ELSE un.error

Unmapped ==
  /\ At("loop") /\ Len(frames) < world.max_frames /\ Find(regs.pc) = NoMap
  /\ Set([ph |-> "fill", pc |-> regs.pc, sp |-> regs.sp, map |-> NoMap, rel |-> regs.pc, adj |-> 0,
          look |-> regs.pc, jit |-> FALSE, ignore |-> FALSE, error |-> NoMapError])
  /\ UNCHANGED << world, regs, frames >>

\* mutant
PcAdjustment_Never(rel, m) == 0

(* The call a return address belongs to lies before it; the first pc is    *)
(* exact.                                                                  *)
PcAdjustment(rel, m) ==
  IF un.adjust THEN GetPcAdjustment(world.arch, rel, m.valid, m.bias, Wide(rel - m.bias - 5)) ELSE 0

(* The map, its Elf, the relative pc, or else the JIT's Elf.               *)
Locate ==
  /\ At("loop") /\ Len(frames) < world.max_frames /\ Find(regs.pc) # NoMap
  /\ LET m == Find(regs.pc)
         ignore == un.skip /\ m.name \in SkipMaps
         rel == regs.pc - m.lo + m.bias
         adj == PcAdjustment(rel, m)
     IN IF ~ignore /\ m.name \in StopMaps
        THEN Done(un.error)
        ELSE Set([ph |-> "fill", pc |-> regs.pc, sp |-> regs.sp, map |-> m, rel |-> rel, adj |-> adj,
                  look |-> regs.pc - adj, ignore |-> ignore,
                  jit |-> ~m.valid /\ "x" \in m.flags /\ Func(regs.pc - adj).jit])
  /\ UNCHANGED << world, regs, frames >>

Frame(pc, kind) == [num |-> Len(frames), pc |-> pc, fn |-> "", kind |-> kind]

RoomAfterDex(fs) == Len(fs) # world.max_frames

(* FillInDexFrame, FillInFrame.                                            *)
FillIn ==
  /\ At("fill")
  /\ LET dex == ~un.ignore /\ regs.dex # 0
         first == IF dex THEN Append(frames, Frame(regs.dex, "dex")) ELSE frames
         frame == [Frame(regs.pc - un.adj, "real") EXCEPT !.num = Len(first)]
         warned == un.warned \/ (dex /\ Find(regs.dex) = NoMap)
     IN /\ regs' = IF dex THEN [regs EXCEPT !.dex = 0] ELSE regs
        /\ IF dex /\ ~RoomAfterDex(first)
           THEN frames' = first /\ Done("MAX_FRAMES_EXCEEDED")
           ELSE /\ frames' = IF un.ignore THEN frames ELSE Append(first, frame)
                /\ Set([ph |-> "step", adjust |-> TRUE, skip |-> un.skip /\ un.ignore, warned |-> warned,
                        stepped |-> FALSE, device |-> FALSE, finished |-> FALSE])
  /\ UNCHANGED world

(* The real frame of this turn, if it has a map.                           *)
HasFrame == un.map # NoMap /\ ~un.ignore
Top      == Len(frames)

(* No step from nowhere, nor in or on a device's memory.                   *)
InDevice == "dev" \in un.map.flags \/ "dev" \in Find(regs.sp).flags

DoNotStep ==
  /\ At("step") /\ (un.map = NoMap \/ InDevice)
  /\ Set([ph |-> "name", device |-> un.map # NoMap]) /\ UNCHANGED << world, regs, frames >>

(* Elf::GetLastError: whatever the last Step of any thread left.           *)
LastErrors(e) == IF un.map.valid \/ un.jit THEN {e} \cup OtherErrors ELSE {"INVALID_ELF"}

(* The pc of a signal's frame was exact.                                   *)
FrameOf(signal) == IF signal /\ HasFrame THEN [frames EXCEPT ![Top].pc = @ + un.adj] ELSE frames
LookOf(signal)  == IF signal /\ HasFrame THEN un.look + un.adj ELSE un.look

(* A trampoline that is known by its code.  It leaves the error of the     *)
(* Elf's last Step where it was.                                           *)
SignalHandler == StepIfSignalHandler(world.arch, regs, Code(regs.pc), world)
MayBeSignal   == un.map.valid /\ un.rel >= un.map.bias

StepSignal ==
  /\ At("step") /\ un.map # NoMap /\ ~InDevice /\ MayBeSignal /\ SignalHandler.ok
  /\ regs' = SignalHandler.regs
  /\ frames' = FrameOf(TRUE)
  /\ \E e \in LastErrors("NONE") \cup LastErrors("UNWIND_INFO") :
       Set([ph |-> "name", stepped |-> TRUE, error |-> e, look |-> LookOf(TRUE)])
  /\ UNCHANGED world

(* Elf::Step: by the unwind information at the pc looked up, which says    *)
(* too whether the frame is a signal's.                                    *)
Here == {k \in DOMAIN world.acts : world.acts[k].regs.pc = regs.pc /\ world.acts[k].regs.sp = regs.sp}
Right == {k \in Here : world.acts[k].fn = Func(un.look).name}
Known == (un.map.valid \/ un.jit) /\ Func(un.look).cfi

Sure  == IF un.sure = -1 THEN Cardinality({i \in DOMAIN frames : frames[i].kind = "real"}) ELSE un.sure

(* No unwind information, or the registers could not be read: then the row *)
(* was found, and is_signal_frame set, or it was not.                      *)
StepFails ==
  /\ ~Known \/ Right = {}
  /\ \E signal \in {FALSE, Known /\ Func(un.look).signal}, e \in LastErrors("UNWIND_INFO") :
       /\ Set([ph |-> "name", error |-> e, look |-> LookOf(signal)])
       /\ frames' = FrameOf(signal)
  /\ UNCHANGED regs

Steps ==
  /\ Known
  /\ LET k == One(Right, 0)
         signal == Func(un.look).signal
         look == LookOf(signal)
     IN /\ frames' = FrameOf(signal)
        /\ \E e \in LastErrors("NONE") :
             \/ /\ Right = {} /\ regs' \in Astray
                /\ Set([ph |-> "name", stepped |-> TRUE, look |-> look, error |-> e, sure |-> Sure])
             \/ /\ Right # {} /\ k = Len(world.acts) /\ UNCHANGED regs
                /\ Set([ph |-> "name", stepped |-> TRUE, look |-> look, error |-> e, finished |-> TRUE])
             \/ /\ Right # {} /\ k < Len(world.acts) /\ regs' = world.acts[k + 1].regs
                /\ Set([ph |-> "name", stepped |-> TRUE, look |-> look, error |-> e])

Step ==
  /\ At("step") /\ un.map # NoMap /\ ~InDevice /\ ~(MayBeSignal /\ SignalHandler.ok)
  /\ StepFails \/ Steps
  /\ UNCHANGED world

(* GetFunctionName; a function nobody wants to see ends the unwind.        *)
Resolve ==
  /\ At("name")
  /\ LET fn == IF un.map.valid \/ un.jit THEN Func(un.look).name ELSE ""
     IN /\ frames' = IF HasFrame THEN [frames EXCEPT ![Top].fn = fn] ELSE frames
        /\ IF HasFrame /\ fn \in ExitFunctions THEN Done("EXIT_FUNC")
           ELSE IF un.finished THEN Done(un.error)
           ELSE Set([ph |-> "next"])
  /\ UNCHANGED << world, regs >>

\* mutant
Repeated_Never(r) == FALSE

(* The pc and sp did not change: everything stops.                         *)
Repeated(r) == r.pc = un.pc /\ r.sp = un.sp

Stepped ==
  /\ At("next") /\ un.stepped
  /\ LET e == IF Len(frames) = world.max_frames THEN "MAX_FRAMES_EXCEEDED" ELSE un.error
     IN IF Repeated(regs) THEN Done("REPEATED_FRAME")
        ELSE Set([ph |-> "loop", attempt |-> FALSE, error |-> e])
  /\ UNCHANGED << world, regs, frames >>

\* mutant
KeepGuess_Always == TRUE

(* A guess that led nowhere is taken back, unless it is all there is.      *)
KeepGuess == ~(Len(frames) > 2 \/ (Len(frames) > 0 /\ Find(frames[1].pc) # NoMap))

GuessFailed ==
  /\ At("next") /\ ~un.stepped /\ un.attempt
  /\ frames' = IF KeepGuess THEN frames ELSE SubSeq(frames, 1, Len(frames) - 1)
  /\ Done(un.error) /\ UNCHANGED << world, regs >>

(* The return address in its register or on the top of the stack.          *)
Guess ==
  /\ At("next") /\ ~un.stepped /\ ~un.attempt
  /\ LET r == SetPcFromReturnAddress(world.arch, regs, world)
     IN IF un.device \/ r = regs
        THEN Done(un.error) /\ UNCHANGED regs
        ELSE /\ regs' = r
             /\ Set([ph |-> "loop", attempt |-> TRUE, guessed |-> Len(frames), why |-> un.error,
                     sure |-> IF \E k \in DOMAIN world.acts :
                                   world.acts[k].regs.pc = r.pc /\ world.acts[k].regs.sp = r.sp
                              THEN un.sure ELSE Sure])
  /\ UNCHANGED << world, frames >>

Next ==
  \/ Unwind \/ Full \/ Unmapped \/ Locate \/ FillIn \/ DoNotStep \/ StepSignal \/ Step \/ Resolve
  \/ Stepped \/ GuessFailed \/ Guess

Spec == Init /\ [][Next]_vars /\ WF_vars(Next)
----------------------------------------------------------------------------
(* A guessed return address from which no step was possible leaves no      *)
(* frame, unless the thread was nowhere to begin with and there is nothing *)
(* else to show (Unwinder.cpp, Unwind).                                    *)
NoGuessLeft ==
  At("done") /\ un.attempt /\ ~un.stepped /\ un.error # "EXIT_FUNC" =>
    \/ Len(frames) <= un.guessed
    \/ Len(frames) <= 2 /\ Find(frames[1].pc) = NoMap

(* A backtrace that is complete is reported without an error, so that the  *)
(* tracker keeps it; one that ended early for lack of a map or of unwind   *)
(* information is not, and a guess that led nowhere does not hide the      *)
(* error before it (Unwinder.cpp, Unwind; PointerData.cpp, AddBacktrace).  *)
ErrorTells ==
  At("done") =>
    /\ un.finished /\ frames[Len(frames)].fn \notin ExitFunctions => un.error = "NONE"
    /\ un.error = "NONE" => un.finished \/ un.device \/ Find(regs.pc).name \in StopMaps
    /\ un.attempt /\ un.map = NoMap /\ un.why # "NONE" => un.error = un.why

(* The inductive invariant.  Frames and registers.                         *)
Names == {f.name : f \in Funcs} \cup {""}
FrameType == [num : Nat, pc : Int, fn : Names, kind : {"real", "dex"}]

TypeOK ==
  /\ world \in Worlds /\ regs \in Registers /\ frames \in Seq(FrameType)
  /\ DOMAIN un = DOMAIN Start
  /\ un.ph \in {"start", "loop", "fill", "step", "name", "next", "done"}
  /\ un.adj \in Int /\ un.guessed \in Nat
  /\ Len(frames) <= world.max_frames
  /\ At("start") => frames = << >> /\ ~un.attempt /\ ~un.finished
  /\ At("fill") => Len(frames) < world.max_frames
  /\ (At("step") \/ At("name")) /\ ~un.ignore => frames # << >>

(* The dex pc is shown once, before the frame that it belongs to, and not  *)
(* with a guess.                                                           *)
DexOnce ==
  /\ At("start") \/ At("step") \/ (At("fill") /\ un.ignore) => regs.dex = 0
  /\ (At("name") \/ At("next")) /\ ~un.stepped => regs.dex = 0
  /\ (At("loop") \/ At("fill")) /\ un.attempt => regs.dex = 0
  /\ At("loop") \/ ((At("name") \/ At("next")) /\ un.stepped) => NotSkipped(regs)

(* What a guess added.                                                     *)
GuessAdds ==
  /\ un.attempt /\ (At("loop") \/ At("fill")) => ~un.stepped /\ Len(frames) = un.guessed
  /\ un.attempt /\ (At("step") \/ At("name") \/ At("next")) => Len(frames) \in un.guessed..(un.guessed + 1)
  /\ At("step") => ~un.stepped
  /\ un.finished => un.stepped

UnwindInv == TypeOK /\ DexOnce /\ GuessAdds /\ NoGuessLeft

(* What the error says on the way, when no other thread uses the Elf.      *)
ErrorSays ==
  /\ At("fill") \/ At("step") => (un.map = NoMap => un.error # "NONE")
  /\ At("name") \/ At("next") =>
       /\ un.stepped => un.map # NoMap
       /\ ~un.stepped => un.error # "NONE" \/ un.device
  /\ At("loop") /\ (un.attempt \/ Len(frames) = world.max_frames) => un.error # "NONE"
  /\ At("loop") /\ un.attempt => un.error = un.why
  /\ (At("fill") \/ At("step") \/ At("name") \/ At("next")) /\ un.attempt /\ un.map = NoMap => un.error = un.why
  /\ un.finished => (At("name") /\ un.error = "NONE" /\ un.map # NoMap) \/ At("done")

ErrorInv == ErrorSays /\ ErrorTells
============================================================================
