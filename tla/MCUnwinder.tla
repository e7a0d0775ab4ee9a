---------------------------- MODULE MCUnwinder ----------------------------
(***************************************************************************)
(* Unwinder for TLC: every call chain of up to two functions, from a set   *)
(* of kinds that covers the loop's cases, under main.                      *)
(***************************************************************************)
EXTENDS Unwinder, SequencesExt, TLC

CONSTANTS Archs, Frames, Depths

Region(lo, name, flags, valid) ==
  [lo |-> lo, hi |-> lo + 400, flags |-> flags, name |-> name, valid |-> valid, bias |-> 0]
Code4(lo, name, cfi, jit, tramp) ==
  [lo |-> lo, hi |-> lo + 80, name |-> name, cfi |-> cfi, signal |-> FALSE, jit |-> jit, tramp |-> tramp]

MCRegions ==
  { Region(400, "liballoc_hook.so", {"x"}, TRUE), Region(1000, "app", {"x"}, TRUE),
    Region(2000, "jit", {"x"}, FALSE), Region(3000, "gpu", {"x", "dev"}, TRUE),
    Region(4000, "odex", {"x"}, TRUE), Region(5000, "dex", {}, FALSE), Region(6000, "exe", {"x"}, TRUE),
    [Region(10000, "stack", {}, FALSE) EXCEPT !.hi = 20000],
    [Region(30000, "shared", {"dev"}, FALSE) EXCEPT !.hi = 40000] }

MCFuncs ==
  { Code4(400, "malloc", TRUE, FALSE, FALSE), Code4(1000, "a", TRUE, FALSE, FALSE),
    Code4(1080, "b", TRUE, FALSE, FALSE), Code4(1160, "leaf", FALSE, FALSE, FALSE),
    Code4(1240, "restore", FALSE, FALSE, TRUE), Code4(1320, "exit", TRUE, FALSE, FALSE),
    Code4(2000, "jitted", TRUE, TRUE, FALSE), Code4(3000, "shader", TRUE, FALSE, FALSE),
    Code4(4000, "compiled", TRUE, FALSE, FALSE), Code4(480, "other", TRUE, FALSE, FALSE),
    [Code4(6080, "vdso", TRUE, FALSE, FALSE) EXCEPT !.signal = TRUE], Code4(6000, "main", TRUE, FALSE, FALSE) }

(* The pc of an activation; "end" is the return address of a call that     *)
(* ends its function, "lost" and "dead" are code nobody knows.             *)
Pc == [a |-> 1016, end |-> 1160, leaf |-> 1176, restore |-> 1240, exit |-> 1336, malloc |-> 416,
       jitted |-> 2016, dead |-> 2116, shader |-> 3016, compiled |-> 4016, dexed |-> 1032,
       lost |-> 9000, main |-> 6016, first |-> 1080, blind |-> 1192, wrong |-> 1208, nowhere |-> 9200,
       broken |-> 496, vdso |-> 6088]
Fn == [k \in DOMAIN Pc |->
         CASE k \in {"end", "first"} -> "b" [] k = "dexed" -> "a" [] k \in {"dead", "lost", "nowhere"} -> ""
           [] k \in {"blind", "wrong"} -> "leaf"
           [] OTHER -> k]
Frameless == {"leaf", "lost", "dead"}
Kinds == DOMAIN Pc \ {"main", "first", "lost", "nowhere", "broken"}
Inner == {"first", "lost", "nowhere", "broken"}
Garbage == 9400

(* What a signal interrupted has no return address for a pc.               *)
Interrupts == {"restore", "vdso"}
Possible(c) == \A k \in DOMAIN c : c[k] = "end" => k > 1 /\ c[k - 1] \notin Interrupts
Chains == {c \in UNION {[1..n -> Kinds] : n \in Depths} \cup
                 {<< f >> \o c : f \in Inner, c \in {<< >>} \cup {<< k >> : k \in Kinds}} :
             Possible(c)}

(* What the kernel puts on the stack for a handler: [code, at, word].      *)
SignalFrames(arch, sp) ==
  LET F(code, at, word) == [code |-> code, at |-> at, word |-> word]
  IN CASE arch = "ARM" -> {F("restore", sp + 12, sp :> 0), F("restore", sp + 32, sp :> UcMagic),
                           F("restore_rt", sp + 168, sp :> sp + 8), F("restore_rt", sp + 160, sp :> 0)}
       [] arch = "X86" -> {F("restore", sp + 4, << >>), F("restore_rt", sp + 120, (sp + 8) :> sp + 100)}
       [] arch = "MIPS" -> {F("restore", sp + 32, << >>), F("restore_rt", sp + 184, << >>)}
       [] arch = "ARM64" -> {F("restore_rt", sp + 312, << >>)}
       [] arch = "X86_64" -> {F("restore_rt", sp + 40, << >>)}
       [] arch = "MIPS64" -> {F("restore_rt", sp + 192, << >>)}

Sp(base, chain, k) == base + 500 * Cardinality({i \in 1..(k - 1) : chain[i] \notin Frameless})

(* On arm a return address into thumb code has its lowest bit set; the call*)
(* in "end" is a wide instruction, the one in "main" is not.               *)
PcOf(arch, chain, k) ==
  LET thumb == arch = "ARM" /\ k > 1 /\ chain[k - 1] \notin Interrupts
  IN Pc[chain[k]] + CASE thumb /\ chain[k] = "end" -> 1 [] thumb /\ chain[k] = "main" -> 3 [] OTHER -> 0

Acts(arch, chain, base) ==
  [k \in 1..Len(chain) |->
     [fn |-> Fn[chain[k]],
      regs |-> [pc |-> PcOf(arch, chain, k),
                sp |-> Sp(base, chain, k),
                lr |-> IF chain[k] \in Frameless THEN PcOf(arch, chain, k + 1)
                       ELSE IF chain[k] = "wrong" THEN 1064 ELSE Garbage,
                dex |-> IF chain[k] = "dexed" THEN 5016 ELSE 0]]]

RECURSIVE Merge(_)
Merge(fs) == IF fs = << >> THEN << >> ELSE Head(fs) @@ Merge(Tail(fs))

WorldOf(arch, chain, base, max, signed, variant) ==
  LET acts == Acts(arch, chain, base)
      Sig(k) == LET all == SetToSeq(SignalFrames(arch, acts[k].regs.sp)) IN all[(variant % Len(all)) + 1]
      signals == SelectSeq([k \in DOMAIN chain |-> k], LAMBDA k : chain[k] = "restore")
      tops == SelectSeq([k \in DOMAIN chain |-> k], LAMBDA k : chain[k] \in Frameless \cup {"blind", "wrong", "nowhere"})
  IN [arch |-> arch, acts |-> acts, pc |-> acts[1].regs.pc + (IF signed THEN PacBit ELSE 0), max_frames |-> max,
      code |-> IF signals = << >> THEN "" ELSE Sig(signals[1]).code,
      word |-> Merge([i \in DOMAIN signals |-> Sig(signals[i]).word]) @@
               Merge([i \in DOMAIN tops |-> acts[tops[i]].regs.sp :> acts[tops[i]].regs.lr]),
      saved |-> Merge([i \in DOMAIN signals |-> Sig(signals[i]).at :> acts[signals[i] + 1].regs])]

(* All chains on the common architectures; on every architecture, with     *)
(* every layout of its signal frames, on a stack that is a device's memory *)
(* or with a signed pc, the short ones.                                    *)
Short == {c \in Chains : Len(c) = 1 \/ c[1] = "restore" \/ c[2] = "end"}

MCWorlds ==
  {WorldOf(arch, c \o << "main" >>, 10000, max, FALSE, 0) : arch \in Archs, c \in Chains, max \in Frames}
  \cup
  {WorldOf(arch, c \o << "main" >>, 10000, 5, FALSE, v) :
     arch \in {"ARM", "ARM64", "X86", "X86_64", "MIPS", "MIPS64"}, c \in Short, v \in 0..3}
  \cup
  {WorldOf("ARM64", c \o << "main" >>, base, 5, signed, 0) :
     c \in Short, base \in {10000, 30000}, signed \in BOOLEAN}

(* Nowhere, in a function of the application, in two of the hook's own     *)
(* library, between which the unwind may go to and fro.                    *)
MCAstray == {[pc |-> pc, sp |-> 10100, lr |-> 0, dex |-> 0] : pc \in {Garbage, 1048, 416, 512}}

Real == SelectSeq(frames, LAMBDA f : f.kind = "real")
Shown == LET skipped == {k \in DOMAIN world.acts : world.acts[k].fn # "malloc"}
             from == CHOOSE k \in skipped : \A l \in skipped : k <= l
         IN SubSeq(world.acts, from, Len(world.acts))

Unwindable(act) == /\ act.fn \in {"a", "b", "restore", "vdso", "jitted", "malloc", "main"}
              /\ "dev" \notin Find(act.regs.sp).flags

\* Frame for frame the backtrace is the call chain above the hook's own library: no caller is left
\* out, none is invented, and the name is that of the function that made the call, even when the call
\* is its last instruction; the pc of a signal's frame is exact.  A chain of functions with unwind information and signal trampolines is
\* shown to its end, as far as there is room.  For any other chain it holds up to the frame where
\* unwind information was wrong or a return address was guessed wrong (Unwinder.cpp, Unwind; Regs.cpp,
\* GetPcAdjustment; Regs*.cpp, StepIfSignalHandler).
CallersRight ==
  At("done") =>
    /\ \A i \in DOMAIN Real :
         (un.sure = -1 \/ i <= un.sure) =>
           /\ i <= Len(Shown)
           /\ Real[i].fn = Shown[i].fn
           /\ Real[i].pc \in (Shown[i].regs.pc - 8)..Shown[i].regs.pc
           /\ Shown[i].fn \in Interrupts /\ i < Len(Real) => Real[i].pc = Shown[i].regs.pc
    /\ (\A k \in DOMAIN world.acts : Unwindable(world.acts[k])) =>
         Len(Real) = Len(Shown) \/ Len(frames) = world.max_frames

\* An unwind ends: unwind information that leads back to the same frame is noticed, and every other
\* cycle fills the backtrace (Unwinder.cpp, Unwind: "If the pc and sp didn't change, then consider
\* everything stopped.").  The one exception is the code's own: among skipped maps no frame is added,
\* and a cycle of two different frames of the hook's library is left by nothing.
AmongSkipped == frames = << >> /\ un.map.name \in SkipMaps
Moves == regs'.pc # regs.pc \/ regs'.sp # regs.sp

Terminates == \/ <>At("done")
              \/ <>[]AmongSkipped /\ []<><<Moves>>_vars
============================================================================
