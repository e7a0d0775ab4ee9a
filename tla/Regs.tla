------------------------------- MODULE Regs -------------------------------
(***************************************************************************)
(* The register sets of the architectures, as far as an unwind moves them: *)
(* pc, sp, the link register lr, the dex pc and the other registers as one *)
(* value.  mem is the process's memory: mem.word[a] is the word at a,      *)
(* mem.saved[a] a whole register set stored there, and an address of       *)
(* neither cannot be read.                                                 *)
(***************************************************************************)
EXTENDS Integers

CONSTANT PacBit    \* a signed return address is the address plus PacBit

Unreadable == -1
UcMagic == -2      \* uc_flags of the new arm signal frame, 0x5ac3c35a
LinkArchs == {"ARM", "ARM64", "MIPS", "MIPS64"}

Word(mem, a) == IF a \in DOMAIN mem.word THEN mem.word[a] ELSE Unreadable
Saved(mem, a) == IF a \in DOMAIN mem.saved THEN mem.saved[a]
                 ELSE [pc |-> 0, sp |-> Unreadable, lr |-> 0, dex |-> 0]

(* The instruction before a return address; wide: it is a 32 bit thumb     *)
(* instruction.                                                            *)
GetPcAdjustment(arch, rel_pc, valid, load_bias, wide) ==
  CASE arch = "ARM" ->
         IF ~valid THEN 2
         ELSE IF rel_pc < load_bias THEN IF rel_pc < 2 THEN 0 ELSE 2
         ELSE IF rel_pc - load_bias < 2 THEN 0
         ELSE IF rel_pc - load_bias < 5 THEN 2
         ELSE IF (rel_pc - load_bias) % 2 = 1 /\ ~wide THEN 2 ELSE 4
    [] arch = "ARM64" -> IF rel_pc < 4 THEN 0 ELSE 4
    [] arch \in {"MIPS", "MIPS64"} -> IF rel_pc < 8 THEN 0 ELSE 8
    [] arch \in {"X86", "X86_64"} -> IF rel_pc = 0 THEN 0 ELSE 1

strip_pac(pc) == pc % PacBit

fallback_pc(arch, regs) == IF arch = "ARM64" THEN [regs EXCEPT !.pc = strip_pac(@)] ELSE regs

(* SetPcFromReturnAddress; the same registers mean that it failed.         *)
SetPcFromReturnAddress(arch, regs, mem) ==
  IF arch \in LinkArchs THEN [regs EXCEPT !.pc = regs.lr]
  ELSE IF Word(mem, regs.sp) = Unreadable THEN regs
  ELSE [regs EXCEPT !.pc = Word(mem, regs.sp)]

(* Where the frame of a signal keeps the registers, by the trampoline's    *)
(* code: 0 if this is no trampoline or the frame cannot be read.           *)
SigcontextArm(code, sp, mem) ==
  IF Word(mem, sp) = Unreadable THEN 0
  ELSE
    CASE code = "restore"      -> IF Word(mem, sp) = UcMagic THEN sp + 20 + 12 ELSE sp + 12
      [] code = "restore_rt"   -> IF Word(mem, sp) = sp + 8 THEN sp + 8 + 128 + 20 + 12 ELSE sp + 128 + 20 + 12

SigcontextX86(code, sp, mem) ==
  CASE code = "restore"    -> sp + 4
    [] code = "restore_rt" -> IF Word(mem, sp + 8) = Unreadable THEN 0 ELSE Word(mem, sp + 8) + 20

SigcontextMips(code, sp) ==
  CASE code = "restore"    -> sp + 24 + 8
    [] code = "restore_rt" -> sp + 24 + 128 + 24 + 8

Sigcontext(arch, code, sp, mem) ==
  IF code \notin {"restore", "restore_rt"} THEN 0
  ELSE
    CASE arch = "ARM"    -> SigcontextArm(code, sp, mem)
      [] arch = "X86"    -> SigcontextX86(code, sp, mem)
      [] arch = "MIPS"   -> SigcontextMips(code, sp)
      [] arch = "ARM64"  -> IF code = "restore_rt" THEN sp + 128 + 176 + 8 ELSE 0
      [] arch = "X86_64" -> IF code = "restore_rt" THEN sp + 40 ELSE 0
      [] arch = "MIPS64" -> IF code = "restore_rt" THEN sp + 24 + 128 + 40 ELSE 0

(* StepIfSignalHandler: all registers come from the signal's frame; the    *)
(* dex pc is none of them.                                                 *)
StepIfSignalHandler(arch, regs, code, mem) ==
  LET at == Sigcontext(arch, code, regs.sp, mem)
      ok == at # 0 /\ Saved(mem, at).sp # Unreadable
  IN [ok |-> ok, regs |-> IF ok THEN [Saved(mem, at) EXCEPT !.dex = regs.dex] ELSE regs]
============================================================================
