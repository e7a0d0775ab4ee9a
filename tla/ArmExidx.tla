------------------------------ MODULE ArmExidx ------------------------------
(***************************************************************************)
(* The decoder of ARM exception-table byte codes (ArmExidx.cpp).           *)
(*                                                                         *)
(* A decoding is a record: data is what is left of data_, cfa and regs     *)
(* (0..15) are what the codes change, go is FALSE once Decode returned     *)
(* false.  log_type_ is ARM_LOG_NONE in this program, so the branches that *)
(* log are not taken.  An elf word is its four bytes, highest first.       *)
(***************************************************************************)
EXTENDS Integers, Sequences, SequencesExt, FiniteSetsExt

CONSTANT WordBits         \* the bits of a uint32_t: 32

ASSUME WordAssumption == WordBits \in 11..31    \* 0x204 fits, TLC's integers too

ARM_OP_FINISH == 176
ARM_REG_SP == 13
ARM_REG_LR == 14
ARM_REG_PC == 15

Word(v) == v % (2^WordBits)
\* A prel31 field: the sign is in bit 30.
Prel31(w) ==
  LET v == ((w[1] % 64) * 256 + w[2]) * 65536 + w[3] * 256 + w[4]
  IN  IF (w[1] % 128) >= 64 THEN v - 1073741824 ELSE v

NewExidx(regs) ==
  [data |-> << >>, cfa |-> regs[ARM_REG_SP], regs |-> regs, pc_set |-> FALSE,
   status |-> "NONE", go |-> TRUE]
Refuse(a, status) == [a EXCEPT !.status = status, !.go = FALSE]

-----------------------------------------------------------------------------
\* ExtractEntryData.  Every sequence of codes it gives ends with a finish.
Finished(data) == IF Last(data) = ARM_OP_FINISH THEN data ELSE Append(data, ARM_OP_FINISH)

\* The codes of a table of words at addr, after the ones in its first word.
TableWords(a, elf, addr, n, first) ==
  LET at == [i \in 1..n |-> addr + 4 * (i - 1)]
  IN  IF n > 5 THEN Refuse(a, "MALFORMED")
      ELSE IF ~(\A i \in 1..n : at[i] \in DOMAIN elf) THEN Refuse(a, "READ_FAILED")
      ELSE [a EXCEPT !.data = Finished(FoldLeft(LAMBDA d, x : d \o elf[x], first, at))]

ExtractTable(a, elf, addr) ==
  LET w == elf[addr]
      model == w[1] % 16
  IN  IF addr \notin DOMAIN elf THEN Refuse(a, "READ_FAILED")
      ELSE IF w[1] >= 128
      THEN CASE model = 0 -> TableWords(a, elf, addr, 0, <<w[2], w[3], w[4]>>)
             [] model \in {1, 2} -> TableWords(a, elf, addr + 4, w[2], <<w[3], w[4]>>)
             [] OTHER -> Refuse(a, "INVALID_PERSONALITY")
      ELSE IF addr + 4 \notin DOMAIN elf THEN Refuse(a, "READ_FAILED")
      ELSE TableWords(a, elf, addr + 8, elf[addr + 4][1], Tail(elf[addr + 4]))

ExtractEntryData(a, elf, entry) ==
  LET w == elf[entry + 4]
  IN  IF entry % 2 = 1 THEN Refuse(a, "INVALID_ALIGNMENT")
      ELSE IF entry + 4 \notin DOMAIN elf THEN Refuse(a, "READ_FAILED")
      ELSE IF w = <<0, 0, 0, 1>> THEN Refuse(a, "NO_UNWIND")
      ELSE IF w[1] < 128 THEN ExtractTable(a, elf, entry + 4 + Prel31(w))
      ELSE IF w[1] % 16 # 0 THEN Refuse(a, "INVALID_PERSONALITY")
      ELSE [a EXCEPT !.data = Finished(Tail(w))]

-----------------------------------------------------------------------------
\* The byte codes.
Adjust(a, n) == [a EXCEPT !.cfa = Word(@ + n)]
Spare(a) == Refuse(a, "SPARE")

\* GetByte, and what is done with the byte.
WithByte(a, Op(_, _)) ==
  IF a.data = << >> THEN Refuse(a, "TRUNCATED") ELSE Op([a EXCEPT !.data = Tail(@)], Head(a.data))

\* Pops registers in the order of the sequence; a read that fails leaves the
\* ones before it popped.
Pop(a, regs, mem) ==
  FoldLeft(LAMBDA x, r : IF ~x.go THEN x
                         ELSE IF x.cfa \notin DOMAIN mem THEN Refuse(x, "READ_FAILED")
                         ELSE [x EXCEPT !.regs[r] = mem[x.cfa], !.cfa = Word(@ + 4)],
           a, regs)
\* The registers of a mask, the lowest first.
Masked(mask, lowest, n) ==
  SelectSeq([i \in 1..n |-> lowest + i - 1], LAMBDA r : (mask \div 2^(r - lowest)) % 2 = 1)

DecodePrefix_10_00_KeepsVsp(a, mask, mem) ==                          \* mutant
  IF mask = 0 THEN Refuse(a, "NO_UNWIND")
  ELSE [Pop(a, Masked(mask, 4, 12), mem) EXCEPT !.pc_set = mask >= 2048]

\* Pops r4 - r15 under a mask.  A popped sp becomes the cfa.
DecodePrefix_10_00(a, mask, mem) ==
  LET regs == Masked(mask, 4, 12)
      p == Pop(a, regs, mem)
  IN  IF mask = 0 THEN Refuse(a, "NO_UNWIND")
      ELSE IF ~p.go THEN p
      ELSE [p EXCEPT !.cfa = IF Contains(regs, ARM_REG_SP) THEN p.regs[ARM_REG_SP] ELSE @,
                     !.pc_set = @ \/ Contains(regs, ARM_REG_PC)]

DecodePrefix_10_01(a, bits) ==
  IF bits \in {13, 15} THEN Refuse(a, "RESERVED") ELSE [a EXCEPT !.cfa = a.regs[bits]]

DecodePrefix_10_10(a, byte, mem) ==
  Pop(a, [i \in 1..((byte % 8) + 1) |-> 3 + i] \o (IF (byte % 16) >= 8 THEN <<ARM_REG_LR>> ELSE << >>), mem)

DecodePrefix_10_11_0001(a, byte, mem) ==
  IF byte = 0 \/ byte >= 16 THEN Spare(a) ELSE Pop(a, Masked(byte, 0, 4), mem)

\* vsp = vsp + 0x204 + (uleb128 << 2).  Bits shifted out are lost, as arm
\* shifts (C++ leaves a shift of 32 or more undefined).
DecodePrefix_10_11_0010(a) ==
  LET ends == {i \in DOMAIN a.data : a.data[i] < 128}
      n == Min(ends)
      value == Word(FoldLeft(LAMBDA v, i : v + (IF 7 * (i - 1) >= WordBits THEN 0
                                                ELSE (a.data[i] % 128) * 2^(7 * (i - 1))),
                             0, [i \in 1..n |-> i]))
  IN  IF ends = {} THEN Refuse([a EXCEPT !.data = << >>], "TRUNCATED")
      ELSE Adjust([a EXCEPT !.data = SubSeq(@, n + 1, Len(@))], 516 + 4 * value)

DecodePrefix_10_11(a, byte, mem) ==
  LET low == byte % 16
  IN  CASE low = 0 -> Refuse(a, "FINISH")
        [] low = 1 -> WithByte(a, LAMBDA x, b : DecodePrefix_10_11_0001(x, b, mem))
        [] low = 2 -> DecodePrefix_10_11_0010(a)
        [] low = 3 -> WithByte(a, LAMBDA x, b : Adjust(x, (b % 16) * 8 + 12))
        [] low \in 4..7 -> Spare(a)
        [] OTHER -> Adjust(a, (byte % 8) * 8 + 12)

DecodePrefix_10(a, byte, mem) ==
  CASE byte < 144 -> WithByte(a, LAMBDA x, b : DecodePrefix_10_00(x, (byte % 16) * 256 + b, mem))
    [] byte \in 144..159 -> DecodePrefix_10_01(a, byte % 16)
    [] byte \in 160..175 -> DecodePrefix_10_10(a, byte, mem)
    [] OTHER -> DecodePrefix_10_11(a, byte, mem)

\* wR and wCGR registers: only the cfa moves.
DecodePrefix_11_000(a, bits) ==
  CASE bits = 6 -> WithByte(a, LAMBDA x, b : Adjust(x, (b % 16) * 8 + 8))
    [] bits = 7 -> WithByte(a, LAMBDA x, b : IF b = 0 \/ b >= 16 THEN Spare(x)
                                             ELSE Adjust(x, 4 * Len(Masked(b, 0, 4))))
    [] OTHER -> Adjust(a, bits * 8 + 8)

DecodePrefix_11_001(a, bits) ==
  IF bits \in {0, 1} THEN WithByte(a, LAMBDA x, b : Adjust(x, (b % 16) * 8 + 8)) ELSE Spare(a)

DecodePrefix_11_010(a, bits) == Adjust(a, bits * 8 + 8)

DecodePrefix_11(a, byte) ==
  CASE byte < 200 -> DecodePrefix_11_000(a, byte % 8)
    [] byte \in 200..207 -> DecodePrefix_11_001(a, byte % 8)
    [] byte \in 208..215 -> DecodePrefix_11_010(a, byte % 8)
    [] OTHER -> Spare(a)

Decode(a, mem) ==
  WithByte([a EXCEPT !.status = "NONE"],
           LAMBDA x, b : CASE b < 64 -> Adjust(x, (b % 64) * 4 + 4)
                           [] b \in 64..127 -> Adjust(x, -((b % 64) * 4 + 4))
                           [] b \in 128..191 -> DecodePrefix_10(x, b, mem)
                           [] OTHER -> DecodePrefix_11(x, b))

=============================================================================
