------------------------------ MODULE DwarfCfa ------------------------------
(***************************************************************************)
(* The machine that runs the call frame instructions of a CIE or an FDE    *)
(* up to a pc (DwarfCfa.cpp).  Its output is a row: where each register of *)
(* the caller is found, and the range of pcs the row is valid for.         *)
(*                                                                         *)
(* A run is a record: cur_pc, the row being built (DwarfLocations), saved  *)
(* (loc_reg_state_, its top first) and cie, the row of the CIE or NoCie.   *)
(* Step is one iteration of the loop of GetLocationInfo.                   *)
(***************************************************************************)
EXTENDS DwarfMemory, TLC

CONSTANT Arm64           \* arch_ == ARCH_ARM64

CFA_REG == 256^W2 - 1    \* uint16_t(-1)
RA_SIGN_STATE == 34      \* ARM64_PREG_RA_SIGN_STATE

EmptyRow == [locs |-> << >>, start |-> 0, end |-> 0]
NoCie == [none |-> TRUE]

\* DwarfLocation: a type and two values.
Loc(type, v1, v2) == [type |-> type, v |-> <<v1, v2>>]

\* A signed operand times the data alignment factor, through SignedType.
Factored(v, fde) == ToU64(Signed(Signed(v, W4) * fde.data_alignment_factor, W4))

-----------------------------------------------------------------------------
\* kCallbackTable and DwarfCfaInfo::kTable: the handler of the instructions
\* whose two high bits are 0, and the encodings of their operands.
Instruction(fn, operands) == [fn |-> fn, operands |-> operands]

LocationInstructions ==                                           \* 0x00 - 0x0b
  <<Instruction("set_loc", <<PE.absptr>>), Instruction("advance_loc", <<PE.udata1>>),
    Instruction("advance_loc", <<PE.udata2>>), Instruction("advance_loc", <<PE.udata4>>),
    Instruction("offset", <<PE.uleb128, PE.uleb128>>), Instruction("restore", <<PE.uleb128>>),
    Instruction("undefined", <<PE.uleb128>>), Instruction("same_value", <<PE.uleb128>>),
    Instruction("register", <<PE.uleb128, PE.uleb128>>), Instruction("remember_state", << >>),
    Instruction("restore_state", << >>)>> @@ (0 :> Instruction("nop", << >>))

CfaInstructions ==                                                \* 0x0c - 0x2f
  (12 :> Instruction("def_cfa", <<PE.uleb128, PE.uleb128>>))
  @@ (13 :> Instruction("def_cfa_register", <<PE.uleb128>>))
  @@ (14 :> Instruction("def_cfa_offset", <<PE.uleb128>>))
  @@ (15 :> Instruction("def_cfa_expression", <<PE.block>>))
  @@ (16 :> Instruction("expression", <<PE.uleb128, PE.block>>))
  @@ (17 :> Instruction("offset_extended_sf", <<PE.uleb128, PE.sleb128>>))
  @@ (18 :> Instruction("def_cfa_sf", <<PE.uleb128, PE.sleb128>>))
  @@ (19 :> Instruction("def_cfa_offset_sf", <<PE.sleb128>>))
  @@ (20 :> Instruction("val_offset", <<PE.uleb128, PE.uleb128>>))
  @@ (21 :> Instruction("val_offset", <<PE.uleb128, PE.sleb128>>))
  @@ (22 :> Instruction("val_expression", <<PE.uleb128, PE.block>>))
  @@ (45 :> Instruction("aarch64_negate_ra_state", << >>))
  @@ (46 :> Instruction("nop", <<PE.uleb128>>))
  @@ (47 :> Instruction("gnu_negative_offset_extended", <<PE.uleb128, PE.uleb128>>))

kTable == LocationInstructions @@ CfaInstructions @@ [c \in 0..63 |-> Instruction("illegal", << >>)]

-----------------------------------------------------------------------------
Stop(c, code) == [c EXCEPT !.st = "false", !.err = code]
Set(c, reg, loc) == [c EXCEPT !.row.locs = (reg :> loc) @@ @]
Erase(c, reg) ==
  [c EXCEPT !.row.locs = [x \in DOMAIN @ \ {reg} |-> @[x]]]

\* DW_CFA_restore: back to what the CIE says of the register.
Restore(c, reg) ==
  IF c.cie = NoCie THEN Stop(c, "ILLEGAL_STATE")
  ELSE IF reg \in DOMAIN c.cie.locs THEN Set(c, reg, c.cie.locs[reg])
  ELSE Erase(c, reg)

remember_state(c) == [c EXCEPT !.saved = <<c.row>> \o @]

\* The whole DwarfLocations is copied back, its pc_start and pc_end too.
restore_state(c) ==
  IF c.saved = << >> THEN c ELSE [c EXCEPT !.row = Head(c.saved), !.saved = Tail(@)]

\* A change to one half of a CFA that must already be a register and offset.
ChangeCfa(c, i, v) ==
  IF CFA_REG \in DOMAIN c.row.locs /\ c.row.locs[CFA_REG].type = "REGISTER"
  THEN [c EXCEPT !.row.locs[CFA_REG].v[i] = v]
  ELSE Stop(c, "ILLEGAL_STATE")

negate_ra_state(c) ==
  IF ~Arm64 THEN Stop(c, "ILLEGAL_VALUE")
  ELSE IF RA_SIGN_STATE \in DOMAIN c.row.locs
  THEN [c EXCEPT !.row.locs[RA_SIGN_STATE].v[1] = IF @ % 2 = 0 THEN @ + 1 ELSE @ - 1]
  ELSE Set(c, RA_SIGN_STATE, Loc("PSEUDO_REGISTER", 1, 0))

\* The cfa_ handlers; x holds the operands, as AddressType.
CfaHandle(fn, c, x, fde) ==
  CASE fn = "illegal" -> Stop(c, "ILLEGAL_VALUE")
    [] fn = "nop" -> c
    [] fn = "set_loc" -> [c EXCEPT !.cur_pc = x[1]]
    [] fn = "advance_loc" -> [c EXCEPT !.cur_pc = ToAddress(@ + x[1] * fde.code_alignment_factor)]
    [] fn = "offset" -> Set(c, x[1], Loc("OFFSET", x[2], 0))
    [] fn = "restore" -> Restore(c, x[1])
    [] fn = "undefined" -> Set(c, x[1], Loc("UNDEFINED", 0, 0))
    [] fn = "same_value" -> Erase(c, x[1])
    [] fn = "register" -> Set(c, x[1], Loc("REGISTER", x[2], 0))
    [] fn = "remember_state" -> remember_state(c)
    [] fn = "restore_state" -> restore_state(c)
    [] fn = "def_cfa" -> Set(c, CFA_REG, Loc("REGISTER", x[1], x[2]))
    [] fn = "def_cfa_sf" -> Set(c, CFA_REG, Loc("REGISTER", x[1], Factored(x[2], fde)))
    [] fn = "def_cfa_register" -> ChangeCfa(c, 1, x[1])
    [] fn = "def_cfa_offset" -> ChangeCfa(c, 2, x[1])
    [] fn = "def_cfa_offset_sf" -> ChangeCfa(c, 2, Factored(x[1], fde))
    [] fn = "def_cfa_expression" -> Set(c, CFA_REG, Loc("VAL_EXPRESSION", x[1], c.off))
    [] fn = "expression" -> Set(c, x[1], Loc("EXPRESSION", x[2], c.off))
    [] fn = "val_expression" -> Set(c, x[1], Loc("VAL_EXPRESSION", x[2], c.off))
    [] fn = "offset_extended_sf" -> Set(c, x[1], Loc("OFFSET", Factored(x[2], fde), 0))
    [] fn = "val_offset" -> Set(c, x[1], Loc("VAL_OFFSET", Factored(x[2], fde), 0))
    [] fn = "gnu_negative_offset_extended" ->
         Set(c, x[1], Loc("OFFSET", ToU64(-Signed(x[2], W4)), 0))
    [] fn = "aarch64_negate_ra_state" -> negate_ra_state(c)

\* An operand: the length of a block is kept and the block skipped.
ReadOperand(m, c, enc) ==
  IF enc # PE.block THEN ReadEncodedValue(m, c, enc)
  ELSE LET r == ReadULEB128(m, c) IN [r EXCEPT !.off = ToU64(@ + r.val)]

\* One instruction at c.off: b is the cursor behind its first byte, x and y
\* are the ones behind its operands.
CfaOperands(c, fn, x, y, fde) ==
  IF ~y.ok THEN Stop(c, "MEMORY_INVALID")
  ELSE CfaHandle(fn, [c EXCEPT !.off = y.off], <<ToAddress(x.val), ToAddress(y.val)>>, fde)
CfaOffset(c, reg, u, fde) ==
  IF ~u.ok THEN Stop(c, "MEMORY_INVALID")
  ELSE Set([c EXCEPT !.off = u.off], reg, Loc("OFFSET", Factored(u.val, fde), 0))
CfaInstruction(m, c, b, i, fde) ==
  LET x == IF Len(i.operands) >= 1 THEN ReadOperand(m, b, i.operands[1]) ELSE b
  IN  IF i.fn = "illegal" THEN Stop(c, "ILLEGAL_VALUE")
      ELSE CfaOperands(c, i.fn, x, IF Len(i.operands) >= 2 THEN ReadOperand(m, x, i.operands[2]) ELSE x, fde)
Execute(m, c, fde) ==
  LET b == ReadBytes(m, Cursor(c.off), 1)
      low == b.val % 64
      past == [c EXCEPT !.off = b.off]
  IN  IF ~b.ok THEN Stop(c, "MEMORY_INVALID")
      ELSE CASE b.val \div 64 = 1 ->
                  [past EXCEPT !.cur_pc = ToAddress(@ + low * fde.code_alignment_factor)]
             [] b.val \div 64 = 2 -> CfaOffset(c, low, ReadULEB128(m, b), fde)
             [] b.val \div 64 = 3 -> Restore(past, low)
             [] OTHER -> CfaInstruction(m, c, b, kTable[low], fde)

\* The start of GetLocationInfo: the locations of the CIE come first.
CfaStart(off, end, row, saved, cie, fde) ==
  [off |-> off, end |-> end, cur_pc |-> ToAddress(fde.pc_start), saved |-> saved, cie |-> cie,
   row |-> [row EXCEPT !.locs = IF cie = NoCie THEN @ ELSE cie.locs @@ @,
                       !.start = ToAddress(fde.pc_start)],
   st |-> "run", err |-> "NONE"]

CfaStep(m, c, pc, fde) ==
  IF c.cur_pc > pc THEN [c EXCEPT !.st = "true", !.row.end = c.cur_pc]
  ELSE IF c.off >= c.end THEN [c EXCEPT !.st = "true", !.row.end = fde.pc_end]
  ELSE Execute(m, [c EXCEPT !.row.start = c.cur_pc], fde)

=============================================================================
