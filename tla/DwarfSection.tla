---------------------------- MODULE DwarfSection ----------------------------
(***************************************************************************)
(* Unwinding one frame with DWARF call frame information: DwarfSection,    *)
(* its variants DwarfDebugFrame, DwarfEhFrame and DwarfEhFrameWithHdr, and *)
(* the machines DwarfCfa and DwarfOp they drive.                           *)
(*                                                                         *)
(* One section object serves every unwind that passes through its ELF      *)
(* file, so its caches outlive a call: fde_index, fde_entries,             *)
(* cie_entries, cie_loc_regs, loc_regs and fde_info.  A call of Step is a  *)
(* job that moves from phase to phase; its loops (the FDE index, the       *)
(* binary search, the call frame instructions, the expressions, the        *)
(* registers) take one action per iteration.  The registers of a row are   *)
(* evaluated in any order: they come out of an unordered_map.              *)
(***************************************************************************)
EXTENDS DwarfCfa, DwarfOp, SequencesExt

CONSTANTS Images,        \* the sections Init chooses from, each with the pcs it is asked for
          MaxCalls,      \* calls of Step
          InitRegs,      \* the registers, register i at index i + 1
          SP, PC,        \* the numbers of sp and pc
          ProcessMemory  \* the words of the process that can be read

VARIABLES img,           \* the section: [bytes, kind, offset, size, bias, hdr, pcs, ...]
          sec,           \* what the section object caches
          job,           \* the call of Step in progress
          cfa,           \* the run of DwarfCfa in progress
          op,            \* the run of DwarfOp in progress
          calls

vars == <<img, sec, job, cfa, op, calls>>

Without(f, x) == [y \in DOMAIN f \ {x} |-> f[y]]
SortedKeys(f) == SetToSortSeq(DOMAIN f, <)
\* The iterator upper_bound(k) gives in a map; NoKey is end().
NoKey == 256^W8
UpperBound(f, k) == Min({x \in DOMAIN f : x > k} \union {NoKey})

-----------------------------------------------------------------------------
\* Reading entries.  Eh says whether a kind is one of the eh_frame sections.
Eh == img.kind # "debug_frame"
CieId(n) == IF Eh THEN 0 ELSE 256^n - 1                 \* cie32_value_, cie64_value_
At(off) == [Cursor(off) EXCEPT !.data = img.offset]

GetCieOffsetFromFde(pointer, cur, n) ==
  ToU64(IF Eh THEN cur - pointer - n ELSE img.offset + pointer)
AdjustPcFromFde(pc, cur) == IF Eh THEN ToU64(pc + cur - W4) ELSE pc

\* The length of an entry and the word after it: 32-bit unless the length is
\* all ones.  end is where the next entry starts.
EntryHeader(off) ==
  LET a == ReadBytes(img.bytes, At(off), W4)
      is64 == a.val = 256^W4 - 1
      n == IF is64 THEN W8 ELSE W4
      b == IF is64 THEN ReadBytes(img.bytes, a, W8) ELSE a
      c == ReadBytes(img.bytes, b, n)
  IN  [c |-> c, width |-> n, end |-> ToU64(b.off + b.val), is_cie |-> c.val = CieId(n)]

NewCie(h) ==
  [version |-> 0, fde_address_encoding |-> IF h.width = W8 THEN PE.sdata8 ELSE PE.sdata4,
   lsda_encoding |-> PE.omit, segment_size |-> 0, z |-> FALSE, cfa_instructions_offset |-> 0,
   cfa_instructions_end |-> h.end, code_alignment_factor |-> 0, data_alignment_factor |-> 0,
   return_address_register |-> 0, is_signal_frame |-> FALSE]

\* One character of the augmentation string: x is a cursor and a CIE.
Augment(x, ch) ==
  LET b == ReadBytes(img.bytes, x.c, 1)
  IN  CASE ch = "L" -> [c |-> b, cie |-> [x.cie EXCEPT !.lsda_encoding = b.val]]
        [] ch = "P" -> [x EXCEPT !.c = ReadEncodedValue(img.bytes, [b EXCEPT !.pc = img.offset], b.val)]
        [] ch = "R" -> [c |-> b, cie |-> [x.cie EXCEPT !.fde_address_encoding = b.val]]
        [] ch = "S" -> [x EXCEPT !.cie.is_signal_frame = TRUE]
        [] OTHER -> x

\* FillInCie: the characters of the augmentation string are those of Aug.
Aug(b) == CASE b = 122 -> "z" [] b = 76 -> "L" [] b = 80 -> "P" [] b = 82 -> "R"
            [] b = 83 -> "S" [] OTHER -> "?"

CieFields == <<"segment_size", "code_alignment_factor", "data_alignment_factor", "return_address_register">>
CieField(c, version, field) ==
  CASE field = "segment_size" -> IF version \in {4, 5} THEN ReadBytes(img.bytes, [c EXCEPT !.off = @ + 1], 1)
                                 ELSE [c EXCEPT !.val = 0]
    [] field = "data_alignment_factor" ->
         LET r == ReadSLEB128(img.bytes, c) IN [r EXCEPT !.val = Signed(@, W8)]
    [] field = "return_address_register" /\ version = 1 -> ReadBytes(img.bytes, c, 1)
    [] OTHER -> ReadULEB128(img.bytes, c)
SetCieField(c, cie, field) == [c |-> c, cie |-> [cie EXCEPT ![field] = c.val]]

CieRefused(err) == [ok |-> FALSE, err |-> err]
CieRead(x) ==
  IF x.c.ok THEN [ok |-> TRUE, cie |-> x.cie, cur |-> x.c.off] ELSE CieRefused("MEMORY_INVALID")
\* len is the length of the augmentation data, behind which the instructions
\* start.
AugmentCie(len, cie, str) ==
  CieRead(FoldLeft(Augment, [c |-> len, cie |-> [cie EXCEPT !.z = TRUE, !.cfa_instructions_offset =
                                                               ToU64(len.off + len.val)]], str))
FinishCie(x, str) ==
  IF x.c.ok /\ str # << >> /\ str[1] = "z"
  THEN AugmentCie(ReadULEB128(img.bytes, x.c), x.cie, Tail(str))
  ELSE CieRead([x EXCEPT !.cie.cfa_instructions_offset = x.c.off])

FillInCie(c0, cie) ==
  LET m == img.bytes
      v == ReadBytes(m, c0, 1)
      ends == {i \in v.off..(Len(m) - 1) : m[i + 1] = 0}
      Fill(x, field) == SetCieField(CieField(x.c, x.cie.version, field), x.cie, field)
  IN  IF v.ok /\ v.val \notin {1, 3, 4, 5} THEN CieRefused("UNSUPPORTED_VERSION")
      ELSE IF ~v.ok \/ ends = {} THEN CieRefused("MEMORY_INVALID")
      ELSE FinishCie(FoldLeft(Fill, [c |-> [v EXCEPT !.off = Min(ends) + 1], cie |-> [cie EXCEPT !.version = v.val]],
                              CieFields),
                     [i \in 1..(Min(ends) - v.off) |-> Aug(m[v.off + i])])

\* GetCieFromOffset, with FillInCieHeader: s is the section object.  A CIE
\* that cannot be read is not left in the cache.
Refused(s, err) == [ok |-> FALSE, s |-> [s EXCEPT !.err = err]]
KeepCie(s, off, r) ==
  IF ~r.ok THEN Refused(s, r.err)
  ELSE [ok |-> TRUE, s |-> [s EXCEPT !.cie_entries = (off :> r.cie) @@ @], cur |-> r.cur]
ReadCie(s, off, h) ==
  IF ~h.c.ok THEN Refused(s, "MEMORY_INVALID")
  ELSE IF ~h.is_cie THEN Refused(s, "ILLEGAL_VALUE")
  ELSE KeepCie(s, off, FillInCie(h.c, NewCie(h)))
GetCieFromOffset(s, off) ==
  IF off \in DOMAIN s.cie_entries THEN [ok |-> TRUE, s |-> s] ELSE ReadCie(s, off, EntryHeader(off))

\* FillInFde: cur is the offset after the header, end the end of the entry;
\* a is the start of the range of pcs, b its length, c the end of what is read.
KeepRange(s, cie_offset, a, b, c, end) ==
  LET start == AdjustPcFromFde(a.val, a.off)
      cie == s.cie_entries[cie_offset]
  IN  IF ~c.ok THEN Refused(s, "MEMORY_INVALID")
      ELSE [ok |-> TRUE, s |-> s, cur |-> c.off,
            fde |-> [cie_offset |-> cie_offset, pc_start |-> start,
                     pc_end |-> ToU64(b.val + start),
                     cfa_instructions_offset |-> c.off, cfa_instructions_end |-> end,
                     code_alignment_factor |-> cie.code_alignment_factor,
                     data_alignment_factor |-> cie.data_alignment_factor]]
SkipAugmentation(len, cie) ==
  [ReadEncodedValue(img.bytes, [len EXCEPT !.pc = img.offset], cie.lsda_encoding)
     EXCEPT !.off = ToU64(len.off + len.val)]
ReadRange(s, cie_offset, a, end) ==
  LET cie == s.cie_entries[cie_offset]
      b == ReadEncodedValue(img.bytes, [a EXCEPT !.pc = 0], cie.fde_address_encoding)
  IN  KeepRange(s, cie_offset, a, b,
                IF cie.z THEN SkipAugmentation(ReadULEB128(img.bytes, b), cie) ELSE b, end)
FdeOfCie(g, cie_offset, cur, end) ==
  LET cie == g.s.cie_entries[cie_offset]
  IN  IF ~g.ok THEN g
      ELSE ReadRange(g.s, cie_offset,
                     ReadEncodedValue(img.bytes, [At(cur + cie.segment_size) EXCEPT !.pc = img.bias],
                                      cie.fde_address_encoding), end)
FillInFde(s, h) ==
  LET cie_offset == GetCieOffsetFromFde(h.c.val, h.c.off, h.width)
  IN  FdeOfCie(GetCieFromOffset(s, cie_offset), cie_offset, h.c.off, h.end)

\* GetFdeFromOffset, with FillInFdeHeader.
KeepFde(off, r) ==
  IF ~r.ok THEN r ELSE [ok |-> TRUE, s |-> [r.s EXCEPT !.fde_entries = (off :> r.fde) @@ @]]
ReadFde(s, off, h) ==
  IF ~h.c.ok THEN Refused(s, "MEMORY_INVALID")
  ELSE IF h.is_cie THEN Refused(s, "ILLEGAL_VALUE")
  ELSE KeepFde(off, FillInFde(s, h))
GetFdeFromOffset(s, off) ==
  IF off \in DOMAIN s.fde_entries THEN [ok |-> TRUE, s |-> s] ELSE ReadFde(s, off, EntryHeader(off))

\* GetNextCieOrFde: the entry at off, and the offset of the one after it.
NextEntry(s, off, h) ==
  IF ~h.c.ok THEN Refused(s, "MEMORY_INVALID")
  ELSE IF ~h.is_cie THEN [next |-> h.end, is_fde |-> TRUE] @@ FillInFde(s, h)
  ELSE [next |-> h.end, is_fde |-> FALSE]
       @@ IF off \in DOMAIN s.cie_entries THEN [ok |-> TRUE, s |-> s, cur |-> h.c.off]
          ELSE KeepCie(s, off, FillInCie(h.c, NewCie(h)))
GetNextCieOrFde(s, off) == NextEntry(s, off, EntryHeader(off))

-----------------------------------------------------------------------------
\* Finding the FDE of a pc.

\* InsertFde: fdes maps the end of a range to its start and its FDE.  Only
\* the parts of the new FDE that no earlier FDE covers are entered.
InsertFde(off, fde, fdes) ==
  LET Part(x, end) ==                \* x.start is what is left to place
        IF x.go /\ x.start < fde.pc_end /\ fdes[end][1] < fde.pc_end
        THEN [x EXCEPT !.fdes = IF x.start < fdes[end][1]
                                THEN (fdes[end][1] :> <<x.start, off>>) @@ @ ELSE @,
                       !.start = end]
        ELSE [x EXCEPT !.go = FALSE]
      r == FoldLeft(Part, [start |-> fde.pc_start, fdes |-> fdes, go |-> TRUE],
                    SelectSeq(SortedKeys(fdes), LAMBDA k : k > fde.pc_start))
  IN  IF r.start < fde.pc_end THEN (fde.pc_end :> <<r.start, off>>) @@ r.fdes ELSE r.fdes

Phase(ph) == [job EXCEPT !.ph = ph]
Return(value) == [job EXCEPT !.ph = "idle", !.ret = value]

\* Step returns false for want of an FDE.
NoFdeFound(s) ==
  /\ job' = Return(FALSE)
  /\ sec' = [s EXCEPT !.err = "ILLEGAL_STATE"]
  /\ UNCHANGED <<img, cfa, op, calls>>

\* The FDE at offset off serves the call: start the instructions of its CIE,
\* or its own when those of the CIE were run before (GetCfaLocationInfo).
UseFde(s, off) ==
  LET fde == s.fde_entries[off]
      cie == s.cie_entries[fde.cie_offset]
      known == fde.cie_offset \in DOMAIN s.cie_loc_regs
  IN  /\ sec' = s
      /\ job' = [job EXCEPT !.ph = IF known THEN "fde" ELSE "cie", !.fde = off]
      /\ cfa' = IF known
                THEN CfaStart(fde.cfa_instructions_offset, fde.cfa_instructions_end, EmptyRow,
                              << >>, s.cie_loc_regs[fde.cie_offset], fde)
                ELSE CfaStart(cie.cfa_instructions_offset, cie.cfa_instructions_end, EmptyRow,
                              << >>, NoCie, fde)
      /\ UNCHANGED <<img, op, calls>>

\* One iteration of the loop of BuildFdeIndex, and its end.
IndexOf(fdes) ==
  [i \in DOMAIN SortedKeys(fdes) |-> <<SortedKeys(fdes)[i], fdes[SortedKeys(fdes)[i]][2]>>]
BuildFdeIndex ==
  /\ job.ph = "index"
  /\ \E r \in {IF job.off >= img.offset + img.size THEN [ok |-> FALSE, s |-> sec]
               ELSE GetNextCieOrFde(sec, job.off)} :
     \E fdes \in {IF r.ok /\ r.is_fde THEN InsertFde(job.off, r.fde, job.fdes) ELSE job.fdes} :
       IF r.ok /\ r.next >= r.cur
       THEN job' = [job EXCEPT !.off = r.next, !.fdes = fdes] /\ sec' = r.s
       ELSE /\ job' = [job EXCEPT !.ph = "lookup", !.fdes = << >>]
            /\ sec' = [r.s EXCEPT !.fde_index = IndexOf(fdes)]
  /\ UNCHANGED <<img, cfa, op, calls>>

\* DwarfSectionImpl::GetFdeFromPc once the index exists.  DwarfEhFrameWithHdr
\* comes here for a zero length FDE and checks the end of what it gets.
CheckedFde(r, off) ==
  LET fde == r.s.fde_entries[off]
  IN  IF ~r.ok THEN NoFdeFound(r.s)
      ELSE IF fde.pc_start > job.pc THEN NoFdeFound(r.s)
      ELSE IF img.kind = "eh_frame_hdr" /\ job.pc >= fde.pc_end THEN NoFdeFound(r.s)
      ELSE UseFde(r.s, off)
LookupFde ==
  LET hits == {i \in DOMAIN sec.fde_index : job.pc < sec.fde_index[i][1]}
      off == sec.fde_index[Min(hits)][2]
  IN  /\ job.ph = "lookup"
      /\ IF hits = {} THEN NoFdeFound(sec)
         ELSE \E r \in {GetFdeFromOffset(sec, off)} : CheckedFde(r, off)

\* GetFdeInfoFromIndex: entry i of the table of .eh_frame_hdr.
KeepInfo(s, i, a, b) ==
  LET pc == ToAddress(a.val + (IF img.hdr.table_encoding \div 16 > 0 THEN img.hdr.bias ELSE 0))
  IN  IF ~b.ok THEN Refused(s, "MEMORY_INVALID")
      ELSE [ok |-> TRUE, s |-> [s EXCEPT !.fde_info = (i :> [pc |-> pc, offset |-> b.val]) @@ @]]
GetFdeInfoFromIndex(s, i) ==
  LET h == img.hdr
      a == ReadEncodedValue(img.bytes, [Cursor(h.entries_offset + 2 * i * h.entry_size)
                                          EXCEPT !.data = h.data_offset, !.pc = 0], h.table_encoding)
  IN  IF i \in DOMAIN s.fde_info THEN [ok |-> TRUE, s |-> s]
      ELSE KeepInfo(s, i, a, ReadEncodedValue(img.bytes, a, h.table_encoding))

\* DwarfEhFrameWithHdr::GetFdeFromPc with the offset the search found.
FromTable(r, off) ==
  LET fde == r.s.fde_entries[off]
  IN  IF ~r.ok THEN NoFdeFound(r.s)
      ELSE IF fde.pc_start = fde.pc_end
      THEN /\ job' = [job EXCEPT !.ph = IF r.s.fde_index = << >> THEN "index" ELSE "lookup",
                                 !.off = img.offset]
           /\ sec' = r.s
           /\ UNCHANGED <<img, cfa, op, calls>>
      ELSE IF job.pc < fde.pc_end THEN UseFde(r.s, off)
      ELSE NoFdeFound(r.s)

\* Half of the table is left after a comparison with entry cur.
Narrow_LosesEntry(cur, pc) ==                                             \* mutant
  IF job.pc < pc THEN [job EXCEPT !.last = cur - 1] ELSE [job EXCEPT !.first = cur + 1]
Narrow(cur, pc) ==
  IF job.pc < pc THEN [job EXCEPT !.last = cur] ELSE [job EXCEPT !.first = cur + 1]

\* One iteration of the binary search of GetFdeOffsetFromPc, and its end.
SearchTable ==
  LET over == job.first >= job.last
      cur == IF over THEN job.last - 1 ELSE (job.first + job.last) \div 2
  IN  /\ job.ph = "search"
      /\ IF over /\ job.last <= 0 THEN NoFdeFound(sec)
         ELSE \E r \in {GetFdeInfoFromIndex(sec, cur)} :
                IF ~r.ok THEN NoFdeFound(r.s)
                ELSE IF over \/ job.pc = r.s.fde_info[cur].pc
                THEN \E f \in {GetFdeFromOffset(r.s, r.s.fde_info[cur].offset)} :
                       FromTable(f, r.s.fde_info[cur].offset)
                ELSE /\ job' = Narrow(cur, r.s.fde_info[cur].pc)
                     /\ sec' = r.s
                     /\ UNCHANGED <<img, cfa, op, calls>>

-----------------------------------------------------------------------------
\* The row of the pc, and the two caches of rows.

CacheRow_WholeFde(s, row) ==                                              \* mutant
  [s EXCEPT !.loc_regs = (row.end :> [row EXCEPT !.start = sec.fde_entries[job.fde].pc_start]) @@ @]

\* emplace: a row whose pc_end is taken is dropped, the one there is used.
CacheRow(s, row) ==
  IF row.end \in DOMAIN s.loc_regs THEN s ELSE [s EXCEPT !.loc_regs = (row.end :> row) @@ @]

\* One iteration of the loop of GetLocationInfo, and what follows its end.
AfterCfa(c, fde) ==
  CASE c.st = "run" -> cfa' = c /\ UNCHANGED <<job, sec>>
    [] c.st = "false" -> /\ job' = Return(FALSE)
                         /\ sec' = [sec EXCEPT !.err = c.err]
                         /\ UNCHANGED cfa
    [] c.st = "true" /\ job.ph = "cie" ->
         /\ sec' = [sec EXCEPT !.cie_loc_regs = (fde.cie_offset :> c.row) @@ @]
         /\ cfa' = CfaStart(fde.cfa_instructions_offset, fde.cfa_instructions_end,
                            c.row, c.saved, c.row, fde)
         /\ job' = Phase("fde")
    [] OTHER -> /\ sec' = CacheRow(sec, c.row @@ [cie |-> fde.cie_offset])
                /\ job' = [job EXCEPT !.ph = "eval", !.row = sec'.loc_regs[c.row.end]]
                /\ UNCHANGED cfa
RunCfa ==
  LET fde == sec.fde_entries[job.fde]
  IN  /\ job.ph \in {"cie", "fde"}
      /\ \E c \in {CfaStep(img.bytes, cfa, job.pc, fde)} : AfterCfa(c, fde)
      /\ UNCHANGED <<img, op, calls>>

\* Step looks for a cached row first.
Step(pc) ==
  LET key == UpperBound(sec.loc_regs, pc)
      hit == IF key = NoKey THEN FALSE ELSE sec.loc_regs[key].start <= pc
  IN  /\ job.ph = "idle" /\ calls < MaxCalls
      /\ calls' = calls + 1
      /\ sec' = [sec EXCEPT !.err = IF hit THEN @ ELSE "NONE"]
      /\ job' = [ph |-> IF hit THEN "eval"
                        ELSE IF img.kind = "eh_frame_hdr" THEN "search"
                        ELSE IF sec.fde_index = << >> THEN "index" ELSE "lookup",
                 pc |-> pc, row |-> IF hit THEN sec.loc_regs[key] ELSE EmptyRow,
                 off |-> img.offset, fdes |-> << >>, first |-> 0, last |-> img.hdr.fde_count,
                 fde |-> 0, regs |-> InitRegs, saved |-> << >>, dex_pc |-> 0, pseudo |-> 0,
                 cfa |-> 0, todo |-> {}, reg |-> CFA_REG, undefined |-> FALSE,
                 ret |-> FALSE, finished |-> FALSE]
      /\ UNCHANGED <<img, cfa, op>>

-----------------------------------------------------------------------------
\* Eval: the registers of the caller.
Total == Len(InitRegs)
Fail(code) ==
  /\ job' = Return(FALSE)
  /\ sec' = [sec EXCEPT !.err = code]
  /\ UNCHANGED op

\* The RegsInfo an expression sees: a register already evaluated still shows
\* the value it had.
Get_Live(reg) == job.regs[reg + 1]                                        \* mutant
Get(reg) == IF reg \in DOMAIN job.saved THEN job.saved[reg] ELSE job.regs[reg + 1]
RegsInfo == [regs |-> [i \in 1..Total |-> Get(i - 1)], mem |-> ProcessMemory]

Cie == sec.cie_entries[job.row.cie]
Todo(locs) == DOMAIN locs \ {CFA_REG}

EvalCfa ==
  LET locs == job.row.locs
      loc == locs[CFA_REG]
      clean == [job EXCEPT !.dex_pc = 0, !.pseudo = 0, !.todo = Todo(locs)]
  IN  /\ job.ph = "eval"
      /\ IF Cie.return_address_register >= Total THEN Fail("ILLEGAL_VALUE")
         ELSE IF CFA_REG \notin DOMAIN locs THEN Fail("CFA_NOT_DEFINED")
         ELSE CASE loc.type = "REGISTER" /\ loc.v[1] < Total ->
                     /\ job' = [clean EXCEPT !.ph = "regs",
                                             !.cfa = ToAddress(job.regs[loc.v[1] + 1] + loc.v[2])]
                     /\ UNCHANGED <<sec, op>>
                [] loc.type = "VAL_EXPRESSION" ->
                     /\ op' = EvalStart(ToU64(loc.v[2] - loc.v[1]), loc.v[2])
                     /\ job' = [clean EXCEPT !.ph = "expr", !.reg = CFA_REG]
                     /\ UNCHANGED sec
                [] OTHER -> Fail("ILLEGAL_VALUE")
      /\ UNCHANGED <<img, cfa, calls>>

\* A register gets its value; a word is read at 64-bit address a.
Assign(j, reg, v) == [j EXCEPT !.regs[reg + 1] = ToAddress(v)]
AssignWord(j, reg, a) ==
  IF a \in DOMAIN ProcessMemory
  THEN job' = Assign(j, reg, ProcessMemory[a]) /\ UNCHANGED <<sec, op>>
  ELSE Fail("MEMORY_INVALID")

\* One entry of the row: Save and EvalRegister, or a register this machine
\* does not have.
EvalRegister(reg) ==
  LET loc == job.row.locs[reg]
      skip == [job EXCEPT !.todo = @ \ {reg}]
      j == [skip EXCEPT !.saved = (reg :> job.regs[reg + 1]) @@ @]
  IN  /\ job.ph = "regs" /\ reg \in job.todo
      /\ IF reg >= Total
         THEN IF loc.type # "PSEUDO_REGISTER" THEN job' = skip /\ UNCHANGED <<sec, op>>
              ELSE IF Arm64 /\ reg = RA_SIGN_STATE
              THEN job' = [skip EXCEPT !.pseudo = loc.v[1]] /\ UNCHANGED <<sec, op>>
              ELSE Fail("ILLEGAL_VALUE")
         ELSE CASE loc.type = "OFFSET" -> AssignWord(j, reg, ToU64(job.cfa + loc.v[1]))
                [] loc.type = "VAL_OFFSET" ->
                     job' = Assign(j, reg, job.cfa + loc.v[1]) /\ UNCHANGED <<sec, op>>
                [] loc.type = "REGISTER" ->
                     IF loc.v[1] >= Total THEN Fail("ILLEGAL_VALUE")
                     ELSE job' = Assign(j, reg, Get(loc.v[1]) + loc.v[2]) /\ UNCHANGED <<sec, op>>
                [] loc.type \in {"EXPRESSION", "VAL_EXPRESSION"} ->
                     /\ op' = EvalStart(ToU64(loc.v[2] - loc.v[1]), loc.v[2])
                     /\ job' = [j EXCEPT !.ph = "expr", !.reg = reg]
                     /\ UNCHANGED sec
                [] loc.type = "UNDEFINED" ->
                     /\ job' = [j EXCEPT !.undefined = @ \/ reg = Cie.return_address_register]
                     /\ UNCHANGED <<sec, op>>
                [] OTHER -> Fail("ILLEGAL_VALUE")
      /\ UNCHANGED <<img, cfa, calls>>

\* EvalExpression: one Decode, or the use of the result by EvalCfa or
\* EvalRegister.
RunOp ==
  /\ job.ph = "expr" /\ op.st = "run"
  /\ op' \in EvalStep(img.bytes, op, RegsInfo)
  /\ UNCHANGED <<img, sec, job, cfa, calls>>

UseExpression ==
  LET v == Head(op.stack)
  IN  /\ job.ph = "expr" /\ op.st # "run"
      /\ IF op.st = "false" THEN Fail(op.err)
         ELSE IF op.stack = << >> THEN Fail("ILLEGAL_STATE")
         ELSE IF op.is_register THEN Fail("NOT_IMPLEMENTED")
         ELSE IF job.reg = CFA_REG
         THEN job' = [job EXCEPT !.ph = "regs", !.cfa = v] /\ UNCHANGED <<sec, op>>
         ELSE IF job.row.locs[job.reg].type = "EXPRESSION"
         THEN AssignWord(Phase("regs"), job.reg, v)
         ELSE /\ job' = [Assign(Phase("regs"), job.reg, v)
                           EXCEPT !.dex_pc = IF op.dex_pc_set THEN v ELSE @]
              /\ UNCHANGED <<sec, op>>
      /\ UNCHANGED <<img, cfa, calls>>

\* The pc and the sp of the caller.
FinishEval ==
  LET ra == Cie.return_address_register
      pc == IF job.undefined THEN 0 ELSE job.regs[ra + 1]
  IN  /\ job.ph = "regs" /\ job.todo = {}
      /\ job' = [Return(TRUE) EXCEPT !.regs[PC + 1] = pc, !.regs[SP + 1] = job.cfa,
                                     !.finished = pc = 0 /\ ~Cie.is_signal_frame]
      /\ UNCHANGED <<img, sec, cfa, op, calls>>

-----------------------------------------------------------------------------
\* DwarfEhFrameWithHdr::Init at offset i.hdr_offset of image i.
NoHdr == [fde_count |-> 0]
HdrCount(i, ptr, enc) == ReadEncodedValue(i.bytes, [ptr EXCEPT !.pc = ptr.off], enc)
HdrOf(i, encoding, cnt) ==
  IF ~cnt.ok THEN NoHdr
  ELSE [fde_count |-> cnt.val, table_encoding |-> encoding, entry_size |-> GetEncodedSize(encoding),
        entries_offset |-> cnt.off, data_offset |-> i.hdr_offset, bias |-> i.bias]
ReadHdr(i) ==
  LET B(k) == ReadBytes(i.bytes, Cursor(i.hdr_offset + k), 1)  \* version and three encodings
      base == [B(3) EXCEPT !.data = i.hdr_offset, !.pc = i.hdr_offset + 4]
  IN  IF ~base.ok \/ B(0).val # 1 \/ GetEncodedSize(base.val) = 0 THEN NoHdr
      ELSE HdrOf(i, base.val, HdrCount(i, ReadEncodedValue(i.bytes, base, B(1).val), B(2).val))

\* ElfInterface falls back to DwarfEhFrame when .eh_frame_hdr is unusable.
OpenWith(i, hdr) ==
  [hdr |-> hdr,
   kind |-> IF i.kind = "eh_frame_hdr" /\ hdr.fde_count = 0 THEN "eh_frame" ELSE i.kind] @@ i
Open(i) == OpenWith(i, IF i.kind = "eh_frame_hdr" THEN ReadHdr(i) ELSE NoHdr)

Init ==
  /\ img \in {Open(i) : i \in Images}
  /\ sec = [fde_entries |-> << >>, cie_entries |-> << >>, cie_loc_regs |-> << >>,
            loc_regs |-> << >>, fde_index |-> << >>, fde_info |-> << >>, err |-> "NONE"]
  /\ job = [ph |-> "idle", ret |-> FALSE]
  /\ cfa = [st |-> "true"]
  /\ op = [st |-> "true", err |-> "NONE"]
  /\ calls = 0

Next ==
  \/ \E pc \in img.pcs : Step(pc)
  \/ BuildFdeIndex \/ LookupFde \/ SearchTable \/ RunCfa
  \/ EvalCfa \/ (job.ph = "regs" /\ \E reg \in job.todo : EvalRegister(reg))
  \/ RunOp \/ UseExpression \/ FinishEval
  \/ (job.ph = "idle" /\ calls = MaxCalls /\ UNCHANGED vars)

\* The thread that called Step keeps running: weak fairness of Next, which
\* is enabled until the call returns.
Runs == []<>(job.ph = "idle") \/ []<><<TRUE>>_vars
Spec == Init /\ [][Next]_vars /\ Runs

=============================================================================
