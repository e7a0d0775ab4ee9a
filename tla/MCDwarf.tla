------------------------------ MODULE MCDwarf ------------------------------
(***************************************************************************)
(* Sections for DwarfSection.  A function is described by its range and by *)
(* segments: how far the pc advances, the call frame instructions there,   *)
(* and the locations DWARF gives them.  The assembler lays the functions   *)
(* out as .debug_frame, .eh_frame or .eh_frame with its .eh_frame_hdr.     *)
(***************************************************************************)
EXTENDS DwarfSection

Flat(ss) == FoldLeft(LAMBDA a, b : a \o b, << >>, ss)
Le(v) == <<v % 256, v \div 256>>

\* Where segment i of a function starts.
SegStart(fn, i) == fn.start + FoldLeft(LAMBDA a, s : a + s.adv, 0, SubSeq(fn.segs, 1, i))

\* The instructions of a function: an advance is encoded the way how says.
Advance(fn, i) ==
  LET d == fn.segs[i].adv
  IN  IF d = 0 THEN << >>
      ELSE
        CASE fn.segs[i].how = "low" -> <<64 + d>>
          [] fn.segs[i].how = "set" -> <<1, SegStart(fn, i)>>
          [] OTHER -> <<("loc1" :> 2 @@ "loc2" :> 3 @@ "loc4" :> 4)[fn.segs[i].how], d>>
Code(fn) == Flat([i \in DOMAIN fn.segs |-> Advance(fn, i) \o fn.segs[i].code])
\* The locations at a pc of a function.
Declared(fn, pc) == fn.segs[Max({i \in DOMAIN fn.segs : SegStart(fn, i) <= pc})].want

\* Entries.  long selects the 64-bit format, z an augmentation "zRS" of a
\* version 4 CIE; daf is the data alignment factor -1.
Header(long, id, body) ==
  IF long THEN <<255>> \o Le(Len(body) + 2) \o Le(id) \o body ELSE <<Len(body) + 1, id>> \o body
CieBody(z, ra, code) ==
  IF z THEN <<4, 122, 82, 83, 0, 1, 0, 1, 127, ra, 1, PE.sdata4>> \o code
  ELSE <<1, 0, 1, 127, ra>> \o code
CieEntry(i) == Header(i.long, IF i.kind # "debug_frame" THEN 0 ELSE IF i.long THEN 65535 ELSE 255,
                      CieBody(i.z, i.ra, i.cie))
FdeEntry(i, off, fn) ==
  LET eh == i.kind # "debug_frame"
      ptr == off + (IF i.long THEN 3 ELSE 1)         \* where the CIE pointer is
      field == ptr + (IF i.long THEN 2 ELSE 1)
      start == (IF eh THEN fn.start - field ELSE fn.start) % 256
  IN  Header(i.long, IF eh THEN ptr - i.offset ELSE 0,
             <<start, fn.len>> \o (IF i.z THEN <<0>> ELSE << >>) \o Code(fn))

\* The bytes, and the offset of every FDE.  The header of .eh_frame_hdr,
\* with a table of absolute 1-byte pointers, precedes the section.
Assemble(i) ==
  LET entries == FoldLeft(LAMBDA a, fn : [bytes |-> a.bytes \o FdeEntry(i, i.offset + Len(a.bytes), fn),
                                          offs |-> Append(a.offs, i.offset + Len(a.bytes))],
                          [bytes |-> CieEntry(i), offs |-> << >>], i.fns)
      table == Flat([k \in DOMAIN i.fns |-> <<i.fns[k].start, entries.offs[k]>>])
      pre == IF i.kind = "eh_frame_hdr" THEN <<1, PE.udata1, PE.udata1, PE.udata1, i.offset, Len(i.fns)>> \o table
             ELSE << >>
  IN  [bytes |-> pre \o entries.bytes, size |-> Len(entries.bytes), bias |-> 0, hdr_offset |-> 0] @@ i

Image(kind, long, z, ra, cie, fns, pcs) ==
  Assemble([kind |-> kind, long |-> long, z |-> z, ra |-> ra, cie |-> cie, fns |-> fns, pcs |-> pcs, declared |-> TRUE,
            offset |-> IF kind = "eh_frame_hdr" THEN 6 + 2 * Len(fns) ELSE 0])
Cut(i, n) == [i EXCEPT !.bytes = SubSeq(@, 1, Min({n, Len(@)}))]

-----------------------------------------------------------------------------
R(r, o) == Loc("REGISTER", r, o)
O(o) == Loc("OFFSET", ToU64(o), 0)
Seg(adv, how, code, want) == [adv |-> adv, how |-> how, code |-> code, want |-> want]
DefCfa == <<12, 2, 0>>                            \* the CIE: CFA is r2 + 0
Plain == CFA_REG :> R(2, 0)
Pushed == (CFA_REG :> R(2, 2)) @@ (1 :> O(-1))

\* A prologue, a body that remembers the state, an epilogue; tail is what
\* follows the last instruction.  With nothing there restore_state has the
\* last word on pc_start, and the row is cached for pcs before it.
F1(tail) ==
  [start |-> 2, len |-> 8,
   segs |-> <<Seg(0, "low", << >>, Plain),
              Seg(2, "low", <<14, 2, 129, 1>>, Pushed),
              Seg(2, "loc1", <<10, 13, 0, 128, 2>>, (CFA_REG :> R(0, 2)) @@ (0 :> O(-2)) @@ Pushed),
              Seg(2, "low", <<11>> \o tail, Pushed)>>]
\* Expressions: CFA = r2 + 3, r1 at r2 - 1, r0 = r1 + r2.  Then the return
\* address is undefined and r0, r1 are back to what the CIE says.
ByExpression(type, code) == [type |-> type, code |-> code]
F2 ==
  [start |-> 12, len |-> 4,
   segs |-> <<Seg(0, "low", <<15, 2, 114, 3, 16, 1, 2, 114, 127, 22, 0, 5, 113, 0, 114, 0, 34>>,
                  (CFA_REG :> ByExpression("VAL_EXPRESSION", <<114, 3>>))
                  @@ (1 :> ByExpression("EXPRESSION", <<114, 127>>))
                  @@ (0 :> ByExpression("VAL_EXPRESSION", <<113, 0, 114, 0, 34>>))),
              Seg(1, "loc2", <<7, 3, 8, 0, 6, 1, 46, 1>>,
                  (CFA_REG :> ByExpression("VAL_EXPRESSION", <<114, 3>>))
                  @@ (3 :> Loc("UNDEFINED", 0, 0)))>>]
\* The other forms: registers exchanged, values, factored offsets, a register
\* this machine does not have.
F3 ==
  [start |-> 20, len |-> 6,
   segs |-> <<Seg(0, "low", <<18, 2, 126, 9, 0, 1, 9, 1, 0, 20, 3, 1>>,
                  (CFA_REG :> R(2, 2)) @@ (0 :> R(1, 0)) @@ (1 :> R(0, 0))
                  @@ (3 :> Loc("VAL_OFFSET", ToU64(-1), 0))),
              Seg(2, "loc4", <<19, 125, 17, 0, 1, 47, 1, 2, 5, 7, 9, 45, 21, 3, 127>>,
                  (CFA_REG :> R(2, 3)) @@ (0 :> O(-1)) @@ (1 :> O(-2)) @@ (7 :> O(9))
                  @@ (RA_SIGN_STATE :> Loc("PSEUDO_REGISTER", 1, 0))
                  @@ (3 :> Loc("VAL_OFFSET", 1, 0))),
              Seg(2, "set", <<45, 193, 135, 2>>,
                  (CFA_REG :> R(2, 3)) @@ (0 :> O(-1)) @@ (7 :> O(-2))
                  @@ (RA_SIGN_STATE :> Loc("PSEUDO_REGISTER", 0, 0))
                  @@ (3 :> Loc("VAL_OFFSET", 1, 0)))>>]

\* A function whose CFA is given by the expression e.
Evaluates(e) ==
  Image("debug_frame", FALSE, FALSE, 3, << >>,
        <<[start |-> 2, len |-> 2,
           segs |-> <<Seg(0, "low", <<15, Len(e)>> \o e, CFA_REG :> ByExpression("VAL_EXPRESSION", e))>>]>>,
        {2})

All == {1, 2, 5, 6, 9, 10, 12, 14, 21, 22, 25}
Whole ==
  {Image(k, k = "eh_frame", k # "debug_frame", 3, DefCfa, <<F1(<<0>>), F2, F3>>, All) :
     k \in {"debug_frame", "eh_frame", "eh_frame_hdr"}}
\* Sections that end early, and instructions that are illegal where they are.
Short == {Cut(i, n) : i \in {Image(kind, FALSE, TRUE, 3, DefCfa, <<F1(<<0>>)>>, {5})
                               : kind \in {"eh_frame", "eh_frame_hdr"}}, n \in 0..45}
Bad(code) == [declared |-> FALSE] @@ Image("debug_frame", FALSE, FALSE, 3, << >>,
                   <<[start |-> 2, len |-> 2, segs |-> <<Seg(0, "low", code, << >>)>>]>>, {2})
Wrong == {Bad(code) : code \in {<<24>>, <<13, 1>>, <<14, 1>>, <<11>>, <<12, 200, 0>>, <<5, 1, 1>>,
                                <<12, 2, 0, 5, 1, 200>>, <<12, 2, 0, 9, 1, 200>>, <<12, 2, 0, 7, 3>>}}
\* Every op code on every depth of stack up to 3, and branches that loop.
Lits(d) == [i \in 1..d |-> 49 + i]
Ops == {Evaluates(Lits(d) \o <<c, 1, 1>>) : c \in {3, 4, 6} \union (8..49) \union {80, 112, 143} \union (144..160),
                                            d \in 0..3}
Loops == {Evaluates(e) : e \in {<<47, 253>>, <<49, 40, 252>>, <<48, 40, 3>>, <<49, 48, 40, 252, 47, 250>>,
                                <<12, 209, 19, 50>>, <<48, 27>>, <<50, 48, 27>>, << >>, <<160>>}}
MCImages == Whole \union Short \union Wrong \union Ops \union Loops

MCRegs == <<5, 9, 16, 7>>
MCMemory == [a \in 1..40 |-> a + 100]

-----------------------------------------------------------------------------
\* Locations with the bytes of an expression in place of where they are.
Shown(locs) ==
  [r \in DOMAIN locs |->
     IF locs[r].type \in {"EXPRESSION", "VAL_EXPRESSION"}
     THEN ByExpression(locs[r].type, SubSeq(img.bytes, locs[r].v[2] - locs[r].v[1] + 1, locs[r].v[2]))
     ELSE locs[r]]
Covering(pc) == {i \in DOMAIN img.fns : img.fns[i].start <= pc /\ pc < img.fns[i].start + img.fns[i].len}

\* The row Step evaluates for a pc, from its caches or not, is the one the
\* instructions of the function give for that pc (DwarfSection::Step).
RowIsDeclared ==
  job.ph = "eval" /\ img.declared =>
    \E i \in Covering(job.pc) : Shown(job.row.locs) = Declared(img.fns[i], job.pc)

\* Step finds an FDE for every pc a function of a complete section covers,
\* whichever index serves it (BuildFdeIndex, GetFdeOffsetFromPc).
EveryFunctionFound ==
  job.ph = "idle" /\ calls > 0 /\ ~job.ret /\ sec.err = "ILLEGAL_STATE" /\ Len(img.fns) = 3 =>
    Covering(job.pc) = {}

RECURSIVE Evaluated(_)
Evaluated(o) ==
  IF o.st # "run" THEN o
  ELSE Evaluated(CHOOSE x \in EvalStep(img.bytes, o, [regs |-> InitRegs, mem |-> ProcessMemory]) : TRUE)
Expression(loc) == Head(Evaluated(EvalStart(loc.v[2] - loc.v[1], loc.v[2])).stack)

\* What a location gives for a register, from the registers of the callee.
CallerValue(loc) ==
  CASE loc.type = "OFFSET" -> ProcessMemory[ToU64(job.cfa + loc.v[1])]
    [] loc.type = "VAL_OFFSET" -> ToAddress(job.cfa + loc.v[1])
    [] loc.type = "REGISTER" -> ToAddress(InitRegs[loc.v[1] + 1] + loc.v[2])
    [] loc.type = "EXPRESSION" -> ProcessMemory[Expression(loc)]
    [] loc.type = "VAL_EXPRESSION" -> Expression(loc)

\* The registers of the caller do not depend on the order in which the
\* entries of the row are evaluated: every location is read from the
\* registers as they were (RegsInfo::Save, RegsInfo::Get, Eval).
RegistersOfCaller ==
  job.ph = "idle" /\ job.ret =>
    /\ job.regs[SP + 1] = job.cfa
    /\ \A r \in 0..(Total - 1) \ {SP, PC} :
         job.regs[r + 1] = IF r \in DOMAIN job.row.locs /\ job.row.locs[r].type # "UNDEFINED"
                           THEN CallerValue(job.row.locs[r]) ELSE InitRegs[r + 1]
    /\ job.finished <=> job.regs[PC + 1] = 0 /\ ~Cie.is_signal_frame

\* No handler of an op code reads the stack beyond its end: the number of
\* values the table requires is enough for what the handler touches.
StackDiscipline == op.err # "OUTSIDE_STACK"

\* Every call of Step returns, whatever the instructions and expressions say:
\* a loop in an expression is cut off (DwarfOp::Eval).
StepReturns == job.ph # "idle" ~> job.ph = "idle"

=============================================================================
