--------------------------- MODULE ElfInterface ---------------------------
(***************************************************************************)
(* An ELF file as the unwinder sees it: headers, notes, names, symbols and *)
(* the unwind information, DWARF sections first and the ARM exception      *)
(* table after them (Elf.cpp, ElfInterface.cpp, ElfInterfaceArm.cpp).      *)
(*                                                                         *)
(* elf is the file: its headers as sequences of which a prefix can be      *)
(* read, its contents as functions of the offset.  What a DWARF section    *)
(* does for a pc is given (DwarfSection models it).  intf is the interface *)
(* with its caches and job the call in progress.  CreateGnuDebugdataMemory *)
(* returns nullptr, so there is never a gnu_debugdata interface.           *)
(***************************************************************************)
EXTENDS ArmExidx, Symbols, TLC

CONSTANTS Elfs,           \* the files
          MaxCalls,       \* bound on the calls made
          U64             \* 2^64, scaled

ASSUME ElfAssumption == U64 \in Nat \ {0} /\ MaxCalls \in Nat

VARIABLES elf, intf, job, calls

vars == <<elf, intf, job, calls>>

Overflows(a, b) == a + b >= U64
Wrap(v) == v % U64
Put(f, k, v) == (k :> v) @@ f
\* Symbol tables by their place in symbols_.
NoRange == [offset |-> 0, start |-> 0, end |-> 0]
NoSection == [offset |-> 0, size |-> 0, bias |-> 0]

NewInterface ==
  [valid |-> FALSE, load_bias |-> 0, seen_exec |-> FALSE, pt_loads |-> << >>,
   eh_frame_hdr |-> NoSection, eh_frame |-> NoSection, debug_frame |-> NoSection,
   eh |-> "none", debug |-> "none", dynamic |-> NoRange, data |-> NoRange,
   text |-> [addr |-> 0, size |-> 0], strtabs |-> << >>, symbols |-> << >>, note |-> NoSection,
   soname_type |-> "UNKNOWN", soname |-> NoName, exidx |-> 0, total_entries |-> 0, addrs |-> << >>,
   err |-> "NONE"]

-----------------------------------------------------------------------------
\* Headers.

Section(h, addr) == [offset |-> h.offset, size |-> h.size, bias |-> Wrap(addr - h.offset)]
Range64(offset, start, size) ==
  IF Overflows(start, size) THEN NoRange ELSE [offset |-> offset, start |-> start, end |-> start + size]

ReadProgramHeaders_LastBias(i, p) ==                                  \* mutant
  IF p.type = "LOAD" /\ p.x
  THEN [i EXCEPT !.pt_loads = Put(@, p.offset, [vaddr |-> p.vaddr, size |-> p.memsz]),
                 !.load_bias = p.vaddr - p.offset, !.seen_exec = TRUE]
  ELSE IF p.type = "ARM_EXIDX" THEN [i EXCEPT !.exidx = p.offset, !.total_entries = p.filesz \div 8] ELSE i

\* One program header.  Only the first executable load gives the load bias;
\* loads with the same offset replace each other.
ReadProgramHeaders(i, p) ==
  CASE p.type = "LOAD" ->
         IF ~p.x THEN i
         ELSE [i EXCEPT !.pt_loads = Put(@, p.offset, [vaddr |-> p.vaddr, size |-> p.memsz]),
                        !.load_bias = IF i.seen_exec THEN @ ELSE p.vaddr - p.offset,
                        !.seen_exec = TRUE]
    [] p.type = "GNU_EH_FRAME" ->
         [i EXCEPT !.eh_frame_hdr = [offset |-> p.offset, size |-> p.memsz,
                                     bias |-> Wrap(p.vaddr - p.offset)]]
    [] p.type = "DYNAMIC" -> [i EXCEPT !.dynamic = Range64(p.offset, p.vaddr, p.memsz)]
    [] p.type = "ARM_EXIDX" /\ elf.machine = "ARM" ->                 \* HandleUnknownType
         [i EXCEPT !.exidx = p.offset, !.total_entries = p.filesz \div 8]
    [] OTHER -> i

\* The name of a section: none without a table of names that can be read.
NamesRead == elf.shstrndx < Len(elf.shdrs) /\ elf.shstrndx < elf.sh_readable
             /\ elf.shdrs[elf.shstrndx + 1].size # 0
NameOf(h) == IF NamesRead THEN h.name ELSE NoName

Progbits(i, h) ==
  CASE NameOf(h) = ".debug_frame" -> [i EXCEPT !.debug_frame = Section(h, h.addr)]
    [] NameOf(h) = ".eh_frame" -> [i EXCEPT !.eh_frame = Section(h, h.addr)]
    [] NameOf(h) = ".eh_frame_hdr" /\ i.eh_frame_hdr.offset = 0 ->
         [i EXCEPT !.eh_frame_hdr = Section(h, h.addr)]
    [] NameOf(h) = ".data" -> [i EXCEPT !.data = Range64(h.offset, h.addr, h.size)]
    [] NameOf(h) = ".text" -> [i EXCEPT !.text = [addr |-> h.addr, size |-> h.size]]
    [] OTHER -> i

\* One section header; a symbol table needs the header of its strings.
ReadSectionHeaders(i, h) ==
  CASE h.type \in {"SYMTAB", "DYNSYM"} ->
         IF h.link < Len(elf.shdrs) /\ h.link < elf.sh_readable /\ elf.shdrs[h.link + 1].type = "STRTAB"
         THEN [i EXCEPT !.symbols = Append(@, NewSymbols(h.table))] ELSE i
    [] h.type \in {"PROGBITS", "NOBITS"} -> Progbits(i, h)
    [] h.type = "STRTAB" -> [i EXCEPT !.strtabs = Append(@, <<h.addr, h.offset>>)]
    [] h.type = "NOTE" /\ NameOf(h) = ".note.gnu.build-id" -> [i EXCEPT !.note = Section(h, h.addr)]
    [] OTHER -> i

\* ReadAllHeaders: both tables are read as far as they can be.
ReadAllHeaders(i) ==
  LET p == FoldLeft(LAMBDA x, h : ReadProgramHeaders(x, h), i,
                    SubSeq(elf.phdrs, 1, Min({Len(elf.phdrs), elf.ph_readable})))
  IN  FoldLeft(LAMBDA x, h : ReadSectionHeaders(x, h), p,
               SubSeq(elf.shdrs, 2, Min({Len(elf.shdrs), elf.sh_readable})))

InitHeaders_NoFallback(i) ==                                          \* mutant
  [i EXCEPT !.eh = IF i.eh_frame_hdr.offset # 0
                   THEN IF elf.frames["eh_frame_hdr"].init THEN "eh_frame_hdr" ELSE "none"
                   ELSE IF i.eh_frame.offset # 0 THEN "eh_frame" ELSE "none"]

\* InitHeaders: .eh_frame through its header, or by itself when there is no
\* header or the header is no good.
InitHeaders(i) ==
  LET eh == IF i.eh_frame_hdr.offset # 0 /\ elf.frames["eh_frame_hdr"].init THEN "eh_frame_hdr"
            ELSE IF i.eh_frame.offset # 0 /\ elf.frames["eh_frame"].init THEN "eh_frame"
            ELSE "none"
      debug == i.debug_frame.offset # 0 /\ elf.frames["debug_frame"].init
  IN  [i EXCEPT !.eh = eh,
                !.eh_frame_hdr = IF eh = "none" THEN NoSection ELSE @,
                !.eh_frame = IF eh = "none" THEN NoSection ELSE @,
                !.debug = IF debug THEN "debug_frame" ELSE "none",
                !.debug_frame = IF debug THEN @ ELSE NoSection]

\* Elf::Init and CreateInterfaceFromMemory.
Machines == [c32 |-> {"ARM", "386", "MIPS"}, c64 |-> {"AARCH64", "X86_64", "MIPS"}]
CreateInterface == elf.magic /\ elf.class \in DOMAIN Machines /\ elf.machine \in Machines[elf.class]
Opened ==
  IF CreateInterface /\ elf.ehdr_readable
  THEN [InitHeaders(ReadAllHeaders(NewInterface)) EXCEPT !.valid = TRUE]
  ELSE NewInterface

-----------------------------------------------------------------------------
\* Calls that answer at once.  Elf's lock_ makes them atomic.

Answer(what, arg, ret, i) ==
  /\ job' = [ph |-> "idle", what |-> what, arg |-> arg, ret |-> ret]
  /\ intf' = i
  /\ calls' = calls + 1
  /\ UNCHANGED elf
May == job.ph = "idle" /\ calls < MaxCalls

\* ElfInterface::GetFunctionName; on arm bit 0 of the address is set for the
\* thumb symbols and cleared in the offset.
NameIn(x, k, r) ==
  [ok |-> r.ok, name |-> r.name, tables |-> [x.tables EXCEPT ![k] = r.s],
   offset |-> IF elf.machine = "ARM" THEN r.offset - (r.offset % 2) ELSE r.offset]
GetFunctionName(addr) ==
  LET a == IF elf.machine = "ARM" /\ addr % 2 = 0 THEN addr + 1 ELSE addr
      Look(x, k) == IF x.ok THEN x ELSE NameIn(x, k, GetName(x.tables[k], a))
  IN  /\ May
      /\ intf.valid
      /\ \E found \in {FoldLeft(Look, [ok |-> FALSE, name |-> NoName, offset |-> 0, tables |-> intf.symbols],
                                [k \in DOMAIN intf.symbols |-> k])} :
           Answer("GetFunctionName", addr, [ok |-> found.ok, name |-> found.name, offset |-> found.offset],
                  [intf EXCEPT !.symbols = found.tables])

\* Elf::GetGlobalVariableOffset: an address in .data or .dynamic as an
\* offset in the file (the top byte of an arm64 address is dropped: vaddr
\* is what is left).
InRange(v, r) == v >= r.start /\ v < r.end
GetGlobalVariableOffset(name) ==
  LET Look(x, k) == IF x.ok THEN x
                    ELSE LET r == GetGlobal(x.tables[k], name)
                         IN  [ok |-> r.ok, value |-> r.value, tables |-> [x.tables EXCEPT ![k] = r.s]]
      found == FoldLeft(Look, [ok |-> FALSE, value |-> NoEnd, tables |-> intf.symbols],
                        [k \in DOMAIN intf.symbols |-> k])
      v == found.value
      Offset(r) == [ok |-> TRUE, offset |-> v - r.start + r.offset]
  IN  /\ May
      /\ intf.valid
      /\ Answer("GetGlobalVariableOffset", name,
                IF found.ok /\ InRange(v, intf.data) THEN Offset(intf.data)
                ELSE IF found.ok /\ InRange(v, intf.dynamic) THEN Offset(intf.dynamic)
                ELSE [ok |-> FALSE, offset |-> 0],
                [intf EXCEPT !.symbols = found.tables])

\* GetSoname: the dynamic entries up to DT_NULL, then the string table they
\* name.  The outcome of the first call is kept, a failure too.
Dynamic(x, off) ==
  IF x.done THEN x
  ELSE IF off \notin DOMAIN elf.dynamic THEN [x EXCEPT !.done = TRUE, !.ok = FALSE]
  ELSE LET d == elf.dynamic[off]
       IN  CASE d.tag = "STRTAB" -> [x EXCEPT !.addr = d.val]
             [] d.tag = "STRSZ" -> [x EXCEPT !.size = d.val]
             [] d.tag = "SONAME" -> [x EXCEPT !.offset = d.val]
             [] d.tag = "NULL" -> [x EXCEPT !.done = TRUE]
             [] OTHER -> x

ReadSoname(i) ==
  LET d == FoldLeft(Dynamic, [done |-> FALSE, ok |-> TRUE, addr |-> 0, size |-> 0, offset |-> 0],
                    [k \in 1..(i.dynamic.end - i.dynamic.start) |-> i.dynamic.offset + k - 1])
      tabs == {k \in DOMAIN i.strtabs : i.strtabs[k][1] = d.addr}
      tab == i.strtabs[Min(tabs)][2]
  IN  IF ~d.ok THEN [i EXCEPT !.soname_type = "INVALID", !.err = "MEMORY_INVALID"]
      ELSE IF tabs = {} \/ d.offset >= d.size \/ tab + d.offset \notin DOMAIN elf.strings
      THEN [i EXCEPT !.soname_type = "INVALID"]
      ELSE [i EXCEPT !.soname_type = "VALID", !.soname = elf.strings[tab + d.offset]]

GetSoname ==
  LET i == IF intf.soname_type = "UNKNOWN" THEN ReadSoname(intf) ELSE intf
  IN  /\ May
      /\ intf.valid
      /\ Answer("GetSoname", 0, IF i.soname_type = "VALID" THEN i.soname ELSE NoName, i)

\* IsValidPc: by the executable loads, or by the FDEs when there are none.
IsValidPc(pc) ==
  LET loads == intf.pt_loads
  IN  /\ May
      /\ Answer("IsValidPc", pc,
                /\ intf.valid
                /\ ~(intf.load_bias > 0 /\ pc < intf.load_bias)
                /\ IF DOMAIN loads # {}
                   THEN \E o \in DOMAIN loads : pc >= loads[o].vaddr /\ pc < loads[o].vaddr + loads[o].size
                   ELSE \E f \in {intf.debug, intf.eh} \ {"none"} : pc \in DOMAIN elf.frames[f].steps,
                intf)

-----------------------------------------------------------------------------
\* Build ids.  elf.notes has the note headers in the file by their offset:
\* the sizes of name and description, and whether it is the GNU build id.

NhdrSize == 12
Align4(n) == n + ((-n) % 4)
InFile(off, n) == off + n <= elf.size

\* One note of the loop; id is where the description is, << >> for none.
Note(x, sec) ==
  LET h == elf.notes[sec.offset + x.offset]
      name == x.offset + NhdrSize
      desc == IF h.namesz = 0 THEN name ELSE name + Align4(h.namesz)
      Fail == [x EXCEPT !.done = TRUE]
  IN  IF x.done \/ x.offset >= sec.size THEN Fail
      ELSE IF sec.size - x.offset < NhdrSize \/ sec.offset + x.offset \notin DOMAIN elf.notes
      THEN Fail
      ELSE IF sec.size - name < h.namesz \/ ~InFile(sec.offset + name, h.namesz) THEN Fail
      ELSE IF ~(h.namesz > 0 /\ h.build_id) THEN [x EXCEPT !.offset = desc + Align4(h.descsz)]
      ELSE IF Wrap(sec.size - desc) < h.descsz \/ h.descsz = 0 THEN Fail
      ELSE IF InFile(sec.offset + desc, h.descsz)
      THEN [x EXCEPT !.done = TRUE, !.id = <<sec.offset + desc, h.descsz>>] ELSE Fail

BuildId(sec) ==
  IF Overflows(sec.offset, sec.size) THEN << >>
  ELSE FoldLeft(LAMBDA x, i : Note(x, sec), [offset |-> 0, done |-> FALSE, id |-> << >>],
                [i \in 1..(sec.size + 1) |-> i]).id

\* From the headers that were read (the last section with the name), or
\* from the memory of an elf that was not opened (the first one).
ReadBuildID == May /\ intf.valid /\ Answer("ReadBuildID", 0, BuildId(intf.note), intf)

GetBuildIDInfo ==
  LET named == {k \in 2..Min({Len(elf.shdrs), elf.sh_readable}) :
                  elf.shdrs[k].type = "NOTE" /\ NameOf(elf.shdrs[k]) = ".note.gnu.build-id"}
  IN  IF ~elf.ehdr_readable \/ named = {} \/ ~(elf.shstrndx < Min({Len(elf.shdrs), elf.sh_readable}))
      THEN NoSection ELSE Section(elf.shdrs[Min(named)], 0)

ReadBuildIDFromMemory ==
  /\ May
  /\ Answer("ReadBuildIDFromMemory", 0,
            IF elf.magic /\ elf.class \in DOMAIN Machines THEN BuildId(GetBuildIDInfo) ELSE << >>, intf)

\* Elf::GetLoadBias of an elf that was not opened: the bias of the first
\* executable load.
LoadBiasFromMemory ==
  LET exec == {k \in 1..Min({Len(elf.phdrs), elf.ph_readable}) : elf.phdrs[k].type = "LOAD" /\ elf.phdrs[k].x}
      p == elf.phdrs[Min(exec)]
  IN  IF ~elf.magic \/ elf.class \notin DOMAIN Machines \/ ~elf.ehdr_readable \/ exec = {} THEN 0
      ELSE p.vaddr - p.offset

GetLoadBias == May /\ Answer("GetLoadBias", 0, LoadBiasFromMemory, intf)

-----------------------------------------------------------------------------
\* Unwinding one frame.

\* The error of a DWARF section as an error of the interface.
Convert(code) ==
  CASE code \in {"NONE", "MEMORY_INVALID"} -> code
    [] code \in {"NOT_IMPLEMENTED", "UNSUPPORTED_VERSION"} -> "UNSUPPORTED"
    [] OTHER -> "UNWIND_INFO"

\* What DwarfSection::Step gives for a pc: "true" or an error.
Outcome(f, pc) == IF pc \in DOMAIN elf.frames[f].steps THEN elf.frames[f].steps[pc] ELSE "ILLEGAL_STATE"
StepAnswer(pc, ok, finished, by, regs, err) ==
  Answer("Step", pc, [ok |-> ok, finished |-> finished, by |-> by, regs |-> regs],
         [intf EXCEPT !.err = err])

\* ElfInterface::Step: .debug_frame, then .eh_frame; the error is the one of
\* the first section there is.  On arm the exception table comes next.
Step(pc) ==
  LET sections == SelectSeq(<<intf.debug, intf.eh>>, LAMBDA f : f # "none")
      good == SelectSeq(sections, LAMBDA f : Outcome(f, pc) = "true")
      err == IF sections = << >> THEN "NONE" ELSE Convert(Outcome(sections[1], pc))
  IN  /\ May
      /\ intf.valid
      /\ IF good # << >> THEN StepAnswer(pc, TRUE, FALSE, good[1], elf.regs, "NONE")
         ELSE IF elf.machine # "ARM" THEN StepAnswer(pc, FALSE, FALSE, "none", elf.regs, err)
         ELSE IF pc < Wrap(intf.load_bias) \/ intf.exidx = 0 \/ intf.total_entries = 0
         THEN StepAnswer(pc, FALSE, FALSE, "none", elf.regs, "UNWIND_INFO")
         ELSE /\ job' = [ph |-> "find", what |-> "Step", arg |-> pc, pc |-> pc - intf.load_bias,
                         first |-> 0, last |-> intf.total_entries]
              /\ intf' = [intf EXCEPT !.err = err]
              /\ calls' = calls + 1
              /\ UNCHANGED elf

Entry(k) == intf.exidx + 8 * k
\* An entry is decoded: the codes, then one Decode at a time.
Use(k) == [ph |-> "decode", what |-> "Step", arg |-> job.arg,
           a |-> ExtractEntryData(NewExidx(elf.regs), elf.words, Entry(k))]

\* One round of FindEntry; addrs_ keeps the addresses that were read.
FindEntry ==
  LET current == (job.first + job.last) \div 2
      known == current \in DOMAIN intf.addrs /\ intf.addrs[current] # 0
      addr == IF known THEN intf.addrs[current] ELSE Entry(current) + Prel31(elf.words[Entry(current)])
  IN  /\ job.ph = "find"
      /\ IF job.first >= job.last
         THEN IF job.last # 0 THEN job' = Use(job.last - 1) /\ UNCHANGED <<elf, intf, calls>>
              ELSE /\ job' = [ph |-> "idle", what |-> "Step", arg |-> job.arg,
                              ret |-> [ok |-> FALSE, finished |-> FALSE, by |-> "exidx", regs |-> elf.regs]]
                   /\ intf' = [intf EXCEPT !.err = "UNWIND_INFO"]
                   /\ UNCHANGED <<elf, calls>>
         ELSE IF ~known /\ Entry(current) \notin DOMAIN elf.words
         THEN /\ job' = [ph |-> "idle", what |-> "Step", arg |-> job.arg,
                         ret |-> [ok |-> FALSE, finished |-> FALSE, by |-> "exidx", regs |-> elf.regs]]
              /\ intf' = [intf EXCEPT !.err = "MEMORY_INVALID"]
              /\ UNCHANGED <<elf, calls>>
         ELSE /\ job' = CASE job.pc = addr -> Use(current)
                         [] job.pc < addr -> [job EXCEPT !.last = current]
                         [] OTHER -> [job EXCEPT !.first = current + 1]
              /\ intf' = [intf EXCEPT !.addrs = Put(@, current, addr)]
              /\ UNCHANGED <<elf, calls>>

\* Eval, one Decode.
EvalCode ==
  /\ job.ph = "decode"
  /\ job.a.go
  /\ job' = [job EXCEPT !.a = Decode(job.a, elf.stack)]
  /\ UNCHANGED <<elf, intf, calls>>

\* The registers after a finish: the pc is the return address unless popped.
StepExidx_Regs(a) ==
  [a.regs EXCEPT ![ARM_REG_PC] = IF a.pc_set THEN @ ELSE a.regs[ARM_REG_LR], ![ARM_REG_SP] = a.cfa]

\* The end of StepExidx.  "Cannot unwind" counts as the last frame.
StepExidx ==
  LET a == job.a
      done == a.status = "FINISH"
      regs == IF done THEN StepExidx_Regs(a) ELSE a.regs
      Failed == IF a.status = "READ_FAILED" THEN "MEMORY_INVALID" ELSE "UNWIND_INFO"
  IN  /\ job.ph = "decode"
      /\ ~a.go
      /\ job' = [ph |-> "idle", what |-> "Step", arg |-> job.arg,
                 ret |-> [ok |-> done \/ a.status = "NO_UNWIND", by |-> "exidx", regs |-> regs,
                          finished |-> a.status = "NO_UNWIND" \/ (done /\ regs[ARM_REG_PC] = 0)]]
      /\ intf' = [intf EXCEPT !.err = IF done \/ a.status = "NO_UNWIND" THEN @ ELSE Failed]
      /\ UNCHANGED <<elf, calls>>

-----------------------------------------------------------------------------
Idle == [ph |-> "idle", what |-> "none", arg |-> 0, ret |-> 0]

Init ==
  /\ elf \in Elfs
  /\ intf = Opened
  /\ job = Idle
  /\ calls = 0

Next ==
  \/ \E addr \in elf.addrs : GetFunctionName(addr) \/ IsValidPc(addr)
  \/ \E name \in elf.names : GetGlobalVariableOffset(name)
  \/ GetSoname \/ ReadBuildID \/ ReadBuildIDFromMemory \/ GetLoadBias
  \/ \E pc \in elf.pcs : Step(pc)
  \/ FindEntry \/ EvalCode \/ StepExidx

Spec == Init /\ [][Next]_vars

=============================================================================
