------------------------------- MODULE MCElf -------------------------------
(***************************************************************************)
(* Files for ElfInterface.  A function is described by the prologue it     *)
(* runs; the machine below runs it on the registers of its caller, and its *)
(* exception-table entry undoes it.                                        *)
(***************************************************************************)
EXTENDS ElfInterface

Flat(ss) == FoldLeft(LAMBDA a, b : a \o b, << >>, ss)
Caller == [r \in 0..15 |-> CASE r = 13 -> 1200 [] r = 14 -> 77 [] OTHER -> 40 + r]

\* Prologues: push registers (ascending), take space, save the vector
\* registers, make r the frame pointer and take an unknown amount of space.
Push(regs, code) == [op |-> "push", regs |-> regs, n |-> 0, code |-> code]
Space(n, code) == [op |-> "space", regs |-> << >>, n |-> n, code |-> code]
Frame(r) == [op |-> "frame", regs |-> <<r>>, n |-> 40, code |-> <<144 + r>>]

Run(m, p) ==
  LET n == Len(p.regs)
      at == [i \in 1..n |-> m.sp - 4 * (n - i + 1)]
  IN  CASE p.op = "push" ->
             [sp |-> m.sp - 4 * n,
              mem |-> [a \in DOMAIN m.mem |-> IF \E i \in 1..n : at[i] = a
                                              THEN m.regs[p.regs[CHOOSE i \in 1..n : at[i] = a]] ELSE m.mem[a]],
              regs |-> [r \in 0..15 |-> IF Contains(p.regs, r) THEN 3 ELSE m.regs[r]]]
        [] p.op = "space" -> [m EXCEPT !.sp = @ - p.n]
        [] p.op = "frame" -> [m EXCEPT !.regs[p.regs[1]] = m.sp, !.sp = @ - p.n]
Stack == {4 * i : i \in 1..310}
Callee(pro) ==
  LET m == FoldLeft(Run, [sp |-> Caller[13], regs |-> Caller, mem |-> [a \in Stack |-> 2]], pro)
  IN  [regs |-> [m.regs EXCEPT ![13] = m.sp, ![15] = 9], stack |-> m.mem]
Codes(pro) == Flat(Reverse([i \in DOMAIN pro |-> pro[i].code]))

-----------------------------------------------------------------------------
\* Words of the exception table.
Bytes(v) == <<v \div 16777216, (v \div 65536) % 256, (v \div 256) % 256, v % 256>>
Rel(from, to) ==
  IF to >= from THEN Bytes(to - from)
  ELSE LET b == Bytes(to - from + 1073741824) IN <<b[1] + 64, b[2], b[3], b[4]>>
Pad(codes, n) == codes \o [i \in 1..(n - Len(codes)) |-> ARM_OP_FINISH]
Group(codes) == [i \in 1..(Len(codes) \div 4) |-> SubSeq(codes, 4 * i - 3, 4 * i)]
At(addr, words) == [a \in {addr + 4 * (i - 1) : i \in DOMAIN words} |-> words[(a - addr) \div 4 + 1]]
Words(codes, first) == (Len(codes) - first + 3) \div 4

\* The data word of entry k, and the table it points to, for a form.
Table(form, codes, off, addr) ==
  LET w1 == Words(codes, 2)
      w3 == Words(codes, 3)
      c1 == Pad(codes, 2 + 4 * w1)
      c3 == Pad(codes, 3 + 4 * w3)
  IN  CASE form = "inline" -> off :> <<128>> \o Pad(codes, 3)
        [] form = "short" -> (off :> Rel(off, addr)) @@ (addr :> <<128>> \o Pad(codes, 3))
        [] form = "long" -> (off :> Rel(off, addr))
             @@ At(addr, <<<<129, w1, c1[1], c1[2]>>>> \o Group(SubSeq(c1, 3, Len(c1))))
        [] form = "generic" -> (off :> Rel(off, addr))
             @@ At(addr, <<<<1, 2, 3, 4>>, <<w3, c3[1], c3[2], c3[3]>>>> \o Group(SubSeq(c3, 4, Len(c3))))
        [] form = "cant" -> off :> <<0, 0, 0, 1>>
        [] form = "other" -> off :> <<131, 1, 1, 1>>

Starts == <<8, 24, 40>>
Exidx == 64
Bias == 16
\* Entry 2 is the function under test; the others refuse to unwind.
ExidxWords(form, codes) ==
  Table(form, codes, Exidx + 12, 120)
  @@ [a \in {Exidx + 8 * (k - 1) : k \in 1..3} |-> Rel(a, Starts[(a - Exidx) \div 8 + 1])]
  @@ (Exidx + 4 :> <<0, 0, 0, 1>>) @@ (Exidx + 20 :> <<0, 0, 0, 1>>)

-----------------------------------------------------------------------------
\* Files.
Ph(type, offset, vaddr, size, x) ==
  [type |-> type, offset |-> offset, vaddr |-> vaddr, memsz |-> size, filesz |-> size, x |-> x]
Sh(type, name, offset, addr, size) ==
  [type |-> type, name |-> name, offset |-> offset, addr |-> addr, size |-> size, link |-> 1, table |-> << >>]
SymTab(table) == [Sh("SYMTAB", "", 200, 0, 9) EXCEPT !.table = table]
Null == Sh("NULL", "", 0, 0, 0)
Names == Sh("STRTAB", "", 300, 50, 40)

Loads == <<Ph("LOAD", 0, 0, 8, FALSE), Ph("LOAD", 8, 8 + Bias, 80, TRUE), Ph("LOAD", 96, 96, 8, TRUE)>>
None == [f \in {"eh_frame_hdr", "eh_frame", "debug_frame"} |-> [init |-> FALSE, steps |-> << >>]]
File ==
  [magic |-> TRUE, class |-> "c32", machine |-> "ARM", ehdr_readable |-> TRUE, size |-> 500,
   phdrs |-> Loads, ph_readable |-> 9, shdrs |-> <<Null, Names>>, sh_readable |-> 9, shstrndx |-> 1,
   frames |-> None, dynamic |-> << >>, strings |-> << >>, notes |-> << >>, words |-> << >>,
   regs |-> Caller, stack |-> << >>, pro |-> << >>, odd |-> FALSE, pcs |-> {}, addrs |-> {}, names |-> {}]

Arm(form, pro) ==
  LET m == Callee(pro)
  IN  [File EXCEPT !.phdrs = Append(Loads, Ph("ARM_EXIDX", Exidx, Exidx + Bias, 24, FALSE)),
                   !.words = ExidxWords(form, Codes(pro)), !.regs = m.regs, !.stack = m.stack, !.pro = pro,
                   !.pcs = {Bias + 7, Bias + 8, Bias + 24, Bias + 39, Bias + 41}]

R4to(n) == [i \in 1..(n - 3) |-> 3 + i]
Prologues ==
  {<<Push(<<4, 5, 14>>, <<169>>), Space(516, <<178, 0>>)>>,
   <<Push(<<7, 11, 14>>, <<132, 136>>), Space(16, <<3>>)>>,
   <<Push(R4to(11) \o <<14>>, <<175>>), Space(4, <<0>>)>>,
   <<Push(R4to(6), <<162>>), Space(520, <<178, 1>>)>>,
   <<Push(<<4, 15>>, <<136, 1>>)>>,
   <<Space(8, << >>), Push(<<13, 14>>, <<134, 0>>)>>,
   <<Push(<<0, 3>>, <<177, 9>>), Push(<<14>>, <<132, 0>>)>>,
   <<Push(<<7, 14>>, <<132, 8>>), Frame(7), Space(24, <<5>>)>>,
   <<Push(<<14>>, <<132, 0>>), Space(44, <<179, 4>>), Space(24, <<201, 2>>), Space(16, <<209>>)>>,
   <<Push(<<14>>, <<132, 0>>), Space(24, <<198, 2>>), Space(8, <<199, 3>>), Space(16, <<193>>),
     Space(28, <<186>>), Space(16, <<200, 1>>)>>,
   <<Push(<<14>>, <<132, 0>>), Space(12, <<68, 7>>)>>,
   << >>}
Usable(form, pro) ==
  Len(Codes(pro)) <= (IF form \in {"inline", "short"} THEN 3 ELSE 23)
Unwinds == {Arm(x[1], x[2]) : x \in {y \in {"inline", "short", "long", "generic"} \X Prologues : Usable(y[1], y[2])}}
\* Codes that are refused, truncated, or read memory that is not there.
Odd == {[Arm(form, << >>) EXCEPT !.words = ExidxWords(form, codes), !.odd = TRUE] :
          form \in {"inline", "generic"},
          codes \in {<<128, 0>>, <<157>>, <<177, 0>>, <<177, 16>>, <<180>>, <<199, 0>>, <<199, 16>>, <<202>>,
                     <<255>>, <<178, 255, 255>>, <<63, 63, 160>>, <<134, 0, 157>>}}
       \union {[Arm(form, << >>) EXCEPT !.odd = TRUE] : form \in {"cant", "other"}}
       \union {[Arm("inline", << >>) EXCEPT !.words = [a \in DOMAIN @ \ {Exidx + k} |-> @[a]],
                                            !.odd = TRUE] : k \in {8, 12}}
       \union {[Arm("short", << >>) EXCEPT !.words = [a \in DOMAIN @ \ {120} |-> @[a]], !.odd = TRUE]}
       \union {[Arm("inline", << >>) EXCEPT !.words = Put(@, Exidx + 12, w), !.odd = TRUE] :
                 w \in {<<0, 0, 0, 44>>, <<64, 0, 0, 0>>}}

Sym(value, size, kind, name) == [value |-> value, size |-> size, kind |-> kind, name |-> name]
Tab(syms) == [syms |-> syms, count |-> Len(syms), readable |-> Len(syms)]
Sorted == <<Sym(9, 6, "func", "a"), Sym(17, 8, "func", "b"), Sym(25, 4, "object", "v"),
            Sym(33, 8, "func", "c"), Sym(45, 0, "other", "e"), Sym(49, 6, "func", "d")>>
Tables == {Tab(Sorted), Tab(Reverse(Sorted)),
           Tab(<<Sorted[4], Sorted[1], Sorted[5], Sorted[6], Sorted[3], Sorted[2]>>),
           [Tab(Sorted) EXCEPT !.readable = 3], [Tab(Sorted) EXCEPT !.readable = 0],
           [Tab(Reverse(Sorted)) EXCEPT !.readable = 4]}
Named ==
  {[File EXCEPT !.machine = mach, !.class = IF mach = "ARM" THEN "c32" ELSE "c64",
                !.shdrs = <<Null, Names, SymTab(t), SymTab(Tab(<<Sym(61, 4, "func", "z")>>)),
                            Sh("PROGBITS", ".data", 400, 20, 10), [SymTab(t) EXCEPT !.link = 2]>>,
                !.phdrs = Append(@, Ph("DYNAMIC", 450, 35, 4, FALSE)),
                !.dynamic = [o \in 450..451 |-> <<[tag |-> "STRTAB", val |-> 50], [tag |-> "SONAME", val |-> 4]>>[o - 449]]
                            @@ (452 :> [tag |-> "STRSZ", val |-> size]) @@ (453 :> [tag |-> "NULL", val |-> 0]),
                !.strings = (304 :> "libx"),
                !.addrs = {8, 10, 20, 27, 34, 45, 54, 62}, !.names = {"v", "w"}] :
     mach \in {"ARM", "AARCH64"}, t \in Tables, size \in {5, 4}}

EhFile(hdr, init, n) ==
  [File EXCEPT !.machine = "386",
     !.phdrs = IF hdr THEN Append(@, Ph("GNU_EH_FRAME", 110, 110, 10, FALSE)) ELSE << >>,
     !.shdrs = <<Null, Names, Sh("PROGBITS", ".eh_frame", 130, 130, 30), Sh("PROGBITS", ".eh_frame_hdr", 110, 110, 10),
                 Sh("PROGBITS", ".debug_frame", 170, 0, 20), Sh("PROGBITS", ".text", 8, 24, 80)>>,
     !.sh_readable = n,
     !.frames = [eh_frame_hdr |-> [init |-> "h" \in init, steps |-> (24 :> "true") @@ (30 :> "true")],
                 eh_frame |-> [init |-> "e" \in init, steps |-> (24 :> "true") @@ (30 :> "true")],
                 debug_frame |-> [init |-> "d" \in init, steps |-> (24 :> "true") @@ (30 :> "NOT_IMPLEMENTED")]],
     !.pcs = {24, 30, 60}, !.addrs = {24, 60, 97}]
Ehs == {EhFile(hdr, init, n) : hdr \in BOOLEAN, init \in SUBSET {"h", "e", "d"}, n \in {2, 4, 9}}

\* Note sections: another note, then the build id; the sizes of the section.
NoteFile(size, namesz, first, ndx) ==
  [File EXCEPT !.shdrs = <<Null, Names, Sh("NOTE", ".note.gnu.build-id", 200, 200, size)>>, !.shstrndx = ndx,
               !.notes = IF first THEN (200 :> [namesz |-> 4, descsz |-> 6, build_id |-> FALSE])
                                       @@ (224 :> [namesz |-> namesz, descsz |-> 8, build_id |-> TRUE])
                         ELSE 200 :> [namesz |-> namesz, descsz |-> 8, build_id |-> TRUE]]
Notes == {NoteFile(x[1], 4, x[2], x[3]) : x \in {0, 11, 15, 20, 24, 40, 44, 48} \X BOOLEAN \X {1, 7}}
Closed == {[File EXCEPT !.magic = FALSE], [File EXCEPT !.machine = "PPC"], [File EXCEPT !.ehdr_readable = FALSE]}

MCElfs == Unwinds \union Odd \union Named \union Ehs \union Notes \union Closed
\* A name that is not padded, at the end of the section.
-----------------------------------------------------------------------------
Answered(what) == job.ph = "idle" /\ job.what = what
InTest == job.arg \in (Bias + Starts[2])..(Bias + Starts[3] - 1)
Popped(r) == \E i \in DOMAIN elf.pro : elf.pro[i].op = "push" /\ Contains(elf.pro[i].regs, r)

\* Unwinding with the exception table undoes the prologue, whichever form
\* the entry has: the caller's registers, its sp, and the return address or
\* the popped pc (FindEntry, ExtractEntryData, Decode, StepExidx).  A pc of
\* another function never gets these registers, and codes that are no good
\* end in an error or a last frame, never in a caller.
CallerRestored ==
  Answered("Step") /\ elf.machine = "ARM" =>
    IF elf.odd THEN job.ret.ok => job.ret.finished
    ELSE IF InTest
    THEN /\ job.ret.ok /\ ~job.ret.finished
         /\ \A r \in 0..14 : job.ret.regs[r] = Caller[r]
         /\ job.ret.regs[15] = IF Popped(15) THEN Caller[15] ELSE Caller[14]
    ELSE job.ret.finished = job.ret.ok /\ job.ret.regs = elf.regs

\* A name is the one of the function that covers the address, whatever was
\* looked up before; in a table that can be read every one is found
\* (Symbols::GetName, its cache and its remapping table).
NamesRight ==
  Answered("GetFunctionName") =>
    LET addr == IF elf.machine = "ARM" /\ job.arg % 2 = 0 THEN job.arg + 1 ELSE job.arg
        shown == {h \in {elf.shdrs[k] : k \in 3..Len(elf.shdrs)} : h.type = "SYMTAB" /\ h.link = 1}
        covers == {y \in UNION {{h.table.syms[k] : k \in DOMAIN h.table.syms} : h \in shown} :
                     y.kind = "func" /\ y.value <= addr /\ addr < y.value + y.size}
    IN  /\ job.ret.ok => \E y \in covers : job.ret.name = y.name /\ job.ret.offset = (addr - y.value) - (IF elf.machine = "ARM" THEN (addr - y.value) % 2 ELSE 0)
        /\ (\A h \in shown : h.table.readable = h.table.count) => (job.ret.ok <=> covers # {})

\* A pc that .eh_frame covers is unwound even when .eh_frame_hdr is no good
\* (InitHeaders), and .debug_frame is asked first.
FramesUsed ==
  Answered("Step") /\ elf.machine = "386" /\ elf.sh_readable = 9 =>
    /\ elf.frames["eh_frame"].init /\ job.arg \in {24, 30} => job.ret.ok
    /\ job.ret.ok => job.ret.by = IF elf.frames["debug_frame"].init /\ job.arg = 24 THEN "debug_frame"
                                  ELSE IF elf.frames["eh_frame_hdr"].init THEN "eh_frame_hdr" ELSE "eh_frame"

\* The load bias and the build id read from a file that is not opened are
\* the ones an opened one has (GetLoadBias, ReadBuildIDFromMemory).
MemoryAgrees ==
  /\ Answered("GetLoadBias") /\ intf.valid => job.ret = intf.load_bias
  /\ Answered("ReadBuildIDFromMemory") /\ intf.valid => job.ret = BuildId(intf.note)

=============================================================================
