------------------------------ MODULE DwarfOp ------------------------------
(***************************************************************************)
(* The stack machine that evaluates a DWARF expression (DwarfOp.cpp).      *)
(*                                                                         *)
(* An evaluation is a record: off is the cursor in the image, stack has    *)
(* the front of stack_ first, n counts the calls of Decode.  Step gives    *)
(* the set of records one call of Decode, with the checks Eval makes       *)
(* around it, can lead to; it has several members only where the C++ is    *)
(* undefined.                                                              *)
(***************************************************************************)
EXTENDS DwarfMemory, TLC

CONSTANT MaxIterations    \* 1000 in Eval

ASSUME IterationsAssumption == MaxIterations \in Nat \ {0, 1}

AddressBits == 8 * W4
DexMarker == 209          \* stands for the four characters DEX1

-----------------------------------------------------------------------------
\* kCallbackTable: the handler of an op code, the stack values it requires
\* and the encodings of its operands.
Entry(fn, required, operands) == [fn |-> fn, required |-> required, operands |-> operands]
Illegal == Entry("illegal", 0, << >>)
NotImplemented(required, operands) == Entry("not_implemented", required, operands)

\* 0x00 - 0x18
StackOps ==
  (3 :> Entry("push", 0, <<PE.absptr>>)) @@ (6 :> Entry("deref", 1, << >>))
  @@ (8 :> Entry("push", 0, <<PE.udata1>>)) @@ (9 :> Entry("push", 0, <<PE.sdata1>>))
  @@ (10 :> Entry("push", 0, <<PE.udata2>>)) @@ (11 :> Entry("push", 0, <<PE.sdata2>>))
  @@ (12 :> Entry("push", 0, <<PE.udata4>>)) @@ (13 :> Entry("push", 0, <<PE.sdata4>>))
  @@ (14 :> Entry("push", 0, <<PE.udata8>>)) @@ (15 :> Entry("push", 0, <<PE.sdata8>>))
  @@ (16 :> Entry("push", 0, <<PE.uleb128>>)) @@ (17 :> Entry("push", 0, <<PE.sleb128>>))
  @@ (18 :> Entry("dup", 1, << >>)) @@ (19 :> Entry("drop", 1, << >>))
  @@ (20 :> Entry("over", 2, << >>)) @@ (21 :> Entry("pick", 0, <<PE.udata1>>))
  @@ (22 :> Entry("swap", 2, << >>)) @@ (23 :> Entry("rot", 3, << >>))
  @@ (24 :> NotImplemented(2, << >>))

\* 0x19 - 0x27
ArithmeticOps ==
  [c \in {25, 31, 32} |-> Entry((25 :> "abs" @@ 31 :> "neg" @@ 32 :> "not")[c], 1, << >>)]
  @@ (35 :> Entry("plus_uconst", 1, <<PE.uleb128>>))
  @@ [c \in {26, 27, 28, 29, 30, 33, 34, 36, 37, 38, 39} |->
        Entry((26 :> "and" @@ 27 :> "div" @@ 28 :> "minus" @@ 29 :> "mod" @@ 30 :> "mul"
               @@ 33 :> "or" @@ 34 :> "plus" @@ 36 :> "shl" @@ 37 :> "shr" @@ 38 :> "shra"
               @@ 39 :> "xor")[c], 2, << >>)]

ControlOps_OneValue ==                                                \* mutant
  [c \in 40..47 |-> Entry(<<"bra", "eq", "ge", "gt", "le", "lt", "ne", "skip">>[c - 39],
                          IF c = 47 THEN 0 ELSE 1, IF c \in {40, 47} THEN <<PE.sdata2>> ELSE << >>)]

\* 0x28 - 0x2f
ControlOps ==
  (40 :> Entry("bra", 1, <<PE.sdata2>>))
  @@ [c \in 41..46 |-> Entry(<<"eq", "ge", "gt", "le", "lt", "ne">>[c - 40], 2, << >>)]
  @@ (47 :> Entry("skip", 0, <<PE.sdata2>>))

LitOps == [c \in 48..79 |-> Entry("lit", 0, << >>)]                \* 0x30 - 0x4f
RegOps == [c \in 80..111 |-> Entry("reg", 0, << >>)]               \* 0x50 - 0x6f
BregOps == [c \in 112..143 |-> Entry("breg", 0, <<PE.sleb128>>)]   \* 0x70 - 0x8f

\* 0x90 - 0x9e
OtherOps ==
  (144 :> Entry("regx", 0, <<PE.uleb128>>)) @@ (145 :> NotImplemented(0, <<PE.sleb128>>))
  @@ (146 :> Entry("bregx", 0, <<PE.uleb128, PE.sleb128>>))
  @@ (147 :> NotImplemented(0, <<PE.uleb128>>)) @@ (148 :> Entry("deref_size", 1, <<PE.udata1>>))
  @@ (149 :> NotImplemented(0, <<PE.udata1>>)) @@ (150 :> Entry("nop", 0, << >>))
  @@ (151 :> NotImplemented(0, << >>)) @@ (152 :> NotImplemented(0, <<PE.udata2>>))
  @@ (153 :> NotImplemented(0, <<PE.udata4>>)) @@ [c \in 154..156 |-> NotImplemented(0, << >>)]
  @@ (157 :> NotImplemented(0, <<PE.uleb128, PE.uleb128>>))
  @@ (158 :> NotImplemented(0, <<PE.uleb128>>)) @@ (159 :> NotImplemented(1, << >>))

kCallbackTable == StackOps @@ ArithmeticOps @@ ControlOps @@ LitOps @@ RegOps @@ BregOps
                  @@ OtherOps @@ [c \in Byte |-> Illegal]
-----------------------------------------------------------------------------
\* The slots of the stack a handler touches (StackPop, StackAt, stack_[i])
\* without a check of its own.
Touches(fn) ==
  CASE fn \in {"deref", "deref_size", "dup", "drop", "abs", "neg", "not", "plus_uconst", "bra"} -> 1
    [] fn = "rot" -> 3
    [] fn \in {"over", "swap", "and", "div", "minus", "mod", "mul", "or", "plus", "shl", "shr",
               "shra", "xor", "eq", "ge", "gt", "le", "lt", "ne"} -> 2
    [] OTHER -> 0

Bit(v, i) == (v \div 2^i) % 2
BitByBit(a, b, B(_, _)) ==
  LET f[i \in 0..AddressBits] == IF i = 0 THEN 0
                                 ELSE f[i - 1] + B(Bit(a, i - 1), Bit(b, i - 1)) * 2^(i - 1)
  IN  f[AddressBits]

Abs(v) == IF v < 0 THEN -v ELSE v
Quotient(x, y) ==              \* C++ division truncates
  IF (x < 0) = (y < 0) THEN Abs(x) \div Abs(y) ELSE -(Abs(x) \div Abs(y))
bool_to_dwarf_bool(b) == IF b THEN 1 ELSE 0

\* The results of a two-operand handler: top was popped, a is stack_[0].  A
\* shift by the width or more is undefined: arm yields 0, arm64 and x86 use
\* the amount modulo the width.  The most negative value divided by -1 is
\* undefined too: arm yields it back (x86 would raise SIGFPE).
Binary(fn, a, top) ==
  LET amounts == IF top < AddressBits THEN {top} ELSE {top % AddressBits, AddressBits}
  IN  CASE fn = "and" -> {BitByBit(a, top, LAMBDA x, y : x * y)}
        [] fn = "or" -> {BitByBit(a, top, LAMBDA x, y : x + y - x * y)}
        [] fn = "xor" -> {BitByBit(a, top, LAMBDA x, y : (x + y) % 2)}
        [] fn = "div" -> IF top = 0 THEN {}
                         ELSE {ToAddress(Quotient(Signed(a, W4), Signed(top, W4)))}
        [] fn = "mod" -> IF top = 0 THEN {} ELSE {a % top}
        [] fn = "minus" -> {ToAddress(a - top)}
        [] fn = "plus" -> {ToAddress(a + top)}
        [] fn = "mul" -> {ToAddress(a * top)}
        [] fn = "shl" -> {ToAddress(a * 2^k) : k \in amounts}
        [] fn = "shr" -> {a \div 2^k : k \in amounts}
        [] fn = "shra" -> {ToAddress(Signed(a, W4) \div 2^k) : k \in amounts}
        [] OTHER -> {bool_to_dwarf_bool(
                       CASE fn = "eq" -> a = top [] fn = "ne" -> a # top
                         [] fn = "ge" -> a >= top [] fn = "gt" -> a > top
                         [] fn = "le" -> a <= top [] fn = "lt" -> a < top)}

Unary(fn, a, args) ==
  CASE fn = "abs" -> ToAddress(Abs(Signed(a, W4)))
    [] fn = "neg" -> ToAddress(-Signed(a, W4))
    [] fn = "not" -> ToAddress(-1 - a)
    [] fn = "plus_uconst" -> ToAddress(a + args[1])

Give(o, code) == [o EXCEPT !.st = "false", !.err = code]
Push(o, v) == [o EXCEPT !.stack = <<ToAddress(v)>> \o @]

\* op_breg and op_bregx read a register as it was before the unwind.
Breg(o, reg, offset, r) ==
  IF reg >= Len(r.regs) THEN Give(o, "ILLEGAL_VALUE") ELSE Push(o, r.regs[reg + 1] + offset)

\* op_deref and op_deref_size: r.mem is the process memory that can be read;
\* a value read with fewer bytes than a word loses its high ones.
Deref(o, bytes, r) ==
  LET rest == [o EXCEPT !.stack = Tail(@)]
      addr == Head(o.stack)
  IN  IF bytes \notin 1..W4 THEN Give(o, "ILLEGAL_VALUE")
      ELSE IF addr \notin DOMAIN r.mem THEN Give(o, "MEMORY_INVALID")
      ELSE Push(rest, Unsigned(r.mem[addr], bytes))

\* The handlers.  o.off is past the operands.
Handle(fn, op, o, args, r) ==
  LET s == o.stack
      Jump(off) == [o EXCEPT !.off = ToU64(off)]
  IN  IF Len(s) < Touches(fn) THEN {Give(o, "OUTSIDE_STACK")}      \* undefined in C++
      ELSE
        CASE fn = "not_implemented" -> {Give(o, "NOT_IMPLEMENTED")}
          [] fn = "nop" -> {o}
          [] fn = "push" -> {Push(o, args[1])}
          [] fn = "lit" -> {Push(o, op - 48)}
          [] fn = "reg" -> {[Push(o, op - 80) EXCEPT !.is_register = TRUE]}
          [] fn = "regx" -> {[Push(o, args[1]) EXCEPT !.is_register = TRUE]}
          [] fn = "breg" -> {Breg(o, op - 112, args[1], r)}
          [] fn = "bregx" -> {Breg(o, ToAddress(args[1]), args[2], r)}
          [] fn = "deref" -> {Deref(o, W4, r)}
          [] fn = "deref_size" -> {Deref(o, args[1], r)}
          [] fn = "dup" -> {Push(o, s[1])}
          [] fn = "drop" -> {[o EXCEPT !.stack = Tail(s)]}
          [] fn = "over" -> {Push(o, s[2])}
          [] fn = "pick" -> {IF args[1] >= Len(s) THEN Give(o, "STACK_INDEX_NOT_VALID")
                             ELSE Push(o, s[args[1] + 1])}
          [] fn = "swap" -> {[o EXCEPT !.stack[1] = s[2], !.stack[2] = s[1]]}
          [] fn = "rot" -> {[o EXCEPT !.stack[1] = s[2], !.stack[2] = s[3], !.stack[3] = s[1]]}
          [] fn = "skip" -> {Jump(o.off + Signed(args[1], W2))}
          [] fn = "bra" -> LET d == Signed(args[1], W2)
                           IN  {[Jump(IF s[1] # 0 THEN o.off + d ELSE o.off - d)
                                   EXCEPT !.stack = Tail(s)]}
          [] fn \in {"abs", "neg", "not", "plus_uconst"} -> {[o EXCEPT !.stack[1] = Unary(fn, @, args)]}
          [] OTHER -> LET results == Binary(fn, s[2], s[1])
                      IN  IF results = {} THEN {Give(o, "ILLEGAL_VALUE")}
                          ELSE {[o EXCEPT !.stack = <<v>> \o Tail(Tail(s))] : v \in results}

\* b is the cursor behind the op code, e its entry of the table, a and c are
\* the cursors behind its operands.
Operands(o, e, op, a, c, r) ==
  IF ~c.ok THEN {Give(o, "MEMORY_INVALID")}
  ELSE Handle(e.fn, op, [o EXCEPT !.off = c.off, !.op = <<op, a.val>>], <<a.val, c.val>>, r)
Dispatch(m, o, b, e, r) ==
  LET a == IF Len(e.operands) >= 1 THEN ReadEncodedValue(m, b, e.operands[1]) ELSE b
  IN  IF e.fn = "illegal" THEN {Give(o, "ILLEGAL_VALUE")}
      ELSE IF Len(o.stack) < e.required THEN {Give(o, "STACK_INDEX_NOT_VALID")}
      ELSE Operands(o, e, b.val, a,
                    IF Len(e.operands) >= 2 THEN ReadEncodedValue(m, a, e.operands[2]) ELSE a, r)
Decode(m, o, r) ==
  LET b == ReadBytes(m, Cursor(o.off), 1)
  IN  IF ~b.ok THEN {Give(o, "MEMORY_INVALID")} ELSE Dispatch(m, o, b, kCallbackTable[b.val], r)

-----------------------------------------------------------------------------
EvalStart(start, end) ==
  [off |-> start, end |-> end, stack |-> << >>, is_register |-> FALSE, dex_pc_set |-> FALSE,
   check_for_drop |-> FALSE, op |-> <<0, 0>>, n |-> 0, err |-> "NONE",
   st |-> IF start < end THEN "run" ELSE "true"]

EvalStep_NoLimit(m, o, r) ==                                          \* mutant
  {[d EXCEPT !.n = (o.n + 1) % 4,
             !.st = IF d.st = "run" /\ d.off >= d.end THEN "true" ELSE d.st] : d \in Decode(m, o, r)}

\* One Decode and what Eval does before the next: the first two look for the
\* marker of a dex pc, the others count the iterations.
EvalStep(m, o, r) ==
  {IF d.st # "run" THEN d
   ELSE IF o.n >= 2 /\ o.n = MaxIterations THEN Give(d, "TOO_MANY_ITERATIONS")
   ELSE [d EXCEPT !.n = o.n + 1,
                  !.check_for_drop = IF o.n = 0 THEN d.op = <<12, DexMarker>> ELSE @,
                  !.dex_pc_set = IF o.n = 1 THEN o.check_for_drop /\ d.op[1] = 19 ELSE @,
                  !.st = IF d.off < d.end THEN "run" ELSE "true"]
   : d \in Decode(m, o, r)}

=============================================================================
