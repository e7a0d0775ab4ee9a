---------------------------- MODULE DwarfMemory ----------------------------
(***************************************************************************)
(* Reading encoded values out of unwind information (DwarfMemory.cpp).     *)
(*                                                                         *)
(* An image is the sequence of bytes a Memory object holds; a cursor is    *)
(* the DwarfMemory object that walks it.  A read that fails leaves ok      *)
(* FALSE and every later read of that cursor fails too: callers return at  *)
(* the first failure, so nothing can tell the difference.                  *)
(*                                                                         *)
(* Widths are scaled: a 16-, 32- or 64-bit integer takes W2, W4 or W8      *)
(* bytes, so that wrap-around is reached with small numbers.  AddressType  *)
(* is the 32-bit instance of the templates and takes W4 bytes.             *)
(***************************************************************************)
EXTENDS Integers, Sequences, FiniteSetsExt

CONSTANTS W2, W4, W8

ASSUME WidthAssumption == W2 \in 1..W4 /\ W4 \in 1..W8 /\ W8 \in 1..2

Byte == 0..255
Address == 0..(256^W4 - 1)
NoOffset == 256^(W8 + 1)  \* INT64_MAX for pc_offset_, uint64_t(-1) for the others

\* Two's complement at a given number of bytes.
Unsigned(v, n) == v % (256^n)
Signed(v, n) ==
  LET u == Unsigned(v, n) IN IF 2 * u < 256^n THEN u ELSE u - 256^n
ToAddress(v) == Unsigned(v, W4)
ToU64(v) == Unsigned(v, W8)

\* The value of n bytes of image m from offset off, least significant first.
LittleEndian(m, off, n) ==
  LET f[i \in 0..n] == IF i = 0 THEN 0 ELSE f[i - 1] + m[off + i] * 256^(i - 1)
  IN  f[n]

Cursor(off) == [ok |-> TRUE, off |-> off, val |-> 0,
                pc |-> NoOffset, data |-> NoOffset, func |-> NoOffset, text |-> NoOffset]
Failed(c) == [c EXCEPT !.ok = FALSE]

ReadBytes(m, c, n) ==
  IF c.ok /\ c.off + n <= Len(m)
  THEN [c EXCEPT !.off = @ + n, !.val = LittleEndian(m, c.off, n)]
  ELSE Failed(c)

ReadSigned(m, c, n) ==
  LET r == ReadBytes(m, c, n) IN [r EXCEPT !.val = ToU64(Signed(@, n))]

\* The offsets at which a LEB128 value starting at c.off can end.
LebEnds(m, c) == {i \in c.off..(Len(m) - 1) : m[i + 1] < 128}

LebValue(m, off, n) ==
  LET f[i \in 0..n] == IF i = 0 THEN 0 ELSE f[i - 1] + (m[off + i] % 128) * 128^(i - 1)
  IN  f[n]

ReadULEB128(m, c) ==
  IF ~c.ok \/ LebEnds(m, c) = {} THEN Failed(c)
  ELSE LET n == Min(LebEnds(m, c)) - c.off + 1
       IN  [c EXCEPT !.off = @ + n, !.val = ToU64(LebValue(m, c.off, n))]

ReadSLEB128(m, c) ==
  IF ~c.ok \/ LebEnds(m, c) = {} THEN Failed(c)
  ELSE LET last == Min(LebEnds(m, c))
           n == last - c.off + 1
           v == LebValue(m, c.off, n)
       IN  [c EXCEPT !.off = @ + n,
                     !.val = ToU64(IF m[last + 1] >= 64 THEN v - 128^n ELSE v)]

\* DwarfEncoding: the format in the low four bits, the base in the next three.
PE == [absptr |-> 0, uleb128 |-> 1, udata2 |-> 2, udata4 |-> 3, udata8 |-> 4,
       sleb128 |-> 9, sdata2 |-> 10, sdata4 |-> 11, sdata8 |-> 12,
       udata1 |-> 13, sdata1 |-> 14, block |-> 15,
       pcrel |-> 16, textrel |-> 32, datarel |-> 48, funcrel |-> 64, aligned |-> 80,
       omit |-> 255]

GetEncodedSize(enc) ==
  LET f == enc % 16
  IN  CASE f = PE.absptr -> W4
        [] f \in {PE.udata1, PE.sdata1} -> 1
        [] f \in {PE.udata2, PE.sdata2} -> W2
        [] f \in {PE.udata4, PE.sdata4} -> W4
        [] f \in {PE.udata8, PE.sdata8} -> W8
        [] OTHER -> 0

AdjustEncodedValue(c, app) ==
  LET base == CASE app = PE.absptr -> 0
                [] app = PE.pcrel -> c.pc
                [] app = PE.textrel -> c.text
                [] app = PE.datarel -> c.data
                [] app = PE.funcrel -> c.func
                [] OTHER -> NoOffset
  IN  IF c.ok /\ base # NoOffset THEN [c EXCEPT !.val = ToU64(@ + base)] ELSE Failed(c)

ReadEncodedValue(m, c, enc) ==
  LET f == enc % 16
      raw == CASE f = PE.uleb128 -> ReadULEB128(m, c)
               [] f = PE.sleb128 -> ReadSLEB128(m, c)
               [] f \in {PE.absptr, PE.udata1, PE.udata2, PE.udata4, PE.udata8} ->
                    ReadBytes(m, c, GetEncodedSize(enc))
               [] f \in {PE.sdata1, PE.sdata2, PE.sdata4, PE.sdata8} ->
                    ReadSigned(m, c, GetEncodedSize(enc))
               [] OTHER -> Failed(c)
      up == ((c.off + W4 - 1) \div W4) * W4        \* cur_offset_ &= -sizeof(AddressType)
  IN  IF enc = PE.omit THEN [c EXCEPT !.val = 0]
      ELSE IF enc = PE.aligned THEN ReadBytes(m, [c EXCEPT !.off = up], W4)
      ELSE AdjustEncodedValue(raw, 16 * ((enc \div 16) % 8))

=============================================================================
