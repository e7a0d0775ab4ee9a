------------------------------ MODULE Symbols ------------------------------
(***************************************************************************)
(* A symbol table and its caches (Symbols.cpp).                            *)
(*                                                                         *)
(* The table in the file is [syms, count, readable]: symbol i of the C++   *)
(* is syms[i + 1], and the first readable of them can be read.  A symbol   *)
(* has value, size, kind ("func", "object" or "other", with SHN_UNDEF and  *)
(* local objects among the others) and name, NoName when st_name does not  *)
(* lead to a string.                                                       *)
(***************************************************************************)
EXTENDS Integers, Sequences, SequencesExt, FiniteSetsExt

CONSTANT SizeMod          \* 2^32: Info keeps a symbol's size as a uint32_t

ASSUME SizeModAssumption == SizeMod \in Nat \ {0}

NoName == ""
NoEnd == -1
NoRemap == <<-1>>

NewSymbols(tab) == [tab |-> tab, cache |-> << >>, remap |-> NoRemap, globals |-> << >>]

HasRemap(s) == s.remap # NoRemap
SymbolIndex(s, i) == IF HasRemap(s) THEN s.remap[i + 1] ELSE i
IsReadable(s, i) == i < s.tab.readable

\* One probe of the binary search.  emplace keeps an entry that has the
\* same end already.
Probe(x, s, addr) ==
  LET current == x.first + (x.last - x.first) \div 2
      sym == s.tab.syms[SymbolIndex(s, current) + 1]
      end == sym.value + sym.size
      info == [size |-> sym.size % SizeMod, index |-> current, name |-> NoName]
      y == [x EXCEPT !.cache = [e \in DOMAIN @ \union {end} |-> IF e \in DOMAIN @ THEN @[e] ELSE info]]
  IN  IF x.done \/ x.first >= x.last THEN [x EXCEPT !.done = TRUE]
      ELSE IF ~IsReadable(s, SymbolIndex(s, current)) THEN [x EXCEPT !.done = TRUE]
      ELSE IF addr < sym.value THEN [y EXCEPT !.last = current]
      ELSE IF addr < end THEN [y EXCEPT !.done = TRUE, !.end = end, !.offset = addr - sym.value]
      ELSE [y EXCEPT !.first = current + 1]

BinarySearch_WholeHit(s, addr) ==                                     \* mutant
  LET above == {e \in DOMAIN s.cache : e > addr}
      start == [first |-> 0, last |-> IF HasRemap(s) THEN Len(s.remap) ELSE s.tab.count,
                cache |-> s.cache, done |-> FALSE, end |-> NoEnd, offset |-> 0]
  IN  IF above # {} THEN [start EXCEPT !.end = Min(above), !.offset = addr]
      ELSE FoldLeft(LAMBDA x, i : Probe(x, s, addr), start, [i \in 1..(start.last + 1) |-> i])

\* The cache, keyed by the end of a symbol, answers or narrows the search.
BinarySearch(s, addr) ==
  LET above == {e \in DOMAIN s.cache : e > addr}
      below == DOMAIN s.cache \ above
      it == Min(above)
      start == [first |-> IF below = {} THEN 0 ELSE s.cache[Max(below)].index + 1,
                last |-> IF above # {} THEN s.cache[it].index
                         ELSE IF HasRemap(s) THEN Len(s.remap) ELSE s.tab.count,
                cache |-> s.cache, done |-> FALSE, end |-> NoEnd, offset |-> 0]
  IN  IF above # {} /\ it - s.cache[it].size <= addr
      THEN [start EXCEPT !.end = it, !.offset = addr - (it - s.cache[it].size)]
      ELSE FoldLeft(LAMBDA x, i : Probe(x, s, addr), start, [i \in 1..(s.tab.count + 1) |-> i])

\* Indices of the functions that can be read, by address, one per address.
BuildRemapTable(s) ==
  LET syms == s.tab.syms
      funcs == {i \in 0..(Min({s.tab.count, s.tab.readable}) - 1) : syms[i + 1].kind = "func"}
      Before(a, b) == syms[a + 1].value < syms[b + 1].value
                      \/ (syms[a + 1].value = syms[b + 1].value /\ a < b)
      first == {i \in funcs : \A j \in funcs : syms[j + 1].value = syms[i + 1].value => i <= j}
  IN  [s EXCEPT !.remap = SetToSortSeq(first, Before), !.cache = << >>]

\* GetName: [ok, name, offset] and the table with its caches.  found is
\* where the search ended.
NameFound(s, found) ==
  LET t == [s EXCEPT !.cache = found.cache]
      info == found.cache[found.end]
      index == SymbolIndex(s, info.index)
      sym == s.tab.syms[index + 1]
      No == [ok |-> FALSE, name |-> NoName, offset |-> 0, s |-> t]
      Yes(name) == [ok |-> TRUE, name |-> name, offset |-> found.offset, s |-> t]
  IN  IF found.end = NoEnd THEN No
      ELSE IF info.name # NoName THEN Yes(info.name)
      ELSE IF ~IsReadable(s, index) \/ sym.kind # "func" \/ sym.name = NoName THEN No
      ELSE [Yes(sym.name) EXCEPT !.s.cache[found.end].name = sym.name]
SearchAgain(s, addr) == NameFound(s, BinarySearch(s, addr))
NameAfter(s, addr, direct) ==
  IF ~HasRemap(s) /\ direct.end = NoEnd
  THEN SearchAgain(BuildRemapTable([s EXCEPT !.cache = direct.cache]), addr)
  ELSE NameFound(s, direct)
GetName(s, addr) == NameAfter(s, addr, BinarySearch(s, addr))

\* GetGlobal: a linear scan.  "Not found" is remembered too, unless a read
\* failed before the end.
GetGlobal(s, name) ==
  LET hits == {i \in 1..s.tab.count : s.tab.syms[i].kind = "object" /\ s.tab.syms[i].name = name}
      hit == Min(hits)
      Put(v) == [s EXCEPT !.globals = [n \in DOMAIN @ \union {name} |-> IF n = name THEN v ELSE @[n]]]
  IN  IF name \in DOMAIN s.globals
      THEN [ok |-> s.globals[name] # NoEnd, value |-> s.globals[name], s |-> s]
      ELSE IF hits # {} /\ hit <= s.tab.readable
      THEN [ok |-> TRUE, value |-> s.tab.syms[hit].value, s |-> Put(s.tab.syms[hit].value)]
      ELSE [ok |-> FALSE, value |-> NoEnd, s |-> IF s.tab.readable < s.tab.count THEN s ELSE Put(NoEnd)]

=============================================================================
