------------------------------ MODULE MCMaps ------------------------------
(***************************************************************************)
(* Maps for TLC: a library with a read-only map, a gap and a code map, an  *)
(* ELF inside an archive, a file that cannot be opened, JIT code.          *)
(***************************************************************************)
EXTENDS Maps

Region(s, e, off, flags, name) == [start |-> s, end |-> e, off |-> off, flags |-> flags, name |-> name]
File(readable, size, es, var)  == [readable |-> readable, size |-> size, elfs |-> es, var |-> var]

MCFiles ==
  [n \in {"lib", "apk", "hidden", "dev"} |->
     CASE n = "lib" -> File(TRUE, 3, 0 :> 3, 2)
       [] n = "apk" -> File(TRUE, 5, 2 :> 3, 0)
       [] n = "hidden" -> File(FALSE, 2, 0 :> 2, 0)
       [] n = "dev" -> File(TRUE, 2, [o \in {} |-> 0], 0)]

Library(a) == << Region(a, a + 1, 0, {"r"}, "lib"), Region(a + 1, a + 2, 0, {}, ""),
                 Region(a + 2, a + 3, 1, {"r", "x"}, "lib"), Region(a + 3, a + 4, 2, {"r", "w"}, "lib") >>
Archive(a) == << Region(a, a + 1, 2, {"r"}, "apk"), Region(a + 1, a + 2, 3, {"r", "x"}, "apk") >>
Hidden(a)  == << Region(a, a + 1, 0, {"r"}, "hidden"), Region(a + 1, a + 2, 1, {"r", "x"}, "hidden"),
                 Region(a + 2, a + 3, 2, {"r", "w"}, "hidden") >>
Jit(a)     == << Region(a, a + 1, 0, {"r", "x"}, "") >>
Node(a)    == << Region(a, a + 1, 0, {"r", Device}, "dev") >>

Base  == Library(1) \o Jit(7)
Moved == Library(3) \o Jit(7) \o Node(9)
Other == Hidden(3) \o Jit(7) \o Archive(8)
MCFirst == {Base, Other}
MCLayouts == {Base, Moved, Other}

\* Every lookup ends: no cycle of elf mutexes, the maps lock and the search's lock
\* (MapInfo.cpp, GetElf; Maps.cpp, Find).
LookupsReturn == \A t \in Thread : (job[t].ph # "idle") ~> (job[t].ph = "idle" \/ fault)

\* No MapInfo in use is destroyed by a Reparse (the comment in Maps.cpp, Find).
MapsInUseStay == ~fault
============================================================================
