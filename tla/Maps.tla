------------------------------- MODULE Maps -------------------------------
(***************************************************************************)
(* LocalUpdatableMaps and its MapInfo objects, shared by the threads that  *)
(* unwind: Find, the Reparse a miss makes, GetElf, and the search for the  *)
(* JIT's descriptor.  The program changes its mappings at any time.        *)
(*                                                                         *)
(* A region is [start, end, off, flags, name], in pages.  A file is        *)
(* [readable, size, elfs, var]: elfs gives the size of the ELF found at a  *)
(* file offset, var where the descriptor's symbol lies (0: nowhere).  An   *)
(* Elf object is abstracted to the place it starts at, <<name, at>>, and   *)
(* whether it is valid.  MapInfo objects are shared_ptrs: one that neither *)
(* the list nor a thread holds is destroyed, and links to it are null.     *)
(***************************************************************************)
EXTENDS Integers, Sequences, FiniteSets, Functions, TLC

CONSTANTS
  Thread,
  Files,         \* name -> file
  Layouts,       \* what the process may have mapped: sequences of regions
  FirstLayouts,  \* the layouts at start-up
  Pcs,           \* program counters looked up
  SearchLibs,    \* search_libs_: the libraries that may have the descriptor; empty: any
  ParseResults,  \* whether /proc/self/maps can be read
  MaxCalls,      \* bound: lookups
  MaxRemaps      \* bound: changes of the mappings

Device == "dev"
Regions ==
  [start : Nat, end : Nat, off : Nat, flags : SUBSET {"r", "w", "x", Device}, name : DOMAIN Files \cup {""}]

(* The kernel lists regions in address order; none is empty and no two overlap. *)
ASSUME LayoutAssumption ==
  /\ FirstLayouts \subseteq Layouts
  /\ Layouts \subseteq Seq(Regions)
  /\ \A l \in Layouts : \A i \in DOMAIN l :
       /\ l[i].start < l[i].end
       /\ \A j \in DOMAIN l : i < j => l[i].end <= l[j].start

ASSUME FilesAssumption ==
  \A n \in DOMAIN Files :
    Files[n].size \in Nat /\ DOMAIN Files[n].elfs \subseteq Nat /\ Files[n].var \in Nat
ASSUME ThreadAssumption == 0 \notin Thread  \* None
ASSUME PcAssumption == Pcs \subseteq Nat

VARIABLES
  kernel,      \* the layout now
  info,        \* every MapInfo object ever made
  maps,        \* maps_: indices of info, 0 for nullptr
  writer,      \* who holds maps_rwlock_ for writing
  elfs,        \* the Elf objects
  job,         \* what each thread does
  search,      \* GlobalDebugImpl: lock_ and descriptor_addr_
  fault,       \* a destroyed MapInfo or a dead iterator was used
  parsed,      \* history: the layout last parsed, and the list before it
  bounds

vars == << kernel, info, maps, writer, elfs, job, search, fault, parsed, bounds >>

None == 0
NoElf == 0
IdleJob == [ph |-> "idle", pc |-> 0, map |-> 0, raw |-> FALSE, w |-> 0, goal |-> "", failed |-> FALSE,
            new |-> 0, from |-> 0, last |-> 0, it |-> 0, zero |-> 0, dead |-> FALSE, frame |-> 0]

MapInfoOf(r, prev, next) ==
  [start |-> r.start, end |-> r.end, off |-> r.off, flags |-> r.flags, name |-> r.name,
   prev |-> prev, next |-> next, elf |-> NoElf, mutex |-> None,
   elf_offset |-> 0, elf_start |-> 0, mem |-> FALSE]

(* Maps::Parse: one new object per region, linked in their order.          *)
Parse(l) ==
  LET n == Len(info)
  IN [k \in 1..Len(l) |-> MapInfoOf(l[k], IF k = 1 THEN 0 ELSE n + k - 1,
                                          IF k = Len(l) THEN 0 ELSE n + k + 1)]

Init ==
  /\ kernel \in FirstLayouts
  /\ info = [k \in 1..Len(kernel) |-> MapInfoOf(kernel[k], k - 1, IF k = Len(kernel) THEN 0 ELSE k + 1)]
  /\ maps = [k \in 1..Len(kernel) |-> k]
  /\ writer = None /\ elfs = << >>
  /\ job = [t \in Thread |-> IdleJob]
  /\ search = [by |-> None, descriptor |-> 0]
  /\ fault = FALSE
  /\ parsed = [layout |-> kernel, before |-> {}]
  /\ bounds = [calls |-> 0, remaps |-> 0]

At(t, p) == ~fault /\ job[t].ph = p
(* r with the fields of s.                                                 *)
With(r, s) == [f \in DOMAIN r |-> IF f \in DOMAIN s THEN s[f] ELSE r[f]]
NoFields   == [f \in {} |-> 0]

Go(t, j) == job' = [job EXCEPT ![t] = With(@, j)]

(* The objects something holds, and weak_ptr::lock.                        *)
Held(t)  == {job[t].w, job[t].frame} \cup (IF job[t].raw THEN {} ELSE {job[t].map})
Alive(i) == i # 0 /\ (i \in Range(maps) \/ \E t \in Thread : i \in Held(t))
Lock(i)  == IF Alive(i) THEN i ELSE 0
----------------------------------------------------------------------------
(* The process maps and unmaps.                                            *)
Remap ==
  /\ ~fault /\ bounds.remaps < MaxRemaps
  /\ kernel' \in Layouts \ {kernel}
  /\ bounds' = [bounds EXCEPT !.remaps = @ + 1]
  /\ UNCHANGED << info, maps, writer, elfs, job, search, fault, parsed >>

(* Maps::Find: binary search; r is << first, last >>.                      *)
FindIn(ms, pc) ==
  LET S[r \in (0..Len(ms)) \X (0..Len(ms))] ==
        IF r[1] >= r[2] THEN 0
        ELSE LET index == (r[1] + r[2]) \div 2
                 cur == info[ms[index + 1]]
             IN IF pc >= cur.start /\ pc < cur.end THEN ms[index + 1]
                ELSE IF pc < cur.start THEN S[<< r[1], index >>]
                ELSE S[<< index + 1, r[2] >>]
  IN S[<< 0, Len(ms) >>]

(* LocalUpdatableMaps::Find under the read lock; a miss goes on to Reparse. *)
Find(t) ==
  /\ At(t, "idle") /\ bounds.calls < MaxCalls /\ writer = None
  /\ \E pc \in Pcs :
       LET i == FindIn(maps, pc)
       IN Go(t, [ph |-> IF i = 0 THEN "reparse" ELSE "found", pc |-> pc, map |-> i, failed |-> FALSE])
  /\ bounds' = [bounds EXCEPT !.calls = @ + 1]
  /\ UNCHANGED << kernel, info, maps, writer, elfs, search, fault, parsed >>

(* Reparse: the new objects go behind the old ones.                        *)
ReparseParse(t) ==
  /\ At(t, "reparse") /\ writer = None
  /\ \/ /\ TRUE \in ParseResults /\ writer' = t
        /\ info' = info \o Parse(kernel)
        /\ maps' = maps \o [k \in 1..Len(kernel) |-> Len(info) + k]
        /\ parsed' = [layout |-> kernel, before |-> Range(maps)]
        /\ job' = [u \in Thread |-> IF u = t THEN With(job[t], [ph |-> "match", new |-> Len(maps) + 1,
                                                                   from |-> 1, last |-> Len(maps)])
                                    ELSE [job[u] EXCEPT !.dead = @ \/ job[u].it > 0]]
     \/ /\ FALSE \in ParseResults /\ Go(t, [ph |-> "found", failed |-> TRUE])
        /\ UNCHANGED << info, maps, writer, parsed >>
  /\ UNCHANGED << kernel, elfs, search, fault, bounds >>

SameMap(a, b) ==
  a.start = b.start /\ a.end = b.end /\ a.flags = b.flags /\ a.name = b.name

\* mutant
Relink_OwnOnly(old, prev, next) == [info EXCEPT ![old].prev = prev, ![old].next = next]

(* The links of the old object are those of the new one it replaces.       *)
Relink(old, prev, next) ==
  LET own == [info EXCEPT ![old].prev = prev, ![old].next = next]
      fore == IF prev = 0 THEN own ELSE [own EXCEPT ![prev].next = old]
  IN IF next = 0 THEN fore ELSE [fore EXCEPT ![next].prev = old]

Above(old, new) == old.start > new.start

(* Reparse, one new object: the old ones below it are dropped, up to k,    *)
(* which matches it or lies above it, or is behind the last.               *)
Wanted(j)     == info[maps[j.new]]
Ends(j, k)    == SameMap(Wanted(j), info[maps[k]]) \/ Above(info[maps[k]], Wanted(j))
StopsAt(j, k) == (k <= j.last => Ends(j, k)) /\ \A l \in j.from..(k - 1) : ~Ends(j, l)
FoundAt(j, k) == k <= j.last /\ SameMap(Wanted(j), info[maps[k]])
Dropped(j, k) == [l \in DOMAIN maps |-> IF l \in j.from..(k - 1) THEN 0 ELSE maps[l]]

ReparseMatch(t) ==
  /\ At(t, "match") /\ job[t].new <= Len(maps) /\ job[t].from <= job[t].last
  /\ LET j == job[t]
     IN \E k \in j.from..(j.last + 1) :
          /\ StopsAt(j, k)
          /\ IF FoundAt(j, k)
             THEN /\ maps' = [Dropped(j, k) EXCEPT ![j.new] = 0]
                  /\ info' = Relink(maps[k], Lock(Wanted(j).prev), Lock(Wanted(j).next))
                  /\ Go(t, [new |-> j.new + 1, from |-> k + 1])
             ELSE maps' = Dropped(j, k) /\ Go(t, [new |-> j.new + 1, from |-> k]) /\ UNCHANGED info
  /\ UNCHANGED << kernel, writer, elfs, search, fault, parsed, bounds >>

(* The objects of S, none of which starts where another does, in address order. *)
ByAddress(S) ==
  [k \in 1..Cardinality(S) |->
     CHOOSE i \in S : Cardinality({j \in S : info[j].start < info[i].start}) = k - 1]

(* The rest of the old ones is dropped; sort, Find again, unlock.          *)
ReparseFinish(t) ==
  /\ At(t, "match") /\ (job[t].new > Len(maps) \/ job[t].from > job[t].last)
  /\ LET kept == [l \in DOMAIN maps |-> IF l \in job[t].from..job[t].last THEN 0 ELSE maps[l]]
     IN maps' = ByAddress(Range(kept) \ {0})
  /\ writer' = None
  /\ Go(t, [ph |-> "found", map |-> FindIn(maps', job[t].pc)])
  /\ UNCHANGED << kernel, info, elfs, search, fault, parsed, bounds >>

(* Unwinder: a pc without a map is an error; with one its Elf is wanted.   *)
NoMap(t) ==
  /\ At(t, "found") /\ job[t].map = 0 /\ Go(t, IdleJob)
  /\ UNCHANGED << kernel, info, maps, writer, elfs, search, fault, parsed, bounds >>
----------------------------------------------------------------------------
(* What the file, and what the process's memory, holds.                    *)
FileInit(name, off)  == name \in DOMAIN Files /\ Files[name].readable /\ off < Files[name].size
ElfAt(name, off)     == off \in DOMAIN Files[name].elfs
Content(addr) ==
  LET r == {k \in DOMAIN kernel : addr >= kernel[k].start /\ addr < kernel[k].end /\ "r" \in kernel[k].flags}
  IN IF r = {} THEN << "", 0 >>
     ELSE LET k == CHOOSE k \in r : TRUE IN << kernel[k].name, kernel[k].off + addr - kernel[k].start >>
IsElf(c) == c[1] # "" /\ ElfAt(c[1], c[2])

(* MapInfo::GetElf takes elf_mutex; an Elf that is set is the answer.      *)
GetElf(t) ==
  /\ At(t, "found") /\ job[t].map # 0
  /\ LET i == job[t].map
     IN IF job[t].raw /\ ~Alive(i)
        THEN fault' = TRUE /\ UNCHANGED << info, job >>
        ELSE /\ info[i].mutex = None /\ UNCHANGED fault
             /\ IF info[i].elf # NoElf
                THEN Go(t, [ph |-> "got"]) /\ UNCHANGED info
                ELSE Go(t, [ph |-> "file"]) /\ info' = [info EXCEPT ![i].mutex = t, ![i].elf_offset = 0]
  /\ UNCHANGED << kernel, maps, writer, elfs, search, parsed, bounds >>

(* GetPrevRealMap: link by link over the blank maps.                       *)
IsBlank(m) == m.off = 0 /\ m.flags = {} /\ m.name = ""

WalkFor(goal, i) ==
  [ph |-> "walk", goal |-> goal, w |-> IF info[i].name = "" THEN 0 ELSE Lock(info[i].prev)]

GetPrevRealMap(t) ==
  /\ At(t, "walk")
  /\ LET w == job[t].w
     IN Go(t, IF w # 0 /\ IsBlank(info[w]) THEN [w |-> Lock(info[w].prev)]
              ELSE [ph |-> job[t].goal,
                    w |-> IF w # 0 /\ info[w].name = info[job[t].map].name THEN w ELSE 0])
  /\ UNCHANGED << kernel, info, maps, writer, elfs, search, fault, parsed, bounds >>

(* The new Elf over memory that starts with c, and the fields the search   *)
(* left.  A valid one looks for its read-only map.                         *)
NewElf(t, c, fields) ==
  LET i == job[t].map
      own == With(info[i], fields)
      valid == IsElf(c)
  IN /\ elfs' = Append(elfs, [at |-> c, valid |-> valid, mem |-> own.mem])
     /\ info' = [info EXCEPT ![i] =
                   With(own, IF valid THEN [elf |-> Len(elfs) + 1]
                             ELSE [elf |-> Len(elfs) + 1, elf_start |-> own.off, mutex |-> None])]
     /\ Go(t, IF valid THEN WalkFor("share", i) ELSE [ph |-> "got"])

(* CreateMemory and GetFileMemory: the ELF at the map's own offset, or     *)
(* that of the whole file, or one that starts in the map before.           *)
GetFileMemory(t) ==
  /\ At(t, "file")
  /\ LET i == job[t].map
         m == info[i]
     IN \/ /\ Device \in m.flags /\ NewElf(t, << "", 0 >>, NoFields)
        \/ /\ Device \notin m.flags /\ FileInit(m.name, m.off)
           /\ \/ m.off = 0 /\ NewElf(t, << m.name, 0 >>, NoFields)
              \/ m.off # 0 /\ ElfAt(m.name, m.off) /\ NewElf(t, << m.name, m.off >>, [elf_start |-> m.off])
              \/ /\ m.off # 0 /\ ~ElfAt(m.name, m.off) /\ ElfAt(m.name, 0)
                 /\ NewElf(t, << m.name, 0 >>, [elf_offset |-> m.off])
              \/ /\ m.off # 0 /\ ~ElfAt(m.name, m.off) /\ ~ElfAt(m.name, 0)
                 /\ Go(t, WalkFor("fileprev", i)) /\ UNCHANGED << info, elfs >>
        \/ /\ Device \notin m.flags /\ ~FileInit(m.name, m.off)
           /\ IF IsElf(Content(m.start))
              THEN NewElf(t, Content(m.start), [mem |-> TRUE, elf_start |-> m.off])
              ELSE /\ Go(t, WalkFor("memprev", i))
                   /\ info' = [info EXCEPT ![i].mem = TRUE] /\ UNCHANGED elfs
  /\ UNCHANGED << kernel, maps, writer, search, fault, parsed, bounds >>

\* mutant
OffsetsFrom_Whole(m, p) == [elf_offset |-> m.off, elf_start |-> p.off]

(* The ELF of map m starts where map p does.                               *)
OffsetsFrom(m, p) == [elf_offset |-> m.off - p.off, elf_start |-> p.off]

(* InitFileMemoryFromPreviousReadOnlyMap.                                  *)
FromPreviousReadOnlyMap(t) ==
  /\ At(t, "fileprev")
  /\ LET m == info[job[t].map]
         p == info[job[t].w]
     IN IF /\ job[t].w # 0 /\ p.flags = {"r"} /\ p.off < m.off
           /\ FileInit(m.name, p.off) /\ ElfAt(m.name, p.off)
           /\ Files[m.name].elfs[p.off] >= m.end - p.end
        THEN NewElf(t, << m.name, p.off >>, OffsetsFrom(m, p))
        ELSE NewElf(t, << m.name, m.off >>, NoFields)
  /\ UNCHANGED << kernel, maps, writer, search, fault, parsed, bounds >>

(* The last part of CreateMemory: two ranges of the process's memory.      *)
FromPreviousRange(t) ==
  /\ At(t, "memprev")
  /\ LET m == info[job[t].map]
         p == info[job[t].w]
     IN IF m.off = 0 \/ job[t].w = 0 \/ p.off >= m.off
        THEN NewElf(t, << "", 0 >>, [mem |-> FALSE])
        ELSE NewElf(t, Content(p.start), OffsetsFrom(m, p))
  /\ UNCHANGED << kernel, maps, writer, search, fault, parsed, bounds >>

\* mutant
Adopt_KeepsOwn(m, p) ==
  IF p.elf = NoElf
  THEN << m, [p EXCEPT !.elf = m.elf, !.mem = m.mem, !.elf_start = m.elf_start,
                       !.elf_offset = p.off - m.elf_start] >>
  ELSE << m, p >>

(* GetElf's end: the read-only map before it gets this Elf, or this map    *)
(* takes the one that is there.                                            *)
Adopt(m, p) ==
  IF p.elf = NoElf
  THEN << m, [p EXCEPT !.elf = m.elf, !.mem = m.mem, !.elf_start = m.elf_start,
                       !.elf_offset = p.off - m.elf_start] >>
  ELSE << IF p.elf_start = m.elf_start THEN [m EXCEPT !.elf = p.elf] ELSE m, p >>

ShareElf(t) ==
  /\ At(t, "share")
  /\ LET i == job[t].map
         w == job[t].w
         m == [info[i] EXCEPT !.mutex = None]
     IN IF w = 0 \/ info[w].flags # {"r"} \/ info[w].off >= m.off
        THEN info' = [info EXCEPT ![i] = m]
        ELSE /\ info[w].mutex = None
             /\ info' = [info EXCEPT ![i] = Adopt(m, info[w])[1], ![w] = Adopt(m, info[w])[2]]
  /\ Go(t, [ph |-> "got", w |-> 0])
  /\ UNCHANGED << kernel, maps, writer, elfs, search, fault, parsed, bounds >>

(* An executable map without a valid Elf: JitDebug::Find under its lock.   *)
Got(t) ==
  /\ At(t, "got") /\ ~job[t].raw
  /\ LET m == info[job[t].map]
     IN IF ~elfs[m.elf].valid /\ "x" \in m.flags
        THEN /\ search.by = None
             /\ IF search.descriptor # 0 THEN Go(t, IdleJob) /\ UNCHANGED search
                ELSE /\ search' = [search EXCEPT !.by = t]
                     /\ Go(t, [ph |-> "search", it |-> 1, zero |-> 0, dead |-> FALSE, frame |-> job[t].map])
        ELSE Go(t, IdleJob) /\ UNCHANGED search
  /\ UNCHANGED << kernel, info, maps, writer, elfs, fault, parsed, bounds >>

\* mutant
Release_Not(t) == UNCHANGED search /\ Go(t, IdleJob)

Release(t) == search' = [search EXCEPT !.by = None] /\ Go(t, IdleJob)

Searchable(name) == SearchLibs = {} \/ name \in SearchLibs

(* Global::FindAndReadVariable: the list is walked without its lock; a     *)
(* Reparse may have moved the vector, or nulled the entry.                 *)
FindVariable(t) ==
  /\ At(t, "search")
  /\ LET j == job[t]
         i == maps[j.it]
         m == info[i]
     IN \/ j.dead /\ fault' = TRUE /\ UNCHANGED << job, search >>
        \/ j.it > Len(maps) /\ Release(t) /\ UNCHANGED fault
        \/ j.it <= Len(maps) /\ i = 0 /\ fault' = TRUE /\ UNCHANGED << job, search >>
        \/ /\ j.it <= Len(maps) /\ i # 0 /\ UNCHANGED << fault, search >>
           /\ IF /\ {"r", "w"} \subseteq m.flags /\ j.zero # 0
                 /\ Searchable(m.name) /\ info[j.zero].name = m.name
              THEN Go(t, [ph |-> "found", raw |-> TRUE, map |-> j.zero])
              ELSE Go(t, [it |-> j.it + 1,
                          zero |-> IF m.off = 0 /\ m.name # "" THEN i ELSE j.zero])
  /\ UNCHANGED << kernel, info, maps, writer, elfs, parsed, bounds >>

(* The variable of map_zero's Elf, if the read-write map holds it.  The    *)
(* search goes on when it cannot be read, or has no JIT entry yet.         *)
ReadVariable(t) ==
  /\ At(t, "got") /\ job[t].raw
  /\ LET j == job[t]
         e == elfs[info[j.map].elf]
         var == IF e.valid THEN Files[e.at[1]].var ELSE 0
     IN \/ (~Alive(j.map) \/ j.dead) /\ fault' = TRUE /\ UNCHANGED << job, search >>
        \/ /\ Alive(j.map) /\ UNCHANGED fault
           /\ LET i == IF j.it <= Len(maps) THEN maps[j.it] ELSE 0
                  m == info[i]
              IN \/ /\ i # 0 /\ var # 0 /\ var >= m.off /\ var < m.off + m.end - m.start
                    /\ search' = [by |-> None, descriptor |-> m.start + var - m.off]
                    /\ Go(t, IdleJob)
                 \/ Go(t, [ph |-> "search", raw |-> FALSE, map |-> 0, it |-> j.it + 1]) /\ UNCHANGED search
  /\ UNCHANGED << kernel, info, maps, writer, elfs, parsed, bounds >>

ThreadStep(t) ==
  \/ Find(t) \/ ReparseParse(t) \/ ReparseMatch(t) \/ ReparseFinish(t) \/ NoMap(t)
  \/ GetElf(t) \/ GetPrevRealMap(t) \/ GetFileMemory(t) \/ FromPreviousReadOnlyMap(t)
  \/ FromPreviousRange(t) \/ ShareElf(t) \/ Got(t) \/ FindVariable(t) \/ ReadVariable(t)

SomeThread == \E t \in Thread : ThreadStep(t)

Next == Remap \/ SomeThread

(* The scheduler lets some thread run as long as one can.                  *)
Spec == Init /\ [][Next]_vars /\ WF_vars(SomeThread)
----------------------------------------------------------------------------
\* Whenever no Reparse is under way the list is what was parsed last, in address order, the links run
\* along it in both directions, reused objects being linked to their new neighbours, and a map that is
\* still there has kept its object, and with it its Elf (Maps.cpp, Reparse).
ListIsParse ==
  writer = None /\ ~fault =>
    /\ Len(maps) = Len(parsed.layout)
    /\ \A k \in DOMAIN maps :
         /\ SameMap(info[maps[k]], parsed.layout[k])
         /\ info[maps[k]].prev = (IF k = 1 THEN 0 ELSE maps[k - 1])
         /\ info[maps[k]].next = (IF k = Len(maps) THEN 0 ELSE maps[k + 1])
    /\ \A i \in parsed.before :
         (\E k \in DOMAIN parsed.layout : SameMap(info[i], parsed.layout[k])) => i \in Range(maps)

Settled(i) == info[i].elf # NoElf /\ info[i].mutex = None /\ elfs[info[i].elf].valid

\* The offsets of a map lead to the start of the ELF that its code is in, so that the relative pc is
\* right; an Elf read from memory is only as good as the mappings are still (MapInfo.h, elf_offset_;
\* MapInfo.cpp, GetFileMemory and CreateMemory).
OffsetsLeadToElf ==
  \A i \in DOMAIN info :
    Settled(i) =>
      LET m == info[i]
          e == elfs[m.elf].at
      IN /\ m.elf_offset = m.off - m.elf_start
         /\ ~elfs[m.elf].mem \/ bounds.remaps = 0 => e = << m.name, m.elf_start >>

\* Until the mappings first change, a code map and the read-only map before it, with only blank maps between
\* the two, share one Elf object if it starts in the same place, whichever of them a thread came to first; a
\* read-only map mapped before a code map that has its Elf gets one of its own (MapInfo.cpp, GetElf).
OneElf ==
  writer = None /\ bounds.remaps = 0 =>
    \A k \in DOMAIN maps : \A l \in 1..(k - 1) :
      LET m == info[maps[k]]
          p == info[maps[l]]
      IN /\ \A b \in (l + 1)..(k - 1) : IsBlank(info[maps[b]])
         /\ m.name # "" /\ p.name = m.name /\ p.flags = {"r"} /\ m.flags # {"r"} /\ p.off < m.off
         /\ Settled(maps[k]) /\ Settled(maps[l]) /\ m.elf_start = p.elf_start
         => m.elf = p.elf
============================================================================
