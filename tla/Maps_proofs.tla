---------------------------- MODULE Maps_proofs ----------------------------
(***************************************************************************)
(* Proofs about Maps: the types, the list in the middle of a Reparse and   *)
(* between two, the binary search over it, where the Elf objects of maps   *)
(* start, and which maps share one.                                        *)
(***************************************************************************)
EXTENDS Maps, TLAPS, FiniteSetTheorems, WellFoundedInduction

----------------------------------------------------------------------------
(* Maps::Find.  That the search ends and what it answers goes by the size  *)
(* of the interval, through the least one that is a counterexample.        *)
LEMMA LeastNat ==
  ASSUME NEW B, B \subseteq Nat, B # {}
  PROVE  \E d \in B : \A e \in B : d <= e
<1>1. PICK R : R = OpToRel(<, Nat) OBVIOUS
<1>2. IsWellFoundedOn(R, Nat) BY <1>1, NatLessThanWellFounded
<1>3. PICK d \in B : \A e \in B : ~(<<e, d>> \in R) BY <1>2, WFMin
<1>4. \A e \in Nat : <<e, d>> \in R <=> e < d
  BY <1>1 DEF OpToRel
<1>5. ASSUME NEW e \in B PROVE d <= e
  <2>1. e \in Nat /\ d \in Nat OBVIOUS
  <2>2. ~(e < d) BY <1>3, <1>4, <2>1
  <2>. QED BY <2>1, <2>2
<1>. QED BY <1>5

Cells(n) == (0..n) \X (0..n)
Answer(S, ms, pc, r) ==
  IF r[1] >= r[2] THEN 0
  ELSE LET index == (r[1] + r[2]) \div 2
           cur == info[ms[index + 1]]
       IN IF pc >= cur.start /\ pc < cur.end THEN ms[index + 1]
          ELSE IF pc < cur.start THEN S[<< r[1], index >>]
          ELSE S[<< index + 1, r[2] >>]

LEMMA FindInDef ==
  ASSUME NEW ms, NEW pc, NEW n \in Nat, Len(ms) = n,
         NEW S, S = [r \in Cells(n) |-> Answer(S, ms, pc, r)]
  PROVE  \E G : G = [r \in Cells(n) |-> Answer(G, ms, pc, r)] /\ FindIn(ms, pc) = G[<<0, n>>]
BY DEF FindIn, Answer, Cells

Narrow(n, d) == {r \in Cells(n) : r[2] - r[1] <= d}

LEMMA MiddleIsBetween ==
  ASSUME NEW n \in Nat, NEW a \in 0..n, NEW b \in 0..n, a < b
  PROVE  LET index == (a + b) \div 2 IN index \in a..(b - 1) /\ index + 1 \in 0..n
OBVIOUS

LEMMA NarrowSteps ==
  ASSUME NEW n \in Nat, NEW d \in Nat, NEW ms, NEW pc, NEW S, NEW G, NEW r \in Narrow(n, d + 1),
         \A p \in Narrow(n, d) : S[p] = G[p]
  PROVE  Answer(S, ms, pc, r) = Answer(G, ms, pc, r)
<1>1. PICK a \in 0..n, b \in 0..n : r = << a, b >> BY DEF Narrow, Cells
<1>2. b - a <= d + 1 BY <1>1 DEF Narrow
<1>3. CASE a >= b BY <1>1, <1>3 DEF Answer
<1>4. CASE a < b
  <2>1. PICK index : index = (a + b) \div 2 OBVIOUS
  <2>2. index \in a..(b - 1) /\ index + 1 \in 0..n BY <1>4, <2>1, MiddleIsBetween
  <2>3. << a, index >> \in Narrow(n, d) BY <1>2, <2>2 DEF Narrow, Cells
  <2>4. << index + 1, b >> \in Narrow(n, d) BY <1>2, <2>2 DEF Narrow, Cells
  <2>. QED BY <1>1, <1>4, <2>1, <2>3, <2>4 DEF Answer
<1>. QED BY <1>3, <1>4

FindDefined(n, ms, pc) == \E S : S = [r \in Cells(n) |-> Answer(S, ms, pc, r)]

LEMMA SearchExists ==
  ASSUME NEW n \in Nat, NEW ms, NEW pc
  PROVE  FindDefined(n, ms, pc)
<1>. DEFINE Solves(S, d) == S = [r \in Cells(n) |-> S[r]] /\ \A r \in Narrow(n, d) : S[r] = Answer(S, ms, pc, r)
            Bad == {d \in Nat : ~ \E S : Solves(S, d)}
<1>1. \E S : Solves(S, 0)
  <2>1. PICK S : S = [r \in Cells(n) |-> 0] OBVIOUS
  <2>2. \A r \in Narrow(n, 0) : r[1] >= r[2] BY DEF Narrow, Cells
  <2>. QED BY <2>1, <2>2 DEF Answer, Narrow
<1>2. ASSUME NEW d \in Nat, NEW S, Solves(S, d)
      PROVE  \E G : Solves(G, d + 1)
  <2>1. PICK G : G = [r \in Cells(n) |-> IF r \in Narrow(n, d) THEN S[r] ELSE Answer(S, ms, pc, r)] OBVIOUS
  <2>2. \A r \in Narrow(n, d) : S[r] = G[r] BY <2>1 DEF Narrow
  <2>3. Narrow(n, d) \subseteq Narrow(n, d + 1) /\ Narrow(n, d + 1) \subseteq Cells(n) BY DEF Narrow, Cells
  <2>4. ASSUME NEW r \in Narrow(n, d + 1) PROVE G[r] = Answer(G, ms, pc, r)
    <3>1. Answer(S, ms, pc, r) = Answer(G, ms, pc, r) BY <2>2, NarrowSteps
    <3>2. G[r] = Answer(S, ms, pc, r) BY <1>2, <2>1, <2>3
    <3>. QED BY <3>1, <3>2
  <2>5. G = [r \in Cells(n) |-> G[r]] BY <2>1
  <2>6. Solves(G, d + 1) BY <2>4, <2>5
  <2>. QED BY <2>6
<1>3. Bad = {}
  <2>1. SUFFICES ASSUME Bad # {} PROVE FALSE OBVIOUS
  <2>2. PICK d \in Bad : \A e \in Bad : d <= e
    <3>. HIDE DEF Solves
    <3>. QED BY <2>1, LeastNat
  <2>3. d # 0 BY <1>1, <2>2
  <2>4. d - 1 \in Nat /\ d - 1 \notin Bad BY <2>2, <2>3
  <2>5. PICK S : Solves(S, d - 1) BY <2>4
  <2>6. \E G : Solves(G, (d - 1) + 1)
    <3>. HIDE DEF Solves
    <3>. QED BY <1>2, <2>4, <2>5
  <2>7. (d - 1) + 1 = d BY <2>2
  <2>. QED BY <2>2, <2>6, <2>7
<1>4. PICK S : Solves(S, n) BY <1>3
<1>5. Narrow(n, n) = Cells(n) BY DEF Narrow, Cells
<1>. QED BY <1>4, <1>5 DEF FindDefined

LEMMA FindInSearches ==
  ASSUME NEW T, NEW ms \in Seq(T), NEW pc
  PROVE  \E S : S = [r \in Cells(Len(ms)) |-> Answer(S, ms, pc, r)] /\ FindIn(ms, pc) = S[<< 0, Len(ms) >>]
<1>1. PICK n \in Nat : n = Len(ms) OBVIOUS
<1>2. FindDefined(n, ms, pc) BY SearchExists
<1>3. PICK S : S = [r \in Cells(n) |-> Answer(S, ms, pc, r)] BY <1>2 DEF FindDefined
<1>4. PICK G : G = [r \in Cells(n) |-> Answer(G, ms, pc, r)] /\ FindIn(ms, pc) = G[<< 0, n >>]
  BY <1>1, <1>3, FindInDef
<1>. QED BY <1>1, <1>4

(* What holds of the narrowest intervals, and of an interval whenever it   *)
(* holds of those it is cut into, holds of all.                            *)
LEMMA FindInRange ==
  ASSUME NEW T, NEW ms \in Seq(T), NEW pc
  PROVE  FindIn(ms, pc) \in Range(ms) \cup {0}
<1>1. PICK n \in Nat : n = Len(ms) OBVIOUS
<1>2. PICK S : S = [r \in Cells(n) |-> Answer(S, ms, pc, r)] /\ FindIn(ms, pc) = S[<< 0, n >>]
  BY <1>1, FindInSearches
<1>. DEFINE Good(r) == S[r] \in Range(ms) \cup {0}
            Bad == {d \in Nat : \E r \in Narrow(n, d) : ~Good(r)}
<1>3. ASSUME NEW d \in Nat, \A r \in Narrow(n, d) : Good(r), NEW r \in Narrow(n, d + 1)
      PROVE  Good(r)
  <2>1. PICK a \in 0..n, b \in 0..n : r = << a, b >> BY DEF Narrow, Cells
  <2>2. b - a <= d + 1 BY <2>1 DEF Narrow
  <2>3. S[r] = Answer(S, ms, pc, r) BY <1>2, <2>1 DEF Cells
  <2>4. CASE a >= b BY <2>1, <2>3, <2>4 DEF Answer
  <2>5. CASE a < b
    <3>1. PICK index : index = (a + b) \div 2 OBVIOUS
    <3>2. index \in a..(b - 1) /\ index + 1 \in 0..n BY <2>5, <3>1, MiddleIsBetween
    <3>3. << a, index >> \in Narrow(n, d) BY <2>2, <3>2 DEF Narrow, Cells
    <3>4. << index + 1, b >> \in Narrow(n, d) BY <2>2, <3>2 DEF Narrow, Cells
    <3>5. ms[index + 1] \in Range(ms) BY <1>1, <3>2 DEF Range
    <3>. QED BY <1>3, <2>1, <2>3, <2>5, <3>1, <3>3, <3>4, <3>5 DEF Answer
  <2>. QED BY <2>4, <2>5
<1>4. \A r \in Narrow(n, 0) : Good(r)
  <2>1. TAKE r \in Narrow(n, 0)
  <2>2. r[1] >= r[2] /\ r \in Cells(n) BY DEF Narrow, Cells
  <2>. QED BY <1>2, <2>2 DEF Answer
<1>5. Bad = {}
  <2>. HIDE DEF Good
  <2>1. SUFFICES ASSUME Bad # {} PROVE FALSE OBVIOUS
  <2>2. PICK d \in Bad : \A e \in Bad : d <= e BY <2>1, LeastNat
  <2>3. d # 0 BY <1>4, <2>2
  <2>4. d - 1 \in Nat /\ d - 1 \notin Bad BY <2>2, <2>3
  <2>5. \A r \in Narrow(n, d - 1) : Good(r) BY <2>4
  <2>6. \A r \in Narrow(n, (d - 1) + 1) : Good(r) BY <1>3, <2>4, <2>5
  <2>. QED BY <2>2, <2>6
<1>6. << 0, n >> \in Narrow(n, n) BY DEF Narrow, Cells
<1>. QED BY <1>2, <1>5, <1>6

(* A list of maps in address order, none of them empty.                    *)
InOrder(ms) ==
  \A i \in DOMAIN ms :
    /\ info[ms[i]].start \in Int /\ info[ms[i]].end \in Int /\ info[ms[i]].start < info[ms[i]].end
    /\ \A j \in DOMAIN ms : i < j => info[ms[i]].end <= info[ms[j]].start

Covers(i, pc) == pc >= info[i].start /\ pc < info[i].end

LEMMA FindInRight ==
  ASSUME NEW T, NEW ms \in Seq(T), NEW pc \in Int, InOrder(ms), 0 \notin Range(ms)
  PROVE  IF FindIn(ms, pc) = 0 THEN \A k \in DOMAIN ms : ~Covers(ms[k], pc)
         ELSE \E k \in DOMAIN ms : FindIn(ms, pc) = ms[k] /\ Covers(ms[k], pc)
<1>1. PICK n \in Nat : n = Len(ms) OBVIOUS
<1>2. PICK S : S = [r \in Cells(n) |-> Answer(S, ms, pc, r)] /\ FindIn(ms, pc) = S[<< 0, n >>]
  BY <1>1, FindInSearches
<1>. DEFINE Good(r) == IF S[r] = 0 THEN \A k \in (r[1] + 1)..r[2] : ~Covers(ms[k], pc)
                       ELSE \E k \in DOMAIN ms : S[r] = ms[k] /\ Covers(ms[k], pc)
            Bad == {d \in Nat : \E r \in Narrow(n, d) : ~Good(r)}
<1>3. ASSUME NEW d \in Nat, \A r \in Narrow(n, d) : Good(r), NEW r \in Narrow(n, d + 1)
      PROVE  Good(r)
  <2>1. PICK a \in 0..n, b \in 0..n : r = << a, b >> BY DEF Narrow, Cells
  <2>2. b - a <= d + 1 BY <2>1 DEF Narrow
  <2>3. S[r] = Answer(S, ms, pc, r) BY <1>2, <2>1 DEF Cells
  <2>4. CASE a >= b BY <2>1, <2>3, <2>4 DEF Answer
  <2>5. CASE a < b
    <3>1. PICK index : index = (a + b) \div 2 OBVIOUS
    <3>2. index \in a..(b - 1) /\ index + 1 \in 0..n BY <2>5, <3>1, MiddleIsBetween
    <3>3. << a, index >> \in Narrow(n, d) BY <2>2, <3>2 DEF Narrow, Cells
    <3>4. << index + 1, b >> \in Narrow(n, d) BY <2>2, <3>2 DEF Narrow, Cells
    <3>5. PICK c : c = index + 1 /\ c \in DOMAIN ms /\ c \in 1..n BY <1>1, <3>2
    <3>6. ms[c] # 0 BY <3>5 DEF Range
    <3>7. CASE Covers(ms[c], pc)
      <4>1. S[r] = ms[c] BY <2>1, <2>3, <2>5, <3>1, <3>5, <3>7 DEF Answer, Covers
      <4>. QED BY <3>5, <3>6, <3>7, <4>1
    <3>8. CASE pc < info[ms[c]].start
      <4>1. S[r] = S[<< a, index >>]
        BY <2>1, <2>3, <2>5, <3>1, <3>5, <3>8 DEF Answer, InOrder
      <4>2. Good(<< a, index >>) BY <1>3, <3>3
      <4>3. \A k \in c..b : ~Covers(ms[k], pc)
        <5>1. TAKE k \in c..b
        <5>2. k \in DOMAIN ms /\ k \in 1..n BY <1>1, <3>5
        <5>3. pc < info[ms[k]].start BY <3>5, <3>8, <5>2 DEF InOrder
        <5>. QED BY <5>2, <5>3 DEF Covers, InOrder
      <4>4. CASE S[r] = 0
        <5>1. \A k \in (a + 1)..index : ~Covers(ms[k], pc) BY <4>1, <4>2, <4>4
        <5>2. \A k \in (a + 1)..b : k \in (a + 1)..index \/ k \in c..b BY <3>5, <3>2
        <5>. QED BY <2>1, <4>3, <4>4, <5>1, <5>2
      <4>. QED BY <2>1, <4>1, <4>2, <4>4
    <3>9. CASE ~Covers(ms[c], pc) /\ ~(pc < info[ms[c]].start)
      <4>1. S[r] = S[<< index + 1, b >>]
        BY <2>1, <2>3, <2>5, <3>1, <3>5, <3>9 DEF Answer, Covers
      <4>2. Good(<< c, b >>) BY <1>3, <3>4, <3>5
      <4>3. \A k \in 1..c : ~Covers(ms[k], pc)
        <5>1. TAKE k \in 1..c
        <5>2. k \in DOMAIN ms BY <1>1, <3>5
        <5>3. pc >= info[ms[c]].end BY <3>5, <3>9 DEF InOrder, Covers
        <5>4. pc >= info[ms[k]].end BY <3>5, <5>2, <5>3 DEF InOrder
        <5>. QED BY <5>2, <5>4 DEF Covers, InOrder
      <4>4. CASE S[r] = 0
        <5>1. \A k \in (c + 1)..b : ~Covers(ms[k], pc) BY <3>5, <4>1, <4>2, <4>4
        <5>2. \A k \in (a + 1)..b : k \in 1..c \/ k \in (c + 1)..b BY <3>5, <3>2
        <5>. QED BY <2>1, <4>3, <4>4, <5>1, <5>2
      <4>. QED BY <2>1, <3>5, <4>1, <4>2, <4>4
    <3>. QED BY <3>7, <3>8, <3>9
  <2>. QED BY <2>4, <2>5
<1>4. \A r \in Narrow(n, 0) : Good(r)
  <2>1. TAKE r \in Narrow(n, 0)
  <2>2. r[1] >= r[2] /\ r \in Cells(n) /\ r[1] \in Nat /\ r[2] \in Nat BY DEF Narrow, Cells
  <2>3. S[r] = 0 BY <1>2, <2>2 DEF Answer
  <2>4. (r[1] + 1)..r[2] = {} BY <2>2
  <2>. QED BY <2>3, <2>4
<1>5. Bad = {}
  <2>. HIDE DEF Good
  <2>1. SUFFICES ASSUME Bad # {} PROVE FALSE OBVIOUS
  <2>2. PICK d \in Bad : \A e \in Bad : d <= e BY <2>1, LeastNat
  <2>3. d # 0 BY <1>4, <2>2
  <2>4. d - 1 \in Nat /\ d - 1 \notin Bad BY <2>2, <2>3
  <2>5. \A r \in Narrow(n, d - 1) : Good(r) BY <2>4
  <2>6. \A r \in Narrow(n, (d - 1) + 1) : Good(r) BY <1>3, <2>4, <2>5
  <2>. QED BY <2>2, <2>6
<1>6. << 0, n >> \in Narrow(n, n) BY DEF Narrow, Cells
<1>7. Good(<< 0, n >>) BY <1>5, <1>6
<1>. QED BY <1>1, <1>2, <1>7

Names  == DOMAIN Files \cup {""}
Goals  == {"", "share", "fileprev", "memprev"}
GetElfPhases == {"file", "walk", "fileprev", "memprev", "share", "got"}
Phases == {"idle", "reparse", "found", "match", "search"} \cup GetElfPhases
MapInfos ==
  [start : Nat, end : Nat, off : Nat, flags : SUBSET {"r", "w", "x", Device}, name : Names, prev : Nat, next : Nat,
   elf : Nat, mutex : Thread \cup {None}, elf_offset : Int, elf_start : Int, mem : BOOLEAN]
Elfs == [at : Names \X Int, valid : BOOLEAN, mem : BOOLEAN]
Jobs ==
  [ph : Phases, pc : Nat, map : Nat, raw : BOOLEAN, w : Nat, goal : Goals, failed : BOOLEAN,
   new : Nat, from : Nat, last : Nat, it : Nat, zero : Nat, dead : BOOLEAN, frame : Nat]

(* A job that refers to n objects.                                         *)
JobIn(j, n) ==
  /\ j \in Jobs
  /\ j.map <= n /\ j.w <= n /\ j.zero <= n /\ j.frame <= n
  /\ j.ph \in GetElfPhases => j.map # 0
  /\ j.ph = "walk" => j.goal # ""
  /\ j.ph = "search" => j.it # 0

InfoType == info \in Seq(MapInfos) /\ \A i \in DOMAIN info : info[i].elf <= Len(elfs)
ElfType  == elfs \in Seq(Elfs) /\ \A e \in DOMAIN elfs : elfs[e].valid => elfs[e].at[1] \in DOMAIN Files
JobType  == job = [t \in Thread |-> job[t]] /\ \A t \in Thread : JobIn(job[t], Len(info))

SearchType ==
  search = [by |-> search.by, descriptor |-> search.descriptor] /\ search.by \in Thread \cup {None}

TypeOK ==
  /\ kernel \in Layouts /\ writer \in Thread \cup {None} /\ fault \in BOOLEAN
  /\ InfoType /\ ElfType /\ JobType
  /\ maps \in Seq(0..Len(info))
  /\ SearchType
  /\ parsed \in [layout : Layouts, before : SUBSET (1..Len(info))]
  /\ bounds \in [calls : Nat, remaps : Nat]
----------------------------------------------------------------------------
(* What the fields of a MapInfo become.                                    *)
SameRegion(a, b) == a.start = b.start /\ a.end = b.end /\ a.off = b.off /\ a.flags = b.flags /\ a.name = b.name
SameLinks(a, b)  == a.prev = b.prev /\ a.next = b.next

LEMMA InfoFields ==
  ASSUME NEW m \in MapInfos
  PROVE  /\ m.start \in Nat /\ m.end \in Nat /\ m.off \in Nat /\ m.name \in Names
         /\ m.prev \in Nat /\ m.next \in Nat /\ m.elf \in Nat /\ m.mutex \in Thread \cup {None}
         /\ m.elf_offset \in Int /\ m.elf_start \in Int /\ m.mem \in BOOLEAN
BY DEF MapInfos

LEMMA SetMutex ==
  ASSUME NEW m \in MapInfos, NEW t \in Thread \cup {None}, NEW a, a = [m EXCEPT !.mutex = t]
  PROVE  /\ a \in MapInfos /\ SameRegion(a, m) /\ SameLinks(a, m) /\ a.mutex = t /\ a.elf = m.elf
         /\ a.elf_offset = m.elf_offset /\ a.elf_start = m.elf_start /\ a.mem = m.mem
BY DEF MapInfos, SameRegion, SameLinks

LEMMA SetOffset ==
  ASSUME NEW m \in MapInfos, NEW o \in Int, NEW a, a = [m EXCEPT !.elf_offset = o]
  PROVE  /\ a \in MapInfos /\ SameRegion(a, m) /\ SameLinks(a, m) /\ a.mutex = m.mutex /\ a.elf = m.elf
         /\ a.elf_offset = o /\ a.elf_start = m.elf_start /\ a.mem = m.mem
BY DEF MapInfos, SameRegion, SameLinks

LEMMA SetMem ==
  ASSUME NEW m \in MapInfos, NEW b \in BOOLEAN, NEW a, a = [m EXCEPT !.mem = b]
  PROVE  /\ a \in MapInfos /\ SameRegion(a, m) /\ SameLinks(a, m) /\ a.mutex = m.mutex /\ a.elf = m.elf
         /\ a.elf_offset = m.elf_offset /\ a.elf_start = m.elf_start /\ a.mem = b
BY DEF MapInfos, SameRegion, SameLinks

LEMMA SetElf ==
  ASSUME NEW m \in MapInfos, NEW e \in Nat, NEW a, a = [m EXCEPT !.elf = e]
  PROVE  /\ a \in MapInfos /\ SameRegion(a, m) /\ SameLinks(a, m) /\ a.mutex = m.mutex /\ a.elf = e
         /\ a.elf_offset = m.elf_offset /\ a.elf_start = m.elf_start /\ a.mem = m.mem
BY DEF MapInfos, SameRegion, SameLinks

LEMMA SetPrev ==
  ASSUME NEW m \in MapInfos, NEW p \in Nat, NEW a, a = [m EXCEPT !.prev = p]
  PROVE  /\ a \in MapInfos /\ SameRegion(a, m) /\ a.prev = p /\ a.next = m.next
         /\ a.mutex = m.mutex /\ a.elf = m.elf /\ a.elf_offset = m.elf_offset /\ a.elf_start = m.elf_start
         /\ a.mem = m.mem
BY DEF MapInfos, SameRegion

LEMMA SetNext ==
  ASSUME NEW m \in MapInfos, NEW p \in Nat, NEW a, a = [m EXCEPT !.next = p]
  PROVE  /\ a \in MapInfos /\ SameRegion(a, m) /\ a.prev = m.prev /\ a.next = p
         /\ a.mutex = m.mutex /\ a.elf = m.elf /\ a.elf_offset = m.elf_offset /\ a.elf_start = m.elf_start
         /\ a.mem = m.mem
BY DEF MapInfos, SameRegion

LEMMA SeqUpdate ==
  ASSUME NEW T, NEW s \in Seq(T), NEW i \in DOMAIN s, NEW x \in T, NEW u, u = [s EXCEPT ![i] = x]
  PROVE  /\ u \in Seq(T) /\ Len(u) = Len(s) /\ DOMAIN u = DOMAIN s
         /\ u[i] = x /\ \A k \in DOMAIN s : k # i => u[k] = s[k]
OBVIOUS

(* The fields a search may have left in a map, and the map with its new Elf. *)
Located(f) ==
  /\ DOMAIN f \subseteq {"elf_offset", "elf_start", "mem"}
  /\ "elf_offset" \in DOMAIN f => f["elf_offset"] \in Int
  /\ "elf_start" \in DOMAIN f => f["elf_start"] \in Int
  /\ "mem" \in DOMAIN f => f["mem"] \in BOOLEAN

LEMMA WithLocated ==
  ASSUME NEW m \in MapInfos, NEW f, Located(f), NEW a, a = With(m, f)
  PROVE  /\ a \in MapInfos /\ SameRegion(a, m) /\ SameLinks(a, m) /\ a.mutex = m.mutex /\ a.elf = m.elf
         /\ a.elf_offset = (IF "elf_offset" \in DOMAIN f THEN f["elf_offset"] ELSE m.elf_offset)
         /\ a.elf_start = (IF "elf_start" \in DOMAIN f THEN f["elf_start"] ELSE m.elf_start)
         /\ a.mem = (IF "mem" \in DOMAIN f THEN f["mem"] ELSE m.mem)
BY DEF MapInfos, SameRegion, SameLinks, With, Located

LEMMA WithElf ==
  ASSUME NEW m \in MapInfos, NEW e \in Nat, NEW a, a = With(m, [elf |-> e])
  PROVE  /\ a \in MapInfos /\ SameRegion(a, m) /\ SameLinks(a, m) /\ a.mutex = m.mutex /\ a.elf = e
         /\ a.elf_offset = m.elf_offset /\ a.elf_start = m.elf_start /\ a.mem = m.mem
BY DEF MapInfos, SameRegion, SameLinks, With

LEMMA WithBadElf ==
  ASSUME NEW m \in MapInfos, NEW e \in Nat, NEW s \in Int, NEW a,
         a = With(m, [elf |-> e, elf_start |-> s, mutex |-> None])
  PROVE  /\ a \in MapInfos /\ SameRegion(a, m) /\ SameLinks(a, m) /\ a.mutex = None /\ a.elf = e
         /\ a.elf_offset = m.elf_offset /\ a.elf_start = s /\ a.mem = m.mem
BY DEF MapInfos, SameRegion, SameLinks, With

----------------------------------------------------------------------------
(* The fields of a job after each of the assignments of the code.          *)
LEMMA WithFound ==
  ASSUME NEW j \in Jobs, NEW ph_ \in Phases, NEW pc_ \in Nat, NEW map_ \in Nat, NEW failed_ \in BOOLEAN,
         NEW k, k = With(j, [ph |-> ph_, pc |-> pc_, map |-> map_, failed |-> failed_])
  PROVE  /\ k \in Jobs /\ k.ph = ph_ /\ k.pc = pc_ /\ k.map = map_ /\ k.failed = failed_
         /\ k.raw = j.raw /\ k.w = j.w /\ k.goal = j.goal /\ k.new = j.new /\ k.from = j.from /\ k.last = j.last
         /\ k.it = j.it /\ k.zero = j.zero /\ k.frame = j.frame
BY DEF With, Jobs

LEMMA WithParsed ==
  ASSUME NEW j \in Jobs, NEW ph_ \in Phases, NEW new_ \in Nat, NEW from_ \in Nat, NEW last_ \in Nat,
         NEW k, k = With(j, [ph |-> ph_, new |-> new_, from |-> from_, last |-> last_])
  PROVE  /\ k \in Jobs /\ k.ph = ph_ /\ k.new = new_ /\ k.from = from_ /\ k.last = last_
         /\ k.map = j.map /\ k.raw = j.raw /\ k.w = j.w /\ k.goal = j.goal /\ k.it = j.it /\ k.zero = j.zero
         /\ k.frame = j.frame
BY DEF With, Jobs

LEMMA WithFailed ==
  ASSUME NEW j \in Jobs, NEW ph_ \in Phases, NEW failed_ \in BOOLEAN,
         NEW k, k = With(j, [ph |-> ph_, failed |-> failed_])
  PROVE  /\ k \in Jobs /\ k.ph = ph_ /\ k.failed = failed_
         /\ k.map = j.map /\ k.raw = j.raw /\ k.w = j.w /\ k.goal = j.goal /\ k.new = j.new /\ k.from = j.from
         /\ k.last = j.last /\ k.it = j.it /\ k.zero = j.zero /\ k.frame = j.frame
BY DEF With, Jobs

LEMMA WithMatched ==
  ASSUME NEW j \in Jobs, NEW new_ \in Nat, NEW from_ \in Nat,
         NEW k, k = With(j, [new |-> new_, from |-> from_])
  PROVE  /\ k \in Jobs /\ k.new = new_ /\ k.from = from_
         /\ k.ph = j.ph /\ k.map = j.map /\ k.raw = j.raw /\ k.w = j.w /\ k.goal = j.goal /\ k.last = j.last
         /\ k.it = j.it /\ k.zero = j.zero /\ k.frame = j.frame
BY DEF With, Jobs

LEMMA WithFoundAgain ==
  ASSUME NEW j \in Jobs, NEW ph_ \in Phases, NEW map_ \in Nat,
         NEW k, k = With(j, [ph |-> ph_, map |-> map_])
  PROVE  /\ k \in Jobs /\ k.ph = ph_ /\ k.map = map_
         /\ k.raw = j.raw /\ k.w = j.w /\ k.goal = j.goal /\ k.new = j.new /\ k.from = j.from /\ k.last = j.last
         /\ k.it = j.it /\ k.zero = j.zero /\ k.frame = j.frame
BY DEF With, Jobs

LEMMA WithPhase ==
  ASSUME NEW j \in Jobs, NEW ph_ \in Phases,
         NEW k, k = With(j, [ph |-> ph_])
  PROVE  /\ k \in Jobs /\ k.ph = ph_
         /\ k.map = j.map /\ k.raw = j.raw /\ k.w = j.w /\ k.goal = j.goal /\ k.new = j.new /\ k.from = j.from
         /\ k.last = j.last /\ k.it = j.it /\ k.zero = j.zero /\ k.frame = j.frame
BY DEF With, Jobs

LEMMA WithWalk ==
  ASSUME NEW j \in Jobs, NEW ph_ \in Phases, NEW goal_ \in Goals, NEW w_ \in Nat,
         NEW k, k = With(j, [ph |-> ph_, goal |-> goal_, w |-> w_])
  PROVE  /\ k \in Jobs /\ k.ph = ph_ /\ k.goal = goal_ /\ k.w = w_
         /\ k.map = j.map /\ k.raw = j.raw /\ k.new = j.new /\ k.from = j.from /\ k.last = j.last /\ k.it = j.it
         /\ k.zero = j.zero /\ k.frame = j.frame
BY DEF With, Jobs

LEMMA WithStep ==
  ASSUME NEW j \in Jobs, NEW w_ \in Nat,
         NEW k, k = With(j, [w |-> w_])
  PROVE  /\ k \in Jobs /\ k.w = w_
         /\ k.ph = j.ph /\ k.map = j.map /\ k.raw = j.raw /\ k.goal = j.goal /\ k.new = j.new /\ k.from = j.from
         /\ k.last = j.last /\ k.it = j.it /\ k.zero = j.zero /\ k.frame = j.frame
BY DEF With, Jobs

LEMMA WithArrived ==
  ASSUME NEW j \in Jobs, NEW ph_ \in Phases, NEW w_ \in Nat,
         NEW k, k = With(j, [ph |-> ph_, w |-> w_])
  PROVE  /\ k \in Jobs /\ k.ph = ph_ /\ k.w = w_
         /\ k.map = j.map /\ k.raw = j.raw /\ k.goal = j.goal /\ k.new = j.new /\ k.from = j.from
         /\ k.last = j.last /\ k.it = j.it /\ k.zero = j.zero /\ k.frame = j.frame
BY DEF With, Jobs

LEMMA WithSearch ==
  ASSUME NEW j \in Jobs, NEW ph_ \in Phases, NEW it_ \in Nat, NEW zero_ \in Nat, NEW dead_ \in BOOLEAN, NEW frame_ \in Nat,
         NEW k, k = With(j, [ph |-> ph_, it |-> it_, zero |-> zero_, dead |-> dead_, frame |-> frame_])
  PROVE  /\ k \in Jobs /\ k.ph = ph_ /\ k.it = it_ /\ k.zero = zero_ /\ k.dead = dead_ /\ k.frame = frame_
         /\ k.map = j.map /\ k.raw = j.raw /\ k.w = j.w /\ k.goal = j.goal /\ k.new = j.new /\ k.from = j.from
         /\ k.last = j.last
BY DEF With, Jobs

LEMMA WithRaw ==
  ASSUME NEW j \in Jobs, NEW ph_ \in Phases, NEW raw_ \in BOOLEAN, NEW map_ \in Nat,
         NEW k, k = With(j, [ph |-> ph_, raw |-> raw_, map |-> map_])
  PROVE  /\ k \in Jobs /\ k.ph = ph_ /\ k.raw = raw_ /\ k.map = map_
         /\ k.w = j.w /\ k.goal = j.goal /\ k.new = j.new /\ k.from = j.from /\ k.last = j.last /\ k.it = j.it
         /\ k.zero = j.zero /\ k.frame = j.frame
BY DEF With, Jobs

LEMMA WithEntry ==
  ASSUME NEW j \in Jobs, NEW it_ \in Nat, NEW zero_ \in Nat,
         NEW k, k = With(j, [it |-> it_, zero |-> zero_])
  PROVE  /\ k \in Jobs /\ k.it = it_ /\ k.zero = zero_
         /\ k.ph = j.ph /\ k.map = j.map /\ k.raw = j.raw /\ k.w = j.w /\ k.goal = j.goal /\ k.new = j.new
         /\ k.from = j.from /\ k.last = j.last /\ k.frame = j.frame
BY DEF With, Jobs

LEMMA WithResume ==
  ASSUME NEW j \in Jobs, NEW ph_ \in Phases, NEW raw_ \in BOOLEAN, NEW map_ \in Nat, NEW it_ \in Nat,
         NEW k, k = With(j, [ph |-> ph_, raw |-> raw_, map |-> map_, it |-> it_])
  PROVE  /\ k \in Jobs /\ k.ph = ph_ /\ k.raw = raw_ /\ k.map = map_ /\ k.it = it_
         /\ k.w = j.w /\ k.goal = j.goal /\ k.new = j.new /\ k.from = j.from /\ k.last = j.last
         /\ k.zero = j.zero /\ k.frame = j.frame
BY DEF With, Jobs

----------------------------------------------------------------------------
(* What records become.                                                    *)
LEMMA WithIdle ==
  ASSUME NEW j \in Jobs PROVE With(j, IdleJob) = IdleJob
<1>1. PICK D : D = DOMAIN IdleJob OBVIOUS
<1>2. DOMAIN j = DOMAIN IdleJob BY DEF Jobs, IdleJob
<1>3. IdleJob = [f \in DOMAIN IdleJob |-> IdleJob[f]] BY DEF IdleJob
<1>4. With(j, IdleJob) = [f \in D |-> IdleJob[f]] BY <1>1, <1>2 DEF With
<1>. QED BY <1>1, <1>3, <1>4

LEMMA IdleFields ==
  IdleJob.ph = "idle" /\ IdleJob.map = 0 /\ IdleJob.w = 0 /\ IdleJob.zero = 0 /\ IdleJob.frame = 0
BY DEF IdleJob

LEMMA IdleIn ==
  ASSUME NEW j \in Jobs, NEW n \in Nat PROVE JobIn(With(j, IdleJob), n)
<1>1. IdleJob \in Jobs BY DEF Jobs, IdleJob, Phases, GetElfPhases, Goals
<1>2. JobIn(IdleJob, n) BY <1>1, IdleFields DEF JobIn, GetElfPhases
<1>. QED BY <1>2, WithIdle

(* Another job for t leaves the others as they are.                        *)
LEMMA GoEffect ==
  ASSUME NEW t \in Thread, JobType, NEW j, Go(t, j)
  PROVE  /\ job' = [u \in Thread |-> job'[u]]
         /\ job'[t] = With(job[t], j)
         /\ \A u \in Thread : u # t => job'[u] = job[u]
BY DEF Go, JobType

LEMMA GoType ==
  ASSUME NEW t \in Thread, JobType, NEW j, Go(t, j), Len(info') = Len(info), JobIn(With(job[t], j), Len(info))
  PROVE  JobType'
<1>1. PICK n : n = Len(info) OBVIOUS
<1>2. \A u \in Thread : JobIn(job[u], n) BY <1>1 DEF JobType
<1>3. PICK g : g = job' OBVIOUS
<1>4. g = [u \in Thread |-> g[u]] /\ \A u \in Thread : JobIn(g[u], n)
  BY <1>1, <1>2, <1>3, GoEffect
<1>. QED BY <1>1, <1>3, <1>4 DEF JobType

LEMMA LayoutRegions ==
  ASSUME NEW l \in Layouts
  PROVE  /\ l \in Seq(Regions) /\ Len(l) \in Nat /\ DOMAIN l = 1..Len(l)
         /\ \A k \in DOMAIN l : l[k] \in Regions /\ l[k].start \in Nat /\ l[k].end \in Nat
<1>1. l \in Seq(Regions) BY LayoutAssumption
<1>2. \A r \in Regions : r.start \in Nat /\ r.end \in Nat BY DEF Regions
<1>. QED BY <1>1, <1>2

LEMMA LayoutOrder ==
  ASSUME NEW l \in Layouts, NEW k \in DOMAIN l
  PROVE  /\ l[k].start < l[k].end
         /\ \A j \in DOMAIN l : k < j => l[k].end <= l[j].start /\ l[k].start < l[j].start
<1>1. l[k].start < l[k].end BY LayoutAssumption
<1>2. \A j \in DOMAIN l : k < j => l[k].end <= l[j].start BY LayoutAssumption
<1>. QED BY <1>1, <1>2, LayoutRegions

LEMMA RegionFields ==
  ASSUME NEW r \in Regions
  PROVE  /\ r.start \in Nat /\ r.end \in Nat /\ r.off \in Nat
         /\ r.flags \in SUBSET {"r", "w", "x", Device} /\ r.name \in Names
BY DEF Regions, Names

LEMMA MapInfoOfType ==
  ASSUME NEW r \in Regions, NEW prev \in Nat, NEW next \in Nat
  PROVE  MapInfoOf(r, prev, next) \in MapInfos /\ MapInfoOf(r, prev, next).elf = 0
<1>1. None \in Thread \cup {None} /\ NoElf \in Nat BY DEF NoElf
<1>2. MapInfoOf(r, prev, next) \in MapInfos BY <1>1, RegionFields DEF MapInfoOf, MapInfos
<1>. QED BY <1>2 DEF MapInfoOf, NoElf

LEMMA InitType == Init => TypeOK
<1>. SUFFICES ASSUME Init PROVE TypeOK OBVIOUS
<1>1. PICK l : l = kernel /\ l \in Layouts BY LayoutAssumption DEF Init
<1>2. PICK n : n = Len(l) /\ n \in Nat BY <1>1, LayoutRegions
<1>3. DOMAIN l = 1..n BY <1>1, <1>2, LayoutRegions
<1>4. \A k \in 1..n : l[k] \in Regions BY <1>1, <1>3, LayoutRegions
<1>5. info = [k \in 1..n |-> MapInfoOf(l[k], k - 1, IF k = n THEN 0 ELSE k + 1)] BY <1>1, <1>2 DEF Init
<1>6. \A k \in 1..n : info[k] \in MapInfos /\ info[k].elf = 0 BY <1>2, <1>4, <1>5, MapInfoOfType
<1>7. info \in Seq(MapInfos) /\ Len(info) = n BY <1>2, <1>5, <1>6
<1>8. elfs = << >> BY DEF Init
<1>9. InfoType BY <1>6, <1>7, <1>8 DEF InfoType
<1>10. ElfType BY <1>8 DEF ElfType
<1>11. JobType
  <2>1. IdleJob \in Jobs BY DEF Jobs, IdleJob, Phases, GetElfPhases, Goals
  <2>2. JobIn(IdleJob, n) BY <1>2, <2>1, IdleFields DEF JobIn, GetElfPhases
  <2>. QED BY <1>7, <2>2 DEF JobType, Init
<1>12. maps \in Seq(0..n) BY <1>1, <1>2 DEF Init
<1>13. kernel \in Layouts /\ writer \in Thread \cup {None} /\ fault \in BOOLEAN
  BY <1>1 DEF Init
<1>14. SearchType
  <2>1. None \in Thread \cup {None} OBVIOUS
  <2>2. search = [by |-> None, descriptor |-> 0] BY DEF Init
  <2>. QED BY <2>1, <2>2 DEF SearchType
<1>15. parsed \in [layout : Layouts, before : SUBSET (1..Len(info))] BY <1>1 DEF Init
<1>16. bounds \in [calls : Nat, remaps : Nat] BY DEF Init
<1>. QED BY <1>7, <1>9, <1>10, <1>11, <1>12, <1>13, <1>14, <1>15, <1>16 DEF TypeOK

LEMMA RemapType == ASSUME TypeOK, Remap PROVE TypeOK'
<1>1. PICK b \in [calls : Nat, remaps : Nat] : b = bounds BY DEF TypeOK
<1>2. bounds' = [b EXCEPT !.remaps = b.remaps + 1] BY <1>1 DEF Remap
<1>3. bounds' \in [calls : Nat, remaps : Nat] BY <1>2
<1>. QED BY <1>3 DEF TypeOK, Remap, InfoType, ElfType, JobType, SearchType
----------------------------------------------------------------------------
(* The steps of a thread that leave the list and the links as they are.    *)
InfoKeeps ==
  /\ Len(info') = Len(info)
  /\ \A i \in DOMAIN info : SameRegion(info'[i], info[i]) /\ SameLinks(info'[i], info[i])

Quiet(t) ==
  /\ UNCHANGED << kernel, maps, writer, parsed >> /\ InfoKeeps
  /\ job[t].ph # "match" /\ job'[t].ph # "match"
  /\ \A u \in Thread : u # t => job'[u] = job[u]

LEMMA InfoUpdate ==
  ASSUME info \in Seq(MapInfos), NEW i \in DOMAIN info, NEW x \in MapInfos,
         SameRegion(x, info[i]), SameLinks(x, info[i]), info' = [info EXCEPT ![i] = x]
  PROVE  /\ InfoKeeps /\ info' \in Seq(MapInfos) /\ info'[i] = x
         /\ \A k \in DOMAIN info : k # i => info'[k] = info[k]
<1>1. PICK u : u = info' OBVIOUS
<1>2. /\ u \in Seq(MapInfos) /\ Len(u) = Len(info) /\ u[i] = x
      /\ \A k \in DOMAIN info : k # i => u[k] = info[k]
  BY <1>1, SeqUpdate
<1>. QED BY <1>1, <1>2 DEF InfoKeeps, SameRegion, SameLinks

(* A thread's step that changes no more than its job and one map.          *)
LEMMA QuietType ==
  ASSUME TypeOK, NEW t \in Thread, NEW j, Go(t, j), JobIn(With(job[t], j), Len(info)),
         job[t].ph # "match", With(job[t], j).ph # "match",
         UNCHANGED << kernel, maps, writer, parsed >>,
         InfoKeeps, InfoType', ElfType',
         fault' \in BOOLEAN, SearchType',
         bounds' \in [calls : Nat, remaps : Nat]
  PROVE  TypeOK' /\ Quiet(t)
<1>1. Len(info') = Len(info) BY DEF InfoKeeps
<1>2. JobType' BY <1>1, GoType DEF TypeOK
<1>3. job'[t] = With(job[t], j) /\ \A u \in Thread : u # t => job'[u] = job[u] BY GoEffect DEF TypeOK
<1>4. TypeOK' BY <1>1, <1>2 DEF TypeOK
<1>. QED BY <1>3, <1>4 DEF Quiet

(* The same when the objects are untouched.                                *)
LEMMA JobOnly ==
  ASSUME TypeOK, NEW t \in Thread, NEW j, Go(t, j), JobIn(With(job[t], j), Len(info)),
         job[t].ph # "match", With(job[t], j).ph # "match",
         UNCHANGED << kernel, maps, writer, parsed, info, elfs, bounds >>,
         fault' \in BOOLEAN, SearchType'
  PROVE  TypeOK' /\ Quiet(t)
<1>1. InfoKeeps BY DEF InfoKeeps, SameRegion, SameLinks
<1>2. InfoType' /\ ElfType' BY DEF TypeOK, InfoType, ElfType
<1>3. bounds' \in [calls : Nat, remaps : Nat] BY DEF TypeOK
<1>. QED BY <1>1, <1>2, <1>3, QuietType

(* And when only an object was found missing.                              *)
LEMMA FaultOnly ==
  ASSUME TypeOK, NEW t \in Thread, job[t].ph # "match", fault' = TRUE,
         UNCHANGED << kernel, maps, writer, parsed, info, elfs, bounds, job, search >>
  PROVE  TypeOK' /\ Quiet(t)
BY DEF TypeOK, InfoType, ElfType, JobType, SearchType, Quiet, InfoKeeps, SameRegion, SameLinks

LEMMA JobsOf ==
  ASSUME TypeOK, NEW t \in Thread
  PROVE  JobIn(job[t], Len(info)) /\ job[t] \in Jobs /\ Len(info) \in Nat
<1>1. JobIn(job[t], Len(info)) BY DEF TypeOK, JobType
<1>2. job[t] \in Jobs BY <1>1 DEF JobIn
<1>3. Len(info) \in Nat BY DEF TypeOK, InfoType
<1>. QED BY <1>1, <1>2, <1>3

LEMMA MapOf ==
  ASSUME TypeOK, NEW t \in Thread, job[t].ph \in GetElfPhases
  PROVE  job[t].map \in DOMAIN info /\ info[job[t].map] \in MapInfos
<1>1. PICK j : j = job[t] OBVIOUS
<1>2. j \in Jobs /\ j.map # 0 /\ j.map <= Len(info) BY <1>1, JobsOf DEF JobIn
<1>3. j.map \in Nat BY <1>2 DEF Jobs
<1>4. info \in Seq(MapInfos) BY DEF TypeOK, InfoType
<1>. QED BY <1>1, <1>2, <1>3, <1>4

LEMMA LockIn ==
  ASSUME TypeOK, NEW i \in Nat
  PROVE  Lock(i) \in Nat /\ Lock(i) <= Len(info)
<1>1. \A t \in Thread : \A h \in Held(t) : h \in Nat /\ h <= Len(info)
  BY JobsOf DEF Held, JobIn, Jobs
<1>2. \A h \in Range(maps) : h \in Nat /\ h <= Len(info) BY DEF TypeOK, Range, InfoType
<1>3. Len(info) \in Nat BY DEF TypeOK, InfoType
<1>. QED BY <1>1, <1>2, <1>3 DEF Lock, Alive

LEMMA IdleType ==
  ASSUME TypeOK, NEW t \in Thread, Go(t, IdleJob), job[t].ph # "match",
         UNCHANGED << kernel, maps, writer, parsed, info, elfs, bounds >>,
         fault' \in BOOLEAN, SearchType'
  PROVE  TypeOK' /\ Quiet(t)
<1>1. JobIn(With(job[t], IdleJob), Len(info)) BY JobsOf, IdleIn
<1>2. With(job[t], IdleJob).ph # "match" BY JobsOf, WithIdle, IdleFields
<1>. QED BY <1>1, <1>2, JobOnly

LEMMA NoMapType == ASSUME TypeOK, NEW t \in Thread, NoMap(t) PROVE TypeOK' /\ Quiet(t)
<1>1. job[t].ph # "match" BY DEF NoMap, At
<1>. QED BY <1>1, IdleType DEF NoMap, TypeOK, SearchType

LEMMA PhaseIn ==
  ASSUME TypeOK, NEW t \in Thread, NEW p \in Phases \ {"walk", "search"},
         p \in GetElfPhases => job[t].map # 0
  PROVE  JobIn(With(job[t], [ph |-> p]), Len(info)) /\ With(job[t], [ph |-> p]).ph = p
<1>1. PICK k : k = With(job[t], [ph |-> p]) OBVIOUS
<1>2. k \in Jobs /\ k.ph = p /\ k.map = job[t].map /\ k.w = job[t].w /\ k.zero = job[t].zero
      /\ k.frame = job[t].frame
  BY <1>1, JobsOf, WithPhase
<1>. QED BY <1>1, <1>2, JobsOf DEF JobIn

LEMMA GetElfEffect ==
  ASSUME TypeOK, NEW t \in Thread, GetElf(t)
  PROVE  /\ TypeOK' /\ Quiet(t)
         /\ \/ info' = info /\ (job' = job \/ (job'[t].ph = "got" /\ info[job[t].map].elf # NoElf))
            \/ /\ info[job[t].map].elf = NoElf /\ info[job[t].map].mutex = None
               /\ info'[job[t].map].mutex = t /\ info'[job[t].map].elf_offset = 0
               /\ info'[job[t].map].elf = NoElf
               /\ info'[job[t].map].elf_start = info[job[t].map].elf_start
               /\ job'[t].ph = "file"
               /\ \A k \in DOMAIN info : k # job[t].map => info'[k] = info[k]
         /\ job'[t].map = job[t].map /\ job[t].map \in DOMAIN info
         /\ UNCHANGED << elfs, bounds >>
<1>1. job[t].ph = "found" /\ job[t].map # 0 BY DEF GetElf, At
<1>2. PICK i : i = job[t].map /\ i \in DOMAIN info /\ info[i] \in MapInfos
  <2>1. job[t] \in Jobs /\ job[t].map <= Len(info) BY JobsOf DEF JobIn
  <2>2. job[t].map \in Nat BY <2>1 DEF Jobs
  <2>3. info \in Seq(MapInfos) BY DEF TypeOK, InfoType
  <2>. QED BY <1>1, <2>1, <2>2, <2>3
<1>3. CASE job[t].raw /\ ~Alive(i)
  <2>1. TypeOK' /\ Quiet(t) BY <1>1, <1>2, <1>3, FaultOnly DEF GetElf
  <2>2. UNCHANGED << info, job >> BY <1>2, <1>3 DEF GetElf
  <2>3. UNCHANGED << elfs, bounds >> BY DEF GetElf
  <2>4. info' = info /\ job' = job /\ job'[t].map = job[t].map BY <2>2
  <2>5. job[t].map \in DOMAIN info BY <1>2
  <2>. QED BY <2>1, <2>3, <2>4, <2>5
<1>4. CASE ~(job[t].raw /\ ~Alive(i)) /\ info[i].elf # NoElf
  <2>1. Go(t, [ph |-> "got"]) /\ UNCHANGED << info, fault >> BY <1>2, <1>4 DEF GetElf
  <2>2. "got" \in Phases \ {"walk", "search"} BY DEF Phases, GetElfPhases
  <2>3. PICK k : k = With(job[t], [ph |-> "got"]) OBVIOUS
  <2>4. k.ph = "got" /\ k.map = job[t].map BY <2>2, <2>3, JobsOf, WithPhase
  <2>5. JobIn(k, Len(info)) BY <1>1, <2>2, <2>3, PhaseIn
  <2>6. TypeOK' /\ Quiet(t) BY <1>1, <2>1, <2>3, <2>4, <2>5, JobOnly DEF GetElf, TypeOK, SearchType
  <2>7. job'[t] = k BY <2>1, <2>3, GoEffect DEF TypeOK
  <2>. QED BY <1>2, <1>4, <2>1, <2>4, <2>6, <2>7 DEF GetElf
<1>5. CASE ~(job[t].raw /\ ~Alive(i)) /\ info[i].elf = NoElf
  <2>1. /\ Go(t, [ph |-> "file"]) /\ UNCHANGED fault /\ info[i].mutex = None
        /\ info' = [info EXCEPT ![i].mutex = t, ![i].elf_offset = 0]
    BY <1>2, <1>5 DEF GetElf
  <2>2. "file" \in Phases \ {"walk", "search"} BY DEF Phases, GetElfPhases
  <2>3. PICK k : k = With(job[t], [ph |-> "file"]) OBVIOUS
  <2>4. k.ph = "file" /\ k.map = job[t].map BY <2>2, <2>3, JobsOf, WithPhase
  <2>5. JobIn(k, Len(info)) BY <1>1, <2>2, <2>3, PhaseIn
  <2>6. PICK a : a = [info[i] EXCEPT !.mutex = t] OBVIOUS
  <2>7. PICK b : b = [a EXCEPT !.elf_offset = 0] OBVIOUS
  <2>8. /\ a \in MapInfos /\ SameRegion(a, info[i]) /\ SameLinks(a, info[i]) /\ a.mutex = t
        /\ a.elf = info[i].elf /\ a.elf_start = info[i].elf_start
    BY <1>2, <2>6, SetMutex
  <2>9. /\ b \in MapInfos /\ SameRegion(b, a) /\ SameLinks(b, a) /\ b.mutex = t /\ b.elf = a.elf
        /\ b.elf_offset = 0 /\ b.elf_start = a.elf_start
    BY <2>7, <2>8, SetOffset
  <2>10. info' = [info EXCEPT ![i] = b] BY <1>2, <2>1, <2>6, <2>7
  <2>11. SameRegion(b, info[i]) /\ SameLinks(b, info[i]) BY <2>8, <2>9 DEF SameRegion, SameLinks
  <2>12. info \in Seq(MapInfos) BY DEF TypeOK, InfoType
  <2>13. /\ InfoKeeps /\ info' \in Seq(MapInfos) /\ info'[i] = b
         /\ \A l \in DOMAIN info : l # i => info'[l] = info[l]
    BY <1>2, <2>9, <2>10, <2>11, <2>12, InfoUpdate
  <2>14. elfs' = elfs /\ Len(info') = Len(info) BY <2>13 DEF GetElf, InfoKeeps
  <2>15. InfoType'
    <3>1. \A l \in DOMAIN info : info'[l].elf = info[l].elf BY <2>8, <2>9, <2>13
    <3>2. DOMAIN info' = DOMAIN info BY <2>12, <2>13, <2>14
    <3>. QED BY <2>13, <2>14, <3>1, <3>2 DEF InfoType, TypeOK
  <2>16. ElfType' BY <2>14 DEF ElfType, TypeOK
  <2>17. TypeOK' /\ Quiet(t)
    BY <1>1, <2>1, <2>3, <2>4, <2>5, <2>13, <2>15, <2>16, QuietType DEF GetElf, TypeOK, SearchType
  <2>18. job'[t] = k BY <2>1, <2>3, GoEffect DEF TypeOK
  <2>. QED BY <1>2, <1>5, <2>1, <2>4, <2>8, <2>9, <2>13, <2>17, <2>18 DEF GetElf
<1>. QED BY <1>3, <1>4, <1>5

LEMMA GetPrevRealMapType ==
  ASSUME TypeOK, NEW t \in Thread, GetPrevRealMap(t)
  PROVE  /\ TypeOK' /\ Quiet(t) /\ UNCHANGED << info, elfs, bounds >>
         /\ job'[t].map = job[t].map
         /\ \/ /\ job'[t].ph = "walk" /\ job'[t].goal = job[t].goal
               /\ job[t].w # 0 /\ IsBlank(info[job[t].w]) /\ job'[t].w = Lock(info[job[t].w].prev)
            \/ /\ job'[t].ph = job[t].goal /\ job[t].goal \in {"share", "fileprev", "memprev"}
               /\ job[t].w # 0 => ~IsBlank(info[job[t].w])
               /\ job'[t].w = IF job[t].w # 0 /\ info[job[t].w].name = info[job[t].map].name THEN job[t].w ELSE 0
<1>1. job[t].ph = "walk" BY DEF GetPrevRealMap, At
<1>2. PICK j : j = job[t] /\ JobIn(j, Len(info)) /\ j \in Jobs BY JobsOf
<1>3. Len(info) \in Nat BY JobsOf
<1>4. j.goal \in {"share", "fileprev", "memprev"} /\ j.map # 0 BY <1>1, <1>2 DEF JobIn, Jobs, Goals, GetElfPhases
<1>5. PICK w : w = j.w /\ w \in Nat /\ w <= Len(info) BY <1>2 DEF JobIn, Jobs
<1>6. UNCHANGED << kernel, info, maps, writer, elfs, search, fault, parsed, bounds >> BY DEF GetPrevRealMap
<1>7. CASE w # 0 /\ IsBlank(info[w])
  <2>1. PICK v : v = Lock(info[w].prev) OBVIOUS
  <2>2. Go(t, [w |-> v]) BY <1>2, <1>5, <1>7, <2>1 DEF GetPrevRealMap
  <2>10. info \in Seq(MapInfos) BY DEF TypeOK, InfoType
  <2>12. w # 0 BY <1>7
  <2>11. w \in 1..Len(info) BY <1>3, <1>5, <2>12
  <2>3. info[w] \in MapInfos BY <2>10, <2>11
  <2>4. v \in Nat /\ v <= Len(info) BY <2>1, <2>3, InfoFields, LockIn
  <2>5. PICK k : k = With(j, [w |-> v]) OBVIOUS
  <2>6. k \in Jobs /\ k.w = v /\ k.ph = j.ph /\ k.map = j.map /\ k.zero = j.zero /\ k.frame = j.frame /\ k.goal = j.goal
    BY <1>2, <2>4, <2>5, WithStep
  <2>7. JobIn(k, Len(info)) BY <1>1, <1>2, <2>4, <2>6 DEF JobIn
  <2>8. TypeOK' /\ Quiet(t) BY <1>1, <1>2, <1>6, <2>2, <2>5, <2>6, <2>7, JobOnly DEF TypeOK, SearchType
  <2>9. job'[t] = k BY <1>2, <2>2, <2>5, GoEffect DEF TypeOK
  <2>13. k.w = Lock(info[w].prev) BY <2>1, <2>6
  <2>. QED BY <1>1, <1>2, <1>5, <1>6, <1>7, <2>6, <2>8, <2>9, <2>13
<1>8. CASE ~(w # 0 /\ IsBlank(info[w]))
  <2>1. PICK v : v = IF w # 0 /\ info[w].name = info[j.map].name THEN w ELSE 0 OBVIOUS
  <2>2. PICK p : p = j.goal OBVIOUS
  <2>3. Go(t, [ph |-> p, w |-> v]) BY <1>2, <1>5, <1>8, <2>1, <2>2 DEF GetPrevRealMap
  <2>4. v \in Nat /\ v <= Len(info) BY <1>3, <1>5, <2>1
  <2>5. p \in Phases /\ p \in {"share", "fileprev", "memprev"} BY <1>4, <2>2 DEF Phases, GetElfPhases
  <2>6. PICK k : k = With(j, [ph |-> p, w |-> v]) OBVIOUS
  <2>7. k \in Jobs /\ k.ph = p /\ k.w = v /\ k.map = j.map /\ k.zero = j.zero /\ k.frame = j.frame
    BY <1>2, <2>4, <2>5, <2>6, WithArrived
  <2>8. JobIn(k, Len(info)) BY <1>2, <1>4, <2>4, <2>5, <2>7 DEF JobIn
  <2>9. k.ph # "match" BY <2>5, <2>7
  <2>10. TypeOK' /\ Quiet(t) BY <1>1, <1>2, <1>6, <2>3, <2>6, <2>8, <2>9, JobOnly DEF TypeOK, SearchType
  <2>11. job'[t] = k BY <1>2, <2>3, <2>6, GoEffect DEF TypeOK
  <2>12. k.w = IF j.w # 0 /\ info[j.w].name = info[j.map].name THEN j.w ELSE 0 BY <1>5, <2>1, <2>7
  <2>13. j.w # 0 => ~IsBlank(info[j.w]) BY <1>5, <1>8
  <2>. QED BY <1>2, <1>4, <1>6, <2>2, <2>7, <2>10, <2>11, <2>12, <2>13
<1>. QED BY <1>7, <1>8

(* Where GetPrevRealMap begins.                                            *)
Before(i) == IF info[i].name = "" THEN 0 ELSE Lock(info[i].prev)

LEMMA WalkIn ==
  ASSUME TypeOK, NEW t \in Thread, NEW goal \in {"share", "fileprev", "memprev"},
         job[t].ph \in GetElfPhases, NEW k, k = With(job[t], WalkFor(goal, job[t].map))
  PROVE  JobIn(k, Len(info)) /\ k.ph = "walk" /\ k.goal = goal /\ k.map = job[t].map /\ k.w = Before(job[t].map)
<1>1. PICK j : j = job[t] /\ JobIn(j, Len(info)) /\ j \in Jobs BY JobsOf
<1>2. PICK m : m = info[j.map] /\ m \in MapInfos BY <1>1, MapOf
<1>3. PICK v : v = IF m.name = "" THEN 0 ELSE Lock(m.prev) OBVIOUS
<1>9. m.prev \in Nat BY <1>2, InfoFields
<1>10. Lock(m.prev) \in Nat /\ Lock(m.prev) <= Len(info) /\ Len(info) \in Nat BY <1>9, LockIn, JobsOf
<1>11. v = 0 \/ v = Lock(m.prev) BY <1>3
<1>4. v \in Nat /\ v <= Len(info) BY <1>10, <1>11
<1>5. k = With(j, [ph |-> "walk", goal |-> goal, w |-> v]) BY <1>1, <1>2, <1>3 DEF WalkFor
<1>6. "walk" \in Phases /\ goal \in Goals /\ goal # "" BY DEF Phases, GetElfPhases, Goals
<1>7. /\ k \in Jobs /\ k.ph = "walk" /\ k.goal = goal /\ k.w = v /\ k.map = j.map /\ k.zero = j.zero
      /\ k.frame = j.frame
  <2>1. PICK p : p = "walk" OBVIOUS
  <2>2. k = With(j, [ph |-> p, goal |-> goal, w |-> v]) BY <1>5, <2>1
  <2>3. p \in Phases /\ goal \in Goals BY <1>6, <2>1
  <2>. QED BY <1>1, <1>4, <2>1, <2>2, <2>3, WithWalk
<1>8. j.map # 0 BY <1>1 DEF JobIn
<1>12. v = Before(j.map) BY <1>2, <1>3 DEF Before
<1>13. JobIn(k, Len(info)) BY <1>1, <1>4, <1>6, <1>7, <1>8 DEF JobIn
<1>. QED BY <1>1, <1>7, <1>12, <1>13

(* NewElf: the Elf, the map with it, and where the thread goes.            *)
LEMMA NewElfEffect ==
  ASSUME TypeOK, NEW t \in Thread, job[t].ph \in GetElfPhases,
         NEW c \in Names \X Int, NEW fields, Located(fields), NewElf(t, c, fields),
         UNCHANGED << kernel, maps, writer, search, fault, parsed, bounds >>,
         NEW i, i = job[t].map, NEW own, own = With(info[i], fields)
  PROVE  /\ TypeOK' /\ Quiet(t)
         /\ Len(elfs') = Len(elfs) + 1 /\ \A e \in DOMAIN elfs : elfs'[e] = elfs[e]
         /\ elfs'[Len(elfs) + 1] = [at |-> c, valid |-> IsElf(c), mem |-> own.mem]
         /\ \A k \in DOMAIN info : k # i => info'[k] = info[k]
         /\ info'[i].elf = Len(elfs) + 1
         /\ IsElf(c) => /\ info'[i].mutex = info[i].mutex /\ info'[i].elf_offset = own.elf_offset
                        /\ info'[i].elf_start = own.elf_start
                        /\ job'[t].ph = "walk" /\ job'[t].goal = "share" /\ job'[t].w = Before(i)
         /\ ~IsElf(c) => info'[i].mutex = None /\ job'[t].ph = "got"
         /\ job'[t].map = i
<1>1. i \in DOMAIN info /\ info[i] \in MapInfos BY MapOf
<1>2. /\ own \in MapInfos /\ SameRegion(own, info[i]) /\ SameLinks(own, info[i]) /\ own.mutex = info[i].mutex
  BY <1>1, WithLocated
<1>4. info \in Seq(MapInfos) /\ elfs \in Seq(Elfs) BY DEF TypeOK, InfoType, ElfType
<1>3. PICK n : n = Len(elfs) /\ n \in Nat BY <1>4
<1>5. PICK e : e = [at |-> c, valid |-> IsElf(c), mem |-> own.mem] OBVIOUS
<1>6. e \in Elfs
  <2>1. own.mem \in BOOLEAN BY <1>2, InfoFields
  <2>2. IsElf(c) \in BOOLEAN BY DEF IsElf, ElfAt
  <2>. QED BY <1>5, <2>1, <2>2 DEF Elfs
<1>7. elfs' = Append(elfs, e) BY <1>5 DEF NewElf
<1>8. PICK g : g = elfs' OBVIOUS
<1>9. /\ g \in Seq(Elfs) /\ Len(g) = n + 1 /\ DOMAIN g = 1..(n + 1) /\ g[n + 1] = e
      /\ \A l \in DOMAIN elfs : g[l] = elfs[l]
  BY <1>3, <1>4, <1>6, <1>7, <1>8
<1>10. ElfType'
  <2>1. e.valid => e.at[1] \in DOMAIN Files BY <1>5 DEF IsElf, Names
  <2>2. \A l \in DOMAIN elfs : g[l].valid => g[l].at[1] \in DOMAIN Files BY <1>9 DEF TypeOK, ElfType
  <2>3. \A l \in DOMAIN g : l = n + 1 \/ l \in DOMAIN elfs BY <1>3, <1>4, <1>9
  <2>. QED BY <1>8, <1>9, <2>1, <2>2, <2>3 DEF ElfType
<1>11. ASSUME NEW x \in MapInfos, SameRegion(x, own), SameLinks(x, own), x.elf = n + 1, info' = [info EXCEPT ![i] = x]
       PROVE  /\ InfoKeeps /\ InfoType' /\ info'[i] = x /\ \A k \in DOMAIN info : k # i => info'[k] = info[k]
  <2>1. SameRegion(x, info[i]) /\ SameLinks(x, info[i]) BY <1>2, <1>11 DEF SameRegion, SameLinks
  <2>2. /\ InfoKeeps /\ info' \in Seq(MapInfos) /\ info'[i] = x
        /\ \A k \in DOMAIN info : k # i => info'[k] = info[k]
    BY <1>1, <1>4, <1>11, <2>1, InfoUpdate
  <2>3. \A k \in DOMAIN info : info[k].elf <= n BY <1>3 DEF TypeOK, InfoType
  <2>4. \A k \in DOMAIN info : info'[k].elf <= n + 1
    <3>1. TAKE k \in DOMAIN info
    <3>2. info[k].elf \in Nat BY <1>4, InfoFields
    <3>. QED BY <1>3, <1>11, <2>2, <2>3, <3>2
  <2>5. DOMAIN info' = DOMAIN info BY <1>4, <2>2 DEF InfoKeeps
  <2>. QED BY <1>8, <1>9, <2>2, <2>4, <2>5 DEF InfoType
<1>12. job[t].ph # "match" BY DEF GetElfPhases
<1>13. fault' \in BOOLEAN /\ SearchType'
       /\ bounds' \in [calls : Nat, remaps : Nat]
  BY DEF TypeOK, SearchType
<1>14. CASE IsElf(c)
  <2>1. PICK x : x = With(own, [elf |-> n + 1]) OBVIOUS
  <2>2. info' = [info EXCEPT ![i] = x] BY <1>3, <1>14, <2>1 DEF NewElf
  <2>3. /\ x \in MapInfos /\ SameRegion(x, own) /\ SameLinks(x, own) /\ x.mutex = own.mutex /\ x.elf = n + 1
        /\ x.elf_offset = own.elf_offset /\ x.elf_start = own.elf_start /\ x.mem = own.mem
    BY <1>2, <1>3, <2>1, WithElf
  <2>4. InfoKeeps /\ InfoType' /\ info'[i] = x /\ \A k \in DOMAIN info : k # i => info'[k] = info[k]
    BY <1>11, <2>2, <2>3
  <2>5. Go(t, WalkFor("share", i)) BY <1>14 DEF NewElf
  <2>6. PICK k : k = With(job[t], WalkFor("share", i)) OBVIOUS
  <2>7. JobIn(k, Len(info)) /\ k.ph = "walk" /\ k.goal = "share" /\ k.map = i /\ k.w = Before(i) BY <2>6, WalkIn
  <2>8. job'[t] = k BY <2>5, <2>6, GoEffect DEF TypeOK
  <2>9. TypeOK' /\ Quiet(t) BY <1>10, <1>12, <1>13, <2>4, <2>5, <2>6, <2>7, QuietType
  <2>. QED BY <1>2, <1>3, <1>5, <1>8, <1>9, <1>14, <2>3, <2>4, <2>7, <2>8, <2>9
<1>15. CASE ~IsElf(c)
  <2>1. PICK x : x = With(own, [elf |-> n + 1, elf_start |-> own.off, mutex |-> None]) OBVIOUS
  <2>2. info' = [info EXCEPT ![i] = x] BY <1>3, <1>15, <2>1 DEF NewElf
  <2>3. own.off \in Int BY <1>2, InfoFields
  <2>4. x \in MapInfos /\ SameRegion(x, own) /\ SameLinks(x, own) /\ x.mutex = None /\ x.elf = n + 1
    BY <1>2, <1>3, <2>1, <2>3, WithBadElf
  <2>5. InfoKeeps /\ InfoType' /\ info'[i] = x /\ \A k \in DOMAIN info : k # i => info'[k] = info[k]
    BY <1>11, <2>2, <2>4
  <2>6. Go(t, [ph |-> "got"]) BY <1>15 DEF NewElf
  <2>7. "got" \in Phases \ {"walk", "search"} BY DEF Phases, GetElfPhases
  <2>8. PICK k : k = With(job[t], [ph |-> "got"]) OBVIOUS
  <2>9. k.ph = "got" /\ k.map = i BY <2>7, <2>8, JobsOf, WithPhase
  <2>10. job[t].map # 0 BY JobsOf DEF JobIn
  <2>11. JobIn(k, Len(info)) BY <2>7, <2>8, <2>10, PhaseIn
  <2>12. job'[t] = k BY <2>6, <2>8, GoEffect DEF TypeOK
  <2>13. TypeOK' /\ Quiet(t) BY <1>10, <1>12, <1>13, <2>5, <2>6, <2>8, <2>9, <2>11, QuietType
  <2>. QED BY <1>3, <1>5, <1>8, <1>9, <1>15, <2>4, <2>5, <2>9, <2>12, <2>13
<1>. QED BY <1>14, <1>15

LEMMA BlankPlace == << "", 0 >> \in Names \X Int
<1>1. PICK b : b = "" OBVIOUS
<1>2. b \in Names BY <1>1 DEF Names
<1>3. << b, 0 >> \in Names \X Int BY <1>2
<1>. QED BY <1>1, <1>3

LEMMA ContentType ==
  ASSUME TypeOK, NEW addr \in Int
  PROVE  Content(addr) \in Names \X Int
<1>1. PICK r : r = {k \in DOMAIN kernel : addr >= kernel[k].start /\ addr < kernel[k].end /\ "r" \in kernel[k].flags}
  OBVIOUS
<1>2. CASE r = {}
  <2>1. Content(addr) = << "", 0 >> BY <1>1, <1>2 DEF Content
  <2>. QED BY <2>1, BlankPlace
<1>3. CASE r # {}
  <2>1. PICK k : k = CHOOSE x \in r : TRUE OBVIOUS
  <2>2. k \in DOMAIN kernel BY <1>1, <1>3, <2>1
  <2>3. kernel \in Layouts BY DEF TypeOK
  <2>4. kernel[k] \in Regions BY <2>2, <2>3, LayoutRegions
  <2>5. kernel[k].name \in Names /\ kernel[k].off \in Int /\ kernel[k].start \in Int BY <2>4, RegionFields
  <2>6. Content(addr) = << kernel[k].name, kernel[k].off + addr - kernel[k].start >>
    BY <1>1, <1>3, <2>1 DEF Content
  <2>. QED BY <2>5, <2>6
<1>. QED BY <1>2, <1>3

(* The ways to an Elf: what it is read from, and the fields that are set.  *)
FromFile(t, m) ==
  \/ NewElf(t, << "", 0 >>, NoFields)
  \/ m.off = 0 /\ NewElf(t, << m.name, 0 >>, NoFields)
  \/ NewElf(t, << m.name, m.off >>, [elf_start |-> m.off])
  \/ NewElf(t, << m.name, 0 >>, [elf_offset |-> m.off])
  \/ NewElf(t, Content(m.start), [mem |-> TRUE, elf_start |-> m.off])

LEMMA GetFileMemoryCases ==
  ASSUME TypeOK, NEW t \in Thread, GetFileMemory(t), NEW i, i = job[t].map, NEW m, m = info[i]
  PROVE  \/ FromFile(t, m)
         \/ Go(t, WalkFor("fileprev", i)) /\ UNCHANGED << info, elfs >> /\ ~ElfAt(m.name, m.off)
         \/ Go(t, WalkFor("memprev", i)) /\ info' = [info EXCEPT ![i].mem = TRUE] /\ UNCHANGED elfs
BY DEF GetFileMemory, FromFile

LEMMA NewElfType ==
  ASSUME TypeOK, NEW t \in Thread, job[t].ph \in GetElfPhases,
         NEW c \in Names \X Int, NEW fields, Located(fields), NewElf(t, c, fields),
         UNCHANGED << kernel, maps, writer, search, fault, parsed, bounds >>
  PROVE  TypeOK' /\ Quiet(t)
<1>1. PICK i : i = job[t].map OBVIOUS
<1>2. PICK own : own = With(info[i], fields) OBVIOUS
<1>. QED BY <1>1, <1>2, NewElfEffect

LEMMA FieldsLocated ==
  /\ Located(NoFields)
  /\ \A o \in Int : Located([elf_start |-> o]) /\ Located([elf_offset |-> o]) /\ Located([mem |-> TRUE, elf_start |-> o])
  /\ Located([mem |-> FALSE])
  /\ \A o, s \in Int : Located([elf_offset |-> o, elf_start |-> s])
<1>1. Located(NoFields) BY DEF Located, NoFields
<1>2. \A o \in Int : Located([elf_start |-> o]) /\ Located([elf_offset |-> o]) BY DEF Located
<1>3. \A o \in Int : Located([mem |-> TRUE, elf_start |-> o]) BY DEF Located
<1>4. Located([mem |-> FALSE]) BY DEF Located
<1>5. \A o, s \in Int : Located([elf_offset |-> o, elf_start |-> s]) BY DEF Located
<1>. QED BY <1>1, <1>2, <1>3, <1>4, <1>5

(* A new Elf, whatever it is read from.                                    *)
Opens(t) == \E c \in Names \X Int : \E fields : Located(fields) /\ NewElf(t, c, fields)

LEMMA OpensType ==
  ASSUME TypeOK, NEW t \in Thread, job[t].ph \in GetElfPhases, Opens(t),
         UNCHANGED << kernel, maps, writer, search, fault, parsed, bounds >>
  PROVE  TypeOK' /\ Quiet(t)
BY NewElfType DEF Opens

LEMMA FromFileOpens ==
  ASSUME TypeOK, NEW t \in Thread, NEW m \in MapInfos, FromFile(t, m) PROVE Opens(t)
<1>1. m.name \in Names /\ m.off \in Int /\ m.start \in Int BY InfoFields
<1>2. << m.name, 0 >> \in Names \X Int /\ << m.name, m.off >> \in Names \X Int BY <1>1
<1>3. Content(m.start) \in Names \X Int BY <1>1, ContentType
<1>. QED BY <1>1, <1>2, <1>3, BlankPlace, FieldsLocated DEF FromFile, Opens

LEMMA GetFileMemoryType == ASSUME TypeOK, NEW t \in Thread, GetFileMemory(t) PROVE TypeOK' /\ Quiet(t)
<1>1. job[t].ph = "file" /\ UNCHANGED << kernel, maps, writer, search, fault, parsed, bounds >>
  BY DEF GetFileMemory, At
<1>2. job[t].ph \in GetElfPhases /\ job[t].ph # "match" BY <1>1 DEF GetElfPhases
<1>3. PICK i : i = job[t].map /\ i \in DOMAIN info /\ info[i] \in MapInfos BY <1>2, MapOf
<1>4. PICK m : m = info[i] OBVIOUS
<1>7. CASE FromFile(t, m) BY <1>1, <1>2, <1>3, <1>4, <1>7, FromFileOpens, OpensType
<1>8. CASE Go(t, WalkFor("fileprev", i)) /\ UNCHANGED << info, elfs >>
  <2>1. PICK k : k = With(job[t], WalkFor("fileprev", i)) OBVIOUS
  <2>2. JobIn(k, Len(info)) /\ k.ph = "walk" BY <1>2, <1>3, <2>1, WalkIn
  <2>. QED BY <1>1, <1>2, <1>8, <2>1, <2>2, JobOnly DEF TypeOK, SearchType
<1>9. CASE Go(t, WalkFor("memprev", i)) /\ info' = [info EXCEPT ![i].mem = TRUE] /\ UNCHANGED elfs
  <2>1. PICK k : k = With(job[t], WalkFor("memprev", i)) OBVIOUS
  <2>2. JobIn(k, Len(info)) /\ k.ph = "walk" BY <1>2, <1>3, <2>1, WalkIn
  <2>3. PICK x : x = [m EXCEPT !.mem = TRUE] OBVIOUS
  <2>4. x \in MapInfos /\ SameRegion(x, m) /\ SameLinks(x, m) /\ x.elf = m.elf
    <3>1. PICK b \in BOOLEAN : b = TRUE OBVIOUS
    <3>2. x = [m EXCEPT !.mem = b] BY <2>3, <3>1
    <3>. QED BY <1>3, <1>4, <3>2, SetMem
  <2>5. info' = [info EXCEPT ![i] = x] BY <1>4, <1>9, <2>3
  <2>6. info \in Seq(MapInfos) BY DEF TypeOK, InfoType
  <2>7. /\ InfoKeeps /\ info' \in Seq(MapInfos) /\ info'[i] = x
        /\ \A l \in DOMAIN info : l # i => info'[l] = info[l]
    BY <1>3, <1>4, <2>4, <2>5, <2>6, InfoUpdate
  <2>8. InfoType'
    <3>1. \A l \in DOMAIN info : info'[l].elf = info[l].elf BY <1>4, <2>4, <2>7
    <3>2. DOMAIN info' = DOMAIN info BY <2>6, <2>7 DEF InfoKeeps
    <3>. QED BY <1>9, <2>7, <3>1, <3>2 DEF InfoType, TypeOK
  <2>9. ElfType' BY <1>9 DEF ElfType, TypeOK
  <2>. QED BY <1>1, <1>2, <1>9, <2>1, <2>2, <2>7, <2>8, <2>9, QuietType DEF TypeOK, SearchType
<1>. QED BY <1>3, <1>4, <1>7, <1>8, <1>9, GetFileMemoryCases

LEMMA JobMapW ==
  ASSUME TypeOK, NEW t \in Thread, job[t].w # 0
  PROVE  job[t].w \in DOMAIN info /\ info[job[t].w] \in MapInfos
<1>1. PICK j : j = job[t] /\ j \in Jobs /\ JobIn(j, Len(info)) BY JobsOf
<1>2. j.w \in Nat /\ j.w <= Len(info) BY <1>1 DEF JobIn, Jobs
<1>3. info \in Seq(MapInfos) BY DEF TypeOK, InfoType
<1>. QED BY <1>1, <1>2, <1>3

LEMMA OffsetsLocated ==
  ASSUME NEW m \in MapInfos, NEW p \in MapInfos PROVE Located(OffsetsFrom(m, p))
<1>1. m.off - p.off \in Int /\ p.off \in Int BY InfoFields
<1>. QED BY <1>1, FieldsLocated DEF OffsetsFrom

LEMMA FromPreviousReadOnlyMapOpens ==
  ASSUME TypeOK, NEW t \in Thread, FromPreviousReadOnlyMap(t) PROVE Opens(t)
<1>1. job[t].ph = "fileprev" BY DEF FromPreviousReadOnlyMap, At
<1>2. job[t].ph \in GetElfPhases BY <1>1 DEF GetElfPhases
<1>3. PICK m : m = info[job[t].map] /\ m \in MapInfos BY <1>2, MapOf
<1>4. PICK p : p = info[job[t].w] OBVIOUS
<1>5. m.name \in Names /\ m.off \in Int BY <1>3, InfoFields
<1>6. CASE job[t].w # 0 /\ NewElf(t, << m.name, p.off >>, OffsetsFrom(m, p))
  <2>1. p \in MapInfos BY <1>4, <1>6, JobMapW
  <2>2. p.off \in Int BY <2>1, InfoFields
  <2>3. << m.name, p.off >> \in Names \X Int BY <1>5, <2>2
  <2>. QED BY <1>3, <1>6, <2>1, <2>3, OffsetsLocated DEF Opens
<1>7. CASE NewElf(t, << m.name, m.off >>, NoFields)
  <2>1. << m.name, m.off >> \in Names \X Int BY <1>5
  <2>. QED BY <1>7, <2>1, FieldsLocated DEF Opens
<1>. QED BY <1>3, <1>4, <1>6, <1>7 DEF FromPreviousReadOnlyMap

LEMMA FromPreviousReadOnlyMapType ==
  ASSUME TypeOK, NEW t \in Thread, FromPreviousReadOnlyMap(t) PROVE TypeOK' /\ Quiet(t)
<1>1. job[t].ph = "fileprev" /\ UNCHANGED << kernel, maps, writer, search, fault, parsed, bounds >>
  BY DEF FromPreviousReadOnlyMap, At
<1>2. job[t].ph \in GetElfPhases BY <1>1 DEF GetElfPhases
<1>. QED BY <1>1, <1>2, FromPreviousReadOnlyMapOpens, OpensType

LEMMA FromPreviousRangeOpens ==
  ASSUME TypeOK, NEW t \in Thread, FromPreviousRange(t) PROVE Opens(t)
<1>1. job[t].ph = "memprev" BY DEF FromPreviousRange, At
<1>2. job[t].ph \in GetElfPhases BY <1>1 DEF GetElfPhases
<1>3. PICK m : m = info[job[t].map] /\ m \in MapInfos BY <1>2, MapOf
<1>4. PICK p : p = info[job[t].w] OBVIOUS
<1>5. CASE job[t].w # 0 /\ NewElf(t, Content(p.start), OffsetsFrom(m, p))
  <2>1. p \in MapInfos BY <1>4, <1>5, JobMapW
  <2>2. p.start \in Int BY <2>1, InfoFields
  <2>3. Content(p.start) \in Names \X Int BY <2>2, ContentType
  <2>. QED BY <1>3, <1>5, <2>1, <2>3, OffsetsLocated DEF Opens
<1>6. CASE NewElf(t, << "", 0 >>, [mem |-> FALSE])
  <2>. QED BY <1>6, BlankPlace, FieldsLocated DEF Opens
<1>. QED BY <1>3, <1>4, <1>5, <1>6 DEF FromPreviousRange

LEMMA FromPreviousRangeType ==
  ASSUME TypeOK, NEW t \in Thread, FromPreviousRange(t) PROVE TypeOK' /\ Quiet(t)
<1>1. job[t].ph = "memprev" /\ UNCHANGED << kernel, maps, writer, search, fault, parsed, bounds >>
  BY DEF FromPreviousRange, At
<1>2. job[t].ph \in GetElfPhases BY <1>1 DEF GetElfPhases
<1>. QED BY <1>1, <1>2, FromPreviousRangeOpens, OpensType

LEMMA InfoUpdateTwo ==
  ASSUME info \in Seq(MapInfos), NEW i \in DOMAIN info, NEW w \in DOMAIN info, i # w,
         NEW x \in MapInfos, SameRegion(x, info[i]), SameLinks(x, info[i]),
         NEW y \in MapInfos, SameRegion(y, info[w]), SameLinks(y, info[w]),
         info' = [info EXCEPT ![i] = x, ![w] = y]
  PROVE  /\ InfoKeeps /\ info' \in Seq(MapInfos) /\ info'[i] = x /\ info'[w] = y
         /\ \A k \in DOMAIN info : k # i /\ k # w => info'[k] = info[k]
<1>1. PICK u : u = [info EXCEPT ![i] = x] OBVIOUS
<1>2. PICK v : v = [u EXCEPT ![w] = y] OBVIOUS
<1>3. /\ u \in Seq(MapInfos) /\ Len(u) = Len(info) /\ DOMAIN u = DOMAIN info /\ u[i] = x
      /\ \A k \in DOMAIN info : k # i => u[k] = info[k]
  BY <1>1, SeqUpdate
<1>4. /\ v \in Seq(MapInfos) /\ Len(v) = Len(u) /\ v[w] = y /\ \A k \in DOMAIN u : k # w => v[k] = u[k]
  BY <1>2, <1>3, SeqUpdate
<1>5. info' = v BY <1>1, <1>2
<1>. QED BY <1>3, <1>4, <1>5 DEF InfoKeeps, SameRegion, SameLinks

(* What the map before gets from m, and m from it.                         *)
Takes(a, m, p)  == /\ SameRegion(a, m) /\ SameLinks(a, m) /\ a.mutex = None
                   /\ a.elf_offset = m.elf_offset /\ a.elf_start = m.elf_start /\ a.mem = m.mem
                   /\ \/ a.elf = m.elf
                      \/ p.elf # NoElf /\ a.elf = p.elf /\ p.elf_start = m.elf_start
Gives(b, m, p)  == /\ SameRegion(b, p) /\ SameLinks(b, p) /\ b.mutex = p.mutex
                   /\ \/ b = p
                      \/ /\ p.elf = NoElf /\ b.elf = m.elf /\ b.mem = m.mem /\ b.elf_start = m.elf_start
                         /\ b.elf_offset = p.off - m.elf_start

(* With the same start the two share one Elf.                              *)
Agree(a, b) == b.elf # NoElf /\ (b.elf_start = a.elf_start => b.elf = a.elf)

LEMMA TakeElf ==
  ASSUME NEW n \in MapInfos, NEW p \in MapInfos, NEW a, a = [n EXCEPT !.elf = p.elf]
  PROVE  /\ a \in MapInfos /\ SameRegion(a, n) /\ SameLinks(a, n) /\ a.mutex = n.mutex /\ a.elf = p.elf
         /\ a.elf_offset = n.elf_offset /\ a.elf_start = n.elf_start /\ a.mem = n.mem
<1>1. p.elf \in Nat BY InfoFields
<1>. QED BY <1>1, SetElf

LEMMA AdoptEffect ==
  ASSUME NEW m \in MapInfos, NEW p \in MapInfos, NEW n \in MapInfos, n = [m EXCEPT !.mutex = None],
         NEW a, NEW b, << a, b >> = Adopt(n, p)
  PROVE  /\ a \in MapInfos /\ b \in MapInfos /\ Takes(a, m, p) /\ Gives(b, m, p)
         /\ a.elf \in {m.elf, p.elf} /\ b.elf \in {m.elf, p.elf}
         /\ m.elf # NoElf => Agree(a, b)
<1>1. None \in Thread \cup {None} OBVIOUS
<1>2. /\ SameRegion(n, m) /\ SameLinks(n, m) /\ n.mutex = None /\ n.elf = m.elf
      /\ n.elf_offset = m.elf_offset /\ n.elf_start = m.elf_start /\ n.mem = m.mem
  BY <1>1, SetMutex
<1>3. CASE p.elf = NoElf
  <2>1. a = n BY <1>3 DEF Adopt
  <2>2. b = [p EXCEPT !.elf = n.elf, !.mem = n.mem, !.elf_start = n.elf_start, !.elf_offset = p.off - n.elf_start]
    BY <1>3 DEF Adopt
  <2>3. n.elf \in Nat /\ n.mem \in BOOLEAN /\ n.elf_start \in Int /\ p.off - n.elf_start \in Int
    BY InfoFields
  <2>4. PICK e \in Nat, c \in BOOLEAN, s \in Int, o \in Int :
          e = n.elf /\ c = n.mem /\ s = n.elf_start /\ o = p.off - n.elf_start
    BY <2>3
  <2>5. b = [p EXCEPT !.elf = e, !.mem = c, !.elf_start = s, !.elf_offset = o] BY <2>2, <2>4
  <2>6. b \in MapInfos BY <2>5 DEF MapInfos
  <2>7. b.elf = e /\ b.mem = c /\ b.elf_start = s /\ b.elf_offset = o /\ b.mutex = p.mutex BY <2>5 DEF MapInfos
  <2>8. SameRegion(b, p) /\ SameLinks(b, p) BY <2>5 DEF MapInfos, SameRegion, SameLinks
  <2>9. Takes(a, m, p) BY <1>2, <2>1 DEF Takes
  <2>10. Gives(b, m, p) BY <1>2, <1>3, <2>4, <2>7, <2>8 DEF Gives
  <2>11. m.elf # NoElf => Agree(a, b) BY <1>2, <2>1, <2>4, <2>7 DEF Agree
  <2>. QED BY <1>2, <2>1, <2>4, <2>6, <2>7, <2>9, <2>10, <2>11
<1>4. CASE p.elf # NoElf
  <2>1. b = p BY <1>4 DEF Adopt
  <2>2. Gives(b, m, p) BY <2>1 DEF Gives, SameRegion, SameLinks
  <2>3. CASE p.elf_start = n.elf_start
    <3>1. a = [n EXCEPT !.elf = p.elf] BY <1>4, <2>3 DEF Adopt
    <3>3. /\ a \in MapInfos /\ SameRegion(a, n) /\ SameLinks(a, n) /\ a.mutex = n.mutex /\ a.elf = p.elf
          /\ a.elf_offset = n.elf_offset /\ a.elf_start = n.elf_start /\ a.mem = n.mem
      <4>1. n \in MapInfos /\ p \in MapInfos OBVIOUS
      <4>. QED BY ONLY <3>1, <4>1, TakeElf
    <3>4. SameRegion(a, m) /\ SameLinks(a, m) BY <1>2, <3>3 DEF SameRegion, SameLinks
    <3>5. Takes(a, m, p) BY <1>2, <1>4, <2>3, <3>3, <3>4 DEF Takes
    <3>6. Agree(a, b) BY <1>4, <2>1, <3>3 DEF Agree
    <3>. QED BY <2>1, <2>2, <3>3, <3>5, <3>6
  <2>4. CASE p.elf_start # n.elf_start
    <3>1. a = n BY <1>4, <2>4 DEF Adopt
    <3>2. Takes(a, m, p) BY <1>2, <3>1 DEF Takes
    <3>3. Agree(a, b) BY <1>2, <1>4, <2>1, <2>4, <3>1 DEF Agree
    <3>. QED BY <1>2, <2>1, <2>2, <3>1, <3>2, <3>3
  <2>. QED BY <2>3, <2>4
<1>. QED BY <1>3, <1>4

LEMMA ShareElfEffect ==
  ASSUME TypeOK, NEW t \in Thread, ShareElf(t), NEW i, i = job[t].map, NEW w, w = job[t].w
  PROVE  /\ TypeOK' /\ Quiet(t) /\ UNCHANGED << elfs, bounds >>
         /\ i \in DOMAIN info /\ job'[t].ph = "got" /\ job'[t].map = i
         /\ \/ /\ Takes(info'[i], info[i], info[i]) /\ \A k \in DOMAIN info : k # i => info'[k] = info[k]
               /\ w = 0 \/ info[w].flags # {"r"} \/ info[w].off >= info[i].off
            \/ /\ w \in DOMAIN info /\ w # i /\ info[w].mutex = None /\ info[w].flags = {"r"}
               /\ Takes(info'[i], info[i], info[w]) /\ Gives(info'[w], info[i], info[w])
               /\ info[i].elf # NoElf => Agree(info'[i], info'[w])
               /\ \A k \in DOMAIN info : k # i /\ k # w => info'[k] = info[k]
<1>1. job[t].ph = "share" /\ UNCHANGED << kernel, maps, writer, elfs, search, fault, parsed, bounds >>
      /\ Go(t, [ph |-> "got", w |-> 0])
  BY DEF ShareElf, At
<1>2. job[t].ph \in GetElfPhases BY <1>1 DEF GetElfPhases
<1>3. i \in DOMAIN info /\ info[i] \in MapInfos BY <1>2, MapOf
<1>4. PICK k : k = With(job[t], [ph |-> "got", w |-> 0]) OBVIOUS
<1>5. /\ JobIn(k, Len(info)) /\ k.ph = "got" /\ k.map = i /\ job'[t] = k
  <2>1. PICK p : p = "got" OBVIOUS
  <2>2. p \in Phases /\ p \in GetElfPhases /\ p \notin {"walk", "search"} BY <2>1 DEF Phases, GetElfPhases
  <2>3. PICK j : j = job[t] /\ j \in Jobs /\ JobIn(j, Len(info)) BY JobsOf
  <2>4. k = With(j, [ph |-> p, w |-> 0]) BY <1>4, <2>1, <2>3
  <2>5. k \in Jobs /\ k.ph = p /\ k.w = 0 /\ k.map = j.map /\ k.zero = j.zero /\ k.frame = j.frame
    BY <2>2, <2>3, <2>4, WithArrived
  <2>6. j.map # 0 BY <1>2, <2>3 DEF JobIn
  <2>7. Len(info) \in Nat BY JobsOf
  <2>10. k.map <= Len(info) /\ k.zero <= Len(info) /\ k.frame <= Len(info) BY <2>3, <2>5 DEF JobIn
  <2>11. k.w <= Len(info) BY <2>5, <2>7
  <2>12. k.map # 0 /\ k.ph # "walk" /\ k.ph # "search" BY <2>2, <2>5, <2>6
  <2>8. JobIn(k, Len(info)) BY <2>5, <2>10, <2>11, <2>12 DEF JobIn
  <2>9. job'[t] = k BY <1>1, <1>4, GoEffect DEF TypeOK
  <2>. QED BY <2>1, <2>3, <2>5, <2>8, <2>9
<1>6. ElfType' BY <1>1 DEF TypeOK, ElfType
<1>7. info \in Seq(MapInfos) /\ \A l \in DOMAIN info : info[l].elf <= Len(elfs) BY DEF TypeOK, InfoType
<1>8. PICK n : n = [info[i] EXCEPT !.mutex = None] OBVIOUS
<1>9. /\ n \in MapInfos /\ SameRegion(n, info[i]) /\ SameLinks(n, info[i]) /\ n.mutex = None /\ n.elf = info[i].elf
      /\ n.elf_offset = info[i].elf_offset /\ n.elf_start = info[i].elf_start /\ n.mem = info[i].mem /\ n.off = info[i].off
  <2>1. None \in Thread \cup {None} OBVIOUS
  <2>2. /\ n \in MapInfos /\ SameRegion(n, info[i]) /\ SameLinks(n, info[i]) /\ n.mutex = None /\ n.elf = info[i].elf
        /\ n.elf_offset = info[i].elf_offset /\ n.elf_start = info[i].elf_start /\ n.mem = info[i].mem
    BY <1>3, <1>8, <2>1, SetMutex
  <2>. QED BY <2>2 DEF SameRegion
<1>10. ASSUME InfoKeeps, info' \in Seq(MapInfos), \A l \in DOMAIN info : info'[l].elf <= Len(elfs)
       PROVE  TypeOK' /\ Quiet(t)
  <2>1. DOMAIN info' = DOMAIN info BY <1>7, <1>10 DEF InfoKeeps
  <2>2. InfoType' BY <1>1, <1>10, <2>1 DEF InfoType
  <2>3. job[t].ph # "match" /\ k.ph # "match" BY <1>1, <1>5
  <2>. QED BY <1>1, <1>4, <1>5, <1>6, <1>10, <2>2, <2>3, QuietType DEF TypeOK, SearchType
<1>11. CASE (w = 0 \/ info[w].flags # {"r"} \/ info[w].off >= n.off) /\ info' = [info EXCEPT ![i] = n]
  <2>1. /\ InfoKeeps /\ info' \in Seq(MapInfos) /\ info'[i] = n
        /\ \A l \in DOMAIN info : l # i => info'[l] = info[l]
    BY <1>3, <1>7, <1>9, <1>11, InfoUpdate
  <2>2. \A l \in DOMAIN info : info'[l].elf <= Len(elfs) BY <1>7, <1>9, <2>1
  <2>3. Takes(info'[i], info[i], info[i]) BY <1>9, <2>1 DEF Takes
  <2>4. w = 0 \/ info[w].flags # {"r"} \/ info[w].off >= info[i].off BY <1>9, <1>11
  <2>. QED BY <1>1, <1>3, <1>5, <1>10, <2>1, <2>2, <2>3, <2>4
<1>12. CASE /\ w # 0 /\ info[w].flags = {"r"} /\ ~(info[w].off >= n.off) /\ info[w].mutex = None
            /\ info' = [info EXCEPT ![i] = Adopt(n, info[w])[1], ![w] = Adopt(n, info[w])[2]]
  <2>1. w \in DOMAIN info /\ info[w] \in MapInfos BY <1>12, JobMapW
  <2>2. w # i
    <3>1. info[w].off \in Nat BY <2>1, InfoFields
    <3>. QED BY <1>9, <1>12, <3>1
  <2>8. PICK x : x = Adopt(n, info[w])[1] OBVIOUS
  <2>9. PICK y : y = Adopt(n, info[w])[2] OBVIOUS
  <2>3. << x, y >> = Adopt(n, info[w]) BY <2>8, <2>9 DEF Adopt
  <2>4. info' = [info EXCEPT ![i] = x, ![w] = y] BY <1>12, <2>8, <2>9
  <2>5. /\ x \in MapInfos /\ y \in MapInfos /\ Takes(x, info[i], info[w]) /\ Gives(y, info[i], info[w])
        /\ x.elf \in {info[i].elf, info[w].elf} /\ y.elf \in {info[i].elf, info[w].elf}
        /\ info[i].elf # NoElf => Agree(x, y)
    BY <1>3, <1>8, <1>9, <2>1, <2>3, AdoptEffect
  <2>6. /\ InfoKeeps /\ info' \in Seq(MapInfos) /\ info'[i] = x /\ info'[w] = y
        /\ \A l \in DOMAIN info : l # i /\ l # w => info'[l] = info[l]
    BY <1>3, <1>7, <2>1, <2>2, <2>4, <2>5, InfoUpdateTwo DEF Takes, Gives
  <2>7. \A l \in DOMAIN info : info'[l].elf <= Len(elfs) BY <1>3, <1>7, <2>1, <2>5, <2>6
  <2>. QED BY <1>1, <1>3, <1>5, <1>10, <1>12, <2>1, <2>2, <2>5, <2>6, <2>7
<1>. QED BY <1>8, <1>11, <1>12 DEF ShareElf

LEMMA GotType == ASSUME TypeOK, NEW t \in Thread, Got(t) PROVE TypeOK' /\ Quiet(t)
<1>1. job[t].ph = "got" /\ UNCHANGED << kernel, info, maps, writer, elfs, fault, parsed, bounds >>
  BY DEF Got, At
<1>2. job[t].ph # "match" BY <1>1
<1>3. CASE Go(t, IdleJob) /\ UNCHANGED search
  BY <1>1, <1>2, <1>3, IdleType DEF TypeOK, SearchType
<1>4. CASE /\ search' = [search EXCEPT !.by = t]
           /\ Go(t, [ph |-> "search", it |-> 1, zero |-> 0, dead |-> FALSE, frame |-> job[t].map])
  <2>1. PICK j : j = job[t] /\ j \in Jobs /\ JobIn(j, Len(info)) BY JobsOf
  <2>2. PICK p : p = "search" OBVIOUS
  <2>3. p \in Phases /\ p \notin GetElfPhases /\ p # "walk" /\ p # "match" BY <2>2 DEF Phases, GetElfPhases
  <2>11. PICK b \in BOOLEAN : b = FALSE OBVIOUS
  <2>4. PICK one \in Nat, none \in Nat : one = 1 /\ none = 0 OBVIOUS
  <2>13. PICK k : k = With(j, [ph |-> p, it |-> one, zero |-> none, dead |-> b, frame |-> j.map]) OBVIOUS
  <2>5. j.map \in Nat /\ j.map <= Len(info) /\ j.w <= Len(info) /\ Len(info) \in Nat
    BY <2>1, JobsOf DEF JobIn, Jobs
  <2>6. k \in Jobs /\ k.ph = p /\ k.it = 1 /\ k.zero = 0 /\ k.frame = j.map /\ k.map = j.map /\ k.w = j.w
    <3>1. k \in Jobs /\ k.ph = p /\ k.it = one /\ k.zero = none /\ k.frame = j.map /\ k.map = j.map /\ k.w = j.w
      BY <2>1, <2>3, <2>13, <2>5, WithSearch
    <3>. QED BY <2>4, <3>1
  <2>7. k.zero <= Len(info) BY <2>5, <2>6
  <2>12. k.it # 0 BY <2>6
  <2>8. JobIn(k, Len(info)) BY <2>3, <2>5, <2>6, <2>7, <2>12 DEF JobIn
  <2>9. SearchType'
    <3>1. search' = [by |-> t, descriptor |-> search.descriptor] BY <1>4 DEF TypeOK, SearchType
    <3>2. t \in Thread \cup {None} OBVIOUS
    <3>. QED BY <3>1, <3>2 DEF SearchType
  <2>10. Go(t, [ph |-> p, it |-> one, zero |-> none, dead |-> b, frame |-> j.map]) BY <1>4, <2>1, <2>2, <2>11, <2>4
  <2>. QED BY <1>1, <1>2, <2>1, <2>3, <2>13, <2>6, <2>8, <2>9, <2>10, JobOnly DEF TypeOK, SearchType
<1>. QED BY <1>3, <1>4 DEF Got

LEMMA ReleaseType ==
  ASSUME TypeOK, NEW t \in Thread, Release(t) PROVE SearchType'
<1>1. search' = [by |-> None, descriptor |-> search.descriptor] BY DEF Release, TypeOK, SearchType
<1>2. None \in Thread \cup {None} OBVIOUS
<1>. QED BY <1>1, <1>2 DEF SearchType

LEMMA FindVariableType == ASSUME TypeOK, NEW t \in Thread, FindVariable(t) PROVE TypeOK' /\ Quiet(t)
<1>1. job[t].ph = "search" /\ UNCHANGED << kernel, info, maps, writer, elfs, parsed, bounds >>
  BY DEF FindVariable, At
<1>2. job[t].ph # "match" BY <1>1
<1>3. PICK j : j = job[t] /\ j \in Jobs /\ JobIn(j, Len(info)) /\ Len(info) \in Nat BY JobsOf
<1>4. PICK i : i = maps[j.it] OBVIOUS
<1>5. CASE fault' = TRUE /\ UNCHANGED << job, search >>
  BY <1>1, <1>2, <1>5, FaultOnly
<1>6. CASE Release(t) /\ UNCHANGED fault
  BY <1>1, <1>2, <1>6, ReleaseType, IdleType DEF Release, TypeOK, SearchType
<1>7. CASE /\ UNCHANGED << fault, search >> /\ j.zero # 0
           /\ Go(t, [ph |-> "found", raw |-> TRUE, map |-> j.zero])
  <2>1. PICK p : p = "found" OBVIOUS
  <2>2. p \in Phases /\ p \notin GetElfPhases /\ p # "walk" /\ p # "match" /\ p # "search"
    BY <2>1 DEF Phases, GetElfPhases
  <2>3. PICK b : b = TRUE OBVIOUS
  <2>4. PICK k : k = With(j, [ph |-> p, raw |-> b, map |-> j.zero]) OBVIOUS
  <2>5. b \in BOOLEAN /\ j.zero \in Nat /\ j.zero <= Len(info) BY <1>3, <2>3 DEF JobIn, Jobs
  <2>6. k \in Jobs /\ k.ph = p /\ k.map = j.zero /\ k.w = j.w /\ k.zero = j.zero /\ k.frame = j.frame
    BY <1>3, <2>2, <2>4, <2>5, WithRaw
  <2>7. JobIn(k, Len(info)) BY <1>3, <2>2, <2>5, <2>6 DEF JobIn
  <2>8. Go(t, [ph |-> p, raw |-> b, map |-> j.zero]) BY <1>7, <2>1, <2>3
  <2>. QED BY <1>1, <1>2, <1>3, <1>7, <2>2, <2>4, <2>6, <2>7, <2>8, JobOnly DEF TypeOK, SearchType
<1>8. CASE /\ j.it <= Len(maps) /\ UNCHANGED << fault, search >>
           /\ \E z \in {i, j.zero} : Go(t, [it |-> j.it + 1, zero |-> z])
  <2>1. PICK z \in {i, j.zero} : Go(t, [it |-> j.it + 1, zero |-> z]) BY <1>8
  <2>2. j.it \in Nat /\ j.it # 0 /\ j.zero \in Nat /\ j.zero <= Len(info) BY <1>1, <1>3 DEF JobIn, Jobs
  <2>3. i \in 0..Len(info)
    <3>1. maps \in Seq(0..Len(info)) BY DEF TypeOK
    <3>. QED BY <1>4, <1>8, <2>2, <3>1
  <2>4. z \in Nat /\ z <= Len(info) BY <1>3, <2>1, <2>2, <2>3
  <2>5. PICK k : k = With(j, [it |-> j.it + 1, zero |-> z]) OBVIOUS
  <2>6. k \in Jobs /\ k.it = j.it + 1 /\ k.zero = z /\ k.ph = j.ph /\ k.map = j.map /\ k.w = j.w /\ k.frame = j.frame
    <3>1. j.it + 1 \in Nat BY <2>2
    <3>. QED BY <1>3, <2>4, <2>5, <3>1, WithEntry
  <2>7. k.it # 0 BY <2>2, <2>6
  <2>8. k.ph # "walk" /\ k.ph \notin GetElfPhases /\ k.ph # "match" BY <1>1, <1>3, <2>6 DEF GetElfPhases
  <2>9. JobIn(k, Len(info)) BY <1>3, <2>4, <2>6, <2>7, <2>8 DEF JobIn
  <2>. QED BY <1>1, <1>2, <1>3, <1>8, <2>1, <2>5, <2>8, <2>9, JobOnly DEF TypeOK, SearchType
<1>9. \/ fault' = TRUE /\ UNCHANGED << job, search >>
      \/ Release(t) /\ UNCHANGED fault
      \/ /\ UNCHANGED << fault, search >> /\ j.zero # 0
         /\ Go(t, [ph |-> "found", raw |-> TRUE, map |-> j.zero])
      \/ /\ j.it <= Len(maps) /\ UNCHANGED << fault, search >>
         /\ \E z \in {i, j.zero} : Go(t, [it |-> j.it + 1, zero |-> z])
  <2>1. PICK z : z = IF info[i].off = 0 /\ info[i].name # "" THEN i ELSE j.zero OBVIOUS
  <2>2. z \in {i, j.zero} BY <2>1
  <2>. QED BY <1>3, <1>4, <2>1, <2>2 DEF FindVariable
<1>. QED BY <1>5, <1>6, <1>7, <1>8, <1>9

LEMMA ReadVariableType == ASSUME TypeOK, NEW t \in Thread, ReadVariable(t) PROVE TypeOK' /\ Quiet(t)
<1>1. job[t].ph = "got" /\ UNCHANGED << kernel, info, maps, writer, elfs, parsed, bounds >>
  BY DEF ReadVariable, At
<1>2. job[t].ph # "match" BY <1>1
<1>3. PICK j : j = job[t] /\ j \in Jobs /\ JobIn(j, Len(info)) /\ Len(info) \in Nat BY JobsOf
<1>4. PICK e : e = elfs[info[j.map].elf] OBVIOUS
<1>5. PICK var : var = IF e.valid THEN Files[e.at[1]].var ELSE 0 OBVIOUS
<1>6. PICK i : i = IF j.it <= Len(maps) THEN maps[j.it] ELSE 0 OBVIOUS
<1>7. PICK m : m = info[i] OBVIOUS
<1>8. CASE fault' = TRUE /\ UNCHANGED << job, search >>
  BY <1>1, <1>2, <1>8, FaultOnly
<1>9. CASE /\ i # 0 /\ var # 0 /\ UNCHANGED fault /\ Go(t, IdleJob)
           /\ search' = [by |-> None, descriptor |-> m.start + var - m.off]
  <2>1. None \in Thread \cup {None} OBVIOUS
  <2>2. SearchType' BY <1>9, <2>1 DEF SearchType
  <2>. QED BY <1>1, <1>2, <1>9, <2>2, IdleType DEF TypeOK
<1>10. CASE /\ UNCHANGED << fault, search >>
            /\ Go(t, [ph |-> "search", raw |-> FALSE, map |-> 0, it |-> j.it + 1])
  <2>1. PICK p : p = "search" OBVIOUS
  <2>2. p \in Phases /\ p \notin GetElfPhases /\ p # "walk" /\ p # "match" BY <2>1 DEF Phases, GetElfPhases
  <2>3. PICK b : b = FALSE OBVIOUS
  <2>12. PICK none \in Nat : none = 0 OBVIOUS
  <2>13. PICK n : n = j.it + 1 OBVIOUS
  <2>4. PICK k : k = With(j, [ph |-> p, raw |-> b, map |-> none, it |-> n]) OBVIOUS
  <2>10. j.it \in Nat BY <1>3 DEF Jobs
  <2>11. b \in BOOLEAN BY <2>3
  <2>5. j.it + 1 \in Nat /\ 0 \in Nat BY <2>10
  <2>6. k \in Jobs /\ k.ph = p /\ k.map = 0 /\ k.it = j.it + 1 /\ k.w = j.w /\ k.zero = j.zero /\ k.frame = j.frame
    <3>1. n \in Nat BY <2>5, <2>13
    <3>2. k \in Jobs /\ k.ph = p /\ k.map = none /\ k.it = n /\ k.w = j.w /\ k.zero = j.zero /\ k.frame = j.frame
      BY <1>3, <2>2, <2>4, <2>11, <3>1, WithResume
    <3>. QED BY <2>12, <2>13, <3>2
  <2>7. k.map <= Len(info) /\ k.it # 0 BY <1>3, <2>6, <2>10
  <2>8. JobIn(k, Len(info)) BY <1>3, <2>2, <2>6, <2>7 DEF JobIn
  <2>9. Go(t, [ph |-> p, raw |-> b, map |-> none, it |-> n]) BY <1>10, <2>1, <2>3, <2>12, <2>13
  <2>. QED BY <1>1, <1>2, <1>3, <1>10, <2>2, <2>4, <2>6, <2>8, <2>9, JobOnly DEF TypeOK, SearchType
<1>. QED BY <1>3, <1>4, <1>5, <1>6, <1>7, <1>8, <1>9, <1>10 DEF ReadVariable

LEMMA FindType == ASSUME TypeOK, NEW t \in Thread, Find(t) PROVE TypeOK' /\ Quiet(t)
<1>1. PICK pc \in Pcs :
        Go(t, [ph |-> IF FindIn(maps, pc) = 0 THEN "reparse" ELSE "found", pc |-> pc, map |-> FindIn(maps, pc),
               failed |-> FALSE])
  BY DEF Find
<1>9. PICK i : i = FindIn(maps, pc) OBVIOUS
<1>2. PICK n : n = Len(info) /\ n \in Nat BY DEF TypeOK, InfoType
<1>3. i \in 0..n
  <2>1. i \in Range(maps) \cup {0} BY <1>9, FindInRange DEF TypeOK
  <2>. QED BY <1>2, <2>1 DEF TypeOK, Range
<1>4. JobIn(job[t], n) BY <1>2 DEF TypeOK, JobType
<1>5. PICK p : p = IF i = 0 THEN "reparse" ELSE "found" OBVIOUS
<1>8. PICK failed \in BOOLEAN : failed = FALSE OBVIOUS
<1>6. Go(t, [ph |-> p, pc |-> pc, map |-> i, failed |-> failed]) BY <1>1, <1>5, <1>8, <1>9
<1>10. PICK k : k = With(job[t], [ph |-> p, pc |-> pc, map |-> i, failed |-> failed]) OBVIOUS
<1>11. p \in Phases /\ p \notin GetElfPhases /\ p \notin {"walk", "search", "match"} BY <1>5 DEF Phases, GetElfPhases
<1>12. JobIn(k, n) /\ k.ph = p
  <2>1. job[t] \in Jobs /\ pc \in Nat BY <1>4, PcAssumption DEF JobIn
  <2>2. i \in Nat /\ i <= n BY <1>2, <1>3
  <2>3. k \in Jobs /\ k.ph = p /\ k.map = i /\ k.w = job[t].w /\ k.zero = job[t].zero /\ k.frame = job[t].frame
    BY <1>8, <1>10, <1>11, <2>1, <2>2, WithFound
  <2>. QED BY <1>4, <1>11, <2>2, <2>3 DEF JobIn
<1>7. bounds' \in [calls : Nat, remaps : Nat]
  <2>1. PICK b \in [calls : Nat, remaps : Nat] : b = bounds BY DEF TypeOK
  <2>2. bounds' = [b EXCEPT !.calls = b.calls + 1] BY <2>1 DEF Find
  <2>. QED BY <2>2
<1>13. UNCHANGED << kernel, info, maps, writer, elfs, search, fault, parsed >> /\ job[t].ph # "match" BY DEF Find, At
<1>14. InfoKeeps /\ InfoType' /\ ElfType' /\ SearchType' /\ fault' \in BOOLEAN
  BY <1>13 DEF TypeOK, InfoType, ElfType, SearchType, InfoKeeps, SameRegion, SameLinks
<1>. QED BY <1>2, <1>6, <1>7, <1>10, <1>11, <1>12, <1>13, <1>14, QuietType
----------------------------------------------------------------------------
(* K is a list of objects for the regions of l, linked along it.           *)
Chain(K, l) ==
  /\ K \in Seq(DOMAIN info) /\ Len(K) = Len(l)
  /\ \A r \in DOMAIN K :
       /\ SameMap(info[K[r]], l[r])
       /\ info[K[r]].prev = (IF r = 1 THEN 0 ELSE K[r - 1])
       /\ info[K[r]].next = (IF r = Len(K) THEN 0 ELSE K[r + 1])

(* A region that was there before has kept its object.                     *)
StillThere(K) ==
  \A i \in parsed.before : \A r \in DOMAIN parsed.layout :
     SameMap(info[i], parsed.layout[r]) => i = K[r]

(* The old objects not looked at yet, and the number of new ones that were. *)
Pending(j)   == j.from..j.last
Processed(j) == j.new - j.last - 1

(* In the middle of a Reparse K is the list that it will end with if no    *)
(* other old object is found again.                                        *)
Counters(j) ==
  /\ j.last \in Nat /\ j.from \in 1..(j.last + 1)
  /\ Len(maps) = j.last + Len(parsed.layout)
  /\ Processed(j) \in 0..Len(parsed.layout)

Unmatched(j, K) ==
  \A r \in DOMAIN K : r > Processed(j) =>
     /\ K[r] = maps[j.last + r] /\ K[r] \notin parsed.before
     /\ \A x \in DOMAIN maps : maps[x] = K[r] => x = j.last + r

OldOnes(j) ==
  \A x \in Pending(j) :
     /\ maps[x] \in parsed.before
     /\ Processed(j) > 0 => info[maps[x]].start > parsed.layout[Processed(j)].start
     /\ \A y \in Pending(j) : x < y => info[maps[x]].start < info[maps[y]].start

FoundOrPending(j, K) ==
  \A i \in parsed.before : \A r \in DOMAIN K :
     SameMap(info[i], parsed.layout[r]) =>
       IF r <= Processed(j) THEN K[r] = i ELSE \E x \in Pending(j) : maps[x] = i

Matching(j, K) ==
  /\ Counters(j) /\ Chain(K, parsed.layout)
  /\ Range(K) \subseteq Range(maps)
  /\ \A x \in DOMAIN maps : x \notin Pending(j) /\ maps[x] # 0 => maps[x] \in Range(K)
  /\ Unmatched(j, K) /\ OldOnes(j) /\ FoundOrPending(j, K)

ListInv ==
  /\ IF writer = None THEN Chain(maps, parsed.layout) /\ StillThere(maps)
     ELSE job[writer].ph = "match" /\ \E K : Matching(job[writer], K)
  /\ \A t \in Thread : job[t].ph = "match" => t = writer

LEMMA KeptFields ==
  ASSUME TypeOK, InfoKeeps, TypeOK'
  PROVE  /\ DOMAIN info' = DOMAIN info
         /\ \A i \in DOMAIN info :
              /\ info'[i].start = info[i].start /\ info'[i].end = info[i].end /\ info'[i].off = info[i].off
              /\ info'[i].flags = info[i].flags /\ info'[i].name = info[i].name
              /\ info'[i].prev = info[i].prev /\ info'[i].next = info[i].next
<1>1. info \in Seq(MapInfos) /\ info' \in Seq(MapInfos) BY DEF TypeOK, InfoType
<1>. QED BY <1>1 DEF InfoKeeps, SameRegion, SameLinks

LEMMA ChainKept ==
  ASSUME TypeOK, InfoKeeps, TypeOK', NEW K, NEW l, Chain(K, l)
  PROVE  Chain(K, l)'
<1>1. K \in Seq(DOMAIN info) /\ Len(K) = Len(l) BY DEF Chain
<1>2. DOMAIN info' = DOMAIN info BY KeptFields
<1>3. ASSUME NEW r \in DOMAIN K
      PROVE  /\ SameMap(info'[K[r]], l[r])
             /\ info'[K[r]].prev = (IF r = 1 THEN 0 ELSE K[r - 1])
             /\ info'[K[r]].next = (IF r = Len(K) THEN 0 ELSE K[r + 1])
  <2>1. K[r] \in DOMAIN info BY <1>1
  <2>2. PICK a, b : a = info[K[r]] /\ b = info'[K[r]] OBVIOUS
  <2>3. b.start = a.start /\ b.end = a.end /\ b.flags = a.flags /\ b.name = a.name /\ b.prev = a.prev /\ b.next = a.next
    BY <2>1, <2>2, KeptFields
  <2>4. SameMap(a, l[r]) /\ a.prev = (IF r = 1 THEN 0 ELSE K[r - 1]) /\ a.next = (IF r = Len(K) THEN 0 ELSE K[r + 1])
    BY <2>2 DEF Chain
  <2>. QED BY <2>2, <2>3, <2>4 DEF SameMap
<1>. QED BY <1>1, <1>2, <1>3 DEF Chain

LEMMA LastParsed ==
  ASSUME TypeOK
  PROVE  /\ parsed.layout \in Layouts /\ parsed.before \subseteq DOMAIN info
         /\ DOMAIN info = 1..Len(info) /\ Len(info) \in Nat /\ info \in Seq(MapInfos)
<1>1. info \in Seq(MapInfos) BY DEF TypeOK, InfoType
<1>2. parsed \in [layout : Layouts, before : SUBSET (1..Len(info))] BY DEF TypeOK
<1>. QED BY <1>1, <1>2

LEMMA QuietKeepsList ==
  ASSUME TypeOK, TypeOK', ListInv, NEW t \in Thread, Quiet(t)
  PROVE  ListInv'
<1>1. UNCHANGED << maps, writer, parsed >> /\ InfoKeeps BY DEF Quiet
<1>2. \A u \in Thread : job'[u].ph = "match" => u = writer BY DEF Quiet, ListInv
<1>3. ASSUME NEW i, i \in parsed.before, NEW r, SameMap(info[i], parsed.layout[r])'
      PROVE  SameMap(info[i], parsed.layout[r])
  BY <1>1, <1>3, KeptFields, LastParsed DEF SameMap
<1>4. CASE writer = None
  <2>1. Chain(maps, parsed.layout) /\ StillThere(maps) BY <1>4 DEF ListInv
  <2>2. PICK K, l : K = maps /\ l = parsed.layout OBVIOUS
  <2>3. Chain(K, l)' BY <1>1, <2>1, <2>2, ChainKept
  <2>4. Chain(maps, parsed.layout)' BY <1>1, <2>2, <2>3
  <2>5. StillThere(maps)' BY <1>1, <1>3, <2>1 DEF StillThere
  <2>. QED BY <1>1, <1>2, <1>4, <2>4, <2>5 DEF ListInv
<1>5. CASE writer # None
  <2>1. PICK j : j = job[writer] OBVIOUS
  <2>2. PICK K : j.ph = "match" /\ Matching(j, K) BY <1>5, <2>1 DEF ListInv
  <2>3. writer \in Thread BY <1>5 DEF TypeOK
  <2>4. job'[writer] = j BY <2>1, <2>2, <2>3 DEF Quiet
  <2>5. Chain(K, parsed.layout)'
    <3>1. PICK l : l = parsed.layout OBVIOUS
    <3>2. Chain(K, l)' BY <1>1, <2>2, <3>1, ChainKept DEF Matching
    <3>. QED BY <1>1, <3>1, <3>2
  <2>6. Counters(j)' BY <1>1, <2>2 DEF Counters, Matching, Processed
  <2>7. Unmatched(j, K)' BY <1>1, <2>2 DEF Unmatched, Matching
  <2>8. OldOnes(j)'
    <3>1. \A x \in Pending(j) : maps[x] \in DOMAIN info BY <2>2, LastParsed DEF Matching, OldOnes
    <3>. QED BY <1>1, <2>2, <3>1, KeptFields DEF Matching, OldOnes
  <2>9. FoundOrPending(j, K)' BY <1>1, <1>3, <2>2 DEF Matching, FoundOrPending
  <2>10. Matching(j, K)' BY <1>1, <2>2, <2>5, <2>6, <2>7, <2>8, <2>9 DEF Matching
  <2>. QED BY <1>1, <1>2, <1>5, <2>2, <2>4, <2>10 DEF ListInv
<1>. QED BY <1>4, <1>5

(* As many objects lie below the r-th of a list in address order as come   *)
(* before it.                                                              *)
LEMMA CountBelow ==
  ASSUME NEW n \in Nat, NEW K, K \in [1..n -> DOMAIN info], NEW r \in 1..(n + 1),
         \A k, l \in 1..n : k < l => K[k] # K[l],
         NEW S, S = {K[k] : k \in 1..(r - 1)}
  PROVE  IsFiniteSet(S) /\ Cardinality(S) = r - 1
<1>1. PICK f : f = [k \in 1..(r - 1) |-> K[k]] OBVIOUS
<1>2. \A k \in 1..(r - 1) : k \in 1..n OBVIOUS
<1>3. f \in [1..(r - 1) -> S] BY <1>1
<1>4. \A k, l \in 1..(r - 1) : f[k] = f[l] => k = l
  <2>1. TAKE k, l \in 1..(r - 1)
  <2>2. k < l \/ l < k \/ k = l OBVIOUS
  <2>. QED BY <1>1, <1>2, <2>2
<1>5. f \in Injection(1..(r - 1), S) BY <1>3, <1>4 DEF Injection, IsInjective
<1>6. f \in Surjection(1..(r - 1), S) BY <1>1, <1>3 DEF Surjection
<1>7. ExistsBijection(1..(r - 1), S) BY <1>5, <1>6 DEF ExistsBijection, Bijection
<1>8. IsFiniteSet(1..(r - 1)) /\ Cardinality(1..(r - 1)) = r - 1
  <2>1. r - 1 \in Int /\ 1 \in Int OBVIOUS
  <2>2. IsFiniteSet(1..(r - 1)) /\ Cardinality(1..(r - 1)) = IF 1 > r - 1 THEN 0 ELSE (r - 1) - 1 + 1
    BY <2>1, FS_Interval
  <2>. QED BY <2>2
<1>. QED BY <1>7, <1>8, FS_Bijection

Ascending(K) == \A k, l \in DOMAIN K : k < l => info[K[k]].start < info[K[l]].start

LEMMA ByAddressOfList ==
  ASSUME TypeOK, NEW K \in Seq(DOMAIN info), Ascending(K)
  PROVE  ByAddress(Range(K)) = K
<1>1. PICK n \in Nat : n = Len(K) OBVIOUS
<1>2. DOMAIN K = 1..n /\ K \in [1..n -> DOMAIN info] BY <1>1
<1>3. \A k \in 1..n : info[K[k]].start \in Nat
  <2>1. \A i \in DOMAIN info : info[i] \in MapInfos BY DEF TypeOK, InfoType
  <2>. QED BY <1>2, <2>1, InfoFields
<1>4. \A k, l \in 1..n : k < l => info[K[k]].start < info[K[l]].start BY <1>2 DEF Ascending
<1>5. \A k, l \in 1..n : k < l => K[k] # K[l] BY <1>3, <1>4
<1>6. PICK S : S = Range(K) OBVIOUS
<1>7. S = {K[k] : k \in 1..((n + 1) - 1)} BY <1>1, <1>2, <1>6 DEF Range
<1>8. Cardinality(S) = n
  <2>1. PICK r \in 1..(n + 1) : r = n + 1 /\ r - 1 = n OBVIOUS
  <2>2. S = {K[k] : k \in 1..(r - 1)} BY <1>7, <2>1
  <2>3. Cardinality(S) = r - 1 BY <1>2, <1>5, <2>2, CountBelow
  <2>. QED BY <2>1, <2>3
<1>9. ASSUME NEW r \in 1..n
      PROVE  Cardinality({j \in S : info[j].start < info[K[r]].start}) = r - 1
  <2>1. {j \in S : info[j].start < info[K[r]].start} = {K[k] : k \in 1..(r - 1)}
    <3>1. ASSUME NEW k \in 1..n, info[K[k]].start < info[K[r]].start PROVE k \in 1..(r - 1)
      <4>1. ~(r < k) /\ k # r BY <1>3, <1>4, <3>1
      <4>. QED BY <4>1
    <3>2. \A k \in 1..(r - 1) : k \in 1..n /\ info[K[k]].start < info[K[r]].start BY <1>4
    <3>. QED BY <1>7, <3>1, <3>2
  <2>2. r \in 1..(n + 1) OBVIOUS
  <2>3. PICK T : T = {K[k] : k \in 1..(r - 1)} OBVIOUS
  <2>4. Cardinality(T) = r - 1 BY <1>2, <1>5, <2>2, <2>3, CountBelow
  <2>. QED BY <2>1, <2>3, <2>4
<1>10. ASSUME NEW r \in 1..n
       PROVE  (CHOOSE i \in S : Cardinality({j \in S : info[j].start < info[i].start}) = r - 1) = K[r]
  <2>1. K[r] \in S BY <1>2, <1>6 DEF Range
  <2>2. ASSUME NEW i \in S, Cardinality({j \in S : info[j].start < info[i].start}) = r - 1 PROVE i = K[r]
    <3>1. PICK k \in 1..n : i = K[k] BY <1>2, <1>6 DEF Range
    <3>2. k - 1 = r - 1 BY <1>9, <2>2, <3>1
    <3>. QED BY <3>1, <3>2
  <2>. QED BY <1>9, <2>1, <2>2
<1>11. ByAddress(S) = [r \in 1..n |-> K[r]] BY <1>8, <1>10 DEF ByAddress
<1>. QED BY <1>1, <1>2, <1>6, <1>11

----------------------------------------------------------------------------
(* A Reparse begins.                                                       *)
LEMMA SetDead ==
  ASSUME NEW j \in Jobs, NEW b \in BOOLEAN, NEW k, k = [j EXCEPT !.dead = b]
  PROVE  /\ k \in Jobs /\ k.ph = j.ph /\ k.map = j.map /\ k.w = j.w /\ k.goal = j.goal /\ k.zero = j.zero
         /\ k.frame = j.frame /\ k.it = j.it
BY DEF Jobs

LEMMA JobInMore ==
  ASSUME NEW j, NEW n \in Nat, NEW m \in Nat, JobIn(j, n), n <= m PROVE JobIn(j, m)
<1>1. j \in Jobs BY DEF JobIn
<1>2. j.map \in Nat /\ j.w \in Nat /\ j.zero \in Nat /\ j.frame \in Nat BY <1>1 DEF Jobs
<1>3. j.map <= n /\ j.w <= n /\ j.zero <= n /\ j.frame <= n BY DEF JobIn
<1>4. j.map <= m /\ j.w <= m /\ j.zero <= m /\ j.frame <= m BY <1>2, <1>3
<1>. QED BY <1>4 DEF JobIn

(* ps is info with the objects of a parse behind it.                       *)
WithNew(ps, n, N) ==
  /\ ps \in Seq(MapInfos) /\ Len(ps) = n + N /\ DOMAIN ps = 1..(n + N)
  /\ \A i \in 1..n : ps[i] = info[i]
  /\ \A r \in 1..N : \E a, b \in Nat :
       /\ n + r \in 1..(n + N) /\ ps[n + r] = MapInfoOf(kernel[r], a, b) /\ ps[n + r].elf = 0
       /\ a = (IF r = 1 THEN 0 ELSE n + r - 1) /\ b = (IF r = N THEN 0 ELSE n + r + 1)

LEMMA ParseEffect ==
  ASSUME TypeOK, NEW n \in Nat, n = Len(info), NEW N \in Nat, N = Len(kernel), NEW ps, ps = info \o Parse(kernel)
  PROVE  WithNew(ps, n, N)
<1>1. kernel \in Layouts /\ info \in Seq(MapInfos) BY DEF TypeOK, InfoType
<1>2. \A r \in 1..N : kernel[r] \in Regions BY <1>1, LayoutRegions
<1>3. PICK q : q = Parse(kernel) OBVIOUS
<1>4. q = [r \in 1..N |-> MapInfoOf(kernel[r], IF r = 1 THEN 0 ELSE n + r - 1, IF r = N THEN 0 ELSE n + r + 1)]
  BY <1>3 DEF Parse
<1>5. ASSUME NEW r \in 1..N
      PROVE  \E a, b \in Nat :
               /\ q[r] = MapInfoOf(kernel[r], a, b) /\ q[r] \in MapInfos /\ q[r].elf = 0
               /\ a = (IF r = 1 THEN 0 ELSE n + r - 1) /\ b = (IF r = N THEN 0 ELSE n + r + 1)
  <2>1. (IF r = 1 THEN 0 ELSE n + r - 1) \in Nat
    <3>1. n + r - 1 \in Nat OBVIOUS
    <3>. QED BY <3>1
  <2>2. (IF r = N THEN 0 ELSE n + r + 1) \in Nat
    <3>1. n + r + 1 \in Nat OBVIOUS
    <3>. QED BY <3>1
  <2>3. PICK a \in Nat : a = (IF r = 1 THEN 0 ELSE n + r - 1) BY <2>1
  <2>4. PICK b \in Nat : b = (IF r = N THEN 0 ELSE n + r + 1) BY <2>2
  <2>5. q[r] = MapInfoOf(kernel[r], a, b) BY <1>4, <2>3, <2>4
  <2>6. q[r] \in MapInfos BY <1>2, <2>5, MapInfoOfType
  <2>7. q[r].elf = 0 BY <2>5 DEF MapInfoOf, NoElf
  <2>. QED BY <2>3, <2>4, <2>5, <2>6, <2>7
<1>6. q \in Seq(MapInfos) /\ Len(q) = N
  <2>1. \A r \in 1..N : q[r] \in MapInfos BY <1>5
  <2>2. q \in [1..N -> MapInfos] BY <1>4, <2>1
  <2>. QED BY <2>2
<1>7. ps = info \o q BY <1>3
<1>8. ps \in Seq(MapInfos) /\ Len(ps) = n + N /\ DOMAIN ps = 1..(n + N) BY <1>1, <1>6, <1>7
<1>9. \A i \in 1..n : ps[i] = info[i] BY <1>1, <1>6, <1>7
<1>10. \A r \in 1..N : ps[n + r] = q[r]
  <2>1. TAKE r \in 1..N
  <2>2. n + r \in 1..(n + N) /\ n + r > n /\ (n + r) - n = r OBVIOUS
  <2>. QED BY <1>1, <1>6, <1>7, <2>2
<1>11. \A r \in 1..N : n + r \in 1..(n + N) OBVIOUS
<1>12. ASSUME NEW r \in 1..N
       PROVE  \E a, b \in Nat :
                /\ n + r \in 1..(n + N) /\ ps[n + r] = MapInfoOf(kernel[r], a, b) /\ ps[n + r].elf = 0
                /\ a = (IF r = 1 THEN 0 ELSE n + r - 1) /\ b = (IF r = N THEN 0 ELSE n + r + 1)
  <2>1. PICK a \in Nat, b \in Nat :
          /\ q[r] = MapInfoOf(kernel[r], a, b) /\ q[r] \in MapInfos /\ q[r].elf = 0
          /\ a = (IF r = 1 THEN 0 ELSE n + r - 1) /\ b = (IF r = N THEN 0 ELSE n + r + 1)
    BY <1>5
  <2>2. ps[n + r] = q[r] BY <1>10
  <2>3. n + r \in 1..(n + N) BY <1>11
  <2>. QED BY <2>1, <2>2, <2>3
<1>. QED BY <1>8, <1>9, <1>12 DEF WithNew

Began(t) ==
  /\ writer = None /\ writer' = t /\ kernel' = kernel /\ elfs' = elfs /\ bounds' = bounds
  /\ info' = info \o Parse(kernel)
  /\ maps' = maps \o [k \in 1..Len(kernel) |-> Len(info) + k]
  /\ parsed' = [layout |-> kernel, before |-> Range(maps)]
  /\ job'[t].ph = "match" /\ job'[t].new = Len(maps) + 1 /\ job'[t].from = 1 /\ job'[t].last = Len(maps)
  /\ \A u \in Thread : u # t => /\ job'[u].ph = job[u].ph /\ job'[u].map = job[u].map
                                /\ job'[u].w = job[u].w /\ job'[u].goal = job[u].goal

LEMMA ReparseParseType ==
  ASSUME TypeOK, ListInv, NEW t \in Thread, ReparseParse(t)
  PROVE  TypeOK' /\ ((Quiet(t) /\ UNCHANGED << info, elfs, bounds >>) \/ Began(t))
<1>1. /\ job[t].ph = "reparse" /\ writer = None /\ UNCHANGED << kernel, elfs, search, fault, bounds >>
  BY DEF ReparseParse, At
<1>2. PICK j : j = job[t] /\ j \in Jobs /\ JobIn(j, Len(info)) BY JobsOf
<1>3. CASE Go(t, [ph |-> "found", failed |-> TRUE]) /\ UNCHANGED << info, maps, writer, parsed >>
  <2>1. PICK p : p = "found" OBVIOUS
  <2>2. p \in Phases /\ p \notin GetElfPhases /\ p # "walk" /\ p # "match" /\ p # "search"
    BY <2>1 DEF Phases, GetElfPhases
  <2>3. PICK b \in BOOLEAN : b = TRUE OBVIOUS
  <2>4. PICK k : k = With(j, [ph |-> p, failed |-> b]) OBVIOUS
  <2>5. k \in Jobs /\ k.ph = p /\ k.map = j.map /\ k.w = j.w /\ k.zero = j.zero /\ k.frame = j.frame
    BY <1>2, <2>2, <2>4, WithFailed
  <2>6. JobIn(k, Len(info)) BY <1>2, <2>2, <2>5 DEF JobIn
  <2>7. Go(t, [ph |-> p, failed |-> b]) BY <1>3, <2>1, <2>3
  <2>8. TypeOK' /\ Quiet(t)
    BY <1>1, <1>2, <1>3, <2>2, <2>4, <2>5, <2>6, <2>7, JobOnly DEF TypeOK, SearchType
  <2>. QED BY <1>1, <1>3, <2>8
<1>4. CASE /\ writer' = t /\ info' = info \o Parse(kernel)
           /\ maps' = maps \o [k \in 1..Len(kernel) |-> Len(info) + k]
           /\ parsed' = [layout |-> kernel, before |-> Range(maps)]
           /\ job' = [u \in Thread |-> IF u = t THEN With(job[t], [ph |-> "match", new |-> Len(maps) + 1,
                                                                   from |-> 1, last |-> Len(maps)])
                                       ELSE [job[u] EXCEPT !.dead = @ \/ job[u].it > 0]]
  <2>1. kernel \in Layouts /\ info \in Seq(MapInfos) /\ maps \in Seq(0..Len(info)) BY DEF TypeOK, InfoType
  <2>2. PICK n \in Nat : n = Len(info) BY <2>1
  <2>3. PICK N \in Nat : N = Len(kernel) BY <2>1, LayoutRegions
  <2>4. PICK m \in Nat : m = Len(maps) BY <2>1
  <2>5. PICK ps : ps = info' OBVIOUS
  <2>6. /\ ps \in Seq(MapInfos) /\ Len(ps) = n + N /\ DOMAIN ps = 1..(n + N)
        /\ \A i \in 1..n : ps[i] = info[i]
        /\ \A r \in 1..N : ps[n + r].elf = 0
    <3>1. ps = info \o Parse(kernel) BY <1>4, <2>5
    <3>2. WithNew(ps, n, N) BY <2>2, <2>3, <3>1, ParseEffect
    <3>. QED BY <3>2 DEF WithNew
  <2>7. PICK g : g = job' OBVIOUS
  <2>8. /\ g[t] \in Jobs /\ JobIn(g[t], n) /\ g[t].ph = "match" /\ g[t].new = m + 1 /\ g[t].from = 1 /\ g[t].last = m
    <3>1. PICK p : p = "match" OBVIOUS
    <3>2. p \in Phases /\ p \notin GetElfPhases /\ p # "walk" /\ p # "search" BY <3>1 DEF Phases, GetElfPhases
    <3>3. PICK a \in Nat, one \in Nat : a = m + 1 /\ one = 1 OBVIOUS
    <3>4. g[t] = With(j, [ph |-> p, new |-> a, from |-> one, last |-> m]) BY <1>2, <1>4, <2>4, <2>7, <3>1, <3>3
    <3>7. PICK k : k = g[t] OBVIOUS
    <3>8. k = With(j, [ph |-> p, new |-> a, from |-> one, last |-> m]) BY <3>4, <3>7
    <3>9. j \in Jobs /\ p \in Phases /\ a \in Nat /\ one \in Nat /\ m \in Nat BY <1>2, <3>2
    <3>10. /\ k \in Jobs /\ k.ph = p /\ k.new = a /\ k.from = one /\ k.last = m
           /\ k.map = j.map /\ k.w = j.w /\ k.zero = j.zero /\ k.frame = j.frame
      BY ONLY <3>8, <3>9, WithParsed
    <3>5. /\ g[t] \in Jobs /\ g[t].ph = p /\ g[t].new = a /\ g[t].from = one /\ g[t].last = m
          /\ g[t].map = j.map /\ g[t].w = j.w /\ g[t].zero = j.zero /\ g[t].frame = j.frame
      BY <3>7, <3>10
    <3>6. JobIn(g[t], n) BY <1>2, <2>2, <3>2, <3>5 DEF JobIn
    <3>. QED BY <3>1, <3>3, <3>5, <3>6
  <2>9. ASSUME NEW u \in Thread, u # t
        PROVE  /\ JobIn(g[u], n) /\ g[u].ph = job[u].ph /\ g[u].map = job[u].map /\ g[u].w = job[u].w
               /\ g[u].goal = job[u].goal
    <3>1. PICK k : k = job[u] /\ k \in Jobs /\ JobIn(k, n) BY <2>2, JobsOf
    <3>2. PICK b : b = (k.dead \/ k.it > 0) OBVIOUS
    <3>3. b \in BOOLEAN BY <3>2
    <3>4. g[u] = [k EXCEPT !.dead = b] BY <1>4, <2>7, <2>9, <3>1, <3>2
    <3>5. /\ g[u] \in Jobs /\ g[u].ph = k.ph /\ g[u].map = k.map /\ g[u].w = k.w /\ g[u].goal = k.goal
          /\ g[u].zero = k.zero /\ g[u].frame = k.frame /\ g[u].it = k.it
      BY <3>1, <3>3, <3>4, SetDead
    <3>6. JobIn(g[u], n) BY <3>1, <3>5 DEF JobIn
    <3>. QED BY <3>1, <3>5, <3>6
  <2>10. JobType'
    <3>1. g = [u \in Thread |-> g[u]] BY <1>4, <2>7
    <3>2. \A u \in Thread : JobIn(g[u], n + N)
      <4>1. TAKE u \in Thread
      <4>2. JobIn(g[u], n) BY <2>8, <2>9
      <4>3. n + N \in Nat /\ n <= n + N OBVIOUS
      <4>. QED BY <4>2, <4>3, JobInMore
    <3>. QED BY <2>5, <2>6, <2>7, <3>1, <3>2 DEF JobType
  <2>11. InfoType'
    <3>1. Len(elfs) \in Nat /\ elfs' = elfs BY <1>1 DEF TypeOK, ElfType
    <3>2. \A i \in 1..n : ps[i].elf <= Len(elfs)
      <4>1. \A i \in 1..n : info[i].elf <= Len(elfs) BY <2>1, <2>2 DEF TypeOK, InfoType
      <4>. QED BY <2>6, <4>1
    <3>3. \A i \in 1..(n + N) : i \in 1..n \/ (i - n \in 1..N /\ i = n + (i - n)) OBVIOUS
    <3>4. \A r \in 1..N : ps[n + r].elf <= Len(elfs)
      <4>1. TAKE r \in 1..N
      <4>2. PICK e \in Nat : e = Len(elfs) BY <3>1
      <4>3. ps[n + r].elf = 0 BY <2>6
      <4>4. 0 <= e BY <4>2
      <4>. QED BY <4>2, <4>3, <4>4
    <3>5. \A i \in 1..(n + N) : ps[i].elf <= Len(elfs)
      <4>1. TAKE i \in 1..(n + N)
      <4>2. CASE i \in 1..n BY <3>2, <4>2
      <4>3. CASE i \notin 1..n
        <5>1. PICK r \in 1..N : i = n + r BY <3>3, <4>3
        <5>. QED BY <3>4, <5>1
      <4>. QED BY <4>2, <4>3
    <3>. QED BY <2>5, <2>6, <3>1, <3>5 DEF InfoType
  <2>12. ElfType' BY <1>1 DEF TypeOK, ElfType
  <2>13. maps' \in Seq(0..(n + N))
    <3>1. PICK q : q = [k \in 1..N |-> n + k] OBVIOUS
    <3>2. q \in Seq(0..(n + N)) BY <3>1
    <3>3. maps \in Seq(0..(n + N)) BY <2>1, <2>2
    <3>4. maps' = maps \o q BY <1>4, <2>2, <2>3, <3>1
    <3>. QED BY <3>2, <3>3, <3>4
  <2>14. parsed' \in [layout : Layouts, before : SUBSET (1..(n + N))]
    <3>1. 0 \notin Range(maps)
      <4>1. Chain(maps, parsed.layout) BY <1>1 DEF ListInv
      <4>2. maps \in Seq(DOMAIN info) BY <4>1 DEF Chain
      <4>. QED BY <2>1, <4>2 DEF Range
    <3>2. Range(maps) \subseteq 1..(n + N) BY <2>1, <2>2, <3>1 DEF Range
    <3>. QED BY <1>4, <2>1, <3>2
  <2>15. TypeOK'
    <3>1. kernel' \in Layouts /\ writer' \in Thread \cup {None} /\ fault' \in BOOLEAN /\ SearchType'
          /\ bounds' \in [calls : Nat, remaps : Nat]
      BY <1>1, <1>4, <2>1 DEF TypeOK, SearchType
    <3>2. Len(info') = n + N BY <2>5, <2>6
    <3>. QED BY <2>10, <2>11, <2>12, <2>13, <2>14, <3>1, <3>2 DEF TypeOK
  <2>16. Began(t) BY <1>1, <1>4, <2>4, <2>7, <2>8, <2>9 DEF Began
  <2>. QED BY <2>15, <2>16
<1>. QED BY <1>3, <1>4 DEF ReparseParse

LEMMA StartsAscend ==
  ASSUME TypeOK, NEW K, NEW l \in Layouts, Chain(K, l)
  PROVE  /\ DOMAIN K = 1..Len(l) /\ Len(l) \in Nat
         /\ \A r \in DOMAIN K : K[r] \in DOMAIN info /\ info[K[r]] \in MapInfos /\ info[K[r]].start = l[r].start
         /\ Ascending(K)
<1>1. PICK N \in Nat : N = Len(l) BY LayoutRegions
<1>2. K \in Seq(DOMAIN info) /\ Len(K) = N BY <1>1 DEF Chain
<1>3. DOMAIN K = 1..N BY <1>2
<1>4. \A r \in 1..N : K[r] \in DOMAIN info BY <1>2, <1>3
<1>5. \A i \in DOMAIN info : info[i] \in MapInfos BY DEF TypeOK, InfoType
<1>6. \A r \in 1..N : info[K[r]].start = l[r].start BY <1>3 DEF Chain, SameMap
<1>7. \A k, r \in 1..N : k < r => info[K[k]].start < info[K[r]].start BY <1>1, <1>6, LayoutOrder
<1>. QED BY <1>1, <1>3, <1>4, <1>5, <1>6, <1>7 DEF Ascending

LEMMA BeganList ==
  ASSUME TypeOK, TypeOK', ListInv, NEW t \in Thread, Began(t)
  PROVE  ListInv'
<1>1. PICK n \in Nat : n = Len(info) BY DEF TypeOK, InfoType
<1>2. PICK N \in Nat : N = Len(kernel) BY LayoutRegions DEF TypeOK
<1>3. PICK m \in Nat : m = Len(maps) BY DEF TypeOK
<1>4. PICK ms : ms = maps' OBVIOUS
<1>5. PICK ps : ps = info' OBVIOUS
<1>6. PICK j : j = job'[t] OBVIOUS
<1>7. PICK K : K = [r \in 1..N |-> n + r] OBVIOUS
<1>8. WithNew(ps, n, N) BY <1>1, <1>2, <1>5, ParseEffect DEF Began
<1>9. maps \in Seq(0..n) /\ Chain(maps, parsed.layout) BY <1>1 DEF TypeOK, ListInv, Began
<1>10. /\ Len(ms) = m + N /\ DOMAIN ms = 1..(m + N)
       /\ \A x \in 1..m : x \in DOMAIN ms /\ ms[x] = maps[x]
       /\ \A r \in 1..N : m + r \in DOMAIN ms /\ ms[m + r] = n + r
  <2>1. PICK q : q = [k \in 1..N |-> n + k] OBVIOUS
  <2>2. ms = maps \o q BY <1>1, <1>2, <1>4, <2>1 DEF Began
  <2>3. q \in Seq(Nat) /\ Len(q) = N BY <2>1
  <2>4. maps \in Seq(Nat)
    <3>1. 0..n \subseteq Nat OBVIOUS
    <3>. QED BY <1>9, <3>1
  <2>5. Len(ms) = m + N /\ DOMAIN ms = 1..(m + N)
    <3>1. Len(ms) = m + N
      <4>1. Len(maps \o q) = Len(maps) + Len(q) BY ONLY <2>3, <2>4
      <4>. QED BY ONLY <1>3, <2>2, <2>3, <4>1
    <3>2. ms \in Seq(Nat) BY <2>2, <2>3, <2>4
    <3>. QED BY <3>1, <3>2
  <2>6. \A x \in 1..m : ms[x] = maps[x] BY <1>3, <2>2, <2>3, <2>4
  <2>7. ASSUME NEW r \in 1..N PROVE m + r \in 1..(m + N) /\ ms[m + r] = n + r
    <3>1. m + r \in 1..(m + N) /\ m + r > m /\ (m + r) - m = r OBVIOUS
    <3>2. ms[m + r] = q[r] BY <1>3, <2>2, <2>3, <2>4, <3>1
    <3>. QED BY <2>1, <3>1, <3>2
  <2>. QED BY <2>5, <2>6, <2>7
<1>11. \A x \in DOMAIN ms : x \in 1..m \/ \E r \in 1..N : x = m + r
  <2>1. ASSUME NEW x \in 1..(m + N), x \notin 1..m PROVE \E r \in 1..N : x = m + r
    <3>1. x - m \in 1..N /\ x = m + (x - m) BY <2>1
    <3>. QED BY <3>1
  <2>. QED BY <1>10, <2>1
<1>12. \A x \in 1..m : maps[x] \in 1..n
  <2>1. maps \in Seq(DOMAIN info) BY <1>9 DEF Chain
  <2>2. DOMAIN info = 1..n BY <1>1, LastParsed
  <2>. QED BY <1>3, <2>1, <2>2
<1>13. parsed'.layout = kernel /\ parsed'.before = Range(maps) BY DEF Began
<1>14. /\ j.ph = "match" /\ j.new = m + 1 /\ j.from = 1 /\ j.last = m BY <1>3, <1>6 DEF Began
<1>15. Pending(j) = 1..m BY <1>14 DEF Pending
<1>16. Processed(j) = 0 BY <1>14 DEF Processed
<1>17. Counters(j)' BY <1>2, <1>4, <1>10, <1>13, <1>14, <1>16 DEF Counters, Processed
<1>18. DOMAIN ps = 1..(n + N) /\ DOMAIN info' = 1..(n + N) BY <1>5, <1>8 DEF WithNew
<1>19. Chain(K, kernel)'
  <2>1. K \in Seq(1..(n + N)) /\ Len(K) = N /\ DOMAIN K = 1..N BY <1>7
  <2>2. ASSUME NEW r \in 1..N
        PROVE  /\ SameMap(ps[K[r]], kernel[r])
               /\ ps[K[r]].prev = (IF r = 1 THEN 0 ELSE K[r - 1])
               /\ ps[K[r]].next = (IF r = N THEN 0 ELSE K[r + 1])
    <3>1. PICK a \in Nat, b \in Nat :
            /\ ps[n + r] = MapInfoOf(kernel[r], a, b)
            /\ a = (IF r = 1 THEN 0 ELSE n + r - 1) /\ b = (IF r = N THEN 0 ELSE n + r + 1)
      BY <1>8 DEF WithNew
    <3>2. K[r] = n + r BY <1>7
    <3>3. SameMap(ps[K[r]], kernel[r]) /\ ps[K[r]].prev = a /\ ps[K[r]].next = b
      BY <3>1, <3>2 DEF MapInfoOf, SameMap
    <3>4. r # 1 => K[r - 1] = n + r - 1
      <4>1. r # 1 => r - 1 \in 1..N OBVIOUS
      <4>. QED BY <1>7, <4>1
    <3>5. r # N => K[r + 1] = n + r + 1
      <4>1. r # N => r + 1 \in 1..N OBVIOUS
      <4>. QED BY <1>7, <4>1
    <3>. QED BY <3>1, <3>3, <3>4, <3>5
  <2>3. kernel' = kernel BY DEF Began
  <2>. QED BY <1>2, <1>5, <1>18, <2>1, <2>2, <2>3 DEF Chain
<1>20. /\ Range(K) \subseteq Range(ms)
       /\ \A x \in DOMAIN ms : x \notin Pending(j) => ms[x] \in Range(K)
  <2>1. ASSUME NEW i \in Range(K) PROVE i \in Range(ms)
    <3>1. PICK r \in 1..N : i = n + r BY <1>7 DEF Range
    <3>. QED BY <1>10, <3>1 DEF Range
  <2>2. ASSUME NEW x \in DOMAIN ms, x \notin Pending(j) PROVE ms[x] \in Range(K)
    <3>1. PICK r \in 1..N : x = m + r BY <1>11, <1>15, <2>2
    <3>2. ms[x] = n + r /\ K[r] = n + r /\ r \in DOMAIN K BY <1>7, <1>10, <3>1
    <3>. QED BY <3>2 DEF Range
  <2>. QED BY <2>1, <2>2
<1>21. Unmatched(j, K)'
  <2>1. ASSUME NEW r \in 1..N
        PROVE  /\ K[r] = ms[m + r] /\ K[r] \notin Range(maps)
               /\ \A x \in DOMAIN ms : ms[x] = K[r] => x = m + r
    <3>1. K[r] = n + r /\ K[r] > n BY <1>7
    <3>2. K[r] \notin Range(maps) BY <1>3, <1>9, <1>12, <3>1 DEF Range
    <3>3. ASSUME NEW x \in DOMAIN ms, ms[x] = K[r] PROVE x = m + r
      <4>1. CASE x \in 1..m BY <1>10, <1>12, <3>1, <3>3, <4>1
      <4>2. CASE \E s \in 1..N : x = m + s
        <5>1. PICK s \in 1..N : x = m + s BY <4>2
        <5>2. n + s = n + r BY <1>10, <3>1, <3>3, <5>1
        <5>3. s = r BY <5>2
        <5>. QED BY <5>1, <5>3
      <4>. QED BY <1>11, <4>1, <4>2
    <3>. QED BY <1>10, <3>1, <3>2, <3>3
  <2>2. DOMAIN K = 1..N BY <1>7
  <2>. QED BY <1>4, <1>13, <1>14, <2>1, <2>2 DEF Unmatched
<1>22. OldOnes(j)'
  <2>1. parsed.layout \in Layouts BY LastParsed
  <2>2. /\ DOMAIN maps = 1..m
        /\ \A x \in 1..m : maps[x] \in 1..n
        /\ \A x, y \in 1..m : x < y => info[maps[x]].start < info[maps[y]].start
    <3>1. Ascending(maps) BY <1>9, <2>1, StartsAscend
    <3>2. DOMAIN maps = 1..m BY <1>3, <1>9
    <3>. QED BY <1>12, <3>1, <3>2 DEF Ascending
  <2>3. \A x \in 1..m : ps[maps[x]] = info[maps[x]] BY <1>8, <2>2 DEF WithNew
  <2>4. \A x \in 1..m : ms[x] \in parsed'.before BY <1>10, <1>13, <2>2 DEF Range
  <2>5. \A x, y \in 1..m : x < y => ps[ms[x]].start < ps[ms[y]].start BY <1>10, <2>2, <2>3
  <2>. QED BY <1>4, <1>5, <1>15, <1>16, <2>4, <2>5 DEF OldOnes
<1>23. FoundOrPending(j, K)'
  <2>1. \A i \in parsed'.before : \E x \in 1..m : ms[x] = i BY <1>3, <1>9, <1>10, <1>13 DEF Range
  <2>2. \A r \in DOMAIN K : ~(r <= 0) BY <1>7
  <2>. QED BY <1>4, <1>15, <1>16, <2>1, <2>2 DEF FoundOrPending
<1>24. Matching(j, K)' BY <1>4, <1>13, <1>17, <1>19, <1>20, <1>21, <1>22, <1>23, Began(t) DEF Matching, Began
<1>25. writer' = t /\ t # None BY ThreadAssumption DEF Began, None
<1>26. \A u \in Thread : job'[u].ph = "match" => u = writer'
  <2>1. \A u \in Thread : job[u].ph # "match" BY ThreadAssumption DEF Began, ListInv, None
  <2>. QED BY <1>25, <2>1 DEF Began
<1>27. job'[writer'].ph = "match" /\ (\E L : Matching(job[writer], L))'
  <2>1. job'[writer'] = j BY <1>6, <1>25
  <2>. QED BY <1>14, <1>24, <2>1
<1>. QED BY <1>25, <1>26, <1>27 DEF ListInv
----------------------------------------------------------------------------
(* A Reparse links an object it found again to its new neighbours.         *)
SameElf(a, b) ==
  /\ a.elf = b.elf /\ a.mutex = b.mutex /\ a.mem = b.mem
  /\ a.elf_offset = b.elf_offset /\ a.elf_start = b.elf_start

PrevSet(u, v, i, p) ==
  /\ u \in Seq(MapInfos) /\ DOMAIN u = DOMAIN v /\ Len(u) = Len(v)
  /\ \A k \in DOMAIN v :
       /\ SameRegion(u[k], v[k]) /\ SameElf(u[k], v[k]) /\ u[k].next = v[k].next
       /\ u[k].prev = (IF k = i THEN p ELSE v[k].prev)

LEMMA LinkPrev ==
  ASSUME NEW v \in Seq(MapInfos), NEW i \in DOMAIN v, NEW p \in Nat, NEW u, u = [v EXCEPT ![i].prev = p]
  PROVE  PrevSet(u, v, i, p)
<1>1. PICK x : x = [v[i] EXCEPT !.prev = p] OBVIOUS
<1>2. v[i] \in MapInfos OBVIOUS
<1>3. x \in MapInfos /\ SameRegion(x, v[i]) /\ SameElf(x, v[i]) /\ x.prev = p /\ x.next = v[i].next
  BY <1>1, <1>2, SetPrev DEF SameElf
<1>4. u = [v EXCEPT ![i] = x] BY <1>1
<1>5. /\ u \in Seq(MapInfos) /\ Len(u) = Len(v) /\ DOMAIN u = DOMAIN v
      /\ u[i] = x /\ \A k \in DOMAIN v : k # i => u[k] = v[k]
  BY <1>3, <1>4, SeqUpdate
<1>. QED BY <1>3, <1>5 DEF PrevSet, SameRegion, SameElf

NextSet(u, v, i, p) ==
  /\ u \in Seq(MapInfos) /\ DOMAIN u = DOMAIN v /\ Len(u) = Len(v)
  /\ \A k \in DOMAIN v :
       /\ SameRegion(u[k], v[k]) /\ SameElf(u[k], v[k]) /\ u[k].prev = v[k].prev
       /\ u[k].next = (IF k = i THEN p ELSE v[k].next)

LEMMA LinkNext ==
  ASSUME NEW v \in Seq(MapInfos), NEW i \in DOMAIN v, NEW p \in Nat, NEW u, u = [v EXCEPT ![i].next = p]
  PROVE  NextSet(u, v, i, p)
<1>1. PICK x : x = [v[i] EXCEPT !.next = p] OBVIOUS
<1>2. v[i] \in MapInfos OBVIOUS
<1>3. x \in MapInfos /\ SameRegion(x, v[i]) /\ SameElf(x, v[i]) /\ x.next = p /\ x.prev = v[i].prev
  BY <1>1, <1>2, SetNext DEF SameElf
<1>4. u = [v EXCEPT ![i] = x] BY <1>1
<1>5. /\ u \in Seq(MapInfos) /\ Len(u) = Len(v) /\ DOMAIN u = DOMAIN v
      /\ u[i] = x /\ \A k \in DOMAIN v : k # i => u[k] = v[k]
  BY <1>3, <1>4, SeqUpdate
<1>. QED BY <1>3, <1>5 DEF NextSet, SameRegion, SameElf

Linked(u, v, o, p, n) ==
  /\ u \in Seq(MapInfos) /\ DOMAIN u = DOMAIN v /\ Len(u) = Len(v)
  /\ \A k \in DOMAIN v :
       /\ SameRegion(u[k], v[k]) /\ SameElf(u[k], v[k])
       /\ u[k].prev = (IF k = o THEN p ELSE IF k = n THEN o ELSE v[k].prev)
       /\ u[k].next = (IF k = o THEN n ELSE IF k = p THEN o ELSE v[k].next)

LEMMA RelinkEffect ==
  ASSUME info \in Seq(MapInfos), NEW o \in DOMAIN info, NEW p \in Nat, NEW n \in Nat,
         p # 0 => p \in DOMAIN info, n # 0 => n \in DOMAIN info, p # o, n # o,
         NEW u, u = Relink(o, p, n)
  PROVE  Linked(u, info, o, p, n)
<1>1. 0 \notin DOMAIN info /\ o \in Nat OBVIOUS
<1>2. PICK a : a = [info EXCEPT ![o].prev = p] OBVIOUS
<1>3. PICK b : b = [a EXCEPT ![o].next = n] OBVIOUS
<1>4. PICK c : c = IF p = 0 THEN b ELSE [b EXCEPT ![p].next = o] OBVIOUS
<1>5. u = IF n = 0 THEN c ELSE [c EXCEPT ![n].prev = o]
  <2>1. b = [info EXCEPT ![o].prev = p, ![o].next = n] BY <1>2, <1>3
  <2>. QED BY <1>4, <2>1 DEF Relink
<1>6. /\ a \in Seq(MapInfos) /\ DOMAIN a = DOMAIN info /\ Len(a) = Len(info)
      /\ \A k \in DOMAIN info :
           /\ SameRegion(a[k], info[k]) /\ SameElf(a[k], info[k]) /\ a[k].next = info[k].next
           /\ a[k].prev = (IF k = o THEN p ELSE info[k].prev)
  <2>1. PrevSet(a, info, o, p) BY <1>2, LinkPrev
  <2>. QED BY <2>1 DEF PrevSet
<1>7. /\ b \in Seq(MapInfos) /\ DOMAIN b = DOMAIN a /\ Len(b) = Len(a)
      /\ \A k \in DOMAIN a :
           /\ SameRegion(b[k], a[k]) /\ SameElf(b[k], a[k]) /\ b[k].prev = a[k].prev
           /\ b[k].next = (IF k = o THEN n ELSE a[k].next)
  <2>1. NextSet(b, a, o, n) BY <1>3, <1>6, LinkNext
  <2>. QED BY <2>1 DEF NextSet
<1>8. /\ c \in Seq(MapInfos) /\ DOMAIN c = DOMAIN b /\ Len(c) = Len(b)
      /\ \A k \in DOMAIN b :
           /\ SameRegion(c[k], b[k]) /\ SameElf(c[k], b[k]) /\ c[k].prev = b[k].prev
           /\ c[k].next = (IF k = p THEN o ELSE b[k].next)
  <2>1. CASE p = 0 BY <1>1, <1>4, <1>6, <1>7, <2>1 DEF SameRegion, SameElf
  <2>2. CASE p # 0
    <3>1. c = [b EXCEPT ![p].next = o] /\ p \in DOMAIN b BY <1>4, <1>6, <1>7, <2>2
    <3>2. NextSet(c, b, p, o) BY <1>1, <1>7, <3>1, LinkNext
    <3>. QED BY <3>2 DEF NextSet
  <2>. QED BY <2>1, <2>2
<1>9. /\ u \in Seq(MapInfos) /\ DOMAIN u = DOMAIN c /\ Len(u) = Len(c)
      /\ \A k \in DOMAIN c :
           /\ SameRegion(u[k], c[k]) /\ SameElf(u[k], c[k]) /\ u[k].next = c[k].next
           /\ u[k].prev = (IF k = n THEN o ELSE c[k].prev)
  <2>1. CASE n = 0 BY <1>1, <1>5, <1>6, <1>7, <1>8, <2>1 DEF SameRegion, SameElf
  <2>2. CASE n # 0
    <3>1. u = [c EXCEPT ![n].prev = o] /\ n \in DOMAIN c BY <1>5, <1>6, <1>7, <1>8, <2>2
    <3>2. PrevSet(u, c, n, o) BY <1>1, <1>8, <3>1, LinkPrev
    <3>. QED BY <3>2 DEF PrevSet
  <2>. QED BY <2>1, <2>2
<1>10. ASSUME NEW k \in DOMAIN info
       PROVE  /\ SameRegion(u[k], info[k]) /\ SameElf(u[k], info[k])
              /\ u[k].prev = (IF k = o THEN p ELSE IF k = n THEN o ELSE info[k].prev)
              /\ u[k].next = (IF k = o THEN n ELSE IF k = p THEN o ELSE info[k].next)
  BY <1>6, <1>7, <1>8, <1>9 DEF SameRegion, SameElf
<1>. QED BY <1>6, <1>7, <1>8, <1>9, <1>10 DEF Linked

(* The scan for the next new object stops at k.                            *)
MatchFrom(t, j, k) ==
  /\ k \in j.from..(j.last + 1) /\ StopsAt(j, k)
  /\ IF FoundAt(j, k)
     THEN /\ maps' = [Dropped(j, k) EXCEPT ![j.new] = 0]
          /\ info' = Relink(maps[k], Lock(Wanted(j).prev), Lock(Wanted(j).next))
          /\ Go(t, [new |-> j.new + 1, from |-> k + 1])
     ELSE maps' = Dropped(j, k) /\ Go(t, [new |-> j.new + 1, from |-> k]) /\ UNCHANGED info

LEMMA ReparseMatchEffect ==
  ASSUME NEW t \in Thread, ReparseMatch(t) PROVE \E k : MatchFrom(t, job[t], k)
BY DEF ReparseMatch, MatchFrom

(* The old objects not looked at yet are none of the list's.               *)
LEMMA PendingApart ==
  ASSUME TypeOK, NEW j, NEW K, Matching(j, K), NEW x \in Pending(j)
  PROVE  maps[x] \notin Range(K)
<1>1. PICK l \in Layouts : l = parsed.layout BY LastParsed
<1>2. /\ DOMAIN K = 1..Len(l) /\ Len(l) \in Nat
      /\ \A r \in DOMAIN K : info[K[r]].start = l[r].start
  BY <1>1, StartsAscend DEF Matching
<1>3. PICK N \in Nat : N = Len(l) BY <1>2
<1>4. PICK p \in 0..N : p = Processed(j) BY <1>1, <1>3 DEF Matching, Counters
<1>5. maps[x] \in parsed.before BY DEF Matching, OldOnes
<1>6. info[maps[x]].start \in Nat
  <2>1. info[maps[x]] \in MapInfos BY <1>5, LastParsed
  <2>. QED BY <2>1, InfoFields
<1>7. SUFFICES ASSUME NEW r \in DOMAIN K, maps[x] = K[r] PROVE FALSE BY DEF Range
<1>8. r \in 1..N BY <1>2, <1>3
<1>9. CASE r > p
  <2>1. K[r] \notin parsed.before BY <1>4, <1>9 DEF Matching, Unmatched
  <2>. QED BY <1>5, <1>7, <2>1
<1>10. CASE r <= p
  <2>1. p > 0 /\ p \in 1..N BY <1>8, <1>10
  <2>2. info[maps[x]].start > l[p].start BY <1>1, <1>4, <2>1 DEF Matching, OldOnes
  <2>3. r = p \/ r < p BY <1>8, <1>10, <2>1
  <2>4. l[r].start = l[p].start \/ l[r].start < l[p].start BY <1>3, <1>8, <2>1, <2>3, LayoutRegions, LayoutOrder
  <2>5. l[r].start \in Nat /\ l[p].start \in Nat BY <1>3, <1>8, <2>1, LayoutRegions
  <2>6. info[K[r]].start = l[r].start BY <1>2
  <2>. QED BY <1>6, <1>7, <2>2, <2>4, <2>5, <2>6
<1>. QED BY <1>8, <1>9, <1>10

(* What the scan knows of the next region, the (p + 1)-st, and of the old  *)
(* objects.                                                                *)
Scan(j, K, k, p) ==
  /\ p = j.new - j.last - 1 /\ p \in Nat /\ p + 1 \in DOMAIN K
  /\ j.from \in Nat /\ j.last \in Nat /\ j.from >= 1 /\ k \in j.from..(j.last + 1)
  /\ j.new = j.last + (p + 1) /\ j.new \in DOMAIN maps /\ maps[j.new] = K[p + 1]
  /\ K[p + 1] \in DOMAIN info /\ Wanted(j) = info[K[p + 1]]
  /\ \A x \in j.from..j.last :
       /\ x \in DOMAIN maps /\ maps[x] \in DOMAIN info /\ maps[x] \in parsed.before /\ maps[x] \notin Range(K)
       /\ x < k => info[maps[x]].start <= parsed.layout[p + 1].start
       /\ x > k => info[maps[x]].start > parsed.layout[p + 1].start
       /\ x = k => IF FoundAt(j, k) THEN info[maps[x]].start = parsed.layout[p + 1].start
                   ELSE info[maps[x]].start > parsed.layout[p + 1].start

LEMMA ScanKnows ==
  ASSUME TypeOK, NEW t \in Thread, NEW j, j = job[t], NEW K, Matching(j, K), NEW k, k \in j.from..(j.last + 1),
         StopsAt(j, k), j.new <= Len(maps)
  PROVE  \E p : Scan(j, K, k, p)
<1>1. PICK l \in Layouts : l = parsed.layout BY LastParsed
<1>2. j \in Jobs BY JobsOf
<1>3. j.new \in Nat /\ j.from \in Nat /\ j.last \in Nat BY <1>2 DEF Jobs
<1>4. /\ DOMAIN K = 1..Len(l) /\ Len(l) \in Nat /\ Ascending(K)
      /\ \A r \in DOMAIN K : K[r] \in DOMAIN info /\ info[K[r]] \in MapInfos /\ info[K[r]].start = l[r].start
  BY <1>1, StartsAscend DEF Matching
<1>5. PICK N \in Nat : N = Len(l) BY <1>4
<1>6. PICK f \in Nat, L \in Nat : f = j.from /\ L = j.last BY <1>3
<1>7. PICK p : p = j.new - j.last - 1 OBVIOUS
<1>8. p = Processed(j) BY <1>7 DEF Processed
<1>9. f \in 1..(L + 1) /\ Len(maps) = L + N /\ p \in 0..N BY <1>1, <1>5, <1>6, <1>8 DEF Matching, Counters
<1>11. p \in Nat /\ p + 1 > p BY <1>9
<1>10. p + 1 \in 1..N /\ j.new = L + (p + 1)
  <2>1. PICK a \in Nat : a = j.new BY <1>3
  <2>2. p = a - L - 1 BY <1>6, <1>7, <2>1
  <2>3. a <= L + N BY <1>9, <2>1
  <2>4. a = L + (p + 1)
    <3>1. p + 1 = a - L BY <2>2
    <3>2. L + (a - L) = a OBVIOUS
    <3>. QED BY <3>1, <3>2
  <2>5. p + 1 <= N BY ONLY <2>3, <2>4, <1>11, L \in Nat, N \in Nat
  <2>. QED BY <1>11, <2>1, <2>4, <2>5
<1>12. DOMAIN maps = 1..(L + N) BY <1>9 DEF TypeOK
<1>13. j.new \in DOMAIN maps BY <1>10, <1>12
<1>14. PICK q : q = K[p + 1] OBVIOUS
<1>15. maps[j.new] = q /\ q \in DOMAIN info /\ info[q].start = l[p + 1].start
  <2>1. p + 1 \in DOMAIN K BY <1>4, <1>5, <1>10
  <2>2. K[p + 1] = maps[L + (p + 1)] BY <1>6, <1>8, <1>11, <2>1 DEF Matching, Unmatched
  <2>. QED BY <1>4, <1>10, <1>14, <2>1, <2>2
<1>16. Wanted(j) = info[q] BY <1>15 DEF Wanted
<1>17. PICK s \in Nat : s = l[p + 1].start BY <1>5, <1>10, LayoutRegions
<1>18. ASSUME NEW x \in f..L
       PROVE  /\ x \in DOMAIN maps /\ maps[x] \in DOMAIN info /\ maps[x] \in parsed.before
              /\ info[maps[x]].start \in Nat
  <2>1. maps[x] \in parsed.before BY <1>6, <1>18 DEF Matching, OldOnes, Pending
  <2>2. maps[x] \in DOMAIN info BY <2>1, LastParsed
  <2>3. info[maps[x]] \in MapInfos BY <2>2, LastParsed
  <2>4. x \in DOMAIN maps BY <1>9, <1>12
  <2>. QED BY <2>1, <2>2, <2>3, <2>4, InfoFields
<1>19. \A x, y \in f..L : x < y => info[maps[x]].start < info[maps[y]].start
  BY <1>6 DEF Matching, OldOnes, Pending
<1>20. \A x \in f..L : maps[x] \notin Range(K) BY <1>6, PendingApart DEF Pending
<1>21. ASSUME NEW x \in f..L, x < k PROVE info[maps[x]].start <= s
  <2>1. x \in f..(k - 1) BY <1>6, <1>21
  <2>2. ~Ends(j, x) BY <1>6, <2>1 DEF StopsAt
  <2>3. ~(info[maps[x]].start > info[q].start) BY <1>16, <2>2 DEF Ends, Above
  <2>. QED BY <1>15, <1>17, <1>18, <2>3
<1>22. ASSUME k \in f..L
       PROVE  IF FoundAt(j, k) THEN info[maps[k]].start = s ELSE info[maps[k]].start > s
  <2>1. k <= j.last BY <1>6, <1>22
  <2>2. CASE FoundAt(j, k) BY <1>15, <1>16, <1>17, <2>2 DEF FoundAt, SameMap
  <2>3. CASE ~FoundAt(j, k)
    <3>1. Above(info[maps[k]], info[q]) BY <1>16, <2>1, <2>3 DEF FoundAt, StopsAt, Ends
    <3>. QED BY <1>15, <1>17, <2>3, <3>1 DEF Above
  <2>. QED BY <2>2, <2>3
<1>23. ASSUME NEW x \in f..L, x > k PROVE info[maps[x]].start > s
  <2>1. k \in f..L BY <1>6, <1>23
  <2>2. info[maps[k]].start < info[maps[x]].start BY <1>19, <1>23, <2>1
  <2>3. info[maps[k]].start = s \/ info[maps[k]].start > s BY <1>22, <2>1
  <2>. QED BY <1>17, <1>18, <2>1, <2>2, <2>3
<1>24. \A x \in f..L : x = k => IF FoundAt(j, k) THEN info[maps[x]].start = s ELSE info[maps[x]].start > s
  BY <1>22
<1>25. \A x \in j.from..j.last :
       /\ x \in DOMAIN maps /\ maps[x] \in DOMAIN info /\ maps[x] \in parsed.before /\ maps[x] \notin Range(K)
       /\ x < k => info[maps[x]].start <= parsed.layout[p + 1].start
       /\ x > k => info[maps[x]].start > parsed.layout[p + 1].start
       /\ x = k => IF FoundAt(j, k) THEN info[maps[x]].start = parsed.layout[p + 1].start
                   ELSE info[maps[x]].start > parsed.layout[p + 1].start
  BY <1>1, <1>6, <1>17, <1>18, <1>20, <1>21, <1>23, <1>24
<1>26. p + 1 \in DOMAIN K BY <1>4, <1>5, <1>10
<1>27. j.new = j.last + (p + 1) /\ j.from >= 1 BY <1>6, <1>9, <1>10
<1>28. maps[j.new] = K[p + 1] /\ K[p + 1] \in DOMAIN info /\ Wanted(j) = info[K[p + 1]] BY <1>14, <1>15, <1>16
<1>. QED BY ONLY <1>3, <1>7, <1>11, <1>13, <1>25, <1>26, <1>27, <1>28, k \in j.from..(j.last + 1) DEF Scan

LEMMA DroppedEffect ==
  ASSUME TypeOK, NEW j, NEW k, NEW ms, ms = Dropped(j, k)
  PROVE  /\ ms \in Seq(0..Len(info)) /\ Len(ms) = Len(maps) /\ DOMAIN ms = DOMAIN maps
         /\ \A x \in DOMAIN maps : ms[x] = IF x \in j.from..(k - 1) THEN 0 ELSE maps[x]
<1>1. PICK n \in Nat : n = Len(info) BY DEF TypeOK, InfoType
<1>2. maps \in Seq(0..n) BY <1>1 DEF TypeOK
<1>3. PICK m \in Nat : m = Len(maps) /\ DOMAIN maps = 1..m BY <1>2
<1>4. ms = [l \in 1..m |-> IF l \in j.from..(k - 1) THEN 0 ELSE maps[l]] BY <1>3 DEF Dropped
<1>5. \A l \in 1..m : ms[l] \in 0..n BY <1>2, <1>3, <1>4
<1>6. ms \in Seq(0..n) /\ Len(ms) = m BY <1>4, <1>5
<1>. QED BY <1>1, <1>3, <1>4, <1>6

LEMMA MatchJob ==
  ASSUME TypeOK, NEW t \in Thread, NEW j, j = job[t], NEW a \in Nat, NEW b \in Nat,
         Go(t, [new |-> a, from |-> b]), Len(info') = Len(info)
  PROVE  /\ JobType' /\ \A u \in Thread : u # t => job'[u] = job[u]
         /\ job'[t].new = a /\ job'[t].from = b /\ job'[t].last = j.last /\ job'[t].ph = j.ph
<1>1. PICK k : k = With(j, [new |-> a, from |-> b]) OBVIOUS
<1>2. j \in Jobs /\ JobIn(j, Len(info)) BY JobsOf
<1>3. /\ k \in Jobs /\ k.new = a /\ k.from = b
      /\ k.ph = j.ph /\ k.map = j.map /\ k.w = j.w /\ k.goal = j.goal /\ k.last = j.last /\ k.it = j.it
      /\ k.zero = j.zero /\ k.frame = j.frame
  BY <1>1, <1>2, WithMatched
<1>4. JobIn(k, Len(info)) BY <1>2, <1>3 DEF JobIn
<1>5. JobIn(With(job[t], [new |-> a, from |-> b]), Len(info)) BY <1>1, <1>4
<1>6. JobType' BY <1>5, GoType DEF TypeOK
<1>7. job'[t] = k /\ \A u \in Thread : u # t => job'[u] = job[u] BY <1>1, GoEffect DEF TypeOK
<1>. QED BY <1>3, <1>6, <1>7

LEMMA UnfoundList ==
  ASSUME TypeOK, NEW j, NEW K, Matching(j, K), NEW k, NEW p, Scan(j, K, k, p), StopsAt(j, k), ~FoundAt(j, k),
         maps' = Dropped(j, k), UNCHANGED << info, parsed >>,
         NEW g, g.new = j.new + 1, g.from = k, g.last = j.last
  PROVE  Matching(g, K)'
<1>1. PICK ms : ms = maps' OBVIOUS
<1>2. /\ Len(ms) = Len(maps) /\ DOMAIN ms = DOMAIN maps
      /\ \A x \in DOMAIN maps : ms[x] = IF x \in j.from..(k - 1) THEN 0 ELSE maps[x]
  BY <1>1, DroppedEffect
<1>3. PICK l \in Layouts : l = parsed.layout BY LastParsed
<1>4. PICK N \in Nat : N = Len(l) BY <1>3, LayoutRegions
<1>5. /\ DOMAIN K = 1..N
      /\ \A r \in DOMAIN K : K[r] \in DOMAIN info /\ info[K[r]].start = l[r].start
  BY <1>3, <1>4, StartsAscend DEF Matching
<1>6. PICK f \in Nat, L \in Nat : f = j.from /\ L = j.last BY DEF Scan
<1>7. /\ p \in Nat /\ p + 1 \in 1..N /\ k \in f..(L + 1) /\ f >= 1 /\ Processed(j) = p
  BY <1>5, <1>6 DEF Scan, Processed
<1>8. Pending(g) = k..L /\ Pending(j) = f..L BY <1>6 DEF Pending
<1>9. Processed(g) = p + 1
  <2>1. PICK a \in Nat : a = j.new BY <1>6 DEF Scan
  <2>2. a = L + (p + 1) BY <1>6, <2>1 DEF Scan
  <2>3. (a + 1) - L - 1 = p + 1 BY <1>7, <2>2
  <2>. QED BY <1>6, <2>1, <2>3 DEF Processed
<1>10. PICK s \in Nat : s = l[p + 1].start BY <1>4, <1>7, LayoutRegions
<1>11. \A x \in f..L :
         /\ x \in DOMAIN maps /\ maps[x] \in DOMAIN info /\ maps[x] \in parsed.before /\ maps[x] \notin Range(K)
         /\ x < k => info[maps[x]].start <= s
         /\ x >= k => info[maps[x]].start > s
  <2>1. TAKE x \in f..L
  <2>2. x >= k => x > k \/ x = k BY <1>7
  <2>3. /\ x \in DOMAIN maps /\ maps[x] \in DOMAIN info /\ maps[x] \in parsed.before /\ maps[x] \notin Range(K)
        /\ x < k => info[maps[x]].start <= s
        /\ x > k => info[maps[x]].start > s
        /\ x = k => info[maps[x]].start > s
    BY <1>3, <1>6, <1>10 DEF Scan
  <2>. QED BY <2>2, <2>3
<1>12. Counters(g)'
  <2>1. Len(maps) = L + N BY <1>3, <1>4, <1>6 DEF Matching, Counters
  <2>2. k \in 1..(L + 1) BY <1>7
  <2>3. p + 1 \in 0..N BY <1>7
  <2>. QED BY <1>1, <1>2, <1>3, <1>4, <1>6, <1>9, <2>1, <2>2, <2>3 DEF Counters, Processed
<1>13. Chain(K, parsed.layout)' BY DEF Matching, Chain
<1>14. Range(K) \subseteq Range(ms)
  <2>1. SUFFICES ASSUME NEW i \in Range(K) PROVE i \in Range(ms) OBVIOUS
  <2>2. PICK x \in DOMAIN maps : maps[x] = i BY DEF Matching, Range
  <2>3. x \notin f..L BY <1>11, <2>1, <2>2
  <2>4. x \notin j.from..(k - 1) BY <1>6, <1>7, <2>3
  <2>. QED BY <1>2, <2>2, <2>4 DEF Range
<1>15. \A x \in DOMAIN ms : x \notin k..L /\ ms[x] # 0 => ms[x] \in Range(K)
  <2>1. SUFFICES ASSUME NEW x \in DOMAIN ms, x \notin k..L, ms[x] # 0 PROVE ms[x] \in Range(K) OBVIOUS
  <2>2. ms[x] = maps[x] /\ x \notin f..(k - 1) BY <1>2, <1>6, <2>1
  <2>3. x \notin f..L BY <1>7, <2>1, <2>2
  <2>. QED BY <1>2, <1>8, <2>1, <2>2, <2>3 DEF Matching
<1>16. Unmatched(g, K)'
  <2>1. ASSUME NEW r \in DOMAIN K, r > p + 1
        PROVE  /\ K[r] = ms[L + r] /\ K[r] \notin parsed.before
               /\ \A x \in DOMAIN ms : ms[x] = K[r] => x = L + r
    <3>1. r > p /\ r \in 1..N BY <1>5, <1>7, <2>1
    <3>2. /\ K[r] = maps[L + r] /\ K[r] \notin parsed.before
          /\ \A x \in DOMAIN maps : maps[x] = K[r] => x = L + r
      BY <1>6, <1>7, <3>1 DEF Matching, Unmatched
    <3>3. K[r] # 0 BY <1>5, LastParsed
    <3>4. L + r \in DOMAIN maps
      <4>1. Len(maps) = L + N BY <1>3, <1>4, <1>6 DEF Matching, Counters
      <4>2. DOMAIN maps = 1..(L + N) BY <4>1 DEF TypeOK
      <4>. QED BY <3>1, <4>2
    <3>5. L + r \notin f..(k - 1) BY <1>7, <3>1
    <3>6. ms[L + r] = maps[L + r] BY <1>2, <1>6, <3>4, <3>5
    <3>7. ASSUME NEW x \in DOMAIN ms, ms[x] = K[r] PROVE x = L + r
      <4>1. ms[x] = maps[x] BY <1>2, <3>3, <3>7
      <4>. QED BY <1>2, <3>2, <3>7, <4>1
    <3>. QED BY <3>2, <3>6, <3>7
  <2>. QED BY <1>1, <1>6, <1>9, <2>1 DEF Unmatched, Processed
<1>17. \A x \in k..L : x \in f..L /\ x \in DOMAIN maps /\ ms[x] = maps[x]
  <2>1. TAKE x \in k..L
  <2>2. x \in f..L /\ x \notin f..(k - 1) BY <1>7
  <2>. QED BY <1>2, <1>6, <1>11, <2>2
<1>18. OldOnes(g)'
  <2>1. ASSUME NEW x \in k..L
        PROVE  /\ ms[x] \in parsed.before /\ info[ms[x]].start > s
               /\ \A y \in k..L : x < y => info[ms[x]].start < info[ms[y]].start
    <3>1. x >= k BY <1>7, <2>1
    <3>2. \A y \in f..L : x < y => info[maps[x]].start < info[maps[y]].start
      BY <1>8, <1>17 DEF Matching, OldOnes
    <3>. QED BY <1>11, <1>17, <3>1, <3>2
  <2>. QED BY <1>1, <1>3, <1>8, <1>9, <1>10, <2>1 DEF OldOnes, Processed, Pending
<1>19. ASSUME NEW i \in parsed.before, NEW r \in DOMAIN K, SameMap(info[i], l[r])
       PROVE  IF r <= p + 1 THEN K[r] = i ELSE \E x \in k..L : ms[x] = i
  <2>1. IF r <= p THEN K[r] = i ELSE \E x \in f..L : maps[x] = i
    BY <1>3, <1>7, <1>8, <1>19 DEF Matching, FoundOrPending
  <2>2. r \in 1..N /\ info[i].start = l[r].start /\ l[r].start \in Nat
    BY <1>4, <1>5, <1>19, LayoutRegions DEF SameMap
  <2>3. CASE r <= p
    <3>1. r <= p + 1 BY <1>7, <2>2, <2>3
    <3>. QED BY <2>1, <2>3, <3>1
  <2>4. CASE ~(r <= p)
    <3>1. PICK x \in f..L : maps[x] = i BY <2>1, <2>4
    <3>2. CASE r = p + 1
      <4>1. info[maps[x]].start = s BY <1>10, <2>2, <3>1, <3>2
      <4>2. ~(x >= k) BY <1>11, <3>1, <4>1
      <4>3. x \in f..(k - 1) BY <1>7, <4>2
      <4>4. ~SameMap(Wanted(j), info[maps[x]]) BY <1>6, <4>3 DEF StopsAt, Ends
      <4>5. Wanted(j) = info[K[r]] BY <3>2 DEF Scan
      <4>6. SameMap(info[K[r]], l[r]) BY <1>3, <1>19 DEF Matching, Chain
      <4>. QED BY <1>19, <3>1, <4>4, <4>5, <4>6 DEF SameMap
    <3>3. CASE r > p + 1
      <4>1. l[p + 1].start < l[r].start BY <1>4, <1>7, <2>2, <3>3, LayoutRegions, LayoutOrder
      <4>2. ~(info[maps[x]].start <= s) BY <1>10, <2>2, <3>1, <4>1
      <4>3. x \in k..L BY <1>7, <1>11, <4>2
      <4>4. ms[x] = i BY <1>17, <3>1, <4>3
      <4>5. ~(r <= p + 1) BY <1>7, <2>2, <3>3
      <4>. QED BY <4>3, <4>4, <4>5
    <3>. QED BY <1>7, <2>2, <2>4, <3>2, <3>3
  <2>. QED BY <2>3, <2>4
<1>20. FoundOrPending(g, K)' BY <1>1, <1>3, <1>8, <1>9, <1>19 DEF FoundOrPending, Processed, Pending
<1>. QED BY <1>1, <1>8, <1>12, <1>13, <1>14, <1>15, <1>16, <1>18, <1>20 DEF Matching, Pending

LEMMA LockListed == ASSUME NEW i, i \in Range(maps) \/ i = 0 PROVE Lock(i) = i
BY DEF Lock, Alive

(* An object that is found again takes the place and the links of the new one. *)
LEMMA TakesPlace ==
  ASSUME TypeOK, NEW j, NEW K, Matching(j, K), NEW k, NEW p, Scan(j, K, k, p), FoundAt(j, k),
         info' = Relink(maps[k], Lock(Wanted(j).prev), Lock(Wanted(j).next)),
         UNCHANGED << elfs, parsed >>, NEW L, L = [K EXCEPT ![p + 1] = maps[k]]
  PROVE  /\ Chain(L, parsed.layout)' /\ InfoType'
         /\ \A i \in DOMAIN info : SameRegion(info'[i], info[i]) /\ SameElf(info'[i], info[i])
         /\ Len(info') = Len(info)
         /\ \A i \in parsed.before : i # maps[k] => info'[i].prev = info[i].prev
<1>1. PICK l \in Layouts : l = parsed.layout BY LastParsed
<1>2. PICK N \in Nat : N = Len(l) BY <1>1, LayoutRegions
<1>3. /\ DOMAIN K = 1..N /\ K \in Seq(DOMAIN info) /\ Ascending(K)
      /\ \A r \in DOMAIN K : K[r] \in DOMAIN info /\ info[K[r]] \in MapInfos /\ info[K[r]].start \in Nat
  <2>1. /\ DOMAIN K = 1..N /\ Ascending(K)
        /\ \A r \in DOMAIN K : K[r] \in DOMAIN info /\ info[K[r]] \in MapInfos
    BY <1>1, <1>2, StartsAscend DEF Matching
  <2>. QED BY <2>1, InfoFields DEF Matching, Chain
<1>4. PICK e \in 1..N : e = p + 1 BY <1>3 DEF Scan
<1>5. PICK o : o = maps[k] OBVIOUS
<1>6. o \in DOMAIN info /\ o \notin Range(K)
  <2>1. k \in j.from..j.last BY DEF Scan, FoundAt
  <2>. QED BY <1>5, <2>1 DEF Scan
<1>7. PICK q : q = K[e] /\ q \in DOMAIN info /\ Wanted(j) = info[q] BY <1>4 DEF Scan
<1>8. PICK pv : pv = (IF e = 1 THEN 0 ELSE K[e - 1]) OBVIOUS
<1>9. PICK nx : nx = (IF e = N THEN 0 ELSE K[e + 1]) OBVIOUS
<1>10. Len(K) = N BY <1>1, <1>2 DEF Matching, Chain
<1>11. info[q].prev = pv /\ info[q].next = nx
  <2>1. e \in DOMAIN K BY <1>3
  <2>. QED BY <1>7, <1>8, <1>9, <1>10, <2>1 DEF Matching, Chain
<1>12. (e # 1 => e - 1 \in DOMAIN K) /\ (e # N => e + 1 \in DOMAIN K) BY <1>3
<1>13. /\ pv # 0 => pv \in DOMAIN info /\ pv \in Range(K)
       /\ nx # 0 => nx \in DOMAIN info /\ nx \in Range(K)
  BY <1>3, <1>8, <1>9, <1>12 DEF Range
<1>14. Lock(pv) = pv /\ Lock(nx) = nx BY <1>13, LockListed DEF Matching
<1>15. 0 \notin DOMAIN info /\ info \in Seq(MapInfos) /\ \A i \in DOMAIN info : i \in Nat BY LastParsed
<1>16. pv # o /\ nx # o /\ pv \in Nat /\ nx \in Nat BY <1>6, <1>13, <1>15
<1>17. PICK ps : ps = info' OBVIOUS
<1>18. ps = Relink(o, pv, nx) BY <1>5, <1>7, <1>11, <1>14, <1>17
<1>19. Linked(ps, info, o, pv, nx) BY <1>6, <1>13, <1>15, <1>16, <1>18, RelinkEffect
<1>20. /\ ps \in Seq(MapInfos) /\ DOMAIN ps = DOMAIN info /\ Len(ps) = Len(info)
       /\ \A i \in DOMAIN info :
            /\ SameRegion(ps[i], info[i]) /\ SameElf(ps[i], info[i])
            /\ ps[i].prev = (IF i = o THEN pv ELSE IF i = nx THEN o ELSE info[i].prev)
            /\ ps[i].next = (IF i = o THEN nx ELSE IF i = pv THEN o ELSE info[i].next)
  BY <1>19 DEF Linked
<1>21. InfoType'
  <2>1. \A i \in DOMAIN ps : ps[i].elf <= Len(elfs) BY <1>20 DEF TypeOK, InfoType, SameElf
  <2>2. elfs' = elfs OBVIOUS
  <2>. QED BY <1>17, <1>20, <2>1, <2>2 DEF InfoType
<1>22. /\ L \in Seq(DOMAIN info) /\ Len(L) = N /\ DOMAIN L = 1..N /\ L[e] = o
       /\ \A r \in 1..N : r # e => L[r] = K[r]
  BY <1>3, <1>4, <1>5, <1>6, <1>10
<1>23. \A r, x \in 1..N : K[r] = K[x] => r = x
  <2>1. TAKE r, x \in 1..N
  <2>2. r < x \/ x < r \/ r = x OBVIOUS
  <2>. QED BY <1>3, <2>2 DEF Ascending
<1>24. ASSUME NEW r \in 1..N PROVE SameMap(ps[L[r]], l[r])
  <2>1. CASE r = e
    <3>1. SameMap(info[q], info[o]) BY <1>5, <1>7 DEF FoundAt
    <3>2. SameMap(info[q], l[e]) BY <1>1, <1>3, <1>7 DEF Matching, Chain
    <3>. QED BY <1>6, <1>20, <1>22, <2>1, <3>1, <3>2 DEF SameMap, SameRegion
  <2>2. CASE r # e
    <3>1. SameMap(info[K[r]], l[r]) /\ L[r] = K[r] /\ K[r] \in DOMAIN info
      BY <1>1, <1>3, <1>22, <2>2 DEF Matching, Chain
    <3>. QED BY <1>20, <3>1 DEF SameMap, SameRegion
  <2>. QED BY <2>1, <2>2
<1>25. \A r \in 1..N : r # e => L[r] = K[r] /\ L[r] \in DOMAIN info /\ L[r] # o /\ L[r] # 0
  BY <1>3, <1>6, <1>15, <1>22 DEF Range
<1>26. \A r \in 1..N :
         /\ info[K[r]].prev = (IF r = 1 THEN 0 ELSE K[r - 1])
         /\ info[K[r]].next = (IF r = N THEN 0 ELSE K[r + 1])
  BY <1>3, <1>10 DEF Matching, Chain
<1>27. ASSUME NEW r \in 1..N PROVE ps[L[r]].prev = (IF r = 1 THEN 0 ELSE L[r - 1])
  <2>1. r # 1 => r - 1 \in 1..N OBVIOUS
  <2>2. CASE r = e
    <3>1. ps[L[r]].prev = pv BY <1>6, <1>20, <1>22, <2>2
    <3>2. r # 1 => r - 1 # e BY <2>2
    <3>. QED BY <1>8, <1>22, <2>1, <2>2, <3>1, <3>2
  <2>3. CASE r # e
    <3>1. L[r] = K[r] /\ K[r] \in DOMAIN info /\ K[r] # o /\ K[r] # 0 BY <1>25, <2>3
    <3>2. CASE r = e + 1
      <4>1. e # N /\ nx = K[r] /\ r # 1 /\ r - 1 = e BY <1>9, <3>2
      <4>2. ps[L[r]].prev = o BY <1>20, <3>1, <4>1
      <4>. QED BY <1>22, <4>1, <4>2
    <3>3. CASE r # e + 1
      <4>1. K[r] # nx
        <5>1. e # N => e + 1 \in 1..N OBVIOUS
        <5>. QED BY <1>9, <1>23, <3>1, <3>3, <5>1
      <4>2. ps[L[r]].prev = info[K[r]].prev BY <1>20, <3>1, <4>1
      <4>3. r # 1 => L[r - 1] = K[r - 1]
        <5>1. r # 1 => r - 1 # e BY <3>3
        <5>. QED BY <1>22, <2>1, <5>1
      <4>. QED BY <1>26, <4>2, <4>3
    <3>. QED BY <3>2, <3>3
  <2>. QED BY <2>2, <2>3
<1>28. ASSUME NEW r \in 1..N PROVE ps[L[r]].next = (IF r = N THEN 0 ELSE L[r + 1])
  <2>1. r # N => r + 1 \in 1..N OBVIOUS
  <2>2. CASE r = e
    <3>1. ps[L[r]].next = nx BY <1>6, <1>20, <1>22, <2>2
    <3>2. r # N => r + 1 # e BY <2>2
    <3>. QED BY <1>9, <1>22, <2>1, <2>2, <3>1, <3>2
  <2>3. CASE r # e
    <3>1. L[r] = K[r] /\ K[r] \in DOMAIN info /\ K[r] # o /\ K[r] # 0 BY <1>25, <2>3
    <3>2. CASE r + 1 = e
      <4>1. e # 1 /\ pv = K[r] /\ r # N /\ e - 1 = r BY <1>8, <3>2
      <4>2. ps[L[r]].next = o BY <1>20, <3>1, <4>1
      <4>. QED BY <1>22, <3>2, <4>1, <4>2
    <3>3. CASE r + 1 # e
      <4>1. K[r] # pv
        <5>1. e # 1 => e - 1 \in 1..N /\ e - 1 # r BY <3>3
        <5>. QED BY <1>8, <1>23, <3>1, <5>1
      <4>2. ps[L[r]].next = info[K[r]].next BY <1>20, <3>1, <4>1
      <4>3. r # N => L[r + 1] = K[r + 1] BY <1>22, <2>1, <3>3
      <4>. QED BY <1>26, <4>2, <4>3
    <3>. QED BY <3>2, <3>3
  <2>. QED BY <2>2, <2>3
<1>29. Chain(L, l)' BY <1>2, <1>17, <1>20, <1>22, <1>24, <1>27, <1>28 DEF Chain
<1>30. ASSUME NEW i \in parsed.before, i # o PROVE ps[i].prev = info[i].prev
  <2>1. i # 0 /\ i \in DOMAIN info BY <1>15, LastParsed
  <2>2. nx \notin parsed.before
    <3>1. CASE e = N
      <4>1. nx = 0 BY <1>9, <3>1
      <4>. QED BY <4>1, <1>15, LastParsed
    <3>2. CASE e # N
      <4>1. nx = K[e + 1] /\ e + 1 \in DOMAIN K BY <1>9, <1>12, <3>2
      <4>2. e + 1 > Processed(j) BY <1>4 DEF Scan, Processed
      <4>. QED BY <4>1, <4>2 DEF Matching, Unmatched
    <3>. QED BY <3>1, <3>2
  <2>. QED BY <1>20, <1>30, <2>1, <2>2
<1>. QED BY <1>1, <1>5, <1>17, <1>20, <1>21, <1>29, <1>30

LEMMA FoundList ==
  ASSUME TypeOK, NEW j, NEW K, Matching(j, K), NEW k, NEW p, Scan(j, K, k, p), FoundAt(j, k),
         maps' = [Dropped(j, k) EXCEPT ![j.new] = 0],
         info' = Relink(maps[k], Lock(Wanted(j).prev), Lock(Wanted(j).next)),
         UNCHANGED << elfs, parsed >>,
         NEW g, g.new = j.new + 1, g.from = k + 1, g.last = j.last
  PROVE  /\ \E L : Matching(g, L)'
         /\ InfoType' /\ Len(info') = Len(info) /\ maps' \in Seq(0..Len(info))
<1>1. PICK ms, ps : ms = maps' /\ ps = info' OBVIOUS
<1>2. PICK l \in Layouts : l = parsed.layout BY LastParsed
<1>3. PICK N \in Nat : N = Len(l) BY <1>2, LayoutRegions
<1>4. /\ DOMAIN K = 1..N
      /\ \A r \in DOMAIN K : K[r] \in DOMAIN info /\ info[K[r]].start = l[r].start
  BY <1>2, <1>3, StartsAscend DEF Matching
<1>5. PICK f \in Nat, last \in Nat, new \in Nat : f = j.from /\ last = j.last /\ new = j.new
  <2>1. maps \in Seq(0..Len(info)) BY DEF TypeOK
  <2>2. j.new \in Nat
    <3>1. PICK m \in Nat : m = Len(maps) BY <2>1
    <3>2. DOMAIN maps = 1..m BY <2>1, <3>1
    <3>. QED BY <3>2 DEF Scan
  <2>. QED BY <2>2 DEF Scan
<1>6. /\ p \in Nat /\ p + 1 \in 1..N /\ k \in f..last /\ f >= 1 /\ Processed(j) = p /\ new = last + (p + 1)
  BY <1>4, <1>5 DEF Scan, Processed, FoundAt
<1>7. /\ \A x \in DOMAIN maps :
           /\ x \in DOMAIN ms
           /\ ms[x] = IF x = new \/ x \in f..(k - 1) THEN 0 ELSE maps[x]
      /\ DOMAIN ms = DOMAIN maps /\ Len(ms) = Len(maps) /\ ms \in Seq(0..Len(info))
  <2>1. PICK d : d = Dropped(j, k) OBVIOUS
  <2>2. /\ d \in Seq(0..Len(info)) /\ Len(d) = Len(maps) /\ DOMAIN d = DOMAIN maps
        /\ \A x \in DOMAIN maps : d[x] = IF x \in f..(k - 1) THEN 0 ELSE maps[x]
    BY <1>5, <2>1, DroppedEffect
  <2>3. ms = [d EXCEPT ![new] = 0] /\ new \in DOMAIN d BY <1>1, <1>5, <2>1, <2>2 DEF Scan
  <2>4. 0 \in 0..Len(info) BY DEF TypeOK, InfoType
  <2>5. /\ ms \in Seq(0..Len(info)) /\ Len(ms) = Len(d) /\ DOMAIN ms = DOMAIN d
        /\ ms[new] = 0 /\ \A x \in DOMAIN d : x # new => ms[x] = d[x]
    BY <2>2, <2>3, <2>4, SeqUpdate
  <2>. QED BY <2>2, <2>5
<1>8. PICK o : o = maps[k] OBVIOUS
<1>9. PICK L : L = [K EXCEPT ![p + 1] = o] OBVIOUS
<1>10. /\ Chain(L, parsed.layout)' /\ InfoType' /\ Len(info') = Len(info)
       /\ \A i \in DOMAIN info : SameRegion(ps[i], info[i]) /\ SameElf(ps[i], info[i])
  BY <1>1, <1>8, <1>9, TakesPlace
<1>11. DOMAIN L = 1..N /\ L[p + 1] = o /\ \A r \in 1..N : r # p + 1 => L[r] = K[r] BY <1>4, <1>6, <1>9
<1>12. Pending(g) = (k + 1)..last /\ Pending(j) = f..last BY <1>5 DEF Pending
<1>13. Processed(g) = p + 1
  <2>1. (new + 1) - last - 1 = p + 1 BY <1>6
  <2>. QED BY <1>5, <2>1 DEF Processed
<1>14. PICK s \in Nat : s = l[p + 1].start BY <1>3, <1>6, LayoutRegions
<1>15. \A x \in f..last :
         /\ x \in DOMAIN maps /\ maps[x] \in DOMAIN info /\ maps[x] \in parsed.before /\ maps[x] \notin Range(K)
         /\ x < k => info[maps[x]].start <= s
         /\ x > k => info[maps[x]].start > s
         /\ x = k => info[maps[x]].start = s
  BY <1>2, <1>5, <1>14 DEF Scan
<1>16. Len(maps) = last + N /\ DOMAIN maps = 1..(last + N)
  <2>1. Len(maps) = last + N BY <1>2, <1>3, <1>5 DEF Matching, Counters
  <2>. QED BY <2>1 DEF TypeOK
<1>17. Counters(g)'
  <2>1. k + 1 \in 1..(last + 1) /\ p + 1 \in 0..N BY <1>6
  <2>. QED BY <1>1, <1>2, <1>3, <1>5, <1>7, <1>13, <1>16, <2>1 DEF Counters, Processed
<1>18. \A x \in f..last : x # new BY <1>6
<1>19. \A r \in 1..N :
         r > p => /\ K[r] = maps[last + r] /\ K[r] \notin parsed.before
                  /\ \A x \in DOMAIN maps : maps[x] = K[r] => x = last + r
  BY <1>4, <1>5, <1>6 DEF Matching, Unmatched
<1>20. p + 1 > p BY <1>6
<1>21. \A r, x \in 1..N : K[r] = K[x] => r = x
  <2>1. TAKE r, x \in 1..N
  <2>2. r < x \/ x < r \/ r = x OBVIOUS
  <2>3. Ascending(K) BY <1>2, StartsAscend DEF Matching
  <2>4. info[K[r]].start \in Nat /\ info[K[x]].start \in Nat
    BY <1>2, <1>4, StartsAscend, InfoFields DEF Matching
  <2>. QED BY <1>4, <2>2, <2>3, <2>4 DEF Ascending
<1>22. Range(L) \subseteq Range(ms)
  <2>1. SUFFICES ASSUME NEW r \in 1..N PROVE L[r] \in Range(ms) BY <1>11 DEF Range
  <2>2. CASE r = p + 1
    <3>1. k \in DOMAIN maps /\ k # new /\ k \notin f..(k - 1) BY <1>6, <1>15, <1>18
    <3>2. ms[k] = o BY <1>7, <1>8, <3>1
    <3>. QED BY <1>7, <1>11, <2>2, <3>1, <3>2 DEF Range
  <2>3. CASE r # p + 1
    <3>1. K[r] \in Range(K) BY <1>4 DEF Range
    <3>2. PICK x \in DOMAIN maps : maps[x] = K[r] BY <3>1 DEF Matching, Range
    <3>3. x \notin f..last BY <1>15, <3>1, <3>2
    <3>4. x \notin f..(k - 1) BY <1>6, <3>3
    <3>5. maps[new] = K[p + 1] BY <1>5 DEF Scan
    <3>6. x # new BY <1>6, <1>21, <2>3, <3>2, <3>5
    <3>7. ms[x] = L[r] BY <1>7, <1>11, <2>3, <3>2, <3>4, <3>6
    <3>. QED BY <1>7, <3>7 DEF Range
  <2>. QED BY <2>2, <2>3
<1>23. \A x \in DOMAIN ms : x \notin (k + 1)..last /\ ms[x] # 0 => ms[x] \in Range(L)
  <2>1. SUFFICES ASSUME NEW x \in DOMAIN ms, x \notin (k + 1)..last, ms[x] # 0 PROVE ms[x] \in Range(L) OBVIOUS
  <2>2. ms[x] = maps[x] /\ x \notin f..(k - 1) /\ x # new BY <1>7, <2>1
  <2>3. CASE x = k
    <3>1. ms[x] = L[p + 1] BY <1>8, <1>11, <2>2, <2>3
    <3>. QED BY <1>6, <1>11, <3>1 DEF Range
  <2>4. CASE x # k
    <3>1. x \notin f..last BY <1>6, <2>1, <2>2, <2>4
    <3>2. maps[x] \in Range(K) BY <1>7, <1>12, <2>1, <2>2, <3>1 DEF Matching
    <3>3. PICK r \in 1..N : maps[x] = K[r] BY <1>4, <3>2 DEF Range
    <3>4. r # p + 1
      <4>1. r = p + 1 => x = last + r BY <1>6, <1>7, <1>19, <1>20, <3>3
      <4>. QED BY <1>6, <2>2, <4>1
    <3>5. ms[x] = L[r] BY <1>11, <2>2, <3>3, <3>4
    <3>. QED BY <1>11, <3>5 DEF Range
  <2>. QED BY <2>3, <2>4
<1>24. Unmatched(g, L)'
  <2>1. ASSUME NEW r \in 1..N, r > p + 1
        PROVE  /\ L[r] = ms[last + r] /\ L[r] \notin parsed.before
               /\ \A x \in DOMAIN ms : ms[x] = L[r] => x = last + r
    <3>1. r > p /\ r # p + 1 BY <1>6, <2>1
    <3>2. L[r] = K[r] /\ K[r] # 0 /\ K[r] \in DOMAIN info BY <1>4, <1>11, <3>1, LastParsed
    <3>3. last + r \in DOMAIN maps /\ last + r # new /\ last + r \notin f..(k - 1) BY <1>6, <1>16, <2>1
    <3>4. ms[last + r] = maps[last + r] BY <1>7, <3>3
    <3>5. \A x \in DOMAIN ms : ms[x] = L[r] => maps[x] = K[r] BY <1>7, <3>2
    <3>. QED BY <1>7, <1>19, <3>1, <3>2, <3>4, <3>5
  <2>2. ms = maps' /\ parsed' = parsed /\ g.last = last BY <1>1, <1>5
  <2>3. g.new - g.last - 1 = p + 1 BY <1>13 DEF Processed
  <2>4. \A r \in DOMAIN L : r > g.new - g.last - 1 => r \in 1..N /\ r > p + 1 BY <1>11, <2>3
  <2>5. \A r \in DOMAIN L :
          r > g.new - g.last - 1 =>
            /\ L[r] = maps'[g.last + r] /\ L[r] \notin parsed'.before
            /\ \A x \in DOMAIN maps' : maps'[x] = L[r] => x = g.last + r
    BY <2>1, <2>2, <2>4
  <2>. QED BY <2>5 DEF Unmatched, Processed
<1>25. \A x \in (k + 1)..last : x \in f..last /\ x > k /\ x \in DOMAIN maps /\ ms[x] = maps[x]
  <2>1. TAKE x \in (k + 1)..last
  <2>2. x \in f..last /\ x \notin f..(k - 1) /\ x > k BY <1>6
  <2>. QED BY <1>7, <1>15, <1>18, <2>2
<1>26. \A i \in DOMAIN info : ps[i].start = info[i].start /\ \A r : SameMap(ps[i], l[r]) => SameMap(info[i], l[r])
  BY <1>10 DEF SameRegion, SameMap
<1>27. OldOnes(g)'
  <2>1. ASSUME NEW x \in (k + 1)..last
        PROVE  /\ ms[x] \in parsed.before /\ ps[ms[x]].start > s
               /\ \A y \in (k + 1)..last : x < y => ps[ms[x]].start < ps[ms[y]].start
    <3>1. \A y \in f..last : x < y => info[maps[x]].start < info[maps[y]].start
      BY <1>12, <1>25 DEF Matching, OldOnes
    <3>2. maps[x] \in parsed.before /\ info[maps[x]].start > s /\ maps[x] \in DOMAIN info BY <1>15, <1>25
    <3>. QED BY <1>15, <1>25, <1>26, <3>1, <3>2
  <2>. QED BY <1>1, <1>2, <1>12, <1>13, <1>14, <2>1 DEF OldOnes, Processed, Pending
<1>28. ASSUME NEW i \in parsed.before, NEW r \in 1..N, SameMap(info[i], l[r])
       PROVE  IF r <= p + 1 THEN L[r] = i ELSE \E x \in (k + 1)..last : ms[x] = i
  <2>1. IF r <= p THEN K[r] = i ELSE \E x \in f..last : maps[x] = i
    BY <1>2, <1>4, <1>6, <1>12, <1>28 DEF Matching, FoundOrPending
  <2>2. info[i].start = l[r].start /\ l[r].start \in Nat BY <1>3, <1>28, LayoutRegions DEF SameMap
  <2>3. CASE r <= p
    <3>1. r <= p + 1 /\ r # p + 1 BY <1>6, <2>3
    <3>. QED BY <1>11, <2>1, <2>3, <3>1
  <2>4. CASE ~(r <= p)
    <3>1. PICK x \in f..last : maps[x] = i BY <2>1, <2>4
    <3>2. CASE r = p + 1
      <4>1. info[maps[x]].start = s BY <1>14, <2>2, <3>1, <3>2
      <4>2. ~(x > k) BY <1>15, <3>1, <4>1
      <4>3. ~(x < k)
        <5>1. x < k => info[maps[x]].start < info[maps[k]].start BY <1>6, <1>12 DEF Matching, OldOnes
        <5>2. info[maps[k]].start = s BY <1>6, <1>15
        <5>. QED BY <4>1, <5>1, <5>2
      <4>4. x = k BY <1>6, <4>2, <4>3
      <4>. QED BY <1>8, <1>11, <3>1, <3>2, <4>4
    <3>3. CASE r > p + 1
      <4>1. l[p + 1].start < l[r].start BY <1>3, <1>6, <2>2, <3>3, LayoutRegions, LayoutOrder
      <4>2. ~(info[maps[x]].start <= s) /\ info[maps[x]].start # s BY <1>14, <2>2, <3>1, <4>1
      <4>3. ~(x < k) /\ x # k BY <1>15, <4>2
      <4>4. x \in (k + 1)..last BY <1>6, <4>3
      <4>5. ms[x] = i BY <1>25, <3>1, <4>4
      <4>6. ~(r <= p + 1) BY <1>6, <3>3
      <4>. QED BY <4>4, <4>5, <4>6
    <3>. QED BY <1>6, <2>4, <3>2, <3>3
  <2>. QED BY <2>3, <2>4
<1>29. FoundOrPending(g, L)'
  <2>1. \A i \in parsed.before : i \in DOMAIN info BY LastParsed
  <2>. QED BY <1>1, <1>2, <1>11, <1>12, <1>13, <1>26, <1>28, <2>1 DEF FoundOrPending, Processed, Pending
<1>30. Matching(g, L)' BY <1>1, <1>10, <1>12, <1>17, <1>22, <1>23, <1>24, <1>27, <1>29 DEF Matching, Pending
<1>. QED BY <1>1, <1>7, <1>10, <1>30

(* The old object that was found for the last region looked at.            *)
FoundLast(j, i) == Processed(j) \in DOMAIN parsed.layout /\ info[i].start = parsed.layout[Processed(j)].start

LEMMA ReparseMatchKeepsList ==
  ASSUME TypeOK, ListInv, NEW t \in Thread, ReparseMatch(t)
  PROVE  /\ TypeOK' /\ ListInv'
         /\ \A i \in DOMAIN info : SameRegion(info'[i], info[i]) /\ SameElf(info'[i], info[i])
         /\ Len(info') = Len(info)
         /\ \A i \in parsed.before : info'[i].prev = info[i].prev \/ FoundLast(job'[t], i)
         /\ \A u \in Thread : u # t => job'[u] = job[u]
         /\ job[t].ph = "match" /\ job'[t].ph = "match" /\ UNCHANGED << elfs, bounds, kernel >>
<1>1. PICK j : j = job[t] /\ j \in Jobs /\ j.ph = "match" BY JobsOf DEF ReparseMatch, At
<1>2. writer = t /\ t # None BY <1>1, ThreadAssumption DEF ListInv, None
<1>3. PICK K : Matching(j, K) BY <1>1, <1>2 DEF ListInv
<1>4. UNCHANGED << kernel, writer, elfs, search, fault, parsed, bounds >> /\ j.new <= Len(maps)
  BY <1>1 DEF ReparseMatch
<1>5. PICK k : MatchFrom(t, j, k) BY <1>1, ReparseMatchEffect
<1>6. k \in j.from..(j.last + 1) /\ StopsAt(j, k) BY <1>5 DEF MatchFrom
<1>7. PICK p : Scan(j, K, k, p) BY <1>1, <1>3, <1>4, <1>6, ScanKnows
<1>8. j.new \in Nat /\ j.from \in Nat BY <1>1 DEF Jobs
<1>9. k \in Nat BY <1>6, <1>7, <1>8 DEF Scan
<1>10. PICK g : g = job'[t] OBVIOUS
<1>11. PICK a \in Nat, b \in Nat : a = j.new + 1 /\ b = k + 1 BY <1>8, <1>9
<1>12. InfoType' /\ Len(info') = Len(info) /\ maps' \in Seq(0..Len(info)) /\ JobType'
       /\ (\A i \in DOMAIN info : SameRegion(info'[i], info[i]) /\ SameElf(info'[i], info[i]))
       /\ g.ph = j.ph /\ (\A u \in Thread : u # t => job'[u] = job[u])
       /\ (\A i \in parsed.before : info'[i].prev = info[i].prev \/ FoundLast(g, i))
       /\ \E L : Matching(g, L)'
  <2>1. CASE FoundAt(j, k)
    <3>1. /\ maps' = [Dropped(j, k) EXCEPT ![j.new] = 0]
          /\ info' = Relink(maps[k], Lock(Wanted(j).prev), Lock(Wanted(j).next))
          /\ Go(t, [new |-> a, from |-> b])
      BY <1>5, <1>11, <2>1 DEF MatchFrom
    <3>2. \A i \in DOMAIN info : SameRegion(info'[i], info[i]) /\ SameElf(info'[i], info[i])
      <4>1. PICK L : L = [K EXCEPT ![p + 1] = maps[k]] OBVIOUS
      <4>. QED BY <1>3, <1>4, <1>7, <2>1, <3>1, <4>1, TakesPlace
    <3>3. Len(info') = Len(info)
      <4>1. PICK L : L = [K EXCEPT ![p + 1] = maps[k]] OBVIOUS
      <4>. QED BY <1>3, <1>4, <1>7, <2>1, <3>1, <4>1, TakesPlace
    <3>4. /\ JobType' /\ \A u \in Thread : u # t => job'[u] = job[u]
          /\ g.new = a /\ g.from = b /\ g.last = j.last /\ g.ph = j.ph
      BY <1>1, <1>10, <3>1, <3>3, MatchJob
    <3>5. g.new = j.new + 1 /\ g.from = k + 1 /\ g.last = j.last BY <1>11, <3>4
    <3>6. /\ \E L : Matching(g, L)'
          /\ InfoType' /\ maps' \in Seq(0..Len(info))
      BY <1>3, <1>4, <1>7, <2>1, <3>1, <3>5, FoundList
    <3>7. \A i \in parsed.before : i # maps[k] => info'[i].prev = info[i].prev
      <4>1. PICK L : L = [K EXCEPT ![p + 1] = maps[k]] OBVIOUS
      <4>. QED BY <1>3, <1>4, <1>7, <2>1, <3>1, <4>1, TakesPlace
    <3>8. FoundLast(g, maps[k])
      <4>1. Processed(g) = p + 1
        <5>1. PICK y \in Int, z \in Int : y = j.new /\ z = j.last BY <1>7, <1>8 DEF Scan
        <5>2. p = y - z - 1 BY <1>7, <5>1 DEF Scan
        <5>3. Processed(g) = (y + 1) - z - 1 BY <3>5, <5>1 DEF Processed
        <5>. QED BY <5>2, <5>3
      <4>2. p + 1 \in DOMAIN parsed.layout
        <5>1. DOMAIN K = 1..Len(parsed.layout) BY <1>3, LastParsed, StartsAscend DEF Matching
        <5>2. DOMAIN parsed.layout = 1..Len(parsed.layout) BY LastParsed, LayoutRegions
        <5>. QED BY <1>7, <5>1, <5>2 DEF Scan
      <4>3. k \in j.from..j.last BY <1>7, <2>1 DEF Scan, FoundAt
      <4>4. info[maps[k]].start = parsed.layout[p + 1].start BY <1>7, <2>1, <4>3 DEF Scan
      <4>. QED BY <4>1, <4>2, <4>4 DEF FoundLast
    <3>9. \A i \in parsed.before : info'[i].prev = info[i].prev \/ FoundLast(g, i) BY <3>7, <3>8
    <3>. QED BY <3>2, <3>3, <3>4, <3>6, <3>9
  <2>2. CASE ~FoundAt(j, k)
    <3>1. maps' = Dropped(j, k) /\ Go(t, [new |-> a, from |-> k]) /\ UNCHANGED info
      BY <1>5, <1>11, <2>2 DEF MatchFrom
    <3>2. InfoType' /\ \A i \in DOMAIN info : SameRegion(info'[i], info[i]) /\ SameElf(info'[i], info[i])
      BY <1>4, <3>1 DEF TypeOK, InfoType, SameRegion, SameElf
    <3>3. /\ JobType' /\ \A u \in Thread : u # t => job'[u] = job[u]
          /\ g.new = a /\ g.from = k /\ g.last = j.last /\ g.ph = j.ph
      BY <1>1, <1>9, <1>10, <3>1, MatchJob
    <3>4. maps' \in Seq(0..Len(info))
      <4>1. PICK ms : ms = maps' OBVIOUS
      <4>2. ms \in Seq(0..Len(info)) BY <3>1, <4>1, DroppedEffect
      <4>. QED BY <4>1, <4>2
    <3>5. Matching(g, K)' BY <1>3, <1>4, <1>6, <1>7, <1>11, <2>2, <3>1, <3>3, UnfoundList
    <3>6. \A i \in parsed.before : info'[i].prev = info[i].prev BY <3>1
    <3>. QED BY <3>1, <3>2, <3>3, <3>4, <3>5, <3>6
  <2>. QED BY <2>1, <2>2
<1>13. TypeOK' BY <1>4, <1>12 DEF TypeOK, ElfType, SearchType
<1>14. \A u \in Thread : job'[u].ph = "match" => u = writer' BY <1>2, <1>4, <1>12 DEF ListInv
<1>15. job'[writer'] = g /\ writer' # None BY <1>2, <1>4, <1>10
<1>16. (\E K_ : Matching(job[writer], K_))' BY <1>12, <1>15
<1>17. ListInv' BY <1>1, <1>12, <1>14, <1>15, <1>16 DEF ListInv
<1>18. job'[t].ph = "match" BY <1>1, <1>10, <1>12
<1>19. \A i \in parsed.before : info'[i].prev = info[i].prev \/ FoundLast(job'[t], i) BY <1>10, <1>12
<1>. QED BY <1>1, <1>4, <1>12, <1>13, <1>17, <1>18, <1>19

LEMMA ReparseFinishKeepsList ==
  ASSUME TypeOK, ListInv, NEW t \in Thread, ReparseFinish(t)
  PROVE  /\ TypeOK' /\ ListInv' /\ UNCHANGED << info, elfs, bounds, kernel >>
         /\ \A u \in Thread : u # t => job'[u] = job[u]
         /\ job[t].ph = "match" /\ job'[t].ph = "found" /\ job'[t].goal = job[t].goal
<1>1. PICK j : j = job[t] /\ j \in Jobs /\ j.ph = "match" BY JobsOf DEF ReparseFinish, At
<1>2. writer = t /\ t # None BY <1>1, ThreadAssumption DEF ListInv, None
<1>3. PICK K : Matching(j, K) BY <1>1, <1>2 DEF ListInv
<1>4. PICK l \in Layouts : l = parsed.layout BY LastParsed
<1>5. K \in Seq(DOMAIN info) /\ Ascending(K) /\ DOMAIN K = 1..Len(l) BY <1>3, <1>4, StartsAscend DEF Matching, Chain
<1>6. PICK kept : kept = [x \in DOMAIN maps |-> IF x \in j.from..j.last THEN 0 ELSE maps[x]] OBVIOUS
<1>7. maps' = ByAddress(Range(kept) \ {0}) BY <1>1, <1>6 DEF ReparseFinish
<1>8. Range(kept) \ {0} = Range(K)
  <2>1. \A i \in Range(kept) \ {0} : i \in Range(K) BY <1>3, <1>6 DEF Matching, Pending, Range
  <2>2. ASSUME NEW i \in Range(K) PROVE i \in Range(kept) \ {0}
    <3>1. PICK x \in DOMAIN maps : maps[x] = i BY <1>3, <2>2 DEF Matching, Range
    <3>2. x \notin j.from..j.last BY <1>3, <2>2, <3>1, PendingApart DEF Pending
    <3>3. i # 0 BY <1>5, <2>2, LastParsed DEF Range
    <3>. QED BY <1>6, <3>1, <3>2, <3>3 DEF Range
  <2>. QED BY <2>1, <2>2
<1>9. maps' = K BY <1>5, <1>7, <1>8, ByAddressOfList
<1>10. UNCHANGED << kernel, info, elfs, search, fault, parsed, bounds >> /\ writer' = None BY DEF ReparseFinish
<1>11. PICK n \in Nat : n = Len(info) BY LastParsed
<1>12. K \in Seq(0..n)
  <2>1. DOMAIN info \subseteq 0..n BY <1>11, LastParsed
  <2>. QED BY <1>5, <2>1
<1>13. PICK i : i = FindIn(K, j.pc) OBVIOUS
<1>14. i \in Nat /\ i <= n
  <2>1. i \in Range(K) \cup {0} BY <1>12, <1>13, FindInRange
  <2>2. Range(K) \subseteq 0..n BY <1>12 DEF Range
  <2>. QED BY <2>1, <2>2
<1>15. PICK g : g = job'[t] OBVIOUS
<1>16. JobType' /\ g.ph = "found" /\ g.goal = j.goal /\ \A u \in Thread : u # t => job'[u] = job[u]
  <2>1. PICK p : p = "found" OBVIOUS
  <2>2. p \in Phases /\ p \notin GetElfPhases /\ p # "walk" /\ p # "search" BY <2>1 DEF Phases, GetElfPhases
  <2>3. Go(t, [ph |-> p, map |-> i]) BY <1>1, <1>9, <1>13, <2>1 DEF ReparseFinish
  <2>4. PICK k : k = With(j, [ph |-> p, map |-> i]) OBVIOUS
  <2>5. /\ k \in Jobs /\ k.ph = p /\ k.map = i /\ k.w = j.w /\ k.goal = j.goal /\ k.zero = j.zero /\ k.frame = j.frame
    BY <1>1, <1>14, <2>2, <2>4, WithFoundAgain
  <2>6. JobIn(j, n) BY <1>1, <1>11, JobsOf
  <2>7. JobIn(k, n) BY <1>14, <2>2, <2>5, <2>6 DEF JobIn
  <2>8. JobIn(With(job[t], [ph |-> p, map |-> i]), Len(info)) BY <1>1, <1>11, <2>4, <2>7
  <2>9. JobType' BY <1>10, <2>3, <2>8, GoType DEF TypeOK
  <2>10. g = k /\ \A u \in Thread : u # t => job'[u] = job[u] BY <1>1, <1>15, <2>3, <2>4, GoEffect DEF TypeOK
  <2>. QED BY <2>1, <2>5, <2>9, <2>10
<1>17. maps' \in Seq(0..Len(info)) BY <1>9, <1>11, <1>12
<1>18. TypeOK' BY <1>10, <1>16, <1>17 DEF TypeOK, InfoType, ElfType, SearchType
<1>19. Chain(maps, parsed.layout)' BY <1>3, <1>9, <1>10 DEF Matching, Chain
<1>20. StillThere(maps)'
  <2>1. ASSUME NEW i_ \in parsed.before, NEW r \in DOMAIN l, SameMap(info[i_], l[r]) PROVE i_ = K[r]
    <3>1. r \in 1..Len(l) /\ r \in DOMAIN K /\ Len(l) \in Nat BY <1>5, LayoutRegions
    <3>2. IF r <= Processed(j) THEN K[r] = i_ ELSE \E x \in Pending(j) : maps[x] = i_
      BY <1>3, <1>4, <2>1, <3>1 DEF Matching, FoundOrPending
    <3>3. r <= Processed(j) \/ Pending(j) = {}
      <4>1. j.new > Len(maps) \/ j.from > j.last BY <1>1 DEF ReparseFinish
      <4>2. j.new \in Nat /\ j.from \in Nat /\ j.last \in Nat BY <1>1 DEF Jobs
      <4>3. Len(maps) = j.last + Len(l) BY <1>3, <1>4 DEF Matching, Counters
      <4>4. j.new > Len(maps) => r <= Processed(j) BY <3>1, <4>2, <4>3 DEF Processed
      <4>5. j.from > j.last => Pending(j) = {} BY <4>2 DEF Pending
      <4>. QED BY <4>1, <4>4, <4>5
    <3>. QED BY <3>2, <3>3
  <2>. QED BY <1>4, <1>9, <1>10, <2>1 DEF StillThere
<1>21. \A u \in Thread : job'[u].ph # "match" BY <1>2, <1>15, <1>16 DEF ListInv
<1>22. ListInv' BY <1>10, <1>19, <1>20, <1>21 DEF ListInv
<1>. QED BY <1>1, <1>10, <1>15, <1>16, <1>18, <1>22

LEMMA InitList == Init => ListInv
<1>. SUFFICES ASSUME Init PROVE ListInv OBVIOUS
<1>1. TypeOK BY InitType
<1>2. PICK l \in Layouts : l = kernel /\ l = parsed.layout BY LayoutAssumption DEF Init
<1>3. PICK n \in Nat : n = Len(l) BY LayoutRegions
<1>4. maps = [k \in 1..n |-> k] BY <1>2, <1>3 DEF Init
<1>5. info = [k \in 1..n |-> MapInfoOf(l[k], k - 1, IF k = n THEN 0 ELSE k + 1)] BY <1>2, <1>3 DEF Init
<1>6. DOMAIN info = 1..n BY <1>5
<1>7. maps \in Seq(DOMAIN info) /\ Len(maps) = n /\ DOMAIN maps = 1..n BY <1>4, <1>6
<1>8. ASSUME NEW r \in 1..n
      PROVE  /\ SameMap(info[maps[r]], l[r])
             /\ info[maps[r]].prev = (IF r = 1 THEN 0 ELSE maps[r - 1])
             /\ info[maps[r]].next = (IF r = n THEN 0 ELSE maps[r + 1])
  <2>1. info[maps[r]] = MapInfoOf(l[r], r - 1, IF r = n THEN 0 ELSE r + 1) BY <1>4, <1>5
  <2>2. r # 1 => maps[r - 1] = r - 1
    <3>1. r # 1 => r - 1 \in 1..n OBVIOUS
    <3>. QED BY <1>4, <3>1
  <2>3. r # n => maps[r + 1] = r + 1
    <3>1. r # n => r + 1 \in 1..n OBVIOUS
    <3>. QED BY <1>4, <3>1
  <2>4. r = 1 => r - 1 = 0 OBVIOUS
  <2>5. SameMap(info[maps[r]], l[r]) /\ info[maps[r]].prev = r - 1 /\ info[maps[r]].next = (IF r = n THEN 0 ELSE r + 1)
    BY <2>1 DEF MapInfoOf, SameMap
  <2>. QED BY <2>2, <2>3, <2>4, <2>5
<1>9. Chain(maps, parsed.layout) BY <1>2, <1>3, <1>7, <1>8 DEF Chain
<1>10. StillThere(maps) /\ writer = None BY DEF StillThere, Init
<1>11. \A t \in Thread : job[t].ph # "match" BY DEF Init, IdleJob
<1>. QED BY <1>9, <1>10, <1>11 DEF ListInv
----------------------------------------------------------------------------
(* Types and the list, over every step.                                    *)
LEMMA ReparseParseKeepsList ==
  ASSUME TypeOK, ListInv, NEW t \in Thread, ReparseParse(t) PROVE TypeOK' /\ ListInv'
BY ReparseParseType, QuietKeepsList, BeganList

LEMMA QuietSteps ==
  ASSUME TypeOK, NEW t \in Thread,
         \/ Find(t) \/ NoMap(t) \/ GetElf(t) \/ GetPrevRealMap(t) \/ GetFileMemory(t) \/ FromPreviousReadOnlyMap(t)
         \/ FromPreviousRange(t) \/ ShareElf(t) \/ Got(t) \/ FindVariable(t) \/ ReadVariable(t)
  PROVE  TypeOK' /\ Quiet(t)
<1>1. CASE Find(t) BY <1>1, FindType
<1>2. CASE NoMap(t) BY <1>2, NoMapType
<1>3. CASE GetElf(t) BY <1>3, GetElfEffect
<1>4. CASE GetPrevRealMap(t) BY <1>4, GetPrevRealMapType
<1>5. CASE GetFileMemory(t) BY <1>5, GetFileMemoryType
<1>6. CASE FromPreviousReadOnlyMap(t) BY <1>6, FromPreviousReadOnlyMapType
<1>7. CASE FromPreviousRange(t) BY <1>7, FromPreviousRangeType
<1>8. CASE ShareElf(t)
  <2>1. PICK i, w : i = job[t].map /\ w = job[t].w OBVIOUS
  <2>. QED BY <1>8, <2>1, ShareElfEffect
<1>9. CASE Got(t) BY <1>9, GotType
<1>10. CASE FindVariable(t) BY <1>10, FindVariableType
<1>11. CASE ReadVariable(t) BY <1>11, ReadVariableType
<1>. QED BY <1>1, <1>2, <1>3, <1>4, <1>5, <1>6, <1>7, <1>8, <1>9, <1>10, <1>11

LEMMA RemapKeepsList == ASSUME TypeOK, ListInv, Remap PROVE TypeOK' /\ ListInv'
<1>1. UNCHANGED << info, maps, writer, elfs, job, search, fault, parsed >> BY DEF Remap
<1>2. ListInv'
  <2>1. ASSUME NEW K, NEW l, Chain(K, l) PROVE Chain(K, l)' BY <1>1, <2>1 DEF Chain
  <2>2. ASSUME NEW j, NEW K, Matching(j, K) PROVE Matching(j, K)'
    BY <1>1, <2>2 DEF Matching, Chain, Counters, Unmatched, OldOnes, FoundOrPending
  <2>3. ASSUME writer = None PROVE (Chain(maps, parsed.layout) /\ StillThere(maps))'
    BY <1>1, <2>3 DEF ListInv, Chain, StillThere
  <2>4. ASSUME writer # None PROVE (job[writer].ph = "match" /\ \E K : Matching(job[writer], K))'
    BY <1>1, <2>2, <2>4 DEF ListInv
  <2>. QED BY <1>1, <2>3, <2>4 DEF ListInv
<1>. QED BY <1>2, RemapType

LEMMA StutterKeepsList == ASSUME TypeOK, ListInv, UNCHANGED vars PROVE TypeOK' /\ ListInv'
<1>1. UNCHANGED << kernel, info, maps, writer, elfs, job, search, fault, parsed, bounds >> BY DEF vars
<1>2. TypeOK' BY <1>1 DEF TypeOK, InfoType, ElfType, JobType, SearchType
<1>3. ListInv'
  <2>2. ASSUME NEW j, NEW K, Matching(j, K) PROVE Matching(j, K)'
    BY <1>1, <2>2 DEF Matching, Chain, Counters, Unmatched, OldOnes, FoundOrPending
  <2>3. ASSUME writer = None PROVE (Chain(maps, parsed.layout) /\ StillThere(maps))'
    BY <1>1, <2>3 DEF ListInv, Chain, StillThere
  <2>4. ASSUME writer # None PROVE (job[writer].ph = "match" /\ \E K : Matching(job[writer], K))'
    BY <1>1, <2>2, <2>4 DEF ListInv
  <2>. QED BY <1>1, <2>3, <2>4 DEF ListInv
<1>. QED BY <1>2, <1>3

LEMMA NextKeepsList == ASSUME TypeOK, ListInv, [Next]_vars PROVE TypeOK' /\ ListInv'
<1>1. CASE Remap BY <1>1, RemapKeepsList
<1>2. CASE SomeThread
  <2>1. PICK t \in Thread : ThreadStep(t) BY <1>2 DEF SomeThread
  <2>2. CASE ReparseParse(t) BY <2>2, ReparseParseKeepsList
  <2>3. CASE ReparseMatch(t) BY <2>3, ReparseMatchKeepsList
  <2>4. CASE ReparseFinish(t) BY <2>4, ReparseFinishKeepsList
  <2>5. CASE \/ Find(t) \/ NoMap(t) \/ GetElf(t) \/ GetPrevRealMap(t) \/ GetFileMemory(t) \/ FromPreviousReadOnlyMap(t)
             \/ FromPreviousRange(t) \/ ShareElf(t) \/ Got(t) \/ FindVariable(t) \/ ReadVariable(t)
    BY <2>5, QuietSteps, QuietKeepsList
  <2>. QED BY <2>1, <2>2, <2>3, <2>4, <2>5 DEF ThreadStep
<1>3. CASE UNCHANGED vars BY <1>3, StutterKeepsList
<1>. QED BY <1>1, <1>2, <1>3 DEF Next

\* Every object of the program stays within its type: the indices of the list, the links, the Elf objects
\* and what the threads hold (Maps.h, MapInfo.h).
THEOREM Typed == Spec => []TypeOK
<1>1. Init => TypeOK /\ ListInv BY InitType, InitList
<1>2. TypeOK /\ ListInv /\ [Next]_vars => (TypeOK /\ ListInv)' BY NextKeepsList
<1>. QED BY <1>1, <1>2, PTL DEF Spec

\* ListInv holds in every state, in the middle of a Reparse too (Maps.cpp, Reparse).
THEOREM ListHolds == Spec => []ListInv
<1>1. Init => TypeOK /\ ListInv BY InitType, InitList
<1>2. TypeOK /\ ListInv /\ [Next]_vars => (TypeOK /\ ListInv)' BY NextKeepsList
<1>. QED BY <1>1, <1>2, PTL DEF Spec

LEMMA ListImplies == TypeOK /\ ListInv => ListIsParse
<1>. SUFFICES ASSUME TypeOK, ListInv, writer = None
              PROVE /\ Len(maps) = Len(parsed.layout)
                    /\ \A k \in DOMAIN maps :
                         /\ SameMap(info[maps[k]], parsed.layout[k])
                         /\ info[maps[k]].prev = (IF k = 1 THEN 0 ELSE maps[k - 1])
                         /\ info[maps[k]].next = (IF k = Len(maps) THEN 0 ELSE maps[k + 1])
                    /\ \A i \in parsed.before :
                         (\E k \in DOMAIN parsed.layout : SameMap(info[i], parsed.layout[k])) => i \in Range(maps)
  BY DEF ListIsParse
<1>1. Chain(maps, parsed.layout) /\ StillThere(maps) BY DEF ListInv
<1>2. PICK l \in Layouts : l = parsed.layout BY LastParsed
<1>3. DOMAIN maps = DOMAIN l
  <2>1. DOMAIN maps = 1..Len(l) BY <1>1, <1>2, StartsAscend
  <2>. QED BY <2>1, <1>2, LayoutRegions
<1>4. \A i \in parsed.before : (\E k \in DOMAIN l : SameMap(info[i], l[k])) => i \in Range(maps)
  BY <1>1, <1>2, <1>3 DEF StillThere, Range
<1>. QED BY <1>1, <1>2, <1>4 DEF Chain

\* Whenever no Reparse is under way the list is the layout that was parsed last, in address order, with
\* links along it in both directions, and a map that is still there has kept its object (Maps.cpp, Reparse).
THEOREM ListIsParseHolds == Spec => []ListIsParse
<1>1. TypeOK /\ ListInv => ListIsParse BY ListImplies
<1>. QED BY <1>1, Typed, ListHolds, PTL

(* Whenever no Reparse is under way Find's binary search answers with the  *)
(* map that covers the address, and with none only when there is none.     *)
FindRight ==
  writer = None =>
    \A pc \in Pcs :
      IF FindIn(maps, pc) = 0 THEN \A k \in DOMAIN maps : ~Covers(maps[k], pc)
      ELSE \E k \in DOMAIN maps : FindIn(maps, pc) = maps[k] /\ Covers(maps[k], pc)

LEMMA ListSearched == TypeOK /\ ListInv => FindRight
<1>. SUFFICES ASSUME TypeOK, ListInv, writer = None, NEW pc \in Pcs
              PROVE  IF FindIn(maps, pc) = 0 THEN \A k \in DOMAIN maps : ~Covers(maps[k], pc)
                     ELSE \E k \in DOMAIN maps : FindIn(maps, pc) = maps[k] /\ Covers(maps[k], pc)
  BY DEF FindRight
<1>1. Chain(maps, parsed.layout) BY DEF ListInv
<1>2. PICK l \in Layouts : l = parsed.layout BY LastParsed
<1>3. maps \in Seq(DOMAIN info) /\ 0 \notin DOMAIN info BY <1>1, LastParsed DEF Chain
<1>4. 0 \notin Range(maps) BY <1>3 DEF Range
<1>5. DOMAIN maps = DOMAIN l
  <2>1. DOMAIN maps = 1..Len(l) BY <1>1, <1>2, StartsAscend
  <2>. QED BY <2>1, <1>2, LayoutRegions
<1>6. InOrder(maps)
  <2>1. \A k \in DOMAIN maps : info[maps[k]].start = l[k].start /\ info[maps[k]].end = l[k].end
    BY <1>1, <1>2 DEF Chain, SameMap
  <2>. QED BY <1>5, <2>1, LayoutRegions, LayoutOrder DEF InOrder
<1>7. pc \in Int BY PcAssumption
<1>. QED BY <1>3, <1>4, <1>6, <1>7, FindInRight

\* Find under the read lock: the binary search over the list finds the map of a pc exactly if there is one
\* (Maps.cpp, Find).
THEOREM FindFinds == Spec => []FindRight
<1>1. TypeOK /\ ListInv => FindRight BY ListSearched
<1>. QED BY <1>1, Typed, ListHolds, PTL
----------------------------------------------------------------------------
(* What a valid Elf tells of a map that has it.                            *)
Leads(i) ==
  info[i].elf # NoElf /\ elfs[info[i].elf].valid =>
    /\ info[i].elf_offset = info[i].off - info[i].elf_start
    /\ ~elfs[info[i].elf].mem \/ bounds.remaps = 0 => elfs[info[i].elf].at = << info[i].name, info[i].elf_start >>

Fresh(i) == info[i].elf = NoElf => info[i].elf_start = 0

(* A thread on its way to goal, in GetPrevRealMap too.                     *)
For(j, goal) == j.ph = goal \/ (j.ph = "walk" /\ j.goal = goal)
Looks(j)     == j.ph = "file" \/ For(j, "fileprev") \/ For(j, "memprev")
Busy(j)      == Looks(j) \/ For(j, "share")

(* It holds the map's elf_mutex, and knows why it looks further.           *)
Sought(t, j) ==
  /\ info[j.map].mutex = t
  /\ Looks(j) => info[j.map].elf = NoElf /\ info[j.map].elf_offset = 0
  /\ For(j, "fileprev") => ~ElfAt(info[j.map].name, info[j.map].off)
  /\ For(j, "memprev") => info[j.map].mem = TRUE
  /\ For(j, "share") => info[j.map].elf # NoElf /\ elfs[info[j.map].elf].valid
  /\ j.ph \in {"share", "memprev"} /\ j.w # 0 => info[j.w].name = info[j.map].name

(* Before the first Remap every object is one of the kernel's regions.     *)
Mapped == bounds.remaps = 0 => \A i \in DOMAIN info : \E k \in DOMAIN kernel : SameRegion(info[i], kernel[k])

ElfInv ==
  /\ \A i \in DOMAIN info : Leads(i) /\ Fresh(i)
  /\ \A t \in Thread : Busy(job[t]) => Sought(t, job[t])
  /\ Mapped

LEMMA ElfOf ==
  ASSUME TypeOK, NEW i \in DOMAIN info
  PROVE  /\ info[i] \in MapInfos /\ info[i].elf \in 0..Len(elfs) /\ Len(elfs) \in Nat
         /\ info[i].elf # NoElf => info[i].elf \in DOMAIN elfs
<1>1. info \in Seq(MapInfos) /\ elfs \in Seq(Elfs) /\ info[i].elf <= Len(elfs) BY DEF TypeOK, InfoType, ElfType
<1>2. info[i] \in MapInfos BY <1>1
<1>3. info[i].elf \in Nat BY <1>2, InfoFields
<1>4. PICK n \in Nat : n = Len(elfs) BY <1>1
<1>5. DOMAIN elfs = 1..n BY <1>1, <1>4
<1>. QED BY <1>1, <1>2, <1>3, <1>4, <1>5 DEF NoElf

LEMMA BusyMap ==
  ASSUME TypeOK, NEW t \in Thread, Busy(job[t])
  PROVE  /\ job[t].map \in DOMAIN info /\ job[t].ph \in GetElfPhases
         /\ job[t].w # 0 => job[t].w \in DOMAIN info
<1>1. job[t].ph \in GetElfPhases BY DEF Busy, Looks, For, GetElfPhases
<1>. QED BY <1>1, MapOf, JobMapW

(* Elf objects are only added.                                             *)
ElfsGrow == \A e \in DOMAIN elfs : elfs'[e] = elfs[e]

LEMMA LeadsStill ==
  ASSUME TypeOK, NEW i \in DOMAIN info, Leads(i), Fresh(i), ElfsGrow,
         bounds'.remaps = 0 => bounds.remaps = 0,
         SameRegion(info'[i], info[i]), SameElf(info'[i], info[i])
  PROVE  Leads(i)' /\ Fresh(i)'
<1>1. info[i].elf # NoElf => elfs'[info[i].elf] = elfs[info[i].elf] BY ElfOf DEF ElfsGrow
<1>2. PICK m, n : m = info[i] /\ n = info'[i] OBVIOUS
<1>3. /\ n.elf = m.elf /\ n.elf_offset = m.elf_offset /\ n.elf_start = m.elf_start /\ n.off = m.off /\ n.name = m.name
  BY <1>2 DEF SameRegion, SameElf
<1>4. Fresh(i)' BY <1>2, <1>3 DEF Fresh
<1>5. CASE m.elf = NoElf
  <2>. QED BY <1>2, <1>3, <1>4, <1>5 DEF Leads
<1>6. CASE m.elf # NoElf
  <2>1. PICK e : e = elfs[m.elf] /\ e = elfs'[m.elf] BY <1>1, <1>2, <1>6
  <2>2. e.valid => /\ m.elf_offset = m.off - m.elf_start
                   /\ ~e.mem \/ bounds.remaps = 0 => e.at = << m.name, m.elf_start >>
    BY <1>2, <1>6, <2>1 DEF Leads
  <2>3. e.valid => /\ n.elf_offset = n.off - n.elf_start
                   /\ ~e.mem \/ bounds'.remaps = 0 => e.at = << n.name, n.elf_start >>
    BY <1>3, <2>2
  <2>4. Leads(i)' BY <1>2, <1>3, <2>1, <2>3 DEF Leads
  <2>. QED BY <1>4, <2>4
<1>. QED BY <1>5, <1>6

LEMMA SoughtStill ==
  ASSUME TypeOK, NEW u \in Thread, NEW j, j = job[u], Busy(j), Sought(u, j), ElfsGrow,
         SameRegion(info'[j.map], info[j.map]), SameElf(info'[j.map], info[j.map]),
         j.w # 0 => SameRegion(info'[j.w], info[j.w]),
         NEW g, g.ph = j.ph, g.map = j.map, g.w = j.w, g.goal = j.goal
  PROVE  Sought(u, g)'
<1>1. j.map \in DOMAIN info BY BusyMap
<1>2. info[j.map].elf # NoElf => elfs'[info[j.map].elf] = elfs[info[j.map].elf] BY <1>1, ElfOf DEF ElfsGrow
<1>3. PICK i, m, n : i = j.map /\ m = info[i] /\ n = info'[i] OBVIOUS
<1>4. /\ n.elf = m.elf /\ n.elf_offset = m.elf_offset /\ n.mutex = m.mutex /\ n.mem = m.mem
      /\ n.off = m.off /\ n.name = m.name
  BY <1>3 DEF SameRegion, SameElf
<1>5. /\ Looks(g) <=> Looks(j)
      /\ For(g, "fileprev") <=> For(j, "fileprev")
      /\ For(g, "memprev") <=> For(j, "memprev")
      /\ For(g, "share") <=> For(j, "share")
  BY DEF Looks, For
<1>6. n.mutex = u /\ (Looks(g) => n.elf = NoElf /\ n.elf_offset = 0) BY <1>3, <1>4, <1>5 DEF Sought
<1>7. (For(g, "fileprev") => ~ElfAt(n.name, n.off)) /\ (For(g, "memprev") => n.mem = TRUE)
  BY <1>3, <1>4, <1>5 DEF Sought
<1>8. For(g, "share") => n.elf # NoElf /\ elfs'[n.elf].valid BY <1>2, <1>3, <1>4, <1>5 DEF Sought
<1>9. g.ph \in {"share", "memprev"} /\ g.w # 0 => info'[g.w].name = n.name
  BY <1>3, <1>4 DEF Sought, SameRegion
<1>. QED BY <1>3, <1>6, <1>7, <1>8, <1>9 DEF Sought, ElfAt, Looks, For

LEMMA MappedStill ==
  ASSUME TypeOK, TypeOK', Mapped, InfoKeeps, kernel' = kernel, bounds'.remaps = 0 => bounds.remaps = 0
  PROVE  Mapped'
<1>. SUFFICES ASSUME bounds'.remaps = 0
              PROVE  \A i \in DOMAIN info' : \E k \in DOMAIN kernel : SameRegion(info'[i], kernel[k])
  BY DEF Mapped
<1>1. DOMAIN info' = DOMAIN info BY KeptFields
<1>2. ASSUME NEW i \in DOMAIN info PROVE \E k \in DOMAIN kernel : SameRegion(info'[i], kernel[k])
  <2>1. PICK k \in DOMAIN kernel : SameRegion(info[i], kernel[k]) BY DEF Mapped
  <2>2. SameRegion(info'[i], info[i]) BY DEF InfoKeeps
  <2>. QED BY <2>1, <2>2 DEF SameRegion
<1>. QED BY <1>1, <1>2

(* What a step of t leaves alone, and what it owes of the map it changes.  *)
Touched(t, i) ==
  \/ SameElf(info'[i], info[i])
  \/ info[i].mutex \in {t, None} /\ Leads(i)' /\ Fresh(i)'

LEMMA QuietElf ==
  ASSUME TypeOK, TypeOK', ElfInv, NEW t \in Thread, Quiet(t), bounds'.remaps = bounds.remaps, ElfsGrow,
         \A i \in DOMAIN info : Touched(t, i),
         NEW g, g = job'[t], Busy(g) => Sought(t, g)'
  PROVE  ElfInv'
<1>1. InfoKeeps /\ kernel' = kernel /\ \A u \in Thread : u # t => job'[u] = job[u] BY DEF Quiet
<1>2. DOMAIN info' = DOMAIN info BY <1>1, KeptFields
<1>3. ASSUME NEW i \in DOMAIN info PROVE Leads(i)' /\ Fresh(i)'
  <2>1. SameRegion(info'[i], info[i]) BY <1>1 DEF InfoKeeps
  <2>2. Leads(i) /\ Fresh(i) BY DEF ElfInv
  <2>3. CASE SameElf(info'[i], info[i]) BY <2>1, <2>2, <2>3, LeadsStill
  <2>. QED BY <2>3 DEF Touched
<1>4. ASSUME NEW u \in Thread, NEW h, h = job'[u], Busy(h) PROVE Sought(u, h)'
  <2>1. CASE u = t
    <3>1. h = g BY <1>4, <2>1
    <3>. QED BY <1>4, <2>1, <3>1
  <2>2. CASE u # t
    <3>1. h = job[u] BY <1>1, <1>4, <2>2
    <3>2. Busy(h) /\ Sought(u, h) BY <1>4, <3>1 DEF ElfInv
    <3>3. h.map \in DOMAIN info /\ (h.w # 0 => h.w \in DOMAIN info) BY <3>1, <3>2, BusyMap
    <3>4. info[h.map].mutex = u BY <3>2 DEF Sought
    <3>5. u \notin {t, None} BY <2>2, ThreadAssumption DEF None
    <3>6. SameElf(info'[h.map], info[h.map]) BY <3>3, <3>4, <3>5 DEF Touched
    <3>7. SameRegion(info'[h.map], info[h.map]) /\ (h.w # 0 => SameRegion(info'[h.w], info[h.w]))
      BY <1>1, <3>3 DEF InfoKeeps
    <3>. QED BY <3>1, <3>2, <3>6, <3>7, SoughtStill
  <2>. QED BY <2>1, <2>2
<1>5. Mapped' BY <1>1, MappedStill DEF ElfInv
<1>6. \A i \in DOMAIN info' : Leads(i)' /\ Fresh(i)' BY <1>2, <1>3
<1>7. \A u \in Thread : (Busy(job[u]) => Sought(u, job[u]))'
  <2>1. TAKE u \in Thread
  <2>2. PICK h : h = job'[u] OBVIOUS
  <2>3. Busy(h) => Sought(u, h)' BY <1>4, <2>2
  <2>. QED BY <2>2, <2>3 DEF Sought, Busy, Looks, For, ElfAt
<1>. QED BY <1>5, <1>6, <1>7 DEF ElfInv

(* The same for a step that leaves the maps and the Elf objects alone and  *)
(* does not begin a search.                                                *)
LEMMA IdleElf ==
  ASSUME TypeOK, TypeOK', ElfInv, NEW t \in Thread, Quiet(t), bounds'.remaps = bounds.remaps,
         UNCHANGED << info, elfs >>, ~Busy(job'[t])
  PROVE  ElfInv'
<1>1. ElfsGrow BY DEF ElfsGrow
<1>2. \A i \in DOMAIN info : Touched(t, i) BY DEF Touched, SameElf
<1>3. PICK g : g = job'[t] OBVIOUS
<1>. QED BY <1>1, <1>2, <1>3, QuietElf

Resting == {"idle", "reparse", "found", "match", "search", "got"}

LEMMA RestingIsNotBusy == ASSUME NEW j, j.ph \in Resting PROVE ~Busy(j)
BY DEF Resting, Busy, Looks, For

(* Where a job goes that names its phase, and one that does not.           *)
LEMMA WithPh ==
  ASSUME NEW k \in Jobs, NEW j, "ph" \in DOMAIN j PROVE With(k, j).ph = j["ph"]
BY DEF With, Jobs

LEMMA WithoutPh ==
  ASSUME NEW k \in Jobs, NEW j, "ph" \notin DOMAIN j PROVE With(k, j).ph = k.ph
BY DEF With, Jobs

LEMMA GoResting ==
  ASSUME TypeOK, NEW t \in Thread, NEW j, Go(t, j),
         \/ "ph" \in DOMAIN j /\ j["ph"] \in Resting
         \/ "ph" \notin DOMAIN j /\ job[t].ph \in Resting
  PROVE  ~Busy(job'[t])
<1>1. PICK k : k = With(job[t], j) OBVIOUS
<1>2. job[t] \in Jobs BY JobsOf
<1>3. k.ph \in Resting BY <1>1, <1>2, WithPh, WithoutPh
<1>4. job'[t] = k BY <1>1, GoEffect DEF TypeOK
<1>. QED BY <1>3, <1>4, RestingIsNotBusy

LEMMA GoIdle == ASSUME TypeOK, NEW t \in Thread, Go(t, IdleJob) PROVE ~Busy(job'[t])
<1>1. "ph" \in DOMAIN IdleJob /\ IdleJob["ph"] \in Resting BY DEF IdleJob, Resting
<1>. QED BY <1>1, GoResting

LEMMA StaysResting ==
  ASSUME NEW t \in Thread, job' = job, job[t].ph \in Resting PROVE ~Busy(job'[t])
BY RestingIsNotBusy

LEMMA FindRests == ASSUME TypeOK, NEW t \in Thread, Find(t) PROVE ~Busy(job'[t])
<1>1. PICK p \in {"reparse", "found"} : \E pc, i : Go(t, [ph |-> p, pc |-> pc, map |-> i, failed |-> FALSE])
  <2>1. PICK pc : Go(t, [ph |-> IF FindIn(maps, pc) = 0 THEN "reparse" ELSE "found", pc |-> pc, map |-> FindIn(maps, pc),
                         failed |-> FALSE])
    BY DEF Find
  <2>2. PICK p : p = IF FindIn(maps, pc) = 0 THEN "reparse" ELSE "found" OBVIOUS
  <2>3. p \in {"reparse", "found"} BY <2>2
  <2>4. Go(t, [ph |-> p, pc |-> pc, map |-> FindIn(maps, pc), failed |-> FALSE]) BY <2>1, <2>2
  <2>. QED BY <2>3, <2>4
<1>2. PICK pc, i, j : j = [ph |-> p, pc |-> pc, map |-> i, failed |-> FALSE] /\ Go(t, j) BY <1>1
<1>3. "ph" \in DOMAIN j /\ j["ph"] \in Resting BY <1>2 DEF Resting
<1>. QED BY <1>1, <1>2, <1>3, GoResting

LEMMA FindKeepsElf == ASSUME TypeOK, TypeOK', ElfInv, NEW t \in Thread, Find(t) PROVE ElfInv'
<1>1. bounds'.remaps = bounds.remaps
  <2>1. PICK b \in [calls : Nat, remaps : Nat] : b = bounds BY DEF TypeOK
  <2>2. bounds' = [b EXCEPT !.calls = b.calls + 1] BY <2>1 DEF Find
  <2>. QED BY <2>1, <2>2
<1>2. UNCHANGED << info, elfs >> BY DEF Find
<1>. QED BY <1>1, <1>2, FindRests, FindType, IdleElf

LEMMA NoMapRests == ASSUME TypeOK, NEW t \in Thread, NoMap(t) PROVE ~Busy(job'[t])
BY GoIdle DEF NoMap

LEMMA NoMapKeepsElf == ASSUME TypeOK, TypeOK', ElfInv, NEW t \in Thread, NoMap(t) PROVE ElfInv'
<1>1. UNCHANGED << info, elfs, bounds >> BY DEF NoMap
<1>. QED BY <1>1, NoMapRests, NoMapType, IdleElf

LEMMA GotRests == ASSUME TypeOK, NEW t \in Thread, Got(t) PROVE ~Busy(job'[t])
<1>1. PICK j : j = [ph |-> "search", it |-> 1, zero |-> 0, dead |-> FALSE, frame |-> job[t].map] OBVIOUS
<1>2. Go(t, IdleJob) \/ Go(t, j) BY <1>1 DEF Got
<1>3. "ph" \in DOMAIN j /\ j["ph"] \in Resting BY <1>1 DEF Resting
<1>. QED BY <1>2, <1>3, GoIdle, GoResting

LEMMA GotKeepsElf == ASSUME TypeOK, TypeOK', ElfInv, NEW t \in Thread, Got(t) PROVE ElfInv'
<1>1. UNCHANGED << info, elfs, bounds >> BY DEF Got
<1>. QED BY <1>1, GotRests, GotType, IdleElf

LEMMA FindVariableRests == ASSUME TypeOK, NEW t \in Thread, FindVariable(t) PROVE ~Busy(job'[t])
<1>1. job[t].ph = "search" BY DEF FindVariable, At
<1>2. job[t].ph \in Resting BY <1>1 DEF Resting
<1>3. \/ job' = job \/ Go(t, IdleJob)
      \/ \E r, z : Go(t, [ph |-> "found", raw |-> r, map |-> z])
      \/ \E n, z : Go(t, [it |-> n, zero |-> z])
  <2>1. PICK i : i = maps[job[t].it] OBVIOUS
  <2>2. PICK z : z = IF info[i].off = 0 /\ info[i].name # "" THEN i ELSE job[t].zero OBVIOUS
  <2>3. \/ job' = job \/ Release(t)
        \/ Go(t, [ph |-> "found", raw |-> TRUE, map |-> job[t].zero])
        \/ Go(t, [it |-> job[t].it + 1, zero |-> z])
    BY <2>1, <2>2 DEF FindVariable
  <2>. QED BY <2>3 DEF Release
<1>4. job' = job => ~Busy(job'[t]) BY <1>2, StaysResting
<1>5. ASSUME \E r, z : Go(t, [ph |-> "found", raw |-> r, map |-> z]) PROVE ~Busy(job'[t])
  <2>1. PICK r, z, j : j = [ph |-> "found", raw |-> r, map |-> z] /\ Go(t, j) BY <1>5
  <2>2. "ph" \in DOMAIN j /\ j["ph"] \in Resting BY <2>1 DEF Resting
  <2>. QED BY <2>1, <2>2, GoResting
<1>6. ASSUME \E n, z : Go(t, [it |-> n, zero |-> z]) PROVE ~Busy(job'[t])
  <2>1. PICK n, z, j : j = [it |-> n, zero |-> z] /\ Go(t, j) BY <1>6
  <2>2. "ph" \notin DOMAIN j BY <2>1
  <2>. QED BY <1>2, <2>1, <2>2, GoResting
<1>. QED BY <1>3, <1>4, <1>5, <1>6, GoIdle

LEMMA FindVariableKeepsElf == ASSUME TypeOK, TypeOK', ElfInv, NEW t \in Thread, FindVariable(t) PROVE ElfInv'
<1>1. UNCHANGED << info, elfs, bounds >> BY DEF FindVariable
<1>. QED BY <1>1, FindVariableRests, FindVariableType, IdleElf

LEMMA ReadVariableRests == ASSUME TypeOK, NEW t \in Thread, ReadVariable(t) PROVE ~Busy(job'[t])
<1>1. job[t].ph = "got" BY DEF ReadVariable, At
<1>2. job[t].ph \in Resting BY <1>1 DEF Resting
<1>3. PICK j : j = [ph |-> "search", raw |-> FALSE, map |-> 0, it |-> job[t].it + 1] OBVIOUS
<1>4. job' = job \/ Go(t, IdleJob) \/ Go(t, j) BY <1>3 DEF ReadVariable
<1>5. "ph" \in DOMAIN j /\ j["ph"] \in Resting BY <1>3 DEF Resting
<1>. QED BY <1>2, <1>4, <1>5, GoIdle, GoResting, StaysResting

LEMMA ReadVariableKeepsElf == ASSUME TypeOK, TypeOK', ElfInv, NEW t \in Thread, ReadVariable(t) PROVE ElfInv'
<1>1. UNCHANGED << info, elfs, bounds >> BY DEF ReadVariable
<1>. QED BY <1>1, ReadVariableRests, ReadVariableType, IdleElf

(* GetElf begins the search: it holds the mutex, and there is no Elf yet.  *)
LEMMA GetElfKeepsElf == ASSUME TypeOK, TypeOK', ElfInv, NEW t \in Thread, GetElf(t) PROVE ElfInv'
<1>1. PICK i : i = job[t].map /\ i \in DOMAIN info BY GetElfEffect
<1>2. Quiet(t) /\ UNCHANGED << elfs, bounds >> BY GetElfEffect
<1>3. job[t].ph = "found" BY DEF GetElf, At
<1>4. CASE info' = info /\ (job' = job \/ job'[t].ph = "got")
  <2>1. ~Busy(job'[t]) BY <1>3, <1>4, RestingIsNotBusy DEF Resting
  <2>. QED BY <1>2, <1>4, <2>1, IdleElf
<1>5. CASE /\ info[i].elf = NoElf /\ info[i].mutex = None
           /\ info'[i].mutex = t /\ info'[i].elf_offset = 0
           /\ info'[i].elf = NoElf /\ info'[i].elf_start = info[i].elf_start
           /\ job'[t].ph = "file" /\ job'[t].map = i
           /\ \A k \in DOMAIN info : k # i => info'[k] = info[k]
  <2>1. ElfsGrow BY <1>2 DEF ElfsGrow
  <2>2. Leads(i)' BY <1>5 DEF Leads
  <2>3. Fresh(i)' BY <1>1, <1>5 DEF ElfInv, Fresh
  <2>4. \A k \in DOMAIN info : Touched(t, k) BY <1>5, <2>2, <2>3 DEF Touched, SameElf
  <2>5. PICK g : g = job'[t] OBVIOUS
  <2>6. g.ph = "file" /\ g.map = i BY <1>5, <2>5
  <2>7. Sought(t, g)' BY <1>5, <2>6 DEF Sought, For
  <2>. QED BY <1>2, <2>1, <2>4, <2>5, <2>7, QuietElf
<1>. QED BY <1>1, <1>4, <1>5, GetElfEffect

LEMMA GetPrevRealMapKeepsElf ==
  ASSUME TypeOK, TypeOK', ElfInv, NEW t \in Thread, GetPrevRealMap(t) PROVE ElfInv'
<1>1. Quiet(t) /\ UNCHANGED << info, elfs, bounds >> BY GetPrevRealMapType
<1>2. job[t].ph = "walk" BY DEF GetPrevRealMap, At
<1>3. PICK j, h : j = job[t] /\ h = job'[t] OBVIOUS
<1>4. /\ h.map = j.map
      /\ \/ h.ph = "walk" /\ h.goal = j.goal
         \/ h.ph = j.goal /\ (h.w # 0 => h.w = j.w /\ info[j.w].name = info[j.map].name)
  BY <1>3, GetPrevRealMapType
<1>5. j.goal \in {"share", "fileprev", "memprev"}
  <2>1. JobIn(j, Len(info)) /\ j \in Jobs BY <1>3, JobsOf
  <2>. QED BY <1>2, <1>3, <2>1 DEF JobIn, Jobs, Goals
<1>6. Busy(j) BY <1>2, <1>3, <1>5 DEF Busy, Looks, For
<1>7. Sought(t, j) BY <1>3, <1>6 DEF ElfInv
<1>8. /\ Looks(h) => Looks(j)
      /\ For(h, "fileprev") => For(j, "fileprev")
      /\ For(h, "memprev") => For(j, "memprev")
      /\ For(h, "share") => For(j, "share")
  BY <1>2, <1>3, <1>4, <1>5 DEF Looks, For
<1>9. h.ph \in {"share", "memprev"} /\ h.w # 0 => info[h.w].name = info[h.map].name BY <1>4
<1>10. Sought(t, h) BY <1>4, <1>7, <1>8, <1>9 DEF Sought
<1>11. Sought(t, h)' BY <1>1, <1>10 DEF Sought, ElfAt
<1>12. ElfsGrow /\ \A i \in DOMAIN info : Touched(t, i) BY <1>1 DEF ElfsGrow, Touched, SameElf
<1>. QED BY <1>1, <1>3, <1>11, <1>12, QuietElf

(* ShareElf: the map before takes the Elf with the offsets that lead to it *)
(* from there, or gives its own, which starts in the same place.           *)
LEMMA TakenLeads ==
  ASSUME TypeOK, NEW i \in DOMAIN info, NEW w \in DOMAIN info, Leads(i), Leads(w),
         UNCHANGED << elfs, bounds >>,
         info[i].elf # NoElf, elfs[info[i].elf].valid, info[w].name = info[i].name,
         Takes(info'[i], info[i], info[w])
  PROVE  Leads(i)' /\ Fresh(i)'
<1>1. PICK m, p, a : m = info[i] /\ p = info[w] /\ a = info'[i] OBVIOUS
<1>2. /\ a.off = m.off /\ a.name = m.name /\ a.elf_offset = m.elf_offset /\ a.elf_start = m.elf_start
      /\ a.elf = m.elf \/ (p.elf # NoElf /\ a.elf = p.elf /\ p.elf_start = m.elf_start)
  BY <1>1 DEF Takes, SameRegion
<1>3. a.elf # NoElf BY <1>1, <1>2
<1>4. m.elf_offset = m.off - m.elf_start BY <1>1 DEF Leads
<1>5. CASE a.elf = m.elf BY <1>1, <1>2, <1>5 DEF Leads, Fresh
<1>6. CASE p.elf # NoElf /\ a.elf = p.elf /\ p.elf_start = m.elf_start
  <2>1. elfs[p.elf].valid =>
          (~elfs[p.elf].mem \/ bounds.remaps = 0 => elfs[p.elf].at = << p.name, p.elf_start >>)
    BY <1>1, <1>6 DEF Leads
  <2>2. p.name = m.name BY <1>1
  <2>3. Leads(i)' BY <1>1, <1>2, <1>4, <1>6, <2>1, <2>2 DEF Leads
  <2>. QED BY <1>1, <1>3, <2>3 DEF Fresh
<1>. QED BY <1>2, <1>5, <1>6

LEMMA GivenLeads ==
  ASSUME TypeOK, NEW i \in DOMAIN info, NEW w \in DOMAIN info, Leads(i), Leads(w), Fresh(w),
         UNCHANGED << elfs, bounds >>,
         info[i].elf # NoElf, elfs[info[i].elf].valid, info[w].name = info[i].name,
         Gives(info'[w], info[i], info[w])
  PROVE  Leads(w)' /\ Fresh(w)'
<1>1. PICK m, p, b : m = info[i] /\ p = info[w] /\ b = info'[w] OBVIOUS
<1>2. b.off = p.off /\ b.name = p.name BY <1>1 DEF Gives, SameRegion
<1>3. CASE b = p
  <2>1. info'[w] = info[w] BY <1>1, <1>3
  <2>. QED BY <2>1 DEF Leads, Fresh
<1>4. CASE b.elf = m.elf /\ b.elf_start = m.elf_start /\ b.elf_offset = p.off - m.elf_start
  <2>1. ~elfs[m.elf].mem \/ bounds.remaps = 0 => elfs[m.elf].at = << m.name, m.elf_start >>
    BY <1>1 DEF Leads
  <2>2. p.name = m.name /\ m.elf # NoElf BY <1>1
  <2>. QED BY <1>1, <1>2, <1>4, <2>1, <2>2 DEF Leads, Fresh
<1>. QED BY <1>1, <1>3, <1>4 DEF Gives

LEMMA ShareElfKeepsElf == ASSUME TypeOK, TypeOK', ElfInv, NEW t \in Thread, ShareElf(t) PROVE ElfInv'
<1>1. PICK j, i, w : j = job[t] /\ i = j.map /\ w = j.w OBVIOUS
<1>2. j.ph = "share" BY <1>1 DEF ShareElf, At
<1>3. /\ Quiet(t) /\ UNCHANGED << elfs, bounds >> /\ i \in DOMAIN info /\ job'[t].ph = "got"
      /\ \/ Takes(info'[i], info[i], info[i]) /\ \A k \in DOMAIN info : k # i => info'[k] = info[k]
         \/ /\ w \in DOMAIN info /\ w # i /\ info[w].mutex = None
            /\ Takes(info'[i], info[i], info[w]) /\ Gives(info'[w], info[i], info[w])
            /\ \A k \in DOMAIN info : k # i /\ k # w => info'[k] = info[k]
  BY <1>1, ShareElfEffect
<1>4. Sought(t, j) BY <1>1, <1>2 DEF ElfInv, Busy, For
<1>5. info[i].mutex = t /\ info[i].elf # NoElf /\ elfs[info[i].elf].valid BY <1>1, <1>2, <1>4 DEF Sought, For
<1>6. \A k \in DOMAIN info : Leads(k) /\ Fresh(k) BY DEF ElfInv
<1>7. \A k \in DOMAIN info : info'[k] = info[k] => Touched(t, k) BY DEF Touched, SameElf
<1>8. \A k \in DOMAIN info : Touched(t, k)
  <2>1. CASE Takes(info'[i], info[i], info[i]) /\ \A k \in DOMAIN info : k # i => info'[k] = info[k]
    <3>1. Leads(i)' /\ Fresh(i)' BY <1>3, <1>5, <1>6, <2>1, TakenLeads
    <3>2. Touched(t, i) BY <1>5, <3>1 DEF Touched
    <3>. QED BY <1>7, <2>1, <3>2
  <2>2. CASE /\ w \in DOMAIN info /\ w # i /\ info[w].mutex = None
             /\ Takes(info'[i], info[i], info[w]) /\ Gives(info'[w], info[i], info[w])
             /\ \A k \in DOMAIN info : k # i /\ k # w => info'[k] = info[k]
    <3>1. w # 0
      <4>1. info \in Seq(MapInfos) BY DEF TypeOK, InfoType
      <4>. QED BY <2>2, <4>1
    <3>2. info[w].name = info[i].name BY <1>1, <1>2, <1>4, <3>1 DEF Sought
    <3>3. Leads(i)' /\ Fresh(i)' BY <1>3, <1>5, <1>6, <2>2, <3>2, TakenLeads
    <3>4. Leads(w)' /\ Fresh(w)' BY <1>3, <1>5, <1>6, <2>2, <3>2, GivenLeads
    <3>5. Touched(t, i) BY <1>5, <3>3 DEF Touched
    <3>6. Touched(t, w) BY <2>2, <3>4 DEF Touched
    <3>. QED BY <1>7, <2>2, <3>5, <3>6
  <2>. QED BY <1>3, <2>1, <2>2
<1>9. ElfsGrow BY <1>3 DEF ElfsGrow
<1>10. PICK g : g = job'[t] OBVIOUS
<1>11. ~Busy(g) BY <1>3, <1>10, RestingIsNotBusy DEF Resting
<1>. QED BY <1>3, <1>8, <1>9, <1>10, <1>11, QuietElf

(* A new Elf that is valid starts where the fields of its map say.         *)
Starts(m, c, own) ==
  IsElf(c) =>
    /\ own.elf_offset = m.off - own.elf_start
    /\ ~own.mem \/ bounds.remaps = 0 => c = << m.name, own.elf_start >>

LEMMA NewElfKeepsElf ==
  ASSUME TypeOK, TypeOK', ElfInv, NEW t \in Thread, Looks(job[t]), job[t].ph \in GetElfPhases,
         NEW c \in Names \X Int, NEW fields, Located(fields), NewElf(t, c, fields),
         UNCHANGED << kernel, maps, writer, search, fault, parsed, bounds >>,
         NEW m, m = info[job[t].map], Starts(m, c, With(m, fields))
  PROVE  ElfInv'
<1>1. PICK i, own, n : i = job[t].map /\ own = With(info[i], fields) /\ n = Len(elfs) + 1 OBVIOUS
<1>2. /\ Quiet(t)
      /\ \A e \in DOMAIN elfs : elfs'[e] = elfs[e]
      /\ elfs'[n] = [at |-> c, valid |-> IsElf(c), mem |-> own.mem]
      /\ \A k \in DOMAIN info : k # i => info'[k] = info[k]
      /\ info'[i].elf = n
      /\ IsElf(c) => /\ info'[i].mutex = info[i].mutex /\ info'[i].elf_offset = own.elf_offset
                     /\ info'[i].elf_start = own.elf_start
                     /\ job'[t].ph = "walk" /\ job'[t].goal = "share"
      /\ ~IsElf(c) => info'[i].mutex = None /\ job'[t].ph = "got"
      /\ job'[t].map = i
  BY <1>1, NewElfEffect
<1>3. i \in DOMAIN info BY <1>1, MapOf
<1>4. PICK a, g : a = info'[i] /\ g = job'[t] OBVIOUS
<1>5. a.off = m.off /\ a.name = m.name BY <1>1, <1>2, <1>3, <1>4 DEF Quiet, InfoKeeps, SameRegion
<1>6. info[i].mutex = t BY <1>1 DEF ElfInv, Busy, Sought
<1>7. n # NoElf
  <2>1. Len(elfs) \in Nat BY <1>3, ElfOf
  <2>. QED BY <1>1, <2>1 DEF NoElf
<1>8. PICK e : e = elfs'[n] OBVIOUS
<1>9. e.at = c /\ e.valid = IsElf(c) /\ e.mem = own.mem BY <1>2, <1>8
<1>10. Leads(i)' /\ Fresh(i)'
  <2>1. Fresh(i)' BY <1>2, <1>7 DEF Fresh
  <2>2. e.valid => /\ a.elf_offset = a.off - a.elf_start
                   /\ ~e.mem \/ bounds'.remaps = 0 => e.at = << a.name, a.elf_start >>
    BY <1>1, <1>2, <1>4, <1>5, <1>9 DEF Starts
  <2>3. a.elf = n BY <1>2, <1>4
  <2>. QED BY <1>4, <1>8, <2>1, <2>2, <2>3 DEF Leads
<1>11. \A k \in DOMAIN info : Touched(t, k) BY <1>2, <1>6, <1>10 DEF Touched, SameElf
<1>12. ElfsGrow BY <1>2 DEF ElfsGrow
<1>13. Busy(g) => Sought(t, g)'
  <2>1. CASE IsElf(c)
    <3>1. g.ph = "walk" /\ g.goal = "share" /\ g.map = i BY <1>2, <1>4, <2>1
    <3>2. a.mutex = t /\ a.elf = n /\ e.valid BY <1>2, <1>4, <1>6, <1>9, <2>1
    <3>. QED BY <1>4, <1>7, <1>8, <3>1, <3>2 DEF Sought, Looks, For
  <2>2. CASE ~IsElf(c)
    <3>1. ~Busy(g) BY <1>2, <1>4, <2>2, RestingIsNotBusy DEF Resting
    <3>. QED BY <3>1
  <2>. QED BY <2>1, <2>2
<1>. QED BY <1>2, <1>4, <1>11, <1>12, <1>13, QuietElf

LEMMA BlankIsNoElf == ASSUME NEW c, c = << "", 0 >> PROVE ~IsElf(c)
BY DEF IsElf

(* Before the first Remap the memory a map starts with is its own.         *)
LEMMA ContentMapped ==
  ASSUME TypeOK, Mapped, bounds.remaps = 0, NEW i \in DOMAIN info, NEW m, m = info[i],
         NEW c, c = Content(m.start), IsElf(c)
  PROVE  c = << m.name, m.off >>
<1>1. PICK k \in DOMAIN kernel : SameRegion(m, kernel[k]) BY DEF Mapped
<1>2. kernel \in Layouts BY DEF TypeOK
<1>3. PICK addr \in Nat : addr = m.start /\ addr = kernel[k].start BY <1>1, <1>2, LayoutRegions DEF SameRegion
<1>4. PICK r : r = {l \in DOMAIN kernel : addr >= kernel[l].start /\ addr < kernel[l].end /\ "r" \in kernel[l].flags}
  OBVIOUS
<1>5. r # {}
  <2>1. SUFFICES ASSUME r = {} PROVE FALSE OBVIOUS
  <2>2. c = << "", 0 >> BY <1>3, <1>4, <2>1 DEF Content
  <2>. QED BY <2>2, BlankIsNoElf
<1>6. PICK l : l = CHOOSE x \in r : TRUE OBVIOUS
<1>7. c = << kernel[l].name, kernel[l].off + addr - kernel[l].start >> BY <1>3, <1>4, <1>5, <1>6 DEF Content
<1>8. l \in DOMAIN kernel /\ addr >= kernel[l].start /\ addr < kernel[l].end BY <1>4, <1>5, <1>6
<1>9. l = k
  <2>1. k \in Nat /\ l \in Nat /\ kernel[l].start \in Nat /\ kernel[l].end \in Nat BY <1>2, <1>8, LayoutRegions
  <2>2. ~(l < k)
    <3>1. SUFFICES ASSUME l < k PROVE FALSE OBVIOUS
    <3>2. kernel[l].end <= kernel[k].start BY <1>2, <1>8, <3>1, LayoutOrder
    <3>. QED BY <1>3, <1>8, <2>1, <3>2
  <2>3. ~(k < l)
    <3>1. SUFFICES ASSUME k < l PROVE FALSE OBVIOUS
    <3>2. kernel[k].start < kernel[l].start BY <1>2, <1>8, <3>1, LayoutOrder
    <3>. QED BY <1>3, <1>8, <2>1, <3>2
  <2>. QED BY <2>1, <2>2, <2>3
<1>10. PICK o \in Nat : o = kernel[k].off BY <1>2, LayoutRegions, RegionFields
<1>11. c = << kernel[k].name, o + addr - addr >> BY <1>3, <1>7, <1>9, <1>10
<1>12. o + addr - addr = o OBVIOUS
<1>13. kernel[k].name = m.name /\ o = m.off BY <1>1, <1>10 DEF SameRegion
<1>. QED BY <1>11, <1>12, <1>13

(* The fields that each way to an Elf leaves in a map that had none.       *)
LEMMA FieldsOf ==
  ASSUME NEW m \in MapInfos
  PROVE  /\ With(m, NoFields).elf_offset = m.elf_offset /\ With(m, NoFields).elf_start = m.elf_start
         /\ \A s \in Int : /\ With(m, [elf_start |-> s]).elf_offset = m.elf_offset
                           /\ With(m, [elf_start |-> s]).elf_start = s
         /\ \A o \in Int : /\ With(m, [elf_offset |-> o]).elf_offset = o
                           /\ With(m, [elf_offset |-> o]).elf_start = m.elf_start
         /\ \A s \in Int : /\ With(m, [mem |-> TRUE, elf_start |-> s]).elf_offset = m.elf_offset
                           /\ With(m, [mem |-> TRUE, elf_start |-> s]).elf_start = s
                           /\ With(m, [mem |-> TRUE, elf_start |-> s]).mem = TRUE
BY DEF With, NoFields, MapInfos

LEMMA OffsetFields ==
  ASSUME NEW m \in MapInfos, NEW o \in Int, NEW s \in Int, NEW own, own = With(m, [elf_offset |-> o, elf_start |-> s])
  PROVE  own.elf_offset = o /\ own.elf_start = s /\ own.mem = m.mem
BY DEF With, MapInfos

(* What a thread that looks for an Elf knows of its map.                   *)
LEMMA LooksKnows ==
  ASSUME TypeOK, ElfInv, NEW t \in Thread, Looks(job[t]), NEW m, m = info[job[t].map]
  PROVE  /\ job[t].map \in DOMAIN info /\ m \in MapInfos /\ m.mutex = t /\ m.elf = NoElf
         /\ m.elf_offset = 0 /\ m.elf_start = 0
<1>1. Busy(job[t]) BY DEF Busy
<1>2. job[t].map \in DOMAIN info BY <1>1, BusyMap
<1>3. m \in MapInfos BY <1>2, ElfOf
<1>4. m.mutex = t /\ m.elf = NoElf /\ m.elf_offset = 0 BY <1>1 DEF ElfInv, Sought
<1>5. m.elf_start = 0 BY <1>2, <1>4 DEF ElfInv, Fresh
<1>. QED BY <1>2, <1>3, <1>4, <1>5

LEMMA FromFileKeepsElf ==
  ASSUME TypeOK, TypeOK', ElfInv, NEW t \in Thread, job[t].ph = "file", NEW m, m = info[job[t].map], FromFile(t, m),
         UNCHANGED << kernel, maps, writer, search, fault, parsed, bounds >>
  PROVE  ElfInv'
<1>1. Looks(job[t]) /\ job[t].ph \in GetElfPhases BY DEF Looks, GetElfPhases
<1>2. job[t].map \in DOMAIN info /\ m \in MapInfos /\ m.elf_offset = 0 /\ m.elf_start = 0 BY <1>1, LooksKnows
<1>3. PICK o \in Int : o = m.off BY <1>2, InfoFields
<1>4. m.name \in Names /\ m.start \in Int BY <1>2, InfoFields
<1>5. 0 - 0 = 0 /\ o - 0 = o /\ o - o = 0 OBVIOUS
<1>6. CASE NewElf(t, << "", 0 >>, NoFields)
  <2>1. Starts(m, << "", 0 >>, With(m, NoFields)) BY BlankIsNoElf DEF Starts
  <2>. QED BY <1>1, <1>6, <2>1, BlankPlace, FieldsLocated, NewElfKeepsElf
<1>7. CASE m.off = 0 /\ NewElf(t, << m.name, 0 >>, NoFields)
  <2>1. Starts(m, << m.name, 0 >>, With(m, NoFields)) BY <1>2, <1>5, <1>7, FieldsOf DEF Starts
  <2>2. << m.name, 0 >> \in Names \X Int BY <1>4
  <2>. QED BY <1>1, <1>7, <2>1, <2>2, FieldsLocated, NewElfKeepsElf
<1>8. CASE NewElf(t, << m.name, m.off >>, [elf_start |-> m.off])
  <2>4. PICK own : own = With(m, [elf_start |-> o]) OBVIOUS
  <2>5. own.elf_offset = 0 /\ own.elf_start = o BY <1>2, <2>4, FieldsOf
  <2>6. Starts(m, << m.name, o >>, own) BY <1>3, <2>5 DEF Starts
  <2>1. Starts(m, << m.name, o >>, With(m, [elf_start |-> o])) BY <2>4, <2>6
  <2>2. << m.name, o >> \in Names \X Int BY <1>4
  <2>3. Located([elf_start |-> o]) BY FieldsLocated
  <2>. QED BY <1>1, <1>3, <1>8, <2>1, <2>2, <2>3, NewElfKeepsElf
<1>9. CASE NewElf(t, << m.name, 0 >>, [elf_offset |-> m.off])
  <2>4. PICK own : own = With(m, [elf_offset |-> o]) OBVIOUS
  <2>5. own.elf_offset = o /\ own.elf_start = 0 BY <1>2, <2>4, FieldsOf
  <2>6. Starts(m, << m.name, 0 >>, own) BY <1>3, <2>5 DEF Starts
  <2>1. Starts(m, << m.name, 0 >>, With(m, [elf_offset |-> o])) BY <2>4, <2>6
  <2>2. << m.name, 0 >> \in Names \X Int BY <1>4
  <2>3. Located([elf_offset |-> o]) BY FieldsLocated
  <2>. QED BY <1>1, <1>3, <1>9, <2>1, <2>2, <2>3, NewElfKeepsElf
<1>10. CASE NewElf(t, Content(m.start), [mem |-> TRUE, elf_start |-> m.off])
  <2>1. PICK c \in Names \X Int : c = Content(m.start) BY <1>4, ContentType
  <2>2. IsElf(c) /\ bounds.remaps = 0 => c = << m.name, o >> BY <1>2, <1>3, <2>1, ContentMapped DEF ElfInv
  <2>5. PICK own : own = With(m, [mem |-> TRUE, elf_start |-> o]) OBVIOUS
  <2>6. own.elf_offset = 0 /\ own.elf_start = o /\ own.mem = TRUE BY <1>2, <2>5, FieldsOf
  <2>7. Starts(m, c, own) BY <1>3, <2>2, <2>6 DEF Starts
  <2>3. Starts(m, c, With(m, [mem |-> TRUE, elf_start |-> o])) BY <2>5, <2>7
  <2>4. Located([mem |-> TRUE, elf_start |-> o]) BY FieldsLocated
  <2>. QED BY <1>1, <1>3, <1>10, <2>1, <2>3, <2>4, NewElfKeepsElf
<1>. QED BY <1>6, <1>7, <1>8, <1>9, <1>10 DEF FromFile

LEMMA WalkForFile ==
  ASSUME TypeOK, NEW t \in Thread, job[t].ph \in GetElfPhases, NEW goal \in {"share", "fileprev", "memprev"},
         Go(t, WalkFor(goal, job[t].map))
  PROVE  job'[t].ph = "walk" /\ job'[t].goal = goal /\ job'[t].map = job[t].map /\ job'[t].w = Before(job[t].map)
<1>1. PICK k : k = With(job[t], WalkFor(goal, job[t].map)) OBVIOUS
<1>2. k.ph = "walk" /\ k.goal = goal /\ k.map = job[t].map /\ k.w = Before(job[t].map) BY <1>1, WalkIn
<1>3. job'[t] = k BY <1>1, GoEffect DEF TypeOK
<1>. QED BY <1>2, <1>3

LEMMA GetFileMemoryKeepsElf ==
  ASSUME TypeOK, TypeOK', ElfInv, NEW t \in Thread, GetFileMemory(t) PROVE ElfInv'
<1>1. job[t].ph = "file" /\ UNCHANGED << kernel, maps, writer, search, fault, parsed, bounds >>
  BY DEF GetFileMemory, At
<1>2. Looks(job[t]) /\ job[t].ph \in GetElfPhases BY <1>1 DEF Looks, GetElfPhases
<1>3. PICK i, m : i = job[t].map /\ m = info[i] OBVIOUS
<1>4. i \in DOMAIN info /\ m \in MapInfos /\ m.mutex = t /\ m.elf = NoElf /\ m.elf_offset = 0 /\ m.elf_start = 0
  BY <1>2, <1>3, LooksKnows
<1>5. Quiet(t) BY GetFileMemoryType
<1>6. PICK g : g = job'[t] OBVIOUS
<1>7. ASSUME UNCHANGED elfs, Touched(t, i), \A k \in DOMAIN info : k # i => info'[k] = info[k], Sought(t, g)'
      PROVE  ElfInv'
  <2>1. \A k \in DOMAIN info : Touched(t, k) BY <1>7 DEF Touched, SameElf
  <2>2. ElfsGrow BY <1>7 DEF ElfsGrow
  <2>. QED BY <1>1, <1>5, <1>6, <1>7, <2>1, <2>2, QuietElf
<1>8. CASE Go(t, WalkFor("fileprev", i)) /\ UNCHANGED << info, elfs >> /\ ~ElfAt(m.name, m.off)
  <2>1. g.ph = "walk" /\ g.goal = "fileprev" /\ g.map = i BY <1>2, <1>3, <1>6, <1>8, WalkForFile
  <2>2. Sought(t, g)' BY <1>3, <1>4, <1>8, <2>1 DEF Sought, Looks, For, ElfAt
  <2>3. Touched(t, i) BY <1>8 DEF Touched, SameElf
  <2>. QED BY <1>7, <1>8, <2>2, <2>3
<1>9. CASE Go(t, WalkFor("memprev", i)) /\ info' = [info EXCEPT ![i].mem = TRUE] /\ UNCHANGED elfs
  <2>1. g.ph = "walk" /\ g.goal = "memprev" /\ g.map = i BY <1>2, <1>3, <1>6, <1>9, WalkForFile
  <2>2. PICK x : x = [m EXCEPT !.mem = TRUE] OBVIOUS
  <2>3. info' = [info EXCEPT ![i] = x] BY <1>3, <1>9, <2>2
  <2>4. info \in Seq(MapInfos) BY DEF TypeOK, InfoType
  <2>5. info'[i] = x /\ \A k \in DOMAIN info : k # i => info'[k] = info[k] BY <1>4, <2>3, <2>4
  <2>6. x.mutex = t /\ x.elf = NoElf /\ x.elf_offset = 0 /\ x.elf_start = 0 /\ x.mem = TRUE
    BY <1>4, <2>2 DEF MapInfos
  <2>7. Sought(t, g)' BY <2>1, <2>5, <2>6 DEF Sought, Looks, For
  <2>8. Leads(i)' /\ Fresh(i)' BY <2>5, <2>6 DEF Leads, Fresh
  <2>9. Touched(t, i) BY <1>3, <1>4, <2>8 DEF Touched
  <2>. QED BY <1>7, <1>9, <2>5, <2>7, <2>9
<1>10. CASE FromFile(t, m) BY <1>1, <1>3, <1>10, FromFileKeepsElf
<1>. QED BY <1>3, <1>8, <1>9, <1>10, GetFileMemoryCases

LEMMA FromPreviousReadOnlyMapKeepsElf ==
  ASSUME TypeOK, TypeOK', ElfInv, NEW t \in Thread, FromPreviousReadOnlyMap(t) PROVE ElfInv'
<1>1. job[t].ph = "fileprev" /\ UNCHANGED << kernel, maps, writer, search, fault, parsed, bounds >>
  BY DEF FromPreviousReadOnlyMap, At
<1>2. Looks(job[t]) /\ For(job[t], "fileprev") /\ job[t].ph \in GetElfPhases BY <1>1 DEF Looks, For, GetElfPhases
<1>3. PICK m, p : m = info[job[t].map] /\ p = info[job[t].w] OBVIOUS
<1>4. job[t].map \in DOMAIN info /\ m \in MapInfos BY <1>2, <1>3, LooksKnows
<1>5. ~ElfAt(m.name, m.off) BY <1>2, <1>3 DEF ElfInv, Busy, Sought
<1>6. m.name \in Names /\ m.off \in Int BY <1>4, InfoFields
<1>7. CASE job[t].w # 0 /\ NewElf(t, << m.name, p.off >>, OffsetsFrom(m, p))
  <2>1. p \in MapInfos BY <1>3, <1>7, JobMapW
  <2>2. PICK s \in Int, o \in Int : s = p.off /\ o = m.off - s BY <1>6, <2>1, InfoFields
  <2>3. OffsetsFrom(m, p) = [elf_offset |-> o, elf_start |-> s] BY <2>2 DEF OffsetsFrom
  <2>7. PICK own : own = With(m, [elf_offset |-> o, elf_start |-> s]) OBVIOUS
  <2>8. own.elf_offset = o /\ own.elf_start = s BY <1>4, <2>7, OffsetFields
  <2>9. Starts(m, << m.name, s >>, own) BY <2>2, <2>8 DEF Starts
  <2>4. Starts(m, << m.name, s >>, With(m, [elf_offset |-> o, elf_start |-> s])) BY <2>7, <2>9
  <2>5. << m.name, s >> \in Names \X Int BY <1>6
  <2>6. Located([elf_offset |-> o, elf_start |-> s]) BY FieldsLocated
  <2>. QED BY <1>1, <1>2, <1>3, <1>7, <2>2, <2>3, <2>4, <2>5, <2>6, NewElfKeepsElf
<1>8. CASE NewElf(t, << m.name, m.off >>, NoFields)
  <2>1. Starts(m, << m.name, m.off >>, With(m, NoFields)) BY <1>5 DEF Starts, IsElf
  <2>2. << m.name, m.off >> \in Names \X Int BY <1>6
  <2>. QED BY <1>1, <1>2, <1>3, <1>8, <2>1, <2>2, FieldsLocated, NewElfKeepsElf
<1>. QED BY <1>3, <1>7, <1>8 DEF FromPreviousReadOnlyMap

LEMMA FromPreviousRangeKeepsElf ==
  ASSUME TypeOK, TypeOK', ElfInv, NEW t \in Thread, FromPreviousRange(t) PROVE ElfInv'
<1>1. job[t].ph = "memprev" /\ UNCHANGED << kernel, maps, writer, search, fault, parsed, bounds >>
  BY DEF FromPreviousRange, At
<1>2. Looks(job[t]) /\ For(job[t], "memprev") /\ job[t].ph \in GetElfPhases BY <1>1 DEF Looks, For, GetElfPhases
<1>3. PICK m, p : m = info[job[t].map] /\ p = info[job[t].w] OBVIOUS
<1>4. job[t].map \in DOMAIN info /\ m \in MapInfos BY <1>2, <1>3, LooksKnows
<1>5. m.mem = TRUE /\ (job[t].w # 0 => p.name = m.name) BY <1>1, <1>2, <1>3 DEF ElfInv, Busy, Sought
<1>6. CASE job[t].w # 0 /\ NewElf(t, Content(p.start), OffsetsFrom(m, p))
  <2>1. job[t].w \in DOMAIN info /\ p \in MapInfos BY <1>3, <1>6, JobMapW
  <2>2. PICK s \in Int, o \in Int : s = p.off /\ o = m.off - s BY <1>4, <2>1, InfoFields
  <2>3. OffsetsFrom(m, p) = [elf_offset |-> o, elf_start |-> s] BY <2>2 DEF OffsetsFrom
  <2>4. p.start \in Int BY <2>1, InfoFields
  <2>5. PICK c \in Names \X Int : c = Content(p.start) BY <2>4, ContentType
  <2>6. IsElf(c) /\ bounds.remaps = 0 => c = << p.name, p.off >> BY <1>3, <2>1, <2>5, ContentMapped DEF ElfInv
  <2>9. PICK own : own = With(m, [elf_offset |-> o, elf_start |-> s]) OBVIOUS
  <2>10. own.elf_offset = o /\ own.elf_start = s /\ own.mem = TRUE BY <1>4, <1>5, <2>9, OffsetFields
  <2>11. Starts(m, c, own) BY <1>5, <1>6, <2>2, <2>6, <2>10 DEF Starts
  <2>7. Starts(m, c, With(m, [elf_offset |-> o, elf_start |-> s])) BY <2>9, <2>11
  <2>8. Located([elf_offset |-> o, elf_start |-> s]) BY FieldsLocated
  <2>. QED BY <1>1, <1>2, <1>3, <1>6, <2>3, <2>5, <2>7, <2>8, NewElfKeepsElf
<1>7. CASE NewElf(t, << "", 0 >>, [mem |-> FALSE])
  <2>1. Starts(m, << "", 0 >>, With(m, [mem |-> FALSE])) BY BlankIsNoElf DEF Starts
  <2>. QED BY <1>1, <1>2, <1>3, <1>7, <2>1, BlankPlace, FieldsLocated, NewElfKeepsElf
<1>. QED BY <1>3, <1>6, <1>7 DEF FromPreviousRange

(* A step that adds to the maps and the Elf objects at most.               *)
SameWay(u)  == job'[u].ph = job[u].ph /\ job'[u].map = job[u].map /\ job'[u].w = job[u].w /\ job'[u].goal = job[u].goal
Unopened(m) == m.elf = NoElf /\ m.elf_start = 0 /\ \E k \in DOMAIN kernel : SameRegion(m, kernel[k])

LEMMA ElfCarried ==
  ASSUME TypeOK, ElfInv, ElfsGrow, bounds'.remaps = 0 => bounds.remaps = 0 /\ kernel' = kernel,
         \A i \in DOMAIN info : SameRegion(info'[i], info[i]) /\ SameElf(info'[i], info[i]),
         \A i \in DOMAIN info' : i \in DOMAIN info \/ Unopened(info'[i]),
         \A u \in Thread : ~Busy(job'[u]) \/ SameWay(u)
  PROVE  ElfInv'
<1>1. ASSUME NEW i \in DOMAIN info' PROVE Leads(i)' /\ Fresh(i)'
  <2>1. CASE i \in DOMAIN info
    <3>1. Leads(i) /\ Fresh(i) BY <2>1 DEF ElfInv
    <3>. QED BY <2>1, <3>1, LeadsStill
  <2>2. CASE Unopened(info'[i]) BY <2>2 DEF Unopened, Leads, Fresh
  <2>. QED BY <2>1, <2>2
<1>2. ASSUME NEW u \in Thread, NEW h, h = job'[u], Busy(h) PROVE Sought(u, h)'
  <2>1. PICK j : j = job[u] OBVIOUS
  <2>2. h.ph = j.ph /\ h.map = j.map /\ h.w = j.w /\ h.goal = j.goal BY <1>2, <2>1 DEF SameWay
  <2>3. Busy(j) BY <1>2, <2>2 DEF Busy, Looks, For
  <2>4. Sought(u, j) BY <2>1, <2>3 DEF ElfInv
  <2>5. j.map \in DOMAIN info /\ (j.w # 0 => j.w \in DOMAIN info) BY <2>1, <2>3, BusyMap
  <2>6. SameRegion(info'[j.map], info[j.map]) /\ SameElf(info'[j.map], info[j.map]) BY <2>5
  <2>7. j.w # 0 => SameRegion(info'[j.w], info[j.w]) BY <2>5
  <2>. QED BY <2>1, <2>2, <2>3, <2>4, <2>6, <2>7, SoughtStill
<1>3. \A u \in Thread : (Busy(job[u]) => Sought(u, job[u]))'
  <2>1. TAKE u \in Thread
  <2>2. PICK h : h = job'[u] OBVIOUS
  <2>3. Busy(h) => Sought(u, h)' BY <1>2, <2>2
  <2>. QED BY <2>2, <2>3 DEF Sought, Busy, Looks, For, ElfAt
<1>4. Mapped'
  <2>. SUFFICES ASSUME bounds'.remaps = 0, NEW i \in DOMAIN info'
                PROVE  \E k \in DOMAIN kernel' : SameRegion(info'[i], kernel'[k])
    BY DEF Mapped, SameRegion
  <2>1. bounds.remaps = 0 /\ kernel' = kernel OBVIOUS
  <2>2. CASE i \in DOMAIN info
    <3>1. PICK k \in DOMAIN kernel : SameRegion(info[i], kernel[k]) BY <2>1, <2>2 DEF ElfInv, Mapped
    <3>2. SameRegion(info'[i], info[i]) BY <2>2
    <3>3. SameRegion(info'[i], kernel[k]) BY <3>1, <3>2 DEF SameRegion
    <3>. QED BY <2>1, <3>3
  <2>3. CASE Unopened(info'[i]) BY <2>1, <2>3 DEF Unopened
  <2>. QED BY <2>2, <2>3
<1>. QED BY <1>1, <1>3, <1>4 DEF ElfInv

LEMMA ReparseParseRests == ASSUME TypeOK, NEW t \in Thread, ReparseParse(t) PROVE ~Busy(job'[t])
<1>1. \/ Go(t, [ph |-> "found", failed |-> TRUE])
      \/ job'[t] = With(job[t], [ph |-> "match", new |-> Len(maps) + 1, from |-> 1, last |-> Len(maps)])
  BY DEF ReparseParse
<1>2. CASE Go(t, [ph |-> "found", failed |-> TRUE])
  <2>1. PICK j : j = [ph |-> "found", failed |-> TRUE] OBVIOUS
  <2>2. "ph" \in DOMAIN j /\ j["ph"] \in Resting BY <2>1 DEF Resting
  <2>. QED BY <1>2, <2>1, <2>2, GoResting
<1>3. CASE job'[t] = With(job[t], [ph |-> "match", new |-> Len(maps) + 1, from |-> 1, last |-> Len(maps)])
  <2>1. PICK j : j = [ph |-> "match", new |-> Len(maps) + 1, from |-> 1, last |-> Len(maps)] OBVIOUS
  <2>2. "ph" \in DOMAIN j /\ j["ph"] \in Resting BY <2>1 DEF Resting
  <2>3. With(job[t], j).ph \in Resting BY <2>2, JobsOf, WithPh
  <2>. QED BY <1>3, <2>1, <2>3, RestingIsNotBusy
<1>. QED BY <1>1, <1>2, <1>3

LEMMA ReparseParseKeepsElf ==
  ASSUME TypeOK, TypeOK', ListInv, ElfInv, NEW t \in Thread, ReparseParse(t) PROVE ElfInv'
<1>1. ~Busy(job'[t]) BY ReparseParseRests
<1>2. CASE Quiet(t) /\ UNCHANGED << info, elfs, bounds >> BY <1>1, <1>2, IdleElf
<1>3. CASE Began(t)
  <2>8. PICK n \in Nat, N \in Nat : n = Len(info) /\ N = Len(kernel) BY LayoutRegions DEF TypeOK, InfoType
  <2>9. PICK ps : ps = info' OBVIOUS
  <2>1. n = Len(info) /\ N = Len(kernel) /\ ps = info' BY <2>8, <2>9
  <2>2. WithNew(ps, n, N) BY <1>3, <2>1, ParseEffect DEF Began
  <2>3. DOMAIN info = 1..n /\ DOMAIN ps = 1..(n + N) /\ DOMAIN kernel = 1..N
    BY <2>1, <2>2, LayoutRegions DEF TypeOK, InfoType, WithNew
  <2>4. \A i \in DOMAIN info : SameRegion(ps[i], info[i]) /\ SameElf(ps[i], info[i])
    BY <2>2, <2>3 DEF WithNew, SameRegion, SameElf
  <2>5. ASSUME NEW i \in DOMAIN ps, i \notin DOMAIN info PROVE Unopened(ps[i])
    <3>1. PICK r \in 1..N : i = n + r
      <4>1. i - n \in 1..N /\ i = n + (i - n) BY <2>3, <2>5
      <4>. QED BY <4>1
    <3>2. PICK a, b \in Nat : ps[n + r] = MapInfoOf(kernel[r], a, b) BY <2>2 DEF WithNew
    <3>. QED BY <2>3, <3>1, <3>2 DEF MapInfoOf, Unopened, SameRegion, NoElf
  <2>6. \A u \in Thread : ~Busy(job'[u]) \/ SameWay(u) BY <1>1, <1>3 DEF Began, SameWay
  <2>7. ElfsGrow /\ bounds' = bounds /\ kernel' = kernel BY <1>3 DEF Began, ElfsGrow
  <2>. QED BY <2>1, <2>4, <2>5, <2>6, <2>7, ElfCarried
<1>. QED BY <1>2, <1>3, ReparseParseType

LEMMA ReparseMatchKeepsElf ==
  ASSUME TypeOK, TypeOK', ListInv, ElfInv, NEW t \in Thread, ReparseMatch(t) PROVE ElfInv'
<1>1. /\ \A i \in DOMAIN info : SameRegion(info'[i], info[i]) /\ SameElf(info'[i], info[i])
      /\ Len(info') = Len(info)
      /\ \A u \in Thread : u # t => job'[u] = job[u]
      /\ job'[t].ph = "match" /\ UNCHANGED << elfs, bounds, kernel >>
  BY ReparseMatchKeepsList
<1>2. DOMAIN info' = DOMAIN info BY <1>1 DEF TypeOK, InfoType
<1>3. ~Busy(job'[t]) BY <1>1, RestingIsNotBusy DEF Resting
<1>4. \A u \in Thread : ~Busy(job'[u]) \/ SameWay(u) BY <1>1, <1>3 DEF SameWay
<1>5. ElfsGrow BY <1>1 DEF ElfsGrow
<1>. QED BY <1>1, <1>2, <1>4, <1>5, ElfCarried

LEMMA ReparseFinishKeepsElf ==
  ASSUME TypeOK, TypeOK', ListInv, ElfInv, NEW t \in Thread, ReparseFinish(t) PROVE ElfInv'
<1>1. /\ UNCHANGED << info, elfs, bounds, kernel >> /\ job'[t].ph = "found"
      /\ \A u \in Thread : u # t => job'[u] = job[u]
  BY ReparseFinishKeepsList
<1>2. ~Busy(job'[t]) BY <1>1, RestingIsNotBusy DEF Resting
<1>3. \A u \in Thread : ~Busy(job'[u]) \/ SameWay(u) BY <1>1, <1>2 DEF SameWay
<1>4. ElfsGrow /\ \A i \in DOMAIN info : SameRegion(info'[i], info[i]) /\ SameElf(info'[i], info[i])
  BY <1>1 DEF ElfsGrow, SameRegion, SameElf
<1>. QED BY <1>1, <1>3, <1>4, ElfCarried

LEMMA RemapKeepsElf == ASSUME TypeOK, ElfInv, Remap PROVE ElfInv'
<1>1. UNCHANGED << info, elfs, job >> BY DEF Remap
<1>2. bounds'.remaps # 0
  <2>1. PICK b \in [calls : Nat, remaps : Nat] : b = bounds BY DEF TypeOK
  <2>2. bounds' = [b EXCEPT !.remaps = b.remaps + 1] BY <2>1 DEF Remap
  <2>3. bounds'.remaps = b.remaps + 1 BY <2>2
  <2>. QED BY <2>3
<1>3. ElfsGrow /\ (\A u \in Thread : SameWay(u))
      /\ \A i \in DOMAIN info : SameRegion(info'[i], info[i]) /\ SameElf(info'[i], info[i])
  BY <1>1 DEF ElfsGrow, SameWay, SameRegion, SameElf
<1>. QED BY <1>1, <1>2, <1>3, ElfCarried

LEMMA StutterKeepsElf == ASSUME TypeOK, ElfInv, UNCHANGED vars PROVE ElfInv'
<1>1. UNCHANGED << info, elfs, job, kernel, bounds >> BY DEF vars
<1>2. ElfsGrow /\ (\A u \in Thread : SameWay(u))
      /\ \A i \in DOMAIN info : SameRegion(info'[i], info[i]) /\ SameElf(info'[i], info[i])
  BY <1>1 DEF ElfsGrow, SameWay, SameRegion, SameElf
<1>. QED BY <1>1, <1>2, ElfCarried

LEMMA InitElf == Init => ElfInv
<1>. SUFFICES ASSUME Init PROVE ElfInv OBVIOUS
<1>1. info = [k \in 1..Len(kernel) |-> MapInfoOf(kernel[k], k - 1, IF k = Len(kernel) THEN 0 ELSE k + 1)] BY DEF Init
<1>2. DOMAIN kernel = 1..Len(kernel) BY LayoutAssumption, LayoutRegions DEF Init
<1>3. \A i \in DOMAIN info : info[i].elf = NoElf /\ info[i].elf_start = 0 /\ SameRegion(info[i], kernel[i])
  BY <1>1 DEF MapInfoOf, SameRegion
<1>4. \A t \in Thread : ~Busy(job[t])
  <2>1. IdleJob.ph \in Resting BY IdleFields DEF Resting
  <2>2. \A t \in Thread : job[t] = IdleJob BY DEF Init
  <2>. QED BY <2>1, <2>2, RestingIsNotBusy
<1>5. Mapped BY <1>1, <1>2, <1>3 DEF Mapped
<1>. QED BY <1>3, <1>4, <1>5 DEF ElfInv, Leads, Fresh

LEMMA NextKeepsElf == ASSUME TypeOK, TypeOK', ListInv, ElfInv, [Next]_vars PROVE ElfInv'
<1>1. CASE Remap BY <1>1, RemapKeepsElf
<1>2. CASE SomeThread
  <2>1. PICK t \in Thread : ThreadStep(t) BY <1>2 DEF SomeThread
  <2>2. CASE Find(t) BY <2>2, FindKeepsElf
  <2>3. CASE ReparseParse(t) BY <2>3, ReparseParseKeepsElf
  <2>4. CASE ReparseMatch(t) BY <2>4, ReparseMatchKeepsElf
  <2>5. CASE ReparseFinish(t) BY <2>5, ReparseFinishKeepsElf
  <2>6. CASE NoMap(t) BY <2>6, NoMapKeepsElf
  <2>7. CASE GetElf(t) BY <2>7, GetElfKeepsElf
  <2>8. CASE GetPrevRealMap(t) BY <2>8, GetPrevRealMapKeepsElf
  <2>9. CASE GetFileMemory(t) BY <2>9, GetFileMemoryKeepsElf
  <2>10. CASE FromPreviousReadOnlyMap(t) BY <2>10, FromPreviousReadOnlyMapKeepsElf
  <2>11. CASE FromPreviousRange(t) BY <2>11, FromPreviousRangeKeepsElf
  <2>12. CASE ShareElf(t) BY <2>12, ShareElfKeepsElf
  <2>13. CASE Got(t) BY <2>13, GotKeepsElf
  <2>14. CASE FindVariable(t) BY <2>14, FindVariableKeepsElf
  <2>15. CASE ReadVariable(t) BY <2>15, ReadVariableKeepsElf
  <2>. QED BY <2>1, <2>2, <2>3, <2>4, <2>5, <2>6, <2>7, <2>8, <2>9, <2>10, <2>11, <2>12, <2>13, <2>14, <2>15
       DEF ThreadStep
<1>3. CASE UNCHANGED vars BY <1>3, StutterKeepsElf
<1>. QED BY <1>1, <1>2, <1>3 DEF Next

LEMMA ElfImplies == ElfInv => OffsetsLeadToElf
BY DEF ElfInv, Leads, OffsetsLeadToElf, Settled

\* The offsets of a map whose Elf is valid lead to where that ELF starts, in the middle of a search too, with
\* as many threads, maps and files as there are; an Elf read from memory only as long as the program has not
\* changed its mappings (MapInfo.h, elf_offset_; MapInfo.cpp, GetElf, GetFileMemory and CreateMemory).
THEOREM OffsetsLeadToElfHolds == Spec => []OffsetsLeadToElf
<1>1. Init => TypeOK /\ ListInv /\ ElfInv BY InitType, InitList, InitElf
<1>2. TypeOK /\ ListInv /\ ElfInv /\ [Next]_vars => (TypeOK /\ ListInv /\ ElfInv)' BY NextKeepsList, NextKeepsElf
<1>3. TypeOK /\ ListInv /\ ElfInv => OffsetsLeadToElf BY ElfImplies
<1>. QED BY <1>1, <1>2, <1>3, PTL DEF Spec
----------------------------------------------------------------------------
(* One Elf for the two maps of a library, until the program changes its    *)
(* mappings: the object of the kernel's k-th region is the k-th.           *)
Between(p, i) == \A x \in (p + 1)..(i - 1) : IsBlank(kernel[x])
Pair(p, i) ==
  /\ p < i /\ Between(p, i) /\ kernel[i].name # "" /\ kernel[p].name = kernel[i].name
  /\ kernel[p].flags = {"r"} /\ kernel[i].flags # {"r"} /\ kernel[p].off < kernel[i].off

Identity == [k \in DOMAIN kernel |-> k]
Listed ==
  /\ parsed.layout = kernel
  /\ writer = None => maps = Identity
  /\ writer # None => parsed.before = DOMAIN kernel
InPlace(k) == k \in DOMAIN info /\ SameRegion(info[k], kernel[k]) /\ info[k].prev = k - 1 /\ k \in Range(maps)
Steady     == Listed /\ \A k \in DOMAIN kernel : InPlace(k)

(* GetPrevRealMap has passed nothing but blank maps, and found the pair.   *)
Walked(i, w)  == kernel[i].name # "" => w \in 0..(i - 1) /\ Between(w, i)
Arrived(i, w) ==
  \A p \in 1..(i - 1) : kernel[i].name # "" /\ kernel[p].name = kernel[i].name /\ Between(p, i) => w = p
OnWay(j) ==
  j.map \in DOMAIN kernel =>
    /\ j.ph = "walk" => Walked(j.map, j.w)
    /\ j.ph = "share" => Arrived(j.map, j.w)
Walking == \A t \in Thread : OnWay(job[t])

(* A code map whose search is over has left its Elf with its pair.         *)
Paired ==
  \A i, p \in DOMAIN kernel :
    Pair(p, i) /\ Settled(i) => info[p].mutex = None /\ Agree(info[i], info[p])

One    == Steady /\ Walking /\ Paired
OneInv == bounds.remaps = 0 => One

LEMMA KernelDomain ==
  ASSUME TypeOK
  PROVE  /\ kernel \in Layouts /\ DOMAIN kernel = 1..Len(kernel) /\ Len(kernel) \in Nat
         /\ \A k, l \in DOMAIN kernel : kernel[k].start = kernel[l].start => k = l
<1>1. PICK l \in Layouts : l = kernel BY DEF TypeOK
<1>2. DOMAIN l = 1..Len(l) /\ Len(l) \in Nat /\ \A k \in DOMAIN l : l[k].start \in Nat BY <1>1, LayoutRegions
<1>3. \A k, n \in DOMAIN l : k < n => l[k].start < l[n].start BY <1>1, LayoutOrder
<1>4. \A k, n \in DOMAIN l : k < n \/ n < k \/ k = n BY <1>2
<1>. QED BY <1>1, <1>2, <1>3, <1>4

(* The steps of a thread that leave the list alone.                        *)
LEMMA QuietSteady ==
  ASSUME TypeOK, TypeOK', Steady, NEW t \in Thread, Quiet(t) PROVE Steady'
<1>1. UNCHANGED << kernel, maps, writer, parsed >> /\ InfoKeeps BY DEF Quiet
<1>2. DOMAIN info' = DOMAIN info BY <1>1, KeptFields
<1>3. ASSUME NEW k \in DOMAIN kernel PROVE InPlace(k)'
  <2>1. InPlace(k) BY DEF Steady
  <2>2. SameRegion(info'[k], info[k]) /\ SameLinks(info'[k], info[k]) BY <1>1, <2>1 DEF InfoKeeps, InPlace
  <2>. QED BY <1>1, <1>2, <2>1, <2>2 DEF InPlace, SameRegion, SameLinks
<1>4. Listed' BY <1>1 DEF Steady, Listed, Identity
<1>. QED BY <1>1, <1>3, <1>4 DEF Steady

(* What the maps and the threads owe when the list is in place.            *)
LEMMA PairsStay ==
  ASSUME TypeOK, Paired, kernel' = kernel, ElfsGrow, DOMAIN kernel \subseteq DOMAIN info,
         \A k \in DOMAIN kernel : SameElf(info'[k], info[k]) \/ (info[k].elf = NoElf /\ ~Settled(k)')
  PROVE  Paired'
<1>. SUFFICES ASSUME NEW i \in DOMAIN kernel, NEW p \in DOMAIN kernel, Pair(p, i), Settled(i)'
              PROVE  info'[p].mutex = None /\ Agree(info'[i], info'[p])
  BY DEF Paired, Pair, Between
<1>1. SameElf(info'[i], info[i]) OBVIOUS
<1>2. i \in DOMAIN info OBVIOUS
<1>3. Settled(i)
  <2>1. info[i].elf # NoElf /\ info[i].mutex = None BY <1>1 DEF Settled, SameElf
  <2>2. elfs'[info[i].elf] = elfs[info[i].elf] BY <1>2, <2>1, ElfOf DEF ElfsGrow
  <2>. QED BY <1>1, <2>1, <2>2 DEF Settled, SameElf
<1>4. info[p].mutex = None /\ Agree(info[i], info[p]) BY <1>3 DEF Paired
<1>5. SameElf(info'[p], info[p]) BY <1>4 DEF Agree
<1>. QED BY <1>1, <1>4, <1>5 DEF SameElf, Agree

LEMMA WalksOn ==
  ASSUME Walking, kernel' = kernel,
         \A u \in Thread : SameWay(u) \/ job'[u].ph \notin {"walk", "share"} \/ OnWay(job'[u])
  PROVE  Walking'
<1>1. ASSUME NEW u \in Thread, NEW h, h = job'[u] PROVE OnWay(h)'
  <2>1. OnWay(h)
    <3>1. CASE SameWay(u)
      <4>1. OnWay(job[u]) BY DEF Walking
      <4>. QED BY <1>1, <3>1, <4>1 DEF SameWay, OnWay
    <3>2. CASE h.ph \notin {"walk", "share"} BY <3>2 DEF OnWay
    <3>. QED BY <1>1, <3>1, <3>2
  <2>. QED BY <2>1 DEF OnWay, Walked, Arrived, Between
<1>. QED BY <1>1 DEF Walking, OnWay, Walked, Arrived, Between

(* A step that leaves the maps and the Elf objects alone.                  *)
LEMMA QuietOne ==
  ASSUME TypeOK, TypeOK', One, NEW t \in Thread, Quiet(t), ElfsGrow,
         \A k \in DOMAIN kernel : SameElf(info'[k], info[k]) \/ (info[k].elf = NoElf /\ ~Settled(k)'),
         SameWay(t) \/ job'[t].ph \notin {"walk", "share"} \/ OnWay(job'[t])
  PROVE  One'
<1>1. Steady' BY QuietSteady DEF One
<1>2. kernel' = kernel /\ \A u \in Thread : u # t => job'[u] = job[u] BY DEF Quiet
<1>3. DOMAIN kernel \subseteq DOMAIN info BY DEF One, Steady, InPlace
<1>4. Paired' BY <1>2, <1>3, PairsStay DEF One
<1>5. \A u \in Thread : SameWay(u) \/ job'[u].ph \notin {"walk", "share"} \/ OnWay(job'[u]) BY <1>2 DEF SameWay
<1>6. Walking' BY <1>2, <1>5, WalksOn DEF One
<1>. QED BY <1>1, <1>4, <1>6 DEF One

LEMMA RestsThen ==
  ASSUME TypeOK', NEW t \in Thread, ~Busy(job'[t]) PROVE job'[t].ph \notin {"walk", "share"}
<1>1. PICK j, n : j = job'[t] /\ n = Len(info') OBVIOUS
<1>2. JobIn(j, n) BY <1>1 DEF TypeOK, JobType
<1>3. j \in Jobs BY <1>2 DEF JobIn
<1>4. j.ph # "share" BY <1>1 DEF Busy, For
<1>5. j.ph # "walk"
  <2>1. SUFFICES ASSUME j.ph = "walk" PROVE FALSE OBVIOUS
  <2>2. j.goal \in {"share", "fileprev", "memprev"} BY <1>2, <1>3, <2>1 DEF JobIn, Jobs, Goals
  <2>. QED BY <1>1, <2>1, <2>2 DEF Busy, Looks, For
<1>. QED BY <1>1, <1>4, <1>5

LEMMA IdleOne ==
  ASSUME TypeOK, TypeOK', One, NEW t \in Thread, Quiet(t), UNCHANGED << info, elfs >>, ~Busy(job'[t])
  PROVE  One'
<1>1. job'[t].ph \notin {"walk", "share"} BY RestsThen
<1>2. ElfsGrow /\ \A k \in DOMAIN kernel : SameElf(info'[k], info[k]) BY DEF ElfsGrow, SameElf
<1>. QED BY <1>1, <1>2, QuietOne

LEMMA GetElfKeepsOne == ASSUME TypeOK, TypeOK', One, NEW t \in Thread, GetElf(t) PROVE One'
<1>1. PICK i : i = job[t].map /\ i \in DOMAIN info BY GetElfEffect
<1>2. Quiet(t) /\ UNCHANGED << elfs, bounds >> BY GetElfEffect
<1>3. job[t].ph = "found" BY DEF GetElf, At
<1>4. job'[t].ph \notin {"walk", "share"} BY <1>3, GetElfEffect
<1>5. \A k \in DOMAIN info : info'[k] = info[k] \/ (info[k].elf = NoElf /\ info'[k].elf = NoElf) BY GetElfEffect
<1>6. \A k \in DOMAIN kernel : SameElf(info'[k], info[k]) \/ (info[k].elf = NoElf /\ ~Settled(k)')
  <2>1. DOMAIN kernel \subseteq DOMAIN info BY DEF One, Steady, InPlace
  <2>. QED BY <1>5, <2>1 DEF SameElf, Settled
<1>7. ElfsGrow BY <1>2 DEF ElfsGrow
<1>. QED BY <1>2, <1>4, <1>6, <1>7, QuietOne

LEMMA LockBelow ==
  ASSUME TypeOK, Steady, NEW k \in DOMAIN kernel PROVE Lock(info[k].prev) = k - 1
<1>1. info[k].prev = k - 1 BY DEF Steady, InPlace
<1>2. k \in 1..Len(kernel) BY KernelDomain
<1>3. k - 1 = 0 \/ k - 1 \in DOMAIN kernel BY <1>2, KernelDomain
<1>4. k - 1 = 0 \/ k - 1 \in Range(maps) BY <1>3 DEF Steady, InPlace
<1>. QED BY <1>1, <1>4, LockListed

(* GetPrevRealMap sets out at the map just before.                         *)
LEMMA WalkBegins ==
  ASSUME TypeOK, Steady, NEW g, g.ph = "walk", g.w = Before(g.map) PROVE OnWay(g)
<1>. SUFFICES ASSUME g.map \in DOMAIN kernel PROVE Walked(g.map, g.w) BY DEF OnWay
<1>1. PICK i : i = g.map OBVIOUS
<1>2. i \in 1..Len(kernel) BY <1>1, KernelDomain
<1>3. Lock(info[i].prev) = i - 1 BY <1>1, LockBelow
<1>4. info[i].name = kernel[i].name BY <1>1 DEF Steady, InPlace, SameRegion
<1>5. kernel[i].name # "" => g.w = i - 1 BY <1>1, <1>3, <1>4 DEF Before
<1>6. i - 1 \in 0..(i - 1) BY <1>2
<1>7. Between(i - 1, i) BY <1>2 DEF Between
<1>. QED BY <1>1, <1>5, <1>6, <1>7 DEF Walked

LEMMA GetPrevRealMapKeepsOne ==
  ASSUME TypeOK, TypeOK', One, NEW t \in Thread, GetPrevRealMap(t) PROVE One'
<1>1. Quiet(t) /\ UNCHANGED << info, elfs, bounds >> BY GetPrevRealMapType
<1>2. job[t].ph = "walk" BY DEF GetPrevRealMap, At
<1>3. PICK j, h, i, w : j = job[t] /\ h = job'[t] /\ i = j.map /\ w = j.w OBVIOUS
<1>4. Steady /\ OnWay(j) BY <1>3 DEF One, Walking
<1>5. /\ h.map = i
      /\ \/ h.ph = "walk" /\ w # 0 /\ IsBlank(info[w]) /\ h.w = Lock(info[w].prev)
         \/ /\ h.ph \in {"share", "fileprev", "memprev"}
            /\ w # 0 => ~IsBlank(info[w])
            /\ h.w = IF w # 0 /\ info[w].name = info[i].name THEN w ELSE 0
  BY <1>3, GetPrevRealMapType
<1>6. ASSUME i \in DOMAIN kernel, kernel[i].name # ""
      PROVE  (h.ph = "walk" => h.w \in 0..(i - 1) /\ Between(h.w, i)) /\ (h.ph = "share" => Arrived(i, h.w))
  <2>1. i \in 1..Len(kernel) /\ DOMAIN kernel = 1..Len(kernel) BY <1>6, KernelDomain
  <2>2. w \in 0..(i - 1) /\ Between(w, i) BY <1>2, <1>3, <1>4, <1>6 DEF OnWay, Walked
  <2>3. w # 0 => w \in DOMAIN kernel BY <2>1, <2>2
  <2>4. \A k \in DOMAIN kernel : SameRegion(info[k], kernel[k]) BY <1>4 DEF Steady, InPlace
  <2>5. w # 0 => (IsBlank(info[w]) <=> IsBlank(kernel[w])) BY <2>3, <2>4 DEF IsBlank, SameRegion
  <2>6. CASE h.ph = "walk" /\ w # 0 /\ IsBlank(info[w]) /\ h.w = Lock(info[w].prev)
    <3>1. h.w = w - 1 BY <1>4, <2>3, <2>6, LockBelow
    <3>2. w - 1 \in 0..(i - 1) BY <2>1, <2>2, <2>6
    <3>3. \A x \in ((w - 1) + 1)..(i - 1) : x = w \/ x \in (w + 1)..(i - 1) BY <2>1, <2>2
    <3>4. Between(w - 1, i) BY <2>2, <2>5, <2>6, <3>3 DEF Between
    <3>. QED BY <2>6, <3>1, <3>2, <3>4
  <2>7. CASE /\ h.ph \in {"share", "fileprev", "memprev"}
             /\ w # 0 => ~IsBlank(info[w])
             /\ h.w = IF w # 0 /\ info[w].name = info[i].name THEN w ELSE 0
    <3>1. ASSUME NEW p \in 1..(i - 1), kernel[p].name = kernel[i].name, Between(p, i) PROVE h.w = p
      <4>1. ~(p < w)
        <5>1. SUFFICES ASSUME p < w PROVE FALSE OBVIOUS
        <5>2. w \in (p + 1)..(i - 1) /\ w # 0 BY <2>1, <2>2, <5>1
        <5>. QED BY <2>5, <2>7, <3>1, <5>2 DEF Between
      <4>2. ~(w < p)
        <5>1. SUFFICES ASSUME w < p PROVE FALSE OBVIOUS
        <5>2. p \in (w + 1)..(i - 1) BY <2>1, <2>2, <5>1
        <5>3. kernel[p].name = "" BY <2>2, <5>2 DEF Between, IsBlank
        <5>. QED BY <1>6, <3>1, <5>3
      <4>3. p = w BY <2>1, <2>2, <4>1, <4>2
      <4>4. p # 0 /\ p \in DOMAIN kernel BY <2>1
      <4>5. info[p].name = info[i].name BY <1>6, <2>4, <3>1, <4>4 DEF SameRegion
      <4>. QED BY <2>7, <4>3, <4>4, <4>5
    <3>2. Arrived(i, h.w) BY <3>1 DEF Arrived
    <3>. QED BY <2>7, <3>2
  <2>. QED BY <1>5, <2>6, <2>7
<1>7. OnWay(h) BY <1>5, <1>6 DEF OnWay, Walked, Arrived
<1>8. ElfsGrow /\ \A k \in DOMAIN kernel : SameElf(info'[k], info[k]) BY <1>1 DEF ElfsGrow, SameElf
<1>. QED BY <1>1, <1>3, <1>7, <1>8, QuietOne

LEMMA RestsKeepOne ==
  ASSUME TypeOK, TypeOK', One, NEW t \in Thread,
         Find(t) \/ NoMap(t) \/ Got(t) \/ FindVariable(t) \/ ReadVariable(t)
  PROVE  One'
<1>1. CASE Find(t)
  <2>1. UNCHANGED << info, elfs >> BY <1>1 DEF Find
  <2>. QED BY <1>1, <2>1, FindType, FindRests, IdleOne
<1>2. CASE NoMap(t)
  <2>1. UNCHANGED << info, elfs >> BY <1>2 DEF NoMap
  <2>. QED BY <1>2, <2>1, NoMapType, NoMapRests, IdleOne
<1>3. CASE Got(t)
  <2>1. UNCHANGED << info, elfs >> BY <1>3 DEF Got
  <2>. QED BY <1>3, <2>1, GotType, GotRests, IdleOne
<1>4. CASE FindVariable(t)
  <2>1. UNCHANGED << info, elfs >> BY <1>4 DEF FindVariable
  <2>. QED BY <1>4, <2>1, FindVariableType, FindVariableRests, IdleOne
<1>5. CASE ReadVariable(t)
  <2>1. UNCHANGED << info, elfs >> BY <1>5 DEF ReadVariable
  <2>. QED BY <1>5, <2>1, ReadVariableType, ReadVariableRests, IdleOne
<1>. QED BY <1>1, <1>2, <1>3, <1>4, <1>5

(* A new Elf is not settled: a valid one is still to be shared.            *)
LEMMA OpensKeepsOne ==
  ASSUME TypeOK, TypeOK', ElfInv, One, NEW t \in Thread, Looks(job[t]), job[t].ph \in GetElfPhases, Opens(t),
         UNCHANGED << kernel, maps, writer, search, fault, parsed, bounds >>
  PROVE  One'
<1>1. PICK c \in Names \X Int : \E fields : Located(fields) /\ NewElf(t, c, fields) BY DEF Opens
<1>2. PICK fields : Located(fields) /\ NewElf(t, c, fields) BY <1>1
<1>3. PICK i : i = job[t].map OBVIOUS
<1>4. PICK own : own = With(info[i], fields) OBVIOUS
<1>5. /\ Quiet(t)
      /\ Len(elfs') = Len(elfs) + 1 /\ \A e \in DOMAIN elfs : elfs'[e] = elfs[e]
      /\ elfs'[Len(elfs) + 1] = [at |-> c, valid |-> IsElf(c), mem |-> own.mem]
      /\ \A k \in DOMAIN info : k # i => info'[k] = info[k]
      /\ info'[i].elf = Len(elfs) + 1
      /\ IsElf(c) => info'[i].mutex = info[i].mutex /\ job'[t].ph = "walk" /\ job'[t].w = Before(i)
      /\ ~IsElf(c) => info'[i].mutex = None /\ job'[t].ph = "got"
      /\ job'[t].map = i
  BY <1>1, <1>2, <1>3, <1>4, NewElfEffect
<1>6. info[i].elf = NoElf /\ info[i].mutex = t BY <1>3, LooksKnows
<1>7. t # None BY ThreadAssumption DEF None
<1>8. ElfsGrow BY <1>5 DEF ElfsGrow
<1>9. ~Settled(i)'
  <2>1. CASE IsElf(c) BY <1>5, <1>6, <1>7, <2>1 DEF Settled
  <2>2. CASE ~IsElf(c) BY <1>5, <2>2 DEF Settled
  <2>. QED BY <2>1, <2>2
<1>10. \A k \in DOMAIN kernel : SameElf(info'[k], info[k]) \/ (info[k].elf = NoElf /\ ~Settled(k)')
  <2>1. DOMAIN kernel \subseteq DOMAIN info BY DEF One, Steady, InPlace
  <2>. QED BY <1>5, <1>6, <1>9, <2>1 DEF SameElf
<1>11. job'[t].ph \notin {"walk", "share"} \/ OnWay(job'[t])
  <2>1. CASE IsElf(c)
    <3>1. PICK g : g = job'[t] OBVIOUS
    <3>2. g.ph = "walk" /\ g.w = Before(g.map) BY <1>5, <2>1, <3>1
    <3>3. Steady BY DEF One
    <3>4. OnWay(g) BY <3>2, <3>3, WalkBegins
    <3>. QED BY <3>1, <3>4
  <2>2. CASE ~IsElf(c) BY <1>5, <2>2
  <2>. QED BY <2>1, <2>2
<1>. QED BY <1>5, <1>8, <1>10, <1>11, QuietOne

LEMMA GetFileMemoryKeepsOne ==
  ASSUME TypeOK, TypeOK', ElfInv, One, NEW t \in Thread, GetFileMemory(t) PROVE One'
<1>1. job[t].ph = "file" /\ UNCHANGED << kernel, maps, writer, search, fault, parsed, bounds >>
  BY DEF GetFileMemory, At
<1>2. job[t].ph \in GetElfPhases /\ Looks(job[t]) BY <1>1 DEF GetElfPhases, Looks
<1>3. PICK i : i = job[t].map /\ i \in DOMAIN info /\ info[i] \in MapInfos BY <1>2, MapOf
<1>4. PICK m : m = info[i] OBVIOUS
<1>5. Quiet(t) /\ Steady BY GetFileMemoryType DEF One
<1>6. ASSUME NEW goal \in {"share", "fileprev", "memprev"}, Go(t, WalkFor(goal, i)), ElfsGrow,
             \A k \in DOMAIN kernel : SameElf(info'[k], info[k]) \/ (info[k].elf = NoElf /\ ~Settled(k)')
      PROVE  One'
  <2>1. PICK g : g = job'[t] OBVIOUS
  <2>2. g.ph = "walk" /\ g.w = Before(g.map) BY <1>2, <1>3, <1>6, <2>1, WalkForFile
  <2>3. OnWay(g) BY <1>5, <2>2, WalkBegins
  <2>. QED BY <1>5, <1>6, <2>1, <2>3, QuietOne
<1>7. CASE FromFile(t, m)
  <2>1. Opens(t) BY <1>3, <1>4, <1>7, FromFileOpens
  <2>. QED BY <1>1, <1>2, <2>1, OpensKeepsOne
<1>8. CASE Go(t, WalkFor("fileprev", i)) /\ UNCHANGED << info, elfs >>
  <2>1. ElfsGrow /\ \A k \in DOMAIN kernel : SameElf(info'[k], info[k]) BY <1>8 DEF ElfsGrow, SameElf
  <2>. QED BY <1>6, <1>8, <2>1
<1>9. CASE Go(t, WalkFor("memprev", i)) /\ info' = [info EXCEPT ![i].mem = TRUE] /\ UNCHANGED elfs
  <2>1. m.elf = NoElf BY <1>2, <1>3, <1>4, LooksKnows
  <2>2. info'[i].elf = m.elf /\ \A k \in DOMAIN info : k # i => info'[k] = info[k]
    <3>1. PICK x : x = [m EXCEPT !.mem = TRUE] OBVIOUS
    <3>2. x \in MapInfos /\ SameRegion(x, m) /\ SameLinks(x, m) /\ x.elf = m.elf
      <4>1. PICK b \in BOOLEAN : b = TRUE OBVIOUS
      <4>2. x = [m EXCEPT !.mem = b] BY <3>1, <4>1
      <4>. QED BY <1>3, <1>4, <4>2, SetMem
    <3>3. info' = [info EXCEPT ![i] = x] BY <1>4, <1>9, <3>1
    <3>4. info \in Seq(MapInfos) BY DEF TypeOK, InfoType
    <3>. QED BY <1>3, <1>4, <3>2, <3>3, <3>4, InfoUpdate
  <2>3. DOMAIN kernel \subseteq DOMAIN info BY <1>5 DEF Steady, InPlace
  <2>4. \A k \in DOMAIN kernel : SameElf(info'[k], info[k]) \/ (info[k].elf = NoElf /\ ~Settled(k)')
    BY <1>4, <2>1, <2>2, <2>3 DEF SameElf, Settled
  <2>5. ElfsGrow BY <1>9 DEF ElfsGrow
  <2>. QED BY <1>6, <1>9, <2>4, <2>5
<1>. QED BY <1>3, <1>4, <1>7, <1>8, <1>9, GetFileMemoryCases

LEMMA FromPreviousReadOnlyMapKeepsOne ==
  ASSUME TypeOK, TypeOK', ElfInv, One, NEW t \in Thread, FromPreviousReadOnlyMap(t) PROVE One'
<1>1. job[t].ph = "fileprev" /\ UNCHANGED << kernel, maps, writer, search, fault, parsed, bounds >>
  BY DEF FromPreviousReadOnlyMap, At
<1>2. job[t].ph \in GetElfPhases /\ Looks(job[t]) BY <1>1 DEF GetElfPhases, Looks, For
<1>. QED BY <1>1, <1>2, FromPreviousReadOnlyMapOpens, OpensKeepsOne

LEMMA FromPreviousRangeKeepsOne ==
  ASSUME TypeOK, TypeOK', ElfInv, One, NEW t \in Thread, FromPreviousRange(t) PROVE One'
<1>1. job[t].ph = "memprev" /\ UNCHANGED << kernel, maps, writer, search, fault, parsed, bounds >>
  BY DEF FromPreviousRange, At
<1>2. job[t].ph \in GetElfPhases /\ Looks(job[t]) BY <1>1 DEF GetElfPhases, Looks, For
<1>. QED BY <1>1, <1>2, FromPreviousRangeOpens, OpensKeepsOne

(* The map whose search ends gets on with its pair, and no other pair is   *)
(* parted: the map before only gets an Elf if it had none.                 *)
LEMMA ShareElfKeepsOne ==
  ASSUME TypeOK, TypeOK', ElfInv, One, NEW t \in Thread, ShareElf(t) PROVE One'
<1>1. PICK i, w : i = job[t].map /\ w = job[t].w OBVIOUS
<1>2. /\ Quiet(t) /\ UNCHANGED elfs /\ i \in DOMAIN info /\ job'[t].ph = "got"
      /\ \/ /\ \A k \in DOMAIN info : k # i => info'[k] = info[k]
            /\ w = 0 \/ info[w].flags # {"r"} \/ info[w].off >= info[i].off
         \/ /\ w \in DOMAIN info /\ info[w].mutex = None /\ info[w].flags = {"r"}
            /\ Gives(info'[w], info[i], info[w])
            /\ info[i].elf # NoElf => Agree(info'[i], info'[w])
            /\ \A k \in DOMAIN info : k # i /\ k # w => info'[k] = info[k]
  BY <1>1, ShareElfEffect
<1>3. job[t].ph = "share" BY DEF ShareElf, At
<1>4. info[i].mutex = t /\ info[i].elf # NoElf
  <2>1. Busy(job[t]) /\ For(job[t], "share") BY <1>3 DEF Busy, For
  <2>. QED BY <1>1, <2>1 DEF ElfInv, Sought
<1>5. t # None BY ThreadAssumption DEF None
<1>6. i \in DOMAIN kernel => Arrived(i, w)
  <2>1. OnWay(job[t]) BY DEF One, Walking
  <2>. QED BY <1>1, <1>3, <2>1 DEF OnWay
<1>7. \A k \in DOMAIN kernel : k \in DOMAIN info /\ SameRegion(info[k], kernel[k]) BY DEF One, Steady, InPlace
<1>8. kernel' = kernel /\ \A u \in Thread : u # t => job'[u] = job[u] BY <1>2 DEF Quiet
<1>9. ASSUME NEW x \in DOMAIN kernel, NEW p \in DOMAIN kernel, Pair(p, x), Settled(x)'
      PROVE  info'[p].mutex = None /\ Agree(info'[x], info'[p])
  <2>1. p \in 1..(x - 1) /\ p # 0
    <3>1. DOMAIN kernel = 1..Len(kernel) /\ Len(kernel) \in Nat BY KernelDomain
    <3>2. p < x BY <1>9 DEF Pair
    <3>. QED BY <3>1, <3>2
  <2>2. info[p].flags = {"r"} /\ info[x].flags # {"r"} /\ info[p].off < info[x].off
    BY <1>7, <1>9 DEF Pair, SameRegion
  <2>3. CASE x = i
    <3>1. w = p BY <1>6, <1>9, <2>1, <2>3 DEF Arrived, Pair
    <3>2. ~(info[p].off >= info[i].off)
      <4>1. info[p].off \in Nat /\ info[i].off \in Nat BY <1>2, <1>7, ElfOf, InfoFields
      <4>. QED BY <2>2, <2>3, <4>1
    <3>3. /\ info[w].mutex = None /\ Gives(info'[w], info[i], info[w])
          /\ info[i].elf # NoElf => Agree(info'[i], info'[w])
      BY <1>2, <2>1, <2>2, <3>1, <3>2
    <3>. QED BY <1>4, <2>3, <3>1, <3>3 DEF Gives
  <2>4. CASE x # i
    <3>1. info'[x] = info[x]
      <4>1. x # w \/ info[w].flags # {"r"} BY <2>2
      <4>. QED BY <1>2, <1>7, <2>4, <4>1
    <3>2. Settled(x) BY <1>2, <1>9, <3>1 DEF Settled
    <3>3. info[p].mutex = None /\ Agree(info[x], info[p]) BY <1>9, <3>2 DEF One, Paired
    <3>4. p # i BY <1>4, <1>5, <3>3
    <3>5. info'[p] = info[p]
      <4>1. info[p].elf # NoElf BY <3>3 DEF Agree
      <4>2. Gives(info'[p], info[i], info[p]) => info'[p] = info[p] BY <4>1 DEF Gives
      <4>3. p \in DOMAIN info BY <1>7
      <4>. QED BY <1>2, <3>4, <4>2, <4>3
    <3>. QED BY <3>1, <3>3, <3>5
  <2>. QED BY <2>3, <2>4
<1>10. Paired' BY <1>8, <1>9 DEF Paired, Pair, Between
<1>11. Steady' BY <1>2, QuietSteady DEF One
<1>12. \A u \in Thread : SameWay(u) \/ job'[u].ph \notin {"walk", "share"} \/ OnWay(job'[u])
  BY <1>2, <1>8 DEF SameWay
<1>13. Walking' BY <1>8, <1>12, WalksOn DEF One
<1>. QED BY <1>10, <1>11, <1>13 DEF One

(* A Reparse puts the new objects behind, and finds every old one again.   *)
LEMMA ReparseParseKeepsOne ==
  ASSUME TypeOK, TypeOK', ListInv, One, NEW t \in Thread, ReparseParse(t) PROVE One'
<1>1. ~Busy(job'[t]) BY ReparseParseRests
<1>2. CASE Quiet(t) /\ UNCHANGED << info, elfs, bounds >> BY <1>1, <1>2, IdleOne
<1>3. CASE Began(t)
  <2>1. PICK n \in Nat, N \in Nat : n = Len(info) /\ N = Len(kernel) BY LayoutRegions DEF TypeOK, InfoType
  <2>2. PICK ps : ps = info' OBVIOUS
  <2>3. WithNew(ps, n, N) BY <1>3, <2>1, <2>2, ParseEffect DEF Began
  <2>4. DOMAIN info' = 1..(n + N) /\ \A i \in DOMAIN info : i \in DOMAIN info' /\ info'[i] = info[i]
    <3>1. DOMAIN info = 1..n BY <2>1 DEF TypeOK, InfoType
    <3>. QED BY <2>1, <2>2, <2>3, <3>1 DEF WithNew
  <2>5. writer = None /\ writer' # None /\ kernel' = kernel
    <3>1. t # None BY ThreadAssumption DEF None
    <3>. QED BY <1>3, <3>1 DEF Began
  <2>6. \A k \in DOMAIN kernel : InPlace(k) BY DEF One, Steady
  <2>7. Range(maps) \subseteq Range(maps')
    <3>1. PICK M : M = [k \in 1..N |-> n + k] OBVIOUS
    <3>2. maps' = maps \o M BY <1>3, <2>1, <3>1 DEF Began
    <3>3. maps \in Seq(0..n) /\ M \in Seq(Nat) BY <2>1, <3>1 DEF TypeOK
    <3>4. \A x \in DOMAIN maps : x \in DOMAIN maps' /\ maps'[x] = maps[x] BY <3>2, <3>3
    <3>. QED BY <3>4 DEF Range
  <2>8. \A k \in DOMAIN kernel : InPlace(k)' BY <2>4, <2>5, <2>6, <2>7 DEF InPlace
  <2>9. Listed'
    <3>1. maps = Identity BY <2>5 DEF One, Steady, Listed
    <3>2. Range(maps) = DOMAIN kernel BY <3>1 DEF Identity, Range
    <3>. QED BY <1>3, <2>5, <3>2 DEF Began, Listed
  <2>10. Steady' BY <2>5, <2>8, <2>9 DEF Steady
  <2>11. Paired'
    <3>1. ElfsGrow BY <1>3 DEF Began, ElfsGrow
    <3>2. DOMAIN kernel \subseteq DOMAIN info BY <2>6 DEF InPlace
    <3>3. \A k \in DOMAIN kernel : SameElf(info'[k], info[k]) BY <2>4, <3>2 DEF SameElf
    <3>. QED BY <2>5, <3>1, <3>2, <3>3, PairsStay DEF One
  <2>12. Walking'
    <3>1. job'[t].ph \notin {"walk", "share"} BY <1>1, RestsThen
    <3>2. \A u \in Thread : SameWay(u) \/ job'[u].ph \notin {"walk", "share"} \/ OnWay(job'[u])
      BY <1>3, <3>1 DEF Began, SameWay
    <3>. QED BY <2>5, <3>2, WalksOn DEF One
  <2>. QED BY <2>10, <2>11, <2>12 DEF One
<1>. QED BY <1>2, <1>3, ReparseParseType

LEMMA ReparseMatchKeepsOne ==
  ASSUME TypeOK, TypeOK', ListInv, One, NEW t \in Thread, ReparseMatch(t) PROVE One'
<1>1. /\ ListInv'
      /\ \A i \in DOMAIN info : SameRegion(info'[i], info[i]) /\ SameElf(info'[i], info[i])
      /\ Len(info') = Len(info)
      /\ \A i \in parsed.before : info'[i].prev = info[i].prev \/ FoundLast(job'[t], i)
      /\ \A u \in Thread : u # t => job'[u] = job[u]
      /\ job[t].ph = "match" /\ job'[t].ph = "match" /\ UNCHANGED << elfs, bounds, kernel >>
  BY ReparseMatchKeepsList
<1>2. writer = t /\ t # None /\ UNCHANGED << writer, parsed >>
  <2>1. UNCHANGED << writer, parsed >> BY DEF ReparseMatch
  <2>. QED BY <1>1, <2>1, ThreadAssumption DEF ListInv, None
<1>3. DOMAIN info' = DOMAIN info BY <1>1 DEF TypeOK, InfoType
<1>4. parsed.layout = kernel /\ parsed.before = DOMAIN kernel /\ \A k \in DOMAIN kernel : InPlace(k)
  BY <1>2 DEF One, Steady, Listed
<1>5. PICK N \in Nat : N = Len(kernel) /\ DOMAIN kernel = 1..N BY KernelDomain
<1>6. PICK g : g = job'[t] OBVIOUS
<1>7. PICK L : Matching(g, L)' BY <1>1, <1>2, <1>6 DEF ListInv
<1>8. DOMAIN L = 1..N BY <1>1, <1>2, <1>4, <1>5, <1>7 DEF Matching, Chain
<1>9. ASSUME NEW k \in DOMAIN kernel PROVE IF k <= Processed(g) THEN L[k] = k ELSE \E x \in Pending(g) : maps'[x] = k
  <2>1. SameMap(info'[k], kernel[k])
    <3>1. SameRegion(info'[k], info[k]) /\ SameRegion(info[k], kernel[k]) BY <1>1, <1>4 DEF InPlace
    <3>. QED BY <3>1 DEF SameRegion, SameMap
  <2>2. k \in DOMAIN L BY <1>5, <1>8
  <2>3. FoundOrPending(g, L)' BY <1>7 DEF Matching
  <2>. QED BY <1>1, <1>2, <1>4, <2>1, <2>2, <2>3 DEF FoundOrPending, Processed, Pending
<1>10. ASSUME NEW k \in DOMAIN kernel PROVE k \in Range(maps')
  <2>1. CASE k <= Processed(g)
    <3>1. L[k] = k /\ k \in DOMAIN L BY <1>5, <1>8, <1>9, <2>1
    <3>2. Range(L) \subseteq Range(maps') BY <1>7 DEF Matching
    <3>. QED BY <3>1, <3>2 DEF Range
  <2>2. CASE ~(k <= Processed(g))
    <3>1. PICK x \in Pending(g) : maps'[x] = k BY <1>9, <2>2
    <3>2. g.last \in Nat /\ g.from \in 1..(g.last + 1) /\ Len(maps') = g.last + N
      BY <1>1, <1>2, <1>4, <1>5, <1>7 DEF Matching, Counters
    <3>3. x \in 1..Len(maps') BY <3>1, <3>2 DEF Pending
    <3>4. x \in DOMAIN maps' BY <3>3 DEF TypeOK
    <3>. QED BY <3>1, <3>4 DEF Range
  <2>. QED BY <2>1, <2>2
<1>11. ASSUME NEW k \in DOMAIN kernel PROVE info'[k].prev = k - 1
  <2>1. CASE info'[k].prev = info[k].prev BY <1>4, <2>1 DEF InPlace
  <2>2. CASE FoundLast(g, k)
    <3>1. Processed(g) \in DOMAIN kernel /\ kernel[k].start = kernel[Processed(g)].start
      BY <1>4, <2>2 DEF FoundLast, InPlace, SameRegion
    <3>2. k = Processed(g) BY <3>1, KernelDomain
    <3>3. k \in 1..N BY <1>5
    <3>4. L[k] = k /\ (k # 1 => L[k - 1] = k - 1)
      <4>1. L[k] = k BY <1>9, <3>2, <3>3
      <4>2. k # 1 => k - 1 \in DOMAIN kernel /\ k - 1 <= Processed(g) BY <1>5, <3>2, <3>3
      <4>. QED BY <1>9, <4>1, <4>2
    <3>5. info'[L[k]].prev = IF k = 1 THEN 0 ELSE L[k - 1] BY <1>7, <1>8, <3>3 DEF Matching, Chain
    <3>. QED BY <3>4, <3>5
  <2>. QED BY <1>1, <1>4, <1>6, <2>1, <2>2
<1>12. \A k \in DOMAIN kernel : InPlace(k)'
  BY <1>1, <1>3, <1>4, <1>10, <1>11 DEF InPlace, SameRegion
<1>13. Steady' BY <1>1, <1>2, <1>4, <1>12 DEF Steady, Listed
<1>14. Paired'
  <2>1. ElfsGrow BY <1>1 DEF ElfsGrow
  <2>2. DOMAIN kernel \subseteq DOMAIN info BY <1>4 DEF InPlace
  <2>. QED BY <1>1, <2>1, <2>2, PairsStay DEF One
<1>15. Walking'
  <2>1. \A u \in Thread : SameWay(u) \/ job'[u].ph \notin {"walk", "share"} \/ OnWay(job'[u])
    BY <1>1 DEF SameWay
  <2>. QED BY <1>1, <2>1, WalksOn DEF One
<1>. QED BY <1>13, <1>14, <1>15 DEF One

LEMMA ReparseFinishKeepsOne ==
  ASSUME TypeOK, TypeOK', ListInv, One, NEW t \in Thread, ReparseFinish(t) PROVE One'
<1>1. /\ ListInv' /\ UNCHANGED << info, elfs, bounds, kernel >>
      /\ \A u \in Thread : u # t => job'[u] = job[u]
      /\ job[t].ph = "match" /\ job'[t].ph = "found"
  BY ReparseFinishKeepsList
<1>2. writer = t /\ t # None /\ writer' = None /\ parsed' = parsed
  <2>1. writer' = None /\ parsed' = parsed BY DEF ReparseFinish
  <2>. QED BY <1>1, <2>1, ThreadAssumption DEF ListInv, None
<1>3. parsed.layout = kernel /\ parsed.before = DOMAIN kernel /\ \A k \in DOMAIN kernel : InPlace(k)
  BY <1>2 DEF One, Steady, Listed
<1>4. PICK N \in Nat : N = Len(kernel) /\ DOMAIN kernel = 1..N BY KernelDomain
<1>5. Chain(maps, parsed.layout)' /\ StillThere(maps)' BY <1>1, <1>2 DEF ListInv
<1>6. maps' \in Seq(DOMAIN info) /\ Len(maps') = N BY <1>1, <1>2, <1>3, <1>4, <1>5 DEF Chain
<1>7. DOMAIN maps' = DOMAIN kernel BY <1>4, <1>6
<1>8. ASSUME NEW k \in DOMAIN kernel PROVE maps'[k] = k
  <2>1. SameMap(info'[k], kernel[k]) BY <1>1, <1>3 DEF InPlace, SameRegion, SameMap
  <2>. QED BY <1>1, <1>2, <1>3, <1>5, <2>1 DEF StillThere
<1>9. maps' = [k \in DOMAIN kernel |-> k]
  <2>1. maps' = [k \in DOMAIN maps' |-> maps'[k]] BY <1>6
  <2>. QED BY <1>7, <1>8, <2>1
<1>10. \A k \in DOMAIN kernel : k \in Range(maps') BY <1>9 DEF Range
<1>11. \A k \in DOMAIN kernel : InPlace(k)' BY <1>1, <1>3, <1>10 DEF InPlace
<1>12. Steady' BY <1>1, <1>2, <1>3, <1>9, <1>11 DEF Steady, Listed, Identity
<1>13. Paired'
  <2>1. ElfsGrow /\ \A k \in DOMAIN kernel : SameElf(info'[k], info[k]) BY <1>1 DEF ElfsGrow, SameElf
  <2>2. DOMAIN kernel \subseteq DOMAIN info BY <1>3 DEF InPlace
  <2>. QED BY <1>1, <2>1, <2>2, PairsStay DEF One
<1>14. Walking'
  <2>1. \A u \in Thread : SameWay(u) \/ job'[u].ph \notin {"walk", "share"} \/ OnWay(job'[u])
    BY <1>1 DEF SameWay
  <2>. QED BY <1>1, <2>1, WalksOn DEF One
<1>. QED BY <1>12, <1>13, <1>14 DEF One

LEMMA InitOne == Init => OneInv
<1>. SUFFICES ASSUME Init PROVE One BY DEF OneInv
<1>1. TypeOK BY InitType
<1>2. info = [k \in 1..Len(kernel) |-> MapInfoOf(kernel[k], k - 1, IF k = Len(kernel) THEN 0 ELSE k + 1)] BY DEF Init
<1>3. maps = [k \in 1..Len(kernel) |-> k] /\ writer = None /\ parsed.layout = kernel BY DEF Init
<1>4. DOMAIN kernel = 1..Len(kernel) BY <1>1, KernelDomain
<1>5. \A k \in DOMAIN kernel :
        k \in DOMAIN info /\ SameRegion(info[k], kernel[k]) /\ info[k].prev = k - 1 /\ info[k].elf = NoElf
  BY <1>2, <1>4 DEF MapInfoOf, SameRegion
<1>6. Listed BY <1>3, <1>4 DEF Listed, Identity
<1>7. \A k \in DOMAIN kernel : k \in Range(maps) BY <1>3, <1>4 DEF Range
<1>8. Steady BY <1>5, <1>6, <1>7 DEF Steady, InPlace
<1>9. Paired BY <1>5 DEF Paired, Settled
<1>10. Walking
  <2>1. \A t \in Thread : job[t] = IdleJob BY DEF Init
  <2>. QED BY <2>1, IdleFields DEF Walking, OnWay
<1>. QED BY <1>8, <1>9, <1>10 DEF One

LEMMA ThreadKeepsOne ==
  ASSUME TypeOK, TypeOK', ListInv, ElfInv, One, NEW t \in Thread, ThreadStep(t) PROVE One'
<1>1. CASE Find(t) \/ NoMap(t) \/ Got(t) \/ FindVariable(t) \/ ReadVariable(t) BY <1>1, RestsKeepOne
<1>2. CASE ReparseParse(t) BY <1>2, ReparseParseKeepsOne
<1>3. CASE ReparseMatch(t) BY <1>3, ReparseMatchKeepsOne
<1>4. CASE ReparseFinish(t) BY <1>4, ReparseFinishKeepsOne
<1>5. CASE GetElf(t) BY <1>5, GetElfKeepsOne
<1>6. CASE GetPrevRealMap(t) BY <1>6, GetPrevRealMapKeepsOne
<1>7. CASE GetFileMemory(t) BY <1>7, GetFileMemoryKeepsOne
<1>8. CASE FromPreviousReadOnlyMap(t) BY <1>8, FromPreviousReadOnlyMapKeepsOne
<1>9. CASE FromPreviousRange(t) BY <1>9, FromPreviousRangeKeepsOne
<1>10. CASE ShareElf(t) BY <1>10, ShareElfKeepsOne
<1>. QED BY <1>1, <1>2, <1>3, <1>4, <1>5, <1>6, <1>7, <1>8, <1>9, <1>10 DEF ThreadStep

(* No step of a thread counts as a change of mappings.                     *)
LEMMA RemapsStay == ASSUME TypeOK, ListInv, NEW t \in Thread, ThreadStep(t) PROVE bounds'.remaps = bounds.remaps
<1>1. CASE Find(t)
  <2>1. PICK b \in [calls : Nat, remaps : Nat] : b = bounds BY DEF TypeOK
  <2>2. bounds' = [b EXCEPT !.calls = b.calls + 1] BY <1>1, <2>1 DEF Find
  <2>. QED BY <2>1, <2>2
<1>2. CASE NoMap(t) \/ Got(t) \/ FindVariable(t) \/ ReadVariable(t) \/ GetElf(t) \/ GetPrevRealMap(t) \/ ShareElf(t)
  BY <1>2 DEF NoMap, Got, FindVariable, ReadVariable, GetElf, GetPrevRealMap, ShareElf
<1>3. CASE GetFileMemory(t) \/ FromPreviousReadOnlyMap(t) \/ FromPreviousRange(t)
  BY <1>3 DEF GetFileMemory, FromPreviousReadOnlyMap, FromPreviousRange
<1>4. CASE ReparseParse(t) \/ ReparseMatch(t) \/ ReparseFinish(t)
  BY <1>4 DEF ReparseParse, ReparseMatch, ReparseFinish
<1>. QED BY <1>1, <1>2, <1>3, <1>4 DEF ThreadStep

LEMMA StutterKeepsOne == ASSUME TypeOK, OneInv, UNCHANGED vars, bounds'.remaps = 0 PROVE One'
<1>1. UNCHANGED << kernel, info, maps, writer, elfs, job, parsed, bounds >> BY DEF vars
<1>2. One BY <1>1 DEF OneInv
<1>3. Steady'
  <2>1. Listed' BY <1>1, <1>2 DEF One, Steady, Listed, Identity
  <2>2. ASSUME NEW k \in DOMAIN kernel PROVE InPlace(k)' BY <1>1, <1>2 DEF One, Steady, InPlace
  <2>. QED BY <1>1, <2>1, <2>2 DEF Steady
<1>4. DOMAIN kernel \subseteq DOMAIN info BY <1>2 DEF One, Steady, InPlace
<1>5. ElfsGrow /\ (\A u \in Thread : SameWay(u)) /\ \A k \in DOMAIN kernel : SameElf(info'[k], info[k])
  BY <1>1 DEF ElfsGrow, SameWay, SameElf
<1>6. Paired' BY <1>1, <1>2, <1>4, <1>5, PairsStay DEF One
<1>7. Walking' BY <1>1, <1>2, <1>5, WalksOn DEF One
<1>. QED BY <1>3, <1>6, <1>7 DEF One

LEMMA NextKeepsOne == ASSUME TypeOK, TypeOK', ListInv, ElfInv, OneInv, [Next]_vars PROVE OneInv'
<1>. SUFFICES ASSUME bounds'.remaps = 0 PROVE One'
  BY DEF OneInv, One, Steady, Listed, InPlace, Walking, OnWay, Walked, Arrived, Paired, Pair, Between
<1>1. CASE Remap
  <2>1. PICK b \in [calls : Nat, remaps : Nat] : b = bounds BY DEF TypeOK
  <2>2. bounds' = [b EXCEPT !.remaps = b.remaps + 1] BY <1>1, <2>1 DEF Remap
  <2>3. bounds'.remaps = b.remaps + 1 BY <2>2
  <2>. QED BY <2>3
<1>2. CASE SomeThread
  <2>1. PICK t \in Thread : ThreadStep(t) BY <1>2 DEF SomeThread
  <2>2. One BY <2>1, RemapsStay DEF OneInv
  <2>. QED BY <2>1, <2>2, ThreadKeepsOne
<1>3. CASE UNCHANGED vars BY <1>3, StutterKeepsOne
<1>. QED BY <1>1, <1>2, <1>3 DEF Next

LEMMA OneImplies == TypeOK /\ OneInv => OneElf
<1>. SUFFICES ASSUME TypeOK, One, writer = None, NEW k \in DOMAIN maps, NEW l \in 1..(k - 1),
                     \A b \in (l + 1)..(k - 1) : IsBlank(info[maps[b]]),
                     info[maps[k]].name # "", info[maps[l]].name = info[maps[k]].name,
                     info[maps[l]].flags = {"r"}, info[maps[k]].flags # {"r"}, info[maps[l]].off < info[maps[k]].off,
                     Settled(maps[k]), info[maps[k]].elf_start = info[maps[l]].elf_start
              PROVE  info[maps[k]].elf = info[maps[l]].elf
  BY DEF OneElf, OneInv
<1>1. maps = Identity /\ \A x \in DOMAIN kernel : SameRegion(info[x], kernel[x])
  BY DEF One, Steady, Listed, InPlace
<1>2. DOMAIN kernel = 1..Len(kernel) /\ Len(kernel) \in Nat BY KernelDomain
<1>3. DOMAIN maps = DOMAIN kernel /\ \A x \in DOMAIN kernel : maps[x] = x BY <1>1 DEF Identity
<1>4. l \in DOMAIN kernel /\ k \in DOMAIN kernel /\ l < k /\ \A b \in (l + 1)..(k - 1) : b \in DOMAIN kernel
  <2>1. PICK N \in Nat : N = Len(kernel) /\ DOMAIN kernel = 1..N BY <1>2
  <2>2. k \in DOMAIN kernel BY <1>3
  <2>3. k \in 1..N BY <2>1, <2>2
  <2>4. l \in 1..N /\ l < k /\ \A b \in (l + 1)..(k - 1) : b \in 1..N BY ONLY <2>3, l \in 1..(k - 1), N \in Nat
  <2>. QED BY <2>1, <2>2, <2>4
<1>5. Between(l, k)
  <2>1. ASSUME NEW b \in (l + 1)..(k - 1) PROVE IsBlank(kernel[b])
    <3>1. b \in DOMAIN kernel /\ IsBlank(info[maps[b]]) BY <1>4
    <3>2. maps[b] = b /\ SameRegion(info[b], kernel[b]) BY <1>1, <1>3, <3>1
    <3>. QED BY <3>1, <3>2 DEF IsBlank, SameRegion
  <2>. QED BY <2>1 DEF Between
<1>6. maps[k] = k /\ maps[l] = l BY <1>3, <1>4
<1>7. Pair(l, k) BY <1>1, <1>4, <1>5, <1>6 DEF Pair, SameRegion
<1>8. Agree(info[k], info[l]) BY <1>4, <1>6, <1>7 DEF One, Paired
<1>. QED BY <1>6, <1>8 DEF Agree

\* Until the program first changes its mappings, and with as many threads, maps and files as there are, a code
\* map and the read-only map before it share one Elf object if their ELF starts in the same place, whichever
\* of them a thread came to first, in whatever order the threads take their locks (MapInfo.cpp, GetElf and
\* GetPrevRealMap).
THEOREM OneElfHolds == Spec => []OneElf
<1>1. Init => TypeOK /\ ListInv /\ ElfInv /\ OneInv BY InitType, InitList, InitElf, InitOne
<1>2. TypeOK /\ ListInv /\ ElfInv /\ OneInv /\ [Next]_vars => (TypeOK /\ ListInv /\ ElfInv /\ OneInv)'
  BY NextKeepsList, NextKeepsElf, NextKeepsOne
<1>3. TypeOK /\ ListInv /\ ElfInv /\ OneInv => OneElf BY OneImplies
<1>. QED BY <1>1, <1>2, <1>3, PTL DEF Spec
============================================================================
