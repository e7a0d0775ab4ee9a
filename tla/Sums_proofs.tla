---------------------------- MODULE Sums_proofs ----------------------------
(***************************************************************************)
(* What MapThenSumSet computes for the sizes of the entries of a map: the  *)
(* sum does not depend on the order in which CHOOSE takes the entries.     *)
(* The library's induction theorems take an operator as a parameter; here  *)
(* induction is on a set of natural numbers, from its least element.       *)
(***************************************************************************)
EXTENDS Integers, FiniteSets, FiniteSetsExt, TLAPS, FiniteSetTheorems, WellFoundedInduction

(* The sum of the sizes of the entries S of a map m.                       *)
SizeSum(m, S) == MapThenSumSet(LAMBDA k : m[k].size, S)

Sized(m, S) == \A k \in S : m[k].size \in Nat

----------------------------------------------------------------------------
(* Induction.                                                              *)
LEMMA LeastNat ==
  ASSUME NEW T \in SUBSET Nat, T # {}
  PROVE  \E n \in T : \A k \in T : n <= k
<1>1. IsWellFoundedOn(OpToRel(<, Nat), Nat)
  BY NatLessThanWellFounded
<1>2. \E x \in T : \A y \in T : ~ (<< y, x >> \in OpToRel(<, Nat))
  BY <1>1, WFMin
<1>3. PICK x \in T : \A y \in T : ~ (<< y, x >> \in { r \in Nat \X Nat : r[1] < r[2] })
  BY <1>2 DEF OpToRel
<1>4. \A y \in T : ~ (y < x)
  <2> SUFFICES ASSUME NEW y \in T, y < x PROVE FALSE
    OBVIOUS
  <2>1. << y, x >> \in Nat \X Nat /\ << y, x >>[1] < << y, x >>[2]
    OBVIOUS
  <2>2. << y, x >> \in { r \in Nat \X Nat : r[1] < r[2] }
    BY <2>1
  <2> QED BY <1>3, <2>2
<1> QED BY <1>4

LEMMA NatInduct ==
  ASSUME NEW T, 0 \in T, \A n \in Nat : n \in T => n + 1 \in T
  PROVE  Nat \subseteq T
<1> SUFFICES ASSUME Nat \ T # {} PROVE FALSE
  OBVIOUS
<1>1. PICK n \in Nat \ T : \A k \in Nat \ T : n <= k
  BY LeastNat
<1>2. n # 0 /\ n - 1 \in Nat /\ n - 1 \notin Nat \ T
  BY <1>1
<1> QED BY <1>1, <1>2

----------------------------------------------------------------------------
(* The function that MapThenFoldSet defines.                               *)
Pick(s) == CHOOSE x \in s : TRUE

Sums(g, m, S) ==
  g = [s \in SUBSET S |-> IF s = {} THEN 0 ELSE m[Pick(s)].size + g[s \ {Pick(s)}]]

LEMMA SizeSumIs ==
  ASSUME NEW m, NEW S
  PROVE  SizeSum(m, S) = (CHOOSE g : Sums(g, m, S))[S]
BY DEF SizeSum, MapThenSumSet, MapThenFoldSet, Sums, Pick

LEMMA PickOne ==
  ASSUME NEW S, IsFiniteSet(S), NEW s \in SUBSET S
  PROVE  /\ IsFiniteSet(s) /\ Cardinality(s) \in Nat
         /\ s # {} => Pick(s) \in s
         /\ Cardinality(s) = 0 <=> s = {}
         /\ \A x \in s : s \ {x} \in SUBSET S /\ Cardinality(s \ {x}) = Cardinality(s) - 1
<1>1. IsFiniteSet(s)
  BY FS_Subset
<1>2. Cardinality(s) \in Nat /\ (Cardinality(s) = 0 <=> s = {})
  BY <1>1, FS_CardinalityType, FS_EmptySet
<1>3. s # {} => Pick(s) \in s
  BY DEF Pick
<1>4. ASSUME NEW x \in s
      PROVE  s \ {x} \in SUBSET S /\ Cardinality(s \ {x}) = Cardinality(s) - 1
  BY <1>1, FS_RemoveElement
<1> QED BY <1>1, <1>2, <1>3, <1>4

LEMMA SumsExist ==
  ASSUME NEW m, NEW S, IsFiniteSet(S), Sized(m, S)
  PROVE  \E g \in [SUBSET S -> Nat] : Sums(g, m, S)
<1> DEFINE Small(n) == { s \in SUBSET S : Cardinality(s) <= n }
           Holds(g, n) == \A s \in Small(n) :
                            g[s] = IF s = {} THEN 0 ELSE m[Pick(s)].size + g[s \ {Pick(s)}]
           T == { n \in Nat : \E g \in [Small(n) -> Nat] : Holds(g, n) }
<1>1. 0 \in T
  <2>1. \A s \in Small(0) : s = {}
    BY PickOne
  <2>2. Holds([s \in Small(0) |-> 0], 0) /\ [s \in Small(0) |-> 0] \in [Small(0) -> Nat]
    BY <2>1
  <2> QED BY <2>2
<1>2. ASSUME NEW n \in Nat, n \in T
      PROVE  n + 1 \in T
  <2>1. PICK g \in [Small(n) -> Nat] : Holds(g, n)
    BY <1>2
  <2>2. PICK h : h = [s \in Small(n + 1) |-> IF s \in Small(n) THEN g[s]
                                             ELSE m[Pick(s)].size + g[s \ {Pick(s)}]]
    OBVIOUS
  <2>3. ASSUME NEW s \in Small(n + 1), s # {}
        PROVE  Pick(s) \in s /\ s \ {Pick(s)} \in Small(n)
    <3>1. /\ Pick(s) \in s /\ s \ {Pick(s)} \in SUBSET S /\ Cardinality(s) \in Nat
          /\ Cardinality(s \ {Pick(s)}) = Cardinality(s) - 1
      BY <2>3, PickOne
    <3> QED BY <3>1
  <2>4. {} \in Small(n) /\ Small(n) \subseteq Small(n + 1)
    <3>1. \A s \in SUBSET S : Cardinality(s) \in Nat
      BY PickOne
    <3>2. Cardinality({}) = 0
      BY FS_EmptySet
    <3> QED BY <3>1, <3>2
  <2>5. ASSUME NEW s \in Small(n + 1)
        PROVE  /\ h[s] \in Nat
               /\ h[s] = IF s = {} THEN 0 ELSE m[Pick(s)].size + h[s \ {Pick(s)}]
    <3>1. CASE s = {}
      BY <2>1, <2>2, <2>4, <3>1
    <3>2. CASE s # {}
      <4>1. Pick(s) \in s /\ s \ {Pick(s)} \in Small(n) /\ m[Pick(s)].size \in Nat
        BY <2>3, <3>2 DEF Sized
      <4>2. h[s \ {Pick(s)}] = g[s \ {Pick(s)}] /\ g[s \ {Pick(s)}] \in Nat
        BY <2>1, <2>2, <2>4, <4>1
      <4>3. h[s] = m[Pick(s)].size + g[s \ {Pick(s)}]
        BY <2>1, <2>2, <3>2, <4>1
      <4> QED BY <3>2, <4>1, <4>2, <4>3
    <3> QED BY <3>1, <3>2
  <2>6. h \in [Small(n + 1) -> Nat] /\ Holds(h, n + 1)
    BY <2>2, <2>5
  <2> HIDE DEF Small, Holds
  <2> QED BY <2>6
<1>3. Cardinality(S) \in T
  <2> HIDE DEF T
  <2>1. Nat \subseteq T
    BY <1>1, <1>2, NatInduct
  <2> QED BY <2>1, FS_CardinalityType
<1>4. Small(Cardinality(S)) = SUBSET S
  BY FS_Subset
<1>5. PICK g \in [SUBSET S -> Nat] :
        \A s \in SUBSET S : g[s] = IF s = {} THEN 0 ELSE m[Pick(s)].size + g[s \ {Pick(s)}]
  BY <1>3, <1>4
<1>6. Sums(g, m, S)
  BY <1>5 DEF Sums
<1> QED BY <1>5, <1>6

(* Two such functions agree where the maps do.                             *)
LEMMA SumsAgree ==
  ASSUME NEW m, NEW S, NEW g, Sums(g, m, S), NEW n, NEW U, NEW h, Sums(h, n, U),
         IsFiniteSet(S), IsFiniteSet(U)
  PROVE  \A s \in SUBSET (S \cap U) : (\A k \in s : m[k].size = n[k].size) => g[s] = h[s]
<1> DEFINE T == { i \in Nat : \A s \in SUBSET (S \cap U) :
                    Cardinality(s) = i /\ (\A k \in s : m[k].size = n[k].size) => g[s] = h[s] }
<1>e. ASSUME NEW s \in SUBSET (S \cap U)
      PROVE  /\ g[s] = IF s = {} THEN 0 ELSE m[Pick(s)].size + g[s \ {Pick(s)}]
             /\ h[s] = IF s = {} THEN 0 ELSE n[Pick(s)].size + h[s \ {Pick(s)}]
  BY DEF Sums
<1>1. 0 \in T
  BY <1>e, PickOne
<1>2. ASSUME NEW i \in Nat, i \in T
      PROVE  i + 1 \in T
  <2> SUFFICES ASSUME NEW s \in SUBSET (S \cap U), Cardinality(s) = i + 1,
                      \A k \in s : m[k].size = n[k].size
               PROVE  g[s] = h[s]
    OBVIOUS
  <2>1. s # {} /\ Pick(s) \in s
    BY PickOne
  <2>2. s \ {Pick(s)} \in SUBSET (S \cap U) /\ Cardinality(s \ {Pick(s)}) = i
    BY <2>1, PickOne
  <2>3. g[s \ {Pick(s)}] = h[s \ {Pick(s)}]
    BY <1>2, <2>2
  <2> QED BY <1>e, <2>1, <2>3
<1>3. Nat \subseteq T
  <2> HIDE DEF T
  <2> QED BY <1>1, <1>2, NatInduct
<1> QED BY <1>3, PickOne

(* Any entry may be taken first.                                           *)
AnyFirst(g, m, S) == \A s \in SUBSET S : \A x \in s : g[s] = m[x].size + g[s \ {x}]

LEMMA SumsAny ==
  ASSUME NEW m, NEW S, IsFiniteSet(S), Sized(m, S), NEW g, g \in [SUBSET S -> Nat],
         Sums(g, m, S)
  PROVE  AnyFirst(g, m, S)
<1> DEFINE T == { i \in Nat : \A s \in SUBSET S :
                    Cardinality(s) = i => \A x \in s : g[s] = m[x].size + g[s \ {x}] }
<1>e. ASSUME NEW s \in SUBSET S, s # {}
      PROVE  g[s] = m[Pick(s)].size + g[s \ {Pick(s)}]
  BY <1>e DEF Sums
<1>1. 0 \in T
  BY PickOne
<1>2. ASSUME NEW i \in Nat, i \in T
      PROVE  i + 1 \in T
  <2> SUFFICES ASSUME NEW s \in SUBSET S, Cardinality(s) = i + 1, NEW x \in s
               PROVE  g[s] = m[x].size + g[s \ {x}]
    OBVIOUS
  <2>1. PICK y \in s : y = Pick(s)
    BY PickOne
  <2>2. /\ s \ {y} \in SUBSET S /\ Cardinality(s \ {y}) = i
        /\ s \ {x} \in SUBSET S /\ Cardinality(s \ {x}) = i
    BY PickOne
  <2>3. g[s] = m[y].size + g[s \ {y}]
    BY <1>e, <2>1
  <2>4. CASE x # y
    <3>1. x \in s \ {y} /\ y \in s \ {x} /\ (s \ {x}) \ {y} = (s \ {y}) \ {x}
      BY <2>4
    <3>2. g[s \ {y}] = m[x].size + g[(s \ {y}) \ {x}]
      BY <1>2, <2>2, <3>1
    <3>3. g[s \ {x}] = m[y].size + g[(s \ {x}) \ {y}]
      BY <1>2, <2>2, <3>1
    <3>4. g[(s \ {y}) \ {x}] \in Nat /\ m[x].size \in Nat /\ m[y].size \in Nat
      BY DEF Sized
    <3>5. PICK rest \in Nat : rest = g[(s \ {y}) \ {x}]
      BY <3>4
    <3>6. g[s \ {y}] = m[x].size + rest /\ g[s \ {x}] = m[y].size + rest
      BY <3>1, <3>2, <3>3, <3>5
    <3> QED BY <2>3, <3>4, <3>6
  <2> QED BY <2>3, <2>4
<1>3. Nat \subseteq T
  <2> HIDE DEF T
  <2> QED BY <1>1, <1>2, NatInduct
<1> QED BY <1>3, PickOne DEF AnyFirst

----------------------------------------------------------------------------
(* The laws of the sum.                                                    *)
LEMMA SizeSumDef ==
  ASSUME NEW m, NEW S, IsFiniteSet(S), Sized(m, S)
  PROVE  \E g \in [SUBSET S -> Nat] : Sums(g, m, S) /\ SizeSum(m, S) = g[S]
<1>1. PICK f \in [SUBSET S -> Nat] : Sums(f, m, S)
  BY SumsExist
<1>2. PICK g : g = CHOOSE k : Sums(k, m, S)
  OBVIOUS
<1>3. Sums(g, m, S)
  BY <1>1, <1>2
<1>4. \A s \in SUBSET (S \cap S) : (\A k \in s : m[k].size = m[k].size) => g[s] = f[s]
  BY <1>1, <1>3, SumsAgree
<1>5. g \in [SUBSET S -> Nat]
  <2>1. g = [s \in SUBSET S |-> IF s = {} THEN 0 ELSE m[Pick(s)].size + g[s \ {Pick(s)}]]
    BY <1>3 DEF Sums
  <2>2. g = [s \in SUBSET S |-> g[s]]
    BY <2>1
  <2> QED BY <1>4, <2>2
<1> QED BY <1>2, <1>3, <1>5, SizeSumIs

LEMMA SizeSumEmpty ==
  ASSUME NEW m
  PROVE  SizeSum(m, {}) = 0
<1>1. PICK g : Sums(g, m, {}) /\ SizeSum(m, {}) = g[{}]
  BY SizeSumDef, FS_EmptySet DEF Sized
<1> QED BY <1>1 DEF Sums

LEMMA SizeSumType ==
  ASSUME NEW m, NEW S, IsFiniteSet(S), Sized(m, S)
  PROVE  SizeSum(m, S) \in Nat
<1>1. PICK g \in [SUBSET S -> Nat] : Sums(g, m, S) /\ SizeSum(m, S) = g[S]
  BY SizeSumDef
<1> QED BY <1>1

LEMMA SizeSumSame ==
  ASSUME NEW m, NEW n, NEW S, IsFiniteSet(S), Sized(m, S), \A k \in S : m[k].size = n[k].size
  PROVE  SizeSum(m, S) = SizeSum(n, S)
<1>1. Sized(n, S)
  BY DEF Sized
<1>2. PICK g : Sums(g, m, S) /\ SizeSum(m, S) = g[S]
  BY SizeSumDef
<1>3. PICK h : Sums(h, n, S) /\ SizeSum(n, S) = h[S]
  BY <1>1, SizeSumDef
<1>4. \A s \in SUBSET (S \cap S) : (\A k \in s : m[k].size = n[k].size) => g[s] = h[s]
  BY <1>2, <1>3, SumsAgree
<1> QED BY <1>2, <1>3, <1>4

LEMMA SizeSumRemove ==
  ASSUME NEW m, NEW S, IsFiniteSet(S), Sized(m, S), NEW x \in S
  PROVE  SizeSum(m, S) = m[x].size + SizeSum(m, S \ {x})
<1>1. IsFiniteSet(S \ {x}) /\ Sized(m, S \ {x})
  BY FS_Subset DEF Sized
<1>2. PICK g \in [SUBSET S -> Nat] : Sums(g, m, S) /\ SizeSum(m, S) = g[S]
  BY SizeSumDef
<1>3. PICK h : Sums(h, m, S \ {x}) /\ SizeSum(m, S \ {x}) = h[S \ {x}]
  BY <1>1, SizeSumDef
<1>4. \A s \in SUBSET (S \cap (S \ {x})) : (\A k \in s : m[k].size = m[k].size) => g[s] = h[s]
  BY <1>1, <1>2, <1>3, SumsAgree
<1>5. AnyFirst(g, m, S)
  BY <1>2, SumsAny
<1>6. g[S \ {x}] = h[S \ {x}]
  <2>1. S \ {x} \in SUBSET (S \cap (S \ {x}))
    OBVIOUS
  <2> QED BY <1>4, <2>1
<1>7. g[S] = m[x].size + g[S \ {x}]
  BY <1>5 DEF AnyFirst
<1> QED BY <1>2, <1>3, <1>6, <1>7
============================================================================
