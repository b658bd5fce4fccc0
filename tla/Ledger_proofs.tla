--------------------------- MODULE Ledger_proofs ----------------------------
(***************************************************************************)
(* What a posted journal does to the ledger, for every component that      *)
(* posts one.                                                              *)
(*                                                                         *)
(* First facts about SumFunctionOnSet, the community operator every        *)
(* accounting definition adds up with.  The library defines it by          *)
(* recursion over an arbitrary choice of element; the lemmas free it from  *)
(* that choice, so the accounting proofs only ever use "take one index out *)
(* of the sum".                                                            *)
(***************************************************************************)
EXTENDS Ledger, FiniteSetTheorems, WellFoundedInduction, TLAPS

(* g tabulates the sums of f over every subset of S, whatever the order    *)
(* the elements are taken in.                                              *)
IsSumTable(g, f, S) ==
  /\ g \in [SUBSET S -> Int]
  /\ g[{}] = 0
  /\ \A s \in SUBSET S : \A x \in s : g[s] = f[x] + g[s \ {x}]

(* The equation the library's fold picks its table by.                     *)
IsFoldTable(g, f, S) ==
  g = [s \in SUBSET S |->
        IF s = {} THEN 0
        ELSE f[CHOOSE x \in s : TRUE] + g[s \ {CHOOSE x \in s : TRUE}]]

-----------------------------------------------------------------------------
(* The library's sum is the entry for S of a table chosen by the fold      *)
(* equation: the definition, unfolded.                                     *)
LEMMA SumUnfolded ==
  ASSUME NEW f, NEW S
  PROVE  SumFunctionOnSet(f, S) = (CHOOSE g : IsFoldTable(g, f, S))[S]
BY DEF SumFunctionOnSet, FoldFunctionOnSet, MapThenFoldSet, IsFoldTable

(* Induction over the subsets of a finite set, in the form the provers can *)
(* use: a set of subsets that is not empty has a minimal member.           *)
LEMMA MinimalSubset ==
  ASSUME NEW S, IsFiniteSet(S), NEW C \in SUBSET SUBSET S, C # {}
  PROVE  \E T \in C : \A U \in C : ~(U \subseteq T /\ U # T)
<1>1. IsWellFoundedOn(StrictSubsetOrdering(S), FiniteSubsetsOf(S))
  BY FS_StrictSubsetOrderingWellFounded
<1>2. C \subseteq FiniteSubsetsOf(S)
  BY FS_Subset DEF FiniteSubsetsOf
<1>3. PICK T \in C : \A U \in C : <<U, T>> \notin StrictSubsetOrdering(S)
  <2> HIDE DEF StrictSubsetOrdering, FiniteSubsetsOf
  <2> QED BY <1>1, <1>2, WFMin
<1>4. ASSUME NEW U \in C, U \subseteq T, U # T
      PROVE  <<U, T>> \in StrictSubsetOrdering(S)
  BY <1>4 DEF StrictSubsetOrdering
<1>5. \A U \in C : ~(U \subseteq T /\ U # T)
  <2> HIDE DEF StrictSubsetOrdering
  <2> QED BY <1>3, <1>4
<1> QED BY <1>5

(* A finite set of integer-valued indices has a table of sums.             *)
LEMMA SumTableExists ==
  ASSUME NEW S, IsFiniteSet(S), NEW f, \A x \in S : f[x] \in Int
  PROVE  \E g : IsSumTable(g, f, S)
<1> DEFINE C == {T \in SUBSET S : ~ \E g : IsSumTable(g, f, T)}
<1> SUFFICES ASSUME C # {} PROVE FALSE
  OBVIOUS
<1>1. PICK T \in C : \A U \in C : ~(U \subseteq T /\ U # T)
  <2>1. C \in SUBSET SUBSET S
    OBVIOUS
  <2> HIDE DEF C
  <2> QED BY <2>1, MinimalSubset
<1>2. T # {}
  <2>1. IsSumTable([s \in SUBSET {} |-> 0], f, {})
    BY DEF IsSumTable
  <2> QED BY <2>1
<1>3. PICK a \in T : TRUE
  BY <1>2
<1> DEFINE U == T \ {a}
<1>4. PICK h : IsSumTable(h, f, U)
  <2>1. U \in SUBSET S /\ U \notin C
    BY <1>1, <1>3
  <2> QED BY <2>1
<1> DEFINE g == [s \in SUBSET T |-> IF a \in s THEN f[a] + h[s \ {a}] ELSE h[s]]
<1>5. IsSumTable(g, f, T)
  <2>1. \A s \in SUBSET T : s \ {a} \in SUBSET U
    OBVIOUS
  <2>2. \A s \in SUBSET T : a \notin s => s \in SUBSET U
    OBVIOUS
  <2>3. h \in [SUBSET U -> Int] /\ f[a] \in Int
    BY <1>3, <1>4 DEF IsSumTable
  <2>4. g \in [SUBSET T -> Int]
    BY <2>1, <2>2, <2>3
  <2>5. g[{}] = 0
    BY <1>4 DEF IsSumTable
  <2>6. ASSUME NEW s \in SUBSET T, NEW x \in s
        PROVE  g[s] = f[x] + g[s \ {x}]
    <3>1. CASE x = a
      <4>1. s \ {a} \in SUBSET T /\ a \notin s \ {a}
        OBVIOUS
      <4> QED BY <3>1, <4>1
    <3>2. CASE x # a /\ a \in s
      <4>1. /\ s \ {a} \in SUBSET U
            /\ x \in s \ {a}
            /\ (s \ {x}) \ {a} = (s \ {a}) \ {x}
            /\ s \ {x} \in SUBSET T
            /\ a \in s \ {x}
        BY <3>2
      <4>2. h[s \ {a}] = f[x] + h[(s \ {a}) \ {x}]
        BY <1>4, <4>1 DEF IsSumTable
      <4>3. g[s] = f[a] + h[s \ {a}] /\ g[s \ {x}] = f[a] + h[(s \ {a}) \ {x}]
        BY <3>2, <4>1
      <4>4. f[x] \in Int /\ h[(s \ {a}) \ {x}] \in Int
        <5>1. (s \ {a}) \ {x} \in SUBSET U
          OBVIOUS
        <5> QED BY <2>3, <5>1
      <4> HIDE DEF g
      <4> QED BY <2>3, <4>2, <4>3, <4>4
    <3>3. CASE x # a /\ a \notin s
      <4>1. s \in SUBSET U /\ s \ {x} \in SUBSET T /\ a \notin s \ {x}
        BY <3>3
      <4>2. h[s] = f[x] + h[s \ {x}]
        BY <1>4, <4>1 DEF IsSumTable
      <4> QED BY <3>3, <4>1, <4>2
    <3> QED BY <3>1, <3>2, <3>3
  <2> HIDE DEF g
  <2> QED BY <2>4, <2>5, <2>6 DEF IsSumTable
<1> QED BY <1>5

(* The library's sum is the entry for S of any table of sums.              *)
LEMMA SumIsTable ==
  ASSUME NEW S, IsFiniteSet(S), NEW f, NEW g, IsSumTable(g, f, S)
  PROVE  SumFunctionOnSet(f, S) = g[S]
<1>1. IsFoldTable(g, f, S)
  <2>1. \A s \in SUBSET S : s # {} => (CHOOSE x \in s : TRUE) \in s
    OBVIOUS
  <2>2. \A s \in SUBSET S :
          g[s] = IF s = {} THEN 0
                 ELSE f[CHOOSE x \in s : TRUE] + g[s \ {CHOOSE x \in s : TRUE}]
    BY <2>1 DEF IsSumTable
  <2>3. g = [s \in SUBSET S |-> g[s]]
    BY DEF IsSumTable
  <2> QED BY <2>2, <2>3 DEF IsFoldTable
<1> DEFINE h == CHOOSE k : IsFoldTable(k, f, S)
<1>2. IsFoldTable(h, f, S)
  BY <1>1
<1> HIDE DEF h
<1>3. \A s \in SUBSET S : h[s] = g[s]
  <2> DEFINE C == {s \in SUBSET S : h[s] # g[s]}
  <2> SUFFICES ASSUME C # {} PROVE FALSE
    OBVIOUS
  <2>1. PICK T \in C : \A U \in C : ~(U \subseteq T /\ U # T)
    <3>1. C \in SUBSET SUBSET S
      OBVIOUS
    <3> HIDE DEF C
    <3> QED BY <3>1, MinimalSubset
  <2>2. CASE T = {}
    BY <1>1, <1>2, <2>1, <2>2 DEF IsFoldTable
  <2>3. CASE T # {}
    <3> DEFINE a == CHOOSE x \in T : TRUE
    <3>1. a \in T
      BY <2>3
    <3>2. T \ {a} \in SUBSET S /\ h[T \ {a}] = g[T \ {a}]
      BY <2>1, <3>1
    <3>3. h[T] = f[a] + h[T \ {a}]
      BY <1>2, <2>1, <2>3 DEF IsFoldTable
    <3>4. g[T] = f[a] + g[T \ {a}]
      BY <1>1, <2>1, <2>3 DEF IsFoldTable
    <3> QED BY <2>1, <3>2, <3>3, <3>4
  <2> QED BY <2>2, <2>3
<1> QED BY <1>3, SumUnfolded DEF h

(* A table of sums for S is one for every subset, and for every function   *)
(* with the same values there.                                             *)
LEMMA SumTableRestrict ==
  ASSUME NEW S, NEW T \in SUBSET S, NEW f, NEW e, NEW g,
         IsSumTable(g, f, S), \A x \in T : e[x] = f[x]
  PROVE  IsSumTable([s \in SUBSET T |-> g[s]], e, T)
<1>1. \A s \in SUBSET T : s \in SUBSET S /\ \A x \in s : s \ {x} \in SUBSET T
  OBVIOUS
<1> QED BY <1>1 DEF IsSumTable

-----------------------------------------------------------------------------
(* The facts the accounting proofs cite.                                   *)

(* A sum of integers is an integer.                                        *)
LEMMA SumInt ==
  ASSUME NEW S, IsFiniteSet(S), NEW f, \A x \in S : f[x] \in Int
  PROVE  SumFunctionOnSet(f, S) \in Int
<1>1. PICK g : IsSumTable(g, f, S)
  BY SumTableExists
<1>2. SumFunctionOnSet(f, S) = g[S]
  BY <1>1, SumIsTable
<1> QED BY <1>1, <1>2 DEF IsSumTable

(* Nothing adds up to zero.                                                *)
LEMMA SumEmpty ==
  ASSUME NEW f
  PROVE  SumFunctionOnSet(f, {}) = 0
<1>1. PICK g : IsSumTable(g, f, {})
  BY SumTableExists, FS_EmptySet
<1>2. SumFunctionOnSet(f, {}) = g[{}]
  BY <1>1, SumIsTable, FS_EmptySet
<1> QED BY <1>1, <1>2 DEF IsSumTable

(* Any index can be taken out of a sum first.                              *)
LEMMA SumTakeOut ==
  ASSUME NEW S, IsFiniteSet(S), NEW f, \A x \in S : f[x] \in Int, NEW x \in S
  PROVE  SumFunctionOnSet(f, S) = f[x] + SumFunctionOnSet(f, S \ {x})
<1>1. PICK g : IsSumTable(g, f, S)
  BY SumTableExists
<1>2. SumFunctionOnSet(f, S) = g[S]
  BY <1>1, SumIsTable
<1>3. IsFiniteSet(S \ {x})
  BY FS_RemoveElement
<1> DEFINE h == [s \in SUBSET (S \ {x}) |-> g[s]]
<1>4. IsSumTable(h, f, S \ {x})
  BY <1>1, SumTableRestrict
<1>5. SumFunctionOnSet(f, S \ {x}) = h[S \ {x}]
  <2> HIDE DEF h
  <2> QED BY <1>3, <1>4, SumIsTable
<1>6. g[S] = f[x] + g[S \ {x}]
  BY <1>1 DEF IsSumTable
<1> QED BY <1>2, <1>5, <1>6

(* A sum depends on the values at its indices only.                        *)
LEMMA SumSame ==
  ASSUME NEW S, IsFiniteSet(S), NEW f, NEW e, \A x \in S : f[x] \in Int,
         \A x \in S : e[x] = f[x]
  PROVE  SumFunctionOnSet(e, S) = SumFunctionOnSet(f, S)
<1>1. PICK g : IsSumTable(g, f, S)
  BY SumTableExists
<1>2. IsSumTable([s \in SUBSET S |-> g[s]], e, S)
  BY <1>1, SumTableRestrict
<1>3. g = [s \in SUBSET S |-> g[s]]
  BY <1>1 DEF IsSumTable
<1>4. IsSumTable(g, e, S)
  BY <1>2, <1>3
<1>5. SumFunctionOnSet(f, S) = g[S]
  BY <1>1, SumIsTable
<1>6. SumFunctionOnSet(e, S) = g[S]
  BY <1>4, SumIsTable
<1> QED BY <1>5, <1>6

(* Changing the value at one index changes the sum by as much.             *)
LEMMA SumChangeOne ==
  ASSUME NEW S, IsFiniteSet(S), NEW f, NEW e,
         \A y \in S : f[y] \in Int, \A y \in S : e[y] \in Int,
         NEW x \in S, \A y \in S \ {x} : e[y] = f[y]
  PROVE  SumFunctionOnSet(e, S) = SumFunctionOnSet(f, S) + (e[x] - f[x])
<1>1. IsFiniteSet(S \ {x})
  BY FS_RemoveElement
<1>2. SumFunctionOnSet(e, S \ {x}) = SumFunctionOnSet(f, S \ {x})
  BY <1>1, SumSame
<1>3. SumFunctionOnSet(f, S \ {x}) \in Int
  BY <1>1, SumInt
<1>4. SumFunctionOnSet(f, S) = f[x] + SumFunctionOnSet(f, S \ {x})
  BY SumTakeOut
<1>5. SumFunctionOnSet(e, S) = e[x] + SumFunctionOnSet(e, S \ {x})
  BY SumTakeOut
<1> QED BY <1>2, <1>3, <1>4, <1>5

(* Sums add up index by index.                                             *)
LEMMA SumPlus ==
  ASSUME NEW S, IsFiniteSet(S), NEW f, NEW e, NEW d,
         \A x \in S : f[x] \in Int, \A x \in S : e[x] \in Int,
         \A x \in S : d[x] = f[x] + e[x]
  PROVE  SumFunctionOnSet(d, S) = SumFunctionOnSet(f, S) + SumFunctionOnSet(e, S)
<1>1. PICK g : IsSumTable(g, f, S)
  BY SumTableExists
<1>2. PICK h : IsSumTable(h, e, S)
  BY SumTableExists
<1> DEFINE k == [s \in SUBSET S |-> g[s] + h[s]]
<1>3. IsSumTable(k, d, S)
  <2>1. k \in [SUBSET S -> Int] /\ k[{}] = 0
    BY <1>1, <1>2 DEF IsSumTable
  <2>2. ASSUME NEW s \in SUBSET S, NEW x \in s
        PROVE  k[s] = d[x] + k[s \ {x}]
    <3>1. s \ {x} \in SUBSET S /\ x \in S
      OBVIOUS
    <3>2. g[s] = f[x] + g[s \ {x}] /\ h[s] = e[x] + h[s \ {x}]
      BY <1>1, <1>2 DEF IsSumTable
    <3>3. g[s \ {x}] \in Int /\ h[s \ {x}] \in Int
      BY <1>1, <1>2, <3>1 DEF IsSumTable
    <3>4. k[s] = g[s] + h[s] /\ k[s \ {x}] = g[s \ {x}] + h[s \ {x}]
      BY <3>1
    <3>5. f[x] \in Int /\ e[x] \in Int /\ d[x] = f[x] + e[x]
      BY <3>1
    <3> HIDE DEF k
    <3> QED BY <3>2, <3>3, <3>4, <3>5
  <2> HIDE DEF k
  <2> QED BY <2>1, <2>2 DEF IsSumTable
<1>4. SumFunctionOnSet(d, S) = k[S]
  <2> HIDE DEF k
  <2> QED BY <1>3, SumIsTable
<1>5. SumFunctionOnSet(f, S) = g[S] /\ SumFunctionOnSet(e, S) = h[S]
  BY <1>1, <1>2, SumIsTable
<1> QED BY <1>4, <1>5

(* Indices whose value is zero can be left out of a sum.                   *)
LEMMA SumSupport ==
  ASSUME NEW S, IsFiniteSet(S), NEW T \in SUBSET S, NEW f,
         \A x \in S : f[x] \in Int, \A x \in S \ T : f[x] = 0
  PROVE  SumFunctionOnSet(f, S) = SumFunctionOnSet(f, T)
<1>1. IsFiniteSet(T)
  BY FS_Subset
<1>2. PICK g : IsSumTable(g, f, T)
  BY <1>1, SumTableExists
<1> DEFINE h == [s \in SUBSET S |-> g[s \cap T]]
<1>3. IsSumTable(h, f, S)
  <2>1. h \in [SUBSET S -> Int]
    BY <1>2 DEF IsSumTable
  <2>2. h[{}] = 0
    <3>1. {} \cap T = {}
      OBVIOUS
    <3> QED BY <1>2, <3>1 DEF IsSumTable
  <2>3. ASSUME NEW s \in SUBSET S, NEW x \in s
        PROVE  h[s] = f[x] + h[s \ {x}]
    <3>1. h[s] = g[s \cap T] /\ h[s \ {x}] = g[(s \ {x}) \cap T] /\ g[s \cap T] \in Int
      <4>1. s \cap T \in SUBSET T /\ s \ {x} \in SUBSET S
        OBVIOUS
      <4> QED BY <1>2, <4>1 DEF IsSumTable
    <3>2. CASE x \in T
      <4>1. (s \ {x}) \cap T = (s \cap T) \ {x} /\ x \in s \cap T
        BY <3>2
      <4>2. g[s \cap T] = f[x] + g[(s \cap T) \ {x}]
        BY <1>2, <4>1 DEF IsSumTable
      <4> HIDE DEF h
      <4> QED BY <3>1, <4>1, <4>2
    <3>3. CASE x \notin T
      <4>1. (s \ {x}) \cap T = s \cap T
        BY <3>3
      <4>2. f[x] = 0
        BY <3>3
      <4> HIDE DEF h
      <4>3. h[s \ {x}] = h[s] /\ h[s] \in Int
        BY <3>1, <4>1
      <4> QED BY <4>2, <4>3
    <3> QED BY <3>2, <3>3
  <2> HIDE DEF h
  <2> QED BY <2>1, <2>2, <2>3 DEF IsSumTable
<1>4. SumFunctionOnSet(f, S) = h[S]
  <2> HIDE DEF h
  <2> QED BY <1>3, SumIsTable
<1>5. SumFunctionOnSet(f, T) = g[T]
  BY <1>1, <1>2, SumIsTable
<1>6. S \cap T = T
  OBVIOUS
<1> QED BY <1>4, <1>5, <1>6

(* A sum of zeros is zero.                                                 *)
LEMMA SumOfZeros ==
  ASSUME NEW S, IsFiniteSet(S), NEW f, \A x \in S : f[x] = 0
  PROVE  SumFunctionOnSet(f, S) = 0
<1> DEFINE g == [s \in SUBSET S |-> 0]
<1>1. IsSumTable(g, f, S)
  BY DEF IsSumTable
<1>2. SumFunctionOnSet(f, S) = g[S]
  <2> HIDE DEF g
  <2> QED BY <1>1, SumIsTable
<1> QED BY <1>2

(* No index of a sum of naturals exceeds the sum.                          *)
LEMMA SumBounds ==
  ASSUME NEW S, IsFiniteSet(S), NEW f, \A x \in S : f[x] \in Nat
  PROVE  /\ SumFunctionOnSet(f, S) \in Nat
         /\ \A x \in S : f[x] <= SumFunctionOnSet(f, S)
<1>1. PICK g : IsSumTable(g, f, S)
  BY SumTableExists
<1>2. \A s \in SUBSET S : g[s] \in Nat
  <2> DEFINE C == {s \in SUBSET S : g[s] \notin Nat}
  <2> SUFFICES ASSUME C # {} PROVE FALSE
    OBVIOUS
  <2>1. PICK T \in C : \A U \in C : ~(U \subseteq T /\ U # T)
    <3>1. C \in SUBSET SUBSET S
      OBVIOUS
    <3> HIDE DEF C
    <3> QED BY <3>1, MinimalSubset
  <2>2. T # {}
    <3>1. g[{}] = 0
      BY <1>1 DEF IsSumTable
    <3>2. g[T] \notin Nat
      BY <2>1
    <3>3. g[{}] \in Nat
      BY <3>1
    <3> QED BY <3>2, <3>3
  <2>3. PICK a \in T : TRUE
    BY <2>2
  <2>4. T \ {a} \in SUBSET S /\ g[T \ {a}] \in Nat
    BY <2>1, <2>3
  <2>5. g[T] = f[a] + g[T \ {a}]
    BY <1>1, <2>1, <2>3 DEF IsSumTable
  <2>6. f[a] \in Nat
    BY <2>1, <2>3
  <2> QED BY <2>1, <2>4, <2>5, <2>6
<1>3. \A x \in S : g[S] = f[x] + g[S \ {x}] /\ g[S \ {x}] \in Nat
  BY <1>1, <1>2 DEF IsSumTable
<1>4. SumFunctionOnSet(f, S) = g[S]
  BY <1>1, SumIsTable
<1>5. g[S] \in Nat
  BY <1>2
<1>6. ASSUME NEW x \in S PROVE f[x] <= g[S]
  <2>1. f[x] \in Nat /\ g[S \ {x}] \in Nat /\ g[S] = f[x] + g[S \ {x}]
    BY <1>3
  <2> QED BY <2>1, <1>5
<1> QED BY <1>4, <1>5, <1>6

(* Indices that each find one of their own that is worth at least as much  *)
(* add up to no more.                                                      *)
LEMMA SumInto ==
  ASSUME NEW S, IsFiniteSet(S), NEW T, IsFiniteSet(T), NEW f, NEW g, NEW h,
         \A x \in S : f[x] \in Nat, \A y \in T : g[y] \in Nat,
         \A x \in S : f[x] # 0 => h[x] \in T /\ f[x] <= g[h[x]],
         \A x, y \in S : f[x] # 0 /\ f[y] # 0 /\ h[x] = h[y] => x = y
  PROVE  SumFunctionOnSet(f, S) <= SumFunctionOnSet(g, T)
<1> DEFINE Room(U, V) == \A x \in U : f[x] # 0 => h[x] \in V
           Fits(U, V) == SumFunctionOnSet(f, U) <= SumFunctionOnSet(g, V)
           C == {U \in SUBSET S : \E V \in SUBSET T : Room(U, V) /\ ~Fits(U, V)}
<1>1. ASSUME C # {} PROVE FALSE
  <2>1. PICK U \in C : \A W \in C : ~(W \subseteq U /\ W # U)
    <3>1. C \in SUBSET SUBSET S
      OBVIOUS
    <3> HIDE DEF C
    <3> QED BY <1>1, <3>1, MinimalSubset
  <2>2. PICK V \in SUBSET T : Room(U, V) /\ ~Fits(U, V)
    BY <2>1
  <2>3. IsFiniteSet(U) /\ IsFiniteSet(V)
    BY <2>1, <2>2, FS_Subset
  <2>4. SumFunctionOnSet(g, V) \in Nat
    <3>1. \A y \in V : g[y] \in Nat
      BY <2>2
    <3> QED BY <2>3, <3>1, SumBounds
  <2>5. CASE U = {}
    <3>1. SumFunctionOnSet(f, U) = 0
      BY <2>5, SumEmpty
    <3> QED BY <2>2, <2>4, <3>1
  <2>6. CASE U # {}
    <3>1. PICK x \in U : TRUE
      BY <2>6
    <3>2. SumFunctionOnSet(f, U) = f[x] + SumFunctionOnSet(f, U \ {x})
      <4>1. \A y \in U : f[y] \in Int
        BY <2>1
      <4> QED BY <2>3, <3>1, <4>1, SumTakeOut
    <3>3. SumFunctionOnSet(f, U \ {x}) \in Nat /\ f[x] \in Nat
      <4>1. IsFiniteSet(U \ {x}) /\ \A y \in U \ {x} : f[y] \in Nat
        BY <2>1, <2>3, FS_Subset
      <4> QED BY <2>1, <3>1, <4>1, SumBounds
    <3>4. \A W \in SUBSET T : Room(U \ {x}, W) => Fits(U \ {x}, W)
      <4>1. U \ {x} \notin C /\ U \ {x} \in SUBSET S
        BY <2>1, <3>1
      <4> QED BY <4>1
    <3>5. CASE f[x] = 0
      <4>1. Room(U \ {x}, V)
        BY <2>2
      <4>2. Fits(U \ {x}, V)
        BY <2>2, <3>4, <4>1
      <4> QED BY <2>2, <3>2, <3>3, <3>5, <4>2
    <3>6. CASE f[x] # 0
      <4>1. h[x] \in V /\ f[x] <= g[h[x]] /\ x \in S
        BY <2>1, <2>2, <3>1, <3>6
      <4>2. Room(U \ {x}, V \ {h[x]})
        BY <2>1, <2>2, <3>1, <3>6
      <4>3. SumFunctionOnSet(g, V) = g[h[x]] + SumFunctionOnSet(g, V \ {h[x]})
        <5>1. \A y \in V : g[y] \in Int
          BY <2>2
        <5> QED BY <2>3, <4>1, <5>1, SumTakeOut
      <4>4. SumFunctionOnSet(g, V \ {h[x]}) \in Nat /\ g[h[x]] \in Nat
        <5>1. IsFiniteSet(V \ {h[x]}) /\ \A y \in V \ {h[x]} : g[y] \in Nat
          BY <2>2, <2>3, FS_Subset
        <5> QED BY <2>2, <4>1, <5>1, SumBounds
      <4>5. Fits(U \ {x}, V \ {h[x]})
        BY <2>2, <3>4, <4>2
      <4> QED BY <2>2, <3>2, <3>3, <4>1, <4>3, <4>4, <4>5
    <3> QED BY <3>5, <3>6
  <2> QED BY <2>5, <2>6
<1>2. S \in SUBSET S /\ T \in SUBSET T /\ Room(S, T)
  OBVIOUS
<1> QED BY <1>1, <1>2

(* A sum over a set is what its two parts add up to.                       *)
LEMMA SumParts ==
  ASSUME NEW S, IsFiniteSet(S), NEW T \in SUBSET S, NEW f, \A x \in S : f[x] \in Int
  PROVE  SumFunctionOnSet(f, S) = SumFunctionOnSet(f, T) + SumFunctionOnSet(f, S \ T)
<1> DEFINE g == [x \in S |-> IF x \in T THEN f[x] ELSE 0]
           h == [x \in S |-> IF x \in T THEN 0 ELSE f[x]]
           R == S \ T
<1>1. R \in SUBSET S /\ IsFiniteSet(T) /\ IsFiniteSet(R)
  BY FS_Subset
<1>2. \A x \in S : g[x] \in Int /\ h[x] \in Int /\ f[x] = g[x] + h[x]
  OBVIOUS
<1>3. /\ \A x \in S \ T : g[x] = 0
      /\ \A x \in S \ R : h[x] = 0
      /\ \A x \in T : g[x] = f[x] /\ f[x] \in Int
      /\ \A x \in R : h[x] = f[x] /\ f[x] \in Int
  OBVIOUS
<1> HIDE DEF g, h, R
<1>4. SumFunctionOnSet(f, S) = SumFunctionOnSet(g, S) + SumFunctionOnSet(h, S)
  BY <1>2, SumPlus
<1>5. SumFunctionOnSet(g, S) = SumFunctionOnSet(g, T) /\ SumFunctionOnSet(h, S) = SumFunctionOnSet(h, R)
  BY <1>1, <1>2, <1>3, SumSupport
<1>6. SumFunctionOnSet(g, T) = SumFunctionOnSet(f, T) /\ SumFunctionOnSet(h, R) = SumFunctionOnSet(f, R)
  BY <1>1, <1>3, SumSame
<1> QED BY <1>4, <1>5, <1>6 DEF R

(* The members of R are the names of those of S, each of one.              *)
AreNames(name, R, S) ==
  /\ R = {name[x] : x \in S}
  /\ \A x, y \in S : name[x] = name[y] => x = y

(* A sum over names of indices is the sum over the indices.                *)
LEMMA SumRenamed ==
  ASSUME NEW S, IsFiniteSet(S), NEW name, NEW R, AreNames(name, R, S),
         NEW f, NEW e, \A x \in S : e[x] \in Int /\ f[name[x]] = e[x]
  PROVE  SumFunctionOnSet(f, R) = SumFunctionOnSet(e, S)
<1> USE DEF AreNames
<1>1. PICK g : IsSumTable(g, e, S)
  BY SumTableExists
<1>2. IsFiniteSet(R)
  <2> DEFINE n == [x \in S |-> name[x]]
  <2>1. n \in Surjection(S, R)
    BY DEF Surjection
  <2> HIDE DEF n
  <2> QED BY <2>1, FS_Surjection
<1> DEFINE Named(V) == {x \in S : name[x] \in V}
           h == [V \in SUBSET R |-> g[Named(V)]]
<1>3. IsSumTable(h, f, R)
  <2>1. h \in [SUBSET R -> Int]
    BY <1>1 DEF IsSumTable
  <2>2. h[{}] = 0
    <3>1. Named({}) = {}
      OBVIOUS
    <3> QED BY <1>1, <3>1 DEF IsSumTable
  <2>3. ASSUME NEW V \in SUBSET R, NEW y \in V
        PROVE  h[V] = f[y] + h[V \ {y}]
    <3>1. PICK x \in S : y = name[x]
      OBVIOUS
    <3>2. Named(V \ {y}) = Named(V) \ {x} /\ x \in Named(V) /\ Named(V) \in SUBSET S
      BY <3>1
    <3>3. g[Named(V)] = e[x] + g[Named(V) \ {x}]
      <4> HIDE DEF Named
      <4> QED BY <1>1, <3>2 DEF IsSumTable
    <3>4. h[V] = g[Named(V)] /\ h[V \ {y}] = g[Named(V \ {y})]
      OBVIOUS
    <3> HIDE DEF h, Named
    <3> QED BY <3>1, <3>2, <3>3, <3>4
  <2> HIDE DEF h
  <2> QED BY <2>1, <2>2, <2>3 DEF IsSumTable
<1>4. SumFunctionOnSet(f, R) = h[R]
  <2> HIDE DEF h
  <2> QED BY <1>2, <1>3, SumIsTable
<1>5. Named(R) = S
  OBVIOUS
<1>6. SumFunctionOnSet(e, S) = g[S]
  BY <1>1, SumIsTable
<1> QED BY <1>4, <1>5, <1>6

(* A table by its rows and by its columns, and the sums of either.         *)
IsTable(row, column, S, T) ==
  \A s \in S, t \in T : row[s][t] \in Int /\ column[t][s] = row[s][t]
AreSums(sums, row, S, T) == \A s \in S : sums[s] = SumFunctionOnSet(row[s], T)

(* A table adds up to the same by rows and by columns.                     *)
LEMMA SumByColumns ==
  ASSUME NEW S, IsFiniteSet(S), NEW T, IsFiniteSet(T),
         NEW row, NEW column, IsTable(row, column, S, T),
         NEW rows, AreSums(rows, row, S, T),
         NEW columns, AreSums(columns, column, T, S)
  PROVE  SumFunctionOnSet(rows, S) = SumFunctionOnSet(columns, T)
<1> USE DEF IsTable, AreSums
<1> DEFINE over(U) == [t \in T |-> SumFunctionOnSet(column[t], U)]
           h == [U \in SUBSET S |-> SumFunctionOnSet(over(U), T)]
<1>1. ASSUME NEW U \in SUBSET S PROVE \A t \in T : over(U)[t] \in Int
  <2>1. IsFiniteSet(U)
    BY FS_Subset
  <2> QED BY <2>1, SumInt
<1>2. h \in [SUBSET S -> Int]
  <2> HIDE DEF over
  <2> QED BY <1>1, SumInt
<1>3. h[{}] = 0
  <2>1. \A t \in T : over({})[t] = 0
    BY SumEmpty
  <2> HIDE DEF over
  <2>2. SumFunctionOnSet(over({}), T) = 0
    BY <2>1, SumOfZeros
  <2> QED BY <2>2
<1>4. ASSUME NEW U \in SUBSET S, NEW s \in U
      PROVE  h[U] = rows[s] + h[U \ {s}]
  <2>1. U \ {s} \in SUBSET S /\ IsFiniteSet(U) /\ s \in S
    BY FS_Subset
  <2>2. \A t \in T : over(U)[t] = row[s][t] + over(U \ {s})[t]
    <3> SUFFICES ASSUME NEW t \in T
                 PROVE  SumFunctionOnSet(column[t], U)
                          = row[s][t] + SumFunctionOnSet(column[t], U \ {s})
      OBVIOUS
    <3>1. (\A x \in U : column[t][x] \in Int) /\ column[t][s] = row[s][t]
      BY <2>1
    <3> QED BY <2>1, <3>1, SumTakeOut
  <2>3. \A t \in T : row[s][t] \in Int /\ over(U \ {s})[t] \in Int
    BY <1>1, <2>1
  <2> HIDE DEF over
  <2>4. SumFunctionOnSet(over(U), T)
          = SumFunctionOnSet(row[s], T) + SumFunctionOnSet(over(U \ {s}), T)
    <3> DEFINE d == over(U)
               f == row[s]
               e == over(U \ {s})
    <3>1. \A t \in T : f[t] \in Int /\ e[t] \in Int /\ d[t] = f[t] + e[t]
      BY <2>2, <2>3
    <3> HIDE DEF d, f, e
    <3>2. SumFunctionOnSet(d, T) = SumFunctionOnSet(f, T) + SumFunctionOnSet(e, T)
      BY <3>1, SumPlus
    <3> QED BY <3>2 DEF d, f, e
  <2> QED BY <2>1, <2>4
<1>5. IsSumTable(h, rows, S)
  <2> HIDE DEF h
  <2> QED BY <1>2, <1>3, <1>4 DEF IsSumTable
<1>6. SumFunctionOnSet(rows, S) = h[S]
  <2> HIDE DEF h
  <2> QED BY <1>5, SumIsTable
<1>7. h[S] = SumFunctionOnSet(over(S), T)
  OBVIOUS
<1>8. SumFunctionOnSet(columns, T) = SumFunctionOnSet(over(S), T)
  <2>1. \A t \in T : over(S)[t] \in Int /\ columns[t] = over(S)[t]
    BY <1>1
  <2> HIDE DEF over
  <2> QED BY <2>1, SumSame
<1> QED BY <1>6, <1>7, <1>8

(* A multiple of each index makes the same multiple of the sum.            *)
LEMMA SumTimes ==
  ASSUME NEW S, IsFiniteSet(S), NEW f, NEW e, NEW c \in Int,
         \A x \in S : f[x] \in Int, \A x \in S : e[x] = c * f[x]
  PROVE  SumFunctionOnSet(e, S) = c * SumFunctionOnSet(f, S)
<1>1. PICK g : IsSumTable(g, f, S)
  BY SumTableExists
<1> DEFINE h == [s \in SUBSET S |-> c * g[s]]
<1>2. IsSumTable(h, e, S)
  <2>1. h \in [SUBSET S -> Int] /\ h[{}] = 0
    BY <1>1 DEF IsSumTable
  <2>2. ASSUME NEW s \in SUBSET S, NEW x \in s
        PROVE  h[s] = e[x] + h[s \ {x}]
    <3>1. s \ {x} \in SUBSET S /\ x \in S
      OBVIOUS
    <3>2. g[s] = f[x] + g[s \ {x}] /\ g[s \ {x}] \in Int /\ f[x] \in Int
      BY <1>1, <3>1 DEF IsSumTable
    <3>3. h[s] = c * g[s] /\ h[s \ {x}] = c * g[s \ {x}] /\ e[x] = c * f[x]
      BY <3>1
    <3>4. \A i, j \in Int : c * (i + j) = c * i + c * j
      OBVIOUS
    <3> HIDE DEF h
    <3> QED BY <3>2, <3>3, <3>4
  <2> HIDE DEF h
  <2> QED BY <2>1, <2>2 DEF IsSumTable
<1>3. SumFunctionOnSet(e, S) = h[S]
  <2> HIDE DEF h
  <2> QED BY <1>2, SumIsTable
<1>4. SumFunctionOnSet(f, S) = g[S]
  BY <1>1, SumIsTable
<1> QED BY <1>3, <1>4

(* Ones for the members of a part and zeros elsewhere count the part.      *)
LEMMA SumCounts ==
  ASSUME NEW S, IsFiniteSet(S), NEW T \in SUBSET S, NEW f,
         \A x \in S : f[x] = IF x \in T THEN 1 ELSE 0
  PROVE  SumFunctionOnSet(f, S) = Cardinality(T)
<1> DEFINE g == [s \in SUBSET S |-> Cardinality(s \cap T)]
<1>1. ASSUME NEW s \in SUBSET S PROVE IsFiniteSet(s \cap T) /\ Cardinality(s \cap T) \in Nat
  <2>1. IsFiniteSet(s \cap T)
    BY FS_Subset
  <2> QED BY <2>1, FS_CardinalityType
<1>2. IsSumTable(g, f, S)
  <2>1. g \in [SUBSET S -> Int]
    BY <1>1
  <2>2. g[{}] = 0
    <3>1. {} \cap T = {}
      OBVIOUS
    <3> QED BY <3>1, FS_EmptySet
  <2>3. ASSUME NEW s \in SUBSET S, NEW x \in s
        PROVE  g[s] = f[x] + g[s \ {x}]
    <3>1. g[s] = Cardinality(s \cap T) /\ g[s \ {x}] = Cardinality((s \ {x}) \cap T)
      OBVIOUS
    <3>2. CASE x \in T
      <4>1. (s \ {x}) \cap T = (s \cap T) \ {x} /\ x \in s \cap T
        BY <3>2
      <4>2. Cardinality((s \cap T) \ {x}) = Cardinality(s \cap T) - 1
        BY <1>1, <4>1, FS_RemoveElement
      <4>3. f[x] = 1 /\ Cardinality(s \cap T) \in Nat
        BY <1>1, <3>2
      <4>4. Cardinality((s \ {x}) \cap T) = Cardinality(s \cap T) - 1
        BY ONLY <4>1, <4>2
      <4>5. g[s \ {x}] = g[s] - 1 /\ g[s] \in Nat
        BY ONLY <3>1, <4>3, <4>4
      <4> QED BY ONLY <4>3, <4>5
    <3>3. CASE x \notin T
      <4>1. (s \ {x}) \cap T = s \cap T
        BY <3>3
      <4>2. f[x] = 0 /\ Cardinality(s \cap T) \in Nat
        BY <1>1, <3>3
      <4>3. Cardinality((s \ {x}) \cap T) = Cardinality(s \cap T)
        BY ONLY <4>1
      <4>4. g[s \ {x}] = g[s] /\ g[s] \in Nat
        BY ONLY <3>1, <4>2, <4>3
      <4> QED BY ONLY <4>2, <4>4
    <3> QED BY <3>2, <3>3
  <2> HIDE DEF g
  <2> QED BY <2>1, <2>2, <2>3 DEF IsSumTable
<1>3. SumFunctionOnSet(f, S) = g[S]
  <2> HIDE DEF g
  <2> QED BY <1>2, SumIsTable
<1>4. S \cap T = T
  OBVIOUS
<1> QED BY <1>3, <1>4

(* A sum of small numbers is no more than the largest, as often as there   *)
(* are indices.                                                            *)
LEMMA SumAtMost ==
  ASSUME NEW S, IsFiniteSet(S), NEW f, NEW m \in Nat, \A x \in S : f[x] \in 0..m
  PROVE  SumFunctionOnSet(f, S) \in 0..m * Cardinality(S)
<1> DEFINE one == [x \in S |-> 1]
           most == [x \in S |-> m]
           rest == [x \in S |-> m - f[x]]
<1>1. \A x \in S : f[x] \in Nat /\ rest[x] \in Nat /\ most[x] = f[x] + rest[x]
                   /\ one[x] = 1 /\ most[x] = m * one[x]
  OBVIOUS
<1> HIDE DEF one, most, rest
<1>2. SumFunctionOnSet(most, S) = SumFunctionOnSet(f, S) + SumFunctionOnSet(rest, S)
  BY <1>1, SumPlus
<1>3. SumFunctionOnSet(f, S) \in Nat /\ SumFunctionOnSet(rest, S) \in Nat
  BY <1>1, SumBounds
<1>4. SumFunctionOnSet(most, S) = m * SumFunctionOnSet(one, S)
  BY <1>1, SumTimes
<1>5. SumFunctionOnSet(one, S) = Cardinality(S)
  <2>1. S \in SUBSET S /\ \A x \in S : one[x] = IF x \in S THEN 1 ELSE 0
    BY <1>1
  <2> QED BY <2>1, SumCounts
<1>6. Cardinality(S) \in Nat /\ m * Cardinality(S) \in Nat
  BY FS_CardinalityType
<1> QED BY <1>2, <1>3, <1>4, <1>5, <1>6
-----------------------------------------------------------------------------
(* A mode's chart of accounts is finite and the two charts are disjoint.   *)
LEMMA Charts ==
  /\ \A m \in Modes : IsFiniteSet(ChartOf(m)) /\ ChartOf(m) \subseteq LedgerAccounts
  /\ \A m, n \in Modes : m # n => ChartOf(m) \cap ChartOf(n) = {}
<1>1. ASSUME NEW m \in Modes PROVE IsFiniteSet(ChartOf(m))
  <2> DEFINE A == {Available(<<u, m>>) : u \in Users}
             L == {Locked(<<u, m>>) : u \in Users}
  <2>1. IsFiniteSet(A)
    <3> DEFINE f == [u \in Users |-> Available(<<u, m>>)]
    <3>1. f \in Surjection(Users, A)
      BY DEF Surjection
    <3> HIDE DEF f, A
    <3> QED BY <3>1, FS_Surjection, UsersAssumption
  <2>2. IsFiniteSet(L)
    <3> DEFINE f == [u \in Users |-> Locked(<<u, m>>)]
    <3>1. f \in Surjection(Users, L)
      BY DEF Surjection
    <3> HIDE DEF f, L
    <3> QED BY <3>1, FS_Surjection, UsersAssumption
  <2>3. IsFiniteSet(A \cup L)
    <3> HIDE DEF A, L
    <3> QED BY <2>1, <2>2, FS_Union
  <2>4. ChartOf(m) = (A \cup L) \cup PlatformAccounts(m)
    BY DEF ChartOf
  <2>5. IsFiniteSet(PlatformAccounts(m))
    <3>1. IsFiniteSet({Control(m), Fees(m)})
      <4>1. IsFiniteSet({Control(m)})
        BY FS_Singleton
      <4>2. {Control(m), Fees(m)} = {Control(m)} \cup {Fees(m)}
        OBVIOUS
      <4> QED BY <4>1, <4>2, FS_AddElement
    <3>2. IsFiniteSet({Control(m), Fees(m)} \cup {Pool(m)})
      BY <3>1, FS_AddElement
    <3>3. IsFiniteSet(({Control(m), Fees(m)} \cup {Pool(m)}) \cup {Counterparty(m)})
      BY <3>2, FS_AddElement
    <3>4. PlatformAccounts(m) = ({Control(m), Fees(m)} \cup {Pool(m)}) \cup {Counterparty(m)}
      BY DEF PlatformAccounts
    <3> QED BY <3>3, <3>4
  <2> HIDE DEF A, L
  <2> QED BY <2>3, <2>4, <2>5, FS_Union
<1>2. \A m \in Modes : ChartOf(m) \subseteq LedgerAccounts
  BY DEF LedgerAccounts
<1>3. \A m, n \in Modes : m # n => ChartOf(m) \cap ChartOf(n) = {}
  BY DEF ChartOf, Modes, PlatformAccounts, Available, Locked, Control, Fees, Pool,
         Counterparty
<1> QED BY <1>1, <1>2, <1>3

(* Every customer account's ledger accounts belong to its mode's chart.    *)
LEMMA AccountChart ==
  ASSUME NEW a \in Accounts
  PROVE  /\ ModeOf(a) \in Modes
         /\ Available(a) \in ChartOf(ModeOf(a))
         /\ Locked(a) \in ChartOf(ModeOf(a))
         /\ PlatformAccounts(ModeOf(a)) \subseteq ChartOf(ModeOf(a))
BY DEF Accounts, ChartOf, ModeOf

(* Posting keeps the ledger well typed.                                    *)
LEMMA PostType ==
  ASSUME balance \in [LedgerAccounts -> Int],
         NEW key, NEW journal, \A l \in DOMAIN journal : journal[l] \in Int,
         Post(key, journal)
  PROVE  balance' \in [LedgerAccounts -> Int]
BY DEF Post

(* A journal within one mode's chart keeps both modes conserved: the       *)
(* balanced lines cancel in that chart and none touches the other.         *)
LEMMA PostConserves ==
  ASSUME balance \in [LedgerAccounts -> Int], ModesConserve,
         NEW key, NEW journal, NEW m \in Modes,
         DOMAIN journal \subseteq ChartOf(m),
         \A l \in DOMAIN journal : journal[l] \in Int,
         Post(key, journal)
  PROVE  ModesConserve'
<1> SUFFICES ASSUME NEW n \in Modes
             PROVE  SumFunctionOnSet(balance', ChartOf(n)) = 0
  BY DEF ModesConserve
<1>1. /\ IsFiniteSet(ChartOf(n))
      /\ \A l \in ChartOf(n) : l \in LedgerAccounts
  BY Charts
<1>2. \A l \in ChartOf(n) : balance[l] \in Int
  BY <1>1
<1>3. SumFunctionOnSet(balance, ChartOf(n)) = 0
  BY DEF ModesConserve
<1>4. CASE n = m
  <2> DEFINE lines == [l \in ChartOf(n) |-> IF l \in DOMAIN journal THEN journal[l] ELSE 0]
  <2>1. \A l \in ChartOf(n) : lines[l] \in Int
    OBVIOUS
  <2>2. \A l \in ChartOf(n) : balance'[l] = balance[l] + lines[l]
    BY <1>1, <1>2 DEF Post
  <2>3. SumFunctionOnSet(balance', ChartOf(n))
          = SumFunctionOnSet(balance, ChartOf(n)) + SumFunctionOnSet(lines, ChartOf(n))
    <3> HIDE DEF lines
    <3> QED BY <1>1, <1>2, <2>1, <2>2, SumPlus
  <2>4. DOMAIN journal \in SUBSET ChartOf(n) /\ IsFiniteSet(DOMAIN journal)
    BY <1>1, <1>4, FS_Subset
  <2>5. SumFunctionOnSet(lines, ChartOf(n)) = SumFunctionOnSet(lines, DOMAIN journal)
    <3>1. \A l \in ChartOf(n) \ DOMAIN journal : lines[l] = 0
      OBVIOUS
    <3> HIDE DEF lines
    <3> QED BY <1>1, <2>1, <2>4, <3>1, SumSupport
  <2>6. SumFunctionOnSet(lines, DOMAIN journal) = SumFunctionOnSet(journal, DOMAIN journal)
    <3>1. \A l \in DOMAIN journal : lines[l] = journal[l]
      BY <2>4
    <3> HIDE DEF lines
    <3> QED BY <2>4, <3>1, SumSame
  <2>7. SumFunctionOnSet(journal, DOMAIN journal) = 0
    BY DEF Post, Balanced
  <2> HIDE DEF lines
  <2> QED BY <1>3, <2>3, <2>5, <2>6, <2>7
<1>5. CASE n # m
  <2>1. \A l \in ChartOf(n) : l \notin DOMAIN journal
    BY <1>5, Charts
  <2>2. \A l \in ChartOf(n) : balance'[l] = balance[l]
    BY <1>1, <2>1 DEF Post
  <2>3. SumFunctionOnSet(balance', ChartOf(n)) = SumFunctionOnSet(balance, ChartOf(n))
    BY <1>1, <1>2, <2>2, SumSame
  <2> QED BY <1>3, <2>3
<1> QED BY <1>4, <1>5

(* A journal that gives one account's two ledger accounts what the same    *)
(* transaction gives its wallet keeps every projection reconciled.         *)
LEMMA MoveReconciles ==
  ASSUME LedgerTypeOK, ProjectionsReconcile,
         NEW a \in Accounts, NEW toAvailable \in Int, NEW toLocked \in Int,
         NEW key, NEW journal, \A l \in DOMAIN journal : journal[l] \in Int,
         (IF Available(a) \in DOMAIN journal THEN journal[Available(a)] ELSE 0) = toAvailable,
         (IF Locked(a) \in DOMAIN journal THEN journal[Locked(a)] ELSE 0) = toLocked,
         \A b \in Accounts \ {a} : /\ Available(b) \notin DOMAIN journal
                                   /\ Locked(b) \notin DOMAIN journal,
         Post(key, journal),
         MoveWallet(a, toAvailable, toLocked)
  PROVE  LedgerTypeOK' /\ ProjectionsReconcile'
<1>1. balance' \in [LedgerAccounts -> Int]
  BY PostType DEF LedgerTypeOK
<1>2. wallet' \in [Accounts -> [available : Int, locked : Int]]
  BY DEF LedgerTypeOK, MoveWallet
<1>3. \A b \in Accounts : Available(b) \in LedgerAccounts /\ Locked(b) \in LedgerAccounts
  BY AccountChart, Charts
<1>4. \A b \in Accounts : balance[Available(b)] \in Int /\ balance[Locked(b)] \in Int
  BY <1>3 DEF LedgerTypeOK
<1>5. ASSUME NEW b \in Accounts
      PROVE  /\ wallet'[b].available = balance'[Available(b)]
             /\ wallet'[b].locked = balance'[Locked(b)]
  <2>1. /\ wallet[b].available = balance[Available(b)]
        /\ wallet[b].locked = balance[Locked(b)]
    BY DEF ProjectionsReconcile
  <2>2. CASE b = a
    <3>1. /\ wallet'[a].available = wallet[a].available + toAvailable
          /\ wallet'[a].locked = wallet[a].locked + toLocked
      BY DEF MoveWallet, LedgerTypeOK
    <3>2. /\ balance'[Available(a)] = balance[Available(a)] + toAvailable
          /\ balance'[Locked(a)] = balance[Locked(a)] + toLocked
      BY <1>3, <1>4 DEF Post
    <3> QED BY <2>1, <2>2, <3>1, <3>2
  <2>3. CASE b # a
    <3>1. wallet'[b] = wallet[b]
      BY <2>3 DEF MoveWallet, LedgerTypeOK
    <3>2. /\ balance'[Available(b)] = balance[Available(b)]
          /\ balance'[Locked(b)] = balance[Locked(b)]
      BY <1>3, <2>3 DEF Post
    <3> QED BY <2>1, <3>1, <3>2
  <2> QED BY <2>2, <2>3
<1> QED BY <1>1, <1>2, <1>5 DEF LedgerTypeOK, ProjectionsReconcile

(* The wallet and ledger accounts of two customer accounts are distinct,   *)
(* and none of them is the platform's.                                     *)
LEMMA DistinctLines ==
  ASSUME NEW a \in Accounts, NEW m
  PROVE  /\ Available(a) # Locked(a)
         /\ Available(a) # Control(m)
         /\ Locked(a) # Control(m)
         /\ Available(a) \notin PlatformAccounts(m)
         /\ Locked(a) \notin PlatformAccounts(m)
         /\ Control(m) \in PlatformAccounts(m)
         /\ \A b \in Accounts \ {a} :
              /\ Available(b) \notin {Available(a), Locked(a)} \cup PlatformAccounts(m)
              /\ Locked(b) \notin {Available(a), Locked(a)} \cup PlatformAccounts(m)
BY DEF PlatformAccounts, Available, Locked, Control, Fees, Pool, Counterparty

(* A wallet movement, read back account by account.                        *)
LEMMA MovedWallet ==
  ASSUME LedgerTypeOK, NEW a \in Accounts, NEW toAvailable \in Int, NEW toLocked \in Int,
         MoveWallet(a, toAvailable, toLocked)
  PROVE  /\ wallet'[a].available = wallet[a].available + toAvailable
         /\ wallet'[a].locked = wallet[a].locked + toLocked
         /\ \A b \in Accounts \ {a} : wallet'[b] = wallet[b]
         /\ \A b \in Accounts : /\ wallet[b].available \in Int /\ wallet[b].locked \in Int
                               /\ wallet'[b].available \in Int /\ wallet'[b].locked \in Int
BY DEF LedgerTypeOK, MoveWallet

(* A transaction that posts a journal over one account's lines and its     *)
(* mode's platform accounts, and moves its wallet by as much, keeps the      *)
(* books: typed, reconciled and conserved.                                 *)
LEMMA BooksKept ==
  ASSUME LedgerTypeOK, ProjectionsReconcile, ModesConserve,
         NEW a \in Accounts, NEW toAvailable \in Int, NEW toLocked \in Int,
         NEW key, NEW journal, \A l \in DOMAIN journal : journal[l] \in Int,
         DOMAIN journal \subseteq {Available(a), Locked(a)} \cup PlatformAccounts(ModeOf(a)),
         (IF Available(a) \in DOMAIN journal THEN journal[Available(a)] ELSE 0) = toAvailable,
         (IF Locked(a) \in DOMAIN journal THEN journal[Locked(a)] ELSE 0) = toLocked,
         Post(key, journal),
         MoveWallet(a, toAvailable, toLocked)
  PROVE  LedgerTypeOK' /\ ProjectionsReconcile' /\ ModesConserve'
<1>1. ModeOf(a) \in Modes /\ DOMAIN journal \subseteq ChartOf(ModeOf(a))
  BY AccountChart
<1>2. ModesConserve'
  <2>1. balance \in [LedgerAccounts -> Int]
    BY DEF LedgerTypeOK
  <2> QED BY <1>1, <2>1, PostConserves
<1>3. \A b \in Accounts \ {a} : Available(b) \notin DOMAIN journal /\ Locked(b) \notin DOMAIN journal
  BY DistinctLines
<1>4. LedgerTypeOK' /\ ProjectionsReconcile'
  BY <1>3, MoveReconciles
<1> QED BY <1>2, <1>4

-----------------------------------------------------------------------------
(* Journals over one account's lines and its mode's platform accounts.     *)
OverOneAccount(journal) ==
  /\ \A l \in DOMAIN journal : journal[l] \in Int
  /\ \E a \in Accounts :
       DOMAIN journal \subseteq {Available(a), Locked(a)} \cup PlatformAccounts(ModeOf(a))

(* The lines of one balanced journal add up to zero in either mode.        *)
LEMMA JournalCancels ==
  ASSUME NEW journal, OverOneAccount(journal), Balanced(journal), NEW m \in Modes
  PROVE  SumFunctionOnSet([l \in ChartOf(m) |-> Entry(journal, l)], ChartOf(m)) = 0
<1> DEFINE lines == [l \in ChartOf(m) |-> Entry(journal, l)]
<1>1. PICK a \in Accounts :
        DOMAIN journal \subseteq {Available(a), Locked(a)} \cup PlatformAccounts(ModeOf(a))
  BY DEF OverOneAccount
<1>2. ModeOf(a) \in Modes /\ DOMAIN journal \subseteq ChartOf(ModeOf(a)) /\ IsFiniteSet(ChartOf(m))
  BY <1>1, AccountChart, Charts
<1>3. \A l \in ChartOf(m) : lines[l] \in Int
  BY DEF Entry, OverOneAccount
<1>4. CASE m = ModeOf(a)
  <2>1. DOMAIN journal \in SUBSET ChartOf(m) /\ IsFiniteSet(DOMAIN journal)
    BY <1>2, <1>4, FS_Subset
  <2>2. \A l \in ChartOf(m) \ DOMAIN journal : lines[l] = 0
    BY DEF Entry
  <2>3. \A l \in DOMAIN journal : lines[l] = journal[l] /\ journal[l] \in Int
    BY <2>1 DEF Entry, OverOneAccount
  <2> HIDE DEF lines
  <2>4. SumFunctionOnSet(lines, ChartOf(m)) = SumFunctionOnSet(lines, DOMAIN journal)
    BY <1>2, <1>3, <2>1, <2>2, SumSupport
  <2>5. SumFunctionOnSet(lines, DOMAIN journal) = SumFunctionOnSet(journal, DOMAIN journal)
    BY <2>1, <2>3, SumSame
  <2> QED BY <2>4, <2>5 DEF Balanced, lines
<1>5. CASE m # ModeOf(a)
  <2>1. \A l \in ChartOf(m) : lines[l] = 0
    BY <1>2, <1>5, Charts DEF Entry
  <2> HIDE DEF lines
  <2> QED BY <1>2, <2>1, SumOfZeros DEF lines
<1> QED BY <1>4, <1>5

(* A transaction that posts several journals, each over one account's      *)
(* lines, and moves each wallet by what they put on its two accounts,      *)
(* keeps the books.                                                        *)
LEMMA BooksKeptByEach ==
  ASSUME LedgerTypeOK, ProjectionsReconcile, ModesConserve,
         NEW journals, IsFiniteSet(DOMAIN journals),
         \A key \in DOMAIN journals : OverOneAccount(journals[key]),
         PostEach(journals),
         wallet' \in [Accounts -> [available : Int, locked : Int]],
         \A a \in Accounts :
           /\ wallet'[a].available = wallet[a].available + EntriesOf(journals, Available(a))
           /\ wallet'[a].locked = wallet[a].locked + EntriesOf(journals, Locked(a))
  PROVE  LedgerTypeOK' /\ ProjectionsReconcile' /\ ModesConserve'
<1> DEFINE K == DOMAIN journals
           column(l) == [key \in K |-> Entry(journals[key], l)]
<1>1. \A key \in K : \A l : Entry(journals[key], l) \in Int
  BY DEF Entry, OverOneAccount
<1>2. \A l : EntriesOf(journals, l) = SumFunctionOnSet(column(l), K)
  BY DEF EntriesOf
<1>3. \A l : EntriesOf(journals, l) \in Int
  <2>1. \A l : \A key \in K : column(l)[key] \in Int
    BY <1>1
  <2> HIDE DEF column, K
  <2> QED BY <1>2, <2>1, SumInt DEF K
<1>4. balance' = [l \in LedgerAccounts |-> balance[l] + EntriesOf(journals, l)]
  BY DEF PostEach
<1>5. balance \in [LedgerAccounts -> Int]
  BY DEF LedgerTypeOK
<1>6. balance' \in [LedgerAccounts -> Int]
  BY <1>3, <1>4, <1>5
<1>7. ProjectionsReconcile'
  <2>1. \A a \in Accounts : Available(a) \in LedgerAccounts /\ Locked(a) \in LedgerAccounts
    BY AccountChart, Charts
  <2> QED BY <1>4, <2>1 DEF ProjectionsReconcile
<1>8. ASSUME NEW m \in Modes PROVE SumFunctionOnSet(balance', ChartOf(m)) = 0
  <2> DEFINE C == ChartOf(m)
             entries == [l \in C |-> EntriesOf(journals, l)]
             row == [key \in K |-> [l \in C |-> Entry(journals[key], l)]]
             columns == [l \in C |-> column(l)]
             rows == [key \in K |-> SumFunctionOnSet(row[key], C)]
  <2>1. IsFiniteSet(C) /\ IsFiniteSet(K) /\ \A l \in C : l \in LedgerAccounts
    BY Charts
  <2>2. \A l \in C : balance[l] \in Int /\ entries[l] \in Int /\ balance'[l] = balance[l] + entries[l]
    BY <1>3, <1>4, <1>5, <2>1
  <2>3. SumFunctionOnSet(balance', C)
          = SumFunctionOnSet(balance, C) + SumFunctionOnSet(entries, C)
    <3> HIDE DEF entries, C
    <3> QED BY <2>1, <2>2, SumPlus
  <2>4. \A key \in K, l \in C : row[key][l] \in Int /\ columns[l][key] = row[key][l]
    BY <1>1
  <2>5. \A key \in K : rows[key] = 0
    <3> SUFFICES ASSUME NEW key \in K PROVE SumFunctionOnSet(row[key], C) = 0
      OBVIOUS
    <3>1. Balanced(journals[key]) /\ OverOneAccount(journals[key])
      BY DEF PostEach
    <3> QED BY <3>1, JournalCancels
  <2>6. \A l \in C : entries[l] = SumFunctionOnSet(columns[l], K)
    BY <1>2
  <2>7. \A key \in K : rows[key] = SumFunctionOnSet(row[key], C)
    OBVIOUS
  <2>8. SumFunctionOnSet(balance, C) = 0
    BY DEF ModesConserve
  <2> HIDE DEF entries, row, rows, columns, column, C, K
  <2>9. SumFunctionOnSet(rows, K) = SumFunctionOnSet(entries, C)
    <3>1. IsTable(row, columns, K, C)
      BY <2>4 DEF IsTable
    <3>2. AreSums(rows, row, K, C) /\ AreSums(entries, columns, C, K)
      BY <2>6, <2>7 DEF AreSums
    <3> QED BY <2>1, <3>1, <3>2, SumByColumns
  <2>10. SumFunctionOnSet(rows, K) = 0
    BY <2>1, <2>5, SumOfZeros
  <2> QED BY <2>3, <2>8, <2>9, <2>10 DEF C
<1>9. ModesConserve'
  BY <1>8 DEF ModesConserve
<1> QED BY <1>6, <1>7, <1>9 DEF LedgerTypeOK
=============================================================================
