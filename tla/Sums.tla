-------------------------------- MODULE Sums --------------------------------
(***************************************************************************)
(* Facts about SumFunctionOnSet, the sum of a function over a finite set,  *)
(* that the proofs about totals and counts rest on.  The operator is a     *)
(* recursion over subsets; each induction below is put in the form of a    *)
(* smallest counterexample, so that it needs no induction rule.            *)
(***************************************************************************)
EXTENDS Integers, FiniteSets, Functions, FiniteSetTheorems, TLAPS

(* A collection of subsets of a finite set has a member none of whose      *)
(* proper subsets belongs to the collection.                               *)
LEMMA SmallestSubset ==
  ASSUME NEW S, IsFiniteSet(S), NEW B \in SUBSET (SUBSET S), B # {}
  PROVE  \E T \in B : \A U \in SUBSET T : U # T => U \notin B
<1> DEFINE R == StrictSubsetOrdering(S)
<1>1. IsWellFoundedOn(R, SUBSET S)
  BY FS_StrictSubsetOrderingWellFounded, FS_FiniteSubsetsOfFinite
<1>2. PICK T \in B : \A U \in B : ~ (<<U, T>> \in R)
  <2> HIDE DEF R
  <2>1. QED
    BY <1>1, WFMin
<1>3. ASSUME NEW U \in SUBSET T, U # T, U \in B
      PROVE  FALSE
  <2>1. <<U, T>> \in R
    BY <1>3 DEF StrictSubsetOrdering
  <2>2. QED
    BY <1>2, <1>3, <2>1
<1>4. QED
  BY <1>2, <1>3

-----------------------------------------------------------------------------
(* The table of partial sums by which the operator is defined.             *)

Pick(s) == CHOOSE x \in s : TRUE

Entry(f, g, s) == IF s = {} THEN 0 ELSE f[Pick(s)] + g[s \ {Pick(s)}]

IsTable(f, g, S) == g = [s \in SUBSET S |-> Entry(f, g, s)]

Table(f, S) == CHOOSE g : IsTable(f, g, S)

(* The sum over a set is the entry of that set in its table.               *)
LEMMA SumIsEntry ==
  ASSUME NEW f, NEW S
  PROVE  SumFunctionOnSet(f, S) = Table(f, S)[S]
BY DEF SumFunctionOnSet, FoldFunctionOnSet, MapThenFoldSet, Table, IsTable,
       Entry, Pick

(* The choice from a nonempty set is a member of it.                       *)
LEMMA PickIsMember == ASSUME NEW s, s # {} PROVE Pick(s) \in s
BY DEF Pick

(* Two tables agree wherever both are defined.                             *)
LEMMA TablesAgree ==
  ASSUME NEW f, NEW S, NEW T, IsFiniteSet(S), NEW g, NEW h,
         IsTable(f, g, S), IsTable(f, h, T), NEW s \in SUBSET (S \cap T)
  PROVE  g[s] = h[s]
<1> DEFINE B == {u \in SUBSET (S \cap T) : g[u] # h[u]}
<1>1. IsFiniteSet(S \cap T)
  BY FS_Subset
<1>2. SUFFICES ASSUME B # {} PROVE FALSE
  OBVIOUS
<1>3. PICK u \in B : \A v \in SUBSET u : v # u => v \notin B
  <2>1. B \in SUBSET (SUBSET (S \cap T))
    OBVIOUS
  <2> HIDE DEF B
  <2>2. QED
    BY <1>1, <1>2, <2>1, SmallestSubset
<1>4. g[u] = Entry(f, g, u) /\ h[u] = Entry(f, h, u)
  BY DEF IsTable
<1>5. u # {}
  BY <1>4 DEF Entry
<1>6. Pick(u) \in u
  BY <1>5, PickIsMember
<1>7. g[u \ {Pick(u)}] = h[u \ {Pick(u)}]
  BY <1>3, <1>6
<1>8. QED
  BY <1>4, <1>5, <1>7 DEF Entry

(* Every finite set has a table.                                           *)
LEMMA TableExists ==
  ASSUME NEW f, NEW S, IsFiniteSet(S)
  PROVE  IsTable(f, Table(f, S), S)
<1> DEFINE B == {T \in SUBSET S : ~ IsTable(f, Table(f, T), T)}
<1>1. SUFFICES ASSUME B # {} PROVE FALSE
  OBVIOUS
<1>2. PICK T \in B : \A U \in SUBSET T : U # T => U \notin B
  <2>1. B \in SUBSET (SUBSET S)
    OBVIOUS
  <2> HIDE DEF B
  <2>2. QED
    BY <1>1, <2>1, SmallestSubset
<1>3. ASSUME NEW U \in SUBSET T, U # T
      PROVE  IsTable(f, Table(f, U), U) /\ IsFiniteSet(U)
  BY <1>2, <1>3, FS_Subset
<1> DEFINE last(u) == Table(f, u)[u]
           g == [s \in SUBSET T |->
                   IF s = {} THEN 0 ELSE f[Pick(s)] + last(s \ {Pick(s)})]
<1>4. ASSUME NEW u \in SUBSET T, u # T
      PROVE  g[u] = last(u)
  <2>1. last(u) = Entry(f, Table(f, u), u)
    BY <1>3, <1>4 DEF IsTable
  <2>2. CASE u = {}
    BY <2>1, <2>2 DEF Entry
  <2>3. CASE u # {}
    <3> DEFINE v == u \ {Pick(u)}
    <3>1. Pick(u) \in u
      BY <2>3, PickIsMember
    <3>2. v \in SUBSET T /\ v # T /\ v \in SUBSET (u \cap v)
      BY <3>1
    <3>3. Table(f, u)[v] = Table(f, v)[v]
      <4>1. IsTable(f, Table(f, u), u) /\ IsFiniteSet(u)
        BY <1>3, <1>4
      <4>2. IsTable(f, Table(f, v), v)
        BY <1>3, <3>2
      <4> HIDE DEF v
      <4>3. QED
        BY <3>2, <4>1, <4>2, TablesAgree
    <3>4. QED
      BY <2>1, <2>3, <3>3 DEF Entry
  <2>4. QED
    BY <2>2, <2>3
<1>5. ASSUME NEW s \in SUBSET T, s # {}
      PROVE  g[s \ {Pick(s)}] = last(s \ {Pick(s)})
  <2>1. Pick(s) \in s
    BY <1>5, PickIsMember
  <2>2. s \ {Pick(s)} \in SUBSET T /\ s \ {Pick(s)} # T
    BY <2>1
  <2> HIDE DEF g, last
  <2>3. QED
    BY <1>4, <2>2
<1>6. \A s \in SUBSET T :
        (IF s = {} THEN 0 ELSE f[Pick(s)] + last(s \ {Pick(s)})) = Entry(f, g, s)
  <2> HIDE DEF g, last
  <2>1. QED
    BY <1>5 DEF Entry
<1>7. IsTable(f, g, T)
  BY <1>6 DEF IsTable
<1>8. IsTable(f, Table(f, T), T)
  <2> HIDE DEF g
  <2>1. QED
    BY <1>7 DEF Table
<1>9. QED
  BY <1>2, <1>8

-----------------------------------------------------------------------------
(* Sums.                                                                   *)

(* The sum over the empty set is zero, and any other sum is one element    *)
(* more than the sum without it.                                           *)
LEMMA SumUnfold ==
  ASSUME NEW f, NEW S, IsFiniteSet(S)
  PROVE  /\ SumFunctionOnSet(f, {}) = 0
         /\ S # {} => /\ Pick(S) \in S
                      /\ SumFunctionOnSet(f, S) =
                           f[Pick(S)] + SumFunctionOnSet(f, S \ {Pick(S)})
<1>1. SumFunctionOnSet(f, {}) = 0
  <2>1. IsTable(f, Table(f, {}), {})
    BY TableExists, FS_EmptySet
  <2>2. QED
    BY <2>1, SumIsEntry DEF IsTable, Entry
<1>2. ASSUME S # {}
      PROVE  /\ Pick(S) \in S
             /\ SumFunctionOnSet(f, S) =
                  f[Pick(S)] + SumFunctionOnSet(f, S \ {Pick(S)})
  <2> DEFINE u == S \ {Pick(S)}
  <2>1. Pick(S) \in S
    BY <1>2, PickIsMember
  <2>2. IsFiniteSet(u)
    BY FS_Subset
  <2>3. IsTable(f, Table(f, S), S) /\ IsTable(f, Table(f, u), u)
    BY <2>2, TableExists
  <2>4. Table(f, S)[S] = f[Pick(S)] + Table(f, S)[u]
    BY <1>2, <2>3 DEF IsTable, Entry
  <2>5. Table(f, S)[u] = Table(f, u)[u]
    <3>1. u \in SUBSET (S \cap u)
      OBVIOUS
    <3> HIDE DEF u
    <3>2. QED
      BY <2>3, <3>1, TablesAgree
  <2>6. QED
    BY <2>1, <2>4, <2>5, SumIsEntry
<1>3. QED
  BY <1>1, <1>2

(* A sum of integers is an integer, and it does not matter which element   *)
(* is set apart.                                                           *)
LEMMA SumRemove ==
  ASSUME NEW f, NEW S, IsFiniteSet(S), \A x \in S : f[x] \in Int
  PROVE  /\ SumFunctionOnSet(f, S) \in Int
         /\ \A x \in S :
              SumFunctionOnSet(f, S) = f[x] + SumFunctionOnSet(f, S \ {x})
<1> DEFINE Sum(T) == SumFunctionOnSet(f, T)
           Right(T) == /\ Sum(T) \in Int
                       /\ \A x \in T : Sum(T) = f[x] + Sum(T \ {x})
           B == {T \in SUBSET S : ~ Right(T)}
<1>1. SUFFICES ASSUME B # {} PROVE FALSE
  OBVIOUS
<1>2. PICK T \in B : \A U \in SUBSET T : U # T => U \notin B
  <2>1. B \in SUBSET (SUBSET S)
    OBVIOUS
  <2> HIDE DEF B
  <2>2. QED
    BY <1>1, <2>1, SmallestSubset
<1>3. T \in SUBSET S /\ IsFiniteSet(T)
  BY FS_Subset
<1>4. \A U \in SUBSET T : U # T => Right(U)
  BY <1>2, <1>3
<1> DEFINE c == Pick(T)
<1>5. T # {}
  <2>1. Sum({}) = 0
    BY SumUnfold, FS_EmptySet
  <2>2. Right({})
    <3> HIDE DEF Sum
    <3>1. QED
      BY <2>1
  <2> HIDE DEF Right
  <2>3. QED
    BY <1>2, <2>2
<1>6. c \in T /\ Sum(T) = f[c] + Sum(T \ {c})
  BY <1>3, <1>5, SumUnfold
<1>7. Sum(T \ {c}) \in Int /\ f[c] \in Int
  BY <1>3, <1>4, <1>6
<1>8. ASSUME NEW x \in T, x # c
      PROVE  Sum(T) = f[x] + Sum(T \ {x})
  <2> DEFINE A == Sum(T \ {c})
             D == Sum(T \ {x})
             Z == Sum((T \ {c}) \ {x})
  <2>1. A = f[x] + Z
    BY <1>4, <1>6, <1>8
  <2>2. D = f[c] + Z
    <3>1. (T \ {c}) \ {x} = (T \ {x}) \ {c}
      OBVIOUS
    <3>2. QED
      BY <1>4, <1>6, <1>8, <3>1
  <2>3. Z \in Int /\ f[x] \in Int
    BY <1>3, <1>4, <1>6, <1>8
  <2>4. Sum(T) = f[c] + A /\ A \in Int /\ f[c] \in Int
    BY <1>6, <1>7
  <2> HIDE DEF A, D, Z, Sum, c
  <2>5. Sum(T) = f[x] + D
    BY <2>1, <2>2, <2>3, <2>4
  <2>6. QED
    BY <2>5 DEF D
<1>9. Right(T)
  <2>1. Sum(T) \in Int
    <3> HIDE DEF Sum, c
    <3>1. QED
      BY <1>6, <1>7
  <2> HIDE DEF Sum
  <2>2. QED
    BY <1>6, <1>8, <2>1
<1>10. QED
  BY <1>2, <1>9

(* Functions that agree on a set have the same sum over it.                *)
LEMMA SumSame ==
  ASSUME NEW f, NEW g, NEW S, IsFiniteSet(S), \A x \in S : f[x] = g[x]
  PROVE  SumFunctionOnSet(f, S) = SumFunctionOnSet(g, S)
<1> DEFINE B == {T \in SUBSET S : SumFunctionOnSet(f, T) # SumFunctionOnSet(g, T)}
<1>1. SUFFICES ASSUME B # {} PROVE FALSE
  OBVIOUS
<1>2. PICK T \in B : \A U \in SUBSET T : U # T => U \notin B
  <2>1. B \in SUBSET (SUBSET S)
    OBVIOUS
  <2> HIDE DEF B
  <2>2. QED
    BY <1>1, <2>1, SmallestSubset
<1>3. T \in SUBSET S /\ IsFiniteSet(T)
  BY FS_Subset
<1>4. T # {}
  BY <1>2, SumUnfold, FS_EmptySet
<1>5. /\ Pick(T) \in T
      /\ SumFunctionOnSet(f, T) = f[Pick(T)] + SumFunctionOnSet(f, T \ {Pick(T)})
      /\ SumFunctionOnSet(g, T) = g[Pick(T)] + SumFunctionOnSet(g, T \ {Pick(T)})
  BY <1>3, <1>4, SumUnfold
<1>6. SumFunctionOnSet(f, T \ {Pick(T)}) = SumFunctionOnSet(g, T \ {Pick(T)})
  BY <1>2, <1>3, <1>5
<1>7. QED
  BY <1>2, <1>3, <1>5, <1>6

(* Changing one term changes the sum by as much.                           *)
LEMMA SumChange ==
  ASSUME NEW f, NEW g, NEW S, IsFiniteSet(S), NEW c \in S,
         \A x \in S : f[x] \in Int, g[c] \in Int,
         \A x \in S \ {c} : g[x] = f[x]
  PROVE  SumFunctionOnSet(g, S) = SumFunctionOnSet(f, S) - f[c] + g[c]
<1>1. /\ SumFunctionOnSet(f, S) = f[c] + SumFunctionOnSet(f, S \ {c})
      /\ SumFunctionOnSet(g, S) = g[c] + SumFunctionOnSet(g, S \ {c})
  <2>1. \A x \in S : g[x] \in Int
    OBVIOUS
  <2>2. QED
    BY <2>1, SumRemove
<1>2. IsFiniteSet(S \ {c})
  BY FS_Subset
<1>3. SumFunctionOnSet(f, S \ {c}) = SumFunctionOnSet(g, S \ {c})
  BY <1>2, SumSame
<1>4. SumFunctionOnSet(f, S \ {c}) \in Int
  BY <1>2, SumRemove
<1>5. QED
  BY <1>1, <1>3, <1>4

(* Terms that are at most those of another function add up to at most its  *)
(* sum.                                                                    *)
LEMMA SumAtMost ==
  ASSUME NEW f, NEW g, NEW S, IsFiniteSet(S),
         \A x \in S : f[x] \in Int /\ g[x] \in Int /\ f[x] <= g[x]
  PROVE  SumFunctionOnSet(f, S) <= SumFunctionOnSet(g, S)
<1> DEFINE B == {T \in SUBSET S :
                   ~ (SumFunctionOnSet(f, T) <= SumFunctionOnSet(g, T))}
<1>1. SUFFICES ASSUME B # {} PROVE FALSE
  OBVIOUS
<1>2. PICK T \in B : \A U \in SUBSET T : U # T => U \notin B
  <2>1. B \in SUBSET (SUBSET S)
    OBVIOUS
  <2> HIDE DEF B
  <2>2. QED
    BY <1>1, <2>1, SmallestSubset
<1>3. T \in SUBSET S /\ IsFiniteSet(T)
  BY FS_Subset
<1>4. T # {}
  <2>1. SumFunctionOnSet(f, {}) = 0 /\ SumFunctionOnSet(g, {}) = 0
    BY SumUnfold, FS_EmptySet
  <2>2. SumFunctionOnSet(f, {}) <= SumFunctionOnSet(g, {})
    <3>1. 0 <= 0
      OBVIOUS
    <3>2. QED
      BY <2>1, <3>1
  <2>3. QED
    BY <1>2, <2>2
<1> DEFINE c == Pick(T)
           F == SumFunctionOnSet(f, T \ {c})
           G == SumFunctionOnSet(g, T \ {c})
<1>5. /\ c \in T
      /\ SumFunctionOnSet(f, T) = f[c] + F
      /\ SumFunctionOnSet(g, T) = g[c] + G
  BY <1>3, <1>4, SumUnfold
<1>6. F <= G
  BY <1>2, <1>3, <1>5
<1>7. F \in Int /\ G \in Int /\ f[c] \in Int /\ g[c] \in Int /\ f[c] <= g[c]
  BY <1>3, <1>5, FS_Subset, SumRemove
<1>8. SumFunctionOnSet(f, T) <= SumFunctionOnSet(g, T)
  <2> HIDE DEF F, G, c
  <2>1. QED
    BY <1>5, <1>6, <1>7
<1>9. QED
  BY <1>2, <1>8

(* The sum of one and the same number over a set is that number times the  *)
(* size of the set.                                                        *)
LEMMA SumOfConstant ==
  ASSUME NEW n \in Int, NEW S, IsFiniteSet(S)
  PROVE  SumFunctionOnSet([x \in S |-> n], S) = Cardinality(S) * n
<1> DEFINE f == [x \in S |-> n]
           B == {T \in SUBSET S : SumFunctionOnSet(f, T) # Cardinality(T) * n}
<1>1. SUFFICES ASSUME B # {} PROVE FALSE
  OBVIOUS
<1>2. PICK T \in B : \A U \in SUBSET T : U # T => U \notin B
  <2>1. B \in SUBSET (SUBSET S)
    OBVIOUS
  <2> HIDE DEF B
  <2>2. QED
    BY <1>1, <2>1, SmallestSubset
<1>3. T \in SUBSET S /\ IsFiniteSet(T)
  BY FS_Subset
<1>4. T # {}
  <2>1. SumFunctionOnSet(f, {}) = 0 /\ Cardinality({}) = 0
    BY SumUnfold, FS_EmptySet
  <2>2. 0 * n = 0
    OBVIOUS
  <2>3. QED
    BY <1>2, <2>1, <2>2
<1> DEFINE c == Pick(T)
           k == Cardinality(T \ {c})
<1>5. c \in T /\ SumFunctionOnSet(f, T) = f[c] + SumFunctionOnSet(f, T \ {c})
  BY <1>3, <1>4, SumUnfold
<1>6. SumFunctionOnSet(f, T \ {c}) = k * n /\ f[c] = n
  BY <1>2, <1>3, <1>5
<1>7. Cardinality(T) = k + 1 /\ k \in Nat
  <2>1. IsFiniteSet(T \ {c})
    BY <1>3, FS_Subset
  <2>2. T = (T \ {c}) \cup {c} /\ c \notin T \ {c}
    BY <1>5
  <2>3. QED
    BY <2>1, <2>2, FS_AddElement, FS_CardinalityType
<1>8. (k + 1) * n = n + k * n
  <2> HIDE DEF k
  <2>1. QED
    BY <1>7
<1>9. QED
  BY <1>2, <1>3, <1>5, <1>6, <1>7, <1>8

(* The difference of two sums is the sum of the differences.               *)
LEMMA SumDifference ==
  ASSUME NEW f, NEW g, NEW h, NEW S, IsFiniteSet(S),
         \A x \in S : f[x] \in Int /\ g[x] \in Int /\ h[x] = f[x] - g[x]
  PROVE  SumFunctionOnSet(h, S) = SumFunctionOnSet(f, S) - SumFunctionOnSet(g, S)
<1> DEFINE B == {T \in SUBSET S : SumFunctionOnSet(h, T) #
                   SumFunctionOnSet(f, T) - SumFunctionOnSet(g, T)}
<1>1. SUFFICES ASSUME B # {} PROVE FALSE
  OBVIOUS
<1>2. PICK T \in B : \A U \in SUBSET T : U # T => U \notin B
  <2>1. B \in SUBSET (SUBSET S)
    OBVIOUS
  <2> HIDE DEF B
  <2>2. QED
    BY <1>1, <2>1, SmallestSubset
<1>3. T \in SUBSET S /\ IsFiniteSet(T)
  BY FS_Subset
<1>4. T # {}
  <2>1. /\ SumFunctionOnSet(f, {}) = 0 /\ SumFunctionOnSet(g, {}) = 0
        /\ SumFunctionOnSet(h, {}) = 0
    BY SumUnfold, FS_EmptySet
  <2>2. SumFunctionOnSet(h, {}) =
          SumFunctionOnSet(f, {}) - SumFunctionOnSet(g, {})
    <3>1. 0 = 0 - 0
      OBVIOUS
    <3>2. QED
      BY <2>1, <3>1
  <2>3. QED
    BY <1>2, <2>2
<1> DEFINE c == Pick(T)
           F == SumFunctionOnSet(f, T \ {c})
           G == SumFunctionOnSet(g, T \ {c})
<1>5. /\ c \in T
      /\ SumFunctionOnSet(f, T) = f[c] + F
      /\ SumFunctionOnSet(g, T) = g[c] + G
      /\ SumFunctionOnSet(h, T) = h[c] + SumFunctionOnSet(h, T \ {c})
  BY <1>3, <1>4, SumUnfold
<1>6. SumFunctionOnSet(h, T \ {c}) = F - G
  BY <1>2, <1>3, <1>5
<1>7. /\ F \in Int /\ G \in Int /\ f[c] \in Int /\ g[c] \in Int
      /\ h[c] = f[c] - g[c]
  BY <1>3, <1>5, FS_Subset, SumRemove
<1>8. SumFunctionOnSet(h, T) = SumFunctionOnSet(f, T) - SumFunctionOnSet(g, T)
  <2> HIDE DEF F, G, c
  <2>1. QED
    BY <1>5, <1>6, <1>7
<1>9. QED
  BY <1>2, <1>8

(* A function on a nonempty finite set has a largest value.                *)
LEMMA LargestTerm ==
  ASSUME NEW f, NEW S, IsFiniteSet(S), S # {}, \A x \in S : f[x] \in Int
  PROVE  \E x \in S : \A y \in S : f[y] <= f[x]
<1> DEFINE Good(T) == \E x \in T : \A y \in T : f[y] <= f[x]
           B == {T \in SUBSET S : T # {} /\ ~ Good(T)}
<1>1. SUFFICES ASSUME B # {} PROVE FALSE
  OBVIOUS
<1>2. PICK T \in B : \A U \in SUBSET T : U # T => U \notin B
  <2>1. B \in SUBSET (SUBSET S)
    OBVIOUS
  <2> HIDE DEF B
  <2>2. QED
    BY <1>1, <2>1, SmallestSubset
<1>3. PICK c \in T : TRUE
  OBVIOUS
<1>4. CASE T \ {c} = {}
  <2>1. \A y \in T : f[y] <= f[c]
    <3>1. f[c] \in Int /\ \A y \in T : y = c
      BY <1>4
    <3>2. f[c] <= f[c]
      BY <3>1
    <3>3. QED
      BY <3>1, <3>2
  <2>2. QED
    BY <1>2, <2>1
<1>5. CASE T \ {c} # {}
  <2>1. PICK x \in T \ {c} : \A y \in T \ {c} : f[y] <= f[x]
    <3>1. T \ {c} \in SUBSET T /\ T \ {c} # T /\ T \ {c} \in SUBSET S
      OBVIOUS
    <3>2. Good(T \ {c})
      <4> HIDE DEF Good
      <4>1. QED
        BY <1>2, <1>5, <3>1
    <3>3. QED
      BY <3>2
  <2>2. \A y \in T : f[y] \in Int
    OBVIOUS
  <2>3. CASE f[c] <= f[x]
    BY <1>2, <2>1, <2>3
  <2>4. CASE f[x] <= f[c]
    <3>1. \A y \in T \ {c} : f[y] <= f[c]
      BY <2>1, <2>2, <2>4
    <3>2. f[c] <= f[c]
      BY <2>2
    <3>3. QED
      BY <1>2, <3>1, <3>2
  <2>5. QED
    BY <2>2, <2>3, <2>4
<1>6. QED
  BY <1>4, <1>5

=============================================================================
