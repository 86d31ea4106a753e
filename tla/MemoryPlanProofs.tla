--------------------------- MODULE MemoryPlanProofs ---------------------------
(***************************************************************************)
(* Lemmas about the sums of MemoryPlan and MemoryContract, and what        *)
(* compile_memory_plan computes: the peak of a plan covers every set of    *)
(* buffers that its epochs and alias groups let coexist.                   *)
(*                                                                         *)
(* A sum is a fold over a finite set, that is a recursive function on its  *)
(* subsets.  Nothing here is an induction: a statement about every subset  *)
(* of a finite set holds because a smallest subset that refutes it (lemma  *)
(* SmallestSet) cannot exist.                                              *)
(***************************************************************************)
EXTENDS MemoryPlan, TLAPS, FiniteSetTheorems

\* The sum of the weights of the members of S.
Total(w, S) == MapThenSumSet(LAMBDA x : w[x], S)

\* The member that a fold takes next.
Pick(s) == CHOOSE x \in s : TRUE

\* The fold as a recursive function.
Folds(g, w, S) ==
    g = [s \in SUBSET S |-> IF s = {} THEN 0 ELSE w[Pick(s)] + g[s \ {Pick(s)}]]

-----------------------------------------------------------------------------
(* Smallest counterexamples.                                                *)

LEMMA LeastNumber ==
  ASSUME NEW S \in SUBSET Nat, S # {}
  PROVE  \E n \in S : \A m \in S : n <= m
<1> DEFINE R == OpToRel(<, Nat)
<1>1. IsWellFoundedOn(R, Nat)
  BY NatLessThanWellFounded
<1>2. ASSUME NEW m \in S, NEW n \in S, m < n
      PROVE  <<m, n>> \in R
  BY <1>2 DEF OpToRel
<1> HIDE DEF R
<1>3. PICK n \in S : \A m \in S : ~(<<m, n>> \in R)
  BY <1>1, WFMin
<1>4. \A m \in S : ~(m < n)
  BY <1>2, <1>3, Zenon
<1>5. \A m \in S : m \in Nat /\ n \in Nat
  OBVIOUS
<1> QED
  BY <1>4, <1>5

LEMMA SmallestSet ==
  ASSUME NEW S, IsFiniteSet(S), NEW B \in SUBSET (SUBSET S), B # {}
  PROVE  \E T \in B : \A U \in B : U \subseteq T => U = T
<1> DEFINE C == {Cardinality(T) : T \in B}
<1>1. \A T \in B : IsFiniteSet(T) /\ Cardinality(T) \in Nat
  BY FS_Subset, FS_CardinalityType
<1>2. PICK n \in C : \A m \in C : n <= m
  <2>1. C \in SUBSET Nat /\ C # {}
    BY <1>1
  <2> HIDE DEF C
  <2> QED
    BY <2>1, LeastNumber
<1>3. PICK T \in B : n = Cardinality(T)
  BY <1>2
<1>4. ASSUME NEW U \in B, U \subseteq T PROVE U = T
  <2>1. Cardinality(U) <= Cardinality(T) /\ (Cardinality(T) = Cardinality(U) => T = U)
    BY <1>1, <1>4, FS_Subset
  <2>2. Cardinality(T) <= Cardinality(U)
    BY <1>2, <1>3
  <2> QED
    BY <1>1, <2>1, <2>2
<1> QED
  BY <1>3, <1>4

-----------------------------------------------------------------------------
(* The fold exists and is one function.                                     *)

LEMMA PickIsMember == ASSUME NEW s, s # {} PROVE Pick(s) \in s
BY DEF Pick

LEMMA FoldExists ==
  ASSUME NEW w, NEW S, IsFiniteSet(S)
  PROVE  \E g : Folds(g, w, S)
<1> DEFINE Small(n) == {s \in SUBSET S : Cardinality(s) <= n}
           Next(g, s) == IF s = {} THEN 0 ELSE w[Pick(s)] + g[s \ {Pick(s)}]
           Upto(n) == \E g : \A s \in Small(n) : g[s] = Next(g, s)
           B == {n \in Nat : ~Upto(n)}
<1>1. \A s \in SUBSET S : IsFiniteSet(s) /\ Cardinality(s) \in Nat
  BY FS_Subset, FS_CardinalityType
<1>2. Upto(0)
  <2>1. \A s \in Small(0) : s = {}
    BY <1>1, FS_EmptySet
  <2>2. \A s \in Small(0) : [r \in Small(0) |-> 0][s] = Next([r \in Small(0) |-> 0], s)
    BY <2>1
  <2> QED
    BY <2>2
<1>3. ASSUME NEW n \in Nat, n # 0, Upto(n - 1) PROVE Upto(n)
  <2>1. PICK h : \A s \in Small(n - 1) : h[s] = Next(h, s)
    BY <1>3
  <2> DEFINE g == [s \in Small(n) |-> Next(h, s)]
  <2>2. ASSUME NEW s \in Small(n) PROVE g[s] = Next(g, s)
    <3>1. g[s] = Next(h, s)
      OBVIOUS
    <3>2. CASE s = {}
      BY <3>1, <3>2
    <3>3. CASE s # {}
      <4> DEFINE u == s \ {Pick(s)}
      <4>1. Pick(s) \in s
        BY <3>3, PickIsMember
      <4>2. u \in SUBSET S /\ Cardinality(u) = Cardinality(s) - 1
        BY <1>1, <4>1, FS_RemoveElement
      <4>3. u \in Small(n - 1) /\ u \in Small(n)
        BY <1>1, <4>2
      <4>4. g[u] = Next(h, u) /\ h[u] = Next(h, u)
        BY <2>1, <4>3
      <4>5. Next(h, s) = w[Pick(s)] + h[u] /\ Next(g, s) = w[Pick(s)] + g[u]
        BY <3>3
      <4> HIDE DEF g, Next
      <4> QED
        BY <3>1, <4>4, <4>5
    <3> QED
      BY <3>2, <3>3
  <2> HIDE DEF g
  <2> QED
    BY <2>2
<1>4. \A n \in Nat : Upto(n)
  <2> HIDE DEF Upto
  <2> SUFFICES ASSUME B # {} PROVE FALSE
    OBVIOUS
  <2>1. PICK n \in B : \A m \in B : n <= m
    <3>1. B \in SUBSET Nat
      OBVIOUS
    <3> HIDE DEF B
    <3> QED
      BY <3>1, LeastNumber
  <2>2. n \in Nat /\ ~Upto(n) /\ n # 0
    BY <1>2, <2>1
  <2>3. n - 1 \in Nat /\ n - 1 \notin B
    BY <2>1, <2>2
  <2> QED
    BY <1>3, <2>2, <2>3
<1>5. PICK g : \A s \in Small(Cardinality(S)) : g[s] = Next(g, s)
  BY <1>1, <1>4
<1>6. \A s \in SUBSET S : g[s] = Next(g, s)
  <2>1. \A s \in SUBSET S : s \in Small(Cardinality(S))
    BY FS_Subset
  <2> HIDE DEF Small, Next
  <2> QED
    BY <1>5, <2>1
<1> DEFINE f == [s \in SUBSET S |-> g[s]]
<1>7. \A s \in SUBSET S : f[s] = Next(f, s)
  <2> SUFFICES ASSUME NEW s \in SUBSET S PROVE f[s] = Next(f, s)
    OBVIOUS
  <2>1. f[s] = Next(g, s) /\ s \ {Pick(s)} \in SUBSET S
    BY <1>6
  <2>2. f[s \ {Pick(s)}] = g[s \ {Pick(s)}]
    BY <2>1
  <2> QED
    BY <2>1, <2>2
<1>8. f = [s \in SUBSET S |-> Next(f, s)]
  <2>1. DOMAIN f = SUBSET S /\ f = [s \in DOMAIN f |-> f[s]]
    OBVIOUS
  <2> HIDE DEF f, Next
  <2> QED
    BY <1>7, <2>1
<1> HIDE DEF f
<1> QED
  BY <1>8 DEF Folds

LEMMA FoldUnique ==
  ASSUME NEW w, NEW S, IsFiniteSet(S), NEW g, NEW h, Folds(g, w, S), Folds(h, w, S)
  PROVE  g = h
<1> DEFINE B == {s \in SUBSET S : g[s] # h[s]}
<1>1. B = {}
  <2> SUFFICES ASSUME B # {} PROVE FALSE
    OBVIOUS
  <2>1. PICK T \in B : \A U \in B : U \subseteq T => U = T
    <3>1. B \in SUBSET (SUBSET S)
      OBVIOUS
    <3> HIDE DEF B
    <3> QED
      BY <3>1, SmallestSet
  <2>2. T \in SUBSET S /\ g[T] # h[T]
    OBVIOUS
  <2>3. T # {}
    BY <2>2 DEF Folds
  <2>4. Pick(T) \in T
    BY <2>3, PickIsMember
  <2> DEFINE U == T \ {Pick(T)}
  <2>5. U \in SUBSET S /\ g[U] = h[U]
    BY <2>1, <2>2, <2>4
  <2>6. g[T] = w[Pick(T)] + g[U] /\ h[T] = w[Pick(T)] + h[U]
    BY <2>2, <2>3 DEF Folds
  <2> QED
    BY <2>2, <2>5, <2>6
<1>2. g = [s \in SUBSET S |-> g[s]] /\ h = [s \in SUBSET S |-> h[s]]
  BY DEF Folds
<1>3. \A s \in SUBSET S : g[s] = h[s]
  BY <1>1
<1> QED
  BY <1>2, <1>3

LEMMA TotalIsFold ==
  ASSUME NEW w, NEW S, IsFiniteSet(S), NEW g, Folds(g, w, S)
  PROVE  Total(w, S) = g[S]
<1> DEFINE it == CHOOSE h : Folds(h, w, S)
<1>1. Folds(it, w, S)
  OBVIOUS
<1>2. it = g
  <2> HIDE DEF it
  <2> QED
    BY <1>1, FoldUnique
<1>3. Total(w, S) = it[S]
  BY Zenon DEF Total, MapThenSumSet, MapThenFoldSet, Folds, Pick
<1> QED
  BY <1>2, <1>3

LEMMA FoldRestricts ==
  ASSUME NEW w, NEW S, NEW g, Folds(g, w, S), NEW T \in SUBSET S
  PROVE  Folds([s \in SUBSET T |-> g[s]], w, T)
<1> DEFINE f == [s \in SUBSET T |-> g[s]]
<1>1. ASSUME NEW s \in SUBSET T
      PROVE  f[s] = IF s = {} THEN 0 ELSE w[Pick(s)] + f[s \ {Pick(s)}]
  <2>1. s \in SUBSET S /\ s \ {Pick(s)} \in SUBSET T
    OBVIOUS
  <2>2. g[s] = IF s = {} THEN 0 ELSE w[Pick(s)] + g[s \ {Pick(s)}]
    BY <2>1 DEF Folds
  <2>3. f[s] = g[s] /\ f[s \ {Pick(s)}] = g[s \ {Pick(s)}]
    BY <2>1
  <2> QED
    BY <2>2, <2>3
<1>2. f = [s \in SUBSET T |-> f[s]]
  OBVIOUS
<1> HIDE DEF f
<1>3. f = [s \in SUBSET T |-> IF s = {} THEN 0 ELSE w[Pick(s)] + f[s \ {Pick(s)}]]
  BY <1>1, <1>2
<1> QED
  BY <1>3 DEF Folds, f

-----------------------------------------------------------------------------
(* What a sum is.                                                           *)

\* The empty sum, and a sum as the fold computes it.
LEMMA TotalByPick ==
  ASSUME NEW w, NEW S, IsFiniteSet(S)
  PROVE  /\ S = {} => Total(w, S) = 0
         /\ S # {} => Total(w, S) = w[Pick(S)] + Total(w, S \ {Pick(S)})
<1>1. PICK g : Folds(g, w, S)
  BY FoldExists
<1>2. Total(w, S) = g[S]
  BY <1>1, TotalIsFold
<1> DEFINE T == S \ {Pick(S)}
           f == [s \in SUBSET T |-> g[s]]
<1>3. T \in SUBSET S /\ IsFiniteSet(T)
  BY FS_Subset
<1>4. Folds(f, w, T)
  BY <1>1, <1>3, FoldRestricts
<1>5. f[T] = g[T]
  OBVIOUS
<1>6. Total(w, T) = g[T]
  <2> HIDE DEF f, T
  <2> QED
    BY <1>3, <1>4, <1>5, TotalIsFold
<1> QED
  BY <1>1, <1>2, <1>6 DEF Folds

LEMMA TotalEmpty == ASSUME NEW w PROVE Total(w, {}) = 0
BY TotalByPick, FS_EmptySet

LEMMA TotalType ==
  ASSUME NEW w, NEW S, IsFiniteSet(S), \A x \in S : w[x] \in Nat
  PROVE  Total(w, S) \in Nat
<1> DEFINE B == {T \in SUBSET S : Total(w, T) \notin Nat}
<1> SUFFICES ASSUME B # {} PROVE FALSE
  OBVIOUS
<1>1. PICK T \in B : \A U \in B : U \subseteq T => U = T
  <2>1. B \in SUBSET (SUBSET S)
    OBVIOUS
  <2> HIDE DEF B
  <2> QED
    BY <2>1, SmallestSet
<1>2. T \in SUBSET S /\ Total(w, T) \notin Nat /\ IsFiniteSet(T)
  BY FS_Subset
<1>3. T # {}
  BY <1>2, TotalEmpty
<1> DEFINE U == T \ {Pick(T)}
<1>4. Pick(T) \in T /\ U \in SUBSET S /\ U # T
  BY <1>2, <1>3, PickIsMember
<1>5. Total(w, U) \in Nat
  BY <1>1, <1>4
<1>6. Total(w, T) = w[Pick(T)] + Total(w, U) /\ w[Pick(T)] \in Nat
  BY <1>2, <1>3, <1>4, TotalByPick
<1> QED
  BY <1>2, <1>5, <1>6

\* Any member may be taken first.
LEMMA TotalRemove ==
  ASSUME NEW w, NEW S, IsFiniteSet(S), \A x \in S : w[x] \in Nat, NEW y \in S
  PROVE  Total(w, S) = w[y] + Total(w, S \ {y})
<1> DEFINE Taken(T, x) == Total(w, T) = w[x] + Total(w, T \ {x})
           B == {T \in SUBSET S : \E x \in T : ~Taken(T, x)}
<1> SUFFICES ASSUME B # {} PROVE FALSE
  OBVIOUS
<1>1. PICK T \in B : \A U \in B : U \subseteq T => U = T
  <2>1. B \in SUBSET (SUBSET S)
    OBVIOUS
  <2> HIDE DEF B
  <2> QED
    BY <2>1, SmallestSet
<1>2. PICK x \in T : ~Taken(T, x)
  OBVIOUS
<1>3. T \in SUBSET S /\ IsFiniteSet(T) /\ T # {}
  BY FS_Subset
<1> DEFINE p == Pick(T)
<1>4. p \in T /\ Taken(T, p)
  BY <1>3, PickIsMember, TotalByPick
<1>5. x # p
  BY <1>2, <1>4
<1> HIDE DEF p
<1> DEFINE P == T \ {p}
           X == T \ {x}
           R == T \ {p, x}
<1>6. /\ P \in SUBSET S /\ P \subseteq T /\ P # T /\ x \in P /\ P \ {x} = R
      /\ X \in SUBSET S /\ X \subseteq T /\ X # T /\ p \in X /\ X \ {p} = R
      /\ R \in SUBSET S
  BY <1>3, <1>4, <1>5
<1>7. P \notin B /\ X \notin B
  BY <1>1, <1>6
<1>8. Taken(P, x) /\ Taken(X, p)
  BY <1>6, <1>7
<1>9. Total(w, R) \in Nat /\ w[x] \in Nat /\ w[p] \in Nat
  <2>1. IsFiniteSet(R) /\ \A z \in R : w[z] \in Nat
    BY <1>6, FS_Subset
  <2> HIDE DEF R
  <2> QED
    BY <1>3, <1>4, <2>1, TotalType
<1>10. /\ Total(w, T) = w[p] + Total(w, P) /\ Total(w, P) = w[x] + Total(w, R)
       /\ Total(w, X) = w[p] + Total(w, R)
  BY <1>4, <1>6, <1>8
<1>11. Total(w, T) # w[x] + Total(w, X)
  BY <1>2
<1> HIDE DEF P, X, R
<1> QED
  BY <1>9, <1>10, <1>11

\* A sum depends on the weights of its members only.
LEMMA TotalSame ==
  ASSUME NEW v, NEW w, NEW S, IsFiniteSet(S), \A x \in S : v[x] = w[x]
  PROVE  Total(v, S) = Total(w, S)
<1> DEFINE B == {T \in SUBSET S : Total(v, T) # Total(w, T)}
<1> SUFFICES ASSUME B # {} PROVE FALSE
  OBVIOUS
<1>1. PICK T \in B : \A U \in B : U \subseteq T => U = T
  <2>1. B \in SUBSET (SUBSET S)
    OBVIOUS
  <2> HIDE DEF B
  <2> QED
    BY <2>1, SmallestSet
<1>2. T \in SUBSET S /\ Total(v, T) # Total(w, T) /\ IsFiniteSet(T)
  BY FS_Subset
<1>3. T # {}
  BY <1>2, TotalEmpty
<1> DEFINE U == T \ {Pick(T)}
<1>4. Pick(T) \in T /\ U \in SUBSET S /\ U # T
  BY <1>2, <1>3, PickIsMember
<1>5. Total(v, U) = Total(w, U) /\ v[Pick(T)] = w[Pick(T)]
  BY <1>1, <1>2, <1>4
<1>6. /\ Total(v, T) = v[Pick(T)] + Total(v, U)
      /\ Total(w, T) = w[Pick(T)] + Total(w, U)
  BY <1>2, <1>3, TotalByPick
<1> QED
  BY <1>2, <1>5, <1>6

\* One weight is replaced.
LEMMA TotalUpdate ==
  ASSUME NEW S, IsFiniteSet(S), NEW x \in S,
         NEW v, \A y \in S : v[y] \in Nat, NEW w, \A y \in S : w[y] \in Nat,
         \A y \in S \ {x} : w[y] = v[y]
  PROVE  Total(w, S) = Total(v, S) - v[x] + w[x]
<1> DEFINE T == S \ {x}
<1>1. IsFiniteSet(T)
  BY FS_Subset
<1>2. /\ Total(v, S) = v[x] + Total(v, T) /\ Total(w, S) = w[x] + Total(w, T)
      /\ v[x] \in Nat /\ w[x] \in Nat
  BY TotalRemove
<1> HIDE DEF T
<1>3. Total(v, T) = Total(w, T) /\ Total(v, T) \in Nat
  BY <1>1, TotalSame, TotalType DEF T
<1> QED
  BY <1>2, <1>3

\* A sum whose members fit one to one below those of another is not larger.
LEMMA TotalInjection ==
  ASSUME NEW S, IsFiniteSet(S), NEW T, IsFiniteSet(T), NEW f \in [S -> T],
         \A x, y \in S : f[x] = f[y] => x = y,
         NEW v, \A x \in S : v[x] \in Nat, NEW w, \A y \in T : w[y] \in Nat,
         \A x \in S : v[x] <= w[f[x]]
  PROVE  Total(v, S) <= Total(w, T)
<1> DEFINE Fits(U) == \A V \in SUBSET T :
                         (\A x \in U : f[x] \in V) => Total(v, U) <= Total(w, V)
           B == {U \in SUBSET S : ~Fits(U)}
<1> SUFFICES ASSUME B # {} PROVE FALSE
  <2>1. S \in SUBSET S /\ T \in SUBSET T /\ (\A x \in S : f[x] \in T)
    OBVIOUS
  <2> QED
    BY <2>1
<1>1. PICK U \in B : \A R \in B : R \subseteq U => R = U
  <2>1. B \in SUBSET (SUBSET S)
    OBVIOUS
  <2> HIDE DEF B
  <2> QED
    BY <2>1, SmallestSet
<1>2. U \in SUBSET S /\ ~Fits(U) /\ IsFiniteSet(U)
  BY FS_Subset
<1>3. PICK V \in SUBSET T : (\A x \in U : f[x] \in V) /\ ~(Total(v, U) <= Total(w, V))
  BY <1>2
<1>4. IsFiniteSet(V) /\ Total(w, V) \in Nat
  BY FS_Subset, TotalType
<1>5. U # {}
  BY <1>3, <1>4, TotalEmpty
<1>6. PICK x \in U : TRUE
  BY <1>5
<1> DEFINE R == U \ {x}
           Q == V \ {f[x]}
<1>7. /\ R \in SUBSET S /\ R # U /\ Q \in SUBSET T /\ f[x] \in V
      /\ \A y \in R : f[y] \in Q
  BY <1>2, <1>3, <1>6
<1>8. Total(v, R) <= Total(w, Q)
  <2>1. R \notin B
    BY <1>1, <1>7
  <2>2. Fits(R)
    BY <1>7, <2>1
  <2> HIDE DEF R, Q
  <2> QED
    BY <1>7, <2>2
<1>9. Total(v, U) = v[x] + Total(v, R)
  BY <1>2, <1>6, TotalRemove
<1>10. Total(w, V) = w[f[x]] + Total(w, Q)
  BY <1>4, <1>7, TotalRemove
<1>11. /\ v[x] \in Nat /\ w[f[x]] \in Nat /\ v[x] <= w[f[x]]
  BY <1>2, <1>6
<1>12. Total(v, R) \in Nat /\ Total(w, Q) \in Nat
  <2>1. IsFiniteSet(R) /\ IsFiniteSet(Q)
    BY <1>2, <1>4, FS_Subset
  <2>2. (\A y \in R : v[y] \in Nat) /\ (\A y \in Q : w[y] \in Nat)
    BY <1>2
  <2> HIDE DEF R, Q
  <2> QED
    BY <2>1, <2>2, TotalType
<1> HIDE DEF R, Q
<1> QED
  BY <1>3, <1>8, <1>9, <1>10, <1>11, <1>12

\* One term is at most the sum.
LEMMA TotalBounds ==
  ASSUME NEW w, NEW S, IsFiniteSet(S), \A x \in S : w[x] \in Nat, NEW x \in S
  PROVE  w[x] <= Total(w, S)
<1>1. Total(w, S) = w[x] + Total(w, S \ {x}) /\ w[x] \in Nat
  BY TotalRemove
<1>2. IsFiniteSet(S \ {x}) /\ \A y \in S \ {x} : w[y] \in Nat
  BY FS_Subset
<1>3. Total(w, S \ {x}) \in Nat
  BY <1>2, TotalType
<1> QED
  BY <1>1, <1>3

LEMMA TotalZero ==
  ASSUME NEW w, NEW S, IsFiniteSet(S), \A x \in S : w[x] = 0
  PROVE  Total(w, S) = 0
<1> DEFINE B == {T \in SUBSET S : Total(w, T) # 0}
<1> SUFFICES ASSUME B # {} PROVE FALSE
  OBVIOUS
<1>1. PICK T \in B : \A U \in B : U \subseteq T => U = T
  <2>1. B \in SUBSET (SUBSET S)
    OBVIOUS
  <2> HIDE DEF B
  <2> QED
    BY <2>1, SmallestSet
<1>2. T \in SUBSET S /\ Total(w, T) # 0 /\ IsFiniteSet(T)
  BY FS_Subset
<1>3. T # {}
  BY <1>2, TotalEmpty
<1> DEFINE U == T \ {Pick(T)}
<1>4. Pick(T) \in T /\ U \in SUBSET S /\ U # T
  BY <1>2, <1>3, PickIsMember
<1>5. Total(w, U) = 0 /\ w[Pick(T)] = 0
  BY <1>1, <1>2, <1>4
<1>6. Total(w, T) = w[Pick(T)] + Total(w, U)
  BY <1>2, <1>3, TotalByPick
<1> QED
  BY <1>2, <1>5, <1>6

\* The sum of two weights.
LEMMA TotalAdd ==
  ASSUME NEW S, IsFiniteSet(S), NEW u, NEW v, NEW w,
         \A x \in S : u[x] \in Nat /\ v[x] \in Nat /\ w[x] = u[x] + v[x]
  PROVE  Total(w, S) = Total(u, S) + Total(v, S)
<1> DEFINE B == {T \in SUBSET S : Total(w, T) # Total(u, T) + Total(v, T)}
<1> SUFFICES ASSUME B # {} PROVE FALSE
  OBVIOUS
<1>1. PICK T \in B : \A U \in B : U \subseteq T => U = T
  <2>1. B \in SUBSET (SUBSET S)
    OBVIOUS
  <2> HIDE DEF B
  <2> QED
    BY <2>1, SmallestSet
<1>2. T \in SUBSET S /\ Total(w, T) # Total(u, T) + Total(v, T) /\ IsFiniteSet(T)
  BY FS_Subset
<1>3. T # {}
  BY <1>2, TotalEmpty
<1> DEFINE p == Pick(T)
           U == T \ {p}
<1>4. p \in T /\ U \in SUBSET S /\ U # T
  BY <1>2, <1>3, PickIsMember
<1>5. Total(w, U) = Total(u, U) + Total(v, U)
  BY <1>1, <1>2, <1>4
<1>6. /\ Total(u, T) = u[p] + Total(u, U) /\ Total(v, T) = v[p] + Total(v, U)
      /\ Total(w, T) = w[p] + Total(w, U)
  BY <1>2, <1>3, TotalByPick
<1>7. IsFiniteSet(U) /\ \A x \in U : u[x] \in Nat /\ v[x] \in Nat
  BY <1>2, FS_Subset
<1>8. u[p] \in Nat /\ v[p] \in Nat /\ w[p] = u[p] + v[p]
  BY <1>2, <1>4
<1> HIDE DEF U, p
<1>9. Total(u, U) \in Nat /\ Total(v, U) \in Nat
  BY <1>7, TotalType
<1> QED
  BY <1>2, <1>5, <1>6, <1>8, <1>9

\* Members without a weight do not count.
LEMMA TotalWithin ==
  ASSUME NEW S, IsFiniteSet(S), NEW T \in SUBSET S,
         NEW w, \A x \in S : w[x] \in Nat, \A x \in S \ T : w[x] = 0
  PROVE  Total(w, S) = Total(w, T)
<1> DEFINE B == {U \in SUBSET S : T \subseteq U /\ Total(w, U) # Total(w, T)}
<1> SUFFICES ASSUME B # {} PROVE FALSE
  OBVIOUS
<1>1. PICK U \in B : \A R \in B : R \subseteq U => R = U
  <2>1. B \in SUBSET (SUBSET S)
    OBVIOUS
  <2> HIDE DEF B
  <2> QED
    BY <2>1, SmallestSet
<1>2. U \in SUBSET S /\ T \subseteq U /\ Total(w, U) # Total(w, T) /\ IsFiniteSet(U)
  BY FS_Subset
<1>3. PICK x \in U : x \notin T
  BY <1>2
<1> DEFINE R == U \ {x}
<1>4. R \in SUBSET S /\ T \subseteq R /\ R # U
  BY <1>2, <1>3
<1>5. Total(w, R) = Total(w, T)
  BY <1>1, <1>2, <1>4
<1>6. Total(w, U) = w[x] + Total(w, R) /\ w[x] = 0
  BY <1>2, <1>3, TotalRemove
<1>7. IsFiniteSet(R) /\ \A y \in R : w[y] \in Nat
  BY <1>2, FS_Subset
<1> HIDE DEF R
<1>8. Total(w, R) \in Nat
  BY <1>7, TotalType
<1> QED
  BY <1>2, <1>5, <1>6, <1>8

-----------------------------------------------------------------------------
(* The plan.                                                                *)

LEMMA LargestNumber ==
  ASSUME NEW F, IsFiniteSet(F), \A n \in F : n \in Nat, F # {}
  PROVE  Max(F) \in F /\ \A n \in F : n <= Max(F)
<1> DEFINE Bounded(T) == T # {} => \E m \in T : \A n \in T : m >= n
           B == {T \in SUBSET F : ~Bounded(T)}
<1>1. B = {}
  <2> SUFFICES ASSUME B # {} PROVE FALSE
    OBVIOUS
  <2>0. B \in SUBSET (SUBSET F)
    OBVIOUS
  <2> HIDE DEF B
  <2>1. PICK T \in B : \A U \in B : U \subseteq T => U = T
    BY <2>0, SmallestSet
  <2> USE DEF B
  <2>2. T \in SUBSET F /\ ~Bounded(T)
    OBVIOUS
  <2>3. PICK x \in T : TRUE
    BY <2>2
  <2> DEFINE U == T \ {x}
  <2>4. U \in SUBSET F /\ Bounded(U)
    <3>1. U \in SUBSET F /\ U \subseteq T /\ U # T
      BY <2>2, <2>3
    <3>2. U \notin B
      BY <2>1, <3>1, Zenon
    <3> QED
      BY <3>1, <3>2, Zenon
  <2>5. CASE U = {}
    BY <2>2, <2>3, <2>5
  <2>6. CASE U # {}
    <3>1. PICK m \in U : \A n \in U : m >= n
      BY <2>4, <2>6
    <3>2. m \in Nat /\ x \in Nat /\ \A n \in T : n \in Nat /\ (n \in U \/ n = x)
      BY <2>2, <2>3
    <3>3. (\A n \in T : m >= n) \/ (\A n \in T : x >= n)
      BY <3>1, <3>2
    <3> QED
      BY <2>2, <2>3, <3>1, <3>3
  <2> QED
    BY <2>5, <2>6
<1>2. Bounded(F)
  BY <1>1
<1>3. Max(F) \in F /\ \A n \in F : Max(F) >= n
  BY <1>2, Zenon DEF Max
<1>4. \A n \in F : n \in Nat /\ Max(F) \in Nat
  BY <1>3
<1> QED
  BY <1>3, <1>4

LEMMA FiniteImage ==
  ASSUME NEW S, IsFiniteSet(S), NEW f, f = [x \in S |-> f[x]]
  PROVE  IsFiniteSet({f[x] : x \in S})
<1> DEFINE T == {f[x] : x \in S}
<1>1. f \in Surjection(S, T)
  BY DEF Surjection
<1> QED
  BY <1>1, FS_Surjection

\* What a group of S is backed with, and the groups of S.
Backing(S) ==
    [k \in {AliasKey(i) : i \in S} |-> Max({i.upper : i \in {j \in S : AliasKey(j) = k}})]

LEMMA GroupsFinite ==
  ASSUME NEW S, IsFiniteSet(S)
  PROVE  IsFiniteSet(DOMAIN Backing(S))
<1> DEFINE f == [i \in S |-> AliasKey(i)]
<1>1. IsFiniteSet({f[i] : i \in S})
  <2>1. f = [i \in S |-> f[i]]
    OBVIOUS
  <2> HIDE DEF f
  <2> QED
    BY <2>1, FiniteImage
<1>2. DOMAIN Backing(S) = {f[i] : i \in S}
  BY DEF Backing
<1> QED
  BY <1>1, <1>2

LEMMA BackingCovers ==
  ASSUME NEW S, IsFiniteSet(S), \A i \in S : i.upper \in Nat
  PROVE  /\ \A k \in DOMAIN Backing(S) : Backing(S)[k] \in Nat
         /\ \A i \in S : AliasKey(i) \in DOMAIN Backing(S)
                         /\ i.upper <= Backing(S)[AliasKey(i)]
<1> DEFINE Members(k) == {j \in S : AliasKey(j) = k}
           Uppers(k) == {i.upper : i \in Members(k)}
<1>1. ASSUME NEW k \in DOMAIN Backing(S)
      PROVE  /\ Backing(S)[k] = Max(Uppers(k)) /\ Backing(S)[k] \in Nat
             /\ \A i \in Members(k) : i.upper <= Backing(S)[k]
  <2>1. Backing(S)[k] = Max(Uppers(k)) /\ Members(k) # {}
    BY DEF Backing
  <2>2. IsFiniteSet(Uppers(k))
    <3>1. IsFiniteSet(Members(k))
      BY FS_Subset
    <3> DEFINE f == [i \in Members(k) |-> i.upper]
    <3>2. f = [i \in Members(k) |-> f[i]] /\ Uppers(k) = {f[i] : i \in Members(k)}
      OBVIOUS
    <3> HIDE DEF f, Members, Uppers
    <3> QED
      BY <3>1, <3>2, FiniteImage
  <2>3. (\A n \in Uppers(k) : n \in Nat) /\ Uppers(k) # {} /\ \A i \in Members(k) : i.upper \in Uppers(k)
    BY <2>1
  <2> HIDE DEF Uppers
  <2>4. Max(Uppers(k)) \in Uppers(k) /\ \A n \in Uppers(k) : n <= Max(Uppers(k))
    BY <2>2, <2>3, LargestNumber
  <2> QED
    BY <2>1, <2>3, <2>4
<1>2. \A i \in S : AliasKey(i) \in DOMAIN Backing(S) /\ i \in Members(AliasKey(i))
  BY DEF Backing
<1> HIDE DEF Members, Uppers
<1> QED
  BY <1>1, <1>2

LEMMA LiveBytesIsTotal ==
  ASSUME NEW S, IsFiniteSet(S)
  PROVE  LiveBytes(S) = Total(Backing(S), DOMAIN Backing(S))
<1> DEFINE K == {AliasKey(i) : i \in S}
           it == CHOOSE g : g = [s \in SUBSET K |->
                     IF s = {} THEN 0
                     ELSE Max({i.upper : i \in {j \in S : AliasKey(j) = Pick(s)}})
                              + g[s \ {Pick(s)}]]
<1>1. DOMAIN Backing(S) = K
  BY DEF Backing
<1>2. IsFiniteSet(K)
  BY <1>1, GroupsFinite
<1>3. LiveBytes(S) = it[K]
  BY Zenon DEF LiveBytes, MapThenSumSet, MapThenFoldSet, Pick
<1>4. ASSUME NEW g
      PROVE  Folds(g, Backing(S), K) <=>
                 g = [s \in SUBSET K |->
                     IF s = {} THEN 0
                     ELSE Max({i.upper : i \in {j \in S : AliasKey(j) = Pick(s)}})
                              + g[s \ {Pick(s)}]]
  <2>1. \A s \in SUBSET K : s # {} =>
           Backing(S)[Pick(s)] = Max({i.upper : i \in {j \in S : AliasKey(j) = Pick(s)}})
    <3> SUFFICES ASSUME NEW s \in SUBSET K, s # {}
                 PROVE  Backing(S)[Pick(s)]
                          = Max({i.upper : i \in {j \in S : AliasKey(j) = Pick(s)}})
      OBVIOUS
    <3>1. Pick(s) \in K
      BY PickIsMember
    <3> QED
      BY <3>1, Zenon DEF Backing
  <2>2. \A s \in SUBSET K :
           (IF s = {} THEN 0 ELSE Backing(S)[Pick(s)] + g[s \ {Pick(s)}])
         = (IF s = {} THEN 0
            ELSE Max({i.upper : i \in {j \in S : AliasKey(j) = Pick(s)}}) + g[s \ {Pick(s)}])
    BY <2>1, Zenon
  <2> HIDE DEF K
  <2> QED
    BY <2>2, Zenon DEF Folds
<1>5. PICK h : Folds(h, Backing(S), K)
  BY <1>2, FoldExists
<1>6. Folds(it, Backing(S), K)
  BY <1>4, <1>5, Zenon
<1> HIDE DEF it, K
<1> QED
  BY <1>1, <1>2, <1>3, <1>6, TotalIsFold

LEMMA EpochsFinite ==
  ASSUME NEW M, IsFiniteSet(M)
  PROVE  IsFiniteSet(Epochs(M))
<1> DEFINE b == [i \in M |-> i.begin]
           e == [i \in M |-> i.end]
<1>1. b = [i \in M |-> b[i]] /\ e = [i \in M |-> e[i]]
  OBVIOUS
<1>2. Epochs(M) = {0} \union {b[i] : i \in M} \union {e[i] : i \in M}
  BY DEF Epochs
<1> HIDE DEF b, e
<1>3. IsFiniteSet({b[i] : i \in M})
  BY <1>1, FiniteImage
<1>4. IsFiniteSet({e[i] : i \in M})
  BY <1>1, FiniteImage
<1>5. IsFiniteSet({0})
  BY FS_Singleton
<1>6. IsFiniteSet({0} \union {b[i] : i \in M})
  BY <1>3, <1>5, FS_Union
<1> QED
  BY <1>2, <1>4, <1>6, FS_Union

Bounds(M) == \A i \in M : i.upper \in Nat

LEMMA LiveBytesType ==
  ASSUME NEW M, IsFiniteSet(M), Bounds(M), NEW e
  PROVE  LiveBytes(LiveAt(M, e)) \in Nat
<1> DEFINE S == LiveAt(M, e)
<1>1. S \in SUBSET M /\ IsFiniteSet(S) /\ \A i \in S : i.upper \in Nat
  BY FS_Subset DEF LiveAt, Bounds
<1> HIDE DEF S
<1>2. IsFiniteSet(DOMAIN Backing(S)) /\ \A k \in DOMAIN Backing(S) : Backing(S)[k] \in Nat
  BY <1>1, GroupsFinite, BackingCovers
<1>3. Total(Backing(S), DOMAIN Backing(S)) \in Nat
  BY <1>2, TotalType
<1> QED
  BY <1>1, <1>3, LiveBytesIsTotal DEF S

(* The peak of a plan is a number, and no epoch of the plan exceeds it.     *)
LEMMA PeakIsLargest ==
  ASSUME NEW M, IsFiniteSet(M), Bounds(M)
  PROVE  /\ PeakBytes(M) \in Nat
         /\ \A e \in Epochs(M) : LiveBytes(LiveAt(M, e)) <= PeakBytes(M)
<1> DEFINE f == [e \in Epochs(M) |-> LiveBytes(LiveAt(M, e))]
           F == {0} \union {f[e] : e \in Epochs(M)}
<1>1. f = [e \in Epochs(M) |-> f[e]] /\ \A e \in Epochs(M) : f[e] = LiveBytes(LiveAt(M, e))
  OBVIOUS
<1>2. PeakBytes(M) = Max(F)
  BY DEF PeakBytes
<1>3. \A e \in Epochs(M) : f[e] \in Nat
  BY LiveBytesType
<1> HIDE DEF f
<1>4. IsFiniteSet(F)
  <2>1. IsFiniteSet({f[e] : e \in Epochs(M)})
    BY <1>1, EpochsFinite, FiniteImage
  <2>2. IsFiniteSet({0})
    BY FS_Singleton
  <2> QED
    BY <2>1, <2>2, FS_Union
<1>5. (\A n \in F : n \in Nat) /\ F # {} /\ \A e \in Epochs(M) : f[e] \in F
  BY <1>3
<1> HIDE DEF F
<1>6. Max(F) \in F /\ \A n \in F : n <= Max(F)
  BY <1>4, <1>5, LargestNumber
<1> QED
  BY <1>1, <1>2, <1>5, <1>6

(* compile_memory_plan and what it is for: buffers of S are charged v for   *)
(* instances f that are live at e and share no alias group; together with   *)
(* n more bytes for another live instance they stay within the peak.        *)
LEMMA PeakCovers ==
  ASSUME NEW M, IsFiniteSet(M), Bounds(M), NEW e \in Epochs(M),
         NEW S, IsFiniteSet(S), NEW f \in [S -> LiveAt(M, e)],
         \A x, y \in S : AliasKey(f[x]) = AliasKey(f[y]) => x = y,
         NEW v, \A x \in S : v[x] \in Nat /\ v[x] <= f[x].upper,
         NEW i \in LiveAt(M, e), \A x \in S : AliasKey(f[x]) # AliasKey(i),
         NEW n \in Nat, n <= i.upper
  PROVE  n + Total(v, S) <= PeakBytes(M)
<1> DEFINE L == LiveAt(M, e)
           W == Backing(L)
           K == DOMAIN W
           g == [x \in S |-> AliasKey(f[x])]
           k == AliasKey(i)
           R == K \ {k}
<1>1. L \in SUBSET M /\ IsFiniteSet(L) /\ \A j \in L : j.upper \in Nat
  BY FS_Subset DEF LiveAt, Bounds
<1> HIDE DEF L
<1>2. /\ IsFiniteSet(K) /\ \A l \in K : W[l] \in Nat
      /\ \A j \in L : AliasKey(j) \in K /\ j.upper <= W[AliasKey(j)]
  BY <1>1, GroupsFinite, BackingCovers
<1> HIDE DEF W
<1>3. Total(W, K) <= PeakBytes(M) /\ PeakBytes(M) \in Nat
  BY <1>1, PeakIsLargest, LiveBytesIsTotal DEF L, W
<1>4. k \in K /\ i.upper <= W[k] /\ i.upper \in Nat
  BY <1>1, <1>2 DEF L
<1>5. Total(W, K) = W[k] + Total(W, R)
  BY <1>2, <1>4, TotalRemove
<1>6. IsFiniteSet(R) /\ \A l \in R : W[l] \in Nat
  BY <1>2, FS_Subset
<1>7. \A x \in S : /\ g[x] = AliasKey(f[x]) /\ g[x] \in R
                   /\ f[x].upper \in Nat /\ f[x].upper <= W[g[x]]
  <2> SUFFICES ASSUME NEW x \in S
               PROVE  /\ g[x] = AliasKey(f[x]) /\ g[x] \in R
                      /\ f[x].upper \in Nat /\ f[x].upper <= W[g[x]]
    OBVIOUS
  <2>1. f[x] \in L /\ g[x] = AliasKey(f[x])
    BY DEF L
  <2> QED
    BY <1>1, <1>2, <2>1
<1>8. g \in [S -> R] /\ \A x, y \in S : g[x] = g[y] => x = y
  BY <1>7
<1> HIDE DEF g, k, R, K
<1>9. \A x \in S : v[x] \in Nat /\ v[x] <= W[g[x]]
  <2> SUFFICES ASSUME NEW x \in S PROVE v[x] \in Nat /\ v[x] <= W[g[x]]
    OBVIOUS
  <2>1. v[x] \in Nat /\ v[x] <= f[x].upper
    OBVIOUS
  <2>2. W[g[x]] \in Nat /\ f[x].upper \in Nat /\ f[x].upper <= W[g[x]]
    BY <1>6, <1>7
  <2> QED
    BY <2>1, <2>2
<1>10. Total(v, S) <= Total(W, R)
  BY <1>6, <1>8, <1>9, TotalInjection
<1>11. Total(v, S) \in Nat /\ Total(W, R) \in Nat
  BY <1>6, <1>9, TotalType
<1>12. W[k] \in Nat
  BY <1>2, <1>4
<1> QED
  BY <1>3, <1>4, <1>5, <1>10, <1>11, <1>12
===============================================================================
