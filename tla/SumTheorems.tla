---------------------------- MODULE SumTheorems ----------------------------
(***************************************************************************)
(* What SumFunctionOnSet (module Functions) computes on finite sets: the   *)
(* facts about sums that the proofs of the components rest on.  The        *)
(* library states induction for an operator; here it is the existence of a *)
(* smallest counterexample, which needs none.                              *)
(***************************************************************************)
EXTENDS Integers, FiniteSets, Functions, FiniteSetTheorems, TLAPS

\* The element the fold takes next, one step of the fold, and the function on
\* the subsets of S that the recursion defines.
SumPick(s) == CHOOSE x \in s : TRUE
SumStep(f, g, s) == IF s = {} THEN 0 ELSE f[SumPick(s)] + g[s \ {SumPick(s)}]
SumSolves(f, g, S) == g = [s \in SUBSET S |-> SumStep(f, g, s)]
SumIter(f, S) == CHOOSE g : SumSolves(f, g, S)

\* The community operator is that recursion.
LEMMA SumIsIter == \A f, S : SumFunctionOnSet(f, S) = SumIter(f, S)[S]
BY DEF SumFunctionOnSet, FoldFunctionOnSet, MapThenFoldSet, SumIter, SumSolves, SumStep, SumPick

\* Induction over finite sets as a smallest counterexample: a nonempty set of
\* subsets of a finite set has a member that contains no other.
LEMMA SmallestSubset ==
  ASSUME NEW S, IsFiniteSet(S), NEW T, T \subseteq SUBSET S, T # {}
  PROVE \E X \in T : \A Y \in T : ~(Y \subseteq X /\ Y # X)
<1>1. IsWellFoundedOn(StrictSubsetOrdering(S), SUBSET S)
  BY FS_StrictSubsetOrderingWellFounded, FS_FiniteSubsetsOfFinite
<1>2. PICK X \in T : \A Y \in T : ~(<<Y, X>> \in StrictSubsetOrdering(S))
  BY <1>1, WFMin
<1> QED
  BY <1>2 DEF StrictSubsetOrdering

\* What is picked is an element, and the rest is smaller.
LEMMA SumPicked ==
    \A s : s # {} => SumPick(s) \in s /\ s \ {SumPick(s)} \subseteq s /\ s \ {SumPick(s)} # s
BY DEF SumPick

\* Two solutions of the recursion agree where both are defined.
LEMMA SumUnique ==
  ASSUME NEW f, NEW X, NEW Y, NEW g, NEW h, SumSolves(f, g, X), SumSolves(f, h, Y),
         NEW S, IsFiniteSet(S), S \subseteq X, S \subseteq Y
  PROVE g[S] = h[S]
<1> DEFINE T == {s \in SUBSET S : g[s] # h[s]}
<1> SUFFICES ASSUME T # {} PROVE FALSE
  OBVIOUS
<1>0. T \subseteq SUBSET S
  OBVIOUS
<1> HIDE DEF T
<1>1. PICK s \in T : \A t \in T : ~(t \subseteq s /\ t # s)
  BY <1>0, SmallestSubset
<1> USE DEF T
<1>2. g[s] = SumStep(f, g, s) /\ h[s] = SumStep(f, h, s)
  BY DEF SumSolves
<1>3. CASE s = {}
  BY <1>2, <1>3 DEF SumStep
<1>4. CASE s # {}
  <2>1. g[s \ {SumPick(s)}] = h[s \ {SumPick(s)}]
    BY <1>1, <1>4, SumPicked
  <2> QED
    BY <1>2, <1>4, <2>1 DEF SumStep
<1> QED
  BY <1>3, <1>4

\* The recursion has a solution on every finite set.
LEMMA SumExists ==
  ASSUME NEW f, NEW S, IsFiniteSet(S)
  PROVE SumSolves(f, SumIter(f, S), S)
<1> SUFFICES \E g : SumSolves(f, g, S)
  BY DEF SumIter
<1> DEFINE T == {s \in SUBSET S : ~ \E g : SumSolves(f, g, s)}
<1> SUFFICES ASSUME T # {} PROVE FALSE
  OBVIOUS
<1>0. T \subseteq SUBSET S
  OBVIOUS
<1> HIDE DEF T
<1>1. PICK X \in T : \A t \in T : ~(t \subseteq X /\ t # X)
  BY <1>0, SmallestSubset
<1> USE DEF T
<1>2. \A t \in SUBSET X : t # X => SumSolves(f, SumIter(f, t), t)
  BY <1>1 DEF SumIter
<1> DEFINE G == [s \in SUBSET X |-> IF s = {} THEN 0 ELSE
                   f[SumPick(s)] + SumIter(f, s \ {SumPick(s)})[s \ {SumPick(s)}]]
<1>3. ASSUME NEW t \in SUBSET X, t # X PROVE G[t] = SumIter(f, t)[t]
  <2>1. SumSolves(f, SumIter(f, t), t)
    BY <1>2, <1>3
  <2>2. SumIter(f, t)[t] = SumStep(f, SumIter(f, t), t)
    BY <2>1 DEF SumSolves
  <2>3. CASE t = {}
    BY <2>2, <2>3 DEF SumStep
  <2>4. CASE t # {}
    <3> DEFINE u == t \ {SumPick(t)}
    <3>1. u \subseteq t /\ u # t /\ u \in SUBSET X /\ u # X
      BY <1>3, <2>4, SumPicked
    <3>2. SumSolves(f, SumIter(f, u), u)
      BY <1>2, <3>1
    <3>3. IsFiniteSet(u)
      BY <3>1, <1>0, <1>1, FS_Subset
    <3>4. SumIter(f, t)[u] = SumIter(f, u)[u]
      BY <2>1, <3>1, <3>2, <3>3, SumUnique
    <3>5. G[t] = f[SumPick(t)] + SumIter(f, u)[u]
      BY <2>4
    <3>6. SumIter(f, t)[t] = f[SumPick(t)] + SumIter(f, t)[u]
      BY <2>2, <2>4 DEF SumStep
    <3> QED
      BY <3>4, <3>5, <3>6
  <2> QED
    BY <2>3, <2>4
<1>4. ASSUME NEW s \in SUBSET X PROVE G[s] = SumStep(f, G, s)
  <2>1. CASE s = {}
    BY <2>1 DEF SumStep
  <2>2. CASE s # {}
    <3>1. s \ {SumPick(s)} \in SUBSET X /\ s \ {SumPick(s)} # X
      BY <2>2, SumPicked
    <3>2. G[s \ {SumPick(s)}] = SumIter(f, s \ {SumPick(s)})[s \ {SumPick(s)}]
      BY <1>3, <3>1
    <3>3. G[s] = f[SumPick(s)] + SumIter(f, s \ {SumPick(s)})[s \ {SumPick(s)}]
      BY <2>2
    <3> QED
      BY <2>2, <3>2, <3>3 DEF SumStep
  <2> QED
    BY <2>1, <2>2
<1>5. G = [s \in SUBSET X |-> G[s]]
  OBVIOUS
<1> HIDE DEF G
<1>6. SumSolves(f, G, X)
  BY <1>4, <1>5 DEF SumSolves
<1> QED
  BY <1>1, <1>6

\* The recursion equation of SumFunctionOnSet.
LEMMA SumUnfolds ==
  ASSUME NEW f, NEW S, IsFiniteSet(S)
  PROVE  /\ S = {} => SumFunctionOnSet(f, S) = 0
         /\ S # {} => SumFunctionOnSet(f, S) =
                         f[SumPick(S)] + SumFunctionOnSet(f, S \ {SumPick(S)})
<1>1. SumSolves(f, SumIter(f, S), S)
  BY SumExists
<1>2. SumFunctionOnSet(f, S) = SumStep(f, SumIter(f, S), S)
  BY <1>1, SumIsIter DEF SumSolves
<1>3. CASE S = {}
  BY <1>2, <1>3 DEF SumStep
<1>4. CASE S # {}
  <2> DEFINE u == S \ {SumPick(S)}
  <2>1. u \subseteq S /\ IsFiniteSet(u)
    BY FS_Subset
  <2>2. SumSolves(f, SumIter(f, u), u)
    BY <2>1, SumExists
  <2>3. SumIter(f, S)[u] = SumIter(f, u)[u]
    BY <1>1, <2>1, <2>2, SumUnique
  <2>4. SumFunctionOnSet(f, S) = f[SumPick(S)] + SumIter(f, S)[u]
    BY <1>2, <1>4 DEF SumStep
  <2>5. SumFunctionOnSet(f, u) = SumIter(f, u)[u]
    BY SumIsIter
  <2> QED
    BY <1>4, <2>3, <2>4, <2>5
<1> QED
  BY <1>3, <1>4

-----------------------------------------------------------------------------
(* The facts to cite. *)

\* The empty sum.
LEMMA SumEmpty == ASSUME NEW f PROVE SumFunctionOnSet(f, {}) = 0
BY SumUnfolds, FS_EmptySet

\* A sum of integers is an integer.
LEMMA SumInt ==
    ASSUME NEW f, NEW S, IsFiniteSet(S), \A x \in S : f[x] \in Int
    PROVE  SumFunctionOnSet(f, S) \in Int
<1> DEFINE T == {s \in SUBSET S : SumFunctionOnSet(f, s) \notin Int}
<1> SUFFICES ASSUME T # {} PROVE FALSE
  OBVIOUS
<1>0. T \subseteq SUBSET S
  OBVIOUS
<1> HIDE DEF T
<1>1. PICK s \in T : \A t \in T : ~(t \subseteq s /\ t # s)
  BY <1>0, SmallestSubset
<1>2. IsFiniteSet(s) /\ s \subseteq S /\ SumFunctionOnSet(f, s) \notin Int
  BY <1>0, <1>1, FS_Subset DEF T
<1>3. CASE s = {}
  BY <1>2, <1>3, SumEmpty
<1>4. CASE s # {}
  <2> DEFINE u == s \ {SumPick(s)}
  <2>1. SumPick(s) \in S /\ u \subseteq s /\ u # s /\ u \in SUBSET S
    BY <1>2, <1>4, SumPicked
  <2>2. SumFunctionOnSet(f, u) \in Int
    BY <1>1, <2>1 DEF T
  <2>3. SumFunctionOnSet(f, s) = f[SumPick(s)] + SumFunctionOnSet(f, u)
    BY <1>2, <1>4, SumUnfolds
  <2> QED
    BY <1>2, <2>1, <2>2, <2>3
<1> QED
  BY <1>3, <1>4

\* Any element can be taken out first: the order of a sum does not matter.
LEMMA SumRemove ==
    ASSUME NEW f, NEW S, IsFiniteSet(S), \A x \in S : f[x] \in Int, NEW x \in S
    PROVE  SumFunctionOnSet(f, S) = f[x] + SumFunctionOnSet(f, S \ {x})
<1> DEFINE Out(s, y) == SumFunctionOnSet(f, s) = f[y] + SumFunctionOnSet(f, s \ {y})
           T == {s \in SUBSET S : \E y \in s : ~Out(s, y)}
<1> SUFFICES ASSUME T # {} PROVE FALSE
  OBVIOUS
<1>0. T \subseteq SUBSET S
  OBVIOUS
<1> HIDE DEF T
<1>1. PICK s \in T : \A t \in T : ~(t \subseteq s /\ t # s)
  BY <1>0, SmallestSubset
<1>2. PICK y \in s : ~Out(s, y)
  BY <1>1 DEF T
<1> DEFINE c == SumPick(s)  u == s \ {c}  v == s \ {y}
<1>3. s \subseteq S /\ IsFiniteSet(s) /\ c \in s
  BY <1>0, <1>1, <1>2, FS_Subset, SumPicked
<1>4. SumFunctionOnSet(f, s) = f[c] + SumFunctionOnSet(f, u)
  BY <1>2, <1>3, SumUnfolds
<1>5. y # c
  BY <1>2, <1>4
<1>6. y \in u /\ c \in v /\ u \ {y} = v \ {c}
  BY <1>2, <1>3, <1>5
<1>7. Out(u, y) /\ Out(v, c)
  <2>1. u \in SUBSET S /\ u \subseteq s /\ u # s /\ v \in SUBSET S /\ v \subseteq s /\ v # s
    BY <1>2, <1>3
  <2>2. u \notin T /\ v \notin T
    BY <1>1, <2>1
  <2> QED
    BY <1>6, <2>1, <2>2 DEF T
<1>8. /\ f[c] \in Int /\ f[y] \in Int
      /\ SumFunctionOnSet(f, u \ {y}) \in Int
  <2>1. IsFiniteSet(u \ {y}) /\ u \ {y} \subseteq S
    BY <1>3, FS_Subset
  <2> QED
    BY <1>2, <1>3, <2>1, SumInt
<1>9. SumFunctionOnSet(f, s) = f[c] + (f[y] + SumFunctionOnSet(f, u \ {y}))
  BY <1>4, <1>7
<1>10. SumFunctionOnSet(f, v) = f[c] + SumFunctionOnSet(f, u \ {y})
  BY <1>6, <1>7
<1>11. SumFunctionOnSet(f, s) = f[y] + SumFunctionOnSet(f, v)
  <2> HIDE DEF u, v, c
  <2> QED
    BY <1>8, <1>9, <1>10
<1> QED
  BY <1>2, <1>11

\* A new element adds its value.
LEMMA SumAdd ==
    ASSUME NEW f, NEW S, IsFiniteSet(S), NEW x, x \notin S,
           \A y \in S \cup {x} : f[y] \in Int
    PROVE  SumFunctionOnSet(f, S \cup {x}) = f[x] + SumFunctionOnSet(f, S)
<1>1. IsFiniteSet(S \cup {x}) /\ (S \cup {x}) \ {x} = S
  BY FS_AddElement
<1> QED
  BY <1>1, SumRemove

\* Functions that agree on a set have the same sum there.
LEMMA SumSame ==
    ASSUME NEW f, NEW g, NEW S, IsFiniteSet(S), \A x \in S : f[x] = g[x]
    PROVE  SumFunctionOnSet(f, S) = SumFunctionOnSet(g, S)
<1> DEFINE T == {s \in SUBSET S : SumFunctionOnSet(f, s) # SumFunctionOnSet(g, s)}
<1> SUFFICES ASSUME T # {} PROVE FALSE
  OBVIOUS
<1>0. T \subseteq SUBSET S
  OBVIOUS
<1> HIDE DEF T
<1>1. PICK s \in T : \A t \in T : ~(t \subseteq s /\ t # s)
  BY <1>0, SmallestSubset
<1>2. IsFiniteSet(s) /\ s \subseteq S /\ SumFunctionOnSet(f, s) # SumFunctionOnSet(g, s)
  BY <1>0, <1>1, FS_Subset DEF T
<1>3. CASE s = {}
  BY <1>2, <1>3, SumUnfolds
<1>4. CASE s # {}
  <2> DEFINE u == s \ {SumPick(s)}
  <2>1. f[SumPick(s)] = g[SumPick(s)] /\ u \subseteq s /\ u # s /\ u \in SUBSET S
    BY <1>2, <1>4, SumPicked
  <2>2. SumFunctionOnSet(f, u) = SumFunctionOnSet(g, u)
    BY <1>1, <2>1 DEF T
  <2>3. /\ SumFunctionOnSet(f, s) = f[SumPick(s)] + SumFunctionOnSet(f, u)
        /\ SumFunctionOnSet(g, s) = g[SumPick(s)] + SumFunctionOnSet(g, u)
    BY <1>2, <1>4, SumUnfolds
  <2> QED
    BY <1>2, <2>1, <2>2, <2>3
<1> QED
  BY <1>3, <1>4

\* A function that changes at one element changes the sum by as much.
LEMMA SumChange ==
    ASSUME NEW f, NEW g, NEW S, IsFiniteSet(S), NEW x \in S,
           \A y \in S : f[y] \in Int /\ g[y] \in Int,
           \A y \in S \ {x} : g[y] = f[y]
    PROVE  SumFunctionOnSet(g, S) = SumFunctionOnSet(f, S) - f[x] + g[x]
<1> DEFINE rest == SumFunctionOnSet(f, S \ {x})
<1>1. IsFiniteSet(S \ {x})
  BY FS_Subset
<1>2. SumFunctionOnSet(g, S \ {x}) = rest /\ rest \in Int
  BY <1>1, SumSame, SumInt
<1>3. SumFunctionOnSet(f, S) = f[x] + rest
  BY SumRemove
<1>4. SumFunctionOnSet(g, S) = g[x] + rest
  BY <1>2, SumRemove
<1> HIDE DEF rest
<1> QED
  BY <1>2, <1>3, <1>4

\* A sum of natural numbers is a natural number, and at least each of them.
LEMMA SumNat ==
    ASSUME NEW f, NEW S, IsFiniteSet(S), \A x \in S : f[x] \in Nat
    PROVE  /\ SumFunctionOnSet(f, S) \in Nat
           /\ \A x \in S : f[x] <= SumFunctionOnSet(f, S)
<1> DEFINE T == {s \in SUBSET S : SumFunctionOnSet(f, s) \notin Nat}
<1>1. T = {}
  <2> SUFFICES ASSUME T # {} PROVE FALSE
    OBVIOUS
  <2>0. T \subseteq SUBSET S
    OBVIOUS
  <2> HIDE DEF T
  <2>1. PICK s \in T : \A t \in T : ~(t \subseteq s /\ t # s)
    BY <2>0, SmallestSubset
  <2>2. IsFiniteSet(s) /\ s \subseteq S /\ SumFunctionOnSet(f, s) \notin Nat
    BY <2>0, <2>1, FS_Subset DEF T
  <2>3. CASE s = {}
    BY <2>2, <2>3, SumEmpty
  <2>4. CASE s # {}
    <3> DEFINE u == s \ {SumPick(s)}
    <3>1. SumPick(s) \in S /\ u \subseteq s /\ u # s /\ u \in SUBSET S
      BY <2>2, <2>4, SumPicked
    <3>2. SumFunctionOnSet(f, u) \in Nat
      BY <2>1, <3>1 DEF T
    <3>3. SumFunctionOnSet(f, s) = f[SumPick(s)] + SumFunctionOnSet(f, u)
      BY <2>2, <2>4, SumUnfolds
    <3> QED
      BY <2>2, <3>1, <3>2, <3>3
  <2> QED
    BY <2>3, <2>4
<1>2. \A s \in SUBSET S : SumFunctionOnSet(f, s) \in Nat
  BY <1>1
<1>3. ASSUME NEW x \in S PROVE f[x] <= SumFunctionOnSet(f, S)
  <2>1. SumFunctionOnSet(f, S) = f[x] + SumFunctionOnSet(f, S \ {x})
    BY SumRemove
  <2>2. SumFunctionOnSet(f, S \ {x}) \in Nat /\ f[x] \in Nat
    BY <1>2
  <2> QED
    BY <2>1, <2>2
<1> QED
  BY <1>2, <1>3

\* A sum is the sum over a part and over the rest.
LEMMA SumSplit ==
    ASSUME NEW f, NEW S, IsFiniteSet(S), \A x \in S : f[x] \in Int, NEW U
    PROVE  SumFunctionOnSet(f, S) = SumFunctionOnSet(f, S \cap U) + SumFunctionOnSet(f, S \ U)
<1> DEFINE Splits(s) ==
             SumFunctionOnSet(f, s) = SumFunctionOnSet(f, s \cap U) + SumFunctionOnSet(f, s \ U)
           T == {s \in SUBSET S : ~Splits(s)}
<1> SUFFICES ASSUME T # {} PROVE FALSE
  OBVIOUS
<1>0. T \subseteq SUBSET S
  OBVIOUS
<1> HIDE DEF T
<1>1. PICK s \in T : \A t \in T : ~(t \subseteq s /\ t # s)
  BY <1>0, SmallestSubset
<1>2. IsFiniteSet(s) /\ s \subseteq S /\ ~Splits(s)
  BY <1>0, <1>1, FS_Subset DEF T
<1>3. CASE s = {}
  <2>1. s \cap U = {} /\ s \ U = {}
    BY <1>3
  <2> QED
    BY <1>2, <1>3, <2>1, SumEmpty
<1>4. CASE s # {}
  <2>1. PICK x \in s : TRUE
    BY <1>4
  <2> DEFINE u == s \ {x}
             a == SumFunctionOnSet(f, u \cap U)
             b == SumFunctionOnSet(f, u \ U)
  <2>2. u \subseteq s /\ u # s /\ u \in SUBSET S
    BY <1>2, <2>1
  <2>3. Splits(u)
    <3> HIDE DEF Splits
    <3> QED
      BY <1>1, <2>2 DEF T
  <2>4. /\ IsFiniteSet(u \cap U) /\ IsFiniteSet(u \ U)
        /\ IsFiniteSet(s \cap U) /\ IsFiniteSet(s \ U)
    BY <1>2, FS_Subset
  <2>5. a \in Int /\ b \in Int /\ f[x] \in Int
    <3>1. /\ \A y \in u \cap U : f[y] \in Int
          /\ \A y \in u \ U : f[y] \in Int
      BY <2>2
    <3> QED
      BY <1>2, <2>1, <2>4, <3>1, SumInt
  <2>6. SumFunctionOnSet(f, s) = f[x] + SumFunctionOnSet(f, u)
    BY <1>2, <2>1, SumRemove
  <2>7. CASE x \in U
    <3>1. (s \cap U) \ {x} = u \cap U /\ s \ U = u \ U /\ x \in s \cap U
      BY <2>1, <2>7
    <3>2. SumFunctionOnSet(f, s \cap U) = f[x] + SumFunctionOnSet(f, (s \cap U) \ {x})
      BY <1>2, <2>4, <3>1, SumRemove
    <3>3. SumFunctionOnSet(f, s \cap U) = f[x] + a /\ SumFunctionOnSet(f, s \ U) = b
      BY <3>1, <3>2
    <3> HIDE DEF u, a, b
    <3> QED
      BY <1>2, <2>3, <2>5, <2>6, <3>3 DEF a, b
  <2>8. CASE x \notin U
    <3>1. (s \ U) \ {x} = u \ U /\ s \cap U = u \cap U /\ x \in s \ U
      BY <2>1, <2>8
    <3>2. SumFunctionOnSet(f, s \ U) = f[x] + SumFunctionOnSet(f, (s \ U) \ {x})
      BY <1>2, <2>4, <3>1, SumRemove
    <3>3. SumFunctionOnSet(f, s \ U) = f[x] + b /\ SumFunctionOnSet(f, s \cap U) = a
      BY <3>1, <3>2
    <3> HIDE DEF u, a, b
    <3> QED
      BY <1>2, <2>3, <2>5, <2>6, <3>3 DEF a, b
  <2> QED
    BY <2>7, <2>8
<1> QED
  BY <1>3, <1>4

\* A sum of natural numbers over a part is at most the sum over the whole.
LEMMA SumSubset ==
    ASSUME NEW f, NEW S, IsFiniteSet(S), \A x \in S : f[x] \in Nat, NEW U, U \subseteq S
    PROVE  SumFunctionOnSet(f, U) <= SumFunctionOnSet(f, S)
<1>1. S \cap U = U /\ IsFiniteSet(U) /\ IsFiniteSet(S \ U)
  BY FS_Subset
<1>2. SumFunctionOnSet(f, S) = SumFunctionOnSet(f, U) + SumFunctionOnSet(f, S \ U)
  <2>1. \A x \in S : f[x] \in Int
    OBVIOUS
  <2> QED
    BY <2>1, SumSplit
<1>3. SumFunctionOnSet(f, U) \in Nat /\ SumFunctionOnSet(f, S \ U) \in Nat
  BY <1>1, SumNat
<1>4. ASSUME NEW whole, NEW part \in Nat, NEW rest \in Nat, whole = part + rest
      PROVE  part <= whole
  BY ONLY <1>4
<1> QED
  BY ONLY <1>2, <1>3, <1>4

\* The sum of two functions is the sum of their sums.
LEMMA SumPlus ==
    ASSUME NEW f, NEW g, NEW h, NEW S, IsFiniteSet(S),
           \A x \in S : f[x] \in Int /\ g[x] \in Int /\ h[x] = f[x] + g[x]
    PROVE  SumFunctionOnSet(h, S) = SumFunctionOnSet(f, S) + SumFunctionOnSet(g, S)
<1> DEFINE Adds(s) ==
             SumFunctionOnSet(h, s) = SumFunctionOnSet(f, s) + SumFunctionOnSet(g, s)
           T == {s \in SUBSET S : ~Adds(s)}
<1> SUFFICES ASSUME T # {} PROVE FALSE
  OBVIOUS
<1>0. T \subseteq SUBSET S
  OBVIOUS
<1> HIDE DEF T
<1>1. PICK s \in T : \A t \in T : ~(t \subseteq s /\ t # s)
  BY <1>0, SmallestSubset
<1>2. IsFiniteSet(s) /\ s \subseteq S /\ ~Adds(s)
  BY <1>0, <1>1, FS_Subset DEF T
<1>3. CASE s = {}
  BY <1>2, <1>3, SumEmpty
<1>4. CASE s # {}
  <2> DEFINE x == SumPick(s)
             u == s \ {x}
  <2>1. x \in S /\ u \subseteq s /\ u # s /\ u \in SUBSET S
    BY <1>2, <1>4, SumPicked
  <2>2. Adds(u)
    <3> HIDE DEF Adds
    <3> QED
      BY <1>1, <2>1 DEF T
  <2>3. /\ SumFunctionOnSet(f, s) = f[x] + SumFunctionOnSet(f, u)
        /\ SumFunctionOnSet(g, s) = g[x] + SumFunctionOnSet(g, u)
        /\ SumFunctionOnSet(h, s) = h[x] + SumFunctionOnSet(h, u)
    BY <1>2, <1>4, SumUnfolds
  <2>4. IsFiniteSet(u) /\ \A y \in u : f[y] \in Int /\ g[y] \in Int
    BY <1>2, <2>1, FS_Subset
  <2>5. SumFunctionOnSet(f, u) \in Int /\ SumFunctionOnSet(g, u) \in Int
    BY <2>4, SumInt
  <2>6. f[x] \in Int /\ g[x] \in Int /\ h[x] = f[x] + g[x]
    BY <2>1
  <2> HIDE DEF u, x
  <2> QED
    BY <1>2, <2>2, <2>3, <2>5, <2>6
<1> QED
  BY <1>3, <1>4

\* A sum of zeros is zero.
LEMMA SumZero ==
    ASSUME NEW f, NEW S, IsFiniteSet(S), \A x \in S : f[x] = 0
    PROVE  SumFunctionOnSet(f, S) = 0
<1> DEFINE sum == SumFunctionOnSet(f, S)
<1>1. sum = sum + sum
  BY SumPlus
<1>2. sum \in Int
  BY SumInt
<1> HIDE DEF sum
<1>3. sum = 0
  BY <1>1, <1>2
<1> QED
  BY <1>3 DEF sum

\* A function that is zero but at one element sums to what it is there.
LEMMA SumSingle ==
    ASSUME NEW f, NEW S, IsFiniteSet(S), NEW x \in S, f[x] \in Int,
           \A y \in S \ {x} : f[y] = 0
    PROVE  SumFunctionOnSet(f, S) = f[x]
<1>1. IsFiniteSet(S \ {x}) /\ \A y \in S : f[y] \in Int
  BY FS_Subset
<1>2. SumFunctionOnSet(f, S) = f[x] + SumFunctionOnSet(f, S \ {x})
  BY <1>1, SumRemove
<1>3. SumFunctionOnSet(f, S \ {x}) = 0
  BY <1>1, SumZero
<1> QED
  BY <1>2, <1>3

\* A sum of differences is the difference of the sums.
LEMMA SumMinus ==
    ASSUME NEW f, NEW g, NEW h, NEW S, IsFiniteSet(S),
           \A x \in S : f[x] \in Int /\ g[x] \in Int /\ h[x] = f[x] - g[x]
    PROVE  SumFunctionOnSet(h, S) = SumFunctionOnSet(f, S) - SumFunctionOnSet(g, S)
<1>1. SumFunctionOnSet(f, S) = SumFunctionOnSet(h, S) + SumFunctionOnSet(g, S)
  <2>1. \A x \in S : h[x] \in Int /\ g[x] \in Int /\ f[x] = h[x] + g[x]
    OBVIOUS
  <2> QED
    BY <2>1, SumPlus
<1>2. \A x \in S : h[x] \in Int /\ g[x] \in Int
  OBVIOUS
<1>3. SumFunctionOnSet(h, S) \in Int /\ SumFunctionOnSet(g, S) \in Int
  BY <1>2, SumInt
<1> QED
  BY <1>1, <1>3

\* One more element, the others as they were.
LEMMA SumGrown ==
    ASSUME NEW f, NEW g, NEW S, IsFiniteSet(S), NEW x, x \notin S, g[x] \in Int,
           \A y \in S : f[y] \in Int /\ g[y] = f[y]
    PROVE  SumFunctionOnSet(g, S \cup {x}) = SumFunctionOnSet(f, S) + g[x]
<1>1. \A y \in S \cup {x} : g[y] \in Int
  OBVIOUS
<1>2. SumFunctionOnSet(g, S \cup {x}) = g[x] + SumFunctionOnSet(g, S)
  BY <1>1, SumAdd
<1>3. SumFunctionOnSet(f, S) = SumFunctionOnSet(g, S)
  BY SumSame
<1>4. SumFunctionOnSet(f, S) \in Int
  BY SumInt
<1> QED
  BY <1>2, <1>3, <1>4

\* One element less, the others as they were.
LEMMA SumShrunk ==
    ASSUME NEW f, NEW g, NEW S, IsFiniteSet(S), NEW x \in S,
           \A y \in S : f[y] \in Int, \A y \in S \ {x} : g[y] = f[y]
    PROVE  SumFunctionOnSet(g, S \ {x}) = SumFunctionOnSet(f, S) - f[x]
<1>1. SumFunctionOnSet(f, S) = f[x] + SumFunctionOnSet(f, S \ {x})
  BY SumRemove
<1>2. IsFiniteSet(S \ {x})
  BY FS_Subset
<1>3. SumFunctionOnSet(f, S \ {x}) = SumFunctionOnSet(g, S \ {x})
  BY <1>2, SumSame
<1>4. SumFunctionOnSet(f, S \ {x}) \in Int /\ f[x] \in Int
  BY <1>2, SumInt
<1> QED
  BY <1>1, <1>3, <1>4

\* The sums over T of the functions row[x] of a table with rows S.
RowSums(row, S, T) == [x \in S |-> SumFunctionOnSet(row[x], T)]

\* Summing a table by rows or by columns gives the same: row[x] and col[y] are
\* the functions of the row x and of the column y.
LEMMA SumExchange ==
    ASSUME NEW S, IsFiniteSet(S), NEW T, IsFiniteSet(T), NEW row, NEW col,
           \A x \in S, y \in T : row[x][y] \in Int /\ col[y][x] = row[x][y]
    PROVE  SumFunctionOnSet(RowSums(row, S, T), S) = SumFunctionOnSet(RowSums(col, T, S), T)
<1> DEFINE r == RowSums(row, S, T)
           c(s) == RowSums(col, T, s)
           Same(s) == SumFunctionOnSet(r, s) = SumFunctionOnSet(c(s), T)
           Bad == {s \in SUBSET S : ~Same(s)}
<1> SUFFICES ASSUME Bad # {} PROVE FALSE
  OBVIOUS
<1>0. Bad \subseteq SUBSET S
  OBVIOUS
<1> HIDE DEF Bad
<1>1. PICK s \in Bad : \A t \in Bad : ~(t \subseteq s /\ t # s)
  BY <1>0, SmallestSubset
<1>2. IsFiniteSet(s) /\ s \subseteq S /\ ~Same(s)
  BY <1>0, <1>1, FS_Subset DEF Bad
<1>3. CASE s = {}
  <2>1. \A y \in T : c(s)[y] = 0
    BY <1>3, SumEmpty DEF RowSums
  <2> HIDE DEF c
  <2>2. SumFunctionOnSet(c(s), T) = 0
    BY <2>1, SumZero
  <2> QED
    BY <1>2, <1>3, <2>2, SumEmpty
<1>4. CASE s # {}
  <2> DEFINE x == SumPick(s)
             u == s \ {x}
  <2>1. x \in S /\ x \in s /\ u \subseteq s /\ u # s /\ u \in SUBSET S /\ IsFiniteSet(u)
    BY <1>2, <1>4, SumPicked, FS_Subset
  <2>2. Same(u)
    <3> HIDE DEF Same
    <3> QED
      BY <1>1, <2>1 DEF Bad
  <2>3. SumFunctionOnSet(r, s) = r[x] + SumFunctionOnSet(r, u)
    <3> HIDE DEF r
    <3> QED
      BY <1>2, <1>4, SumUnfolds
  <2>4. r[x] = SumFunctionOnSet(row[x], T)
    BY <2>1 DEF RowSums
  <2>5. ASSUME NEW y \in T
        PROVE  /\ row[x][y] \in Int /\ c(u)[y] \in Int
               /\ c(s)[y] = row[x][y] + c(u)[y]
    <3>1. SumFunctionOnSet(col[y], s) = col[y][x] + SumFunctionOnSet(col[y], u)
      BY <1>2, <1>4, SumUnfolds
    <3>2. \A z \in u : col[y][z] \in Int
      BY <2>1
    <3>3. SumFunctionOnSet(col[y], u) \in Int
      BY <2>1, <3>2, SumInt
    <3>4. c(s)[y] = SumFunctionOnSet(col[y], s) /\ c(u)[y] = SumFunctionOnSet(col[y], u)
      BY DEF RowSums
    <3> QED
      BY <2>1, <3>1, <3>3, <3>4
  <2> HIDE DEF c, u, x
  <2>6. SumFunctionOnSet(c(s), T) = SumFunctionOnSet(row[x], T) + SumFunctionOnSet(c(u), T)
    BY <2>5, SumPlus
  <2> QED
    BY <1>2, <2>2, <2>3, <2>4, <2>6
<1> QED
  BY <1>3, <1>4

\* Every nonempty set of natural numbers has a least element.
LEMMA LeastNatural ==
    ASSUME NEW S \in SUBSET Nat, S # {}
    PROVE  \E n \in S : \A m \in S : n <= m
<1> DEFINE R == {mn \in Nat \X Nat : mn[1] < mn[2]}
<1>1. IsWellFoundedOn(R, Nat)
  BY NatLessThanWellFounded DEF OpToRel
<1>2. PICK n \in S : \A m \in S : ~(<<m, n>> \in R)
  <2> HIDE DEF R
  <2> QED
    BY <1>1, WFMin
<1>3. ASSUME NEW m \in S PROVE n <= m
  <2>1. m \in Nat /\ n \in Nat /\ ~(<<m, n>> \in R)
    BY <1>2
  <2>2. ~(m < n)
    BY <2>1
  <2> QED
    BY <2>1, <2>2
<1> QED
  BY <1>3

\* Every nonempty set of natural numbers with a bound has a greatest element.
LEMMA GreatestNatural ==
    ASSUME NEW S \in SUBSET Nat, S # {}, NEW b \in Nat, \A n \in S : n <= b
    PROVE  \E n \in S : \A m \in S : m <= n
<1> DEFINE D == {b - n : n \in S}
<1>0. ASSUME NEW n \in S PROVE b - n \in Nat
  <2>1. n \in Nat /\ n <= b
    OBVIOUS
  <2> QED
    BY <2>1
<1>1. D \in SUBSET Nat /\ D # {}
  BY <1>0
<1> HIDE DEF D
<1>2. PICK d \in D : \A e \in D : d <= e
  BY <1>1, LeastNatural
<1>3. PICK n \in S : d = b - n
  BY DEF D
<1>4. ASSUME NEW m \in S PROVE m <= n
  <2>1. b - m \in D
    BY DEF D
  <2> QED
    BY <1>2, <1>3, <2>1
<1> QED
  BY <1>4

\* Every finite set of numbers that is not empty has a greatest element.
LEMMA GreatestOfFinite ==
    ASSUME NEW S, IsFiniteSet(S), S # {}, \A x \in S : x \in Int
    PROVE  \E m \in S : \A x \in S : x <= m
<1> DEFINE Top(s) == \E m \in s : \A x \in s : x <= m
           T == {s \in SUBSET S : s # {} /\ ~Top(s)}
<1> SUFFICES ASSUME T # {} PROVE FALSE
  OBVIOUS
<1>0. T \subseteq SUBSET S
  OBVIOUS
<1> HIDE DEF T, Top
<1>1. PICK s \in T : \A t \in T : ~(t \subseteq s /\ t # s)
  BY <1>0, SmallestSubset
<1>2. s \subseteq S /\ s # {} /\ ~Top(s)
  BY <1>0, <1>1 DEF T
<1>3. PICK a \in s : TRUE
  BY <1>2
<1>4. CASE s \ {a} = {}
  BY <1>2, <1>3, <1>4 DEF Top
<1>5. CASE s \ {a} # {}
  <2>1. s \ {a} \in SUBSET S /\ s \ {a} # s /\ s \ {a} \subseteq s
    BY <1>2, <1>3
  <2>2. s \ {a} \notin T
    BY <1>1, <2>1
  <2>3. PICK m \in s \ {a} : \A x \in s \ {a} : x <= m
    BY <1>5, <2>1, <2>2 DEF T, Top
  <2>4. a \in Int /\ m \in Int /\ m \in s /\ \A x \in s : x \in Int
    BY <1>2, <1>3, <2>3
  <2>5. CASE a <= m
    <3>1. \A x \in s : x <= m
      BY <2>3, <2>5
    <3> QED
      BY <1>2, <2>4, <3>1 DEF Top
  <2>6. CASE m < a
    <3>1. ASSUME NEW x \in s PROVE x <= a
      BY <2>3, <2>4, <2>6
    <3> QED
      BY <1>2, <1>3, <3>1 DEF Top
  <2> QED
    BY <2>4, <2>5, <2>6
<1> QED
  BY <1>4, <1>5

\* The image of a finite set is finite and not larger.
LEMMA ImageIsFinite ==
    ASSUME NEW S, IsFiniteSet(S), NEW f
    PROVE  /\ IsFiniteSet({f[x] : x \in S})
           /\ Cardinality({f[x] : x \in S}) <= Cardinality(S)
<1> DEFINE T == {f[x] : x \in S}
           g == [x \in S |-> f[x]]
<1>1. g \in Surjection(S, T)
  BY DEF Surjection
<1> HIDE DEF T, g
<1>2. IsFiniteSet(T) /\ Cardinality(T) <= Cardinality(S)
  BY <1>1, FS_Surjection
<1> QED
  BY <1>2 DEF T

\* A factor may be taken out of a sum.
LEMMA SumScales ==
    ASSUME NEW f, NEW h, NEW c \in Int, NEW S, IsFiniteSet(S),
           \A x \in S : f[x] \in Int /\ h[x] = c * f[x]
    PROVE  SumFunctionOnSet(h, S) = c * SumFunctionOnSet(f, S)
<1> DEFINE Scales(s) == SumFunctionOnSet(h, s) = c * SumFunctionOnSet(f, s)
           T == {s \in SUBSET S : ~Scales(s)}
<1> SUFFICES ASSUME T # {} PROVE FALSE
  OBVIOUS
<1>0. T \subseteq SUBSET S
  OBVIOUS
<1> HIDE DEF T
<1>1. PICK s \in T : \A t \in T : ~(t \subseteq s /\ t # s)
  BY <1>0, SmallestSubset
<1> USE DEF T
<1>2. IsFiniteSet(s) /\ s \subseteq S
  BY <1>0, FS_Subset
<1>3. CASE s = {}
  BY <1>1, <1>3, SumEmpty
<1>4. CASE s # {}
  <2>1. PICK x \in s : TRUE
    BY <1>4
  <2>2. PICK u : u = s \ {x}
    OBVIOUS
  <2>3. IsFiniteSet(u) /\ u \subseteq s /\ u # s
    BY <1>2, <2>1, <2>2, FS_Subset
  <2>4. Scales(u)
    BY <1>1, <1>2, <2>3
  <2>5. \A y \in s : f[y] \in Int /\ h[y] \in Int
    BY <1>2
  <2>6. /\ SumFunctionOnSet(f, s) = f[x] + SumFunctionOnSet(f, u)
        /\ SumFunctionOnSet(h, s) = h[x] + SumFunctionOnSet(h, u)
    BY <1>2, <2>1, <2>2, <2>5, SumRemove
  <2>7. SumFunctionOnSet(f, u) \in Int
    BY <2>3, <2>5, SumInt
  <2>8. f[x] \in Int /\ h[x] = c * f[x]
    BY <1>2, <2>1
  <2>9. \A a, b \in Int : c * (a + b) = c * a + c * b
    OBVIOUS
  <2>10. Scales(s)
    BY <2>4, <2>6, <2>7, <2>8, <2>9
  <2> QED
    BY <1>1, <2>10
<1> QED
  BY <1>3, <1>4

\* A sum over the image of an injective function is one over its arguments.
LEMMA SumReindexed ==
    ASSUME NEW S, IsFiniteSet(S), NEW own, \A x, y \in S : own[x] = own[y] => x = y,
           NEW f, NEW g, \A x \in S : g[x] \in Int /\ f[own[x]] = g[x]
    PROVE  SumFunctionOnSet(f, {own[x] : x \in S}) = SumFunctionOnSet(g, S)
<1> DEFINE Image(s) == {own[x] : x \in s}
           Same(s) == SumFunctionOnSet(f, Image(s)) = SumFunctionOnSet(g, s)
           T == {s \in SUBSET S : ~Same(s)}
<1> SUFFICES ASSUME T # {} PROVE FALSE
  OBVIOUS
<1>0. T \subseteq SUBSET S
  OBVIOUS
<1> HIDE DEF T
<1>1. PICK s \in T : \A t \in T : ~(t \subseteq s /\ t # s)
  BY <1>0, SmallestSubset
<1> USE DEF T
<1>2. IsFiniteSet(s) /\ s \subseteq S
  BY <1>0, FS_Subset
<1>3. CASE s = {}
  <2>1. Image(s) = {}
    BY <1>3
  <2> QED
    BY <1>1, <1>3, <2>1, SumEmpty
<1>4. CASE s # {}
  <2>1. PICK x \in s : TRUE
    BY <1>4
  <2>2. PICK u : u = s \ {x}
    OBVIOUS
  <2>3. IsFiniteSet(u) /\ u \subseteq s /\ u # s
    BY <1>2, <2>1, <2>2, FS_Subset
  <2>4. Same(u)
    BY <1>1, <1>2, <2>3
  <2>5. PICK I, J : I = Image(s) /\ J = Image(u)
    OBVIOUS
  <2>6. own[x] \in I /\ J = I \ {own[x]}
    BY <1>2, <2>1, <2>2, <2>5
  <2>7. IsFiniteSet(I)
    BY <1>2, <2>5, ImageIsFinite
  <2>8. \A y \in I : f[y] \in Int
    BY <1>2, <2>5
  <2>9. SumFunctionOnSet(f, I) = f[own[x]] + SumFunctionOnSet(f, J)
    BY <2>6, <2>7, <2>8, SumRemove
  <2>10. SumFunctionOnSet(g, s) = g[x] + SumFunctionOnSet(g, u)
    BY <1>2, <2>1, <2>2, SumRemove
  <2>11. Same(s)
    BY <1>2, <2>1, <2>4, <2>5, <2>9, <2>10
  <2> QED
    BY <1>1, <2>11
<1> QED
  BY <1>3, <1>4

\* A sum of numbers up to m is at most m for each one that is not zero.
LEMMA SumOfFew ==
    ASSUME NEW f, NEW m \in Nat, NEW S, IsFiniteSet(S), \A x \in S : f[x] \in 0 .. m
    PROVE  SumFunctionOnSet(f, S) <= m * Cardinality({x \in S : f[x] > 0})
<1> DEFINE Some(s) == {x \in s : f[x] > 0}
           Few(s) == SumFunctionOnSet(f, s) <= m * Cardinality(Some(s))
           T == {s \in SUBSET S : ~Few(s)}
<1> SUFFICES ASSUME T # {} PROVE FALSE
  OBVIOUS
<1>0. T \subseteq SUBSET S
  OBVIOUS
<1> HIDE DEF T
<1>1. PICK s \in T : \A t \in T : ~(t \subseteq s /\ t # s)
  BY <1>0, SmallestSubset
<1> USE DEF T
<1>2. IsFiniteSet(s) /\ s \subseteq S
  BY <1>0, FS_Subset
<1>3. CASE s = {}
  <2>1. Some(s) = {}
    BY <1>3
  <2>2. Cardinality(Some(s)) = 0
    BY <2>1, FS_EmptySet
  <2> QED
    BY <1>1, <1>3, <2>2, SumEmpty
<1>4. CASE s # {}
  <2>1. PICK x \in s : TRUE
    BY <1>4
  <2>2. PICK u : u = s \ {x}
    OBVIOUS
  <2>3. IsFiniteSet(u) /\ u \subseteq s /\ u # s /\ x \notin u
    BY <1>2, <2>1, <2>2, FS_Subset
  <2>4. Few(u)
    BY <1>1, <1>2, <2>3
  <2>5. \A y \in s : f[y] \in Int
    BY <1>2
  <2>6. SumFunctionOnSet(f, s) = f[x] + SumFunctionOnSet(f, u)
    BY <1>2, <2>1, <2>2, <2>5, SumRemove
  <2>7. SumFunctionOnSet(f, u) \in Int
    BY <2>3, <2>5, SumInt
  <2>8. PICK V, W : V = Some(s) /\ W = Some(u)
    OBVIOUS
  <2>9. IsFiniteSet(W) /\ x \notin W
    BY <2>3, <2>8, FS_Subset
  <2>10. PICK n \in Nat : n = Cardinality(W)
    BY <2>9, FS_CardinalityType
  <2>11. f[x] \in 0 .. m
    BY <1>2, <2>1
  <2>12. CASE f[x] > 0
    <3>1. V = W \cup {x}
      BY <2>1, <2>2, <2>8, <2>12
    <3>2. Cardinality(V) = n + 1
      BY <2>9, <2>10, <3>1, FS_AddElement
    <3>3. m * (n + 1) = m * n + m
      BY <2>10
    <3>4. m * n \in Int
      BY <2>10
    <3> QED
      BY <1>1, <2>4, <2>6, <2>7, <2>8, <2>10, <2>11, <3>2, <3>3, <3>4
  <2>13. CASE ~(f[x] > 0)
    <3>1. V = W /\ f[x] = 0
      BY <2>1, <2>2, <2>8, <2>11, <2>13
    <3>2. SumFunctionOnSet(f, s) = SumFunctionOnSet(f, u)
      BY <2>6, <2>7, <3>1
    <3>3. Some(s) = Some(u)
      BY <2>8, <3>1
    <3> HIDE DEF Some
    <3>4. Few(s)
      BY <2>4, <3>2, <3>3
    <3> QED
      BY <1>1, <3>4
  <2> QED
    BY <2>12, <2>13
<1> QED
  BY <1>3, <1>4

\* A sum of zeros and ones counts the ones.
LEMMA SumOfMarks ==
    ASSUME NEW f, NEW S, IsFiniteSet(S), \A x \in S : f[x] \in {0, 1}
    PROVE  SumFunctionOnSet(f, S) = Cardinality({x \in S : f[x] = 1})
<1> DEFINE Some(s) == {x \in s : f[x] = 1}
           Counts(s) == SumFunctionOnSet(f, s) = Cardinality(Some(s))
           T == {s \in SUBSET S : ~Counts(s)}
<1> SUFFICES ASSUME T # {} PROVE FALSE
  OBVIOUS
<1>0. T \subseteq SUBSET S
  OBVIOUS
<1> HIDE DEF T
<1>1. PICK s \in T : \A t \in T : ~(t \subseteq s /\ t # s)
  BY <1>0, SmallestSubset
<1> USE DEF T
<1>2. IsFiniteSet(s) /\ s \subseteq S
  BY <1>0, FS_Subset
<1>3. CASE s = {}
  <2>1. Some(s) = {}
    BY <1>3
  <2>2. Cardinality(Some(s)) = 0
    BY <2>1, FS_EmptySet
  <2> QED
    BY <1>1, <1>3, <2>2, SumEmpty
<1>4. CASE s # {}
  <2>1. PICK x \in s : TRUE
    BY <1>4
  <2>2. PICK u : u = s \ {x}
    OBVIOUS
  <2>3. IsFiniteSet(u) /\ u \subseteq s /\ u # s /\ x \notin u
    BY <1>2, <2>1, <2>2, FS_Subset
  <2>4. Counts(u)
    BY <1>1, <1>2, <2>3
  <2>5. \A y \in s : f[y] \in Int
    BY <1>2
  <2>6. SumFunctionOnSet(f, s) = f[x] + SumFunctionOnSet(f, u)
    BY <1>2, <2>1, <2>2, <2>5, SumRemove
  <2>7. PICK V, W : V = Some(s) /\ W = Some(u)
    OBVIOUS
  <2>8. IsFiniteSet(W) /\ x \notin W
    BY <2>3, <2>7, FS_Subset
  <2>9. PICK n \in Nat : n = Cardinality(W)
    BY <2>8, FS_CardinalityType
  <2>10. f[x] \in {0, 1}
    BY <1>2, <2>1
  <2>11. CASE f[x] = 1
    <3>1. V = W \cup {x}
      BY <2>1, <2>2, <2>7, <2>11
    <3>2. Cardinality(V) = n + 1
      BY <2>8, <2>9, <3>1, FS_AddElement
    <3> QED
      BY <1>1, <2>4, <2>6, <2>7, <2>9, <2>11, <3>2
  <2>12. CASE f[x] = 0
    <3>1. V = W
      BY <2>1, <2>2, <2>7, <2>12
    <3> QED
      BY <1>1, <2>4, <2>6, <2>7, <2>9, <2>12, <3>1
  <2> QED
    BY <2>10, <2>11, <2>12
<1> QED
  BY <1>3, <1>4

\* Where ahead[x] is what goes before x in a strict total order of a finite set,
\* as many elements have fewer than n ahead of them as n says.
LEMMA RanksAreCounted ==
    ASSUME NEW S, IsFiniteSet(S), NEW ahead, \A x \in S : ahead[x] \subseteq S \ {x},
           \A x, y \in S : x # y => x \in ahead[y] \/ y \in ahead[x],
           \A x, y \in S : x \in ahead[y] => ahead[x] \subseteq ahead[y],
           NEW n \in Nat, n <= Cardinality(S)
    PROVE  Cardinality({x \in S : Cardinality(ahead[x]) < n}) = n
<1>1. PICK N \in Nat : N = Cardinality(S)
  BY FS_CardinalityType
<1>2. PICK R : R = 0 .. N - 1
  OBVIOUS
<1>3. IsFiniteSet(R) /\ Cardinality(R) = N
  <2>1. 0 \in Int /\ N - 1 \in Int
    BY <1>1
  <2>2. IsFiniteSet(R) /\ Cardinality(R) = IF 0 > N - 1 THEN 0 ELSE (N - 1) - 0 + 1
    BY <1>2, <2>1, FS_Interval
  <2> QED
    BY <1>1, <2>2
<1>4. PICK rank : rank = [x \in S |-> Cardinality(ahead[x])]
  OBVIOUS
<1>5. ASSUME NEW x \in S
      PROVE  IsFiniteSet(ahead[x]) /\ rank[x] = Cardinality(ahead[x]) /\ rank[x] \in R
  <2>1. PICK A, B : A = ahead[x] /\ B = S \ {x}
    OBVIOUS
  <2>2. IsFiniteSet(B) /\ Cardinality(B) = N - 1
    BY <1>1, <2>1, FS_RemoveElement
  <2>3. IsFiniteSet(A) /\ Cardinality(A) <= Cardinality(B)
    BY <2>1, <2>2, FS_Subset
  <2>4. Cardinality(A) \in Nat
    BY <2>3, FS_CardinalityType
  <2> QED
    BY <1>1, <1>2, <1>4, <2>1, <2>2, <2>3, <2>4
<1>6. ASSUME NEW x \in S, NEW y \in S, x \in ahead[y]
      PROVE  rank[x] # rank[y]
  <2>1. PICK A, B : A = ahead[x] /\ B = ahead[y]
    OBVIOUS
  <2>2. A \subseteq B /\ x \in B /\ x \notin A
    BY <1>6, <2>1
  <2>3. IsFiniteSet(B) /\ rank[x] = Cardinality(A) /\ rank[y] = Cardinality(B)
    BY <1>5, <2>1
  <2>4. Cardinality(A) = Cardinality(B) => A = B
    BY <2>2, <2>3, FS_Subset
  <2> QED
    BY <2>2, <2>3, <2>4
<1>7. \A x, y \in S : rank[x] = rank[y] => x = y
  BY <1>6
<1>8. rank \in Injection(S, R)
  <2>1. rank \in [S -> R]
    BY <1>4, <1>5
  <2> QED
    BY <1>7, <2>1 DEF Injection, IsInjective
<1>9. rank \in Surjection(S, R)
  BY <1>1, <1>3, <1>8, FS_Injection
<1>10. PICK U, V : U = {x \in S : rank[x] < n} /\ V = 0 .. n - 1
  OBVIOUS
<1>11. PICK g : g = [x \in U |-> rank[x]]
  OBVIOUS
<1>12. g \in [U -> V]
  <2>1. ASSUME NEW x \in U PROVE rank[x] \in V
    <3>1. rank[x] \in R /\ rank[x] < n
      BY <1>5, <1>10
    <3> QED
      BY <1>2, <1>10, <3>1
  <2> QED
    BY <1>11, <2>1
<1>13. g \in Injection(U, V)
  BY <1>7, <1>10, <1>11, <1>12 DEF Injection, IsInjective
<1>14. g \in Surjection(U, V)
  <2>1. ASSUME NEW v \in V PROVE \E x \in U : g[x] = v
    <3>1. v \in R /\ v < n
      BY <1>1, <1>2, <1>10
    <3>2. PICK x \in S : rank[x] = v
      BY <1>9, <3>1 DEF Surjection
    <3> QED
      BY <1>10, <1>11, <3>1, <3>2
  <2> QED
    BY <1>12, <2>1 DEF Surjection
<1>15. IsFiniteSet(V) /\ Cardinality(V) = n
  <2>1. 0 \in Int /\ n - 1 \in Int
    OBVIOUS
  <2>2. IsFiniteSet(V) /\ Cardinality(V) = IF 0 > n - 1 THEN 0 ELSE (n - 1) - 0 + 1
    BY <1>10, <2>1, FS_Interval
  <2> QED
    BY <2>2
<1>16. Cardinality(U) = n
  BY <1>13, <1>14, <1>15, FS_Injection
<1>17. U = {x \in S : Cardinality(ahead[x]) < n}
  BY <1>4, <1>10
<1> QED
  BY <1>16, <1>17

=============================================================================
