-------------------------------- MODULE Sums ---------------------------------
(***************************************************************************)
(* The sum of a function over a finite set, SumFunctionOnSet, is a fold: a *)
(* function on the subsets that takes one element away at a time.  Here is *)
(* what the proofs need of such sums, for every finite set: that the       *)
(* function exists and is the only one, and how the sum depends on its     *)
(* terms.                                                                  *)
(*                                                                         *)
(* The terms are a function, so that the statements take no operator: each *)
(* is proved with a smallest subset on which it would fail.                *)
(***************************************************************************)
EXTENDS Integers, Functions, FiniteSetTheorems, WellFoundedInduction, TLAPS

Pick(s) == CHOOSE x \in s : TRUE

\* What the fold computes from a sum over the subset without its element.
FoldStep(F, g, s) == IF s = {} THEN 0 ELSE F[Pick(s)] + g[s \ {Pick(s)}]

\* g is the function of the fold: for each subset of S the sum of F over it.
SumsUp(F, S, g) == g \in [SUBSET S -> Int] /\ \A s \in SUBSET S : g[s] = FoldStep(F, g, s)

LEMMA PickIsThere == ASSUME NEW s, s # {} PROVE Pick(s) \in s
BY DEF Pick

\* Of the subsets of a finite set that have a property, given as a set, some has
\* no smaller one that has it.
LEMMA SmallestSubset ==
    ASSUME NEW S, IsFiniteSet(S), NEW B \in SUBSET SUBSET S, B # {}
    PROVE  \E T \in B : \A U \in SUBSET T : U # T => U \notin B
<1>1. IsWellFoundedOn(StrictSubsetOrdering(S), SUBSET S)
  BY FS_StrictSubsetOrderingWellFounded, FS_FiniteSubsetsOfFinite
<1>2. PICK T \in B : \A U \in B : <<U, T>> \notin StrictSubsetOrdering(S)
  BY <1>1, WFMin
<1>3. ASSUME NEW U \in SUBSET T, U # T, U \in B PROVE FALSE
  BY <1>2, <1>3 DEF StrictSubsetOrdering
<1> QED BY <1>3

-----------------------------------------------------------------------------

\* Two functions that sum up terms that agree on a set agree on its subsets.
LEMMA SumUnique ==
    ASSUME NEW S, IsFiniteSet(S), NEW T, NEW U, S \subseteq T, S \subseteq U,
           NEW F, NEW H, \A x \in S : F[x] = H[x],
           NEW g, SumsUp(F, T, g), NEW h, SumsUp(H, U, h)
    PROVE  g[S] = h[S]
<1> DEFINE B == {s \in SUBSET S : g[s] # h[s]}
<1> SUFFICES ASSUME B # {} PROVE FALSE
  OBVIOUS
<1>1. PICK s \in B : \A u \in SUBSET s : u # s => u \notin B
  <2>1. B \in SUBSET SUBSET S
    OBVIOUS
  <2> HIDE DEF B
  <2> QED BY <2>1, SmallestSubset
<1>2. g[s] = FoldStep(F, g, s) /\ h[s] = FoldStep(H, h, s)
  <2>1. s \in SUBSET T /\ s \in SUBSET U
    OBVIOUS
  <2> QED BY <2>1 DEF SumsUp
<1>3. s # {}
  BY <1>2 DEF FoldStep
<1>4. Pick(s) \in s
  BY <1>3, PickIsThere
<1>5. s \ {Pick(s)} \in SUBSET s /\ s \ {Pick(s)} # s
  BY <1>4
<1>6. g[s \ {Pick(s)}] = h[s \ {Pick(s)}]
  BY <1>1, <1>5
<1>7. F[Pick(s)] = H[Pick(s)]
  BY <1>4
<1> QED BY <1>2, <1>3, <1>6, <1>7 DEF FoldStep

\* A fold with any operation, given as a function: its step, and the function
\* of it on the subsets of S.
StepOf(op, base, F, g, s) == IF s = {} THEN base ELSE op[<<F[Pick(s)], g[s \ {Pick(s)}]>>]

IsFold(op, base, X, F, S, g) ==
    g \in [SUBSET S -> X] /\ \A s \in SUBSET S : g[s] = StepOf(op, base, F, g, s)

LEMMA FoldUnique ==
    ASSUME NEW S, IsFiniteSet(S), NEW T, NEW U, S \subseteq T, S \subseteq U,
           NEW op, NEW base, NEW X, NEW F,
           NEW g, IsFold(op, base, X, F, T, g), NEW h, IsFold(op, base, X, F, U, h)
    PROVE  g[S] = h[S]
<1> DEFINE B == {s \in SUBSET S : g[s] # h[s]}
<1> SUFFICES ASSUME B # {} PROVE FALSE
  OBVIOUS
<1>1. PICK s \in B : \A u \in SUBSET s : u # s => u \notin B
  <2>1. B \in SUBSET SUBSET S
    OBVIOUS
  <2> HIDE DEF B
  <2> QED BY <2>1, SmallestSubset
<1>2. g[s] = StepOf(op, base, F, g, s) /\ h[s] = StepOf(op, base, F, h, s)
  <2>1. s \in SUBSET T /\ s \in SUBSET U
    OBVIOUS
  <2> QED BY <2>1 DEF IsFold
<1>3. s # {}
  BY <1>2 DEF StepOf
<1>4. s \ {Pick(s)} \in SUBSET s /\ s \ {Pick(s)} # s
  BY <1>3, PickIsThere
<1>5. g[s \ {Pick(s)}] = h[s \ {Pick(s)}]
  BY <1>1, <1>4
<1> QED BY <1>2, <1>3, <1>5 DEF StepOf

LEMMA FoldExists ==
    ASSUME NEW S, IsFiniteSet(S), NEW X, NEW op \in [X \X X -> X], NEW base \in X,
           NEW F, \A x \in S : F[x] \in X
    PROVE  \E g : IsFold(op, base, X, F, S, g)
<1> DEFINE fold(U, g) == IsFold(op, base, X, F, U, g)
           B == {T \in SUBSET S : ~\E g : fold(T, g)}
<1> SUFFICES ASSUME B # {} PROVE FALSE
  OBVIOUS
<1>1. PICK T \in B : \A U \in SUBSET T : U # T => U \notin B
  <2>1. B \in SUBSET SUBSET S
    OBVIOUS
  <2> HIDE DEF B
  <2> QED BY <2>1, SmallestSubset
<1> DEFINE Of(U) == CHOOSE g : fold(U, g)
           At(s) == Of(s)[s]
           rest == T \ {Pick(T)}
           h == [s \in SUBSET T |-> IF s # T THEN At(s)
                                    ELSE IF T = {} THEN base ELSE op[<<F[Pick(T)], At(rest)>>]]
<1>2. ASSUME NEW U \in SUBSET T, U # T PROVE fold(U, Of(U))
  <2>1. U \in SUBSET S /\ U \notin B
    BY <1>1, <1>2
  <2>2. \E g : fold(U, g)
    BY <2>1
  <2> HIDE DEF fold
  <2> QED BY <2>2
<1>3. ASSUME NEW U \in SUBSET T, U # T PROVE At(U) \in X
  <2>1. fold(U, Of(U))
    BY <1>2, <1>3
  <2> HIDE DEF Of
  <2> QED BY <2>1 DEF IsFold
<1>4. ASSUME NEW U \in SUBSET T, U # T, U # {}
      PROVE  At(U) = op[<<F[Pick(U)], At(U \ {Pick(U)})>>]
  <2> DEFINE W == U \ {Pick(U)}
  <2>1. Pick(U) \in U /\ W \in SUBSET U /\ W \in SUBSET T /\ W # T /\ W \in SUBSET S
    BY <1>4, PickIsThere
  <2>2. fold(U, Of(U)) /\ fold(W, Of(W)) /\ IsFiniteSet(W)
    BY <1>2, <1>4, <2>1, FS_Subset
  <2> HIDE DEF Of
  <2>3. Of(U)[W] = Of(W)[W]
    BY <2>1, <2>2, FoldUnique
  <2>4. Of(U)[U] = StepOf(op, base, F, Of(U), U)
    BY <2>2 DEF IsFold
  <2> QED BY <1>4, <2>3, <2>4 DEF StepOf
<1>5. At({}) = base \/ T = {}
  <2> SUFFICES ASSUME T # {} PROVE At({}) = base
    OBVIOUS
  <2>1. fold({}, Of({}))
    BY <1>2
  <2> QED BY <2>1 DEF IsFold, StepOf
<1>6. T # {} => Pick(T) \in T /\ rest \in SUBSET T /\ rest # T /\ F[Pick(T)] \in X
  BY PickIsThere
<1> HIDE DEF At, Of
<1>7. h \in [SUBSET T -> X]
  <2>1. T # {} => op[<<F[Pick(T)], At(rest)>>] \in X
    BY <1>3, <1>6
  <2> QED BY <1>3, <2>1
<1>8. ASSUME NEW s \in SUBSET T PROVE h[s] = StepOf(op, base, F, h, s)
  <2>1. CASE s = {}
    BY <1>5, <2>1 DEF StepOf
  <2>2. CASE s # {} /\ s # T
    <3>1. Pick(s) \in s /\ s \ {Pick(s)} \in SUBSET T /\ s \ {Pick(s)} # T
      BY <2>2, PickIsThere
    <3> QED BY <1>4, <2>2, <3>1 DEF StepOf
  <2>3. CASE s # {} /\ s = T
    BY <1>6, <2>3 DEF StepOf
  <2> QED BY <2>1, <2>2, <2>3
<1>9. fold(T, h)
  BY <1>7, <1>8 DEF IsFold
<1> QED BY <1>1, <1>9

LEMMA SumExists ==
    ASSUME NEW S, IsFiniteSet(S), NEW F, \A x \in S : F[x] \in Int
    PROVE  \E g : SumsUp(F, S, g)
<1> DEFINE plus == [x \in Int \X Int |-> x[1] + x[2]]
<1>1. plus \in [Int \X Int -> Int]
  OBVIOUS
<1>2. \A x, y \in Int : plus[<<x, y>>] = x + y
  OBVIOUS
<1> HIDE DEF plus
<1>3. PICK g : IsFold(plus, 0, Int, F, S, g)
  <2>1. 0 \in Int
    OBVIOUS
  <2> QED BY <1>1, <2>1, FoldExists
<1>4. ASSUME NEW s \in SUBSET S PROVE g[s] = FoldStep(F, g, s)
  <2>1. g[s] = StepOf(plus, 0, F, g, s)
    BY <1>3 DEF IsFold
  <2>2. s # {} => F[Pick(s)] \in Int /\ g[s \ {Pick(s)}] \in Int
    BY <1>3, PickIsThere DEF IsFold
  <2> QED BY <1>2, <2>1, <2>2 DEF StepOf, FoldStep
<1> QED BY <1>3, <1>4 DEF IsFold, SumsUp

\* A function that satisfies the equation of the fold is one.
LEMMA FoldSumsUp ==
    ASSUME NEW S, IsFiniteSet(S), NEW F, \A x \in S : F[x] \in Int,
           NEW h, h = [s \in SUBSET S |-> FoldStep(F, h, s)]
    PROVE  SumsUp(F, S, h)
<1>1. PICK g : SumsUp(F, S, g)
  BY SumExists
<1> DEFINE B == {s \in SUBSET S : h[s] # g[s]}
<1>2. ASSUME B # {} PROVE FALSE
  <2>1. PICK s \in B : \A u \in SUBSET s : u # s => u \notin B
    <3>1. B \in SUBSET SUBSET S
      OBVIOUS
    <3> HIDE DEF B
    <3> QED BY <1>2, <3>1, SmallestSubset
  <2>2. h[s] = FoldStep(F, h, s) /\ g[s] = FoldStep(F, g, s)
    BY <1>1 DEF SumsUp
  <2>3. s # {}
    BY <2>2 DEF FoldStep
  <2>4. s \ {Pick(s)} \in SUBSET s /\ s \ {Pick(s)} # s
    BY <2>3, PickIsThere
  <2>5. h[s \ {Pick(s)}] = g[s \ {Pick(s)}]
    BY <2>1, <2>4
  <2> QED BY <2>2, <2>3, <2>5 DEF FoldStep
<1>3. h = g
  BY <1>1, <1>2 DEF SumsUp
<1> QED BY <1>1, <1>3

\* The fold of the community modules is such a function.
LEMMA SumOfFunction ==
    ASSUME NEW S, IsFiniteSet(S), NEW F, \A x \in S : F[x] \in Int
    PROVE  \E g : SumsUp(F, S, g) /\ SumFunctionOnSet(F, S) = g[S]
<1> DEFINE fold(g) == g = [s \in SUBSET S |-> FoldStep(F, g, s)]
           sum == CHOOSE g : fold(g)
<1>1. \E g : fold(g)
  <2>1. PICK g : SumsUp(F, S, g)
    BY SumExists
  <2> QED BY <2>1 DEF SumsUp
<1>2. fold(sum)
  BY <1>1
<1>3. SumFunctionOnSet(F, S) = sum[S]
  BY DEF SumFunctionOnSet, FoldFunctionOnSet, MapThenFoldSet, FoldStep, Pick
<1> HIDE DEF sum
<1>4. SumsUp(F, S, sum)
  BY <1>2, FoldSumsUp
<1> QED BY <1>3, <1>4

-----------------------------------------------------------------------------

\* One term changes, and the sum by as much.
LEMMA SumChanged ==
    ASSUME NEW S, IsFiniteSet(S), NEW F, NEW H, NEW i \in S, NEW d \in Int,
           H[i] = F[i] + d, F[i] \in Int, \A x \in S : x # i => H[x] = F[x] /\ F[x] \in Int,
           NEW g, SumsUp(F, S, g), NEW h, SumsUp(H, S, h)
    PROVE  h[S] = g[S] + d
<1> DEFINE Due(s) == IF i \in s THEN g[s] + d ELSE g[s]
           B == {s \in SUBSET S : h[s] # Due(s)}
<1>1. SUFFICES ASSUME B # {} PROVE FALSE
  OBVIOUS
<1>2. PICK s \in B : \A u \in SUBSET s : u # s => u \notin B
  <2>1. B \in SUBSET SUBSET S
    OBVIOUS
  <2> HIDE DEF B
  <2> QED BY <1>1, <2>1, SmallestSubset
<1> DEFINE u == s \ {Pick(s)}
<1>3. g[s] = FoldStep(F, g, s) /\ h[s] = FoldStep(H, h, s)
  BY DEF SumsUp
<1>4. s # {}
  BY <1>3 DEF FoldStep
<1>5. Pick(s) \in s /\ u \in SUBSET s /\ u # s
  BY <1>4, PickIsThere
<1>6. h[u] = Due(u) /\ g[u] \in Int
  BY <1>2, <1>5 DEF SumsUp
<1>7. g[s] = F[Pick(s)] + g[u] /\ h[s] = H[Pick(s)] + h[u]
  BY <1>3, <1>4 DEF FoldStep
<1>8. F[Pick(s)] \in Int
  BY <1>5
<1>9. CASE Pick(s) = i
  <2>1. h[u] = g[u] /\ i \in s
    BY <1>5, <1>6, <1>9
  <2>2. h[s] = F[i] + d + g[u] /\ Due(s) = F[i] + g[u] + d
    BY <1>7, <1>9, <2>1
  <2> QED BY <1>6, <2>2
<1>10. CASE Pick(s) # i
  <2>1. H[Pick(s)] = F[Pick(s)] /\ (i \in u <=> i \in s)
    BY <1>5, <1>10
  <2>2. CASE i \in s
    BY <1>6, <1>7, <1>8, <2>1, <2>2
  <2>3. CASE i \notin s
    BY <1>6, <1>7, <1>8, <2>1, <2>3
  <2> QED BY <2>2, <2>3
<1> QED BY <1>9, <1>10

\* Smaller terms have a smaller sum.
LEMMA SumMonotone ==
    ASSUME NEW S, IsFiniteSet(S), NEW F, NEW H,
           \A x \in S : F[x] \in Int /\ H[x] \in Int /\ F[x] <= H[x],
           NEW g, SumsUp(F, S, g), NEW h, SumsUp(H, S, h)
    PROVE  g[S] <= h[S]
<1> DEFINE B == {s \in SUBSET S : ~(g[s] <= h[s])}
<1>1. SUFFICES ASSUME B # {} PROVE FALSE
  OBVIOUS
<1>2. PICK s \in B : \A u \in SUBSET s : u # s => u \notin B
  <2>1. B \in SUBSET SUBSET S
    OBVIOUS
  <2> HIDE DEF B
  <2> QED BY <1>1, <2>1, SmallestSubset
<1> DEFINE u == s \ {Pick(s)}
<1>3. g[s] = FoldStep(F, g, s) /\ h[s] = FoldStep(H, h, s)
  BY DEF SumsUp
<1>4. s # {}
  BY <1>3 DEF FoldStep
<1>5. Pick(s) \in s /\ u \in SUBSET s /\ u # s
  BY <1>4, PickIsThere
<1>6. g[u] <= h[u] /\ g[u] \in Int /\ h[u] \in Int
  BY <1>2, <1>5 DEF SumsUp
<1>7. F[Pick(s)] \in Int /\ H[Pick(s)] \in Int /\ F[Pick(s)] <= H[Pick(s)]
  BY <1>5
<1>8. g[s] = F[Pick(s)] + g[u] /\ h[s] = H[Pick(s)] + h[u]
  BY <1>3, <1>4 DEF FoldStep
<1> HIDE DEF u
<1>9. g[s] <= h[s]
  BY <1>6, <1>7, <1>8
<1> QED BY <1>9

\* Terms that are all zero add up to zero.
LEMMA SumOfZeros ==
    ASSUME NEW S, IsFiniteSet(S), NEW F, \A x \in S : F[x] = 0, NEW g, SumsUp(F, S, g)
    PROVE  g[S] = 0
<1> DEFINE h == [s \in SUBSET S |-> 0]
<1>1. ASSUME NEW s \in SUBSET S PROVE h[s] = FoldStep(F, h, s)
  BY PickIsThere DEF FoldStep
<1>2. SumsUp(F, S, h)
  BY <1>1 DEF SumsUp
<1> HIDE DEF h
<1>3. g[S] = h[S]
  BY <1>2, SumUnique
<1> QED BY <1>3 DEF h

-----------------------------------------------------------------------------
(* The same of the sums themselves.                                          *)

LEMMA SumInt ==
    ASSUME NEW S, IsFiniteSet(S), NEW F, \A x \in S : F[x] \in Int
    PROVE  SumFunctionOnSet(F, S) \in Int
<1>1. PICK g : SumsUp(F, S, g) /\ SumFunctionOnSet(F, S) = g[S]
  BY SumOfFunction
<1> QED BY <1>1 DEF SumsUp

LEMMA SumSame ==
    ASSUME NEW S, IsFiniteSet(S), NEW F, NEW H, \A x \in S : F[x] \in Int /\ H[x] = F[x]
    PROVE  SumFunctionOnSet(H, S) = SumFunctionOnSet(F, S)
<1>1. PICK g : SumsUp(F, S, g) /\ SumFunctionOnSet(F, S) = g[S]
  BY SumOfFunction
<1>2. PICK h : SumsUp(H, S, h) /\ SumFunctionOnSet(H, S) = h[S]
  BY SumOfFunction
<1> QED BY <1>1, <1>2, SumUnique

LEMMA SumAdds ==
    ASSUME NEW S, IsFiniteSet(S), NEW F, NEW H, NEW i \in S, NEW d \in Int,
           \A x \in S : F[x] \in Int, H[i] = F[i] + d, \A x \in S : x # i => H[x] = F[x]
    PROVE  SumFunctionOnSet(H, S) = SumFunctionOnSet(F, S) + d
<1>1. PICK g : SumsUp(F, S, g) /\ SumFunctionOnSet(F, S) = g[S]
  BY SumOfFunction
<1>2. H[i] \in Int
  OBVIOUS
<1>3. \A x \in S : H[x] \in Int
  BY <1>2
<1>4. PICK h : SumsUp(H, S, h) /\ SumFunctionOnSet(H, S) = h[S]
  BY <1>3, SumOfFunction
<1>5. \A x \in S : x # i => H[x] = F[x] /\ F[x] \in Int
  OBVIOUS
<1>6. F[i] \in Int
  OBVIOUS
<1>7. h[S] = g[S] + d
  BY <1>1, <1>4, <1>5, <1>6, SumChanged
<1> QED BY <1>1, <1>4, <1>7

LEMMA SumAtMost ==
    ASSUME NEW S, IsFiniteSet(S), NEW F, NEW H,
           \A x \in S : F[x] \in Int /\ H[x] \in Int /\ F[x] <= H[x]
    PROVE  SumFunctionOnSet(F, S) <= SumFunctionOnSet(H, S)
<1>1. PICK g : SumsUp(F, S, g) /\ SumFunctionOnSet(F, S) = g[S]
  BY SumOfFunction
<1>2. PICK h : SumsUp(H, S, h) /\ SumFunctionOnSet(H, S) = h[S]
  BY SumOfFunction
<1> QED BY <1>1, <1>2, SumMonotone

LEMMA SumZero ==
    ASSUME NEW S, IsFiniteSet(S), NEW F, \A x \in S : F[x] = 0
    PROVE  SumFunctionOnSet(F, S) = 0
<1>1. PICK g : SumsUp(F, S, g) /\ SumFunctionOnSet(F, S) = g[S]
  BY SumOfFunction
<1> QED BY <1>1, SumOfZeros

\* Any element may be the first to be taken away, not only the fold's.
LEMMA SumTaken ==
    ASSUME NEW S, IsFiniteSet(S), NEW F, \A x \in S : F[x] \in Int, NEW g, SumsUp(F, S, g),
           NEW i \in S
    PROVE  g[S] = F[i] + g[S \ {i}]
<1> DEFINE Bad(s) == \E x \in s : g[s] # F[x] + g[s \ {x}]
           B == {s \in SUBSET S : Bad(s)}
<1>1. SUFFICES ASSUME B # {} PROVE FALSE
  OBVIOUS
<1>2. PICK s \in B : \A u \in SUBSET s : u # s => u \notin B
  <2>1. B \in SUBSET SUBSET S
    OBVIOUS
  <2> HIDE DEF B
  <2> QED BY <1>1, <2>1, SmallestSubset
<1>3. PICK x \in s : g[s] # F[x] + g[s \ {x}]
  OBVIOUS
<1> DEFINE p == Pick(s)
<1>4. p \in s /\ g[s] = F[p] + g[s \ {p}]
  BY <1>3, PickIsThere DEF SumsUp, FoldStep
<1>5. x # p
  BY <1>3, <1>4
<1> HIDE DEF p
<1>6. s \ {p} \in SUBSET s /\ s \ {p} # s /\ s \ {x} \in SUBSET s /\ s \ {x} # s
  BY <1>3, <1>4
<1>7. ~Bad(s \ {p}) /\ ~Bad(s \ {x})
  BY <1>2, <1>6
<1> DEFINE rest == s \ {p, x}
<1>8. rest = (s \ {p}) \ {x} /\ rest = (s \ {x}) \ {p} /\ rest \in SUBSET S
  OBVIOUS
<1>9. g[s \ {p}] = F[x] + g[rest]
  BY <1>3, <1>5, <1>7, <1>8
<1>10. g[s \ {x}] = F[p] + g[rest]
  BY <1>4, <1>5, <1>7, <1>8
<1>11. F[p] \in Int /\ F[x] \in Int
  BY <1>3, <1>4
<1>12. g[rest] \in Int
  BY <1>8 DEF SumsUp
<1> HIDE DEF rest
<1> QED BY <1>3, <1>4, <1>9, <1>10, <1>11, <1>12

LEMMA SumWithout ==
    ASSUME NEW S, IsFiniteSet(S), NEW F, \A x \in S : F[x] \in Int, NEW i \in S
    PROVE  SumFunctionOnSet(F, S) = F[i] + SumFunctionOnSet(F, S \ {i})
<1> DEFINE R == S \ {i}
<1>1. PICK g : SumsUp(F, S, g) /\ SumFunctionOnSet(F, S) = g[S]
  BY SumOfFunction
<1>2. IsFiniteSet(R) /\ R \subseteq S
  BY FS_Subset
<1>3. \A x \in R : F[x] \in Int
  OBVIOUS
<1> HIDE DEF R
<1>4. PICK h : SumsUp(F, R, h) /\ SumFunctionOnSet(F, R) = h[R]
  BY <1>2, <1>3, SumOfFunction
<1>5. g[R] = h[R]
  BY <1>1, <1>2, <1>4, SumUnique
<1>6. g[S] = F[i] + g[S \ {i}]
  BY <1>1, SumTaken
<1> QED BY <1>1, <1>4, <1>5, <1>6 DEF R

\* A common factor of the terms is one of the sum.
LEMMA SumScaled ==
    ASSUME NEW S, IsFiniteSet(S), NEW F, \A x \in S : F[x] \in Int, NEW c \in Int,
           NEW H, \A x \in S : H[x] = F[x] * c
    PROVE  SumFunctionOnSet(H, S) = SumFunctionOnSet(F, S) * c
<1> DEFINE scaled(U) == SumFunctionOnSet(H, U) = SumFunctionOnSet(F, U) * c
           B == {U \in SUBSET S : ~scaled(U)}
<1>1. SUFFICES ASSUME B # {} PROVE FALSE
  OBVIOUS
<1>2. PICK U \in B : \A W \in SUBSET U : W # U => W \notin B
  <2>1. B \in SUBSET SUBSET S
    OBVIOUS
  <2> HIDE DEF B
  <2> QED BY <1>1, <2>1, SmallestSubset
<1>3. U \in SUBSET S /\ IsFiniteSet(U) /\ ~scaled(U)
  BY FS_Subset
<1>4. U # {}
  <2> SUFFICES ASSUME U = {} PROVE scaled(U)
    BY <1>3
  <2>1. SumFunctionOnSet(H, {}) = 0 /\ SumFunctionOnSet(F, {}) = 0
    BY SumZero, FS_EmptySet
  <2> QED BY <2>1
<1>5. PICK x \in U : TRUE
  BY <1>4
<1>6. U \ {x} \in SUBSET U /\ U \ {x} # U /\ U \ {x} \in SUBSET S /\ IsFiniteSet(U \ {x})
  BY <1>3, <1>5, FS_Subset
<1>7. scaled(U \ {x})
  BY <1>2, <1>6
<1>8. \A y \in U : F[y] \in Int /\ H[y] \in Int
  <2> SUFFICES ASSUME NEW y \in U PROVE F[y] \in Int /\ F[y] * c \in Int /\ H[y] = F[y] * c
    OBVIOUS
  <2>1. F[y] \in Int /\ H[y] = F[y] * c
    BY <1>3
  <2> QED BY <2>1
<1> HIDE DEF B
<1>9. SumFunctionOnSet(H, U) = H[x] + SumFunctionOnSet(H, U \ {x})
  BY <1>3, <1>5, <1>8, SumWithout
<1>10. SumFunctionOnSet(F, U) = F[x] + SumFunctionOnSet(F, U \ {x})
  BY <1>3, <1>5, <1>8, SumWithout
<1>11. PICK r \in Int : r = SumFunctionOnSet(F, U \ {x})
  <2>1. \A y \in U \ {x} : F[y] \in Int
    BY <1>8
  <2> QED BY <1>6, <2>1, SumInt
<1>12. PICK f \in Int : f = F[x] /\ H[x] = f * c
  BY <1>3, <1>5, <1>8
<1>13. (f + r) * c = f * c + r * c
  OBVIOUS
<1> QED BY <1>3, <1>7, <1>9, <1>10, <1>11, <1>12, <1>13

\* Terms that are zero may be left out.
LEMMA SumOfPart ==
    ASSUME NEW S, IsFiniteSet(S), NEW F, \A x \in S : F[x] \in Int,
           NEW T \in SUBSET S, \A x \in S \ T : F[x] = 0
    PROVE  SumFunctionOnSet(F, S) = SumFunctionOnSet(F, T)
<1> DEFINE sum(U) == SumFunctionOnSet(F, U)
           B == {U \in SUBSET S : T \subseteq U /\ sum(U) # sum(T)}
<1>1. SUFFICES ASSUME B # {} PROVE FALSE
  OBVIOUS
<1>2. PICK U \in B : \A V \in SUBSET U : V # U => V \notin B
  <2>1. B \in SUBSET SUBSET S
    OBVIOUS
  <2> HIDE DEF B
  <2> QED BY <1>1, <2>1, SmallestSubset
<1>3. T \subseteq U /\ sum(U) # sum(T) /\ U \in SUBSET S /\ IsFiniteSet(U)
  BY FS_Subset
<1>4. PICK x \in U : x \notin T
  BY <1>3
<1>5. \A y \in U : F[y] \in Int
  BY <1>3
<1> HIDE DEF B
<1>6. SumFunctionOnSet(F, U) = F[x] + SumFunctionOnSet(F, U \ {x})
  BY <1>3, <1>5, SumWithout
<1>7. F[x] = 0
  BY <1>3, <1>4
<1>8. SumFunctionOnSet(F, U \ {x}) \in Int
  <2>1. IsFiniteSet(U \ {x}) /\ \A y \in U \ {x} : F[y] \in Int
    BY <1>3, <1>5, FS_Subset
  <2> QED BY <2>1, SumInt
<1>9. sum(U \ {x}) = sum(U)
  BY <1>6, <1>7, <1>8
<1> HIDE DEF sum
<1>10. U \ {x} \in B
  BY <1>3, <1>4, <1>9 DEF B
<1> QED BY <1>2, <1>4, <1>10

\* The sum does not depend on the names of the terms.
LEMMA SumRenamed ==
    ASSUME NEW S, NEW F, \A x \in S : F[x] \in Int, NEW I, IsFiniteSet(I), NEW f \in [I -> S],
           \A i, k \in I : f[i] = f[k] => i = k, \A x \in S : \E i \in I : f[i] = x,
           IsFiniteSet(S), NEW H, \A i \in I : H[i] = F[f[i]]
    PROVE  SumFunctionOnSet(H, I) = SumFunctionOnSet(F, S)
<1> DEFINE image(J) == {f[i] : i \in J}
           sums(J) == SumFunctionOnSet(H, J) = SumFunctionOnSet(F, image(J))
           B == {J \in SUBSET I : ~sums(J)}
<1>1. image(I) = S
  OBVIOUS
<1>2. SUFFICES ASSUME B # {} PROVE FALSE
  <2>1. sums(I)
    BY <1>2
  <2> HIDE DEF image
  <2> QED BY <1>1, <2>1
<1>3. PICK J \in B : \A U \in SUBSET J : U # J => U \notin B
  <2>1. B \in SUBSET SUBSET I
    OBVIOUS
  <2> HIDE DEF B
  <2> QED BY <1>2, <2>1, SmallestSubset
<1>4. J \in SUBSET I /\ IsFiniteSet(J) /\ ~sums(J)
  BY FS_Subset
<1>5. image(J) \in SUBSET S /\ IsFiniteSet(image(J))
  BY <1>4, FS_Subset
<1> HIDE DEF B
<1>6. J # {}
  <2> SUFFICES ASSUME J = {} PROVE sums(J)
    BY <1>4
  <2>1. image(J) = {}
    OBVIOUS
  <2>2. SumFunctionOnSet(H, {}) = 0 /\ SumFunctionOnSet(F, {}) = 0
    BY SumZero, FS_EmptySet
  <2> HIDE DEF image
  <2> QED BY <2>1, <2>2
<1>7. PICK i \in J : TRUE
  BY <1>6
<1>8. i \in I /\ f[i] \in S /\ F[f[i]] \in Int /\ H[i] = F[f[i]]
  BY <1>4
<1>9. J \ {i} \in SUBSET J /\ J \ {i} # J
  BY <1>7
<1>10. sums(J \ {i})
  BY <1>3, <1>4, <1>9 DEF B
<1>11. image(J \ {i}) = image(J) \ {f[i]}
  BY <1>4, <1>7
<1>12. f[i] \in image(J)
  BY <1>7
<1>13. \A k \in J : H[k] \in Int
  BY <1>4
<1>14. \A x \in image(J) : F[x] \in Int
  BY <1>5
<1> HIDE DEF image
<1>15. SumFunctionOnSet(H, J) = H[i] + SumFunctionOnSet(H, J \ {i})
  BY <1>4, <1>7, <1>13, SumWithout
<1>16. SumFunctionOnSet(F, image(J)) = F[f[i]] + SumFunctionOnSet(F, image(J) \ {f[i]})
  BY <1>5, <1>12, <1>14, SumWithout
<1>17. sums(J)
  BY <1>8, <1>10, <1>11, <1>15, <1>16
<1> QED BY <1>4, <1>17

=============================================================================
