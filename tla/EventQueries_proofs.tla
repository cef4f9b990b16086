------------------------- MODULE EventQueries_proofs -------------------------
(***************************************************************************)
(* Proofs about EventQueries, for any table, any clock and any number of   *)
(* units in a second, and about Scoring, for any rules and any session.    *)
(* Both rest on the same facts about sums: the summary adds up deltas, the *)
(* engine adds up weights, and what is proved is that neither the order of *)
(* the parts nor what else is among them makes a difference.               *)
(*                                                                         *)
(* Sums and loops are recursive functions over finite sets.  Their         *)
(* properties are proved by induction, as the smallest counterexample is   *)
(* impossible: the subsets of a finite set are well-founded.               *)
(***************************************************************************)
EXTENDS EventQueries, Scoring, FiniteSetTheorems, SequenceTheorems, TLAPS

(***************************************************************************)
(* A session that the engine scores, with any rules and any signals.  The  *)
(* theorems about it assume what ScoringSession assumes of its constants.  *)
(***************************************************************************)
CONSTANTS RuleSets, MaxSignals
Session == INSTANCE ScoringSession

-----------------------------------------------------------------------------
(***************************************************************************)
(* Induction over finite sets.                                             *)
(***************************************************************************)

\* A finite set has no endless descent: of the bad subsets one is smallest. Every
\* induction below is this fact about a set of counterexamples.
LEMMA SmallestSubset ==
  ASSUME NEW S, IsFiniteSet(S), NEW Bad \in SUBSET (SUBSET S), Bad # {}
  PROVE  \E U \in Bad : \A W \in SUBSET U : W # U => W \notin Bad
<1>1. Bad \subseteq FiniteSubsetsOf(S)
  BY FS_FiniteSubsetsOfFinite
<1>2. PICK U \in Bad : \A W \in Bad : <<W, U>> \notin StrictSubsetOrdering(S)
  BY <1>1, FS_StrictSubsetOrderingWellFounded, WFMin
<1>3. ASSUME NEW W \in SUBSET U, W # U, W \in Bad PROVE FALSE
  <2>1. <<W, U>> \in (SUBSET S) \X (SUBSET S)
    BY <1>3
  <2>2. <<W, U>> \in StrictSubsetOrdering(S)
    BY <1>3, <2>1 DEF StrictSubsetOrdering
  <2> QED BY <1>2, <1>3, <2>2
<1> QED BY <1>3

\* Induction up to n.
LEMMA UpTo ==
  ASSUME NEW n \in Nat, NEW A, 0 \in A, \A k \in 0..(n - 1) : k \in A => k + 1 \in A
  PROVE  \A k \in 0..n : k \in A
<1> DEFINE Bad == {T \in SUBSET (0..n) : \E k \in (0..n) \ A : T = 0..k}
<1> SUFFICES ASSUME NEW k \in 0..n, k \notin A PROVE FALSE
  OBVIOUS
<1>1. 0..k \in Bad
  OBVIOUS
<1>2. PICK U \in Bad : \A W \in SUBSET U : W # U => W \notin Bad
  <2>1. Bad \in SUBSET (SUBSET (0..n)) /\ Bad # {} /\ IsFiniteSet(0..n)
    <3>1. Bad \in SUBSET (SUBSET (0..n))
      OBVIOUS
    <3>2. Bad # {}
      BY <1>1
    <3>3. IsFiniteSet(0..n)
      <4> HIDE DEF Bad
      <4> QED BY FS_Interval
    <3> QED BY <3>1, <3>2, <3>3
  <2> HIDE DEF Bad
  <2> QED BY <2>1, SmallestSubset
<1>3. PICK j \in (0..n) \ A : U = 0..j
  BY <1>2
<1>4. j - 1 \in (0..n) \ A /\ (j - 1) + 1 = j
  BY <1>3
<1>5. 0..(j - 1) \in SUBSET U /\ 0..(j - 1) # U
  <2>1. j \in 0..j /\ j \notin 0..(j - 1)
    BY <1>4
  <2> QED BY <1>3, <2>1
<1>6. 0..(j - 1) \in Bad
  BY <1>4, <1>5
<1> QED BY <1>2, <1>5, <1>6

\* Induction over the subsets of E, by adding one element at a time.
LEMMA Grow ==
  ASSUME NEW E, IsFiniteSet(E), NEW Good \in SUBSET (SUBSET E), {} \in Good,
         \A T \in Good : \A y \in E \ T : T \cup {y} \in Good
  PROVE  E \in Good
<1> DEFINE Bad == (SUBSET E) \ Good
<1> SUFFICES ASSUME Bad # {} PROVE FALSE
  OBVIOUS
<1>1. PICK U \in Bad : \A W \in SUBSET U : W # U => W \notin Bad
  <2>1. Bad \in SUBSET (SUBSET E)
    OBVIOUS
  <2> HIDE DEF Bad
  <2> QED BY <2>1, SmallestSubset
<1>2. PICK y \in U : TRUE
  BY <1>1
<1>3. U \ {y} \in Good /\ (U \ {y}) \cup {y} = U
  BY <1>1, <1>2
<1> QED BY <1>1, <1>2, <1>3

\* What defines a fold over the subsets of S: the element picked next, and what is
\* done with it. The folds of the modules are functions defined this way.
Picks(pick, S) == \A T \in SUBSET S : T # {} => pick[T] \in T

Folds(g, S, base, pick, step) ==
  \A T \in SUBSET S : g[T] = IF T = {} THEN base ELSE step[T][g[T \ {pick[T]}]]

StepsIn(step, S, V) == \A T \in SUBSET S : \A v \in V : T # {} => step[T][v] \in V

\* Such a function exists, and its values are in V.
LEMMA Recursion ==
  ASSUME NEW S, IsFiniteSet(S), NEW V, NEW base \in V, NEW pick, NEW step,
         Picks(pick, S), StepsIn(step, S, V)
  PROVE  \E g \in [SUBSET S -> V] : Folds(g, S, base, pick, step)
<1> USE DEF Picks, Folds, StepsIn
<1> DEFINE Small(n) == {T \in SUBSET S : Cardinality(T) <= n}
           Value(g, T) == IF T = {} THEN base ELSE step[T][g[T \ {pick[T]}]]
           A == {n \in Nat : \E g \in [Small(n) -> V] : \A T \in Small(n) : g[T] = Value(g, T)}
           c == Cardinality(S)
<1>1. c \in Nat /\ \A T \in SUBSET S : Cardinality(T) \in Nat /\ Cardinality(T) <= c
  BY FS_Subset, FS_CardinalityType
<1>2. 0 \in A
  <2>1. \A T \in Small(0) : T = {}
    BY FS_Subset, FS_EmptySet, <1>1
  <2> DEFINE g == [T \in Small(0) |-> base]
  <2>2. g \in [Small(0) -> V] /\ \A T \in Small(0) : g[T] = Value(g, T)
    BY <2>1
  <2> QED BY <2>2
<1>3. ASSUME NEW n \in 0..(c - 1), n \in A PROVE n + 1 \in A
  <2>0. n \in Nat /\ n + 1 \in Nat
    BY <1>1
  <2>1. PICK g \in [Small(n) -> V] : \A T \in Small(n) : g[T] = Value(g, T)
    BY <1>3
  <2> DEFINE h == [T \in Small(n + 1) |-> Value(g, T)]
  <2>2. \A T \in Small(n) : T \in Small(n + 1) /\ h[T] = g[T]
    BY <2>0, <2>1, <1>1
  <2>3. ASSUME NEW T \in Small(n + 1), T # {} PROVE T \ {pick[T]} \in Small(n)
    <3>1. IsFiniteSet(T) /\ pick[T] \in T
      BY <2>3, FS_Subset
    <3>2. Cardinality(T \ {pick[T]}) = Cardinality(T) - 1
      BY <3>1, FS_RemoveElement
    <3> QED BY <2>0, <3>2, <1>1
  <2>4. h \in [Small(n + 1) -> V]
    BY <2>1, <2>3
  <2>5. \A T \in Small(n + 1) : h[T] = Value(h, T)
    BY <2>2, <2>3
  <2> HIDE DEF h
  <2> QED BY <2>0, <2>4, <2>5
<1> HIDE DEF A
<1>4. c \in A
  BY <1>1, <1>2, <1>3, UpTo
<1>5. Small(c) = SUBSET S
  BY <1>1
<1> USE DEF A
<1> QED BY <1>4, <1>5

-----------------------------------------------------------------------------
(***************************************************************************)
(* Sums over finite sets of numbers.                                       *)
(***************************************************************************)

\* f has a number for each element of E.
Numbers(f, E) == IsFiniteSet(E) /\ \A e \in E : f[e] \in Int

\* The recursive definition of SumFunctionOnSet, for the subsets of E.
SumsUp(g, f, E) ==
  \A T \in SUBSET E :
    g[T] = IF T = {} THEN 0
           ELSE f[CHOOSE x \in T : TRUE] + g[T \ {CHOOSE x \in T : TRUE}]

\* It defines one function.
LEMMA SumUnique ==
  ASSUME NEW f, NEW E, IsFiniteSet(E), NEW g, NEW h, SumsUp(g, f, E), SumsUp(h, f, E)
  PROVE  \A T \in SUBSET E : g[T] = h[T]
<1> DEFINE Bad == {T \in SUBSET E : g[T] # h[T]}
<1> SUFFICES ASSUME Bad # {} PROVE FALSE
  OBVIOUS
<1>1. PICK U \in Bad : \A W \in SUBSET U : W # U => W \notin Bad
  <2>1. Bad \in SUBSET (SUBSET E)
    OBVIOUS
  <2> HIDE DEF Bad
  <2> QED BY <2>1, SmallestSubset
<1>2. U # {} /\ U \in SUBSET E
  BY <1>1 DEF SumsUp
<1> DEFINE x == CHOOSE x \in U : TRUE
<1>3. x \in U /\ U \ {x} \in SUBSET E
  BY <1>2
<1>4. g[U \ {x}] = h[U \ {x}]
  BY <1>1, <1>3
<1>5. g[U] = f[x] + g[U \ {x}] /\ h[U] = f[x] + h[U \ {x}]
  BY <1>2 DEF SumsUp
<1> HIDE DEF x
<1> QED BY <1>1, <1>4, <1>5

\* SumFunctionOnSet is that function.
LEMMA SumEquation ==
  ASSUME NEW f, NEW E, Numbers(f, E)
  PROVE  \E g \in [SUBSET E -> Int] : SumsUp(g, f, E) /\ SumFunctionOnSet(f, E) = g[E]
<1> DEFINE pick == [T \in SUBSET E |-> CHOOSE x \in T : TRUE]
           step == [T \in SUBSET E |-> [v \in Int |-> f[pick[T]] + v]]
<1>1. Picks(pick, E)
  BY DEF Picks
<1>2. StepsIn(step, E, Int)
  BY <1>1 DEF Numbers, StepsIn, Picks
<1>3. IsFiniteSet(E) /\ 0 \in Int
  BY DEF Numbers
<1> HIDE DEF pick, step
<1>4. PICK g \in [SUBSET E -> Int] : Folds(g, E, 0, pick, step)
  BY <1>1, <1>2, <1>3, Recursion
<1> USE DEF pick, step
<1>5. SumsUp(g, f, E)
  BY <1>4 DEF Folds, SumsUp
<1>6. g = [T \in SUBSET E |-> IF T = {} THEN 0
            ELSE LET x == CHOOSE x \in T : TRUE IN f[x] + g[T \ {x}]]
  BY <1>5 DEF SumsUp
<1>7. PICK h :
        /\ h = [T \in SUBSET E |-> IF T = {} THEN 0
                  ELSE LET x == CHOOSE x \in T : TRUE IN f[x] + h[T \ {x}]]
        /\ SumFunctionOnSet(f, E) = h[E]
  BY <1>6 DEF SumFunctionOnSet, FoldFunctionOnSet, MapThenFoldSet
<1>8. SumsUp(h, f, E)
  BY <1>7 DEF SumsUp
<1>9. h[E] = g[E]
  BY <1>3, <1>5, <1>8, SumUnique
<1> QED BY <1>5, <1>7, <1>9

\* The sum of nothing, and that a sum is a number.
LEMMA SumEmpty ==
  ASSUME NEW f
  PROVE  SumFunctionOnSet(f, {}) = 0
<1>1. Numbers(f, {})
  BY FS_EmptySet DEF Numbers
<1>2. PICK g \in [SUBSET {} -> Int] : SumsUp(g, f, {}) /\ SumFunctionOnSet(f, {}) = g[{}]
  BY <1>1, SumEquation
<1> QED BY <1>2 DEF SumsUp

LEMMA SumInt ==
  ASSUME NEW f, NEW E, Numbers(f, E)
  PROVE  SumFunctionOnSet(f, E) \in Int
<1>1. PICK g \in [SUBSET E -> Int] : SumsUp(g, f, E) /\ SumFunctionOnSet(f, E) = g[E]
  BY SumEquation
<1> QED BY <1>1

\* One step of the definition: it takes out an element of its own choice.
LEMMA SumChosen ==
  ASSUME NEW f, NEW E, Numbers(f, E), E # {}
  PROVE  \E x \in E : SumFunctionOnSet(f, E) = f[x] + SumFunctionOnSet(f, E \ {x})
<1> DEFINE x == CHOOSE x \in E : TRUE
           D == E \ {x}
<1>1. PICK g \in [SUBSET E -> Int] : SumsUp(g, f, E) /\ SumFunctionOnSet(f, E) = g[E]
  BY SumEquation
<1>2. x \in E /\ D \in SUBSET E
  OBVIOUS
<1>3. Numbers(f, D)
  BY FS_Subset DEF Numbers
<1>4. PICK h \in [SUBSET D -> Int] : SumsUp(h, f, D) /\ SumFunctionOnSet(f, D) = h[D]
  <2> HIDE DEF D
  <2> QED BY <1>3, SumEquation
<1>5. SumsUp(g, f, D)
  BY <1>1 DEF SumsUp
<1>6. g[D] = h[D]
  BY <1>3, <1>4, <1>5, SumUnique DEF Numbers
<1>7. g[E] = f[x] + g[D]
  BY <1>1 DEF SumsUp
<1> HIDE DEF x
<1> QED BY <1>1, <1>2, <1>4, <1>6, <1>7

\* The choice does not matter: any element can be taken out, or added.
LEMMA SumRemove ==
  ASSUME NEW f, NEW E, Numbers(f, E), NEW y \in E
  PROVE  SumFunctionOnSet(f, E) = f[y] + SumFunctionOnSet(f, E \ {y})
<1> DEFINE Bad == {T \in SUBSET E :
                     \E z \in T : SumFunctionOnSet(f, T) # f[z] + SumFunctionOnSet(f, T \ {z})}
<1> SUFFICES ASSUME Bad # {} PROVE FALSE
  OBVIOUS
<1>1. PICK U \in Bad : \A W \in SUBSET U : W # U => W \notin Bad
  <2>1. Bad \in SUBSET (SUBSET E) /\ IsFiniteSet(E)
    BY DEF Numbers
  <2> HIDE DEF Bad
  <2> QED BY <2>1, SmallestSubset
<1>2. PICK z \in U : SumFunctionOnSet(f, U) # f[z] + SumFunctionOnSet(f, U \ {z})
  BY <1>1
<1>3. \A T \in SUBSET E : Numbers(f, T)
  BY FS_Subset DEF Numbers
<1>4. PICK x \in U : SumFunctionOnSet(f, U) = f[x] + SumFunctionOnSet(f, U \ {x})
  <2>1. Numbers(f, U) /\ U # {}
    BY <1>2, <1>3
  <2> QED BY <2>1, SumChosen
<1>5. x # z
  BY <1>2, <1>4
<1>6. U \ {x} \notin Bad /\ U \ {z} \notin Bad
  BY <1>1, <1>2, <1>4
<1>7. SumFunctionOnSet(f, U \ {x}) = f[z] + SumFunctionOnSet(f, (U \ {x}) \ {z})
  BY <1>5, <1>6
<1>8. SumFunctionOnSet(f, U \ {z}) = f[x] + SumFunctionOnSet(f, (U \ {z}) \ {x})
  BY <1>5, <1>6
<1>9. (U \ {x}) \ {z} = (U \ {z}) \ {x}
  OBVIOUS
<1>10. /\ f[x] \in Int /\ f[z] \in Int
       /\ SumFunctionOnSet(f, (U \ {x}) \ {z}) \in Int
  <2>1. (U \ {x}) \ {z} \in SUBSET E
    OBVIOUS
  <2> QED BY <1>3, <2>1, SumInt DEF Numbers
<1> QED BY <1>2, <1>4, <1>7, <1>8, <1>9, <1>10

LEMMA SumAdd ==
  ASSUME NEW f, NEW E, Numbers(f, E), NEW y, y \notin E, f[y] \in Int
  PROVE  /\ Numbers(f, E \cup {y})
         /\ SumFunctionOnSet(f, E \cup {y}) = f[y] + SumFunctionOnSet(f, E)
<1>1. Numbers(f, E \cup {y})
  BY FS_AddElement DEF Numbers
<1>2. (E \cup {y}) \ {y} = E /\ y \in E \cup {y}
  OBVIOUS
<1> QED BY <1>1, <1>2, SumRemove

\* Sums of functions that agree on E, sums of sums, and of zeros.
LEMMA SumAgree ==
  ASSUME NEW f, NEW g, NEW E, Numbers(f, E), \A e \in E : g[e] = f[e]
  PROVE  SumFunctionOnSet(g, E) = SumFunctionOnSet(f, E)
<1> DEFINE Good == {T \in SUBSET E : SumFunctionOnSet(g, T) = SumFunctionOnSet(f, T)}
<1>1. {} \in Good
  BY SumEmpty
<1>2. ASSUME NEW T \in Good, NEW y \in E \ T PROVE T \cup {y} \in Good
  <2>1. Numbers(f, T) /\ Numbers(g, T) /\ f[y] \in Int /\ g[y] = f[y]
    BY FS_Subset DEF Numbers
  <2> QED BY <2>1, SumAdd
<1>3. Good \in SUBSET (SUBSET E) /\ IsFiniteSet(E)
  BY DEF Numbers
<1> HIDE DEF Good
<1>4. E \in Good
  BY <1>1, <1>2, <1>3, Grow
<1> QED BY <1>4 DEF Good

LEMMA SumPlus ==
  ASSUME NEW f, NEW g, NEW h, NEW E, Numbers(f, E), Numbers(g, E),
         \A e \in E : h[e] = f[e] + g[e]
  PROVE  SumFunctionOnSet(h, E) = SumFunctionOnSet(f, E) + SumFunctionOnSet(g, E)
<1> DEFINE Good == {T \in SUBSET E :
                      SumFunctionOnSet(h, T) = SumFunctionOnSet(f, T) + SumFunctionOnSet(g, T)}
<1>1. {} \in Good
  BY SumEmpty
<1>2. ASSUME NEW T \in Good, NEW y \in E \ T PROVE T \cup {y} \in Good
  <2>1. /\ Numbers(f, T) /\ Numbers(g, T) /\ Numbers(h, T)
        /\ f[y] \in Int /\ g[y] \in Int /\ h[y] = f[y] + g[y]
    BY FS_Subset DEF Numbers
  <2>2. SumFunctionOnSet(f, T) \in Int /\ SumFunctionOnSet(g, T) \in Int
    BY <2>1, SumInt
  <2>3. /\ SumFunctionOnSet(f, T \cup {y}) = f[y] + SumFunctionOnSet(f, T)
        /\ SumFunctionOnSet(g, T \cup {y}) = g[y] + SumFunctionOnSet(g, T)
        /\ SumFunctionOnSet(h, T \cup {y}) = h[y] + SumFunctionOnSet(h, T)
    BY <2>1, SumAdd
  <2> QED BY <2>1, <2>2, <2>3
<1>3. Good \in SUBSET (SUBSET E) /\ IsFiniteSet(E)
  BY DEF Numbers
<1> HIDE DEF Good
<1>4. E \in Good
  BY <1>1, <1>2, <1>3, Grow
<1> QED BY <1>4 DEF Good

LEMMA SumZero ==
  ASSUME NEW f, NEW E, Numbers(f, E), \A e \in E : f[e] = 0
  PROVE  SumFunctionOnSet(f, E) = 0
<1> DEFINE Good == {T \in SUBSET E : SumFunctionOnSet(f, T) = 0}
<1>1. {} \in Good
  BY SumEmpty
<1>2. ASSUME NEW T \in Good, NEW y \in E \ T PROVE T \cup {y} \in Good
  <2>1. Numbers(f, T) /\ f[y] \in Int /\ f[y] = 0
    BY FS_Subset DEF Numbers
  <2>2. SumFunctionOnSet(f, T \cup {y}) = f[y] + SumFunctionOnSet(f, T)
    BY <2>1, SumAdd
  <2> QED BY <2>1, <2>2
<1>3. Good \in SUBSET (SUBSET E) /\ IsFiniteSet(E)
  BY DEF Numbers
<1> HIDE DEF Good
<1>4. E \in Good
  BY <1>1, <1>2, <1>3, Grow
<1> QED BY <1>4 DEF Good

\* Where all is 0 but one, the sum is that one.
LEMMA SumSingle ==
  ASSUME NEW f, NEW E, Numbers(f, E), NEW x \in E, \A e \in E \ {x} : f[e] = 0
  PROVE  SumFunctionOnSet(f, E) = f[x]
<1> DEFINE D == E \ {x}
<1>1. Numbers(f, D) /\ f[x] \in Int
  BY FS_Subset DEF Numbers
<1>2. SumFunctionOnSet(f, D) = 0
  <2> HIDE DEF D
  <2>1. \A e \in D : f[e] = 0
    BY DEF D
  <2> QED BY <1>1, <2>1, SumZero
<1> QED BY <1>1, <1>2, SumRemove

\* More penalties never make a sum greater.
LEMMA SumFalls ==
  ASSUME NEW f, NEW E, NEW D \in SUBSET E, Numbers(f, E),
         \A e \in E \ D : f[e] <= 0
  PROVE  SumFunctionOnSet(f, E) <= SumFunctionOnSet(f, D)
<1> DEFINE Good == {T \in SUBSET (E \ D) :
                      SumFunctionOnSet(f, D \cup T) <= SumFunctionOnSet(f, D)}
<1>0. \A T \in SUBSET E : Numbers(f, T) /\ SumFunctionOnSet(f, T) \in Int
  <2>1. \A T \in SUBSET E : Numbers(f, T)
    BY FS_Subset DEF Numbers
  <2> QED BY <2>1, SumInt
<1>1. {} \in Good
  <2>1. D \cup {} = D
    OBVIOUS
  <2> QED BY <1>0, <2>1
<1>2. ASSUME NEW T \in Good, NEW y \in (E \ D) \ T PROVE T \cup {y} \in Good
  <2>1. Numbers(f, D \cup T) /\ y \notin D \cup T /\ f[y] \in Int /\ f[y] <= 0
    BY <1>0 DEF Numbers
  <2>2. SumFunctionOnSet(f, (D \cup T) \cup {y}) = f[y] + SumFunctionOnSet(f, D \cup T)
    BY <2>1, SumAdd
  <2>3. (D \cup T) \cup {y} = D \cup (T \cup {y})
    OBVIOUS
  <2>4. SumFunctionOnSet(f, D \cup T) \in Int /\ SumFunctionOnSet(f, D) \in Int
    BY <1>0
  <2>5. SumFunctionOnSet(f, D \cup (T \cup {y})) <= SumFunctionOnSet(f, D)
    <3>1. SumFunctionOnSet(f, D \cup T) <= SumFunctionOnSet(f, D)
      BY <1>2
    <3>2. SumFunctionOnSet(f, D \cup (T \cup {y})) = f[y] + SumFunctionOnSet(f, D \cup T)
      BY <2>2, <2>3
    <3> QED BY <2>1, <2>4, <3>1, <3>2
  <2> QED BY <2>5
<1>3. Good \in SUBSET (SUBSET (E \ D)) /\ IsFiniteSet(E \ D)
  BY FS_Subset DEF Numbers
<1> HIDE DEF Good
<1>4. E \ D \in Good
  BY <1>1, <1>2, <1>3, Grow
<1>5. D \cup (E \ D) = E
  OBVIOUS
<1> QED BY <1>4, <1>5 DEF Good

\* Greater numbers, greater sum.
LEMMA SumAtMost ==
  ASSUME NEW f, NEW g, NEW E, Numbers(f, E), Numbers(g, E), \A e \in E : f[e] <= g[e]
  PROVE  SumFunctionOnSet(f, E) <= SumFunctionOnSet(g, E)
<1> DEFINE Good == {T \in SUBSET E : SumFunctionOnSet(f, T) <= SumFunctionOnSet(g, T)}
<1>1. {} \in Good
  BY SumEmpty
<1>2. ASSUME NEW T \in Good, NEW y \in E \ T PROVE T \cup {y} \in Good
  <2>1. /\ Numbers(f, T) /\ Numbers(g, T)
        /\ f[y] \in Int /\ g[y] \in Int /\ f[y] <= g[y]
    BY FS_Subset DEF Numbers
  <2>2. /\ SumFunctionOnSet(f, T \cup {y}) = f[y] + SumFunctionOnSet(f, T)
        /\ SumFunctionOnSet(g, T \cup {y}) = g[y] + SumFunctionOnSet(g, T)
    BY <2>1, SumAdd
  <2>3. SumFunctionOnSet(f, T) \in Int /\ SumFunctionOnSet(g, T) \in Int
    BY <2>1, SumInt
  <2>4. SumFunctionOnSet(f, T \cup {y}) <= SumFunctionOnSet(g, T \cup {y})
    BY <2>1, <2>2, <2>3
  <2> QED BY <2>4
<1>3. Good \in SUBSET (SUBSET E) /\ IsFiniteSet(E)
  BY DEF Numbers
<1> HIDE DEF Good
<1>4. E \in Good
  BY <1>1, <1>2, <1>3, Grow
<1> QED BY <1>4 DEF Good

\* A sum of penalties is no less than each of them.
LEMMA SumAtLeast ==
  ASSUME NEW f, NEW E, Numbers(f, E), \A e \in E : f[e] >= 0, NEW x \in E
  PROVE  SumFunctionOnSet(f, E) >= f[x]
<1> DEFINE D == E \ {x}
           Good == {T \in SUBSET D : SumFunctionOnSet(f, T) >= 0}
<1>1. {} \in Good
  BY SumEmpty
<1>2. ASSUME NEW T \in Good, NEW y \in D \ T PROVE T \cup {y} \in Good
  <2>1. Numbers(f, T) /\ f[y] \in Int /\ f[y] >= 0
    BY FS_Subset DEF Numbers
  <2>2. SumFunctionOnSet(f, T \cup {y}) = f[y] + SumFunctionOnSet(f, T)
    BY <2>1, SumAdd
  <2>3. SumFunctionOnSet(f, T) \in Int
    BY <2>1, SumInt
  <2>4. SumFunctionOnSet(f, T \cup {y}) >= 0
    BY <2>1, <2>2, <2>3
  <2> QED BY <2>4
<1>3. Good \in SUBSET (SUBSET D) /\ IsFiniteSet(D)
  BY FS_Subset DEF Numbers
<1> HIDE DEF Good
<1>4. D \in Good
  BY <1>1, <1>2, <1>3, Grow
<1>5. SumFunctionOnSet(f, E) = f[x] + SumFunctionOnSet(f, D)
  BY SumRemove
<1>6. SumFunctionOnSet(f, D) \in Int /\ f[x] \in Int
  BY <1>3, SumInt DEF Numbers
<1> USE DEF Good
<1> QED BY <1>4, <1>5, <1>6

\* A sum of ones and zeros counts the ones.
LEMMA SumCounts ==
  ASSUME NEW f, NEW E, IsFiniteSet(E), \A e \in E : f[e] \in {0, 1}
  PROVE  SumFunctionOnSet(f, E) = Cardinality({e \in E : f[e] = 1})
<1> DEFINE Ones(T) == {e \in T : f[e] = 1}
           Good == {T \in SUBSET E : SumFunctionOnSet(f, T) = Cardinality(Ones(T))}
<1>1. {} \in Good
  <2>1. Ones({}) = {}
    OBVIOUS
  <2> QED BY <2>1, SumEmpty, FS_EmptySet
<1>2. ASSUME NEW T \in Good, NEW y \in E \ T PROVE T \cup {y} \in Good
  <2>1. Numbers(f, T) /\ f[y] \in {0, 1}
    BY FS_Subset DEF Numbers
  <2>2. SumFunctionOnSet(f, T \cup {y}) = f[y] + SumFunctionOnSet(f, T)
    BY <2>1, SumAdd
  <2>3. IsFiniteSet(Ones(T)) /\ Cardinality(Ones(T)) \in Nat /\ y \notin Ones(T)
    BY <2>1, FS_Subset, FS_CardinalityType DEF Numbers
  <2>4. Cardinality(Ones(T \cup {y})) = f[y] + Cardinality(Ones(T))
    <3>1. CASE f[y] = 1
      <4>1. Ones(T \cup {y}) = Ones(T) \cup {y}
        BY <3>1
      <4> HIDE DEF Ones
      <4>2. Cardinality(Ones(T) \cup {y}) = Cardinality(Ones(T)) + 1
        BY <2>3, FS_AddElement
      <4>3. Cardinality(Ones(T \cup {y})) = Cardinality(Ones(T)) + 1
        BY <4>1, <4>2
      <4> HIDE DEF Good
      <4> QED BY <2>3, <3>1, <4>3
    <3>2. CASE f[y] = 0
      <4>1. Ones(T \cup {y}) = Ones(T)
        BY <3>2
      <4> QED BY <2>3, <3>2, <4>1
    <3> QED BY <2>1, <3>1, <3>2
  <2> HIDE DEF Ones
  <2> QED BY <2>2, <2>4
<1>3. Good \in SUBSET (SUBSET E)
  OBVIOUS
<1> HIDE DEF Good
<1>4. E \in Good
  BY <1>1, <1>2, <1>3, Grow
<1> QED BY <1>4 DEF Good

\* Every element of E is in one class: the classes add up to E.
Classes(class, E, C) == \A e \in E : class[e] \in C

Counts(count, class, E, C) == \A c \in C : count[c] = Cardinality({e \in E : class[e] = c})

LEMMA ClassesAddUp ==
  ASSUME NEW E, IsFiniteSet(E), NEW C, IsFiniteSet(C),
         NEW class, Classes(class, E, C), NEW count, Counts(count, class, E, C)
  PROVE  SumFunctionOnSet(count, C) = Cardinality(E)
<1> USE DEF Classes, Counts
<1> DEFINE In(T) == {e \in E : class[e] \in T}
           Of(c) == {e \in E : class[e] = c}
           Good == {T \in SUBSET C : SumFunctionOnSet(count, T) = Cardinality(In(T))}
<1>1. {} \in Good
  <2>1. In({}) = {}
    OBVIOUS
  <2> QED BY <2>1, SumEmpty, FS_EmptySet
<1>2. \A T : IsFiniteSet(In(T)) /\ Cardinality(In(T)) \in Nat
  BY FS_Subset, FS_CardinalityType
<1>3. \A c : IsFiniteSet(Of(c)) /\ Cardinality(Of(c)) \in Nat
  BY FS_Subset, FS_CardinalityType
<1>4. ASSUME NEW T \in Good, NEW c \in C \ T PROVE T \cup {c} \in Good
  <2>1. Numbers(count, T) /\ count[c] \in Int /\ count[c] = Cardinality(Of(c))
    <3>1. IsFiniteSet(T)
      BY FS_Subset
    <3>2. ASSUME NEW d \in C PROVE count[d] = Cardinality(Of(d)) /\ count[d] \in Int
      <4>1. count[d] = Cardinality(Of(d))
        OBVIOUS
      <4> HIDE DEF Of
      <4> QED BY <1>3, <4>1
    <3> QED BY <3>1, <3>2 DEF Numbers
  <2>2. SumFunctionOnSet(count, T \cup {c}) = count[c] + SumFunctionOnSet(count, T)
    BY <2>1, SumAdd
  <2>3. In(T \cup {c}) = In(T) \cup Of(c) /\ In(T) \cap Of(c) = {}
    OBVIOUS
  <2> HIDE DEF In, Of
  <2>4. Cardinality(In(T) \cup Of(c)) = Cardinality(In(T)) + Cardinality(Of(c))
    <3>1. Cardinality(In(T) \cup Of(c))
            = Cardinality(In(T)) + Cardinality(Of(c)) - Cardinality(In(T) \cap Of(c))
      BY <1>2, <1>3, FS_Union
    <3>2. Cardinality(In(T) \cap Of(c)) = 0
      BY <2>3, FS_EmptySet
    <3> QED BY <1>2, <1>3, <3>1, <3>2
  <2>5. SumFunctionOnSet(count, T \cup {c}) = Cardinality(In(T \cup {c}))
    BY <1>2, <1>3, <2>1, <2>2, <2>3, <2>4
  <2> QED BY <2>5
<1>5. Good \in SUBSET (SUBSET C)
  OBVIOUS
<1> HIDE DEF Good
<1>6. C \in Good
  BY <1>1, <1>4, <1>5, Grow
<1>7. In(C) = E
  OBVIOUS
<1> QED BY <1>6, <1>7 DEF Good

-----------------------------------------------------------------------------
(***************************************************************************)
(* Loops over a list.                                                      *)
(***************************************************************************)

\* The indices of a list, and the greatest of some of them.
LEMMA FiniteRange == \A n \in Nat : IsFiniteSet(1..n)
  BY FS_Interval

LEMMA Largest ==
  ASSUME NEW n \in Nat
  PROVE  /\ \A T \in SUBSET (1..n) :
              T # {} => Max(T) \in T /\ \A i \in T : Max(T) >= i
         /\ \A k \in 1..n : Max(1..k) = k /\ (1..k) \ {k} = 1..(k - 1)
<1> DEFINE Below(T, k) == T # {} /\ \A i \in T : i <= k
           HasMax(T) == \E m \in T : \A i \in T : m >= i
           A == {k \in 0..n : \A T \in SUBSET (1..n) : Below(T, k) => HasMax(T)}
<1>1. 0 \in A
  <2>1. ASSUME NEW T \in SUBSET (1..n), Below(T, 0) PROVE FALSE
    <3>1. PICK i \in T : TRUE
      BY <2>1
    <3>2. i \in 1..n /\ i <= 0
      BY <2>1
    <3> QED BY <3>2
  <2> QED BY <2>1
<1>2. ASSUME NEW k \in 0..(n - 1), k \in A PROVE k + 1 \in A
  <2>1. ASSUME NEW T \in SUBSET (1..n), Below(T, k + 1) PROVE HasMax(T)
    <3>1. CASE k + 1 \in T
      BY <2>1, <3>1
    <3>2. CASE k + 1 \notin T
      <4>1. Below(T, k)
        BY <2>1, <3>2
      <4> QED BY <1>2, <4>1
    <3> QED BY <3>1, <3>2
  <2> QED BY <2>1
<1> HIDE DEF A
<1>3. n \in A
  BY <1>1, <1>2, UpTo
<1> USE DEF A
<1>4. ASSUME NEW T \in SUBSET (1..n), T # {} PROVE Max(T) \in T /\ \A i \in T : Max(T) >= i
  <2>1. HasMax(T)
    <3>1. Below(T, n)
      BY <1>4
    <3> QED BY <1>3, <3>1
  <2> QED BY <2>1 DEF Max
<1>5. ASSUME NEW k \in 1..n PROVE Max(1..k) = k /\ (1..k) \ {k} = 1..(k - 1)
  <2>1. 1..k \in SUBSET (1..n) /\ k \in 1..k
    OBVIOUS
  <2>2. Max(1..k) \in 1..k /\ Max(1..k) >= k
    BY <1>4, <2>1
  <2> QED BY <2>2
<1> QED BY <1>4, <1>5

\* next is a step of a loop: from what there is before the k-th element to what is
\* there after it. FoldLeft applies the steps to the greatest index last.
NextIn(next, n, V) == \A k \in 1..n : \A v \in V : next[k][v] \in V

Loops(g, n, base, next) ==
  \A T \in SUBSET (1..n) : g[T] = IF T = {} THEN base ELSE next[Max(T)][g[T \ {Max(T)}]]

\* A loop has a result, and so has every part of it.
LEMMA Loop ==
  ASSUME NEW n \in Nat, NEW V, NEW base \in V, NEW next, NextIn(next, n, V)
  PROVE  \E g \in [SUBSET (1..n) -> V] : Loops(g, n, base, next)
<1> USE DEF NextIn, Loops
<1> DEFINE U == 1..n
           pick == [T \in SUBSET U |-> Max(T)]
           step == [T \in SUBSET U |-> next[Max(T)]]
<1>1. \A T \in SUBSET U : T # {} => Max(T) \in T
  BY Largest
<1>2. Picks(pick, U)
  BY <1>1 DEF Picks
<1>3. StepsIn(step, U, V)
  BY <1>1 DEF StepsIn
<1>4. IsFiniteSet(U)
  BY FS_Interval
<1> HIDE DEF U, pick, step
<1>5. PICK g \in [SUBSET U -> V] : Folds(g, U, base, pick, step)
  BY <1>2, <1>3, <1>4, Recursion
<1> USE DEF U, pick, step
<1> QED BY <1>5 DEF Folds

\* The sum of a measure w of rules over a list of them, and how often x is among the
\* first n of seq.
Total(w, list) == SumFunctionOnSet([i \in DOMAIN list |-> w[list[i]]], DOMAIN list)
Count(seq, n, x) == Cardinality({i \in 1..n : seq[i] = x})

\* g begins as f does: counting goes one further.
Begins(f, g, n) == \A i \in 1..n : g[i] = f[i]

LEMMA CountNext ==
  ASSUME NEW n \in Nat, NEW f, NEW g, Begins(f, g, n), NEW x
  PROVE  /\ Count(f, n, x) \in Nat
         /\ Count(g, n + 1, x) = Count(f, n, x) + IF g[n + 1] = x THEN 1 ELSE 0
<1> USE DEF Begins
<1> DEFINE F == {i \in 1..n : f[i] = x}
           G == {i \in 1..(n + 1) : g[i] = x}
<1>1. IsFiniteSet(F) /\ Cardinality(F) \in Nat
  <2>1. IsFiniteSet(1..n)
    BY FiniteRange
  <2> QED BY <2>1, FS_Subset, FS_CardinalityType
<1>2. n + 1 \notin F /\ G = IF g[n + 1] = x THEN F \cup {n + 1} ELSE F
  OBVIOUS
<1>3. Cardinality(G) = Cardinality(F) + IF g[n + 1] = x THEN 1 ELSE 0
  <2> HIDE DEF F, G
  <2>1. CASE g[n + 1] = x
    <3>1. G = F \cup {n + 1}
      BY <1>2, <2>1
    <3>2. Cardinality(F \cup {n + 1}) = Cardinality(F) + 1
      BY <1>1, <1>2, FS_AddElement
    <3> QED BY <2>1, <3>1, <3>2
  <2>2. CASE g[n + 1] # x
    BY <1>1, <1>2, <2>2
  <2> QED BY <2>1, <2>2
<1> QED BY <1>1, <1>3 DEF Count

LEMMA CountNone == \A f, x : Count(f, 0, x) = 0
<1> SUFFICES ASSUME NEW f, NEW x PROVE Count(f, 0, x) = 0
  OBVIOUS
<1>1. {i \in 1..0 : f[i] = x} = {}
  OBVIOUS
<1> QED BY <1>1, FS_EmptySet DEF Count

\* Totals are numbers, and grow by the rule that is pushed.
LEMMA TotalInt ==
  ASSUME NEW R, NEW w \in [R -> Int], NEW s \in Seq(R)
  PROVE  /\ Numbers([i \in DOMAIN s |-> w[s[i]]], DOMAIN s)
         /\ Total(w, s) \in Int
<1>1. Len(s) \in Nat /\ DOMAIN s = 1..Len(s) /\ \A i \in 1..Len(s) : s[i] \in R
  BY LenProperties, ElementOfSeq
<1>2. Numbers([i \in DOMAIN s |-> w[s[i]]], DOMAIN s)
  <2>1. IsFiniteSet(DOMAIN s)
    BY <1>1, FS_Interval
  <2> QED BY <1>1, <2>1 DEF Numbers
<1> QED BY <1>2, SumInt DEF Total

LEMMA TotalAppend ==
  ASSUME NEW R, NEW w \in [R -> Int], NEW s \in Seq(R), NEW r \in R
  PROVE  Total(w, Append(s, r)) = Total(w, s) + w[r]
<1> DEFINE n == Len(s)
           t == Append(s, r)
           f == [i \in DOMAIN s |-> w[s[i]]]
           g == [i \in DOMAIN t |-> w[t[i]]]
<1>1. /\ n \in Nat /\ DOMAIN s = 1..n /\ t \in Seq(R) /\ Len(t) = n + 1 /\ DOMAIN t = 1..(n + 1)
      /\ \A i \in 1..n : t[i] = s[i]
      /\ t[n + 1] = r
  BY AppendProperties, LenProperties
<1>2. Numbers(f, 1..n) /\ Numbers(g, 1..(n + 1))
  <2>1. Numbers(f, DOMAIN s)
    BY TotalInt
  <2>2. t \in Seq(R)
    BY <1>1
  <2>3. Numbers(g, DOMAIN t)
    <3> HIDE DEF t
    <3> QED BY <2>2, TotalInt
  <2> HIDE DEF f, g, t, n
  <2> QED BY <1>1, <2>1, <2>3
<1>3. \A i \in 1..n : g[i] = f[i]
  BY <1>1
<1>4. g[n + 1] = w[r]
  BY <1>1
<1>5. n + 1 \in 1..(n + 1) /\ (1..(n + 1)) \ {n + 1} = 1..n
  BY <1>1
<1> HIDE DEF f, g
<1>6. SumFunctionOnSet(g, 1..(n + 1)) = g[n + 1] + SumFunctionOnSet(g, 1..n)
  <2>1. Numbers(g, 1..(n + 1)) /\ n + 1 \in 1..(n + 1)
    BY <1>2, <1>5
  <2>2. SumFunctionOnSet(g, 1..(n + 1))
          = g[n + 1] + SumFunctionOnSet(g, (1..(n + 1)) \ {n + 1})
    BY <2>1, SumRemove
  <2> QED BY <1>5, <2>2
<1>7. SumFunctionOnSet(g, 1..n) = SumFunctionOnSet(f, 1..n) /\ SumFunctionOnSet(f, 1..n) \in Int
  BY <1>2, <1>3, SumAgree, SumInt
<1>8. w[r] \in Int
  OBVIOUS
<1>9. Total(w, t) = SumFunctionOnSet(g, 1..(n + 1)) /\ Total(w, s) = SumFunctionOnSet(f, 1..n)
  BY <1>1 DEF Total, f, g
<1> QED BY <1>4, <1>6, <1>7, <1>8, <1>9

-----------------------------------------------------------------------------
(***************************************************************************)
(* The loops of score_signals.                                             *)
(***************************************************************************)

LEMMA SumOverDomain == \A f : SumFunction(f) = SumFunctionOnSet(f, DOMAIN f)
  BY DEF SumFunction, SumFunctionOnSet

\* p[k] is the list that PushRulesForSignal has after k rules.
Pushes(p, R, rs, acc, signal) ==
  /\ p \in [0..Len(rs) -> Seq(R)]
  /\ p[0] = acc
  /\ \A k \in 1..Len(rs) :
       p[k] = IF rs[k].signal = signal THEN Append(p[k - 1], rs[k]) ELSE p[k - 1]
  /\ PushRulesForSignal(rs, acc, signal) = p[Len(rs)]

LEMMA PushLoop ==
  ASSUME NEW R, NEW rs \in Seq(R), NEW acc \in Seq(R), NEW signal
  PROVE  \E p : Pushes(p, R, rs, acc, signal)
<1> DEFINE n == Len(rs)
           next == [k \in 1..n |-> [v \in Seq(R) |->
                      IF rs[k].signal = signal THEN Append(v, rs[k]) ELSE v]]
<1>1. n \in Nat /\ DOMAIN rs = 1..n /\ \A k \in 1..n : rs[k] \in R
  BY LenProperties, ElementOfSeq
<1>2. NextIn(next, n, Seq(R))
  BY <1>1, AppendProperties DEF NextIn
<1>3. PICK g \in [SUBSET (1..n) -> Seq(R)] : Loops(g, n, acc, next)
  <2> HIDE DEF n, next
  <2> QED BY <1>1, <1>2, Loop
<1>4. \A T \in SUBSET (1..n) : T # {} => Max(T) \in 1..n
  BY <1>1, Largest
<1>5. g = [T \in SUBSET (DOMAIN rs) |->
             IF T = {} THEN acc
             ELSE LET x == Max(T)
                  IN  IF rs[x].signal = signal THEN Append(g[T \ {x}], rs[x]) ELSE g[T \ {x}]]
  BY <1>1, <1>3, <1>4 DEF Loops
<1>6. PICK h :
        /\ h = [T \in SUBSET (DOMAIN rs) |->
                  IF T = {} THEN acc
                  ELSE LET x == Max(T)
                       IN  IF rs[x].signal = signal THEN Append(h[T \ {x}], rs[x]) ELSE h[T \ {x}]]
        /\ PushRulesForSignal(rs, acc, signal) = h[DOMAIN rs]
  BY <1>5 DEF PushRulesForSignal, FoldLeft, MapThenFoldSet
<1> DEFINE p == [k \in 0..n |-> h[1..k]]
<1>7. /\ p[0] = acc
      /\ \A k \in 1..n : p[k] = IF rs[k].signal = signal THEN Append(p[k - 1], rs[k]) ELSE p[k - 1]
  <2>1. h[1..0] = acc
    <3>1. 1..0 = {}
      BY SMT
    <3> QED BY <1>6, <3>1
  <2>2. ASSUME NEW k \in 1..n
        PROVE  h[1..k] = IF rs[k].signal = signal THEN Append(h[1..(k - 1)], rs[k]) ELSE h[1..(k - 1)]
    <3>1. Max(1..k) = k /\ (1..k) \ {k} = 1..(k - 1)
      BY <1>1, Largest
    <3>2. 1..k \in SUBSET (DOMAIN rs) /\ 1..k # {}
      BY <1>1
    <3> QED BY <1>6, <3>1, <3>2
  <2> QED BY <1>1, <2>1, <2>2
<1> DEFINE A == {k \in 0..n : p[k] \in Seq(R)}
<1>8. 0 \in A
  BY <1>1, <1>7
<1>9. ASSUME NEW k \in 0..(n - 1), k \in A PROVE k + 1 \in A
  <2>1. k + 1 \in 1..n /\ (k + 1) - 1 = k /\ p[k] \in Seq(R)
    BY <1>1, <1>9
  <2>2. rs[k + 1] \in R
    BY <1>1, <2>1
  <2>3. Append(p[k], rs[k + 1]) \in Seq(R)
    BY <2>1, <2>2, AppendProperties
  <2>4. p[k + 1] = IF rs[k + 1].signal = signal THEN Append(p[k], rs[k + 1]) ELSE p[k]
    <3> HIDE DEF p, n
    <3> QED BY <1>7, <2>1
  <2>5. p[k + 1] \in Seq(R) /\ k + 1 \in 0..n
    <3> HIDE DEF p
    <3> QED BY <1>1, <2>1, <2>3, <2>4
  <2> QED BY <2>5
<1>10. \A k \in 0..n : p[k] \in Seq(R)
  <2> HIDE DEF A, p, n
  <2>1. \A k \in 0..n : k \in A
    BY <1>1, <1>8, <1>9, UpTo
  <2> QED BY <2>1 DEF A
<1>11. p \in [0..n -> Seq(R)]
  BY <1>10
<1>12. p[n] = h[DOMAIN rs]
  BY <1>1
<1> HIDE DEF p
<1> QED BY <1>6, <1>7, <1>11, <1>12 DEF Pushes

\* What a signal adds for each rule.
Adds(adds, w, rs, signal) ==
  \A i \in DOMAIN rs : adds[i] = IF rs[i].signal = signal THEN w[rs[i]] ELSE 0

\* One signal pushes each of its rules once, whatever the measure.
LEMMA PushTotal ==
  ASSUME NEW R, NEW w \in [R -> Int], NEW rs \in Seq(R), NEW acc \in Seq(R), NEW signal,
         NEW adds, Adds(adds, w, rs, signal)
  PROVE  /\ PushRulesForSignal(rs, acc, signal) \in Seq(R)
         /\ Numbers(adds, DOMAIN rs)
         /\ Total(w, PushRulesForSignal(rs, acc, signal))
              = Total(w, acc) + SumFunctionOnSet(adds, DOMAIN rs)
<1> DEFINE n == Len(rs)
<1>0. PICK p : Pushes(p, R, rs, acc, signal)
  BY PushLoop
<1>1. /\ p \in [0..n -> Seq(R)]
      /\ p[0] = acc
      /\ PushRulesForSignal(rs, acc, signal) = p[n]
  BY <1>0 DEF Pushes
<1>2. /\ n \in Nat /\ DOMAIN rs = 1..n
      /\ \A i \in 1..n : rs[i] \in R /\ w[rs[i]] \in Int /\ adds[i] \in Int
  <2>1. n \in Nat /\ DOMAIN rs = 1..n /\ \A i \in 1..n : rs[i] \in R
    BY LenProperties, ElementOfSeq
  <2>2. \A i \in 1..n : w[rs[i]] \in Int
    BY <2>1
  <2>3. ASSUME NEW i \in 1..n PROVE adds[i] \in Int
    <3>1. adds[i] = IF rs[i].signal = signal THEN w[rs[i]] ELSE 0
      BY <2>1 DEF Adds
    <3> QED BY <2>2, <3>1
  <2> QED BY <2>1, <2>2, <2>3
<1>3. \A k \in 0..n : Numbers(adds, 1..k)
  <2>1. \A k \in 0..n : IsFiniteSet(1..k)
    BY <1>2, FiniteRange
  <2> QED BY <1>2, <2>1 DEF Numbers
<1> DEFINE A == {k \in 0..n : Total(w, p[k]) = Total(w, acc) + SumFunctionOnSet(adds, 1..k)}
<1>4. Total(w, acc) \in Int
  BY TotalInt
<1>5. 0 \in A
  <2>1. 1..0 = {}
    BY SMT
  <2>2. SumFunctionOnSet(adds, 1..0) = 0
    BY <2>1, SumEmpty
  <2> QED BY <1>1, <1>2, <1>4, <2>2
<1>6. ASSUME NEW k \in 0..(n - 1), k \in A PROVE k + 1 \in A
  <2>1. /\ k \in Nat /\ k \in 0..n /\ k + 1 \in 1..n /\ k + 1 \in 0..n /\ (k + 1) - 1 = k
        /\ p[k] \in Seq(R)
    <3> HIDE DEF A, n
    <3> QED BY <1>1, <1>2
  <2>2. p[k + 1] = IF rs[k + 1].signal = signal THEN Append(p[k], rs[k + 1]) ELSE p[k]
    BY <1>0, <2>1 DEF Pushes
  <2>3. Total(w, p[k + 1]) = Total(w, p[k]) + adds[k + 1]
    <3>1. adds[k + 1] = IF rs[k + 1].signal = signal THEN w[rs[k + 1]] ELSE 0
      BY <1>2, <2>1 DEF Adds
    <3>2. rs[k + 1] \in R
      BY <1>2, <2>1
    <3>3. Total(w, Append(p[k], rs[k + 1])) = Total(w, p[k]) + w[rs[k + 1]]
      BY <2>1, <3>2, TotalAppend
    <3>4. Total(w, p[k]) \in Int
      BY <2>1, TotalInt
    <3> QED BY <2>2, <3>1, <3>3, <3>4
  <2>4. 1..(k + 1) = (1..k) \cup {k + 1} /\ k + 1 \notin 1..k
    BY <2>1
  <2>5. SumFunctionOnSet(adds, 1..(k + 1)) = adds[k + 1] + SumFunctionOnSet(adds, 1..k)
    <3>1. Numbers(adds, 1..k) /\ adds[k + 1] \in Int
      BY <1>2, <1>3, <2>1
    <3> QED BY <2>4, <3>1, SumAdd
  <2>6. SumFunctionOnSet(adds, 1..k) \in Int /\ adds[k + 1] \in Int
    BY <1>2, <1>3, <2>1, SumInt
  <2>7. Total(w, p[k]) = Total(w, acc) + SumFunctionOnSet(adds, 1..k)
    BY <1>6
  <2>8. Total(w, p[k + 1]) = Total(w, acc) + SumFunctionOnSet(adds, 1..(k + 1))
    BY <1>4, <2>3, <2>5, <2>6, <2>7
  <2> QED BY <2>1, <2>8
<1>7. n \in A
  <2>1. \A k \in 0..n : k \in A
    <3> HIDE DEF A, n
    <3> QED BY <1>2, <1>5, <1>6, UpTo
  <2> QED BY <1>2, <2>1
<1>8. n \in 0..n
  BY <1>2
<1> QED BY <1>1, <1>2, <1>3, <1>7, <1>8

\* q[k] is the list that TriggeredRules has after k signals.
Triggers(q, R, rs, sigs) ==
  /\ q \in [0..Len(sigs) -> Seq(R)]
  /\ q[0] = <<>>
  /\ \A k \in 1..Len(sigs) : q[k] = PushRulesForSignal(rs, q[k - 1], sigs[k])
  /\ TriggeredRules(rs, sigs) = q[Len(sigs)]

LEMMA TriggerLoop ==
  ASSUME NEW R, NEW rs \in Seq(R), NEW G, NEW sigs \in Seq(G)
  PROVE  \E q : Triggers(q, R, rs, sigs)
<1> DEFINE n == Len(sigs)
           next == [k \in 1..n |-> [v \in Seq(R) |-> PushRulesForSignal(rs, v, sigs[k])]]
<1>0. ASSUME NEW v \in Seq(R), NEW x PROVE PushRulesForSignal(rs, v, x) \in Seq(R)
  <2>1. PICK p : Pushes(p, R, rs, v, x)
    BY PushLoop
  <2>2. Len(rs) \in 0..Len(rs)
    BY LenProperties
  <2> QED BY <2>1, <2>2 DEF Pushes
<1>1. n \in Nat /\ DOMAIN sigs = 1..n
  BY LenProperties
<1>2. NextIn(next, n, Seq(R))
  BY <1>0 DEF NextIn
<1>3. PICK g \in [SUBSET (1..n) -> Seq(R)] : Loops(g, n, <<>>, next)
  <2>1. <<>> \in Seq(R)
    BY EmptySeq
  <2> HIDE DEF n, next
  <2> QED BY <1>1, <1>2, <2>1, Loop
<1>4. \A T \in SUBSET (1..n) : T # {} => Max(T) \in 1..n
  BY <1>1, Largest
<1>5. g = [T \in SUBSET (DOMAIN sigs) |->
             IF T = {} THEN <<>>
             ELSE LET x == Max(T) IN PushRulesForSignal(rs, g[T \ {x}], sigs[x])]
  BY <1>1, <1>3, <1>4 DEF Loops
<1>6. PICK h :
        /\ h = [T \in SUBSET (DOMAIN sigs) |->
                  IF T = {} THEN <<>>
                  ELSE LET x == Max(T) IN PushRulesForSignal(rs, h[T \ {x}], sigs[x])]
        /\ TriggeredRules(rs, sigs) = h[DOMAIN sigs]
  BY <1>5 DEF TriggeredRules, FoldLeft, MapThenFoldSet
<1> DEFINE q == [k \in 0..n |-> h[1..k]]
<1>7. /\ q[0] = <<>>
      /\ \A k \in 1..n : q[k] = PushRulesForSignal(rs, q[k - 1], sigs[k])
  <2>1. h[1..0] = <<>>
    <3>1. 1..0 = {}
      BY SMT
    <3> QED BY <1>6, <3>1
  <2>2. ASSUME NEW k \in 1..n
        PROVE  h[1..k] = PushRulesForSignal(rs, h[1..(k - 1)], sigs[k])
    <3>1. Max(1..k) = k /\ (1..k) \ {k} = 1..(k - 1)
      BY <1>1, Largest
    <3>2. 1..k \in SUBSET (DOMAIN sigs) /\ 1..k # {}
      <4>1. 1..k \subseteq 1..n /\ k \in 1..k
        <5> HIDE DEF n, next, q
        <5> QED BY <1>1
      <4> QED BY <1>1, <4>1
    <3> QED BY <1>6, <3>1, <3>2
  <2> QED BY <1>1, <2>1, <2>2
<1> DEFINE A == {k \in 0..n : q[k] \in Seq(R)}
<1>8. 0 \in A
  <2>1. 0 \in 0..n
    BY <1>1
  <2>2. <<>> \in Seq(R)
    BY EmptySeq
  <2> HIDE DEF q, n, next
  <2> QED BY <1>7, <2>1, <2>2
<1>9. ASSUME NEW k \in 0..(n - 1), k \in A PROVE k + 1 \in A
  <2>1. k + 1 \in 1..n /\ (k + 1) - 1 = k /\ q[k] \in Seq(R)
    BY <1>1, <1>9
  <2>2. q[k + 1] = PushRulesForSignal(rs, q[k], sigs[k + 1])
    <3> HIDE DEF q, n
    <3> QED BY <1>7, <2>1
  <2>3. q[k + 1] \in Seq(R) /\ k + 1 \in 0..n
    <3> HIDE DEF q
    <3> QED BY <1>0, <1>1, <2>1, <2>2
  <2> QED BY <2>3
<1>10. \A k \in 0..n : q[k] \in Seq(R)
  <2> HIDE DEF A, q, n
  <2>1. \A k \in 0..n : k \in A
    BY <1>1, <1>8, <1>9, UpTo
  <2> QED BY <2>1 DEF A
<1>11. q \in [0..n -> Seq(R)]
  BY <1>10
<1>12. q[n] = h[DOMAIN sigs]
  BY <1>1
<1> HIDE DEF q
<1> QED BY <1>6, <1>7, <1>11, <1>12 DEF Triggers

\* What k signals cost: each rule as often as its signal is among them.
Costs(w, rs, sigs, k) ==
  [i \in DOMAIN rs |-> w[rs[i]] * Count(sigs, k, rs[i].signal)]

LEMMA OneMore == \A a \in Int, c \in Nat : a * (c + 1) = a * c + a
  OBVIOUS

\* The two loops of score_signals, exchanged: what they push adds up to the costs
\* rule by rule, for any measure of the rules.
LEMMA TriggerTotal ==
  ASSUME NEW R, NEW w \in [R -> Int], NEW rs \in Seq(R), NEW G, NEW sigs \in Seq(G)
  PROVE  /\ TriggeredRules(rs, sigs) \in Seq(R)
         /\ Numbers(Costs(w, rs, sigs, Len(sigs)), DOMAIN rs)
         /\ Total(w, TriggeredRules(rs, sigs))
              = SumFunctionOnSet(Costs(w, rs, sigs, Len(sigs)), DOMAIN rs)
<1> DEFINE n == Len(sigs)
           D == DOMAIN rs
<1>1. PICK q : Triggers(q, R, rs, sigs)
  BY TriggerLoop
<1>2. /\ q \in [0..n -> Seq(R)]
      /\ q[0] = <<>>
      /\ TriggeredRules(rs, sigs) = q[n]
      /\ \A k \in 1..n : q[k] = PushRulesForSignal(rs, q[k - 1], sigs[k])
  BY <1>1 DEF Triggers
<1>3. n \in Nat /\ IsFiniteSet(D) /\ \A i \in D : rs[i] \in R /\ w[rs[i]] \in Int
  <2>1. n \in Nat
    BY LenProperties
  <2>2. Len(rs) \in Nat /\ D = 1..Len(rs) /\ \A i \in 1..Len(rs) : rs[i] \in R
    BY LenProperties, ElementOfSeq
  <2>3. IsFiniteSet(D)
    BY <2>2, FiniteRange
  <2> QED BY <2>1, <2>2, <2>3
<1>4. \A k \in Nat : Numbers(Costs(w, rs, sigs, k), D)
  <2> SUFFICES ASSUME NEW k \in Nat, NEW i \in D
               PROVE  w[rs[i]] * Count(sigs, k, rs[i].signal) \in Int
    BY <1>3 DEF Numbers, Costs
  <2>1. Count(sigs, k, rs[i].signal) \in Int
    BY CountNext DEF Begins
  <2>2. w[rs[i]] \in Int
    BY <1>3
  <2> QED BY <2>1, <2>2
<1> DEFINE A == {k \in 0..n : Total(w, q[k]) = SumFunctionOnSet(Costs(w, rs, sigs, k), D)}
<1>5. 0 \in A
  <2>1. Total(w, <<>>) = 0
    <3>1. DOMAIN <<>> = {}
      OBVIOUS
    <3> QED BY <3>1, SumEmpty DEF Total
  <2>2. \A i \in D : Costs(w, rs, sigs, 0)[i] = 0
    BY <1>3, CountNone DEF Costs
  <2>3. SumFunctionOnSet(Costs(w, rs, sigs, 0), D) = 0
    BY <1>4, <2>2, SumZero
  <2> QED BY <1>2, <1>3, <2>1, <2>3
<1>6. ASSUME NEW k \in 0..(n - 1), k \in A PROVE k + 1 \in A
  <2>1. /\ k \in Nat /\ k \in 0..n /\ k + 1 \in 1..n /\ k + 1 \in 0..n /\ (k + 1) - 1 = k
        /\ k + 1 \in Nat /\ q[k] \in Seq(R)
    <3> HIDE DEF A, n
    <3> QED BY <1>2, <1>3
  <2>2. q[k + 1] = PushRulesForSignal(rs, q[k], sigs[k + 1])
    BY <1>2, <2>1
  <2> DEFINE adds == [i \in D |-> IF rs[i].signal = sigs[k + 1] THEN w[rs[i]] ELSE 0]
  <2>3. Adds(adds, w, rs, sigs[k + 1])
    BY DEF Adds
  <2> HIDE DEF adds
  <2>4. /\ Numbers(adds, D)
        /\ Total(w, q[k + 1]) = Total(w, q[k]) + SumFunctionOnSet(adds, D)
    <3>1. q[k] \in Seq(R)
      BY <2>1
    <3> HIDE DEF A, n, D
    <3> DEFINE x == sigs[k + 1]
               acc == q[k]
    <3>3. Adds(adds, w, rs, x) /\ acc \in Seq(R)
      BY <2>3, <3>1
    <3> HIDE DEF x, acc
    <3>4. /\ Numbers(adds, DOMAIN rs)
          /\ Total(w, PushRulesForSignal(rs, acc, x))
               = Total(w, acc) + SumFunctionOnSet(adds, DOMAIN rs)
      BY <3>3, PushTotal
    <3>2. /\ Numbers(adds, DOMAIN rs)
          /\ Total(w, PushRulesForSignal(rs, q[k], sigs[k + 1]))
               = Total(w, q[k]) + SumFunctionOnSet(adds, DOMAIN rs)
      BY <3>4 DEF x, acc
    <3> QED BY <2>2, <3>2 DEF D
  <2>5. ASSUME NEW i \in D
        PROVE  Costs(w, rs, sigs, k + 1)[i] = Costs(w, rs, sigs, k)[i] + adds[i]
    <3> DEFINE c == Count(sigs, k, rs[i].signal)
    <3>1. c \in Nat /\ Count(sigs, k + 1, rs[i].signal)
                          = c + IF sigs[k + 1] = rs[i].signal THEN 1 ELSE 0
      BY <2>1, CountNext DEF Begins
    <3>2. adds[i] = IF rs[i].signal = sigs[k + 1] THEN w[rs[i]] ELSE 0
      BY <2>3 DEF Adds
    <3>3. w[rs[i]] \in Int
      BY <1>3
    <3>4. /\ Costs(w, rs, sigs, k + 1)[i] = w[rs[i]] * Count(sigs, k + 1, rs[i].signal)
          /\ Costs(w, rs, sigs, k)[i] = w[rs[i]] * c
      BY DEF Costs
    <3> HIDE DEF c
    <3>5. CASE rs[i].signal = sigs[k + 1]
      <4>1. w[rs[i]] * (c + 1) = w[rs[i]] * c + w[rs[i]]
        BY <3>1, <3>3, OneMore
      <4> QED BY <3>1, <3>2, <3>4, <3>5, <4>1
    <3>6. CASE rs[i].signal # sigs[k + 1]
      <4>1. w[rs[i]] * (c + 0) = w[rs[i]] * c + 0
        BY <3>1, <3>3
      <4> QED BY <3>1, <3>2, <3>4, <3>6, <4>1
    <3> QED BY <3>5, <3>6
  <2>6. SumFunctionOnSet(Costs(w, rs, sigs, k + 1), D)
          = SumFunctionOnSet(Costs(w, rs, sigs, k), D) + SumFunctionOnSet(adds, D)
    BY <1>4, <2>1, <2>4, <2>5, SumPlus
  <2>7. Total(w, q[k]) = SumFunctionOnSet(Costs(w, rs, sigs, k), D)
    BY <1>6
  <2>8. Total(w, q[k + 1]) = SumFunctionOnSet(Costs(w, rs, sigs, k + 1), D)
    BY <2>4, <2>6, <2>7
  <2> QED BY <2>1, <2>8
<1>7. \A k \in 0..n : k \in A
  <2> HIDE DEF A, n
  <2> QED BY <1>3, <1>5, <1>6, UpTo
<1>8. n \in 0..n
  BY <1>3
<1> QED BY <1>2, <1>3, <1>4, <1>7, <1>8

-----------------------------------------------------------------------------
(***************************************************************************)
(* Sessions.                                                               *)
(***************************************************************************)

\* A session has well-formed rules that validate, and known signals.
SessionIInv ==
  /\ rules \in Seq(Rule)
  /\ ValidateRules(rules)
  /\ signals \in Seq(Signals)

\* ScoringSession validates rules by the operators of Scoring.
LEMMA SameValidation ==
  /\ Session!Rule = Rule
  /\ \A rs : Session!ValidateRules(rs) <=> ValidateRules(rs)
<1>1. Session!Rule = Rule
  BY DEF Session!Rule, Rule
<1>2. \A rs : Session!ValidateRules(rs) <=> ValidateRules(rs)
  BY DEF Session!ValidateRules, ValidateRules
<1> QED BY <1>1, <1>2

\* The rules of a session are always valid ones and its signals known ones, because
\* load_from_path and from_json_str validate before anything is replaced.
THEOREM SessionTyped ==
  ASSUME Session!SessionAssumption
  PROVE  Session!Spec => []SessionIInv
<1>1. Session!Init => SessionIInv
  <2> SUFFICES ASSUME rules = <<>>, signals = <<>> PROVE SessionIInv
    BY DEF Session!Init
  <2>1. <<>> \in Seq(Rule) /\ <<>> \in Seq(Signals) /\ DOMAIN <<>> = {}
    BY EmptySeq
  <2> QED BY <2>1 DEF SessionIInv, ValidateRules
<1>2. SessionIInv /\ [Session!Next]_Session!vars => SessionIInv'
  <2> SUFFICES ASSUME SessionIInv, [Session!Next]_Session!vars PROVE SessionIInv'
    OBVIOUS
  <2>1. CASE UNCHANGED Session!vars
    BY <2>1 DEF SessionIInv, ValidateRules, Session!vars
  <2>2. ASSUME NEW rs \in RuleSets, Session!Load(rs) PROVE SessionIInv'
    <3>1. rs \in Seq(Rule) /\ ValidateRules(rs)
      BY <2>2, Session!SessionAssumption, SameValidation
      DEF Session!Load, Session!SessionAssumption
    <3> QED BY <2>2, <3>1 DEF SessionIInv, Session!Load, ValidateRules
  <2>3. ASSUME NEW s \in Signals, Session!Observe(s) PROVE SessionIInv'
    <3>1. signals' \in Seq(Signals)
      BY <2>3, AppendProperties DEF SessionIInv, Session!Observe
    <3> QED BY <2>3, <3>1 DEF SessionIInv, Session!Observe, ValidateRules
  <2> QED BY <2>1, <2>2, <2>3 DEF Session!Next
<1> QED BY <1>1, <1>2, PTL DEF Session!Spec

\* Occurrences, which the reference definition counts with, is Count.
LEMMA SameOccurrences ==
  ASSUME NEW R, NEW s \in Seq(R), NEW x
  PROVE  Occurrences(s, x) = Count(s, Len(s), x)
<1>1. DOMAIN s = 1..Len(s)
  BY LenProperties
<1> QED BY <1>1 DEF Occurrences, Count

\* The measure of the score is the weight of a rule.
WeightOf == [r \in Rule |-> r.weight]

Penalty(rs, sigs) == SumFunctionOnSet(Costs(WeightOf, rs, sigs, Len(sigs)), DOMAIN rs)

\* What score_signals returns is made of the penalty, whatever the order of its loops.
LEMMA PenaltyTaken ==
  ASSUME NEW rs \in Seq(Rule), NEW sigs \in Seq(Signals)
  PROVE  LET p == Penalty(rs, sigs)
         IN  /\ p \in Int
             /\ Numbers(Costs(WeightOf, rs, sigs, Len(sigs)), DOMAIN rs)
             /\ ScoreSignals(rs, sigs).score = IF p < 100 THEN 100 - p ELSE 0
             /\ ScoreSignals(rs, sigs).total_weight = IF p <= U32Max THEN p ELSE U32Max
<1> DEFINE list == TriggeredRules(rs, sigs)
           weights == [i \in DOMAIN list |-> list[i].weight]
           p == Penalty(rs, sigs)
<1>1. WeightOf \in [Rule -> Int]
  BY ScoringAssumption DEF ScoringAssumption, Rule, WeightOf
<1>2. /\ list \in Seq(Rule)
      /\ Numbers(Costs(WeightOf, rs, sigs, Len(sigs)), DOMAIN rs)
      /\ Total(WeightOf, list) = p
  BY <1>1, TriggerTotal DEF Penalty
<1>3. p \in Int
  BY <1>2, SumInt DEF Penalty
<1>4. Sum(weights) = p
  <2>1. \A i \in DOMAIN list : list[i] \in Rule
    <3> HIDE DEF list
    <3> QED BY <1>2, LenProperties, ElementOfSeq
  <2>2. weights = [i \in DOMAIN list |-> WeightOf[list[i]]] /\ DOMAIN weights = DOMAIN list
    BY <2>1 DEF WeightOf
  <2> HIDE DEF list, weights, p
  <2> QED BY <1>2, <2>2, SumOverDomain DEF Sum, Total
<1>5. ScoreFromWeights(weights) = IF p < 100 THEN 100 - p ELSE 0
  <2> HIDE DEF p, weights
  <2> QED BY <1>4 DEF ScoreFromWeights, BaselineScore
<1>6. /\ ScoreSignals(rs, sigs).score = ScoreFromWeights(weights)
      /\ ScoreSignals(rs, sigs).total_weight
           = IF Sum(weights) <= U32Max THEN Sum(weights) ELSE U32Max
  <2> HIDE DEF list
  <2> QED BY DEF ScoreSignals, ScoreFromTriggeredRules, list
<1> HIDE DEF weights, p
<1> QED BY <1>2, <1>3, <1>4, <1>5, <1>6 DEF p

\* TriggerTotal for the weights is the reference definition of the score.
LEMMA ReferenceHolds ==
  ASSUME SessionIInv
  PROVE  ScoreIsReference
<1> DEFINE occurs == [i \in DOMAIN rules |->
                        rules[i].weight * Occurrences(signals, rules[i].signal)]
           penalty == SumFunction(occurs)
<1>1. U32Max \in Nat
  BY ScoringAssumption DEF ScoringAssumption
<1>2. penalty = Penalty(rules, signals)
  <2>1. \A i \in DOMAIN rules : rules[i] \in Rule
    BY LenProperties, ElementOfSeq DEF SessionIInv
  <2>2. \A x : Occurrences(signals, x) = Count(signals, Len(signals), x)
    BY SameOccurrences DEF SessionIInv
  <2>3. occurs = Costs(WeightOf, rules, signals, Len(signals))
    BY <2>1, <2>2 DEF Costs, WeightOf
  <2>4. DOMAIN occurs = DOMAIN rules
    OBVIOUS
  <2> HIDE DEF occurs
  <2> QED BY <2>3, <2>4, SumOverDomain DEF Penalty
<1> HIDE DEF penalty
<1>3. /\ penalty \in Int
      /\ result.score = IF penalty < 100 THEN 100 - penalty ELSE 0
      /\ result.total_weight = IF penalty <= U32Max THEN penalty ELSE U32Max
  BY <1>2, PenaltyTaken DEF SessionIInv, result
<1>4. Min({U32Max, penalty}) = IF penalty <= U32Max THEN penalty ELSE U32Max
  BY <1>1, <1>3 DEF Min
<1>5. ScoreIsReference <=>
        /\ result.score = IF penalty <= 100 THEN 100 - penalty ELSE 0
        /\ result.total_weight = Min({U32Max, penalty})
  BY DEF ScoreIsReference, penalty
<1> QED BY <1>3, <1>4, <1>5

\* score_signals takes the weight of each rule once for every occurrence of its
\* signal, for any rules that validate and any session: no order, no repetition and
\* no sum past 100 or u32::MAX makes a difference.
THEOREM Reference ==
  ASSUME Session!SessionAssumption
  PROVE  Session!Spec => []ScoreIsReference
<1>1. SessionIInv => ScoreIsReference
  BY ReferenceHolds
<1> QED BY <1>1, SessionTyped, PTL

\* TriggerTotal for the measure that is 1 for the rules of one id counts that id
\* among the triggered ones; as ids are unique, one rule is all it counts.
LEMMA IdsAttributed ==
  ASSUME SessionIInv
  PROVE  TriggeredIdsAttribute
<1> DEFINE list == TriggeredRules(rules, signals)
           ids == [j \in DOMAIN list |-> list[j].id]
<1>1. result.triggered_rule_ids = ids
  BY DEF result, ScoreSignals, ScoreFromTriggeredRules
<1> SUFFICES ASSUME NEW i \in DOMAIN rules
             PROVE  Occurrences(ids, rules[i].id) = Occurrences(signals, rules[i].signal)
  BY <1>1 DEF TriggeredIdsAttribute
<1> DEFINE x == rules[i].id
           w == [r \in Rule |-> IF r.id = x THEN 1 ELSE 0]
           n == Len(signals)
           costs == Costs(w, rules, signals, n)
           D == DOMAIN rules
<1>2. \A j \in D : rules[j] \in Rule
  BY LenProperties, ElementOfSeq DEF SessionIInv
<1>3. w \in [Rule -> Int]
  OBVIOUS
<1>4. /\ list \in Seq(Rule)
      /\ Numbers(costs, D)
      /\ Total(w, list) = SumFunctionOnSet(costs, D)
  <2> HIDE DEF w
  <2> QED BY <1>3, TriggerTotal DEF SessionIInv
<1>5. n \in Nat /\ \A y : Count(signals, n, y) \in Nat
  <2>1. n \in Nat
    BY LenProperties DEF SessionIInv
  <2> QED BY <2>1, CountNext DEF Begins
<1>6. costs[i] = Occurrences(signals, rules[i].signal)
  <2> DEFINE c == Count(signals, n, rules[i].signal)
  <2>1. Occurrences(signals, rules[i].signal) = c
    BY SameOccurrences DEF SessionIInv
  <2>2. w[rules[i]] = 1
    BY <1>2
  <2>3. costs[i] = w[rules[i]] * c
    BY DEF Costs
  <2>4. c \in Nat
    BY <1>5
  <2> HIDE DEF c, costs, w
  <2> QED BY <2>1, <2>2, <2>3, <2>4
<1>7. \A j \in D \ {i} : costs[j] = 0
  <2> SUFFICES ASSUME NEW j \in D \ {i} PROVE costs[j] = 0
    OBVIOUS
  <2>1. w[rules[j]] = 0
    BY <1>2 DEF SessionIInv, ValidateRules
  <2>2. costs[j] = w[rules[j]] * Count(signals, n, rules[j].signal)
    BY DEF Costs
  <2>3. Count(signals, n, rules[j].signal) \in Nat
    BY <1>5
  <2> HIDE DEF costs, w, n
  <2> QED BY <2>1, <2>2, <2>3
<1>8. SumFunctionOnSet(costs, D) = costs[i]
  <2> HIDE DEF costs
  <2> QED BY <1>4, <1>7, SumSingle
<1>9. Total(w, list) = Occurrences(ids, x)
  <2> DEFINE f == [j \in DOMAIN list |-> w[list[j]]]
  <2>1. \A j \in DOMAIN list : list[j] \in Rule
    <3> HIDE DEF list
    <3> QED BY <1>4, LenProperties, ElementOfSeq
  <2>2. IsFiniteSet(DOMAIN list)
    <3> HIDE DEF list
    <3>1. DOMAIN list = 1..Len(list) /\ Len(list) \in Nat
      BY <1>4, LenProperties
    <3> QED BY <3>1, FiniteRange
  <2>3. \A j \in DOMAIN list : f[j] \in {0, 1} /\ (f[j] = 1 <=> ids[j] = x)
    BY <2>1
  <2>4. SumFunctionOnSet(f, DOMAIN list) = Cardinality({j \in DOMAIN list : f[j] = 1})
    <3> HIDE DEF f, list
    <3> QED BY <2>2, <2>3, SumCounts
  <2>5. {j \in DOMAIN list : f[j] = 1} = {j \in DOMAIN ids : ids[j] = x}
    BY <2>3
  <2> QED BY <2>4, <2>5 DEF Total, Occurrences
<1> QED BY <1>4, <1>6, <1>8, <1>9

\* Every id in triggered_rule_ids is there once for each occurrence of the signal of
\* the one rule that has it.
THEOREM Attribution ==
  ASSUME Session!SessionAssumption
  PROVE  Session!Spec => []TriggeredIdsAttribute
<1>1. SessionIInv => TriggeredIdsAttribute
  BY IdsAttributed
<1> QED BY <1>1, SessionTyped, PTL

\* One signal more never costs less.
LEMMA SignalCosts ==
  ASSUME NEW rs \in Seq(Rule), NEW sigs \in Seq(Signals), NEW s \in Signals
  PROVE  Penalty(rs, sigs) <= Penalty(rs, Append(sigs, s))
<1> DEFINE n == Len(sigs)
           more == Append(sigs, s)
           f == Costs(WeightOf, rs, sigs, n)
           g == Costs(WeightOf, rs, more, n + 1)
<1>1. n \in Nat /\ more \in Seq(Signals) /\ Len(more) = n + 1 /\ \A i \in 1..n : more[i] = sigs[i]
  BY AppendProperties, LenProperties
<1>2. Numbers(f, DOMAIN rs)
  BY PenaltyTaken
<1>3. Numbers(g, DOMAIN rs)
  <2>1. Numbers(Costs(WeightOf, rs, more, Len(more)), DOMAIN rs)
    <3> HIDE DEF more
    <3> QED BY <1>1, PenaltyTaken
  <2> QED BY <1>1, <2>1
<1>4. \A i \in DOMAIN rs : f[i] <= g[i]
  <2> SUFFICES ASSUME NEW i \in DOMAIN rs PROVE f[i] <= g[i]
    OBVIOUS
  <2> DEFINE a == WeightOf[rs[i]]
             b == Count(sigs, n, rs[i].signal)
             c == Count(more, n + 1, rs[i].signal)
  <2>1. f[i] = a * b /\ g[i] = a * c
    BY DEF Costs
  <2>2. a \in Nat
    <3>1. rs[i] \in Rule
      BY LenProperties, ElementOfSeq
    <3>2. rs[i].weight \in 0..U32Max
      BY <3>1 DEF Rule
    <3> QED BY <3>1, <3>2, ScoringAssumption DEF WeightOf, ScoringAssumption
  <2>3. b \in Nat /\ (c = b \/ c = b + 1)
    <3> HIDE DEF more, n
    <3>1. /\ Count(sigs, n, rs[i].signal) \in Nat
          /\ Count(more, n + 1, rs[i].signal)
               = Count(sigs, n, rs[i].signal) + IF more[n + 1] = rs[i].signal THEN 1 ELSE 0
      <4>1. Begins(sigs, more, n)
        BY <1>1 DEF Begins
      <4> QED BY <1>1, <4>1, CountNext
    <3> HIDE DEF b, c
    <3>2. b \in Nat /\ c = b + IF more[n + 1] = rs[i].signal THEN 1 ELSE 0
      BY <3>1 DEF b, c
    <3> QED BY <3>2
  <2> HIDE DEF a, b, c, f, g
  <2>4. a * b \in Int /\ (a * c = a * b \/ a * c = a * b + a)
    BY <2>2, <2>3, OneMore
  <2> QED BY <2>1, <2>2, <2>4
<1>5. SumFunctionOnSet(f, DOMAIN rs) <= SumFunctionOnSet(g, DOMAIN rs)
  <2> HIDE DEF f, g
  <2> QED BY <1>2, <1>3, <1>4, SumAtMost
<1> QED BY <1>1, <1>5 DEF Penalty

\* While the rules stay, one signal more never raises a score, not even where the
\* score is 0 and the weights run over a u32.
THEOREM ScoreNeverRises ==
  ASSUME Session!SessionAssumption
  PROVE  Session!Spec => [][UNCHANGED rules => result.score' <= result.score]_Session!vars
<1>1. SessionIInv /\ [Session!Next]_Session!vars
        => [UNCHANGED rules => result.score' <= result.score]_Session!vars
  <2> SUFFICES ASSUME SessionIInv, Session!Next, UNCHANGED rules
               PROVE  result.score' <= result.score
    BY DEF Session!vars
  <2> DEFINE p == Penalty(rules, signals)
             Score(x) == IF x < 100 THEN 100 - x ELSE 0
  <2>1. p \in Int /\ result.score = Score(p)
    BY PenaltyTaken DEF SessionIInv, result
  <2>2. CASE signals' = signals
    <3>1. result' = result
      BY <2>2 DEF result
    <3> HIDE DEF p
    <3> QED BY <2>1, <3>1
  <2>3. ASSUME NEW s \in Signals, signals' = Append(signals, s)
        PROVE  result.score' <= result.score
    <3> DEFINE more == Append(signals, s)
               q == Penalty(rules, more)
    <3>1. more \in Seq(Signals)
      BY AppendProperties DEF SessionIInv
    <3>2. q \in Int /\ ScoreSignals(rules, more).score = Score(q)
      <4> HIDE DEF more
      <4> QED BY <3>1, PenaltyTaken DEF SessionIInv
    <3>3. result.score' = Score(q)
      BY <2>3, <3>2 DEF result
    <3>4. p <= q
      BY SignalCosts DEF SessionIInv
    <3> HIDE DEF p, q
    <3> QED BY <2>1, <3>2, <3>3, <3>4
  <2> QED BY <2>2, <2>3 DEF Session!Next, Session!Load, Session!Observe
<1> QED BY <1>1, SessionTyped, PTL DEF Session!Spec

-----------------------------------------------------------------------------
(***************************************************************************)
(* The table.                                                              *)
(***************************************************************************)

\* The table is finite, and has what clients sent.
TableInv ==
  /\ IsFiniteSet(DOMAIN table)
  /\ \A e \in DOMAIN table : table[e] \in Rows
  /\ now \in Nat

LEMMA Bounds ==
  /\ Sec \in Nat \ {0}
  /\ MaxRange \in Nat /\ DefaultLimit \in Nat /\ MaxLimit \in Nat /\ Start \in Nat
  /\ DefaultLimit <= MaxLimit
  BY QueryAssumption

\* Types of what is in it.
LEMMA RowTypes ==
  ASSUME TableInv, NEW e \in DOMAIN table
  PROVE  table[e].instant \in Int /\ table[e].millis \in BOOLEAN
<1>1. table[e] \in [site : Sites, session : Sessions, type : Types, delta : Int,
                    instant : Nat, millis : BOOLEAN]
  BY QueryAssumption DEF TableInv
<1>2. table[e].instant \in Nat
  BY <1>1
<1>3. table[e].millis \in BOOLEAN
  BY <1>1
<1> QED BY <1>2, <1>3

LEMMA TableInvariant == Spec => []TableInv
<1>1. Init => TableInv
  <2> SUFFICES ASSUME Init PROVE TableInv
    OBVIOUS
  <2>1. DOMAIN table = {}
    BY DEF Init
  <2> QED BY <2>1, FS_EmptySet, Bounds DEF Init, TableInv
<1>2. TableInv /\ [Next]_vars => TableInv'
  <2> SUFFICES ASSUME TableInv, [Next]_vars PROVE TableInv'
    OBVIOUS
  <2>1. ASSUME NEW e \in EventIds, NEW row \in Rows, Ingest(e, row) PROVE TableInv'
    <3>1. DOMAIN table' = DOMAIN table \cup {e} /\ now' = now
      BY <2>1 DEF Ingest
    <3>2. \A d \in DOMAIN table' : table'[d] \in Rows
      BY <2>1 DEF Ingest, TableInv
    <3> QED BY <3>1, <3>2, FS_AddElement DEF TableInv
  <2>2. CASE Tick
    BY <2>2 DEF Tick, TableInv
  <2>3. CASE UNCHANGED vars
    BY <2>3 DEF vars, TableInv
  <2> QED BY <2>1, <2>2, <2>3 DEF Next
<1> QED BY <1>1, <1>2, PTL DEF Spec

-----------------------------------------------------------------------------
(***************************************************************************)
(* The order of the text, and the order of time.                           *)
(***************************************************************************)

\* Seconds, and units within a second.
LEMMA Division ==
  ASSUME NEW a \in Int
  PROVE  /\ a \div Sec \in Int /\ a % Sec \in Int
         /\ 0 <= a % Sec /\ a % Sec < Sec
         /\ a = Sec * (a \div Sec) + (a % Sec)
  BY Bounds

LEMMA Apart ==
  ASSUME NEW p \in Int, NEW q \in Int, p < q
  PROVE  /\ Sec * p + Sec <= Sec * q
         /\ p * (Sec + 1) + Sec + 1 <= q * (Sec + 1)
<1>1. PICK d \in Nat : q = p + 1 + d
  BY SMT
<1>2. Sec * q = Sec * p + Sec + Sec * d /\ Sec * d \in Nat
  BY <1>1, Bounds
<1>3. q * (Sec + 1) = p * (Sec + 1) + Sec + 1 + d * (Sec + 1) /\ d * (Sec + 1) \in Nat
  BY <1>1, Bounds
<1> QED BY <1>2, <1>3, Bounds

\* What sorts no earlier is less than a second older.
LEMMA SortedLater ==
  ASSUME NEW a \in Int, NEW b \in Int, NEW m \in BOOLEAN, NEW n \in BOOLEAN,
         TextKey(a, m) <= TextKey(b, n)
  PROVE  a < b + Sec
<1> DEFINE p == a \div Sec
           q == b \div Sec
<1>1. p \in Int /\ q \in Int /\ a = Sec * p + (a % Sec) /\ b = Sec * q + (b % Sec)
  BY Division
<1>2. a % Sec \in 0..(Sec - 1) /\ b % Sec \in 0..(Sec - 1)
  BY Division, Bounds
<1>3. p * (Sec + 1) \in Int /\ q * (Sec + 1) \in Int /\ Sec * p \in Int /\ Sec * q \in Int
  BY <1>1, Bounds
<1>4. CASE q < p
  <2>1. q * (Sec + 1) + Sec + 1 <= p * (Sec + 1)
    BY <1>1, <1>4, Apart
  <2> QED BY <1>2, <1>3, <2>1, Bounds DEF TextKey
<1>5. CASE p = q
  BY <1>1, <1>2, <1>3, <1>5, Bounds
<1>6. CASE p < q
  <2>1. Sec * p + Sec <= Sec * q
    BY <1>1, <1>6, Apart
  <2> QED BY <1>1, <1>2, <1>3, <2>1, Bounds
<1>7. q < p \/ p = q \/ p < q
  BY <1>1
<1> QED BY <1>4, <1>5, <1>6, <1>7

\* Milliseconds sort before all that is no older.
LEMMA NewerSortsLater ==
  ASSUME NEW a \in Int, NEW b \in Int, NEW m \in BOOLEAN, b <= a
  PROVE  TextKey(b, TRUE) <= TextKey(a, m)
<1> DEFINE p == a \div Sec
           q == b \div Sec
<1>1. p \in Int /\ q \in Int /\ a = Sec * p + (a % Sec) /\ b = Sec * q + (b % Sec)
  BY Division
<1>2. a % Sec \in 0..(Sec - 1) /\ b % Sec \in 0..(Sec - 1)
  BY Division, Bounds
<1>3. p * (Sec + 1) \in Int /\ q * (Sec + 1) \in Int /\ Sec * p \in Int /\ Sec * q \in Int
  BY <1>1, Bounds
<1>4. CASE q < p
  <2>1. q * (Sec + 1) + Sec + 1 <= p * (Sec + 1)
    BY <1>1, <1>4, Apart
  <2> QED BY <1>2, <1>3, <2>1, Bounds DEF TextKey
<1>5. CASE p = q
  <2>1. b % Sec <= a % Sec
    BY <1>1, <1>2, <1>3, <1>5, Bounds
  <2> QED BY <1>2, <1>3, <1>5, <2>1, Bounds DEF TextKey
<1>6. CASE p < q
  <2>1. Sec * p + Sec <= Sec * q
    BY <1>1, <1>6, Apart
  <2> QED BY <1>1, <1>2, <1>3, <2>1, Bounds
<1>7. q < p \/ p = q \/ p < q
  BY <1>1
<1> QED BY <1>4, <1>5, <1>6, <1>7

\* The window of a summary has every event of the time asked for, and none that
\* is a whole second older, in whatever format the clients write their clocks.
THEOREM Window == Spec => []WindowWithinASecond
<1>1. TableInv => WindowWithinASecond
  <2> SUFFICES ASSUME TableInv, NEW site \in Sites, NEW n \in 0..MaxRange
               PROVE  LET since == now - n * Sec
                          newerThan(t) == {e \in DOMAIN table :
                                             table[e].site = site /\ table[e].instant > t}
                          total == Summary(site, n).total_events
                      IN  /\ Cardinality(newerThan(since - 1)) <= total
                          /\ total <= Cardinality(newerThan(since - Sec))
    BY DEF WindowWithinASecond, Queries
  <2> DEFINE since == now - n * Sec
             NewerThan(t) == {e \in DOMAIN table : table[e].site = site /\ table[e].instant > t}
  <2>0. since \in Int /\ Sec \in Nat
    BY Bounds DEF TableInv
  <2> HIDE DEF since
  <2>1. \A t : IsFiniteSet(NewerThan(t))
    BY FS_Subset DEF TableInv
  <2>2. IsFiniteSet(InWindow(site, n))
    BY FS_Subset DEF TableInv, InWindow
  <2>3. NewerThan(since - 1) \subseteq InWindow(site, n)
    <3> SUFFICES ASSUME NEW e \in DOMAIN table, table[e].site = site, table[e].instant > since - 1
                 PROVE  TextKey(since, TRUE) <= RowKey(e)
      BY DEF InWindow, Since, since
    <3>1. since <= table[e].instant
      BY <2>0, RowTypes
    <3> QED BY <2>0, <3>1, RowTypes, NewerSortsLater DEF RowKey
  <2>4. InWindow(site, n) \subseteq NewerThan(since - Sec)
    <3> SUFFICES ASSUME NEW e \in DOMAIN table, table[e].site = site,
                        TextKey(since, TRUE) <= RowKey(e)
                 PROVE  table[e].instant > since - Sec
      BY DEF InWindow, Since, since
    <3>1. since < table[e].instant + Sec
      BY <2>0, RowTypes, SortedLater DEF RowKey
    <3> QED BY <2>0, <3>1, RowTypes
  <2>5. /\ Cardinality(NewerThan(since - 1)) <= Cardinality(InWindow(site, n))
        /\ Cardinality(InWindow(site, n)) <= Cardinality(NewerThan(since - Sec))
    BY <2>1, <2>2, <2>3, <2>4, FS_Subset
  <2> QED BY <2>5 DEF Summary, since
<1> QED BY <1>1, TableInvariant, PTL

-----------------------------------------------------------------------------
(***************************************************************************)
(* Lists.                                                                  *)
(***************************************************************************)

\* A list is newest first, and what the limit cuts off is older than what it
\* keeps, up to a second: for every filter, every limit and every choice that
\* SQLite makes among equal timestamps.
THEOREM List == Spec => []ListWithinASecond
<1>1. ASSUME NEW x \in Nat, NEW y \in Nat PROVE Min({x, y}) \in Nat /\ Min({x, y}) <= y
  <2>1. \E z \in {x, y} : \A v \in {x, y} : z <= v
    BY SMT
  <2>2. Min({x, y}) \in {x, y} /\ \A v \in {x, y} : Min({x, y}) <= v
    BY <2>1 DEF Min
  <2> QED BY <2>2
<1>2. TableInv => ListWithinASecond
  <2> SUFFICES ASSUME TableInv, NEW site \in Sites, NEW types, NEW param \in -1..MaxLimit,
                      NEW list \in ListEvents(site, types, param)
               PROVE  /\ Len(list) <= MaxLimit
                      /\ \A i \in DOMAIN list, e \in DOMAIN table :
                           (/\ table[e].site = site
                            /\ table[e].type \in types
                            /\ \A j \in 1..i : list[j] # e)
                           => table[e].instant < table[list[i]].instant + Sec
    BY DEF ListWithinASecond
  <2> DEFINE E == {e \in DOMAIN table : table[e].site = site /\ table[e].type \in types}
  <2>1. /\ list \in SetToAllKPermutations(E)
        /\ Len(list) = Min({Limit(param), Cardinality(E)})
        /\ \A i \in DOMAIN list :
             /\ \A j \in DOMAIN list : i < j => RowKey(list[i]) >= RowKey(list[j])
             /\ \A e \in E \ ToSet(list) : RowKey(list[i]) >= RowKey(e)
    BY DEF ListEvents, NewestFirst
  <2>2. Len(list) <= MaxLimit
    <3>1. Cardinality(E) \in Nat
      BY FS_Subset, FS_CardinalityType DEF TableInv
    <3>2. Limit(param) \in Nat /\ Limit(param) <= MaxLimit
      BY <1>1, Bounds DEF Limit
    <3>3. Min({Limit(param), Cardinality(E)}) \in {Limit(param), Cardinality(E)}
          /\ Min({Limit(param), Cardinality(E)}) <= Limit(param)
      <4>1. \E z \in {Limit(param), Cardinality(E)} : \A v \in {Limit(param), Cardinality(E)} : z <= v
        BY <3>1, <3>2
      <4> QED BY <4>1 DEF Min
    <3> QED BY <2>1, <3>1, <3>2, <3>3, Bounds
  <2>3. PICK k \in Nat : DOMAIN list = 1..k /\ \A i \in 1..k : list[i] \in E
    <3>1. PICK S \in SUBSET E : list \in SetToSeqs(S)
      BY <2>1 DEF SetToAllKPermutations
    <3>2. list \in [1..Cardinality(S) -> S]
      BY <3>1 DEF SetToSeqs
    <3>3. Cardinality(S) \in Nat
      BY FS_Subset, FS_CardinalityType DEF TableInv
    <3> QED BY <3>2, <3>3
  <2>4. ASSUME NEW i \in DOMAIN list, NEW e \in E, \A j \in 1..i : list[j] # e
        PROVE  table[e].instant < table[list[i]].instant + Sec
    <3>1. RowKey(e) <= RowKey(list[i])
      <4>1. CASE e \in ToSet(list)
        <5>1. PICK j \in DOMAIN list : list[j] = e
          BY <4>1 DEF ToSet
        <5>2. i < j
          BY <2>3, <2>4, <5>1
        <5> QED BY <2>1, <5>1, <5>2
      <4>2. CASE e \notin ToSet(list)
        BY <2>1, <4>2
      <4> QED BY <4>1, <4>2
    <3>2. e \in DOMAIN table /\ list[i] \in DOMAIN table
      BY <2>3
    <3> QED BY <3>1, <3>2, RowTypes, SortedLater DEF RowKey
  <2> QED BY <2>2, <2>4
<1> QED BY <1>2, TableInvariant, PTL

\* Of finitely many rows one is the newest.
LEMMA NewestExists ==
  ASSUME NEW E, IsFiniteSet(E), E # {}, NEW key, \A e \in E : key[e] \in Int
  PROVE  \E m \in E : \A e \in E : key[e] <= key[m]
<1> DEFINE Good == {T \in SUBSET E : T # {} => \E m \in T : \A e \in T : key[e] <= key[m]}
<1>1. {} \in Good
  OBVIOUS
<1>2. ASSUME NEW T \in Good, NEW y \in E \ T PROVE T \cup {y} \in Good
  <2>1. CASE T = {}
    BY <2>1
  <2>2. CASE T # {}
    <3>1. PICK m \in T : \A e \in T : key[e] <= key[m]
      BY <2>2
    <3>2. CASE key[y] <= key[m]
      BY <3>1, <3>2
    <3>3. CASE ~(key[y] <= key[m])
      BY <3>1, <3>3
    <3> QED BY <3>2, <3>3
  <2> QED BY <2>1, <2>2
<1>3. Good \in SUBSET (SUBSET E)
  OBVIOUS
<1> HIDE DEF Good
<1>4. E \in Good
  BY <1>1, <1>2, <1>3, Grow
<1> QED BY <1>4 DEF Good

\* The first k rows of E, newest first.
FirstOf(key, E, k, list) ==
  /\ list \in [1..k -> E]
  /\ Cardinality({list[i] : i \in 1..k}) = k
  /\ \A i, j \in 1..k : list[i] = list[j] => i = j
  /\ \A i, j \in 1..k : i < j => key[list[i]] >= key[list[j]]
  /\ \A i \in 1..k : \A e \in E \ {list[j] : j \in 1..k} : key[list[i]] >= key[e]

\* They exist for every k: add the newest of the rest.
LEMMA FirstExist ==
  ASSUME NEW E, IsFiniteSet(E), NEW key, \A e \in E : key[e] \in Int,
         NEW n \in Nat, n <= Cardinality(E)
  PROVE  \E list : FirstOf(key, E, n, list)
<1> DEFINE A == {k \in 0..n : \E list : FirstOf(key, E, k, list)}
<1>1. 0 \in A
  <2> DEFINE list == [i \in 1..0 |-> 0]
  <2>1. 1..0 = {}
    BY SMT
  <2>2. FirstOf(key, E, 0, list)
    BY <2>1, FS_EmptySet DEF FirstOf
  <2> QED BY <2>2
<1>2. ASSUME NEW k \in 0..(n - 1), k \in A PROVE k + 1 \in A
  <2>1. PICK list : FirstOf(key, E, k, list)
    BY <1>2
  <2>2. k \in Nat /\ k + 1 \in 0..n /\ 1..(k + 1) = (1..k) \cup {k + 1} /\ k + 1 \notin 1..k
    OBVIOUS
  <2> DEFINE T == {list[i] : i \in 1..k}
  <2>3. T \subseteq E /\ IsFiniteSet(T) /\ Cardinality(T) = k
    <3>1. T \subseteq E /\ Cardinality(T) = k
      BY <2>1 DEF FirstOf
    <3> QED BY <3>1, FS_Subset
  <2>4. E \ T # {}
    <3>1. Cardinality(E) # k
      BY <2>2, FS_CardinalityType
    <3> QED BY <2>3, <3>1
  <2>5. PICK m \in E \ T : \A e \in E \ T : key[e] <= key[m]
    <3> DEFINE D == E \ T
    <3>1. IsFiniteSet(D) /\ D # {} /\ \A e \in D : key[e] \in Int
      BY <2>4, FS_Subset
    <3> HIDE DEF D
    <3>2. \E m \in D : \A e \in D : key[e] <= key[m]
      BY <3>1, NewestExists
    <3> QED BY <3>2 DEF D
  <2> DEFINE more == [i \in 1..(k + 1) |-> IF i = k + 1 THEN m ELSE list[i]]
             U == {more[i] : i \in 1..(k + 1)}
  <2>6. more[k + 1] = m /\ \A i \in 1..k : more[i] = list[i]
    BY <2>2
  <2>7. \A i \in 1..k : list[i] \in T /\ list[i] \in E
    BY <2>1 DEF FirstOf
  <2>8. U = T \cup {m}
    BY <2>2, <2>6
  <2>9. more \in [1..(k + 1) -> E]
    BY <2>2, <2>7
  <2>10. Cardinality(U) = k + 1
    <3> HIDE DEF T, U, more
    <3> QED BY <2>3, <2>5, <2>8, FS_AddElement
  <2>11. \A i, j \in 1..(k + 1) : more[i] = more[j] => i = j
    <3>1. \A i, j \in 1..k : list[i] = list[j] => i = j
      BY <2>1 DEF FirstOf
    <3> HIDE DEF T, U, more
    <3> QED BY <2>2, <2>5, <2>6, <2>7, <3>1
  <2>12. \A i \in 1..k : key[list[i]] >= key[m]
    BY <2>1, <2>5 DEF FirstOf
  <2>13. \A i, j \in 1..(k + 1) : i < j => key[more[i]] >= key[more[j]]
    <3> SUFFICES ASSUME NEW i \in 1..(k + 1), NEW j \in 1..(k + 1), i < j
                 PROVE  key[more[i]] >= key[more[j]]
      OBVIOUS
    <3>1. i \in 1..k
      BY <2>2
    <3>2. CASE j = k + 1
      BY <2>6, <2>12, <3>1, <3>2
    <3>3. CASE j \in 1..k
      <4>1. key[list[i]] >= key[list[j]]
        BY <2>1, <3>1, <3>3 DEF FirstOf
      <4> QED BY <2>6, <3>1, <3>3, <4>1
    <3> QED BY <2>2, <3>2, <3>3
  <2>14. \A i \in 1..(k + 1) : \A e \in E \ U : key[more[i]] >= key[e]
    <3> SUFFICES ASSUME NEW i \in 1..(k + 1), NEW e \in E \ U
                 PROVE  key[more[i]] >= key[e]
      OBVIOUS
    <3>1. e \in E \ T
      BY <2>8
    <3>2. CASE i = k + 1
      BY <2>5, <2>6, <3>1, <3>2
    <3>3. CASE i \in 1..k
      <4>1. key[list[i]] >= key[e]
        BY <2>1, <3>1, <3>3 DEF FirstOf
      <4> QED BY <2>6, <3>3, <4>1
    <3> QED BY <2>2, <3>2, <3>3
  <2>15. FirstOf(key, E, k + 1, more)
    <3> HIDE DEF more
    <3> QED BY <2>9, <2>10, <2>11, <2>13, <2>14 DEF FirstOf
  <2> HIDE DEF more
  <2> QED BY <2>2, <2>15
<1> HIDE DEF A
<1>3. n \in A
  <2>1. \A k \in 0..n : k \in A
    BY <1>1, <1>2, UpTo
  <2> QED BY <2>1
<1> QED BY <1>3 DEF A

\* There is a list for every table, filter and limit: what List says of all the lists
\* is said of one at least.
THEOREM ListExists ==
  Spec => [](\A site \in Sites, types \in SUBSET Types, param \in -1..MaxLimit :
               ListEvents(site, types, param) # {})
<1>1. ASSUME NEW x \in Nat, NEW y \in Nat
      PROVE  Min({x, y}) \in Nat /\ Min({x, y}) <= x /\ Min({x, y}) <= y
  <2>1. \E z \in {x, y} : \A v \in {x, y} : z <= v
    BY SMT
  <2>2. Min({x, y}) \in {x, y} /\ \A v \in {x, y} : Min({x, y}) <= v
    BY <2>1 DEF Min
  <2> QED BY <2>2
<1>2. TableInv => \A site \in Sites, types \in SUBSET Types, param \in -1..MaxLimit :
                    ListEvents(site, types, param) # {}
  <2> SUFFICES ASSUME TableInv, NEW site, NEW types, NEW param \in -1..MaxLimit
               PROVE  ListEvents(site, types, param) # {}
    OBVIOUS
  <2> DEFINE E == {e \in DOMAIN table : table[e].site = site /\ table[e].type \in types}
             n == Min({Limit(param), Cardinality(E)})
             key == [e \in E |-> RowKey(e)]
  <2>1. IsFiniteSet(E) /\ Cardinality(E) \in Nat
    BY FS_Subset, FS_CardinalityType DEF TableInv
  <2>2. n \in Nat /\ n <= Cardinality(E)
    <3>1. Limit(param) \in Nat
      BY <1>1, Bounds DEF Limit
    <3> HIDE DEF E
    <3> QED BY <1>1, <2>1, <3>1
  <2>3. \A e \in E : key[e] \in Int
    <3> SUFFICES ASSUME NEW e \in E PROVE RowKey(e) \in Int
      OBVIOUS
    <3>1. table[e].instant \in Int /\ table[e].millis \in BOOLEAN
      BY RowTypes
    <3>2. table[e].instant \div Sec \in Int /\ table[e].instant % Sec \in Int
      BY <3>1, Division
    <3> QED BY <3>1, <3>2, Bounds DEF RowKey, TextKey
  <2>4. PICK list : FirstOf(key, E, n, list)
    <3> HIDE DEF E, n, key
    <3> QED BY <2>1, <2>2, <2>3, FirstExist
  <2> DEFINE T == {list[i] : i \in 1..n}
  <2>5. /\ list \in [1..n -> E] /\ T \subseteq E /\ Cardinality(T) = n
        /\ \A i \in 1..n : list[i] \in T
    <3> HIDE DEF E, n, key
    <3> QED BY <2>4 DEF FirstOf
  <2>6. list \in SetToAllKPermutations(E)
    <3> HIDE DEF E, n, key
    <3>1. list \in [1..n -> T] /\ DOMAIN list = 1..n
      BY <2>5
    <3>2. list \in [1..Cardinality(T) -> T] /\ DOMAIN list = 1..n
      BY <2>5, <3>1
    <3>3. \A a, b \in 1..n : list[a] = list[b] => a = b
      BY <2>4 DEF FirstOf
    <3> HIDE DEF T
    <3> QED BY <2>5, <3>2, <3>3 DEF SetToAllKPermutations, SetToSeqs, IsInjective
  <2>7. DOMAIN list = 1..n /\ Len(list) = n /\ ToSet(list) = T
    <3> HIDE DEF E, n, key
    <3>1. list \in Seq(E)
      BY <2>2, <2>5, SeqDef
    <3>2. DOMAIN list = 1..n
      BY <2>5
    <3>3. Len(list) = n
      BY <2>2, <3>1, <3>2, LenProperties
    <3> QED BY <3>2, <3>3 DEF ToSet
  <2>8. \A i \in 1..n :
          /\ \A j \in 1..n : i < j => RowKey(list[i]) >= RowKey(list[j])
          /\ \A e \in E \ T : RowKey(list[i]) >= RowKey(e)
    <3>1. \A e \in E : key[e] = RowKey(e)
      OBVIOUS
    <3>2. \A i \in 1..n :
            /\ \A j \in 1..n : i < j => key[list[i]] >= key[list[j]]
            /\ \A e \in E \ T : key[list[i]] >= key[e]
      <4> HIDE DEF E, n, key
      <4> QED BY <2>4 DEF FirstOf
    <3> HIDE DEF E, n, key
    <3> QED BY <2>5, <3>1, <3>2
  <2>9. list \in NewestFirst(E, Limit(param))
    <3> DEFINE limit == Limit(param)
    <3>1. Len(list) = Min({limit, Cardinality(E)})
      BY <2>7
    <3> HIDE DEF E, T, limit
    <3> QED BY <2>6, <2>7, <2>8, <3>1 DEF NewestFirst
  <2> QED BY <2>9 DEF ListEvents
<1> QED BY <1>2, TableInvariant, PTL

-----------------------------------------------------------------------------
(***************************************************************************)
(* Summaries.                                                              *)
(***************************************************************************)

\* What the queries return is finite.
LEMMA ImageFinite ==
  ASSUME NEW E, IsFiniteSet(E), NEW f
  PROVE  IsFiniteSet({f[e] : e \in E})
<1> DEFINE T == {f[e] : e \in E}
           g == [e \in E |-> f[e]]
<1>1. g \in Surjection(E, T)
  BY DEF Surjection
<1> HIDE DEF T, g
<1>2. IsFiniteSet(T)
  BY <1>1, FS_Surjection
<1> QED BY <1>2 DEF T

LEMMA TypesFinite == IsFiniteSet(Types)
<1> DEFINE T3 == {"honeypot_triggered"} \cup {"canary_embedded"} \cup {"rate_limit_exceeded"}
           T6 == T3 \cup {"behavioral_score"} \cup {"attestation_failed"}
                   \cup {"request_fingerprint"}
<1>1. IsFiniteSet(T3)
  BY FS_Singleton, FS_AddElement
<1>2. IsFiniteSet(T6)
  <2> HIDE DEF T3
  <2> QED BY <1>1, FS_AddElement
<1>3. T6 = Types
  BY DEF Types
<1> QED BY <1>2, <1>3

Bands == {"likely_human", "suspicious", "likely_bot"}

LEMMA BandsFinite == IsFiniteSet(Bands)
<1> DEFINE T == {"likely_human"} \cup {"suspicious"} \cup {"likely_bot"}
<1>1. IsFiniteSet(T)
  BY FS_Singleton, FS_AddElement
<1>2. T = Bands
  BY DEF Bands
<1> QED BY <1>1, <1>2

\* The events and the sessions of a summary.
LEMMA Queried ==
  ASSUME TableInv, NEW site, NEW n
  PROVE  LET E == InWindow(site, n)
         IN  /\ E \subseteq DOMAIN table /\ IsFiniteSet(E)
             /\ IsFiniteSet(SessionsIn(E))
<1> DEFINE E == InWindow(site, n)
<1>1. E \subseteq DOMAIN table
  BY DEF InWindow
<1>2. IsFiniteSet(E)
  BY <1>1, FS_Subset DEF TableInv
<1> HIDE DEF E
<1> DEFINE f == [e \in E |-> table[e].session]
<1>3. SessionsIn(E) = {f[e] : e \in E}
  BY DEF SessionsIn
<1> HIDE DEF f
<1>4. IsFiniteSet(SessionsIn(E))
  BY <1>2, <1>3, ImageFinite
<1> QED BY <1>1, <1>2, <1>4 DEF E

\* Each event has one type, and each session one band.
LEMMA SummaryHolds ==
  ASSUME TableInv
  PROVE  SummaryAddsUp
<1> SUFFICES ASSUME NEW site \in Sites, NEW n \in 0..MaxRange
             PROVE  /\ SumFunction(Summary(site, n).by_type) = Summary(site, n).total_events
                    /\ SumFunction(Summary(site, n).score_bands)
                         = Cardinality(SessionsIn(InWindow(site, n)))
  BY DEF SummaryAddsUp, Queries
<1> DEFINE E == InWindow(site, n)
           types == [t \in Types |-> Cardinality({e \in E : table[e].type = t})]
           band(s) == BandOf(SessionScore(OfSession(E, s)))
           bands == [b \in Bands |-> Cardinality({s \in SessionsIn(E) : band(s) = b})]
<1>1. /\ Summary(site, n).by_type = types
      /\ Summary(site, n).total_events = Cardinality(E)
      /\ Summary(site, n).score_bands = bands
  BY DEF Summary, ScoreBands, Bands
<1>2. E \subseteq DOMAIN table /\ IsFiniteSet(E) /\ IsFiniteSet(SessionsIn(E))
  BY Queried
<1> HIDE DEF E
<1>3. SumFunction(types) = Cardinality(E)
  <2> DEFINE class == [e \in E |-> table[e].type]
  <2>1. Classes(class, E, Types)
    <3> SUFFICES ASSUME NEW e \in E PROVE table[e].type \in Types
      BY DEF Classes
    <3>1. table[e] \in [site : Sites, session : Sessions, type : Types, delta : Int,
                        instant : Nat, millis : BOOLEAN]
      BY <1>2, QueryAssumption DEF TableInv
    <3> QED BY <3>1
  <2>2. Counts(types, class, E, Types)
    <3> SUFFICES ASSUME NEW t \in Types
                 PROVE  {e \in E : table[e].type = t} = {e \in E : class[e] = t}
      BY DEF Counts
    <3> QED OBVIOUS
  <2>3. DOMAIN types = Types
    OBVIOUS
  <2> HIDE DEF class, types
  <2>4. SumFunctionOnSet(types, Types) = Cardinality(E)
    BY <1>2, <2>1, <2>2, TypesFinite, ClassesAddUp
  <2> QED BY <2>3, <2>4 DEF SumFunction
<1>4. SumFunction(bands) = Cardinality(SessionsIn(E))
  <2> DEFINE C == SessionsIn(E)
             class == [s \in C |-> band(s)]
  <2>1. Classes(class, C, Bands)
    <3> HIDE DEF C
    <3> QED BY DEF Classes, BandOf, Bands
  <2>2. Counts(bands, class, C, Bands)
    <3> HIDE DEF band
    <3> SUFFICES ASSUME NEW b \in Bands
                 PROVE  {s \in C : band(s) = b} = {s \in C : class[s] = b}
      BY DEF Counts
    <3> QED OBVIOUS
  <2>3. DOMAIN bands = Bands
    OBVIOUS
  <2>4. IsFiniteSet(C)
    BY <1>2
  <2> HIDE DEF C, class, bands
  <2>5. SumFunctionOnSet(bands, Bands) = Cardinality(C)
    BY <2>1, <2>2, <2>4, BandsFinite, ClassesAddUp
  <2> QED BY <2>3, <2>5 DEF SumFunction, C
<1> HIDE DEF types, bands
<1> QED BY <1>1, <1>3, <1>4 DEF E

\* The three queries of a summary agree, for any table and any clock: the types add
\* up to the events, the bands to the sessions.
THEOREM SummaryAgrees == Spec => []SummaryAddsUp
<1>1. TableInv => SummaryAddsUp
  BY SummaryHolds
<1> QED BY <1>1, TableInvariant, PTL

-----------------------------------------------------------------------------
(***************************************************************************)
(* Scores of sessions in a summary.                                        *)
(***************************************************************************)

\* A score is 100 plus the sum of the deltas, between 0 and 100.
Clamp(x) == Max({0, Min({100, 100 + x})})

LEMMA Clamped ==
  ASSUME NEW x \in Int
  PROVE  Clamp(x) = IF x > 0 THEN 100 ELSE IF x < -100 THEN 0 ELSE 100 + x
<1>1. Min({100, 100 + x}) = IF x > 0 THEN 100 ELSE 100 + x
  BY DEF Min
<1> DEFINE y == IF x > 0 THEN 100 ELSE 100 + x
<1>2. y \in Int
  OBVIOUS
<1>3. Max({0, y}) = IF y < 0 THEN 0 ELSE y
  <2> HIDE DEF y
  <2> QED BY <1>2 DEF Max
<1> QED BY <1>1, <1>3 DEF Clamp

\* A lower sum never leaves the worst band.
LEMMA WorseStays ==
  ASSUME NEW x \in Int, NEW y \in Int, y <= x, BandOf(Clamp(x)) = "likely_bot"
  PROVE  BandOf(Clamp(y)) = "likely_bot"
  BY Clamped DEF BandOf

LEMMA RowType ==
  ASSUME NEW row \in Rows
  PROVE  row.delta \in Int /\ row.type \in Types
<1>1. row \in [site : Sites, session : Sessions, type : Types, delta : Int,
               instant : Nat, millis : BOOLEAN]
  BY QueryAssumption
<1> QED BY <1>1

\* The likely bots among the rows E of a table t. Stated of any table, so that the
\* tables before and after a step can be compared.
OfOne(t, E, s) == {e \in E : t[e].session = s}
Delta(t, E) == [e \in E |-> t[e].delta]
Bots(t, E) ==
  {s \in {t[e].session : e \in E} :
     BandOf(Clamp(SumFunction(Delta(t, OfOne(t, E, s))))) = "likely_bot"}
AreRows(t, E) == IsFiniteSet(E) /\ \A e \in E : t[e] \in Rows

\* They are what the summary counts, before a step and after it.
LEMMA BotsCounted ==
  ASSUME NEW site, NEW n
  PROVE  /\ ScoreBands(site, n)["likely_bot"] = Cardinality(Bots(table, InWindow(site, n)))
         /\ ScoreBands(site, n)["likely_bot"]' = Cardinality(Bots(table', InWindow(site, n)'))
<1>1. ScoreBands(site, n)["likely_bot"] = Cardinality(Bots(table, InWindow(site, n)))
  BY DEF ScoreBands, Bots, SessionsIn, OfSession, OfOne, SessionScore, SumDelta, Delta, Clamp
<1>2. ScoreBands(site, n)["likely_bot"]' = Cardinality(Bots(table', InWindow(site, n)'))
  BY DEF ScoreBands, Bots, SessionsIn, OfSession, OfOne, SessionScore, SumDelta, Delta, Clamp
<1> QED BY <1>1, <1>2

\* The deltas of rows have a sum.
LEMMA DeltaSum ==
  ASSUME NEW t, NEW E, AreRows(t, E)
  PROVE  /\ Numbers(Delta(t, E), E)
         /\ SumFunction(Delta(t, E)) = SumFunctionOnSet(Delta(t, E), E)
         /\ SumFunction(Delta(t, E)) \in Int
<1>1. \A e \in E : Delta(t, E)[e] \in Int
  BY RowType DEF AreRows, Delta
<1>2. Numbers(Delta(t, E), E)
  BY <1>1 DEF Numbers, AreRows
<1>3. DOMAIN Delta(t, E) = E
  BY DEF Delta
<1>4. SumFunction(Delta(t, E)) = SumFunctionOnSet(Delta(t, E), E)
  BY <1>3 DEF SumFunction
<1>5. SumFunctionOnSet(Delta(t, E), E) \in Int
  BY <1>2, SumInt
<1> QED BY <1>1, <1>2, <1>4, <1>5

\* Rows of a table t that are there in a table u, too, sum up to no less than all
\* of u's, when no other row of u's has a delta above 0.
LEMMA SumOfPart ==
  ASSUME NEW t, NEW u, NEW E, NEW F, E \subseteq F, AreRows(u, F),
         \A e \in E : t[e] = u[e], \A e \in F \ E : u[e].delta <= 0
  PROVE  SumFunction(Delta(u, F)) <= SumFunction(Delta(t, E))
<1>1. AreRows(t, E)
  BY FS_Subset DEF AreRows
<1>2. \A e \in E : Delta(u, F)[e] = Delta(t, E)[e]
  BY DEF Delta
<1>3. SumFunctionOnSet(Delta(u, F), F) <= SumFunctionOnSet(Delta(u, F), E)
  <2>1. \A e \in F \ E : Delta(u, F)[e] <= 0
    BY DEF Delta
  <2> QED BY <2>1, DeltaSum, SumFalls
<1>4. SumFunctionOnSet(Delta(u, F), E) = SumFunctionOnSet(Delta(t, E), E)
  <2>1. Numbers(Delta(t, E), E)
    BY <1>1, DeltaSum
  <2> QED BY <1>2, <2>1, SumAgree
<1> QED BY <1>1, <1>3, <1>4, DeltaSum

\* Whoever is a likely bot for some rows is one when rows of deltas up to 0 are
\* added.
LEMMA MoreBots ==
  ASSUME NEW t, NEW u, NEW E, NEW F, E \subseteq F, AreRows(u, F),
         \A e \in E : t[e] = u[e], \A e \in F \ E : u[e].delta <= 0
  PROVE  Bots(t, E) \subseteq Bots(u, F)
<1> SUFFICES ASSUME NEW s \in Bots(t, E) PROVE s \in Bots(u, F)
  OBVIOUS
<1> DEFINE D == OfOne(t, E, s)
           G == OfOne(u, F, s)
           x == SumFunction(Delta(t, D))
           y == SumFunction(Delta(u, G))
<1>1. D \subseteq G /\ D \subseteq E /\ G \subseteq F /\ \A e \in D : t[e] = u[e]
  BY DEF OfOne
<1>11. \A e \in G \ D : u[e].delta <= 0
  <2> SUFFICES ASSUME NEW e \in G \ D PROVE e \in F \ E
    OBVIOUS
  <2> QED BY DEF OfOne
<1>2. AreRows(u, G) /\ AreRows(t, D)
  BY <1>1, FS_Subset DEF AreRows
<1>3. x \in Int /\ y \in Int
  <2> HIDE DEF D, G
  <2> QED BY <1>2, DeltaSum
<1>4. y <= x
  <2> HIDE DEF D, G
  <2> QED BY <1>1, <1>11, <1>2, SumOfPart
<1>5. BandOf(Clamp(x)) = "likely_bot"
  BY DEF Bots
<1>6. BandOf(Clamp(y)) = "likely_bot"
  <2> HIDE DEF x, y
  <2> QED BY <1>3, <1>4, <1>5, WorseStays
<1>7. s \in {u[e].session : e \in F}
  BY DEF Bots
<1> QED BY <1>6, <1>7 DEF Bots

\* And there are finitely many of them.
LEMMA BotsFinite ==
  ASSUME NEW t, NEW E, IsFiniteSet(E)
  PROVE  IsFiniteSet(Bots(t, E))
<1> DEFINE f == [e \in E |-> t[e].session]
           T == {f[e] : e \in E}
<1>1. Bots(t, E) \subseteq T
  BY DEF Bots
<1>2. IsFiniteSet(T)
  <2> HIDE DEF f
  <2> QED BY ImageFinite
<1> HIDE DEF T
<1> QED BY <1>1, <1>2, FS_Subset

\* An event whose delta does not lift the score never takes a session out of the
\* likely bots of any summary, however late it is and whatever was stored before.
THEOREM NeverCleared == Spec => LateEventsNeverClear
<1>1. TableInv /\ TableInv' /\ [Next]_vars =>
        [(\A e \in DOMAIN table' \ DOMAIN table : table'[e].delta <= 0) /\ now' = now =>
           \A q \in Queries :
             ScoreBands(q[1], q[2])["likely_bot"] <= ScoreBands(q[1], q[2])["likely_bot"]']_vars
  <2> SUFFICES ASSUME TableInv, TableInv', [Next]_vars, NEW site, NEW n, now' = now,
                      \A e \in DOMAIN table' \ DOMAIN table : table'[e].delta <= 0
               PROVE  ScoreBands(site, n)["likely_bot"] <= ScoreBands(site, n)["likely_bot"]'
    OBVIOUS
  <2> DEFINE E == InWindow(site, n)
             F == InWindow(site, n)'
  <2>1. (\E e \in EventIds, row \in Rows : Ingest(e, row)) \/ UNCHANGED vars
    BY DEF Next, Tick, TableInv
  <2>2. now' = now /\ \A d \in DOMAIN table : d \in DOMAIN table' /\ table'[d] = table[d]
    BY <2>1 DEF Ingest, vars
  <2>3. E \subseteq F /\ \A d \in E : table[d] = table'[d]
    BY <2>2 DEF InWindow, RowKey, Since
  <2>4. AreRows(table', F) /\ F \subseteq DOMAIN table'
    <3>1. F \subseteq DOMAIN table'
      BY DEF InWindow
    <3> QED BY <3>1, FS_Subset DEF TableInv, AreRows
  <2>44. \A e \in F \ E : table'[e].delta <= 0
    <3>1. ASSUME NEW e \in F \ E PROVE e \in DOMAIN table' \ DOMAIN table
      BY <2>2 DEF InWindow, RowKey, Since
    <3> QED BY <3>1
  <2> HIDE DEF E, F
  <2>5. Bots(table, E) \subseteq Bots(table', F)
    BY <2>3, <2>4, <2>44, MoreBots
  <2>6. IsFiniteSet(Bots(table', F))
    BY <2>4, BotsFinite DEF AreRows
  <2>7. Cardinality(Bots(table, E)) <= Cardinality(Bots(table', F))
    BY <2>5, <2>6, FS_Subset
  <2> QED BY <2>7, BotsCounted DEF E, F
<1> QED BY <1>1, TableInvariant, PTL DEF Spec, LateEventsNeverClear

-----------------------------------------------------------------------------
(***************************************************************************)
(* Honeypots, for the summary and for the engine.                          *)
(***************************************************************************)

\* One honeypot makes a likely bot of the rows it is among, when the clients of the
\* repository sent them.
LEMMA CaughtInBand ==
  ASSUME NEW t, NEW E, AreRows(t, E), \A d \in E : ClientDelta(t[d]),
         NEW e \in E, t[e].type = "honeypot_triggered"
  PROVE  BandOf(Clamp(SumFunction(Delta(t, E)))) = "likely_bot"
<1> DEFINE x == SumFunction(Delta(t, E))
<1>1. t[e].delta = -80 /\ \A d \in E : t[d].delta <= 0
  BY DEF ClientDelta
<1>2. AreRows(t, {e}) /\ {e} \subseteq E
  BY FS_Singleton DEF AreRows
<1>3. SumFunction(Delta(t, {e})) = -80
  <2>1. SumFunctionOnSet(Delta(t, {e}), {e}) = Delta(t, {e})[e]
    <3>1. Numbers(Delta(t, {e}), {e})
      BY <1>2, DeltaSum
    <3>2. \A d \in {e} \ {e} : Delta(t, {e})[d] = 0
      OBVIOUS
    <3> QED BY <3>1, <3>2, SumSingle
  <2>2. Delta(t, {e})[e] = -80
    BY <1>1 DEF Delta
  <2> QED BY <1>2, <2>1, <2>2, DeltaSum
<1>4. x <= SumFunction(Delta(t, {e}))
  <2> HIDE DEF x
  <2> QED BY <1>1, <1>2, SumOfPart DEF x
<1>5. x \in Int
  BY DeltaSum
<1>6. BandOf(Clamp(x)) = "likely_bot"
  <2> HIDE DEF x
  <2> QED BY <1>3, <1>4, <1>5, Clamped DEF BandOf
<1> QED BY <1>6

\* The engine's view of the rows E: every type among them is a signal.
LEMMA SignalsOf ==
  ASSUME NEW t, NEW E, AreRows(t, E)
  PROVE  LET ids  == SetToSeq(E)
             sigs == [i \in DOMAIN ids |-> t[ids[i]].type]
         IN  /\ sigs \in Seq(Types)
             /\ \A e \in E : \E i \in 1..Len(sigs) : sigs[i] = t[e].type
<1> DEFINE c == Cardinality(E)
           ids == SetToSeq(E)
           sigs == [i \in DOMAIN ids |-> t[ids[i]].type]
<1>1. c \in Nat /\ ExistsBijection(1..c, E)
  BY FS_CardinalityType DEF AreRows
<1>2. ids \in [1..c -> E] /\ ids \in Injection(1..c, E)
  <2>1. \E f \in [1..c -> E] : \A a, b \in DOMAIN f : f[a] = f[b] => a = b
    BY <1>1 DEF ExistsBijection, Bijection, Injection, IsInjective
  <2>2. ids \in [1..c -> E] /\ \A a, b \in DOMAIN ids : ids[a] = ids[b] => a = b
    BY <2>1 DEF SetToSeq, IsInjective
  <2> QED BY <2>2 DEF Injection, IsInjective
<1> HIDE DEF ids
<1>3. ids \in Surjection(1..c, E)
  <2>1. IsFiniteSet(E) /\ Cardinality(1..c) = c
    BY <1>1, FS_Interval DEF AreRows
  <2>2. Cardinality(1..c) = Cardinality(E)
    BY <2>1
  <2> HIDE DEF c
  <2> QED BY <1>2, <2>1, <2>2, FS_Injection
<1>4. \A e \in E : t[e].type \in Types
  BY RowType DEF AreRows
<1>5. sigs \in [1..c -> Types]
  BY <1>2, <1>4
<1>6. sigs \in Seq(Types) /\ Len(sigs) = c
  <2> HIDE DEF sigs, c
  <2> QED BY <1>1, <1>5, SeqDef, LenProperties
<1>7. ASSUME NEW e \in E PROVE \E i \in 1..Len(sigs) : sigs[i] = t[e].type
  <2>1. PICK i \in 1..c : ids[i] = e
    BY <1>3 DEF Surjection
  <2>2. sigs[i] = t[e].type
    BY <1>2, <2>1
  <2> HIDE DEF sigs, c
  <2> QED BY <1>6, <2>1, <2>2
<1> QED BY <1>6, <1>7 DEF ids

\* The engine of EventQueries computes as that of a session.
LEMMA SameEngine ==
  /\ \A f : Engine!SumFunction(f) = SumFunctionOnSet(f, DOMAIN f)
  /\ \A rs, sigs : Engine!TriggeredRules(rs, sigs) = TriggeredRules(rs, sigs)
<1>1. \A f : Engine!SumFunction(f) = SumFunctionOnSet(f, DOMAIN f)
  BY DEF Engine!SumFunction, Engine!SumFunctionOnSet, Engine!FoldFunctionOnSet,
         Engine!MapThenFoldSet, SumFunctionOnSet, FoldFunctionOnSet, MapThenFoldSet
<1>2. \A rs, sigs : Engine!TriggeredRules(rs, sigs) = TriggeredRules(rs, sigs)
  BY DEF Engine!TriggeredRules, Engine!PushRulesForSignal, Engine!FoldLeft,
         Engine!MapThenFoldSet, Engine!Max,
         TriggeredRules, PushRulesForSignal, FoldLeft,
         MapThenFoldSet, Max
<1> QED BY <1>1, <1>2

\* A honeypot among the signals costs 80 at least, by core-rules.yaml.
LEMMA EngineCatches ==
  ASSUME NEW G, NEW sigs \in Seq(G),
         NEW i \in 1..Len(sigs), sigs[i] = "honeypot_triggered"
  PROVE  Engine!ScoreSignals(CoreRules, sigs).band = "likely_bot"
<1> DEFINE R == {CoreRules[j] : j \in 1..6}
           w == [r \in R |-> r.weight]
           list == TriggeredRules(CoreRules, sigs)
           costs == Costs(w, CoreRules, sigs, Len(sigs))
           total == Total(w, list)
           weights == [j \in DOMAIN list |-> list[j].weight]
<1>1. /\ CoreRules \in Seq(R) /\ DOMAIN CoreRules = 1..6
      /\ CoreRules[1].weight = 80 /\ CoreRules[1].signal = "honeypot_triggered"
      /\ \A j \in 1..6 : CoreRules[j].weight \in Nat
  BY DEF CoreRules
<1>2. w \in [R -> Int] /\ \A j \in 1..6 : w[CoreRules[j]] = CoreRules[j].weight
  BY <1>1
<1> HIDE DEF R, w
<1>3. list \in Seq(R) /\ Numbers(costs, 1..6) /\ total = SumFunctionOnSet(costs, 1..6)
  <2>1. CoreRules \in Seq(R) /\ w \in [R -> Int]
    BY <1>1, <1>2
  <2>2. /\ list \in Seq(R)
        /\ Numbers(costs, DOMAIN CoreRules)
        /\ total = SumFunctionOnSet(costs, DOMAIN CoreRules)
    BY <2>1, TriggerTotal
  <2>3. DOMAIN CoreRules = 1..6
    BY <1>1
  <2> HIDE DEF list, costs, total
  <2> QED BY <2>2, <2>3
<1>4. Len(sigs) \in Nat /\ \A x : Count(sigs, Len(sigs), x) \in Nat
  BY LenProperties, CountNext DEF Begins
<1>5. \A j \in 1..6 : costs[j] >= 0
  <2> SUFFICES ASSUME NEW j \in 1..6 PROVE costs[j] >= 0
    OBVIOUS
  <2> DEFINE a == CoreRules[j].weight
             b == Count(sigs, Len(sigs), CoreRules[j].signal)
  <2>1. costs[j] = a * b
    BY <1>1, <1>2 DEF Costs
  <2>2. a \in Nat /\ b \in Nat
    BY <1>1, <1>4
  <2> HIDE DEF a, b, costs
  <2> QED BY <2>1, <2>2
<1>6. costs[1] >= 80
  <2> DEFINE b == Count(sigs, Len(sigs), "honeypot_triggered")
             T == {j \in 1..Len(sigs) : sigs[j] = "honeypot_triggered"}
  <2>1. costs[1] = 80 * b
    BY <1>1, <1>2 DEF Costs
  <2>2. b \in Nat
    BY <1>4
  <2>3. b # 0
    <3>1. IsFiniteSet(T) /\ i \in T
      BY <1>4, FiniteRange, FS_Subset
    <3>2. Cardinality(T) # 0
      <4> HIDE DEF T
      <4> QED BY <3>1, FS_EmptySet
    <3> QED BY <3>2 DEF Count
  <2> HIDE DEF b, costs
  <2> QED BY <2>1, <2>2, <2>3
<1>7. total >= 80 /\ total \in Int
  <2>0. 1 \in 1..6
    OBVIOUS
  <2>1. SumFunctionOnSet(costs, 1..6) >= costs[1]
    <3> DEFINE D == 1..6
    <3>1. Numbers(costs, D) /\ (\A j \in D : costs[j] >= 0) /\ 1 \in D
      BY <1>3, <1>5, <2>0
    <3> HIDE DEF costs, D
    <3>2. SumFunctionOnSet(costs, D) >= costs[1]
      BY <3>1, SumAtLeast
    <3> QED BY <3>2 DEF D
  <2>2. total \in Int /\ costs[1] \in Int
    <3> HIDE DEF costs, total
    <3>1. SumFunctionOnSet(costs, 1..6) \in Int
      BY <1>3, SumInt
    <3> QED BY <1>3, <2>0, <3>1 DEF Numbers
  <2> HIDE DEF costs, total
  <2> QED BY <1>3, <1>6, <2>1, <2>2
<1>8. Engine!Sum(weights) = total
  <2>1. \A j \in DOMAIN list : list[j] \in R
    <3> HIDE DEF list
    <3> QED BY <1>3, LenProperties, ElementOfSeq
  <2>2. weights = [j \in DOMAIN list |-> w[list[j]]] /\ DOMAIN weights = DOMAIN list
    BY <2>1 DEF w
  <2> HIDE DEF list, weights
  <2> QED BY <2>2, SameEngine DEF Engine!Sum, Total, total
<1>9. /\ Engine!TriggeredRules(CoreRules, sigs) = list
      /\ Engine!ScoreFromWeights(weights) \in 0..20
  <2> HIDE DEF total, weights
  <2> QED BY <1>7, <1>8, SameEngine DEF Engine!ScoreFromWeights, Engine!BaselineScore
<1>10. Engine!ScoreSignals(CoreRules, sigs).band = Engine!ScoreBand(Engine!ScoreFromWeights(weights))
  <2> HIDE DEF list
  <2> QED BY <1>9 DEF Engine!ScoreSignals, Engine!ScoreFromTriggeredRules
<1> DEFINE score == Engine!ScoreFromWeights(weights)
<1>11. score <= 39 /\ ~(score \in 40..69) /\ ~(score >= 70)
  <2>1. score \in 0..20
    BY <1>9
  <2> HIDE DEF score
  <2> QED BY <2>1
<1> HIDE DEF score
<1>12. Engine!ScoreBand(score) = "likely_bot"
  BY <1>11, Zenon DEF Engine!ScoreBand
<1> QED BY <1>10, <1>12 DEF score

\* A session with a honeypot hit in the window is a likely bot for the engine,
\* whatever its deltas, and for the summary, when they are the clients'.
THEOREM Honeypot == Spec => []HoneypotIsBot
<1>1. TableInv => HoneypotIsBot
  <2> SUFFICES ASSUME TableInv, NEW site, NEW n
               PROVE  LET E == InWindow(site, n)
                          caught == {s \in SessionsIn(E) :
                                       \E e \in OfSession(E, s) :
                                         table[e].type = "honeypot_triggered"}
                          charged == {s \in caught :
                                        \A e \in OfSession(E, s) : ClientDelta(table[e])}
                      IN  /\ ScoreBands(site, n)["likely_bot"] >= Cardinality(charged)
                          /\ \A s \in caught : EngineBand(OfSession(E, s)) = "likely_bot"
    BY DEF HoneypotIsBot
  <2> DEFINE E == InWindow(site, n)
             caught == {s \in SessionsIn(E) :
                          \E e \in OfSession(E, s) : table[e].type = "honeypot_triggered"}
             charged == {s \in caught : \A e \in OfSession(E, s) : ClientDelta(table[e])}
  <2>1. E \subseteq DOMAIN table /\ IsFiniteSet(E)
    BY Queried
  <2> HIDE DEF E
  <2>2. ASSUME NEW s \in caught
        PROVE  /\ AreRows(table, OfSession(E, s))
               /\ \E e \in OfSession(E, s) : table[e].type = "honeypot_triggered"
    BY <2>1, FS_Subset DEF AreRows, OfSession, TableInv
  <2>3. charged \subseteq Bots(table, E)
    <3> SUFFICES ASSUME NEW s \in charged PROVE s \in Bots(table, E)
      OBVIOUS
    <3>1. OfOne(table, E, s) = OfSession(E, s) /\ s \in {table[e].session : e \in E}
      BY DEF OfOne, OfSession, SessionsIn
    <3>2. PICK e \in OfSession(E, s) : table[e].type = "honeypot_triggered"
      BY <2>2
    <3>3. BandOf(Clamp(SumFunction(Delta(table, OfSession(E, s))))) = "likely_bot"
      BY <2>2, <3>2, CaughtInBand
    <3> QED BY <3>1, <3>3 DEF Bots
  <2>4. Cardinality(charged) <= ScoreBands(site, n)["likely_bot"]
    <3>1. IsFiniteSet(Bots(table, E))
      BY <2>1, BotsFinite
    <3>2. Cardinality(charged) <= Cardinality(Bots(table, E))
      <4> HIDE DEF charged
      <4> QED BY <2>3, <3>1, FS_Subset
    <3> QED BY <3>2, BotsCounted DEF E
  <2>5. ASSUME NEW s \in caught PROVE EngineBand(OfSession(E, s)) = "likely_bot"
    <3> DEFINE F == OfSession(E, s)
               ids == SetToSeq(F)
               sigs == [i \in DOMAIN ids |-> table[ids[i]].type]
    <3>1. PICK e \in F : table[e].type = "honeypot_triggered"
      BY <2>2
    <3>2. AreRows(table, F)
      BY <2>2
    <3>3. sigs \in Seq(Types) /\ \E i \in 1..Len(sigs) : sigs[i] = "honeypot_triggered"
      <4> HIDE DEF F
      <4> QED BY <3>1, <3>2, SignalsOf
    <3>4. Engine!ScoreSignals(CoreRules, sigs).band = "likely_bot"
      <4> HIDE DEF sigs
      <4> QED BY <3>3, EngineCatches
    <3> QED BY <3>4 DEF EngineBand
  <2>6. ScoreBands(site, n)["likely_bot"] >= Cardinality(charged)
    <3>1. Cardinality(charged) \in Nat /\ ScoreBands(site, n)["likely_bot"] \in Nat
      <4>1. IsFiniteSet(Bots(table, E))
        BY <2>1, BotsFinite
      <4> HIDE DEF charged
      <4>2. IsFiniteSet(charged)
        BY <2>3, <4>1, FS_Subset
      <4> QED BY <4>1, <4>2, FS_CardinalityType, BotsCounted DEF E
    <3> HIDE DEF charged
    <3> QED BY <2>4, <3>1
  <2> QED BY <2>5, <2>6 DEF E
<1> QED BY <1>1, TableInvariant, PTL
=============================================================================
