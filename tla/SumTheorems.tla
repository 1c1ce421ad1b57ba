----------------------------- MODULE SumTheorems -----------------------------
(* The sum of a function over a finite set, as the community modules define   *)
(* it: what it does not depend on and how it grows.  Nothing here is about a  *)
(* particular program.                                                        *)
(*                                                                            *)
(* Every induction is over the subsets of a finite set, and is done by a      *)
(* least counterexample: the library's induction theorems take an operator.   *)
EXTENDS Integers, Functions, FiniteSetTheorems, TLAPS

\* A nonempty set of subsets of a finite set has a least element.
LEMMA LeastSubset ==
  ASSUME NEW S, IsFiniteSet(S), NEW U, U \subseteq SUBSET S, U # {}
  PROVE  \E T \in U : \A V \in U : V \subseteq T => V = T
<1> DEFINE R == StrictSubsetOrdering(S)
<1>1. IsWellFoundedOn(R, SUBSET S)
  BY FS_StrictSubsetOrderingWellFounded, FS_FiniteSubsetsOfFinite
<1>2. \A V, T \in U : V \subseteq T /\ V # T => <<V, T>> \in R
  BY DEF StrictSubsetOrdering
<1> HIDE DEF R
<1>3. PICK T \in U : \A V \in U : ~(<<V, T>> \in R)
  BY <1>1, WFMin
<1> QED
  BY <1>2, <1>3

\* h is what summing f over any subset of S should give.
Additive(h, f, S) ==
  /\ h \in [SUBSET S -> Int]
  /\ h[{}] = 0
  /\ \A T \in SUBSET S : \A x \in T : h[T] = h[T \ {x}] + f[x]

LEMMA AdditiveExists ==
  ASSUME NEW S, IsFiniteSet(S), NEW f, \A x \in S : f[x] \in Int
  PROVE  \E h : Additive(h, f, S)
<1> DEFINE U == {T \in SUBSET S : ~ \E h : Additive(h, f, T)}
<1> SUFFICES ASSUME U # {} PROVE FALSE
  OBVIOUS
<1>1. PICK T \in U : \A V \in U : V \subseteq T => V = T
  <2>1. U \subseteq SUBSET S
    OBVIOUS
  <2> HIDE DEF U
  <2> QED
    BY <2>1, LeastSubset
<1>2. CASE T = {}
  <2>1. Additive([V \in SUBSET {} |-> 0], f, {})
    BY DEF Additive
  <2> QED
    BY <1>2, <2>1
<1>3. ASSUME NEW y \in T PROVE FALSE
  <2>1. PICK g : Additive(g, f, T \ {y})
    <3>1. T \ {y} \in SUBSET S /\ T \ {y} \subseteq T /\ T \ {y} # T
      OBVIOUS
    <3> QED
      BY <1>1, <3>1
  <2> DEFINE h == [V \in SUBSET T |-> IF y \in V THEN g[V \ {y}] + f[y] ELSE g[V]]
  <2>2. h \in [SUBSET T -> Int] /\ h[{}] = 0
    <3>1. \A V \in SUBSET T : V \ {y} \in SUBSET (T \ {y})
      OBVIOUS
    <3>2. \A V \in SUBSET T : y \notin V => V \in SUBSET (T \ {y})
      OBVIOUS
    <3>3. f[y] \in Int
      OBVIOUS
    <3> QED
      BY <2>1, <3>1, <3>2, <3>3 DEF Additive
  <2>3. ASSUME NEW V \in SUBSET T, NEW x \in V PROVE h[V] = h[V \ {x}] + f[x]
    <3> DEFINE W == V \ {x}
    <3>1. W \in SUBSET T /\ f[x] \in Int /\ f[y] \in Int
      OBVIOUS
    <3>2. CASE x = y
      BY <3>1, <3>2
    <3>3. CASE x # y /\ y \in V
      <4>1. V \ {y} \in SUBSET (T \ {y}) /\ x \in V \ {y}
        BY <3>3
      <4>2. g[V \ {y}] = g[(V \ {y}) \ {x}] + f[x]
        BY <2>1, <4>1 DEF Additive
      <4>3. (V \ {y}) \ {x} = W \ {y} /\ W \ {y} \in SUBSET (T \ {y})
        OBVIOUS
      <4>4. g[W \ {y}] \in Int
        BY <2>1, <4>3 DEF Additive
      <4>5. h[V] = g[V \ {y}] + f[y] /\ h[W] = g[W \ {y}] + f[y]
        BY <3>1, <3>3
      <4>6. g[V \ {y}] = g[W \ {y}] + f[x]
        BY <4>2, <4>3
      <4> HIDE DEF h, W
      <4>7. h[V] = h[W] + f[x]
        BY <3>1, <4>4, <4>5, <4>6
      <4> QED
        BY <4>7 DEF W
    <3>4. CASE y \notin V
      <4>1. V \in SUBSET (T \ {y})
        BY <3>4
      <4>2. g[V] = g[W] + f[x]
        BY <2>1, <4>1 DEF Additive
      <4>3. h[V] = g[V] /\ h[W] = g[W]
        BY <3>1, <3>4
      <4> QED
        BY <4>2, <4>3
    <3> QED
      BY <3>2, <3>3, <3>4
  <2> HIDE DEF h
  <2>4. Additive(h, f, T)
    BY <2>2, <2>3 DEF Additive
  <2> QED
    BY <2>4
<1> QED
  BY <1>2, <1>3

\* g adds the values of f up in some order.
Summing(g, f, S) ==
  /\ g[{}] = 0
  /\ \A T \in SUBSET S : T # {} => \E x \in T : g[T] = f[x] + g[T \ {x}]

\* In whichever order, it is the same.
LEMMA OrderIrrelevant ==
  ASSUME NEW S, IsFiniteSet(S), NEW f, \A x \in S : f[x] \in Int, NEW g, NEW h,
         Summing(g, f, S), Additive(h, f, S)
  PROVE  g[S] = h[S]
<1> DEFINE U == {T \in SUBSET S : g[T] # h[T]}
<1> SUFFICES ASSUME U # {} PROVE FALSE
  OBVIOUS
<1>1. PICK T \in U : \A V \in U : V \subseteq T => V = T
  <2>1. U \subseteq SUBSET S
    OBVIOUS
  <2> HIDE DEF U
  <2> QED
    BY <2>1, LeastSubset
<1>2. T # {}
  BY <1>1 DEF Additive, Summing
<1>3. PICK x \in T : g[T] = f[x] + g[T \ {x}]
  BY <1>2 DEF Summing
<1>4. T \ {x} \in SUBSET S /\ T \ {x} \subseteq T /\ T \ {x} # T
  OBVIOUS
<1>5. g[T \ {x}] = h[T \ {x}]
  BY <1>1, <1>4
<1>6. h[T] = h[T \ {x}] + f[x] /\ h[T \ {x}] \in Int /\ f[x] \in Int
  BY <1>4 DEF Additive
<1>7. g[T] = h[T]
  BY <1>3, <1>5, <1>6
<1> QED
  BY <1>1, <1>7

\* The fold of the community modules, written out.
Step(f, g, S) ==
  [s \in SUBSET S |-> IF s = {} THEN 0
                      ELSE f[CHOOSE x \in s : TRUE] + g[s \ {CHOOSE x \in s : TRUE}]]

Fold(f, S) == CHOOSE g : g = Step(f, g, S)

LEMMA SumUnfolds == ASSUME NEW f, NEW S PROVE SumFunctionOnSet(f, S) = Fold(f, S)[S]
BY DEF SumFunctionOnSet, FoldFunctionOnSet, MapThenFoldSet, Fold, Step

\* The sum is the value of every additive function.
LEMMA SumIsAdditive ==
  ASSUME NEW S, IsFiniteSet(S), NEW f, \A x \in S : f[x] \in Int,
         NEW h, Additive(h, f, S)
  PROVE  SumFunctionOnSet(f, S) = h[S]
<1>1. h = Step(f, h, S)
  <2>1. ASSUME NEW s \in SUBSET S, s # {}
        PROVE  h[s] = f[CHOOSE x \in s : TRUE] + h[s \ {CHOOSE x \in s : TRUE}]
    <3> DEFINE x == CHOOSE x \in s : TRUE
    <3>1. x \in s
      BY <2>1
    <3> HIDE DEF x
    <3>2. h[s] = h[s \ {x}] + f[x] /\ h[s \ {x}] \in Int /\ f[x] \in Int
      BY <3>1 DEF Additive
    <3>3. h[s] = f[x] + h[s \ {x}]
      BY <3>2
    <3> QED
      BY <3>3 DEF x
  <2> QED
    BY <2>1 DEF Additive, Step
<1> DEFINE g == Fold(f, S)
<1>2. g = Step(f, g, S)
  BY <1>1 DEF Fold
<1> HIDE DEF g
<1>3. ASSUME NEW T \in SUBSET S, T # {} PROVE \E x \in T : g[T] = f[x] + g[T \ {x}]
  <2>1. g[T] = f[CHOOSE x \in T : TRUE] + g[T \ {CHOOSE x \in T : TRUE}]
    BY <1>2, <1>3 DEF Step
  <2>2. (CHOOSE x \in T : TRUE) \in T
    BY <1>3
  <2> QED
    BY <2>1, <2>2
<1>4. Summing(g, f, S)
  <2>1. g[{}] = 0
    BY <1>2 DEF Step
  <2> QED
    BY <1>3, <2>1 DEF Summing
<1> QED
  BY <1>4, OrderIrrelevant, SumUnfolds DEF g
-----------------------------------------------------------------------------
(* What is cited elsewhere.                                                   *)

LEMMA SumIsInt ==
  ASSUME NEW S, IsFiniteSet(S), NEW f, \A x \in S : f[x] \in Int
  PROVE  SumFunctionOnSet(f, S) \in Int
<1>1. PICK h : Additive(h, f, S)
  BY AdditiveExists
<1>2. h[S] \in Int
  BY <1>1 DEF Additive
<1> QED
  BY <1>1, <1>2, SumIsAdditive

LEMMA SumOfNothing == ASSUME NEW f PROVE SumFunctionOnSet(f, {}) = 0
<1>1. IsFiniteSet({})
  BY FS_EmptySet
<1>2. Additive([T \in SUBSET {} |-> 0], f, {})
  BY DEF Additive
<1>3. SumFunctionOnSet(f, {}) = [T \in SUBSET {} |-> 0][{}]
  BY <1>1, <1>2, SumIsAdditive
<1> QED
  BY <1>3

\* Only the values on the set count.
LEMMA SumOfSame ==
  ASSUME NEW S, IsFiniteSet(S), NEW f, \A x \in S : f[x] \in Int,
         NEW g, \A x \in S : g[x] = f[x]
  PROVE  SumFunctionOnSet(g, S) = SumFunctionOnSet(f, S)
<1>1. PICK h : Additive(h, f, S)
  BY AdditiveExists
<1>2. Additive(h, g, S)
  BY <1>1 DEF Additive
<1> QED
  BY <1>1, <1>2, SumIsAdditive

\* One more element.
LEMMA SumWithOneMore ==
  ASSUME NEW S, IsFiniteSet(S), NEW y, y \notin S,
         NEW f, \A x \in S \cup {y} : f[x] \in Int
  PROVE  SumFunctionOnSet(f, S \cup {y}) = SumFunctionOnSet(f, S) + f[y]
<1> DEFINE T == S \cup {y}
<1>1. IsFiniteSet(T)
  BY FS_AddElement
<1>2. PICK h : Additive(h, f, T)
  BY <1>1, AdditiveExists
<1> DEFINE k == [V \in SUBSET S |-> h[V]]
<1>3. Additive(k, f, S)
  BY <1>2 DEF Additive
<1>4. SumFunctionOnSet(f, T) = h[T]
  BY <1>1, <1>2, SumIsAdditive
<1>5. SumFunctionOnSet(f, S) = k[S]
  BY <1>3, SumIsAdditive
<1>6. h[T] = h[T \ {y}] + f[y]
  BY <1>2 DEF Additive
<1>7. T \ {y} = S
  OBVIOUS
<1> QED
  BY <1>4, <1>5, <1>6, <1>7
=============================================================================
