------------------------------- MODULE SumProofs -------------------------------
(***************************************************************************)
(* What a sum over a finite set is worth: the amounts of the payments of   *)
(* an order, of a session of the cash register, the quantities of a        *)
(* ledger.  The models add with the folds of the community modules; here   *)
(* the fold is shown to be SumOn, and SumOn to be a sum: any element may   *)
(* be taken out of it, and it knows its elements only by their values.     *)
(*                                                                         *)
(* Induction is over a set of the cases proved so far, in place of a       *)
(* predicate.                                                              *)
(***************************************************************************)
EXTENDS Integers, FiniteSets, Functions, FiniteSetTheorems,
        WellFoundedInduction, TLAPS

\* A set of numbers has a least one.
LEMMA LeastExists ==
  ASSUME NEW B \in SUBSET Nat, B # {}
  PROVE  \E n \in B : \A m \in B : n <= m
<1>1. \E n \in B : \A m \in B : ~(<<m, n>> \in OpToRel(<, Nat))
  BY NatLessThanWellFounded, WFMin
<1>2. PICK n \in B : \A m \in B : ~(m < n)
  BY <1>1 DEF OpToRel
<1>3. QED
  BY <1>2

\* What holds of a set when it holds of the set without any one of its
\* elements, holds of every finite set.
LEMMA SubsetInduction ==
  ASSUME NEW S, IsFiniteSet(S), NEW Good,
         \A T \in SUBSET S : (\A x \in T : T \ {x} \in Good) => T \in Good
  PROVE  \A T \in SUBSET S : T \in Good
<1> DEFINE Sizes == {Cardinality(T) : T \in (SUBSET S) \ Good}
<1>1. SUFFICES ASSUME NEW U \in SUBSET S, U \notin Good
               PROVE  FALSE
  OBVIOUS
<1>2. \A T \in SUBSET S : IsFiniteSet(T) /\ Cardinality(T) \in Nat
  BY FS_Subset, FS_CardinalityType
<1>3. Sizes \in SUBSET Nat /\ Sizes # {}
  BY <1>1, <1>2
<1>4. PICK n \in Sizes : \A m \in Sizes : n <= m
  <2> HIDE DEF Sizes
  <2> QED
    BY <1>3, LeastExists
<1>5. PICK T \in (SUBSET S) \ Good : n = Cardinality(T)
  OBVIOUS
<1>6. PICK x \in T : T \ {x} \notin Good
  BY <1>5
<1>7. Cardinality(T \ {x}) = Cardinality(T) - 1
  BY <1>2, <1>6, FS_RemoveElement
<1>8. Cardinality(T \ {x}) \in Sizes
  BY <1>5, <1>6
<1>9. n \in Int /\ n <= n - 1
  <2> HIDE DEF Sizes
  <2>1. T \in SUBSET S
    BY <1>5
  <2>2. QED
    BY <2>1, <1>2, <1>4, <1>5, <1>7, <1>8
<1>10. QED
  BY <1>9

\* The values of a function on a finite set.
LEMMA ImageIsFinite ==
  ASSUME NEW f, NEW S, IsFiniteSet(S)
  PROVE  IsFiniteSet({f[x] : x \in S})
<1> DEFINE T == {f[x] : x \in S}
           g == [x \in S |-> f[x]]
<1>1. g \in Surjection(S, T)
  BY DEF Surjection
<1>2. QED
  <2> HIDE DEF g
  <2> QED
    BY <1>1, FS_Surjection

\* A finite set of numbers has a greatest one.
LEMMA GreatestExists ==
  ASSUME NEW B \in SUBSET Nat, IsFiniteSet(B), B # {}
  PROVE  \E n \in B : \A m \in B : m <= n
<1> DEFINE Good == {T \in SUBSET B : T # {} => \E n \in T : \A m \in T : m <= n}
<1>1. ASSUME NEW T \in SUBSET B, \A x \in T : T \ {x} \in Good
      PROVE  T \in Good
  <2>1. CASE T = {}
    BY <2>1
  <2>2. CASE T # {}
    <3>1. PICK x \in T : TRUE
      BY <2>2
    <3>2. CASE T \ {x} = {}
      BY <3>1, <3>2
    <3>3. CASE T \ {x} # {}
      <4>1. PICK n \in T \ {x} : \A m \in T \ {x} : m <= n
        BY <1>1, <3>1, <3>3
      <4>2. n \in Nat /\ x \in Nat /\ \A m \in T : m \in Nat
        BY <3>1, <4>1
      <4>3. CASE x <= n
        BY <4>1, <4>3
      <4>4. CASE ~(x <= n)
        BY <4>1, <4>2, <4>4
      <4>5. QED
        BY <4>3, <4>4
    <3>4. QED
      BY <3>2, <3>3
  <2>3. QED
    BY <2>1, <2>2
<1>2. \A T \in SUBSET B : T \in Good
  <2> HIDE DEF Good
  <2> QED
    BY <1>1, SubsetInduction
<1>3. B \in Good
  <2>1. B \in SUBSET B
    OBVIOUS
  <2> HIDE DEF Good
  <2> QED
    BY <1>2, <2>1
<1>4. QED
  BY <1>3

-----------------------------------------------------------------------------
(* The function behind a fold. *)

OneOf(s) == CHOOSE x \in s : TRUE

\* g adds f over the sets of D, taking their elements out one at a time.
Adds(g, f, D) ==
  g = [s \in D |-> IF s = {} THEN 0
                   ELSE LET x == CHOOSE x \in s : TRUE IN f[x] + g[s \ {x}]]

Sums(g, f, S) == Adds(g, f, SUBSET S)
SumOn(f, S) == (CHOOSE g : Sums(g, f, S))[S]

\* The fold of the models.
LEMMA FoldIsSum ==
  ASSUME NEW f
  PROVE  FoldFunction(LAMBDA x, y : x + y, 0, f) = SumOn(f, DOMAIN f)
BY DEF FoldFunction, FoldFunctionOnSet, MapThenFoldSet, SumOn, Sums, Adds

LEMMA OneOfIsIn ==
  ASSUME NEW s, s # {}
  PROVE  OneOf(s) \in s
BY DEF OneOf

\* What adding is, at each set.
LEMMA AddsAt ==
  ASSUME NEW g, NEW f, NEW D, Adds(g, f, D), NEW s \in D
  PROVE  g[s] = IF s = {} THEN 0 ELSE f[OneOf(s)] + g[s \ {OneOf(s)}]
<1>1. g = [t \in D |-> IF t = {} THEN 0 ELSE f[OneOf(t)] + g[t \ {OneOf(t)}]]
  BY DEF Adds, OneOf
<1>2. QED
  BY <1>1

\* There is a function that adds.
LEMMA AddsExists ==
  ASSUME NEW f, NEW S, IsFiniteSet(S)
  PROVE  \E g : Sums(g, f, S)
<1> DEFINE Small(n) == {s \in SUBSET S : Cardinality(s) <= n}
           Done == {n \in Nat : \E g : Adds(g, f, Small(n))}
<1>1. \A s \in SUBSET S : /\ IsFiniteSet(s) /\ Cardinality(s) \in Nat
                          /\ Cardinality(s) = 0 <=> s = {}
  BY FS_Subset, FS_CardinalityType, FS_EmptySet
<1>2. 0 \in Done
  <2> DEFINE g == [s \in Small(0) |-> 0]
  <2>1. \A s \in Small(0) : s = {}
    BY <1>1
  <2>2. g = [s \in Small(0) |->
               IF s = {} THEN 0
               ELSE LET x == CHOOSE x \in s : TRUE IN f[x] + g[s \ {x}]]
    BY <2>1
  <2>3. Adds(g, f, Small(0))
    BY <2>2 DEF Adds
  <2>4. QED
    BY <2>3
<1>3. ASSUME NEW n \in Nat, n \in Done
      PROVE  n + 1 \in Done
  <2>1. PICK g : Adds(g, f, Small(n))
    BY <1>3
  <2> DEFINE h == [s \in Small(n + 1) |->
                     IF s = {} THEN 0 ELSE f[OneOf(s)] + g[s \ {OneOf(s)}]]
  <2>2. ASSUME NEW s \in Small(n + 1), s # {}
        PROVE  h[s \ {OneOf(s)}] = g[s \ {OneOf(s)}]
    <3> DEFINE t == s \ {OneOf(s)}
    <3>1. OneOf(s) \in s
      BY <2>2, OneOfIsIn
    <3>2. Cardinality(t) = Cardinality(s) - 1
      BY <1>1, <3>1, FS_RemoveElement
    <3>3. t \in Small(n) /\ t \in Small(n + 1)
      BY <1>1, <3>2
    <3>4. g[t] = IF t = {} THEN 0 ELSE f[OneOf(t)] + g[t \ {OneOf(t)}]
      <4> HIDE DEF t, Small
      <4> QED
        BY <2>1, <3>3, AddsAt
    <3>5. h[t] = IF t = {} THEN 0 ELSE f[OneOf(t)] + g[t \ {OneOf(t)}]
      <4> HIDE DEF t, Small
      <4> QED
        BY <3>3
    <3>6. QED
      BY <3>4, <3>5
  <2>3. h = [s \in Small(n + 1) |->
               IF s = {} THEN 0
               ELSE LET x == CHOOSE x \in s : TRUE IN f[x] + h[s \ {x}]]
    <3> HIDE DEF Small
    <3>1. \A s \in Small(n + 1) :
            s # {} => h[s \ {OneOf(s)}] = g[s \ {OneOf(s)}]
      BY <2>2
    <3> DEFINE k == [s \in Small(n + 1) |->
                       IF s = {} THEN 0 ELSE f[OneOf(s)] + h[s \ {OneOf(s)}]]
    <3>2. h = k
      BY <3>1
    <3>3. k = [s \in Small(n + 1) |->
               IF s = {} THEN 0
               ELSE LET x == CHOOSE x \in s : TRUE IN f[x] + h[s \ {x}]]
      <4> HIDE DEF h
      <4> QED
        BY DEF OneOf
    <3>4. QED
      BY <3>2, <3>3
  <2>4. Adds(h, f, Small(n + 1))
    <3> HIDE DEF Small, h
    <3> QED
      BY <2>3 DEF Adds
  <2>5. QED
    <3> HIDE DEF Small, h
    <3> QED
      BY <2>4
<1>4. Done = Nat
  <2> HIDE DEF Done
  <2>1. SUFFICES ASSUME Nat \ Done # {} PROVE FALSE
    <3>1. Done \subseteq Nat
      BY DEF Done
    <3>2. QED
      BY <3>1
  <2>2. PICK n \in Nat \ Done : \A m \in Nat \ Done : n <= m
    BY <2>1, LeastExists
  <2>3. n # 0 /\ n - 1 \in Nat /\ n - 1 \in Done
    BY <1>2, <2>2
  <2>4. (n - 1) + 1 \in Done
    BY <1>3, <2>3
  <2>5. QED
    BY <2>2, <2>4
<1>5. Cardinality(S) \in Done
  <2> HIDE DEF Done
  <2> QED
    BY <1>1, <1>4
<1>6. Small(Cardinality(S)) = SUBSET S
  BY <1>1, FS_Subset
<1>7. QED
  BY <1>5, <1>6 DEF Sums

\* And it adds in one way only.
LEMMA AddsAgree ==
  ASSUME NEW f, NEW S, IsFiniteSet(S), NEW T \in SUBSET S, NEW g, NEW h,
         Sums(g, f, S), Sums(h, f, T), NEW U \in SUBSET T
  PROVE  g[U] = h[U]
<1> DEFINE Good == {V \in SUBSET T : g[V] = h[V]}
<1>1. IsFiniteSet(T)
  BY FS_Subset
<1>2. ASSUME NEW V \in SUBSET T, \A x \in V : V \ {x} \in Good
      PROVE  V \in Good
  <2>1. /\ g[V] = IF V = {} THEN 0 ELSE f[OneOf(V)] + g[V \ {OneOf(V)}]
        /\ h[V] = IF V = {} THEN 0 ELSE f[OneOf(V)] + h[V \ {OneOf(V)}]
    BY AddsAt DEF Sums
  <2>2. V # {} => g[V \ {OneOf(V)}] = h[V \ {OneOf(V)}]
    BY <1>2, OneOfIsIn
  <2>3. QED
    BY <2>1, <2>2
<1>3. QED
  <2> HIDE DEF Good
  <2>1. \A V \in SUBSET T : V \in Good
    BY <1>1, <1>2, SubsetInduction
  <2>2. QED
    BY <2>1 DEF Good

-----------------------------------------------------------------------------
(* Sums. *)

LEMMA SumOfNothing ==
  ASSUME NEW f
  PROVE  SumOn(f, {}) = 0
<1>1. PICK g : Sums(g, f, {})
  BY AddsExists, FS_EmptySet
<1>2. Sums(CHOOSE h : Sums(h, f, {}), f, {})
  BY <1>1
<1>3. QED
  BY <1>2, AddsAt DEF SumOn, Sums

LEMMA SumTakesOne ==
  ASSUME NEW f, NEW S, IsFiniteSet(S), S # {}
  PROVE  SumOn(f, S) = f[OneOf(S)] + SumOn(f, S \ {OneOf(S)})
<1> DEFINE T == S \ {OneOf(S)}
           g == CHOOSE k : Sums(k, f, S)
           h == CHOOSE k : Sums(k, f, T)
<1>1. IsFiniteSet(T) /\ T \in SUBSET S
  BY FS_Subset
<1>2. Sums(g, f, S) /\ Sums(h, f, T)
  <2>1. /\ \E k : Sums(k, f, S)
        /\ \E k : Sums(k, f, T)
    <3> HIDE DEF T
    <3> QED
      BY <1>1, AddsExists
  <2>2. QED
    BY <2>1
<1>3. g[T] = h[T]
  <2>1. ASSUME NEW U \in SUBSET S, NEW a, Sums(a, f, S),
               NEW b, Sums(b, f, U)
        PROVE  a[U] = b[U]
    BY <2>1, AddsAgree
  <2>2. QED
    BY <1>1, <1>2, <2>1, Zenon
<1>4. g[S] = f[OneOf(S)] + g[T]
  <2> HIDE DEF g
  <2> QED
    BY <1>2, AddsAt DEF Sums
<1>5. g[S] = SumOn(f, S) /\ h[T] = SumOn(f, T)
  BY DEF SumOn
<1>6. QED
  BY <1>3, <1>4, <1>5

\* A sum of whole numbers is one, whatever the order of adding them.
LEMMA SumIsInt ==
  ASSUME NEW f, NEW S, IsFiniteSet(S), \A x \in S : f[x] \in Int
  PROVE  SumOn(f, S) \in Int
<1> DEFINE Good == {T \in SUBSET S : SumOn(f, T) \in Int}
<1>1. ASSUME NEW T \in SUBSET S, \A x \in T : T \ {x} \in Good
      PROVE  T \in Good
  <2>1. CASE T = {}
    BY <2>1, SumOfNothing
  <2>2. CASE T # {}
    <3>1. IsFiniteSet(T) /\ OneOf(T) \in T
      BY <2>2, OneOfIsIn, FS_Subset
    <3>2. SumOn(f, T) = f[OneOf(T)] + SumOn(f, T \ {OneOf(T)})
      BY <2>2, <3>1, SumTakesOne
    <3>3. SumOn(f, T \ {OneOf(T)}) \in Int
      BY <1>1, <3>1
    <3>4. QED
      BY <3>1, <3>2, <3>3
  <2>3. QED
    BY <2>1, <2>2
<1>2. S \in Good
  <2> HIDE DEF Good
  <2>1. \A T \in SUBSET S : T \in Good
    BY <1>1, SubsetInduction
  <2>2. QED
    BY <2>1
<1>3. QED
  BY <1>2

LEMMA SumTakesOut ==
  ASSUME NEW f, NEW S, IsFiniteSet(S), \A x \in S : f[x] \in Int, NEW y \in S
  PROVE  SumOn(f, S) = f[y] + SumOn(f, S \ {y})
<1> DEFINE Good == {T \in SUBSET S :
                      \A z \in T : SumOn(f, T) = f[z] + SumOn(f, T \ {z})}
<1>1. ASSUME NEW T \in SUBSET S, \A x \in T : T \ {x} \in Good, NEW z \in T
      PROVE  SumOn(f, T) = f[z] + SumOn(f, T \ {z})
  <2> DEFINE a == OneOf(T)
  <2>1. a \in T /\ IsFiniteSet(T)
    BY OneOfIsIn, FS_Subset
  <2>2. SumOn(f, T) = f[a] + SumOn(f, T \ {a})
    BY <2>1, SumTakesOne
  <2>3. CASE z = a
    BY <2>2, <2>3
  <2>4. CASE z # a
    <3> HIDE DEF a
    <3>1. SumOn(f, T \ {a}) = f[z] + SumOn(f, (T \ {a}) \ {z})
      BY <1>1, <2>1, <2>4
    <3>2. SumOn(f, T \ {z}) = f[a] + SumOn(f, (T \ {z}) \ {a})
      BY <1>1, <2>1, <2>4
    <3>3. (T \ {z}) \ {a} = (T \ {a}) \ {z}
      OBVIOUS
    <3>4. SumOn(f, (T \ {a}) \ {z}) \in Int
      <4>1. (T \ {a}) \ {z} \in SUBSET S
        OBVIOUS
      <4>2. QED
        BY <4>1, SumIsInt, FS_Subset
    <3>5. f[a] \in Int /\ f[z] \in Int
      BY <2>1
    <3>6. \A p, q, r \in Int : p + (q + r) = q + (p + r)
      OBVIOUS
    <3> DEFINE rest == SumOn(f, (T \ {a}) \ {z})
    <3>7. /\ SumOn(f, T) = f[a] + (f[z] + rest)
          /\ SumOn(f, T \ {z}) = f[a] + rest
      BY <2>2, <3>1, <3>2, <3>3
    <3>8. rest \in Int
      BY <3>4
    <3>9. QED
      <4> HIDE DEF rest
      <4> QED
        BY <3>5, <3>6, <3>7, <3>8
  <2>5. QED
    BY <2>3, <2>4
<1>2. \A T \in SUBSET S : (\A x \in T : T \ {x} \in Good) => T \in Good
  BY <1>1
<1>3. S \in Good
  <2> HIDE DEF Good
  <2>1. \A T \in SUBSET S : T \in Good
    BY <1>2, SubsetInduction
  <2>2. QED
    BY <2>1
<1>4. QED
  BY <1>3

\* One more element, or one value changed.
LEMMA SumPutsIn ==
  ASSUME NEW f, NEW S, IsFiniteSet(S), NEW y, y \notin S,
         \A x \in S \cup {y} : f[x] \in Int
  PROVE  SumOn(f, S \cup {y}) = f[y] + SumOn(f, S)
<1>1. IsFiniteSet(S \cup {y})
  BY FS_AddElement
<1>2. (S \cup {y}) \ {y} = S
  OBVIOUS
<1> DEFINE T == S \cup {y}
<1>3. SumOn(f, T) = f[y] + SumOn(f, T \ {y})
  <2>1. y \in T /\ IsFiniteSet(T) /\ \A x \in T : f[x] \in Int
    BY <1>1
  <2>2. QED
    <3> HIDE DEF T
    <3> QED
      BY <2>1, SumTakesOut
<1>4. QED
  BY <1>2, <1>3

\* What is added in two parts.
LEMMA SumOfParts ==
  ASSUME NEW f, NEW S, IsFiniteSet(S), NEW T, IsFiniteSet(T), S \cap T = {},
         \A x \in S \cup T : f[x] \in Int
  PROVE  SumOn(f, S \cup T) = SumOn(f, S) + SumOn(f, T)
<1> DEFINE Good == {U \in SUBSET S :
                      SumOn(f, U \cup T) = SumOn(f, U) + SumOn(f, T)}
<1>1. SumOn(f, T) \in Int
  BY SumIsInt
<1>2. ASSUME NEW U \in SUBSET S, \A x \in U : U \ {x} \in Good
      PROVE  U \in Good
  <2>1. CASE U = {}
    <3>1. SumOn(f, U) = 0 /\ U \cup T = T
      BY <2>1, SumOfNothing
    <3>2. SumOn(f, U \cup T) = SumOn(f, T)
      BY <3>1
    <3>3. SumOn(f, T) = 0 + SumOn(f, T)
      BY <1>1
    <3>4. QED
      BY <3>1, <3>2, <3>3
  <2>2. CASE U # {}
    <3>1. PICK x \in U : TRUE
      BY <2>2
    <3>2. IsFiniteSet(U) /\ IsFiniteSet(U \cup T) /\ IsFiniteSet(U \ {x})
      BY FS_Subset, FS_Union
    <3>3. SumOn(f, U \cup T) = f[x] + SumOn(f, (U \cup T) \ {x})
      BY <3>2, SumTakesOut
    <3>4. SumOn(f, U) = f[x] + SumOn(f, U \ {x})
      BY <3>2, SumTakesOut
    <3>5. (U \cup T) \ {x} = (U \ {x}) \cup T
      BY <3>1
    <3>6. SumOn(f, (U \ {x}) \cup T) = SumOn(f, U \ {x}) + SumOn(f, T)
      BY <1>2, <3>1
    <3>7. SumOn(f, U \ {x}) \in Int /\ f[x] \in Int
      BY <3>1, <3>2, SumIsInt
    <3>8. SumOn(f, U \cup T) = f[x] + (SumOn(f, U \ {x}) + SumOn(f, T))
      BY <3>3, <3>5, <3>6
    <3>9. \A a, b, c \in Int : a + (b + c) = (a + b) + c
      OBVIOUS
    <3>10. SumOn(f, U \cup T) = (f[x] + SumOn(f, U \ {x})) + SumOn(f, T)
      BY <1>1, <3>7, <3>8, <3>9
    <3>11. QED
      BY <3>4, <3>10
  <2>3. QED
    BY <2>1, <2>2
<1>3. \A U \in SUBSET S : U \in Good
  <2> HIDE DEF Good
  <2> QED
    BY <1>2, SubsetInduction
<1>4. S \in Good
  <2>1. S \in SUBSET S
    OBVIOUS
  <2> HIDE DEF Good
  <2> QED
    BY <1>3, <2>1
<1>5. QED
  BY <1>4

\* Functions with the same values have the same sum.
LEMMA SumsAgree ==
  ASSUME NEW S, IsFiniteSet(S), NEW f, NEW g, \A x \in S : f[x] = g[x]
  PROVE  SumOn(f, S) = SumOn(g, S)
<1> DEFINE Good == {T \in SUBSET S : SumOn(f, T) = SumOn(g, T)}
<1>1. ASSUME NEW T \in SUBSET S, \A x \in T : T \ {x} \in Good
      PROVE  T \in Good
  <2>1. CASE T = {}
    BY <2>1, SumOfNothing
  <2>2. CASE T # {}
    <3>1. IsFiniteSet(T) /\ OneOf(T) \in T
      BY <2>2, OneOfIsIn, FS_Subset
    <3>2. /\ SumOn(f, T) = f[OneOf(T)] + SumOn(f, T \ {OneOf(T)})
          /\ SumOn(g, T) = g[OneOf(T)] + SumOn(g, T \ {OneOf(T)})
      BY <2>2, <3>1, SumTakesOne
    <3>3. SumOn(f, T \ {OneOf(T)}) = SumOn(g, T \ {OneOf(T)})
      BY <1>1, <3>1
    <3>4. QED
      BY <3>1, <3>2, <3>3
  <2>3. QED
    BY <2>1, <2>2
<1>2. S \in Good
  <2> HIDE DEF Good
  <2>1. \A T \in SUBSET S : T \in Good
    BY <1>1, SubsetInduction
  <2>2. QED
    BY <2>1
<1>3. QED
  BY <1>2

\* Where the values of g are as large, the sum of g is.
LEMMA SumGrows ==
  ASSUME NEW S, IsFiniteSet(S), NEW f, NEW g,
         \A x \in S : f[x] \in Int /\ g[x] \in Int /\ f[x] <= g[x]
  PROVE  SumOn(f, S) <= SumOn(g, S)
<1> DEFINE Good == {T \in SUBSET S : SumOn(f, T) <= SumOn(g, T)}
<1>1. ASSUME NEW T \in SUBSET S, \A x \in T : T \ {x} \in Good
      PROVE  T \in Good
  <2>1. CASE T = {}
    BY <2>1, SumOfNothing
  <2>2. CASE T # {}
    <3>1. IsFiniteSet(T) /\ IsFiniteSet(T \ {OneOf(T)}) /\ OneOf(T) \in T
      BY <2>2, OneOfIsIn, FS_Subset
    <3>2. /\ SumOn(f, T) = f[OneOf(T)] + SumOn(f, T \ {OneOf(T)})
          /\ SumOn(g, T) = g[OneOf(T)] + SumOn(g, T \ {OneOf(T)})
      BY <2>2, <3>1, SumTakesOne
    <3>3. SumOn(f, T \ {OneOf(T)}) <= SumOn(g, T \ {OneOf(T)})
      BY <1>1, <3>1
    <3>4. SumOn(f, T \ {OneOf(T)}) \in Int /\ SumOn(g, T \ {OneOf(T)}) \in Int
      BY <3>1, SumIsInt
    <3>5. \A p, q, r, t \in Int : p <= q /\ r <= t => p + r <= q + t
      OBVIOUS
    <3>6. QED
      BY <3>1, <3>2, <3>3, <3>4, <3>5
  <2>3. QED
    BY <2>1, <2>2
<1>2. S \in Good
  <2> HIDE DEF Good
  <2>1. \A T \in SUBSET S : T \in Good
    BY <1>1, SubsetInduction
  <2>2. QED
    BY <2>1
<1>3. QED
  BY <1>2

\* A sum of what is not negative is not, and no part of it is larger.
LEMMA SumIsNat ==
  ASSUME NEW f, NEW S, IsFiniteSet(S), \A x \in S : f[x] \in Nat
  PROVE  /\ SumOn(f, S) \in Nat
         /\ \A y \in S : f[y] <= SumOn(f, S)
<1> DEFINE Good == {T \in SUBSET S : SumOn(f, T) \in Nat}
<1>1. ASSUME NEW T \in SUBSET S, \A x \in T : T \ {x} \in Good
      PROVE  T \in Good
  <2>1. CASE T = {}
    BY <2>1, SumOfNothing
  <2>2. CASE T # {}
    <3>1. IsFiniteSet(T) /\ OneOf(T) \in T
      BY <2>2, OneOfIsIn, FS_Subset
    <3>2. SumOn(f, T) = f[OneOf(T)] + SumOn(f, T \ {OneOf(T)})
      BY <2>2, <3>1, SumTakesOne
    <3>3. SumOn(f, T \ {OneOf(T)}) \in Nat
      BY <1>1, <3>1
    <3>4. QED
      BY <3>1, <3>2, <3>3
  <2>3. QED
    BY <2>1, <2>2
<1>2. \A T \in SUBSET S : SumOn(f, T) \in Nat
  <2> HIDE DEF Good
  <2>1. \A T \in SUBSET S : T \in Good
    BY <1>1, SubsetInduction
  <2>2. QED
    BY <2>1 DEF Good
<1>3. ASSUME NEW y \in S
      PROVE  f[y] <= SumOn(f, S)
  <2>1. SumOn(f, S) = f[y] + SumOn(f, S \ {y})
    BY SumTakesOut
  <2>2. SumOn(f, S \ {y}) \in Nat /\ f[y] \in Nat
    BY <1>2
  <2>3. QED
    BY <2>1, <2>2
<1>4. QED
  BY <1>2, <1>3

===============================================================================
