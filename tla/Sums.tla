-------------------------------- MODULE Sums --------------------------------
(***************************************************************************)
(* What the proofs need to know of SumFunctionOnSet, the sum of the values *)
(* of a function over a finite set, which the community modules define by  *)
(* recursion over the set: an element may be taken out of the sum, in      *)
(* whatever order the definition adds them.  Induction, over the numbers   *)
(* or over finite sets, is by the least of what would break it.            *)
(***************************************************************************)
EXTENDS Integers, Functions, FiniteSetTheorems, TLAPS

\* A set of numbers that is not empty has a least one.
LEMMA NatLeast ==
  ASSUME NEW S \in SUBSET Nat, S # {}
  PROVE  \E m \in S : \A q \in S : m <= q
<1>1. PICK m \in S : \A q \in S : ~ (<<q, m>> \in OpToRel(<, Nat))
  BY NatLessThanWellFounded, WFMin
<1>2. \A q \in S : ~ (q < m)
  BY <1>1 DEF OpToRel
<1> QED
  BY <1>2

\* What holds of every subset of S holds of S: the least subset without it has none less.
LEMMA LeastSubset ==
  ASSUME NEW S, IsFiniteSet(S), NEW Bad \in SUBSET SUBSET S, Bad # {}
  PROVE  \E T \in Bad : \A x \in T : T \ {x} \notin Bad
<1>1. IsWellFoundedOn(StrictSubsetOrdering(S), SUBSET S)
  BY FS_StrictSubsetOrderingWellFounded, FS_FiniteSubsetsOfFinite
<1>2. PICK T \in Bad : \A U \in Bad : ~ (<<U, T>> \in StrictSubsetOrdering(S))
  BY <1>1, WFMin
<1>3. ASSUME NEW x \in T, T \ {x} \in Bad PROVE FALSE
  <2>1. <<T \ {x}, T>> \in StrictSubsetOrdering(S)
    BY DEF StrictSubsetOrdering
  <2> QED
    BY <1>2, <1>3, <2>1
<1> QED
  BY <1>3

\* The sums of f over all subsets of S, in whatever order elements are added.
IsSum(g, f, S) ==
  /\ g \in [SUBSET S -> Int]
  /\ g[{}] = 0
  /\ \A T \in SUBSET S : \A x \in T : g[T] = f[x] + g[T \ {x}]

\* One more element can be summed.
LEMMA SumExtends ==
  ASSUME NEW S, NEW f, NEW x, x \notin S, f[x] \in Int, \A y \in S : f[y] \in Int,
         NEW g, IsSum(g, f, S)
  PROVE  \E h : IsSum(h, f, S \cup {x})
<1> DEFINE h == [T \in SUBSET (S \cup {x}) |-> IF x \in T THEN f[x] + g[T \ {x}] ELSE g[T]]
<1>1. \A T \in SUBSET (S \cup {x}) : T \ {x} \in SUBSET S /\ (x \notin T => T \in SUBSET S)
  OBVIOUS
<1>2. h \in [SUBSET (S \cup {x}) -> Int]
  BY <1>1 DEF IsSum
<1>3. h[{}] = 0
  BY DEF IsSum
<1>4. ASSUME NEW T \in SUBSET (S \cup {x}), NEW y \in T PROVE h[T] = f[y] + h[T \ {y}]
  <2>1. T \ {y} \in SUBSET (S \cup {x})
    OBVIOUS
  <2>2. CASE x \notin T
    <3>1. T \in SUBSET S /\ h[T] = g[T] /\ h[T \ {y}] = g[T \ {y}]
      BY <2>1, <2>2
    <3> QED
      BY <3>1 DEF IsSum
  <2>3. CASE y = x
    <3>1. h[T] = f[x] + g[T \ {x}] /\ h[T \ {y}] = g[T \ {x}]
      BY <2>1, <2>3
    <3> QED
      BY <2>3, <3>1
  <2>4. CASE x \in T /\ y # x
    <3>1. h[T] = f[x] + g[T \ {x}]
      BY <2>4
    <3>2. h[T \ {y}] = f[x] + g[(T \ {y}) \ {x}]
      BY <2>1, <2>4
    <3>3. g[T \ {x}] = f[y] + g[(T \ {x}) \ {y}]
      BY <1>1, <2>4 DEF IsSum
    <3>4. g[(T \ {x}) \ {y}] = g[(T \ {y}) \ {x}]
      <4>1. (T \ {x}) \ {y} = (T \ {y}) \ {x}
        OBVIOUS
      <4> QED
        BY ONLY <4>1
    <3>5. g[(T \ {y}) \ {x}] \in Int /\ f[x] \in Int /\ f[y] \in Int
      BY <1>1, <2>1, <2>4 DEF IsSum
    <3> DEFINE rest == g[(T \ {y}) \ {x}]
    <3>6. h[T] = f[x] + (f[y] + rest) /\ h[T \ {y}] = f[x] + rest
      BY <3>1, <3>2, <3>3, <3>4
    <3>7. rest \in Int
      BY <3>5
    <3> HIDE DEF h, rest
    <3> QED
      BY ONLY <3>5, <3>6, <3>7
  <2> QED
    BY <2>2, <2>3, <2>4
<1> HIDE DEF h
<1>5. IsSum(h, f, S \cup {x})
  BY <1>2, <1>3, <1>4 DEF IsSum
<1> QED
  BY <1>5

\* A finite set can be summed.
LEMMA SumExists ==
  ASSUME NEW S, IsFiniteSet(S), NEW f, \A x \in S : f[x] \in Int
  PROVE  \E g : IsSum(g, f, S)
<1> DEFINE Bad == {T \in SUBSET S : ~ \E g : IsSum(g, f, T)}
<1>1. SUFFICES ASSUME Bad # {} PROVE FALSE
  OBVIOUS
<1>2. PICK T \in Bad : \A x \in T : T \ {x} \notin Bad
  BY <1>1, LeastSubset
<1>3. CASE T = {}
  <2> DEFINE g == [U \in SUBSET {} |-> 0]
  <2>1. IsSum(g, f, {})
    BY DEF IsSum
  <2> QED
    BY <1>3, <2>1
<1>4. CASE T # {}
  <2>1. PICK x \in T : TRUE
    BY <1>4
  <2>2. PICK g : IsSum(g, f, T \ {x})
    BY <1>2
  <2>3. (T \ {x}) \cup {x} = T /\ x \notin T \ {x} /\ f[x] \in Int
    OBVIOUS
  <2>4. \A y \in T \ {x} : f[y] \in Int
    OBVIOUS
  <2>5. \E h : IsSum(h, f, (T \ {x}) \cup {x})
    BY <2>2, <2>3, <2>4, SumExtends
  <2>6. \E h : IsSum(h, f, T)
    BY <2>3, <2>5
  <2> QED
    BY <2>6
<1> QED
  BY <1>3, <1>4

\* The recursive definition adds the elements in one order, and gives the same sum.
LEMMA SumIs ==
  ASSUME NEW S, IsFiniteSet(S), NEW f, NEW g, IsSum(g, f, S)
  PROVE  SumFunctionOnSet(f, S) = g[S]
<1> DEFINE first(s) == CHOOSE x \in s : TRUE
           iter == CHOOSE h : h = [s \in SUBSET S |-> IF s = {} THEN 0
                                                      ELSE f[first(s)] + h[s \ {first(s)}]]
<1>1. SumFunctionOnSet(f, S) = iter[S]
  BY DEF SumFunctionOnSet, FoldFunctionOnSet, MapThenFoldSet
<1>2. \A s \in SUBSET S : s # {} => first(s) \in s
  OBVIOUS
<1> HIDE DEF first
<1>3. g = [s \in SUBSET S |-> IF s = {} THEN 0 ELSE f[first(s)] + g[s \ {first(s)}]]
  BY <1>2 DEF IsSum
<1>4. iter = [s \in SUBSET S |-> IF s = {} THEN 0 ELSE f[first(s)] + iter[s \ {first(s)}]]
  BY <1>3
<1> HIDE DEF iter
<1> DEFINE Bad == {T \in SUBSET S : iter[T] # g[T]}
<1>5. SUFFICES ASSUME Bad # {} PROVE FALSE
  BY <1>1
<1>6. PICK T \in Bad : \A x \in T : T \ {x} \notin Bad
  BY <1>5, LeastSubset
<1>7. iter[T] = IF T = {} THEN 0 ELSE f[first(T)] + iter[T \ {first(T)}]
  BY <1>4
<1>8. g[T] = IF T = {} THEN 0 ELSE f[first(T)] + g[T \ {first(T)}]
  BY <1>3
<1>9. T # {} => iter[T \ {first(T)}] = g[T \ {first(T)}]
  BY <1>2, <1>6
<1> QED
  BY <1>7, <1>8, <1>9

(***************************************************************************)
(* The sum over a finite set is an integer; that over the empty set is 0.  *)
(***************************************************************************)
LEMMA SumType ==
  ASSUME NEW S, IsFiniteSet(S), NEW f, \A x \in S : f[x] \in Int
  PROVE  SumFunctionOnSet(f, S) \in Int
<1>1. PICK g : IsSum(g, f, S)
  BY SumExists
<1>2. g[S] \in Int
  BY <1>1 DEF IsSum
<1> QED
  BY <1>1, <1>2, SumIs

\* Nothing sums to 0.
LEMMA SumEmpty ==
  ASSUME NEW f
  PROVE  SumFunctionOnSet(f, {}) = 0
<1>1. IsFiniteSet({}) /\ \A x \in {} : f[x] \in Int
  BY FS_EmptySet
<1> QED
  BY <1>1, SumExists, SumIs DEF IsSum

\* Any element may be taken out of the sum.
LEMMA SumTakeOut ==
  ASSUME NEW S, IsFiniteSet(S), NEW f, \A x \in S : f[x] \in Int, NEW x \in S
  PROVE  SumFunctionOnSet(f, S) = f[x] + SumFunctionOnSet(f, S \ {x})
<1>1. PICK g : IsSum(g, f, S)
  BY SumExists
<1>2. SumFunctionOnSet(f, S) = g[S] /\ g[S] = f[x] + g[S \ {x}]
  <2>1. g[S] = f[x] + g[S \ {x}]
    BY <1>1 DEF IsSum
  <2> QED
    BY <1>1, <2>1, SumIs
<1> DEFINE h == [T \in SUBSET (S \ {x}) |-> g[T]]
<1>3. IsSum(h, f, S \ {x})
  BY <1>1 DEF IsSum
<1>4. IsFiniteSet(S \ {x})
  BY FS_RemoveElement
<1>5. h[S \ {x}] = g[S \ {x}]
  OBVIOUS
<1> HIDE DEF h
<1>6. SumFunctionOnSet(f, S \ {x}) = h[S \ {x}]
  BY <1>3, <1>4, SumIs
<1> QED
  BY <1>2, <1>5, <1>6

\* A sum depends on the values of the elements only, and grows with them.
LEMMA SumSame ==
  ASSUME NEW S, IsFiniteSet(S), NEW f, \A x \in S : f[x] \in Int,
         NEW h, \A x \in S : h[x] = f[x]
  PROVE  SumFunctionOnSet(h, S) = SumFunctionOnSet(f, S)
<1>1. PICK g : IsSum(g, f, S)
  BY SumExists
<1>2. IsSum(g, h, S)
  BY <1>1 DEF IsSum
<1> QED
  BY <1>1, <1>2, SumIs

\* Larger values have a larger sum.
LEMMA SumGrows ==
  ASSUME NEW S, IsFiniteSet(S), NEW f, \A x \in S : f[x] \in Int,
         NEW h, \A x \in S : h[x] \in Int /\ f[x] <= h[x]
  PROVE  SumFunctionOnSet(f, S) <= SumFunctionOnSet(h, S)
<1>1. PICK g : IsSum(g, f, S)
  BY SumExists
<1>2. PICK k : IsSum(k, h, S)
  BY SumExists
<1> DEFINE Bad == {T \in SUBSET S : ~ (g[T] <= k[T])}
<1>3. SUFFICES ASSUME Bad # {} PROVE FALSE
  BY <1>1, <1>2, SumIs
<1>4. PICK T \in Bad : \A x \in T : T \ {x} \notin Bad
  BY <1>3, LeastSubset
<1>5. T # {}
  <2> SUFFICES ASSUME T = {} PROVE FALSE
    OBVIOUS
  <2>1. g[T] = 0 /\ k[T] = 0
    BY <1>1, <1>2 DEF IsSum
  <2> QED
    BY <2>1
<1>6. PICK x \in T : TRUE
  BY <1>5
<1>7. g[T] = f[x] + g[T \ {x}] /\ k[T] = h[x] + k[T \ {x}]
  BY <1>1, <1>2 DEF IsSum
<1>8. g[T \ {x}] <= k[T \ {x}]
  BY <1>4
<1>9. g[T \ {x}] \in Int /\ k[T \ {x}] \in Int /\ f[x] \in Int /\ h[x] \in Int /\ f[x] <= h[x]
  BY <1>1, <1>2 DEF IsSum
<1>10. g[T] <= k[T]
  BY <1>7, <1>8, <1>9
<1> QED
  BY <1>10

\* A sum without negative values is not negative.
LEMMA SumNatural ==
  ASSUME NEW S, IsFiniteSet(S), NEW f, \A x \in S : f[x] \in Nat
  PROVE  SumFunctionOnSet(f, S) \in Nat
<1>1. PICK g : IsSum(g, f, S)
  BY SumExists
<1> DEFINE Bad == {T \in SUBSET S : g[T] \notin Nat}
<1>2. SUFFICES ASSUME Bad # {} PROVE FALSE
  BY <1>1, SumIs
<1>3. PICK T \in Bad : \A x \in T : T \ {x} \notin Bad
  BY <1>2, LeastSubset
<1>4. PICK x \in T : TRUE
  <2> SUFFICES ASSUME T = {} PROVE FALSE
    OBVIOUS
  <2>1. g[T] = 0
    BY <1>1 DEF IsSum
  <2> QED
    BY <2>1
<1>5. g[T] = f[x] + g[T \ {x}] /\ g[T \ {x}] \in Nat /\ f[x] \in Nat
  BY <1>1, <1>3 DEF IsSum
<1>6. g[T] \in Nat
  BY <1>5
<1> QED
  BY <1>6

\* Nothing but zeros sum to zero.
LEMMA SumZero ==
  ASSUME NEW S, IsFiniteSet(S), NEW f, \A x \in S : f[x] = 0
  PROVE  SumFunctionOnSet(f, S) = 0
<1> DEFINE g == [T \in SUBSET S |-> 0]
<1>1. IsSum(g, f, S)
  BY DEF IsSum
<1>2. g[S] = 0
  OBVIOUS
<1> HIDE DEF g
<1> QED
  BY <1>1, <1>2, SumIs

\* With one value changed by d the sum is changed by d.
LEMMA SumChanges ==
  ASSUME NEW S, IsFiniteSet(S), NEW f, \A x \in S : f[x] \in Int, NEW x \in S, NEW d \in Int,
         NEW h, h[x] = f[x] + d, \A y \in S : y # x => h[y] = f[y]
  PROVE  SumFunctionOnSet(h, S) = SumFunctionOnSet(f, S) + d
<1>1. IsFiniteSet(S \ {x})
  BY FS_RemoveElement
<1>2. \A y \in S : h[y] \in Int
  OBVIOUS
<1>3. SumFunctionOnSet(f, S) = f[x] + SumFunctionOnSet(f, S \ {x})
  BY SumTakeOut
<1>4. SumFunctionOnSet(h, S) = h[x] + SumFunctionOnSet(h, S \ {x})
  BY <1>2, SumTakeOut
<1>5. SumFunctionOnSet(h, S \ {x}) = SumFunctionOnSet(f, S \ {x})
  BY <1>1, SumSame
<1>6. SumFunctionOnSet(f, S \ {x}) \in Int
  BY <1>1, SumType
<1> QED
  BY <1>3, <1>4, <1>5, <1>6

\* A function nowhere above another and somewhere below it has the lower sum.
LEMMA SumStrict ==
  ASSUME NEW S, IsFiniteSet(S), NEW f, NEW h,
         \A x \in S : f[x] \in Int /\ h[x] \in Int /\ f[x] <= h[x], NEW x \in S, f[x] < h[x]
  PROVE  SumFunctionOnSet(f, S) < SumFunctionOnSet(h, S)
<1>1. IsFiniteSet(S \ {x})
  BY FS_RemoveElement
<1>2. SumFunctionOnSet(f, S) = f[x] + SumFunctionOnSet(f, S \ {x})
  BY SumTakeOut
<1>3. SumFunctionOnSet(h, S) = h[x] + SumFunctionOnSet(h, S \ {x})
  BY SumTakeOut
<1>4. SumFunctionOnSet(f, S \ {x}) <= SumFunctionOnSet(h, S \ {x})
  BY <1>1, SumGrows
<1>5. SumFunctionOnSet(f, S \ {x}) \in Int /\ SumFunctionOnSet(h, S \ {x}) \in Int
  BY <1>1, SumType
<1> QED
  BY <1>2, <1>3, <1>4, <1>5

\* Of finitely many values one is the least.
LEMMA LeastValue ==
  ASSUME NEW S, IsFiniteSet(S), S # {}, NEW f, \A x \in S : f[x] \in Int
  PROVE  \E m \in S : \A q \in S : f[m] <= f[q]
<1> DEFINE Bad == {T \in SUBSET S : T # {} /\ \A m \in T : \E q \in T : ~ (f[m] <= f[q])}
<1>1. SUFFICES ASSUME Bad # {} PROVE FALSE
  OBVIOUS
<1>2. PICK T \in Bad : \A x \in T : T \ {x} \notin Bad
  BY <1>1, LeastSubset
<1>3. PICK x \in T : TRUE
  OBVIOUS
<1>4. CASE T \ {x} = {}
  BY <1>4
<1>5. CASE T \ {x} # {}
  <2>1. PICK m \in T \ {x} : \A q \in T \ {x} : f[m] <= f[q]
    BY <1>2, <1>5
  <2>2. CASE f[x] <= f[m]
    <3>1. \A q \in T : f[x] <= f[q]
      BY <2>1, <2>2
    <3> QED
      BY <3>1
  <2>3. CASE ~ (f[x] <= f[m])
    <3>1. \A q \in T : f[m] <= f[q]
      BY <2>1, <2>3
    <3> QED
      BY <2>1, <3>1
  <2> QED
    BY <2>2, <2>3
<1> QED
  BY <1>4, <1>5

\* Without negative values a part has no larger sum than the whole.
LEMMA SumSubset ==
  ASSUME NEW S, IsFiniteSet(S), NEW f, \A x \in S : f[x] \in Nat, NEW A \in SUBSET S
  PROVE  SumFunctionOnSet(f, A) <= SumFunctionOnSet(f, S)
<1>1. PICK g : IsSum(g, f, S)
  BY SumExists
<1>2. SumFunctionOnSet(f, S) = g[S]
  BY <1>1, SumIs
<1>3. SumFunctionOnSet(f, A) = g[A]
  <2> DEFINE h == [T \in SUBSET A |-> g[T]]
  <2>1. IsSum(h, f, A)
    BY <1>1 DEF IsSum
  <2>2. IsFiniteSet(A) /\ h[A] = g[A]
    BY FS_Subset
  <2> HIDE DEF h
  <2> QED
    BY <2>1, <2>2, SumIs
<1> DEFINE Bad == {T \in SUBSET (S \ A) : ~ (g[A] <= g[A \cup T])}
<1>4. Bad = {}
  <2> SUFFICES ASSUME Bad # {} PROVE FALSE
    OBVIOUS
  <2>1. IsFiniteSet(S \ A) /\ Bad \in SUBSET SUBSET (S \ A)
    BY FS_Subset
  <2>2. PICK T \in Bad : \A x \in T : T \ {x} \notin Bad
    <3> HIDE DEF Bad
    <3> QED
      BY <2>1, LeastSubset
  <2>3. T \in SUBSET (S \ A) /\ ~ (g[A] <= g[A \cup T])
    BY <2>2
  <2>4. g[A] \in Int
    BY <1>1 DEF IsSum
  <2>5. CASE T = {}
    <3>1. A \cup T = A
      BY <2>5
    <3>2. g[A \cup T] = g[A]
      BY ONLY <3>1
    <3> QED
      BY <2>3, <2>4, <3>2
  <2>6. CASE T # {}
    <3>1. PICK x \in T : TRUE
      BY <2>6
    <3>2. A \cup T \in SUBSET S /\ x \in A \cup T /\ (A \cup T) \ {x} = A \cup (T \ {x})
      BY <2>3
    <3>3. g[A \cup T] = f[x] + g[A \cup (T \ {x})]
      BY <1>1, <3>2 DEF IsSum
    <3>4. g[A] <= g[A \cup (T \ {x})] /\ g[A \cup (T \ {x})] \in Int /\ f[x] \in Nat
      <4>1. T \ {x} \in SUBSET (S \ A) /\ T \ {x} \notin Bad
        BY <2>2, <2>3
      <4>2. A \cup (T \ {x}) \in SUBSET S
        BY <2>3
      <4> QED
        BY <1>1, <2>3, <4>1, <4>2 DEF IsSum
    <3> QED
      BY <2>3, <2>4, <3>3, <3>4
  <2> QED
    BY <2>5, <2>6
<1>5. S \ A \notin Bad /\ A \cup (S \ A) = S
  BY <1>4
<1>6. g[A] <= g[S]
  BY <1>5
<1> QED
  BY <1>2, <1>3, <1>6
=============================================================================
