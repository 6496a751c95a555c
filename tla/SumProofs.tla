---- MODULE SumProofs ----
(***************************************************************************)
(* Sums over finite sets: what SumFunctionOnSet of the module Functions    *)
(* does, which takes the elements of a set in an order nobody knows.  And  *)
(* recursive functions on 0 .. n, without induction over an operator.      *)
(***************************************************************************)
EXTENDS Functions, FiniteSetsExt, FiniteSetTheorems, WellFoundedInduction, TLAPS

\* A set of natural numbers has a least member.
LEMMA LeastNat ==
  ASSUME NEW N, N \subseteq Nat, N # {}
  PROVE  \E n \in N : \A m \in N : n <= m
<1>1. IsWellFoundedOn(OpToRel(<, Nat), Nat)
  BY NatLessThanWellFounded
<1>2. PICK n \in N : \A m \in N : ~ (<<m, n>> \in OpToRel(<, Nat))
  BY <1>1, WFMin
<1>3. \A m \in N : m < n => <<m, n>> \in OpToRel(<, Nat)
  BY DEF OpToRel
<1>4. n \in Nat /\ \A m \in N : m \in Nat /\ ~ (m < n)
  BY <1>2, <1>3
<1>5. \A m \in N : n <= m
  BY <1>4
<1> QED BY <1>5

\* The element that is taken from T first.
FirstOf(T) == CHOOSE x \in T : TRUE

Grown(g, f, T) == IF T = {} THEN 0 ELSE f[FirstOf(T)] + g[T \ {FirstOf(T)}]

IsSum(g, f, S) == g = [T \in SUBSET S |-> Grown(g, f, T)]

LEMMA SumDef ==
  ASSUME NEW f, NEW S
  PROVE  SumFunctionOnSet(f, S) = (CHOOSE g : IsSum(g, f, S))[S]
BY DEF SumFunctionOnSet, FoldFunctionOnSet, MapThenFoldSet, IsSum, Grown, FirstOf

LEMMA Smaller ==
  ASSUME NEW T, IsFiniteSet(T), NEW x \in T
  PROVE  /\ IsFiniteSet(T \ {x}) /\ Cardinality(T \ {x}) \in Nat
         /\ Cardinality(T) = Cardinality(T \ {x}) + 1
<1>1. IsFiniteSet(T \ {x}) /\ Cardinality(T \ {x}) = Cardinality(T) - 1
  BY FS_RemoveElement
<1>2. Cardinality(T) \in Nat /\ Cardinality(T \ {x}) \in Nat
  BY <1>1, FS_CardinalityType
<1> QED BY <1>1, <1>2

\* The recursion over subsets has a solution.
LEMMA SumExists ==
  ASSUME NEW S, IsFiniteSet(S), NEW f
  PROVE  \E g : IsSum(g, f, S)
<1> DEFINE Upto(n) == {T \in SUBSET S : Cardinality(T) <= n}
           Has(n) == \E g : g = [T \in Upto(n) |-> Grown(g, f, T)]
           Bad == {n \in Nat : ~ Has(n)}
<1>1. \A T \in SUBSET S : IsFiniteSet(T) /\ Cardinality(T) \in Nat
  BY FS_Subset, FS_CardinalityType
<1>2. Bad = {}
  <2> SUFFICES ASSUME Bad # {} PROVE FALSE
    OBVIOUS
  <2>1. PICK n \in Bad : \A m \in Bad : n <= m
    <3> HIDE DEF Has
    <3> QED BY LeastNat
  <2>2. CASE n = 0
    <3> DEFINE g == [T \in Upto(n) |-> 0]
    <3>1. \A T \in Upto(n) : T = {}
      BY <1>1, <2>2, FS_EmptySet
    <3>2. g = [T \in Upto(n) |-> Grown(g, f, T)]
      BY <3>1 DEF Grown
    <3> QED BY <2>1, <3>2
  <2>3. CASE n # 0
    <3>1. n \in Nat /\ n - 1 \in Nat /\ ~ (n <= n - 1)
      BY <2>1, <2>3
    <3>2. Has(n - 1)
      <4>1. n - 1 \notin Bad
        BY <2>1, <3>1
      <4> QED BY <3>1, <4>1
    <3>3. PICK g0 : g0 = [T \in Upto(n - 1) |-> Grown(g0, f, T)]
      BY <3>2
    <3> DEFINE g == [T \in Upto(n) |-> Grown(g0, f, T)]
    <3>4. ASSUME NEW T \in Upto(n), T # {} PROVE g[T \ {FirstOf(T)}] = g0[T \ {FirstOf(T)}]
      <4>1. FirstOf(T) \in T
        BY <3>4 DEF FirstOf
      <4>2. T \ {FirstOf(T)} \in SUBSET S /\ Cardinality(T \ {FirstOf(T)}) + 1 = Cardinality(T)
        BY <1>1, <4>1, Smaller
      <4>3. T \ {FirstOf(T)} \in Upto(n - 1) /\ T \ {FirstOf(T)} \in Upto(n)
        BY <1>1, <3>1, <4>2
      <4>4. g[T \ {FirstOf(T)}] = Grown(g0, f, T \ {FirstOf(T)})
        BY <4>3
      <4> HIDE DEF Upto, g
      <4>5. g0[T \ {FirstOf(T)}] = Grown(g0, f, T \ {FirstOf(T)})
        BY <3>3, <4>3
      <4> QED BY <4>4, <4>5
    <3>5. \A T \in Upto(n) : Grown(g, f, T) = Grown(g0, f, T)
      <4> HIDE DEF Upto, g
      <4> QED BY <3>4 DEF Grown
    <3>6. g = [T \in Upto(n) |-> Grown(g, f, T)]
      BY <3>5
    <3> QED BY <2>1, <3>6
  <2> QED BY <2>2, <2>3
<1>3. Cardinality(S) \in Nat /\ Upto(Cardinality(S)) = SUBSET S
  BY <1>1, FS_Subset
<1>4. Has(Cardinality(S))
  BY <1>2, <1>3
<1> QED BY <1>3, <1>4 DEF IsSum

LEMMA SumIs ==
  ASSUME NEW S, IsFiniteSet(S), NEW f
  PROVE  \E g : IsSum(g, f, S) /\ SumFunctionOnSet(f, S) = g[S]
BY SumExists, SumDef

\* Solutions agree where their functions do.
LEMMA SumsAgree ==
  ASSUME NEW S, NEW R, NEW f, NEW e, NEW g, NEW h, IsSum(g, f, S), IsSum(h, e, R),
         NEW U, IsFiniteSet(U), U \subseteq S, U \subseteq R, \A x \in U : f[x] = e[x]
  PROVE  g[U] = h[U]
<1> DEFINE Bad == {n \in Nat : \E T \in SUBSET U : Cardinality(T) = n /\ g[T] # h[T]}
<1>1. \A T \in SUBSET U : IsFiniteSet(T) /\ Cardinality(T) \in Nat
  BY FS_Subset, FS_CardinalityType
<1>2. \A T \in SUBSET U : g[T] = Grown(g, f, T) /\ h[T] = Grown(h, e, T)
  BY DEF IsSum
<1>3. Bad = {}
  <2> SUFFICES ASSUME Bad # {} PROVE FALSE
    OBVIOUS
  <2>1. PICK n \in Bad : \A m \in Bad : n <= m
    BY LeastNat
  <2>2. PICK T \in SUBSET U : Cardinality(T) = n /\ g[T] # h[T]
    BY <2>1
  <2>3. T # {}
    BY <1>2, <2>2 DEF Grown
  <2>4. FirstOf(T) \in T
    BY <2>3 DEF FirstOf
  <2>5. Cardinality(T \ {FirstOf(T)}) \in Nat /\ ~ (n <= Cardinality(T \ {FirstOf(T)}))
    BY <1>1, <2>2, <2>4, Smaller
  <2>6. g[T \ {FirstOf(T)}] = h[T \ {FirstOf(T)}]
    BY <2>1, <2>5
  <2> QED BY <1>2, <2>2, <2>3, <2>4, <2>6 DEF Grown
<1> QED BY <1>1, <1>3

\* Any element may be taken first.
LEMMA SumSplits ==
  ASSUME NEW S, IsFiniteSet(S), NEW f, \A x \in S : f[x] \in Int, NEW g, IsSum(g, f, S)
  PROVE  \A T \in SUBSET S : g[T] \in Int /\ \A x \in T : g[T] = f[x] + g[T \ {x}]
<1> DEFINE Good(T) == g[T] \in Int /\ \A x \in T : g[T] = f[x] + g[T \ {x}]
           Bad == {n \in Nat : \E T \in SUBSET S : Cardinality(T) = n /\ ~ Good(T)}
<1>1. \A T \in SUBSET S : IsFiniteSet(T) /\ Cardinality(T) \in Nat
  BY FS_Subset, FS_CardinalityType
<1>2. \A T \in SUBSET S : g[T] = Grown(g, f, T)
  BY DEF IsSum
<1>3. Bad = {}
  <2> SUFFICES ASSUME Bad # {} PROVE FALSE
    OBVIOUS
  <2>1. PICK n \in Bad : \A m \in Bad : n <= m
    <3> HIDE DEF Good
    <3> QED BY LeastNat
  <2>2. PICK T \in SUBSET S : Cardinality(T) = n /\ ~ Good(T)
    BY <2>1
  <2>3. ASSUME NEW x \in T PROVE Good(T \ {x})
    <3>1. Cardinality(T \ {x}) \in Nat /\ ~ (n <= Cardinality(T \ {x}))
      BY <1>1, <2>2, Smaller
    <3> HIDE DEF Good
    <3> QED BY <2>1, <3>1
  <2>4. T # {}
    <3>1. g[{}] = 0
      BY <1>2 DEF Grown
    <3>2. Good({})
      BY <3>1
    <3> HIDE DEF Good
    <3> QED BY <2>2, <3>2
  <2> DEFINE y == FirstOf(T)
  <2>5. y \in T /\ g[T] = f[y] + g[T \ {y}]
    BY <1>2, <2>4 DEF Grown, FirstOf
  <2> HIDE DEF y
  <2>6. g[T] \in Int
    BY <2>3, <2>5
  <2>7. ASSUME NEW x \in T PROVE g[T] = f[x] + g[T \ {x}]
    <3>1. CASE x = y
      BY <2>5, <3>1
    <3>2. CASE x # y
      <4>1. /\ g[T \ {y}] = f[x] + g[(T \ {y}) \ {x}]
            /\ g[T \ {x}] = f[y] + g[(T \ {x}) \ {y}]
        BY <2>3, <2>5, <3>2
      <4>2. (T \ {y}) \ {x} = (T \ {x}) \ {y}
        OBVIOUS
      <4> DEFINE rest == g[(T \ {x}) \ {y}]
      <4>3. rest \in Int /\ f[x] \in Int /\ f[y] \in Int
        <5>1. y \in T \ {x}
          BY <2>5, <3>2
        <5>2. g[T \ {x}] \in Int /\ g[T \ {y}] \in Int
          BY <2>3, <2>5
        <5>3. IsFiniteSet(T \ {x}) /\ Cardinality(T \ {x}) \in Nat
              /\ n = Cardinality(T \ {x}) + 1
          BY <1>1, <2>2, Smaller
        <5>5. /\ Cardinality((T \ {x}) \ {y}) \in Nat
              /\ Cardinality(T \ {x}) = Cardinality((T \ {x}) \ {y}) + 1
          BY <5>1, <5>3, Smaller
        <5>6. ~ (n <= Cardinality((T \ {x}) \ {y}))
          BY <5>3, <5>5
        <5>4. Good((T \ {x}) \ {y})
          <6> HIDE DEF Good
          <6> QED BY <2>1, <5>5, <5>6
        <5> QED BY <2>5, <5>4
      <4> HIDE DEF rest
      <4>4. g[T] = f[y] + (f[x] + rest) /\ g[T \ {x}] = f[y] + rest
        BY <2>5, <4>1, <4>2 DEF rest
      <4> QED BY <4>3, <4>4
    <3> QED BY <3>1, <3>2
  <2> QED BY <2>2, <2>6, <2>7
<1> QED BY <1>1, <1>3

(***************************************************************************)
(* What a sum is.                                                          *)
(***************************************************************************)
LEMMA SumEmpty ==
  ASSUME NEW f
  PROVE  SumFunctionOnSet(f, {}) = 0
<1>1. PICK g : IsSum(g, f, {}) /\ SumFunctionOnSet(f, {}) = g[{}]
  BY SumIs, FS_EmptySet
<1> QED BY <1>1 DEF IsSum, Grown

\* A sum may begin with any of its terms.
LEMMA SumPick ==
  ASSUME NEW f, NEW S, IsFiniteSet(S), \A x \in S : f[x] \in Int
  PROVE  /\ SumFunctionOnSet(f, S) \in Int
         /\ \A x \in S : SumFunctionOnSet(f, S) = f[x] + SumFunctionOnSet(f, S \ {x})
<1>1. PICK g : IsSum(g, f, S) /\ SumFunctionOnSet(f, S) = g[S]
  BY SumIs
<1>2. g[S] \in Int /\ \A x \in S : g[S] = f[x] + g[S \ {x}]
  BY <1>1, SumSplits
<1>3. ASSUME NEW x \in S PROVE g[S \ {x}] = SumFunctionOnSet(f, S \ {x})
  <2>1. IsFiniteSet(S \ {x})
    BY FS_Subset
  <2>2. PICK h : IsSum(h, f, S \ {x}) /\ SumFunctionOnSet(f, S \ {x}) = h[S \ {x}]
    BY <2>1, SumIs
  <2>3. g[S \ {x}] = h[S \ {x}]
    BY <1>1, <2>1, <2>2, SumsAgree
  <2> QED BY <2>2, <2>3
<1> QED BY <1>1, <1>2, <1>3

LEMMA SumEqual ==
  ASSUME NEW f, NEW e, NEW S, IsFiniteSet(S), \A x \in S : f[x] = e[x]
  PROVE  SumFunctionOnSet(f, S) = SumFunctionOnSet(e, S)
<1>1. PICK g : IsSum(g, f, S) /\ SumFunctionOnSet(f, S) = g[S]
  BY SumIs
<1>2. PICK h : IsSum(h, e, S) /\ SumFunctionOnSet(e, S) = h[S]
  BY SumIs
<1> QED BY <1>1, <1>2, SumsAgree

\* One term changes.
LEMMA SumOne ==
  ASSUME NEW f, NEW e, NEW S, IsFiniteSet(S), NEW x \in S,
         \A y \in S : f[y] \in Int, e[x] \in Int, \A y \in S \ {x} : e[y] = f[y]
  PROVE  SumFunctionOnSet(e, S) = SumFunctionOnSet(f, S) - f[x] + e[x]
<1>1. IsFiniteSet(S \ {x})
  BY FS_Subset
<1>2. SumFunctionOnSet(e, S \ {x}) = SumFunctionOnSet(f, S \ {x})
  BY <1>1, SumEqual
<1>3. \A y \in S : e[y] \in Int
  OBVIOUS
<1>4. /\ SumFunctionOnSet(f, S) = f[x] + SumFunctionOnSet(f, S \ {x})
      /\ SumFunctionOnSet(e, S) = e[x] + SumFunctionOnSet(e, S \ {x})
  BY <1>3, SumPick
<1>5. SumFunctionOnSet(f, S \ {x}) \in Int
  BY <1>1, SumPick
<1> QED BY <1>2, <1>4, <1>5

\* The terms may be named otherwise.
LEMMA SumRenamed ==
  ASSUME NEW f, NEW e, NEW S, IsFiniteSet(S), NEW b, NEW R,
         \A x \in S : f[x] \in Int,
         \A x \in S : b[x] \in R /\ e[b[x]] = f[x],
         \A x, y \in S : b[x] = b[y] => x = y,
         \A z \in R : \E x \in S : b[x] = z
  PROVE  SumFunctionOnSet(e, R) = SumFunctionOnSet(f, S)
<1> DEFINE Image(T) == {b[x] : x \in T}
           Bad == {n \in Nat : \E T \in SUBSET S : Cardinality(T) = n /\
                     SumFunctionOnSet(e, Image(T)) # SumFunctionOnSet(f, T)}
<1>0. ASSUME NEW T \in SUBSET S, IsFiniteSet(T) PROVE IsFiniteSet(Image(T))
  <2> DEFINE h == [x \in T |-> b[x]]
  <2>1. h \in Surjection(T, Image(T))
    BY DEF Surjection
  <2> HIDE DEF h, Image
  <2> QED BY <1>0, <2>1, FS_Surjection
<1>1. \A T \in SUBSET S : IsFiniteSet(T) /\ Cardinality(T) \in Nat /\ IsFiniteSet(Image(T))
  <2> HIDE DEF Image
  <2> QED BY <1>0, FS_Subset, FS_CardinalityType
<1>2. Bad = {}
  <2> SUFFICES ASSUME Bad # {} PROVE FALSE
    OBVIOUS
  <2>1. PICK n \in Bad : \A m \in Bad : n <= m
    BY LeastNat
  <2>2. PICK T \in SUBSET S : Cardinality(T) = n /\
                     SumFunctionOnSet(e, Image(T)) # SumFunctionOnSet(f, T)
    BY <2>1
  <2>3. T # {}
    BY <2>2, SumEmpty
  <2>4. PICK x \in T : TRUE
    BY <2>3
  <2>5. Cardinality(T \ {x}) \in Nat /\ ~ (n <= Cardinality(T \ {x}))
    <3> HIDE DEF Image
    <3>1. /\ Cardinality(T \ {x}) \in Nat /\ IsFiniteSet(T)
          /\ Cardinality(T) = Cardinality(T \ {x}) + 1
      BY <1>1, Smaller
    <3> QED BY <2>2, <3>1
  <2>6. SumFunctionOnSet(e, Image(T \ {x})) = SumFunctionOnSet(f, T \ {x})
    BY <2>1, <2>5
  <2>7. Image(T \ {x}) = Image(T) \ {b[x]}
    OBVIOUS
  <2>8. b[x] \in Image(T) /\ \A z \in Image(T) : e[z] \in Int
    OBVIOUS
  <2>9. SumFunctionOnSet(f, T) = f[x] + SumFunctionOnSet(f, T \ {x})
    <3> HIDE DEF Image
    <3>1. IsFiniteSet(T) /\ \A z \in T : f[z] \in Int
      BY <1>1
    <3> QED BY <3>1, SumPick
  <2>10. SumFunctionOnSet(e, Image(T)) = e[b[x]] + SumFunctionOnSet(e, Image(T) \ {b[x]})
    <3> HIDE DEF Image
    <3> QED BY <1>1, <2>8, SumPick
  <2>11. e[b[x]] = f[x]
    OBVIOUS
  <2> HIDE DEF Image
  <2> QED BY <2>2, <2>6, <2>7, <2>9, <2>10, <2>11
<1>3. Image(S) = R
  OBVIOUS
<1>4. SumFunctionOnSet(e, Image(S)) = SumFunctionOnSet(f, S)
  <2> HIDE DEF Image
  <2> QED BY <1>1, <1>2
<1> QED BY <1>3, <1>4

\* A sum of natural numbers is one, and not less than any of its terms.
LEMMA SumNat ==
  ASSUME NEW f, NEW S, IsFiniteSet(S), \A x \in S : f[x] \in Nat
  PROVE  /\ SumFunctionOnSet(f, S) \in Nat
         /\ \A x \in S : f[x] <= SumFunctionOnSet(f, S)
<1> DEFINE Bad == {n \in Nat : \E T \in SUBSET S : Cardinality(T) = n /\
                     SumFunctionOnSet(f, T) \notin Nat}
<1>1. \A T \in SUBSET S : IsFiniteSet(T) /\ Cardinality(T) \in Nat
  BY FS_Subset, FS_CardinalityType
<1>2. Bad = {}
  <2> SUFFICES ASSUME Bad # {} PROVE FALSE
    OBVIOUS
  <2>1. PICK n \in Bad : \A m \in Bad : n <= m
    BY LeastNat
  <2>2. PICK T \in SUBSET S : Cardinality(T) = n /\ SumFunctionOnSet(f, T) \notin Nat
    BY <2>1
  <2>3. PICK x \in T : TRUE
    BY <2>2, SumEmpty
  <2>4. Cardinality(T \ {x}) \in Nat /\ ~ (n <= Cardinality(T \ {x}))
    BY <1>1, <2>2, Smaller
  <2>5. SumFunctionOnSet(f, T \ {x}) \in Nat
    BY <2>1, <2>4
  <2>6. SumFunctionOnSet(f, T) = f[x] + SumFunctionOnSet(f, T \ {x})
    BY <1>1, SumPick
  <2> QED BY <2>2, <2>5, <2>6
<1>3. \A T \in SUBSET S : SumFunctionOnSet(f, T) \in Nat
  BY <1>1, <1>2
<1>4. ASSUME NEW x \in S PROVE f[x] <= SumFunctionOnSet(f, S)
  <2>1. SumFunctionOnSet(f, S \ {x}) \in Nat
    BY <1>3
  <2>2. SumFunctionOnSet(f, S) = f[x] + SumFunctionOnSet(f, S \ {x})
    BY SumPick
  <2> QED BY <2>1, <2>2
<1> QED BY <1>3, <1>4

\* A sum of nothing but zeros.
LEMMA SumZero ==
  ASSUME NEW f, NEW S, IsFiniteSet(S), \A x \in S : f[x] = 0
  PROVE  SumFunctionOnSet(f, S) = 0
<1> DEFINE Bad == {n \in Nat : \E T \in SUBSET S : Cardinality(T) = n /\
                     SumFunctionOnSet(f, T) # 0}
<1>1. \A T \in SUBSET S : IsFiniteSet(T) /\ Cardinality(T) \in Nat
  BY FS_Subset, FS_CardinalityType
<1>2. Bad = {}
  <2> SUFFICES ASSUME Bad # {} PROVE FALSE
    OBVIOUS
  <2>1. PICK n \in Bad : \A m \in Bad : n <= m
    BY LeastNat
  <2>2. PICK T \in SUBSET S : Cardinality(T) = n /\ SumFunctionOnSet(f, T) # 0
    BY <2>1
  <2>3. PICK x \in T : TRUE
    BY <2>2, SumEmpty
  <2>4. Cardinality(T \ {x}) \in Nat /\ ~ (n <= Cardinality(T \ {x}))
    BY <1>1, <2>2, Smaller
  <2>5. SumFunctionOnSet(f, T \ {x}) = 0
    BY <2>1, <2>4
  <2>6. SumFunctionOnSet(f, T) = f[x] + SumFunctionOnSet(f, T \ {x})
    BY <1>1, SumPick
  <2> QED BY <2>2, <2>5, <2>6
<1> QED BY <1>1, <1>2

\* A finite set of natural numbers has a greatest member.
LEMMA GreatestNat ==
  ASSUME NEW S, S \subseteq Nat, S # {}, IsFiniteSet(S)
  PROVE  \E n \in S : \A m \in S : n >= m
<1> DEFINE f == [x \in S |-> x]
           B == {u \in Nat : \A x \in S : x <= u}
<1>1. /\ SumFunctionOnSet(f, S) \in Nat
      /\ \A x \in S : f[x] <= SumFunctionOnSet(f, S)
  <2>1. \A x \in S : f[x] \in Nat
    OBVIOUS
  <2> HIDE DEF f
  <2> QED BY <2>1, SumNat
<1>2. B # {}
  BY <1>1
<1>3. PICK u \in B : \A v \in B : u <= v
  <2>1. B \subseteq Nat
    OBVIOUS
  <2> HIDE DEF B
  <2> QED BY <1>2, <2>1, LeastNat
<1>4. u \in Nat /\ \A x \in S : x \in Nat /\ x <= u
  BY <1>3
<1>5. u \in S
  <2> SUFFICES ASSUME u \notin S PROVE FALSE
    OBVIOUS
  <2>1. \A x \in S : x <= u - 1 /\ u - 1 \in Nat
    BY <1>4
  <2>2. u - 1 \in B
    BY <2>1
  <2> QED BY <1>3, <1>4, <2>2
<1> QED BY <1>4, <1>5

(***************************************************************************)
(* Sums over the places of a sequence.                                     *)
(***************************************************************************)

\* A term is added at the end.
LEMMA SumAppended ==
  ASSUME NEW n \in Nat, NEW f, NEW e, \A i \in 1 .. n : f[i] \in Int /\ e[i] = f[i],
         e[n + 1] \in Int
  PROVE  SumFunctionOnSet(e, 1 .. n + 1) = SumFunctionOnSet(f, 1 .. n) + e[n + 1]
<1>1. IsFiniteSet(1 .. n) /\ IsFiniteSet(1 .. n + 1)
  BY FS_Interval
<1>2. n + 1 \in 1 .. n + 1 /\ (1 .. n + 1) \ {n + 1} = 1 .. n
  OBVIOUS
<1>3. \A i \in 1 .. n + 1 : e[i] \in Int
  OBVIOUS
<1>4. SumFunctionOnSet(e, 1 .. n + 1) = e[n + 1] + SumFunctionOnSet(e, 1 .. n)
  <2>1. PICK R : R = 1 .. n + 1
    OBVIOUS
  <2>2. SumFunctionOnSet(e, R) = e[n + 1] + SumFunctionOnSet(e, R \ {n + 1})
    BY <1>1, <1>2, <1>3, <2>1, SumPick
  <2> QED BY <1>2, <2>1, <2>2
<1>5. SumFunctionOnSet(e, 1 .. n) = SumFunctionOnSet(f, 1 .. n)
  BY <1>1, SumEqual
<1>6. SumFunctionOnSet(f, 1 .. n) \in Int
  BY <1>1, SumPick
<1> QED BY <1>4, <1>5, <1>6

\* The term at place k is taken out and those behind it move up.
LEMMA SumRemoved ==
  ASSUME NEW n \in Nat, NEW k \in 1 .. n, NEW f, NEW e, \A i \in 1 .. n : f[i] \in Int,
         \A i \in 1 .. n - 1 : e[i] = IF i < k THEN f[i] ELSE f[i + 1]
  PROVE  SumFunctionOnSet(e, 1 .. n - 1) = SumFunctionOnSet(f, 1 .. n) - f[k]
<1> DEFINE S == (1 .. n) \ {k}
           b == [i \in S |-> IF i < k THEN i ELSE i - 1]
<1>1. IsFiniteSet(1 .. n) /\ IsFiniteSet(S)
  <2>1. IsFiniteSet(1 .. n)
    BY FS_Interval
  <2> QED BY <2>1, FS_Subset
<1>2. SumFunctionOnSet(f, 1 .. n) = f[k] + SumFunctionOnSet(f, S)
  <2>1. PICK R : R = 1 .. n
    OBVIOUS
  <2>2. IsFiniteSet(R) /\ k \in R /\ (\A i \in R : f[i] \in Int) /\ R \ {k} = S
    BY <1>1, <2>1
  <2> HIDE DEF S
  <2>3. SumFunctionOnSet(f, R) = f[k] + SumFunctionOnSet(f, R \ {k})
    BY <2>2, SumPick
  <2> QED BY <2>1, <2>2, <2>3
<1>3. SumFunctionOnSet(f, S) \in Int
  BY <1>1, SumPick
<1>4. \A i \in S : f[i] \in Int /\ b[i] \in 1 .. n - 1 /\ e[b[i]] = f[i]
  OBVIOUS
<1>5. \A i, j \in S : b[i] = b[j] => i = j
  OBVIOUS
<1>6. \A z \in 1 .. n - 1 : \E i \in S : b[i] = z
  <2> TAKE z \in 1 .. n - 1
  <2> DEFINE i == IF z < k THEN z ELSE z + 1
  <2>1. i \in S /\ b[i] = z
    OBVIOUS
  <2> QED BY <2>1
<1>7. SumFunctionOnSet(e, 1 .. n - 1) = SumFunctionOnSet(f, S)
  <2> HIDE DEF S, b
  <2>1. PICK R : R = 1 .. n - 1
    OBVIOUS
  <2>2. /\ \A x \in S : f[x] \in Int
        /\ \A x \in S : b[x] \in R /\ e[b[x]] = f[x]
        /\ \A x, y \in S : b[x] = b[y] => x = y
        /\ \A z \in R : \E x \in S : b[x] = z
    BY <1>4, <1>5, <1>6, <2>1
  <2>3. SumFunctionOnSet(e, R) = SumFunctionOnSet(f, S)
    BY <1>1, <2>2, SumRenamed, SMTT(60)
  <2> QED BY <2>1, <2>3
<1> HIDE DEF S
<1> QED BY <1>2, <1>3, <1>7
(***************************************************************************)
(* Recursion over 0 .. n: a step function has its values.                  *)
(***************************************************************************)
IsRec(g, n, base, F) ==
  g = [i \in 0 .. n |-> IF i = 0 THEN base ELSE F[<<i, g[i - 1]>>]]

LEMMA RecExists ==
  ASSUME NEW V, NEW base \in V, NEW N \in Nat, NEW F \in [(1 .. N) \X V -> V]
  PROVE  \E g \in [0 .. N -> V] : IsRec(g, N, base, F)
<1> DEFINE Has(n) == \E g \in [0 .. n -> V] : IsRec(g, n, base, F)
           Bad == {n \in 0 .. N : ~ Has(n)}
<1>1. Bad = {}
  <2> SUFFICES ASSUME Bad # {} PROVE FALSE
    OBVIOUS
  <2>1. PICK n \in Bad : \A m \in Bad : n <= m
    <3> HIDE DEF Has
    <3>1. Bad \subseteq Nat
      OBVIOUS
    <3> HIDE DEF Bad
    <3> QED BY <3>1, LeastNat
  <2>2. n # 0
    <3>1. [i \in 0 .. 0 |-> base] \in [0 .. 0 -> V]
      OBVIOUS
    <3>2. IsRec([i \in 0 .. 0 |-> base], 0, base, F)
      BY DEF IsRec
    <3> QED BY <2>1, <3>1, <3>2
  <2>3. n \in 1 .. N /\ n - 1 \in 0 .. N /\ ~ (n <= n - 1)
    BY <2>1, <2>2
  <2>4. Has(n - 1)
    <3> HIDE DEF Has
    <3> QED BY <2>1, <2>3
  <2>5. PICK g0 \in [0 .. n - 1 -> V] : IsRec(g0, n - 1, base, F)
    BY <2>4
  <2> DEFINE g == [i \in 0 .. n |-> IF i = n THEN F[<<n, g0[n - 1]>>] ELSE g0[i]]
  <2>6. g \in [0 .. n -> V]
    BY <2>3
  <2>7. ASSUME NEW i \in 0 .. n PROVE g[i] = IF i = 0 THEN base ELSE F[<<i, g[i - 1]>>]
    <3>1. CASE i = n
      <4>1. g[n - 1] = g0[n - 1] /\ g[n] = F[<<n, g0[n - 1]>>]
        BY <2>3
      <4> QED BY <2>3, <3>1, <4>1
    <3>2. CASE i # n
      <4>1. i \in 0 .. n - 1 /\ g[i] = g0[i]
        BY <2>3, <3>2
      <4>2. g0[i] = IF i = 0 THEN base ELSE F[<<i, g0[i - 1]>>]
        BY <2>5, <4>1 DEF IsRec
      <4>3. i # 0 => g[i - 1] = g0[i - 1]
        BY <2>3, <3>2
      <4> QED BY <4>1, <4>2, <4>3
    <3> QED BY <3>1, <3>2
  <2>8. IsRec(g, n, base, F)
    <3>1. g = [i \in 0 .. n |-> g[i]]
      OBVIOUS
    <3> HIDE DEF g
    <3> QED BY <2>7, <3>1 DEF IsRec
  <2>9. Has(n)
    <3> HIDE DEF g
    <3> QED BY <2>6, <2>8
  <2> QED BY <2>1, <2>9
<1>2. N \in 0 .. N
  OBVIOUS
<1> QED BY <1>1, <1>2

\* A set of numbers with 0 that goes on from each of them has them all.
LEMMA Upwards ==
  ASSUME NEW N \in Nat, NEW G, 0 \in G, \A i \in 1 .. N : i - 1 \in G => i \in G
  PROVE  \A i \in 0 .. N : i \in G
<1> DEFINE Bad == {i \in 0 .. N : i \notin G}
<1> SUFFICES ASSUME Bad # {} PROVE FALSE
  OBVIOUS
<1>1. PICK n \in Bad : \A m \in Bad : n <= m
  <2>1. Bad \subseteq Nat
    OBVIOUS
  <2> HIDE DEF Bad
  <2> QED BY <2>1, LeastNat
<1>2. n \in 1 .. N /\ n - 1 \in 0 .. N /\ ~ (n <= n - 1)
  BY <1>1
<1> QED BY <1>1, <1>2

(***************************************************************************)
(* Recursion over the subsets of a finite set: what a fold is.             *)
(***************************************************************************)
Folded(g, base, pick, F, T) == IF T = {} THEN base ELSE F[<<pick[T], g[T \ {pick[T]}]>>]

IsFolded(g, S, base, pick, F) == g = [T \in SUBSET S |-> Folded(g, base, pick, F, T)]

LEMMA SubsetsExist ==
  ASSUME NEW S, IsFiniteSet(S), NEW V, NEW base \in V, NEW pick, NEW F \in [S \X V -> V],
         \A T \in SUBSET S : T # {} => pick[T] \in T
  PROVE  \E g \in [SUBSET S -> V] : IsFolded(g, S, base, pick, F)
<1> DEFINE Upto(n) == {T \in SUBSET S : Cardinality(T) <= n}
           Is(g, n) == \A T \in Upto(n) : g[T] \in V /\ g[T] = Folded(g, base, pick, F, T)
           Has(n) == \E g : Is(g, n)
           Bad == {n \in Nat : ~ Has(n)}
<1>1. \A T \in SUBSET S : IsFiniteSet(T) /\ Cardinality(T) \in Nat
  BY FS_Subset, FS_CardinalityType
<1>2. Bad = {}
  <2> SUFFICES ASSUME Bad # {} PROVE FALSE
    OBVIOUS
  <2>1. PICK n \in Bad : \A m \in Bad : n <= m
    <3> HIDE DEF Has
    <3> QED BY LeastNat
  <2>2. CASE n = 0
    <3> DEFINE g == [T \in SUBSET S |-> base]
    <3>1. \A T \in Upto(n) : T = {}
      BY <1>1, <2>2, FS_EmptySet
    <3>2. Is(g, n)
      BY <3>1 DEF Folded
    <3> QED BY <2>1, <3>2
  <2>3. CASE n # 0
    <3>1. n \in Nat /\ n - 1 \in Nat /\ ~ (n <= n - 1)
      BY <2>1, <2>3
    <3>2. Has(n - 1)
      <4>1. n - 1 \notin Bad
        BY <2>1, <3>1
      <4> QED BY <3>1, <4>1
    <3>3. PICK g0 : Is(g0, n - 1)
      BY <3>2
    <3> DEFINE g == [T \in SUBSET S |-> Folded(g0, base, pick, F, T)]
    <3>4. ASSUME NEW T \in Upto(n), T # {}
          PROVE  /\ g[T \ {pick[T]}] = g0[T \ {pick[T]}] /\ g0[T \ {pick[T]}] \in V
                 /\ pick[T] \in S
      <4>1. pick[T] \in T
        BY <3>4
      <4>2. T \ {pick[T]} \in SUBSET S /\ Cardinality(T \ {pick[T]}) + 1 = Cardinality(T)
        BY <1>1, <4>1, Smaller
      <4>3. T \ {pick[T]} \in Upto(n - 1)
        BY <1>1, <3>1, <4>2
      <4>4. g[T \ {pick[T]}] = Folded(g0, base, pick, F, T \ {pick[T]})
        BY <4>2
      <4> HIDE DEF Upto, g
      <4>5. g0[T \ {pick[T]}] = Folded(g0, base, pick, F, T \ {pick[T]})
            /\ g0[T \ {pick[T]}] \in V
        BY <3>3, <4>3
      <4> QED BY <4>1, <4>4, <4>5 DEF Upto
    <3>5. ASSUME NEW T \in Upto(n) PROVE g[T] \in V /\ g[T] = Folded(g, base, pick, F, T)
      <4>1. g[T] = Folded(g0, base, pick, F, T)
        OBVIOUS
      <4> HIDE DEF g, Upto
      <4>2. CASE T = {}
        BY <4>1, <4>2 DEF Folded
      <4>3. CASE T # {}
        BY <3>4, <4>1, <4>3 DEF Folded
      <4> QED BY <4>2, <4>3
    <3>6. Is(g, n)
      <4> HIDE DEF g
      <4> QED BY <3>5
    <3> QED BY <2>1, <3>6
  <2> QED BY <2>2, <2>3
<1>3. Cardinality(S) \in Nat /\ Upto(Cardinality(S)) = SUBSET S
  BY <1>1, FS_Subset
<1>4. Has(Cardinality(S))
  BY <1>2, <1>3
<1>5. PICK g : \A T \in SUBSET S : g[T] \in V /\ g[T] = Folded(g, base, pick, F, T)
  BY <1>3, <1>4
<1> DEFINE h == [T \in SUBSET S |-> g[T]]
<1>6. h \in [SUBSET S -> V]
  BY <1>5
<1>7. \A T \in SUBSET S : h[T] = Folded(h, base, pick, F, T)
  BY <1>5 DEF Folded
<1>8. h = [T \in SUBSET S |-> Folded(h, base, pick, F, T)]
  <2>1. h = [T \in SUBSET S |-> h[T]]
    OBVIOUS
  <2> HIDE DEF h
  <2> QED BY <1>7, <2>1
<1> HIDE DEF h
<1> QED BY <1>6, <1>8 DEF IsFolded

LEMMA MaxIs ==
  ASSUME NEW n \in Nat \ {0}
  PROVE  Max(1 .. n) = n /\ (1 .. n) \ {n} = 1 .. n - 1
<1>1. n \in 1 .. n /\ \A y \in 1 .. n : n >= y
  OBVIOUS
<1>2. \A x \in 1 .. n : (\A y \in 1 .. n : x >= y) => x = n
  OBVIOUS
<1>3. Max(1 .. n) = n
  BY <1>1, <1>2 DEF Max
<1> QED BY <1>3
====
