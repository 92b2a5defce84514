----------------------------- MODULE FoldProofs -----------------------------
(***************************************************************************)
(* Induction and recursion over finite sets, stated with sets and functions *)
(* in the place of predicates and operators, so that the provers can use   *)
(* them.  The folds of the community modules are recursive functions on    *)
(* the subsets of a finite set: SetRecursion says that there is such a     *)
(* function, and where its values are.                                     *)
(***************************************************************************)
EXTENDS Integers, Sequences, FiniteSets, FiniteSetsExt, FiniteSetTheorems, WellFoundedInduction, TLAPS

\* A set of numbers that is not empty has a least one.
LEMMA LeastNat ==
  ASSUME NEW S \in SUBSET Nat, S # {}
  PROVE  \E n \in S : \A m \in S : n <= m
<1> DEFINE R == {p \in Nat \X Nat : p[1] < p[2]}
<1>1. IsWellFoundedOn(OpToRel(<, Nat), Nat)
  BY NatLessThanWellFounded
<1>2. OpToRel(<, Nat) = R
  BY Zenon DEF OpToRel
<1>3. IsWellFoundedOn(R, Nat)
  BY Zenon, <1>1, <1>2
<1>4. \E x \in S : \A y \in S : ~ (<<y, x>> \in R)
  <2> HIDE DEF R
  <2> QED BY <1>3, WFMin
<1>5. PICK n \in S : \A m \in S : ~ (<<m, n>> \in R)
  BY <1>4
<1>6. ASSUME NEW m \in S PROVE n <= m
  <2>1. <<m, n>> \in Nat \X Nat /\ <<m, n>> \notin R
    BY <1>5
  <2>2. ~ (m < n)
    BY <2>1
  <2> QED BY <2>2
<1> QED BY <1>6

\* A set that holds 0, and n + 1 with every n, holds every number.
LEMMA NatsInside ==
  ASSUME NEW S, 0 \in S, \A n \in Nat : n \in S => n + 1 \in S
  PROVE  Nat \subseteq S
<1> SUFFICES ASSUME Nat \ S # {} PROVE FALSE
  OBVIOUS
<1>1. PICK n \in Nat \ S : \A m \in Nat \ S : n <= m
  BY LeastNat
<1>2. n - 1 \in Nat /\ n - 1 \in S
  <2>1. n # 0
    BY <1>1
  <2>2. n - 1 \in Nat
    BY <1>1, <2>1
  <2>3. ~ (n <= n - 1)
    BY <1>1
  <2> QED BY <1>1, <2>2, <2>3
<1>3. (n - 1) + 1 \in S
  BY <1>2
<1>4. (n - 1) + 1 = n
  BY <1>1
<1> QED BY <1>1, <1>3, <1>4

\* A family of sets that holds {}, and T whenever it holds T without any one of
\* its members, holds every subset of a finite set.
LEMMA SubsetsInside ==
  ASSUME NEW S, IsFiniteSet(S), NEW F, {} \in F,
         \A T \in SUBSET S : T # {} /\ (\A x \in T : T \ {x} \in F) => T \in F
  PROVE  SUBSET S \subseteq F
<1> DEFINE N == {n \in Nat : \A T \in SUBSET S : Cardinality(T) = n => T \in F}
<1>1. \A T \in SUBSET S : IsFiniteSet(T) /\ Cardinality(T) \in Nat
  BY FS_Subset, FS_CardinalityType
<1>2. 0 \in N
  BY <1>1, FS_EmptySet
<1>3. ASSUME NEW n \in Nat, n \in N PROVE n + 1 \in N
  <2> SUFFICES ASSUME NEW T \in SUBSET S, Cardinality(T) = n + 1 PROVE T \in F
    OBVIOUS
  <2>1. T # {}
    <3>1. Cardinality({}) = 0
      BY FS_EmptySet
    <3> QED BY <3>1
  <2>2. ASSUME NEW x \in T PROVE T \ {x} \in F
    <3>1. Cardinality(T \ {x}) = n
      BY <1>1, FS_RemoveElement
    <3>2. T \ {x} \in SUBSET S
      OBVIOUS
    <3> QED BY <1>3, <3>1, <3>2
  <2> QED BY <2>1, <2>2
<1> HIDE DEF N
<1>4. Nat \subseteq N
  BY <1>2, <1>3, NatsInside
<1> QED BY <1>1, <1>4 DEF N

\* A finite set that is not empty has a least member in every total order.
LEMMA FiniteLeast ==
  ASSUME NEW S, IsFiniteSet(S), S # {}, NEW R,
         \A a, b \in S : a # b => <<a, b>> \in R \/ <<b, a>> \in R,
         \A a, b, c \in S : <<a, b>> \in R /\ <<b, c>> \in R => <<a, c>> \in R
  PROVE  \E a \in S : \A b \in S \ {a} : <<a, b>> \in R
<1> DEFINE F == {T \in SUBSET S : T = {} \/ \E a \in T : \A b \in T \ {a} : <<a, b>> \in R}
<1>1. {} \in F
  OBVIOUS
<1>2. ASSUME NEW T \in SUBSET S, T # {}, \A x \in T : T \ {x} \in F PROVE T \in F
  <2>1. PICK x \in T : TRUE
    BY <1>2
  <2>2. CASE T \ {x} = {}
    BY <2>1, <2>2
  <2>3. CASE T \ {x} # {}
    <3>1. PICK a \in T \ {x} : \A b \in (T \ {x}) \ {a} : <<a, b>> \in R
      BY <1>2, <2>1, <2>3
    <3>2. CASE <<a, x>> \in R
      BY <3>1, <3>2
    <3>3. CASE <<x, a>> \in R
      <4>1. \A b \in T \ {x} : <<x, b>> \in R
        BY <2>1, <3>1, <3>3
      <4> QED BY <2>1, <4>1
    <3> QED BY <2>1, <3>1, <3>2, <3>3
  <2> QED BY <2>2, <2>3
<1> HIDE DEF F
<1>3. S \in F
  BY <1>1, <1>2, SubsetsInside
<1> QED BY <1>3 DEF F

\* The places of a sequence.
LEMMA SeqFinite ==
  ASSUME NEW S, NEW seq \in Seq(S)
  PROVE  IsFiniteSet(DOMAIN seq) /\ DOMAIN seq \subseteq Nat
<1>1. DOMAIN seq = 1..Len(seq) /\ Len(seq) \in Nat
  OBVIOUS
<1>2. IsFiniteSet(1..Len(seq))
  BY <1>1, FS_Interval
<1> QED BY <1>1, <1>2

\* And as many as its length says.
LEMMA SeqCardinality ==
  ASSUME NEW S, NEW seq \in Seq(S)
  PROVE  Cardinality(DOMAIN seq) = Len(seq)
<1> DEFINE n == Len(seq)
<1>1. DOMAIN seq = 1..n /\ n \in Nat
  OBVIOUS
<1> HIDE DEF n
<1>2. Cardinality(1..n) = IF 1 > n THEN 0 ELSE n - 1 + 1
  BY <1>1, FS_Interval
<1>3. Cardinality(1..n) = n
  BY <1>1, <1>2
<1> QED BY <1>1, <1>3 DEF n

\* A finite set of numbers that is not empty has a largest and a smallest one.
LEMMA MaxMin ==
  ASSUME NEW S \in SUBSET Int, IsFiniteSet(S), S # {}
  PROVE  /\ Max(S) \in S /\ \A t \in S : t <= Max(S)
         /\ Min(S) \in S /\ \A t \in S : Min(S) <= t
<1> DEFINE R == {p \in S \X S : p[1] > p[2]}
           Q == {p \in S \X S : p[1] < p[2]}
<1>1. \A a, b \in S : (<<a, b>> \in R <=> a > b) /\ (<<a, b>> \in Q <=> a < b)
  OBVIOUS
<1> HIDE DEF R, Q
<1>2. \A a, b \in S : a # b => <<a, b>> \in R \/ <<b, a>> \in R
  BY <1>1
<1>3. \A a, b, c \in S : <<a, b>> \in R /\ <<b, c>> \in R => <<a, c>> \in R
  BY <1>1
<1>4. \A a, b \in S : a # b => <<a, b>> \in Q \/ <<b, a>> \in Q
  BY <1>1
<1>5. \A a, b, c \in S : <<a, b>> \in Q /\ <<b, c>> \in Q => <<a, c>> \in Q
  BY <1>1
<1>6. \E x \in S : \A y \in S : x >= y
  <2>1. PICK a \in S : \A b \in S \ {a} : <<a, b>> \in R
    BY <1>2, <1>3, FiniteLeast
  <2>2. ASSUME NEW b \in S PROVE a >= b
    <3>1. a # b => <<a, b>> \in R
      BY <2>1
    <3> QED BY <1>1, <2>1, <3>1
  <2> QED BY <2>2
<1>7. \E x \in S : \A y \in S : x <= y
  <2>1. PICK a \in S : \A b \in S \ {a} : <<a, b>> \in Q
    BY <1>4, <1>5, FiniteLeast
  <2>2. ASSUME NEW b \in S PROVE a <= b
    <3>1. a # b => <<a, b>> \in Q
      BY <2>1
    <3> QED BY <1>1, <2>1, <3>1
  <2> QED BY <2>2
<1>8. Max(S) \in S /\ \A t \in S : t <= Max(S)
  BY <1>6 DEF Max
<1>9. Min(S) \in S /\ \A t \in S : Min(S) <= t
  BY <1>7 DEF Min
<1> QED BY <1>8, <1>9

\* What a function makes of a finite set is finite.
LEMMA FiniteImage ==
  ASSUME NEW S, IsFiniteSet(S), NEW f
  PROVE  IsFiniteSet({f[x] : x \in S})
<1> DEFINE Img(T) == {f[x] : x \in T}
           F == {T \in SUBSET S : IsFiniteSet(Img(T))}
<1>1. {} \in F
  <2>1. Img({}) = {}
    OBVIOUS
  <2> QED BY <2>1, FS_EmptySet
<1>2. ASSUME NEW T \in SUBSET S, T # {}, \A x \in T : T \ {x} \in F PROVE T \in F
  <2>1. PICK x \in T : TRUE
    BY <1>2
  <2>2. IsFiniteSet(Img(T \ {x}))
    BY <1>2, <2>1
  <2>3. Img(T) = Img(T \ {x}) \cup {f[x]}
    BY <2>1
  <2>4. IsFiniteSet(Img(T \ {x}) \cup {f[x]})
    <3> HIDE DEF Img
    <3> QED BY <2>2, FS_AddElement
  <2> QED BY <2>3, <2>4
<1>3. S \in F
  <2> HIDE DEF F
  <2> QED BY <1>1, <1>2, SubsetsInside
<1> QED BY <1>3

----------------------------------------------------------------------------
(* Recursion.  c chooses the member that is taken off a set, F puts it     *)
(* together with the value for the rest.                                   *)

\* A recursion on the subsets of S with values in R, and a solution of it.
Recursion(S, R, b, c, F) == /\ IsFiniteSet(S) /\ b \in R
                            /\ \A s \in SUBSET S : s # {} => c[s] \in s
                            /\ \A x \in S, r \in R : F[x][r] \in R

Solution(g, S, b, c, F) ==
  \A s \in SUBSET S : g[s] = IF s = {} THEN b ELSE F[c[s]][g[s \ {c[s]}]]

\* There is a solution.
LEMMA SetRecursion ==
  ASSUME NEW S, NEW R, NEW b, NEW c, NEW F, Recursion(S, R, b, c, F)
  PROVE  \E g \in [SUBSET S -> R] : Solution(g, S, b, c, F)
<1> USE DEF Recursion
<1> DEFINE UpTo(n) == {s \in SUBSET S : Cardinality(s) <= n}
           Solves(g, D) == \A s \in D : g[s] = IF s = {} THEN b ELSE F[c[s]][g[s \ {c[s]}]]
           N == {n \in Nat : \E g \in [UpTo(n) -> R] : Solves(g, UpTo(n))}
<1>1. \A T \in SUBSET S : IsFiniteSet(T) /\ Cardinality(T) \in Nat /\ Cardinality(T) <= Cardinality(S)
  BY FS_Subset, FS_CardinalityType
<1>2. 0 \in N
  <2>1. \A s \in UpTo(0) : s = {}
    BY <1>1, FS_EmptySet
  <2> DEFINE g == [s \in UpTo(0) |-> b]
  <2>2. g \in [UpTo(0) -> R] /\ Solves(g, UpTo(0))
    BY <2>1
  <2> QED BY <2>2
<1>3. ASSUME NEW n \in Nat, n \in N PROVE n + 1 \in N
  <2>1. PICK h \in [UpTo(n) -> R] : Solves(h, UpTo(n))
    BY <1>3
  <2>2. ASSUME NEW s \in UpTo(n + 1), s # {} PROVE c[s] \in s /\ s \ {c[s]} \in UpTo(n)
    <3>1. c[s] \in s
      BY <2>2
    <3>2. Cardinality(s \ {c[s]}) = Cardinality(s) - 1
      BY <1>1, <3>1, FS_RemoveElement
    <3> QED BY <1>1, <3>1, <3>2
  <2> DEFINE g == [s \in UpTo(n + 1) |-> IF s = {} THEN b ELSE F[c[s]][h[s \ {c[s]}]]]
  <2>3. g \in [UpTo(n + 1) -> R]
    <3> SUFFICES ASSUME NEW s \in UpTo(n + 1), s # {} PROVE F[c[s]][h[s \ {c[s]}]] \in R
      OBVIOUS
    <3>1. c[s] \in S /\ h[s \ {c[s]}] \in R
      <4> HIDE DEF UpTo
      <4>1. h[s \ {c[s]}] \in R
        BY <2>1, <2>2
      <4> QED BY <2>2, <4>1 DEF UpTo
    <3> QED BY <3>1
  <2>4. ASSUME NEW s \in UpTo(n) PROVE s \in UpTo(n + 1) /\ g[s] = h[s]
    <3>1. s \in UpTo(n + 1)
      BY <1>1
    <3>2. h[s] = IF s = {} THEN b ELSE F[c[s]][h[s \ {c[s]}]]
      BY <2>1
    <3> HIDE DEF UpTo
    <3> QED BY <3>1, <3>2
  <2>5. Solves(g, UpTo(n + 1))
    <3> SUFFICES ASSUME NEW s \in UpTo(n + 1)
                 PROVE  g[s] = IF s = {} THEN b ELSE F[c[s]][g[s \ {c[s]}]]
      OBVIOUS
    <3> HIDE DEF UpTo
    <3>1. CASE s = {}
      BY <3>1
    <3>2. CASE s # {}
      <4>1. g[s \ {c[s]}] = h[s \ {c[s]}]
        <5> HIDE DEF g
        <5> QED BY <2>2, <2>4, <3>2
      <4>2. g[s] = F[c[s]][h[s \ {c[s]}]]
        BY <3>2
      <4> QED BY <3>2, <4>1, <4>2
    <3> QED BY <3>1, <3>2
  <2> HIDE DEF g, UpTo, Solves
  <2>6. \E gg \in [UpTo(n + 1) -> R] : Solves(gg, UpTo(n + 1))
    BY <2>3, <2>5
  <2> QED BY <2>6
<1>4. Cardinality(S) \in N
  <2> HIDE DEF N
  <2>1. Nat \subseteq N
    BY <1>2, <1>3, NatsInside
  <2> QED BY <1>1, <2>1
<1>5. UpTo(Cardinality(S)) = SUBSET S
  BY <1>1
<1> QED BY <1>4, <1>5 DEF Solution
----------------------------------------------------------------------------
(* Sums.                                                                   *)

\* The fold that MapThenSumSet is, for a function in the place of an operator.
SumOver(f, S) == MapThenSumSet(LAMBDA x : f[x], S)

\* g adds up the values of f: the member to take off is the one CHOOSE finds.
Adds(g, f, S) == g = [s \in SUBSET S |-> IF s = {} THEN 0
                        ELSE f[CHOOSE x \in s : TRUE] + g[s \ {CHOOSE x \in s : TRUE}]]

\* There is such a function.
LEMMA SumExists ==
  ASSUME NEW S, IsFiniteSet(S), NEW f, \A x \in S : f[x] \in Int
  PROVE  \E g : Adds(g, f, S)
<1> DEFINE c == [s \in SUBSET S |-> CHOOSE x \in s : TRUE]
           F == [x \in S |-> [r \in Int |-> f[x] + r]]
<1>1. \A s \in SUBSET S : s # {} => c[s] \in s
  OBVIOUS
<1>2. \A x \in S, r \in Int : F[x][r] \in Int /\ F[x][r] = f[x] + r
  OBVIOUS
<1>3. PICK g \in [SUBSET S -> Int] : Solution(g, S, 0, c, F)
  <2>1. Recursion(S, Int, 0, c, F)
    BY <1>1, <1>2 DEF Recursion
  <2> QED BY <2>1, SetRecursion
<1>4. ASSUME NEW s \in SUBSET S, s # {}
      PROVE  g[s] = f[CHOOSE x \in s : TRUE] + g[s \ {CHOOSE x \in s : TRUE}]
  <2>1. c[s] = (CHOOSE x \in s : TRUE) /\ c[s] \in S
    BY <1>1, <1>4
  <2> HIDE DEF c, F
  <2>2. g[s \ {c[s]}] \in Int
    BY <1>3
  <2> QED BY <1>2, <1>3, <1>4, <2>1, <2>2 DEF Solution
<1>5. Adds(g, f, S)
  <2> HIDE DEF c, F
  <2> QED BY <1>3, <1>4 DEF Adds, Solution
<1> QED BY <1>5

\* Its values are numbers.
LEMMA SumTyped ==
  ASSUME NEW S, IsFiniteSet(S), NEW f, \A x \in S : f[x] \in Int,
         NEW g, Adds(g, f, S)
  PROVE  g[S] \in Int /\ ((\A x \in S : f[x] >= 0) => g[S] >= 0)
<1> DEFINE R == IF \A x \in S : f[x] >= 0 THEN Nat ELSE Int
           G == {s \in SUBSET S : g[s] \in R}
<1>4. {} \in G
  <2>1. g[{}] = 0
    BY DEF Adds
  <2> QED BY <2>1
<1>5. ASSUME NEW T \in SUBSET S, T # {}, \A x \in T : T \ {x} \in G PROVE T \in G
  <2> DEFINE x == CHOOSE x \in T : TRUE
  <2>1. x \in T
    BY <1>5
  <2>2. g[T] = f[x] + g[T \ {x}]
    BY <1>5 DEF Adds
  <2> HIDE DEF x
  <2>3. g[T \ {x}] \in R
    BY <1>5, <2>1
  <2>4. f[x] + g[T \ {x}] \in R
    BY <2>1, <2>3
  <2> QED BY <2>2, <2>4
<1>6. S \in G
  <2> HIDE DEF G
  <2> QED BY <1>4, <1>5, SubsetsInside
<1> QED BY <1>6

\* SumOver is the value of such a function.
LEMMA SumOverAdds ==
  ASSUME NEW S, IsFiniteSet(S), NEW f, \A x \in S : f[x] \in Int
  PROVE  \E g : Adds(g, f, S) /\ SumOver(f, S) = g[S]
<1> DEFINE it == CHOOSE g : Adds(g, f, S)
<1>1. Adds(it, f, S)
  <2>1. \E g : Adds(g, f, S)
    BY SumExists
  <2> QED BY <2>1, Zenon
<1>2. SumOver(f, S) = it[S]
  BY DEF SumOver, MapThenSumSet, MapThenFoldSet, Adds
<1> QED BY <1>1, <1>2, Zenon

\* A sum over a finite set is a number, and not negative if no term is.
LEMMA SumOverType ==
  ASSUME NEW S, IsFiniteSet(S), NEW f, \A x \in S : f[x] \in Int
  PROVE  SumOver(f, S) \in Int /\ ((\A x \in S : f[x] >= 0) => SumOver(f, S) \in Nat)
<1>1. PICK g : Adds(g, f, S) /\ SumOver(f, S) = g[S]
  BY SumOverAdds
<1>2. g[S] \in Int /\ ((\A x \in S : f[x] >= 0) => g[S] >= 0)
  BY <1>1, SumTyped
<1> QED BY <1>1, <1>2

\* Two such functions agree where both are defined.
LEMMA AddsAgree ==
  ASSUME NEW S, IsFiniteSet(S), NEW f, NEW g, Adds(g, f, S), NEW T \in SUBSET S, NEW h, Adds(h, f, T)
  PROVE  \A s \in SUBSET T : g[s] = h[s]
<1> DEFINE G == {s \in SUBSET T : g[s] = h[s]}
<1>1. {} \in G
  BY DEF Adds
<1>2. ASSUME NEW U \in SUBSET T, U # {}, \A x \in U : U \ {x} \in G PROVE U \in G
  <2> DEFINE x == CHOOSE x \in U : TRUE
  <2>1. x \in U
    BY <1>2
  <2>2. g[U] = f[x] + g[U \ {x}]
    BY <1>2 DEF Adds
  <2>3. h[U] = f[x] + h[U \ {x}]
    BY <1>2 DEF Adds
  <2> HIDE DEF x
  <2> QED BY <1>2, <2>1, <2>2, <2>3
<1>3. IsFiniteSet(T)
  BY FS_Subset
<1>4. SUBSET T \subseteq G
  <2> HIDE DEF G
  <2> QED BY <1>1, <1>2, <1>3, SubsetsInside
<1> QED BY <1>4

\* Any member may be taken off first.
LEMMA AddsAnyOrder ==
  ASSUME NEW S, IsFiniteSet(S), NEW f, \A x \in S : f[x] \in Int, NEW g, Adds(g, f, S)
  PROVE  \A x \in S : g[S] = f[x] + g[S \ {x}]
<1> DEFINE G == {s \in SUBSET S : g[s] \in Int /\ \A x \in s : g[s] = f[x] + g[s \ {x}]}
<1>1. {} \in G
  BY DEF Adds
<1>2. ASSUME NEW T \in SUBSET S, T # {}, \A x \in T : T \ {x} \in G PROVE T \in G
  <2> DEFINE y == CHOOSE x \in T : TRUE
  <2>1. y \in T
    BY <1>2
  <2>2. g[T] = f[y] + g[T \ {y}]
    BY <1>2 DEF Adds
  <2> HIDE DEF y
  <2>3. g[T \ {y}] \in Int /\ f[y] \in Int
    BY <1>2, <2>1
  <2>4. ASSUME NEW U \in SUBSET S PROVE g[U] \in Int
    <3>1. IsFiniteSet(U) /\ \E h : Adds(h, f, U)
      BY FS_Subset, SumExists
    <3>2. PICK h : Adds(h, f, U)
      BY <3>1
    <3>3. h[U] \in Int
      BY <3>1, <3>2, SumTyped
    <3>4. g[U] = h[U]
      BY <3>2, AddsAgree
    <3> QED BY <3>3, <3>4
  <2>6. ASSUME NEW x \in T, x # y PROVE g[T] = f[x] + g[T \ {x}]
    <3> DEFINE U == (T \ {y}) \ {x}
    <3>1. (T \ {x}) \ {y} = U
      OBVIOUS
    <3>2. g[T \ {y}] = f[x] + g[U]
      BY <1>2, <2>1, <2>6
    <3>3. g[T \ {x}] = f[y] + g[U]
      <4>1. g[T \ {x}] = f[y] + g[(T \ {x}) \ {y}]
        BY <1>2, <2>1, <2>6
      <4> HIDE DEF U
      <4> QED BY <3>1, <4>1
    <3>4. f[x] \in Int /\ g[U] \in Int
      BY <1>2, <2>4, <2>6
    <3> HIDE DEF U
    <3> QED BY <2>2, <2>3, <3>2, <3>3, <3>4
  <2>5. g[T] \in Int
    BY <2>2, <2>3
  <2> QED BY <2>2, <2>5, <2>6
<1>3. S \in G
  <2> HIDE DEF G
  <2> QED BY <1>1, <1>2, SubsetsInside
<1> QED BY <1>3

\* What SumOver computes, one member at a time.
LEMMA SumOverStep ==
  ASSUME NEW S, IsFiniteSet(S), NEW f, \A x \in S : f[x] \in Int
  PROVE  /\ S = {} => SumOver(f, S) = 0
         /\ \A x \in S : SumOver(f, S) = f[x] + SumOver(f, S \ {x})
<1>1. PICK g : Adds(g, f, S) /\ SumOver(f, S) = g[S]
  BY SumOverAdds
<1>2. S = {} => g[S] = 0
  BY <1>1 DEF Adds
<1>3. ASSUME NEW x \in S PROVE SumOver(f, S) = f[x] + SumOver(f, S \ {x})
  <2>1. IsFiniteSet(S \ {x})
    BY FS_RemoveElement
  <2>2. PICK h : Adds(h, f, S \ {x}) /\ SumOver(f, S \ {x}) = h[S \ {x}]
    BY <2>1, SumOverAdds
  <2>3. g[S \ {x}] = h[S \ {x}]
    BY <1>1, <2>2, AddsAgree
  <2>4. \A y \in S : g[S] = f[y] + g[S \ {y}]
    <3>1. Adds(g, f, S)
      BY <1>1
    <3> QED BY <3>1, AddsAnyOrder
  <2> QED BY <1>1, <2>2, <2>3, <2>4
<1> QED BY <1>1, <1>2, <1>3

\* Equal terms.
LEMMA SumOfEquals ==
  ASSUME NEW S, IsFiniteSet(S), NEW f, NEW u \in Nat, \A x \in S : f[x] = u
  PROVE  SumOver(f, S) = u * Cardinality(S)
<1> DEFINE G == {s \in SUBSET S : SumOver(f, s) = u * Cardinality(s)}
<1>1. {} \in G
  <2>1. SumOver(f, {}) = 0
    BY SumOverStep, FS_EmptySet
  <2>2. Cardinality({}) = 0
    BY FS_EmptySet
  <2> QED BY <2>1, <2>2
<1>2. ASSUME NEW T \in SUBSET S, T # {}, \A x \in T : T \ {x} \in G PROVE T \in G
  <2>1. PICK x \in T : TRUE
    BY <1>2
  <2>2. IsFiniteSet(T) /\ IsFiniteSet(T \ {x})
    BY FS_Subset
  <2>3. Cardinality(T) \in Nat /\ Cardinality(T \ {x}) = Cardinality(T) - 1
    BY <2>1, <2>2, FS_RemoveElement, FS_CardinalityType
  <2>4. \A y \in T : f[y] \in Int
    OBVIOUS
  <2>5. \A y \in T : SumOver(f, T) = f[y] + SumOver(f, T \ {y})
    BY <2>2, <2>4, SumOverStep
  <2>6. SumOver(f, T) = u + u * Cardinality(T \ {x})
    BY <1>2, <2>1, <2>5
  <2>7. u + u * (Cardinality(T) - 1) = u * Cardinality(T)
    <3> DEFINE c == Cardinality(T)
    <3>1. c \in Nat
      BY <2>3
    <3> HIDE DEF c
    <3>2. u + u * (c - 1) = u * c
      BY <3>1
    <3> QED BY <3>2 DEF c
  <2> QED BY <2>3, <2>6, <2>7
<1>3. S \in G
  <2> HIDE DEF G
  <2> QED BY <1>1, <1>2, SubsetsInside
<1> QED BY <1>3

\* Two sets without a common member.
LEMMA CardinalityOfBoth ==
  ASSUME NEW S, IsFiniteSet(S), NEW T, IsFiniteSet(T), S \cap T = {}
  PROVE  Cardinality(S \cup T) = Cardinality(S) + Cardinality(T)
<1>1. Cardinality({}) = 0
  BY FS_EmptySet
<1>2. Cardinality(S) \in Nat /\ Cardinality(T) \in Nat
  BY FS_CardinalityType
<1>3. Cardinality(S \cup T) = Cardinality(S) + Cardinality(T) - Cardinality(S \cap T)
  BY FS_Union
<1>4. Cardinality(S \cap T) = 0
  BY <1>1
<1> QED BY <1>2, <1>3, <1>4

\* Every class of f is as small as the same class of h.
ClassesFit(f, S, h, T, C) ==
  /\ f \in [S -> C] /\ h \in [T -> C]
  /\ \A id \in C : Cardinality({i \in S : f[i] = id}) <= Cardinality({i \in T : h[i] = id})

\* If every class of one assignment is as small as the same class of another,
\* then it assigns no more than the other.
LEMMA CountByClass ==
  ASSUME NEW C, IsFiniteSet(C), NEW S, IsFiniteSet(S), NEW T, IsFiniteSet(T),
         NEW f, NEW h, ClassesFit(f, S, h, T, C)
  PROVE  Cardinality(S) <= Cardinality(T)
<1> DEFINE A(D) == {i \in S : f[i] \in D}
           B(D) == {i \in T : h[i] \in D}
           a(id) == {i \in S : f[i] = id}
           b(id) == {i \in T : h[i] = id}
           G == {D \in SUBSET C : Cardinality(A(D)) <= Cardinality(B(D))}
<1>1. {} \in G
  <2>1. A({}) = {} /\ B({}) = {}
    OBVIOUS
  <2>2. Cardinality({}) = 0
    BY FS_EmptySet
  <2> QED BY <2>1, <2>2
<1>2. ASSUME NEW D \in SUBSET C, D # {}, \A x \in D : D \ {x} \in G PROVE D \in G
  <2>1. PICK x \in D : TRUE
    BY <1>2
  <2> DEFINE E == D \ {x}
  <2>2. A(D) = A(E) \cup a(x) /\ A(E) \cap a(x) = {} /\ A(E) \subseteq S /\ a(x) \subseteq S
    OBVIOUS
  <2>3. B(D) = B(E) \cup b(x) /\ B(E) \cap b(x) = {} /\ B(E) \subseteq T /\ b(x) \subseteq T
    OBVIOUS
  <2>4. Cardinality(A(E)) <= Cardinality(B(E)) /\ Cardinality(a(x)) <= Cardinality(b(x))
    BY <1>2, <2>1 DEF ClassesFit
  <2> HIDE DEF A, B, a, b, E
  <2>5. /\ IsFiniteSet(A(E)) /\ IsFiniteSet(a(x)) /\ IsFiniteSet(B(E)) /\ IsFiniteSet(b(x))
    BY <2>2, <2>3, FS_Subset
  <2>6. /\ Cardinality(A(E)) \in Nat /\ Cardinality(a(x)) \in Nat
        /\ Cardinality(B(E)) \in Nat /\ Cardinality(b(x)) \in Nat
    BY <2>5, FS_CardinalityType
  <2>8. Cardinality(A(D)) = Cardinality(A(E)) + Cardinality(a(x))
    BY <2>2, <2>5, CardinalityOfBoth
  <2>9. Cardinality(B(D)) = Cardinality(B(E)) + Cardinality(b(x))
    BY <2>3, <2>5, CardinalityOfBoth
  <2>10. Cardinality(A(D)) <= Cardinality(B(D))
    BY <2>4, <2>6, <2>8, <2>9
  <2> QED BY <2>10
<1>3. C \in G
  <2> HIDE DEF G
  <2> QED BY <1>1, <1>2, SubsetsInside
<1>4. A(C) = S /\ B(C) = T
  BY DEF ClassesFit
<1> QED BY <1>3, <1>4

\* Terms that are no larger make a sum that is no larger.
LEMMA SumMonotone ==
  ASSUME NEW S, IsFiniteSet(S), NEW f, NEW g, \A x \in S : f[x] \in Int /\ g[x] \in Int /\ f[x] <= g[x]
  PROVE  SumOver(f, S) <= SumOver(g, S)
<1> DEFINE G == {s \in SUBSET S : /\ SumOver(f, s) \in Int /\ SumOver(g, s) \in Int
                                  /\ SumOver(f, s) <= SumOver(g, s)}
<1>1. {} \in G
  <2>1. SumOver(f, {}) = 0 /\ SumOver(g, {}) = 0
    BY SumOverStep, FS_EmptySet
  <2> QED BY <2>1
<1>2. ASSUME NEW T \in SUBSET S, T # {}, \A x \in T : T \ {x} \in G PROVE T \in G
  <2>1. PICK x \in T : TRUE
    BY <1>2
  <2>2. IsFiniteSet(T)
    BY FS_Subset
  <2>3. SumOver(f, T) = f[x] + SumOver(f, T \ {x}) /\ SumOver(g, T) = g[x] + SumOver(g, T \ {x})
    BY <2>1, <2>2, SumOverStep
  <2> QED BY <1>2, <2>1, <2>3
<1>3. S \in G
  <2> HIDE DEF G
  <2> QED BY <1>1, <1>2, SubsetsInside
<1> QED BY <1>3

\* Equal terms make equal sums.
LEMMA SumSame ==
  ASSUME NEW S, IsFiniteSet(S), NEW f, NEW g, \A x \in S : f[x] \in Int /\ g[x] = f[x]
  PROVE  SumOver(f, S) = SumOver(g, S)
<1>1. SumOver(f, S) <= SumOver(g, S) /\ SumOver(g, S) <= SumOver(f, S)
  BY SumMonotone
<1>2. SumOver(f, S) \in Int /\ SumOver(g, S) \in Int
  BY SumOverType
<1> QED BY <1>1, <1>2

\* A difference, term by term.
LEMMA SumMinus ==
  ASSUME NEW S, IsFiniteSet(S), NEW f, NEW g, NEW h,
         \A x \in S : f[x] \in Int /\ g[x] \in Int /\ h[x] = f[x] - g[x]
  PROVE  SumOver(h, S) = SumOver(f, S) - SumOver(g, S)
<1> DEFINE G == {s \in SUBSET S : /\ SumOver(f, s) \in Int /\ SumOver(g, s) \in Int
                                  /\ SumOver(h, s) = SumOver(f, s) - SumOver(g, s)}
<1>1. {} \in G
  <2>1. SumOver(f, {}) = 0 /\ SumOver(g, {}) = 0 /\ SumOver(h, {}) = 0
    BY SumOverStep, FS_EmptySet
  <2> QED BY <2>1
<1>2. ASSUME NEW T \in SUBSET S, T # {}, \A x \in T : T \ {x} \in G PROVE T \in G
  <2>1. PICK x \in T : TRUE
    BY <1>2
  <2>2. IsFiniteSet(T)
    BY FS_Subset
  <2>3. \A y \in T : h[y] \in Int
    OBVIOUS
  <2>4. /\ SumOver(f, T) = f[x] + SumOver(f, T \ {x}) /\ SumOver(g, T) = g[x] + SumOver(g, T \ {x})
        /\ SumOver(h, T) = h[x] + SumOver(h, T \ {x})
    BY <2>1, <2>2, <2>3, SumOverStep
  <2> QED BY <1>2, <2>1, <2>4
<1>3. S \in G
  <2> HIDE DEF G
  <2> QED BY <1>1, <1>2, SubsetsInside
<1> QED BY <1>3

\* Two sets without a common member.
LEMMA SumOfBoth ==
  ASSUME NEW A, IsFiniteSet(A), NEW B, IsFiniteSet(B), A \cap B = {}, NEW f, \A x \in A \cup B : f[x] \in Int
  PROVE  SumOver(f, A \cup B) = SumOver(f, A) + SumOver(f, B)
<1> DEFINE G == {s \in SUBSET B : /\ SumOver(f, s) \in Int /\ SumOver(f, A) \in Int
                                  /\ SumOver(f, A \cup s) = SumOver(f, A) + SumOver(f, s)}
<1>1. {} \in G
  <2>1. SumOver(f, {}) = 0 /\ SumOver(f, A) \in Int /\ A \cup {} = A
    BY SumOverStep, SumOverType, FS_EmptySet
  <2> QED BY <2>1
<1>2. ASSUME NEW T \in SUBSET B, T # {}, \A x \in T : T \ {x} \in G PROVE T \in G
  <2>1. PICK x \in T : TRUE
    BY <1>2
  <2>2. IsFiniteSet(T) /\ IsFiniteSet(A \cup T)
    BY FS_Subset, FS_Union
  <2>3. (A \cup T) \ {x} = A \cup (T \ {x})
    BY <2>1
  <2>4. SumOver(f, T) = f[x] + SumOver(f, T \ {x})
    BY <2>1, <2>2, SumOverStep
  <2>5. SumOver(f, A \cup T) = f[x] + SumOver(f, (A \cup T) \ {x})
    <3> DEFINE U == A \cup T
    <3>1. x \in U /\ IsFiniteSet(U) /\ \A y \in U : f[y] \in Int
      BY <2>1, <2>2
    <3> HIDE DEF U
    <3>2. SumOver(f, U) = f[x] + SumOver(f, U \ {x})
      BY <3>1, SumOverStep
    <3> QED BY <3>2 DEF U
  <2>6. f[x] \in Int
    BY <2>1
  <2>7. /\ SumOver(f, T \ {x}) \in Int /\ SumOver(f, A) \in Int
        /\ SumOver(f, A \cup (T \ {x})) = SumOver(f, A) + SumOver(f, T \ {x})
    BY <1>2, <2>1
  <2>8. SumOver(f, A \cup T) = SumOver(f, A) + SumOver(f, T) /\ SumOver(f, T) \in Int
    <3>1. SumOver(f, A \cup T) = f[x] + SumOver(f, A \cup (T \ {x}))
      BY <2>3, <2>5, Zenon
    <3> QED BY <2>4, <2>6, <2>7, <3>1
  <2> QED BY <2>7, <2>8
<1>3. B \in G
  <2> HIDE DEF G
  <2> QED BY <1>1, <1>2, SubsetsInside
<1> QED BY <1>3

\* A part of terms that are not negative adds up to no more than all of them.
LEMMA SumOfPart ==
  ASSUME NEW S, IsFiniteSet(S), NEW f, \A x \in S : f[x] \in Nat, NEW T \in SUBSET S
  PROVE  SumOver(f, T) <= SumOver(f, S)
<1> DEFINE R == S \ T
<1>1. T \cup R = S /\ T \cap R = {} /\ R \subseteq S
  OBVIOUS
<1> HIDE DEF R
<1>2. IsFiniteSet(T) /\ IsFiniteSet(R)
  BY <1>1, FS_Subset
<1>3. SumOver(f, T \cup R) = SumOver(f, T) + SumOver(f, R)
  BY <1>1, <1>2, SumOfBoth
<1>4. SumOver(f, T) \in Nat /\ SumOver(f, R) \in Nat
  BY <1>1, <1>2, SumOverType
<1>5. SumOver(f, S) = SumOver(f, T) + SumOver(f, R)
  BY <1>1, <1>3, Zenon
<1> QED BY <1>4, <1>5

\* h adds up the terms class by class.
ByClass(h, f, S, c, C) ==
  /\ \A x \in S : c[x] \in C
  /\ \A y \in C : h[y] = SumOver(f, {x \in S : c[x] = y})

\* The sums of the classes make the whole sum.
LEMMA SumByClass ==
  ASSUME NEW S, IsFiniteSet(S), NEW C, IsFiniteSet(C), NEW f, \A x \in S : f[x] \in Int,
         NEW c, NEW h, ByClass(h, f, S, c, C)
  PROVE  SumOver(f, S) = SumOver(h, C)
<1> DEFINE A(D) == {x \in S : c[x] \in D}
           a(y) == {x \in S : c[x] = y}
           G == {D \in SUBSET C : SumOver(f, A(D)) = SumOver(h, D)}
<1>0. \A y \in C : h[y] = SumOver(f, a(y)) /\ IsFiniteSet(a(y)) /\ h[y] \in Int
  <2> SUFFICES ASSUME NEW y \in C PROVE h[y] = SumOver(f, a(y)) /\ IsFiniteSet(a(y)) /\ h[y] \in Int
    OBVIOUS
  <2>1. a(y) \subseteq S /\ h[y] = SumOver(f, a(y))
    BY DEF ByClass
  <2> HIDE DEF a
  <2>2. IsFiniteSet(a(y))
    BY <2>1, FS_Subset
  <2> QED BY <2>1, <2>2, SumOverType
<1>1. {} \in G
  <2>1. A({}) = {}
    OBVIOUS
  <2>2. SumOver(f, {}) = 0 /\ SumOver(h, {}) = 0
    BY SumOverStep, FS_EmptySet
  <2> QED BY <2>1, <2>2
<1>2. ASSUME NEW D \in SUBSET C, D # {}, \A x \in D : D \ {x} \in G PROVE D \in G
  <2>1. PICK y \in D : TRUE
    BY <1>2
  <2> DEFINE E == D \ {y}
  <2>2. A(D) = A(E) \cup a(y) /\ A(E) \cap a(y) = {} /\ A(E) \subseteq S /\ a(y) \subseteq S
    OBVIOUS
  <2>3. SumOver(f, A(E)) = SumOver(h, E)
    BY <1>2, <2>1
  <2>4. IsFiniteSet(D) /\ \A x \in D : h[x] \in Int
    BY <1>0, FS_Subset
  <2>5. SumOver(h, D) = h[y] + SumOver(h, E)
    BY <2>1, <2>4, SumOverStep
  <2>6. SumOver(h, E) \in Int
    <3>1. IsFiniteSet(E) /\ \A x \in E : h[x] \in Int
      BY <2>4, FS_RemoveElement, FS_Subset
    <3> HIDE DEF E
    <3> QED BY <3>1, SumOverType
  <2>7. y \in C /\ h[y] = SumOver(f, a(y)) /\ h[y] \in Int
    BY <1>0, <2>1
  <2> HIDE DEF A, a, E
  <2>8. SumOver(f, A(E) \cup a(y)) = SumOver(f, A(E)) + SumOver(f, a(y))
    <3>1. IsFiniteSet(A(E)) /\ IsFiniteSet(a(y)) /\ \A x \in A(E) \cup a(y) : f[x] \in Int
      BY <2>2, FS_Subset
    <3> QED BY <2>2, <3>1, SumOfBoth
  <2>9. SumOver(f, A(D)) = SumOver(h, D)
    BY <2>2, <2>3, <2>5, <2>6, <2>7, <2>8
  <2> QED BY <2>9
<1>3. C \in G
  <2> HIDE DEF G
  <2> QED BY <1>1, <1>2, SubsetsInside
<1>4. A(C) = S
  BY DEF ByClass
<1> QED BY <1>3, <1>4

\* A multiple of every term makes that multiple of the sum.
LEMMA SumTimes ==
  ASSUME NEW S, IsFiniteSet(S), NEW f, NEW h, NEW g \in Int,
         \A x \in S : h[x] \in Int /\ f[x] = g * h[x]
  PROVE  SumOver(f, S) = g * SumOver(h, S)
<1> DEFINE G == {s \in SUBSET S : /\ SumOver(f, s) \in Int /\ SumOver(h, s) \in Int
                                  /\ SumOver(f, s) = g * SumOver(h, s)}
<1>1. {} \in G
  <2>1. SumOver(f, {}) = 0 /\ SumOver(h, {}) = 0
    BY SumOverStep, FS_EmptySet
  <2> QED BY <2>1
<1>2. ASSUME NEW T \in SUBSET S, T # {}, \A x \in T : T \ {x} \in G PROVE T \in G
  <2>1. PICK x \in T : TRUE
    BY <1>2
  <2>2. IsFiniteSet(T) /\ \A y \in T : f[y] \in Int /\ h[y] \in Int
    BY FS_Subset
  <2>3. SumOver(f, T) = f[x] + SumOver(f, T \ {x}) /\ SumOver(h, T) = h[x] + SumOver(h, T \ {x})
    BY <2>1, <2>2, SumOverStep
  <2>4. SumOver(f, T) = g * SumOver(h, T) /\ SumOver(f, T) \in Int /\ SumOver(h, T) \in Int
    <3> DEFINE a == SumOver(f, T \ {x})
               b == SumOver(h, T \ {x})
    <3>1. a \in Int /\ b \in Int /\ a = g * b
      BY <1>2, <2>1
    <3>2. h[x] \in Int /\ f[x] = g * h[x]
      BY <2>1
    <3> HIDE DEF a, b
    <3>3. g * h[x] + g * b = g * (h[x] + b)
      BY <3>1, <3>2
    <3>4. SumOver(f, T) = f[x] + a /\ SumOver(h, T) = h[x] + b
      BY <2>3 DEF a, b
    <3> QED BY <3>1, <3>2, <3>3, <3>4
  <2> QED BY <2>4
<1>3. S \in G
  <2> HIDE DEF G
  <2> QED BY <1>1, <1>2, SubsetsInside
<1> QED BY <1>3

----------------------------------------------------------------------------
(* Finding a place for everybody.                                          *)

\* m gives every member of S one of T, and no two of them the same.
OneToOne(m, S, T) == m \in [S -> T] /\ \A x, y \in S : m[x] = m[y] => x = y

\* It needs room.
LEMMA OneToOneCount ==
  ASSUME NEW S, NEW T, IsFiniteSet(T), NEW m, OneToOne(m, S, T)
  PROVE  IsFiniteSet(S) /\ Cardinality(S) <= Cardinality(T)
<1>1. m \in Injection(S, T)
  BY DEF OneToOne, Injection, IsInjective
<1> QED BY <1>1, FS_Injection

\* And with room there is one.
LEMMA OneToOneExists ==
  ASSUME NEW S, IsFiniteSet(S), NEW T, IsFiniteSet(T), Cardinality(S) <= Cardinality(T)
  PROVE  \E m : OneToOne(m, S, T)
<1> DEFINE a == Cardinality(S)
           b == Cardinality(T)
<1>1. a \in Nat /\ b \in Nat /\ a <= b
  BY FS_CardinalityType
<1>2. ExistsBijection(1..a, S)
  BY FS_CardinalityType
<1>3. ExistsBijection(1..b, T)
  BY FS_CardinalityType
<1> HIDE DEF a, b
<1>4. PICK F \in [1..a -> S] : \A x \in S : \E k \in 1..a : F[k] = x
  BY <1>2 DEF ExistsBijection, Bijection, Surjection
<1> DEFINE f == [x \in S |-> CHOOSE k \in 1..a : F[k] = x]
<1>5. PICK h \in [1..b -> T] : \A x, y \in 1..b : h[x] = h[y] => x = y
  BY <1>3 DEF ExistsBijection, Bijection, Injection, IsInjective
<1>6. \A x \in S : f[x] \in 1..b /\ F[f[x]] = x
  BY <1>1, <1>4
<1> HIDE DEF f
<1> DEFINE m == [x \in S |-> h[f[x]]]
<1>7. m \in [S -> T]
  BY <1>5, <1>6
<1>8. ASSUME NEW x \in S, NEW y \in S, m[x] = m[y] PROVE x = y
  <2>1. h[f[x]] = h[f[y]]
    BY <1>8
  <2>2. f[x] = f[y]
    BY <1>5, <1>6, <2>1
  <2> QED BY <1>6, <2>2
<1>9. OneToOne(m, S, T)
  <2> HIDE DEF m
  <2> QED BY <1>7, <1>8 DEF OneToOne
<1> QED BY <1>9

\* Class by class.
LEMMA MatchByClass ==
  ASSUME NEW C, NEW S, IsFiniteSet(S), NEW T, IsFiniteSet(T),
         NEW f, NEW h, ClassesFit(f, S, h, T, C)
  PROVE  \E m : OneToOne(m, S, T) /\ \A x \in S : h[m[x]] = f[x]
<1> DEFINE A(c) == {x \in S : f[x] = c}
           B(c) == {y \in T : h[y] = c}
           j == [c \in C |-> CHOOSE k : OneToOne(k, A(c), B(c))]
           m == [x \in S |-> j[f[x]][x]]
<1>1. ASSUME NEW c \in C PROVE OneToOne(j[c], A(c), B(c))
  <2>1. A(c) \subseteq S /\ B(c) \subseteq T /\ Cardinality(A(c)) <= Cardinality(B(c))
    BY DEF ClassesFit
  <2>2. j[c] = CHOOSE k : OneToOne(k, A(c), B(c))
    OBVIOUS
  <2> HIDE DEF A, B, j
  <2>3. IsFiniteSet(A(c)) /\ IsFiniteSet(B(c))
    BY <2>1, FS_Subset
  <2>4. \E k : OneToOne(k, A(c), B(c))
    BY <2>1, <2>3, OneToOneExists
  <2> QED BY <2>2, <2>4
<1>2. \A x \in S : m[x] = j[f[x]][x] /\ f[x] \in C
  BY DEF ClassesFit
<1> HIDE DEF j, m
<1>3. ASSUME NEW x \in S PROVE m[x] \in T /\ h[m[x]] = f[x]
  <2>1. x \in A(f[x]) /\ OneToOne(j[f[x]], A(f[x]), B(f[x]))
    BY <1>1, <1>2
  <2>2. m[x] \in B(f[x])
    BY <1>2, <2>1 DEF OneToOne
  <2> QED BY <2>2
<1>4. ASSUME NEW x \in S, NEW y \in S, m[x] = m[y] PROVE x = y
  <2>1. f[x] = f[y]
    BY <1>3, <1>4
  <2>2. x \in A(f[x]) /\ y \in A(f[x]) /\ OneToOne(j[f[x]], A(f[x]), B(f[x]))
    BY <1>1, <1>2, <2>1
  <2>3. j[f[x]][x] = j[f[x]][y]
    BY <1>2, <1>4, <2>1
  <2> QED BY <2>2, <2>3 DEF OneToOne
<1>5. m \in [S -> T]
  <2>1. m = [x \in S |-> m[x]]
    BY DEF m
  <2> QED BY <1>3, <2>1
<1> QED BY <1>3, <1>4, <1>5 DEF OneToOne

\* h[x] places for each member of S.
Slots(h, S) == {p \in S \X Nat : p[2] \in 1..h[p[1]]}

\* There are as many as the sum says.
LEMMA SlotsCounted ==
  ASSUME NEW S, IsFiniteSet(S), NEW h, \A x \in S : h[x] \in Nat
  PROVE  IsFiniteSet(Slots(h, S)) /\ Cardinality(Slots(h, S)) = SumOver(h, S)
<1> DEFINE G == {s \in SUBSET S : /\ IsFiniteSet(Slots(h, s))
                                  /\ Cardinality(Slots(h, s)) = SumOver(h, s)}
<1>1. {} \in G
  <2>1. SumOver(h, {}) = 0 /\ Cardinality({}) = 0 /\ IsFiniteSet({})
    BY SumOverStep, FS_EmptySet
  <2>2. Slots(h, {}) = {}
    BY DEF Slots
  <2> QED BY <2>1, <2>2
<1>2. ASSUME NEW s \in SUBSET S, s # {}, \A x \in s : s \ {x} \in G PROVE s \in G
  <2>1. PICK x \in s : TRUE
    BY <1>2
  <2> DEFINE r == s \ {x}
             own == {x} \X (1..h[x])
  <2>2. IsFiniteSet(s) /\ \A y \in s : h[y] \in Int
    BY FS_Subset
  <2>3. SumOver(h, s) = h[x] + SumOver(h, r)
    BY <2>1, <2>2, SumOverStep
  <2>4. IsFiniteSet(Slots(h, r)) /\ Cardinality(Slots(h, r)) = SumOver(h, r)
    BY <1>2, <2>1
  <2>5. IsFiniteSet(own) /\ Cardinality(own) = h[x]
    <3>1. h[x] \in Nat
      BY <2>1
    <3>2. IsFiniteSet(1..h[x]) /\ Cardinality(1..h[x]) = h[x]
      <4>1. 1 \in Int /\ h[x] \in Int
        BY <3>1
      <4>2. IsFiniteSet(1..h[x]) /\ Cardinality(1..h[x]) = IF 1 > h[x] THEN 0 ELSE h[x] - 1 + 1
        BY <4>1, FS_Interval
      <4> QED BY <3>1, <4>2
    <3>3. IsFiniteSet({x}) /\ Cardinality({x}) = 1
      BY FS_Singleton
    <3>4. IsFiniteSet(own) /\ Cardinality(own) = 1 * h[x]
      BY <3>2, <3>3, FS_Product
    <3> QED BY <3>1, <3>4
  <2>6. Slots(h, s) = Slots(h, r) \cup own /\ Slots(h, r) \cap own = {}
    BY <2>1 DEF Slots
  <2> HIDE DEF r, own
  <2>7. Cardinality(Slots(h, r) \cup own) = Cardinality(Slots(h, r)) + Cardinality(own)
    BY <2>4, <2>5, <2>6, CardinalityOfBoth
  <2>8. IsFiniteSet(Slots(h, r) \cup own)
    BY <2>4, <2>5, FS_Union
  <2>9. Cardinality(Slots(h, r)) \in Nat /\ h[x] \in Nat
    BY <2>1, <2>4, FS_CardinalityType
  <2>10. Cardinality(Slots(h, s)) = SumOver(h, s)
    BY <2>3, <2>4, <2>5, <2>6, <2>7, <2>9
  <2> QED BY <2>6, <2>8, <2>10
<1>3. S \in G
  <2> HIDE DEF G
  <2> QED BY <1>1, <1>2, SubsetsInside
<1> QED BY <1>3
=============================================================================
