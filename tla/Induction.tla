----------------------------- MODULE Induction -----------------------------
(***************************************************************************)
(* Induction over the natural numbers, stated for sets instead of          *)
(* predicates: to prove P(n) for all n, show that {n \in Nat : P(n)} has 0 *)
(* and, with n, n + 1.  It is how the proofs reason about what the models  *)
(* define by recursion, and about sums over finite sets.                   *)
(***************************************************************************)
EXTENDS Integers, Sequences, Sums, FiniteSetTheorems, WellFoundedInduction, TLAPS

\* "less than" on the natural numbers, as a well-founded relation.
LEMMA LessRelation ==
    \E R : IsWellFoundedOn(R, Nat) /\ \A m, n \in Nat : m < n => <<m, n>> \in R
<1>1. IsWellFoundedOn(OpToRel(<, Nat), Nat)
  BY NatLessThanWellFounded
<1>2. \A m \in Nat, n \in Nat : m < n => <<m, n>> \in OpToRel(<, Nat)
  BY DEF OpToRel
<1> QED
  BY <1>1, <1>2, Zenon

\* A set of natural numbers has a least element.
LEMMA LeastElement ==
    ASSUME NEW T, T \subseteq Nat, T # {}
    PROVE  \E n \in T : \A m \in T : n <= m
<1>1. PICK R : IsWellFoundedOn(R, Nat) /\ \A m, n \in Nat : m < n => <<m, n>> \in R
  BY LessRelation
<1>2. PICK n \in T : \A m \in T : ~(<<m, n>> \in R)
  <2>1. IsWellFoundedOn(R, Nat)
    BY <1>1
  <2> QED
    BY <2>1, WFMin, Zenon
<1>3. \A m \in T : m \in Nat /\ n \in Nat /\ ~(m < n)
  BY <1>1, <1>2
<1> QED
  BY <1>3

\* Induction.
THEOREM SetInduction ==
    ASSUME NEW T, 0 \in T, \A n \in Nat : n \in T => n + 1 \in T
    PROVE  \A n \in Nat : n \in T
<1> SUFFICES ASSUME Nat \ T # {} PROVE FALSE
  OBVIOUS
<1>1. PICK n \in Nat \ T : \A m \in Nat \ T : n <= m
  BY LeastElement
<1>2. n # 0 /\ n - 1 \in Nat /\ ~(n <= n - 1)
  BY <1>1
<1> QED
  BY <1>1, <1>2

\* The same up to N.
THEOREM InductionUpTo ==
    ASSUME NEW N \in Nat, NEW T, 0 \in T, \A i \in 1..N : i - 1 \in T => i \in T
    PROVE  \A i \in 0..N : i \in T
<1> DEFINE U == {n \in Nat : n <= N => n \in T}
<1>1. 0 \in U
  OBVIOUS
<1>2. ASSUME NEW n \in Nat, n \in U PROVE n + 1 \in U
  <2>1. CASE n + 1 <= N
    <3>1. n + 1 \in 1..N /\ (n + 1) - 1 = n /\ n \in T
      BY <1>2, <2>1
    <3> QED
      BY <3>1
  <2>2. CASE ~(n + 1 <= N)
    BY <2>2
  <2> QED
    BY <2>1, <2>2
<1> HIDE DEF U
<1>3. \A n \in Nat : n \in U
  BY <1>1, <1>2, SetInduction
<1> QED
  BY <1>3 DEF U

-----------------------------------------------------------------------------
(* Recursion up to N: f[i] is computed by step[i] from f[i - 1].           *)

Recursion(f, N, base, step) ==
    /\ DOMAIN f = 0..N
    /\ f[0] = base
    /\ \A i \in 1..N : f[i] = step[i][f[i - 1]]

\* There is such a function.
THEOREM RecursionExists ==
    ASSUME NEW N \in Nat, NEW S, NEW base \in S, NEW step \in [1..N -> [S -> S]]
    PROVE  \E f \in [0..N -> S] : Recursion(f, N, base, step)
<1> DEFINE T == {n \in Nat : n <= N => \E f \in [0..n -> S] : Recursion(f, n, base, step)}
<1>1. 0 \in T
  <2> PICK f : f = [i \in 0..0 |-> base]
    OBVIOUS
  <2>1. f \in [0..0 -> S] /\ DOMAIN f = 0..0 /\ f[0] = base
    OBVIOUS
  <2>2. Recursion(f, 0, base, step)
    BY <2>1 DEF Recursion
  <2> QED
    BY <2>1, <2>2
<1>2. ASSUME NEW n \in Nat, n \in T PROVE n + 1 \in T
  <2> SUFFICES ASSUME n + 1 <= N
               PROVE  \E g \in [0..(n + 1) -> S] : Recursion(g, n + 1, base, step)
    OBVIOUS
  <2>1. PICK f \in [0..n -> S] : Recursion(f, n, base, step)
    BY <1>2
  <2> PICK g : g = [i \in 0..(n + 1) |-> IF i = n + 1 THEN step[n + 1][f[n]] ELSE f[i]]
    OBVIOUS
  <2>2. step[n + 1][f[n]] \in S
    OBVIOUS
  <2>3. /\ g \in [0..(n + 1) -> S] /\ DOMAIN g = 0..(n + 1)
        /\ g[n + 1] = step[n + 1][f[n]] /\ \A i \in 0..n : g[i] = f[i]
    BY <2>2
  <2>4. g[0] = base
    BY <2>1, <2>3 DEF Recursion
  <2>5. ASSUME NEW i \in 1..(n + 1) PROVE g[i] = step[i][g[i - 1]]
    <3>1. CASE i = n + 1
      BY <3>1, <2>3
    <3>2. CASE i # n + 1
      <4>1. i \in 1..n /\ i \in 0..n /\ i - 1 \in 0..n
        BY <3>2
      <4> QED
        BY <4>1, <2>1, <2>3 DEF Recursion
    <3> QED
      BY <3>1, <3>2
  <2>6. Recursion(g, n + 1, base, step)
    BY <2>3, <2>4, <2>5 DEF Recursion
  <2> QED
    BY <2>3, <2>6
<1> HIDE DEF T
<1>3. N \in T
  BY <1>1, <1>2, SetInduction
<1> QED
  BY <1>3 DEF T

-----------------------------------------------------------------------------
(* Sums: SumOf takes one element out of the set at a time, whichever CHOOSE *)
(* gives; here is that any order gives the same, and what a change of the   *)
(* set or of the function does to a sum.                                    *)

\* How a sum is defined: one element is taken out at a time.
Chosen(s) == CHOOSE x \in s : TRUE
SumStep(h, f, s) == IF s = {} THEN 0 ELSE f[Chosen(s)] + h[s \ {Chosen(s)}]
IsSum(h, f, S) == h = [s \in SUBSET S |-> SumStep(h, f, s)]

\* What the definition of a sum unfolds to, once there is such a function.
LEMMA SumUnfolds ==
    ASSUME NEW f, NEW S, \E h : IsSum(h, f, S)
    PROVE  \E h : IsSum(h, f, S) /\ SumOf(f, S) = h[S]
<1> DEFINE Q(h) == h = [s \in SUBSET S |-> IF s = {} THEN 0 ELSE f[Chosen(s)] + h[s \ {Chosen(s)}]]
           it == CHOOSE h : Q(h)
<1>1. Q(it)
  BY DEF IsSum, SumStep
<1>2. SumOf(f, S) = it[S]
  BY DEF SumOf, MapThenSumSet, MapThenFoldSet, Chosen
<1> QED
  BY <1>1, <1>2 DEF IsSum, SumStep

\* The element that is taken out is one of the set.
LEMMA ChosenIn ==
    ASSUME NEW s, s # {}
    PROVE  Chosen(s) \in s
BY DEF Chosen

\* The element that is taken out makes a finite set smaller.
LEMMA Smaller ==
    ASSUME NEW s, IsFiniteSet(s), NEW x \in s
    PROVE  /\ IsFiniteSet(s \ {x}) /\ Cardinality(s) \in Nat \ {0}
           /\ Cardinality(s \ {x}) = Cardinality(s) - 1
BY FS_RemoveElement, FS_CardinalityType, FS_EmptySet

\* h sums up the subsets of at most n elements.
UpTo(h, f, S, n) == \A s \in SUBSET S : Cardinality(s) <= n => h[s] = SumStep(h, f, s)

\* There is such a function.
LEMMA SumExists ==
    ASSUME NEW D, NEW f \in [D -> Int], NEW S \in SUBSET D, IsFiniteSet(S)
    PROVE  \E h \in [SUBSET S -> Int] : IsSum(h, f, S)
<1> DEFINE T == {n \in Nat : \E h \in [SUBSET S -> Int] : UpTo(h, f, S, n)}
<1>1. 0 \in T
  <2> PICK h : h = [s \in SUBSET S |-> 0]
    OBVIOUS
  <2>1. h \in [SUBSET S -> Int]
    OBVIOUS
  <2>2. ASSUME NEW s \in SUBSET S, Cardinality(s) <= 0
        PROVE  h[s] = SumStep(h, f, s)
    <3>1. IsFiniteSet(s)
      BY FS_Subset
    <3>2. s = {}
      BY <2>2, <3>1, FS_CardinalityType, FS_EmptySet
    <3> QED
      BY <3>2 DEF SumStep
  <2>3. UpTo(h, f, S, 0)
    BY <2>2 DEF UpTo
  <2> QED
    BY <2>1, <2>3
<1>2. ASSUME NEW n \in Nat, n \in T
      PROVE  n + 1 \in T
  <2>1. PICK h \in [SUBSET S -> Int] : UpTo(h, f, S, n)
    BY <1>2
  <2> PICK g : g = [s \in SUBSET S |-> IF Cardinality(s) <= n THEN h[s] ELSE SumStep(h, f, s)]
    OBVIOUS
  <2>2. ASSUME NEW s \in SUBSET S
        PROVE  SumStep(h, f, s) \in Int
    <3>1. CASE s = {}
      BY <3>1 DEF SumStep
    <3>2. CASE s # {}
      <4>1. Chosen(s) \in D /\ s \ {Chosen(s)} \in SUBSET S
        BY <3>2, ChosenIn
      <4>2. f[Chosen(s)] \in Int /\ h[s \ {Chosen(s)}] \in Int
        BY <4>1
      <4> QED
        BY <3>2, <4>2 DEF SumStep
    <3> QED
      BY <3>1, <3>2
  <2>3. g \in [SUBSET S -> Int]
    BY <2>2
  <2>4. ASSUME NEW s \in SUBSET S, Cardinality(s) <= n + 1
        PROVE  g[s] = SumStep(g, f, s)
    <3>1. g[s] = SumStep(h, f, s)
      BY <2>1 DEF UpTo
    <3>2. CASE s = {}
      BY <3>1, <3>2 DEF SumStep
    <3>3. CASE s # {}
      <4>1. Chosen(s) \in s /\ s \ {Chosen(s)} \in SUBSET S
        BY <3>3, ChosenIn
      <4>2. IsFiniteSet(s)
        BY FS_Subset
      <4>3. Cardinality(s \ {Chosen(s)}) <= n
        BY <2>4, <4>1, <4>2, Smaller
      <4>4. g[s \ {Chosen(s)}] = h[s \ {Chosen(s)}]
        BY <4>1, <4>3
      <4> QED
        BY <3>1, <3>3, <4>4 DEF SumStep
    <3> QED
      BY <3>2, <3>3
  <2>5. UpTo(g, f, S, n + 1)
    BY <2>4 DEF UpTo
  <2> QED
    BY <2>3, <2>5
<1> HIDE DEF T
<1>3. \A n \in Nat : n \in T
  BY <1>1, <1>2, SetInduction
<1>4. PICK N \in Nat : N = Cardinality(S)
  BY FS_CardinalityType
<1>5. PICK h \in [SUBSET S -> Int] : UpTo(h, f, S, N)
  BY <1>3 DEF T
<1>6. ASSUME NEW s \in SUBSET S
      PROVE  h[s] = SumStep(h, f, s)
  <2>1. Cardinality(s) <= N
    BY <1>4, FS_Subset
  <2> QED
    BY <1>5, <2>1 DEF UpTo
<1> QED
  BY <1>6 DEF IsSum

\* The values do not depend on the set one began with.
LEMMA SumsAgree ==
    ASSUME NEW f, NEW B, IsFiniteSet(B), NEW A \in SUBSET B, NEW h, NEW k,
           IsSum(h, f, A), IsSum(k, f, B)
    PROVE  \A s \in SUBSET A : h[s] = k[s]
<1> DEFINE T == {n \in Nat : \A s \in SUBSET A : Cardinality(s) <= n => h[s] = k[s]}
<1>1. ASSUME NEW s \in SUBSET A
      PROVE  h[s] = SumStep(h, f, s) /\ k[s] = SumStep(k, f, s) /\ IsFiniteSet(s)
  BY FS_Subset DEF IsSum
<1>2. 0 \in T
  <2>1. ASSUME NEW s \in SUBSET A, Cardinality(s) <= 0
        PROVE  h[s] = k[s]
    <3>1. s = {}
      BY <1>1, <2>1, FS_CardinalityType, FS_EmptySet
    <3> QED
      BY <1>1, <3>1 DEF SumStep
  <2> QED
    BY <2>1
<1>3. ASSUME NEW n \in Nat, n \in T
      PROVE  n + 1 \in T
  <2>1. ASSUME NEW s \in SUBSET A, Cardinality(s) <= n + 1, s # {}
        PROVE  h[s] = k[s]
    <3>1. Chosen(s) \in s /\ s \ {Chosen(s)} \in SUBSET A
      BY <2>1, ChosenIn
    <3>2. Cardinality(s \ {Chosen(s)}) <= n
      BY <1>1, <2>1, <3>1, Smaller
    <3>3. h[s \ {Chosen(s)}] = k[s \ {Chosen(s)}]
      BY <1>3, <3>1, <3>2
    <3> QED
      BY <1>1, <2>1, <3>3 DEF SumStep
  <2>2. h[{}] = k[{}]
    BY <1>1 DEF SumStep
  <2>3. ASSUME NEW s \in SUBSET A, Cardinality(s) <= n + 1
        PROVE  h[s] = k[s]
    BY <2>1, <2>2, <2>3
  <2> QED
    BY <2>3
<1> HIDE DEF T
<1>4. \A n \in Nat : n \in T
  BY <1>2, <1>3, SetInduction
<1>5. ASSUME NEW s \in SUBSET A
      PROVE  h[s] = k[s]
  <2>1. PICK n \in Nat : n = Cardinality(s)
    BY <1>1, FS_CardinalityType
  <2>2. n \in T /\ Cardinality(s) <= n
    BY <1>4, <2>1
  <2> QED
    BY <2>2 DEF T
<1> QED
  BY <1>5

\* A sum is what is left when an element is taken out, and that element.
THEOREM SumTakesOne ==
    ASSUME NEW D, NEW f \in [D -> Int], NEW S \in SUBSET D, IsFiniteSet(S)
    PROVE  /\ SumOf(f, S) \in Int
           /\ SumOf(f, {}) = 0
           /\ S # {} => SumOf(f, S) = f[Chosen(S)] + SumOf(f, S \ {Chosen(S)})
<1>1. PICK k \in [SUBSET S -> Int] : IsSum(k, f, S)
  BY SumExists
<1>2. ASSUME NEW s \in SUBSET S
      PROVE  SumOf(f, s) = k[s]
  <2>1. IsFiniteSet(s) /\ s \in SUBSET D
    BY FS_Subset
  <2>2. PICK h : IsSum(h, f, s) /\ SumOf(f, s) = h[s]
    BY <2>1, SumExists, SumUnfolds
  <2> QED
    BY <1>1, <2>2, SumsAgree
<1>3. k[{}] = 0
  BY <1>1 DEF IsSum, SumStep
<1>4. S # {} => k[S] = f[Chosen(S)] + k[S \ {Chosen(S)}]
  BY <1>1 DEF IsSum, SumStep
<1> QED
  BY <1>2, <1>3, <1>4

\* Any element may be taken out first.
THEOREM SumRemove ==
    ASSUME NEW D, NEW f \in [D -> Int], NEW S \in SUBSET D, IsFiniteSet(S), NEW x \in S
    PROVE  SumOf(f, S) = f[x] + SumOf(f, S \ {x})
<1> DEFINE Out(s) == \A y \in s : SumOf(f, s) = f[y] + SumOf(f, s \ {y})
           T == {n \in Nat : \A s \in SUBSET S : Cardinality(s) <= n => Out(s)}
<1>1. ASSUME NEW s \in SUBSET S
      PROVE  IsFiniteSet(s) /\ s \in SUBSET D /\ SumOf(f, s) \in Int
  BY FS_Subset, SumTakesOne
<1>2. 0 \in T
  <2>1. ASSUME NEW s \in SUBSET S, Cardinality(s) <= 0
        PROVE  Out(s)
    BY <1>1, <2>1, FS_CardinalityType, FS_EmptySet
  <2> HIDE DEF Out
  <2> QED
    BY <2>1
<1>3. ASSUME NEW n \in Nat, n \in T
      PROVE  n + 1 \in T
  <2>1. ASSUME NEW s \in SUBSET S, Cardinality(s) <= n + 1, NEW y \in s
        PROVE  SumOf(f, s) = f[y] + SumOf(f, s \ {y})
    <3> PICK c : c = Chosen(s)
      OBVIOUS
    <3>1. c \in s /\ IsFiniteSet(s)
      BY <1>1, <2>1, ChosenIn
    <3>2. SumOf(f, s) = f[c] + SumOf(f, s \ {c})
      BY <1>1, <2>1, SumTakesOne
    <3>3. CASE y = c
      BY <3>2, <3>3
    <3>4. CASE y # c
      <4>1. Cardinality(s \ {c}) <= n /\ Cardinality(s \ {y}) <= n
        BY <2>1, <3>1, Smaller
      <4>2. Out(s \ {c}) /\ Out(s \ {y})
        BY <1>3, <4>1
      <4> PICK rest : rest = SumOf(f, (s \ {c}) \ {y})
        OBVIOUS
      <4>3. (s \ {c}) \ {y} = (s \ {y}) \ {c}
        OBVIOUS
      <4>4. SumOf(f, s \ {c}) = f[y] + rest
        BY <2>1, <3>4, <4>2
      <4>5. SumOf(f, s \ {y}) = f[c] + rest
        BY <3>1, <3>4, <4>2, <4>3
      <4>6. f[c] \in Int /\ f[y] \in Int /\ rest \in Int
        BY <1>1, <2>1, <3>1
      <4> QED
        BY <3>2, <4>4, <4>5, <4>6
    <3> QED
      BY <3>3, <3>4
  <2>2. ASSUME NEW s \in SUBSET S, Cardinality(s) <= n + 1
        PROVE  Out(s)
    BY <2>1, <2>2
  <2> HIDE DEF Out
  <2> QED
    BY <2>2
<1> HIDE DEF T
<1>4. \A n \in Nat : n \in T
  BY <1>2, <1>3, SetInduction
<1>5. PICK n \in Nat : n = Cardinality(S)
  BY FS_CardinalityType
<1>6. Out(S)
  <2>1. n \in T /\ Cardinality(S) <= n
    BY <1>4, <1>5
  <2> HIDE DEF Out
  <2> QED
    BY <2>1 DEF T
<1> QED
  BY <1>6

\* Induction over the subsets of a finite set.
THEOREM SubsetInduction ==
    ASSUME NEW S, IsFiniteSet(S), NEW T, {} \in T,
           \A s \in SUBSET S, x \in S : s \in T => s \cup {x} \in T
    PROVE  \A s \in SUBSET S : s \in T
<1> DEFINE U == {n \in Nat : \A s \in SUBSET S : Cardinality(s) <= n => s \in T}
<1>1. \A s \in SUBSET S : IsFiniteSet(s)
  BY FS_Subset
<1>2. 0 \in U
  <2>1. ASSUME NEW s \in SUBSET S, Cardinality(s) <= 0
        PROVE  s = {}
    BY <1>1, <2>1, FS_CardinalityType, FS_EmptySet
  <2> QED
    BY <2>1
<1>3. ASSUME NEW n \in Nat, n \in U
      PROVE  n + 1 \in U
  <2>1. ASSUME NEW s \in SUBSET S, Cardinality(s) <= n + 1, NEW x \in s
        PROVE  s \in T
    <3>1. Cardinality(s \ {x}) <= n
      BY <1>1, <2>1, Smaller
    <3>2. s \ {x} \in T
      BY <1>3, <3>1
    <3>3. (s \ {x}) \cup {x} \in T
      BY <3>2
    <3>4. (s \ {x}) \cup {x} = s
      OBVIOUS
    <3> QED
      BY <3>3, <3>4
  <2>2. ASSUME NEW s \in SUBSET S, Cardinality(s) <= n + 1
        PROVE  s \in T
    <3>1. CASE s = {}
      BY <3>1
    <3>2. CASE s # {}
      BY <2>1, <2>2, <3>2
    <3> QED
      BY <3>1, <3>2
  <2> QED
    BY <2>2
<1> HIDE DEF U
<1>4. \A n \in Nat : n \in U
  BY <1>2, <1>3, SetInduction
<1>5. ASSUME NEW s \in SUBSET S
      PROVE  s \in T
  <2>1. PICK n \in Nat : n = Cardinality(s)
    BY <1>1, FS_CardinalityType
  <2>2. n \in U /\ Cardinality(s) <= n
    BY <1>4, <2>1
  <2> QED
    BY <2>2 DEF U
<1> QED
  BY <1>5

\* An element that is added adds its value.
THEOREM SumAdd ==
    ASSUME NEW D, NEW f \in [D -> Int], NEW S \in SUBSET D, IsFiniteSet(S), NEW x \in D, x \notin S
    PROVE  /\ SumOf(f, S) \in Int
           /\ SumOf(f, S \cup {x}) = SumOf(f, S) + f[x]
<1>1. IsFiniteSet(S \cup {x}) /\ S \cup {x} \in SUBSET D /\ x \in S \cup {x}
  BY FS_AddElement
<1>2. (S \cup {x}) \ {x} = S
  OBVIOUS
<1>3. SumOf(f, S \cup {x}) = f[x] + SumOf(f, S)
  BY <1>1, <1>2, SumRemove
<1>4. SumOf(f, S) \in Int /\ f[x] \in Int
  BY SumTakesOne
<1> QED
  BY <1>3, <1>4

\* Only the values in S count.
THEOREM SumSame ==
    ASSUME NEW D, NEW f \in [D -> Int], NEW E, NEW g \in [E -> Int], NEW S,
           IsFiniteSet(S), S \subseteq D, S \subseteq E, \A x \in S : f[x] = g[x]
    PROVE  SumOf(f, S) = SumOf(g, S)
<1> DEFINE T == {s \in SUBSET S : SumOf(f, s) = SumOf(g, s)}
<1>1. \A s \in SUBSET S : IsFiniteSet(s) /\ s \in SUBSET D /\ s \in SUBSET E
  BY FS_Subset
<1>2. {} \in T
  BY <1>1, SumTakesOne
<1>3. ASSUME NEW s \in SUBSET S, NEW x \in S, s \in T
      PROVE  s \cup {x} \in T
  <2>1. CASE x \in s
    <3>1. s \cup {x} = s
      BY <2>1
    <3> QED
      BY <1>3, <3>1
  <2>2. CASE x \notin s
    <3>1. SumOf(f, s \cup {x}) = SumOf(f, s) + f[x]
      BY <1>1, <2>2, SumAdd
    <3>2. SumOf(g, s \cup {x}) = SumOf(g, s) + g[x]
      BY <1>1, <2>2, SumAdd
    <3> QED
      BY <1>3, <3>1, <3>2
  <2> QED
    BY <2>1, <2>2
<1> HIDE DEF T
<1>4. \A s \in SUBSET S : s \in T
  BY <1>2, <1>3, SubsetInduction
<1> QED
  BY <1>4 DEF T

\* One value changed.
THEOREM SumChange ==
    ASSUME NEW D, NEW f \in [D -> Int], NEW g \in [D -> Int], NEW S \in SUBSET D,
           IsFiniteSet(S), NEW x \in S, \A y \in S \ {x} : g[y] = f[y]
    PROVE  /\ SumOf(f, S) \in Int
           /\ SumOf(g, S) = SumOf(f, S) - f[x] + g[x]
<1>1. IsFiniteSet(S \ {x}) /\ S \ {x} \in SUBSET D
  BY FS_RemoveElement
<1>2. SumOf(f, S) = f[x] + SumOf(f, S \ {x}) /\ SumOf(g, S) = g[x] + SumOf(g, S \ {x})
  BY SumRemove
<1>3. SumOf(f, S \ {x}) = SumOf(g, S \ {x})
  BY <1>1, SumSame
<1>4. SumOf(f, S \ {x}) \in Int /\ SumOf(f, S) \in Int
  BY <1>1, SumTakesOne
<1> QED
  BY <1>2, <1>3, <1>4

\* Two sets without a common element.
THEOREM SumUnion ==
    ASSUME NEW D, NEW f \in [D -> Int], NEW A \in SUBSET D, NEW B \in SUBSET D,
           IsFiniteSet(A), IsFiniteSet(B), A \cap B = {}
    PROVE  SumOf(f, A \cup B) = SumOf(f, A) + SumOf(f, B)
<1> DEFINE T == {s \in SUBSET B : SumOf(f, A \cup s) = SumOf(f, A) + SumOf(f, s)}
<1>1. \A s \in SUBSET B : IsFiniteSet(s) /\ s \in SUBSET D /\ IsFiniteSet(A \cup s)
  BY FS_Subset, FS_Union
<1>2. SumOf(f, A) \in Int
  BY SumTakesOne
<1>3. {} \in T
  <2>1. A \cup {} = A /\ SumOf(f, {}) = 0
    BY SumTakesOne
  <2> QED
    BY <1>2, <2>1
<1>4. ASSUME NEW s \in SUBSET B, NEW x \in B, s \in T
      PROVE  s \cup {x} \in T
  <2>1. CASE x \in s
    <3>1. s \cup {x} = s
      BY <2>1
    <3> QED
      BY <1>4, <3>1
  <2>2. CASE x \notin s
    <3>0. PICK U : U = A \cup s
      OBVIOUS
    <3>1. /\ s \in SUBSET D /\ IsFiniteSet(s) /\ x \in D
          /\ U \in SUBSET D /\ x \notin U /\ IsFiniteSet(U)
      BY <1>1, <2>2, <3>0
    <3>2. SumOf(f, s) \in Int /\ SumOf(f, s \cup {x}) = SumOf(f, s) + f[x]
      <4>1. SumOf(f, s \cup {x}) = SumOf(f, s) + f[x]
        BY <2>2, <3>1, SumAdd
      <4>2. SumOf(f, s) \in Int
        BY <3>1, SumTakesOne
      <4> QED
        BY <4>1, <4>2
    <3>3. U \cup {x} = A \cup (s \cup {x})
      BY <3>0
    <3>4. SumOf(f, A \cup (s \cup {x})) = SumOf(f, A \cup s) + f[x]
      <4>1. SumOf(f, U \cup {x}) = SumOf(f, U) + f[x]
        BY <3>1, SumAdd
      <4> QED
        BY <3>0, <3>3, <4>1
    <3>5. f[x] \in Int /\ SumOf(f, A \cup s) = SumOf(f, A) + SumOf(f, s)
      BY <1>4, <3>1
    <3>6. SumOf(f, A \cup (s \cup {x})) = SumOf(f, A) + SumOf(f, s \cup {x})
      BY <1>2, <3>2, <3>4, <3>5
    <3> QED
      BY <3>6
  <2> QED
    BY <2>1, <2>2
<1> HIDE DEF T
<1>5. \A s \in SUBSET B : s \in T
  BY <1>3, <1>4, SubsetInduction
<1> QED
  BY <1>5 DEF T

\* A sum of nothing but zeros.
THEOREM SumZero ==
    ASSUME NEW D, NEW f \in [D -> Int], NEW S \in SUBSET D, IsFiniteSet(S), \A x \in S : f[x] = 0
    PROVE  SumOf(f, S) = 0
<1> DEFINE T == {s \in SUBSET S : SumOf(f, s) = 0}
<1>1. \A s \in SUBSET S : IsFiniteSet(s) /\ s \in SUBSET D
  BY FS_Subset
<1>2. {} \in T
  BY <1>1, SumTakesOne
<1>3. ASSUME NEW s \in SUBSET S, NEW x \in S, s \in T
      PROVE  s \cup {x} \in T
  <2>1. CASE x \in s
    <3>1. s \cup {x} = s
      BY <2>1
    <3> QED
      BY <1>3, <3>1
  <2>2. CASE x \notin s
    <3>1. SumOf(f, s \cup {x}) = SumOf(f, s) + f[x]
      BY <1>1, <2>2, SumAdd
    <3> QED
      BY <1>3, <3>1
  <2> QED
    BY <2>1, <2>2
<1> HIDE DEF T
<1>4. \A s \in SUBSET S : s \in T
  BY <1>2, <1>3, SubsetInduction
<1> QED
  BY <1>4 DEF T

\* One value grows by one.
LEMMA SumRises ==
    ASSUME NEW D, IsFiniteSet(D), NEW f \in [D -> Int], NEW g \in [D -> Int], NEW x \in D,
           g[x] = f[x] + 1, \A y \in D \ {x} : g[y] = f[y]
    PROVE  SumOf(g, D) = SumOf(f, D) + 1
<1>1. SumOf(f, D) \in Int /\ SumOf(g, D) = SumOf(f, D) - f[x] + g[x]
  BY SumChange
<1> QED
  BY <1>1

\* One value falls by one.
LEMMA SumFalls ==
    ASSUME NEW D, IsFiniteSet(D), NEW f \in [D -> Int], NEW g \in [D -> Int], NEW x \in D,
           g[x] = f[x] - 1, \A y \in D \ {x} : g[y] = f[y]
    PROVE  SumOf(g, D) = SumOf(f, D) - 1
<1>1. SumOf(f, D) \in Int /\ SumOf(g, D) = SumOf(f, D) - f[x] + g[x]
  BY SumChange
<1> QED
  BY <1>1

\* A sequence of numbers gets longer.
LEMMA SumGrows ==
    ASSUME NEW k \in Nat, NEW f \in [1..k -> Int], NEW g \in [1..(k + 1) -> Int],
           \A i \in 1..k : g[i] = f[i]
    PROVE  /\ SumOf(f, 1..k) \in Int
           /\ SumOf(g, 1..(k + 1)) = SumOf(f, 1..k) + g[k + 1]
<1>1. IsFiniteSet(1..k) /\ IsFiniteSet(1..(k + 1))
  BY FS_Interval
<1>2. /\ k + 1 \in 1..(k + 1) /\ (1..(k + 1)) \ {k + 1} = 1..k
      /\ 1..k \subseteq 1..(k + 1)
  OBVIOUS
<1>3. SumOf(g, 1..(k + 1)) = g[k + 1] + SumOf(g, (1..(k + 1)) \ {k + 1})
  BY <1>1, <1>2, SumRemove
<1>4. SumOf(g, 1..k) = SumOf(f, 1..k)
  BY <1>1, <1>2, SumSame
<1>5. SumOf(f, 1..k) \in Int /\ g[k + 1] \in Int
  BY <1>1, <1>2, SumTakesOne
<1>6. SumOf(g, 1..(k + 1)) = g[k + 1] + SumOf(f, 1..k)
  BY <1>2, <1>3, <1>4, Zenon
<1> QED
  BY <1>5, <1>6

\* A number is appended to a sequence of numbers.
LEMMA SumAppend ==
    ASSUME NEW q \in Seq(Nat), NEW n \in Nat
    PROVE  /\ SumOf(q, DOMAIN q) \in Int
           /\ SumOf(Append(q, n), DOMAIN Append(q, n)) = SumOf(q, DOMAIN q) + n
<1>0. PICK r : r = Append(q, n)
  OBVIOUS
<1>1. PICK k \in Nat : k = Len(q)
  OBVIOUS
<1>2. /\ DOMAIN q = 1..k /\ DOMAIN r = 1..(k + 1) /\ r[k + 1] = n
      /\ r \in Seq(Nat) /\ Len(r) = k + 1 /\ \A i \in 1..k : r[i] = q[i]
  BY <1>0, <1>1
<1>3. q \in [1..k -> Int] /\ r \in [1..(k + 1) -> Int]
  BY <1>1, <1>2
<1>4. /\ SumOf(q, 1..k) \in Int
      /\ SumOf(r, 1..(k + 1)) = SumOf(q, 1..k) + r[k + 1]
  BY <1>2, <1>3, SumGrows
<1> QED
  BY <1>0, <1>2, <1>4

\* A finite set has finitely many images.
LEMMA ImageFinite ==
    ASSUME NEW S, IsFiniteSet(S), NEW f, DOMAIN f = S
    PROVE  IsFiniteSet({f[x] : x \in S})
<1> PICK T : T = {f[x] : x \in S}
  OBVIOUS
<1> PICK g : g = [x \in S |-> f[x]]
  OBVIOUS
<1>1. g \in Surjection(S, T)
  BY DEF Surjection
<1> QED
  BY <1>1, FS_Surjection

\* What is summed up group by group is summed up.
THEOREM SumBy ==
    ASSUME NEW D, NEW f \in [D -> Int], NEW K \in SUBSET D, IsFiniteSet(K),
           NEW R, IsFiniteSet(R), NEW key \in [K -> R], NEW h \in [R -> Int],
           \A r \in R : h[r] = SumOf(f, {k \in K : key[k] = r})
    PROVE  SumOf(h, R) = SumOf(f, K)
<1> DEFINE In(s) == {k \in K : key[k] \in s}
           T == {s \in SUBSET R : SumOf(h, s) = SumOf(f, In(s))}
<1>1. \A s \in SUBSET R : IsFiniteSet(s) /\ IsFiniteSet(In(s)) /\ In(s) \in SUBSET D
  BY FS_Subset
<1>2. {} \in T
  <2>1. In({}) = {}
    OBVIOUS
  <2>2. SumOf(f, {}) = 0 /\ SumOf(h, {}) = 0
    BY SumTakesOne
  <2> QED
    BY <2>1, <2>2
<1>3. ASSUME NEW s \in SUBSET R, NEW x \in R, s \in T
      PROVE  s \cup {x} \in T
  <2>1. CASE x \in s
    <3>1. s \cup {x} = s
      BY <2>1
    <3> QED
      BY <1>3, <3>1
  <2>2. CASE x \notin s
    <3> DEFINE A == In(s)
               B == {k \in K : key[k] = x}
    <3>1. In(s \cup {x}) = A \cup B /\ A \cap B = {}
      BY <2>2
    <3>2. IsFiniteSet(A) /\ IsFiniteSet(B) /\ A \in SUBSET D /\ B \in SUBSET D
      BY FS_Subset
    <3>3. SumOf(h, s \cup {x}) = SumOf(h, s) + h[x]
      <4>1. IsFiniteSet(s)
        BY <1>1
      <4> QED
        BY <2>2, <4>1, SumAdd
    <3>4. SumOf(h, s) = SumOf(f, A) /\ h[x] = SumOf(f, B)
      BY <1>3
    <3>5. s \cup {x} \in SUBSET R
      OBVIOUS
    <3>6. In(s \cup {x}) = A \cup B
      BY <3>1
    <3> HIDE DEF A, B, In
    <3>7. SumOf(f, A \cup B) = SumOf(f, A) + SumOf(f, B)
      BY <3>1, <3>2, SumUnion
    <3> QED
      BY <3>3, <3>4, <3>5, <3>6, <3>7
  <2> QED
    BY <2>1, <2>2
<1>4. R \in SUBSET R /\ In(R) = K
  OBVIOUS
<1> HIDE DEF T
<1>5. \A s \in SUBSET R : s \in T
  BY <1>2, <1>3, SubsetInduction
<1>6. R \in T
  BY <1>4, <1>5
<1> QED
  BY <1>4, <1>6 DEF T

-----------------------------------------------------------------------------
\* A left fold goes by the largest index first.
LEMMA LargestOf ==
    ASSUME NEW i \in Nat, NEW s \in SUBSET (1..i), i \in s
    PROVE  Max(s) = i
<1>1. \A x \in s : x \in Int /\ i >= x
  OBVIOUS
<1>2. PICK m : m = Max(s)
  OBVIOUS
<1>3. m \in s /\ \A x \in s : m >= x
  BY <1>1, <1>2 DEF Max
<1> QED
  BY <1>1, <1>2, <1>3

LEMMA LargestElement ==
    ASSUME NEW N \in Nat, NEW s \in SUBSET (1..N), s # {}
    PROVE  \E m \in s : \A x \in s : m >= x
<1>0. s \subseteq Nat /\ \A x \in s : x \in Nat /\ N - x \in Nat
  OBVIOUS
<1> PICK T : T = {N - x : x \in s}
  OBVIOUS
<1>1. T \subseteq Nat
  BY <1>0
<1>2. PICK y : y \in s
  OBVIOUS
<1>3. N - y \in T
  BY <1>2
<1>4. PICK d \in T : \A e \in T : d <= e
  BY <1>1, <1>3, LeastElement
<1>5. PICK m \in s : d = N - m
  OBVIOUS
<1>6. ASSUME NEW x \in s PROVE m >= x
  <2>1. N - x \in T
    OBVIOUS
  <2>2. d <= N - x
    BY <1>4, <2>1
  <2> QED
    BY <1>0, <1>5, <2>2
<1> QED
  BY <1>6

\* How a left fold over a sequence of length N is defined: the element with the
\* largest index is taken last.
IsFold(h, N, base, step) ==
    h = [s \in SUBSET (1..N) |-> IF s = {} THEN base ELSE step[Max(s)][h[s \ {Max(s)}]]]

\* There is such a function.
THEOREM FoldExists ==
    ASSUME NEW N \in Nat, NEW S, NEW base \in S, NEW step \in [1..N -> [S -> S]]
    PROVE  \E h \in [SUBSET (1..N) -> S] : IsFold(h, N, base, step)
<1> DEFINE F(n) == \E h \in [SUBSET (1..n) -> S] : IsFold(h, n, base, step)
<1>0. PICK T : T = {n \in Nat : n <= N => F(n)}
  OBVIOUS
<1>1. 0 \in T
  <2>1. PICK h : h = [s \in SUBSET (1..0) |-> base]
    OBVIOUS
  <2>2. \A s \in SUBSET (1..0) : s = {}
    OBVIOUS
  <2>3. h \in [SUBSET (1..0) -> S] /\ IsFold(h, 0, base, step)
    BY <2>1, <2>2 DEF IsFold
  <2>4. F(0)
    BY <2>3
  <2> HIDE DEF F
  <2> QED
    BY <1>0, <2>4
<1>2. ASSUME NEW n \in Nat, n \in T PROVE n + 1 \in T
  <2> SUFFICES ASSUME n + 1 <= N PROVE F(n + 1)
    <3> HIDE DEF F
    <3> QED
      BY <1>0
  <2>0. F(n)
    <3> HIDE DEF F
    <3>1. n <= N
      OBVIOUS
    <3> QED
      BY <1>0, <1>2, <3>1
  <2>1. PICK h \in [SUBSET (1..n) -> S] : IsFold(h, n, base, step)
    BY <2>0
  <2>2. PICK g : g = [s \in SUBSET (1..(n + 1)) |->
                        IF n + 1 \in s THEN step[n + 1][h[s \ {n + 1}]] ELSE h[s]]
    OBVIOUS
  <2>3. ASSUME NEW s \in SUBSET (1..(n + 1))
        PROVE  IF n + 1 \in s THEN s \ {n + 1} \in SUBSET (1..n) ELSE s \in SUBSET (1..n)
    OBVIOUS
  <2>4. step[n + 1] \in [S -> S]
    <3>1. n + 1 \in 1..N
      OBVIOUS
    <3> QED
      BY <3>1
  <2>5. g \in [SUBSET (1..(n + 1)) -> S]
    BY <2>2, <2>3, <2>4
  <2>6. ASSUME NEW s \in SUBSET (1..n) PROVE g[s] = h[s]
    BY <2>2
  <2> DEFINE G(s) == IF s = {} THEN base ELSE step[Max(s)][g[s \ {Max(s)}]]
  <2>7. ASSUME NEW s \in SUBSET (1..(n + 1))
        PROVE  g[s] = G(s)
    <3>1. CASE n + 1 \in s
      <4>1. Max(s) = n + 1 /\ s \ {n + 1} \in SUBSET (1..n)
        BY <3>1, LargestOf
      <4>2. g[s \ {n + 1}] = h[s \ {n + 1}]
        BY <2>6, <4>1
      <4>3. g[s] = step[n + 1][h[s \ {n + 1}]]
        BY <2>2, <3>1
      <4> QED
        BY <3>1, <4>1, <4>2, <4>3
    <3>2. CASE n + 1 \notin s
      <4>1. s \in SUBSET (1..n) /\ s \ {Max(s)} \in SUBSET (1..n)
        <5>1. s \in SUBSET (1..n)
          BY <2>3, <3>2
        <5> QED
          BY <5>1
      <4>2. g[s] = h[s] /\ g[s \ {Max(s)}] = h[s \ {Max(s)}]
        BY <2>6, <4>1
      <4>3. h[s] = IF s = {} THEN base ELSE step[Max(s)][h[s \ {Max(s)}]]
        BY <2>1, <4>1 DEF IsFold
      <4> QED
        BY <4>2, <4>3
    <3> QED
      BY <3>1, <3>2
  <2>8. IsFold(g, n + 1, base, step)
    <3> HIDE DEF G
    <3>1. g = [s \in SUBSET (1..(n + 1)) |-> G(s)]
      BY <2>5, <2>7
    <3> QED
      BY <3>1 DEF IsFold, G
  <2> QED
    BY <2>5, <2>8
<1> HIDE DEF F
<1>3. \A n \in Nat : n \in T
  BY <1>1, <1>2, SetInduction
<1>4. F(N)
  BY <1>0, <1>3
<1> QED
  BY <1>4 DEF F

\* The last index of a set of indices is one of them.
LEMMA LargestIn ==
    ASSUME NEW N \in Nat, NEW s \in SUBSET (1..N), s # {}
    PROVE  Max(s) \in s /\ Max(s) \in 1..N /\ s \ {Max(s)} \in SUBSET (1..N)
<1>1. PICK m \in s : \A x \in s : m >= x
  BY LargestElement
<1>2. Max(s) \in s
  BY <1>1 DEF Max
<1> QED
  BY <1>2

\* The indices up to i.
LEMMA UpToIndex ==
    ASSUME NEW N \in Nat, NEW i \in 1..N
    PROVE  /\ 1..i \in SUBSET (1..N) /\ 1..i # {} /\ (1..i) \ {i} = 1..(i - 1)
           /\ Max(1..i) = i
<1>1. 1..i \in SUBSET (1..i) /\ i \in 1..i /\ i \in Nat
  OBVIOUS
<1>2. Max(1..i) = i
  BY <1>1, LargestOf
<1>3. 1..i \in SUBSET (1..N) /\ 1..i # {} /\ (1..i) \ {i} = 1..(i - 1)
  BY <1>1
<1> QED
  BY <1>2, <1>3
=============================================================================
