--------------------------- MODULE ArithTheorems ---------------------------
(***************************************************************************)
(* Facts about residues modulo any q, and about SumFunctionOnSet, the sum  *)
(* with which the models write SUM(Qis), the deltas of a refresh and       *)
(* bn_t::from_bin, over index sets of any finite size.  Induction is by a  *)
(* least counterexample.                                                   *)
(***************************************************************************)
EXTENDS Integers, FiniteSets, Functions, FiniteSetTheorems, WellFoundedInduction, TLAPS

LEMMA LeastNat ==
  ASSUME NEW T \in SUBSET Nat, T # {}
  PROVE  \E n \in T : \A m \in T : n <= m
<1> DEFINE R == {ss \in Nat \X Nat : ss[1] < ss[2]}
<1>1. IsWellFoundedOn(R, Nat)
  BY NatLessThanWellFounded DEF OpToRel
<1>2. \A m, n \in Nat : <<m, n>> \in R <=> m < n
  OBVIOUS
<1> HIDE DEF R
<1>3. PICK n \in T : \A m \in T : ~ (<<m, n>> \in R)
  BY <1>1, WFMin
<1>4. \A m \in T : n <= m
  <2> TAKE m \in T
  <2>1. n \in Nat /\ m \in Nat /\ ~ (m < n)
    BY <1>2, <1>3
  <2> QED
    BY <2>1
<1> QED
  BY <1>4

(* Induction over the naturals, for a set.                                 *)
LEMMA NatInd ==
  ASSUME NEW T \in SUBSET Nat, 0 \in T, \A n \in T : n + 1 \in T
  PROVE  T = Nat
<1> SUFFICES ASSUME Nat \ T # {} PROVE FALSE
  OBVIOUS
<1>1. PICK n \in Nat \ T : \A m \in Nat \ T : n <= m
  BY LeastNat
<1>2. n # 0 /\ n - 1 \in Nat
  BY <1>1
<1>3. n - 1 \in T
  <2> SUFFICES ASSUME n - 1 \notin T PROVE FALSE
    OBVIOUS
  <2>1. n <= n - 1
    BY <1>1, <1>2
  <2> QED
    BY <2>1
<1>4. (n - 1) + 1 \in T
  BY <1>3
<1> QED
  BY <1>1, <1>4

(* Induction over the subsets of a finite set, for a set of subsets.       *)
LEMMA SubsetInd ==
  ASSUME NEW S, IsFiniteSet(S), NEW T,
         \A A \in SUBSET S : (\A x \in A : A \ {x} \in T) => A \in T
  PROVE  \A A \in SUBSET S : A \in T
<1> DEFINE U == {n \in Nat : \A A \in SUBSET S : Cardinality(A) = n => A \in T}
<1>0. \A A \in SUBSET S : IsFiniteSet(A) /\ Cardinality(A) \in Nat
  BY FS_Subset, FS_CardinalityType
<1>1. 0 \in U
  <2> SUFFICES ASSUME NEW A \in SUBSET S, Cardinality(A) = 0 PROVE A \in T
    OBVIOUS
  <2>1. A = {}
    BY <1>0, FS_EmptySet
  <2> QED
    BY <2>1
<1>2. ASSUME NEW n \in U PROVE n + 1 \in U
  <2> SUFFICES ASSUME NEW A \in SUBSET S, Cardinality(A) = n + 1 PROVE A \in T
    OBVIOUS
  <2>1. ASSUME NEW x \in A PROVE A \ {x} \in T
    <3>1. Cardinality(A \ {x}) = n
      BY <1>0, FS_RemoveElement
    <3> QED
      BY <3>1
  <2> QED
    BY <2>1
<1>3. U = Nat
  <2> HIDE DEF U
  <2> QED
    BY <1>1, <1>2, NatInd DEF U
<1> QED
  BY <1>0, <1>3

-----------------------------------------------------------------------------
(* Residues modulo any q.                                                  *)
LEMMA ModDef ==
  ASSUME NEW q \in Nat \ {0}, NEW a \in Int
  PROVE  a % q \in 0 .. q - 1 /\ a \div q \in Int /\ a = q * (a \div q) + (a % q)
OBVIOUS

LEMMA ModUnique ==
  ASSUME NEW q \in Nat \ {0}, NEW a \in Int, NEW k \in Int, NEW r \in 0 .. q - 1, a = q * k + r
  PROVE  a % q = r
OBVIOUS

LEMMA ModSmall ==
  ASSUME NEW q \in Nat \ {0}, NEW a \in 0 .. q - 1
  PROVE  a % q = a
BY ModUnique

LEMMA Distribute ==
  ASSUME NEW q \in Int, NEW k \in Int, NEW l \in Int
  PROVE  q * k + q * l = q * (k + l) /\ q * k - q * l = q * (k - l)
OBVIOUS

(* A residue is the number less a multiple of q.                           *)
LEMMA ModPick ==
  ASSUME NEW q \in Nat \ {0}, NEW a \in Int
  PROVE  \E k \in Int : a % q \in 0 .. q - 1 /\ a = (a % q) + q * k
<1>1. a % q \in 0 .. q - 1 /\ a \div q \in Int /\ a = q * (a \div q) + (a % q)
  BY ModDef
<1> DEFINE r == a % q
           k == a \div q
<1> HIDE DEF r, k
<1>2. r \in 0 .. q - 1 /\ k \in Int /\ a = q * k + r
  BY <1>1 DEF r, k
<1>3. a = r + q * k
  BY <1>2
<1> QED
  BY <1>2, <1>3 DEF r

(* Numbers that differ by a multiple of q have the same residue.           *)
LEMMA ModShift ==
  ASSUME NEW q \in Nat \ {0}, NEW a \in Int, NEW b \in Int, NEW k \in Int, b = a + q * k
  PROVE  b % q = a % q
<1> DEFINE r == a % q
           d == a \div q
<1>1. r \in 0 .. q - 1 /\ d \in Int /\ a = q * d + r
  BY ModDef
<1> HIDE DEF r, d
<1>2. q * d + q * k = q * (d + k)
  BY <1>1, Distribute
<1>3. d + k \in Int /\ b = q * (d + k) + r
  BY <1>1, <1>2
<1>4. b % q = r
  <2> DEFINE e == d + k
  <2>1. e \in Int /\ b = q * e + r
    BY <1>3
  <2> HIDE DEF e
  <2> QED
    BY <1>1, <2>1, ModUnique
<1> QED
  BY <1>4 DEF r

LEMMA ModSum ==
  ASSUME NEW q \in Nat \ {0}, NEW a \in Int, NEW b \in Int
  PROVE  ((a % q) + b) % q = (a + b) % q
<1> DEFINE r == a % q
<1>1. PICK k \in Int : r \in 0 .. q - 1 /\ a = r + q * k
  BY ModPick
<1> HIDE DEF r
<1>2. (a + b) % q = (r + b) % q
  <2> DEFINE y == a + b
             x == r + b
  <2>1. x \in Int /\ y \in Int /\ y = x + q * k
    BY <1>1
  <2> HIDE DEF x, y
  <2>2. y % q = x % q
    BY <1>1, <2>1, ModShift
  <2> QED
    BY <2>2 DEF x, y
<1> QED
  BY <1>2 DEF r

-----------------------------------------------------------------------------
(* The recursion behind the sums.                                          *)
Pick(s) == CHOOSE x \in s : TRUE

Body(f, g, s) == IF s = {} THEN 0 ELSE f[Pick(s)] + g[s \ {Pick(s)}]

Iter(f, S) == CHOOSE g : g = [s \in SUBSET S |-> Body(f, g, s)]

LEMMA SumIsIter ==
  ASSUME NEW f, NEW S
  PROVE  SumFunctionOnSet(f, S) = Iter(f, S)[S]
BY DEF SumFunctionOnSet, FoldFunctionOnSet, MapThenFoldSet, Iter, Body, Pick

LEMMA IterExists ==
  ASSUME NEW f, NEW S, IsFiniteSet(S)
  PROVE  \E g : g = [s \in SUBSET S |-> Body(f, g, s)]
<1> DEFINE Good(g, n) == \A s \in SUBSET S : Cardinality(s) <= n => g[s] = Body(f, g, s)
           U == {n \in Nat : \E g : Good(g, n)}
<1>0. \A s \in SUBSET S : IsFiniteSet(s) /\ Cardinality(s) \in Nat
  BY FS_Subset, FS_CardinalityType
<1>1. 0 \in U
  <2> DEFINE g == [s \in SUBSET S |-> 0]
  <2>1. \A s \in SUBSET S : Cardinality(s) <= 0 => s = {}
    BY <1>0, FS_EmptySet
  <2>2. Good(g, 0)
    BY <2>1 DEF Body
  <2> QED
    BY <2>2
<1>2. ASSUME NEW n \in U PROVE n + 1 \in U
  <2>1. PICK g : Good(g, n)
    OBVIOUS
  <2> DEFINE h == [s \in SUBSET S |-> IF Cardinality(s) <= n THEN g[s] ELSE Body(f, g, s)]
  <2>2. ASSUME NEW s \in SUBSET S, Cardinality(s) <= n + 1 PROVE h[s] = Body(f, h, s)
    <3>1. h[s] = Body(f, g, s)
      BY <2>1
    <3>2. CASE s = {}
      BY <3>1, <3>2 DEF Body
    <3>3. CASE s # {}
      <4>1. Pick(s) \in s
        BY <3>3 DEF Pick
      <4>2. Cardinality(s \ {Pick(s)}) = Cardinality(s) - 1 /\ s \ {Pick(s)} \in SUBSET S
        BY <1>0, <4>1, FS_RemoveElement
      <4>3. h[s \ {Pick(s)}] = g[s \ {Pick(s)}]
        BY <1>0, <2>2, <4>2
      <4> QED
        BY <3>1, <3>3, <4>3 DEF Body
    <3> QED
      BY <3>2, <3>3
  <2>3. Good(h, n + 1)
    BY <2>2
  <2>4. \E g1 : Good(g1, n + 1)
    <3> HIDE DEF h, Good
    <3> QED
      BY <2>3
  <2> QED
    BY <2>4
<1>3. Cardinality(S) \in U
  <2> HIDE DEF U
  <2>1. U = Nat
    BY <1>1, <1>2, NatInd DEF U
  <2> QED
    BY <1>0, <2>1
<1>4. PICK g : Good(g, Cardinality(S))
  BY <1>3
<1>5. \A s \in SUBSET S : Cardinality(s) <= Cardinality(S)
  BY FS_Subset
<1>6. \A s \in SUBSET S : g[s] = Body(f, g, s)
  BY <1>4, <1>5
<1> DEFINE h == [s \in SUBSET S |-> g[s]]
<1>7. ASSUME NEW s \in SUBSET S PROVE h[s] = Body(f, h, s)
  BY <1>6 DEF Body
<1>8. h = [s \in SUBSET S |-> Body(f, h, s)]
  BY <1>7
<1> QED
  BY <1>8

LEMMA IterRec ==
  ASSUME NEW f, NEW S, IsFiniteSet(S)
  PROVE  \A s \in SUBSET S : Iter(f, S)[s] = Body(f, Iter(f, S), s)
<1>1. Iter(f, S) = [s \in SUBSET S |-> Body(f, Iter(f, S), s)]
  BY IterExists DEF Iter
<1> QED
  BY <1>1

(* Where two functions agree, so do their sums.                            *)
LEMMA IterAgrees ==
  ASSUME NEW f, NEW g, NEW S, IsFiniteSet(S), NEW R \in SUBSET S,
         \A x \in R : f[x] = g[x]
  PROVE  \A s \in SUBSET R : Iter(f, R)[s] = Iter(g, S)[s]
<1> DEFINE T == {s \in SUBSET R : Iter(f, R)[s] = Iter(g, S)[s]}
<1>0. IsFiniteSet(R)
  BY FS_Subset
<1>1. ASSUME NEW s \in SUBSET R, \A x \in s : s \ {x} \in T PROVE s \in T
  <2>1. Iter(f, R)[s] = Body(f, Iter(f, R), s) /\ Iter(g, S)[s] = Body(g, Iter(g, S), s)
    BY <1>0, IterRec
  <2>2. CASE s = {}
    BY <2>1, <2>2 DEF Body
  <2>3. CASE s # {}
    <3>1. Pick(s) \in s
      BY <2>3 DEF Pick
    <3>2. f[Pick(s)] = g[Pick(s)] /\ Iter(f, R)[s \ {Pick(s)}] = Iter(g, S)[s \ {Pick(s)}]
      BY <1>1, <3>1
    <3> QED
      BY <2>1, <2>3, <3>2 DEF Body
  <2> QED
    BY <2>2, <2>3
<1> HIDE DEF T
<1>2. \A s \in SUBSET R : s \in T
  BY <1>0, <1>1, SubsetInd
<1> QED
  BY <1>2 DEF T

-----------------------------------------------------------------------------
LEMMA SumEmpty ==
  ASSUME NEW f
  PROVE  SumFunctionOnSet(f, {}) = 0
BY SumIsIter, IterRec, FS_EmptySet DEF Body

LEMMA SumAgrees ==
  ASSUME NEW f, NEW g, NEW S, IsFiniteSet(S), \A x \in S : f[x] = g[x]
  PROVE  SumFunctionOnSet(f, S) = SumFunctionOnSet(g, S)
BY SumIsIter, IterAgrees

LEMMA SumPick ==
  ASSUME NEW f, NEW S, IsFiniteSet(S), S # {}
  PROVE  /\ Pick(S) \in S
         /\ SumFunctionOnSet(f, S) = f[Pick(S)] + SumFunctionOnSet(f, S \ {Pick(S)})
<1>1. Pick(S) \in S
  BY DEF Pick
<1>2. Iter(f, S)[S] = f[Pick(S)] + Iter(f, S)[S \ {Pick(S)}]
  BY IterRec DEF Body
<1>3. Iter(f, S \ {Pick(S)})[S \ {Pick(S)}] = Iter(f, S)[S \ {Pick(S)}]
  BY IterAgrees
<1> QED
  BY <1>1, <1>2, <1>3, SumIsIter

LEMMA SumType ==
  ASSUME NEW S, IsFiniteSet(S), NEW f \in [S -> Int]
  PROVE  \A A \in SUBSET S : SumFunctionOnSet(f, A) \in Int
<1> DEFINE T == {A \in SUBSET S : SumFunctionOnSet(f, A) \in Int}
<1>1. ASSUME NEW A \in SUBSET S, \A x \in A : A \ {x} \in T PROVE A \in T
  <2>0. IsFiniteSet(A)
    BY FS_Subset
  <2>1. CASE A = {}
    BY <2>1, SumEmpty
  <2>2. CASE A # {}
    <3>1. /\ Pick(A) \in A
          /\ SumFunctionOnSet(f, A) = f[Pick(A)] + SumFunctionOnSet(f, A \ {Pick(A)})
      BY <2>0, <2>2, SumPick
    <3> QED
      BY <1>1, <3>1
  <2> QED
    BY <2>1, <2>2
<1> HIDE DEF T
<1>2. \A A \in SUBSET S : A \in T
  BY <1>1, SubsetInd
<1> QED
  BY <1>2 DEF T

(* Any element may be taken out first.                                     *)
LEMMA SumRemove ==
  ASSUME NEW S, IsFiniteSet(S), NEW f \in [S -> Int]
  PROVE  \A A \in SUBSET S : \A x \in A :
           SumFunctionOnSet(f, A) = f[x] + SumFunctionOnSet(f, A \ {x})
<1> DEFINE P(A) == \A x \in A : SumFunctionOnSet(f, A) = f[x] + SumFunctionOnSet(f, A \ {x})
           T == {A \in SUBSET S : P(A)}
<1>0. \A A \in SUBSET S : SumFunctionOnSet(f, A) \in Int
  BY SumType
<1>1. ASSUME NEW A \in SUBSET S, \A x \in A : A \ {x} \in T PROVE A \in T
  <2> SUFFICES ASSUME NEW x \in A
               PROVE  SumFunctionOnSet(f, A) = f[x] + SumFunctionOnSet(f, A \ {x})
    OBVIOUS
  <2> DEFINE c == Pick(A)
  <2>1. c \in A /\ SumFunctionOnSet(f, A) = f[c] + SumFunctionOnSet(f, A \ {c})
    BY FS_Subset, SumPick
  <2> HIDE DEF c
  <2>2. CASE x = c
    BY <2>1, <2>2
  <2>3. CASE x # c
    <3>1. SumFunctionOnSet(f, A \ {c}) = f[x] + SumFunctionOnSet(f, (A \ {c}) \ {x})
      BY <1>1, <2>1, <2>3
    <3>2. SumFunctionOnSet(f, A \ {x}) = f[c] + SumFunctionOnSet(f, (A \ {x}) \ {c})
      BY <1>1, <2>1, <2>3
    <3>3. (A \ {c}) \ {x} = (A \ {x}) \ {c}
      OBVIOUS
    <3>4. SumFunctionOnSet(f, (A \ {x}) \ {c}) \in Int /\ f[c] \in Int /\ f[x] \in Int
      BY <1>0, <2>1
    <3> DEFINE rest == SumFunctionOnSet(f, (A \ {x}) \ {c})
    <3>5. f[c] + (f[x] + rest) = f[x] + (f[c] + rest)
      <4> HIDE DEF rest
      <4> QED
        BY <3>4 DEF rest
    <3> QED
      BY <2>1, <3>1, <3>2, <3>3, <3>5
  <2> QED
    BY <2>2, <2>3
<1> HIDE DEF T
<1>2. \A A \in SUBSET S : A \in T
  BY <1>1, SubsetInd
<1> QED
  BY <1>2 DEF T

LEMMA SumPlus ==
  ASSUME NEW S, IsFiniteSet(S), NEW f \in [S -> Int], NEW g \in [S -> Int], NEW h \in [S -> Int],
         NEW R \in SUBSET S, \A x \in R : h[x] = f[x] + g[x]
  PROVE  SumFunctionOnSet(h, R) = SumFunctionOnSet(f, R) + SumFunctionOnSet(g, R)
<1> DEFINE P(A) == SumFunctionOnSet(h, A) = SumFunctionOnSet(f, A) + SumFunctionOnSet(g, A)
           T == {A \in SUBSET R : P(A)}
<1>0. \A A \in SUBSET S : /\ SumFunctionOnSet(f, A) \in Int
                          /\ SumFunctionOnSet(g, A) \in Int
                          /\ SumFunctionOnSet(h, A) \in Int
  BY SumType
<1>1. ASSUME NEW A \in SUBSET R, \A x \in A : A \ {x} \in T PROVE A \in T
  <2>1. CASE A = {}
    BY <2>1, SumEmpty
  <2>2. CASE A # {}
    <3>1. PICK x \in A : TRUE
      BY <2>2
    <3>2. /\ SumFunctionOnSet(f, A) = f[x] + SumFunctionOnSet(f, A \ {x})
          /\ SumFunctionOnSet(g, A) = g[x] + SumFunctionOnSet(g, A \ {x})
          /\ SumFunctionOnSet(h, A) = h[x] + SumFunctionOnSet(h, A \ {x})
      BY <3>1, SumRemove
    <3>3. P(A \ {x}) /\ h[x] = f[x] + g[x] /\ f[x] \in Int /\ g[x] \in Int
      BY <1>1, <3>1
    <3> QED
      BY <1>0, <3>2, <3>3
  <2> QED
    BY <2>1, <2>2
<1>2. IsFiniteSet(R)
  BY FS_Subset
<1>3. \A A \in SUBSET R : A \in T
  <2> HIDE DEF T
  <2> QED
    BY <1>1, <1>2, SubsetInd
<1> QED
  BY <1>3

LEMMA SumPlusAll ==
  ASSUME NEW S, IsFiniteSet(S), NEW f \in [S -> Int], NEW g \in [S -> Int], NEW h \in [S -> Int],
         \A x \in S : h[x] = f[x] + g[x]
  PROVE  SumFunctionOnSet(h, S) = SumFunctionOnSet(f, S) + SumFunctionOnSet(g, S)
<1>1. S \in SUBSET S
  OBVIOUS
<1> QED
  BY <1>1, SumPlus

LEMMA SumZero ==
  ASSUME NEW S, IsFiniteSet(S), NEW f, \A x \in S : f[x] = 0
  PROVE  SumFunctionOnSet(f, S) = 0
<1> DEFINE g == [x \in S |-> 0]
<1>1. g \in [S -> Int] /\ \A x \in S : g[x] = g[x] + g[x]
  OBVIOUS
<1> HIDE DEF g
<1>2. SumFunctionOnSet(g, S) = SumFunctionOnSet(g, S) + SumFunctionOnSet(g, S)
  BY <1>1, SumPlus
<1>3. SumFunctionOnSet(g, S) \in Int
  BY <1>1, SumType
<1>4. SumFunctionOnSet(f, S) = SumFunctionOnSet(g, S)
  BY SumAgrees DEF g
<1>5. SumFunctionOnSet(g, S) = 0
  <2> DEFINE t == SumFunctionOnSet(g, S)
  <2>1. t \in Int /\ t = t + t
    BY <1>2, <1>3
  <2> HIDE DEF t
  <2>2. t = 0
    BY <2>1
  <2> QED
    BY <2>2 DEF t
<1> QED
  BY <1>4, <1>5

(* What every ordered pair adds, the reversed pair takes away.             *)
LEMMA SumAntisymmetric ==
  ASSUME NEW S, IsFiniteSet(S), NEW h \in [S -> [S -> Int]],
         \A x, y \in S : x # y => h[x][y] = - h[y][x]
  PROVE  SumFunctionOnSet([x \in S |-> SumFunctionOnSet(h[x], S \ {x})], S) = 0
<1> DEFINE Row(A) == [x \in S |-> SumFunctionOnSet(h[x], A \ {x})]
           P(A) == SumFunctionOnSet(Row(A), A) = 0
           T == {A \in SUBSET S : P(A)}
<1>0. \A A \in SUBSET S : Row(A) \in [S -> Int]
  <2> SUFFICES ASSUME NEW A \in SUBSET S, NEW x \in S
               PROVE  SumFunctionOnSet(h[x], A \ {x}) \in Int
    OBVIOUS
  <2>1. h[x] \in [S -> Int] /\ A \ {x} \in SUBSET S
    OBVIOUS
  <2> QED
    BY <2>1, SumType
<1>1. ASSUME NEW A \in SUBSET S, \A x \in A : A \ {x} \in T PROVE A \in T
  <2>1. CASE A = {}
    <3>1. P({})
      BY SumEmpty
    <3> QED
      BY <2>1, <3>1
  <2>2. CASE A # {}
    <3>1. PICK z \in A : TRUE
      BY <2>2
    <3> DEFINE B == A \ {z}
               u == h[z]
               v == [x \in S |-> h[x][z]]
               w == [x \in S |-> Row(B)[x] + v[x]]
    <3>2. B \in SUBSET S /\ A \in SUBSET S /\ z \in S /\ z \notin B /\ IsFiniteSet(B)
      BY FS_Subset
    <3>3. u \in [S -> Int] /\ v \in [S -> Int] /\ w \in [S -> Int]
      <4>1. u \in [S -> Int] /\ v \in [S -> Int] /\ Row(B) \in [S -> Int]
        BY <1>0, <3>2
      <4>2. w \in [S -> Int]
        <5> HIDE DEF Row, B, v
        <5> QED
          BY <4>1
      <4> QED
        BY <4>1, <4>2
    <3>4. SumFunctionOnSet(Row(A), A) = SumFunctionOnSet(u, B) + SumFunctionOnSet(Row(A), B)
      <4>1. SumFunctionOnSet(Row(A), A) = Row(A)[z] + SumFunctionOnSet(Row(A), A \ {z})
        <5> HIDE DEF Row
        <5> QED
          BY <1>0, <3>1, SumRemove
      <4> QED
        BY <3>2, <4>1
    <3>5. ASSUME NEW x \in B PROVE Row(A)[x] = w[x]
      <4>1. z \in A \ {x} /\ (A \ {x}) \ {z} = B \ {x} /\ h[x] \in [S -> Int] /\ A \ {x} \in SUBSET S
        BY <3>2
      <4>2. SumFunctionOnSet(h[x], A \ {x}) = h[x][z] + SumFunctionOnSet(h[x], (A \ {x}) \ {z})
        BY <4>1, SumRemove
      <4>3. SumFunctionOnSet(h[x], B \ {x}) \in Int /\ h[x][z] \in Int
        BY <3>2, <4>1, SumType
      <4>4. SumFunctionOnSet(h[x], A \ {x}) = SumFunctionOnSet(h[x], B \ {x}) + h[x][z]
        <5> DEFINE rest == SumFunctionOnSet(h[x], B \ {x})
                   y == h[x][z]
        <5>1. y + rest = rest + y
          <6> HIDE DEF rest, y
          <6> QED
            BY <4>3 DEF rest, y
        <5> QED
          BY <4>1, <4>2, <5>1
      <4>5. x \in S /\ Row(A)[x] = SumFunctionOnSet(h[x], A \ {x})
        BY <3>2
      <4>6. w[x] = SumFunctionOnSet(h[x], B \ {x}) + h[x][z]
        BY <4>5
      <4> QED
        BY <4>4, <4>5, <4>6
    <3>6. SumFunctionOnSet(Row(A), B) = SumFunctionOnSet(Row(B), B) + SumFunctionOnSet(v, B)
      <4>1. SumFunctionOnSet(w, B) = SumFunctionOnSet(Row(B), B) + SumFunctionOnSet(v, B)
        <5>1. \A x \in B : w[x] = Row(B)[x] + v[x]
          BY <3>2
        <5> HIDE DEF Row, B, v, w
        <5> QED
          BY <1>0, <3>2, <3>3, <5>1, SumPlus
      <4>2. SumFunctionOnSet(Row(A), B) = SumFunctionOnSet(w, B)
        <5> HIDE DEF Row, B, v, w
        <5> QED
          BY <3>2, <3>5, SumAgrees
      <4> QED
        BY <4>1, <4>2
    <3>7. SumFunctionOnSet(u, B) + SumFunctionOnSet(v, B) = 0
      <4> DEFINE o == [x \in S |-> 0]
      <4>1. o \in [S -> Int] /\ \A x \in B : o[x] = u[x] + v[x]
        BY <3>2, <3>3
      <4>2. \A x \in B : o[x] = 0
        BY <3>2
      <4> HIDE DEF o, u, v, B
      <4>3. SumFunctionOnSet(o, B) = SumFunctionOnSet(u, B) + SumFunctionOnSet(v, B)
        BY <3>2, <3>3, <4>1, SumPlus
      <4>4. SumFunctionOnSet(o, B) = 0
        BY <3>2, <4>2, SumZero
      <4> QED
        BY <4>3, <4>4
    <3>8. SumFunctionOnSet(Row(B), B) = 0
      BY <1>1, <3>1
    <3>9. SumFunctionOnSet(u, B) \in Int /\ SumFunctionOnSet(v, B) \in Int
      <4> HIDE DEF u, v, B
      <4> QED
        BY <3>2, <3>3, SumType
    <3> QED
      BY <3>4, <3>6, <3>7, <3>8, <3>9
  <2> QED
    BY <2>1, <2>2
<1>2. \A A \in SUBSET S : A \in T
  <2> HIDE DEF T
  <2> QED
    BY <1>1, SubsetInd
<1> QED
  BY <1>2

(* Residues may be taken before or after adding up.                        *)
LEMMA SumMod ==
  ASSUME NEW S, IsFiniteSet(S), NEW q \in Nat \ {0}, NEW f \in [S -> Int], NEW g \in [S -> Int],
         \A x \in S : g[x] = f[x] % q
  PROVE  SumFunctionOnSet(g, S) % q = SumFunctionOnSet(f, S) % q
<1> DEFINE P(A) == SumFunctionOnSet(g, A) % q = SumFunctionOnSet(f, A) % q
           T == {A \in SUBSET S : P(A)}
<1>1. ASSUME NEW A \in SUBSET S, \A x \in A : A \ {x} \in T PROVE A \in T
  <2>1. CASE A = {}
    BY <2>1, SumEmpty
  <2>2. CASE A # {}
    <3>1. PICK x \in A : TRUE
      BY <2>2
    <3> DEFINE F == SumFunctionOnSet(f, A \ {x})
               G == SumFunctionOnSet(g, A \ {x})
               a == f[x]
               b == g[x]
    <3>2. SumFunctionOnSet(f, A) = a + F /\ SumFunctionOnSet(g, A) = b + G
      BY <3>1, SumRemove
    <3>3. F \in Int /\ G \in Int
      BY SumType
    <3>4. a \in Int /\ b \in Int /\ b = a % q /\ G % q = F % q
      BY <1>1, <3>1
    <3> HIDE DEF F, G, a, b
    <3>5. (b + G) % q = (a + G) % q
      BY <3>3, <3>4, ModSum
    <3>6. ((G % q) + a) % q = (G + a) % q /\ ((F % q) + a) % q = (F + a) % q
      BY <3>3, <3>4, ModSum
    <3>7. G + a = a + G /\ F + a = a + F
      BY <3>3, <3>4
    <3>8. (a + G) % q = (a + F) % q
      BY <3>4, <3>6, <3>7
    <3> QED
      BY <3>2, <3>5, <3>8
  <2> QED
    BY <2>1, <2>2
<1>2. \A A \in SUBSET S : A \in T
  <2> HIDE DEF T
  <2> QED
    BY <1>1, SubsetInd
<1> QED
  BY <1>2

LEMMA ModMult ==
  ASSUME NEW q \in Nat \ {0}, NEW a \in Int, NEW b \in Int
  PROVE  ((a % q) * b) % q = (a * b) % q
<1> DEFINE x == a % q
<1>1. PICK k \in Int : x \in 0 .. q - 1 /\ a = x + q * k
  BY ModPick
<1> HIDE DEF x
<1>2. a * b = x * b + (q * k) * b /\ (q * k) * b = q * (k * b)
  BY <1>1
<1> DEFINE u == x * b
           v == a * b
           m == k * b
<1>3. u \in Int /\ v \in Int /\ m \in Int /\ v = u + q * m
  BY <1>1, <1>2
<1> HIDE DEF u, v, m
<1>4. v % q = u % q
  BY <1>3, ModShift
<1> QED
  BY <1>4 DEF u, v, x

LEMMA ModDiff ==
  ASSUME NEW q \in Nat \ {0}, NEW a \in Int, NEW b \in Int, (a - b) % q = 0
  PROVE  a % q = b % q
<1> DEFINE d == a - b
<1>1. d \in Int /\ d % q = 0
  OBVIOUS
<1> HIDE DEF d
<1>2. PICK k \in Int : d = (d % q) + q * k
  BY <1>1, ModPick
<1> DEFINE m == q * k
<1>3. m \in Int /\ d = 0 + m
  BY <1>1, <1>2
<1> HIDE DEF m
<1>4. a = b + m
  BY <1>3 DEF d
<1> QED
  BY <1>4, ModShift DEF m

(* A common factor may be taken out.                                       *)
LEMMA SumScale ==
  ASSUME NEW S, IsFiniteSet(S), NEW e \in Int, NEW f \in [S -> Int], NEW g \in [S -> Int],
         \A x \in S : g[x] = f[x] * e
  PROVE  SumFunctionOnSet(g, S) = SumFunctionOnSet(f, S) * e
<1> DEFINE P(A) == SumFunctionOnSet(g, A) = SumFunctionOnSet(f, A) * e
           T == {A \in SUBSET S : P(A)}
<1>1. ASSUME NEW A \in SUBSET S, \A x \in A : A \ {x} \in T PROVE A \in T
  <2>1. CASE A = {}
    BY <2>1, SumEmpty
  <2>2. CASE A # {}
    <3>1. PICK x \in A : TRUE
      BY <2>2
    <3> DEFINE F == SumFunctionOnSet(f, A \ {x})
               G == SumFunctionOnSet(g, A \ {x})
               a == f[x]
               b == g[x]
    <3>2. SumFunctionOnSet(f, A) = a + F /\ SumFunctionOnSet(g, A) = b + G
      BY <3>1, SumRemove
    <3>3. F \in Int /\ G \in Int
      BY SumType
    <3>4. a \in Int /\ b = a * e /\ G = F * e
      BY <1>1, <3>1
    <3> HIDE DEF F, G, a, b
    <3>5. b + G = (a + F) * e
      BY <3>3, <3>4
    <3> QED
      BY <3>2, <3>5
  <2> QED
    BY <2>1, <2>2
<1>2. \A A \in SUBSET S : A \in T
  <2> HIDE DEF T
  <2> QED
    BY <1>1, SubsetInd
<1> QED
  BY <1>2

(* A sum of zeros and ys is a multiple of y.                               *)
LEMMA SumMultiple ==
  ASSUME NEW S, IsFiniteSet(S), NEW y \in Int, NEW f \in [S -> Int], \A x \in S : f[x] \in {0, y}
  PROVE  \E c \in 0 .. Cardinality(S) : SumFunctionOnSet(f, S) = c * y
<1> DEFINE P(A) == \E c \in 0 .. Cardinality(A) : SumFunctionOnSet(f, A) = c * y
           T == {A \in SUBSET S : P(A)}
<1>1. ASSUME NEW A \in SUBSET S, \A x \in A : A \ {x} \in T PROVE A \in T
  <2>1. CASE A = {}
    BY <2>1, SumEmpty, FS_EmptySet
  <2>2. CASE A # {}
    <3>1. PICK x \in A : TRUE
      BY <2>2
    <3>2. SumFunctionOnSet(f, A) = f[x] + SumFunctionOnSet(f, A \ {x})
      BY <3>1, SumRemove
    <3> DEFINE n == Cardinality(A)
               m == Cardinality(A \ {x})
    <3>3. n \in Nat /\ m = n - 1 /\ m \in Nat
      BY <3>1, FS_Subset, FS_RemoveElement, FS_CardinalityType
    <3>4. PICK c \in 0 .. m : SumFunctionOnSet(f, A \ {x}) = c * y
      BY <1>1, <3>1
    <3> HIDE DEF n, m
    <3>5. f[x] + c * y = (IF f[x] = 0 THEN c ELSE c + 1) * y
      BY <3>1, <3>3
    <3>6. (IF f[x] = 0 THEN c ELSE c + 1) \in 0 .. n
      BY <3>3
    <3>7. \E d \in 0 .. n : SumFunctionOnSet(f, A) = d * y
      BY <3>2, <3>4, <3>5, <3>6
    <3> QED
      BY <3>7 DEF n
  <2> QED
    BY <2>1, <2>2
<1>2. \A A \in SUBSET S : A \in T
  <2> HIDE DEF T
  <2> QED
    BY <1>1, SubsetInd
<1> QED
  BY <1>2
=============================================================================
