---------------------------- MODULE BrainsProofs ----------------------------
(***************************************************************************)
(* Proofs about the engine's brains, for all programs, networks, worlds    *)
(* and agents: the machine of Vm, whatever bytes it runs; the brain that   *)
(* learns; and the agent that has one of them (Brains).                    *)
(***************************************************************************)
EXTENDS Brains, Certificates, Gob, SequenceTheorems, FiniteSetTheorems, WellFoundedInduction, TLAPS

-----------------------------------------------------------------------------
(* Induction.  The library's theorems take the property as an operator,    *)
(* which no prover here instantiates; a set of numbers can take its place. *)

LEMMA SetInduction ==
  ASSUME NEW S \in SUBSET Nat, 0 \in S, \A n \in S : n + 1 \in S
  PROVE  S = Nat
<1>. SUFFICES ASSUME Nat \ S # {} PROVE FALSE
  OBVIOUS
<1>1. IsWellFoundedOn(OpToRel(<, Nat), Nat)
  BY NatLessThanWellFounded
<1>2. PICK m \in Nat \ S : \A k \in Nat \ S : ~(<<k, m>> \in OpToRel(<, Nat))
  BY <1>1, WFMin
<1>3. \A k \in Nat \ S : ~(k < m)
  BY <1>2 DEF OpToRel
<1>4. m - 1 \in Nat \ S /\ m - 1 < m
  OBVIOUS
<1>. QED  BY <1>3, <1>4

-----------------------------------------------------------------------------
(* Sums over finite sets.  MapThenSumSet is a sum over a function: the     *)
(* element Any takes first, and the sum of the rest.                       *)

Any(s) == CHOOSE x \in s : TRUE

Summing(w, S, iter) ==
  [s \in SUBSET S |-> IF s = {} THEN 0 ELSE w[Any(s)] + iter[s \ {Any(s)}]]

SumFcn(w, S) == CHOOSE iter : iter = Summing(w, S, iter)
SumOver(w, S) == SumFcn(w, S)[S]

\* What there is to know of a sum: whichever element is taken, the rest remains.
IsSum(F, w, S) ==
  /\ \A s \in SUBSET S : F[s] \in Int
  /\ F[{}] = 0
  /\ \A s \in SUBSET S : \A x \in s : F[s] = w[x] + F[s \ {x}]

LEMMA Removed ==
  ASSUME NEW S, IsFiniteSet(S), NEW s \in SUBSET S
  PROVE  /\ IsFiniteSet(s) /\ Cardinality(s) \in Nat
         /\ Cardinality(s) = 0 <=> s = {}
         /\ \A x \in s : s \ {x} \in SUBSET S /\ Cardinality(s \ {x}) = Cardinality(s) - 1
         /\ s # {} => Any(s) \in s
<1>1. IsFiniteSet(s)
  BY FS_Subset
<1>2. s # {} => Any(s) \in s
  BY DEF Any
<1>3. Cardinality(s) \in Nat /\ (Cardinality(s) = 0 <=> s = {})
  BY <1>1, FS_CardinalityType, FS_EmptySet
<1>4. \A x \in s : Cardinality(s \ {x}) = Cardinality(s) - 1
  BY <1>1, FS_RemoveElement
<1>. QED  BY <1>1, <1>2, <1>3, <1>4

\* The recursive definition has a solution: by induction, one for all small sets.
LEMMA SumExists ==
  ASSUME NEW S, IsFiniteSet(S), NEW w, \A x \in S : w[x] \in Int
  PROVE  SumFcn(w, S) = Summing(w, S, SumFcn(w, S))
<1>. DEFINE Solves(f, n) == /\ f = [s \in SUBSET S |-> f[s]]
                            /\ \A s \in SUBSET S :
                              Cardinality(s) <= n => f[s] = Summing(w, S, f)[s]
            Good == {n \in Nat : \E f : Solves(f, n)}
<1>1. 0 \in Good
  <2>. DEFINE f == [s \in SUBSET S |-> 0]
  <2>1. \A s \in SUBSET S : Cardinality(s) <= 0 => f[s] = Summing(w, S, f)[s]
    BY Removed DEF Summing
  <2>2. Solves(f, 0)
    BY <2>1
  <2>. HIDE DEF Solves, f
  <2>. QED  BY <2>2
<1>2. \A n \in Good : n + 1 \in Good
  <2>. HIDE DEF Solves
  <2>. SUFFICES ASSUME NEW n \in Nat, NEW f, Solves(f, n) PROVE \E g : Solves(g, n + 1)
    OBVIOUS
  <2>. USE DEF Solves
  <2>1. Solves(f, n)
    OBVIOUS
  <2>. DEFINE g == [s \in SUBSET S |-> Summing(w, S, f)[s]]
  <2>2. \A s \in SUBSET S : Cardinality(s) <= n => g[s] = f[s]
    BY <2>1
  <2>3. ASSUME NEW s \in SUBSET S, Cardinality(s) <= n + 1
        PROVE  g[s] = Summing(w, S, g)[s]
    <3>1. CASE s = {}
      BY <3>1 DEF Summing
    <3>2. CASE s # {}
      <4>1. /\ Any(s) \in s /\ s \ {Any(s)} \in SUBSET S
            /\ Cardinality(s \ {Any(s)}) <= n
        BY <2>3, <3>2, Removed
      <4>2. g[s \ {Any(s)}] = f[s \ {Any(s)}]
        BY <2>2, <4>1
      <4>3. g[s] = Summing(w, S, f)[s]
        OBVIOUS
      <4>. HIDE DEF g
      <4>. QED  BY <3>2, <4>2, <4>3 DEF Summing
    <3>. QED  BY <3>1, <3>2
  <2>. QED  BY <2>3
<1>3. Good = Nat
  <2>. HIDE DEF Good
  <2>1. Good \in SUBSET Nat
    BY DEF Good
  <2>. QED  BY <1>1, <1>2, <2>1, SetInduction
<1>4. Cardinality(S) \in Nat
  BY FS_CardinalityType
<1>5. PICK f : Solves(f, Cardinality(S))
  BY <1>3, <1>4
<1>6. \A s \in SUBSET S : Cardinality(s) <= Cardinality(S)
  BY FS_Subset
<1>7. f = Summing(w, S, f)
  <2>1. \A s \in SUBSET S : f[s] = Summing(w, S, f)[s]
    BY <1>5, <1>6
  <2>2. f = [s \in SUBSET S |-> f[s]]
    BY <1>5
  <2>. QED  BY <2>1, <2>2 DEF Summing
<1>. QED  BY <1>7 DEF SumFcn

\* Whichever element is taken first: by induction on the size of the set.
LEMMA SumIsSum ==
  ASSUME NEW S, IsFiniteSet(S), NEW w, \A x \in S : w[x] \in Int
  PROVE  IsSum(SumFcn(w, S), w, S)
<1>. DEFINE F == SumFcn(w, S)
            Fits(s) == F[s] \in Int /\ \A x \in s : F[s] = w[x] + F[s \ {x}]
            Good == {n \in Nat : \A s \in SUBSET S : Cardinality(s) <= n => Fits(s)}
<1>1. /\ F[{}] = 0
      /\ \A s \in SUBSET S : s # {} => F[s] = w[Any(s)] + F[s \ {Any(s)}]
  <2>1. F = [s \in SUBSET S |-> IF s = {} THEN 0 ELSE w[Any(s)] + F[s \ {Any(s)}]]
    BY SumExists, Zenon DEF Summing
  <2>. HIDE DEF F
  <2>2. \A s \in SUBSET S : F[s] = IF s = {} THEN 0 ELSE w[Any(s)] + F[s \ {Any(s)}]
    BY <2>1
  <2>. QED  BY <2>2
<1>. HIDE DEF F
<1>2. 0 \in Good
  <2>1. Fits({})
    BY <1>1
  <2>2. \A s \in SUBSET S : Cardinality(s) <= 0 => s = {}
    BY Removed
  <2>. HIDE DEF Fits
  <2>. QED  BY <2>1, <2>2
<1>3. \A n \in Good : n + 1 \in Good
  <2>. HIDE DEF Fits
  <2>. SUFFICES ASSUME NEW n \in Nat, \A s \in SUBSET S : Cardinality(s) <= n => Fits(s),
                       NEW s \in SUBSET S, Cardinality(s) <= n + 1
                PROVE  Fits(s)
    OBVIOUS
  <2>. USE DEF Fits
  <2>. DEFINE a == Any(s)
              rest(x) == s \ {x}
  <2>1. \A t \in SUBSET S : Cardinality(t) <= n => Fits(t)
    OBVIOUS
  <2>2. CASE s = {}
    BY <1>1, <2>2
  <2>3. CASE s # {}
    <3>1. /\ a \in s
          /\ \A x \in s : /\ rest(x) \in SUBSET S /\ Cardinality(rest(x)) <= n
                          /\ \A y \in rest(x) : rest(x) \ {y} = rest(y) \ {x}
      <4>1. \A x \in s : rest(x) \in SUBSET S /\ Cardinality(rest(x)) <= n
        BY <2>1, Removed
      <4>. QED  BY <2>3, <4>1, Removed
    <3>2. F[s] = w[a] + F[rest(a)]
      BY <1>1, <2>3
    <3>. HIDE DEF a
    <3>3. \A x \in s : w[x] \in Int /\ Fits(rest(x))
      BY <2>1, <3>1
    <3>4. \A x \in s : \A y \in rest(x) : /\ F[rest(x)] = w[y] + F[rest(x) \ {y}]
                                         /\ F[rest(x) \ {y}] \in Int
      <4>1. \A x \in s : \A y \in rest(x) :
              rest(x) \ {y} \in SUBSET S /\ Cardinality(rest(x) \ {y}) <= n
        <5>. SUFFICES ASSUME NEW x \in s, NEW y \in rest(x)
                      PROVE  rest(x) \ {y} \in SUBSET S /\ Cardinality(rest(x) \ {y}) <= n
          OBVIOUS
        <5>1. rest(x) \in SUBSET S /\ Cardinality(rest(x)) \in Nat
          BY Removed
        <5>2. Cardinality(rest(x) \ {y}) = Cardinality(rest(x)) - 1
          BY <5>1, Removed
        <5>. QED  BY <2>1, <3>1, <5>1, <5>2
      <4>. QED  BY <2>1, <3>3, <4>1
    <3>5. ASSUME NEW x \in s, x # a PROVE F[s] = w[x] + F[rest(x)]
      <4>1. x \in rest(a) /\ a \in rest(x) /\ rest(a) \ {x} = rest(x) \ {a}
        BY <3>1, <3>5
      <4>. HIDE DEF rest
      <4>2. F[rest(a)] = w[x] + F[rest(x) \ {a}]
        <5>1. F[rest(a)] = w[x] + F[rest(a) \ {x}]
          BY <3>1, <3>4, <4>1
        <5>. QED  BY <4>1, <5>1, Zenon
      <4>3. F[rest(x)] = w[a] + F[rest(x) \ {a}] /\ F[rest(x) \ {a}] \in Int
        BY <3>4, <4>1
      <4>4. w[a] \in Int /\ w[x] \in Int
        BY <3>1, <3>3
      <4>. DEFINE r == F[rest(x) \ {a}]
      <4>5. r \in Int /\ F[s] = w[a] + (w[x] + r) /\ F[rest(x)] = w[a] + r
        BY <3>2, <4>2, <4>3, Zenon
      <4>. HIDE DEF r
      <4>. QED  BY <4>4, <4>5
    <3>6. F[s] \in Int
      BY <3>1, <3>2, <3>3
    <3>. QED  BY <3>2, <3>5, <3>6
  <2>. QED  BY <2>2, <2>3
<1>4. Good = Nat
  <2>. HIDE DEF Good
  <2>1. Good \in SUBSET Nat
    BY DEF Good
  <2>. QED  BY <1>2, <1>3, <2>1, SetInduction
<1>5. \A s \in SUBSET S : Fits(s)
  BY <1>4, Removed
<1>. QED  BY <1>1, <1>5 DEF IsSum, F

\* A sum is no greater than one of greater numbers over a greater set's part.
LEMMA SumsCompare ==
  ASSUME NEW S, IsFiniteSet(S), NEW w, \A x \in S : w[x] \in Int,
         NEW T, S \subseteq T, NEW v, \A x \in S : v[x] \in Int /\ w[x] <= v[x],
         NEW F, IsSum(F, w, S), NEW G, IsSum(G, v, T)
  PROVE  \A s \in SUBSET S : F[s] <= G[s]
<1>. DEFINE Good == {n \in Nat : \A s \in SUBSET S : Cardinality(s) <= n => F[s] <= G[s]}
<1>0. /\ F[{}] = 0 /\ G[{}] = 0
      /\ \A s \in SUBSET S : F[s] \in Int /\ G[s] \in Int
      /\ \A s \in SUBSET S : \A x \in s : F[s] = w[x] + F[s \ {x}] /\ G[s] = v[x] + G[s \ {x}]
  BY DEF IsSum
<1>1. 0 \in Good
  <2>1. \A s \in SUBSET S : Cardinality(s) <= 0 => s = {}
    BY Removed
  <2>2. \A s \in SUBSET S : Cardinality(s) <= 0 => F[s] <= G[s]
    <3>1. F[{}] <= G[{}]
      BY <1>0
    <3>. QED  BY <2>1, <3>1, Zenon
  <2>. QED  BY <2>2
<1>2. \A n \in Good : n + 1 \in Good
  <2>. SUFFICES ASSUME NEW n \in Nat,
                       \A s \in SUBSET S : Cardinality(s) <= n => F[s] <= G[s],
                       NEW s \in SUBSET S, Cardinality(s) <= n + 1
                PROVE  F[s] <= G[s]
    OBVIOUS
  <2>1. CASE s = {}
    BY <1>0, <2>1
  <2>2. CASE s # {}
    <3>1. PICK x \in s : TRUE
      BY <2>2
    <3>2. s \ {x} \in SUBSET S /\ Cardinality(s \ {x}) <= n
      BY <3>1, Removed
    <3>3. /\ F[s] = w[x] + F[s \ {x}] /\ G[s] = v[x] + G[s \ {x}]
          /\ F[s \ {x}] \in Int /\ G[s \ {x}] \in Int /\ F[s \ {x}] <= G[s \ {x}]
          /\ w[x] \in Int /\ v[x] \in Int /\ w[x] <= v[x]
      BY <1>0, <3>1, <3>2
    <3>4. \A p, q, r, u \in Int : p <= q /\ r <= u => p + r <= q + u
      OBVIOUS
    <3>. QED  BY <3>3, <3>4
  <2>. QED  BY <2>1, <2>2
<1>3. Good = Nat
  <2>. HIDE DEF Good
  <2>1. Good \in SUBSET Nat
    BY DEF Good
  <2>. QED  BY <1>1, <1>2, <2>1, SetInduction
<1>. QED  BY <1>3, Removed

-----------------------------------------------------------------------------
(* What the proofs use of sums *)

\* A number is taken out of the sum.
LEMMA SumTakes ==
  ASSUME NEW S, IsFiniteSet(S), NEW w, \A x \in S : w[x] \in Int, NEW x \in S
  PROVE  /\ SumOver(w, S) \in Int /\ SumOver(w, S \ {x}) \in Int
         /\ SumOver(w, S) = w[x] + SumOver(w, S \ {x})
<1>. DEFINE F == SumFcn(w, S)
            G == SumFcn(w, S \ {x})
<1>1. IsFiniteSet(S \ {x}) /\ \A y \in S \ {x} : w[y] \in Int /\ w[y] <= w[y]
  BY FS_Subset
<1>2. IsSum(F, w, S) /\ IsSum(G, w, S \ {x})
  BY <1>1, SumIsSum
<1>3. IsSum(F, w, S \ {x})
  BY <1>2 DEF IsSum
<1>. HIDE DEF F, G
<1>4. F[S \ {x}] <= G[S \ {x}] /\ G[S \ {x}] <= F[S \ {x}]
  BY <1>1, <1>2, <1>3, SumsCompare
<1>5. /\ F[S] = w[x] + F[S \ {x}]
      /\ F[S] \in Int /\ F[S \ {x}] \in Int /\ G[S \ {x}] \in Int
  BY <1>2 DEF IsSum
<1>6. F[S \ {x}] = G[S \ {x}]
  BY <1>4, <1>5
<1>. QED  BY <1>5, <1>6, Zenon DEF SumOver, F, G

\* Sums grow with their numbers.
LEMMA SumGrows ==
  ASSUME NEW S, IsFiniteSet(S), NEW w, NEW v,
         \A x \in S : w[x] \in Int /\ v[x] \in Int /\ w[x] <= v[x]
  PROVE  /\ SumOver(w, S) \in Int /\ SumOver(v, S) \in Int
         /\ SumOver(w, S) <= SumOver(v, S)
<1>. DEFINE F == SumFcn(w, S)
            G == SumFcn(v, S)
<1>1. IsSum(F, w, S) /\ IsSum(G, v, S)
  BY SumIsSum
<1>. HIDE DEF F, G
<1>2. F[S] <= G[S]
  BY <1>1, SumsCompare
<1>3. F[S] \in Int /\ G[S] \in Int
  BY <1>1 DEF IsSum
<1>. QED  BY <1>2, <1>3, Zenon DEF SumOver, F, G

\* The sum of as many ones, or zeros.
LEMMA SumCounts ==
  ASSUME NEW S, IsFiniteSet(S), NEW k \in {0, 1}
  PROVE  SumOver([x \in S |-> k], S) = IF k = 1 THEN Cardinality(S) ELSE 0
<1>. DEFINE w == [x \in S |-> k]
            Total(n) == IF k = 1 THEN n ELSE 0
            F == SumFcn(w, S)
            Good == {n \in Nat : \A s \in SUBSET S : Cardinality(s) = n => F[s] = Total(n)}
<1>0. IsSum(F, w, S)
  <2>1. \A x \in S : w[x] \in Int
    OBVIOUS
  <2>. HIDE DEF w
  <2>. QED  BY <2>1, SumIsSum
<1>. HIDE DEF F
<1>1. 0 \in Good
  <2>1. \A s \in SUBSET S : Cardinality(s) = 0 => s = {}
    BY Removed
  <2>. QED  BY <1>0, <2>1 DEF IsSum
<1>2. \A n \in Good : n + 1 \in Good
  <2>. SUFFICES ASSUME NEW n \in Nat, \A s \in SUBSET S : Cardinality(s) = n => F[s] = Total(n),
                       NEW s \in SUBSET S, Cardinality(s) = n + 1
                PROVE  F[s] = Total(n + 1)
    OBVIOUS
  <2>1. PICK x \in s : TRUE
    BY Removed
  <2>2. s \ {x} \in SUBSET S /\ Cardinality(s \ {x}) = n
    BY <2>1, Removed
  <2>3. F[s] = w[x] + F[s \ {x}] /\ w[x] = k /\ F[s \ {x}] = Total(n)
    BY <1>0, <2>1, <2>2 DEF IsSum
  <2>. QED  BY <2>3
<1>3. Good = Nat
  <2>. HIDE DEF Good
  <2>1. Good \in SUBSET Nat
    BY DEF Good
  <2>. QED  BY <1>1, <1>2, <2>1, SetInduction
<1>4. Cardinality(S) \in Nat
  BY FS_CardinalityType
<1>5. F[S] = Total(Cardinality(S))
  BY <1>3, <1>4
<1>. QED  BY <1>5, Zenon DEF SumOver, F, w

\* Sums of naturals, and of numbers from one on.
LEMMA SumAtLeast ==
  ASSUME NEW S, IsFiniteSet(S), NEW w, NEW k \in {0, 1}, \A x \in S : w[x] \in Int /\ w[x] >= k
  PROVE  /\ SumOver(w, S) \in Nat
         /\ k = 1 => SumOver(w, S) >= Cardinality(S)
<1>. DEFINE v == [x \in S |-> k]
<1>1. \A x \in S : v[x] \in Int /\ w[x] \in Int /\ v[x] <= w[x]
  OBVIOUS
<1>2. SumOver(v, S) = IF k = 1 THEN Cardinality(S) ELSE 0
  BY SumCounts
<1>. HIDE DEF v
<1>3. SumOver(w, S) \in Int /\ SumOver(v, S) <= SumOver(w, S)
  BY <1>1, SumGrows
<1>4. Cardinality(S) \in Nat
  BY FS_CardinalityType
<1>. QED  BY <1>2, <1>3, <1>4

-----------------------------------------------------------------------------
(* Vm *)

VmInv == TypeOK /\ BudgetBoundsActions /\ ReturnsFollowCalls

-----------------------------------------------------------------------------
(* Words *)

LEMMA WrapIsWord ==
  ASSUME NEW n \in Int
  PROVE  Wrap(n) \in Word
<1>1. HalfWord \in Nat /\ HalfWord > 1
  BY VmAssumption
<1>2. (n + HalfWord) % (2 * HalfWord) \in 0 .. 2 * HalfWord - 1
  BY <1>1
<1>3. QED
  BY <1>1, <1>2 DEF Wrap, Word

LEMMA BoolIsWord ==
  ASSUME NEW p
  PROVE  Bool(p) \in Word
BY VmAssumption DEF Bool, Word

\* The quotient of two naturals.
LEMMA Division ==
  ASSUME NEW n \in Nat, NEW d \in Nat \ {0}
  PROVE  /\ n \div d \in Nat
         /\ d * (n \div d) \in Nat
         /\ d * (n \div d) <= n
         /\ n - d * (n \div d) < d
         /\ n \div d <= n
         /\ d > 1 => 2 * (n \div d) <= n
<1> DEFINE q == n \div d
<1>1. q \in Nat /\ n = d * q + (n % d) /\ n % d \in 0 .. d - 1
  BY DEF q
<1> HIDE DEF q
<1>2. d * q \in Nat /\ d * q <= n /\ n - d * q < d
  BY <1>1
<1>3. q <= d * q
  BY <1>1
<1>4. d > 1 => 2 * q <= d * q
  BY <1>1
<1>5. QED
  BY <1>1, <1>2, <1>3, <1>4 DEF q

\* Division traps in one case only; in the others its results are words.
LEMMA DivisionIsWord ==
  ASSUME NEW a \in Word, NEW b \in Word, b # 0, ~(a = -HalfWord /\ b = -1)
  PROVE  Quotient(a, b) \in Word /\ a - b * Quotient(a, b) \in Word
<1> DEFINE A == Magnitude(a)
           B == Magnitude(b)
           q == A \div B
<1>1. /\ HalfWord \in Nat /\ HalfWord > 1
      /\ a \in -HalfWord .. HalfWord - 1 /\ b \in -HalfWord .. HalfWord - 1
  BY VmAssumption DEF Word
<1>2. /\ A \in Nat /\ (a < 0 => A = -a) /\ (a >= 0 => A = a)
      /\ B \in Nat \ {0} /\ (b < 0 => B = -b) /\ (b >= 0 => B = b)
  BY <1>1 DEF Magnitude
<1>3. /\ q \in Nat /\ B * q \in Nat /\ B * q <= A /\ A - B * q < B /\ q <= A
      /\ B > 1 => 2 * q <= A
  BY <1>2, Division
<1>4. Quotient(a, b) = IF (a < 0) = (b < 0) THEN q ELSE -q
  BY DEF Quotient
<1> HIDE DEF A, B, q
<1>5. Quotient(a, b) \in Word
  <2>1. CASE B = 1
    BY <2>1, <1>1, <1>2, <1>3, <1>4 DEF Word
  <2>2. CASE B > 1
    BY <2>2, <1>1, <1>2, <1>3, <1>4 DEF Word
  <2>3. QED
    BY <1>2, <2>1, <2>2
<1>6. b * Quotient(a, b) = IF a < 0 THEN -(B * q) ELSE B * q
  <2>1. CASE a < 0 /\ b < 0
    BY <2>1, <1>1, <1>2, <1>3, <1>4
  <2>2. CASE a < 0 /\ b >= 0
    BY <2>2, <1>1, <1>2, <1>3, <1>4
  <2>3. CASE a >= 0 /\ b < 0
    BY <2>3, <1>1, <1>2, <1>3, <1>4
  <2>4. CASE a >= 0 /\ b >= 0
    BY <2>4, <1>1, <1>2, <1>3, <1>4
  <2>5. QED
    BY <1>1, <2>1, <2>2, <2>3, <2>4
<1>7. a - b * Quotient(a, b) \in Word
  BY <1>1, <1>2, <1>3, <1>6 DEF Word
<1>8. QED
  BY <1>5, <1>7

\* Every binary operation yields a word, if it does not trap.
LEMMA ResultIsWord ==
  ASSUME NEW op \in Binary, NEW a \in Word, NEW b \in Word,
         op \in {"DIV", "MOD"} => b # 0 /\ ~(a = -HalfWord /\ b = -1)
  PROVE  Result(op, a, b) \in Word
<1>1. a \in Int /\ b \in Int /\ a + b \in Int /\ a - b \in Int /\ a * b \in Int
  BY VmAssumption DEF Word
<1>2. CASE op \in {"ADD", "SUB", "MUL"}
  BY <1>1, <1>2, WrapIsWord DEF Result
<1>3. CASE op \in {"DIV", "MOD"}
  BY <1>3, DivisionIsWord DEF Result
<1>4. CASE op \in {"EQ", "LT", "GT", "AND", "OR"}
  BY <1>4, BoolIsWord DEF Result
<1>5. QED
  BY <1>2, <1>3, <1>4 DEF Binary

-----------------------------------------------------------------------------
(* The instruction at pc *)

LEMMA ProgramTypes ==
  ASSUME TypeOK
  PROVE  /\ program.code \in Seq(Byte) /\ program.locals \in Nat
         /\ program.constants \in Seq(Constant)
         /\ Size \in Nat
         /\ \A i \in 1 .. Size : program.code[i] \in 0 .. 255
<1>1. /\ program.code \in Seq(Byte) /\ program.locals \in Nat
      /\ program.constants \in Seq(Constant)
  BY VmAssumption DEF TypeOK, ControlOK
<1>2. Size \in Nat
  BY <1>1, LenProperties DEF Size
<1>3. \A i \in 1 .. Size : program.code[i] \in Byte
  BY <1>1, ElementOfSeq DEF Size
<1>4. QED
  BY <1>1, <1>2, <1>3 DEF Byte

\* What a step knows of the instruction it executes.
LEMMA Fetched ==
  ASSUME TypeOK, NEW ops, "HALT" \notin ops, Step(ops)
  PROVE  /\ pc < Size
         /\ Op = Decode[program.code[pc + 1]]
         /\ OperandSize(Op) \in 0 .. 4
         /\ After = pc + 1 + OperandSize(Op)
         /\ After \in 1 .. Size
         /\ \A k \in 1 .. 4 : k <= OperandSize(Op) => U8(k) \in 0 .. 255
         /\ Pops(Op) <= Len(stack)
         /\ remaining' \in 0 .. Budget
         /\ remaining' = remaining - Cost(Op)
<1>1. pc \in Nat /\ pc <= Size /\ remaining \in 0 .. Budget
  BY ProgramTypes DEF TypeOK, ControlOK
<1>2. ~AtEnd
  BY DEF Step, Op
<1>3. pc < Size
  BY <1>1, <1>2, ProgramTypes DEF AtEnd
<1>4. OperandSize(Op) \in 0 .. 4
  BY DEF OperandSize
<1>5. After = pc + 1 + OperandSize(Op) /\ After <= Size /\ After \in 1 .. Size
  BY <1>1, <1>2, <1>4, ProgramTypes DEF After, Step, Allowed
<1>6. ASSUME NEW k \in 1 .. 4, k <= OperandSize(Op)
      PROVE  U8(k) \in 0 .. 255
  <2>1. pc + 1 + k \in 1 .. Size
    BY <1>1, <1>4, <1>5, <1>6, ProgramTypes
  <2>2. QED
    BY <2>1, ProgramTypes DEF U8
<1>7. Cost(Op) \in Nat /\ Cost(Op) <= remaining
  BY <1>1, VmAssumption DEF Step, Affordable, Cost
<1>8. remaining' = remaining - Cost(Op) /\ remaining' \in 0 .. Budget
  BY <1>1, <1>7, VmAssumption DEF Step
<1>9. Pops(Op) <= Len(stack) /\ Op = Decode[program.code[pc + 1]]
  BY <1>2 DEF Step, Allowed, Op
<1>10. QED
  BY <1>3, <1>4, <1>5, <1>6, <1>8, <1>9

LEMMA U16IsNat ==
  ASSUME U8(1) \in 0 .. 255, U8(2) \in 0 .. 255
  PROVE  U16 \in Nat
<1>1. \A i, j \in 0 .. 255 : i + 256 * j \in Nat
  OBVIOUS
<1>2. U8(1) + 256 * U8(2) \in Nat
  BY <1>1
<1>3. QED
  BY <1>2 DEF U16

\* The words that a step takes from the stack, and what it leaves.
LEMMA StackTaken ==
  ASSUME TypeOK, NEW n \in 0 .. 2, n <= Len(stack)
  PROVE  /\ Drop(n) \in Seq(Word) /\ Len(Drop(n)) = Len(stack) - n
         /\ n >= 1 => Top \in Word
         /\ n = 2 => Below \in Word
<1>1. stack \in Seq(Word) /\ Len(stack) \in Nat
  BY LenProperties DEF TypeOK, DataOK
<1>2. \A i \in 1 .. Len(stack) : stack[i] \in Word
  BY <1>1, ElementOfSeq
<1>3. \A i \in 1 .. Len(stack) - n : stack[i] \in Word
  BY <1>1, <1>2
<1>4. /\ Drop(n) \in Seq(Word)
      /\ Len(Drop(n)) = IF 1 <= Len(stack) - n THEN Len(stack) - n - 1 + 1 ELSE 0
  BY <1>1, <1>3, SubSeqProperties DEF Drop
<1>5. QED
  BY <1>1, <1>2, <1>4 DEF Top, Below

\* A word put on the stack.
LEMMA Pushed ==
  ASSUME NEW s \in Seq(Word), NEW w \in Word
  PROVE  Append(s, w) \in Seq(Word) /\ Len(Append(s, w)) = Len(s) + 1
OBVIOUS

-----------------------------------------------------------------------------
(* The invariant is inductive *)

LEMMA InitInv == Init => VmInv
<1> SUFFICES ASSUME Init PROVE VmInv
  OBVIOUS
<1>1. Size \in Nat
  BY VmAssumption, LenProperties DEF Init, Size
<1>2. ControlOK
  <2>1. pc \in 0 .. Size /\ calls \in Seq(0 .. Size) /\ Len(calls) = 0 /\ Len(stack) = 0
    BY <1>1, EmptySeq DEF Init
  <2>2. loaded \in BOOLEAN /\ halted \in BOOLEAN
    BY DEF Init
  <2>3. QED
    BY <2>1, <2>2, VmAssumption DEF Init, ControlOK
<1>3. DataOK
  BY DEF Init, DataOK
<1>4. BudgetBoundsActions /\ ReturnsFollowCalls
  BY VmAssumption DEF Init, BudgetBoundsActions, ReturnsFollowCalls
<1>5. QED
  BY <1>2, <1>3, <1>4 DEF VmInv, TypeOK

LEMMA TickInv ==
  ASSUME VmInv, BeginTick \/ BeginTickRemoved
  PROVE  VmInv'
<1>1. program' = program /\ pc' = 0 /\ stack' = << >> /\ calls' = << >> /\ locals' = locals
  BY DEF BeginTick, BeginTickRemoved, Reset
<1>2. Size' = Size /\ Size \in Nat
  BY <1>1, ProgramTypes DEF Size, VmInv
<1>3. /\ remaining' \in 0 .. Budget /\ acted' \in Nat
      /\ acted' * IntrinsicCost + remaining' <= Budget
  BY VmAssumption DEF BeginTick, BeginTickRemoved, VmInv, TypeOK, ControlOK, BudgetBoundsActions
<1>4. ControlOK'
  <2>1. pc' \in 0 .. Size' /\ calls' \in Seq(0 .. Size') /\ Len(calls') = 0 /\ Len(stack') = 0
    BY <1>1, <1>2, EmptySeq
  <2>2. loaded' \in BOOLEAN /\ halted' \in BOOLEAN
    BY DEF BeginTick, BeginTickRemoved, Reset
  <2>3. /\ program' \in Programs /\ phase' \in {"idle", "running"}
        /\ status' \in {"ok", "exhausted", "halted", "error", "trapped", "overrun"}
    BY DEF BeginTick, BeginTickRemoved, VmInv, TypeOK, ControlOK
  <2>4. QED
    BY <1>3, <2>1, <2>2, <2>3, VmAssumption DEF ControlOK
<1>5. DataOK'
  BY <1>1 DEF VmInv, TypeOK, DataOK
<1>6. ReturnsFollowCalls'
  BY <1>1 DEF ReturnsFollowCalls
<1>7. QED
  BY <1>3, <1>4, <1>5, <1>6 DEF VmInv, TypeOK, BudgetBoundsActions

LEMMA EndTickInv ==
  ASSUME VmInv,
         NEW s \in {"exhausted", "halted", "error", "trapped", "overrun"}, EndTick(s)
  PROVE  VmInv'
<1>1. ControlOK'
  BY DEF EndTick, machine, VmInv, TypeOK, ControlOK, Size
<1>2. DataOK'
  BY DEF EndTick, machine, VmInv, TypeOK, DataOK
<1>3. BudgetBoundsActions' /\ ReturnsFollowCalls'
  BY DEF EndTick, machine, VmInv, BudgetBoundsActions, ReturnsFollowCalls
<1>4. QED
  BY <1>1, <1>2, <1>3 DEF VmInv, TypeOK

\* A step keeps the invariant if it leaves the code, the stack, the frames
\* and the count of intrinsics as they should be.
LEMMA StepInv ==
  ASSUME VmInv, NEW ops, "HALT" \notin ops, Step(ops),
         pc' \in 0 .. Size,
         stack' \in Seq(Word), Len(stack') <= MaxStack,
         calls' \in Seq(0 .. Size), Len(calls') <= MaxCallDepth, ReturnsFollowCalls',
         DOMAIN locals' \subseteq {i \in Byte : i < program.locals},
         \A i \in DOMAIN locals' : locals'[i] \in Word,
         acted' = acted \/ (Op \in Intrinsics /\ acted' = acted + 1)
  PROVE  VmInv'
<1>1. TypeOK
  BY DEF VmInv
<1>2. program' = program /\ Size' = Size
  BY DEF Step, Size
<1>3. remaining' \in 0 .. Budget /\ remaining' = remaining - Cost(Op) /\ remaining \in 0 .. Budget
  BY <1>1, Fetched DEF TypeOK, ControlOK
<1>4. Len(stack') \in Nat
  BY LenProperties
<1>5. ControlOK'
  BY <1>1, <1>2, <1>3, <1>4, VmAssumption DEF Step, TypeOK, ControlOK
<1>6. DataOK'
  BY <1>2 DEF DataOK
<1>7. BudgetBoundsActions'
  <2>1. /\ acted \in Nat /\ IntrinsicCost \in Nat \ {0} /\ Budget \in Nat
        /\ acted * IntrinsicCost + remaining <= Budget
    BY <1>1, VmAssumption DEF VmInv, TypeOK, ControlOK, BudgetBoundsActions
  <2>2. CASE acted' = acted
    <3>1. Cost(Op) \in Nat
      BY <2>1 DEF Cost
    <3>2. QED
      BY <1>3, <2>1, <2>2, <3>1 DEF BudgetBoundsActions
  <2>3. CASE Op \in Intrinsics /\ acted' = acted + 1
    <3>1. Cost(Op) = IntrinsicCost
      BY <2>3 DEF Cost
    <3>2. (acted + 1) * IntrinsicCost = acted * IntrinsicCost + IntrinsicCost
      BY <2>1
    <3>3. QED
      BY <1>3, <2>1, <2>3, <3>1, <3>2 DEF BudgetBoundsActions
  <2>4. QED
    BY <2>2, <2>3
<1>8. QED
  BY <1>5, <1>6, <1>7 DEF VmInv, TypeOK

LEMMA ComputeInv == ASSUME VmInv, Compute PROVE VmInv'
<1> DEFINE ops == Binary \union Unary \union {"NOP", "POP", "DUP", "SWAP"}
<1>1. TypeOK /\ "HALT" \notin ops /\ Step(ops)
  BY DEF VmInv, Compute, Binary, Unary
<1> HIDE DEF ops
<1>2. After \in 0 .. Size /\ Pops(Op) <= Len(stack)
  BY <1>1, Fetched, ProgramTypes
<1>3. Len(stack) \in 0 .. MaxStack /\ MaxStack \in Nat /\ stack \in Seq(Word)
  BY <1>1, VmAssumption DEF TypeOK, ControlOK, DataOK
<1>4. Op \in Binary \union Unary \union {"NOP", "POP", "DUP", "SWAP"}
  BY <1>1 DEF Step, ops
<1>5. ASSUME Op \in Unary \union {"POP", "DUP"}
      PROVE  Drop(1) \in Seq(Word) /\ Len(Drop(1)) = Len(stack) - 1 /\ Top \in Word
  <2>1. Pops(Op) = 1
    BY <1>5 DEF Pops, Binary, Unary
  <2>2. QED
    BY <1>1, <1>2, <2>1, StackTaken
<1>6. ASSUME Op \in Binary \union {"SWAP"}
      PROVE  /\ Drop(2) \in Seq(Word) /\ Len(Drop(2)) = Len(stack) - 2
             /\ Top \in Word /\ Below \in Word
  <2>1. Pops(Op) = 2
    BY <1>6 DEF Pops, Binary, Unary
  <2>2. 2 \in 0 .. 2 /\ 2 <= Len(stack)
    BY <1>2, <2>1
  <2>3. QED
    BY <1>1, <2>2, StackTaken
<1>7. stack' \in Seq(Word) /\ Len(stack') <= MaxStack
  <2>1. CASE Op \in Binary
    <3>1. /\ Drop(2) \in Seq(Word) /\ Len(Drop(2)) = Len(stack) - 2
          /\ Top \in Word /\ Below \in Word
      BY <1>1, <1>3, <1>6, <2>1
    <3>2. Op \in {"DIV", "MOD"} => Top # 0 /\ ~(Below = -HalfWord /\ Top = -1)
      BY <1>1 DEF Compute, Traps, Step, Allowed
    <3>3. Result(Op, Below, Top) \in Word
      BY <2>1, <3>1, <3>2, ResultIsWord
    <3>4. stack' = Append(Drop(2), Result(Op, Below, Top))
      BY <2>1 DEF Compute, Binary
    <3> DEFINE w == Result(Op, Below, Top)
    <3> HIDE DEF w
    <3>5. Append(Drop(2), w) \in Seq(Word) /\ Len(Append(Drop(2), w)) = Len(Drop(2)) + 1
      BY <3>1, <3>3, Pushed DEF w
    <3>6. QED
      BY <1>3, <3>1, <3>4, <3>5 DEF w
  <2>2. CASE Op \in Unary
    <3>1. Drop(1) \in Seq(Word) /\ Len(Drop(1)) = Len(stack) - 1 /\ Top \in Word
      BY <1>1, <1>3, <1>5, <2>2
    <3> DEFINE w == Wrap(-Top)
               v == Bool(Top = 0)
    <3>a. -Top \in Int
      BY <3>1, VmAssumption DEF Word
    <3>2. w \in Word /\ v \in Word
      BY <3>a, WrapIsWord, BoolIsWord
    <3>3. stack' = Append(Drop(1), w) \/ stack' = Append(Drop(1), v)
      BY <2>2 DEF Compute, Unary, Binary
    <3> HIDE DEF w, v
    <3>4. QED
      BY <1>3, <3>1, <3>2, <3>3, Pushed
  <2>3. CASE Op = "POP"
    <3>1. Drop(1) \in Seq(Word) /\ Len(Drop(1)) = Len(stack) - 1
      BY <1>1, <1>3, <1>5, <2>3
    <3>2. stack' = Drop(1)
      BY <2>3 DEF Compute, Binary
    <3>3. QED
      BY <1>3, <3>1, <3>2
  <2>4. CASE Op = "DUP"
    <3>1. Top \in Word /\ Len(stack) < MaxStack
      BY <1>1, <1>3, <1>5, <2>4 DEF Step, Allowed
    <3>2. stack' = Append(stack, Top)
      BY <2>4 DEF Compute, Binary
    <3>3. QED
      BY <1>3, <3>1, <3>2, Pushed
  <2>5. CASE Op = "SWAP"
    <3>1. /\ Drop(2) \in Seq(Word) /\ Len(Drop(2)) = Len(stack) - 2
          /\ Top \in Word /\ Below \in Word
      BY <1>1, <1>3, <1>6, <2>5
    <3>2. stack' = Drop(2) \o <<Top, Below>>
      BY <2>5 DEF Compute, Binary
    <3>3. <<Top, Below>> \in Seq(Word) /\ Len(<<Top, Below>>) = 2
      BY <3>1
    <3>4. QED
      BY <1>3, <3>1, <3>2, <3>3, ConcatProperties
  <2>6. CASE Op = "NOP"
    BY <1>3, <2>6 DEF Compute, Binary
  <2>7. QED
    BY <1>4, <2>1, <2>2, <2>3, <2>4, <2>5, <2>6
<1>8. QED
  BY <1>1, <1>2, <1>7, StepInv DEF Compute, VmInv, TypeOK, ControlOK, DataOK, Step, ReturnsFollowCalls

LEMMA LoadInv == ASSUME VmInv, Load PROVE VmInv'
<1>1. TypeOK /\ "HALT" \notin Loads /\ Step(Loads) /\ Op \in Loads
  BY DEF VmInv, Load, Loads, Step
<1>2. /\ After \in 0 .. Size
      /\ \A k \in 1 .. 4 : k <= OperandSize(Op) => U8(k) \in 0 .. 255
  BY <1>1, Fetched, ProgramTypes
<1>3. Len(stack) < MaxStack /\ Len(stack) \in Nat /\ MaxStack \in Nat /\ stack \in Seq(Word)
  BY <1>1, VmAssumption DEF Step, Allowed, TypeOK, ControlOK, DataOK
<1>4. PICK w \in Word : stack' = Append(stack, w)
  <2>1. CASE Op = "PUSH_INT"
    <3>1. U8(1) \in Int /\ U8(2) \in Int /\ U8(3) \in Int /\ U8(4) \in Int
      BY <1>2, <2>1 DEF OperandSize
    <3>2. \A n \in Int : Wrap(n) \in Word /\ Wrap(n) \in Int
      BY WrapIsWord, VmAssumption DEF Word
    <3>3. Wrap(U8(3) + 256 * U8(4)) \in Int
      BY <3>1, <3>2
    <3>4. Wrap(U8(2) + 256 * Wrap(U8(3) + 256 * U8(4))) \in Int
      BY <3>1, <3>2, <3>3
    <3>5. I32 \in Word
      BY <3>1, <3>2, <3>4 DEF I32
    <3>6. stack' = Append(stack, I32)
      BY <2>1 DEF Load
    <3>7. QED
      BY <3>5, <3>6
  <2>2. CASE Op = "PUSH_BOOL"
    <3>1. stack' = Append(stack, Bool(U8(1) # 0))
      BY <2>2 DEF Load
    <3>2. QED
      BY <3>1, BoolIsWord
  <2>3. CASE Op = "LOAD_LOCAL"
    <3>1. stack' = Append(stack, Local(U8(1)))
      BY <2>3 DEF Load
    <3>2. Local(U8(1)) \in Word
      BY <1>1, VmAssumption DEF Local, Word, TypeOK, DataOK
    <3>3. QED
      BY <3>1, <3>2
  <2>4. CASE Op = "LOAD_CONST"
    <3>1. stack' = Append(stack, program.constants[U16 + 1][1])
      BY <2>4 DEF Load
    <3>2. U8(1) \in 0 .. 255 /\ U8(2) \in 0 .. 255
      BY <1>2, <2>4 DEF OperandSize
    <3>3. U16 \in Nat /\ U16 < Len(program.constants) /\ program.constants[U16 + 1] # << >>
      <4>1. U16 \in Nat
        BY <3>2, U16IsNat
      <4>2. U16 < Len(program.constants) /\ program.constants[U16 + 1] # << >>
        BY <1>1, <2>4 DEF Step, Allowed
      <4>3. QED
        BY <4>1, <4>2
    <3>4. U16 + 1 \in 1 .. Len(program.constants)
      BY <1>1, <3>3, ProgramTypes, LenProperties
    <3>5. program.constants[U16 + 1] \in Constant
      BY <1>1, <3>4, ProgramTypes, ElementOfSeq
    <3>6. program.constants[U16 + 1][1] \in Word
      BY <3>3, <3>5 DEF Constant
    <3>7. QED
      BY <3>1, <3>6
  <2>5. QED
    BY <1>1, <2>1, <2>2, <2>3, <2>4 DEF Loads
<1>5. stack' \in Seq(Word) /\ Len(stack') <= MaxStack
  BY <1>3, <1>4, Pushed
<1>6. QED
  BY <1>1, <1>2, <1>5, StepInv
     DEF Load, VmInv, TypeOK, ControlOK, DataOK, Step, ReturnsFollowCalls

LEMMA StoreInv == ASSUME VmInv, Store PROVE VmInv'
<1>1. TypeOK /\ Step({"STORE_LOCAL"}) /\ Op = "STORE_LOCAL"
  BY DEF VmInv, Store, Step
<1>2. /\ After \in 0 .. Size
      /\ \A k \in 1 .. 4 : k <= OperandSize(Op) => U8(k) \in 0 .. 255
      /\ Pops(Op) <= Len(stack)
  BY <1>1, Fetched, ProgramTypes
<1>3. U8(1) \in Byte /\ U8(1) < program.locals
  BY <1>1, <1>2 DEF OperandSize, Byte, Step, Allowed
<1>4. Pops(Op) = 1
  BY <1>1 DEF Pops, Binary, Unary
<1>5. Drop(1) \in Seq(Word) /\ Len(Drop(1)) = Len(stack) - 1 /\ Top \in Word
  BY <1>1, <1>2, <1>4, StackTaken
<1>6. stack' \in Seq(Word) /\ Len(stack') <= MaxStack
  BY <1>1, <1>5, VmAssumption DEF Store, TypeOK, ControlOK
<1>7. /\ DOMAIN locals' \subseteq {i \in Byte : i < program.locals}
      /\ \A i \in DOMAIN locals' : locals'[i] \in Word
  BY <1>1, <1>3, <1>5 DEF Store, TypeOK, DataOK
<1>8. QED
  BY <1>1, <1>2, <1>6, <1>7, StepInv DEF Store, VmInv, TypeOK, ControlOK, Step, ReturnsFollowCalls

LEMMA JumpInv == ASSUME VmInv, Jump PROVE VmInv'
<1>1. TypeOK /\ Step({"JMP"}) /\ Op = "JMP"
  BY DEF VmInv, Jump, Step
<1>2. pc' \in 0 .. Size
  BY <1>1 DEF Jump, Step, Allowed
<1>3. stack \in Seq(Word) /\ Len(stack) <= MaxStack
  BY <1>1, VmAssumption DEF TypeOK, ControlOK, DataOK
<1>4. QED
  BY <1>1, <1>2, <1>3, StepInv
     DEF Jump, VmInv, TypeOK, ControlOK, DataOK, Step, ReturnsFollowCalls

LEMMA JumpIfFalseInv == ASSUME VmInv, JumpIfFalse PROVE VmInv'
<1>1. TypeOK /\ Step({"JMP_IF_FALSE"}) /\ Op = "JMP_IF_FALSE"
  BY DEF VmInv, JumpIfFalse, Step
<1>2. After \in 0 .. Size /\ Pops(Op) <= Len(stack)
  BY <1>1, Fetched, ProgramTypes
<1>3. pc' \in 0 .. Size
  BY <1>1, <1>2 DEF JumpIfFalse, Step, Allowed
<1>4. Pops(Op) = 1
  BY <1>1 DEF Pops, Binary, Unary
<1>5. Drop(1) \in Seq(Word) /\ Len(Drop(1)) = Len(stack) - 1
  BY <1>1, <1>2, <1>4, StackTaken
<1>6. stack' \in Seq(Word) /\ Len(stack') <= MaxStack
  BY <1>1, <1>5, VmAssumption DEF JumpIfFalse, TypeOK, ControlOK
<1>7. QED
  BY <1>1, <1>3, <1>6, StepInv
     DEF JumpIfFalse, VmInv, TypeOK, ControlOK, DataOK, Step, ReturnsFollowCalls

LEMMA CallInv == ASSUME VmInv, Call PROVE VmInv'
<1>1. TypeOK /\ Step({"CALL"}) /\ Op = "CALL"
  BY DEF VmInv, Call, Step
<1>2. /\ pc \in Nat /\ pc < Size /\ Size \in Nat /\ After = pc + 3 /\ After \in 1 .. Size
      /\ Op = Decode[program.code[pc + 1]]
      /\ U8(1) \in 0 .. 255 /\ U8(2) \in 0 .. 255
  <2>1. OperandSize(Op) = 2
    BY <1>1 DEF OperandSize
  <2>2. pc \in Nat
    BY <1>1, ProgramTypes DEF TypeOK, ControlOK
  <2>3. pc < Size /\ Op = Decode[program.code[pc + 1]] /\ After = pc + 1 + 2 /\ After \in 1 .. Size
    BY <1>1, <2>1, Fetched
  <2>4. \A k \in 1 .. 4 : k <= 2 => U8(k) \in 0 .. 255
    BY <1>1, <2>1, Fetched
  <2>5. U8(1) \in 0 .. 255 /\ U8(2) \in 0 .. 255
    BY <2>4
  <2>6. QED
    BY <2>2, <2>3, <2>5, <1>1, ProgramTypes
<1>3. pc' \in 0 .. Size
  <2>1. U16 \in Nat
    BY <1>2, U16IsNat
  <2>2. pc' = U16 /\ U16 <= Size
    BY <1>1 DEF Call, Step, Allowed
  <2>3. QED
    BY <1>2, <2>1, <2>2
<1>4. Len(calls) \in Nat /\ Len(calls) < MaxCallDepth /\ calls \in Seq(0 .. Size)
  BY <1>1, LenProperties, VmAssumption DEF TypeOK, ControlOK, Step, Allowed, TooDeep
<1>5. /\ calls' = Append(calls, After) /\ After \in 0 .. Size
      /\ calls' \in Seq(0 .. Size) /\ Len(calls') = Len(calls) + 1
      /\ \A i \in 1 .. Len(calls) : calls'[i] = calls[i]
      /\ calls'[Len(calls) + 1] = After
  BY <1>2, <1>4 DEF Call
<1>6. program.code[After - 2] = Opcode["CALL"]
  <2>1. program.code[pc + 1] \in Byte
    <3>1. \A i \in 1 .. Size : program.code[i] \in 0 .. 255
      BY <1>1, ProgramTypes
    <3>2. pc + 1 \in 1 .. Size
      BY <1>2
    <3>. QED  BY <3>1, <3>2 DEF Byte
  <2>2. Decode[program.code[pc + 1]] = "CALL"
    BY <1>1, <1>2
  <2>3. Opcode[Decode[program.code[pc + 1]]] = program.code[pc + 1]
    <3>. DEFINE b == program.code[pc + 1]
                Named(op) == op \in DOMAIN Opcode /\ Opcode[op] = b
    <3>1. Decode[b] = IF \E op : Named(op) THEN CHOOSE op : Named(op) ELSE "invalid"
      <4>1. Decode[b] = IF \E op \in DOMAIN Opcode : Opcode[op] = b
                        THEN CHOOSE op \in DOMAIN Opcode : Opcode[op] = b ELSE "invalid"
        BY <2>1 DEF Decode
      <4>. QED  BY <4>1, Zenon
    <3>. HIDE DEF b, Named
    <3>2. \E op : Named(op)
      BY <2>2, <3>1 DEF b
    <3>3. Named(Decode[b])
      BY <3>1, <3>2, Zenon
    <3>. QED  BY <3>3 DEF b, Named
  <2>4. After - 2 = pc + 1
    BY <1>2
  <2>5. QED
    BY <2>2, <2>3, <2>4
<1>7. ReturnsFollowCalls'
  <2>1. program' = program
    BY <1>1 DEF Step
  <2>2. SUFFICES ASSUME NEW i \in 1 .. Len(calls) + 1
                 PROVE  calls'[i] >= 3 /\ program.code[calls'[i] - 2] = Opcode["CALL"]
    BY <1>5, <2>1, LenProperties DEF ReturnsFollowCalls
  <2>3. CASE i = Len(calls) + 1
    BY <1>2, <1>5, <1>6, <2>3
  <2>4. CASE i \in 1 .. Len(calls)
    BY <1>4, <1>5, <2>4 DEF VmInv, ReturnsFollowCalls
  <2>5. QED
    BY <1>4, <2>3, <2>4
<1>8. stack \in Seq(Word) /\ Len(stack) <= MaxStack /\ Len(calls') <= MaxCallDepth
  BY <1>1, <1>4, <1>5, VmAssumption DEF TypeOK, ControlOK, DataOK
<1>9. QED
  BY <1>1, <1>3, <1>5, <1>7, <1>8, StepInv DEF Call, TypeOK, DataOK, Step

LEMMA ReturnInv == ASSUME VmInv, Return PROVE VmInv'
<1>1. TypeOK /\ Step({"RETURN"})
  BY DEF VmInv, Return
<1>2. calls \in Seq(0 .. Size) /\ Len(calls) \in Nat \ {0} /\ Len(calls) <= MaxCallDepth
  BY <1>1, EmptySeq DEF Return, TypeOK, ControlOK
<1>3. \A i \in 1 .. Len(calls) : calls[i] \in 0 .. Size
  BY <1>2, ElementOfSeq
<1>4. pc' \in 0 .. Size
  BY <1>2, <1>3 DEF Return
<1>5. /\ calls' = SubSeq(calls, 1, Len(calls) - 1)
      /\ calls' \in Seq(0 .. Size) /\ Len(calls') = Len(calls) - 1
      /\ \A i \in 1 .. Len(calls) - 1 : calls'[i] = calls[i]
  <2>1. \A i \in 1 .. Len(calls) - 1 : calls[i] \in 0 .. Size
    BY <1>2, <1>3
  <2>2. /\ SubSeq(calls, 1, Len(calls) - 1) \in Seq(0 .. Size)
        /\ Len(SubSeq(calls, 1, Len(calls) - 1)) = Len(calls) - 1
        /\ \A i \in 1 .. Len(calls) - 1 : SubSeq(calls, 1, Len(calls) - 1)[i] = calls[i]
    <3>1. 1 \in Int /\ Len(calls) - 1 \in Int
      BY <1>2
    <3>2. /\ SubSeq(calls, 1, Len(calls) - 1) \in Seq(0 .. Size)
          /\ Len(SubSeq(calls, 1, Len(calls) - 1))
               = IF 1 <= Len(calls) - 1 THEN (Len(calls) - 1) - 1 + 1 ELSE 0
          /\ \A i \in 1 .. (Len(calls) - 1) - 1 + 1 :
               SubSeq(calls, 1, Len(calls) - 1)[i] = calls[1 + i - 1]
      BY <2>1, <3>1, SubSeqProperties
    <3>3. \A i \in 1 .. Len(calls) - 1 : 1 + i - 1 = i /\ i \in 1 .. (Len(calls) - 1) - 1 + 1
      BY <1>2
    <3>4. Len(SubSeq(calls, 1, Len(calls) - 1)) = Len(calls) - 1
      <4>1. \A n \in Nat \ {0} : (IF 1 <= n - 1 THEN (n - 1) - 1 + 1 ELSE 0) = n - 1
        OBVIOUS
      <4>2. QED
        BY <1>2, <3>2, <4>1, Zenon
    <3>5. \A i \in 1 .. Len(calls) - 1 : SubSeq(calls, 1, Len(calls) - 1)[i] = calls[i]
      BY <3>2, <3>3
    <3>6. QED
      BY <3>2, <3>4, <3>5
  <2>3. QED
    BY <2>2 DEF Return
<1>6. ReturnsFollowCalls'
  <2>1. program' = program /\ DOMAIN calls' = 1 .. Len(calls) - 1 /\ DOMAIN calls = 1 .. Len(calls)
    BY <1>1, <1>2, <1>5, LenProperties DEF Step
  <2>2. QED
    BY <1>2, <1>5, <2>1 DEF VmInv, ReturnsFollowCalls
<1>7. /\ stack \in Seq(Word) /\ Len(stack) <= MaxStack
      /\ Len(calls') <= MaxCallDepth
  BY <1>1, <1>2, <1>5, VmAssumption DEF TypeOK, ControlOK, DataOK
<1>8. QED
  BY <1>1, <1>4, <1>5, <1>6, <1>7, StepInv DEF Return, TypeOK, DataOK, Step

LEMMA IntrinsicInv == ASSUME VmInv, Intrinsic PROVE VmInv'
<1>1. TypeOK /\ "HALT" \notin Intrinsics /\ Step(Intrinsics) /\ Op \in Intrinsics
  BY DEF VmInv, Intrinsic, Intrinsics, Step
<1>2. After \in 0 .. Size
  BY <1>1, Fetched, ProgramTypes
<1>3. stack \in Seq(Word) /\ Len(stack) \in Nat
  BY <1>1, LenProperties DEF TypeOK, DataOK
<1>4. Observations(Op) \in Nat /\ Len(stack) + Observations(Op) <= MaxStack
  BY DEF Observations, Intrinsic
<1>7. stack' \in Seq(Word) /\ Len(stack') = Len(stack) + Observations(Op)
  BY DEF Intrinsic
<1>8. Len(stack') <= MaxStack
  BY <1>4, <1>7
<1>9. QED
  BY <1>1, <1>2, <1>7, <1>8, StepInv
     DEF Intrinsic, VmInv, TypeOK, ControlOK, DataOK, Step, ReturnsFollowCalls

LEMMA NextInv == VmInv /\ [Next]_vars => VmInv'
<1> SUFFICES ASSUME VmInv, [Next]_vars PROVE VmInv'
  OBVIOUS
<1>1. CASE BeginTick \/ BeginTickRemoved
  BY <1>1, TickInv
<1>2. CASE Exhaust \/ Halt \/ Fail \/ Trap \/ Overrun
  BY <1>2, EndTickInv DEF Exhaust, Halt, Fail, Trap, Overrun
<1>3. CASE Compute
  BY <1>3, ComputeInv
<1>4. CASE Load
  BY <1>4, LoadInv
<1>5. CASE Store
  BY <1>5, StoreInv
<1>6. CASE Jump
  BY <1>6, JumpInv
<1>7. CASE JumpIfFalse
  BY <1>7, JumpIfFalseInv
<1>8. CASE Call
  BY <1>8, CallInv
<1>9. CASE Return
  BY <1>9, ReturnInv
<1>10. CASE Intrinsic
  BY <1>10, IntrinsicInv
<1>11. CASE UNCHANGED vars
  BY <1>11 DEF vars, machine, VmInv, TypeOK, ControlOK, DataOK, Size,
               BudgetBoundsActions, ReturnsFollowCalls
<1>12. QED
  BY <1>1, <1>2, <1>3, <1>4, <1>5, <1>6, <1>7, <1>8, <1>9, <1>10, <1>11 DEF Next, Run

-----------------------------------------------------------------------------
(* Theorems *)

\* The three invariants hold together.
THEOREM AlwaysInv == Spec => []VmInv
BY InitInv, NextInv, PTL DEF Spec

\* vm.cpp: whatever its bytes, a program that has not overrun the stack
\* stays within the code, the stack, the frames and the locals, and
\* computes words.
THEOREM TypeCorrect == Spec => []TypeOK
BY AlwaysInv, PTL DEF VmInv

\* Vm::run: the budget bounds what a program does to the world in a tick.
THEOREM BudgetAlwaysBoundsActions == Spec => []BudgetBoundsActions
BY AlwaysInv, PTL DEF VmInv

\* CALL and RETURN: a return always resumes behind a call.
THEOREM ReturnsAlwaysFollowCalls == Spec => []ReturnsFollowCalls
BY AlwaysInv, PTL DEF VmInv

\* A step of a running machine ends the tick, or pays for its instruction.
PaysOrEnds == phase = "running" => \/ phase' = "idle"
                                   \/ remaining' \in Nat /\ remaining' < remaining

LEMMA StepPays ==
  ASSUME TypeOK, NEW ops, Step(ops)
  PROVE  PaysOrEnds
<1>1. remaining \in 0 .. Budget /\ Cost(Op) \in Nat \ {0} /\ Cost(Op) <= remaining
  BY VmAssumption DEF TypeOK, ControlOK, Step, Affordable, Cost
<1>2. remaining' = remaining - Cost(Op)
  BY DEF Step
<1>. QED  BY <1>1, <1>2, VmAssumption DEF PaysOrEnds

\* Vm::run: no tick takes more than Budget + 1 steps, also of a program that
\* loops for ever.  It is what TickEnds needs beside fairness.
THEOREM TicksAreShort == Spec => [][PaysOrEnds]_vars
<1>1. VmInv /\ [Next]_vars => [PaysOrEnds]_vars
  <2>. SUFFICES ASSUME TypeOK, Next PROVE PaysOrEnds
    BY DEF VmInv
  <2>1. CASE BeginTick \/ BeginTickRemoved
    BY <2>1 DEF BeginTick, BeginTickRemoved, PaysOrEnds
  <2>2. CASE Exhaust \/ Halt \/ Fail \/ Trap \/ Overrun
    BY <2>2 DEF Exhaust, Halt, Fail, Trap, Overrun, EndTick, PaysOrEnds
  <2>3. CASE Compute \/ Load \/ Store \/ Jump \/ JumpIfFalse \/ Call \/ Return \/ Intrinsic
    BY <2>3, StepPays DEF Compute, Load, Store, Jump, JumpIfFalse, Call, Return, Intrinsic
  <2>. QED  BY <2>1, <2>2, <2>3 DEF Next, Run
<1>. QED  BY <1>1, AlwaysInv, PTL DEF Spec

-----------------------------------------------------------------------------
(* Certificates.  Behind the frames of the machine stand the calls that     *)
(* made them: the function that runs in frame i was called at the site     *)
(* whose return address is calls[i], and found the stack base[i] words     *)
(* high.                                                                   *)
Site(i) == calls[i] - 3
Running(i) == IF i = 0 THEN 0 ELSE U16At(program, Site(i))

FrameFits(c, base, i) ==
  /\ Running(i) \in DOMAIN c.fun
  /\ base[i] + c.fun[Running(i)].room <= MaxStack
  /\ i + c.fun[Running(i)].nesting <= MaxCallDepth

CallMade(c, base, i) ==
  /\ Site(i) \in DOMAIN c.at
  /\ OpAt(program, Site(i)) = "CALL"
  /\ c.at[Site(i)].entry = Running(i - 1)
  /\ base[i] = base[i - 1] + c.at[Site(i)].height

Framed(c, base) ==
  /\ base \in [0 .. Len(calls) -> Nat] /\ base[0] = 0
  /\ \A i \in 0 .. Len(calls) : FrameFits(c, base, i)
  /\ \A i \in 1 .. Len(calls) : CallMade(c, base, i)
  /\ pc \in DOMAIN c.at
  /\ c.at[pc].entry = Running(Len(calls))
  /\ Len(stack) = base[Len(calls)] + c.at[pc].height

\* What Vm calls the instruction at pc is what the certificate looked at.
LEMMA Looked ==
  ASSUME VmInv
  PROVE  /\ Op = OpAt(program, pc) /\ Size = Len(program.code)
         /\ U8(1) = U8At(program, pc) /\ U16 = U16At(program, pc)
         /\ After = AfterAt(program, pc) /\ Target = TargetAt(program, pc)
<1>1. Op = OpAt(program, pc) /\ Size = Len(program.code)
  BY DEF Op, OpAt, AtEnd, Size
<1>2. pc + 1 + 1 = pc + 2 /\ pc + 1 + 2 = pc + 3
  BY ProgramTypes DEF VmInv, TypeOK, ControlOK
<1>3. U8(1) = U8At(program, pc) /\ U16 = U16At(program, pc)
  BY <1>2 DEF U8, U8At, U16, U16At
<1>. QED  BY <1>1, <1>3 DEF I16, Target, TargetAt, After, AfterAt

\* The instruction at pc has been verified, and its function has room for it.
LEMMA Here ==
  ASSUME VmInv, NEW c, Certifies(c, program), NEW base, Framed(c, base)
  PROVE  /\ Verified(c, program, pc)
         /\ Op # "invalid" /\ (After <= Size \/ AtEnd)
         /\ Len(calls) \in Nat /\ base[Len(calls)] \in Nat
         /\ FrameFits(c, base, Len(calls))
         /\ c.at[pc].entry = Running(Len(calls))
         /\ c.at[pc].height \in Nat /\ Pops(Op) <= c.at[pc].height
         /\ Len(stack) = base[Len(calls)] + c.at[pc].height
         /\ \A f \in DOMAIN c.fun : /\ c.fun[f].gives \in Nat /\ c.fun[f].room \in Nat
                                    /\ c.fun[f].nesting \in Nat
<1>1. pc \in DOMAIN c.at /\ Verified(c, program, pc) /\ c.at[pc].height \in Nat
  BY DEF Framed, Certifies
<1>2. Complete(program, pc) /\ Pops(Op) <= c.at[pc].height
  BY <1>1, Looked DEF Verified
<1>3. Op # "invalid" /\ (After <= Size \/ AtEnd)
  BY <1>2, Looked, ProgramTypes DEF Complete, AtEnd, VmInv
<1>4. Len(calls) \in Nat
  BY LenProperties DEF VmInv, TypeOK, ControlOK
<1>5. /\ base[Len(calls)] \in Nat /\ FrameFits(c, base, Len(calls))
      /\ c.at[pc].entry = Running(Len(calls))
      /\ Len(stack) = base[Len(calls)] + c.at[pc].height
  BY <1>4 DEF Framed
<1>6. \A f \in DOMAIN c.fun : /\ c.fun[f].gives \in Nat /\ c.fun[f].room \in Nat
                              /\ c.fun[f].nesting \in Nat
  BY DEF Certifies
<1>. QED  BY <1>1, <1>2, <1>3, <1>4, <1>5, <1>6

\* Where control may go within the function is known, and the stack has room.
LEMMA RoomAhead ==
  ASSUME VmInv, NEW c, Certifies(c, program), NEW base, Framed(c, base),
         NEW s \in Successors(program, pc), Op # "CALL"
  PROVE  /\ s \in DOMAIN c.at /\ s \in 0 .. Size
         /\ c.at[s].entry = Running(Len(calls))
         /\ c.at[s].height = c.at[pc].height + PutsBack(Op) - Pops(Op)
         /\ Len(stack) + PutsBack(Op) - Pops(Op) <= MaxStack
<1>1. /\ s \in DOMAIN c.at
      /\ c.at[s] = [entry |-> c.at[pc].entry, height |-> HeightAfter(c, program, pc)]
  BY Here DEF Verified
<1>2. /\ c.at[s].entry = Running(Len(calls))
      /\ c.at[s].height = c.at[pc].height + (PutsBack(Op) - Pops(Op))
  BY <1>1, Here, Looked DEF HeightAfter
<1>3. Verified(c, program, s)
  BY <1>1 DEF Certifies
<1>4. s \in 0 .. Size /\ c.at[s].height <= c.fun[Running(Len(calls))].room
  BY <1>2, <1>3, Looked DEF Verified, Complete
<1>5. PutsBack(Op) \in Nat /\ Pops(Op) \in Nat
  BY DEF PutsBack, Pops, Observations
<1>6. /\ base[Len(calls)] \in Nat /\ c.at[pc].height \in Nat /\ MaxStack \in Nat
      /\ Len(stack) = base[Len(calls)] + c.at[pc].height
      /\ base[Len(calls)] + c.fun[Running(Len(calls))].room <= MaxStack
      /\ c.fun[Running(Len(calls))].room \in Nat
  BY Here, VmAssumption DEF FrameFits
<1>7. c.at[s].height = c.at[pc].height + PutsBack(Op) - Pops(Op)
  BY <1>2, <1>5, <1>6
<1>8. Len(stack) + PutsBack(Op) - Pops(Op) <= MaxStack
  BY <1>4, <1>5, <1>6, <1>7
<1>. QED  BY <1>1, <1>2, <1>4, <1>7, <1>8

\* A certified program breaks off at divisions only.
LEMMA CertifiedAllowed ==
  ASSUME VmInv, NEW c, Certifies(c, program), NEW base, Framed(c, base),
         Op \notin {"DIV", "MOD"}
  PROVE  Allowed
<1>1. Len(stack) = base[Len(calls)] + c.at[pc].height /\ Pops(Op) <= Len(stack)
  <2>1. Pops(Op) \in Nat
    BY DEF Pops
  <2>. QED  BY <2>1, Here
<1>2. Op \in Loads \union {"DUP"} => Len(stack) < MaxStack
  <2>. SUFFICES ASSUME Op \in Loads \union {"DUP"} PROVE Len(stack) < MaxStack
    OBVIOUS
  <2>1. After \in Successors(program, pc) /\ Op # "CALL"
    BY Looked DEF Successors, Loads
  <2>2. PutsBack(Op) = Pops(Op) + 1 /\ Pops(Op) \in Nat
    BY DEF PutsBack, Pops, Loads, Binary, Unary, Intrinsics
  <2>3. Len(stack) + PutsBack(Op) - Pops(Op) <= MaxStack
    BY <2>1, RoomAhead
  <2>4. Len(stack) \in Nat /\ MaxStack \in Nat
    BY VmAssumption DEF VmInv, TypeOK, ControlOK
  <2>. QED  BY <2>2, <2>3, <2>4
<1>3. Op \in {"JMP", "JMP_IF_FALSE"} => Target \in 0 .. Size
  <2>1. Op \in {"JMP", "JMP_IF_FALSE"} => Target \in Successors(program, pc) /\ Op # "CALL"
    BY Looked DEF Successors
  <2>. QED  BY <2>1, RoomAhead
<1>4. Op = "CALL" => ~TooDeep /\ U16 <= Size
  <2>. SUFFICES ASSUME Op = "CALL" PROVE ~TooDeep /\ U16 <= Size
    OBVIOUS
  <2>1. CallFits(c, program, pc)
    BY Here, Looked DEF Verified
  <2>2. /\ U16 \in DOMAIN c.at /\ U16 \in DOMAIN c.fun
        /\ c.fun[U16].nesting < c.fun[Running(Len(calls))].nesting
    BY <2>1, Here, Looked DEF CallFits
  <2>3. U16 \in 0 .. Size
    BY <2>2, Looked DEF Certifies, Verified, Complete
  <2>4. /\ Len(calls) \in Nat /\ MaxCallDepth \in Nat
        /\ c.fun[U16].nesting \in Nat /\ c.fun[Running(Len(calls))].nesting \in Nat
        /\ Len(calls) + c.fun[Running(Len(calls))].nesting <= MaxCallDepth
    BY <2>2, Here, VmAssumption DEF FrameFits
  <2>5. Len(calls) < MaxCallDepth
    BY <2>2, <2>4
  <2>. QED  BY <2>3, <2>4, <2>5 DEF TooDeep
<1>5. /\ Op \in {"LOAD_LOCAL", "STORE_LOCAL"} => U8(1) < program.locals
      /\ Op = "LOAD_CONST" => /\ U16 < Len(program.constants)
                             /\ program.constants[U16 + 1] # << >>
  BY Here, Looked DEF Verified
<1>. QED  BY <1>1, <1>2, <1>3, <1>4, <1>5, Here DEF Allowed

\* A step within a function.
LEMMA FramedAhead ==
  ASSUME VmInv, NEW c, Certifies(c, program), NEW base, Framed(c, base), Op # "CALL",
         program' = program, calls' = calls, pc' \in Successors(program, pc),
         Len(stack') = Len(stack) + PutsBack(Op) - Pops(Op)
  PROVE  Framed(c, base)'
<1>1. \A i : Site(i)' = Site(i) /\ Running(i)' = Running(i)
  BY DEF Site, Running
<1>2. /\ \A i \in 0 .. Len(calls) : FrameFits(c, base, i)'
      /\ \A i \in 1 .. Len(calls) : CallMade(c, base, i)'
  BY <1>1 DEF Framed, FrameFits, CallMade
<1>3. /\ pc' \in DOMAIN c.at /\ c.at[pc'].entry = Running(Len(calls))
      /\ c.at[pc'].height = c.at[pc].height + PutsBack(Op) - Pops(Op)
  BY RoomAhead
<1>4. PutsBack(Op) \in Nat /\ Pops(Op) \in Nat
  BY DEF PutsBack, Pops, Observations
<1>5. Len(stack') = base[Len(calls)] + c.at[pc'].height
  BY <1>3, <1>4, Here
<1>. QED  BY <1>1, <1>2, <1>3, <1>5 DEF Framed

LEMMA FramedCall ==
  ASSUME VmInv, NEW c, Certifies(c, program), NEW base, Framed(c, base), Call
  PROVE  \E b : Framed(c, b)'
<1>0. PICK n : n = Len(calls)
  OBVIOUS
<1>1. Op = "CALL" /\ program' = program /\ stack' = stack /\ pc' = U16 /\ TypeOK
  BY DEF Call, Step, VmInv
<1>2. pc \in Nat /\ After = pc + 3
  BY <1>1, ProgramTypes DEF After, OperandSize, TypeOK, ControlOK
<1>3. /\ n \in Nat /\ Len(calls') = n + 1 /\ calls'[n + 1] = pc + 3
      /\ \A i \in 1 .. n : calls'[i] = calls[i]
  <2>1. calls \in Seq(0 .. Size) /\ calls' = Append(calls, After)
    BY <1>1 DEF Call, TypeOK, ControlOK
  <2>. QED  BY <1>0, <1>2, <2>1
<1>4. /\ \A i \in 1 .. n : Site(i)' = Site(i)
      /\ \A i \in 0 .. n : Running(i)' = Running(i)
      /\ Site(n + 1)' = pc /\ Running(n + 1)' = U16
  <2>1. /\ \A i \in 1 .. n : Site(i)' = Site(i)
        /\ Site(n + 1)' = pc
    BY <1>2, <1>3 DEF Site
  <2>2. \A i \in 0 .. n : Running(i)' = Running(i)
    BY <1>1, <1>3, <2>1 DEF Running
  <2>3. Running(n + 1)' = U16At(program, pc)
    BY <1>1, <1>3, <2>1 DEF Running
  <2>. QED  BY <2>1, <2>2, <2>3, Looked
<1>5. CallFits(c, program, pc)
  BY <1>1, Here, Looked DEF Verified
<1>6. /\ U16 \in DOMAIN c.fun /\ U16 \in DOMAIN c.at
      /\ c.at[U16].entry = U16 /\ c.at[U16].height = 0
      /\ c.at[pc].height + c.fun[U16].room <= c.fun[Running(n)].room
      /\ c.fun[U16].nesting < c.fun[Running(n)].nesting
  BY <1>0, <1>5, Here, Looked DEF CallFits
<1>7. PICK b : /\ b \in [0 .. n + 1 -> Nat] /\ b[0] = 0 /\ (\A i \in 0 .. n : b[i] = base[i])
               /\ b[n + 1] = base[n] + c.at[pc].height
  <2>. DEFINE h == base[n] + c.at[pc].height
              w == [i \in 0 .. n + 1 |-> IF i = n + 1 THEN h ELSE base[i]]
  <2>1. base \in [0 .. n -> Nat] /\ base[0] = 0 /\ h \in Nat
    BY <1>0, <1>3, Here DEF Framed
  <2>. HIDE DEF h
  <2>2. w \in [0 .. n + 1 -> Nat] /\ w[0] = 0 /\ (\A i \in 0 .. n : w[i] = base[i]) /\ w[n + 1] = h
    BY <1>3, <2>1
  <2>. HIDE DEF w
  <2>. QED  BY <2>2 DEF h
<1>8. ASSUME NEW i \in 0 .. n + 1 PROVE FrameFits(c, b, i)'
  <2>1. CASE i \in 0 .. n
    BY <1>0, <1>4, <1>7, <2>1 DEF Framed, FrameFits
  <2>2. CASE i = n + 1
    <3>1. /\ base[n] \in Nat /\ c.at[pc].height \in Nat /\ MaxStack \in Nat
          /\ c.fun[U16].room \in Nat /\ c.fun[Running(n)].room \in Nat
          /\ base[n] + c.fun[Running(n)].room <= MaxStack
      BY <1>0, <1>6, Here, VmAssumption DEF FrameFits
    <3>2. /\ c.fun[U16].nesting \in Nat /\ c.fun[Running(n)].nesting \in Nat
          /\ MaxCallDepth \in Nat /\ n + c.fun[Running(n)].nesting <= MaxCallDepth
      BY <1>0, <1>6, Here, VmAssumption DEF FrameFits
    <3>3. b[n + 1] + c.fun[U16].room <= MaxStack
      BY <1>6, <1>7, <3>1
    <3>4. n + 1 + c.fun[U16].nesting <= MaxCallDepth
      BY <1>3, <1>6, <3>2
    <3>. QED  BY <1>4, <1>6, <2>2, <3>3, <3>4 DEF FrameFits
  <2>. QED  BY <1>3, <2>1, <2>2
<1>9. ASSUME NEW i \in 1 .. n + 1 PROVE CallMade(c, b, i)'
  <2>1. CASE i \in 1 .. n
    <3>1. CallMade(c, base, i) /\ i - 1 \in 0 .. n /\ i \in 0 .. n
      BY <1>0, <1>3, <2>1 DEF Framed
    <3>. QED  BY <1>1, <1>4, <1>7, <2>1, <3>1 DEF CallMade
  <2>2. CASE i = n + 1
    <3>1. i - 1 = n /\ n \in 0 .. n
      BY <1>3, <2>2
    <3>2. pc \in DOMAIN c.at /\ OpAt(program, pc) = "CALL" /\ c.at[pc].entry = Running(n)
      BY <1>0, <1>1, Here, Looked DEF Framed
    <3>. QED  BY <1>1, <1>4, <1>7, <2>2, <3>1, <3>2 DEF CallMade
  <2>. QED  BY <1>3, <2>1, <2>2
<1>10. Len(stack') = b[n + 1] + c.at[pc'].height
  BY <1>0, <1>1, <1>6, <1>7, Here
<1>11. Running(Len(calls))' = U16
  BY <1>1, <1>2, <1>3, Looked DEF Running, Site
<1>. QED  BY <1>1, <1>3, <1>6, <1>7, <1>8, <1>9, <1>10, <1>11 DEF Framed

LEMMA FramedReturn ==
  ASSUME VmInv, NEW c, Certifies(c, program), NEW base, Framed(c, base), Return
  PROVE  \E b : Framed(c, b)'
<1>0. PICK n, s : n = Len(calls) /\ s = Site(n)
  OBVIOUS
<1>1. Op = "RETURN" /\ program' = program /\ stack' = stack /\ pc' = calls[n] /\ TypeOK
  BY <1>0 DEF Return, Step, VmInv
<1>2. /\ n \in Nat \ {0} /\ Len(calls') = n - 1 /\ \A i \in 1 .. n - 1 : calls'[i] = calls[i]
      /\ calls[n] \in Nat
  <2>1. calls \in Seq(0 .. Size) /\ n \in Nat \ {0} /\ Size \in Nat
    BY <1>0, <1>1, EmptySeq, ProgramTypes DEF Return, TypeOK, ControlOK
  <2>2. /\ Len(SubSeq(calls, 1, n - 1)) = n - 1
        /\ \A i \in 1 .. n - 1 : SubSeq(calls, 1, n - 1)[i] = calls[i]
    BY <1>0, <2>1
  <2>3. calls[n] \in 0 .. Size
    BY <1>0, <2>1, ElementOfSeq
  <2>. QED  BY <1>0, <2>1, <2>2, <2>3 DEF Return
<1>3. /\ \A i \in 1 .. n - 1 : Site(i)' = Site(i)
      /\ \A i \in 0 .. n - 1 : Running(i)' = Running(i)
  <2>1. \A i \in 1 .. n - 1 : Site(i)' = Site(i)
    BY <1>2 DEF Site
  <2>. QED  BY <1>1, <1>2, <2>1 DEF Running
<1>4. /\ s \in DOMAIN c.at /\ OpAt(program, s) = "CALL" /\ c.at[s].entry = Running(n - 1)
      /\ base[n] = base[n - 1] + c.at[s].height /\ Running(n) = U16At(program, s)
      /\ s = calls[n] - 3
  BY <1>0, <1>2 DEF Framed, CallMade, Running, Site
<1>5. pc' \in Successors(program, s)
  <2>1. AfterAt(program, s) = pc'
    BY <1>1, <1>2, <1>4 DEF AfterAt, OperandSize
  <2>. QED  BY <1>4, <2>1 DEF Successors
<1>6. /\ pc' \in DOMAIN c.at /\ c.at[pc'].entry = Running(n - 1)
      /\ c.at[pc'].height = c.at[s].height + c.fun[Running(n)].gives
      /\ c.at[s].height \in Nat
  <2>1. Verified(c, program, s) /\ c.at[s].height \in Nat
    BY <1>4 DEF Certifies
  <2>2. /\ pc' \in DOMAIN c.at
        /\ c.at[pc'] = [entry |-> c.at[s].entry, height |-> HeightAfter(c, program, s)]
    BY <1>5, <2>1 DEF Verified
  <2>. QED  BY <1>4, <2>1, <2>2 DEF HeightAfter
<1>7. c.at[pc].height = c.fun[Running(n)].gives
  BY <1>0, <1>1, Here, Looked DEF Verified
<1>8. PICK b : b \in [0 .. n - 1 -> Nat] /\ b[0] = 0 /\ \A i \in 0 .. n - 1 : b[i] = base[i]
  <2>. DEFINE w == [i \in 0 .. n - 1 |-> base[i]]
  <2>1. w \in [0 .. n - 1 -> Nat] /\ w[0] = 0 /\ \A i \in 0 .. n - 1 : w[i] = base[i]
    BY <1>0, <1>2 DEF Framed
  <2>. QED  BY <2>1
<1>9. Len(stack') = b[n - 1] + c.at[pc'].height
  <2>1. base[n - 1] \in Nat /\ b[n - 1] = base[n - 1]
    BY <1>2, <1>8
  <2>2. Len(stack) = base[n] + c.at[pc].height /\ c.at[pc].height \in Nat
    BY <1>0, Here
  <2>. QED  BY <1>1, <1>4, <1>6, <1>7, <2>1, <2>2
<1>10. \A i \in 0 .. n - 1 : FrameFits(c, b, i)'
  <2>1. \A i \in 0 .. n - 1 : FrameFits(c, base, i)
    BY <1>0, <1>2 DEF Framed
  <2>. QED  BY <1>3, <1>8, <2>1 DEF FrameFits
<1>11. ASSUME NEW i \in 1 .. n - 1 PROVE CallMade(c, b, i)'
  <2>1. CallMade(c, base, i) /\ i \in 0 .. n - 1 /\ i - 1 \in 0 .. n - 1
    BY <1>0, <1>2 DEF Framed
  <2>. QED  BY <1>1, <1>3, <1>8, <2>1 DEF CallMade
<1>12. n - 1 \in 0 .. n - 1
  BY <1>2
<1>13. Running(Len(calls))' = Running(n - 1)
  BY <1>1, <1>2 DEF Running, Site
<1>. QED  BY <1>2, <1>6, <1>8, <1>9, <1>10, <1>11, <1>13 DEF Framed

\* What an instruction that computes makes of the height of the stack.
LEMMA ComputeHeight ==
  ASSUME TypeOK, Compute
  PROVE  Len(stack') = Len(stack) + PutsBack(Op) - Pops(Op)
<1>1. /\ Pops(Op) <= Len(stack) /\ Len(stack) \in Nat /\ stack \in Seq(Word)
      /\ Op \in Binary \union Unary \union {"NOP", "POP", "DUP", "SWAP"}
  BY LenProperties DEF Compute, Step, Allowed, TypeOK, ControlOK, DataOK
<1>2. \A n \in 0 .. 2 : n <= Len(stack) => Drop(n) \in Seq(Word) /\ Len(Drop(n)) = Len(stack) - n
  BY StackTaken
<1>3. \A q \in Seq(Word) : \A w : Len(Append(q, w)) = Len(q) + 1
  OBVIOUS
<1>4. CASE Op \in Binary
  <2>1. Pops(Op) = 2 /\ PutsBack(Op) = 1
    BY <1>4 DEF Pops, PutsBack, Binary, Unary, Loads, Intrinsics
  <2>2. stack' = Append(Drop(2), Result(Op, Below, Top))
    BY <1>4 DEF Compute, Binary
  <2>3. 2 \in 0 .. 2 /\ 2 <= Len(stack)
    BY <1>1, <2>1
  <2>4. Drop(2) \in Seq(Word) /\ Len(Drop(2)) = Len(stack) - 2
    BY <1>2, <2>3
  <2>5. Len(stack') = Len(Drop(2)) + 1
    BY <1>3, <2>2, <2>4
  <2>. QED  BY <1>1, <2>1, <2>4, <2>5
<1>5. CASE Op \in Unary \union {"POP"}
  <2>1. Pops(Op) = 1 /\ PutsBack(Op) = IF Op \in Unary THEN 1 ELSE 0
    BY <1>5 DEF Pops, PutsBack, Binary, Unary, Loads, Intrinsics
  <2>2. 1 \in 0 .. 2 /\ 1 <= Len(stack)
    BY <1>1, <2>1
  <2>3. Drop(1) \in Seq(Word) /\ Len(Drop(1)) = Len(stack) - 1
    BY <1>2, <2>2
  <2>4. IF Op \in Unary THEN \E w : stack' = Append(Drop(1), w) ELSE stack' = Drop(1)
    BY <1>5 DEF Compute, Binary, Unary
  <2>5. Len(stack') = Len(Drop(1)) + IF Op \in Unary THEN 1 ELSE 0
    BY <1>1, <1>3, <2>3, <2>4
  <2>. QED  BY <1>1, <2>1, <2>3, <2>5
<1>6. CASE Op = "DUP"
  <2>1. Pops(Op) = 1 /\ PutsBack(Op) = 2 /\ stack' = Append(stack, Top)
    BY <1>6 DEF Pops, PutsBack, Binary, Unary, Loads, Intrinsics, Compute
  <2>2. Len(stack') = Len(stack) + 1
    BY <1>1, <1>3, <2>1
  <2>. QED  BY <1>1, <2>1, <2>2
<1>7. CASE Op = "SWAP"
  <2>1. Pops(Op) = 2 /\ PutsBack(Op) = 2 /\ stack' = Drop(2) \o <<Top, Below>>
    BY <1>7 DEF Pops, PutsBack, Binary, Unary, Loads, Intrinsics, Compute
  <2>2. Top \in Word /\ Below \in Word /\ Drop(2) \in Seq(Word) /\ Len(Drop(2)) = Len(stack) - 2
    <3>1. 2 \in 0 .. 2 /\ 2 <= Len(stack)
      BY <1>1, <2>1
    <3>. QED  BY <3>1, StackTaken
  <2>3. <<Top, Below>> \in Seq(Word) /\ Len(<<Top, Below>>) = 2
    BY <2>2
  <2>4. Len(stack') = Len(Drop(2)) + 2
    BY <2>1, <2>2, <2>3, ConcatProperties
  <2>. QED  BY <1>1, <2>1, <2>2, <2>4
<1>8. CASE Op = "NOP"
  <2>1. Pops(Op) = 0 /\ PutsBack(Op) = 0 /\ stack' = stack
    BY <1>8 DEF Pops, PutsBack, Binary, Unary, Loads, Intrinsics, Compute
  <2>. QED  BY <1>1, <2>1
<1>. QED  BY <1>1, <1>4, <1>5, <1>6, <1>7, <1>8

\* The steps that stay within a function.
LEMMA StepAhead ==
  ASSUME VmInv, Compute \/ Load \/ Store \/ Jump \/ JumpIfFalse \/ Intrinsic
  PROVE  /\ Op # "CALL" /\ program' = program /\ calls' = calls
         /\ pc' \in Successors(program, pc)
         /\ Len(stack') = Len(stack) + PutsBack(Op) - Pops(Op)
<1>1. /\ Op # "CALL" /\ program' = program /\ calls' = calls
      /\ pc' \in Successors(program, pc)
  BY Looked DEF Compute, Load, Store, Jump, JumpIfFalse, Intrinsic, Step, Successors,
                Binary, Unary, Loads, Intrinsics
<1>2. TypeOK /\ Len(stack) \in Nat /\ stack \in Seq(Word)
  BY LenProperties DEF VmInv, TypeOK, DataOK
<1>3. CASE Compute
  BY <1>1, <1>2, <1>3, ComputeHeight
<1>4. CASE Load
  <2>1. Pops(Op) = 0 /\ PutsBack(Op) = 1 /\ \E w : stack' = Append(stack, w)
    BY <1>4 DEF Load, Step, Pops, PutsBack, Binary, Unary, Loads, Intrinsics
  <2>2. Len(stack') = Len(stack) + 1
    <3>1. \A q \in Seq(Word) : \A w : Len(Append(q, w)) = Len(q) + 1
      OBVIOUS
    <3>. QED  BY <1>2, <2>1, <3>1
  <2>. QED  BY <1>1, <1>2, <2>1, <2>2
<1>5. CASE Store \/ JumpIfFalse
  <2>1. Pops(Op) = 1 /\ PutsBack(Op) = 0 /\ stack' = Drop(1)
    BY <1>5 DEF Store, JumpIfFalse, Step, Pops, PutsBack, Binary, Unary, Loads, Intrinsics
  <2>2. 1 \in 0 .. 2 /\ 1 <= Len(stack)
    BY <1>5, <2>1 DEF Store, JumpIfFalse, Step, Allowed
  <2>3. Len(Drop(1)) = Len(stack) - 1
    BY <1>2, <2>2, StackTaken
  <2>. QED  BY <1>1, <1>2, <2>1, <2>3
<1>6. CASE Jump
  <2>1. Pops(Op) = 0 /\ PutsBack(Op) = 0 /\ stack' = stack
    BY <1>6 DEF Jump, Step, Pops, PutsBack, Binary, Unary, Loads, Intrinsics
  <2>. QED  BY <1>1, <1>2, <2>1
<1>7. CASE Intrinsic
  <2>1. /\ Pops(Op) = 0 /\ PutsBack(Op) = Observations(Op) /\ Observations(Op) \in Nat
        /\ Len(stack') = Len(stack) + Observations(Op)
    BY <1>7 DEF Intrinsic, Step, Pops, PutsBack, Binary, Unary, Loads, Intrinsics, Observations
  <2>. QED  BY <1>1, <1>2, <2>1
<1>. QED  BY <1>1, <1>3, <1>4, <1>5, <1>6, <1>7

IsFramed(c) == \E base : Framed(c, base)

CertInv(c) == Certifies(c, program) => RunsAs(c) /\ IsFramed(c)

\* At the beginning of a tick the program's entry runs, in no frame.
AtStart(c) == Certifies(c, program) /\ pc = 0 /\ stack = << >> /\ calls = << >>

LEMMA FramedAtStart ==
  ASSUME NEW c
  PROVE  AtStart(c) => IsFramed(c)
<1>. SUFFICES ASSUME AtStart(c) PROVE IsFramed(c)
  OBVIOUS
<1>. DEFINE base == [i \in 0 .. 0 |-> 0]
<1>1. Len(calls) = 0 /\ Len(stack) = 0 /\ Running(0) = 0
  BY DEF AtStart, Running
<1>2. 0 \in DOMAIN c.at /\ c.at[0].entry = 0 /\ c.at[0].height = 0
  BY DEF AtStart, Certifies
<1>3. FrameFits(c, base, 0)
  BY <1>1, VmAssumption DEF AtStart, Certifies, FrameFits
<1>4. base \in [0 .. 0 -> Nat] /\ base[0] = 0 /\ 0 .. 0 = {0}
  OBVIOUS
<1>. HIDE DEF base
<1>. QED  BY <1>1, <1>2, <1>3, <1>4 DEF AtStart, IsFramed, Framed

LEMMA FramedAtNextStart ==
  ASSUME NEW c
  PROVE  AtStart(c)' => IsFramed(c)'
BY FramedAtStart, PTL

\* Of the ways a tick breaks off, only those of a division are left.
LEMMA EndsWell ==
  ASSUME VmInv, NEW c, Certifies(c, program), NEW base, Framed(c, base),
         Exhaust \/ Halt \/ Fail \/ Trap \/ Overrun
  PROVE  status' # "overrun" /\ (status' \in {"error", "trapped"} => Divides(c))
<1>1. Op \in {"DIV", "MOD"} => Divides(c)
  BY Looked DEF Divides, Framed
<1>2. CASE Exhaust \/ Halt
  BY <1>2 DEF Exhaust, Halt, EndTick
<1>3. CASE Fail
  BY <1>1, <1>3, CertifiedAllowed DEF Fail, EndTick
<1>4. CASE Trap
  BY <1>1, <1>4 DEF Trap, Traps, EndTick
<1>5. CASE Overrun
  <2>1. Op \in Intrinsics /\ Len(stack) + Observations(Op) > MaxStack
    BY <1>5 DEF Overrun
  <2>2. After \in Successors(program, pc) /\ Op # "CALL"
    BY <2>1, Looked DEF Successors, Intrinsics
  <2>3. PutsBack(Op) = Observations(Op) /\ Pops(Op) = 0 /\ Observations(Op) \in Nat
    BY <2>1 DEF PutsBack, Pops, Observations, Intrinsics, Loads, Binary, Unary
  <2>4. Len(stack) \in Nat /\ MaxStack \in Nat
    BY VmAssumption DEF VmInv, TypeOK, ControlOK
  <2>5. Len(stack) + PutsBack(Op) - Pops(Op) <= MaxStack
    BY <2>2, RoomAhead
  <2>. QED  BY <2>1, <2>3, <2>4, <2>5
<1>. QED  BY <1>2, <1>3, <1>4, <1>5

LEMMA CertifiedStep ==
  ASSUME VmInv, NEW c, CertInv(c), [Next]_vars
  PROVE  CertInv(c)'
<1>1. program' = program
  BY DEF Next, BeginTick, BeginTickRemoved, Run, Exhaust, Halt, Fail, Trap, Overrun, EndTick,
         Compute, Load, Store, Jump, JumpIfFalse, Call, Return, Intrinsic, Step, vars
<1>. SUFFICES ASSUME Certifies(c, program) PROVE RunsAs(c)' /\ IsFramed(c)'
  BY <1>1 DEF CertInv
<1>2. PICK base : Framed(c, base)
  BY DEF CertInv, IsFramed
<1>3. RunsAs(c)
  BY DEF CertInv
<1>4. ASSUME NEW b, Framed(c, b)' PROVE pc' \in DOMAIN c.at
  BY <1>4 DEF Framed
<1>5. Divides(c)' = Divides(c)
  BY <1>1 DEF Divides
<1>6. CASE BeginTick \/ BeginTickRemoved
  <2>1. pc' = 0 /\ stack' = << >> /\ calls' = << >> /\ status' = status
    BY <1>6 DEF BeginTick, BeginTickRemoved, Reset
  <2>2. AtStart(c)'
    BY <1>1, <2>1 DEF AtStart
  <2>3. IsFramed(c)'
    BY <2>2, FramedAtNextStart
  <2>4. pc' \in DOMAIN c.at
    BY <1>4, <2>3 DEF IsFramed
  <2>. QED  BY <1>3, <1>5, <2>1, <2>3, <2>4 DEF RunsAs
<1>7. CASE Exhaust \/ Halt \/ Fail \/ Trap \/ Overrun
  <2>1. pc' = pc /\ stack' = stack /\ calls' = calls
    BY <1>7 DEF Exhaust, Halt, Fail, Trap, Overrun, EndTick, machine
  <2>2. Framed(c, base)'
    BY <1>1, <1>2, <2>1 DEF Framed, FrameFits, CallMade, Running, Site
  <2>3. status' # "overrun" /\ (status' \in {"error", "trapped"} => Divides(c))
    BY <1>2, <1>7, EndsWell
  <2>. QED  BY <1>4, <1>5, <2>2, <2>3 DEF RunsAs, IsFramed
<1>8. CASE Compute \/ Load \/ Store \/ Jump \/ JumpIfFalse \/ Call \/ Return \/ Intrinsic
  <2>1. status' = status
    BY <1>8 DEF Compute, Load, Store, Jump, JumpIfFalse, Call, Return, Intrinsic, Step
  <2>2. CASE Call
    BY <1>2, <1>3, <1>4, <1>5, <2>1, <2>2, FramedCall DEF RunsAs, IsFramed
  <2>3. CASE Return
    BY <1>2, <1>3, <1>4, <1>5, <2>1, <2>3, FramedReturn DEF RunsAs, IsFramed
  <2>4. CASE ~(Call \/ Return)
    <3>1. Framed(c, base)'
      BY <1>2, <1>8, <2>4, StepAhead, FramedAhead
    <3>. QED  BY <1>3, <1>4, <1>5, <2>1, <3>1 DEF RunsAs, IsFramed
  <2>. QED  BY <2>2, <2>3, <2>4
<1>9. CASE UNCHANGED vars
  <2>1. pc' = pc /\ stack' = stack /\ calls' = calls /\ status' = status
    BY <1>9 DEF vars, machine
  <2>2. Framed(c, base)'
    BY <1>1, <1>2, <2>1 DEF Framed, FrameFits, CallMade, Running, Site
  <2>. QED  BY <1>3, <1>4, <1>5, <2>1, <2>2 DEF RunsAs, IsFramed
<1>. QED  BY <1>6, <1>7, <1>8, <1>9 DEF Next, Run

\* vm.cpp, without a verifier: a program for which there is a certificate runs
\* as the certificate says, whatever the intrinsics answer.  It executes no
\* operand, leaves no array, and no check of Vm::step stops it but the one on
\* a divisor.
THEOREM CertifiedProgramsRunClean ==
  ASSUME NEW c
  PROVE  Spec => []CertifiedRunsAs(c)
<1>1. Init => CertInv(c)
  <2>. SUFFICES ASSUME Init, Certifies(c, program) PROVE RunsAs(c) /\ IsFramed(c)
    BY DEF CertInv
  <2>1. pc = 0 /\ stack = << >> /\ calls = << >> /\ status = "ok" /\ 0 \in DOMAIN c.at
    BY DEF Init, Certifies
  <2>. QED  BY <2>1, FramedAtStart DEF RunsAs, AtStart
<1>2. VmInv /\ CertInv(c) /\ [Next]_vars => CertInv(c)'
  BY CertifiedStep
<1>3. CertInv(c) => CertifiedRunsAs(c)
  BY DEF CertInv, CertifiedRunsAs
<1>. QED  BY <1>1, <1>2, <1>3, AlwaysInv, PTL DEF Spec

-----------------------------------------------------------------------------
(* Files.  What a .gob file says is read whatever its bytes; what was      *)
(* written is what is read.                                                *)

ReadBody(blob, f, k) ==
  IF k = 0 THEN <<[at |-> HeaderSize, constants |-> << >>]>>
  ELSE IF f[k - 1] = << >> THEN << >> ELSE Entry(blob, f[k - 1][1])

\* The loop over the pool is what its recursive definition says.
LEMMA ReadsIs ==
  ASSUME NEW blob, NEW n \in Nat
  PROVE  \A k \in 0 .. n : Reads(blob, n)[k] = ReadBody(blob, Reads(blob, n), k)
<1>. DEFINE Solves(f, m) == /\ f = [k \in 0 .. m |-> f[k]]
                            /\ \A k \in 0 .. m : f[k] = ReadBody(blob, f, k)
            Good == {m \in Nat : \E f : Solves(f, m)}
<1>1. 0 \in Good
  <2>. DEFINE f == [k \in 0 .. 0 |-> ReadBody(blob, << >>, 0)]
  <2>1. \A k \in 0 .. 0 : f[k] = ReadBody(blob, f, k)
    BY DEF ReadBody
  <2>2. Solves(f, 0)
    BY <2>1
  <2>. HIDE DEF Solves, f
  <2>. QED  BY <2>2
<1>2. \A m \in Good : m + 1 \in Good
  <2>. HIDE DEF Solves
  <2>. SUFFICES ASSUME NEW m \in Nat, NEW f, Solves(f, m) PROVE \E g : Solves(g, m + 1)
    OBVIOUS
  <2>. USE DEF Solves
  <2>1. \A k \in 0 .. m : f[k] = ReadBody(blob, f, k)
    OBVIOUS
  <2>. DEFINE g == [k \in 0 .. m + 1 |-> ReadBody(blob, f, k)]
  <2>2. \A k \in 0 .. m : g[k] = f[k]
    BY <2>1
  <2>3. ASSUME NEW k \in 0 .. m + 1 PROVE g[k] = ReadBody(blob, g, k)
    <3>1. CASE k = 0
      BY <3>1 DEF ReadBody
    <3>2. CASE k # 0
      <4>1. k - 1 \in 0 .. m
        BY <3>2
      <4>2. g[k - 1] = f[k - 1] /\ g[k] = ReadBody(blob, f, k)
        BY <2>2, <4>1
      <4>. HIDE DEF g
      <4>. QED  BY <3>2, <4>2 DEF ReadBody
    <3>. QED  BY <3>1, <3>2
  <2>. QED  BY <2>3
<1>3. Good = Nat
  <2>. HIDE DEF Good
  <2>1. Good \in SUBSET Nat
    BY DEF Good
  <2>. QED  BY <1>1, <1>2, <2>1, SetInduction
<1>4. PICK f : Solves(f, n)
  BY <1>3
<1>5. f = [k \in 0 .. n |-> ReadBody(blob, f, k)]
  <2>1. /\ f = [k \in 0 .. n |-> f[k]]
        /\ \A k \in 0 .. n : f[k] = ReadBody(blob, f, k)
    BY <1>4
  <2>. HIDE DEF Solves
  <2>. QED  BY <2>1, Zenon
<1>6. Reads(blob, n) = CHOOSE g : g = [k \in 0 .. n |-> ReadBody(blob, g, k)]
  BY DEF Reads, ReadBody
<1>7. Reads(blob, n) = [k \in 0 .. n |-> ReadBody(blob, Reads(blob, n), k)]
  <2>. HIDE DEF Solves, Good
  <2>. QED  BY <1>5, <1>6, Zenon
<1>. QED  BY <1>7, Zenon

Pools == [at : Nat, constants : Seq(Constant)]
Read(pools) == pools = << >> \/ \E p \in Pools : pools = <<p>>

\* What two bytes tell.
Halves == {n \in Nat : n < 65536}

LEMMA HalfRead ==
  ASSUME NEW a \in Byte, NEW b \in Byte
  PROVE  a + 256 * b \in Halves
BY SMT DEF Byte, Halves

LEMMA BytesRead ==
  ASSUME NEW a \in Byte, NEW b \in Byte, NEW c \in Byte, NEW d \in Byte
  PROVE  /\ (a + 256 * b) + 65536 * (c + 256 * d) \in Nat
         /\ Wrap(a + 256 * Wrap(b + 256 * Wrap(c + 256 * d))) \in Word
<1>1. a \in 0 .. 255 /\ b \in 0 .. 255 /\ c \in 0 .. 255 /\ d \in 0 .. 255
  BY DEF Byte
<1>2. (a + 256 * b) + 65536 * (c + 256 * d) \in Nat
  BY <1>1, SMT
<1>3. \A n \in Int : Wrap(n) \in Int /\ Wrap(n) \in Word
  BY WrapIsWord, VmAssumption DEF Word
<1>4. PICK x \in Int : x = Wrap(c + 256 * d)
  BY <1>1, <1>3
<1>5. PICK y \in Int : y = Wrap(b + 256 * x)
  BY <1>1, <1>3
<1>6. Wrap(a + 256 * y) \in Word
  BY <1>1, <1>3
<1>. QED  BY <1>2, <1>4, <1>5, <1>6

LEMMA NumbersRead ==
  ASSUME NEW blob \in Seq(Byte), NEW at \in Nat
  PROVE  /\ at + 2 <= Len(blob) => ReadU16(blob, at) \in Halves
         /\ at + 4 <= Len(blob) => ReadU32(blob, at) \in Nat /\ ReadI32(blob, at) \in Word
<1>1. \A k \in 1 .. Len(blob) : blob[k] \in Byte
  OBVIOUS
<1>2. Len(blob) \in Nat
  OBVIOUS
<1>3. ASSUME at + 2 <= Len(blob) PROVE ReadU16(blob, at) \in Halves
  <2>1. at + 1 \in 1 .. Len(blob) /\ at + 2 \in 1 .. Len(blob)
    BY <1>2, <1>3
  <2>2. blob[at + 1] \in Byte /\ blob[at + 2] \in Byte
    BY <1>1, <2>1
  <2>. QED  BY <2>2, HalfRead, Zenon DEF ReadU16
<1>4. ASSUME at + 4 <= Len(blob) PROVE ReadU32(blob, at) \in Nat /\ ReadI32(blob, at) \in Word
  <2>1. /\ at + 1 \in 1 .. Len(blob) /\ at + 2 \in 1 .. Len(blob)
        /\ at + 3 \in 1 .. Len(blob) /\ at + 4 \in 1 .. Len(blob)
        /\ (at + 2) + 1 = at + 3 /\ (at + 2) + 2 = at + 4
    BY <1>2, <1>4
  <2>2. /\ blob[at + 1] \in Byte /\ blob[at + 2] \in Byte
        /\ blob[at + 3] \in Byte /\ blob[at + 4] \in Byte
    BY <1>1, <2>1
  <2>3. ReadU32(blob, at) = (blob[at + 1] + 256 * blob[at + 2])
                              + 65536 * (blob[at + 3] + 256 * blob[at + 4])
    BY <2>1, SMT DEF ReadU32, ReadU16
  <2>4. PICK a \in Byte, b \in Byte, c \in Byte, d \in Byte :
             a = blob[at + 1] /\ b = blob[at + 2] /\ c = blob[at + 3] /\ d = blob[at + 4]
    BY <2>2
  <2>5. /\ ReadU32(blob, at) = (a + 256 * b) + 65536 * (c + 256 * d)
        /\ ReadI32(blob, at) = Wrap(a + 256 * Wrap(b + 256 * Wrap(c + 256 * d)))
    BY <2>3, <2>4, SMT DEF ReadI32
  <2>. QED  BY <2>5, BytesRead, SMT
<1>. QED  BY <1>3, <1>4

LEMMA EntryRead ==
  ASSUME NEW blob \in Seq(Byte), NEW pool \in Pools
  PROVE  Read(Entry(blob, pool))
<1>. DEFINE at == pool.at
            u16 == ReadU16(blob, at + 1)
            Past(constant, next) == <<[at |-> next, constants |-> Append(pool.constants, constant)]>>
<1>1. at \in Nat /\ pool.constants \in Seq(Constant)
  BY DEF Pools
<1>2. ASSUME NEW c \in Constant, NEW next \in Nat PROVE Read(Past(c, next))
  <2>1. Append(pool.constants, c) \in Seq(Constant)
    BY <1>1, <1>2
  <2>2. [at |-> next, constants |-> Append(pool.constants, c)] \in Pools
    BY <2>1 DEF Pools
  <2>. QED  BY <2>2 DEF Read
<1>3. CASE at + 5 <= Len(blob) /\ blob[at + 1] = 1
  <2>1. ReadI32(blob, at + 1) \in Word
    <3>1. at + 1 \in Nat /\ at + 1 + 4 <= Len(blob)
      BY <1>1, <1>3
    <3>. QED  BY <3>1, NumbersRead
  <2>2. <<ReadI32(blob, at + 1)>> \in Constant
    BY <2>1 DEF Constant
  <2>3. Entry(blob, pool) = Past(<<ReadI32(blob, at + 1)>>, at + 5)
    BY <1>3 DEF Entry
  <2>4. at + 5 \in Nat
    BY <1>1
  <2>. HIDE DEF Past
  <2>. QED  BY <1>2, <2>2, <2>3, <2>4
<1>4. CASE at + 3 <= Len(blob) /\ blob[at + 1] = 2 /\ at + 3 + u16 <= Len(blob)
  <2>1. at + 3 + u16 \in Nat
    <3>1. at + 1 \in Nat /\ at + 1 + 2 <= Len(blob)
      BY <1>1, <1>4
    <3>2. u16 \in Halves
      BY <3>1, NumbersRead
    <3>. HIDE DEF u16
    <3>. QED  BY <1>1, <3>2, SMT DEF Halves
  <2>2. << >> \in Constant
    BY DEF Constant
  <2>3. Entry(blob, pool) = Past(<< >>, at + 3 + u16)
    <3>1. ~(at + 5 <= Len(blob) /\ blob[at + 1] = 1)
      BY <1>4
    <3>. QED  BY <1>4, <3>1, Zenon DEF Entry
  <2>. HIDE DEF Past
  <2>. QED  BY <1>2, <2>1, <2>2, <2>3
<1>5. CASE /\ ~(at + 5 <= Len(blob) /\ blob[at + 1] = 1)
           /\ ~(at + 3 <= Len(blob) /\ blob[at + 1] = 2 /\ at + 3 + u16 <= Len(blob))
  <2>1. Entry(blob, pool) = << >>
    BY <1>5 DEF Entry
  <2>. QED  BY <2>1 DEF Read
<1>. QED  BY <1>3, <1>4, <1>5

LEMMA PoolRead ==
  ASSUME NEW blob \in Seq(Byte), NEW n \in Nat
  PROVE  Read(ReadPool(blob, n))
<1>. DEFINE f == Reads(blob, n)
            Good == {k \in Nat : k <= n => Read(f[k])}
<1>1. \A k \in 0 .. n : f[k] = ReadBody(blob, f, k)
  BY ReadsIs
<1>. HIDE DEF f
<1>2. 0 \in Good
  <2>1. [at |-> HeaderSize, constants |-> << >>] \in Pools
    BY DEF HeaderSize, Pools
  <2>2. f[0] = <<[at |-> HeaderSize, constants |-> << >>]>>
    BY <1>1 DEF ReadBody
  <2>. QED  BY <2>1, <2>2 DEF Read
<1>3. \A k \in Good : k + 1 \in Good
  <2>. SUFFICES ASSUME NEW k \in Nat, k + 1 <= n, Read(f[k]) PROVE Read(f[k + 1])
    OBVIOUS
  <2>1. f[k + 1] = IF f[k] = << >> THEN << >> ELSE Entry(blob, f[k][1])
    <3>1. k + 1 \in 0 .. n /\ k + 1 # 0 /\ (k + 1) - 1 = k
      OBVIOUS
    <3>. QED  BY <1>1, <3>1 DEF ReadBody
  <2>2. CASE f[k] = << >>
    BY <2>1, <2>2 DEF Read
  <2>3. ASSUME NEW p \in Pools, f[k] = <<p>> PROVE Read(f[k + 1])
    <3>1. f[k + 1] = Entry(blob, p)
      BY <2>1, <2>3
    <3>. QED  BY <3>1, EntryRead
  <2>. QED  BY <2>2, <2>3 DEF Read
<1>4. Good = Nat
  <2>. HIDE DEF Good
  <2>1. Good \in SUBSET Nat
    BY DEF Good
  <2>. QED  BY <1>2, <1>3, <2>1, SetInduction
<1>. QED  BY <1>4 DEF f, ReadPool

\* bytecode.cpp: whatever is in a file, load_bytecode throws or gives a program
\* of bytes and words, as VmAssumption has the programs.
THEOREM LoadedIsProgram ==
  ASSUME NEW blob \in Seq(Byte)
  PROVE  \/ LoadBytecode(blob) = << >>
         \/ \E code \in Seq(Byte), locs \in Halves, pool \in Seq(Constant) :
              LoadBytecode(blob) = <<[code |-> code, locals |-> locs, constants |-> pool]>>
<1>. DEFINE pool == ReadPool(blob, ReadU16(blob, 6))
            size == ReadU32(blob, 8)
            code == [i \in 1 .. size |-> blob[pool[1].at + i]]
            locs == ReadU16(blob, 12)
<1>. SUFFICES ASSUME LoadBytecode(blob) # << >>
              PROVE  \E c \in Seq(Byte), l \in Halves, p \in Seq(Constant) :
                       LoadBytecode(blob) = <<[code |-> c, locals |-> l, constants |-> p]>>
  OBVIOUS
<1>1. /\ Len(blob) >= 16 /\ pool # << >> /\ ~(pool[1].at + size > Len(blob))
      /\ LoadBytecode(blob) = <<[code |-> code, locals |-> locs, constants |-> pool[1].constants]>>
  <2>1. /\ ~(Len(blob) < HeaderSize) /\ ~(pool = << >> \/ pool[1].at + size > Len(blob))
        /\ LoadBytecode(blob)
             = <<[code |-> code, locals |-> locs, constants |-> pool[1].constants]>>
    BY Zenon DEF LoadBytecode
  <2>2. Len(blob) \in Nat /\ HeaderSize = 16
    BY DEF HeaderSize
  <2>. HIDE DEF pool, size, code, locs
  <2>. QED  BY <2>1, <2>2
<1>2. ReadU16(blob, 6) \in Nat /\ size \in Nat /\ locs \in Halves
  <2>1. ReadU16(blob, 6) \in Halves /\ size \in Nat /\ locs \in Halves
    BY <1>1, NumbersRead, SMT
  <2>. HIDE DEF size, locs
  <2>. QED  BY <2>1, SMT DEF Halves
<1>3. PICK p \in Pools : pool = <<p>>
  BY <1>1, <1>2, PoolRead DEF Read
<1>4. pool[1] = p /\ p.at \in Nat /\ p.constants \in Seq(Constant)
  BY <1>3 DEF Pools
<1>. HIDE DEF pool, size, locs
<1>5. code \in Seq(Byte)
  <2>1. ASSUME NEW i \in 1 .. size PROVE blob[pool[1].at + i] \in Byte
    <3>1. pool[1].at + i \in 1 .. Len(blob)
      BY <1>1, <1>2, <1>4
    <3>. QED  BY <3>1
  <2>2. code \in [1 .. size -> Byte]
    BY <2>1
  <2>. HIDE DEF code
  <2>. QED  BY <1>2, <2>2
<1>. HIDE DEF code
<1>. QED  BY <1>1, <1>2, <1>4, <1>5
-----------------------------------------------------------------------------
(* What was written.  A program is compiled into bytes by emit.py, which   *)
(* packs it in words of 32 bits; the engine reads it back from them.       *)

\* The width of the code's words, and what its struct.pack takes.
ThirtyTwo == 4294967296
Is32Bit == HalfWord = 2147483648
Quads == {n \in Nat : n < 4294967296}

LEMMA HalfWritten ==
  ASSUME NEW n \in Int
  PROVE  /\ n % 256 \in Byte /\ (n \div 256) % 256 \in Byte
         /\ n \in Halves => (n % 256) + 256 * ((n \div 256) % 256) = n
<1>1. n % 256 \in 0 .. 255 /\ (n \div 256) % 256 \in 0 .. 255
  BY SMT
<1>2. ASSUME n \in Halves PROVE (n % 256) + 256 * ((n \div 256) % 256) = n
  BY <1>2, SMT DEF Halves
<1>. QED  BY <1>1, <1>2, SMT DEF Byte

\* The digits of an integer, and what they leave out.
LEMMA Digits ==
  ASSUME NEW n \in Int
  PROVE  n = ((n % 256) + 256 * ((n \div 256) % 256))
               + 65536 * (((n \div 65536) % 256) + 256 * (((n \div 65536) \div 256) % 256))
               + ThirtyTwo * (((n \div 65536) \div 256) \div 256)
BY SMT DEF ThirtyTwo

LEMMA QuadWritten ==
  ASSUME NEW n \in Quads
  PROVE  n = ((n % 256) + 256 * ((n \div 256) % 256))
               + 65536 * (((n \div 65536) % 256) + 256 * (((n \div 65536) \div 256) % 256))
<1>1. n \in Int /\ ((n \div 65536) \div 256) \div 256 = 0
  BY SMT DEF Quads
<1>. QED  BY <1>1, Digits, SMT DEF ThirtyTwo

LEMMA Wrapped ==
  ASSUME Is32Bit, NEW m \in Int
  PROVE  \E q \in Int : Wrap(m) = m + ThirtyTwo * q
<1>1. (m + 2147483648) % 4294967296
        = m + 2147483648 - 4294967296 * ((m + 2147483648) \div 4294967296)
  BY SMT
<1>2. 2 * 2147483648 = 4294967296
  BY SMT
<1>3. Wrap(m) = ((m + 2147483648) % (2 * 2147483648)) - 2147483648
  BY SMT DEF Wrap, Is32Bit
<1>4. PICK q \in Int : q = -((m + 2147483648) \div 4294967296)
  BY SMT
<1>5. Wrap(m) = m + ThirtyTwo * q
  <2>1. Wrap(m) = (m + 2147483648 - 4294967296 * ((m + 2147483648) \div 4294967296)) - 2147483648
    BY <1>1, <1>2, <1>3, SMT
  <2>. QED  BY <1>4, <2>1, SMT DEF ThirtyTwo
<1>. QED  BY <1>5

\* A word is what is made of its four bytes, the least of them first.
LEMMA WordsRange ==
  ASSUME Is32Bit, NEW n \in Word
  PROVE  n \in Int /\ -2147483648 <= n /\ n < 2147483648
<1>1. HalfWord \in Nat /\ HalfWord > 1
  BY VmAssumption
<1>2. n \in Int /\ -HalfWord <= n /\ n < HalfWord
  BY <1>1, SMT DEF Word
<1>. QED  BY <1>1, <1>2, SMT DEF Is32Bit

LEMMA WordWritten ==
  ASSUME Is32Bit, NEW n \in Word, NEW a \in Int, NEW b \in Int, NEW c \in Int, NEW d \in Int,
         a = n % 256, b = (n \div 256) % 256, c = (n \div 65536) % 256,
         d = ((n \div 65536) \div 256) % 256
  PROVE  Wrap(a + 256 * Wrap(b + 256 * Wrap(c + 256 * d))) = n
<1>0. n \in Int /\ -2147483648 <= n /\ n < 2147483648
  BY WordsRange
<1>1. PICK r \in Int : n = (a + 256 * b) + 65536 * (c + 256 * d) + ThirtyTwo * r
  <2>1. PICK r \in Int : r = ((n \div 65536) \div 256) \div 256
    BY <1>0, SMT
  <2>. QED  BY <1>0, <2>1, Digits, SMT
<1>2. PICK x \in Int, p \in Int : x = Wrap(c + 256 * d) /\ x = (c + 256 * d) + ThirtyTwo * p
  <2>1. c + 256 * d \in Int
    BY SMT
  <2>2. PICK p \in Int : Wrap(c + 256 * d) = (c + 256 * d) + ThirtyTwo * p
    BY <2>1, Wrapped
  <2>. QED  BY <2>2, SMT DEF ThirtyTwo
<1>3. PICK y \in Int, q \in Int : y = Wrap(b + 256 * x) /\ y = (b + 256 * x) + ThirtyTwo * q
  <2>1. b + 256 * x \in Int
    BY SMT
  <2>2. PICK q \in Int : Wrap(b + 256 * x) = (b + 256 * x) + ThirtyTwo * q
    BY <2>1, Wrapped
  <2>. QED  BY <2>2, SMT DEF ThirtyTwo
<1>4. PICK z \in Int, s \in Int : z = Wrap(a + 256 * y) /\ z = (a + 256 * y) + ThirtyTwo * s
  <2>1. a + 256 * y \in Int
    BY SMT
  <2>2. PICK s \in Int : Wrap(a + 256 * y) = (a + 256 * y) + ThirtyTwo * s
    BY <2>1, Wrapped
  <2>. QED  BY <2>2, SMT DEF ThirtyTwo
<1>5. -2147483648 <= z /\ z < 2147483648
  <2>1. a + 256 * y \in Int
    BY SMT
  <2>2. z \in Word
    BY <1>4, <2>1, WrapIsWord
  <2>. QED  BY <2>2, WordsRange
<1>6. z = n
  <2>1. PICK k \in Int : k = s + 256 * q + 65536 * p - r
    BY SMT
  <2>2. z - n = ThirtyTwo * k
    <3>1. z = (a + 256 * ((b + 256 * ((c + 256 * d) + ThirtyTwo * p)) + ThirtyTwo * q)) + ThirtyTwo * s
      BY <1>2, <1>3, <1>4
    <3>2. z - n = ThirtyTwo * s + 256 * (ThirtyTwo * q) + 65536 * (ThirtyTwo * p) - ThirtyTwo * r
      BY <1>1, <3>1, SMT DEF ThirtyTwo
    <3>. QED  BY <2>1, <3>2, SMT DEF ThirtyTwo
  <2>3. k = 0
    BY <1>0, <1>5, <2>2, SMT DEF ThirtyTwo
  <2>. QED  BY <1>0, <2>2, <2>3, SMT DEF ThirtyTwo
<1>. QED  BY <1>2, <1>3, <1>4, <1>6

\* What one writes after another, each is found where it begins.
LEMMA Written ==
  ASSUME NEW s \in Seq(Byte), NEW t \in Seq(Byte)
  PROVE  /\ s \o t \in Seq(Byte) /\ Len(s \o t) = Len(s) + Len(t)
         /\ \A k \in 1 .. Len(s) : (s \o t)[k] = s[k]
         /\ \A k \in 1 .. Len(t) : (s \o t)[Len(s) + k] = t[k]
<1>. HIDE DEF Byte
<1>. QED  BY ConcatProperties

\* The bytes of t stand in blob, after the first at of them.
Stands(t, at, blob) ==
  at + Len(t) <= Len(blob) /\ \A k \in 1 .. Len(t) : blob[at + k] = t[k]

LEMMA StandsStill ==
  ASSUME NEW s \in Seq(Byte), NEW t \in Seq(Byte), NEW u \in Seq(Byte), NEW at \in Nat,
         Stands(u, at, s)
  PROVE  Stands(u, at, s \o t)
<1>. HIDE DEF Byte
<1>1. Len(s \o t) = Len(s) + Len(t) /\ \A k \in 1 .. Len(s) : (s \o t)[k] = s[k]
  BY ConcatProperties
<1>2. Len(s) \in Nat /\ Len(t) \in Nat /\ Len(u) \in Nat
  OBVIOUS
<1>3. ASSUME NEW k \in 1 .. Len(u) PROVE (s \o t)[at + k] = u[k]
  <2>1. at + k \in 1 .. Len(s) /\ s[at + k] = u[k]
    BY <1>2, SMT DEF Stands
  <2>. QED  BY <1>1, <2>1
<1>. QED  BY <1>1, <1>2, <1>3 DEF Stands

LEMMA StandsLast ==
  ASSUME NEW s \in Seq(Byte), NEW t \in Seq(Byte)
  PROVE  Stands(t, Len(s), s \o t)
<1>1. Len(s \o t) = Len(s) + Len(t) /\ \A k \in 1 .. Len(t) : (s \o t)[Len(s) + k] = t[k]
  BY Written
<1>2. Len(s) \in Nat /\ Len(t) \in Nat
  OBVIOUS
<1>. QED  BY <1>1, <1>2 DEF Stands

LEMMA HalfPacked ==
  ASSUME NEW n \in Int
  PROVE  /\ U16Bytes(n) \in Seq(Byte) /\ Len(U16Bytes(n)) = 2
         /\ U16Bytes(n)[1] = n % 256 /\ U16Bytes(n)[2] = (n \div 256) % 256
<1>1. n % 256 \in Byte /\ (n \div 256) % 256 \in Byte
  BY HalfWritten
<1>. HIDE DEF Byte
<1>. QED  BY <1>1 DEF U16Bytes

LEMMA QuadPacked ==
  ASSUME NEW n \in Int
  PROVE  /\ U32Bytes(n) \in Seq(Byte) /\ Len(U32Bytes(n)) = 4
         /\ U32Bytes(n)[1] = n % 256 /\ U32Bytes(n)[2] = (n \div 256) % 256
         /\ U32Bytes(n)[3] = (n \div 65536) % 256
         /\ U32Bytes(n)[4] = ((n \div 65536) \div 256) % 256
<1>1. PICK m \in Int : m = n \div 65536
  BY SMT
<1>2. PICK s \in Seq(Byte), t \in Seq(Byte) : s = U16Bytes(n) /\ t = U16Bytes(m)
  BY HalfPacked
<1>3. Len(s) = 2 /\ Len(t) = 2
  BY <1>2, HalfPacked
<1>4. /\ s \o t \in Seq(Byte) /\ Len(s \o t) = 4
      /\ (s \o t)[1] = s[1] /\ (s \o t)[2] = s[2]
      /\ (s \o t)[3] = t[1] /\ (s \o t)[4] = t[2]
  <2>1. /\ s \o t \in Seq(Byte) /\ Len(s \o t) = 2 + 2
        /\ \A k \in 1 .. 2 : (s \o t)[k] = s[k]
        /\ \A k \in 1 .. 2 : (s \o t)[2 + k] = t[k]
    <3>. HIDE DEF Byte
    <3>1. /\ s \o t \in Seq(Byte) /\ Len(s \o t) = Len(s) + Len(t)
          /\ \A k \in 1 .. Len(s) : (s \o t)[k] = s[k]
          /\ \A k \in 1 .. Len(t) : (s \o t)[Len(s) + k] = t[k]
      BY Written, Zenon
    <3>. QED  BY <1>3, <3>1
  <2>. QED  BY <2>1
<1>5. /\ s[1] = n % 256 /\ s[2] = (n \div 256) % 256
      /\ t[1] = m % 256 /\ t[2] = (m \div 256) % 256
  BY <1>2, HalfPacked
<1>6. U32Bytes(n) = s \o t
  BY <1>1, <1>2, SMT DEF U32Bytes
<1>. HIDE DEF Byte
<1>. QED  BY <1>1, <1>4, <1>5, <1>6, SMT

LEMMA HalfStands ==
  ASSUME NEW blob \in Seq(Byte), NEW at \in Nat, NEW n \in Halves,
         Stands(U16Bytes(n), at, blob)
  PROVE  ReadU16(blob, at) = n
<1>1. n \in Int
  BY SMT DEF Halves
<1>2. /\ Len(U16Bytes(n)) = 2
      /\ U16Bytes(n)[1] = n % 256 /\ U16Bytes(n)[2] = (n \div 256) % 256
  BY <1>1, HalfPacked
<1>3. blob[at + 1] = n % 256 /\ blob[at + 2] = (n \div 256) % 256
  BY <1>2, SMT DEF Stands
<1>4. (n % 256) + 256 * ((n \div 256) % 256) = n
  BY <1>1, HalfWritten, Zenon
<1>. QED  BY <1>3, <1>4, Zenon DEF ReadU16

LEMMA QuadStands ==
  ASSUME NEW blob \in Seq(Byte), NEW at \in Nat, NEW n \in Quads,
         Stands(U32Bytes(n), at, blob)
  PROVE  ReadU32(blob, at) = n
<1>1. n \in Int
  BY SMT DEF Quads
<1>2. /\ Len(U32Bytes(n)) = 4
      /\ U32Bytes(n)[1] = n % 256 /\ U32Bytes(n)[2] = (n \div 256) % 256
      /\ U32Bytes(n)[3] = (n \div 65536) % 256
      /\ U32Bytes(n)[4] = ((n \div 65536) \div 256) % 256
  BY <1>1, QuadPacked, SMT
<1>3. /\ blob[at + 1] = n % 256 /\ blob[at + 2] = (n \div 256) % 256
      /\ blob[at + 3] = (n \div 65536) % 256 /\ blob[at + 4] = ((n \div 65536) \div 256) % 256
  BY <1>2, SMT DEF Stands
<1>4. (at + 2) + 1 = at + 3 /\ (at + 2) + 2 = at + 4
  OBVIOUS
<1>5. ReadU32(blob, at) = (blob[at + 1] + 256 * blob[at + 2])
                            + 65536 * (blob[at + 3] + 256 * blob[at + 4])
  BY <1>4, SMT DEF ReadU32, ReadU16
<1>. QED  BY <1>3, <1>5, QuadWritten, SMT

LEMMA WordStands ==
  ASSUME Is32Bit, NEW blob \in Seq(Byte), NEW at \in Nat, NEW n \in Word,
         Stands(U32Bytes(n), at, blob)
  PROVE  ReadI32(blob, at) = n
<1>1. n \in Int
  BY WordsRange
<1>2. /\ Len(U32Bytes(n)) = 4
      /\ U32Bytes(n)[1] = n % 256 /\ U32Bytes(n)[2] = (n \div 256) % 256
      /\ U32Bytes(n)[3] = (n \div 65536) % 256
      /\ U32Bytes(n)[4] = ((n \div 65536) \div 256) % 256
  BY <1>1, QuadPacked, SMT
<1>3. /\ blob[at + 1] = n % 256 /\ blob[at + 2] = (n \div 256) % 256
      /\ blob[at + 3] = (n \div 65536) % 256 /\ blob[at + 4] = ((n \div 65536) \div 256) % 256
  BY <1>2, SMT DEF Stands
<1>4. PICK a \in Int, b \in Int, c \in Int, d \in Int :
        /\ a = n % 256 /\ b = (n \div 256) % 256
        /\ c = (n \div 65536) % 256 /\ d = ((n \div 65536) \div 256) % 256
  BY <1>1, SMT
<1>5. Wrap(a + 256 * Wrap(b + 256 * Wrap(c + 256 * d))) = n
  BY <1>4, WordWritten, SMT
<1>6. /\ blob[at + 1] = a /\ blob[at + 2] = b
      /\ blob[at + 3] = c /\ blob[at + 4] = d
  BY <1>3, <1>4, SMT
<1>. QED  BY <1>5, <1>6, Zenon DEF ReadI32

LEMMA ElementOf ==
  ASSUME NEW T, NEW s \in Seq(T), NEW i \in 1 .. Len(s)
  PROVE  s[i] \in T
OBVIOUS

LEMMA WordIsInt == \A n \in Word : n \in Int
<1>1. HalfWord \in Nat
  BY VmAssumption
<1>. QED  BY <1>1 DEF Word

LEMMA QuadSize ==
  ASSUME NEW n \in Int
  PROVE  U32Bytes(n) \in Seq(Byte) /\ Len(U32Bytes(n)) = 4
<1>. HIDE DEF Byte
<1>. QED  BY QuadPacked, SMT

LEMMA EntryPacked ==
  ASSUME NEW n \in Int
  PROVE  /\ <<1>> \o U32Bytes(n) \in Seq(Byte) /\ Len(<<1>> \o U32Bytes(n)) = 5
         /\ (<<1>> \o U32Bytes(n))[1] = 1
         /\ \A j \in 1 .. 4 : (<<1>> \o U32Bytes(n))[1 + j] = U32Bytes(n)[j]
<1>1. 1 \in Byte
  BY DEF Byte
<1>. HIDE DEF Byte
<1>2. <<1>> \in Seq(Byte) /\ Len(<<1>>) = 1 /\ <<1>>[1] = 1
  BY <1>1
<1>3. U32Bytes(n) \in Seq(Byte) /\ Len(U32Bytes(n)) = 4
  BY QuadSize, Zenon
<1>4. PICK s \in Seq(Byte), t \in Seq(Byte) : s = <<1>> /\ t = U32Bytes(n)
  BY <1>2, <1>3, Zenon
<1>5. /\ s \o t \in Seq(Byte) /\ Len(s \o t) = Len(s) + Len(t)
      /\ \A k \in 1 .. Len(s) : (s \o t)[k] = s[k]
      /\ \A k \in 1 .. Len(t) : (s \o t)[Len(s) + k] = t[k]
  BY Written, Zenon
<1>6. Len(s) = 1 /\ Len(t) = 4 /\ s[1] = 1
  BY <1>2, <1>3, <1>4
<1>7. /\ s \o t \in Seq(Byte) /\ Len(s \o t) = 5 /\ (s \o t)[1] = 1
      /\ \A j \in 1 .. 4 : (s \o t)[1 + j] = t[j]
  BY <1>5, <1>6
<1>. QED  BY <1>4, <1>7, Zenon

LEMMA PoolPacked ==
  ASSUME Is32Bit, NEW ints \in Seq(Word)
  PROVE  /\ PoolBytes(ints) \in Seq(Byte) /\ Len(PoolBytes(ints)) = 5 * Len(ints)
         /\ \A k \in 1 .. Len(ints) :
              /\ PoolBytes(ints)[5 * (k - 1) + 1] = 1
              /\ \A j \in 1 .. 4 :
                   PoolBytes(ints)[5 * (k - 1) + 1 + j] = U32Bytes(ints[k])[j]
<1>. DEFINE e(j) == <<1>> \o U32Bytes(ints[(j - 1) \div 5 + 1])
            n == Len(ints)
<1>1. n \in Nat /\ \A k \in 1 .. n : ints[k] \in Int
  <2>1. \A k \in 1 .. n : ints[k] \in Word
    OBVIOUS
  <2>2. n \in Nat
    OBVIOUS
  <2>. QED  BY <2>1, <2>2, WordIsInt, Zenon
<1>2. ASSUME NEW j \in 1 .. 5 * n
      PROVE  (j - 1) \div 5 + 1 \in 1 .. n /\ ((j - 1) % 5) + 1 \in 1 .. 5
  <2>. HIDE DEF n
  <2>. QED  BY <1>1, SMT
<1>3. ASSUME NEW j \in 1 .. 5 * n PROVE e(j)[((j - 1) % 5) + 1] \in Byte
  <2>1. e(j) \in Seq(Byte) /\ Len(e(j)) = 5
    BY <1>1, <1>2, EntryPacked, Zenon
  <2>2. PICK i \in 1 .. 5 : i = ((j - 1) % 5) + 1
    BY <1>2
  <2>. HIDE DEF Byte, e
  <2>3. PICK s \in Seq(Byte) : s = e(j) /\ Len(s) = 5
    BY <2>1, Zenon
  <2>4. Len(s) = 5
    BY <2>3, Zenon
  <2>5. s[i] \in Byte
    BY <2>4, ElementOf, Zenon
  <2>. QED  BY <2>2, <2>3, <2>5, Zenon
<1>4. PoolBytes(ints) = [j \in 1 .. 5 * n |-> e(j)[((j - 1) % 5) + 1]]
  BY Zenon DEF PoolBytes
<1>5. PoolBytes(ints) \in Seq(Byte) /\ Len(PoolBytes(ints)) = 5 * n
  <2>1. PoolBytes(ints) \in [1 .. 5 * n -> Byte]
    <3>. HIDE DEF e, n, Byte
    <3>. QED  BY <1>3, <1>4, Zenon
  <2>2. 5 * n \in Nat
    <3>. HIDE DEF n
    <3>. QED  BY <1>1
  <2>. HIDE DEF n, Byte
  <2>. QED  BY <2>1, <2>2
<1>6. ASSUME NEW k \in 1 .. n
      PROVE  /\ PoolBytes(ints)[5 * (k - 1) + 1] = 1
             /\ \A j \in 1 .. 4 : PoolBytes(ints)[5 * (k - 1) + 1 + j] = U32Bytes(ints[k])[j]
  <2>. DEFINE u == <<1>> \o U32Bytes(ints[k])
  <2>1. ASSUME NEW i \in 1 .. 5 PROVE PoolBytes(ints)[5 * (k - 1) + i] = u[i]
    <3>1. PICK j \in Int : j = 5 * (k - 1) + i
      BY <1>1
    <3>2. j \in 1 .. 5 * n /\ (j - 1) \div 5 + 1 = k /\ ((j - 1) % 5) + 1 = i
      <4>. HIDE DEF n
      <4>. QED  BY <1>1, <3>1, SMT
    <3>3. PoolBytes(ints)[j] = e(j)[((j - 1) % 5) + 1]
      <4>. HIDE DEF e, n
      <4>. QED  BY <1>4, <3>2, Zenon
    <3>4. e(j) = u
      BY <3>2, Zenon
    <3>. HIDE DEF e, u
    <3>. QED  BY <3>1, <3>2, <3>3, <3>4
  <2>2. u[1] = 1 /\ \A j \in 1 .. 4 : u[1 + j] = U32Bytes(ints[k])[j]
    BY <1>1, EntryPacked, Zenon
  <2>. HIDE DEF u
  <2>3. PoolBytes(ints)[5 * (k - 1) + 1] = 1
    BY <2>1, <2>2
  <2>4. ASSUME NEW j \in 1 .. 4
        PROVE  PoolBytes(ints)[5 * (k - 1) + 1 + j] = U32Bytes(ints[k])[j]
    <3>1. 1 + j \in 1 .. 5 /\ 5 * (k - 1) + 1 + j = 5 * (k - 1) + (1 + j)
      BY <1>1
    <3>. QED  BY <2>1, <2>2, <3>1
  <2>. QED  BY <2>3, <2>4
<1>. QED  BY <1>5, <1>6, Zenon

Read32(ints, k) == [i \in 1 .. k |-> <<ints[i]>>]

\* The loop reads the constants back, one after the other.
LEMMA PoolReadBack ==
  ASSUME Is32Bit, NEW blob \in Seq(Byte), NEW ints \in Seq(Word),
         Stands(PoolBytes(ints), 16, blob)
  PROVE  ReadPool(blob, Len(ints))
           = <<[at |-> 16 + 5 * Len(ints), constants |-> Read32(ints, Len(ints))]>>
<1>. DEFINE n == Len(ints)
            f == Reads(blob, n)
            Back(k) == <<[at |-> 16 + 5 * k, constants |-> Read32(ints, k)]>>
            Good == {k \in Nat : k <= n => f[k] = Back(k)}
<1>1. n \in Nat /\ \A k \in 1 .. n : ints[k] \in Word
  OBVIOUS
<1>2. \A k \in 0 .. n : f[k] = ReadBody(blob, f, k)
  BY <1>1, ReadsIs, Zenon
<1>. HIDE DEF f
<1>3. 0 \in Good
  <2>1. f[0] = <<[at |-> 16, constants |-> << >>]>>
    BY <1>1, <1>2 DEF ReadBody, HeaderSize
  <2>2. Read32(ints, 0) = << >>
    BY DEF Read32
  <2>. QED  BY <2>1, <2>2
<1>4. \A k \in Good : k + 1 \in Good
  <2>. SUFFICES ASSUME NEW k \in Nat, k + 1 <= n, f[k] = Back(k) PROVE f[k + 1] = Back(k + 1)
    OBVIOUS
  <2>. DEFINE p == [at |-> 16 + 5 * k, constants |-> Read32(ints, k)]
              at == 16 + 5 * k
  <2>. HIDE DEF n
  <2>1. f[k + 1] = Entry(blob, p)
    <3>1. k + 1 \in 0 .. n /\ k + 1 # 0 /\ (k + 1) - 1 = k
      BY <1>1
    <3>2. f[k + 1] = IF f[k] = << >> THEN << >> ELSE Entry(blob, f[k][1])
      BY <1>2, <3>1 DEF ReadBody
    <3>3. f[k] # << >> /\ f[k][1] = p
      OBVIOUS
    <3>. QED  BY <3>2, <3>3, Zenon
  <2>2. /\ at + 5 <= Len(blob) /\ blob[at + 1] = 1
        /\ Stands(U32Bytes(ints[k + 1]), at + 1, blob)
    <3>1. /\ Len(PoolBytes(ints)) = 5 * n
          /\ PoolBytes(ints)[5 * ((k + 1) - 1) + 1] = 1
          /\ \A j \in 1 .. 4 :
               PoolBytes(ints)[5 * ((k + 1) - 1) + 1 + j] = U32Bytes(ints[k + 1])[j]
      <4>1. k + 1 \in 1 .. n
        BY <1>1
      <4>. USE DEF n
      <4>. QED  BY <4>1, PoolPacked, Zenon
    <3>2. 5 * ((k + 1) - 1) + 1 = 5 * k + 1
      OBVIOUS
    <3>3. PICK bytes : bytes = PoolBytes(ints)
      OBVIOUS
    <3>4. 16 + 5 * n <= Len(blob) /\ \A i \in 1 .. 5 * n : blob[16 + i] = bytes[i]
      BY <3>1, <3>3 DEF Stands
    <3>5. at + 5 <= Len(blob)
      BY <1>1, <3>4
    <3>6. blob[at + 1] = 1
      <4>1. PICK i \in 1 .. 5 * n : i = 5 * k + 1
        BY <1>1
      <4>2. at + 1 = 16 + i
        BY <4>1
      <4>3. blob[16 + i] = bytes[i]
        BY <3>4
      <4>4. bytes[5 * k + 1] = 1
        BY <3>1, <3>2, <3>3, Zenon
      <4>. HIDE DEF at
      <4>. QED  BY <4>1, <4>2, <4>3, <4>4, Zenon
    <3>7. ASSUME NEW j \in 1 .. 4 PROVE blob[at + 1 + j] = U32Bytes(ints[k + 1])[j]
      <4>1. PICK i \in 1 .. 5 * n : i = 5 * k + 1 + j
        BY <1>1
      <4>2. at + 1 + j = 16 + i
        BY <4>1
      <4>3. blob[16 + i] = bytes[i]
        BY <3>4
      <4>4. bytes[5 * k + 1 + j] = U32Bytes(ints[k + 1])[j]
        BY <3>1, <3>2, <3>3, Zenon
      <4>. HIDE DEF at
      <4>. QED  BY <4>1, <4>2, <4>3, <4>4, Zenon
    <3>8. Len(U32Bytes(ints[k + 1])) = 4
      <4>1. ints[k + 1] \in Int
        BY <1>1, WordIsInt
      <4>. QED  BY <4>1, QuadSize, Zenon
    <3>9. at + 1 + 4 <= Len(blob)
      BY <3>5
    <3>. QED  BY <3>5, <3>6, <3>7, <3>8, <3>9, Zenon DEF Stands
  <2>3. ReadI32(blob, at + 1) = ints[k + 1]
    <3>1. ints[k + 1] \in Word /\ at + 1 \in Nat
      BY <1>1
    <3>. QED  BY <2>2, <3>1, WordStands, Zenon
  <2>4. Entry(blob, p)
          = <<[at |-> at + 5, constants |-> Append(Read32(ints, k), <<ints[k + 1]>>)]>>
    <3>1. p.at = at /\ p.constants = Read32(ints, k)
      OBVIOUS
    <3>. HIDE DEF p, at
    <3>. QED  BY <2>2, <2>3, <3>1, Zenon DEF Entry
  <2>5. Append(Read32(ints, k), <<ints[k + 1]>>) = Read32(ints, k + 1)
    BY DEF Read32
  <2>6. at + 5 = 16 + 5 * (k + 1)
    OBVIOUS
  <2>. HIDE DEF p, at
  <2>. QED  BY <2>1, <2>4, <2>5, <2>6, Zenon
<1>5. Good = Nat
  <2>. HIDE DEF Good
  <2>1. Good \in SUBSET Nat
    BY DEF Good
  <2>. QED  BY <1>3, <1>4, <2>1, SetInduction
<1>. QED  BY <1>1, <1>5 DEF f, ReadPool

LEMMA MagicWritten == Magic \in Seq(Byte) /\ Len(Magic) = 4
<1>1. 66 \in Byte /\ 76 \in Byte /\ 79 \in Byte /\ 71 \in Byte
  BY DEF Byte
<1>. HIDE DEF Byte
<1>. QED  BY <1>1 DEF Magic

\* Where each part of a file stands.
LEMMA PartsStand ==
  ASSUME Is32Bit, NEW code \in Seq(Byte), NEW locs \in Halves, NEW ints \in Seq(Word)
  PROVE  LET blob == EmitGob(code, locs, ints)
             pool == PoolBytes(ints)
         IN  /\ blob \in Seq(Byte) /\ Len(blob) = 16 + Len(pool) + Len(code)
             /\ Stands(Magic, 0, blob)
             /\ Stands(U16Bytes(Version), 4, blob)
             /\ Stands(U16Bytes(Len(ints)), 6, blob)
             /\ Stands(U32Bytes(Len(code)), 8, blob)
             /\ Stands(U16Bytes(locs), 12, blob)
             /\ Stands(pool, 16, blob)
             /\ Stands(code, 16 + Len(pool), blob)
<1>1. PICK v \in Seq(Byte), m \in Seq(Byte), c \in Seq(Byte), l \in Seq(Byte), z \in Seq(Byte) :
        /\ v = U16Bytes(Version) /\ Len(v) = 2
        /\ m = U16Bytes(Len(ints)) /\ Len(m) = 2
        /\ c = U32Bytes(Len(code)) /\ Len(c) = 4
        /\ l = U16Bytes(locs) /\ Len(l) = 2
        /\ z = U16Bytes(0) /\ Len(z) = 2
  <2>1. Version \in Int /\ Len(ints) \in Int /\ Len(code) \in Int /\ 0 \in Int
    BY DEF Version
  <2>2. locs \in Int
    BY SMT DEF Halves
  <2>3. \A n \in Int : /\ U16Bytes(n) \in Seq(Byte) /\ Len(U16Bytes(n)) = 2
                       /\ U32Bytes(n) \in Seq(Byte) /\ Len(U32Bytes(n)) = 4
    BY HalfPacked, QuadSize, Zenon
  <2>4. /\ U16Bytes(Version) \in Seq(Byte) /\ Len(U16Bytes(Version)) = 2
        /\ U16Bytes(Len(ints)) \in Seq(Byte) /\ Len(U16Bytes(Len(ints))) = 2
        /\ U32Bytes(Len(code)) \in Seq(Byte) /\ Len(U32Bytes(Len(code))) = 4
        /\ U16Bytes(locs) \in Seq(Byte) /\ Len(U16Bytes(locs)) = 2
        /\ U16Bytes(0) \in Seq(Byte) /\ Len(U16Bytes(0)) = 2
    BY <2>1, <2>2, <2>3, Zenon
  <2>. QED  BY <2>4
<1>2. PICK g \in Seq(Byte) : g = Magic /\ Len(g) = 4
  BY MagicWritten
<1>3. PICK p \in Seq(Byte) : p = PoolBytes(ints)
  BY PoolPacked, Zenon
<1>4. \A s \in Seq(Byte), t \in Seq(Byte) :
        /\ s \o t \in Seq(Byte) /\ Len(s \o t) = Len(s) + Len(t)
        /\ Stands(t, Len(s), s \o t)
        /\ \A u \in Seq(Byte) : \A at \in Nat : Stands(u, at, s) => Stands(u, at, s \o t)
  BY Written, StandsLast, StandsStill, Zenon
<1>. HIDE DEF Byte
<1>5. PICK h2 \in Seq(Byte) :
        h2 = g \o v /\ Len(h2) = 6 /\ Stands(g, 0, h2) /\ Stands(v, 4, h2)
  <2>1. Stands(g, 0, g)
    BY DEF Stands
  <2>2. g \o v \in Seq(Byte) /\ Len(g \o v) = Len(g) + Len(v)
        /\ Stands(v, Len(g), g \o v) /\ Stands(g, 0, g \o v)
    BY <1>4, <2>1
  <2>3. Len(g) = 4 /\ Len(g) + Len(v) = 6
    BY <1>1, <1>2
  <2>. QED  BY <2>2, <2>3, Zenon
<1>6. PICK h3 \in Seq(Byte) :
        /\ h3 = h2 \o m /\ Len(h3) = 8
        /\ Stands(g, 0, h3)
        /\ Stands(v, 4, h3)
        /\ Stands(m, 6, h3)
  <2>1. h2 \o m \in Seq(Byte) /\ Len(h2 \o m) = Len(h2) + Len(m)
        /\ Stands(m, Len(h2), h2 \o m)
        /\ \A u \in Seq(Byte) : \A k \in Nat : Stands(u, k, h2) => Stands(u, k, h2 \o m)
    BY <1>4
  <2>2. Len(h2) = 6 /\ Len(h2) + Len(m) = 8
    <3>1. Len(h2) = 6 /\ Len(m) = 2
      BY <1>1, <1>5, Zenon
    <3>. QED  BY <3>1
  <2>3. 6 \in Nat /\ 4 \in Nat /\ 0 \in Nat
    OBVIOUS
  <2>. QED  BY <2>1, <2>2, <2>3, <1>5, Zenon
<1>7. PICK h4 \in Seq(Byte) :
        /\ h4 = h3 \o c /\ Len(h4) = 12
        /\ Stands(g, 0, h4)
        /\ Stands(v, 4, h4)
        /\ Stands(m, 6, h4)
        /\ Stands(c, 8, h4)
  <2>1. h3 \o c \in Seq(Byte) /\ Len(h3 \o c) = Len(h3) + Len(c)
        /\ Stands(c, Len(h3), h3 \o c)
        /\ \A u \in Seq(Byte) : \A k \in Nat : Stands(u, k, h3) => Stands(u, k, h3 \o c)
    BY <1>4
  <2>2. Len(h3) = 8 /\ Len(h3) + Len(c) = 12
    <3>1. Len(h3) = 8 /\ Len(c) = 4
      BY <1>1, <1>6, Zenon
    <3>. QED  BY <3>1
  <2>3. 6 \in Nat /\ 8 \in Nat /\ 4 \in Nat /\ 0 \in Nat
    OBVIOUS
  <2>. QED  BY <2>1, <2>2, <2>3, <1>6, Zenon
<1>8. PICK h5 \in Seq(Byte) :
        /\ h5 = h4 \o l /\ Len(h5) = 14
        /\ Stands(g, 0, h5)
        /\ Stands(v, 4, h5)
        /\ Stands(m, 6, h5)
        /\ Stands(c, 8, h5)
        /\ Stands(l, 12, h5)
  <2>1. h4 \o l \in Seq(Byte) /\ Len(h4 \o l) = Len(h4) + Len(l)
        /\ Stands(l, Len(h4), h4 \o l)
        /\ \A u \in Seq(Byte) : \A k \in Nat : Stands(u, k, h4) => Stands(u, k, h4 \o l)
    BY <1>4
  <2>2. Len(h4) = 12 /\ Len(h4) + Len(l) = 14
    <3>1. Len(h4) = 12 /\ Len(l) = 2
      BY <1>1, <1>7, Zenon
    <3>. QED  BY <3>1
  <2>3. 6 \in Nat /\ 8 \in Nat /\ 4 \in Nat /\ 0 \in Nat /\ 12 \in Nat
    OBVIOUS
  <2>. QED  BY <2>1, <2>2, <2>3, <1>7, Zenon
<1>9. PICK h6 \in Seq(Byte) :
        /\ h6 = h5 \o z /\ Len(h6) = 16
        /\ Stands(g, 0, h6)
        /\ Stands(v, 4, h6)
        /\ Stands(m, 6, h6)
        /\ Stands(c, 8, h6)
        /\ Stands(l, 12, h6)
  <2>1. h5 \o z \in Seq(Byte) /\ Len(h5 \o z) = Len(h5) + Len(z)
        /\ Stands(z, Len(h5), h5 \o z)
        /\ \A u \in Seq(Byte) : \A k \in Nat : Stands(u, k, h5) => Stands(u, k, h5 \o z)
    BY <1>4
  <2>2. Len(h5) = 14 /\ Len(h5) + Len(z) = 16
    <3>1. Len(h5) = 14 /\ Len(z) = 2
      BY <1>1, <1>8, Zenon
    <3>. QED  BY <3>1
  <2>3. 6 \in Nat /\ 8 \in Nat /\ 4 \in Nat /\ 0 \in Nat /\ 12 \in Nat
    OBVIOUS
  <2>. QED  BY <2>1, <2>2, <2>3, <1>8, Zenon
<1>10. PICK h7 \in Seq(Byte) :
        /\ h7 = h6 \o p /\ Len(h7) = 16 + Len(p)
        /\ Stands(g, 0, h7)
        /\ Stands(v, 4, h7)
        /\ Stands(m, 6, h7)
        /\ Stands(c, 8, h7)
        /\ Stands(l, 12, h7)
        /\ Stands(p, 16, h7)
  <2>1. h6 \o p \in Seq(Byte) /\ Len(h6 \o p) = Len(h6) + Len(p)
        /\ Stands(p, Len(h6), h6 \o p)
        /\ \A u \in Seq(Byte) : \A k \in Nat : Stands(u, k, h6) => Stands(u, k, h6 \o p)
    BY <1>4
  <2>2. Len(h6) = 16 /\ Len(h6) + Len(p) = 16 + Len(p)
    <3>1. Len(h6) = 16
      BY <1>1, <1>9, Zenon
    <3>. QED  BY <3>1
  <2>3. 6 \in Nat /\ 8 \in Nat /\ 4 \in Nat /\ 0 \in Nat /\ 16 \in Nat /\ 12 \in Nat
    OBVIOUS
  <2>. QED  BY <2>1, <2>2, <2>3, <1>9, Zenon
<1>11. PICK blob \in Seq(Byte) :
        /\ blob = h7 \o code /\ Len(blob) = 16 + Len(p) + Len(code)
        /\ Stands(g, 0, blob)
        /\ Stands(v, 4, blob)
        /\ Stands(m, 6, blob)
        /\ Stands(c, 8, blob)
        /\ Stands(l, 12, blob)
        /\ Stands(p, 16, blob)
        /\ Stands(code, 16 + Len(p), blob)
  <2>1. h7 \o code \in Seq(Byte) /\ Len(h7 \o code) = Len(h7) + Len(code)
        /\ Stands(code, Len(h7), h7 \o code)
        /\ \A u \in Seq(Byte) : \A k \in Nat : Stands(u, k, h7) => Stands(u, k, h7 \o code)
    BY <1>4
  <2>2. Len(h7) = 16 + Len(p) /\ Len(h7) + Len(code) = 16 + Len(p) + Len(code)
    <3>1. Len(h7) = 16 + Len(p)
      BY <1>1, <1>10, Zenon
    <3>. QED  BY <3>1
  <2>3. 6 \in Nat /\ 8 \in Nat /\ 4 \in Nat /\ 0 \in Nat /\ 16 \in Nat /\ 12 \in Nat /\ 16 + Len(p) \in Nat
    OBVIOUS
  <2>. QED  BY <2>1, <2>2, <2>3, <1>10, Zenon
<1>12. blob = EmitGob(code, locs, ints)
  BY <1>1, <1>2, <1>3, <1>5, <1>6, <1>7, <1>8, <1>9, <1>10, <1>11, Zenon DEF EmitGob, CodeSize
<1>. QED  BY <1>1, <1>2, <1>3, <1>11, <1>12, Zenon

LEMMA SameSequence ==
  ASSUME NEW s \in Seq(Byte), NEW n \in Nat, Len(s) = n, NEW f,
         \A i \in 1 .. n : f[i] = s[i]
  PROVE  [i \in 1 .. n |-> f[i]] = s
<1>. HIDE DEF Byte
<1>1. s = [i \in 1 .. n |-> s[i]]
  OBVIOUS
<1>. QED  BY <1>1, Zenon

\* emit.py and bytecode.cpp: what the compiler writes is what the engine reads,
\* for every program that struct.pack can write: the code, the count of locals
\* and each constant.
THEOREM ReadIsWritten ==
  ASSUME Is32Bit, NEW code \in Seq(Byte), NEW locs \in Halves, NEW ints \in Seq(Word),
         Len(code) \in Quads, Len(ints) \in Halves
  PROVE  LoadBytecode(EmitGob(code, locs, ints))
           = <<[code |-> code, locals |-> locs, constants |-> [i \in 1 .. Len(ints) |-> <<ints[i]>>]]>>
<1>. DEFINE n == Len(ints)
            size == Len(code)
            at == 16 + 5 * n
            blob == EmitGob(code, locs, ints)
<1>1. Len(PoolBytes(ints)) = 5 * n
  BY PoolPacked, Zenon
<1>2. /\ blob \in Seq(Byte) /\ Len(blob) = at + size
      /\ Stands(Magic, 0, blob)
      /\ Stands(U16Bytes(Version), 4, blob)
      /\ Stands(U16Bytes(n), 6, blob)
      /\ Stands(U32Bytes(size), 8, blob)
      /\ Stands(U16Bytes(locs), 12, blob)
      /\ Stands(PoolBytes(ints), 16, blob)
      /\ Stands(code, at, blob)
  BY <1>1, PartsStand, Zenon
<1>3. n \in Nat /\ size \in Nat /\ at \in Nat
  OBVIOUS
<1>. HIDE DEF blob
<1>4. Version \in Halves
  BY SMT DEF Version, Halves
<1>5. 4 \in Nat /\ 6 \in Nat /\ 8 \in Nat /\ 12 \in Nat
  OBVIOUS
<1>6. /\ ReadU16(blob, 4) = Version /\ ReadU16(blob, 6) = n
      /\ ReadU16(blob, 12) = locs /\ ReadU32(blob, 8) = size
  BY <1>2, <1>4, <1>5, HalfStands, QuadStands, Zenon
<1>7. ReadPool(blob, n) = <<[at |-> at, constants |-> Read32(ints, n)]>>
  BY <1>2, PoolReadBack, Zenon
<1>8. SubSeq(blob, 1, 4) = Magic
  <2>1. PICK m \in Seq(Byte) : m = Magic
    BY MagicWritten
  <2>2. Len(m) = 4
    BY <2>1, MagicWritten, Zenon
  <2>3. \A i \in 1 .. 4 : blob[i] = m[i]
    <3>1. Stands(m, 0, blob)
      BY <1>2, <2>1, Zenon
    <3>2. ASSUME NEW i \in 1 .. 4 PROVE blob[0 + i] = m[i] /\ 0 + i = i
      BY <2>2, <3>1 DEF Stands
    <3>. QED  BY <3>2
  <2>4. SubSeq(blob, 1, 4) = [i \in 1 .. 4 |-> blob[i]]
    <3>1. Len(blob) \in Nat /\ 4 <= Len(blob)
      BY <1>2, <1>3
    <3>. HIDE DEF Byte
    <3>2. PICK b \in Seq(Byte) : b = blob
      BY <1>2, Zenon
    <3>3. 4 <= Len(b)
      BY <3>1, <3>2, Zenon
    <3>4. SubSeq(b, 1, 4) = [i \in 1 .. 4 |-> b[i]]
      BY <3>3
    <3>. QED  BY <3>2, <3>4, Zenon
  <2>. QED  BY <2>1, <2>2, <2>3, <2>4, <1>5, SameSequence, Zenon
<1>9. [i \in 1 .. size |-> blob[at + i]] = code
  <2>. DEFINE f == [i \in 1 .. size |-> blob[at + i]]
  <2>1. \A i \in 1 .. size : f[i] = code[i]
    BY <1>2, Zenon DEF Stands
  <2>2. [i \in 1 .. size |-> f[i]] = code
    <3>. HIDE DEF f
    <3>. QED  BY <1>3, <2>1, SameSequence, Zenon
  <2>. QED  BY <2>2, Zenon
<1>10. ~(Len(blob) < HeaderSize) /\ ~(at + size > Len(blob))
  <2>1. ~(at + size < 16) /\ ~(at + size > at + size)
    BY <1>3
  <2>. QED  BY <1>2, <2>1, Zenon DEF HeaderSize
<1>. DEFINE pool == [at |-> at, constants |-> Read32(ints, n)]
<1>11. <<pool>> # << >> /\ <<pool>>[1].at = at /\ <<pool>>[1].constants = Read32(ints, n)
  OBVIOUS
<1>. HIDE DEF pool, at, size, n
<1>12. ReadPool(blob, n) = <<pool>>
  BY <1>7, Zenon DEF pool
<1>13. LoadBytecode(blob)
         = <<[code |-> [i \in 1 .. size |-> blob[<<pool>>[1].at + i]],
              locals |-> locs, constants |-> <<pool>>[1].constants]>>
  BY <1>6, <1>8, <1>10, <1>11, <1>12, Zenon DEF LoadBytecode
<1>14. LoadBytecode(blob) = <<[code |-> code, locals |-> locs, constants |-> Read32(ints, n)]>>
  BY <1>9, <1>11, <1>13, Zenon
<1>. QED  BY <1>14, Zenon DEF blob, n, Read32

-----------------------------------------------------------------------------
(* LearningBrain *)

(* A candidate on trial is the network in use; it has acted in every tick  *)
(* since the one that made it, the first of the interval.                  *)
TrialInv ==
  /\ round \in 0 .. Interval - 1
  /\ prevEnergy \in Int
  /\ hasCandidate =>
       /\ inference = candidate
       /\ round >= 1 /\ tried = round - 1
       /\ tried > 0 => acting = candidate

LEMMA NextRound ==
  ASSUME NEW n \in Nat \ {0}, NEW r \in 0 .. n - 1
  PROVE  (r + 1) % n = IF r + 1 = n THEN 0 ELSE r + 1
<1>1. CASE r + 1 = n
  BY <1>1, Z3
<1>2. CASE r + 1 < n
  BY <1>2, Z3
<1>. QED  BY <1>1, <1>2

LEMMA TrialGoesOn ==
  ASSUME TrialInv, NEW energy \in Int, NEW c, Tick(energy, c)
  PROVE  /\ TrialInv'
         /\ Interval # 2 /\ net' # net =>
              net' = acting /\ tried = Interval - 2 /\ prevEnergy' > prevEnergy
<1>. USE LearningAssumption
<1>. DEFINE p == (round + 1) % Interval
            kept == Evaluates(p) /\ Improved(energy)
            onTrial == hasCandidate /\ ~EndsTrial(p, energy)
<1>1. /\ p = IF round + 1 = Interval THEN 0 ELSE round + 1
      /\ round \in 0 .. Interval - 1 /\ Interval \in Nat \ {0}
  BY NextRound DEF TrialInv
<1>2. round' = p /\ prevEnergy' = energy /\ energy \in Int
  BY DEF Tick
<1>3. acting' = (IF kept THEN candidate ELSE inference) /\ net' = IF kept THEN candidate ELSE net
  BY DEF Tick
<1>. HIDE DEF p
<1>4. round' \in 0 .. Interval - 1 /\ prevEnergy' \in Int
  BY <1>1, <1>2
<1>5. CASE Perturbs(p, onTrial)
  <2>1. p = 1
    BY <1>5 DEF Perturbs
  <2>2. hasCandidate' = TRUE /\ candidate' = c /\ inference' = c /\ tried' = 0
    BY <1>5 DEF Tick, UseCandidate, p
  <2>3. ~kept
    BY <2>1 DEF Evaluates
  <2>. QED  BY <1>2, <1>3, <1>4, <2>1, <2>2, <2>3 DEF TrialInv
<1>6. CASE ~Perturbs(p, onTrial)
  <2>1. /\ hasCandidate' = onTrial /\ candidate' = candidate
        /\ inference' = (IF kept THEN candidate ELSE inference)
        /\ tried' = IF onTrial THEN Count(tried) ELSE 0
    BY <1>6 DEF Tick, p
  <2>2. TrialInv'
    <3>1. CASE onTrial
      <4>1. /\ hasCandidate /\ p # 0 /\ inference = candidate
            /\ round >= 1 /\ tried = round - 1
        BY <3>1 DEF EndsTrial, Evaluates, TrialInv
      <4>2. p = round + 1 /\ Count(tried) = tried + 1
        BY <1>1, <4>1 DEF Count
      <4>3. tried' = p - 1 /\ p >= 1 /\ inference' = candidate' /\ acting' = candidate'
        BY <1>1, <1>3, <2>1, <3>1, <4>1, <4>2 DEF Evaluates
      <4>. QED  BY <1>2, <1>4, <4>3 DEF TrialInv
    <3>2. CASE ~onTrial
      BY <1>4, <2>1, <3>2 DEF TrialInv
    <3>. QED  BY <3>1, <3>2
  <2>3. ASSUME Interval # 2, net' # net
        PROVE  net' = acting /\ tried = Interval - 2 /\ prevEnergy' > prevEnergy
    <3>1. p = 0 /\ hasCandidate /\ energy - prevEnergy > 0 /\ net' = candidate
      BY <1>3, <2>3 DEF Evaluates, Improved
    <3>2. /\ round >= 1 /\ tried = round - 1 /\ prevEnergy \in Int
          /\ tried > 0 => acting = candidate
      BY <3>1 DEF TrialInv
    <3>3. round = Interval - 1
      BY <1>1, <3>1
    <3>. QED  BY <1>1, <1>2, <2>3, <3>1, <3>2, <3>3
  <2>. QED  BY <2>2, <2>3
<1>. QED  BY <1>5, <1>6

(***************************************************************************)
(* The network changes only to one that acted in every tick since it was   *)
(* made, and when the energy rose.                                         *)
(***************************************************************************)
THEOREM LearntMeansTried ==
  ASSUME Interval # 2
  PROVE  LearningSpec => LearnsWhatItTried
<1>1. LearningInit => TrialInv
  BY LearningAssumption DEF LearningInit, TrialInv
<1>2. TrialInv /\ [LearningNext]_learningVars =>
        /\ TrialInv'
        /\ [net' # net => net' = acting /\ tried = Interval - 2 /\ prevEnergy' > prevEnergy]_learningVars
  <2>. SUFFICES ASSUME TrialInv, [LearningNext]_learningVars
                PROVE  /\ TrialInv'
                       /\ [net' # net => /\ net' = acting /\ tried = Interval - 2
                                         /\ prevEnergy' > prevEnergy]_learningVars
    OBVIOUS
  <2>1. CASE UNCHANGED learningVars
    BY <2>1 DEF learningVars, TrialInv
  <2>2. CASE LearningNext
    BY <2>2, TrialGoesOn, LearningAssumption DEF LearningNext
  <2>. QED  BY <2>1, <2>2
<1>. QED  BY <1>1, <1>2, PTL DEF LearningSpec, LearnsWhatItTried

-----------------------------------------------------------------------------
(* What an agent has *)

LEMMA CellsFinite ==
  /\ IsFiniteSet(Ground!Cells)
  /\ \A p \in Ground!Cells, o \in Ground!Offsets : Ground!Step(p, o) \in Ground!Cells
<1>. USE BodyAssumption DEF Ground!Cells
<1>1. IsFiniteSet(0 .. Width - 1) /\ IsFiniteSet(0 .. Height - 1)
  <2>1. 0 \in Int /\ Width - 1 \in Int /\ Height - 1 \in Int
    OBVIOUS
  <2>. QED  BY <2>1, FS_Interval
<1>2. \A x, y \in Int : x % Width \in 0 .. Width - 1 /\ y % Height \in 0 .. Height - 1
  OBVIOUS
<1>3. ASSUME NEW p \in Ground!Cells, NEW o \in Ground!Offsets
      PROVE  Ground!Step(p, o) \in Ground!Cells
  <2>1. p[1] + o[1] \in Int /\ p[2] + o[2] \in Int
    BY DEF Ground!Offsets
  <2>. QED  BY <1>2, <2>1 DEF Ground!Step, Ground!Wrap
<1>. QED  BY <1>1, <1>3, FS_Product

LEMMA FoodIsSum == ASSUME NEW b PROVE FoodLeft(b) = SumOver(b.food, Ground!Cells)
BY DEF FoodLeft, MapThenSumSet, MapThenFoldSet, SumOver, SumFcn, Summing, Any

\* The endowments of the children.
Shares(kids) == [i \in DOMAIN kids |-> kids[i].energy]

LEMMA GivenIsSum ==
  ASSUME NEW kids PROVE GivenAway(kids) = SumOver(Shares(kids), DOMAIN kids)
<1>. DEFINE S == DOMAIN kids
            w == Shares(kids)
            Direct(iter) == [s \in SUBSET S |-> IF s = {} THEN 0
                                                ELSE kids[Any(s)].energy + iter[s \ {Any(s)}]]
<1>1. \A iter : Summing(w, S, iter) = Direct(iter)
  BY DEF Summing, Shares, Any
<1>2. GivenAway(kids) = (CHOOSE iter : iter = Direct(iter))[S]
  BY DEF GivenAway, MapThenSumSet, MapThenFoldSet, Any
<1>. HIDE DEF Direct, w
<1>3. (CHOOSE iter : iter = Summing(w, S, iter)) = (CHOOSE iter : iter = Direct(iter))
  BY <1>1, Zenon
<1>. QED  BY <1>2, <1>3 DEF SumOver, SumFcn, w

LEMMA FoodIsNat ==
  ASSUME NEW b \in Bodies
  PROVE  FoodLeft(b) \in Nat
<1>1. \A c \in Ground!Cells : b.food[c] \in Int /\ b.food[c] >= 0
  BY DEF Bodies
<1>. QED  BY <1>1, CellsFinite, FoodIsSum, SumAtLeast

\* What is eaten is gone.
LEMMA FoodTaken ==
  ASSUME NEW b \in Bodies, NEW p \in Ground!Cells,
         NEW d \in Bodies, d.food = [b.food EXCEPT ![p] = 0]
  PROVE  FoodLeft(d) = FoodLeft(b) - b.food[p]
<1>. DEFINE C == Ground!Cells
<1>1. /\ \A c \in C : b.food[c] \in Int /\ d.food[c] \in Int
      /\ \A c \in C \ {p} : b.food[c] = d.food[c]
      /\ d.food[p] = 0
  BY DEF Bodies
<1>2. IsFiniteSet(C) /\ IsFiniteSet(C \ {p})
  BY CellsFinite, FS_Subset
<1>3. /\ SumOver(b.food, C) = b.food[p] + SumOver(b.food, C \ {p})
      /\ SumOver(d.food, C) = d.food[p] + SumOver(d.food, C \ {p})
  BY <1>1, <1>2, SumTakes
<1>4. /\ SumOver(b.food, C \ {p}) \in Int /\ SumOver(d.food, C \ {p}) \in Int
      /\ SumOver(b.food, C \ {p}) <= SumOver(d.food, C \ {p})
      /\ SumOver(d.food, C \ {p}) <= SumOver(b.food, C \ {p})
  <2>1. \A c \in C \ {p} : /\ b.food[c] \in Int /\ d.food[c] \in Int
                           /\ b.food[c] <= d.food[c] /\ d.food[c] <= b.food[c]
    BY <1>1
  <2>. HIDE DEF C
  <2>. QED  BY <1>2, <2>1, SumGrows
<1>. QED  BY <1>1, <1>3, <1>4, FoodIsSum

Children == [pos : Ground!Cells, energy : Nat \ {0}]

LEMMA GivenIsNat ==
  ASSUME NEW kids \in Seq(Children)
  PROVE  GivenAway(kids) \in Nat /\ Len(kids) <= GivenAway(kids)
<1>1. /\ Len(kids) \in Nat /\ DOMAIN kids = 1 .. Len(kids)
      /\ \A i \in 1 .. Len(kids) : kids[i] \in Children
  BY LenProperties, ElementOfSeq
<1>2. IsFiniteSet(DOMAIN kids) /\ Cardinality(DOMAIN kids) = Len(kids)
  <2>1. 1 \in Int /\ Len(kids) \in Int
    BY <1>1
  <2>2. /\ IsFiniteSet(1 .. Len(kids))
        /\ Cardinality(1 .. Len(kids)) = IF 1 > Len(kids) THEN 0 ELSE Len(kids) - 1 + 1
    BY <2>1, FS_Interval
  <2>. QED  BY <1>1, <2>2
<1>3. \A i \in DOMAIN kids : Shares(kids)[i] \in Int /\ Shares(kids)[i] >= 1
  BY <1>1 DEF Shares, Children
<1>. QED  BY <1>2, <1>3, GivenIsSum, SumAtLeast

\* A child is given what it is born with.
LEMMA GivenAtBirth ==
  ASSUME NEW kids \in Seq(Children), NEW kid \in Children
  PROVE  GivenAway(Append(kids, kid)) = GivenAway(kids) + kid.energy
<1>. DEFINE more == Append(kids, kid)
            n == Len(kids)
<1>1. /\ n \in Nat /\ DOMAIN kids = 1 .. n /\ DOMAIN more = 1 .. n + 1
      /\ more[n + 1] = kid /\ \A i \in 1 .. n : more[i] = kids[i]
      /\ \A i \in 1 .. n : kids[i] \in Children
  BY LenProperties, ElementOfSeq
<1>. HIDE DEF more, n
<1>2. /\ \A i \in 1 .. n : Shares(more)[i] = Shares(kids)[i] /\ Shares(kids)[i] \in Int
      /\ Shares(more)[n + 1] = kid.energy /\ kid.energy \in Int
  BY <1>1 DEF Shares, Children
<1>3. /\ IsFiniteSet(1 .. n + 1) /\ IsFiniteSet(1 .. n) /\ (1 .. n + 1) \ {n + 1} = 1 .. n
  <2>1. 1 \in Int /\ n \in Int /\ n + 1 \in Int /\ (1 .. n + 1) \ {n + 1} = 1 .. n
    BY <1>1
  <2>. QED  BY <2>1, FS_Interval
<1>4. /\ SumOver(Shares(more), 1 .. n) \in Int
      /\ SumOver(Shares(more), 1 .. n + 1) = kid.energy + SumOver(Shares(more), 1 .. n)
  <2>1. n + 1 \in 1 .. n + 1 /\ \A i \in 1 .. n + 1 : Shares(more)[i] \in Int
    BY <1>1, <1>2
  <2>2. /\ SumOver(Shares(more), (1 .. n + 1) \ {n + 1}) \in Int
        /\ SumOver(Shares(more), 1 .. n + 1)
             = Shares(more)[n + 1] + SumOver(Shares(more), (1 .. n + 1) \ {n + 1})
    BY <1>3, <2>1, SumTakes
  <2>. QED  BY <1>2, <1>3, <2>2, Zenon
<1>5. SumOver(Shares(more), 1 .. n) = SumOver(Shares(kids), 1 .. n)
  <2>1. \A i \in 1 .. n : /\ Shares(more)[i] \in Int /\ Shares(kids)[i] \in Int
                          /\ Shares(more)[i] <= Shares(kids)[i]
                          /\ Shares(kids)[i] <= Shares(more)[i]
    BY <1>2
  <2>2. /\ SumOver(Shares(more), 1 .. n) <= SumOver(Shares(kids), 1 .. n)
        /\ SumOver(Shares(kids), 1 .. n) <= SumOver(Shares(more), 1 .. n)
        /\ SumOver(Shares(kids), 1 .. n) \in Int
    BY <1>3, <2>1, SumGrows
  <2>. QED  BY <1>4, <2>2
<1>6. GivenAway(more) = SumOver(Shares(more), 1 .. n + 1) /\ GivenAway(kids) = SumOver(Shares(kids), 1 .. n)
  BY <1>1, GivenIsSum
<1>7. SumOver(Shares(kids), 1 .. n) \in Int
  BY <1>4, <1>5
<1>. QED  BY <1>2, <1>4, <1>5, <1>6, <1>7 DEF more

\* What an agent has, and what the food left would give it.
Worth(b) == b.energy + Traits.forage_efficiency * FoodLeft(b)

AgentOK ==
  /\ body \in Bodies
  /\ agent_counts \in [Ground!Cells -> Nat]
  /\ children \in Seq(Children)

LEMMA WorthIsInt ==
  ASSUME NEW b \in Bodies
  PROVE  Worth(b) \in Int /\ b.energy \in Int /\ Worth(b) >= b.energy
<1>1. b.energy \in Int /\ FoodLeft(b) \in Nat /\ Traits.forage_efficiency \in Nat
  BY BodyAssumption, FoodIsNat DEF Bodies
<1>2. \A m, n \in Nat : m * n \in Nat
  OBVIOUS
<1>. QED  BY <1>1, <1>2 DEF Worth

\* MOVE: a move costs no energy that the simulation takes, at most two more.
LEMMA MovedOK ==
  ASSUME NEW b \in Bodies
  PROVE  /\ Moved(b) \in Bodies
         /\ Moved(b).energy \in b.energy - 2 .. b.energy
         /\ Moved(b).food = b.food /\ Moved(b).water = b.water
         /\ Moved(b).hydration = b.hydration
         /\ Worth(Moved(b)) <= Worth(b)
<1>1. /\ b.pos \in Ground!Cells /\ b.facing \in DOMAIN ToOffset /\ b.energy \in Int
      /\ b = [pos |-> b.pos, facing |-> b.facing, energy |-> b.energy,
              hydration |-> b.hydration, food |-> b.food, water |-> b.water]
  BY DEF Bodies
<1>2. ToOffset[b.facing] \in Ground!Offsets
  BY <1>1 DEF ToOffset, Ground!Offsets
<1>3. Ahead(b) \in Ground!Cells
  BY <1>1, <1>2, CellsFinite DEF Ahead
<1>4. Ground!MoveCost(Traits, Terrain[Ahead(b)]) \in 1 .. 3
  BY BodyAssumption DEF Ground!MoveCost, Ground!MovementCost
<1>5. /\ Moved(b) \in Bodies
      /\ Moved(b).energy \in b.energy - 2 .. b.energy
      /\ Moved(b).food = b.food /\ Moved(b).water = b.water
      /\ Moved(b).hydration = b.hydration
  <2>. DEFINE to == Ahead(b)
              e == b.energy - (Ground!MoveCost(Traits, Terrain[Ahead(b)]) - 1)
  <2>1. Moved(b) = [b EXCEPT !.pos = to, !.energy = e]
    BY DEF Moved
  <2>2. to \in Ground!Cells /\ e \in Int /\ e \in b.energy - 2 .. b.energy
    BY <1>1, <1>3, <1>4
  <2>. HIDE DEF to, e
  <2>. QED  BY <2>1, <2>2 DEF Bodies
<1>6. FoodLeft(Moved(b)) = FoodLeft(b)
  BY <1>5, FoodIsSum, Zenon
<1>7. Moved(b).energy <= b.energy /\ Moved(b).energy \in Int
  BY <1>1, <1>5
<1>8. Traits.forage_efficiency * FoodLeft(b) \in Int
  BY BodyAssumption, FoodIsNat
<1>. QED  BY <1>1, <1>5, <1>6, <1>7, <1>8 DEF Worth

\* The agent with another amount of energy, or water, and nothing left where it is.
Fed(b, e) == [b EXCEPT !.energy = e, !.food[b.pos] = 0]
Watered(b, h) == [b EXCEPT !.hydration = h, !.water[b.pos] = 0]

\* EAT and the network's eating: what is gained was there, and is gone.
LEMMA AteOK ==
  ASSUME NEW b \in Bodies, NEW e \in Int, e <= b.energy + FoodGain(b)
  PROVE  LET d == Fed(b, e) IN
         /\ d \in Bodies /\ d.energy = e /\ d.hydration = b.hydration /\ d.water = b.water
         /\ \A c \in Ground!Cells : d.food[c] <= b.food[c]
         /\ Worth(d) <= Worth(b)
<1>. DEFINE d == Fed(b, e)
<1>1. b.pos \in Ground!Cells /\ b.food[b.pos] \in Nat /\ b.energy \in Int
  BY DEF Bodies
<1>2. /\ d \in Bodies /\ d.food = [b.food EXCEPT ![b.pos] = 0] /\ d.energy = e
      /\ d.hydration = b.hydration /\ d.water = b.water
  BY <1>1 DEF Bodies, Fed
<1>. HIDE DEF d
<1>3. \A c \in Ground!Cells : d.food[c] <= b.food[c]
  BY <1>1, <1>2 DEF Bodies
<1>4. FoodLeft(d) = FoodLeft(b) - b.food[b.pos] /\ FoodLeft(b) \in Nat
  BY <1>1, <1>2, FoodTaken, FoodIsNat
<1>5. Worth(d) <= Worth(b)
  <2>1. Traits.forage_efficiency \in Nat
    BY BodyAssumption
  <2>2. \A g, f, n \in Int : g * (f - n) = g * f - n * g /\ g * f \in Int /\ n * g \in Int
    OBVIOUS
  <2>3. /\ Traits.forage_efficiency * FoodLeft(d)
             = Traits.forage_efficiency * FoodLeft(b) - FoodGain(b)
        /\ Traits.forage_efficiency * FoodLeft(b) \in Int /\ FoodGain(b) \in Int
    <3>. DEFINE g == Traits.forage_efficiency
                f == FoodLeft(b)
                n == b.food[b.pos]
    <3>1. FoodLeft(d) = f - n /\ FoodGain(b) = n * g
      BY <1>4 DEF FoodGain
    <3>2. g \in Int /\ f \in Int /\ n \in Int
      BY <1>1, <1>4, <2>1
    <3>. HIDE DEF g, f, n
    <3>3. g * (f - n) = g * f - n * g /\ g * f \in Int /\ n * g \in Int
      BY <2>2, <3>2
    <3>4. g * FoodLeft(d) = g * f - FoodGain(b) /\ g * f \in Int /\ FoodGain(b) \in Int
      BY <3>1, <3>3
    <3>. QED  BY <3>4 DEF g, f
  <2>. QED  BY <1>1, <1>2, <2>3 DEF Worth
<1>. QED  BY <1>2, <1>3, <1>5 DEF d

LEMMA GainsAreNat ==
  ASSUME NEW b \in Bodies
  PROVE  FoodGain(b) \in Nat /\ WaterGain(b) \in Nat /\ b.energy \in Int /\ b.hydration \in Int
<1>1. \A m, n \in Nat : m * n \in Nat
  OBVIOUS
<1>2. b.food[b.pos] \in Nat /\ b.water[b.pos] \in Nat /\ b.energy \in Int /\ b.hydration \in Int
  BY DEF Bodies
<1>. QED  BY <1>1, <1>2, BodyAssumption DEF FoodGain, WaterGain

\* What leaves the energy and the food as they are, or the energy lower.
LEMMA WorthKept ==
  ASSUME NEW b \in Bodies, NEW d \in Bodies, d.food = b.food, d.energy <= b.energy
  PROVE  Worth(d) <= Worth(b)
<1>1. FoodLeft(d) = FoodLeft(b)
  BY FoodIsSum, Zenon
<1>2. Traits.forage_efficiency * FoodLeft(b) \in Int /\ b.energy \in Int /\ d.energy \in Int
  BY BodyAssumption, FoodIsNat DEF Bodies
<1>. QED  BY <1>1, <1>2 DEF Worth

LEMMA TurnedOK ==
  ASSUME NEW b \in Bodies, NEW f \in DOMAIN ToOffset, NEW d, d = [b EXCEPT !.facing = f]
  PROVE  /\ d \in Bodies /\ d.energy = b.energy /\ d.hydration = b.hydration
         /\ d.food = b.food /\ d.water = b.water
         /\ Worth(d) <= Worth(b)
<1>1. /\ d \in Bodies /\ d.energy = b.energy /\ d.hydration = b.hydration
      /\ d.food = b.food /\ d.water = b.water
  BY DEF Bodies
<1>2. d.energy <= b.energy
  BY <1>1 DEF Bodies
<1>. QED  BY <1>1, <1>2, WorthKept

LEMMA DrankOK ==
  ASSUME NEW b \in Bodies, NEW h \in Int
  PROVE  LET d == Watered(b, h) IN
         /\ d \in Bodies /\ d.energy = b.energy /\ d.hydration = h /\ d.food = b.food
         /\ \A c \in Ground!Cells : d.water[c] <= b.water[c]
         /\ Worth(d) <= Worth(b)
<1>. DEFINE d == Watered(b, h)
<1>1. b.pos \in Ground!Cells /\ b.water \in [Ground!Cells -> Nat]
  BY DEF Bodies
<1>2. /\ d \in Bodies /\ d.energy = b.energy /\ d.hydration = h
      /\ d.food = b.food /\ d.water = [b.water EXCEPT ![b.pos] = 0]
  BY <1>1 DEF Bodies, Watered
<1>. HIDE DEF d
<1>3. \A c \in Ground!Cells : d.water[c] <= b.water[c]
  BY <1>1, <1>2
<1>4. d.energy <= b.energy
  BY <1>2 DEF Bodies
<1>. QED  BY <1>2, <1>3, <1>4, WorthKept DEF d

-----------------------------------------------------------------------------
(* What an agent does *)

LEMMA WealthStays ==
  ASSUME AgentOK, UNCHANGED bodyVars
  PROVE  AgentOK' /\ Wealth' <= Wealth
<1>1. Wealth \in Int
  <2>1. GivenAway(children) \in Nat /\ body.energy \in Int
    BY GivenIsNat DEF AgentOK, Bodies
  <2>2. Traits.forage_efficiency * FoodLeft(body) \in Int
    BY BodyAssumption, FoodIsNat DEF AgentOK
  <2>. QED  BY <2>1, <2>2 DEF Wealth
<1>2. body' = body /\ children' = children /\ agent_counts' = agent_counts
  BY DEF bodyVars
<1>3. Wealth' = Wealth
  BY <1>2 DEF Wealth
<1>. QED  BY <1>1, <1>2, <1>3 DEF AgentOK

LEMMA DoOK ==
  ASSUME AgentOK, NEW b \in Bodies, Worth(b) <= Worth(body), Do(b)
  PROVE  AgentOK' /\ Wealth' <= Wealth
<1>1. GivenAway(children) \in Nat /\ body' = b /\ children' = children
  BY GivenIsNat DEF AgentOK, Do
<1>2. Worth(b) \in Int /\ Worth(body) \in Int
  BY WorthIsInt DEF AgentOK
<1>3. b.energy \in Int /\ body.energy \in Int
  BY DEF AgentOK, Bodies
<1>4. /\ Traits.forage_efficiency * FoodLeft(b) \in Int
      /\ Traits.forage_efficiency * FoodLeft(body) \in Int
  BY BodyAssumption, FoodIsNat DEF AgentOK
<1>5. Wealth' <= Wealth
  BY <1>1, <1>2, <1>3, <1>4 DEF Wealth, Worth
<1>. QED  BY <1>1, <1>5 DEF AgentOK, Do

\* REPRODUCE shares the energy between parent and child.
LEMMA ReproduceOK ==
  ASSUME AgentOK, Reproduce
  PROVE  /\ AgentOK' /\ Wealth' <= Wealth
         /\ body'.energy >= 1 /\ Len(children') = Len(children) + 1
         /\ body' = [body EXCEPT !.energy = body'.energy]
<1>1. /\ body.energy \in Int /\ body.energy >= 2 /\ body.pos \in Ground!Cells /\ body \in Bodies
      /\ children \in Seq(Children)
  <2>1. Traits.reproduction_threshold \in Nat \ {0, 1}
    BY BodyAssumption
  <2>2. body.energy >= Traits.reproduction_threshold
    BY DEF Reproduce, CanReproduce
  <2>3. /\ body.energy \in Int /\ body.pos \in Ground!Cells /\ body \in Bodies
        /\ children \in Seq(Children)
    BY DEF AgentOK, Bodies
  <2>. QED  BY <2>1, <2>2, <2>3
<1>2. PICK d \in DOMAIN ToOffset :
        children' = Append(children, [pos |-> Beside(body, ToOffset[d]),
                                      energy |-> body.energy \div 2])
  BY DEF Reproduce
<1>. DEFINE kid == [pos |-> Beside(body, ToOffset[d]), energy |-> body.energy \div 2]
<1>3. /\ body.energy \div 2 \in Nat \ {0}
      /\ EnergyAfterBirth(body) \in Int /\ EnergyAfterBirth(body) >= 1
      /\ EnergyAfterBirth(body) + body.energy \div 2 = body.energy
  BY <1>1 DEF EnergyAfterBirth
<1>4. kid \in Children
  <2>1. ToOffset[d] \in Ground!Offsets
    BY DEF ToOffset, Ground!Offsets
  <2>2. Beside(body, ToOffset[d]) \in Ground!Cells
    BY <1>1, <2>1, CellsFinite DEF Beside
  <2>. QED  BY <1>3, <2>2 DEF Children
<1>5. /\ children' \in Seq(Children) /\ Len(children') = Len(children) + 1
      /\ GivenAway(children') = GivenAway(children) + body.energy \div 2
      /\ GivenAway(children) \in Nat
  <2>1. kid.energy = body.energy \div 2
    OBVIOUS
  <2>2. children' = Append(children, kid)
    BY <1>2
  <2>. HIDE DEF kid
  <2>. QED  BY <1>1, <1>4, <2>1, <2>2, GivenAtBirth, GivenIsNat, AppendProperties
<1>6. /\ body' \in Bodies /\ body'.energy = EnergyAfterBirth(body) /\ body'.food = body.food
      /\ body' = [body EXCEPT !.energy = body'.energy]
  BY <1>1, <1>3 DEF Reproduce, Bodies
<1>7. FoodLeft(body') = FoodLeft(body)
  BY <1>6, FoodIsSum, Zenon
<1>8. Traits.forage_efficiency * FoodLeft(body) \in Int
  BY <1>1, BodyAssumption, FoodIsNat
<1>9. Wealth' <= Wealth
  <2>. DEFINE p == Traits.forage_efficiency * FoodLeft(body)
              half == body.energy \div 2
              kept == EnergyAfterBirth(body)
              given == GivenAway(children)
  <2>1. Wealth' = kept + (given + half) + p /\ Wealth = body.energy + given + p
    BY <1>5, <1>6, <1>7 DEF Wealth
  <2>2. p \in Int /\ half \in Int /\ kept \in Int /\ given \in Int /\ kept + half = body.energy
    BY <1>3, <1>5, <1>8
  <2>. HIDE DEF p, half, kept, given
  <2>. QED  BY <1>1, <2>1, <2>2
<1>10. AgentOK'
  BY <1>5, <1>6 DEF AgentOK, Reproduce
<1>. QED  BY <1>3, <1>5, <1>6, <1>9, <1>10

LEMMA UpkeepOK ==
  ASSUME AgentOK, Upkeep
  PROVE  /\ AgentOK' /\ Wealth' <= Wealth
         /\ \A c \in Ground!Cells : agent_counts'[c] <= Len(children) + 1
         /\ body' = [body EXCEPT !.energy = body'.energy, !.hydration = body.hydration - 1]
<1>1. /\ body \in Bodies /\ children \in Seq(Children) /\ Traits.metabolism \in Nat
      /\ body.energy \in Int /\ body.hydration \in Int
  BY BodyAssumption DEF AgentOK, Bodies
<1>2. /\ body' \in Bodies /\ body'.energy <= body.energy /\ body'.food = body.food
      /\ body' = [body EXCEPT !.energy = body'.energy, !.hydration = body.hydration - 1]
  <2>. DEFINE e == body.energy - Traits.metabolism
              h == body.hydration - 1
  <2>1. body' = [body EXCEPT !.energy = e, !.hydration = h]
    BY DEF Upkeep
  <2>2. e \in Int /\ e <= body.energy /\ h \in Int
    BY <1>1
  <2>. HIDE DEF e
  <2>3. body' \in Bodies /\ body'.energy = e /\ body'.food = body.food
    BY <1>1, <2>1, <2>2 DEF Bodies
  <2>. QED  BY <2>1, <2>2, <2>3
<1>3. ASSUME NEW c \in Ground!Cells
      PROVE  Counts(body)[c] \in Nat /\ Counts(body)[c] <= Len(children) + 1
  <2>. DEFINE here == {i \in DOMAIN children : children[i].pos = c}
  <2>1. Len(children) \in Nat /\ DOMAIN children = 1 .. Len(children)
    BY <1>1, LenProperties
  <2>2. IsFiniteSet(1 .. Len(children)) /\ Cardinality(1 .. Len(children)) = Len(children)
    <3>1. 1 \in Int /\ Len(children) \in Int
      BY <2>1
    <3>2. /\ IsFiniteSet(1 .. Len(children))
          /\ Cardinality(1 .. Len(children))
               = IF 1 > Len(children) THEN 0 ELSE Len(children) - 1 + 1
      BY <3>1, FS_Interval
    <3>. QED  BY <2>1, <3>2
  <2>3. here \subseteq 1 .. Len(children)
    BY <2>1
  <2>. HIDE DEF here
  <2>4. Cardinality(here) \in Nat /\ Cardinality(here) <= Len(children)
    BY <2>2, <2>3, FS_Subset, FS_CardinalityType
  <2>5. Counts(body)[c] = Cardinality(here) + IF body.pos = c THEN 1 ELSE 0
    BY DEF Counts, here
  <2>. QED  BY <2>1, <2>4, <2>5
<1>4. agent_counts' = Counts(body) /\ children' = children
  BY DEF Upkeep
<1>5. agent_counts' \in [Ground!Cells -> Nat]
  BY <1>3, <1>4 DEF Counts
<1>6. Worth(body') <= Worth(body) /\ Worth(body) \in Int /\ Worth(body') \in Int
  BY <1>1, <1>2, WorthKept, WorthIsInt
<1>7. Wealth' <= Wealth
  <2>1. GivenAway(children) \in Nat /\ body'.energy \in Int
    BY <1>1, <1>2, GivenIsNat DEF Bodies
  <2>2. /\ Traits.forage_efficiency * FoodLeft(body') \in Int
        /\ Traits.forage_efficiency * FoodLeft(body) \in Int
    BY <1>1, <1>2, BodyAssumption, FoodIsNat
  <2>. QED  BY <1>1, <1>4, <1>6, <2>1, <2>2 DEF Wealth, Worth
<1>8. AgentOK'
  BY <1>1, <1>2, <1>4, <1>5 DEF AgentOK
<1>. QED  BY <1>2, <1>3, <1>4, <1>7, <1>8

\* MlBrain::execute_action, whatever the number.
LEMMA ExecuteActionOK ==
  ASSUME AgentOK, NEW action, ExecuteAction(action)
  PROVE  AgentOK' /\ Wealth' <= Wealth
<1>1. body \in Bodies /\ FoodGain(body) \in Nat /\ WaterGain(body) \in Nat
      /\ body.energy \in Int /\ body.hydration \in Int /\ body.facing \in DOMAIN ToOffset
  BY GainsAreNat DEF AgentOK, Bodies
<1>2. CASE Do(Moved(body))
  BY <1>1, <1>2, MovedOK, DoOK
<1>3. ASSUME NEW f \in DOMAIN ToOffset, Do([body EXCEPT !.facing = f])
      PROVE  AgentOK' /\ Wealth' <= Wealth
  BY <1>1, <1>3, TurnedOK, DoOK
<1>4. TurnLeft[body.facing] \in DOMAIN ToOffset /\ TurnRight[body.facing] \in DOMAIN ToOffset
  BY <1>1 DEF TurnLeft, TurnRight, ToOffset
<1>5. CASE Do([body EXCEPT !.energy = @ + FoodGain(body), !.food[body.pos] = 0])
  <2>. DEFINE e == body.energy + FoodGain(body)
              d == Fed(body, e)
  <2>1. e \in Int /\ e <= body.energy + FoodGain(body)
    BY <1>1
  <2>2. d \in Bodies /\ Worth(d) <= Worth(body)
    BY <1>1, <2>1, AteOK
  <2>3. Do(d)
    BY <1>5 DEF Fed
  <2>. HIDE DEF d
  <2>. QED  BY <2>2, <2>3, DoOK
<1>6. CASE Do([body EXCEPT !.hydration = @ + WaterGain(body), !.water[body.pos] = 0])
  <2>. DEFINE h == body.hydration + WaterGain(body)
              d == Watered(body, h)
  <2>1. h \in Int
    BY <1>1
  <2>2. d \in Bodies /\ Worth(d) <= Worth(body)
    BY <1>1, <2>1, DrankOK
  <2>3. Do(d)
    BY <1>6 DEF Watered
  <2>. HIDE DEF d
  <2>. QED  BY <2>2, <2>3, DoOK
<1>7. CASE Reproduce
  BY <1>7, ReproduceOK
<1>8. CASE UNCHANGED bodyVars
  BY <1>8, WealthStays
<1>. QED  BY <1>2, <1>3, <1>4, <1>5, <1>6, <1>7, <1>8 DEF ExecuteAction

-----------------------------------------------------------------------------
(* What an agent perceives are words *)

\* Constants: what the code's ints hold many times over.
WordsAreWide ==
  /\ HalfWord > 3 /\ 2 * Budget <= HalfWord /\ MaxReserve < HalfWord
  /\ \A t \in DOMAIN Traits : Traits[t] < HalfWord

(* A bot's energy stays above what its moves in a tick can cost, and below *)
(* what there is at all, as energy is not made; its children, each born    *)
(* with some, are no more than that either, and so nor are those counted.  *)
Frugal ==
  /\ WordsAreWide
  /\ Wealth + 2 * Budget < HalfWord
  /\ phase = "running" => body.energy >= 1 - 2 * acted /\ body.hydration >= 0
  /\ body.hydration < HalfWord
  /\ \A c \in Ground!Cells : /\ agent_counts[c] <= Len(children) + 1
                             /\ body.food[c] * Traits.forage_efficiency < HalfWord
                             /\ body.water[c] * Traits.forage_efficiency < HalfWord

BrainsInv ==
  /\ VmInv /\ AgentOK /\ TrialInv
  /\ phase = "running" => brain = "bytecode"
  /\ brain = "bytecode" => Frugal

LEMMA ActsAreBounded ==
  ASSUME VmInv
  PROVE  acted \in Nat /\ acted <= Budget
<1>1. acted \in Nat /\ remaining \in Nat /\ acted * IntrinsicCost + remaining <= Budget
  BY VmAssumption DEF VmInv, TypeOK, ControlOK, BudgetBoundsActions
<1>2. \A m \in Nat, n \in Nat \ {0} : m * n \in Nat /\ m <= m * n
  <2>. SUFFICES ASSUME NEW m \in Nat, NEW n \in Nat \ {0} PROVE m * n \in Nat /\ m <= m * n
    OBVIOUS
  <2>1. m * n = m * (n - 1) + m /\ m * (n - 1) \in Nat
    OBVIOUS
  <2>. QED  BY <2>1
<1>3. acted * IntrinsicCost \in Nat /\ acted <= acted * IntrinsicCost
  BY <1>1, <1>2, VmAssumption
<1>. QED  BY <1>1, <1>3, VmAssumption

LEMMA ProductOfNats ==
  ASSUME NEW m \in Nat, NEW n \in Nat, m <= n, NEW k \in Nat
  PROVE  m * k \in Nat /\ n * k \in Nat /\ m * k <= n * k /\ (k > 0 => m <= m * k)
<1>1. n * k = m * k + (n - m) * k /\ (n - m) * k \in Nat /\ m * k \in Nat /\ n * k \in Nat
  OBVIOUS
<1>2. k > 0 => m * k = m * (k - 1) + m /\ m * (k - 1) \in Nat
  OBVIOUS
<1>. QED  BY <1>1, <1>2

LEMMA PerceivesWords ==
  ASSUME BrainsInv, phase = "running"
  PROVE  /\ body.energy \in Word /\ body.hydration \in Word
         /\ FoodGain(body) \in Word /\ WaterGain(body) \in Word
         /\ \A i : TraitValue(i) \in Word
         /\ 0 \in Word /\ 1 \in Word
         /\ \A c \in Ground!Cells : /\ TerrainValue[Terrain[c]] \in Word
                                    /\ body.food[c] \in Word /\ body.water[c] \in Word
                                    /\ agent_counts[c] \in Word
<1>1. Frugal /\ AgentOK /\ HalfWord \in Nat /\ Budget \in Nat /\ acted \in Nat /\ acted <= Budget
  BY ActsAreBounded, VmAssumption DEF BrainsInv
<1>2. /\ body \in Bodies /\ body.energy \in Int /\ body.hydration \in Int
      /\ \A c \in Ground!Cells : /\ body.food[c] \in Nat /\ body.water[c] \in Nat
                                 /\ agent_counts[c] \in Nat
      /\ body.pos \in Ground!Cells
  BY <1>1 DEF AgentOK, Bodies
<1>3. /\ GivenAway(children) \in Nat /\ Len(children) <= GivenAway(children)
      /\ Len(children) \in Nat
  BY <1>1, GivenIsNat, LenProperties DEF AgentOK
<1>4. Worth(body) \in Int /\ Worth(body) >= body.energy /\ Wealth = Worth(body) + GivenAway(children)
  <2>1. Traits.forage_efficiency * FoodLeft(body) \in Int
    BY <1>2, BodyAssumption, FoodIsNat
  <2>. QED  BY <1>2, <1>3, <2>1, WorthIsInt DEF Worth, Wealth
<1>5. /\ body.energy >= 1 - 2 * acted /\ Wealth + 2 * Budget < HalfWord
      /\ body.hydration >= 0 /\ body.hydration < HalfWord
      /\ HalfWord > 3 /\ 2 * Budget <= HalfWord
  BY <1>1 DEF Frugal, WordsAreWide
<1>6. body.energy \in Word /\ body.hydration \in Word /\ Len(children) + 1 < HalfWord
  <2>. DEFINE e == body.energy
              h == body.hydration
              n == Len(children)
              g == GivenAway(children)
              v == Worth(body)
  <2>1. /\ e \in Int /\ h \in Int /\ n \in Nat /\ g \in Nat /\ v \in Int /\ acted \in Nat
        /\ Budget \in Nat /\ HalfWord \in Nat /\ acted <= Budget
    BY <1>1, <1>2, <1>3, <1>4
  <2>2. n <= g /\ v >= e /\ e >= 1 - 2 * acted /\ v + g + 2 * Budget < HalfWord
    BY <1>3, <1>4, <1>5
  <2>3. h >= 0 /\ h < HalfWord /\ 2 * Budget <= HalfWord
    BY <1>5
  <2>4. e \in Word /\ h \in Word /\ n + 1 < HalfWord
    <3>. HIDE DEF e, h, n, g, v
    <3>. QED  BY <2>1, <2>2, <2>3 DEF Word
  <2>. QED  BY <2>4
<1>7. /\ \A n \in Nat : n < HalfWord => n \in Word
      /\ 0 \in Word /\ 1 \in Word /\ 2 \in Word /\ 3 \in Word
  BY <1>1, <1>5 DEF Word
<1>8. ASSUME NEW c \in Ground!Cells
      PROVE  /\ TerrainValue[Terrain[c]] \in Word
             /\ body.food[c] \in Word /\ body.water[c] \in Word
             /\ agent_counts[c] \in Word
             /\ body.food[c] * Traits.forage_efficiency \in Word
             /\ body.water[c] * Traits.forage_efficiency \in Word
  <2>1. /\ body.food[c] * Traits.forage_efficiency < HalfWord
        /\ body.water[c] * Traits.forage_efficiency < HalfWord
        /\ agent_counts[c] <= Len(children) + 1
    BY <1>1 DEF Frugal
  <2>2. Traits.forage_efficiency \in Nat /\ Traits.forage_efficiency > 0
    BY BodyAssumption
  <2>3. /\ body.food[c] * Traits.forage_efficiency \in Nat
        /\ body.food[c] <= body.food[c] * Traits.forage_efficiency
        /\ body.water[c] * Traits.forage_efficiency \in Nat
        /\ body.water[c] <= body.water[c] * Traits.forage_efficiency
    BY <1>2, <2>2, ProductOfNats
  <2>4. TerrainValue[Terrain[c]] \in 0 .. 3
    BY BodyAssumption DEF TerrainValue, Ground!TerrainKinds
  <2>5. body.food[c] < HalfWord /\ body.water[c] < HalfWord /\ agent_counts[c] < HalfWord
    BY <1>1, <1>2, <1>3, <1>6, <2>1, <2>3
  <2>6. TerrainValue[Terrain[c]] \in Word
    BY <1>7, <2>4
  <2>. QED  BY <1>2, <1>7, <2>1, <2>3, <2>5, <2>6
<1>9. \A i : TraitValue(i) \in Word
  <2>1. \A t \in {"vision", "speed", "metabolism", "reproduction_threshold", "swim",
                  "forage_efficiency"} : t \in DOMAIN Traits /\ Traits[t] \in Nat
    BY BodyAssumption
  <2>2. \A t \in {"vision", "speed", "metabolism", "reproduction_threshold", "swim",
                  "forage_efficiency"} : Traits[t] \in Word
    BY <1>1, <1>7, <2>1 DEF Frugal, WordsAreWide
  <2>3. Traits.vision \in Word /\ Traits.speed \in Word /\ Traits.metabolism \in Word
        /\ Traits.reproduction_threshold \in Word /\ Traits.swim \in Word
        /\ Traits.forage_efficiency \in Word
    BY <2>2
  <2>. QED  BY <1>7, <2>3 DEF TraitValue
<1>. QED  BY <1>2, <1>6, <1>7, <1>8, <1>9 DEF FoodGain, WaterGain

LEMMA PushingIsIntrinsic ==
  ASSUME TypeOK, NEW ops \in SUBSET Intrinsics, NEW words \in Seq(Word),
         Pushing(ops, words), Len(words) = Observations(Op)
  PROVE  Intrinsic
<1>1. stack \in Seq(Word) /\ Len(stack) \in Nat
  BY LenProperties DEF TypeOK, DataOK
<1>2. stack' = stack \o words
  BY DEF Pushing
<1>3. /\ stack' \in Seq(Word) /\ Len(stack') = Len(stack) + Observations(Op)
      /\ \A i \in 1 .. Len(stack) : stack'[i] = stack[i]
  <2>1. /\ stack \o words \in Seq(Word)
        /\ Len(stack \o words) = Len(stack) + Len(words)
        /\ \A i \in 1 .. Len(stack) + Len(words) :
             (stack \o words)[i] = IF i <= Len(stack) THEN stack[i] ELSE words[i - Len(stack)]
    BY <1>1, ConcatProperties
  <2>2. Len(words) \in Nat
    BY LenProperties
  <2>. QED  BY <1>1, <1>2, <2>1, <2>2
<1>4. SubSeq(stack', 1, Len(stack)) = stack
  <2>1. Len(stack) <= Len(stack')
    BY <1>1, <1>3, LenProperties
  <2>. QED  BY <1>1, <1>3, <2>1, LenProperties
<1>5. Step(Intrinsics)
  BY DEF Pushing, Step
<1>. QED  BY <1>3, <1>4, <1>5 DEF Pushing, Intrinsic

\* Bodies and words of the handlers.
Handler == Sense \/ MoveForward \/ Turn \/ Eat \/ Drink \/ Breed \/ CannotBreed

LEMMA HandlerIsIntrinsic ==
  ASSUME BrainsInv, phase = "running", Handler
  PROVE  Intrinsic /\ UNCHANGED entry
<1>1. TypeOK
  BY DEF BrainsInv, VmInv
<1>2. /\ \A w \in Word : <<w>> \in Seq(Word) /\ Len(<<w>>) = 1
      /\ << >> \in Seq(Word) /\ Len(<< >>) = 0
      /\ \A a, b, c, d \in Word : <<a, b, c, d>> \in Seq(Word) /\ Len(<<a, b, c, d>>) = 4
  OBVIOUS
<1>3. CASE Sense
  <2>1. body.pos \in Ground!Cells /\ Ahead(body) \in Ground!Cells
    <3>1. body \in Bodies /\ body.pos \in Ground!Cells /\ body.facing \in DOMAIN ToOffset
      BY DEF BrainsInv, AgentOK, Bodies
    <3>2. ToOffset[body.facing] \in Ground!Offsets
      BY <3>1 DEF ToOffset, Ground!Offsets
    <3>. QED  BY <3>1, <3>2, CellsFinite DEF Ahead
  <2>. DEFINE ops == {"PERCEIVE", "LOOK", "MY_ENERGY", "MY_HYDRATION", "MY_TRAIT"}
              words == CASE Op = "PERCEIVE"     -> Seen(body, body.pos)
                         [] Op = "LOOK"         -> Seen(body, Ahead(body))
                         [] Op = "MY_ENERGY"    -> <<body.energy>>
                         [] Op = "MY_HYDRATION" -> <<body.hydration>>
                         [] Op = "MY_TRAIT"     -> <<TraitValue(U8(1))>>
  <2>2. \A c \in Ground!Cells : Seen(body, c) \in Seq(Word) /\ Len(Seen(body, c)) = 4
    BY <1>2, PerceivesWords DEF Seen
  <2>3. Pushing(ops, words) /\ Op \in ops
    BY <1>3 DEF Sense, Pushing, Step
  <2>4. words \in Seq(Word) /\ Len(words) = Observations(Op)
    BY <1>2, <2>1, <2>2, <2>3, PerceivesWords DEF Observations
  <2>5. ops \in SUBSET Intrinsics
    BY DEF Intrinsics
  <2>. HIDE DEF words, ops
  <2>. QED  BY <1>1, <2>3, <2>4, <2>5, PushingIsIntrinsic DEF Pushing
<1>4. CASE MoveForward \/ Turn
  <2>1. PICK ops \in {{"MOVE"}, {"TURN_LEFT", "TURN_RIGHT"}} : Pushing(ops, << >>)
    BY <1>4 DEF MoveForward, Turn
  <2>2. ops \in SUBSET Intrinsics /\ Observations(Op) = 0
    BY <2>1 DEF Intrinsics, Pushing, Step, Observations
  <2>. QED  BY <1>1, <1>2, <2>1, <2>2, PushingIsIntrinsic DEF Pushing
<1>5. CASE Eat \/ Drink \/ Breed \/ CannotBreed
  <2>1. PICK ops \in {{"EAT"}, {"DRINK"}, {"REPRODUCE"}},
             w \in {FoodGain(body), WaterGain(body), 0, 1} : Pushing(ops, <<w>>)
    BY <1>5 DEF Eat, Drink, Breed, CannotBreed
  <2>2. ops \in SUBSET Intrinsics /\ Observations(Op) = 1
    BY <2>1 DEF Intrinsics, Pushing, Step, Observations
  <2>3. w \in Word
    BY <2>1, PerceivesWords
  <2>. QED  BY <1>1, <1>2, <2>1, <2>2, <2>3, PushingIsIntrinsic DEF Pushing
<1>. QED  BY <1>3, <1>4, <1>5 DEF Handler

\* What one intrinsic may cost, and what it cannot make.
Modest ==
  /\ AgentOK' /\ Wealth' <= Wealth
  /\ body'.energy >= body.energy - 2 \/ body'.energy >= 0
  /\ body.hydration >= 0 => body'.hydration >= 0
  /\ body'.hydration <= body.hydration \/ body'.hydration <= MaxReserve
  /\ \A c \in Ground!Cells : body'.food[c] <= body.food[c] /\ body'.water[c] <= body.water[c]
  /\ Len(children') >= Len(children)
  /\ agent_counts' = agent_counts

LEMMA StillModest ==
  ASSUME AgentOK, UNCHANGED bodyVars
  PROVE  Modest
<1>1. /\ body.energy \in Int /\ body.hydration \in Int /\ Len(children) \in Nat
      /\ \A c \in Ground!Cells : body.food[c] \in Nat /\ body.water[c] \in Nat
  BY LenProperties DEF AgentOK, Bodies
<1>2. body' = body /\ children' = children /\ agent_counts' = agent_counts
  BY DEF bodyVars
<1>. QED  BY <1>1, <1>2, WealthStays DEF Modest

LEMMA DoModest ==
  ASSUME AgentOK, NEW b \in Bodies, Do(b), Worth(b) <= Worth(body),
         b.energy >= body.energy - 2 \/ b.energy >= 0,
         body.hydration >= 0 => b.hydration >= 0,
         b.hydration <= body.hydration \/ b.hydration <= MaxReserve,
         \A c \in Ground!Cells : b.food[c] <= body.food[c] /\ b.water[c] <= body.water[c]
  PROVE  Modest
<1>1. Len(children) \in Nat /\ body' = b /\ children' = children /\ agent_counts' = agent_counts
  BY LenProperties DEF AgentOK, Do
<1>2. AgentOK' /\ Wealth' <= Wealth
  BY DoOK
<1>. QED  BY <1>1, <1>2 DEF Modest

LEMMA CappedIs ==
  ASSUME NEW n \in Int
  PROVE  /\ Capped(n) \in Int /\ Capped(n) <= n /\ Capped(n) <= MaxReserve
         /\ n >= 0 => Capped(n) >= 0
         /\ Capped(n) = n \/ Capped(n) >= 0
BY BodyAssumption DEF Capped

LEMMA HandlerModest ==
  ASSUME AgentOK, Handler
  PROVE  Modest
<1>1. /\ body \in Bodies /\ body.energy \in Int /\ body.hydration \in Int
      /\ body.facing \in DOMAIN ToOffset
      /\ FoodGain(body) \in Nat /\ WaterGain(body) \in Nat
      /\ \A c \in Ground!Cells : body.food[c] \in Nat /\ body.water[c] \in Nat
  BY GainsAreNat DEF AgentOK, Bodies
<1>2. CASE Sense \/ CannotBreed
  BY <1>2, StillModest DEF Sense, CannotBreed, bodyVars
<1>3. CASE MoveForward
  <2>. DEFINE b == Moved(body)
  <2>1. /\ b \in Bodies /\ b.energy \in body.energy - 2 .. body.energy
        /\ b.food = body.food /\ b.water = body.water /\ b.hydration = body.hydration
        /\ Worth(b) <= Worth(body)
    BY <1>1, MovedOK
  <2>2. Do(b)
    BY <1>3 DEF MoveForward
  <2>. HIDE DEF b
  <2>3. b.energy >= body.energy - 2
    BY <1>1, <2>1
  <2>. QED  BY <1>1, <2>1, <2>2, <2>3, DoModest
<1>4. CASE Turn
  <2>. DEFINE f == IF Op = "TURN_LEFT" THEN TurnLeft[body.facing] ELSE TurnRight[body.facing]
              b == [body EXCEPT !.facing = f]
  <2>1. f \in DOMAIN ToOffset
    BY <1>1 DEF ToOffset, TurnLeft, TurnRight
  <2>2. Do(b)
    BY <1>4 DEF Turn
  <2>. HIDE DEF f
  <2>3. /\ b \in Bodies /\ b.energy = body.energy /\ b.hydration = body.hydration
        /\ b.food = body.food /\ b.water = body.water /\ Worth(b) <= Worth(body)
    BY <1>1, <2>1, TurnedOK
  <2>. HIDE DEF b
  <2>. QED  BY <1>1, <2>2, <2>3, DoModest
<1>5. CASE Eat
  <2>. DEFINE b == Ate(body)
              e == Capped(body.energy + FoodGain(body))
              d == Fed(body, e)
  <2>1. CASE b = body
    <3>1. UNCHANGED bodyVars
      BY <1>5, <2>1 DEF Eat, Do, bodyVars
    <3>. QED  BY <3>1, StillModest
  <2>2. CASE b = d
    <3>1. e \in Int /\ e <= body.energy + FoodGain(body) /\ (e >= body.energy \/ e >= 0)
      BY <1>1, CappedIs
    <3>2. Do(d)
      BY <1>5, <2>2 DEF Eat
    <3>4. /\ d \in Bodies /\ d.energy = e /\ d.hydration = body.hydration
          /\ d.water = body.water
          /\ \A c \in Ground!Cells : d.food[c] <= body.food[c]
          /\ Worth(d) <= Worth(body)
      BY <1>1, <3>1, AteOK
    <3>. HIDE DEF d, e
    <3>. QED  BY <1>1, <3>1, <3>2, <3>4, DoModest
  <2>. QED  BY <2>1, <2>2 DEF Ate, Fed
<1>6. CASE Drink
  <2>. DEFINE b == Drank(body)
              h == Capped(body.hydration + WaterGain(body))
              d == Watered(body, h)
  <2>1. CASE b = body
    <3>1. UNCHANGED bodyVars
      BY <1>6, <2>1 DEF Drink, Do, bodyVars
    <3>. QED  BY <3>1, StillModest
  <2>2. CASE b = d
    <3>1. h \in Int /\ h <= MaxReserve /\ (body.hydration >= 0 => h >= 0)
      BY <1>1, CappedIs
    <3>2. Do(d)
      BY <1>6, <2>2 DEF Drink
    <3>4. /\ d \in Bodies /\ d.energy = body.energy /\ d.hydration = h
          /\ d.food = body.food
          /\ \A c \in Ground!Cells : d.water[c] <= body.water[c]
          /\ Worth(d) <= Worth(body)
      BY <1>1, <3>1, DrankOK
    <3>. HIDE DEF d, h
    <3>. QED  BY <1>1, <3>1, <3>2, <3>4, DoModest
  <2>. QED  BY <2>1, <2>2 DEF Drank, Watered
<1>7. CASE Breed
  <2>1. /\ AgentOK' /\ Wealth' <= Wealth
        /\ body'.energy >= 1 /\ Len(children') = Len(children) + 1
        /\ body' = [body EXCEPT !.energy = body'.energy]
        /\ body'.energy \in Int
    BY <1>7, ReproduceOK DEF Breed, AgentOK, Bodies
  <2>2. body'.hydration = body.hydration /\ body'.food = body.food /\ body'.water = body.water
    BY <1>1, <2>1 DEF Bodies
  <2>3. agent_counts' = agent_counts /\ Len(children) \in Nat
    BY <1>7, LenProperties DEF Breed, Reproduce, AgentOK
  <2>. QED  BY <1>1, <2>1, <2>2, <2>3 DEF Modest
<1>. QED  BY <1>2, <1>3, <1>4, <1>5, <1>6, <1>7 DEF Handler

-----------------------------------------------------------------------------
(* The invariant is kept *)

LEMMA FrugalKept ==
  ASSUME VmInv, AgentOK, Frugal, AgentOK', Wealth' <= Wealth,
         phase' = "running" => body'.energy >= 1 - 2 * acted' /\ body'.hydration >= 0,
         body'.hydration < HalfWord,
         \A c \in Ground!Cells : /\ body'.food[c] <= body.food[c]
                                 /\ body'.water[c] <= body.water[c]
                                 /\ agent_counts'[c] <= Len(children') + 1
  PROVE  Frugal'
<1>1. /\ Wealth \in Int /\ Wealth' \in Int /\ HalfWord \in Nat /\ Budget \in Nat
  <2>1. ASSUME NEW b \in Bodies, NEW kids \in Seq(Children)
        PROVE  b.energy + GivenAway(kids) + Traits.forage_efficiency * FoodLeft(b) \in Int
    <3>1. b.energy \in Int /\ GivenAway(kids) \in Nat
      BY GivenIsNat DEF Bodies
    <3>2. Traits.forage_efficiency * FoodLeft(b) \in Int
      BY BodyAssumption, FoodIsNat
    <3>. QED  BY <3>1, <3>2
  <2>. QED  BY <2>1, VmAssumption DEF AgentOK, Wealth
<1>2. WordsAreWide /\ Wealth + 2 * Budget < HalfWord
  BY DEF Frugal
<1>3. WordsAreWide'
  BY <1>2 DEF WordsAreWide
<1>4. Wealth' + 2 * Budget < HalfWord
  <2>. DEFINE v == Wealth
              w == Wealth'
  <2>1. v \in Int /\ w \in Int /\ w <= v /\ v + 2 * Budget < HalfWord
    BY <1>1, <1>2
  <2>. HIDE DEF v, w
  <2>2. w + 2 * Budget < HalfWord
    BY <1>1, <2>1, VmAssumption
  <2>. QED  BY <2>2 DEF w
<1>5. ASSUME NEW c \in Ground!Cells
      PROVE  /\ body'.food[c] * Traits.forage_efficiency < HalfWord
             /\ body'.water[c] * Traits.forage_efficiency < HalfWord
  <2>1. /\ body.food[c] \in Nat /\ body'.food[c] \in Nat /\ body'.food[c] <= body.food[c]
        /\ body.water[c] \in Nat /\ body'.water[c] \in Nat /\ body'.water[c] <= body.water[c]
        /\ Traits.forage_efficiency \in Nat
    BY BodyAssumption DEF AgentOK, Bodies
  <2>2. /\ body.food[c] * Traits.forage_efficiency < HalfWord
        /\ body.water[c] * Traits.forage_efficiency < HalfWord
    BY DEF Frugal
  <2>3. /\ body'.food[c] * Traits.forage_efficiency \in Nat
        /\ body.food[c] * Traits.forage_efficiency \in Nat
        /\ body'.food[c] * Traits.forage_efficiency <= body.food[c] * Traits.forage_efficiency
    BY <2>1, ProductOfNats
  <2>4. /\ body'.water[c] * Traits.forage_efficiency \in Nat
        /\ body.water[c] * Traits.forage_efficiency \in Nat
        /\ body'.water[c] * Traits.forage_efficiency <= body.water[c] * Traits.forage_efficiency
    BY <2>1, ProductOfNats
  <2>. QED  BY <1>1, <2>2, <2>3, <2>4
<1>. QED  BY <1>3, <1>4, <1>5 DEF Frugal

\* A machine at work leaves the agent alone, or acts on it by a handler.
LEMMA RunIs ==
  ASSUME AgentRun
  PROVE  /\ phase = "running" /\ UNCHANGED entry
         /\ \/ Run /\ UNCHANGED bodyVars /\ (phase' = "idle" \/ acted' = acted)
            \/ Handler /\ acted' = acted + 1
<1>1. CASE (Exhaust \/ Halt \/ Fail \/ Trap \/ Overrun) /\ Inward
  BY <1>1 DEF Exhaust, Halt, Fail, Trap, Overrun, Affordable, EndTick, Inward, Run
<1>2. CASE (Compute \/ Load \/ Store \/ Jump \/ JumpIfFalse \/ Call \/ Return) /\ Inward
  BY <1>2 DEF Compute, Load, Store, Jump, JumpIfFalse, Call, Return, Step, Affordable,
              Inward, Run
<1>3. CASE Handler
  BY <1>3 DEF Handler, Sense, MoveForward, Turn, Eat, Drink, Breed, CannotBreed, Pushing,
              Step, Affordable
<1>. QED  BY <1>1, <1>2, <1>3 DEF AgentRun, Handler

LEMMA BytecodeRunInv ==
  ASSUME BrainsInv, BytecodeRun
  PROVE  Next /\ BrainsInv' /\ Wealth' <= Wealth
<1>1. /\ VmInv /\ AgentOK /\ TrialInv /\ Frugal /\ phase = "running" /\ brain = "bytecode"
  BY RunIs DEF BrainsInv, BytecodeRun
<1>2. brain' = "bytecode" /\ TrialInv'
  BY <1>1 DEF BytecodeRun, learningVars, TrialInv
<1>3. Run /\ Modest /\ (phase' = "idle" \/ (acted' = acted /\ UNCHANGED bodyVars) \/ acted' = acted + 1)
  <2>1. CASE Run /\ UNCHANGED bodyVars /\ (phase' = "idle" \/ acted' = acted)
    BY <1>1, <2>1, StillModest
  <2>2. CASE Handler /\ acted' = acted + 1
    BY <1>1, <2>2, HandlerModest, HandlerIsIntrinsic DEF Run
  <2>. QED  BY <2>1, <2>2, RunIs DEF BytecodeRun
<1>4. Next /\ VmInv'
  BY <1>1, <1>3, NextInv DEF Next
<1>5. /\ body.energy \in Int /\ body'.energy \in Int /\ body.hydration \in Int
      /\ body'.hydration \in Int /\ acted \in Nat /\ HalfWord \in Nat /\ MaxReserve \in Nat
      /\ Len(children) \in Nat /\ Len(children') \in Nat
      /\ \A c \in Ground!Cells : agent_counts[c] \in Nat
  <2>1. AgentOK /\ AgentOK'
    BY <1>1, <1>3 DEF Modest
  <2>. QED  BY <2>1, <1>1, ActsAreBounded, VmAssumption, BodyAssumption, LenProperties
            DEF AgentOK, Bodies
<1>6. /\ body.energy >= 1 - 2 * acted /\ body.hydration >= 0 /\ body.hydration < HalfWord
      /\ MaxReserve < HalfWord
      /\ \A c \in Ground!Cells : agent_counts[c] <= Len(children) + 1
  BY <1>1 DEF Frugal, WordsAreWide
<1>7. phase' = "running" => body'.energy >= 1 - 2 * acted' /\ body'.hydration >= 0
  BY <1>3, <1>5, <1>6 DEF Modest, bodyVars
<1>8. body'.hydration < HalfWord
  BY <1>3, <1>5, <1>6 DEF Modest
<1>9. \A c \in Ground!Cells : agent_counts'[c] <= Len(children') + 1
  BY <1>3, <1>5, <1>6 DEF Modest
<1>10. Frugal'
  BY <1>1, <1>3, <1>7, <1>8, <1>9, FrugalKept DEF Modest
<1>. QED  BY <1>2, <1>3, <1>4, <1>10 DEF BrainsInv, Modest

\* While no program runs, an agent without a bot is not the machine's.
LEMMA BytecodeTickInv ==
  ASSUME BrainsInv, BytecodeTick
  PROVE  Next /\ BrainsInv' /\ Wealth' <= Wealth
<1>1. /\ VmInv /\ AgentOK /\ TrialInv /\ Frugal /\ brain = "bytecode" /\ phase = "idle"
      /\ body.energy > 0 /\ body.hydration > 0
  BY DEF BrainsInv, BytecodeTick, MayTick, Alive
<1>2. UNCHANGED bodyVars /\ (BeginTick \/ BeginTickRemoved)
  BY DEF BytecodeTick, AgentBeginTick, AgentSkipped, Enter
<1>3. Next /\ VmInv'
  BY <1>1, <1>2, NextInv DEF Next
<1>4. brain' = "bytecode" /\ TrialInv'
  BY <1>1 DEF BytecodeTick, learningVars, TrialInv
<1>5. AgentOK' /\ Wealth' <= Wealth
  BY <1>1, <1>2, WealthStays
<1>6. phase' = "running" => acted' = 0
  BY <1>1, <1>2 DEF BeginTick, BeginTickRemoved
<1>7. /\ body' = body /\ children' = children /\ agent_counts' = agent_counts
      /\ body.energy \in Int /\ body.hydration \in Int
      /\ \A c \in Ground!Cells : body.food[c] \in Nat /\ body.water[c] \in Nat
  BY <1>1, <1>2 DEF bodyVars, AgentOK, Bodies
<1>8. Frugal'
  <2>1. /\ body.hydration < HalfWord
        /\ \A c \in Ground!Cells : agent_counts[c] <= Len(children) + 1
    BY <1>1 DEF Frugal
  <2>2. phase' = "running" => body'.energy >= 1 - 2 * acted' /\ body'.hydration >= 0
    BY <1>1, <1>6, <1>7
  <2>3. \A c \in Ground!Cells : body'.food[c] <= body.food[c] /\ body'.water[c] <= body.water[c]
    BY <1>7
  <2>. QED  BY <1>1, <1>5, <1>7, <2>1, <2>2, <2>3, FrugalKept
<1>. QED  BY <1>3, <1>4, <1>5, <1>8 DEF BrainsInv

LEMMA DrainInv ==
  ASSUME BrainsInv, Drain
  PROVE  UNCHANGED vars /\ BrainsInv' /\ Wealth' <= Wealth
<1>1. VmInv /\ AgentOK /\ TrialInv /\ phase = "idle" /\ Upkeep
  BY DEF BrainsInv, Drain
<1>2. /\ UNCHANGED vars /\ brain' = brain /\ UNCHANGED learningVars
      /\ phase' = "idle" /\ VmInv'
  <2>1. UNCHANGED vars /\ brain' = brain /\ UNCHANGED learningVars
    BY DEF Drain
  <2>. QED  BY <1>1, <2>1, NextInv DEF vars
<1>3. TrialInv'
  BY <1>1, <1>2 DEF learningVars, TrialInv
<1>4. /\ AgentOK' /\ Wealth' <= Wealth
      /\ \A c \in Ground!Cells : agent_counts'[c] <= Len(children) + 1
      /\ body' = [body EXCEPT !.energy = body'.energy, !.hydration = body.hydration - 1]
      /\ children' = children
  BY <1>1, UpkeepOK DEF Upkeep
<1>5. /\ body'.hydration = body.hydration - 1 /\ body.hydration \in Int
      /\ body'.food = body.food /\ body'.water = body.water
      /\ \A c \in Ground!Cells : body.food[c] \in Nat /\ body.water[c] \in Nat
  BY <1>1, <1>4 DEF AgentOK, Bodies
<1>6. ASSUME brain = "bytecode" PROVE Frugal'
  <2>1. Frugal
    BY <1>6 DEF BrainsInv
  <2>2. body'.hydration < HalfWord
    <3>1. body.hydration < HalfWord /\ HalfWord \in Nat
      BY <2>1, VmAssumption DEF Frugal
    <3>. QED  BY <1>5, <3>1
  <2>3. \A c \in Ground!Cells : /\ body'.food[c] <= body.food[c]
                                /\ body'.water[c] <= body.water[c]
                                /\ agent_counts'[c] <= Len(children') + 1
    BY <1>4, <1>5
  <2>. QED  BY <1>1, <1>2, <1>4, <2>1, <2>2, <2>3, FrugalKept
<1>. QED  BY <1>2, <1>3, <1>4, <1>6 DEF BrainsInv

\* A network moves the agent and no machine.
LEMMA NetworkTickInv ==
  ASSUME BrainsInv, MlTick \/ LearningTick
  PROVE  UNCHANGED vars /\ BrainsInv' /\ Wealth' <= Wealth
<1>1. VmInv /\ AgentOK /\ TrialInv /\ phase = "idle" /\ brain # "bytecode"
  BY DEF BrainsInv, MlTick, LearningTick, MayTick
<1>2. UNCHANGED vars /\ brain' = brain /\ \E action : ExecuteAction(action)
  BY DEF MlTick, LearningTick
<1>3. AgentOK' /\ Wealth' <= Wealth
  BY <1>1, <1>2, ExecuteActionOK
<1>4. VmInv' /\ phase' = "idle"
  BY <1>1, <1>2, NextInv DEF vars
<1>5. TrialInv'
  <2>1. CASE MlTick
    BY <1>1, <2>1 DEF MlTick, learningVars, TrialInv
  <2>2. CASE LearningTick
    BY <1>1, <2>2, TrialGoesOn DEF LearningTick, AgentOK, Bodies
  <2>. QED  BY <2>1, <2>2
<1>. QED  BY <1>1, <1>2, <1>3, <1>4, <1>5 DEF BrainsInv

LEMMA BrainsInitInv == BrainsInit => BrainsInv
<1>. SUFFICES ASSUME BrainsInit PROVE BrainsInv
  OBVIOUS
<1>1. PICK b \in Outset[brain] : AgentInit(b)
  BY DEF BrainsInit
<1>2. b \in Bodies /\ (brain = "bytecode" => FitsWords(b)) /\ body = b /\ children = << >> /\ Init
  BY <1>1, BrainsAssumption DEF BrainsInit, AgentInit
<1>3. VmInv /\ TrialInv /\ phase = "idle"
  BY <1>2, InitInv, LearningAssumption DEF BrainsInit, LearningInit, TrialInv, Init
<1>4. children \in Seq(Children) /\ Len(children) = 0 /\ DOMAIN children = {}
  BY <1>2
<1>5. \A c \in Ground!Cells : agent_counts[c] \in 0 .. 1
  <2>1. CASE agent_counts = [c \in Ground!Cells |-> 0]
    BY <2>1
  <2>2. CASE agent_counts = Counts(body)
    <3>1. ASSUME NEW c \in Ground!Cells PROVE Counts(body)[c] \in 0 .. 1
      <4>1. {i \in DOMAIN children : children[i].pos = c} = {}
        BY <1>4
      <4>2. Cardinality({i \in DOMAIN children : children[i].pos = c}) = 0
        BY <4>1, FS_EmptySet
      <4>. QED  BY <4>2 DEF Counts
    <3>. QED  BY <2>2, <3>1
  <2>. QED  BY <1>1, <2>1, <2>2 DEF AgentInit
<1>6. agent_counts \in [Ground!Cells -> Nat]
  <2>1. agent_counts = [c \in Ground!Cells |-> agent_counts[c]]
    BY <1>1 DEF AgentInit, Counts
  <2>. QED  BY <1>5, <2>1
<1>7. AgentOK
  BY <1>2, <1>4, <1>6 DEF AgentOK
<1>8. ASSUME brain = "bytecode" PROVE Frugal
  <2>1. FitsWords(body)
    BY <1>2, <1>8
  <2>2. GivenAway(children) = 0
    <3>1. IsFiniteSet({}) /\ Cardinality({}) = 0 /\ DOMAIN Shares(children) = {}
      BY <1>4, FS_EmptySet DEF Shares
    <3>2. IsSum(SumFcn(Shares(children), {}), Shares(children), {})
      BY <3>1, SumIsSum
    <3>3. SumOver(Shares(children), {}) = 0
      BY <3>2 DEF IsSum, SumOver
    <3>. QED  BY <1>4, <3>3, GivenIsSum
  <2>3. Wealth = body.energy + Traits.forage_efficiency * FoodLeft(body)
    <3>1. body.energy \in Int /\ Traits.forage_efficiency * FoodLeft(body) \in Int
      BY <1>2, BodyAssumption, FoodIsNat DEF Bodies
    <3>. QED  BY <2>2, <3>1 DEF Wealth
  <2>4. WordsAreWide
    BY <2>1 DEF FitsWords, WordsAreWide
  <2>. QED  BY <1>3, <1>4, <1>5, <2>1, <2>3, <2>4 DEF Frugal, FitsWords
<1>. QED  BY <1>3, <1>7, <1>8 DEF BrainsInv

LEMMA BrainsNextInv ==
  ASSUME BrainsInv, [BrainsNext]_allVars
  PROVE  BrainsInv' /\ [Next]_vars /\ [Wealth' <= Wealth]_<<body, children>>
<1>1. CASE UNCHANGED allVars
  <2>1. UNCHANGED vars /\ UNCHANGED bodyVars /\ UNCHANGED learningVars /\ brain' = brain
    BY <1>1 DEF allVars, agentVars
  <2>2. VmInv'
    BY <2>1, NextInv DEF BrainsInv
  <2>3. /\ body' = body /\ children' = children /\ agent_counts' = agent_counts
        /\ phase' = phase /\ acted' = acted
    BY <2>1 DEF bodyVars, vars
  <2>4. AgentOK' /\ TrialInv' /\ (Frugal => Frugal')
    BY <2>1, <2>3 DEF BrainsInv, AgentOK, TrialInv, learningVars, Frugal, WordsAreWide, Wealth
  <2>. QED  BY <2>1, <2>2, <2>3, <2>4 DEF BrainsInv
<1>2. CASE BrainsNext
  BY <1>2, BytecodeTickInv, BytecodeRunInv, NetworkTickInv, DrainInv DEF BrainsNext
<1>. QED  BY <1>1, <1>2

-----------------------------------------------------------------------------
(* Theorems about agents *)

\* The invariants hold together.
THEOREM AgentAlwaysInv == BrainsSpec => []BrainsInv
BY BrainsInitInv, BrainsNextInv, PTL DEF BrainsSpec

\* agent_vm.cpp: what the handlers push is what vm.cpp expects of an
\* intrinsic, so that an agent's machine does what Vm allows.
THEOREM AgentsImplementVm == BrainsSpec => ImplementsVm
<1>1. BrainsInit => Init
  BY DEF BrainsInit, AgentInit
<1>2. BrainsInv /\ [BrainsNext]_allVars => [Next]_vars
  BY BrainsNextInv
<1>. QED  BY <1>1, <1>2, AgentAlwaysInv, PTL DEF BrainsSpec, ImplementsVm, Spec

\* Hence a bot, whatever it does to its agent, stays within the arrays, and its
\* budget bounds what it does.
COROLLARY BotsStayInBounds == BrainsSpec => [](TypeOK /\ BudgetBoundsActions)
BY AgentsImplementVm, AlwaysInv, PTL DEF VmInv, ImplementsVm

\* agent_vm.cpp: a certified bot is run as its certificate says by the handlers
\* of an agent in its world, too.
COROLLARY CertifiedBotsRunClean ==
  ASSUME NEW c
  PROVE  BrainsSpec => []CertifiedRunsAs(c)
BY AgentsImplementVm, CertifiedProgramsRunClean, PTL DEF ImplementsVm

\* agent_vm.cpp, brain_ml.cpp: whatever the brain, energy comes from food only.
THEOREM EnergyIsNeverMade == BrainsSpec => EnergyIsNotMade
<1>1. BrainsInv /\ [BrainsNext]_allVars => [Wealth' <= Wealth]_<<body, children>>
  BY BrainsNextInv
<1>. QED  BY <1>1, AgentAlwaysInv, PTL DEF BrainsSpec, EnergyIsNotMade

\* brain_learning.cpp, at work in an agent whose energy it moves itself.
THEOREM AgentsLearnWhatTheyTried ==
  ASSUME Interval # 2
  PROVE  BrainsSpec => LearnsWhatItTried
<1>1. BrainsInv /\ [BrainsNext]_allVars =>
        [net' # net => /\ net' = acting /\ tried = Interval - 2
                       /\ prevEnergy' > prevEnergy]_learningVars
  <2>. SUFFICES ASSUME BrainsInv, [BrainsNext]_allVars
                PROVE  [net' # net => /\ net' = acting /\ tried = Interval - 2
                                      /\ prevEnergy' > prevEnergy]_learningVars
    OBVIOUS
  <2>1. CASE LearningTick
    BY <2>1, TrialGoesOn DEF LearningTick, BrainsInv, AgentOK, Bodies
  <2>2. CASE ~LearningTick
    <3>1. UNCHANGED learningVars
      BY <2>2 DEF BrainsNext, BytecodeTick, BytecodeRun, MlTick, Drain, allVars
    <3>. QED  BY <3>1
  <2>. QED  BY <2>1, <2>2
<1>. QED  BY <1>1, AgentAlwaysInv, PTL DEF BrainsSpec, LearnsWhatItTried
=============================================================================
