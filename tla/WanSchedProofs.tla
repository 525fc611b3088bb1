--------------------------- MODULE WanSchedProofs ---------------------------
(***************************************************************************)
(* Proofs about the choice of a WAN, for every number of WANs and any      *)
(* weights: the scheduler first, then the flow table that picks from its   *)
(* pools.                                                                  *)
(*                                                                         *)
(* A sender that puts a datagram into a closed slot's ring had chosen the  *)
(* slot before it closed: on its way from the pool to the ring each step   *)
(* has asked some of the slot's flags, so who is already remembered to be  *)
(* late there is not on its way there any more.  That gives LateOnce, and  *)
(* Stranded by counting, for a sender adds at most one before the slot is  *)
(* stopped and at most one after it.                                       *)
(*                                                                         *)
(* Conserved is about the weights the scheduler computes, and they are     *)
(* right where the slots are: the inductive invariant says that slots and  *)
(* WANs name each other one to one, through reloads that attach WANs and   *)
(* reloads that fail half way.  From there it is arithmetic on sums, and   *)
(* the sums of the community modules are what these lemmas are about.      *)
(*                                                                         *)
(* In the flow table a counter is what a WAN was due less what it was      *)
(* given.  The counters sum to zero before a pick, so the winner's is      *)
(* above zero once the weights are added: it has picks left in its round,  *)
(* and paying for one leaves it owing less than a round.                   *)
(***************************************************************************)
EXTENDS WanSched, FlowTable, Integers, FiniteSets, FiniteSetsExt, FiniteSetTheorems, Functions,
        WellFoundedInduction, TLAPS

(***************************************************************************)
(* Finite sets of numbers, induction over the subsets of a finite set, sums.*)
(***************************************************************************)

(* A set of natural numbers has a least element, which Min returns.        *)
LEMMA LeastNat ==
  ASSUME NEW T, T \subseteq Nat, T # {}
  PROVE  \E m \in T : \A k \in T : m <= k
<1> DEFINE R == OpToRel(<, Nat)
<1>1. IsWellFoundedOn(R, Nat) /\ R = {s \in Nat \X Nat : s[1] < s[2]}
  BY NatLessThanWellFounded, Zenon DEF OpToRel
<1> HIDE DEF R
<1>2. PICK m \in T : \A k \in T : <<k, m>> \notin R
  BY <1>1, WFMin
<1>3. \A k \in T : ~(k < m)
  BY <1>1, <1>2
<1> QED
  BY <1>2, <1>3

LEMMA MinIsLeast ==
  ASSUME NEW T, T \subseteq Nat, T # {}
  PROVE  Min(T) \in T /\ \A y \in T : Min(T) <= y
BY LeastNat DEF Min

(* Induction over the natural numbers, for a set.                          *)
LEMMA NatSteps ==
  ASSUME NEW P, 0 \in P, \A n \in Nat : n \in P => n + 1 \in P
  PROVE  \A n \in Nat : n \in P
<1> SUFFICES ASSUME NEW n \in Nat, n \notin P
             PROVE  FALSE
  OBVIOUS
<1>1. PICK m \in Nat \ P : \A k \in Nat \ P : m <= k
  BY LeastNat, Nat \ P # {}, Nat \ P \subseteq Nat
<1>2. m - 1 \in Nat /\ m - 1 \in P
  BY <1>1
<1> QED
  BY <1>1, <1>2

(* Below each but the first of k numbers there is one number more.         *)
LEMMA Ranked ==
  ASSUME NEW T, T \subseteq Int, IsFiniteSet(T), NEW k \in 0..(Cardinality(T) - 1)
  PROVE  \E w \in T : Cardinality({v \in T : v < w}) = k
<1> DEFINE Below(w) == {v \in T : v < w}
           n == Cardinality(T)
           f == [w \in T |-> Cardinality(Below(w))]
<1>1. n \in Nat
  BY FS_CardinalityType
<1>2. \A w \in T : IsFiniteSet(Below(w)) /\ Cardinality(Below(w)) \in 0..(n - 1)
  <2>1. SUFFICES ASSUME NEW w \in T
                 PROVE  IsFiniteSet(Below(w)) /\ Cardinality(Below(w)) \in 0..(n - 1)
    OBVIOUS
  <2>2. Below(w) \in SUBSET T
    OBVIOUS
  <2>3. /\ IsFiniteSet(Below(w)) /\ Cardinality(Below(w)) <= n
        /\ n = Cardinality(Below(w)) => T = Below(w)
    BY <2>2, FS_Subset
  <2>4. T # Below(w)
    OBVIOUS
  <2>5. Cardinality(Below(w)) \in Nat
    BY <2>3, FS_CardinalityType
  <2> HIDE DEF Below, n
  <2> QED
    BY <2>3, <2>4, <2>5, <1>1
<1>3. \A v, w \in T : v < w => Cardinality(Below(v)) < Cardinality(Below(w))
  <2>1. SUFFICES ASSUME NEW v \in T, NEW w \in T, v < w
                 PROVE  Cardinality(Below(v)) < Cardinality(Below(w))
    OBVIOUS
  <2>2. Below(v) \in SUBSET Below(w)
    <3>1. v \in Int /\ w \in Int /\ \A u \in T : u \in Int
      OBVIOUS
    <3>2. \A u \in T : u < v => u < w
      BY <2>1, <3>1
    <3> QED
      BY <3>2
  <2>3. v \in Below(w) /\ v \notin Below(v)
    BY <2>1
  <2>4. IsFiniteSet(Below(w))
    BY <1>2
  <2>5. /\ Cardinality(Below(v)) <= Cardinality(Below(w))
        /\ Cardinality(Below(w)) = Cardinality(Below(v)) => Below(w) = Below(v)
    BY <2>2, <2>4, FS_Subset
  <2>6. Cardinality(Below(v)) \in Int /\ Cardinality(Below(w)) \in Int
    BY <1>2
  <2> HIDE DEF Below
  <2> QED
    BY <2>3, <2>5, <2>6
<1>4. f \in Injection(T, 0..(n - 1))
  <2>1. f \in [T -> 0..(n - 1)]
    BY <1>2
  <2>2. ASSUME NEW v \in T, NEW w \in T, f[v] = f[w]
        PROVE  v = w
    <3>1. Cardinality(Below(v)) = Cardinality(Below(w))
      BY <2>2
    <3>2. Cardinality(Below(v)) \in Int /\ Cardinality(Below(w)) \in Int
      BY <1>2
    <3> HIDE DEF Below, f
    <3>3. ~(v < w) /\ ~(w < v)
      BY <1>3, <3>1, <3>2
    <3> QED
      BY <3>3
  <2> HIDE DEF f
  <2> QED
    BY <2>1, <2>2 DEF Injection, IsInjective
<1>5. IsFiniteSet(0..(n - 1)) /\ Cardinality(0..(n - 1)) = n
  <2> HIDE DEF n
  <2> QED
    BY <1>1, FS_Interval
<1>6. f \in Surjection(T, 0..(n - 1))
  <2> HIDE DEF f
  <2> QED
    BY <1>4, <1>5, FS_Injection
<1>7. PICK w \in T : f[w] = k
  BY <1>6 DEF Surjection
<1> QED
  BY <1>7

(* A function takes finitely many values on a finite set.                  *)
LEMMA FiniteValues ==
  ASSUME NEW S, IsFiniteSet(S), NEW f
  PROVE  IsFiniteSet({f[x] : x \in S})
<1> DEFINE T == {f[x] : x \in S}
           g == [x \in S |-> f[x]]
<1>1. g \in Surjection(S, T)
  BY DEF Surjection
<1>2. IsFiniteSet(T)
  <2> HIDE DEF g, T
  <2> QED
    BY <1>1, FS_Surjection
<1> QED
  BY <1>2

(* Induction over the subsets of a finite set, for a set of sets.          *)
LEMMA SubsetSteps ==
  ASSUME NEW S, IsFiniteSet(S), NEW F, {} \in F,
         \A s \in SUBSET S : s # {} /\ (\A x \in s : s \ {x} \in F) => s \in F
  PROVE  \A s \in SUBSET S : s \in F
<1> DEFINE P == {n \in Nat : \A s \in SUBSET S : Cardinality(s) <= n => s \in F}
<1>1. \A s \in SUBSET S : IsFiniteSet(s) /\ Cardinality(s) \in Nat
  BY FS_Subset, FS_CardinalityType
<1>2. 0 \in P
  <2>1. \A s \in SUBSET S : Cardinality(s) <= 0 => s = {}
    BY <1>1, FS_EmptySet
  <2> QED
    BY <2>1
<1>3. ASSUME NEW n \in Nat, n \in P
      PROVE  n + 1 \in P
  <2> SUFFICES ASSUME NEW s \in SUBSET S, Cardinality(s) <= n + 1
               PROVE  s \in F
    OBVIOUS
  <2>1. \A x \in s : s \ {x} \in F
    <3> SUFFICES ASSUME NEW x \in s
                 PROVE  s \ {x} \in F
      OBVIOUS
    <3>1. Cardinality(s \ {x}) = Cardinality(s) - 1
      BY <1>1, FS_RemoveElement
    <3>2. Cardinality(s \ {x}) <= n
      BY <3>1, <1>1
    <3> QED
      BY <3>2, <1>3
  <2> QED
    BY <2>1
<1>4. \A n \in Nat : n \in P
  <2> HIDE DEF P
  <2> QED
    BY <1>2, <1>3, NatSteps
<1> QED
  BY <1>1, <1>4

(* A function on the subsets of a finite set can be defined by recursion   *)
(* on one element of each, c[s]: b for the empty set, op for the others.   *)
WellDefined(S, V, b, op, c) ==
  /\ IsFiniteSet(S) /\ b \in V /\ op \in [S \X V -> V]
  /\ \A s \in SUBSET S : s # {} => c[s] \in s

Solves(g, S, b, op, c) ==
  \A s \in SUBSET S : g[s] = IF s = {} THEN b ELSE op[<<c[s], g[s \ {c[s]}]>>]

LEMMA SubsetRecursion ==
  ASSUME NEW S, NEW V, NEW b, NEW op, NEW c, WellDefined(S, V, b, op, c)
  PROVE  \E g \in [SUBSET S -> V] : Solves(g, S, b, op, c)
<1> USE DEF WellDefined
<1> DEFINE L(n) == {s \in SUBSET S : Cardinality(s) <= n}
           Rec(g, n) == \A s \in L(n) :
             g[s] = IF s = {} THEN b ELSE op[<<c[s], g[s \ {c[s]}]>>]
           P == {n \in Nat : \E g \in [L(n) -> V] : Rec(g, n)}
<1>1. \A s \in SUBSET S : IsFiniteSet(s) /\ Cardinality(s) \in Nat
  BY FS_Subset, FS_CardinalityType
<1>2. 0 \in P
  <2>1. \A s \in SUBSET S : Cardinality(s) <= 0 => s = {}
    BY <1>1, FS_EmptySet
  <2>2. [s \in L(0) |-> b] \in [L(0) -> V] /\ Rec([s \in L(0) |-> b], 0)
    BY <2>1
  <2> QED
    BY <2>2
<1>3. ASSUME NEW n \in Nat, n \in P
      PROVE  n + 1 \in P
  <2>1. PICK g \in [L(n) -> V] : Rec(g, n)
    BY <1>3
  <2> DEFINE h == [s \in L(n + 1) |-> IF s = {} THEN b ELSE op[<<c[s], g[s \ {c[s]}]>>]]
  <2>2. \A s \in L(n + 1) : s # {} => c[s] \in S /\ s \ {c[s]} \in L(n)
    <3> SUFFICES ASSUME NEW s \in L(n + 1), s # {}
                 PROVE  c[s] \in S /\ s \ {c[s]} \in L(n)
      OBVIOUS
    <3>1. c[s] \in s
      OBVIOUS
    <3>2. Cardinality(s \ {c[s]}) = Cardinality(s) - 1
      BY <1>1, <3>1, FS_RemoveElement
    <3> QED
      BY <3>1, <3>2, <1>1
  <2>3. h \in [L(n + 1) -> V]
    BY <2>2
  <2>4. \A s \in L(n) : s \in L(n + 1) /\ h[s] = g[s]
    <3>1. \A s \in L(n) : s \in L(n + 1)
      BY <1>1
    <3> QED
      BY <2>1, <3>1
  <2>5. Rec(h, n + 1)
    <3> HIDE DEF L
    <3> QED
      BY <2>2, <2>4
  <2>6. \E k \in [L(n + 1) -> V] : Rec(k, n + 1)
    <3> HIDE DEF h, L, Rec
    <3> QED
      BY <2>3, <2>5
  <2>7. n + 1 \in Nat
    OBVIOUS
  <2> HIDE DEF L, Rec
  <2> QED
    BY <2>6, <2>7
<1>4. \A n \in Nat : n \in P
  <2> HIDE DEF P
  <2> QED
    BY <1>2, <1>3, NatSteps
<1>5. Cardinality(S) \in Nat /\ L(Cardinality(S)) = SUBSET S
  BY FS_Subset, FS_CardinalityType
<1>6. Cardinality(S) \in P
  BY <1>4, <1>5
<1> QED
  BY <1>5, <1>6 DEF Solves

-----------------------------------------------------------------------------
(* Sums.                                                                   *)

AnyOf(s) == CHOOSE x \in s : TRUE

(* g adds up f over the subsets of S, one picked element after another.    *)
Adds(g, f, S) ==
  \A s \in SUBSET S : g[s] = IF s = {} THEN 0 ELSE f[AnyOf(s)] + g[s \ {AnyOf(s)}]

(* There is such a function, and it does not depend on what is picked.     *)
LEMMA SumExists ==
  ASSUME NEW S, IsFiniteSet(S), NEW f, \A x \in S : f[x] \in Int
  PROVE  \E g \in [SUBSET S -> Int] : Adds(g, f, S)
<1> DEFINE op == [p \in S \X Int |-> f[p[1]] + p[2]]
           c == [s \in SUBSET S |-> AnyOf(s)]
<1>1. op \in [S \X Int -> Int]
  OBVIOUS
<1>2. \A s \in SUBSET S : c[s] = AnyOf(s) /\ (s # {} => c[s] \in s)
  BY DEF AnyOf
<1>3. \A x \in S : \A n \in Int : op[<<x, n>>] = f[x] + n
  OBVIOUS
<1> HIDE DEF op, c
<1>4. PICK g \in [SUBSET S -> Int] : Solves(g, S, 0, op, c)
  <2>1. WellDefined(S, Int, 0, op, c)
    BY <1>1, <1>2 DEF WellDefined
  <2> QED
    BY <2>1, SubsetRecursion
<1>5. Adds(g, f, S)
  <2> SUFFICES ASSUME NEW s \in SUBSET S, s # {}
               PROVE  g[s] = f[AnyOf(s)] + g[s \ {AnyOf(s)}]
    BY <1>4 DEF Adds, Solves
  <2>1. AnyOf(s) \in S /\ g[s \ {AnyOf(s)}] \in Int
    BY <1>2
  <2>2. g[s] = op[<<AnyOf(s), g[s \ {AnyOf(s)}]>>]
    BY <1>2, <1>4 DEF Solves
  <2> QED
    BY <1>3, <2>1, <2>2
<1> QED
  BY <1>4, <1>5

LEMMA SumUnique ==
  ASSUME NEW S, IsFiniteSet(S), NEW f, NEW e, \A x \in S : f[x] = e[x],
         NEW g, Adds(g, f, S), NEW h, Adds(h, e, S)
  PROVE  \A s \in SUBSET S : g[s] = h[s]
<1> DEFINE F == {s \in SUBSET S : g[s] = h[s]}
<1>1. {} \in F
  BY DEF Adds
<1>2. ASSUME NEW s \in SUBSET S, s # {}, \A x \in s : s \ {x} \in F
      PROVE  s \in F
  <2>1. AnyOf(s) \in s
    BY <1>2 DEF AnyOf
  <2>2. g[s \ {AnyOf(s)}] = h[s \ {AnyOf(s)}] /\ f[AnyOf(s)] = e[AnyOf(s)]
    BY <1>2, <2>1
  <2> QED
    BY <1>2, <2>2 DEF Adds
<1> HIDE DEF F
<1>3. \A s \in SUBSET S : s \in F
  BY <1>1, <1>2, SubsetSteps
<1> QED
  BY <1>3 DEF F

AddsAny(g, f, S) ==
  \A s \in SUBSET S : \A x \in s : g[s] = f[x] + g[s \ {x}]

LEMMA SumAnyPick ==
  ASSUME NEW S, IsFiniteSet(S), NEW f, \A x \in S : f[x] \in Int,
         NEW g \in [SUBSET S -> Int], Adds(g, f, S)
  PROVE  AddsAny(g, f, S)
<1> DEFINE F == {s \in SUBSET S : \A x \in s : g[s] = f[x] + g[s \ {x}]}
<1>1. {} \in F
  OBVIOUS
<1>2. ASSUME NEW s \in SUBSET S, s # {}, \A x \in s : s \ {x} \in F
      PROVE  s \in F
  <2> SUFFICES ASSUME NEW x \in s
               PROVE  g[s] = f[x] + g[s \ {x}]
    OBVIOUS
  <2>1. PICK p \in s : g[s] = f[p] + g[s \ {p}]
    BY <1>2 DEF AnyOf, Adds
  <2>2. CASE p = x
    BY <2>1, <2>2
  <2>3. CASE p # x
    <3>1. PICK r \in SUBSET S : r = (s \ {p}) \ {x} /\ r = (s \ {x}) \ {p}
      BY <2>3, (s \ {p}) \ {x} = (s \ {x}) \ {p}, (s \ {p}) \ {x} \in SUBSET S
    <3>2. g[s \ {p}] = f[x] + g[r]
      BY <1>2, <2>3, <3>1, x \in s \ {p}
    <3>3. g[s \ {x}] = f[p] + g[r]
      BY <1>2, <2>3, <3>1, p \in s \ {x}
    <3>4. x \in S /\ p \in S
      OBVIOUS
    <3>5. g[r] \in Int /\ f[x] \in Int /\ f[p] \in Int
      BY <3>4
    <3> QED
      BY <2>1, <3>2, <3>3, <3>5
  <2> QED
    BY <2>2, <2>3
<1> HIDE DEF F
<1>3. \A s \in SUBSET S : s \in F
  BY <1>1, <1>2, SubsetSteps
<1> QED
  BY <1>3 DEF F, AddsAny

(* What SumFunctionOnSet of the community modules adds up.                 *)
LEMMA SumIsAdds ==
  ASSUME NEW S, IsFiniteSet(S), NEW f, \A x \in S : f[x] \in Int
  PROVE  \E g \in [SUBSET S -> Int] : Adds(g, f, S) /\ g[S] = SumFunctionOnSet(f, S)
<1>1. PICK h \in [SUBSET S -> Int] : Adds(h, f, S)
  BY SumExists
<1>2. h = [s \in SUBSET S |-> IF s = {} THEN 0 ELSE f[CHOOSE x \in s : TRUE] + h[s \ {CHOOSE x \in s : TRUE}]]
  BY <1>1 DEF Adds, AnyOf
<1>3. PICK g : /\ g = [s \in SUBSET S |-> IF s = {} THEN 0 ELSE f[CHOOSE x \in s : TRUE] + g[s \ {CHOOSE x \in s : TRUE}]]
               /\ SumFunctionOnSet(f, S) = g[S]
  BY <1>2 DEF SumFunctionOnSet, FoldFunctionOnSet, MapThenFoldSet
<1>4. Adds(g, f, S)
  BY <1>3 DEF Adds, AnyOf
<1>5. h[S] = g[S]
  BY <1>1, <1>4, SumUnique
<1> QED
  BY <1>1, <1>3, <1>5

LEMMA SumEmpty ==
  ASSUME NEW f
  PROVE  SumFunctionOnSet(f, {}) = 0
<1>1. IsFiniteSet({}) /\ \A x \in {} : f[x] \in Int
  BY FS_EmptySet
<1>2. PICK g \in [SUBSET {} -> Int] : Adds(g, f, {}) /\ g[{}] = SumFunctionOnSet(f, {})
  BY <1>1, SumIsAdds
<1> QED
  BY <1>2 DEF Adds

(* One summand can be taken out.                                           *)
LEMMA SumRemove ==
  ASSUME NEW S, IsFiniteSet(S), NEW f, \A x \in S : f[x] \in Int
  PROVE  /\ SumFunctionOnSet(f, S) \in Int
         /\ \A x \in S : SumFunctionOnSet(f, S) = f[x] + SumFunctionOnSet(f, S \ {x})
<1>1. PICK g \in [SUBSET S -> Int] : Adds(g, f, S) /\ g[S] = SumFunctionOnSet(f, S)
  BY SumIsAdds
<1>2. ASSUME NEW x \in S
      PROVE  SumFunctionOnSet(f, S) = f[x] + SumFunctionOnSet(f, S \ {x})
  <2> DEFINE R == S \ {x}
  <2>1. IsFiniteSet(R) /\ R \in SUBSET S
    BY FS_RemoveElement
  <2>2. PICK h \in [SUBSET R -> Int] : Adds(h, f, R) /\ h[R] = SumFunctionOnSet(f, R)
    <3> HIDE DEF R
    <3> QED
      BY <2>1, SumIsAdds
  <2>3. Adds(g, f, R)
    BY <1>1, <2>1 DEF Adds
  <2>4. h[R] = g[R]
    <3> HIDE DEF R
    <3> QED
      BY <2>1, <2>2, <2>3, SumUnique
  <2>5. g[S] = f[x] + g[R]
    <3>1. AddsAny(g, f, S)
      BY <1>1, SumAnyPick
    <3> QED
      BY <3>1, S \in SUBSET S DEF AddsAny
  <2> QED
    BY <1>1, <2>2, <2>4, <2>5
<1> QED
  BY <1>1, <1>2

(* One can be added.                                                       *)
LEMMA SumAdd ==
  ASSUME NEW S, IsFiniteSet(S), NEW x, x \notin S, NEW f,
         \A y \in S \cup {x} : f[y] \in Int
  PROVE  SumFunctionOnSet(f, S \cup {x}) = f[x] + SumFunctionOnSet(f, S)
<1> DEFINE U == S \cup {x}
<1>1. IsFiniteSet(U) /\ x \in U /\ U \ {x} = S
  BY FS_AddElement
<1>2. SumFunctionOnSet(f, U) = f[x] + SumFunctionOnSet(f, U \ {x})
  <2>1. \A y \in U : f[y] \in Int
    OBVIOUS
  <2> HIDE DEF U
  <2> QED
    BY <1>1, <2>1, SumRemove
<1> QED
  BY <1>1, <1>2

(* Only the values at the summands count.                                  *)
LEMMA SumSame ==
  ASSUME NEW S, IsFiniteSet(S), NEW f, NEW e, \A x \in S : f[x] \in Int /\ f[x] = e[x]
  PROVE  SumFunctionOnSet(f, S) = SumFunctionOnSet(e, S)
<1>1. PICK g \in [SUBSET S -> Int] : Adds(g, f, S) /\ g[S] = SumFunctionOnSet(f, S)
  BY SumIsAdds
<1>2. PICK h \in [SUBSET S -> Int] : Adds(h, e, S) /\ h[S] = SumFunctionOnSet(e, S)
  BY SumIsAdds
<1>3. \A s \in SUBSET S : g[s] = h[s]
  BY <1>1, <1>2, SumUnique
<1> QED
  BY <1>1, <1>2, <1>3

(* Sums of sums.                                                           *)
LEMMA SumPlus ==
  ASSUME NEW S, IsFiniteSet(S), NEW f, NEW e, NEW h,
         \A x \in S : f[x] \in Int /\ e[x] \in Int /\ h[x] = f[x] + e[x]
  PROVE  SumFunctionOnSet(h, S) = SumFunctionOnSet(f, S) + SumFunctionOnSet(e, S)
<1> DEFINE F == {s \in SUBSET S :
              SumFunctionOnSet(h, s) = SumFunctionOnSet(f, s) + SumFunctionOnSet(e, s)}
<1>1. {} \in F
  BY SumEmpty
<1>2. ASSUME NEW s \in SUBSET S, s # {}, \A x \in s : s \ {x} \in F
      PROVE  s \in F
  <2>1. PICK x \in s : TRUE
    BY <1>2
  <2>2. IsFiniteSet(s) /\ IsFiniteSet(s \ {x})
    BY FS_Subset, FS_RemoveElement
  <2>3. /\ SumFunctionOnSet(f, s) = f[x] + SumFunctionOnSet(f, s \ {x})
        /\ SumFunctionOnSet(f, s \ {x}) \in Int
    BY <2>2, SumRemove
  <2>4. /\ SumFunctionOnSet(e, s) = e[x] + SumFunctionOnSet(e, s \ {x})
        /\ SumFunctionOnSet(e, s \ {x}) \in Int
    BY <2>2, SumRemove
  <2>5. SumFunctionOnSet(h, s) = h[x] + SumFunctionOnSet(h, s \ {x})
    <3>1. \A y \in s : h[y] \in Int
      OBVIOUS
    <3> QED
      BY <2>2, <3>1, SumRemove
  <2>6. SumFunctionOnSet(h, s \ {x}) = SumFunctionOnSet(f, s \ {x}) + SumFunctionOnSet(e, s \ {x})
    BY <1>2
  <2>7. f[x] \in Int /\ e[x] \in Int /\ h[x] = f[x] + e[x]
    OBVIOUS
  <2> QED
    BY <2>3, <2>4, <2>5, <2>6, <2>7
<1> HIDE DEF F
<1>3. \A s \in SUBSET S : s \in F
  BY <1>1, <1>2, SubsetSteps
<1> QED
  BY <1>3, S \in SUBSET S DEF F

(* No summand is negative, nor is the sum.                                 *)
LEMMA SumNat ==
  ASSUME NEW S, IsFiniteSet(S), NEW f, \A x \in S : f[x] \in Nat
  PROVE  SumFunctionOnSet(f, S) \in Nat
<1> DEFINE F == {s \in SUBSET S : SumFunctionOnSet(f, s) \in Nat}
<1>1. {} \in F
  BY SumEmpty
<1>2. ASSUME NEW s \in SUBSET S, s # {}, \A x \in s : s \ {x} \in F
      PROVE  s \in F
  <2>1. PICK x \in s : TRUE
    BY <1>2
  <2>2. IsFiniteSet(s) /\ \A y \in s : f[y] \in Int
    BY FS_Subset
  <2>3. SumFunctionOnSet(f, s) = f[x] + SumFunctionOnSet(f, s \ {x})
    BY <2>2, SumRemove
  <2>4. f[x] \in Nat /\ SumFunctionOnSet(f, s \ {x}) \in Nat
    BY <1>2
  <2> QED
    BY <2>3, <2>4
<1> HIDE DEF F
<1>3. \A s \in SUBSET S : s \in F
  BY <1>1, <1>2, SubsetSteps
<1> QED
  BY <1>3, S \in SUBSET S DEF F

(* Disjoint sets.                                                          *)
LEMMA SumUnion ==
  ASSUME NEW S, IsFiniteSet(S), NEW T, IsFiniteSet(T), S \cap T = {}, NEW f,
         \A x \in S \cup T : f[x] \in Int
  PROVE  SumFunctionOnSet(f, S \cup T) = SumFunctionOnSet(f, S) + SumFunctionOnSet(f, T)
<1> DEFINE F == {s \in SUBSET S :
              SumFunctionOnSet(f, s \cup T) = SumFunctionOnSet(f, s) + SumFunctionOnSet(f, T)}
<1>0. SumFunctionOnSet(f, T) \in Int
  BY SumRemove
<1>1. {} \in F
  <2>1. {} \cup T = T
    OBVIOUS
  <2> QED
    BY <1>0, <2>1, SumEmpty
<1>2. ASSUME NEW s \in SUBSET S, s # {}, \A x \in s : s \ {x} \in F
      PROVE  s \in F
  <2>1. PICK x \in s : TRUE
    BY <1>2
  <2>2. IsFiniteSet(s) /\ IsFiniteSet(s \ {x}) /\ \A y \in s : f[y] \in Int
    BY FS_Subset, FS_RemoveElement
  <2>3. /\ SumFunctionOnSet(f, s) = f[x] + SumFunctionOnSet(f, s \ {x})
        /\ SumFunctionOnSet(f, s \ {x}) \in Int
    BY <2>2, SumRemove
  <2>4. SumFunctionOnSet(f, s \cup T) = f[x] + SumFunctionOnSet(f, (s \ {x}) \cup T)
    <3> DEFINE U == s \cup T
    <3>1. IsFiniteSet(U)
      BY <2>2, FS_Union
    <3>2. x \in U /\ U \ {x} = (s \ {x}) \cup T /\ \A y \in U : f[y] \in Int
      OBVIOUS
    <3>3. SumFunctionOnSet(f, U) = f[x] + SumFunctionOnSet(f, U \ {x})
      <4> HIDE DEF U
      <4> QED
        BY <3>1, <3>2, SumRemove
    <3> QED
      BY <3>2, <3>3
  <2>5. SumFunctionOnSet(f, (s \ {x}) \cup T) = SumFunctionOnSet(f, s \ {x}) + SumFunctionOnSet(f, T)
    BY <1>2
  <2>6. f[x] \in Int
    OBVIOUS
  <2>7. SumFunctionOnSet(f, s \cup T) = SumFunctionOnSet(f, s) + SumFunctionOnSet(f, T)
    BY <1>0, <2>3, <2>4, <2>5, <2>6
  <2> QED
    BY <2>7
<1> HIDE DEF F
<1>3. \A s \in SUBSET S : s \in F
  BY <1>1, <1>2, SubsetSteps
<1> QED
  BY <1>3, S \in SUBSET S DEF F

(* The order of the summands does not count: e lists on D, by way of the   *)
(* places p gives them, what f adds up.                                    *)
Reindexes(e, D, p, f) ==
  /\ IsFiniteSet(D)
  /\ \A i, j \in D : p[i] = p[j] => i = j
  /\ \A i \in D : e[i] = f[p[i]] /\ f[p[i]] \in Int

LEMMA SumReindex ==
  ASSUME NEW D, NEW p, NEW f, NEW e, Reindexes(e, D, p, f)
  PROVE  SumFunctionOnSet(e, D) = SumFunctionOnSet(f, {p[i] : i \in D})
<1> USE DEF Reindexes
<1> DEFINE Im(d) == {p[i] : i \in d}
           F == {d \in SUBSET D : SumFunctionOnSet(e, d) = SumFunctionOnSet(f, Im(d))}
<1>1. {} \in F
  <2>1. Im({}) = {}
    OBVIOUS
  <2> QED
    BY <2>1, SumEmpty
<1>2. ASSUME NEW d \in SUBSET D, d # {}, \A i \in d : d \ {i} \in F
      PROVE  d \in F
  <2>1. PICK i \in d : TRUE
    BY <1>2
  <2>2. IsFiniteSet(d) /\ IsFiniteSet(Im(d)) /\ \A j \in d : e[j] \in Int
    <3>1. IsFiniteSet(d)
      BY FS_Subset
    <3> QED
      BY <3>1, FiniteValues
  <2>3. SumFunctionOnSet(e, d) = e[i] + SumFunctionOnSet(e, d \ {i})
    BY <2>2, SumRemove
  <2>4. p[i] \in Im(d) /\ Im(d) \ {p[i]} = Im(d \ {i}) /\ \A y \in Im(d) : f[y] \in Int
    OBVIOUS
  <2>5. SumFunctionOnSet(f, Im(d)) = f[p[i]] + SumFunctionOnSet(f, Im(d) \ {p[i]})
    <3> HIDE DEF Im
    <3> QED
      BY <2>2, <2>4, SumRemove
  <2>6. SumFunctionOnSet(e, d \ {i}) = SumFunctionOnSet(f, Im(d \ {i}))
    BY <1>2
  <2>7. e[i] = f[p[i]]
    OBVIOUS
  <2>8. SumFunctionOnSet(e, d) = SumFunctionOnSet(f, Im(d))
    <3> HIDE DEF Im
    <3> QED
      BY <2>3, <2>4, <2>5, <2>6, <2>7
  <2> HIDE DEF Im
  <2> QED
    BY <2>8
<1> HIDE DEF F, Im
<1>3. \A d \in SUBSET D : d \in F
  BY <1>1, <1>2, SubsetSteps
<1> QED
  BY <1>3, D \in SUBSET D DEF F, Im

----------------------------------------------------------------------------
(* Sets of WANs and slots, and their order.                                *)

LEMMA WanFinite ==
  /\ Wan = Dp /\ Wan \subseteq Nat /\ IsFiniteSet(Wan) /\ Cardinality(Wan) = Wans
  /\ Wans \in Nat /\ Wans > 0
<1>1. Wans \in Nat /\ Wans > 0
  BY WanSchedAssumption
<1>2. IsFiniteSet(0..(Wans - 1)) /\ Cardinality(0..(Wans - 1)) = Wans
  BY <1>1, FS_Interval
<1> QED
  BY <1>1, <1>2 DEF Wan, Dp

LEMMA SubFinite ==
  ASSUME NEW T \in SUBSET Wan
  PROVE  T \subseteq Int /\ IsFiniteSet(T) /\ Cardinality(T) \in 0..Wans
<1>1. IsFiniteSet(T) /\ Cardinality(T) <= Wans
  BY WanFinite, FS_Subset
<1>2. Cardinality(T) \in Nat
  BY <1>1, FS_CardinalityType
<1> QED
  BY <1>1, <1>2, WanFinite

(* Ordered lists every member once.                                        *)
Lists(s, T) ==
  /\ s \in [1..Cardinality(T) -> T]
  /\ \A i, j \in 1..Cardinality(T) : s[i] = s[j] => i = j
  /\ {s[i] : i \in 1..Cardinality(T)} = T

LEMMA OrderedLists ==
  ASSUME NEW T, T \subseteq Int, IsFiniteSet(T)
  PROVE  Lists(Ordered(T), T)
<1> DEFINE n == Cardinality(T)
           Below(w) == Cardinality({v \in T : v < w})
           r == [k \in 1..n |-> CHOOSE w \in T : Below(w) = k - 1]
<1>1. n \in Nat
  BY FS_CardinalityType
<1>2. \A k \in 1..n : r[k] \in T /\ Below(r[k]) = k - 1
  <2> SUFFICES ASSUME NEW k \in 1..n
               PROVE  r[k] \in T /\ Below(r[k]) = k - 1
    OBVIOUS
  <2>1. k - 1 \in 0..(n - 1)
    BY <1>1
  <2>2. \E w \in T : Below(w) = k - 1
    BY <2>1, Ranked
  <2> HIDE DEF Below
  <2> QED
    BY <2>2
<1>3. \A v, w \in T : v < w => Below(v) <= Below(w)
  <2> SUFFICES ASSUME NEW v \in T, NEW w \in T, v < w
               PROVE  Below(v) <= Below(w)
    OBVIOUS
  <2>0. v \in Int /\ w \in Int /\ \A x \in T : x \in Int
    OBVIOUS
  <2>1. \A x \in T : x < v => x < w
    BY <2>0
  <2>2. {x \in T : x < v} \in SUBSET {x \in T : x < w} /\ {x \in T : x < w} \in SUBSET T
    BY <2>1
  <2>3. IsFiniteSet({x \in T : x < w})
    BY <2>2, FS_Subset
  <2> QED
    BY <2>2, <2>3, FS_Subset
<1>4. \A i, j \in 1..n : i < j => r[i] < r[j]
  <2> HIDE DEF Below, r, n
  <2> SUFFICES ASSUME NEW i \in 1..n, NEW j \in 1..n, i < j
               PROVE  r[i] < r[j]
    OBVIOUS
  <2>1. r[i] \in Int /\ r[j] \in Int /\ Below(r[i]) = i - 1 /\ Below(r[j]) = j - 1
    BY <1>2
  <2>2. r[i] # r[j]
    BY <1>1, <2>1
  <2>3. ~(r[j] < r[i])
    BY <1>1, <1>2, <1>3, <2>1
  <2> QED
    BY <2>1, <2>2, <2>3
<1>5. r \in [1..n -> T] /\ DOMAIN r = 1..n
  BY <1>2
<1>6. \E s \in [1..n -> T] : \A i, j \in DOMAIN s : i < j => s[i] < s[j]
  <2> HIDE DEF r, n
  <2> QED
    BY <1>4, <1>5
<1> DEFINE o == Ordered(T)
<1>7. o \in [1..n -> T] /\ \A i, j \in 1..n : i < j => o[i] < o[j]
  <2>1. /\ o \in [1..n -> T] /\ \A i, j \in DOMAIN o : i < j => o[i] < o[j]
    BY <1>6 DEF Ordered
  <2> QED
    BY <2>1
<1>8. \A i, j \in 1..n : o[i] = o[j] => i = j
  <2> HIDE DEF o, n
  <2> SUFFICES ASSUME NEW i \in 1..n, NEW j \in 1..n, o[i] = o[j], i # j
               PROVE  FALSE
    OBVIOUS
  <2>1. o[i] \in T
    BY <1>7
  <2>2. o[i] \in Int
    BY <2>1
  <2>3. i \in Int /\ j \in Int
    BY <1>1
  <2>4. i < j \/ j < i
    BY <2>3
  <2> QED
    BY <1>7, <2>2, <2>4
<1>9. {o[i] : i \in 1..n} = T
  <2>1. IsFiniteSet(1..n) /\ Cardinality(1..n) = n
    <3> HIDE DEF n
    <3> QED
      BY <1>1, FS_Interval
  <2>2. o \in Injection(1..n, T)
    <3> HIDE DEF o, n
    <3> QED
      BY <1>7, <1>8 DEF Injection, IsInjective
  <2>3. o \in Surjection(1..n, T)
    <3>1. Cardinality(1..n) = Cardinality(T)
      BY <2>1
    <3> HIDE DEF o, n
    <3> QED
      BY <2>1, <2>2, <3>1, FS_Injection
  <2> HIDE DEF o, n
  <2> QED
    BY <1>7, <2>3 DEF Surjection
<1> QED
  BY <1>7, <1>8, <1>9 DEF Lists

----------------------------------------------------------------------------
(* Slots.                                                                  *)

LEMMA ListsLen ==
  ASSUME NEW T, IsFiniteSet(T), NEW s, Lists(s, T)
  PROVE  s \in Seq(T) /\ Len(s) = Cardinality(T) /\ DOMAIN s = 1..Cardinality(T)
<1>1. PICK n \in Nat : n = Cardinality(T)
  BY FS_CardinalityType
<1>2. s \in [1..n -> T]
  BY <1>1 DEF Lists
<1>3. s \in Seq(T) /\ Len(s) = n
  BY <1>2
<1> QED
  BY <1>1, <1>2, <1>3

(* A slot is never given to two WANs, nor a WAN two slots in use.          *)
SlotsOnce ==
  \A d \in 0..(count - 1) :
    cfgIdx[d] \in Wan /\ \A e \in 0..(count - 1) : cfgIdx[d] = cfgIdx[e] => d = e

LEMMA LiveWan ==
  ASSUME NEW c
  PROVE  Live(c) \in SUBSET Wan /\ IsFiniteSet(Live(c)) /\ Cardinality(Live(c)) \in 0..Wans
BY SubFinite, Live(c) \in SUBSET Wan DEF Live

(* The slots of a dataplane that starts with configuration c.              *)
LEMMA DpToCfgSlots ==
  ASSUME NEW c
  PROVE  /\ DpToCfg(c) \in [Dp -> Wan]
         /\ \A d, e \in 0..(Cardinality(Live(c)) - 1) : DpToCfg(c)[d] = DpToCfg(c)[e] => d = e
<1>1. PICK n \in 0..Wans : n = Cardinality(Live(c))
  BY LiveWan
<1>2. \A d \in 0..(n - 1) : \E w \in Live(c) : CfgToDp(c, w) = d
  <2>1. Live(c) \subseteq Int /\ IsFiniteSet(Live(c))
    BY LiveWan, SubFinite
  <2> QED
    BY <1>1, <2>1, Ranked DEF CfgToDp
<1>3. \A d \in 0..(n - 1) : d \in Dp
  BY <1>1, WanFinite DEF Dp
<1>4. \A d \in 0..(n - 1) : DpToCfg(c)[d] \in Live(c) /\ CfgToDp(c, DpToCfg(c)[d]) = d
  <2> SUFFICES ASSUME NEW d \in 0..(n - 1)
               PROVE  DpToCfg(c)[d] \in Live(c) /\ CfgToDp(c, DpToCfg(c)[d]) = d
    OBVIOUS
  <2>1. d < n /\ d \in Dp
    BY <1>1, <1>3
  <2>2. DpToCfg(c)[d] = CHOOSE w \in Live(c) : CfgToDp(c, w) = d
    BY <1>1, <2>1 DEF DpToCfg
  <2> QED
    BY <1>2, <2>2
<1>5. ASSUME NEW d \in Dp
      PROVE  DpToCfg(c)[d] \in Wan
  <2>1. CASE d < n
    BY <1>4, <2>1, LiveWan, WanFinite DEF Dp
  <2>2. CASE ~(d < n)
    BY <1>1, <2>2, WanFinite DEF DpToCfg, Wan
  <2> QED
    BY <2>1, <2>2
<1>6. DpToCfg(c) \in [Dp -> Wan]
  BY <1>5 DEF DpToCfg
<1>7. \A d, e \in 0..(n - 1) : DpToCfg(c)[d] = DpToCfg(c)[e] => d = e
  BY <1>4
<1> QED
  BY <1>1, <1>6, <1>7

LEMMA LinksType ==
  ASSUME NEW c
  PROVE  Links(c) \in [Wan -> Dp \cup {NoDp}]
<1>1. ASSUME NEW w \in Wan, c.live[w]
      PROVE  CfgToDp(c, w) \in Dp
  <2> DEFINE B == {v \in Live(c) : v < w}
  <2>1. B \in SUBSET (Wan \ {w})
    BY LiveWan, WanFinite
  <2>2. IsFiniteSet(Wan \ {w}) /\ Cardinality(Wan \ {w}) = Wans - 1
    BY WanFinite, FS_RemoveElement
  <2>3. Cardinality(B) <= Wans - 1 /\ IsFiniteSet(B)
    <3> HIDE DEF B
    <3> QED
      BY <2>1, <2>2, FS_Subset
  <2>4. Cardinality(B) \in Nat
    BY <2>3, FS_CardinalityType
  <2> HIDE DEF B
  <2>5. Cardinality(B) \in Dp
    BY <2>3, <2>4, WanFinite DEF Dp
  <2> QED
    BY <2>5 DEF CfgToDp, B
<1> QED
  BY <1>1 DEF Links

(* A reload that attaches WANs finds slots for them.                       *)
LEMMA MissingFits ==
  ASSUME SlotsOnce, count \in 0..Wans
  PROVE  /\ Missing \in Seq(Wan) /\ Len(Missing) \in Nat /\ count + Len(Missing) <= Wans
         /\ \A i \in 1..Len(Missing) :
              /\ Missing[i] \in Wan /\ SlotsOf(Missing[i]) = {}
              /\ \A j \in 1..Len(Missing) : Missing[i] = Missing[j] => i = j
<1> DEFINE M == {w \in Live(other) : SlotsOf(w) = {}}
           U == {cfgIdx[d] : d \in 0..(count - 1)}
<1>1. M \in SUBSET Wan /\ U \in SUBSET Wan /\ M \cap U = {}
  BY LiveWan DEF SlotsOnce, SlotsOf
<1>2. PICK m \in Nat : m = Cardinality(M) /\ IsFiniteSet(M) /\ M \subseteq Int
  <2> HIDE DEF M
  <2>1. M \subseteq Int /\ IsFiniteSet(M) /\ Cardinality(M) \in 0..Wans
    BY <1>1, SubFinite
  <2> QED
    BY <2>1, WanFinite
<1>3. Lists(Missing, M)
  BY <1>2, OrderedLists DEF Missing
<1>4. Missing \in Seq(M) /\ Len(Missing) = m /\ DOMAIN Missing = 1..m
  <2> HIDE DEF M
  <2> QED
    BY <1>2, <1>3, ListsLen
<1>5. IsFiniteSet(U) /\ Cardinality(U) = count
  <2> DEFINE f == [d \in 0..(count - 1) |-> cfgIdx[d]]
  <2>1. f \in Bijection(0..(count - 1), U)
    BY DEF SlotsOnce, Bijection, Injection, Surjection, IsInjective
  <2>2. IsFiniteSet(0..(count - 1)) /\ Cardinality(0..(count - 1)) = count
    BY FS_Interval, WanFinite
  <2> HIDE DEF f, U
  <2> QED
    BY <2>1, <2>2, FS_Bijection DEF ExistsBijection
<1>6. count + m <= Wans
  <2> HIDE DEF M, U
  <2>1. Cardinality(M \cup U) = m + count - Cardinality(M \cap U)
    BY <1>2, <1>5, FS_Union
  <2>2. Cardinality(M \cap U) = 0
    BY <1>1, FS_EmptySet
  <2>3. M \cup U \in SUBSET Wan
    BY <1>1
  <2>4. Cardinality(M \cup U) <= Wans
    BY <2>3, WanFinite, FS_Subset
  <2> QED
    BY <1>2, <2>1, <2>2, <2>4, WanFinite
<1>7. \A i \in 1..m : Missing[i] \in M
  BY <1>2, <1>3 DEF Lists
<1>8. \A i, j \in 1..m : Missing[i] = Missing[j] => i = j
  BY <1>2, <1>3 DEF Lists
<1>9. Missing \in Seq(Wan)
  <2> HIDE DEF M
  <2> QED
    BY <1>1, <1>4
<1> QED
  BY <1>2, <1>4, <1>6, <1>7, <1>8, <1>9, <1>1

----------------------------------------------------------------------------
(* Weights.                                                                *)

(* The types, apart from what they say about pools and senders.            *)
TypeInv ==
  /\ cfg \in Cfgs /\ other \in Cfgs
  /\ cfgIdx \in [Dp -> Wan \cup {-1}] /\ count \in 0..Wans /\ usable \in 0..Wans
  /\ drain \in [Dp -> [age : Age \cup {NoAge}, wan : Wan, seed : Nat]]
  /\ stopped \subseteq Dp /\ hold \subseteq Dp
  /\ join \in [Wan -> Age \cup {NoAge}]
  /\ blend \in [age : Age \cup {NoAge}, old : [Wan -> Nat], new : [Wan -> Nat]]
  /\ linkDp \in [Wan -> Dp \cup {NoDp}] /\ linkUp \in [Wan -> BOOLEAN]
  /\ rpc \in {"idle", "sync", "install", "blend", "links", "failed", "maint", "kick"}
  /\ flushed \subseteq Dp
  /\ left \in Budget

LEMMA Least1Positive ==
  ASSUME NEW n \in Int
  PROVE  Least1(n) \in Nat /\ Least1(n) > 0
BY DEF Least1

LEMMA PercentInt ==
  ASSUME NEW a \in Int
  PROVE  Percent(a) \in Int
BY WanSchedAssumption DEF Percent

LEMMA AgeInt == Age \cup {NoAge} \subseteq Int /\ Grace \in Nat /\ Grace > 0
BY WanSchedAssumption DEF Age, NoAge

LEMMA CfgType ==
  ASSUME NEW c \in Cfgs, NEW w \in Wan
  PROVE  c.live[w] \in BOOLEAN /\ c.weight[w] \in Nat
BY WanSchedAssumption

LEMMA BaseNat ==
  ASSUME TypeInv, NEW w \in Wan
  PROVE  Base(w) \in Nat
<1>1. cfg.weight[w] \in Nat
  BY CfgType DEF TypeInv
<1>2. blend.age \in Int /\ blend.old[w] \in Nat /\ blend.new[w] \in Nat
  BY AgeInt DEF TypeInv
<1>3. PICK p \in Int : p = Percent(blend.age)
  BY <1>2, PercentInt
<1>4. blend.old[w] * (100 - p) + blend.new[w] * p \in Int
  BY <1>2, <1>3
<1>5. (blend.old[w] * (100 - p) + blend.new[w] * p) \div 100 \in Int
  BY <1>4
<1> QED
  BY <1>1, <1>3, <1>5, Least1Positive DEF Base

LEMMA ScaledPositive ==
  ASSUME TypeInv, NEW w \in Weighted
  PROVE  Scaled(w) \in Nat /\ Scaled(w) > 0
<1>1. w \in Wan /\ Base(w) \in Nat /\ Base(w) > 0
  BY BaseNat DEF Weighted
<1>2. join[w] \in Int
  BY <1>1, AgeInt DEF TypeInv
<1>3. PICK p \in Int : p = Percent(join[w])
  BY <1>2, PercentInt
<1>4. (Base(w) * p) \div 100 \in Int
  BY <1>1, <1>3
<1> QED
  BY <1>1, <1>3, <1>4, Least1Positive DEF Scaled

(* The sum of the weights of some WANs, as the sum of a function.          *)
LEMMA BaseSum ==
  ASSUME TypeInv, NEW T \in SUBSET Wan, NEW f, f = [w \in Wan |-> Base(w)]
  PROVE  MapThenSumSet(Base, T) = SumFunctionOnSet(f, T)
<1>1. IsFiniteSet(T) /\ \A w \in T : f[w] \in Int /\ f[w] = Base(w)
  BY SubFinite, BaseNat
<1>2. PICK h \in [SUBSET T -> Int] : Adds(h, f, T) /\ h[T] = SumFunctionOnSet(f, T)
  BY <1>1, SumIsAdds
<1>3. h = [s \in SUBSET T |-> IF s = {} THEN 0 ELSE Base(CHOOSE x \in s : TRUE) + h[s \ {CHOOSE x \in s : TRUE}]]
  BY <1>1, <1>2 DEF Adds, AnyOf
<1>4. PICK g : /\ g = [s \in SUBSET T |-> IF s = {} THEN 0 ELSE Base(CHOOSE x \in s : TRUE) + g[s \ {CHOOSE x \in s : TRUE}]]
               /\ MapThenSumSet(Base, T) = g[T]
  BY <1>3 DEF MapThenSumSet, MapThenFoldSet
<1>5. Adds(g, f, T)
  BY <1>1, <1>4 DEF Adds, AnyOf
<1>6. g[T] = h[T]
  BY <1>1, <1>2, <1>5, SumUnique
<1> QED
  BY <1>2, <1>4, <1>6

LEMMA DeadNat ==
  ASSUME TypeInv
  PROVE  DeadWeight \in Nat
<1>1. PICK f : f = [w \in Wan |-> Base(w)]
  OBVIOUS
<1>2. PICK T \in SUBSET Wan : T = Weighted \ Serving
  BY DEF Weighted
<1>3. DeadWeight = SumFunctionOnSet(f, T)
  BY <1>1, <1>2, BaseSum DEF DeadWeight
<1>4. IsFiniteSet(T) /\ \A w \in T : f[w] \in Nat
  BY <1>1, SubFinite, BaseNat
<1> QED
  BY <1>3, <1>4, SumNat

LEMMA ShareNat ==
  ASSUME NEW dead \in Nat, NEW n \in Nat \ {0}, NEW i \in Nat
  PROVE  Share(dead, i, n) \in Nat
<1>1. dead \div n \in Nat
  OBVIOUS
<1> QED
  BY <1>1 DEF Share

PoolEntry == [wan : Wan, weight : Nat \ {0}]

LEMMA ServingLists ==
  /\ Serving \in SUBSET Weighted /\ Weighted \in SUBSET Wan /\ IsFiniteSet(Serving)
  /\ Lists(Ordered(Serving), Serving)
<1>1. Serving \in SUBSET Weighted /\ Weighted \in SUBSET Wan
  BY DEF Serving, Weighted
<1>2. Serving \subseteq Int /\ IsFiniteSet(Serving)
  BY <1>1, SubFinite
<1> QED
  BY <1>1, <1>2, OrderedLists

LEMMA LivingType ==
  ASSUME TypeInv
  PROVE  Living \in Seq(PoolEntry)
<1>1. PICK s, n : s = Ordered(Serving) /\ n = Cardinality(Serving)
  OBVIOUS
<1>2. s \in Seq(Serving) /\ Len(s) = n /\ DOMAIN s = 1..n /\ n \in Nat
  BY <1>1, ServingLists, ListsLen, FS_CardinalityType
<1>3. PICK dead \in Nat : dead = DeadWeight
  BY DeadNat
<1>4. Living = [i \in 1..n |-> [wan |-> s[i], weight |-> Scaled(s[i]) + Share(dead, i, n)]]
  BY <1>1, <1>2, <1>3 DEF Living
<1>5. ASSUME NEW i \in 1..n
      PROVE  [wan |-> s[i], weight |-> Scaled(s[i]) + Share(dead, i, n)] \in PoolEntry
  <2>1. s[i] \in Serving
    BY <1>2
  <2>2. s[i] \in Wan /\ Scaled(s[i]) \in Nat /\ Scaled(s[i]) > 0
    BY <2>1, ServingLists, ScaledPositive
  <2>3. i \in Nat /\ n \in Nat \ {0}
    BY <1>2
  <2>4. Share(dead, i, n) \in Nat
    BY <2>3, ShareNat
  <2> QED
    BY <2>2, <2>4 DEF PoolEntry
<1>6. Living \in [1..n -> PoolEntry]
  BY <1>4, <1>5
<1> QED
  BY <1>2, <1>6

LEMMA LeavingType ==
  ASSUME TypeInv
  PROVE  Leaving \in Seq(PoolEntry)
<1>1. Draining \in SUBSET Wan
  BY WanFinite DEF Draining, TypeInv, Wan
<1>2. Draining \subseteq Int /\ IsFiniteSet(Draining)
  BY <1>1, SubFinite
<1>3. PICK s, n : s = Ordered(Draining) /\ n = Cardinality(Draining)
  OBVIOUS
<1>4. s \in Seq(Draining) /\ Len(s) = n /\ DOMAIN s = 1..n /\ n \in Nat
  BY <1>2, <1>3, OrderedLists, ListsLen, FS_CardinalityType
<1>5. Leaving = [i \in 1..n |-> [wan |-> drain[s[i]].wan,
                                 weight |-> Least1((drain[s[i]].seed * Taper(s[i])) \div 100)]]
  BY <1>3, <1>4 DEF Leaving
<1>6. ASSUME NEW i \in 1..n
      PROVE  [wan |-> drain[s[i]].wan,
              weight |-> Least1((drain[s[i]].seed * Taper(s[i])) \div 100)] \in PoolEntry
  <2>1. s[i] \in Draining
    BY <1>4
  <2>2. PICK d \in Dp : d = s[i]
    BY <1>1, <2>1, WanFinite
  <2>3. drain[d].wan \in Wan /\ drain[d].seed \in Nat /\ drain[d].age \in Int
    BY AgeInt DEF TypeInv
  <2>4. Taper(d) \in Int
    <3>1. Grace - drain[d].age \in Int
      BY <2>3, AgeInt
    <3> QED
      BY <3>1, PercentInt DEF Taper
  <2>5. (drain[d].seed * Taper(d)) \div 100 \in Int
    BY <2>3, <2>4
  <2> QED
    BY <2>2, <2>3, <2>5, Least1Positive DEF PoolEntry
<1>7. Leaving \in [1..n -> PoolEntry]
  BY <1>5, <1>6
<1> QED
  BY <1>4, <1>7

LEMMA PoolType ==
  ASSUME TypeInv
  PROVE  \A e \in Range(BuildPool) : e.wan \in Wan /\ e.weight > 0
<1>1. BuildPool \in Seq(PoolEntry)
  BY LivingType, LeavingType DEF BuildPool
<1>2. \A e \in Range(BuildPool) : e \in PoolEntry
  BY <1>1 DEF Range
<1> QED
  BY <1>2 DEF PoolEntry

----------------------------------------------------------------------------
(* Bandwidth is redistributed, to the last unit.                           *)

LEMMA TotalSum ==
  ASSUME NEW p, IsFiniteSet(DOMAIN p), \A i \in DOMAIN p : p[i].weight \in Int,
         NEW f, f = [i \in DOMAIN p |-> p[i].weight]
  PROVE  TotalOf(p) = SumFunctionOnSet(f, DOMAIN p)
<1>2. \A i \in DOMAIN p : f[i] \in Int /\ f[i] = p[i].weight
  OBVIOUS
<1>3. PICK h \in [SUBSET (DOMAIN p) -> Int] :
        Adds(h, f, DOMAIN p) /\ h[DOMAIN p] = SumFunctionOnSet(f, DOMAIN p)
  BY <1>2, SumIsAdds
<1>4. h = [s \in SUBSET (DOMAIN p) |-> IF s = {} THEN 0
             ELSE p[CHOOSE x \in s : TRUE].weight + h[s \ {CHOOSE x \in s : TRUE}]]
  BY <1>2, <1>3 DEF Adds, AnyOf
<1>5. PICK g : /\ g = [s \in SUBSET (DOMAIN p) |-> IF s = {} THEN 0
                         ELSE p[CHOOSE x \in s : TRUE].weight + g[s \ {CHOOSE x \in s : TRUE}]]
               /\ TotalOf(p) = g[DOMAIN p]
  BY <1>4 DEF TotalOf, FoldSeq, FoldFunction, FoldFunctionOnSet, MapThenFoldSet
<1>6. Adds(g, f, DOMAIN p)
  BY <1>2, <1>5 DEF Adds, AnyOf
<1>7. g[DOMAIN p] = h[DOMAIN p]
  BY <1>2, <1>3, <1>6, SumUnique
<1> QED
  BY <1>3, <1>5, <1>7

(* The shares of n WANs add up to the dead weight: the first dead % n get  *)
(* one unit more than the others.                                          *)
LEMMA ShareSum ==
  ASSUME NEW dead \in Nat, NEW n \in Nat \ {0}, NEW f, f = [i \in 1..n |-> Share(dead, i, n)]
  PROVE  SumFunctionOnSet(f, 1..n) = dead
<1>1. PICK q \in Nat, r \in 0..(n - 1) : q = dead \div n /\ r = dead % n /\ dead = n * q + r
  OBVIOUS
<1>2. \A i \in 1..n : f[i] = q + (IF i <= r THEN 1 ELSE 0)
  BY <1>1 DEF Share
<1> DEFINE Up(m) == m * q + (IF m <= r THEN m ELSE r)
           P == {m \in Nat : m <= n => SumFunctionOnSet(f, 1..m) = Up(m)}
<1>3. 0 \in P
  <2>1. 1..0 = {} /\ Up(0) = 0
    BY <1>1
  <2>2. SumFunctionOnSet(f, 1..0) = 0
    BY <2>1, SumEmpty
  <2> QED
    BY <2>1, <2>2
<1>4. ASSUME NEW m \in Nat, m \in P
      PROVE  m + 1 \in P
  <2> SUFFICES ASSUME m + 1 <= n
               PROVE  SumFunctionOnSet(f, 1..(m + 1)) = Up(m + 1)
    OBVIOUS
  <2>1. 1..(m + 1) = (1..m) \cup {m + 1} /\ m + 1 \notin 1..m /\ m + 1 \in 1..n
    OBVIOUS
  <2>2. IsFiniteSet(1..m)
    BY FS_Interval
  <2>3. \A y \in (1..m) \cup {m + 1} : f[y] \in Int
    <3>1. \A y \in 1..n : f[y] \in Int
      BY <1>1, <1>2
    <3>2. (1..m) \cup {m + 1} \subseteq 1..n
      OBVIOUS
    <3> QED
      BY <3>1, <3>2
  <2>4. SumFunctionOnSet(f, 1..(m + 1)) = f[m + 1] + SumFunctionOnSet(f, 1..m)
    BY <2>1, <2>2, <2>3, SumAdd
  <2>5. SumFunctionOnSet(f, 1..m) = Up(m)
    BY <1>4
  <2>6. f[m + 1] = q + (IF m + 1 <= r THEN 1 ELSE 0)
    BY <1>2, <2>1
  <2>7. Up(m + 1) = f[m + 1] + Up(m)
    <3>1. PICK a \in Nat : a = m * q /\ (m + 1) * q = a + q
      OBVIOUS
    <3>2. Up(m) = a + (IF m <= r THEN m ELSE r)
      BY <3>1
    <3>3. Up(m + 1) = a + q + (IF m + 1 <= r THEN m + 1 ELSE r)
      BY <3>1
    <3> HIDE DEF Up
    <3>4. CASE m + 1 <= r
      <4>1. Up(m) = a + m /\ Up(m + 1) = a + q + (m + 1) /\ f[m + 1] = q + 1
        BY <1>1, <2>6, <3>2, <3>3, <3>4
      <4> QED
        BY <4>1
    <3>5. CASE ~(m + 1 <= r)
      <4>1. Up(m) = a + r /\ Up(m + 1) = a + q + r /\ f[m + 1] = q + 0
        BY <1>1, <2>6, <3>2, <3>3, <3>5
      <4> QED
        BY <1>1, <4>1
    <3> QED
      BY <3>4, <3>5
  <2> HIDE DEF Up
  <2> QED
    BY <2>4, <2>5, <2>7
<1>5. \A m \in Nat : m \in P
  <2> HIDE DEF P
  <2> QED
    BY <1>3, <1>4, NatSteps
<1>6. SumFunctionOnSet(f, 1..n) = Up(n)
  BY <1>5
<1>7. Up(n) = dead
  BY <1>1
<1> QED
  BY <1>6, <1>7

LEMMA FullRamp ==
  ASSUME TypeInv, NEW w \in Serving, join[w] \in {NoAge, Grace}
  PROVE  Scaled(w) = Base(w)
<1>1. Percent(Grace) = 100
  BY AgeInt DEF Percent
<1> QED
  BY <1>1 DEF Scaled

LEMMA WeightConserved ==
  ASSUME TypeInv
  PROVE  Conserved
<1> SUFFICES ASSUME Serving # {}, \A w \in Serving : join[w] \in {NoAge, Grace}
             PROVE  TotalOf(Living) = MapThenSumSet(Base, Weighted)
  BY DEF Conserved
<1>1. PICK V, W, s, n : V = Serving /\ W = Weighted /\ s = Ordered(Serving) /\ n = Cardinality(Serving)
  OBVIOUS
<1>2. V \in SUBSET W /\ W \in SUBSET Wan /\ IsFiniteSet(V) /\ IsFiniteSet(W) /\ IsFiniteSet(W \ V)
  BY <1>1, ServingLists, SubFinite
<1>3. /\ s \in [1..n -> V] /\ DOMAIN s = 1..n /\ Len(s) = n
      /\ \A i, j \in 1..n : s[i] = s[j] => i = j
      /\ {s[i] : i \in 1..n} = V
  <2>1. Lists(s, V) /\ n = Cardinality(V)
    BY <1>1, ServingLists
  <2>2. DOMAIN s = 1..n /\ Len(s) = n
    BY <1>2, <2>1, ListsLen
  <2> QED
    BY <2>1, <2>2 DEF Lists
<1>4. n \in Nat \ {0}
  BY <1>1, <1>2, FS_CardinalityType, FS_EmptySet
<1>5. PICK f : f = [w \in Wan |-> Base(w)]
  OBVIOUS
<1>6. \A w \in Wan : f[w] \in Int /\ f[w] = Base(w)
  BY <1>5, BaseNat
<1>7. PICK dead \in Nat : dead = DeadWeight /\ dead = SumFunctionOnSet(f, W \ V)
  BY <1>1, <1>2, <1>5, DeadNat, BaseSum DEF DeadWeight
<1>8. PICK b, h, t : /\ b = [i \in 1..n |-> f[s[i]]] /\ h = [i \in 1..n |-> Share(dead, i, n)]
                     /\ t = [i \in DOMAIN Living |-> Living[i].weight]
  OBVIOUS
<1>9. Living = [i \in 1..n |-> [wan |-> s[i], weight |-> Scaled(s[i]) + Share(dead, i, n)]]
  BY <1>1, <1>3, <1>7 DEF Living
<1>10. DOMAIN Living = 1..n
  BY <1>9
<1>11. TotalOf(Living) = SumFunctionOnSet(t, 1..n)
  <2>1. IsFiniteSet(1..n)
    BY <1>4, FS_Interval
  <2>2. \A i \in DOMAIN Living : Living[i] \in PoolEntry
    BY LivingType
  <2>3. \A i \in DOMAIN Living : Living[i].weight \in Int
    BY <2>2 DEF PoolEntry
  <2> QED
    BY <1>8, <1>10, <2>1, <2>3, TotalSum
<1>12. \A i \in 1..n : b[i] \in Int /\ h[i] \in Int /\ t[i] = b[i] + h[i]
  <2> SUFFICES ASSUME NEW i \in 1..n
               PROVE  b[i] \in Int /\ h[i] \in Int /\ t[i] = b[i] + h[i]
    OBVIOUS
  <2>1. s[i] \in V /\ s[i] \in Wan /\ i \in Nat
    BY <1>2, <1>3, <1>4
  <2>2. b[i] = f[s[i]] /\ h[i] = Share(dead, i, n)
    BY <1>8
  <2>3. t[i] = Scaled(s[i]) + Share(dead, i, n)
    BY <1>8, <1>9, <1>10
  <2>4. Scaled(s[i]) = f[s[i]]
    BY <1>1, <1>6, <2>1, FullRamp
  <2>5. Share(dead, i, n) \in Nat
    BY <1>4, <2>1, ShareNat
  <2>6. f[s[i]] \in Int
    BY <1>6, <2>1
  <2> QED
    BY <2>2, <2>3, <2>4, <2>5, <2>6
<1>13. IsFiniteSet(1..n)
  BY <1>4, FS_Interval
<1>14. SumFunctionOnSet(t, 1..n) = SumFunctionOnSet(b, 1..n) + SumFunctionOnSet(h, 1..n)
  BY <1>12, <1>13, SumPlus
<1>15. SumFunctionOnSet(h, 1..n) = dead
  BY <1>4, <1>8, ShareSum
<1>16. SumFunctionOnSet(b, 1..n) = SumFunctionOnSet(f, V)
  <2>1. \A i \in 1..n : b[i] = f[s[i]] /\ f[s[i]] \in Int
    BY <1>8, <1>12
  <2>2. SumFunctionOnSet(b, 1..n) = SumFunctionOnSet(f, {s[i] : i \in 1..n})
    <3>1. \A i, j \in 1..n : s[i] = s[j] => i = j
      BY <1>3
    <3>2. Reindexes(b, 1..n, s, f)
      BY <1>13, <2>1, <3>1 DEF Reindexes
    <3> QED
      BY <3>2, SumReindex
  <2> QED
    BY <1>3, <2>2
<1>17. SumFunctionOnSet(f, V \cup (W \ V)) = SumFunctionOnSet(f, V) + SumFunctionOnSet(f, W \ V)
  <2>1. \A w \in V \cup (W \ V) : f[w] \in Int
    BY <1>2, <1>6
  <2>2. V \cap (W \ V) = {}
    OBVIOUS
  <2> QED
    BY <1>2, <2>1, <2>2, SumUnion
<1>18. V \cup (W \ V) = W
  BY <1>2
<1>19. MapThenSumSet(Base, Weighted) = SumFunctionOnSet(f, W)
  BY <1>1, <1>2, <1>5, BaseSum
<1> QED
  BY <1>7, <1>11, <1>14, <1>15, <1>16, <1>17, <1>18, <1>19

----------------------------------------------------------------------------
(* The inductive invariant: the types, and every slot in use with a WAN of *)
(* its own.  Without the second part a reload could run out of slots.      *)

IInv == TypeInv /\ SlotsOnce

LEMMA Spent ==
  ASSUME left \in Budget
  PROVE  /\ left.reloads > 0 => [left EXCEPT !.reloads = @ - 1] \in Budget
         /\ left.kicks > 0 => [left EXCEPT !.kicks = @ - 1] \in Budget
         /\ left.flaps > 0 => [left EXCEPT !.flaps = @ - 1] \in Budget
         /\ left.datagrams > 0 => [left EXCEPT !.datagrams = @ - 1] \in Budget
BY DEF Budget

LEMMA InitInv ==
  ASSUME Init
  PROVE  IInv
<1>1. cfgIdx \in [Dp -> Wan] /\ count \in 0..Wans
  BY DpToCfgSlots, LiveWan DEF Init
<1>2. SlotsOnce
  <2> SUFFICES ASSUME NEW d \in 0..(count - 1)
               PROVE  /\ cfgIdx[d] \in Wan
                      /\ \A e \in 0..(count - 1) : cfgIdx[d] = cfgIdx[e] => d = e
    BY DEF SlotsOnce
  <2>1. d \in Dp
    BY <1>1, WanFinite DEF Dp
  <2> QED
    BY <1>1, <2>1, DpToCfgSlots DEF Init
<1>3. linkDp \in [Wan -> Dp \cup {NoDp}]
  BY LinksType DEF Init
<1>4. NoDrain \in [age : Age \cup {NoAge}, wan : Wan, seed : Nat]
  BY WanFinite DEF NoDrain, Wan
<1>5. NoBlend \in [age : Age \cup {NoAge}, old : [Wan -> Nat], new : [Wan -> Nat]]
  BY DEF NoBlend
<1>6. TypeInv
  BY <1>1, <1>3, <1>4, <1>5, WanSchedAssumption DEF Init, TypeInv
<1> QED
  BY <1>2, <1>6 DEF IInv

LEMMA SameSlots ==
  ASSUME SlotsOnce, UNCHANGED <<cfgIdx, count>>
  PROVE  SlotsOnce'
BY DEF SlotsOnce

LEMMA InUse ==
  ASSUME NEW n \in 0..Wans
  PROVE  0..(n - 1) \subseteq Dp
BY WanFinite DEF Dp

LEMMA PickInv ==
  ASSUME IInv, UNCHANGED unsent, left' \in Budget
  PROVE  IInv'
BY SameSlots DEF IInv, TypeInv, unsent, slotVars, linkVars, lockVars

LEMMA SendersInv ==
  ASSUME IInv, (\E k \in Sender : Process(k)) \/ (\E d \in Dp : Send(d))
  PROVE  IInv'
<1>1. UNCHANGED unsent
  BY DEF Process, PickBegin, PickSlot, PickCheck, PickRoom, PickOther, PushWan, Send
<1>2. left' \in Budget
  BY Spent DEF IInv, TypeInv, Process, PickBegin, PickSlot, PickCheck, PickRoom, PickOther, PushWan,
     Send
<1> QED
  BY <1>1, <1>2, PickInv

LEMMA ReloadDrainsInv ==
  ASSUME IInv, NEW c \in Cfgs, ReloadDrains(c)
  PROVE  IInv'
<1> USE DEF IInv
<1>1. drain' \in [Dp -> [age : Age \cup {NoAge}, wan : Wan, seed : Nat]]
  <2>1. ASSUME NEW w \in Wan
        PROVE  [age |-> 0, wan |-> w, seed |-> Least1(cfg.weight[w])]
                 \in [age : Age \cup {NoAge}, wan : Wan, seed : Nat]
    <3>1. cfg.weight[w] \in Int
      BY CfgType DEF TypeInv
    <3>2. 0 \in Age
      BY WanSchedAssumption DEF Age
    <3> QED
      BY <3>1, <3>2, Least1Positive
  <2>2. \A d \in Dp : drain[d] \in [age : Age \cup {NoAge}, wan : Wan, seed : Nat]
    BY DEF TypeInv
  <2> QED
    BY <2>1, <2>2 DEF ReloadDrains
<1>2. left' \in Budget
  BY Spent DEF ReloadDrains, TypeInv
<1>3. TypeInv'
  BY <1>1, <1>2 DEF ReloadDrains, TypeInv, slotVars, linkVars
<1>4. SlotsOnce'
  BY SameSlots DEF ReloadDrains, slotVars
<1> QED
  BY <1>3, <1>4

LEMMA ReloadAttachInv ==
  ASSUME IInv, ReloadAttach
  PROVE  IInv'
<1> USE DEF IInv
<1>1. PICK m, s, n : /\ m = Len(Missing) /\ s = Missing /\ n = count /\ n \in 0..Wans
  BY DEF TypeInv
<1>2. /\ m \in Nat /\ n + m <= Wans
      /\ \A i \in 1..m : /\ s[i] \in Wan /\ SlotsOf(s[i]) = {}
                        /\ \A j \in 1..m : s[i] = s[j] => i = j
  BY <1>1, MissingFits DEF TypeInv
<1>3. /\ cfgIdx' = [d \in Dp |-> IF d \in n..(n + m - 1) THEN s[d - n + 1] ELSE cfgIdx[d]]
      /\ stopped' = stopped \ (n..(n + m - 1)) /\ count' = n + m
  BY <1>1 DEF ReloadAttach
<1>4. \A d \in n..(n + m - 1) : d - n + 1 \in 1..m /\ d \in Dp
  BY <1>1, <1>2, WanFinite DEF Dp
<1>5. \A d \in Dp : cfgIdx'[d] = IF d \in n..(n + m - 1) THEN s[d - n + 1] ELSE cfgIdx[d]
  BY <1>3
<1>6. cfgIdx' \in [Dp -> Wan \cup {-1}]
  BY <1>2, <1>3, <1>4 DEF TypeInv
<1>7. count' \in 0..Wans /\ stopped' \subseteq Dp
  <2>1. n + m \in 0..Wans
    BY <1>1, <1>2, WanFinite
  <2>2. stopped \subseteq Dp
    BY DEF TypeInv
  <2> QED
    BY <1>3, <2>1, <2>2
<1>8. TypeInv'
  BY <1>6, <1>7 DEF ReloadAttach, TypeInv, linkVars
<1>9. SlotsOnce'
  <2> SUFFICES ASSUME NEW d \in 0..(count' - 1), NEW e \in 0..(count' - 1)
               PROVE  cfgIdx'[d] \in Wan /\ (cfgIdx'[d] = cfgIdx'[e] => d = e)
    BY DEF SlotsOnce
  <2>a. d \in 0..(n + m - 1) /\ e \in 0..(n + m - 1)
    <3>1. count' = n + m
      BY <1>3
    <3>2. n \in Int /\ m \in Int
      BY <1>1, <1>2, WanFinite
    <3> QED
      BY <3>1, <3>2
  <2>0. d \in Dp /\ e \in Dp /\ d \in Nat /\ e \in Nat
    BY <1>1, <1>2, <2>a, WanFinite DEF Dp
  <2>1. \A x \in 0..(n - 1) : /\ cfgIdx[x] \in Wan
                              /\ \A y \in 0..(n - 1) : cfgIdx[x] = cfgIdx[y] => x = y
                              /\ \A i \in 1..m : s[i] # cfgIdx[x]
    BY <1>1, <1>2 DEF SlotsOnce, SlotsOf
  <2>2. \A x \in 0..(n + m - 1) :
          IF x \in 0..(n - 1) THEN cfgIdx'[x] = cfgIdx[x]
          ELSE x \in n..(n + m - 1) /\ x - n + 1 \in 1..m /\ cfgIdx'[x] = s[x - n + 1]
    <3> SUFFICES ASSUME NEW x \in 0..(n + m - 1)
                 PROVE  IF x \in 0..(n - 1) THEN cfgIdx'[x] = cfgIdx[x]
                        ELSE /\ x \in n..(n + m - 1) /\ x - n + 1 \in 1..m
                             /\ cfgIdx'[x] = s[x - n + 1]
      OBVIOUS
    <3>1. x \in Dp
      BY <1>1, <1>2, WanFinite DEF Dp
    <3>2. x \in 0..(n - 1) <=> x \notin n..(n + m - 1)
      BY <1>1, <1>2
    <3> QED
      BY <1>4, <1>5, <3>1, <3>2
  <2>5. IF e \in 0..(n - 1) THEN cfgIdx'[e] = cfgIdx[e]
        ELSE e - n + 1 \in 1..m /\ cfgIdx'[e] = s[e - n + 1]
    BY <2>a, <2>2
  <2>3. CASE d \in 0..(n - 1)
    <3>1. cfgIdx'[d] = cfgIdx[d]
      BY <2>a, <2>2, <2>3
    <3> QED
      BY <2>1, <2>3, <3>1, <2>5
  <2>4. CASE d \notin 0..(n - 1)
    <3>1. d \in n..(n + m - 1) /\ d - n + 1 \in 1..m /\ cfgIdx'[d] = s[d - n + 1]
      BY <2>a, <2>2, <2>4
    <3>2. CASE e \in 0..(n - 1)
      <4>1. cfgIdx'[e] = cfgIdx[e]
        BY <2>a, <2>2, <3>2
      <4> QED
        BY <1>2, <2>1, <3>1, <3>2, <4>1
    <3>3. CASE e \notin 0..(n - 1)
      <4>1. e \in n..(n + m - 1) /\ e - n + 1 \in 1..m /\ cfgIdx'[e] = s[e - n + 1]
        BY <2>a, <2>2, <3>3
      <4>2. s[d - n + 1] = s[e - n + 1] => d - n + 1 = e - n + 1
        BY <1>2, <3>1, <4>1
      <4>3. d - n + 1 = e - n + 1 => d = e
        BY <2>0, <1>1
      <4>4. s[d - n + 1] \in Wan
        BY <1>2, <3>1
      <4> QED
        BY <3>1, <4>1, <4>2, <4>3, <4>4
    <3> QED
      BY <3>2, <3>3
  <2> QED
    BY <2>3, <2>4
<1> QED
  BY <1>8, <1>9

LEMMA ReloadFailsInv ==
  ASSUME IInv, ReloadFails
  PROVE  IInv'
<1> USE DEF IInv
<1>1. PICK k \in 0..(Len(Missing) - 1) :
        /\ cfgIdx' = [d \in Dp |-> IF d \in count..(count + k - 1) THEN -1 ELSE cfgIdx[d]]
        /\ stopped' = stopped \cup (count..(count + k - 1))
  BY DEF ReloadFails
<1>2. count \in 0..Wans /\ Len(Missing) \in Nat /\ count + Len(Missing) <= Wans
  BY MissingFits DEF TypeInv
<1>3. count..(count + k - 1) \subseteq Dp
  BY <1>2, WanFinite DEF Dp
<1>4. TypeInv'
  BY <1>1, <1>3 DEF ReloadFails, TypeInv, linkVars
<1>5. count' = count
  BY DEF ReloadFails
<1>6. \A d \in 0..(count - 1) : d \in Dp /\ d \notin count..(count + k - 1)
  BY <1>2, WanFinite DEF Dp
<1>7. \A d \in 0..(count - 1) : cfgIdx'[d] = cfgIdx[d]
  BY <1>1, <1>6
<1>8. SlotsOnce'
  BY <1>5, <1>7 DEF SlotsOnce
<1> QED
  BY <1>4, <1>8

LEMMA ReloadRestInv ==
  ASSUME IInv, ReloadInstall \/ ReloadBlend \/ ReloadLinks
  PROVE  IInv'
<1> USE DEF IInv
<1>1. CASE ReloadInstall
  <2>1. TypeInv'
    BY <1>1 DEF ReloadInstall, TypeInv, slotVars, linkVars
  <2> QED
    BY <1>1, <2>1, SameSlots DEF ReloadInstall, slotVars
<1>2. CASE ReloadBlend
  <2>1. cfg.weight \in [Wan -> Nat] /\ other.weight \in [Wan -> Nat] /\ 0 \in Age
    BY WanSchedAssumption DEF TypeInv, Age
  <2>2. blend' \in [age : Age \cup {NoAge}, old : [Wan -> Nat], new : [Wan -> Nat]]
    BY <1>2, <2>1 DEF ReloadBlend, TypeInv
  <2>3. TypeInv'
    BY <1>2, <2>2 DEF ReloadBlend, TypeInv, slotVars, linkVars
  <2> QED
    BY <1>2, <2>3, SameSlots DEF ReloadBlend, slotVars
<1>3. CASE ReloadLinks
  <2>1. TypeInv'
    BY <1>3, LinksType DEF ReloadLinks, TypeInv, slotVars
  <2> QED
    BY <1>3, <2>1, SameSlots DEF ReloadLinks, slotVars
<1> QED
  BY <1>1, <1>2, <1>3

LEMMA RestartInv ==
  ASSUME IInv, NEW c \in Cfgs, Restart(c)
  PROVE  IInv'
<1> USE DEF IInv
<1>1. cfgIdx' = DpToCfg(c) /\ count' = Cardinality(Live(c)) /\ count' \in 0..Wans
  BY LiveWan DEF Restart
<1>2. cfgIdx' \in [Dp -> Wan]
  BY <1>1, DpToCfgSlots
<1>3. SlotsOnce'
  <2> SUFFICES ASSUME NEW d \in 0..(count' - 1)
               PROVE  /\ cfgIdx'[d] \in Wan
                      /\ \A e \in 0..(count' - 1) : cfgIdx'[d] = cfgIdx'[e] => d = e
    BY DEF SlotsOnce
  <2>1. d \in Dp
    BY <1>1, WanFinite DEF Dp
  <2> QED
    BY <1>1, <1>2, <2>1, DpToCfgSlots
<1>4. linkDp' \in [Wan -> Dp \cup {NoDp}]
  BY LinksType DEF Restart
<1>5. NoDrain \in [age : Age \cup {NoAge}, wan : Wan, seed : Nat]
  BY WanFinite DEF NoDrain, Wan
<1>6. usable' \in 0..Wans
  BY LiveWan DEF Restart
<1>7. left' \in Budget
  BY Spent DEF Restart, TypeInv
<1>8. TypeInv'
  BY <1>1, <1>2, <1>4, <1>5, <1>6, <1>7 DEF Restart, TypeInv
<1> QED
  BY <1>3, <1>8

LEMMA DueSlots ==
  ASSUME TypeInv
  PROVE  Due \subseteq Dp
BY WanFinite DEF Due, Dp, TypeInv

LEMMA RampsType ==
  ASSUME TypeInv, EndRamps
  PROVE  /\ join' \in [Wan -> Age \cup {NoAge}]
         /\ blend' \in [age : Age \cup {NoAge}, old : [Wan -> Nat], new : [Wan -> Nat]]
BY DEF EndRamps, TypeInv

LEMMA MaintInv ==
  ASSUME IInv, Maint \/ MaintStop
  PROVE  IInv'
<1> USE DEF IInv
<1>1. CASE MaintFlush
  <2>1. TypeInv'
    BY <1>1, DueSlots DEF MaintFlush, TypeInv, slotVars, linkVars
  <2> QED
    BY <1>1, <2>1, SameSlots DEF MaintFlush, slotVars
<1>2. CASE MaintStop
  <2>1. drain' \in [Dp -> [age : Age \cup {NoAge}, wan : Wan, seed : Nat]]
    BY <1>2 DEF MaintStop, TypeInv
  <2>2. TypeInv'
    BY <1>2, <2>1, RampsType DEF MaintStop, TypeInv, slotVars, linkVars
  <2> QED
    BY <1>2, <2>2, SameSlots DEF MaintStop, slotVars
<1>3. CASE MaintTick
  <2>1. TypeInv'
    BY <1>3, RampsType DEF MaintTick, TypeInv, slotVars, linkVars, lockVars
  <2> QED
    BY <1>3, <2>1, SameSlots DEF MaintTick, slotVars
<1> QED
  BY <1>1, <1>2, <1>3 DEF Maint

LEMMA NamedSlot ==
  ASSUME TypeInv, NEW w \in Wan, NamedDp(w) # NoDp
  PROVE  NamedDp(w) \in Dp
<1>1. PICK A, B : A = SlotsOf(w) /\ B = {d \in Dp : cfgIdx[d] = w}
  OBVIOUS
<1>2. A \in SUBSET Wan /\ B \in SUBSET Wan
  <2>1. 0..(count - 1) \subseteq Dp
    BY InUse DEF TypeInv
  <2> QED
    BY <1>1, <2>1, WanFinite DEF SlotsOf
<1>3. A \subseteq Nat /\ B \subseteq Nat
  BY <1>2, WanFinite
<1>4. (A # {} => Min(A) \in A) /\ (B # {} => Min(B) \in B)
  BY <1>3, MinIsLeast
<1> QED
  BY <1>1, <1>2, <1>4, WanFinite DEF NamedDp

LEMMA AdminInv ==
  ASSUME IInv, (\E w \in Kickable : WanAdmin(w)) \/ KickHold
  PROVE  IInv'
<1> USE DEF IInv
<1>1. 0 \in Age
  BY WanSchedAssumption DEF Age
<1>2. ASSUME NEW w \in Kickable, KickFlush(w)
      PROVE  IInv'
  <2>1. NamedDp(w) \in Dp
    BY <1>2, NamedSlot, WanSchedAssumption DEF KickFlush
  <2>2. TypeInv'
    BY <1>2, <2>1, Spent DEF KickFlush, TypeInv, slotVars, linkVars
  <2> QED
    BY <1>2, <2>2, SameSlots DEF KickFlush, slotVars
<1>3. CASE KickHold
  <2>1. TypeInv'
    BY <1>3 DEF KickHold, TypeInv, slotVars, linkVars
  <2> QED
    BY <1>3, <2>1, SameSlots DEF KickHold, slotVars
<1>4. ASSUME NEW w \in Kickable, Restore(w)
      PROVE  IInv'
  <2>1. TypeInv'
    BY <1>1, <1>4, Spent, WanSchedAssumption DEF Restore, TypeInv, slotVars, linkVars, lockVars
  <2> QED
    BY <1>4, <2>1, SameSlots DEF Restore, slotVars
<1> QED
  BY <1>2, <1>3, <1>4 DEF WanAdmin

LEMMA FlapInv ==
  ASSUME IInv, NEW w \in Unsteady, Flap(w)
  PROVE  IInv'
<1> USE DEF IInv
<1>1. linkUp' \in [Wan -> BOOLEAN]
  BY WanSchedAssumption DEF Flap, TypeInv
<1>2. TypeInv'
  BY <1>1, Spent DEF Flap, TypeInv, slotVars, lockVars
<1> QED
  BY <1>2, SameSlots DEF Flap, slotVars

LEMMA TickInv ==
  ASSUME IInv, Tick
  PROVE  IInv'
<1> USE DEF IInv
<1>1. \A a \in Age \cup {NoAge} : Older(a) \in Age \cup {NoAge}
  BY WanSchedAssumption DEF Older, Age, NoAge
<1>2. drain' \in [Dp -> [age : Age \cup {NoAge}, wan : Wan, seed : Nat]]
  BY <1>1 DEF Tick, TypeInv
<1>3. join' \in [Wan -> Age \cup {NoAge}]
  BY <1>1 DEF Tick, TypeInv
<1>4. blend' \in [age : Age \cup {NoAge}, old : [Wan -> Nat], new : [Wan -> Nat]]
  BY <1>1 DEF Tick, TypeInv
<1>5. TypeInv'
  BY <1>2, <1>3, <1>4 DEF Tick, TypeInv, slotVars, linkVars, lockVars
<1> QED
  BY <1>5, SameSlots DEF Tick, slotVars

LEMMA StutterInv ==
  ASSUME IInv, UNCHANGED vars
  PROVE  IInv'
BY PickInv DEF IInv, TypeInv, vars, unsent

(* The types hold, and no WAN has two slots nor a slot two WANs, through   *)
(* every reload that attaches WANs and every one that fails half way.      *)
THEOREM Inductive == Spec => []IInv
<1>1. Init => IInv
  BY InitInv
<1>2. IInv /\ [Next]_vars => IInv'
  BY SendersInv, ReloadDrainsInv, ReloadAttachInv, ReloadFailsInv, ReloadRestInv, RestartInv,
     MaintInv, AdminInv, FlapInv, TickInv, StutterInv DEF Next, ReloadStep
<1> QED
  BY <1>1, <1>2, PTL DEF Spec

----------------------------------------------------------------------------
(* The senders.                                                            *)

SendType ==
  /\ wpc \in [Sender -> {"idle", "pool", "check", "room", "other", "push"}]
  /\ target \in [Sender -> Dp \cup {NoDp}] /\ pool \in [Sender -> SUBSET Wan]
  /\ queued \in [Dp -> 0..RingCap] /\ late \in [Dp -> SUBSET Sender]

LEMMA FlagsSame ==
  ASSUME NEW d \in Dp, UNCHANGED <<stopped, hold, linkDp, linkUp, usable>>,
         drain'[d].age = NoAge <=> drain[d].age = NoAge
  PROVE  Flags(d)' = Flags(d)
<1>1. Excluded(d)' = Excluded(d)
  BY DEF Excluded
<1>2. (drain'[d].age = NoAge) = (drain[d].age = NoAge)
  OBVIOUS
<1>3. /\ (d \in stopped') = (d \in stopped) /\ (d \in hold') = (d \in hold)
      /\ (d < usable') = (d < usable)
  OBVIOUS
<1> QED
  BY <1>1, <1>2, <1>3, Zenon DEF Flags

LEMMA FlagsTell ==
  ASSUME NEW d \in Dp, Flags(d)' = Flags(d)
  PROVE  (Ok(d)' <=> Ok(d)) /\ (Steady(d)' <=> Steady(d))
BY DEF Flags, Open, Steady, Ok

(* What a step that is no sender's does to what the senders are about: it  *)
(* leaves them alone, puts nothing in a ring, and either keeps a slot's    *)
(* flags or begins its history afresh.                                     *)
Bystander ==
  /\ UNCHANGED pickVars /\ late' \in [Dp -> SUBSET Sender] /\ queued' \in [Dp -> 0..RingCap]
  /\ \A d \in Dp : /\ queued'[d] <= queued[d]
                   /\ late'[d] = {} \/ (late'[d] = late[d] /\ Flags(d)' = Flags(d))

Aside ==
  \/ \E c \in Cfgs : ReloadDrains(c)
  \/ ReloadStep \/ Maint \/ MaintStop
  \/ \E w \in Kickable : WanAdmin(w)
  \/ KickHold
  \/ \E w \in Unsteady : Flap(w)
  \/ Tick
  \/ \E d \in Dp : Send(d)
  \/ UNCHANGED vars

LEMMA QueueType ==
  ASSUME SendType
  PROVE  RingCap \in Nat /\ \A d \in Dp : queued[d] \in 0..RingCap
BY WanSchedAssumption DEF SendType

LEMMA RememberBy ==
  ASSUME SendType, Remember, UNCHANGED <<pickVars, queued>>
  PROVE  Bystander
<1>1. late' \in [Dp -> SUBSET Sender]
  BY DEF Remember, SendType
<1>2. \A d \in Dp : late'[d] = {} \/ (late'[d] = late[d] /\ Flags(d)' = Flags(d))
  BY DEF Remember
<1> QED
  BY <1>1, <1>2, QueueType DEF Bystander, SendType

LEMMA KeepBy ==
  ASSUME SendType, UNCHANGED <<pickVars, late, stopped, hold, linkVars, usable>>,
         \A d \in Dp : drain'[d].age = NoAge <=> drain[d].age = NoAge,
         queued' \in [Dp -> 0..RingCap], \A d \in Dp : queued'[d] <= queued[d]
  PROVE  Bystander
<1>1. \A d \in Dp : Flags(d)' = Flags(d)
  BY FlagsSame DEF linkVars
<1> QED
  BY <1>1 DEF Bystander, SendType

LEMMA Bystanders ==
  ASSUME TypeInv, SendType, Aside
  PROVE  Bystander
<1> USE QueueType
<1>1. ASSUME NEW c \in Cfgs, ReloadDrains(c)
      PROVE  Bystander
  BY <1>1, RememberBy DEF ReloadDrains
<1>2. CASE ReloadAttach \/ ReloadFails \/ ReloadLinks
  BY <1>2, RememberBy DEF ReloadAttach, ReloadFails, ReloadLinks
<1>3. CASE ReloadInstall \/ ReloadBlend
  BY <1>3, KeepBy DEF ReloadInstall, ReloadBlend, sendVars, slotVars, SendType
<1>4. CASE MaintFlush
  <2>1. queued' \in [Dp -> 0..RingCap] /\ \A d \in Dp : queued'[d] <= queued[d]
    BY <1>4 DEF MaintFlush, SendType
  <2> QED
    BY <1>4, <2>1, KeepBy DEF MaintFlush, slotVars
<1>5. CASE MaintTick
  BY <1>5, KeepBy DEF MaintTick, sendVars, slotVars, SendType
<1>6. CASE MaintStop
  BY <1>6, RememberBy DEF MaintStop
<1>7. ASSUME NEW w \in Kickable, KickFlush(w)
      PROVE  Bystander
  <2>1. PICK n \in Dp : queued' = [queued EXCEPT ![n] = IF n < count THEN 0 ELSE @]
    <3>1. NamedDp(w) \in Dp
      BY <1>7, NamedSlot, WanSchedAssumption DEF KickFlush
    <3> QED
      BY <1>7, <3>1 DEF KickFlush
  <2>2. queued' \in [Dp -> 0..RingCap] /\ \A d \in Dp : queued'[d] <= queued[d]
    BY <2>1 DEF SendType
  <2> QED
    BY <1>7, <2>2, KeepBy DEF KickFlush, slotVars
<1>8. ASSUME NEW w \in Kickable, Restore(w)
      PROVE  Bystander
  BY <1>8, RememberBy DEF Restore
<1>9. CASE KickHold
  BY <1>9, RememberBy DEF KickHold
<1>10. ASSUME NEW w \in Unsteady, Flap(w)
       PROVE  Bystander
  BY <1>10, RememberBy DEF Flap
<1>11. CASE Tick
  <2>1. \A d \in Dp : drain'[d].age = NoAge <=> drain[d].age = NoAge
    <3>1. \A a \in Age \cup {NoAge} : Older(a) = NoAge <=> a = NoAge
      BY WanSchedAssumption DEF Older, Age, NoAge
    <3>2. \A d \in Dp : drain[d].age \in Age \cup {NoAge} /\ drain'[d].age = Older(drain[d].age)
      BY <1>11 DEF Tick, TypeInv
    <3> QED
      BY <3>1, <3>2
  <2> QED
    BY <1>11, <2>1, KeepBy DEF Tick, sendVars, slotVars, SendType
<1>12. ASSUME NEW d \in Dp, Send(d)
       PROVE  Bystander
  <2>1. queued' \in [Dp -> 0..RingCap] /\ \A e \in Dp : queued'[e] <= queued[e]
    BY <1>12 DEF Send, SendType
  <2> QED
    BY <1>12, <2>1, KeepBy DEF Send, unsent, slotVars
<1>13. CASE UNCHANGED vars
  BY <1>13, KeepBy DEF vars, sendVars, slotVars, SendType
<1> QED
  BY <1>1, <1>2, <1>3, <1>4, <1>5, <1>6, <1>7, <1>8, <1>9, <1>10, <1>11, <1>12, <1>13
     DEF Aside, ReloadStep, Maint, WanAdmin

LEMMA NextParts ==
  ASSUME [Next]_vars
  PROVE  Aside \/ (\E k \in Sender : Process(k)) \/ \E c \in Cfgs : Restart(c)
BY DEF Next, Aside

(* The slots a sender may choose.                                          *)
LEMMA FirstSlot ==
  ASSUME TypeInv, NEW w, SlotsOf(w) # {}
  PROVE  Min(SlotsOf(w)) \in SlotsOf(w) /\ SlotsOf(w) \subseteq Dp
<1>1. SlotsOf(w) \subseteq Dp
  BY InUse DEF SlotsOf, TypeInv
<1> QED
  BY <1>1, MinIsLeast, WanFinite

LEMMA ChoiceSlots ==
  ASSUME TypeInv
  PROVE  /\ \A w \in Wan : Scheduled(w) \in Dp /\ (Scheduled(w) # 0 => Open(Scheduled(w)))
         /\ \A d \in Others : d \in Dp /\ Open(d)
         /\ 0 \in Dp /\ NoDp \notin Dp
<1>1. 0 \in Dp /\ NoDp \notin Dp
  BY WanFinite DEF Dp, NoDp
<1>2. ASSUME NEW w \in Wan
      PROVE  (LiveDp(w) # NoDp => LiveDp(w) \in Dp) /\ (LegacyDp(w) # NoDp => LegacyDp(w) \in Dp)
  <2>1. LiveDp(w) # NoDp => LiveDp(w) \in Dp
    BY FirstSlot DEF LiveDp
  <2>2. PICK D : D = {x \in Draining : drain[x].wan = w}
    OBVIOUS
  <2>3. D \subseteq Dp
    BY <2>2, InUse DEF Draining, TypeInv
  <2>4. D # {} => Min(D) \in Dp
    BY <2>3, MinIsLeast, WanFinite
  <2> QED
    BY <2>1, <2>2, <2>4 DEF LegacyDp
<1>3. \A w \in Wan : Scheduled(w) \in Dp /\ (Scheduled(w) # 0 => Open(Scheduled(w)))
  BY <1>1, <1>2 DEF Scheduled
<1>4. \A d \in Others : d \in Dp /\ Open(d)
  BY FirstSlot DEF Others
<1> QED
  BY <1>1, <1>3, <1>4

(* What PickSlot may choose.                                               *)
LEMMA SlotChosen ==
  ASSUME TypeInv, SendType, NEW k \in Sender, PickSlot(k)
  PROVE  \E d \in Dp : (d # 0 => Open(d)) /\ target' = [target EXCEPT ![k] = d]
<1>1. PICK d \in IF pool[k] = {} THEN {0} ELSE {Scheduled(w) : w \in pool[k]} :
        target' = [target EXCEPT ![k] = d]
  BY DEF PickSlot
<1>2. pool[k] \subseteq Wan
  BY DEF SendType
<1> QED
  BY <1>1, <1>2, ChoiceSlots

LEMMA SendTypeStep ==
  ASSUME TypeInv, SendType, [Next]_vars
  PROVE  SendType'
<1>1. CASE Aside
  BY <1>1, Bystanders DEF Bystander, SendType, pickVars
<1>2. ASSUME NEW c \in Cfgs, Restart(c)
      PROVE  SendType'
  BY <1>2, WanSchedAssumption DEF Restart, SendType
<1>3. ASSUME NEW k \in Sender, Process(k)
      PROVE  SendType'
  <2>1. CASE PickBegin(k)
    <3>1. {e.wan : e \in Range(BuildPool)} \in SUBSET Wan
      BY PoolType
    <3> QED
      BY <2>1, <3>1 DEF PickBegin, SendType
  <2>2. CASE PickSlot(k)
    <3>1. target' \in [Sender -> Dp \cup {NoDp}]
      BY <2>2, SlotChosen DEF SendType
    <3> QED
      BY <2>2, <3>1 DEF PickSlot, SendType
  <2>3. CASE PickCheck(k)
    BY <2>3, ChoiceSlots DEF PickCheck, SendType
  <2>4. CASE PickRoom(k)
    BY <2>4, ChoiceSlots DEF PickRoom, SendType
  <2>5. CASE PickOther(k)
    BY <2>5 DEF PickOther, SendType
  <2>6. CASE PushWan(k)
    <3>1. queued' \in [Dp -> 0..RingCap]
      BY <2>6, QueueType DEF PushWan, SendType
    <3>2. late' \in [Dp -> SUBSET Sender]
      BY <2>6 DEF PushWan, SendType
    <3> QED
      BY <2>6, <3>1, <3>2 DEF PushWan, SendType
  <2> QED
    BY <1>3, <2>1, <2>2, <2>3, <2>4, <2>5, <2>6 DEF Process
<1> QED
  BY <1>1, <1>2, <1>3, NextParts

(* The types of the senders hold.                                          *)
THEOREM SendersTyped == Spec => []SendType
<1>1. Init => SendType
  BY WanSchedAssumption DEF Init, SendType
<1>2. IInv /\ SendType /\ [Next]_vars => SendType'
  BY SendTypeStep DEF IInv
<1> QED
  BY <1>1, <1>2, Inductive, PTL DEF Spec

(* Every variable keeps its type, and no pool that is built holds a WAN    *)
(* without weight: it would starve, or divide by zero, in the flow table.  *)
THEOREM TypeCorrect == Spec => []TypeOK
<1>1. IInv /\ SendType => TypeOK
  BY PoolType DEF IInv, TypeInv, SendType, TypeOK
<1> QED
  BY <1>1, Inductive, SendersTyped, PTL

----------------------------------------------------------------------------
(* A slot that closes gets at most one more datagram from each sender.     *)

(* A sender whose datagram came late is not about to push another one: it  *)
(* may come upon the slot again, but only where it has still to look at    *)
(* the flag that is against it.                                            *)
LateInv ==
  \A d \in Dp \ {0} : \A k \in late[d] :
    /\ ~Ok(d)
    /\ target[k] = d => wpc[k] \in {"check", "other"} /\ ~Steady(d)

LEMMA LateSender ==
  ASSUME TypeInv, SendType, LateInv, NEW k \in Sender, Process(k)
  PROVE  LateInv'
<1>1. UNCHANGED unsent
  BY DEF Process, PickBegin, PickSlot, PickCheck, PickRoom, PickOther, PushWan
<1>2. \A d \in Dp : (Ok(d)' <=> Ok(d)) /\ (Steady(d)' <=> Steady(d))
  <2>1. \A d \in Dp : Flags(d)' = Flags(d)
    BY <1>1, FlagsSame DEF unsent, slotVars, linkVars
  <2> QED
    BY <2>1, FlagsTell
<1> SUFFICES ASSUME NEW d \in Dp \ {0}, NEW j \in late'[d]
             PROVE  /\ ~Ok(d)
                    /\ target'[j] = d => wpc'[j] \in {"check", "other"} /\ ~Steady(d)
  BY <1>2 DEF LateInv
<1>3. NoDp # d
  BY ChoiceSlots
<1>4. \A e \in Dp : late[e] \subseteq Sender
  BY DEF SendType
<1>5. CASE PickBegin(k)
  BY <1>4, <1>5 DEF PickBegin, LateInv, SendType
<1>6. CASE PickSlot(k)
  <2>1. PICK e \in Dp : (e # 0 => Open(e)) /\ target' = [target EXCEPT ![k] = e]
    BY <1>6, SlotChosen
  <2>2. j \in late[d] /\ j \in Sender /\ wpc' = [wpc EXCEPT ![k] = "check"]
    BY <1>4, <1>6 DEF PickSlot
  <2> QED
    BY <2>1, <2>2 DEF LateInv, SendType, Ok
<1>7. CASE PickCheck(k)
  <2>1. /\ j \in late[d] /\ j \in Sender /\ wpc' = [wpc EXCEPT ![k] = "room"]
        /\ target' = [target EXCEPT ![k] = IF Steady(@) THEN @ ELSE 0]
    BY <1>4, <1>7 DEF PickCheck
  <2>2. CASE j = k
    <3>1. target'[j] = d => target[j] = d /\ Steady(d)
      BY <2>1, <2>2 DEF SendType
    <3> QED
      BY <2>1, <3>1 DEF LateInv
  <2>3. CASE j # k
    BY <2>1, <2>3 DEF LateInv, SendType
  <2> QED
    BY <2>2, <2>3
<1>8. CASE PickRoom(k)
  <2>1. j \in late[d] /\ j \in Sender /\ wpc[k] = "room"
    BY <1>4, <1>8 DEF PickRoom
  <2>2. CASE j # k
    BY <1>8, <2>1, <2>2 DEF PickRoom, LateInv, SendType
  <2>3. CASE j = k /\ UNCHANGED target
    BY <2>1, <2>3 DEF LateInv
  <2>4. CASE j = k /\ \E e \in Others :
                 /\ wpc' = [wpc EXCEPT ![k] = "other"] /\ target' = [target EXCEPT ![k] = e]
    BY <2>1, <2>4, ChoiceSlots DEF LateInv, SendType, Ok
  <2>5. CASE j = k /\ target' = [target EXCEPT ![k] = NoDp]
    BY <1>3, <2>1, <2>5 DEF LateInv, SendType
  <2> QED
    BY <1>8, <2>2, <2>3, <2>4, <2>5 DEF PickRoom
<1>9. CASE PickOther(k)
  <2>1. /\ j \in late[d] /\ j \in Sender
        /\ wpc' = [wpc EXCEPT ![k] = IF Steady(target[k]) THEN "push" ELSE "idle"]
        /\ target' = [target EXCEPT ![k] = IF Steady(target[k]) THEN @ ELSE NoDp]
    BY <1>4, <1>9 DEF PickOther
  <2>2. CASE j = k
    <3>1. target'[j] = d => target[j] = d /\ Steady(d)
      BY <1>3, <2>1, <2>2 DEF SendType
    <3> QED
      BY <2>1, <3>1 DEF LateInv
  <2>3. CASE j # k
    BY <2>1, <2>3 DEF LateInv, SendType
  <2> QED
    BY <2>2, <2>3
<1>10. CASE PushWan(k)
  <2>1. /\ target' = [target EXCEPT ![k] = NoDp] /\ wpc' = [wpc EXCEPT ![k] = "idle"]
    BY <1>10 DEF PushWan
  <2>4. \/ late' = late
        \/ ~Ok(target[k]) /\ late' = [late EXCEPT ![target[k]] = @ \cup {k}]
    BY <1>10 DEF PushWan
  <2>2. CASE j \in late[d]
    BY <1>3, <1>4, <2>1, <2>2 DEF LateInv, SendType
  <2>3. CASE j \notin late[d]
    <3>1. j = k /\ d = target[k] /\ ~Ok(d)
      BY <2>3, <2>4 DEF SendType
    <3> QED
      BY <1>3, <2>1, <3>1 DEF SendType
  <2> QED
    BY <2>2, <2>3
<1> QED
  BY <1>5, <1>6, <1>7, <1>8, <1>9, <1>10 DEF Process

LEMMA LateStep ==
  ASSUME TypeInv, SendType, LateInv, [Next]_vars
  PROVE  LateInv'
<1>1. CASE Aside
  <2>1. Bystander
    BY <1>1, Bystanders
  <2> SUFFICES ASSUME NEW d \in Dp \ {0}, NEW k \in late'[d]
               PROVE  /\ ~Ok(d)'
                      /\ target'[k] = d => wpc'[k] \in {"check", "other"} /\ ~Steady(d)'
    BY DEF LateInv
  <2>2. k \in late[d] /\ Flags(d)' = Flags(d) /\ target'[k] = target[k] /\ wpc'[k] = wpc[k]
    BY <2>1 DEF Bystander, pickVars
  <2> QED
    BY <2>2, FlagsTell DEF LateInv
<1>2. ASSUME NEW c \in Cfgs, Restart(c)
      PROVE  LateInv'
  BY <1>2 DEF Restart, LateInv
<1> QED
  BY <1>1, <1>2, LateSender, NextParts

(* For any number of senders and WANs, and reloads, kicks, restores and    *)
(* link changes that come between any two steps of a sender: what is       *)
(* chosen before a slot closes is pushed once, and what is chosen after it *)
(* is not pushed there.                                                    *)
THEOREM OneLateEach == Spec => LateOnce
<1>1. Init => LateInv
  BY DEF Init, LateInv
<1>2. IInv /\ SendType /\ LateInv /\ [Next]_vars => LateInv'
  BY LateStep DEF IInv
<1>3. ASSUME LateInv
      PROVE  \A k \in Sender, d \in Dp \ {0} :
               /\ wpc[k] = "push" /\ wpc'[k] = "idle" /\ target[k] = d
               /\ queued'[d] > queued[d] /\ ~Ok(d)
               => k \notin late[d]
  BY <1>3 DEF LateInv
<1> QED
  BY <1>1, <1>2, <1>3, Inductive, SendersTyped, PTL DEF Spec, LateOnce

----------------------------------------------------------------------------
(* What a stopped slot's rings keep.                                       *)

(* The senders that chose slot d, and those among them that are past the   *)
(* check of its drain.                                                     *)
Chosen(d) == {k \in Sender : target[k] = d}
Firm(d) == {k \in Chosen(d) : wpc[k] \in {"room", "push"}}

Senders == Cardinality(Sender)

(* Between the flush and the stop the slot still drains, so nobody passes  *)
(* the check: the rings get what was on its way.  At the stop those that   *)
(* have yet to make the check may pass it, and after it nobody chooses the *)
(* slot again.                                                             *)
StrandInv ==
  /\ usable <= count
  /\ rpc = "maint" => \A d \in flushed : drain[d].age # NoAge
  /\ \A d \in Dp \ {0} :
       /\ d >= usable => queued[d] = 0 /\ Firm(d) = {}
       /\ rpc = "maint" /\ d \in flushed => queued[d] + Cardinality(Firm(d)) <= Senders
       /\ d \in stopped => queued[d] + Cardinality(Chosen(d)) <= 2 * Senders

LEMMA SendersFinite ==
  /\ Senders \in Nat
  /\ \A A \in SUBSET Sender :
       Cardinality(A) \in Nat /\ Cardinality(A) <= Senders /\ IsFiniteSet(A)
BY WanSchedAssumption, FS_Subset, FS_CardinalityType DEF Senders

LEMMA Fewer ==
  ASSUME NEW A \in SUBSET Sender, NEW B \in SUBSET A
  PROVE  Cardinality(B) <= Cardinality(A)
BY SendersFinite, FS_Subset

LEMMA OneFewer ==
  ASSUME NEW A \in SUBSET Sender, NEW k \in A, NEW B \in SUBSET (A \ {k})
  PROVE  Cardinality(B) + 1 <= Cardinality(A)
<1>1. Cardinality(A \ {k}) = Cardinality(A) - 1
  BY SendersFinite, FS_RemoveElement
<1>2. Cardinality(B) <= Cardinality(A \ {k})
  BY Fewer
<1> QED
  BY <1>1, <1>2, SendersFinite

LEMMA FirmChosen ==
  ASSUME NEW d
  PROVE  Chosen(d) \in SUBSET Sender /\ Firm(d) \in SUBSET Chosen(d) /\ Firm(d) \in SUBSET Sender
BY DEF Chosen, Firm

(* A sender's step leaves a slot's rings alone or puts one datagram there, *)
(* and that was its last on the way.  It comes past the check only of a    *)
(* slot that is steady, and chooses only slots that are not stopped.       *)
LEMMA Moves ==
  ASSUME TypeInv, SendType, NEW k \in Sender, Process(k), NEW d \in Dp \ {0}
  PROVE  \/ /\ queued'[d] = queued[d]
            /\ Firm(d)' \subseteq Firm(d) \/ Steady(d)
            /\ Chosen(d)' \subseteq Chosen(d) \/ d \notin stopped
         \/ /\ queued'[d] = queued[d] + 1 /\ k \in Firm(d)
            /\ Firm(d)' \subseteq Firm(d) \ {k} /\ Chosen(d)' \subseteq Chosen(d) \ {k}
<1> USE DEF Firm, Chosen
<1>1. NoDp # d
  BY ChoiceSlots
<1>2. CASE PickBegin(k)
  BY <1>2 DEF PickBegin, SendType
<1>3. CASE PickSlot(k)
  <2>1. PICK e \in Dp : (e # 0 => Open(e)) /\ target' = [target EXCEPT ![k] = e]
    BY <1>3, SlotChosen
  <2>2. queued' = queued /\ wpc' = [wpc EXCEPT ![k] = "check"]
    BY <1>3 DEF PickSlot
  <2>3. Firm(d)' \subseteq Firm(d)
    BY <2>1, <2>2 DEF SendType
  <2>4. Chosen(d)' \subseteq Chosen(d) \/ d \notin stopped
    BY <2>1, <2>2 DEF SendType, Open
  <2> QED
    BY <2>2, <2>3, <2>4
<1>4. CASE PickCheck(k)
  <2>1. /\ target' = [target EXCEPT ![k] = IF Steady(target[k]) THEN target[k] ELSE 0]
        /\ queued' = queued /\ wpc' = [wpc EXCEPT ![k] = "room"]
    BY <1>4 DEF PickCheck
  <2>2. Chosen(d)' \subseteq Chosen(d)
    BY <2>1 DEF SendType
  <2>3. Firm(d)' \subseteq Firm(d) \/ Steady(d)
    BY <2>1 DEF SendType
  <2> QED
    BY <2>1, <2>2, <2>3
<1>5. CASE PickRoom(k)
  <2>1. queued' = queued /\ wpc[k] = "room"
    BY <1>5 DEF PickRoom
  <2>2. CASE wpc' = [wpc EXCEPT ![k] = "push"] /\ UNCHANGED target
    BY <2>1, <2>2 DEF SendType
  <2>3. ASSUME NEW e \in Others,
               wpc' = [wpc EXCEPT ![k] = "other"], target' = [target EXCEPT ![k] = e]
        PROVE  Firm(d)' \subseteq Firm(d) /\ (Chosen(d)' \subseteq Chosen(d) \/ d \notin stopped)
    BY <2>3, ChoiceSlots DEF SendType, Open
  <2>4. CASE wpc' = [wpc EXCEPT ![k] = "idle"] /\ target' = [target EXCEPT ![k] = NoDp]
    BY <1>1, <2>1, <2>4 DEF SendType
  <2> QED
    BY <1>5, <2>1, <2>2, <2>3, <2>4 DEF PickRoom
<1>6. CASE PickOther(k)
  <2>1. /\ wpc' = [wpc EXCEPT ![k] = IF Steady(target[k]) THEN "push" ELSE "idle"]
        /\ target' = [target EXCEPT ![k] = IF Steady(target[k]) THEN target[k] ELSE NoDp]
        /\ queued' = queued
    BY <1>6 DEF PickOther
  <2>2. Chosen(d)' \subseteq Chosen(d)
    BY <1>1, <2>1 DEF SendType
  <2>3. Firm(d)' \subseteq Firm(d) \/ Steady(d)
    BY <1>1, <2>1 DEF SendType
  <2> QED
    BY <2>1, <2>2, <2>3
<1>7. CASE PushWan(k)
  <2>1. /\ target' = [target EXCEPT ![k] = NoDp] /\ wpc' = [wpc EXCEPT ![k] = "idle"]
        /\ wpc[k] = "push"
        /\ \/ queued' = [queued EXCEPT ![target[k]] = queued[target[k]] + 1]
           \/ queued' = queued
    BY <1>7 DEF PushWan
  <2>2. Chosen(d)' \subseteq Chosen(d) \ {k} /\ Firm(d)' \subseteq Firm(d) \ {k}
    BY <1>1, <2>1 DEF SendType
  <2>3. target[k] = d => k \in Firm(d)
    BY <2>1
  <2>4. queued'[d] = queued[d] \/ (target[k] = d /\ queued'[d] = queued[d] + 1)
    BY <2>1 DEF SendType
  <2> QED
    BY <2>2, <2>3, <2>4
<1> QED
  BY <1>2, <1>3, <1>4, <1>5, <1>6, <1>7 DEF Process

LEMMA StrandSender ==
  ASSUME TypeInv, SendType, StrandInv, NEW k \in Sender, Process(k)
  PROVE  StrandInv'
<1>1. UNCHANGED unsent
  BY DEF Process, PickBegin, PickSlot, PickCheck, PickRoom, PickOther, PushWan
<1>2. UNCHANGED <<usable, count, rpc, flushed, drain, stopped>>
  BY <1>1 DEF unsent, slotVars, lockVars
<1> SUFFICES ASSUME NEW d \in Dp \ {0}
             PROVE  /\ d >= usable => queued'[d] = 0 /\ Firm(d)' = {}
                    /\ rpc = "maint" /\ d \in flushed
                         => queued'[d] + Cardinality(Firm(d)') <= Senders
                    /\ d \in stopped => queued'[d] + Cardinality(Chosen(d)') <= 2 * Senders
  BY <1>2 DEF StrandInv, Senders
<1>3. /\ d >= usable => queued[d] = 0 /\ Firm(d) = {}
      /\ rpc = "maint" /\ d \in flushed => queued[d] + Cardinality(Firm(d)) <= Senders
      /\ d \in stopped => queued[d] + Cardinality(Chosen(d)) <= 2 * Senders
      /\ rpc = "maint" /\ d \in flushed => drain[d].age # NoAge
  BY DEF StrandInv
<1>4. PICK f, fn, c, cn : f = Firm(d) /\ fn = Firm(d)' /\ c = Chosen(d) /\ cn = Chosen(d)'
  OBVIOUS
<1>5. f \in SUBSET Sender /\ fn \in SUBSET Sender /\ c \in SUBSET Sender /\ cn \in SUBSET Sender
  BY <1>4 DEF Firm, Chosen
<1>6. /\ Cardinality(f) \in Nat /\ Cardinality(fn) \in Nat /\ Cardinality(c) \in Nat
      /\ Cardinality(cn) \in Nat /\ queued[d] \in Nat /\ Senders \in Nat
  BY <1>5, SendersFinite, QueueType
<1>7. d \in Int /\ usable \in Int
  BY WanFinite DEF TypeInv
<1>8. CASE /\ queued'[d] = queued[d]
           /\ fn \subseteq f \/ Steady(d)
           /\ cn \subseteq c \/ d \notin stopped
  <2>1. fn \subseteq f => Cardinality(fn) <= Cardinality(f)
    BY <1>5, Fewer
  <2>2. cn \subseteq c => Cardinality(cn) <= Cardinality(c)
    BY <1>5, Fewer
  <2>3. Steady(d) => ~(d >= usable) /\ ~(rpc = "maint" /\ d \in flushed)
    BY <1>3, <1>7 DEF Steady
  <2>4. d >= usable => queued'[d] = 0 /\ fn = {}
    <3>1. d >= usable => queued[d] = 0 /\ f = {} /\ ~Steady(d)
      BY <1>3, <1>4, <2>3
    <3> QED
      BY <1>8, <3>1
  <2>5. rpc = "maint" /\ d \in flushed => queued'[d] + Cardinality(fn) <= Senders
    BY <1>3, <1>4, <1>6, <1>8, <2>1, <2>3
  <2>6. d \in stopped => queued'[d] + Cardinality(cn) <= 2 * Senders
    BY <1>3, <1>4, <1>6, <1>8, <2>2
  <2> QED
    BY <1>4, <2>4, <2>5, <2>6
<1>9. CASE queued'[d] = queued[d] + 1 /\ k \in f /\ fn \subseteq f \ {k} /\ cn \subseteq c \ {k}
  <2>1. Cardinality(fn) + 1 <= Cardinality(f)
    BY <1>5, <1>9, OneFewer
  <2>2. k \in c
    BY <1>4, <1>9 DEF Firm
  <2>3. Cardinality(cn) + 1 <= Cardinality(c)
    BY <1>5, <1>9, <2>2, OneFewer
  <2> QED
    BY <1>3, <1>4, <1>6, <1>9, <2>1, <2>3
<1> QED
  BY <1>4, <1>8, <1>9, Moves

(* Steps that stop no slot and end no flush.                               *)
LEMMA StrandKept ==
  ASSUME TypeInv, SendType, StrandInv, Bystander,
         usable' = usable, count' \in Int, count' >= count, stopped' \subseteq stopped,
         rpc' = "maint" => /\ rpc = "maint" /\ flushed' = flushed
                           /\ \A d \in Dp : drain'[d].age = NoAge <=> drain[d].age = NoAge
  PROVE  StrandInv'
<1>1. usable' <= count'
  BY DEF StrandInv, TypeInv
<1>2. rpc' = "maint" => \A d \in flushed' : drain'[d].age # NoAge
  BY DEF StrandInv, TypeInv
<1>3. ASSUME NEW d \in Dp \ {0}
      PROVE  /\ d >= usable' => queued'[d] = 0 /\ Firm(d)' = {}
             /\ rpc' = "maint" /\ d \in flushed'
                  => queued'[d] + Cardinality(Firm(d)') <= Senders
             /\ d \in stopped' => queued'[d] + Cardinality(Chosen(d)') <= 2 * Senders
  <2>1. Firm(d)' = Firm(d) /\ Chosen(d)' = Chosen(d)
    BY DEF Bystander, pickVars, Firm, Chosen
  <2>2. queued'[d] <= queued[d] /\ queued[d] \in Nat /\ queued'[d] \in Nat
    BY QueueType DEF Bystander
  <2>3. Cardinality(Firm(d)) \in Nat /\ Cardinality(Chosen(d)) \in Nat /\ Senders \in Nat
    BY FirmChosen, SendersFinite
  <2> QED
    BY <2>1, <2>2, <2>3 DEF StrandInv
<1> QED
  BY <1>1, <1>2, <1>3 DEF StrandInv, Senders

LEMMA StrandFlush ==
  ASSUME TypeInv, SendType, StrandInv, MaintFlush
  PROVE  StrandInv'
<1>1. /\ UNCHANGED <<usable, count, drain, stopped, wpc, target>> /\ flushed' = Due
      /\ queued' = [d \in Dp |-> IF d \in Due THEN 0 ELSE queued[d]]
  BY DEF MaintFlush, slotVars, pickVars
<1>2. \A d \in Due : drain[d].age # NoAge
  BY WanSchedAssumption DEF Due, NoAge
<1>3. ASSUME NEW d \in Dp \ {0}
      PROVE  /\ d >= usable => queued'[d] = 0 /\ Firm(d)' = {}
             /\ d \in Due => queued'[d] + Cardinality(Firm(d)') <= Senders
             /\ d \in stopped => queued'[d] + Cardinality(Chosen(d)') <= 2 * Senders
  <2>1. Firm(d)' = Firm(d) /\ Chosen(d)' = Chosen(d)
    BY <1>1 DEF Firm, Chosen
  <2>2. /\ queued[d] \in Nat /\ queued'[d] \in Nat /\ queued'[d] <= queued[d]
        /\ d \in Due => queued'[d] = 0
    BY <1>1, QueueType
  <2>3. /\ Cardinality(Firm(d)) \in Nat /\ Cardinality(Firm(d)) <= Senders
        /\ Cardinality(Chosen(d)) \in Nat /\ Senders \in Nat
    BY FirmChosen, SendersFinite
  <2> QED
    BY <2>1, <2>2, <2>3 DEF StrandInv
<1> QED
  BY <1>1, <1>2, <1>3 DEF StrandInv, Senders

LEMMA StrandStop ==
  ASSUME TypeInv, SendType, StrandInv, MaintStop
  PROVE  StrandInv'
<1>1. /\ UNCHANGED <<usable, count, queued, wpc, target>> /\ rpc' = "idle" /\ rpc = "maint"
      /\ stopped' = stopped \cup flushed
  BY DEF MaintStop, slotVars, pickVars
<1>2. ASSUME NEW d \in Dp \ {0}
      PROVE  /\ d >= usable => queued'[d] = 0 /\ Firm(d)' = {}
             /\ d \in stopped' => queued'[d] + Cardinality(Chosen(d)') <= 2 * Senders
  <2>1. Firm(d)' = Firm(d) /\ Chosen(d)' = Chosen(d) /\ queued'[d] = queued[d]
    BY <1>1 DEF Firm, Chosen
  <2>2. queued[d] \in Nat /\ Cardinality(Firm(d)) \in Nat /\ Senders \in Nat
    BY FirmChosen, SendersFinite, QueueType
  <2>3. Cardinality(Chosen(d)) \in Nat /\ Cardinality(Chosen(d)) <= Senders
    BY FirmChosen, SendersFinite
  <2> QED
    BY <1>1, <2>1, <2>2, <2>3 DEF StrandInv
<1> QED
  BY <1>1, <1>2 DEF StrandInv, Senders

(* The slots a failed reload rolls back were never chosen.                 *)
LEMMA StrandFails ==
  ASSUME TypeInv, SendType, StrandInv, ReloadFails
  PROVE  StrandInv'
<1>1. PICK n \in 0..(Len(Missing) - 1) : stopped' = stopped \cup (count..(count + n - 1))
  BY DEF ReloadFails
<1>2. UNCHANGED <<usable, count, queued, wpc, target>> /\ rpc' = "failed"
  BY DEF ReloadFails, pickVars
<1>3. ASSUME NEW d \in Dp \ {0}
      PROVE  /\ d >= usable => queued'[d] = 0 /\ Firm(d)' = {}
             /\ d \in stopped' => queued'[d] + Cardinality(Chosen(d)') <= 2 * Senders
  <2>1. Firm(d)' = Firm(d) /\ Chosen(d)' = Chosen(d) /\ queued'[d] = queued[d]
    BY <1>2 DEF Firm, Chosen
  <2>2. Cardinality(Chosen(d)) \in Nat /\ Cardinality(Chosen(d)) <= Senders /\ Senders \in Nat
    BY FirmChosen, SendersFinite
  <2>3. d \in count..(count + n - 1) => d >= usable
    BY <1>1, MissingFits, WanFinite DEF StrandInv, TypeInv
  <2> QED
    BY <1>1, <2>1, <2>2, <2>3 DEF StrandInv
<1> QED
  BY <1>2, <1>3 DEF StrandInv, Senders

LEMMA StrandRestart ==
  ASSUME TypeInv, SendType, NEW c \in Cfgs, Restart(c)
  PROVE  StrandInv'
<1>1. /\ usable' = count' /\ usable' \in Int /\ stopped' = {} /\ rpc' = "idle"
      /\ queued' = [d \in Dp |-> 0] /\ wpc' = [k \in Sender |-> "idle"]
  BY LiveWan DEF Restart
<1>2. \A d \in Dp : queued'[d] = 0 /\ Firm(d)' = {}
  <2> SUFFICES ASSUME NEW d \in Dp
               PROVE  queued'[d] = 0 /\ Firm(d)' = {}
    OBVIOUS
  <2>1. \A k \in Sender : wpc'[k] = "idle"
    BY <1>1
  <2> QED
    BY <1>1, <2>1 DEF Firm, Chosen
<1> QED
  BY <1>1, <1>2 DEF StrandInv

LEMMA StrandStep ==
  ASSUME TypeInv, SendType, StrandInv, [Next]_vars
  PROVE  StrandInv'
<1>1. CASE Aside
  <2>0. Bystander /\ count \in Int
    BY <1>1, Bystanders DEF TypeInv
  <2>1. ASSUME NEW c \in Cfgs, ReloadDrains(c)
        PROVE  StrandInv'
    BY <2>0, <2>1, StrandKept DEF ReloadDrains, slotVars
  <2>2. CASE ReloadAttach
    <3>1. Len(Missing) \in Nat
      BY MissingFits DEF TypeInv
    <3>2. count' \in Int /\ count' >= count
      BY <2>0, <2>2, <3>1 DEF ReloadAttach
    <3>3. usable' = usable /\ stopped' \subseteq stopped /\ rpc' # "maint"
      BY <2>2 DEF ReloadAttach
    <3> QED
      BY <2>0, <3>2, <3>3, StrandKept
  <2>3. CASE ReloadInstall \/ ReloadBlend \/ ReloadLinks
    BY <2>0, <2>3, StrandKept DEF ReloadInstall, ReloadBlend, ReloadLinks, slotVars
  <2>4. CASE MaintTick
    BY <2>0, <2>4, StrandKept DEF MaintTick, slotVars, lockVars
  <2>5. ASSUME NEW w \in Kickable, WanAdmin(w)
        PROVE  StrandInv'
    BY <2>0, <2>5, StrandKept DEF WanAdmin, KickFlush, Restore, slotVars, lockVars
  <2>6. CASE KickHold
    BY <2>0, <2>6, StrandKept DEF KickHold, slotVars
  <2>7. ASSUME NEW w \in Unsteady, Flap(w)
        PROVE  StrandInv'
    BY <2>0, <2>7, StrandKept DEF Flap, slotVars, lockVars
  <2>8. CASE Tick
    <3>1. \A d \in Dp : drain'[d].age = NoAge <=> drain[d].age = NoAge
      <4>1. \A a \in Age \cup {NoAge} : Older(a) = NoAge <=> a = NoAge
        BY WanSchedAssumption DEF Older, Age, NoAge
      <4>2. \A d \in Dp : drain[d].age \in Age \cup {NoAge} /\ drain'[d].age = Older(drain[d].age)
        BY <2>8 DEF Tick, TypeInv
      <4> QED
        BY <4>1, <4>2
    <3> QED
      BY <2>0, <2>8, <3>1, StrandKept DEF Tick, slotVars, lockVars
  <2>9. ASSUME NEW d \in Dp, Send(d)
        PROVE  StrandInv'
    BY <2>0, <2>9, StrandKept DEF Send, unsent, slotVars, lockVars
  <2>10. CASE UNCHANGED vars
    BY <2>0, <2>10, StrandKept DEF vars, slotVars, lockVars
  <2> QED
    BY <1>1, <2>1, <2>2, <2>3, <2>4, <2>5, <2>6, <2>7, <2>8, <2>9, <2>10,
       StrandFlush, StrandStop, StrandFails DEF Aside, ReloadStep, Maint
<1> QED
  BY <1>1, StrandSender, StrandRestart, NextParts

(* For any number of senders and WANs: the end of a drain strands at most  *)
(* two datagrams of each sender, and the rollback of a reload none.        *)
THEOREM FewStranded == Spec => []Stranded
<1>1. Init => StrandInv
  <2> SUFFICES ASSUME Init
               PROVE  StrandInv
    OBVIOUS
  <2>1. usable = count /\ count \in Int /\ stopped = {} /\ rpc = "idle"
    BY LiveWan DEF Init
  <2>2. \A d \in Dp : queued[d] = 0 /\ Firm(d) = {}
    <3>1. \A k \in Sender : wpc[k] = "idle"
      BY DEF Init
    <3> QED
      BY <3>1 DEF Init, Firm, Chosen
  <2> QED
    BY <2>1, <2>2 DEF StrandInv
<1>2. IInv /\ SendType /\ StrandInv /\ [Next]_vars => StrandInv'
  BY StrandStep DEF IInv
<1>3. IInv /\ SendType /\ StrandInv => Stranded
  <2> SUFFICES ASSUME TypeInv, SendType, StrandInv, NEW d \in stopped \ {0}
               PROVE  queued[d] <= 2 * Senders
    BY DEF IInv, Stranded, Senders
  <2>1. d \in Dp \ {0}
    BY DEF TypeInv
  <2>2. queued[d] \in Nat /\ Cardinality(Chosen(d)) \in Nat /\ Senders \in Nat
    BY <2>1, QueueType, FirmChosen, SendersFinite
  <2> QED
    BY <2>1, <2>2 DEF StrandInv
<1> QED
  BY <1>1, <1>2, <1>3, Inductive, SendersTyped, PTL DEF Spec

----------------------------------------------------------------------------
(* Whatever WANs are dead, kicked, draining or blending, the serving ones  *)
(* carry the whole weight of the configuration, for any number of WANs and *)
(* any weights: the shares and their remainder are the dead weight.        *)
THEOREM BandwidthConserved == Spec => []Conserved
<1>1. IInv => Conserved
  BY WeightConserved DEF IInv
<1> QED
  BY <1>1, Inductive, PTL

----------------------------------------------------------------------------
(* A finite set of numbers has a greatest one.                             *)
LEMMA MaxIsGreatest ==
  ASSUME NEW T, T \subseteq Int, IsFiniteSet(T), T # {}
  PROVE  Max(T) \in T /\ \A y \in T : Max(T) >= y
<1> DEFINE n == Cardinality(T)
<1>1. n \in Nat /\ n # 0
  BY FS_CardinalityType, FS_EmptySet
<1>2. n - 1 \in 0..(n - 1)
  BY <1>1
<1>3. PICK w \in T : Cardinality({v \in T : v < w}) = n - 1
  BY <1>2, Ranked
<1> DEFINE B == {v \in T : v < w}
<1>4. B \in SUBSET (T \ {w})
  OBVIOUS
<1>5. IsFiniteSet(T \ {w}) /\ Cardinality(T \ {w}) = n - 1
  BY FS_RemoveElement
<1>6. T \ {w} = B
  <2> HIDE DEF B, n
  <2> QED
    BY <1>3, <1>4, <1>5, FS_Subset DEF B
<1>7. \A y \in T : w >= y
  BY <1>6
<1> QED
  BY <1>7 DEF Max

(* A sum of numbers that are each at least a.                              *)
LEMMA SumAtLeast ==
  ASSUME NEW S, IsFiniteSet(S), NEW f, NEW a \in Int, \A x \in S : f[x] \in Int /\ f[x] >= a
  PROVE  SumFunctionOnSet(f, S) >= a * Cardinality(S)
<1> DEFINE F == {s \in SUBSET S : SumFunctionOnSet(f, s) >= a * Cardinality(s)}
<1>1. \A s \in SUBSET S : IsFiniteSet(s) /\ Cardinality(s) \in Nat
  BY FS_Subset, FS_CardinalityType
<1>2. {} \in F
  <2>1. SumFunctionOnSet(f, {}) = 0 /\ Cardinality({}) = 0
    BY SumEmpty, FS_EmptySet
  <2> QED
    BY <2>1
<1>3. ASSUME NEW s \in SUBSET S, s # {}, \A x \in s : s \ {x} \in F
      PROVE  s \in F
  <2>1. PICK x \in s : TRUE
    BY <1>3
  <2>2. PICK r \in SUBSET S : r = s \ {x}
    BY <1>3
  <2>3. SumFunctionOnSet(f, s) = f[x] + SumFunctionOnSet(f, r)
    BY <1>1, <2>2, SumRemove
  <2>4. SumFunctionOnSet(f, r) \in Int
    BY <1>1, SumRemove
  <2>5. Cardinality(s) = Cardinality(r) + 1 /\ Cardinality(r) \in Nat
    BY <1>1, <2>2, FS_RemoveElement
  <2>6. SumFunctionOnSet(f, r) >= a * Cardinality(r)
    BY <1>3, <2>2
  <2>7. PICK k \in Nat : k = Cardinality(r)
    BY <2>5
  <2>8. a * (k + 1) = a * k + a
    OBVIOUS
  <2>9. PICK m \in Int : m = a * k
    BY <2>7
  <2>10. f[x] \in Int /\ f[x] >= a
    BY <2>1
  <2>11. SumFunctionOnSet(f, s) >= m + a
    BY <2>3, <2>4, <2>6, <2>7, <2>9, <2>10
  <2>12. SumFunctionOnSet(f, s) >= a * Cardinality(s)
    BY <2>5, <2>7, <2>8, <2>9, <2>11
  <2> QED
    BY <2>12
<1> HIDE DEF F
<1>4. \A s \in SUBSET S : s \in F
  BY <1>2, <1>3, SubsetSteps
<1> QED
  BY <1>4, S \in SUBSET S DEF F

(* Of numbers that are each at least a and sum to zero, none is greater    *)
(* than the others can be below.                                           *)
LEMMA ZeroSum ==
  ASSUME NEW S, IsFiniteSet(S), NEW f, NEW a \in Int, \A x \in S : f[x] \in Int /\ f[x] >= a,
         SumFunctionOnSet(f, S) = 0, NEW x \in S
  PROVE  f[x] <= (-a) * (Cardinality(S) - 1) /\ Cardinality(S) \in Nat
<1>1. PICK r : r = S \ {x}
  OBVIOUS
<1>2. IsFiniteSet(r) /\ Cardinality(r) = Cardinality(S) - 1 /\ Cardinality(S) \in Nat
  BY <1>1, FS_RemoveElement, FS_CardinalityType
<1>3. 0 = f[x] + SumFunctionOnSet(f, r)
  BY <1>1, SumRemove
<1>4. SumFunctionOnSet(f, r) >= a * Cardinality(r) /\ SumFunctionOnSet(f, r) \in Int
  BY <1>1, <1>2, SumAtLeast, SumRemove
<1>5. PICK m \in Int : m = Cardinality(r)
  BY <1>2
<1>6. (-a) * m = -(a * m) /\ a * m \in Int
  BY <1>5
<1> QED
  BY <1>2, <1>3, <1>4, <1>5, <1>6

----------------------------------------------------------------------------
(***************************************************************************)
(* The flow table, which picks from the scheduler's pools.                 *)
(***************************************************************************)

Entries == [valid : BOOLEAN, key : Flows \cup {NoFlow}, wans : Seq(Nat), current : Seq(Int),
            tie : Nat]

(* The sum of a function is the one over its domain.                       *)
LEMMA FlowSum ==
  ASSUME NEW f
  PROVE  SumFunction(f) = SumFunctionOnSet(f, DOMAIN f)
BY DEF SumFunction, SumFunctionOnSet, FoldFunctionOnSet, MapThenFoldSet

(* A pool's weights.                                                       *)
LEMMA PoolFacts ==
  ASSUME NEW p \in Pools
  PROVE  /\ p.wans \in Seq(Nat) /\ p.weights \in Seq(Nat \ {0}) /\ Len(p.wans) \in Nat
         /\ Len(p.wans) > 0 /\ DOMAIN p.wans = 1..Len(p.wans) /\ DOMAIN p.weights = DOMAIN p.wans
         /\ IsFiniteSet(DOMAIN p.wans) /\ Cardinality(DOMAIN p.wans) = Len(p.wans)
         /\ \A i \in DOMAIN p.wans : p.weights[i] \in Nat /\ p.weights[i] > 0
         /\ Total(p) = SumFunctionOnSet(p.weights, DOMAIN p.wans)
         /\ Total(p) \in Nat /\ Total(p) > 0
<1>1. /\ p \in [wans : Seq(Nat), weights : Seq(Nat \ {0})]
      /\ Len(p.wans) = Len(p.weights) /\ Len(p.wans) > 0
  BY FlowTableAssumption
<1>2. /\ p.wans \in Seq(Nat) /\ p.weights \in Seq(Nat \ {0}) /\ Len(p.wans) \in Nat
      /\ DOMAIN p.wans = 1..Len(p.wans) /\ DOMAIN p.weights = DOMAIN p.wans
  BY <1>1
<1>3. \A i \in DOMAIN p.wans : p.weights[i] \in Nat /\ p.weights[i] > 0
  BY <1>2
<1>4. PICK n \in Nat : n = Len(p.wans)
  BY <1>2
<1>5. IsFiniteSet(1..n) /\ Cardinality(1..n) = n
  <2>1. 1 \in Int /\ n \in Int
    OBVIOUS
  <2>2. IsFiniteSet(1..n) /\ Cardinality(1..n) = IF 1 > n THEN 0 ELSE n - 1 + 1
    BY <2>1, FS_Interval
  <2> QED
    BY <2>2
<1>6. Total(p) = SumFunctionOnSet(p.weights, DOMAIN p.wans)
  BY <1>2, FlowSum DEF Total
<1>7. SumFunctionOnSet(p.weights, 1..n) \in Int
  BY <1>2, <1>3, <1>4, <1>5, SumRemove
<1>8. SumFunctionOnSet(p.weights, 1..n) >= 1 * Cardinality(1..n)
  <2>1. PICK a \in Int : a = 1
    OBVIOUS
  <2>2. \A i \in 1..n : p.weights[i] \in Int /\ p.weights[i] >= a
    BY <1>2, <1>3, <1>4, <2>1
  <2>3. SumFunctionOnSet(p.weights, 1..n) >= a * Cardinality(1..n)
    BY <1>5, <2>2, SumAtLeast
  <2> QED
    BY <2>1, <2>3
<1> QED
  BY <1>1, <1>2, <1>3, <1>4, <1>5, <1>6, <1>7, <1>8

(* A finite set has an element whose number is the greatest.               *)
LEMMA GreatestAt ==
  ASSUME NEW D, IsFiniteSet(D), D # {}, NEW c \in [D -> Int]
  PROVE  \E m \in D : \A j \in D : c[j] <= c[m]
<1> DEFINE V == {c[i] : i \in D}
<1>1. IsFiniteSet(V)
  BY FiniteValues
<1>2. V \subseteq Int /\ V # {}
  OBVIOUS
<1>3. Max(V) \in V /\ \A y \in V : Max(V) >= y
  <2> HIDE DEF V
  <2> QED
    BY <1>1, <1>2, MaxIsGreatest
<1>4. PICK m \in D : c[m] = Max(V)
  BY <1>3
<1>5. \A j \in D : Max(V) >= c[j]
  BY <1>3
<1> HIDE DEF V
<1>6. c[m] \in Int /\ \A j \in D : c[j] \in Int
  OBVIOUS
<1> QED
  BY <1>4, <1>5, <1>6

(* Numbers whose sum is above zero have one above zero.                    *)
LEMMA SomePositive ==
  ASSUME NEW D, IsFiniteSet(D), NEW c \in [D -> Int], \A j \in D : c[j] <= 0
  PROVE  SumFunctionOnSet(c, D) <= 0
<1>1. PICK z : z = [j \in D |-> 0 - c[j]]
  OBVIOUS
<1>2. PICK o : o = [j \in D |-> 0]
  OBVIOUS
<1>3. \A j \in D : z[j] \in Nat
  BY <1>1
<1>4. SumFunctionOnSet(z, D) \in Nat
  BY <1>3, SumNat
<1>5. \A j \in D : c[j] \in Int /\ z[j] \in Int /\ o[j] = c[j] + z[j]
  BY <1>1, <1>2
<1>6. SumFunctionOnSet(o, D) = SumFunctionOnSet(c, D) + SumFunctionOnSet(z, D)
  BY <1>5, SumPlus
<1>7. \A j \in D : o[j] \in Int /\ o[j] = o[j] + o[j]
  BY <1>2
<1>8. SumFunctionOnSet(o, D) = SumFunctionOnSet(o, D) + SumFunctionOnSet(o, D)
  BY <1>7, SumPlus
<1>9. SumFunctionOnSet(o, D) \in Int /\ SumFunctionOnSet(c, D) \in Int
  BY <1>7, SumRemove
<1> QED
  BY <1>4, <1>6, <1>8, <1>9

(* A remainder is a natural number.                                        *)
LEMMA ModRange ==
  ASSUME NEW a \in Int, NEW n \in Nat \ {0}
  PROVE  a % n \in Nat
OBVIOUS

(* The WAN the scan takes: its counter is the largest, and above zero.     *)
LEMMA BestFacts ==
  ASSUME NEW p \in Pools, NEW e \in Entries,
         Len(e.current) = Len(p.wans), SumFunctionOnSet(e.current, DOMAIN p.wans) = 0
  PROVE  LET c == Raised(e, p) b == Best(e, p)
         IN  /\ c \in [DOMAIN p.wans -> Int] /\ b \in DOMAIN p.wans /\ c[b] > 0
             /\ \A i \in DOMAIN p.wans : c[i] = e.current[i] + p.weights[i]
             /\ SumFunctionOnSet(c, DOMAIN p.wans) = Total(p)
<1>1. PICK D : D = DOMAIN p.wans
  OBVIOUS
<1>2. /\ D = 1..Len(p.wans) /\ IsFiniteSet(D) /\ Len(p.wans) \in Nat /\ Len(p.wans) > 0
      /\ \A i \in D : p.weights[i] \in Nat /\ p.weights[i] > 0
      /\ Total(p) = SumFunctionOnSet(p.weights, D) /\ Total(p) \in Nat
      /\ Total(p) > 0
  BY <1>1, PoolFacts
<1>14. D # {}
  <2>1. 1 \in 1..Len(p.wans)
    BY <1>2
  <2> QED
    BY <1>2, <2>1
<1>3. \A i \in D : e.current[i] \in Int
  BY <1>2 DEF Entries
<1>4. PICK c : c = Raised(e, p)
  OBVIOUS
<1>5. c \in [D -> Int] /\ \A i \in D : c[i] = e.current[i] + p.weights[i]
  BY <1>1, <1>2, <1>3, <1>4 DEF Raised
<1>6. SumFunctionOnSet(c, D) = Total(p)
  <2>1. \A i \in D : e.current[i] \in Int /\ p.weights[i] \in Int
                     /\ c[i] = e.current[i] + p.weights[i]
    BY <1>2, <1>3, <1>5
  <2>2. SumFunctionOnSet(c, D) = SumFunctionOnSet(e.current, D) + SumFunctionOnSet(p.weights, D)
    <3>1. PICK f, g : f = e.current /\ g = p.weights
      OBVIOUS
    <3>2. IsFiniteSet(D) /\ \A i \in D : f[i] \in Int /\ g[i] \in Int /\ c[i] = f[i] + g[i]
      BY <1>2, <2>1, <3>1
    <3>3. SumFunctionOnSet(c, D) = SumFunctionOnSet(f, D) + SumFunctionOnSet(g, D)
      BY <3>2, SumPlus
    <3> QED
      BY <3>1, <3>3
  <2> QED
    BY <1>1, <1>2, <2>2
<1>7. PICK top : top = {i \in D : \A j \in D : c[j] <= c[i]}
  OBVIOUS
<1>8. top # {}
  <2>1. \E m \in D : \A j \in D : c[j] <= c[m]
    BY <1>2, <1>5, <1>14, GreatestAt
  <2> QED
    BY <1>7, <2>1
<1>9. \E i \in top : \A j \in top :
         Rank(i, e.tie, Len(p.wans)) <= Rank(j, e.tie, Len(p.wans))
  <2> DEFINE R == {Rank(i, e.tie, Len(p.wans)) : i \in top}
  <2>1. \A i \in top : Rank(i, e.tie, Len(p.wans)) \in Nat
    <3>1. \A i \in top : i \in Int
      BY <1>2, <1>7
    <3>2. e.tie \in Int
      BY DEF Entries
    <3>3. ASSUME NEW i \in top
          PROVE  (i - e.tie) % Len(p.wans) \in Nat
      <4>1. PICK a \in Int : a = i - e.tie
        BY <3>1, <3>2
      <4>2. PICK n \in Nat \ {0} : n = Len(p.wans)
        BY <1>2
      <4>3. a % n \in Nat
        BY ModRange
      <4> QED
        BY <4>1, <4>2, <4>3
    <3> QED
      BY <3>3 DEF Rank
  <2>2. R \subseteq Nat /\ R # {}
    BY <1>8, <2>1
  <2>3. PICK m \in R : \A k \in R : m <= k
    <3> HIDE DEF R
    <3> QED
      BY <2>2, LeastNat
  <2> QED
    BY <2>3
<1>10. PICK b : b = Best(e, p)
  OBVIOUS
<1>11. b \in top
  <2>1. b = CHOOSE i \in top : \A j \in top :
              Rank(i, e.tie, Len(p.wans)) <= Rank(j, e.tie, Len(p.wans))
    <3>1. DOMAIN c = D
      BY <1>5
    <3> QED
      BY <1>4, <1>7, <1>10, <3>1 DEF Best
  <2> QED
    BY <1>9, <2>1
<1>12. b \in D /\ \A j \in D : c[j] <= c[b]
  BY <1>7, <1>11
<1>13. c[b] > 0
  <2>1. SUFFICES ASSUME ~(c[b] > 0)
                 PROVE  FALSE
    OBVIOUS
  <2>2. \A j \in D : c[j] \in Int /\ c[j] <= 0
    BY <1>5, <1>12, <2>1
  <2>3. SumFunctionOnSet(c, D) <= 0
    BY <1>2, <1>5, <2>2, SomePositive
  <2> QED
    BY <1>2, <1>6, <2>3
<1> QED
  BY <1>1, <1>4, <1>5, <1>6, <1>10, <1>12, <1>13

(* A pick raises every counter by its weight and charges the winner, whose *)
(* counter was above zero, the total.                                      *)
Serves(e, p, s, b) ==
  /\ s \in Entries /\ s.wans = e.wans /\ Len(s.current) = Len(p.wans) /\ b \in DOMAIN p.wans
  /\ SumFunctionOnSet(s.current, DOMAIN p.wans) = 0
  /\ e.current[b] + p.weights[b] > 0
  /\ \A i \in DOMAIN p.wans :
       s.current[i] = e.current[i] + p.weights[i] - (IF i = b THEN Total(p) ELSE 0)

(* What flow_swrr_pick does to an entry in good order.                     *)
LEMMA ServedFacts ==
  ASSUME NEW p \in Pools, NEW e \in Entries,
         Len(e.current) = Len(p.wans), SumFunctionOnSet(e.current, DOMAIN p.wans) = 0
  PROVE  Serves(e, p, Served(e, p), Choice(e, p))
<1>1. PICK D : D = DOMAIN p.wans
  OBVIOUS
<1>2. /\ D = 1..Len(p.wans) /\ IsFiniteSet(D) /\ Len(p.wans) \in Nat
      /\ \A i \in D : p.weights[i] \in Nat /\ p.weights[i] > 0
      /\ Total(p) = SumFunctionOnSet(p.weights, D) /\ Total(p) \in Nat
      /\ SumFunctionOnSet(e.current, D) = 0
  BY <1>1, PoolFacts
<1>3. \A i \in D : e.current[i] \in Int
  BY <1>2 DEF Entries
<1>4. CASE Len(p.wans) = 1
  <2>1. Served(e, p) = e /\ Choice(e, p) = 1 /\ D = {1}
    BY <1>2, <1>4 DEF Served, Choice
  <2>2. /\ SumFunctionOnSet(e.current, {1}) = e.current[1]
        /\ SumFunctionOnSet(p.weights, {1}) = p.weights[1]
    <3>1. PICK o, z : o = {1} /\ z = o \ {1}
      OBVIOUS
    <3>2. IsFiniteSet(o) /\ 1 \in o /\ z = {}
      BY <3>1, FS_Singleton
    <3>3. \A i \in o : e.current[i] \in Int /\ p.weights[i] \in Int
      BY <1>2, <1>3, <2>1, <3>1
    <3>4. /\ SumFunctionOnSet(e.current, o) = e.current[1] + SumFunctionOnSet(e.current, z)
          /\ SumFunctionOnSet(p.weights, o) = p.weights[1] + SumFunctionOnSet(p.weights, z)
      BY <3>1, <3>2, <3>3, SumRemove
    <3>5. SumFunctionOnSet(e.current, z) = 0 /\ SumFunctionOnSet(p.weights, z) = 0
      BY <3>2, SumEmpty
    <3>6. e.current[1] \in Int /\ p.weights[1] \in Int
      BY <3>2, <3>3
    <3>7. /\ SumFunctionOnSet(e.current, o) = e.current[1]
          /\ SumFunctionOnSet(p.weights, o) = p.weights[1]
      BY <3>4, <3>5, <3>6
    <3> QED
      BY <3>1, <3>7
  <2>3. e.current[1] = 0 /\ p.weights[1] \in Nat /\ p.weights[1] > 0
        /\ Total(p) = p.weights[1]
    BY <1>2, <2>1, <2>2
  <2>4. \A i \in D : e.current[i] = e.current[i] + p.weights[i]
                                    - (IF i = 1 THEN Total(p) ELSE 0)
    BY <2>1, <2>3
  <2> QED
    BY <1>1, <1>2, <2>1, <2>3, <2>4 DEF Serves
<1>5. CASE Len(p.wans) # 1
  <2>1. PICK c, b : c = Raised(e, p) /\ b = Best(e, p)
    OBVIOUS
  <2>2. /\ c \in [D -> Int] /\ b \in D /\ c[b] > 0
        /\ \A i \in D : c[i] = e.current[i] + p.weights[i]
        /\ SumFunctionOnSet(c, D) = Total(p)
    BY <1>1, <2>1, BestFacts
  <2>14. PICK t \in Nat : t = Total(p)
    BY <1>2
  <2>3. PICK u : u = [c EXCEPT ![b] = @ - t]
    OBVIOUS
  <2>4. /\ u \in [D -> Int]
        /\ \A i \in D : u[i] = c[i] - (IF i = b THEN t ELSE 0)
    BY <2>2, <2>3
  <2>5. u \in Seq(Int) /\ Len(u) = Len(p.wans)
    <3>1. PICK n \in Nat : n = Len(p.wans) /\ D = 1..n
      BY <1>2
    <3>2. u \in [1..n -> Int]
      BY <2>4, <3>1
    <3>3. u \in Seq(Int) /\ Len(u) = n
      BY <3>2
    <3> QED
      BY <3>1, <3>3
  <2>6. SumFunctionOnSet(u, D) = 0
    <3>1. PICK r : r = D \ {b}
      OBVIOUS
    <3>2. IsFiniteSet(r)
      BY <1>2, <3>1, FS_RemoveElement
    <3>3. \A i \in r : u[i] \in Int /\ u[i] = c[i]
      BY <2>2, <2>4, <3>1
    <3>4. SumFunctionOnSet(u, r) = SumFunctionOnSet(c, r)
      BY <3>2, <3>3, SumSame
    <3>5. \A i \in D : u[i] \in Int /\ c[i] \in Int
      BY <2>2, <2>4
    <3>6. /\ SumFunctionOnSet(u, D) = u[b] + SumFunctionOnSet(u, r)
          /\ SumFunctionOnSet(c, D) = c[b] + SumFunctionOnSet(c, r)
      <4>1. IsFiniteSet(D) /\ b \in D
        BY <1>2, <2>2
      <4>2. /\ SumFunctionOnSet(u, D) = u[b] + SumFunctionOnSet(u, D \ {b})
            /\ SumFunctionOnSet(c, D) = c[b] + SumFunctionOnSet(c, D \ {b})
        BY <3>5, <4>1, SumRemove
      <4> QED
        BY <3>1, <4>2
    <3>7. SumFunctionOnSet(c, r) \in Int
      <4>1. \A i \in r : c[i] \in Int
        BY <3>1, <3>5
      <4> QED
        BY <3>2, <4>1, SumRemove
    <3> QED
      BY <2>2, <2>4, <2>14, <3>4, <3>5, <3>6, <3>7
  <2>7. PICK m \in Nat : m = Tie(b, Len(p.wans))
    <3>1. PICK n \in Nat \ {0} : n = Len(p.wans)
      BY <1>2, PoolFacts
    <3>2. b \in Int
      BY <1>2, <2>2
    <3>3. b % n \in Nat
      BY <3>2, ModRange
    <3> QED
      BY <3>1, <3>3 DEF Tie
  <2>8. Served(e, p) = [e EXCEPT !.current = u, !.tie = m] /\ Choice(e, p) = b
    BY <1>5, <2>1, <2>3, <2>7, <2>14 DEF Served, Choice
  <2>9. PICK s : s = [e EXCEPT !.current = u, !.tie = m]
    OBVIOUS
  <2>10. s \in Entries /\ s.wans = e.wans /\ s.current = u
    BY <2>5, <2>9 DEF Entries
  <2>11. \A i \in D : u[i] = e.current[i] + p.weights[i] - (IF i = b THEN Total(p) ELSE 0)
    <3>1. SUFFICES ASSUME NEW i \in D
                   PROVE  u[i] = e.current[i] + p.weights[i]
                                 - (IF i = b THEN Total(p) ELSE 0)
      BY Zenon
    <3>2. u[i] = c[i] - (IF i = b THEN t ELSE 0)
      BY <2>4
    <3>3. c[i] = e.current[i] + p.weights[i]
      BY <2>2
    <3>4. e.current[i] \in Int /\ p.weights[i] \in Int
      BY <1>2, <1>3
    <3>5. CASE i = b
      BY <2>14, <3>2, <3>3, <3>4, <3>5
    <3>6. CASE i # b
      BY <3>2, <3>3, <3>4, <3>6
    <3> QED
      BY <3>5, <3>6
  <2>12. e.current[b] + p.weights[b] > 0
    BY <2>2
  <2>13. Serves(e, p, s, b)
    BY <1>1, <2>2, <2>5, <2>6, <2>10, <2>11, <2>12 DEF Serves
  <2> QED
    BY <2>8, <2>9, <2>13
<1> QED
  BY <1>4, <1>5

(* The heaviest pool.                                                      *)
Heaviest == Max({Total(p) : p \in Pools})

(* No pool weighs more than the heaviest.                                  *)
LEMMA HeaviestFacts ==
  ASSUME NEW p \in Pools
  PROVE  Heaviest \in Nat /\ Total(p) <= Heaviest
<1>1. PICK f : f = [q \in Pools |-> Total(q)]
  OBVIOUS
<1> DEFINE V == {f[q] : q \in Pools}
<1>2. IsFiniteSet(Pools)
  BY FlowTableAssumption
<1>3. IsFiniteSet(V)
  <2>1. PICK P : P = Pools
    OBVIOUS
  <2>2. IsFiniteSet({f[q] : q \in P})
    BY ONLY <1>2, <2>1, FiniteValues, Zenon
  <2> QED
    BY <2>1, <2>2
<1>4. \A q \in Pools : f[q] = Total(q) /\ f[q] \in Nat
  BY <1>1, PoolFacts
<1>5. V \subseteq Int /\ V # {}
  BY <1>4
<1>6. Max(V) \in V /\ \A y \in V : Max(V) >= y
  <2> HIDE DEF V
  <2> QED
    BY <1>3, <1>5, MaxIsGreatest
<1>7. PICK m : m = Max(V)
  OBVIOUS
<1>8. m \in Nat /\ f[p] <= m
  BY <1>4, <1>6, <1>7
<1>9. V = {Total(q) : q \in Pools}
  BY <1>4
<1> HIDE DEF V
<1> QED
  BY <1>4, <1>7, <1>8, <1>9 DEF Heaviest

(* How often i was given.                                                  *)
Count(g, i) == Cardinality({k \in DOMAIN g : g[k] = i})

(* Counting starts at zero and goes up with every gift.                    *)
LEMMA CountFacts ==
  ASSUME NEW g \in Seq(Nat), NEW i, NEW b \in Nat
  PROVE  /\ Count(g, i) \in Nat /\ Count(<<>>, i) = 0
         /\ Count(Append(g, b), i) = Count(g, i) + (IF i = b THEN 1 ELSE 0)
         /\ Append(g, b) \in Seq(Nat) /\ Len(Append(g, b)) = Len(g) + 1 /\ Len(g) \in Nat
<1>1. PICK n \in Nat : n = Len(g) /\ DOMAIN g = 1..n
  OBVIOUS
<1>2. PICK a : a = Append(g, b)
  OBVIOUS
<1>3. /\ a \in Seq(Nat) /\ Len(a) = n + 1 /\ DOMAIN a = 1..(n + 1) /\ a[n + 1] = b
      /\ \A k \in 1..n : a[k] = g[k]
  BY <1>1, <1>2
<1> DEFINE G == {k \in 1..n : g[k] = i}
           B == {k \in 1..(n + 1) : a[k] = i}
<1>4. IsFiniteSet(G)
  <2>1. IsFiniteSet(1..n) /\ G \in SUBSET (1..n)
    BY FS_Interval
  <2> QED
    BY <2>1, FS_Subset
<1>5. Count(g, i) = Cardinality(G) /\ Count(a, i) = Cardinality(B)
  BY <1>1, <1>3 DEF Count
<1>6. Cardinality(G) \in Nat
  BY <1>4, FS_CardinalityType
<1>7. ASSUME i = b
      PROVE  Cardinality(B) = Cardinality(G) + (IF i = b THEN 1 ELSE 0)
  <2>1. B = G \cup {n + 1} /\ n + 1 \notin G
    <3>1. \A k \in 1..(n + 1) : k \in 1..n \/ k = n + 1
      OBVIOUS
    <3> QED
      BY <1>3, <1>7, <3>1
  <2>2. PICK m : m = n + 1
    OBVIOUS
  <2>3. Cardinality(G \cup {m}) = Cardinality(G) + 1
    <3> HIDE DEF G
    <3> QED
      BY <1>4, <2>1, <2>2, FS_AddElement
  <2>4. Cardinality(B) = Cardinality(G) + 1
    BY <2>1, <2>2, <2>3
  <2> HIDE DEF G, B
  <2> QED
    BY <1>6, <1>7, <2>4
<1>8. ASSUME i # b
      PROVE  Cardinality(B) = Cardinality(G) + (IF i = b THEN 1 ELSE 0)
  <2>1. B = G
    <3>1. \A k \in 1..(n + 1) : k \in 1..n \/ k = n + 1
      OBVIOUS
    <3> QED
      BY <1>3, <1>8, <3>1
  <2> HIDE DEF G, B
  <2> QED
    BY <1>6, <1>8, <2>1
<1>9. Cardinality(B) = Cardinality(G) + (IF i = b THEN 1 ELSE 0)
  BY <1>7, <1>8
<1>10. Count(<<>>, i) = 0
  <2>1. {k \in DOMAIN <<>> : <<>>[k] = i} = {}
    OBVIOUS
  <2> QED
    BY <2>1, FS_EmptySet DEF Count
<1> HIDE DEF G, B
<1> QED
  BY <1>1, <1>2, <1>3, <1>5, <1>6, <1>9, <1>10

(* The debts of an entry sum to zero, and none is a round.                 *)
Balanced(e) ==
  /\ e \in Entries /\ Len(e.current) = Len(e.wans)
  /\ SumFunctionOnSet(e.current, DOMAIN e.current) = 0
  /\ \A i \in DOMAIN e.current : Heaviest \in Nat /\ e.current[i] >= 1 - Heaviest

(* As long as the pool was p, the counter of a WAN is what it was due less *)
(* what it was given, in a round that gave g.                              *)
Shared(e, p, g) ==
  /\ e.wans = p.wans /\ g \in Seq(Nat) /\ Len(g) <= Total(p)
  /\ \A i \in DOMAIN p.wans :
       /\ e.current[i] = Len(g) * p.weights[i] - Count(g, i) * Total(p)
       /\ e.current[i] >= 1 - Total(p) /\ Count(g, i) <= p.weights[i]

(* The counters of an entry that keeps the pool's list.                    *)
LEMMA BalancedFits ==
  ASSUME NEW p \in Pools, NEW e, Balanced(e), e.wans = p.wans
  PROVE  /\ e \in Entries /\ Len(e.current) = Len(p.wans) /\ DOMAIN e.current = DOMAIN p.wans
         /\ SumFunctionOnSet(e.current, DOMAIN p.wans) = 0
         /\ \A i \in DOMAIN p.wans : e.current[i] \in Int
<1>1. e \in Entries /\ Len(e.current) = Len(p.wans)
  BY DEF Balanced
<1>2. e.current \in Seq(Int) /\ p.wans \in Seq(Nat)
  BY <1>1, PoolFacts DEF Entries
<1>3. DOMAIN e.current = DOMAIN p.wans
  BY <1>1, <1>2
<1> QED
  BY <1>1, <1>2, <1>3 DEF Balanced

(* A pick keeps the debts balanced.                                        *)
LEMMA ServedBalanced ==
  ASSUME NEW p \in Pools, NEW e, Balanced(e), e.wans = p.wans,
         NEW s, NEW b, Serves(e, p, s, b)
  PROVE  Balanced(s) /\ s.wans = p.wans
<1>1. /\ DOMAIN e.current = DOMAIN p.wans
      /\ \A i \in DOMAIN p.wans : e.current[i] \in Int /\ e.current[i] >= 1 - Heaviest
  BY BalancedFits DEF Balanced
<1>2. s \in Entries /\ s.wans = p.wans /\ Len(s.current) = Len(p.wans)
  BY DEF Serves
<1>3. DOMAIN s.current = DOMAIN p.wans
  <2>1. s.current \in Seq(Int) /\ p.wans \in Seq(Nat)
    BY <1>2, PoolFacts DEF Entries
  <2> QED
    BY <1>2, <2>1
<1>4. SumFunctionOnSet(s.current, DOMAIN s.current) = 0
  BY <1>3 DEF Serves
<1>5. ASSUME NEW i \in DOMAIN p.wans
      PROVE  Heaviest \in Nat /\ s.current[i] >= 1 - Heaviest
  <2>1. /\ s.current[i] = e.current[i] + p.weights[i] - (IF i = b THEN Total(p) ELSE 0)
        /\ (i = b => e.current[i] + p.weights[i] > 0)
    BY DEF Serves
  <2>2. /\ e.current[i] \in Int /\ e.current[i] >= 1 - Heaviest
        /\ p.weights[i] \in Nat /\ Total(p) \in Nat
        /\ Heaviest \in Nat /\ Total(p) <= Heaviest
    BY <1>1, PoolFacts, HeaviestFacts
  <2>3. CASE i = b
    BY <2>1, <2>2, <2>3
  <2>4. CASE i # b
    BY <2>1, <2>2, <2>4
  <2> QED
    BY <2>2, <2>3, <2>4
<1> QED
  BY <1>2, <1>3, <1>4, <1>5 DEF Balanced

(* At the end of a round every WAN was given its weight, and nobody owes.  *)
LEMMA RoundOver ==
  ASSUME NEW p \in Pools, NEW e, Balanced(e), NEW g, Shared(e, p, g),
         Len(g) = Total(p)
  PROVE  /\ \A i \in DOMAIN p.wans : Count(g, i) = p.weights[i]
         /\ Shared(e, p, <<>>)
<1>1. PICK t \in Nat : t = Total(p) /\ t > 0
  BY PoolFacts
<1>2. /\ IsFiniteSet(DOMAIN p.wans) /\ e.wans = p.wans /\ g \in Seq(Nat)
      /\ SumFunctionOnSet(e.current, DOMAIN p.wans) = 0
      /\ \A i \in DOMAIN p.wans : e.current[i] \in Int
  BY PoolFacts, BalancedFits DEF Shared
<1>3. ASSUME NEW i \in DOMAIN p.wans
      PROVE  /\ Count(g, i) \in Nat /\ p.weights[i] \in Nat /\ Count(g, i) <= p.weights[i]
             /\ e.current[i] = t * (p.weights[i] - Count(g, i)) /\ e.current[i] >= 0
  <2>1. PICK n \in Nat, w \in Nat : n = Count(g, i) /\ w = p.weights[i]
    BY <1>2, PoolFacts, CountFacts
  <2>2. n <= w /\ e.current[i] = t * w - n * t
    BY <1>1, <2>1 DEF Shared
  <2>3. PICK d \in Nat : d = w - n
    BY <2>2
  <2>4. t * w - n * t = t * d /\ t * d >= 0
    BY <2>3
  <2> QED
    BY <2>1, <2>2, <2>3, <2>4
<1>4. ASSUME NEW i \in DOMAIN p.wans
      PROVE  e.current[i] = 0
  <2>1. PICK a \in Int, n \in Nat : a = 0 /\ n = Cardinality(DOMAIN p.wans)
    BY <1>2, FS_CardinalityType
  <2>2. \A j \in DOMAIN p.wans : e.current[j] \in Int /\ e.current[j] >= a
    BY <1>2, <1>3, <2>1
  <2>3. e.current[i] <= (-a) * (Cardinality(DOMAIN p.wans) - 1)
    BY <1>2, <2>2, ZeroSum
  <2>4. (-a) * (n - 1) = 0
    BY <2>1
  <2> QED
    BY <1>2, <1>3, <2>1, <2>3, <2>4
<1>5. ASSUME NEW i \in DOMAIN p.wans
      PROVE  Count(g, i) = p.weights[i]
  <2>1. PICK d \in Nat : d = p.weights[i] - Count(g, i)
    BY <1>3
  <2>2. t * d = 0
    BY <1>3, <1>4, <2>1
  <2>3. d = 0
    BY <1>1, <2>2
  <2> QED
    BY <1>3, <2>1, <2>3
<1>6. Shared(e, p, <<>>)
  <2>1. <<>> \in Seq(Nat) /\ Len(<<>>) = 0
    OBVIOUS
  <2>2. ASSUME NEW i \in DOMAIN p.wans
        PROVE  /\ e.current[i] = 0 * p.weights[i] - Count(<<>>, i) * t
               /\ e.current[i] >= 1 - t /\ Count(<<>>, i) <= p.weights[i]
    <3>1. Count(<<>>, i) = 0 /\ p.weights[i] \in Nat
      BY <1>2, <1>3, CountFacts
    <3> QED
      BY <1>1, <1>4, <3>1
  <2> QED
    BY <1>1, <1>2, <2>1, <2>2 DEF Shared
<1> QED
  BY <1>5, <1>6

(* A winner still had picks left in the round.                             *)
LEMMA PicksLeft ==
  ASSUME NEW k \in Nat, NEW w \in Nat, NEW n \in Nat, NEW t \in Nat, k < t,
         k * w - n * t + w > 0
  PROVE  n < w
<1>1. SUFFICES ASSUME n >= w
               PROVE  FALSE
  OBVIOUS
<1>2. PICK d \in Nat : t = k + 1 + d
  <2>1. t - (k + 1) \in Nat /\ t = k + 1 + (t - (k + 1))
    OBVIOUS
  <2> QED
    BY <2>1
<1>3. PICK f \in Nat : n = w + f
  <2>1. n - w \in Nat /\ n = w + (n - w)
    BY <1>1
  <2> QED
    BY <2>1
<1>4. n * t = w * t + f * t
  BY <1>3
<1>5. w * t = k * w + w + w * d
  BY <1>2
<1>6. w * d \in Nat /\ f * t \in Nat /\ k * w \in Nat
  OBVIOUS
<1> QED
  BY <1>4, <1>5, <1>6

(* A pick within the round.                                                *)
LEMMA RoundGoesOn ==
  ASSUME NEW p \in Pools, NEW e, Balanced(e), NEW g, Shared(e, p, g),
         Len(g) < Total(p), NEW s, NEW b, Serves(e, p, s, b)
  PROVE  Shared(s, p, Append(g, b))
<1>1. PICK t \in Nat, k \in Nat : t = Total(p) /\ k = Len(g) /\ k < t
  <2>1. g \in Seq(Nat) /\ Total(p) \in Nat
    BY PoolFacts DEF Shared
  <2>2. Len(g) \in Nat
    BY <2>1
  <2> QED
    BY <2>1, <2>2
<1>2. g \in Seq(Nat) /\ e.wans = p.wans /\ s.wans = p.wans /\ b \in Nat
  BY PoolFacts DEF Shared, Serves
<1>3. Append(g, b) \in Seq(Nat) /\ Len(Append(g, b)) = k + 1
  BY <1>1, <1>2, CountFacts
<1>4. ASSUME NEW i \in DOMAIN p.wans
      PROVE  /\ s.current[i] = (k + 1) * p.weights[i] - Count(Append(g, b), i) * t
             /\ s.current[i] >= 1 - t /\ Count(Append(g, b), i) <= p.weights[i]
  <2>1. PICK n \in Nat, w \in Nat, c \in Int :
           n = Count(g, i) /\ w = p.weights[i] /\ c = e.current[i]
    BY <1>2, PoolFacts, CountFacts, BalancedFits
  <2>2. c = k * w - n * t /\ c >= 1 - t /\ n <= w
    BY <1>1, <2>1 DEF Shared
  <2>3. /\ s.current[i] = c + w - (IF i = b THEN t ELSE 0)
        /\ i = b => c + w > 0
    BY <1>1, <2>1 DEF Serves
  <2>4. Count(Append(g, b), i) = n + (IF i = b THEN 1 ELSE 0)
    BY <1>2, <2>1, CountFacts
  <2>5. PICK kw \in Int, nt \in Int :
           kw = k * w /\ nt = n * t /\ (k + 1) * w = kw + w /\ (n + 1) * t = nt + t
    <3>1. (k + 1) * w = k * w + w /\ (n + 1) * t = n * t + t /\ k * w \in Int /\ n * t \in Int
      OBVIOUS
    <3> QED
      BY <3>1
  <2>8. PICK v, a : v = s.current[i] /\ a = Count(Append(g, b), i)
    OBVIOUS
  <2>6. CASE i = b
    <3>1. n < w
      BY <1>1, <2>2, <2>3, <2>6, PicksLeft
    <3>2. v = c + w - t /\ a = n + 1 /\ c + w > 0
      BY <2>3, <2>4, <2>6, <2>8
    <3>3. c = kw - nt
      BY <2>2, <2>5
    <3>4. a * t = nt + t
      BY <2>5, <3>2
    <3>5. v = (kw + w) - (nt + t)
      BY <3>2, <3>3
    <3>6. v >= 1 - t /\ a <= w
      BY <3>1, <3>2
    <3> QED
      BY <2>1, <2>5, <2>8, <3>4, <3>5, <3>6
  <2>7. CASE i # b
    <3>1. v = c + w /\ a = n
      BY <2>3, <2>4, <2>7, <2>8
    <3>2. c = kw - nt /\ a * t = nt
      BY <2>2, <2>5, <3>1
    <3>3. v = (kw + w) - nt /\ v >= 1 - t /\ a <= w
      BY <2>2, <3>1, <3>2
    <3> QED
      BY <2>1, <2>5, <2>8, <3>2, <3>3
  <2> QED
    BY <2>6, <2>7
<1> QED
  BY <1>1, <1>2, <1>3, <1>4 DEF Shared

(* A reset entry owes nothing and was given nothing.                       *)
LEMMA FreshShared ==
  ASSUME NEW p \in Pools, NEW o, NEW key \in Flows \cup {NoFlow},
         NEW hash \in Nat
  PROVE  LET e == Fresh(o, key, hash, p)
         IN  Balanced(e) /\ e.wans = p.wans /\ Shared(e, p, <<>>)
<1>1. PICK e, c, t : /\ e = Fresh(o, key, hash, p) /\ c = [i \in DOMAIN p.wans |-> 0]
                     /\ t = (hash % Len(p.wans)) + 1
  OBVIOUS
<1>2. PICK n \in Nat \ {0} : n = Len(p.wans) /\ DOMAIN p.wans = 1..n
  BY PoolFacts
<1>3. e = [valid |-> TRUE, key |-> key, wans |-> p.wans, current |-> c, tie |-> t]
  BY <1>1 DEF Fresh
<1>4. c \in Seq(Int) /\ Len(c) = n /\ DOMAIN c = 1..n /\ \A i \in 1..n : c[i] = 0
  <2>1. c \in [1..n -> Int] /\ \A i \in 1..n : c[i] = 0
    BY <1>1, <1>2
  <2> QED
    BY <2>1
<1>5. t \in Nat
  <2>3. hash % n \in Nat
    BY ModRange
  <2>1. PICK h \in Nat : h = hash % n
    BY <2>3
  <2>2. t = h + 1
    BY <1>1, <1>2, <2>1
  <2> QED
    BY <2>2
<1>6. e \in Entries /\ e.current = c /\ e.wans = p.wans
  <2>1. p.wans \in Seq(Nat)
    BY PoolFacts
  <2> QED
    BY <1>3, <1>4, <1>5, <2>1 DEF Entries
<1>7. SumFunctionOnSet(c, 1..n) = 0
  <2>1. IsFiniteSet(1..n)
    BY <1>2, PoolFacts
  <2>2. \A i \in 1..n : c[i] \in Int /\ c[i] = c[i] + c[i]
    BY <1>4
  <2>3. SumFunctionOnSet(c, 1..n) = SumFunctionOnSet(c, 1..n) + SumFunctionOnSet(c, 1..n)
    BY <2>1, <2>2, SumPlus
  <2>4. SumFunctionOnSet(c, 1..n) \in Int
    BY <2>1, <2>2, SumRemove
  <2> QED
    BY <2>3, <2>4
<1>8. PICK w \in Nat : w = Total(p) /\ w > 0
  BY PoolFacts
<1>9. Heaviest \in Nat /\ Heaviest >= 1
  BY <1>8, HeaviestFacts
<1>10. Balanced(e)
  <2>1. \A i \in 1..n : Heaviest \in Nat /\ c[i] >= 1 - Heaviest
    BY <1>4, <1>9
  <2> QED
    BY <1>2, <1>4, <1>6, <1>7, <2>1 DEF Balanced
<1>11. Shared(e, p, <<>>)
  <2>1. <<>> \in Seq(Nat) /\ Len(<<>>) = 0
    OBVIOUS
  <2>2. ASSUME NEW i \in 1..n
        PROVE  /\ c[i] = 0 * p.weights[i] - Count(<<>>, i) * w
               /\ c[i] >= 1 - w /\ Count(<<>>, i) <= p.weights[i]
    <3>1. 0 \in Nat
      OBVIOUS
    <3>2. Count(<<>>, i) = 0
      BY <2>1, <3>1, CountFacts
    <3>3. p.weights[i] \in Nat
      BY <1>2, PoolFacts
    <3> QED
      BY <1>4, <1>8, <3>2, <3>3
  <2>3. e.wans = p.wans /\ <<>> \in Seq(Nat) /\ Len(<<>>) <= Total(p)
    BY <1>6, <1>8, <2>1
  <2>4. \A i \in DOMAIN p.wans :
          /\ e.current[i] = Len(<<>>) * p.weights[i] - Count(<<>>, i) * Total(p)
          /\ e.current[i] >= 1 - Total(p) /\ Count(<<>>, i) <= p.weights[i]
    BY <1>2, <1>6, <1>8, <2>1, <2>2
  <2> QED
    BY <2>3, <2>4 DEF Shared
<1> QED
  BY <1>1, <1>6, <1>10, <1>11

(***************************************************************************)
(* The inductive invariant of the flow table.                              *)
(***************************************************************************)
FlowInv ==
  /\ entry \in [Place -> Entries] /\ given \in [Place -> Seq(Nat)]
  /\ steady \in [Place -> Pools \cup {Mixed}]
  /\ \A x \in Place :
       /\ Balanced(entry[x])
       /\ steady[x] # Mixed => Shared(entry[x], steady[x], given[x])

(* A pool names a WAN, and so is never the mark of changing weights.       *)
LEMMA PoolNotMixed ==
  ASSUME NEW p \in Pools
  PROVE  p # Mixed
<1>1. p.wans \in Seq(Nat) /\ Len(p.wans) > 0
  BY PoolFacts
<1>2. Mixed.wans = <<>>
  BY DEF Mixed
<1> QED
  BY <1>1, <1>2

(* One pick from an entry in good order.                                   *)
LEMMA PickServes ==
  ASSUME FlowInv, NEW x \in Place, NEW p \in Pools,
         NEW key \in Flows \cup {NoFlow}, NEW hash \in Nat, Pick(x, key, hash, p)
  PROVE  \E s, g, q :
           /\ entry' = [entry EXCEPT ![x] = s] /\ given' = [given EXCEPT ![x] = g]
           /\ steady' = [steady EXCEPT ![x] = q]
           /\ Balanced(s) /\ g \in Seq(Nat) /\ q \in Pools \cup {Mixed}
           /\ q # Mixed => Shared(s, q, g)
<1>1. PICK keep : keep = (SameList(entry[x], p) /\ entry[x].key = key)
  OBVIOUS
<1>2. PICK e : e = IF keep THEN entry[x] ELSE Fresh(entry[x], key, hash, p)
  OBVIOUS
<1>3. PICK old : old = IF keep /\ Len(given[x]) < Total(p) THEN given[x] ELSE <<>>
  OBVIOUS
<1>4. PICK s, b : s = Served(e, p) /\ b = Choice(e, p)
  OBVIOUS
<1>5. PICK q, g : /\ q = (IF ~keep \/ steady[x] = p THEN p ELSE Mixed)
                  /\ g = (IF keep /\ steady[x] # p THEN <<>> ELSE Append(old, b))
  OBVIOUS
<1>6. /\ entry' = [entry EXCEPT ![x] = s] /\ given' = [given EXCEPT ![x] = g]
      /\ steady' = [steady EXCEPT ![x] = q]
  <2>1. x \in DOMAIN steady
    BY DEF FlowInv
  <2> QED
    BY <1>1, <1>2, <1>3, <1>4, <1>5, <2>1 DEF Pick
<1>7. Balanced(entry[x]) /\ (steady[x] = p => Shared(entry[x], p, given[x]))
  BY PoolNotMixed DEF FlowInv
<1>8. /\ Balanced(Fresh(entry[x], key, hash, p))
      /\ Fresh(entry[x], key, hash, p).wans = p.wans
      /\ Shared(Fresh(entry[x], key, hash, p), p, <<>>)
  BY FreshShared
<1>9. Balanced(e) /\ e.wans = p.wans
  BY <1>1, <1>2, <1>7, <1>8 DEF SameList
<1>10. Serves(e, p, s, b)
  <2>1. /\ e \in Entries /\ Len(e.current) = Len(p.wans)
        /\ SumFunctionOnSet(e.current, DOMAIN p.wans) = 0
    BY <1>9, BalancedFits
  <2> QED
    BY <1>4, <2>1, ServedFacts
<1>11. Balanced(s)
  BY <1>9, <1>10, ServedBalanced
<1>12. Total(p) \in Nat /\ Total(p) > 0
  BY PoolFacts
<1>13. ASSUME Shared(e, p, <<>>)
       PROVE  Shared(s, p, Append(<<>>, b))
  <2>1. PICK z : z = <<>>
    OBVIOUS
  <2>2. Shared(e, p, z) /\ Len(z) < Total(p)
    BY <1>12, <1>13, <2>1
  <2>3. Shared(s, p, Append(z, b))
    BY <1>9, <1>10, <2>2, RoundGoesOn
  <2> QED
    BY <2>1, <2>3
<1>14. CASE ~keep
  <2>1. q = p /\ g = Append(<<>>, b) /\ Shared(e, p, <<>>)
    BY <1>2, <1>3, <1>5, <1>8, <1>14
  <2>2. Shared(s, q, g)
    BY <1>13, <2>1
  <2>3. g \in Seq(Nat)
    BY <2>2 DEF Shared
  <2> QED
    BY <1>6, <1>11, <2>1, <2>2, <2>3
<1>15. CASE keep /\ steady[x] = p
  <2>1. q = p /\ g = Append(old, b) /\ e = entry[x] /\ Shared(e, p, given[x])
    BY <1>2, <1>5, <1>7, <1>15
  <2>2. Shared(s, p, g)
    <3>1. CASE Len(given[x]) < Total(p)
      <4>1. old = given[x]
        BY <1>3, <1>15, <3>1
      <4> QED
        BY <1>9, <1>10, <2>1, <3>1, <4>1, RoundGoesOn
    <3>2. CASE ~(Len(given[x]) < Total(p))
      <4>1. old = <<>>
        BY <1>3, <3>2
      <4>2. Len(given[x]) = Total(p)
        <5>1. given[x] \in Seq(Nat) /\ Len(given[x]) <= Total(p)
          BY <2>1 DEF Shared
        <5>2. Len(given[x]) \in Nat
          BY <5>1
        <5> QED
          BY <1>12, <3>2, <5>1, <5>2
      <4>3. Shared(e, p, <<>>)
        BY <1>9, <2>1, <4>2, RoundOver
      <4> QED
        BY <1>13, <2>1, <4>1, <4>3
    <3> QED
      BY <3>1, <3>2
  <2>3. g \in Seq(Nat)
    BY <2>2 DEF Shared
  <2> QED
    BY <1>6, <1>11, <2>1, <2>2, <2>3
<1>16. CASE keep /\ steady[x] # p
  <2>1. q = Mixed /\ g = <<>>
    BY <1>5, <1>16
  <2>2. g \in Seq(Nat)
    BY <2>1
  <2> QED
    BY <1>6, <1>11, <2>1, <2>2
<1> QED
  BY <1>14, <1>15, <1>16

(* A pick keeps the invariant, wherever the entry lies.                    *)
LEMMA PickKeeps ==
  ASSUME FlowInv, NEW x, NEW p \in Pools,
         NEW key \in Flows \cup {NoFlow}, NEW hash \in Nat, Pick(x, key, hash, p)
  PROVE  FlowInv'
<1>1. CASE x \in Place
  <2>1. PICK s, g, q :
          /\ entry' = [entry EXCEPT ![x] = s] /\ given' = [given EXCEPT ![x] = g]
          /\ steady' = [steady EXCEPT ![x] = q]
          /\ Balanced(s) /\ g \in Seq(Nat) /\ q \in Pools \cup {Mixed}
          /\ q # Mixed => Shared(s, q, g)
    BY <1>1, PickServes
  <2>2. s \in Entries
    BY <2>1 DEF Balanced
  <2>3. /\ entry' \in [Place -> Entries] /\ given' \in [Place -> Seq(Nat)]
        /\ steady' \in [Place -> Pools \cup {Mixed}]
    BY <1>1, <2>1, <2>2 DEF FlowInv
  <2>4. ASSUME NEW y \in Place
        PROVE  /\ Balanced(entry'[y])
               /\ steady'[y] # Mixed => Shared(entry'[y], steady'[y], given'[y])
    <3>1. CASE y = x
      <4>1. entry'[y] = s /\ given'[y] = g /\ steady'[y] = q
        BY <1>1, <2>1, <3>1 DEF FlowInv
      <4> QED
        BY <2>1, <4>1
    <3>2. CASE y # x
      <4>1. entry'[y] = entry[y] /\ given'[y] = given[y] /\ steady'[y] = steady[y]
        BY <1>1, <2>1, <3>2 DEF FlowInv
      <4> QED
        BY <4>1 DEF FlowInv
    <3> QED
      BY <3>1, <3>2
  <2> QED
    BY <2>3, <2>4 DEF FlowInv, Place, Way, Default, Mixed
<1>2. CASE x \notin Place
  <2>1. entry' = entry /\ given' = given /\ steady' = steady
    BY <1>2 DEF FlowInv, Pick
  <2> QED
    BY <2>1 DEF FlowInv
<1> QED
  BY <1>1, <1>2

(* No list is kept before the first pick, and none after a cleanup.        *)
LEMMA NothingKept ==
  /\ [x \in Place |-> Empty] \in [Place -> Entries]
  /\ [x \in Place |-> <<>>] \in [Place -> Seq(Nat)]
  /\ Balanced(Empty)
<1>1. PICK e : e = Empty
  OBVIOUS
<1>2. e \in Entries /\ e.wans = <<>> /\ e.current = <<>>
  BY <1>1 DEF Empty, Entries
<1>3. SumFunctionOnSet(<<>>, {}) = 0
  BY SumEmpty
<1>4. DOMAIN e.current = {} /\ Len(e.current) = 0 /\ Len(e.wans) = 0
  BY <1>2
<1>5. Balanced(e)
  BY <1>2, <1>3, <1>4 DEF Balanced
<1> QED
  BY <1>1, <1>2, <1>5

(* The flow table's invariant is inductive.                                *)
LEMMA FlowStarts ==
  ASSUME FlowInit
  PROVE  FlowInv
<1>1. /\ entry = [x \in Place |-> Empty] /\ given = [x \in Place |-> <<>>]
      /\ steady = [x \in Place |-> Mixed]
  BY DEF FlowInit
<1> QED
  BY <1>1, NothingKept DEF FlowInv

(* No step breaks the invariant.                                           *)
LEMMA FlowSteps ==
  ASSUME FlowInv, [FlowNext]_flowVars
  PROVE  FlowInv'
<1>1. ASSUME NEW f \in Flows, NEW p \in Pools, PickFlow(f, p)
      PROVE  FlowInv'
  <2>1. Hash[f] \in Nat /\ f \in Flows \cup {NoFlow}
    BY FlowTableAssumption
  <2>2. Pick(WayOf(f), f, Hash[f], p)
    BY <1>1 DEF PickFlow
  <2>3. PICK x, h : x = WayOf(f) /\ h = Hash[f]
    OBVIOUS
  <2> QED
    BY <2>1, <2>2, <2>3, PickKeeps
<1>2. ASSUME NEW p \in Pools, PickPacket(p)
      PROVE  FlowInv'
  <2>1. Pick(Default, NoFlow, 0, p)
    BY <1>2 DEF PickPacket
  <2>2. NoFlow \in Flows \cup {NoFlow} /\ 0 \in Nat
    OBVIOUS
  <2> QED
    BY <2>1, <2>2, PickKeeps
<1>3. ASSUME Cleanup
      PROVE  FlowInv'
  <2>1. /\ entry' = [x \in Place |-> Empty] /\ given' = [x \in Place |-> <<>>]
        /\ steady' = [x \in Place |-> Mixed]
    BY <1>3 DEF Cleanup
  <2> QED
    BY <2>1, NothingKept DEF FlowInv
<1>4. ASSUME UNCHANGED flowVars
      PROVE  FlowInv'
  BY <1>4 DEF FlowInv, flowVars
<1> QED
  BY <1>1, <1>2, <1>3, <1>4 DEF FlowNext

(* The invariant holds in every state.                                     *)
LEMMA FlowKept == FlowSpec => []FlowInv
<1>1. FlowInit => FlowInv
  BY FlowStarts
<1>2. FlowInv /\ [FlowNext]_flowVars => FlowInv'
  BY FlowSteps
<1> QED
  BY <1>1, <1>2, PTL DEF FlowSpec

(* What a round gave, seen from one WAN.                                   *)
LEMMA ShareOf ==
  ASSUME NEW p \in Pools, NEW e, Balanced(e), NEW g, Shared(e, p, g),
         NEW i \in DOMAIN p.wans
  PROVE  LET t == Total(p)
         IN  /\ Count(g, i) <= p.weights[i] /\ (Len(g) = t => Count(g, i) = p.weights[i])
             /\ Count(g, i) * t - Len(g) * p.weights[i] \in (1 - t) * (Len(p.wans) - 1)..(t - 1)
<1>1. PICK t \in Nat, w \in Nat, m \in Nat, a \in Int :
         t = Total(p) /\ w = p.weights[i] /\ m = Len(p.wans) /\ a = 1 - t
  BY PoolFacts
<1>2. g \in Seq(Nat) /\ e.wans = p.wans
  BY DEF Shared
<1>3. PICK k \in Nat, n \in Nat : k = Len(g) /\ n = Count(g, i)
  BY <1>2, CountFacts, 0 \in Nat
<1>4. n <= w /\ (k = t => n = w)
  <2>1. n <= w
    BY <1>1, <1>3 DEF Shared
  <2>2. ASSUME k = t
        PROVE  n = w
    <3>1. Len(g) = Total(p)
      BY <1>1, <1>3, <2>2
    <3> QED
      BY <1>1, <1>3, <3>1, RoundOver
  <2> QED
    BY <2>1, <2>2
<1>5. PICK c \in Int : c = e.current[i]
  BY <1>2, BalancedFits
<1>6. c = k * w - n * t /\ c >= a
  BY <1>1, <1>3, <1>5 DEF Shared
<1>7. c <= (-a) * (m - 1)
  <2>1. /\ IsFiniteSet(DOMAIN p.wans) /\ Cardinality(DOMAIN p.wans) = m
        /\ SumFunctionOnSet(e.current, DOMAIN p.wans) = 0
    BY <1>1, <1>2, PoolFacts, BalancedFits
  <2>2. \A j \in DOMAIN p.wans : e.current[j] \in Int /\ e.current[j] >= a
    BY <1>1, <1>2, BalancedFits DEF Shared
  <2>3. e.current[i] <= (-a) * (Cardinality(DOMAIN p.wans) - 1)
    BY <2>1, <2>2, ZeroSum
  <2> QED
    BY <1>5, <2>1, <2>3
<1>8. PICK kw \in Int, nt \in Int, u \in Int : kw = k * w /\ nt = n * t /\ u = a * (m - 1)
  OBVIOUS
<1>9. (-a) * (m - 1) = -u
  BY <1>8
<1>10. nt - kw \in u..(t - 1)
  <2>1. c = kw - nt /\ c >= 1 - t /\ c <= -u
    BY <1>1, <1>6, <1>7, <1>8, <1>9
  <2>2. nt - kw \in Int /\ nt - kw >= u /\ nt - kw <= t - 1
    BY <2>1
  <2> QED
    BY <2>2
<1> QED
  BY <1>1, <1>3, <1>4, <1>8, <1>10

(* A flow's WANs get their weights, exactly in every round, and within it  *)
(* none runs ahead of its share by a pick (flow_swrr_pick).                *)
THEOREM SharesExact == FlowSpec => []Proportional
<1>1. FlowInv => Proportional
  <2>1. SUFFICES ASSUME FlowInv, NEW x \in Place, Constant(x)
                 PROVE  LET p == steady[x] k == Len(given[x]) t == Total(p)
                        IN  \A i \in DOMAIN p.wans :
                              /\ Times(x, i) <= p.weights[i]
                              /\ k = t => Times(x, i) = p.weights[i]
                              /\ Times(x, i) * t - k * p.weights[i]
                                   \in (1 - t) * (Len(p.wans) - 1)..(t - 1)
    BY DEF Proportional
  <2>2. PICK p \in Pools : p = steady[x]
    BY <2>1 DEF FlowInv, Constant
  <2>3. Balanced(entry[x]) /\ Shared(entry[x], p, given[x])
    BY <2>1, <2>2 DEF FlowInv, Constant
  <2>4. \A i : Times(x, i) = Count(given[x], i)
    BY DEF Times, Count
  <2>5. PICK g : g = given[x]
    OBVIOUS
  <2>6. ASSUME NEW i \in DOMAIN p.wans
        PROVE  LET t == Total(p)
               IN  /\ Count(g, i) <= p.weights[i] /\ (Len(g) = t => Count(g, i) = p.weights[i])
                   /\ Count(g, i) * t - Len(g) * p.weights[i]
                        \in (1 - t) * (Len(p.wans) - 1)..(t - 1)
    <3>1. PICK e : e = entry[x] /\ Balanced(e) /\ Shared(e, p, g)
      BY <2>3, <2>5
    <3> QED
      BY <3>1, ShareOf
  <2> QED
    BY <2>2, <2>4, <2>5, <2>6
<1>2. FlowSpec => []FlowInv
  BY FlowKept
<1> QED
  BY <1>1, <1>2, PTL

(* Whatever the weights do from pick to pick, no debt grows with the       *)
(* traffic (flow_swrr_pool_same keeps the counters).                       *)
THEOREM DebtsBounded == FlowSpec => []DebtBounded
<1>1. FlowInv => DebtBounded
  <2>1. SUFFICES ASSUME FlowInv, NEW x \in Place
                 PROVE  LET c == entry[x].current
                            h == Max({Total(p) : p \in Pools})
                        IN  /\ SumFunction(c) = 0
                            /\ \A i \in DOMAIN c : c[i] \in (1 - h)..((h - 1) * (Len(c) - 1))
    BY DEF DebtBounded
  <2>2. PICK c : c = entry[x].current
    OBVIOUS
  <2>3. Balanced(entry[x])
    BY <2>1 DEF FlowInv
  <2>4. /\ c \in Seq(Int) /\ SumFunctionOnSet(c, DOMAIN c) = 0
        /\ \A i \in DOMAIN c : Heaviest \in Nat /\ c[i] >= 1 - Heaviest
    BY <2>2, <2>3 DEF Balanced, Entries
  <2>5. SumFunction(c) = 0
    BY <2>4, FlowSum
  <2>6. Max({Total(p) : p \in Pools}) = Heaviest
    BY DEF Heaviest
  <2>7. ASSUME NEW i \in DOMAIN c
        PROVE  c[i] \in (1 - Heaviest)..((Heaviest - 1) * (Len(c) - 1))
    <3>1. PICK m \in Nat : m = Len(c) /\ DOMAIN c = 1..m
      BY <2>4
    <3>2. IsFiniteSet(DOMAIN c) /\ Cardinality(DOMAIN c) = m
      <4>1. 1 \in Int /\ m \in Int
        OBVIOUS
      <4>2. IsFiniteSet(1..m) /\ Cardinality(1..m) = IF 1 > m THEN 0 ELSE m - 1 + 1
        BY <4>1, FS_Interval
      <4> QED
        BY <3>1, <4>2
    <3>3. PICK h \in Int : h = Heaviest
      BY <2>4, <2>7
    <3>4. PICK a \in Int : a = 1 - h
      OBVIOUS
    <3>5. \A j \in DOMAIN c : c[j] \in Int /\ c[j] >= a
      BY <2>4, <3>3, <3>4
    <3>6. c[i] <= (-a) * (Cardinality(DOMAIN c) - 1)
      BY <2>4, <3>2, <3>5, ZeroSum
    <3>7. -a = h - 1
      BY <3>4
    <3>8. PICK u \in Int : u = (h - 1) * (m - 1)
      OBVIOUS
    <3>9. c[i] \in a..u
      BY <3>2, <3>5, <3>6, <3>7, <3>8
    <3> QED
      BY <3>1, <3>3, <3>4, <3>8, <3>9
  <2> QED
    BY <2>2, <2>5, <2>6, <2>7
<1>2. FlowSpec => []FlowInv
  BY FlowKept
<1> QED
  BY <1>1, <1>2, PTL
=============================================================================
