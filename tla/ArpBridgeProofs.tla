-------------------------- MODULE ArpBridgeProofs --------------------------
(***************************************************************************)
(* Proofs about the MAC table and the ARP bridge, for every number of      *)
(* clients, ports and entries and any traffic.  The inductive invariant    *)
(* has three parts: a frame in the air that is not from a client or the    *)
(* appliance is stamped (AirInv, StampInv), so the bridge never learns it; *)
(* table and log hold client entries only, one place for a MAC (MacInv).   *)
(* LastInv, that the last speaker of a port is in the table or in what the *)
(* next start loads, needs room for every client (FewClients): a full      *)
(* table refuses a new one.  Loading and saving are folds over sequences;  *)
(* what they return is shown by induction on the prefix they have taken.   *)
(***************************************************************************)
EXTENDS ArpBridge, Integers, FiniteSets, FiniteSetsExt, FiniteSetTheorems, Functions,
        SequenceTheorems, WellFoundedInduction, TLAPS

(***************************************************************************)
(* Sets of numbers, recursion over the subsets of a finite set, prefixes.  *)
(***************************************************************************)

(* A set of natural numbers has a least element, which Min returns.        *)
LEMMA LeastNat ==
  ASSUME NEW T, T \subseteq Nat, T # {}
  PROVE  \E m \in T : \A k \in T : m <= k
<1> DEFINE R == OpToRel(<, Nat)
<1>1. IsWellFoundedOn(R, Nat) /\ R = {s \in Nat \X Nat : s[1] < s[2]}
  BY NatLessThanWellFounded, Zenon DEF OpToRel
<1> HIDE DEF R
<1>2. PICK m \in T : \A k \in T : <<k, m>> \notin R
  BY <1>1, WFMin
<1>3. \A k \in T : ~(k < m)
  BY <1>1, <1>2
<1> QED
  BY <1>2, <1>3

LEMMA MinIsLeast ==
  ASSUME NEW T, T \subseteq Nat, T # {}
  PROVE  Min(T) \in T /\ \A y \in T : Min(T) <= y
BY LeastNat DEF Min

(* Max returns the greatest of bounded ones.                               *)
LEMMA MaxIsGreatest ==
  ASSUME NEW n \in Nat, NEW T, T \subseteq 0..n, T # {}
  PROVE  Max(T) \in T /\ \A y \in T : Max(T) >= y
<1>1. PICK S : S = {n - x : x \in T}
  OBVIOUS
<1>2. S \subseteq Nat /\ S # {}
  <2>1. \A x \in T : n - x \in Nat
    OBVIOUS
  <2> QED
    BY <1>1, <2>1
<1>3. PICK m \in S : \A k \in S : m <= k
  BY <1>2, LeastNat
<1>4. PICK x \in T : m = n - x
  BY <1>1, <1>3
<1>5. \A y \in T : n - y \in S
  BY <1>1
<1>6. \A y \in T : x >= y
  BY <1>3, <1>4, <1>5
<1> QED
  BY <1>4, <1>6 DEF Max

(* Induction over the natural numbers, for a set.                          *)
LEMMA NatSteps ==
  ASSUME NEW P, 0 \in P, \A n \in Nat : n \in P => n + 1 \in P
  PROVE  \A n \in Nat : n \in P
<1> SUFFICES ASSUME NEW n \in Nat, n \notin P
             PROVE  FALSE
  OBVIOUS
<1>1. PICK m \in Nat \ P : \A k \in Nat \ P : m <= k
  BY LeastNat, Nat \ P # {}, Nat \ P \subseteq Nat
<1>2. m - 1 \in Nat /\ m - 1 \in P
  BY <1>1
<1> QED
  BY <1>1, <1>2

(* A function on the subsets of a finite set can be defined by recursion   *)
(* on one element of each, c[s]: b for the empty set, op for the others.   *)
WellDefined(S, V, b, op, c) ==
  /\ IsFiniteSet(S) /\ b \in V /\ op \in [S \X V -> V]
  /\ \A s \in SUBSET S : s # {} => c[s] \in s

Solves(g, S, b, op, c) ==
  \A s \in SUBSET S : g[s] = IF s = {} THEN b ELSE op[<<c[s], g[s \ {c[s]}]>>]

LEMMA SubsetRecursion ==
  ASSUME NEW S, NEW V, NEW b, NEW op, NEW c, WellDefined(S, V, b, op, c)
  PROVE  \E g \in [SUBSET S -> V] : Solves(g, S, b, op, c)
<1> USE DEF WellDefined
<1> DEFINE L(n) == {s \in SUBSET S : Cardinality(s) <= n}
           Rec(g, n) == \A s \in L(n) :
             g[s] = IF s = {} THEN b ELSE op[<<c[s], g[s \ {c[s]}]>>]
           P == {n \in Nat : \E g \in [L(n) -> V] : Rec(g, n)}
<1>1. \A s \in SUBSET S : IsFiniteSet(s) /\ Cardinality(s) \in Nat
  BY FS_Subset, FS_CardinalityType
<1>2. 0 \in P
  <2>1. \A s \in SUBSET S : Cardinality(s) <= 0 => s = {}
    BY <1>1, FS_EmptySet
  <2>2. [s \in L(0) |-> b] \in [L(0) -> V] /\ Rec([s \in L(0) |-> b], 0)
    BY <2>1
  <2> QED
    BY <2>2
<1>3. ASSUME NEW n \in Nat, n \in P
      PROVE  n + 1 \in P
  <2>1. PICK g \in [L(n) -> V] : Rec(g, n)
    BY <1>3
  <2> DEFINE h == [s \in L(n + 1) |-> IF s = {} THEN b ELSE op[<<c[s], g[s \ {c[s]}]>>]]
  <2>2. \A s \in L(n + 1) : s # {} => c[s] \in S /\ s \ {c[s]} \in L(n)
    <3> SUFFICES ASSUME NEW s \in L(n + 1), s # {}
                 PROVE  c[s] \in S /\ s \ {c[s]} \in L(n)
      OBVIOUS
    <3>1. c[s] \in s
      OBVIOUS
    <3>2. Cardinality(s \ {c[s]}) = Cardinality(s) - 1
      BY <1>1, <3>1, FS_RemoveElement
    <3> QED
      BY <3>1, <3>2, <1>1
  <2>3. h \in [L(n + 1) -> V]
    BY <2>2
  <2>4. \A s \in L(n) : s \in L(n + 1) /\ h[s] = g[s]
    <3>1. \A s \in L(n) : s \in L(n + 1)
      BY <1>1
    <3> QED
      BY <2>1, <3>1
  <2>5. Rec(h, n + 1)
    <3> HIDE DEF L
    <3> QED
      BY <2>2, <2>4
  <2>6. \E k \in [L(n + 1) -> V] : Rec(k, n + 1)
    <3> HIDE DEF h, L, Rec
    <3> QED
      BY <2>3, <2>5
  <2>7. n + 1 \in Nat
    OBVIOUS
  <2> HIDE DEF L, Rec
  <2> QED
    BY <2>6, <2>7
<1>4. \A n \in Nat : n \in P
  <2> HIDE DEF P
  <2> QED
    BY <1>2, <1>3, NatSteps
<1>5. Cardinality(S) \in Nat /\ L(Cardinality(S)) = SUBSET S
  BY FS_Subset, FS_CardinalityType
<1>6. Cardinality(S) \in P
  BY <1>4, <1>5
<1> QED
  BY <1>5, <1>6 DEF Solves

(* Folds of sequences take their elements in the order of the prefixes.    *)
LEMMA PrefixSets ==
  ASSUME NEW n \in Nat
  PROVE  /\ IsFiniteSet(1..n) /\ 1..0 = {}
         /\ \A s \in SUBSET (1..n) : s # {} => Max(s) \in s
         /\ \A i \in 1..n : /\ 1..i \in SUBSET (1..n) /\ 1..i # {} /\ Max(1..i) = i
                           /\ (1..i) \ {i} = 1..(i - 1)
<1>1. IsFiniteSet(1..n)
  BY FS_Interval
<1>2. 1..0 = {}
  OBVIOUS
<1>3. \A s \in SUBSET (1..n) : s # {} => Max(s) \in s
  <2> SUFFICES ASSUME NEW s \in SUBSET (1..n), s # {}
               PROVE  Max(s) \in s
    OBVIOUS
  <2>1. s \subseteq 0..n
    OBVIOUS
  <2> QED
    BY <2>1, MaxIsGreatest
<1>4. ASSUME NEW i \in 1..n
      PROVE  /\ 1..i \in SUBSET (1..n) /\ 1..i # {} /\ Max(1..i) = i
             /\ (1..i) \ {i} = 1..(i - 1)
  <2>1. 1..i \in SUBSET (1..n) /\ i \in 1..i
    OBVIOUS
  <2>2. (1..i) \ {i} = 1..(i - 1)
    OBVIOUS
  <2>3. 1..i \subseteq 0..n /\ 1..i # {}
    BY <2>1
  <2>4. Max(1..i) \in 1..i /\ \A y \in 1..i : Max(1..i) >= y
    BY <2>3, MaxIsGreatest
  <2>5. Max(1..i) = i
    BY <2>1, <2>4
  <2> QED
    BY <2>1, <2>2, <2>5
<1> QED
  BY <1>1, <1>2, <1>3, <1>4

----------------------------------------------------------------------------
ClientEntry == [mac : Client \ Own, if : Port]

----------------------------------------------------------------------------
(* Entries of a table.                                                     *)

LEMMA IdxOfPortIs ==
  ASSUME NEW X, NEW t \in Seq(X), NEW p \in PortsOf(t)
  PROVE  IdxOfPort(t, p) \in 1..Len(t) /\ t[IdxOfPort(t, p)].if = p
<1>1. PICK I : I = {i \in 1..Len(t) : t[i].if = p}
  OBVIOUS
<1>2. Len(t) \in Nat /\ DOMAIN t = 1..Len(t)
  OBVIOUS
<1>3. I \subseteq Nat /\ I # {}
  BY <1>1, <1>2 DEF PortsOf
<1>4. Min(I) \in I
  BY <1>3, MinIsLeast
<1>6. IdxOfPort(t, p) = Min(I)
  BY <1>1, <1>3 DEF IdxOfPort, SelectInSeq
<1> QED
  BY <1>1, <1>4, <1>6

LEMMA IdxOfMacIs ==
  ASSUME NEW X, NEW t \in Seq(X), NEW m \in MacsOf(t)
  PROVE  IdxOfMac(t, m) \in 1..Len(t) /\ t[IdxOfMac(t, m)].mac = m
<1>1. PICK I : I = {i \in 1..Len(t) : t[i].mac = m}
  OBVIOUS
<1>2. Len(t) \in Nat /\ DOMAIN t = 1..Len(t)
  OBVIOUS
<1>3. I \subseteq Nat /\ I # {}
  BY <1>1, <1>2 DEF MacsOf
<1>4. Min(I) \in I
  BY <1>3, MinIsLeast
<1>6. IdxOfMac(t, m) = Min(I)
  BY <1>1, <1>3 DEF IdxOfMac, SelectInSeq
<1> QED
  BY <1>1, <1>4, <1>6

(* A changed entry is the one that changes it.                             *)
LEMMA PutPortAt ==
  ASSUME NEW X, NEW u \in Seq(X), NEW e \in X, X \subseteq ClientEntry, e.if \in PortsOf(u)
  PROVE  \E k \in 1..Len(u) : u[k].if = e.if /\ PutPort(u, e) = [u EXCEPT ![k] = e]
<1>1. PICK k : k = IdxOfPort(u, e.if)
  OBVIOUS
<1>2. k \in 1..Len(u) /\ u[k].if = e.if
  BY <1>1, IdxOfPortIs
<1> QED
  BY <1>1, <1>2 DEF PutPort

LEMMA PutPortType ==
  ASSUME NEW X, NEW u \in Seq(X), NEW e \in X, X \subseteq ClientEntry
  PROVE  PutPort(u, e) \in Seq(X)
<1>1. Append(u, e) \in Seq(X) /\ \A k \in 1..Len(u) : [u EXCEPT ![k] = e] \in Seq(X)
  OBVIOUS
<1>2. CASE e.if \notin PortsOf(u)
  BY <1>1, <1>2 DEF PutPort
<1>3. CASE e.if \in PortsOf(u)
  BY <1>1, <1>3, PutPortAt
<1> QED
  BY <1>2, <1>3

LEMMA PutMacAt ==
  ASSUME NEW X, NEW u \in Seq(X), NEW e \in X, X \subseteq ClientEntry, e.mac \in MacsOf(u)
  PROVE  \E k \in 1..Len(u) : u[k].mac = e.mac /\ PutMac(u, e) = [u EXCEPT ![k] = e]
<1>1. PICK k : k = IdxOfMac(u, e.mac)
  OBVIOUS
<1>2. k \in 1..Len(u) /\ u[k].mac = e.mac
  BY <1>1, IdxOfMacIs
<1>3. PutMac(u, e) = [u EXCEPT ![k].if = e.if]
  BY <1>1 DEF PutMac
<1>4. u[k] \in ClientEntry /\ e \in ClientEntry
  BY <1>2
<1>5. [u[k] EXCEPT !.if = e.if] = e
  BY <1>2, <1>4 DEF ClientEntry
<1>6. PutMac(u, e) = [u EXCEPT ![k] = e]
  BY <1>3, <1>5
<1> QED
  BY <1>2, <1>6

LEMMA PutMacType ==
  ASSUME NEW X, NEW u \in Seq(X), NEW e \in X, X \subseteq ClientEntry
  PROVE  PutMac(u, e) \in Seq(X)
<1>1. Append(u, e) \in Seq(X) /\ \A k \in 1..Len(u) : [u EXCEPT ![k] = e] \in Seq(X)
  OBVIOUS
<1>2. CASE e.mac \notin MacsOf(u)
  BY <1>1, <1>2 DEF PutMac
<1>3. CASE e.mac \in MacsOf(u)
  BY <1>1, <1>3, PutMacAt
<1> QED
  BY <1>2, <1>3

LEMMA LoadLineAt ==
  ASSUME NEW X, NEW b \in Seq(X), NEW u \in Seq(X), NEW e \in X, X \subseteq ClientEntry, e.if \in PortsOf(u)
  PROVE  LoadLine(b, u, e) = [u EXCEPT ![IdxOfPort(u, e.if)] = e]
<1>1. PICK k : k = IdxOfPort(u, e.if)
  OBVIOUS
<1>2. k \in 1..Len(u) /\ u[k].if = e.if
  BY <1>1, IdxOfPortIs
<1>3. LoadLine(b, u, e) = [u EXCEPT ![k].mac = e.mac]
  BY <1>1 DEF LoadLine
<1>4. u[k] \in ClientEntry /\ e \in ClientEntry
  BY <1>2
<1>5. [u[k] EXCEPT !.mac = e.mac] = e
  BY <1>2, <1>4 DEF ClientEntry
<1> QED
  BY <1>1, <1>3, <1>5

LEMMA LoadLineType ==
  ASSUME NEW X, NEW b \in Seq(X), NEW u \in Seq(X), NEW e \in X, X \subseteq ClientEntry
  PROVE  LoadLine(b, u, e) \in Seq(X)
<1>1. Append(u, e) \in Seq(X) /\ \A k \in 1..Len(u) : [u EXCEPT ![k] = e] \in Seq(X)
  OBVIOUS
<1>2. CASE e.if \notin PortsOf(u)
  BY <1>1, <1>2 DEF LoadLine
<1>3. CASE e.if \in PortsOf(u)
  <2>1. LoadLine(b, u, e) = [u EXCEPT ![IdxOfPort(u, e.if)] = e]
    BY <1>3, LoadLineAt
  <2>2. IdxOfPort(u, e.if) \in 1..Len(u)
    BY <1>3, IdxOfPortIs
  <2> QED
    BY <1>1, <2>1, <2>2
<1> QED
  BY <1>2, <1>3

----------------------------------------------------------------------------
(* The four loops, as the sequence of the tables they go through.          *)

(* Kept.                                                                   *)
LEMMA KeptSteps ==
  ASSUME NEW X, NEW t \in Seq(X), NEW S \in SUBSET X
  PROVE  \E h : /\ h[0] = <<>> /\ h[Len(t)] = Kept(t, S)
                /\ \A i \in 1..Len(t) : h[i] = KeepIf(S, h[i - 1], t[i])
                /\ \A i \in 0..Len(t) : h[i] \in Seq(X)
<1>1. PICK n \in Nat : n = Len(t) /\ DOMAIN t = 1..n
  OBVIOUS
<1> DEFINE op == [p \in (1..n) \X Seq(X) |-> KeepIf(S, p[2], t[p[1]])]
           c == [s \in SUBSET (1..n) |-> Max(s)]
<1>2. \A i \in 1..n : \A u \in Seq(X) : KeepIf(S, u, t[i]) \in Seq(X)
  BY <1>1 DEF KeepIf
<1>3. WellDefined(1..n, Seq(X), <<>>, op, c)
  <2>1. op \in [(1..n) \X Seq(X) -> Seq(X)]
    <3>1. \A p \in (1..n) \X Seq(X) : p[1] \in 1..n /\ p[2] \in Seq(X)
      OBVIOUS
    <3>2. \A p \in (1..n) \X Seq(X) : KeepIf(S, p[2], t[p[1]]) \in Seq(X)
      BY <1>2, <3>1
    <3> QED
      BY <3>2
  <2>2. \A s \in SUBSET (1..n) : s # {} => c[s] \in s
    BY PrefixSets
  <2>3. <<>> \in Seq(X)
    OBVIOUS
  <2> HIDE DEF op, c
  <2> QED
    BY <2>1, <2>2, <2>3, PrefixSets DEF WellDefined
<1>4. /\ \A s \in SUBSET (1..n) : c[s] = Max(s)
      /\ \A i \in 1..n : \A u \in Seq(X) : op[<<i, u>>] = KeepIf(S, u, t[i])
  OBVIOUS
<1> HIDE DEF op, c
<1>5. PICK g \in [SUBSET (1..n) -> Seq(X)] : Solves(g, 1..n, <<>>, op, c)
  BY <1>3, SubsetRecursion
<1>6. \A s \in SUBSET (1..n) :
        g[s] = IF s = {} THEN <<>> ELSE KeepIf(S, g[s \ {Max(s)}], t[Max(s)])
  <2> SUFFICES ASSUME NEW s \in SUBSET (1..n), s # {}
               PROVE  g[s] = KeepIf(S, g[s \ {Max(s)}], t[Max(s)])
    BY <1>5 DEF Solves
  <2>1. Max(s) \in 1..n /\ g[s \ {Max(s)}] \in Seq(X)
    BY PrefixSets
  <2> QED
    BY <1>4, <1>5, <2>1 DEF Solves
<1>7. g = [s \in SUBSET (1..n) |-> IF s = {} THEN <<>> ELSE KeepIf(S, g[s \ {Max(s)}], t[Max(s)])]
  BY <1>6
<1>8. PICK f : /\ f = [s \in SUBSET (1..n) |->
                         IF s = {} THEN <<>> ELSE KeepIf(S, f[s \ {Max(s)}], t[Max(s)])]
               /\ Kept(t, S) = f[1..n]
  BY <1>1, <1>7 DEF Kept, FoldLeft, MapThenFoldSet
<1>9. PICK h : h = [i \in 0..n |-> f[1..i]]
  OBVIOUS
<1>10. \A i \in 0..n : h[i] = f[1..i]
  BY <1>9
<1>11. \A s \in SUBSET (1..n) :
         f[s] = IF s = {} THEN <<>> ELSE KeepIf(S, f[s \ {Max(s)}], t[Max(s)])
  BY <1>8
<1>12. h[0] = <<>> /\ h[n] = Kept(t, S)
  <2>1. h[0] = f[{}] /\ {} \in SUBSET (1..n)
    BY <1>10, PrefixSets
  <2>2. f[{}] = <<>>
    BY <1>11, <2>1
  <2>3. h[n] = f[1..n]
    BY <1>10, n \in 0..n
  <2> QED
    BY <1>8, <2>1, <2>2, <2>3
<1>13. ASSUME NEW i \in 1..n
       PROVE  h[i] = KeepIf(S, h[i - 1], t[i])
  <2>1. h[i] = f[1..i] /\ h[i - 1] = f[1..(i - 1)]
    BY <1>10
  <2>2. 1..i \in SUBSET (1..n) /\ 1..i # {} /\ Max(1..i) = i /\ (1..i) \ {i} = 1..(i - 1)
    BY PrefixSets
  <2>3. f[1..i] = KeepIf(S, f[(1..i) \ {Max(1..i)}], t[Max(1..i)])
    BY <1>11, <2>2
  <2> QED
    BY <2>1, <2>2, <2>3
<1>14. \A i \in 0..n : h[i] \in Seq(X)
  <2> DEFINE P == {i \in Nat : i <= n => h[i] \in Seq(X)}
  <2>1. 0 \in P
    <3>1. <<>> \in Seq(X)
      OBVIOUS
    <3> QED
      BY <1>12, <3>1
  <2>2. ASSUME NEW i \in Nat, i \in P
        PROVE  i + 1 \in P
    <3> SUFFICES ASSUME i + 1 <= n
                 PROVE  h[i + 1] \in Seq(X)
      OBVIOUS
    <3>1. i + 1 \in 1..n /\ (i + 1) - 1 = i /\ h[i] \in Seq(X)
      BY <2>2
    <3>2. h[i + 1] = KeepIf(S, h[i], t[i + 1])
      BY <1>13, <3>1
    <3> QED
      BY <1>2, <3>1, <3>2
  <2> HIDE DEF P
  <2>3. \A i \in Nat : i \in P
    BY <2>1, <2>2, NatSteps
  <2> QED
    BY <2>3 DEF P
<1> QED
  BY <1>1, <1>12, <1>13, <1>14

LEMMA OnePerPortSteps ==
  ASSUME NEW X, X \subseteq ClientEntry, NEW t \in Seq(X)
  PROVE  \E h : /\ h[0] = <<>> /\ h[Len(t)] = OnePerPort(t)
                /\ \A i \in 1..Len(t) : h[i] = PutPort(h[i - 1], t[i])
                /\ \A i \in 0..Len(t) : h[i] \in Seq(X)
<1>1. PICK n \in Nat : n = Len(t) /\ DOMAIN t = 1..n
  OBVIOUS
<1> DEFINE op == [p \in (1..n) \X Seq(X) |-> PutPort(p[2], t[p[1]])]
           c == [s \in SUBSET (1..n) |-> Max(s)]
<1>2. \A i \in 1..n : \A u \in Seq(X) : PutPort(u, t[i]) \in Seq(X)
  BY <1>1, PutPortType
<1>3. WellDefined(1..n, Seq(X), <<>>, op, c)
  <2>1. op \in [(1..n) \X Seq(X) -> Seq(X)]
    <3>1. \A p \in (1..n) \X Seq(X) : p[1] \in 1..n /\ p[2] \in Seq(X)
      OBVIOUS
    <3>2. \A p \in (1..n) \X Seq(X) : PutPort(p[2], t[p[1]]) \in Seq(X)
      BY <1>2, <3>1
    <3> QED
      BY <3>2
  <2>2. \A s \in SUBSET (1..n) : s # {} => c[s] \in s
    BY PrefixSets
  <2>3. <<>> \in Seq(X)
    OBVIOUS
  <2> HIDE DEF op, c
  <2> QED
    BY <2>1, <2>2, <2>3, PrefixSets DEF WellDefined
<1>4. /\ \A s \in SUBSET (1..n) : c[s] = Max(s)
      /\ \A i \in 1..n : \A u \in Seq(X) : op[<<i, u>>] = PutPort(u, t[i])
  OBVIOUS
<1> HIDE DEF op, c
<1>5. PICK g \in [SUBSET (1..n) -> Seq(X)] : Solves(g, 1..n, <<>>, op, c)
  BY <1>3, SubsetRecursion
<1>6. \A s \in SUBSET (1..n) :
        g[s] = IF s = {} THEN <<>> ELSE PutPort(g[s \ {Max(s)}], t[Max(s)])
  <2> SUFFICES ASSUME NEW s \in SUBSET (1..n), s # {}
               PROVE  g[s] = PutPort(g[s \ {Max(s)}], t[Max(s)])
    BY <1>5 DEF Solves
  <2>1. Max(s) \in 1..n /\ g[s \ {Max(s)}] \in Seq(X)
    BY PrefixSets
  <2> QED
    BY <1>4, <1>5, <2>1 DEF Solves
<1>7. g = [s \in SUBSET (1..n) |-> IF s = {} THEN <<>> ELSE PutPort(g[s \ {Max(s)}], t[Max(s)])]
  BY <1>6
<1>8. PICK f : /\ f = [s \in SUBSET (1..n) |->
                         IF s = {} THEN <<>> ELSE PutPort(f[s \ {Max(s)}], t[Max(s)])]
               /\ OnePerPort(t) = f[1..n]
  BY <1>1, <1>7 DEF OnePerPort, FoldLeft, MapThenFoldSet
<1>9. PICK h : h = [i \in 0..n |-> f[1..i]]
  OBVIOUS
<1>10. \A i \in 0..n : h[i] = f[1..i]
  BY <1>9
<1>11. \A s \in SUBSET (1..n) :
         f[s] = IF s = {} THEN <<>> ELSE PutPort(f[s \ {Max(s)}], t[Max(s)])
  BY <1>8
<1>12. h[0] = <<>> /\ h[n] = OnePerPort(t)
  <2>1. h[0] = f[{}] /\ {} \in SUBSET (1..n)
    BY <1>10, PrefixSets
  <2>2. f[{}] = <<>>
    BY <1>11, <2>1
  <2>3. h[n] = f[1..n]
    BY <1>10, n \in 0..n
  <2> QED
    BY <1>8, <2>1, <2>2, <2>3
<1>13. ASSUME NEW i \in 1..n
       PROVE  h[i] = PutPort(h[i - 1], t[i])
  <2>1. h[i] = f[1..i] /\ h[i - 1] = f[1..(i - 1)]
    BY <1>10
  <2>2. 1..i \in SUBSET (1..n) /\ 1..i # {} /\ Max(1..i) = i /\ (1..i) \ {i} = 1..(i - 1)
    BY PrefixSets
  <2>3. f[1..i] = PutPort(f[(1..i) \ {Max(1..i)}], t[Max(1..i)])
    BY <1>11, <2>2
  <2> QED
    BY <2>1, <2>2, <2>3
<1>14. \A i \in 0..n : h[i] \in Seq(X)
  <2> DEFINE P == {i \in Nat : i <= n => h[i] \in Seq(X)}
  <2>1. 0 \in P
    <3>1. <<>> \in Seq(X)
      OBVIOUS
    <3> QED
      BY <1>12, <3>1
  <2>2. ASSUME NEW i \in Nat, i \in P
        PROVE  i + 1 \in P
    <3> SUFFICES ASSUME i + 1 <= n
                 PROVE  h[i + 1] \in Seq(X)
      OBVIOUS
    <3>1. i + 1 \in 1..n /\ (i + 1) - 1 = i /\ h[i] \in Seq(X)
      BY <2>2
    <3>2. h[i + 1] = PutPort(h[i], t[i + 1])
      BY <1>13, <3>1
    <3> QED
      BY <1>2, <3>1, <3>2
  <2> HIDE DEF P
  <2>3. \A i \in Nat : i \in P
    BY <2>1, <2>2, NatSteps
  <2> QED
    BY <2>3 DEF P
<1> QED
  BY <1>1, <1>12, <1>13, <1>14

LEMMA OverlaySteps ==
  ASSUME NEW X, X \subseteq ClientEntry, NEW l \in Seq(X), NEW t \in Seq(X)
  PROVE  \E h : /\ h[0] = l /\ h[Len(t)] = Overlay(l, t)
                /\ \A i \in 1..Len(t) : h[i] = PutMac(h[i - 1], t[i])
                /\ \A i \in 0..Len(t) : h[i] \in Seq(X)
<1>1. PICK n \in Nat : n = Len(t) /\ DOMAIN t = 1..n
  OBVIOUS
<1> DEFINE op == [p \in (1..n) \X Seq(X) |-> PutMac(p[2], t[p[1]])]
           c == [s \in SUBSET (1..n) |-> Max(s)]
<1>2. \A i \in 1..n : \A u \in Seq(X) : PutMac(u, t[i]) \in Seq(X)
  BY <1>1, PutMacType
<1>3. WellDefined(1..n, Seq(X), l, op, c)
  <2>1. op \in [(1..n) \X Seq(X) -> Seq(X)]
    <3>1. \A p \in (1..n) \X Seq(X) : p[1] \in 1..n /\ p[2] \in Seq(X)
      OBVIOUS
    <3>2. \A p \in (1..n) \X Seq(X) : PutMac(p[2], t[p[1]]) \in Seq(X)
      BY <1>2, <3>1
    <3> QED
      BY <3>2
  <2>2. \A s \in SUBSET (1..n) : s # {} => c[s] \in s
    BY PrefixSets
  <2>3. l \in Seq(X)
    OBVIOUS
  <2> HIDE DEF op, c
  <2> QED
    BY <2>1, <2>2, <2>3, PrefixSets DEF WellDefined
<1>4. /\ \A s \in SUBSET (1..n) : c[s] = Max(s)
      /\ \A i \in 1..n : \A u \in Seq(X) : op[<<i, u>>] = PutMac(u, t[i])
  OBVIOUS
<1> HIDE DEF op, c
<1>5. PICK g \in [SUBSET (1..n) -> Seq(X)] : Solves(g, 1..n, l, op, c)
  BY <1>3, SubsetRecursion
<1>6. \A s \in SUBSET (1..n) :
        g[s] = IF s = {} THEN l ELSE PutMac(g[s \ {Max(s)}], t[Max(s)])
  <2> SUFFICES ASSUME NEW s \in SUBSET (1..n), s # {}
               PROVE  g[s] = PutMac(g[s \ {Max(s)}], t[Max(s)])
    BY <1>5 DEF Solves
  <2>1. Max(s) \in 1..n /\ g[s \ {Max(s)}] \in Seq(X)
    BY PrefixSets
  <2> QED
    BY <1>4, <1>5, <2>1 DEF Solves
<1>7. g = [s \in SUBSET (1..n) |-> IF s = {} THEN l ELSE PutMac(g[s \ {Max(s)}], t[Max(s)])]
  BY <1>6
<1>8. PICK f : /\ f = [s \in SUBSET (1..n) |->
                         IF s = {} THEN l ELSE PutMac(f[s \ {Max(s)}], t[Max(s)])]
               /\ Overlay(l, t) = f[1..n]
  BY <1>1, <1>7 DEF Overlay, FoldLeft, MapThenFoldSet
<1>9. PICK h : h = [i \in 0..n |-> f[1..i]]
  OBVIOUS
<1>10. \A i \in 0..n : h[i] = f[1..i]
  BY <1>9
<1>11. \A s \in SUBSET (1..n) :
         f[s] = IF s = {} THEN l ELSE PutMac(f[s \ {Max(s)}], t[Max(s)])
  BY <1>8
<1>12. h[0] = l /\ h[n] = Overlay(l, t)
  <2>1. h[0] = f[{}] /\ {} \in SUBSET (1..n)
    BY <1>10, PrefixSets
  <2>2. f[{}] = l
    BY <1>11, <2>1
  <2>3. h[n] = f[1..n]
    BY <1>10, n \in 0..n
  <2> QED
    BY <1>8, <2>1, <2>2, <2>3
<1>13. ASSUME NEW i \in 1..n
       PROVE  h[i] = PutMac(h[i - 1], t[i])
  <2>1. h[i] = f[1..i] /\ h[i - 1] = f[1..(i - 1)]
    BY <1>10
  <2>2. 1..i \in SUBSET (1..n) /\ 1..i # {} /\ Max(1..i) = i /\ (1..i) \ {i} = 1..(i - 1)
    BY PrefixSets
  <2>3. f[1..i] = PutMac(f[(1..i) \ {Max(1..i)}], t[Max(1..i)])
    BY <1>11, <2>2
  <2> QED
    BY <2>1, <2>2, <2>3
<1>14. \A i \in 0..n : h[i] \in Seq(X)
  <2> DEFINE P == {i \in Nat : i <= n => h[i] \in Seq(X)}
  <2>1. 0 \in P
    <3>1. l \in Seq(X)
      OBVIOUS
    <3> QED
      BY <1>12, <3>1
  <2>2. ASSUME NEW i \in Nat, i \in P
        PROVE  i + 1 \in P
    <3> SUFFICES ASSUME i + 1 <= n
                 PROVE  h[i + 1] \in Seq(X)
      OBVIOUS
    <3>1. i + 1 \in 1..n /\ (i + 1) - 1 = i /\ h[i] \in Seq(X)
      BY <2>2
    <3>2. h[i + 1] = PutMac(h[i], t[i + 1])
      BY <1>13, <3>1
    <3> QED
      BY <1>2, <3>1, <3>2
  <2> HIDE DEF P
  <2>3. \A i \in Nat : i \in P
    BY <2>1, <2>2, NatSteps
  <2> QED
    BY <2>3 DEF P
<1> QED
  BY <1>1, <1>12, <1>13, <1>14

LEMMA LoadSteps ==
  ASSUME NEW X, X \subseteq ClientEntry, NEW b \in Seq(X), NEW t \in Seq(X)
  PROVE  \E h : /\ h[0] = b /\ h[Len(t)] = LoadLines(b, t)
                /\ \A i \in 1..Len(t) : h[i] = LoadLine(b, h[i - 1], t[i])
                /\ \A i \in 0..Len(t) : h[i] \in Seq(X)
<1>1. PICK n \in Nat : n = Len(t) /\ DOMAIN t = 1..n
  OBVIOUS
<1> DEFINE op == [p \in (1..n) \X Seq(X) |-> LoadLine(b, p[2], t[p[1]])]
           c == [s \in SUBSET (1..n) |-> Max(s)]
<1>2. \A i \in 1..n : \A u \in Seq(X) : LoadLine(b, u, t[i]) \in Seq(X)
  BY <1>1, LoadLineType
<1>3. WellDefined(1..n, Seq(X), b, op, c)
  <2>1. op \in [(1..n) \X Seq(X) -> Seq(X)]
    <3>1. \A p \in (1..n) \X Seq(X) : p[1] \in 1..n /\ p[2] \in Seq(X)
      OBVIOUS
    <3>2. \A p \in (1..n) \X Seq(X) : LoadLine(b, p[2], t[p[1]]) \in Seq(X)
      BY <1>2, <3>1
    <3> QED
      BY <3>2
  <2>2. \A s \in SUBSET (1..n) : s # {} => c[s] \in s
    BY PrefixSets
  <2>3. b \in Seq(X)
    OBVIOUS
  <2> HIDE DEF op, c
  <2> QED
    BY <2>1, <2>2, <2>3, PrefixSets DEF WellDefined
<1>4. /\ \A s \in SUBSET (1..n) : c[s] = Max(s)
      /\ \A i \in 1..n : \A u \in Seq(X) : op[<<i, u>>] = LoadLine(b, u, t[i])
  OBVIOUS
<1> HIDE DEF op, c
<1>5. PICK g \in [SUBSET (1..n) -> Seq(X)] : Solves(g, 1..n, b, op, c)
  BY <1>3, SubsetRecursion
<1>6. \A s \in SUBSET (1..n) :
        g[s] = IF s = {} THEN b ELSE LoadLine(b, g[s \ {Max(s)}], t[Max(s)])
  <2> SUFFICES ASSUME NEW s \in SUBSET (1..n), s # {}
               PROVE  g[s] = LoadLine(b, g[s \ {Max(s)}], t[Max(s)])
    BY <1>5 DEF Solves
  <2>1. Max(s) \in 1..n /\ g[s \ {Max(s)}] \in Seq(X)
    BY PrefixSets
  <2> QED
    BY <1>4, <1>5, <2>1 DEF Solves
<1>7. g = [s \in SUBSET (1..n) |-> IF s = {} THEN b ELSE LoadLine(b, g[s \ {Max(s)}], t[Max(s)])]
  BY <1>6
<1>8. PICK f : /\ f = [s \in SUBSET (1..n) |->
                         IF s = {} THEN b ELSE LoadLine(b, f[s \ {Max(s)}], t[Max(s)])]
               /\ LoadLines(b, t) = f[1..n]
  BY <1>1, <1>7 DEF LoadLines, FoldLeft, MapThenFoldSet
<1>9. PICK h : h = [i \in 0..n |-> f[1..i]]
  OBVIOUS
<1>10. \A i \in 0..n : h[i] = f[1..i]
  BY <1>9
<1>11. \A s \in SUBSET (1..n) :
         f[s] = IF s = {} THEN b ELSE LoadLine(b, f[s \ {Max(s)}], t[Max(s)])
  BY <1>8
<1>12. h[0] = b /\ h[n] = LoadLines(b, t)
  <2>1. h[0] = f[{}] /\ {} \in SUBSET (1..n)
    BY <1>10, PrefixSets
  <2>2. f[{}] = b
    BY <1>11, <2>1
  <2>3. h[n] = f[1..n]
    BY <1>10, n \in 0..n
  <2> QED
    BY <1>8, <2>1, <2>2, <2>3
<1>13. ASSUME NEW i \in 1..n
       PROVE  h[i] = LoadLine(b, h[i - 1], t[i])
  <2>1. h[i] = f[1..i] /\ h[i - 1] = f[1..(i - 1)]
    BY <1>10
  <2>2. 1..i \in SUBSET (1..n) /\ 1..i # {} /\ Max(1..i) = i /\ (1..i) \ {i} = 1..(i - 1)
    BY PrefixSets
  <2>3. f[1..i] = LoadLine(b, f[(1..i) \ {Max(1..i)}], t[Max(1..i)])
    BY <1>11, <2>2
  <2> QED
    BY <2>1, <2>2, <2>3
<1>14. \A i \in 0..n : h[i] \in Seq(X)
  <2> DEFINE P == {i \in Nat : i <= n => h[i] \in Seq(X)}
  <2>1. 0 \in P
    <3>1. b \in Seq(X)
      OBVIOUS
    <3> QED
      BY <1>12, <3>1
  <2>2. ASSUME NEW i \in Nat, i \in P
        PROVE  i + 1 \in P
    <3> SUFFICES ASSUME i + 1 <= n
                 PROVE  h[i + 1] \in Seq(X)
      OBVIOUS
    <3>1. i + 1 \in 1..n /\ (i + 1) - 1 = i /\ h[i] \in Seq(X)
      BY <2>2
    <3>2. h[i + 1] = LoadLine(b, h[i], t[i + 1])
      BY <1>13, <3>1
    <3> QED
      BY <1>2, <3>1, <3>2
  <2> HIDE DEF P
  <2>3. \A i \in Nat : i \in P
    BY <2>1, <2>2, NatSteps
  <2> QED
    BY <2>3 DEF P
<1> QED
  BY <1>1, <1>12, <1>13, <1>14

----------------------------------------------------------------------------
(* Tables as sets of entries.                                              *)

Fits(t) == t \in Seq(ClientEntry) /\ Len(t) <= MaxEntries

(* No MAC in two places, no port with two MACs.                            *)
Places(t) == \A i, j \in DOMAIN t : i # j => t[i].mac # t[j].mac
Ports(t) == \A i, j \in DOMAIN t : i # j => t[i].if # t[j].if

LEMMA SetOf ==
  ASSUME NEW X, NEW t \in Seq(X)
  PROVE  /\ ToSet(t) = {t[i] : i \in 1..Len(t)} /\ ToSet(t) \subseteq X
         /\ MacsOf(t) = {e.mac : e \in ToSet(t)} /\ PortsOf(t) = {e.if : e \in ToSet(t)}
         /\ Len(t) \in Nat /\ DOMAIN t = 1..Len(t)
         /\ (t = <<>>) <=> (ToSet(t) = {})
<1>1. Len(t) \in Nat /\ DOMAIN t = 1..Len(t)
  OBVIOUS
<1>2. ToSet(t) = {t[i] : i \in 1..Len(t)} /\ ToSet(t) \subseteq X
  BY <1>1 DEF ToSet
<1>3. MacsOf(t) = {e.mac : e \in ToSet(t)} /\ PortsOf(t) = {e.if : e \in ToSet(t)}
  BY <1>1, <1>2 DEF MacsOf, PortsOf
<1>4. (t = <<>>) <=> (ToSet(t) = {})
  <2>1. t = <<>> => ToSet(t) = {}
    BY DEF ToSet
  <2>2. t # <<>> => t[1] \in ToSet(t)
    BY <1>1, <1>2
  <2> QED
    BY <2>1, <2>2
<1> QED
  BY <1>1, <1>2, <1>3, <1>4

(* In a table where no MAC is in two places, the MAC tells the entry.      *)
LEMMA PlacesTell ==
  ASSUME NEW X, NEW t \in Seq(X), Places(t)
  PROVE  \A e, f \in ToSet(t) : e.mac = f.mac => e = f
BY SetOf DEF Places

(* Entries of such a table, with no port twice, are in one place each.     *)
LEMMA PortsTell ==
  ASSUME NEW X, NEW t \in Seq(X), Ports(t), \A e, f \in ToSet(t) : e.mac = f.mac => e = f
  PROVE  Places(t)
<1> SUFFICES ASSUME NEW i \in DOMAIN t, NEW j \in DOMAIN t, i # j, t[i].mac = t[j].mac
             PROVE  FALSE
  BY DEF Places
<1>1. t[i] \in ToSet(t) /\ t[j] \in ToSet(t)
  BY DEF ToSet
<1>2. t[i] = t[j]
  BY <1>1
<1> QED
  BY <1>2 DEF Ports

(* Appending an entry, and replacing one.                                  *)
LEMMA AppendIs ==
  ASSUME NEW X, NEW u \in Seq(X), NEW e \in X
  PROVE  /\ Append(u, e) \in Seq(X) /\ Len(Append(u, e)) = Len(u) + 1
         /\ ToSet(Append(u, e)) = ToSet(u) \cup {e}
         /\ Places(u) /\ e.mac \notin MacsOf(u) => Places(Append(u, e))
         /\ Ports(u) /\ e.if \notin PortsOf(u) => Ports(Append(u, e))
<1> DEFINE a == Append(u, e)
<1>1. /\ a \in Seq(X) /\ Len(a) = Len(u) + 1 /\ Len(u) \in Nat /\ DOMAIN a = 1..(Len(u) + 1)
      /\ DOMAIN u = 1..Len(u)
      /\ \A i \in 1..Len(u) : a[i] = u[i] /\ i \in DOMAIN a
      /\ a[Len(u) + 1] = e /\ Len(u) + 1 \in DOMAIN a
      /\ \A i \in DOMAIN a : i = Len(u) + 1 \/ i \in 1..Len(u)
  OBVIOUS
<1>2. ToSet(a) = ToSet(u) \cup {e}
  <2> HIDE DEF a
  <2> QED
    BY <1>1 DEF ToSet
<1>3. Places(u) /\ e.mac \notin MacsOf(u) => Places(a)
  <2> HIDE DEF a
  <2> QED
    BY <1>1 DEF Places, MacsOf
<1>4. Ports(u) /\ e.if \notin PortsOf(u) => Ports(a)
  <2> HIDE DEF a
  <2> QED
    BY <1>1 DEF Ports, PortsOf
<1> QED
  BY <1>1, <1>2, <1>3, <1>4

ReplaceOk(a, u, k, e) ==
    /\ a \in Seq(ClientEntry) /\ Len(a) = Len(u)
    /\ ToSet(a) \subseteq ToSet(u) \cup {e} /\ e \in ToSet(a)
    /\ \A f \in ToSet(u) : f # u[k] => f \in ToSet(a)
    /\ Places(u) /\ (e.mac = u[k].mac \/ e.mac \notin MacsOf(u)) => Places(a)
    /\ Ports(u) /\ e.if = u[k].if => Ports(a)
    /\ e.if = u[k].if => PortsOf(a) = PortsOf(u)
    /\ Places(u) /\ e.mac = u[k].mac => \A f \in ToSet(a) : f.mac = e.mac => f = e

LEMMA ReplaceIs ==
  ASSUME NEW u \in Seq(ClientEntry), NEW e \in ClientEntry, NEW k \in 1..Len(u)
  PROVE  ReplaceOk([u EXCEPT ![k] = e], u, k, e)
<1> DEFINE a == [u EXCEPT ![k] = e]
<1>1. /\ a \in Seq(ClientEntry) /\ Len(a) = Len(u) /\ Len(u) \in Nat /\ DOMAIN a = 1..Len(u)
      /\ DOMAIN u = 1..Len(u)
      /\ a[k] = e
      /\ \A i \in 1..Len(u) : i # k => a[i] = u[i]
  OBVIOUS
<1> HIDE DEF a
<1>2. ToSet(a) \subseteq ToSet(u) \cup {e} /\ e \in ToSet(a)
  BY <1>1 DEF ToSet
<1>3. \A f \in ToSet(u) : f # u[k] => f \in ToSet(a)
  BY <1>1 DEF ToSet
<1>4. Places(u) /\ (e.mac = u[k].mac \/ e.mac \notin MacsOf(u)) => Places(a)
  BY <1>1 DEF Places, MacsOf
<1>5. Ports(u) /\ e.if = u[k].if => Ports(a)
  BY <1>1 DEF Ports
<1>6. e.if = u[k].if => PortsOf(a) = PortsOf(u)
  BY <1>1 DEF PortsOf
<1>7. Places(u) /\ e.mac = u[k].mac => \A f \in ToSet(a) : f.mac = e.mac => f = e
  BY <1>1 DEF Places, ToSet
<1> QED
  BY <1>1, <1>2, <1>3, <1>4, <1>5, <1>6, <1>7 DEF a, ReplaceOk

----------------------------------------------------------------------------
(* What the loops do, by induction over the entries they go through.       *)

(* The first i entries of t.                                               *)
UpTo(t, i) == {t[k] : k \in 1..i}

LEMMA UpToIs ==
  ASSUME NEW X, NEW t \in Seq(X)
  PROVE  /\ UpTo(t, 0) = {} /\ UpTo(t, Len(t)) = ToSet(t)
         /\ \A i \in Nat : i + 1 <= Len(t) =>
              /\ UpTo(t, i + 1) = UpTo(t, i) \cup {t[i + 1]} /\ t[i + 1] \in X
              /\ Places(t) => \A e \in UpTo(t, i) : e.mac # t[i + 1].mac
<1>1. UpTo(t, 0) = {} /\ UpTo(t, Len(t)) = ToSet(t)
  BY SetOf DEF UpTo
<1>2. ASSUME NEW i \in Nat, i + 1 <= Len(t)
      PROVE  /\ UpTo(t, i + 1) = UpTo(t, i) \cup {t[i + 1]} /\ t[i + 1] \in X
             /\ Places(t) => \A e \in UpTo(t, i) : e.mac # t[i + 1].mac
  <2>1. 1..(i + 1) = (1..i) \cup {i + 1} /\ 1..(i + 1) \subseteq DOMAIN t /\ i + 1 \in DOMAIN t
    BY <1>2
  <2>2. UpTo(t, i + 1) = UpTo(t, i) \cup {t[i + 1]} /\ t[i + 1] \in X
    BY <2>1 DEF UpTo
  <2>3. Places(t) => \A e \in UpTo(t, i) : e.mac # t[i + 1].mac
    <3>1. \A k \in 1..i : k \in DOMAIN t /\ k # i + 1
      BY <2>1
    <3> QED
      BY <2>1, <3>1 DEF UpTo, Places
  <2> QED
    BY <2>2, <2>3
<1> QED
  BY <1>1, <1>2

KeptOk(r, t, S) ==
    /\ r \in Seq(ClientEntry) /\ Len(r) <= Len(t)
    /\ ToSet(r) = ToSet(t) \cap S
    /\ Places(t) => Places(r)

LEMMA KeptIs ==
  ASSUME NEW t \in Seq(ClientEntry), NEW S \in SUBSET ClientEntry
  PROVE  KeptOk(Kept(t, S), t, S)
<1>1. PICK h : /\ h[0] = <<>> /\ h[Len(t)] = Kept(t, S)
               /\ \A i \in 1..Len(t) : h[i] = KeepIf(S, h[i - 1], t[i])
               /\ \A i \in 0..Len(t) : h[i] \in Seq(ClientEntry)
  BY KeptSteps
<1> DEFINE P == {i \in Nat : i <= Len(t) =>
                   /\ Len(h[i]) <= i /\ ToSet(h[i]) = UpTo(t, i) \cap S
                   /\ Places(t) => Places(h[i])}
<1>2. Len(t) \in Nat
  OBVIOUS
<1>3. 0 \in P
  BY <1>1, UpToIs DEF ToSet, Places
<1>4. ASSUME NEW i \in Nat, i \in P
      PROVE  i + 1 \in P
  <2> SUFFICES ASSUME i + 1 <= Len(t)
               PROVE  /\ Len(h[i + 1]) <= i + 1 /\ ToSet(h[i + 1]) = UpTo(t, i + 1) \cap S
                      /\ Places(t) => Places(h[i + 1])
    OBVIOUS
  <2>1. PICK u \in Seq(ClientEntry) : u = h[i]
    BY <1>1, <1>2
  <2>2. PICK e \in ClientEntry : e = t[i + 1]
    BY <1>2
  <2>3. Len(u) <= i /\ ToSet(u) = UpTo(t, i) \cap S /\ (Places(t) => Places(u)) /\ Len(u) \in Nat
    BY <1>2, <1>4, <2>1
  <2>4. UpTo(t, i + 1) = UpTo(t, i) \cup {e} /\ (Places(t) => \A f \in UpTo(t, i) : f.mac # e.mac)
    BY <2>2, UpToIs
  <2>5. h[i + 1] = KeepIf(S, u, e)
    <3>1. i + 1 \in 1..Len(t) /\ (i + 1) - 1 = i
      BY <1>2
    <3> QED
      BY <1>1, <2>1, <2>2, <3>1
  <2>6. CASE e \notin S
    <3>1. h[i + 1] = u
      BY <2>5, <2>6 DEF KeepIf
    <3> QED
      BY <2>3, <2>4, <2>6, <3>1
  <2>7. CASE e \in S
    <3>1. h[i + 1] = Append(u, e)
      BY <2>5, <2>7 DEF KeepIf
    <3>2. /\ Len(Append(u, e)) = Len(u) + 1 /\ ToSet(Append(u, e)) = ToSet(u) \cup {e}
          /\ Places(u) /\ e.mac \notin MacsOf(u) => Places(Append(u, e))
      BY AppendIs
    <3>3. MacsOf(u) = {f.mac : f \in ToSet(u)}
      BY SetOf
    <3>4. Places(t) => e.mac \notin MacsOf(u)
      BY <2>3, <2>4, <3>3
    <3> QED
      BY <2>3, <2>4, <2>7, <3>1, <3>2, <3>4
  <2> QED
    BY <2>6, <2>7
<1> HIDE DEF P
<1>5. Len(t) \in P
  BY <1>2, <1>3, <1>4, NatSteps
<1> QED
  BY <1>1, <1>2, <1>5, UpToIs DEF P, KeptOk

OnePerPortOk(r, t) ==
    /\ r \in Seq(ClientEntry) /\ Len(r) <= Len(t)
    /\ ToSet(r) \subseteq ToSet(t) /\ PortsOf(r) = PortsOf(t)
    /\ Ports(r)

LEMMA PutPortIs ==
  ASSUME NEW u \in Seq(ClientEntry), NEW e \in ClientEntry
  PROVE  /\ Len(PutPort(u, e)) <= Len(u) + 1
         /\ ToSet(PutPort(u, e)) \subseteq ToSet(u) \cup {e}
         /\ PortsOf(PutPort(u, e)) = PortsOf(u) \cup {e.if}
         /\ Ports(u) => Ports(PutPort(u, e))
<1>1. CASE e.if \notin PortsOf(u)
  <2>1. PutPort(u, e) = Append(u, e)
    BY <1>1 DEF PutPort
  <2>2. /\ Append(u, e) \in Seq(ClientEntry) /\ Len(Append(u, e)) = Len(u) + 1 /\ Len(u) \in Nat
        /\ ToSet(Append(u, e)) = ToSet(u) \cup {e}
        /\ Ports(u) => Ports(Append(u, e))
    BY <1>1, AppendIs
  <2>3. PortsOf(Append(u, e)) = {f.if : f \in ToSet(u) \cup {e}} /\ PortsOf(u) = {f.if : f \in ToSet(u)}
    BY <2>2, SetOf
  <2> QED
    BY <2>1, <2>2, <2>3
<1>2. CASE e.if \in PortsOf(u)
  <2>1. PICK k \in 1..Len(u) : u[k].if = e.if /\ PutPort(u, e) = [u EXCEPT ![k] = e]
    BY <1>2, PutPortAt
  <2>2. ReplaceOk(PutPort(u, e), u, k, e)
    BY <2>1, ReplaceIs
  <2>3. Len(u) \in Nat /\ PortsOf(u) \cup {e.if} = PortsOf(u)
    BY <1>2
  <2>4. u[k].if = e.if
    BY <2>1
  <2> QED
    BY <2>2, <2>3, <2>4 DEF ReplaceOk
<1> QED
  BY <1>1, <1>2

LEMMA OnePerPortIs ==
  ASSUME NEW t \in Seq(ClientEntry)
  PROVE  OnePerPortOk(OnePerPort(t), t)
<1>1. PICK h : /\ h[0] = <<>> /\ h[Len(t)] = OnePerPort(t)
               /\ \A i \in 1..Len(t) : h[i] = PutPort(h[i - 1], t[i])
               /\ \A i \in 0..Len(t) : h[i] \in Seq(ClientEntry)
  BY OnePerPortSteps
<1> DEFINE P == {i \in Nat : i <= Len(t) =>
                   /\ Len(h[i]) <= i /\ ToSet(h[i]) \subseteq UpTo(t, i) /\ Ports(h[i])
                   /\ PortsOf(h[i]) = {e.if : e \in UpTo(t, i)}}
<1>2. Len(t) \in Nat
  OBVIOUS
<1>3. 0 \in P
  BY <1>1, UpToIs DEF ToSet, Ports, PortsOf
<1>4. ASSUME NEW i \in Nat, i \in P
      PROVE  i + 1 \in P
  <2> SUFFICES ASSUME i + 1 <= Len(t)
               PROVE  /\ Len(h[i + 1]) <= i + 1 /\ ToSet(h[i + 1]) \subseteq UpTo(t, i + 1)
                      /\ Ports(h[i + 1])
                      /\ PortsOf(h[i + 1]) = {e.if : e \in UpTo(t, i + 1)}
    OBVIOUS
  <2>1. PICK u \in Seq(ClientEntry) : u = h[i]
    BY <1>1, <1>2
  <2>2. PICK e \in ClientEntry : e = t[i + 1]
    BY <1>2
  <2>3. /\ Len(u) <= i /\ ToSet(u) \subseteq UpTo(t, i) /\ Ports(u) /\ Len(u) \in Nat
        /\ PortsOf(u) = {f.if : f \in UpTo(t, i)}
    BY <1>2, <1>4, <2>1
  <2>4. UpTo(t, i + 1) = UpTo(t, i) \cup {e}
    BY <2>2, UpToIs
  <2>5. h[i + 1] = PutPort(u, e)
    <3>1. i + 1 \in 1..Len(t) /\ (i + 1) - 1 = i
      BY <1>2
    <3> QED
      BY <1>1, <2>1, <2>2, <3>1
  <2>6. /\ Len(PutPort(u, e)) <= Len(u) + 1
        /\ ToSet(PutPort(u, e)) \subseteq ToSet(u) \cup {e}
        /\ PortsOf(PutPort(u, e)) = PortsOf(u) \cup {e.if}
        /\ Ports(PutPort(u, e)) /\ PutPort(u, e) \in Seq(ClientEntry)
    BY <2>3, PutPortIs, PutPortType
  <2> QED
    BY <2>3, <2>4, <2>5, <2>6
<1> HIDE DEF P
<1>5. Len(t) \in P
  BY <1>2, <1>3, <1>4, NatSteps
<1>6. PortsOf(t) = {e.if : e \in UpTo(t, Len(t))}
  BY UpToIs, SetOf
<1> QED
  BY <1>1, <1>2, <1>5, <1>6, UpToIs DEF P, OnePerPortOk

(* The table has room for every client.                                    *)
FewClients == IsFiniteSet(Client) /\ Cardinality(Client) <= MaxEntries

LEMMA RoomForAll ==
  ASSUME FewClients, NEW u \in Seq(ClientEntry), Places(u), NEW e \in ClientEntry, e.mac \notin MacsOf(u)
  PROVE  Len(u) < MaxEntries
<1>1. PICK a : a = Append(u, e)
  OBVIOUS
<1>2. a \in Seq(ClientEntry) /\ Len(a) = Len(u) + 1 /\ Places(a) /\ DOMAIN a = 1..Len(a)
  BY <1>1, AppendIs
<1> DEFINE f == [i \in 1..Len(a) |-> a[i].mac]
<1>3. f \in Injection(1..Len(a), Client)
  <2>1. \A i \in 1..Len(a) : a[i] \in ClientEntry
    BY <1>2
  <2>2. f \in [1..Len(a) -> Client]
    BY <2>1 DEF ClientEntry
  <2>3. \A i, j \in 1..Len(a) : f[i] = f[j] => i = j
    BY <1>2 DEF Places
  <2> QED
    BY <2>2, <2>3 DEF Injection, IsInjective
<1>4. Cardinality(1..Len(a)) <= Cardinality(Client)
  <2>1. Injection(1..Len(a), Client) # {}
    BY <1>3
  <2> QED
    BY <2>1, FS_Injection DEF FewClients, ExistsInjection
<1>5. Cardinality(1..Len(a)) = Len(a) /\ Len(u) \in Nat
  BY <1>2, FS_Interval
<1>6. Cardinality(Client) \in Nat /\ MaxEntries \in Nat
  BY FS_CardinalityType, MacAssumption DEF FewClients
<1> QED
  BY <1>2, <1>4, <1>5, <1>6 DEF FewClients

PutMacOk(r, u, e) ==
    /\ r \in Seq(ClientEntry) /\ Len(r) <= MaxEntries
    /\ \A f \in ToSet(u) : f.mac # e.mac => f \in ToSet(r)
    /\ Places(u) => /\ Places(r)
                    /\ \A f \in ToSet(r) : f = e \/ (f \in ToSet(u) /\ f.mac # e.mac)
                    /\ FewClients => e \in ToSet(r)

LEMMA PutMacIs ==
  ASSUME NEW u \in Seq(ClientEntry), Len(u) <= MaxEntries, NEW e \in ClientEntry
  PROVE  PutMacOk(PutMac(u, e), u, e)
<1>0. MaxEntries \in Nat /\ Len(u) \in Nat /\ MacsOf(u) = {f.mac : f \in ToSet(u)}
  BY MacAssumption, SetOf
<1>1. CASE e.mac \in MacsOf(u)
  <2>1. PICK k \in 1..Len(u) : u[k].mac = e.mac /\ PutMac(u, e) = [u EXCEPT ![k] = e]
    BY <1>1, PutMacAt
  <2>2. PICK r : r = PutMac(u, e)
    OBVIOUS
  <2>3. ReplaceOk(r, u, k, e) /\ u[k].mac = e.mac
    BY <2>1, <2>2, ReplaceIs
  <2>4. PutMacOk(r, u, e)
    BY <2>3 DEF PutMacOk, ReplaceOk
  <2> QED
    BY <2>2, <2>4
<1>2. CASE e.mac \notin MacsOf(u) /\ Len(u) < MaxEntries
  <2>1. PutMac(u, e) = Append(u, e)
    BY <1>2 DEF PutMac
  <2>2. PICK r : r = Append(u, e)
    OBVIOUS
  <2>3. /\ r \in Seq(ClientEntry) /\ Len(r) = Len(u) + 1 /\ ToSet(r) = ToSet(u) \cup {e}
        /\ Places(u) => Places(r)
    BY <1>2, <2>2, AppendIs
  <2>4. PutMacOk(r, u, e)
    BY <1>0, <1>2, <2>3 DEF PutMacOk
  <2> QED
    BY <2>1, <2>2, <2>4
<1>3. CASE e.mac \notin MacsOf(u) /\ ~(Len(u) < MaxEntries)
  <2>1. PutMac(u, e) = u
    BY <1>3 DEF PutMac
  <2>2. ~(FewClients /\ Places(u))
    BY <1>3, RoomForAll
  <2>3. PutMacOk(u, u, e)
    BY <1>0, <1>3, <2>2 DEF PutMacOk
  <2> QED
    BY <2>1, <2>3
<1> QED
  BY <1>1, <1>2, <1>3

OverlayOk(r, l, T) ==
    /\ r \in Seq(ClientEntry) /\ Len(r) <= MaxEntries
    /\ \A e \in ToSet(l) : (\A f \in T : f.mac # e.mac) => e \in ToSet(r)
    /\ Places(l) => /\ Places(r)
                    /\ \A e \in ToSet(r) : \/ e \in T
                                           \/ e \in ToSet(l) /\ \A f \in T : f.mac # e.mac

LEMMA OverlayStep ==
  ASSUME NEW r \in Seq(ClientEntry), NEW u \in Seq(ClientEntry), NEW l, NEW T, NEW e,
         PutMacOk(r, u, e), OverlayOk(u, l, T)
  PROVE  OverlayOk(r, l, T \cup {e})
<1>1. r \in Seq(ClientEntry) /\ Len(r) <= MaxEntries
  BY DEF PutMacOk
<1>2. \A d \in ToSet(l) : (\A f \in T \cup {e} : f.mac # d.mac) => d \in ToSet(r)
  BY DEF PutMacOk, OverlayOk
<1>3. ASSUME Places(l)
      PROVE  /\ Places(r)
             /\ \A d \in ToSet(r) : \/ d \in T \cup {e}
                                    \/ d \in ToSet(l) /\ \A f \in T \cup {e} : f.mac # d.mac
  BY <1>3 DEF PutMacOk, OverlayOk
<1> QED
  BY <1>1, <1>2, <1>3 DEF OverlayOk

LEMMA OverlayIs ==
  ASSUME NEW l \in Seq(ClientEntry), Len(l) <= MaxEntries, NEW t \in Seq(ClientEntry)
  PROVE  /\ OverlayOk(Overlay(l, t), l, ToSet(t))
         /\ FewClients /\ Places(l) /\ Places(t) => ToSet(t) \subseteq ToSet(Overlay(l, t))
<1>1. PICK h : /\ h[0] = l /\ h[Len(t)] = Overlay(l, t)
               /\ \A i \in 1..Len(t) : h[i] = PutMac(h[i - 1], t[i])
               /\ \A i \in 0..Len(t) : h[i] \in Seq(ClientEntry)
  BY OverlaySteps
<1> DEFINE P == {i \in Nat : i <= Len(t) =>
                   /\ OverlayOk(h[i], l, UpTo(t, i))
                   /\ FewClients /\ Places(l) /\ Places(t) => UpTo(t, i) \subseteq ToSet(h[i])}
<1>2. Len(t) \in Nat
  OBVIOUS
<1>3. 0 \in P
  <2>1. UpTo(t, 0) = {}
    BY UpToIs
  <2>2. OverlayOk(l, l, {})
    BY DEF OverlayOk
  <2> QED
    BY <1>1, <2>1, <2>2
<1>4. ASSUME NEW i \in Nat, i \in P
      PROVE  i + 1 \in P
  <2> SUFFICES ASSUME i + 1 <= Len(t)
               PROVE  /\ OverlayOk(h[i + 1], l, UpTo(t, i + 1))
                      /\ FewClients /\ Places(l) /\ Places(t) => UpTo(t, i + 1) \subseteq ToSet(h[i + 1])
    OBVIOUS
  <2>1. PICK u \in Seq(ClientEntry) : u = h[i]
    BY <1>1, <1>2
  <2>2. PICK e \in ClientEntry : e = t[i + 1]
    BY <1>2
  <2>3. /\ OverlayOk(u, l, UpTo(t, i))
        /\ FewClients /\ Places(l) /\ Places(t) => UpTo(t, i) \subseteq ToSet(u)
    BY <1>2, <1>4, <2>1
  <2>4. UpTo(t, i + 1) = UpTo(t, i) \cup {e} /\ (Places(t) => \A f \in UpTo(t, i) : f.mac # e.mac)
    BY <2>2, UpToIs
  <2>5. PICK r \in Seq(ClientEntry) : r = PutMac(u, e) /\ r = h[i + 1]
    <3>1. i + 1 \in 1..Len(t) /\ (i + 1) - 1 = i /\ i + 1 \in 0..Len(t)
      BY <1>2
    <3> QED
      BY <1>1, <2>1, <2>2, <3>1
  <2>6. PutMacOk(r, u, e)
    <3>1. Len(u) <= MaxEntries
      BY <2>3 DEF OverlayOk
    <3> QED
      BY <2>5, <3>1, PutMacIs
  <2>7. OverlayOk(r, l, UpTo(t, i) \cup {e})
    BY <2>3, <2>6, OverlayStep
  <2>8. ASSUME FewClients, Places(l), Places(t)
        PROVE  UpTo(t, i) \cup {e} \subseteq ToSet(r)
    <3>1. Places(u)
      BY <2>3, <2>8 DEF OverlayOk
    <3> QED
      BY <2>3, <2>4, <2>6, <2>8, <3>1 DEF PutMacOk
  <2> QED
    BY <2>4, <2>5, <2>7, <2>8
<1> HIDE DEF P
<1>5. Len(t) \in P
  BY <1>2, <1>3, <1>4, NatSteps
<1> QED
  BY <1>1, <1>2, <1>5, UpToIs DEF P

LoadLineOk(r, b, u, e) ==
    /\ r \in Seq(ClientEntry) /\ Len(r) <= MaxEntries /\ Len(r) <= Len(u) + 1 /\ r # <<>>
    /\ ToSet(r) \subseteq ToSet(u) \cup {e} /\ PortsOf(u) \subseteq PortsOf(r)
    /\ b = <<>> /\ Len(u) < MaxEntries => e.if \in PortsOf(r)

LEMMA LoadLineIs ==
  ASSUME NEW b \in Seq(ClientEntry), NEW u \in Seq(ClientEntry), NEW e \in ClientEntry,
         Len(u) <= MaxEntries, PortsOf(b) \subseteq PortsOf(u)
  PROVE  LoadLineOk(LoadLine(b, u, e), b, u, e)
<1>0. /\ MaxEntries \in Nat \ {0} /\ Len(u) \in Nat
      /\ PortsOf(u) = {f.if : f \in ToSet(u)} /\ PortsOf(b) = {f.if : f \in ToSet(b)}
      /\ (u = <<>>) <=> (ToSet(u) = {})
      /\ (b = <<>>) <=> (ToSet(b) = {})
  BY MacAssumption, SetOf
<1>1. PICK r : r = LoadLine(b, u, e)
  OBVIOUS
<1>2. CASE e.if \in PortsOf(u)
  <2>1. PICK k \in 1..Len(u) : k = IdxOfPort(u, e.if) /\ u[k].if = e.if
    BY <1>2, IdxOfPortIs
  <2>2. r = [u EXCEPT ![IdxOfPort(u, e.if)] = e]
    BY <1>1, <1>2, LoadLineAt
  <2>3. ReplaceOk(r, u, k, e) /\ u[k].if = e.if
    BY <2>1, <2>2, ReplaceIs
  <2>4. (r = <<>>) <=> (ToSet(r) = {})
    BY <2>3, SetOf DEF ReplaceOk
  <2>5. LoadLineOk(r, b, u, e)
    BY <1>0, <1>2, <2>3, <2>4 DEF ReplaceOk, LoadLineOk
  <2> QED
    BY <1>1, <2>5
<1> DEFINE known == \E i \in DOMAIN b : b[i].mac = e.mac /\ u[i].mac = e.mac
<1>3. CASE e.if \notin PortsOf(u) /\ (known \/ Len(u) >= MaxEntries)
  <2>1. r = u
    BY <1>1, <1>3 DEF LoadLine
  <2>2. u # <<>>
    <3>1. CASE known
      <4>1. ToSet(b) # {}
        BY <3>1 DEF ToSet
      <4> QED
        BY <1>0, <4>1
    <3>2. CASE Len(u) >= MaxEntries
      BY <1>0, <3>2
    <3> QED
      BY <1>3, <3>1, <3>2
  <2>3. b = <<>> => ~known
    OBVIOUS
  <2>4. LoadLineOk(u, b, u, e)
    BY <1>0, <1>3, <2>2, <2>3 DEF LoadLineOk
  <2> QED
    BY <1>1, <2>1, <2>4
<1>4. CASE e.if \notin PortsOf(u) /\ ~(known \/ Len(u) >= MaxEntries)
  <2>1. r = Append(u, e)
    BY <1>1, <1>4 DEF LoadLine
  <2>2. r \in Seq(ClientEntry) /\ Len(r) = Len(u) + 1 /\ ToSet(r) = ToSet(u) \cup {e}
    BY <2>1, AppendIs
  <2>3. PortsOf(r) = {f.if : f \in ToSet(r)} /\ ((r = <<>>) <=> (ToSet(r) = {}))
    BY <2>2, SetOf
  <2>4. Len(u) < MaxEntries
    BY <1>0, <1>4
  <2>5. LoadLineOk(r, b, u, e)
    BY <1>0, <2>2, <2>3, <2>4 DEF LoadLineOk
  <2> QED
    BY <1>1, <2>5
<1> QED
  BY <1>2, <1>3, <1>4

(* What is loaded of the lines in V into b.                                *)
LoadOk(r, b, V) ==
    /\ r \in Seq(ClientEntry) /\ Len(r) <= MaxEntries
    /\ ToSet(r) \subseteq ToSet(b) \cup V /\ PortsOf(b) \subseteq PortsOf(r)
    /\ V # {} => r # <<>>

LEMMA LoadIs ==
  ASSUME NEW b \in Seq(ClientEntry), Len(b) <= MaxEntries, NEW t \in Seq(ClientEntry)
  PROVE  /\ LoadOk(LoadLines(b, t), b, ToSet(t))
         /\ b = <<>> /\ Len(t) <= MaxEntries => PortsOf(t) \subseteq PortsOf(LoadLines(b, t))
<1>1. PICK h : /\ h[0] = b /\ h[Len(t)] = LoadLines(b, t)
               /\ \A i \in 1..Len(t) : h[i] = LoadLine(b, h[i - 1], t[i])
               /\ \A i \in 0..Len(t) : h[i] \in Seq(ClientEntry)
  BY LoadSteps
<1> DEFINE P == {i \in Nat : i <= Len(t) =>
                   /\ LoadOk(h[i], b, UpTo(t, i))
                   /\ b = <<>> /\ Len(t) <= MaxEntries =>
                        Len(h[i]) <= i /\ {e.if : e \in UpTo(t, i)} \subseteq PortsOf(h[i])}
<1>2. Len(t) \in Nat /\ MaxEntries \in Nat
  BY MacAssumption
<1>3. 0 \in P
  <2>1. UpTo(t, 0) = {}
    BY UpToIs
  <2>2. LoadOk(b, b, {}) /\ (b = <<>> => Len(b) <= 0)
    BY DEF LoadOk
  <2>3. {e.if : e \in {}} = {}
    OBVIOUS
  <2> QED
    BY <1>1, <2>1, <2>2, <2>3
<1>4. ASSUME NEW i \in Nat, i \in P
      PROVE  i + 1 \in P
  <2> SUFFICES ASSUME i + 1 <= Len(t)
               PROVE  /\ LoadOk(h[i + 1], b, UpTo(t, i + 1))
                      /\ b = <<>> /\ Len(t) <= MaxEntries =>
                           /\ Len(h[i + 1]) <= i + 1
                           /\ {e.if : e \in UpTo(t, i + 1)} \subseteq PortsOf(h[i + 1])
    OBVIOUS
  <2>1. PICK u \in Seq(ClientEntry) : u = h[i]
    BY <1>1, <1>2
  <2>2. PICK e \in ClientEntry : e = t[i + 1]
    BY <1>2
  <2>3. /\ LoadOk(u, b, UpTo(t, i))
        /\ b = <<>> /\ Len(t) <= MaxEntries =>
             Len(u) <= i /\ {f.if : f \in UpTo(t, i)} \subseteq PortsOf(u)
    BY <1>2, <1>4, <2>1
  <2>4. UpTo(t, i + 1) = UpTo(t, i) \cup {e}
    BY <2>2, UpToIs
  <2>5. PICK r \in Seq(ClientEntry) : r = LoadLine(b, u, e) /\ r = h[i + 1]
    <3>1. i + 1 \in 1..Len(t) /\ (i + 1) - 1 = i /\ i + 1 \in 0..Len(t)
      BY <1>2
    <3> QED
      BY <1>1, <2>1, <2>2, <3>1
  <2>6. LoadLineOk(r, b, u, e)
    <3>1. Len(u) <= MaxEntries /\ PortsOf(b) \subseteq PortsOf(u)
      BY <2>3 DEF LoadOk
    <3> QED
      BY <2>5, <3>1, LoadLineIs
  <2>7. LoadOk(r, b, UpTo(t, i) \cup {e})
    BY <2>3, <2>6 DEF LoadOk, LoadLineOk
  <2>8. ASSUME b = <<>>, Len(t) <= MaxEntries
        PROVE  Len(r) <= i + 1 /\ {f.if : f \in UpTo(t, i) \cup {e}} \subseteq PortsOf(r)
    <3>1. Len(u) \in Nat /\ Len(r) \in Nat
      OBVIOUS
    <3>2. Len(u) <= i /\ {f.if : f \in UpTo(t, i)} \subseteq PortsOf(u)
      BY <2>3, <2>8
    <3>3. Len(u) < MaxEntries
      BY <1>2, <2>8, <3>1, <3>2
    <3>4. Len(r) <= Len(u) + 1 /\ PortsOf(u) \subseteq PortsOf(r) /\ e.if \in PortsOf(r)
      BY <2>6, <2>8, <3>3 DEF LoadLineOk
    <3> QED
      BY <3>1, <3>2, <3>4
  <2> QED
    BY <2>4, <2>5, <2>7, <2>8
<1> HIDE DEF P
<1>5. Len(t) \in P
  BY <1>2, <1>3, <1>4, NatSteps
<1>6. UpTo(t, Len(t)) = ToSet(t) /\ PortsOf(t) = {e.if : e \in ToSet(t)}
  BY UpToIs, SetOf
<1> QED
  BY <1>1, <1>2, <1>5, <1>6 DEF P

----------------------------------------------------------------------------
(* Learning, loading and saving.                                           *)

UpsertOk(r, t, e) ==
    /\ Fits(r) /\ r # <<>>
    /\ ToSet(r) \subseteq ToSet(t) \cup {e}
    /\ e \notin ToSet(r) => r = t
    /\ \A f \in ToSet(t) : f.mac # e.mac /\ f.if # e.if => f \in ToSet(r)
    /\ Places(t) => Places(r)

LEMMA UpsertIs ==
  ASSUME NEW t, Fits(t), NEW p \in Port, NEW m \in Client \ Own
  PROVE  UpsertOk(Upsert(t, p, m), t, E(m, p))
<1> DEFINE r == Upsert(t, p, m)
           e == E(m, p)
<1> SUFFICES UpsertOk(r, t, e)
  OBVIOUS
<1>0. t \in Seq(ClientEntry) /\ Len(t) \in Nat /\ MaxEntries \in Nat \ {0} /\ Len(t) <= MaxEntries
  BY MacAssumption DEF Fits
<1>1. e \in ClientEntry /\ e.mac = m /\ e.if = p
  BY DEF E, ClientEntry
<1>2. /\ MacsOf(t) = {f.mac : f \in ToSet(t)} /\ PortsOf(t) = {f.if : f \in ToSet(t)}
      /\ (t = <<>>) <=> (ToSet(t) = {})
  BY <1>0, SetOf
<1>3. ASSUME NEW k \in 1..Len(t), ReplaceOk(r, t, k, e),
             t[k].mac = m \/ (t[k].if = p /\ m \notin MacsOf(t))
      PROVE  UpsertOk(r, t, e)
  <2>2. (r = <<>>) <=> (ToSet(r) = {})
    BY <1>3, SetOf DEF ReplaceOk
  <2> HIDE DEF r, e
  <2> QED
    BY <1>0, <1>1, <1>3, <2>2 DEF ReplaceOk, UpsertOk, Fits
<1>4. CASE m \in MacsOf(t)
  <2>1. PICK k \in 1..Len(t) : k = IdxOfMac(t, m) /\ t[k].mac = m
    BY <1>0, <1>4, IdxOfMacIs
  <2>2. r = [t EXCEPT ![k].if = p]
    BY <1>4, <2>1 DEF Upsert
  <2>3. t[k] \in ClientEntry
    BY <1>0, <2>1
  <2>4. [t[k] EXCEPT !.if = p] = e
    BY <2>1, <2>3 DEF ClientEntry, E
  <2>5. r = [t EXCEPT ![k] = e]
    BY <2>2, <2>4
  <2>6. ReplaceOk(r, t, k, e)
    BY <1>0, <1>1, <2>5, ReplaceIs
  <2> HIDE DEF r, e
  <2> QED
    BY <1>3, <2>1, <2>6
<1>5. CASE m \notin MacsOf(t) /\ p \in PortsOf(t)
  <2>1. PICK k \in 1..Len(t) : k = IdxOfPort(t, p) /\ t[k].if = p
    BY <1>0, <1>5, IdxOfPortIs
  <2>2. r = [t EXCEPT ![k].mac = m]
    BY <1>5, <2>1 DEF Upsert
  <2>3. t[k] \in ClientEntry
    BY <1>0, <2>1
  <2>4. [t[k] EXCEPT !.mac = m] = e
    BY <2>1, <2>3 DEF ClientEntry, E
  <2>5. r = [t EXCEPT ![k] = e]
    BY <2>2, <2>4
  <2>6. ReplaceOk(r, t, k, e)
    BY <1>0, <1>1, <2>5, ReplaceIs
  <2> HIDE DEF r, e
  <2> QED
    BY <1>3, <1>5, <2>1, <2>6
<1>6. CASE m \notin MacsOf(t) /\ p \notin PortsOf(t) /\ Len(t) >= MaxEntries
  <2>1. r = t
    BY <1>6 DEF Upsert
  <2>2. t # <<>>
    BY <1>0, <1>6
  <2>3. UpsertOk(t, t, e)
    BY <2>2 DEF UpsertOk
  <2> QED
    BY <2>1, <2>3
<1>7. CASE m \notin MacsOf(t) /\ p \notin PortsOf(t) /\ ~(Len(t) >= MaxEntries)
  <2>1. r = Append(t, e)
    BY <1>7 DEF Upsert
  <2>2. /\ r \in Seq(ClientEntry) /\ Len(r) = Len(t) + 1 /\ ToSet(r) = ToSet(t) \cup {e}
        /\ Places(t) => Places(r)
    BY <1>0, <1>1, <1>7, <2>1, AppendIs
  <2>3. (r = <<>>) <=> (ToSet(r) = {})
    BY <2>2, SetOf
  <2>4. Len(r) <= MaxEntries
    BY <1>0, <1>7, <2>2
  <2> HIDE DEF r, e
  <2>5. e \in ToSet(r) /\ r # <<>>
    BY <2>2, <2>3
  <2> QED
    BY <2>2, <2>4, <2>5 DEF UpsertOk, Fits
<1> QED
  BY <1>4, <1>5, <1>6, <1>7

(* Only entries of clients are there to be purged: none is.                *)
LEMMA NotOwnIs ==
  ASSUME NEW t, Fits(t)
  PROVE  Fits(NotOwn(t)) /\ ToSet(NotOwn(t)) = ToSet(t) /\ (Places(t) => Places(NotOwn(t)))
<1> DEFINE S == {e \in ToSet(t) : e.mac \notin Own}
<1>1. t \in Seq(ClientEntry) /\ Len(t) \in Nat /\ Len(t) <= MaxEntries /\ MaxEntries \in Nat
  BY MacAssumption DEF Fits
<1>2. ToSet(t) \subseteq ClientEntry
  BY <1>1, SetOf
<1>3. S \in SUBSET ClientEntry /\ ToSet(t) \cap S = ToSet(t)
  BY <1>2 DEF ClientEntry
<1>4. NotOwn(t) = Kept(t, S)
  BY DEF NotOwn
<1> HIDE DEF S
<1>5. KeptOk(NotOwn(t), t, S)
  BY <1>1, <1>3, <1>4, KeptIs
<1>6. NotOwn(t) \in Seq(ClientEntry) /\ Len(NotOwn(t)) \in Nat
  BY <1>5 DEF KeptOk
<1> QED
  BY <1>1, <1>3, <1>5, <1>6 DEF KeptOk, Fits

LEMMA UsableIs ==
  ASSUME NEW l, Fits(l), NEW ports
  PROVE  Fits(Usable(l, ports)) /\ ToSet(Usable(l, ports)) = {e \in ToSet(l) : e.if \in ports}
<1> DEFINE S == {e \in ToSet(l) : e.mac \notin Own /\ e.if \in ports}
<1>1. l \in Seq(ClientEntry) /\ Len(l) \in Nat /\ Len(l) <= MaxEntries /\ MaxEntries \in Nat
  BY MacAssumption DEF Fits
<1>2. ToSet(l) \subseteq ClientEntry
  BY <1>1, SetOf
<1>3. S \in SUBSET ClientEntry /\ ToSet(l) \cap S = {e \in ToSet(l) : e.if \in ports}
  BY <1>2 DEF ClientEntry
<1>4. Usable(l, ports) = Kept(l, S)
  BY DEF Usable
<1> HIDE DEF S
<1>5. KeptOk(Usable(l, ports), l, S)
  BY <1>1, <1>3, <1>4, KeptIs
<1>6. Usable(l, ports) \in Seq(ClientEntry) /\ Len(Usable(l, ports)) \in Nat
  BY <1>5 DEF KeptOk
<1> QED
  BY <1>1, <1>3, <1>5, <1>6 DEF KeptOk, Fits

LEMMA ConfiguredIs ==
  ASSUME NEW t, Fits(t), NEW ports, PortsOf(t) \subseteq ports
  PROVE  /\ Fits(Configured(t, ports)) /\ ToSet(Configured(t, ports)) = ToSet(t)
         /\ Places(t) => Places(Configured(t, ports))
<1> DEFINE S == {e \in ToSet(t) : e.if \in ports}
<1>1. t \in Seq(ClientEntry) /\ Len(t) \in Nat /\ Len(t) <= MaxEntries /\ MaxEntries \in Nat
  BY MacAssumption DEF Fits
<1>2. ToSet(t) \subseteq ClientEntry /\ PortsOf(t) = {e.if : e \in ToSet(t)}
  BY <1>1, SetOf
<1>3. S \in SUBSET ClientEntry /\ ToSet(t) \cap S = ToSet(t)
  BY <1>2
<1>4. Configured(t, ports) = Kept(t, S)
  BY DEF Configured
<1> HIDE DEF S
<1>5. KeptOk(Configured(t, ports), t, S)
  BY <1>1, <1>3, <1>4, KeptIs
<1>6. Configured(t, ports) \in Seq(ClientEntry) /\ Len(Configured(t, ports)) \in Nat
  BY <1>5 DEF KeptOk
<1> QED
  BY <1>1, <1>3, <1>5, <1>6 DEF KeptOk, Fits

(* The table r that loading the lines l into t makes.                      *)
LoadedOk(r, t, l, ports) ==
    /\ Fits(r) /\ Ports(r)
    /\ ToSet(r) \subseteq ToSet(t) \cup {e \in ToSet(l) : e.if \in ports}
    /\ PortsOf(t) \subseteq PortsOf(r)
    /\ r = <<>> => \A e \in ToSet(l) : e.if \notin ports
    /\ t = <<>> => \A e \in ToSet(l) : e.if \in ports => e.if \in PortsOf(r)

LEMMA LoadedIs ==
  ASSUME NEW t, Fits(t), NEW l, Fits(l), NEW ports
  PROVE  LoadedOk(Loaded(t, l, ports), t, l, ports)
<1>1. PICK v : v = Usable(l, ports)
  OBVIOUS
<1>2. /\ Fits(v) /\ ToSet(v) = {e \in ToSet(l) : e.if \in ports}
      /\ v \in Seq(ClientEntry) /\ Len(v) <= MaxEntries
      /\ t \in Seq(ClientEntry) /\ Len(t) <= MaxEntries
  BY <1>1, UsableIs DEF Fits
<1>3. PICK u : u = LoadLines(t, v)
  OBVIOUS
<1>4. LoadOk(u, t, ToSet(v)) /\ (t = <<>> => PortsOf(v) \subseteq PortsOf(u))
  BY <1>2, <1>3, LoadIs
<1>5. PICK n : n = NotOwn(u)
  OBVIOUS
<1>6. Fits(u) /\ Fits(n) /\ ToSet(n) = ToSet(u) /\ n \in Seq(ClientEntry)
  BY <1>4, <1>5, NotOwnIs DEF LoadOk, Fits
<1>7. PICK r : r = OnePerPort(n)
  OBVIOUS
<1>8. OnePerPortOk(r, n)
  BY <1>6, <1>7, OnePerPortIs
<1>9. r = Loaded(t, l, ports)
  BY <1>1, <1>3, <1>5, <1>7 DEF Loaded
<1>10. Fits(r)
  <2>1. r \in Seq(ClientEntry) /\ Len(r) <= Len(n) /\ Len(n) <= MaxEntries
    BY <1>6, <1>8 DEF OnePerPortOk, Fits
  <2>2. Len(r) \in Nat /\ Len(n) \in Nat /\ MaxEntries \in Nat
    BY <1>6, <2>1, MacAssumption
  <2> QED
    BY <2>1, <2>2 DEF Fits
<1>11. /\ PortsOf(v) = {e.if : e \in ToSet(v)} /\ PortsOf(u) = {e.if : e \in ToSet(u)}
       /\ PortsOf(n) = {e.if : e \in ToSet(n)} /\ PortsOf(r) = {e.if : e \in ToSet(r)}
       /\ (u = <<>>) <=> (ToSet(u) = {})
       /\ (r = <<>>) <=> (ToSet(r) = {})
  BY <1>2, <1>6, <1>10, SetOf DEF Fits
<1>12. PortsOf(r) = PortsOf(u) /\ ToSet(r) \subseteq ToSet(u)
  BY <1>6, <1>8, <1>11 DEF OnePerPortOk
<1>13. r = <<>> => \A e \in ToSet(l) : e.if \notin ports
  <2>1. r = <<>> => u = <<>>
    BY <1>11, <1>12
  <2> QED
    BY <1>2, <1>4, <2>1 DEF LoadOk
<1>14. t = <<>> => \A e \in ToSet(l) : e.if \in ports => e.if \in PortsOf(r)
  <2> SUFFICES ASSUME t = <<>>, NEW e \in ToSet(l), e.if \in ports
               PROVE  e.if \in PortsOf(r)
    OBVIOUS
  <2>1. e \in ToSet(v)
    BY <1>2
  <2>2. e.if \in PortsOf(v)
    BY <1>11, <2>1
  <2> QED
    BY <1>4, <1>12, <2>2
<1> QED
  BY <1>2, <1>4, <1>8, <1>9, <1>10, <1>12, <1>13, <1>14 DEF LoadOk, OnePerPortOk, LoadedOk

LEMMA SeedIs ==
  ASSUME NEW l, Fits(l)
  PROVE  Fits(Seed(l)) /\ ToSet(Seed(l)) = ToSet(l) /\ (Places(l) => Places(Seed(l)))
<1>1. PICK s : s = NotOwn(l)
  OBVIOUS
<1>2. Fits(s) /\ ToSet(s) = ToSet(l) /\ (Places(l) => Places(s))
  BY <1>1, NotOwnIs
<1>3. s \in Seq(ClientEntry) /\ Len(s) \in Nat /\ Len(s) <= MaxEntries /\ MaxEntries \in Nat
  BY <1>2, MacAssumption DEF Fits
<1>4. Seed(l) = SubSeq(s, 1, IF Len(s) < MaxEntries THEN Len(s) ELSE MaxEntries)
  BY <1>1 DEF Seed
<1>5. (IF Len(s) < MaxEntries THEN Len(s) ELSE MaxEntries) = Len(s)
  BY <1>3
<1>6. SubSeq(s, 1, Len(s)) = s
  BY <1>3
<1> QED
  BY <1>2, <1>4, <1>5, <1>6

(* The log r that saving the table t over the lines l makes.               *)
MergedOk(r, l, t, ports) ==
    /\ Fits(r)
    /\ t = <<>> => ToSet(r) = ToSet(l)
    /\ \A e \in ToSet(l) : e.mac \notin MacsOf(t) /\ e.if \notin ports => e \in ToSet(r)
    /\ Places(l) =>
         /\ Places(r)
         /\ \A e \in ToSet(r) : \/ e \in ToSet(t)
                                \/ /\ e \in ToSet(l) /\ e.mac \notin MacsOf(t)
                                   /\ e.if \notin ports \/ t = <<>>
         /\ FewClients /\ Places(t) => ToSet(t) \subseteq ToSet(r)

LEMMA MergedIs ==
  ASSUME NEW l, Fits(l), NEW t, Fits(t), NEW ports
  PROVE  MergedOk(Merged(l, t, ports), l, t, ports)
<1>1. /\ l \in Seq(ClientEntry) /\ t \in Seq(ClientEntry)
      /\ MacsOf(t) = {f.mac : f \in ToSet(t)}
      /\ (t = <<>>) <=> (ToSet(t) = {})
      /\ (l = <<>>) <=> (ToSet(l) = {})
  BY SetOf DEF Fits
<1>2. CASE t = <<>> /\ l # <<>>
  <2>1. Merged(l, t, ports) = l
    BY <1>2 DEF Merged
  <2>2. MergedOk(l, l, t, ports)
    BY <1>1, <1>2 DEF MergedOk
  <2> QED
    BY <2>1, <2>2
<1>3. CASE ~(t = <<>> /\ l # <<>>)
  <2>1. PICK s : s = Seed(l)
    OBVIOUS
  <2>2. Fits(s) /\ ToSet(s) = ToSet(l) /\ (Places(l) => Places(s))
    BY <2>1, SeedIs
  <2>3. PICK o : o = Overlay(s, t)
    OBVIOUS
  <2>4. /\ OverlayOk(o, s, ToSet(t))
        /\ FewClients /\ Places(s) /\ Places(t) => ToSet(t) \subseteq ToSet(o)
    BY <1>1, <2>2, <2>3, OverlayIs DEF Fits
  <2>5. PICK S : S = {e \in ToSet(o) : e.mac \in MacsOf(t) \/ e.if \notin ports}
    OBVIOUS
  <2>6. PICK r : r = Kept(o, S)
    OBVIOUS
  <2>7. o \in Seq(ClientEntry) /\ S \in SUBSET ClientEntry /\ ToSet(o) \cap S = S
    <3>1. o \in Seq(ClientEntry)
      BY <2>4 DEF OverlayOk
    <3>2. ToSet(o) \subseteq ClientEntry
      BY <3>1, SetOf
    <3> QED
      BY <2>5, <3>1, <3>2
  <2>8. KeptOk(r, o, S)
    BY <2>6, <2>7, KeptIs
  <2>9. r = Merged(l, t, ports)
    BY <1>3, <2>1, <2>3, <2>5, <2>6 DEF Merged, Prune
  <2>10. Fits(r) /\ ToSet(r) = S /\ (Places(o) => Places(r))
    <3>1. r \in Seq(ClientEntry) /\ Len(r) <= Len(o) /\ Len(o) <= MaxEntries
      BY <2>4, <2>8 DEF KeptOk, OverlayOk
    <3>2. Len(r) \in Nat /\ Len(o) \in Nat /\ MaxEntries \in Nat
      BY <2>7, <3>1, MacAssumption
    <3> QED
      BY <2>7, <2>8, <3>1, <3>2 DEF KeptOk, Fits
  <2>11. t = <<>> => ToSet(r) = ToSet(l)
    <3> SUFFICES ASSUME t = <<>>
                 PROVE  ToSet(r) = ToSet(l)
      OBVIOUS
    <3>1. ToSet(l) = {} /\ ToSet(s) = {} /\ ToSet(t) = {}
      BY <1>1, <1>3, <2>2
    <3>2. Places(s)
      BY <3>1 DEF Places, ToSet
    <3>3. ToSet(o) = {}
      BY <2>4, <3>1, <3>2 DEF OverlayOk
    <3> QED
      BY <2>5, <2>10, <3>1, <3>3
  <2>12. \A e \in ToSet(l) : e.mac \notin MacsOf(t) /\ e.if \notin ports => e \in ToSet(r)
    BY <1>1, <2>2, <2>4, <2>5, <2>10 DEF OverlayOk
  <2>13. ASSUME Places(l)
         PROVE  /\ Places(r)
                /\ \A e \in ToSet(r) : \/ e \in ToSet(t)
                                       \/ /\ e \in ToSet(l) /\ e.mac \notin MacsOf(t)
                                          /\ e.if \notin ports \/ t = <<>>
                /\ FewClients /\ Places(t) => ToSet(t) \subseteq ToSet(r)
    <3>1. Places(s) /\ Places(o)
      BY <2>2, <2>4, <2>13 DEF OverlayOk
    <3>2. ASSUME NEW e \in ToSet(r)
          PROVE  \/ e \in ToSet(t)
                 \/ /\ e \in ToSet(l) /\ e.mac \notin MacsOf(t)
                    /\ e.if \notin ports
      <4>1. e \in ToSet(o) /\ (e.mac \in MacsOf(t) \/ e.if \notin ports)
        BY <2>5, <2>10
      <4>2. e \in ToSet(t) \/ (e \in ToSet(s) /\ \A f \in ToSet(t) : f.mac # e.mac)
        BY <2>4, <3>1, <4>1 DEF OverlayOk
      <4> QED
        BY <1>1, <2>2, <4>1, <4>2
    <3>3. ASSUME FewClients, Places(t)
          PROVE  ToSet(t) \subseteq ToSet(r)
      BY <1>1, <2>4, <2>5, <2>10, <3>1, <3>3
    <3> QED
      BY <2>10, <3>1, <3>2, <3>3
  <2>14. MergedOk(r, l, t, ports)
    BY <2>10, <2>11, <2>12, <2>13 DEF MergedOk
  <2> QED
    BY <2>9, <2>14
<1> QED
  BY <1>2, <1>3

----------------------------------------------------------------------------
(* The invariants, as predicates of the state they relate.                 *)

(* ps, t, l: configured ports, table, log.                                 *)
MacOk(ps, t, l) ==
    /\ Fits(t) /\ Fits(l)
    /\ PortsOf(t) \subseteq ps
    /\ t = <<>> => \A e \in ToSet(l) : e.if \notin ps

(* The log's lines of configured ports are in the table.                   *)
Synced(ps, t, l) == \A e \in ToSet(l) : e.if \in ps => e \in ToSet(t)

(* m is the one client of p in t.                                          *)
Holds(t, p, m) == E(m, p) \in ToSet(t) /\ \A e \in ToSet(t) : e.if = p => e.mac = m

(* The histories c are kept: of configured ports in the table, of others   *)
(* in the log, where memory does not know of another place.                *)
LastOk(ps, t, l, c) ==
    \A p \in Port : c[p] # None =>
        IF p \in ps THEN Holds(t, p, c[p])
        ELSE Holds(l, p, c[p]) /\ c[p] \notin MacsOf(t)

LEMMA LearnMac ==
  ASSUME NEW ps \in SUBSET Port, NEW t, NEW l, MacOk(ps, t, l), NEW p \in ps, NEW m \in Client \ Own,
         NEW r, r = Upsert(t, p, m)
  PROVE  MacOk(ps, r, l) /\ (Places(t) => Places(r))
<1>1. UpsertOk(r, t, E(m, p))
  BY UpsertIs DEF MacOk
<1>2. E(m, p).if = p
  BY DEF E
<1>3. PortsOf(r) = {e.if : e \in ToSet(r)} /\ PortsOf(t) = {e.if : e \in ToSet(t)}
  BY <1>1, SetOf DEF UpsertOk, MacOk, Fits
<1> QED
  BY <1>1, <1>2, <1>3 DEF UpsertOk, MacOk

(* The history after client m was learned on p.                            *)
BelongsOk(d, c, p, m, r) ==
    /\ d[p] # None => d[p] = m /\ \A e \in ToSet(r) : e.if = p => e.mac = m
    /\ \A q \in Port : q # p /\ d[q] # None => d[q] = c[q] /\ c[q] # m

LEMMA LearnLast ==
  ASSUME NEW ps \in SUBSET Port, NEW t, NEW l, MacOk(ps, t, l), NEW p \in ps, NEW m \in Client \ Own,
         NEW r, r = Upsert(t, p, m), NEW c, NEW d, LastOk(ps, t, l, c), E(m, p) \in ToSet(r),
         BelongsOk(d, c, p, m, r)
  PROVE  LastOk(ps, r, l, d)
<1>1. UpsertOk(r, t, E(m, p)) /\ E(m, p).if = p /\ E(m, p).mac = m
  BY UpsertIs DEF MacOk, E
<1>2. MacsOf(r) = {e.mac : e \in ToSet(r)} /\ MacsOf(t) = {e.mac : e \in ToSet(t)}
  BY <1>1, SetOf DEF UpsertOk, MacOk, Fits
<1> SUFFICES ASSUME NEW q \in Port, d[q] # None
             PROVE  IF q \in ps THEN Holds(r, q, d[q])
                    ELSE Holds(l, q, d[q]) /\ d[q] \notin MacsOf(r)
  BY DEF LastOk
<1>3. CASE q = p
  BY <1>3 DEF BelongsOk, Holds
<1>4. CASE q # p /\ q \in ps
  <2>1. d[q] = c[q] /\ c[q] # m /\ Holds(t, q, c[q])
    BY <1>4 DEF BelongsOk, LastOk
  <2>2. E(c[q], q) \in ToSet(t) /\ E(c[q], q).mac # m /\ E(c[q], q).if # p
    BY <1>4, <2>1 DEF Holds, E
  <2>3. E(c[q], q) \in ToSet(r)
    BY <1>1, <2>2 DEF UpsertOk
  <2>4. \A e \in ToSet(r) : e.if = q => e.mac = c[q]
    BY <1>1, <1>4, <2>1 DEF UpsertOk, Holds
  <2> QED
    BY <1>4, <2>1, <2>3, <2>4 DEF Holds
<1>5. CASE q \notin ps
  <2>1. d[q] = c[q] /\ c[q] # m /\ Holds(l, q, c[q]) /\ c[q] \notin MacsOf(t)
    BY <1>5 DEF BelongsOk, LastOk
  <2>2. c[q] \notin MacsOf(r)
    BY <1>1, <1>2, <2>1 DEF UpsertOk
  <2> QED
    BY <1>5, <2>1, <2>2
<1> QED
  BY <1>3, <1>4, <1>5

(* A save of the table.                                                    *)
LEMMA SaveMac ==
  ASSUME NEW ps \in SUBSET Port, NEW t, NEW l, MacOk(ps, t, l), NEW r, r = Merged(l, t, ps)
  PROVE  /\ MacOk(ps, t, r)
         /\ Places(l) => Places(r) /\ Synced(ps, t, r)
<1>1. MergedOk(r, l, t, ps)
  BY MergedIs DEF MacOk
<1>2. MacOk(ps, t, r)
  BY <1>1 DEF MergedOk, MacOk
<1>3. Places(l) => Places(r) /\ Synced(ps, t, r)
  BY <1>1 DEF MergedOk, MacOk, Synced
<1> QED
  BY <1>2, <1>3

LEMMA SaveLast ==
  ASSUME FewClients, NEW ps \in SUBSET Port, NEW t, NEW l, MacOk(ps, t, l), Places(t), Places(l),
         NEW r, r = Merged(l, t, ps), NEW c, LastOk(ps, t, l, c)
  PROVE  LastOk(ps, t, r, c) /\ ToSet(t) \subseteq ToSet(r)
<1>1. MergedOk(r, l, t, ps)
  BY MergedIs DEF MacOk
<1>2. ToSet(t) \subseteq ToSet(r)
  BY <1>1 DEF MergedOk
<1>3. MacsOf(t) = {e.mac : e \in ToSet(t)} /\ PortsOf(t) = {e.if : e \in ToSet(t)}
  BY SetOf DEF MacOk, Fits
<1>4. ASSUME NEW p \in Port, c[p] # None, p \notin ps
      PROVE  Holds(r, p, c[p]) /\ c[p] \notin MacsOf(t)
  <2>1. Holds(l, p, c[p]) /\ c[p] \notin MacsOf(t)
    BY <1>4 DEF LastOk
  <2>2. E(c[p], p).mac = c[p] /\ E(c[p], p).if = p
    BY DEF E
  <2>3. E(c[p], p) \in ToSet(r)
    BY <1>1, <1>4, <2>1, <2>2 DEF MergedOk, Holds
  <2>4. ASSUME NEW e \in ToSet(r), e.if = p
        PROVE  e.mac = c[p]
    <3>1. e \notin ToSet(t)
      BY <1>3, <1>4, <2>4 DEF MacOk
    <3>2. e \in ToSet(l)
      BY <1>1, <3>1 DEF MergedOk
    <3> QED
      BY <2>1, <2>4, <3>2 DEF Holds
  <2> QED
    BY <2>1, <2>3, <2>4 DEF Holds
<1>5. LastOk(ps, t, r, c)
  BY <1>4 DEF LastOk
<1> QED
  BY <1>2, <1>5

(* mac_learn_restore: r is loaded from the lines l, g is the log after.    *)
RestoredLog(r, l, ps) == IF Usable(l, ps) = <<>> THEN l ELSE Merged(l, r, ps)

LEMMA RestoreMac ==
  ASSUME NEW ps \in SUBSET Port, NEW t, NEW l, Fits(t), Fits(l), PortsOf(t) \subseteq ps,
         NEW r, r = Loaded(t, l, ps), NEW g, g = RestoredLog(r, l, ps)
  PROVE  /\ MacOk(ps, r, l) /\ MacOk(ps, r, g)
         /\ Places(l) => Places(g) /\ Synced(ps, r, g)
<1>1. LoadedOk(r, t, l, ps)
  BY LoadedIs
<1>2. PortsOf(r) = {e.if : e \in ToSet(r)} /\ PortsOf(t) = {e.if : e \in ToSet(t)}
  BY <1>1, SetOf DEF LoadedOk, Fits
<1>3. MacOk(ps, r, l)
  BY <1>1, <1>2 DEF LoadedOk, MacOk
<1>4. CASE Usable(l, ps) = <<>>
  <2>1. g = l
    BY <1>4 DEF RestoredLog
  <2>2. ToSet(Usable(l, ps)) = {e \in ToSet(l) : e.if \in ps} /\ ToSet(<<>>) = {}
    BY UsableIs DEF ToSet
  <2>3. \A e \in ToSet(l) : e.if \notin ps
    BY <1>4, <2>2
  <2> QED
    BY <1>3, <2>1, <2>3 DEF Synced
<1>5. CASE Usable(l, ps) # <<>>
  <2>1. g = Merged(l, r, ps)
    BY <1>5 DEF RestoredLog
  <2> QED
    BY <1>3, <2>1, SaveMac
<1> QED
  BY <1>3, <1>4, <1>5

LEMMA RestoreLast ==
  ASSUME FewClients, NEW ps \in SUBSET Port, NEW r, NEW l, MacOk(ps, r, l), Places(r), Places(l),
         NEW g, g = RestoredLog(r, l, ps), NEW c, LastOk(ps, r, l, c), ToSet(r) \subseteq ToSet(l)
  PROVE  LastOk(ps, r, g, c) /\ ToSet(r) \subseteq ToSet(g)
<1>1. CASE g = l
  BY <1>1
<1>2. CASE g = Merged(l, r, ps)
  BY <1>2, SaveLast
<1> QED
  BY <1>1, <1>2 DEF RestoredLog

(* A reload of lines the table knows adds nothing to the table.            *)
LEMMA ReloadTable ==
  ASSUME NEW ps \in SUBSET Port, NEW t, NEW l, Fits(t), Fits(l), PortsOf(t) \subseteq ps,
         NEW r, r = Loaded(t, l, ps), Places(t), Synced(ps, t, l)
  PROVE  /\ Places(r) /\ ToSet(r) \subseteq ToSet(t)
         /\ \A c : LastOk(ps, t, l, c) => LastOk(ps, r, l, c)
<1>1. LoadedOk(r, t, l, ps)
  BY LoadedIs
<1>2. /\ PortsOf(r) = {e.if : e \in ToSet(r)} /\ PortsOf(t) = {e.if : e \in ToSet(t)}
      /\ MacsOf(r) = {e.mac : e \in ToSet(r)} /\ MacsOf(t) = {e.mac : e \in ToSet(t)}
      /\ r \in Seq(ClientEntry) /\ t \in Seq(ClientEntry) /\ ToSet(t) \subseteq ClientEntry
  BY <1>1, SetOf DEF LoadedOk, Fits
<1>3. ToSet(r) \subseteq ToSet(t)
  BY <1>1 DEF LoadedOk, Synced
<1>4. Places(r)
  <2>1. \A e, f \in ToSet(r) : e.mac = f.mac => e = f
    BY <1>2, <1>3, PlacesTell
  <2> QED
    BY <1>1, <1>2, <2>1, PortsTell DEF LoadedOk
<1>5. ASSUME NEW c, LastOk(ps, t, l, c)
      PROVE  LastOk(ps, r, l, c)
  <2> SUFFICES ASSUME NEW p \in Port, c[p] # None
               PROVE  IF p \in ps THEN Holds(r, p, c[p])
                      ELSE Holds(l, p, c[p]) /\ c[p] \notin MacsOf(r)
    BY DEF LastOk
  <2>1. CASE p \in ps
    <3>1. Holds(t, p, c[p])
      BY <1>5, <2>1 DEF LastOk
    <3>2. E(c[p], p).if = p /\ E(c[p], p).mac = c[p]
      BY DEF E
    <3>3. p \in PortsOf(r)
      BY <1>1, <1>2, <3>1, <3>2 DEF LoadedOk, Holds
    <3>4. PICK e \in ToSet(r) : e.if = p
      BY <1>2, <3>3
    <3>5. e = E(c[p], p)
      <4>1. e \in ToSet(t) /\ e \in ClientEntry /\ e.mac = c[p]
        BY <1>2, <1>3, <3>1, <3>4 DEF Holds
      <4> QED
        BY <3>4, <4>1 DEF ClientEntry, E
    <3> QED
      BY <1>3, <2>1, <3>1, <3>4, <3>5 DEF Holds
  <2>2. CASE p \notin ps
    <3>1. Holds(l, p, c[p]) /\ c[p] \notin MacsOf(t)
      BY <1>5, <2>2 DEF LastOk
    <3> QED
      BY <1>2, <1>3, <2>2, <3>1
  <2> QED
    BY <2>1, <2>2
<1> QED
  BY <1>3, <1>4, <1>5

(* A table loaded from the log alone has what the log has.                 *)
LEMMA FreshTable ==
  ASSUME NEW ps \in SUBSET Port, NEW l, Fits(l), NEW r, r = Loaded(<<>>, l, ps), Places(l)
  PROVE  /\ Places(r) /\ ToSet(r) \subseteq ToSet(l)
         /\ \A c : (\A p \in Port : c[p] # None => Holds(l, p, c[p])) => LastOk(ps, r, l, c)
<1>0. Fits(<<>>) /\ ToSet(<<>>) = {}
  BY MacAssumption DEF Fits, ToSet
<1>1. LoadedOk(r, <<>>, l, ps)
  BY <1>0, LoadedIs
<1>2. /\ PortsOf(r) = {e.if : e \in ToSet(r)} /\ MacsOf(r) = {e.mac : e \in ToSet(r)}
      /\ r \in Seq(ClientEntry) /\ l \in Seq(ClientEntry) /\ ToSet(l) \subseteq ClientEntry
  BY <1>1, SetOf DEF LoadedOk, Fits
<1>3. ToSet(r) \subseteq {e \in ToSet(l) : e.if \in ps}
  BY <1>0, <1>1 DEF LoadedOk
<1>4. \A e, f \in ToSet(l) : e.mac = f.mac => e = f
  BY <1>2, PlacesTell
<1>5. Places(r)
  <2>1. \A e, f \in ToSet(r) : e.mac = f.mac => e = f
    BY <1>3, <1>4
  <2> QED
    BY <1>1, <1>2, <2>1, PortsTell DEF LoadedOk
<1>6. ASSUME NEW c, \A p \in Port : c[p] # None => Holds(l, p, c[p])
      PROVE  LastOk(ps, r, l, c)
  <2> SUFFICES ASSUME NEW p \in Port, c[p] # None
               PROVE  IF p \in ps THEN Holds(r, p, c[p])
                      ELSE Holds(l, p, c[p]) /\ c[p] \notin MacsOf(r)
    BY DEF LastOk
  <2>0. Holds(l, p, c[p]) /\ E(c[p], p).if = p /\ E(c[p], p).mac = c[p]
    BY <1>6 DEF E
  <2>1. CASE p \in ps
    <3>1. p \in PortsOf(r)
      BY <1>1, <2>0, <2>1 DEF LoadedOk, Holds
    <3>2. PICK e \in ToSet(r) : e.if = p
      BY <1>2, <3>1
    <3>3. e = E(c[p], p)
      <4>1. e \in ClientEntry /\ e.mac = c[p]
        BY <1>2, <1>3, <2>0, <3>2 DEF Holds
      <4> QED
        BY <3>2, <4>1 DEF ClientEntry, E
    <3> QED
      BY <1>3, <2>0, <2>1, <3>2, <3>3 DEF Holds
  <2>2. CASE p \notin ps
    <3>1. ASSUME NEW e \in ToSet(r), e.mac = c[p]
          PROVE  FALSE
      <4>1. e \in ToSet(l) /\ e.if \in ps
        BY <1>3
      <4>2. e = E(c[p], p)
        BY <1>4, <2>0, <3>1, <4>1 DEF Holds
      <4> QED
        BY <2>0, <2>2, <4>1, <4>2
    <3> QED
      BY <1>2, <2>0, <2>2, <3>1
  <2> QED
    BY <2>1, <2>2
<1> QED
  BY <1>3, <1>5, <1>6

(* Where each client is when table and log agree: in the log.              *)
LEMMA AllInLog ==
  ASSUME NEW ps, NEW t, NEW l, Synced(ps, t, l), ToSet(t) \subseteq ToSet(l), NEW c, LastOk(ps, t, l, c)
  PROVE  \A p \in Port : c[p] # None => Holds(l, p, c[p])
<1> SUFFICES ASSUME NEW p \in Port, c[p] # None
             PROVE  Holds(l, p, c[p])
  OBVIOUS
<1>1. CASE p \in ps
  <2>1. Holds(t, p, c[p])
    BY <1>1 DEF LastOk
  <2> QED
    BY <1>1, <2>1 DEF Holds, Synced
<1>2. CASE p \notin ps
  BY <1>2 DEF LastOk
<1> QED
  BY <1>1, <1>2

----------------------------------------------------------------------------
(* The inductive invariant.                                                *)

(* Types of what is not in a table.                                        *)
AirInv ==
    /\ locals \in SUBSET Port /\ locals # {}
    /\ saving \subseteq Worker /\ raced \in BOOLEAN /\ last \in [Port -> Mac \cup {None}]
    /\ air \subseteq [port : Port, mac : Mac, op : {"request", "reply"}]
    /\ stamps \in Seq(Remote) /\ Len(stamps) <= StampMax
    /\ job \in Seq([mac : Remote, dst : Client \cup {Broadcast}])

(* What a LAN segment carries of others than clients and the appliance     *)
(* itself is stamped, and so is the ARP a worker is about to deliver.      *)
StampInv ==
    /\ \A f \in air : f.mac \in Client \cup Own \cup ToSet(stamps)
    /\ job # <<>> => job[1].mac \in ToSet(stamps)

(* Table and log agree on the configured ports, and each MAC has a place.  *)
MacInv ==
    /\ MacOk(locals, table, log)
    /\ ~raced => Places(table) /\ Places(log)
    /\ ~raced /\ saving = {} => Synced(locals, table, log)

IInv == AirInv /\ StampInv /\ MacInv

(* The client a port belongs to is on record.                              *)
LastInv ==
    ~raced => /\ LastOk(locals, table, log, last)
              /\ saving = {} => ToSet(table) \subseteq ToSet(log)

LEMMA InitIInv == Init => IInv /\ LastInv
<1> SUFFICES ASSUME Init
             PROVE  IInv /\ LastInv
  OBVIOUS
<1> USE DEF Init, MacInit
<1>1. ToSet(<<>>) = {} /\ Fits(<<>>) /\ Places(<<>>) /\ PortsOf(<<>>) = {}
  BY MacAssumption DEF ToSet, Fits, Places, PortsOf
<1>2. AirInv
  <2>1. StampMax \in Nat /\ Port # {}
    BY MacAssumption, ArpAssumption
  <2>2. stamps \in Seq(Remote) /\ Len(stamps) <= StampMax
    BY <2>1
  <2>3. job \in Seq([mac : Remote, dst : Client \cup {Broadcast}])
    OBVIOUS
  <2>4. last \in [Port -> Mac \cup {None}]
    OBVIOUS
  <2>5. locals \in SUBSET Port /\ locals # {} /\ saving \subseteq Worker /\ raced \in BOOLEAN
    BY <2>1
  <2> QED
    BY <2>2, <2>3, <2>4, <2>5 DEF AirInv
<1>3. StampInv
  BY DEF StampInv
<1>4. MacInv
  BY <1>1 DEF MacInv, MacOk, Synced
<1>5. LastInv
  BY <1>1 DEF LastInv, LastOk
<1> QED
  BY <1>2, <1>3, <1>4, <1>5 DEF IInv

LEMMA TailSet ==
  ASSUME NEW X, NEW s \in Seq(X), s # <<>>
  PROVE  /\ Tail(s) \in Seq(X) /\ Len(Tail(s)) = Len(s) - 1
         /\ ToSet(s) = {Head(s)} \cup ToSet(Tail(s))
<1>1. PICK t : t = Tail(s)
  OBVIOUS
<1>2. /\ t \in Seq(X) /\ Len(t) = Len(s) - 1 /\ Len(s) \in Nat \ {0}
      /\ DOMAIN t = 1..(Len(s) - 1) /\ DOMAIN s = 1..Len(s)
      /\ \A i \in 1..(Len(s) - 1) : t[i] = s[i + 1]
      /\ Head(s) = s[1]
  BY <1>1
<1>3. \A i \in DOMAIN s : i = 1 \/ (i - 1 \in DOMAIN t /\ t[i - 1] = s[i])
  BY <1>2
<1>4. \A i \in DOMAIN t : i + 1 \in DOMAIN s /\ t[i] = s[i + 1]
  BY <1>2
<1>5. ToSet(s) \subseteq {Head(s)} \cup ToSet(t)
  BY <1>2, <1>3 DEF ToSet
<1>6. {Head(s)} \cup ToSet(t) \subseteq ToSet(s)
  BY <1>2, <1>4 DEF ToSet
<1> QED
  BY <1>1, <1>2, <1>5, <1>6

LEMMA AppendSet ==
  ASSUME NEW X, NEW s \in Seq(X), NEW x \in X
  PROVE  /\ Append(s, x) \in Seq(X) /\ Len(Append(s, x)) = Len(s) + 1
         /\ ToSet(Append(s, x)) = ToSet(s) \cup {x}
BY AppendIs

(* What the segment of a port carries.                                     *)
LEMMA HeardIs ==
  ASSUME AirInv, NEW p, NEW m \in Mac, NEW op \in {"request", "reply"}
  PROVE  /\ Heard(p, m, op) \subseteq [port : Port, mac : Mac, op : {"request", "reply"}]
         /\ \A f \in Heard(p, m, op) : f.mac = m
BY DEF AirInv, Heard, Arp

(* Steps that leave the tables alone.                                      *)
LEMMA SpeakStep ==
  ASSUME IInv, Speak
  PROVE  IInv' /\ UNCHANGED macVars
<1> USE DEF IInv
<1>1. UNCHANGED <<locals, table, log, saving, last, raced, stamps, job>>
  BY DEF Speak, macVars
<1>2. MacInv'
  BY <1>1 DEF MacInv
<1>3. PICK p \in locals :
         \/ \E m \in Client : \E op \in {"request", "reply"} :
              air' = air \cup Heard(p, m, op) \cup {Arp(p, m, op)}
         \/ \E m \in Own : air' = air \cup Heard(p, m, "request")
  BY DEF Speak
<1>4. p \in Port
  BY DEF AirInv
<1>5. ASSUME NEW m \in Client, NEW op \in {"request", "reply"},
             air' = air \cup Heard(p, m, op) \cup {Arp(p, m, op)}
      PROVE  AirInv' /\ StampInv'
  <2>1. m \in Mac
    BY DEF Mac
  <2>2. /\ Arp(p, m, op) \in [port : Port, mac : Mac, op : {"request", "reply"}]
        /\ Arp(p, m, op).mac = m
    BY <1>4, <2>1 DEF Arp
  <2> QED
    BY <1>1, <1>5, <2>1, <2>2, HeardIs DEF AirInv, StampInv
<1>6. ASSUME NEW m \in Own, air' = air \cup Heard(p, m, "request")
      PROVE  AirInv' /\ StampInv'
  <2>1. m \in Mac /\ "request" \in {"request", "reply"}
    BY DEF Mac
  <2> QED
    BY <1>1, <1>6, <2>1, HeardIs DEF AirInv, StampInv
<1> QED
  BY <1>1, <1>2, <1>3, <1>5, <1>6 DEF macVars

LEMMA FromWanStep ==
  ASSUME IInv, FromWan
  PROVE  IInv' /\ UNCHANGED macVars
<1> USE DEF IInv
<1>1. UNCHANGED <<locals, table, log, saving, last, raced, air>> /\ job = <<>>
  BY DEF FromWan, macVars
<1>2. MacInv'
  BY <1>1 DEF MacInv
<1>3. PICK m \in Remote, dst \in Client \cup {Broadcast} :
         /\ Len(stamps) = StampMax => EchoGone(Head(stamps))
         /\ stamps' = Stamped(m, dst)
         /\ job' = <<[mac |-> m, dst |-> dst]>>
  BY DEF FromWan
<1>4. stamps \in Seq(Remote) /\ Len(stamps) <= StampMax /\ Len(stamps) \in Nat /\ StampMax \in Nat \ {0}
  BY ArpAssumption DEF AirInv
<1>5. /\ stamps' \in Seq(Remote) /\ Len(stamps') <= StampMax /\ m \in ToSet(stamps')
      /\ \A f \in air : f.mac \in ToSet(stamps) => f.mac \in ToSet(stamps')
  <2>1. CASE Len(stamps) < StampMax
    <3>1. stamps' = Append(stamps, m)
      BY <1>3, <2>1 DEF Stamped
    <3>2. /\ stamps' \in Seq(Remote) /\ Len(stamps') = Len(stamps) + 1
          /\ ToSet(stamps') = ToSet(stamps) \cup {m}
      BY <1>4, <3>1, AppendSet
    <3> QED
      BY <1>4, <2>1, <3>2
  <2>2. CASE ~(Len(stamps) < StampMax)
    <3>1. stamps' = Append(Tail(stamps), m)
      BY <1>3, <2>2 DEF Stamped
    <3>2. Len(stamps) = StampMax /\ stamps # <<>>
      BY <1>4, <2>2
    <3>3. PICK t \in Seq(Remote) :
            t = Tail(stamps) /\ Len(t) = Len(stamps) - 1 /\ ToSet(stamps) = {Head(stamps)} \cup ToSet(t)
      BY <1>4, <3>2, TailSet
    <3>4. /\ stamps' \in Seq(Remote) /\ Len(stamps') = Len(t) + 1
          /\ ToSet(stamps') = ToSet(t) \cup {m}
      <4>1. stamps' = Append(t, m)
        BY <3>1, <3>3
      <4> QED
        BY <4>1, AppendSet
    <3>5. \A f \in air : f.mac # Head(stamps)
      BY <1>3, <3>2 DEF EchoGone
    <3> QED
      BY <1>4, <3>2, <3>3, <3>4, <3>5
  <2> QED
    BY <2>1, <2>2
<1>6. job' \in Seq([mac : Remote, dst : Client \cup {Broadcast}]) /\ job'[1].mac = m
  BY <1>3
<1>7. AirInv'
  BY <1>1, <1>5, <1>6 DEF AirInv
<1>8. StampInv'
  BY <1>1, <1>5, <1>6 DEF StampInv
<1> QED
  BY <1>1, <1>2, <1>7, <1>8 DEF macVars

LEMMA DeliverStep ==
  ASSUME IInv, Deliver
  PROVE  IInv' /\ UNCHANGED macVars
<1> USE DEF IInv
<1>1. UNCHANGED <<locals, table, log, saving, last, raced, stamps>> /\ job # <<>> /\ job' = <<>>
  BY DEF Deliver, macVars
<1>2. MacInv'
  BY <1>1 DEF MacInv
<1>3. PICK m, op : m = job[1].mac /\ op = IF job[1].dst = Broadcast THEN "request" ELSE "reply"
  OBVIOUS
<1>4. m \in Remote /\ m \in Mac /\ m \in ToSet(stamps) /\ op \in {"request", "reply"}
  <2>1. job[1] \in [mac : Remote, dst : Client \cup {Broadcast}]
    <3>1. \A Y : job \in Seq(Y) => job[1] \in Y
      BY <1>1
    <3> QED
      BY <3>1 DEF AirInv
  <2>2. m \in Remote /\ m \in Mac
    BY <1>3, <2>1 DEF Mac
  <2>3. m \in ToSet(stamps)
    BY <1>1, <1>3 DEF StampInv
  <2>4. op \in {"request", "reply"}
    BY <1>3
  <2> QED
    BY <2>2, <2>3, <2>4
<1>5. air' = air \cup UNION {Heard(p, m, op) : p \in Targets(job[1].dst)}
  BY <1>3 DEF Deliver
<1>6. ASSUME NEW f \in air'
      PROVE  f \in air \/ (f \in [port : Port, mac : Mac, op : {"request", "reply"}] /\ f.mac = m)
  <2>1. f \in air \/ \E p \in Targets(job[1].dst) : f \in Heard(p, m, op)
    BY <1>5
  <2> QED
    BY <1>4, <2>1, HeardIs
<1>7. AirInv'
  BY <1>1, <1>6 DEF AirInv
<1>8. StampInv'
  BY <1>1, <1>4, <1>6 DEF StampInv
<1> QED
  BY <1>1, <1>2, <1>7, <1>8 DEF macVars

LEMMA ExpireStep ==
  ASSUME IInv, Expire
  PROVE  IInv' /\ UNCHANGED macVars
<1> USE DEF IInv
<1>1. UNCHANGED <<locals, table, log, saving, last, raced, air, job>> /\ job = <<>> /\ stamps # <<>>
  BY DEF Expire, macVars
<1>2. MacInv'
  BY <1>1 DEF MacInv
<1>3. /\ stamps' \in Seq(Remote) /\ Len(stamps') = Len(stamps) - 1 /\ Len(stamps) \in Nat
      /\ ToSet(stamps) = {Head(stamps)} \cup ToSet(stamps') /\ Len(stamps) <= StampMax /\ StampMax \in Nat
  BY <1>1, TailSet, ArpAssumption DEF Expire, AirInv
<1>4. \A f \in air : f.mac # Head(stamps)
  BY DEF Expire, EchoGone
<1>5. Len(stamps') <= StampMax
  BY <1>3
<1>6. AirInv'
  BY <1>1, <1>3, <1>5 DEF AirInv
<1>7. StampInv'
  BY <1>1, <1>3, <1>4 DEF StampInv
<1> QED
  BY <1>1, <1>2, <1>6, <1>7 DEF macVars

(* Only a client is learned.                                               *)
LEMMA FromLocalIs ==
  ASSUME IInv, NEW w \in Worker, FromLocal(w)
  PROVE  /\ air' \subseteq air /\ UNCHANGED <<stamps, job>>
         /\ \/ UNCHANGED macVars
            \/ \E p \in locals : \E m \in Client \ Own : Learn(w, p, m)
<1>1. PICK f \in air : /\ air' = air \ {f}
                       /\ IF Ignored(f) \/ f.port \notin locals
                          THEN w \notin saving /\ UNCHANGED macVars
                          ELSE Learn(w, f.port, f.mac)
  BY DEF FromLocal
<1>2. UNCHANGED <<stamps, job>>
  BY DEF FromLocal
<1>3. CASE ~(Ignored(f) \/ f.port \notin locals)
  <2>1. f.port \in locals /\ f.mac \notin Own /\ f.mac \notin ToSet(stamps)
    BY <1>3 DEF Ignored, Recent
  <2>2. f.mac \in Client \ Own
    BY <2>1 DEF IInv, StampInv
  <2>3. Learn(w, f.port, f.mac)
    BY <1>1, <1>3
  <2> QED
    BY <1>1, <1>2, <2>1, <2>2, <2>3
<1>4. CASE Ignored(f) \/ f.port \notin locals
  BY <1>1, <1>2, <1>4
<1> QED
  BY <1>3, <1>4

(* What learning changes.                                                  *)
LEMMA LearnIs ==
  ASSUME IInv, NEW w \in Worker, NEW p \in locals, NEW m \in Client \ Own, Learn(w, p, m)
  PROVE  /\ table' = Upsert(table, p, m) /\ UNCHANGED <<locals, log, raced>>
         /\ saving' \subseteq saving \cup {w} /\ (saving' = {} => saving = {} /\ table' = table)
         /\ last' \in [Port -> Mac \cup {None}]
         /\ IF E(m, p) \in ToSet(table') THEN BelongsOk(last', last, p, m, table') ELSE last' = last
<1>1. /\ table' = Upsert(table, p, m) /\ UNCHANGED <<locals, log, raced>>
      /\ saving' = IF table' # table THEN saving \cup {w} ELSE saving
      /\ last' = IF E(m, p) \in ToSet(table') THEN Belongs(p, m) ELSE last
  BY DEF Learn
<1>2. m \in Mac /\ last \in [Port -> Mac \cup {None}] /\ p \in Port
  BY DEF Mac, IInv, AirInv
<1>3. Belongs(p, m) \in [Port -> Mac \cup {None}]
  BY <1>2 DEF Belongs
<1>4. BelongsOk(Belongs(p, m), last, p, m, table')
  <2>1. Belongs(p, m)[p] # None => /\ Belongs(p, m)[p] = m
                                   /\ \A i \in DOMAIN table' : table'[i].if = p => table'[i].mac = m
    BY <1>2 DEF Belongs
  <2>2. ToSet(table') = {table'[i] : i \in DOMAIN table'}
    BY DEF ToSet
  <2>3. \A q \in Port : q # p /\ Belongs(p, m)[q] # None => Belongs(p, m)[q] = last[q] /\ last[q] # m
    BY <1>2 DEF Belongs
  <2> QED
    BY <2>1, <2>2, <2>3 DEF BelongsOk
<1> QED
  BY <1>1, <1>2, <1>3, <1>4

LEMMA FromLocalStep ==
  ASSUME IInv, NEW w \in Worker, FromLocal(w)
  PROVE  IInv' /\ (LastInv => LastInv')
<1> USE DEF IInv
<1>1. air' \subseteq air /\ UNCHANGED <<stamps, job>>
  BY FromLocalIs
<1>2. StampInv'
  BY <1>1 DEF StampInv
<1>3. CASE UNCHANGED macVars
  <2>1. UNCHANGED <<locals, table, log, saving, last, raced>>
    BY <1>3 DEF macVars
  <2>2. AirInv'
    BY <1>1, <2>1 DEF AirInv
  <2>3. MacInv' /\ (LastInv => LastInv')
    BY <2>1 DEF MacInv, LastInv
  <2> QED
    BY <1>2, <2>2, <2>3
<1>4. ASSUME NEW p \in locals, NEW m \in Client \ Own, Learn(w, p, m)
      PROVE  IInv' /\ (LastInv => LastInv')
  <2>1. /\ table' = Upsert(table, p, m) /\ UNCHANGED <<locals, log, raced>>
        /\ saving' \subseteq saving \cup {w} /\ (saving' = {} => saving = {} /\ table' = table)
        /\ last' \in [Port -> Mac \cup {None}]
        /\ IF E(m, p) \in ToSet(table') THEN BelongsOk(last', last, p, m, table') ELSE last' = last
    BY <1>4, LearnIs
  <2>2. AirInv'
    BY <1>1, <2>1 DEF AirInv
  <2>3. locals \in SUBSET Port /\ MacOk(locals, table, log)
    BY DEF AirInv, MacInv
  <2>4. MacOk(locals, table', log) /\ (Places(table) => Places(table'))
    BY <2>1, <2>3, LearnMac
  <2>5. MacInv'
    BY <2>1, <2>4 DEF MacInv
  <2>6. ASSUME LastInv
        PROVE  LastInv'
    <3> SUFFICES ASSUME ~raced
                 PROVE  /\ LastOk(locals, table', log, last')
                        /\ saving' = {} => ToSet(table') \subseteq ToSet(log)
      BY <2>1 DEF LastInv
    <3>1. LastOk(locals, table, log, last) /\ (saving = {} => ToSet(table) \subseteq ToSet(log))
      BY <2>6 DEF LastInv
    <3>2. CASE E(m, p) \in ToSet(table')
      <4>1. BelongsOk(last', last, p, m, table')
        BY <2>1, <3>2
      <4>2. LastOk(locals, table', log, last')
        BY <2>1, <2>3, <3>1, <3>2, <4>1, LearnLast
      <4> QED
        BY <2>1, <3>1, <4>2
    <3>3. CASE E(m, p) \notin ToSet(table')
      <4>1. UpsertOk(table', table, E(m, p))
        <5>1. Fits(table) /\ p \in Port
          BY <2>3 DEF MacOk
        <5> QED
          BY <2>1, <5>1, UpsertIs
      <4>2. table' = table /\ last' = last
        BY <2>1, <3>3, <4>1 DEF UpsertOk
      <4> QED
        BY <2>1, <3>1, <4>2
    <3> QED
      BY <3>2, <3>3
  <2> QED
    BY <1>2, <2>2, <2>5, <2>6
<1> QED
  BY <1>3, <1>4, FromLocalIs

(* Steps of the table and the log; AirInv and StampInv of what they leave. *)
LEMMA KeptAir ==
  ASSUME IInv, locals' \in SUBSET Port, locals' # {}, saving' \subseteq saving, raced' \in BOOLEAN,
         last' \in [Port -> Mac \cup {None}],
         \/ UNCHANGED <<air, stamps, job>>
         \/ air' = {} /\ stamps' = <<>> /\ job' = job /\ job = <<>>
  PROVE  AirInv' /\ StampInv'
<1> USE DEF IInv
<1>1. CASE UNCHANGED <<air, stamps, job>>
  BY <1>1 DEF AirInv, StampInv
<1>2. CASE air' = {} /\ stamps' = <<>> /\ job' = job /\ job = <<>>
  <2>1. stamps' \in Seq(Remote) /\ Len(stamps') <= StampMax
    <3>1. StampMax \in Nat
      BY ArpAssumption
    <3> QED
      BY <1>2, <3>1
  <2>2. AirInv'
    BY <1>2, <2>1 DEF AirInv
  <2>3. StampInv'
    BY <1>2 DEF StampInv
  <2> QED
    BY <2>2, <2>3
<1> QED
  BY <1>1, <1>2

LEMMA SaveStep ==
  ASSUME IInv, NEW w \in Worker, Save(w), UNCHANGED <<air, stamps, job>>
  PROVE  IInv' /\ (FewClients /\ LastInv => LastInv')
<1> USE DEF IInv
<1>1. /\ log' = Merged(log, table, locals) /\ saving' = saving \ {w}
      /\ UNCHANGED <<locals, table, last, raced>>
  BY DEF Save
<1>2. locals \in SUBSET Port /\ MacOk(locals, table, log)
  BY DEF AirInv, MacInv
<1>3. /\ MacOk(locals, table, log')
      /\ Places(log) => Places(log') /\ Synced(locals, table, log')
  BY <1>1, <1>2, SaveMac
<1>4. MacInv'
  BY <1>1, <1>3 DEF MacInv
<1>5. AirInv' /\ StampInv'
  <2>1. locals' \in SUBSET Port /\ locals' # {} /\ saving' \subseteq saving /\ raced' \in BOOLEAN
    BY <1>1 DEF AirInv
  <2>2. last' \in [Port -> Mac \cup {None}]
    BY <1>1 DEF AirInv
  <2> QED
    BY <2>1, <2>2, KeptAir
<1>6. ASSUME FewClients, LastInv
      PROVE  LastInv'
  <2> SUFFICES ASSUME ~raced
               PROVE  LastOk(locals, table, log', last) /\ ToSet(table) \subseteq ToSet(log')
    BY <1>1 DEF LastInv
  <2>1. LastOk(locals, table, log, last) /\ Places(table) /\ Places(log)
    BY <1>6 DEF LastInv, MacInv
  <2> QED
    BY <1>1, <1>2, <1>6, <2>1, SaveLast
<1> QED
  BY <1>4, <1>5, <1>6

LEMMA TickStep ==
  ASSUME IInv, Tick, UNCHANGED <<air, stamps, job>>
  PROVE  IInv' /\ (LastInv => LastInv')
<1> USE DEF IInv
<1>1. table' = Configured(table, locals) /\ UNCHANGED <<locals, log, saving, last, raced>>
  BY DEF Tick
<1>2. MacOk(locals, table, log)
  BY DEF MacInv
<1>3. /\ Fits(table') /\ ToSet(table') = ToSet(table)
      /\ Places(table) => Places(table')
  BY <1>1, <1>2, ConfiguredIs DEF MacOk
<1>4. /\ MacsOf(table') = MacsOf(table) /\ PortsOf(table') = PortsOf(table)
      /\ (table' = <<>>) <=> (table = <<>>)
  <2>1. /\ MacsOf(table) = {e.mac : e \in ToSet(table)} /\ PortsOf(table) = {e.if : e \in ToSet(table)}
        /\ (table = <<>>) <=> (ToSet(table) = {})
    BY <1>2, SetOf DEF MacOk, Fits
  <2>2. /\ MacsOf(table') = {e.mac : e \in ToSet(table')}
        /\ PortsOf(table') = {e.if : e \in ToSet(table')}
        /\ (table' = <<>>) <=> (ToSet(table') = {})
    BY <1>3, SetOf DEF Fits
  <2> QED
    BY <1>3, <2>1, <2>2
<1>5. MacInv'
  BY <1>1, <1>3, <1>4 DEF MacInv, MacOk, Synced
<1>6. AirInv' /\ StampInv'
  <2>1. locals' \in SUBSET Port /\ locals' # {} /\ saving' \subseteq saving /\ raced' \in BOOLEAN
    BY <1>1 DEF AirInv
  <2>2. last' \in [Port -> Mac \cup {None}]
    BY <1>1 DEF AirInv
  <2> QED
    BY <2>1, <2>2, KeptAir
<1>7. ASSUME LastInv
      PROVE  LastInv'
  BY <1>1, <1>3, <1>4, <1>7 DEF LastInv, LastOk, Holds
<1> QED
  BY <1>5, <1>6, <1>7

LEMMA ReloadStep ==
  ASSUME IInv, Reload, UNCHANGED <<air, stamps, job>>
  PROVE  IInv' /\ (FewClients /\ LastInv => LastInv')
<1> USE DEF IInv
<1>1. /\ table' = Loaded(table, log, locals) /\ log' = RestoredLog(table', log, locals)
      /\ raced' = (raced \/ saving # {}) /\ UNCHANGED <<locals, saving, last>>
  BY DEF Reload, Restored, RestoredLog
<1>2. /\ locals \in SUBSET Port /\ MacOk(locals, table, log)
      /\ Fits(table) /\ Fits(log) /\ PortsOf(table) \subseteq locals
  BY DEF AirInv, MacInv, MacOk
<1>3. /\ MacOk(locals, table', log) /\ MacOk(locals, table', log')
      /\ Places(log) => Places(log') /\ Synced(locals, table', log')
  BY <1>1, <1>2, RestoreMac
<1>4. ASSUME ~raced'
      PROVE  /\ ~raced /\ Places(table') /\ Places(log)
             /\ ToSet(table') \subseteq ToSet(table)
             /\ \A c : LastOk(locals, table, log, c) => LastOk(locals, table', log, c)
  <2>1. ~raced /\ saving = {}
    BY <1>1, <1>4 DEF AirInv
  <2>2. Places(table) /\ Places(log) /\ Synced(locals, table, log)
    BY <2>1 DEF MacInv
  <2>3. /\ Places(table') /\ ToSet(table') \subseteq ToSet(table)
        /\ \A c : LastOk(locals, table, log, c) => LastOk(locals, table', log, c)
    BY <1>1, <1>2, <2>2, ReloadTable
  <2> QED
    BY <2>1, <2>2, <2>3
<1>5. MacInv'
  BY <1>1, <1>3, <1>4 DEF MacInv
<1>6. AirInv' /\ StampInv'
  <2>1. locals' \in SUBSET Port /\ locals' # {} /\ saving' \subseteq saving /\ raced' \in BOOLEAN
    BY <1>1 DEF AirInv
  <2>2. last' \in [Port -> Mac \cup {None}]
    BY <1>1 DEF AirInv
  <2> QED
    BY <2>1, <2>2, KeptAir
<1>7. ASSUME FewClients, LastInv
      PROVE  LastInv'
  <2> SUFFICES ASSUME ~raced'
               PROVE  LastOk(locals, table', log', last) /\ ToSet(table') \subseteq ToSet(log')
    BY <1>1 DEF LastInv
  <2>1. ~raced /\ saving = {}
    BY <1>1 DEF AirInv
  <2>2. LastOk(locals, table, log, last) /\ ToSet(table) \subseteq ToSet(log)
    BY <1>7, <2>1 DEF LastInv
  <2>3. LastOk(locals, table', log, last) /\ ToSet(table') \subseteq ToSet(log)
    BY <1>4, <2>2
  <2> QED
    BY <1>1, <1>2, <1>3, <1>4, <1>7, <2>3, RestoreLast
<1> QED
  BY <1>5, <1>6, <1>7

(* A process that starts with the lines l and the ports ps.                *)
LEMMA FreshStep ==
  ASSUME NEW ps \in SUBSET Port, NEW l, Fits(l), locals' = ps, table' = Loaded(<<>>, l, ps),
         log' = RestoredLog(table', l, ps), ~raced' => Places(l)
  PROVE  /\ MacInv'
         /\ FewClients /\ (~raced' => \A p \in Port : last'[p] # None => Holds(l, p, last'[p])) => LastInv'
<1>1. Fits(<<>>) /\ PortsOf(<<>>) \subseteq ps
  BY MacAssumption DEF Fits, PortsOf
<1>2. /\ MacOk(ps, table', l) /\ MacOk(ps, table', log')
      /\ Places(l) => Places(log') /\ Synced(ps, table', log')
  BY <1>1, RestoreMac
<1>3. ASSUME ~raced'
      PROVE  /\ Places(table') /\ ToSet(table') \subseteq ToSet(l) /\ Places(l)
             /\ \A c : (\A p \in Port : c[p] # None => Holds(l, p, c[p])) => LastOk(ps, table', l, c)
  BY <1>3, FreshTable
<1>4. MacInv'
  BY <1>2, <1>3 DEF MacInv
<1>5. ASSUME FewClients, ~raced' => \A p \in Port : last'[p] # None => Holds(l, p, last'[p])
      PROVE  LastInv'
  <2> SUFFICES ASSUME ~raced'
               PROVE  LastOk(ps, table', log', last') /\ ToSet(table') \subseteq ToSet(log')
    BY DEF LastInv
  <2>1. LastOk(ps, table', l, last')
    BY <1>3, <1>5
  <2> QED
    BY <1>2, <1>3, <1>5, <2>1, RestoreLast
<1> QED
  BY <1>4, <1>5

LEMMA RestartStep ==
  ASSUME IInv, Restart, job = <<>>, air' = {}, stamps' = <<>>, UNCHANGED job
  PROVE  IInv' /\ (FewClients /\ LastInv => LastInv')
<1> USE DEF IInv
<1>1. saving = {} /\ UNCHANGED <<saving, last, raced>>
  BY DEF Restart
<1>2. PICK ps \in (SUBSET Port) \ {{}} :
        /\ locals' = ps
        /\ Restored(<<>>, Merged(log, table, locals), ps)
  BY DEF Restart
<1>3. PICK l : l = Merged(log, table, locals)
  OBVIOUS
<1>4. table' = Loaded(<<>>, l, ps) /\ log' = RestoredLog(table', l, ps)
  BY <1>2, <1>3 DEF Restored, RestoredLog
<1>5. locals \in SUBSET Port /\ MacOk(locals, table, log)
  BY DEF AirInv, MacInv
<1>6. MacOk(locals, table, l) /\ (Places(log) => Places(l) /\ Synced(locals, table, l))
  BY <1>3, <1>5, SaveMac
<1>7. Fits(l) /\ (~raced => Places(table) /\ Places(log) /\ Places(l) /\ Synced(locals, table, l))
  BY <1>6 DEF MacOk, MacInv
<1>8. /\ MacInv'
      /\ FewClients /\ (~raced' => \A p \in Port : last'[p] # None => Holds(l, p, last'[p])) => LastInv'
  BY <1>1, <1>2, <1>4, <1>7, FreshStep
<1>9. AirInv' /\ StampInv'
  <2>1. locals' \in SUBSET Port /\ locals' # {} /\ saving' \subseteq saving /\ raced' \in BOOLEAN
    BY <1>1, <1>2 DEF AirInv
  <2>2. last' \in [Port -> Mac \cup {None}]
    BY <1>1 DEF AirInv
  <2> QED
    BY <2>1, <2>2, KeptAir
<1>10. ASSUME FewClients, LastInv
       PROVE  LastInv'
  <2>1. ASSUME ~raced
        PROVE  \A p \in Port : last[p] # None => Holds(l, p, last[p])
    <3>1. LastOk(locals, table, log, last)
      BY <1>10, <2>1 DEF LastInv
    <3>2. LastOk(locals, table, l, last) /\ ToSet(table) \subseteq ToSet(l)
      BY <1>3, <1>5, <1>7, <1>10, <2>1, <3>1, SaveLast
    <3> QED
      BY <1>7, <2>1, <3>2, AllInLog
  <2> QED
    BY <1>1, <1>8, <1>10, <2>1
<1> QED
  BY <1>8, <1>9, <1>10

LEMMA CrashStep ==
  ASSUME IInv, Crash, job = <<>>, air' = {}, stamps' = <<>>, UNCHANGED job
  PROVE  IInv' /\ (FewClients /\ LastInv => LastInv')
<1> USE DEF IInv
<1>1. /\ table' = Loaded(<<>>, log, locals) /\ log' = RestoredLog(table', log, locals)
      /\ saving' = {} /\ last' = [p \in Port |-> IF saving = {} THEN last[p] ELSE None]
      /\ UNCHANGED <<locals, raced>>
  BY DEF Crash, Restored, RestoredLog
<1>2. locals \in SUBSET Port /\ Fits(log) /\ (~raced => Places(log))
  BY DEF AirInv, MacInv, MacOk
<1>3. /\ MacInv'
      /\ FewClients /\ (~raced' => \A p \in Port : last'[p] # None => Holds(log, p, last'[p])) => LastInv'
  BY <1>1, <1>2, FreshStep
<1>4. AirInv' /\ StampInv'
  <2>1. locals' \in SUBSET Port /\ locals' # {} /\ saving' \subseteq saving /\ raced' \in BOOLEAN
    BY <1>1 DEF AirInv
  <2>2. last' \in [Port -> Mac \cup {None}]
    BY <1>1 DEF AirInv
  <2> QED
    BY <2>1, <2>2, KeptAir
<1>5. ASSUME FewClients, LastInv
      PROVE  LastInv'
  <2>1. ASSUME ~raced, NEW p \in Port, last'[p] # None
        PROVE  Holds(log, p, last'[p])
    <3>1. saving = {} /\ last'[p] = last[p]
      BY <1>1, <2>1
    <3>2. LastOk(locals, table, log, last) /\ ToSet(table) \subseteq ToSet(log) /\ Synced(locals, table, log)
      BY <1>5, <2>1, <3>1 DEF LastInv, MacInv
    <3>3. \A q \in Port : last[q] # None => Holds(log, q, last[q])
      BY <3>2, AllInLog
    <3> QED
      BY <2>1, <3>1, <3>3
  <2> QED
    BY <1>1, <1>3, <1>5, <2>1
<1> QED
  BY <1>3, <1>4, <1>5

LEMMA Preserved ==
  ASSUME IInv, [Next]_vars
  PROVE  IInv' /\ (FewClients /\ LastInv => LastInv')
<1>0. ASSUME UNCHANGED macVars
      PROVE  LastInv => LastInv'
  BY <1>0 DEF macVars, LastInv
<1>1. CASE Speak
  BY <1>0, <1>1, SpeakStep
<1>2. CASE FromWan
  BY <1>0, <1>2, FromWanStep
<1>3. CASE Deliver
  BY <1>0, <1>3, DeliverStep
<1>4. CASE Expire
  BY <1>0, <1>4, ExpireStep
<1>5. CASE Keep
  <2>1. ASSUME NEW w \in Worker, Save(w), UNCHANGED <<air, stamps, job>>
        PROVE  IInv' /\ (FewClients /\ LastInv => LastInv')
    BY <2>1, SaveStep
  <2>2. CASE Reload /\ UNCHANGED <<air, stamps, job>>
    BY <2>2, ReloadStep
  <2>3. CASE Tick /\ UNCHANGED <<air, stamps, job>>
    BY <2>3, TickStep
  <2>4. CASE Restart /\ job = <<>> /\ air' = {} /\ stamps' = <<>> /\ UNCHANGED job
    BY <2>4, RestartStep
  <2>5. CASE Crash /\ job = <<>> /\ air' = {} /\ stamps' = <<>> /\ UNCHANGED job
    BY <2>5, CrashStep
  <2> QED
    BY <1>5, <2>1, <2>2, <2>3, <2>4, <2>5 DEF Keep
<1>6. ASSUME NEW w \in Worker, FromLocal(w)
      PROVE  IInv' /\ (FewClients /\ LastInv => LastInv')
  BY <1>6, FromLocalStep
<1>7. CASE UNCHANGED vars
  <2>1. UNCHANGED <<locals, table, log, saving, last, raced, air, stamps, job>>
    BY <1>7 DEF vars
  <2>2. AirInv' /\ StampInv' /\ MacInv'
    BY <2>1 DEF IInv, AirInv, StampInv, MacInv
  <2>3. LastInv => LastInv'
    BY <2>1 DEF LastInv
  <2> QED
    BY <2>2, <2>3 DEF IInv
<1> QED
  BY <1>1, <1>2, <1>3, <1>4, <1>5, <1>6, <1>7 DEF Next

----------------------------------------------------------------------------
(* The theorems.                                                           *)

(* The invariant is inductive.                                             *)
THEOREM Inductive == Spec => []IInv
<1>1. Init => IInv
  BY InitIInv
<1>2. IInv /\ [Next]_vars => IInv'
  BY Preserved
<1> QED
  BY <1>1, <1>2, PTL DEF Spec

(* Every variable keeps its type, and table and log their bound.           *)
THEOREM TypeCorrect == Spec => []TypeOK
<1>1. IInv => TypeOK
  <2> SUFFICES ASSUME IInv
               PROVE  TypeOK
    OBVIOUS
  <2>1. ClientEntry \subseteq Entry
    BY DEF ClientEntry, Entry, Mac
  <2>2. \A s : s \in Seq(ClientEntry) => s \in Seq(Entry)
    BY <2>1
  <2>3. \A s \in {table, log} : s \in Seq(Entry) /\ Len(s) <= MaxEntries
    BY <2>2 DEF IInv, MacInv, MacOk, Fits
  <2> QED
    BY <2>3 DEF IInv, AirInv, TypeOK
<1> QED
  BY <1>1, Inductive, PTL

(* No remote host and no port of the appliance is ever taken for a LAN     *)
(* client, in memory or on disk, whatever the LAN segments echo            *)
(* (mac_relay_stamp, arp_bridge_from_local): what is in the air and is not *)
(* of a client or the appliance is stamped.                                *)
THEOREM ClientsOnly == Spec => []OnlyClients
<1>1. IInv => OnlyClients
  <2> SUFFICES ASSUME IInv, NEW s \in {table, log}
               PROVE  MacsOf(s) \subseteq Client
    BY DEF OnlyClients
  <2>1. s \in Seq(ClientEntry)
    BY DEF IInv, MacInv, MacOk, Fits
  <2>2. MacsOf(s) = {e.mac : e \in ToSet(s)} /\ ToSet(s) \subseteq ClientEntry
    BY <2>1, SetOf
  <2> QED
    BY <2>2 DEF ClientEntry
<1> QED
  BY <1>1, Inductive, PTL

(* No MAC is behind two ports, in memory or on disk, as long as no reload  *)
(* came between a change and its save (upsert_locked,                      *)
(* mac_fdb_persist_save_locked, ..._load_locked).                          *)
THEOREM PlacesUnique == Spec => []OnePlace
<1>1. IInv => OnePlace
  BY DEF IInv, MacInv, Places, OnePlace
<1> QED
  BY <1>1, Inductive, PTL

(* Where the table has room for every client, the client that last spoke   *)
(* on a port is found there again, through saves, reloads, crashes and     *)
(* restarts that drop the port and bring it back.                          *)
THEOREM ClientsRemembered == FewClients /\ Spec => []Remembered
<1> SUFFICES ASSUME FewClients PROVE Spec => []Remembered
  OBVIOUS
<1>1. Init => IInv /\ LastInv
  BY InitIInv
<1>2. (IInv /\ LastInv) /\ [Next]_vars => (IInv /\ LastInv)'
  BY Preserved
<1>3. LastInv => Remembered
  <2> SUFFICES ASSUME LastInv, saving = {}, ~raced, NEW p \in Port, last[p] # None
               PROVE  E(last[p], p) \in ToSet(IF p \in locals THEN table ELSE log)
    BY DEF Remembered
  <2> QED
    BY DEF LastInv, LastOk, Holds
<1> QED
  BY <1>1, <1>2, <1>3, PTL DEF Spec

=============================================================================
