-------------------------------- MODULE Sums ---------------------------------
(***************************************************************************)
(* What the proofs need of SumFunctionOnSet, the sum of a function over a  *)
(* finite set.  It is defined by a recursive function that takes the       *)
(* elements in an arbitrary order; the lemmas say that the order does not  *)
(* matter.  Induction is over sets of numbers, not over a formula: a set   *)
(* that has 0 and is closed under successor is Nat.                        *)
(***************************************************************************)
EXTENDS Integers, Functions, FiniteSetTheorems, WellFoundedInduction, TLAPS

LEMMA LeastNumber ==
    ASSUME NEW C \in SUBSET Nat, C # {}
    PROVE  \E m \in C : \A n \in C : m <= n
<1>1. IsWellFoundedOn(OpToRel(<, Nat), Nat)
  BY NatLessThanWellFounded
<1>2. PICK m \in C : \A n \in C : ~(<<n, m>> \in OpToRel(<, Nat))
  BY <1>1, WFMin
<1>3. \A n \in C : ~(n < m)
  BY <1>2 DEF OpToRel
<1> QED
  BY <1>3

LEMMA NumbersByStep ==
    ASSUME NEW G, 0 \in G, \A n \in Nat : n \in G => n + 1 \in G
    PROVE  \A n \in Nat : n \in G
<1> SUFFICES ASSUME Nat \ G # {} PROVE FALSE
  OBVIOUS
<1>1. PICK m \in Nat \ G : \A n \in Nat \ G : m <= n
  BY LeastNumber
<1>2. m # 0 /\ m - 1 \in Nat /\ (m - 1) + 1 = m /\ ~(m <= m - 1)
  BY <1>1
<1>3. m - 1 \in G
  BY <1>1, <1>2
<1> QED
  BY <1>1, <1>2, <1>3

(* The recursion of SumFunctionOnSet.                                      *)
AnyOf(s) == CHOOSE x \in s : TRUE

Partial(f, iter, D) ==
    iter = [s \in D |-> IF s = {} THEN 0 ELSE f[AnyOf(s)] + iter[s \ {AnyOf(s)}]]

Parts(f, S) == CHOOSE iter : Partial(f, iter, SUBSET S)

LEMMA SumIsPart ==
    ASSUME NEW f, NEW S
    PROVE  SumFunctionOnSet(f, S) = Parts(f, S)[S]
BY DEF SumFunctionOnSet, FoldFunctionOnSet, MapThenFoldSet, Parts, Partial, AnyOf

LEMMA AnyIsMember == ASSUME NEW s, s # {} PROVE AnyOf(s) \in s
BY DEF AnyOf

(* The subsets of S with at most n elements.                               *)
UpToSize(S, n) == {s \in SUBSET S : Cardinality(s) <= n}

LEMMA Smaller ==
    ASSUME NEW S, IsFiniteSet(S), NEW s \in SUBSET S, NEW x \in s
    PROVE  /\ IsFiniteSet(s) /\ Cardinality(s) \in Nat \ {0} /\ s \ {x} \in SUBSET S
           /\ IsFiniteSet(s \ {x}) /\ Cardinality(s \ {x}) = Cardinality(s) - 1
<1>1. IsFiniteSet(s) /\ Cardinality(s) \in Nat
  BY FS_Subset, FS_CardinalityType
<1>2. IsFiniteSet(s \ {x}) /\ Cardinality(s \ {x}) = Cardinality(s) - 1
  BY <1>1, FS_RemoveElement
<1>3. Cardinality(s \ {x}) \in Nat
  BY <1>2, FS_CardinalityType
<1>4. s \ {x} \in SUBSET S
  OBVIOUS
<1> QED
  BY <1>1, <1>2, <1>3, <1>4

(* The recursion has a solution.                                           *)
LEMMA PartsExist ==
    ASSUME NEW f, NEW S, IsFiniteSet(S)
    PROVE  Partial(f, Parts(f, S), SUBSET S)
<1> DEFINE G == {n \in Nat : \E iter : Partial(f, iter, UpToSize(S, n))}
<1>0. \A s \in SUBSET S : IsFiniteSet(s) /\ Cardinality(s) \in Nat /\ (Cardinality(s) = 0 <=> s = {})
  BY FS_Subset, FS_CardinalityType, FS_EmptySet
<1>1. 0 \in G
  <2>1. \A s \in UpToSize(S, 0) : s = {}
    BY <1>0 DEF UpToSize
  <2>2. Partial(f, [s \in UpToSize(S, 0) |-> 0], UpToSize(S, 0))
    BY <2>1 DEF Partial
  <2> QED
    BY <2>2
<1>2. ASSUME NEW n \in Nat, n \in G PROVE n + 1 \in G
  <2>1. PICK iter : Partial(f, iter, UpToSize(S, n))
    BY <1>2
  <2> DEFINE D == UpToSize(S, n + 1)
             next == [s \in D |-> IF s \in UpToSize(S, n) THEN iter[s]
                                  ELSE f[AnyOf(s)] + iter[s \ {AnyOf(s)}]]
  <2>2. ASSUME NEW s \in D, s # {}
        PROVE  s \ {AnyOf(s)} \in UpToSize(S, n) /\ s \ {AnyOf(s)} \in D
    <3>1. AnyOf(s) \in s /\ s \in SUBSET S /\ Cardinality(s) <= n + 1
      BY <2>2, AnyIsMember DEF UpToSize
    <3>2. /\ Cardinality(s) \in Nat \ {0} /\ s \ {AnyOf(s)} \in SUBSET S
          /\ Cardinality(s \ {AnyOf(s)}) = Cardinality(s) - 1
      BY <3>1, Smaller
    <3>3. Cardinality(s \ {AnyOf(s)}) <= n /\ Cardinality(s \ {AnyOf(s)}) <= n + 1
      BY <3>1, <3>2
    <3> QED
      BY <3>2, <3>3 DEF UpToSize
  <2>3. {} \in UpToSize(S, n)
    BY <1>0 DEF UpToSize
  <2>4. ASSUME NEW s \in D
        PROVE  next[s] = IF s = {} THEN 0 ELSE f[AnyOf(s)] + next[s \ {AnyOf(s)}]
    <3>1. CASE s = {}
      <4>1. iter[s] = 0
        BY <2>1, <2>3, <3>1 DEF Partial
      <4> QED
        BY <2>3, <3>1, <4>1
    <3>2. CASE s # {}
      <4>1. next[s \ {AnyOf(s)}] = iter[s \ {AnyOf(s)}]
        BY <2>2, <3>2
      <4>2. CASE s \in UpToSize(S, n)
        <5>1. iter[s] = f[AnyOf(s)] + iter[s \ {AnyOf(s)}]
          BY <2>1, <3>2, <4>2 DEF Partial
        <5> QED
          BY <3>2, <4>1, <4>2, <5>1
      <4>3. CASE s \notin UpToSize(S, n)
        BY <3>2, <4>1, <4>3
      <4> QED
        BY <4>2, <4>3
    <3> QED
      BY <3>1, <3>2
  <2>5. DOMAIN next = D /\ next = [s \in D |-> next[s]]
    OBVIOUS
  <2> HIDE DEF next, D
  <2>6. Partial(f, next, D)
    BY <2>4, <2>5 DEF Partial
  <2> QED
    BY <2>6 DEF D
<1> HIDE DEF G
<1>3. Cardinality(S) \in G
  BY <1>0, <1>1, <1>2, NumbersByStep
<1>4. UpToSize(S, Cardinality(S)) = SUBSET S
  BY FS_Subset DEF UpToSize
<1>5. \E iter : Partial(f, iter, SUBSET S)
  BY <1>3, <1>4 DEF G
<1> QED
  BY <1>5 DEF Parts

LEMMA PartsStep ==
    ASSUME NEW f, NEW S, IsFiniteSet(S), NEW s \in SUBSET S
    PROVE  Parts(f, S)[s] = IF s = {} THEN 0 ELSE f[AnyOf(s)] + Parts(f, S)[s \ {AnyOf(s)}]
<1> DEFINE p == Parts(f, S)
<1>0. Partial(f, p, SUBSET S)
  BY PartsExist
<1> HIDE DEF p
<1>1. p = [t \in SUBSET S |-> IF t = {} THEN 0 ELSE f[AnyOf(t)] + p[t \ {AnyOf(t)}]]
  BY <1>0 DEF Partial
<1>2. p[s] = IF s = {} THEN 0 ELSE f[AnyOf(s)] + p[s \ {AnyOf(s)}]
  BY <1>1
<1> QED
  BY <1>2 DEF p

LEMMA PartsTake ==
    ASSUME NEW f, NEW S, IsFiniteSet(S)
    PROVE  \A s \in SUBSET S : s # {} => Parts(f, S)[s] = f[AnyOf(s)] + Parts(f, S)[s \ {AnyOf(s)}]
<1> DEFINE p == Parts(f, S)
           D == SUBSET S
<1>0. Partial(f, p, D)
  BY PartsExist
<1> HIDE DEF p, D
<1>1. p = [t \in D |-> IF t = {} THEN 0 ELSE f[AnyOf(t)] + p[t \ {AnyOf(t)}]]
  BY <1>0 DEF Partial
<1>2. \A s \in D : s # {} => p[s] = f[AnyOf(s)] + p[s \ {AnyOf(s)}]
  BY <1>1
<1> QED
  BY <1>2 DEF p, D

(* Induction over the subsets of a finite set, one element at a time.      *)
LEMMA SubsetsByStep ==
    ASSUME NEW S, IsFiniteSet(S), NEW G, {} \in G,
           \A s \in SUBSET S : (s # {} /\ \A x \in s : s \ {x} \in G) => s \in G
    PROVE  \A s \in SUBSET S : s \in G
<1> DEFINE N == {n \in Nat : \A s \in SUBSET S : Cardinality(s) = n => s \in G}
<1>0. \A s \in SUBSET S : IsFiniteSet(s) /\ Cardinality(s) \in Nat /\ (Cardinality(s) = 0 <=> s = {})
  BY FS_Subset, FS_CardinalityType, FS_EmptySet
<1>1. 0 \in N
  BY <1>0
<1>2. ASSUME NEW n \in Nat, n \in N PROVE n + 1 \in N
  <2> SUFFICES ASSUME NEW s \in SUBSET S, Cardinality(s) = n + 1 PROVE s \in G
    OBVIOUS
  <2>1. s # {}
    BY <1>0
  <2>2. ASSUME NEW x \in s PROVE s \ {x} \in G
    <3>0. s \ {x} \in SUBSET S /\ Cardinality(s \ {x}) = Cardinality(s) - 1
      BY Smaller
    <3>1. s \ {x} \in SUBSET S /\ Cardinality(s \ {x}) = n
      BY <3>0
    <3> QED
      BY <1>2, <3>1
  <2> QED
    BY <2>1, <2>2
<1> HIDE DEF N
<1>3. \A n \in Nat : n \in N
  BY <1>1, <1>2, NumbersByStep
<1> QED
  BY <1>0, <1>3 DEF N

LEMMA PartsType ==
    ASSUME NEW f, NEW S, IsFiniteSet(S), \A x \in S : f[x] \in Int
    PROVE  \A s \in SUBSET S : Parts(f, S)[s] \in Int
<1> DEFINE G == {s \in SUBSET S : Parts(f, S)[s] \in Int}
<1>1. {} \in G
  BY PartsStep
<1>2. ASSUME NEW s \in SUBSET S, s # {}, \A x \in s : s \ {x} \in G PROVE s \in G
  <2>1. AnyOf(s) \in s
    BY <1>2, AnyIsMember
  <2>2. Parts(f, S)[s \ {AnyOf(s)}] \in Int /\ f[AnyOf(s)] \in Int
    BY <1>2, <2>1
  <2>3. \A t \in SUBSET S : t # {} => Parts(f, S)[t] = f[AnyOf(t)] + Parts(f, S)[t \ {AnyOf(t)}]
    BY PartsTake
  <2>4. Parts(f, S)[s] = f[AnyOf(s)] + Parts(f, S)[s \ {AnyOf(s)}]
    BY ONLY <1>2, <2>3
  <2> QED
    BY <2>2, <2>4
<1> HIDE DEF G
<1>3. \A s \in SUBSET S : s \in G
  BY <1>1, <1>2, SubsetsByStep
<1> QED
  BY <1>3 DEF G

(* Any element may be taken first.                                         *)
LEMMA PartsWithout ==
    ASSUME NEW f, NEW S, IsFiniteSet(S), \A x \in S : f[x] \in Int
    PROVE  \A s \in SUBSET S : \A x \in s : Parts(f, S)[s] = f[x] + Parts(f, S)[s \ {x}]
<1> DEFINE p == Parts(f, S)
           G == {s \in SUBSET S : \A x \in s : p[s] = f[x] + p[s \ {x}]}
<1>0. \A s \in SUBSET S : p[s] \in Int
  BY PartsType
<1>1. ASSUME NEW s \in SUBSET S, s # {}
      PROVE  AnyOf(s) \in s /\ p[s] = f[AnyOf(s)] + p[s \ {AnyOf(s)}]
  <2>1. AnyOf(s) \in s
    BY <1>1, AnyIsMember
  <2>2. \A t \in SUBSET S : t # {} => Parts(f, S)[t] = f[AnyOf(t)] + Parts(f, S)[t \ {AnyOf(t)}]
    BY PartsTake
  <2> QED
    BY ONLY <1>1, <2>1, <2>2
<1> HIDE DEF p
<1>2. {} \in G
  OBVIOUS
<1>3. ASSUME NEW s \in SUBSET S, s # {}, \A x \in s : s \ {x} \in G PROVE s \in G
  <2> SUFFICES ASSUME NEW x \in s PROVE p[s] = f[x] + p[s \ {x}]
    OBVIOUS
  <2> DEFINE a == AnyOf(s)
  <2>1. a \in s /\ p[s] = f[a] + p[s \ {a}]
    BY <1>1, <1>3
  <2> HIDE DEF a
  <2>2. CASE x = a
    BY <2>1, <2>2
  <2>3. CASE x # a
    <3> DEFINE r == s \ {a, x}
    <3>1. s \ {a} \in SUBSET S /\ s \ {x} \in SUBSET S /\ x \in s \ {a} /\ a \in s \ {x}
      BY <2>1, <2>3
    <3>2. (s \ {a}) \ {x} = r /\ (s \ {x}) \ {a} = r /\ r \in SUBSET S
      OBVIOUS
    <3>3. p[s \ {a}] = f[x] + p[(s \ {a}) \ {x}] /\ p[s \ {x}] = f[a] + p[(s \ {x}) \ {a}]
      BY <1>3, <2>1, <3>1
    <3>4. p[s \ {a}] = f[x] + p[r] /\ p[s \ {x}] = f[a] + p[r]
      BY <3>2, <3>3
    <3>5. p[r] \in Int /\ f[a] \in Int /\ f[x] \in Int
      BY <1>0, <2>1, <3>2
    <3> HIDE DEF r
    <3> QED
      BY <2>1, <3>4, <3>5
  <2> QED
    BY <2>2, <2>3
<1> HIDE DEF G
<1>4. \A s \in SUBSET S : s \in G
  BY <1>2, <1>3, SubsetsByStep
<1> QED
  BY <1>4 DEF G, p

(* A sum depends on the values on its set only.                            *)
LEMMA PartsAgree ==
    ASSUME NEW f, NEW g, NEW S, NEW T, IsFiniteSet(S), IsFiniteSet(T), NEW U \in SUBSET S,
           U \in SUBSET T, \A x \in U : f[x] = g[x]
    PROVE  Parts(f, S)[U] = Parts(g, T)[U]
<1> DEFINE G == {s \in SUBSET U : Parts(f, S)[s] = Parts(g, T)[s]}
<1>0. IsFiniteSet(U)
  BY FS_Subset
<1>1. {} \in G
  BY PartsStep
<1>2. ASSUME NEW s \in SUBSET U, s # {}, \A x \in s : s \ {x} \in G PROVE s \in G
  <2>1. AnyOf(s) \in s
    BY <1>2, AnyIsMember
  <2>2. Parts(f, S)[s \ {AnyOf(s)}] = Parts(g, T)[s \ {AnyOf(s)}] /\ f[AnyOf(s)] = g[AnyOf(s)]
    BY <1>2, <2>1
  <2>3. s \in SUBSET S /\ s \in SUBSET T
    OBVIOUS
  <2>4. \A t \in SUBSET S : t # {} => Parts(f, S)[t] = f[AnyOf(t)] + Parts(f, S)[t \ {AnyOf(t)}]
    BY PartsTake
  <2>5. \A t \in SUBSET T : t # {} => Parts(g, T)[t] = g[AnyOf(t)] + Parts(g, T)[t \ {AnyOf(t)}]
    BY PartsTake
  <2>6. Parts(f, S)[s] = f[AnyOf(s)] + Parts(f, S)[s \ {AnyOf(s)}]
    BY ONLY <1>2, <2>3, <2>4
  <2>7. Parts(g, T)[s] = g[AnyOf(s)] + Parts(g, T)[s \ {AnyOf(s)}]
    BY ONLY <1>2, <2>3, <2>5
  <2> QED
    BY <2>2, <2>6, <2>7
<1> HIDE DEF G
<1>3. \A s \in SUBSET U : s \in G
  BY <1>0, <1>1, <1>2, SubsetsByStep
<1>4. U \in G
  BY <1>3
<1> QED
  BY <1>4 DEF G

-----------------------------------------------------------------------------
(* Sums.                                                                   *)

LEMMA SumSame ==
    ASSUME NEW f, NEW g, NEW S, IsFiniteSet(S), \A x \in S : f[x] = g[x]
    PROVE  SumFunctionOnSet(f, S) = SumFunctionOnSet(g, S)
BY PartsAgree, SumIsPart

LEMMA SumEmpty == ASSUME NEW f PROVE SumFunctionOnSet(f, {}) = 0
BY SumIsPart, PartsStep, FS_EmptySet

LEMMA SumType ==
    ASSUME NEW f, NEW S, IsFiniteSet(S), \A x \in S : f[x] \in Int
    PROVE  SumFunctionOnSet(f, S) \in Int
BY SumIsPart, PartsType

LEMMA SumNat ==
    ASSUME NEW f, NEW S, IsFiniteSet(S), \A x \in S : f[x] \in Nat
    PROVE  SumFunctionOnSet(f, S) \in Nat
<1> DEFINE G == {s \in SUBSET S : Parts(f, S)[s] \in Nat}
<1>1. {} \in G
  BY PartsStep
<1>2. ASSUME NEW s \in SUBSET S, s # {}, \A x \in s : s \ {x} \in G PROVE s \in G
  <2>1. AnyOf(s) \in s
    BY <1>2, AnyIsMember
  <2>2. Parts(f, S)[s \ {AnyOf(s)}] \in Nat /\ f[AnyOf(s)] \in Nat
    BY <1>2, <2>1
  <2>3. \A t \in SUBSET S : t # {} => Parts(f, S)[t] = f[AnyOf(t)] + Parts(f, S)[t \ {AnyOf(t)}]
    BY PartsTake
  <2>4. Parts(f, S)[s] = f[AnyOf(s)] + Parts(f, S)[s \ {AnyOf(s)}]
    BY ONLY <1>2, <2>3
  <2> QED
    BY <2>2, <2>4
<1> HIDE DEF G
<1>3. \A s \in SUBSET S : s \in G
  BY <1>1, <1>2, SubsetsByStep
<1>4. S \in G
  BY <1>3
<1> QED
  BY <1>4, SumIsPart DEF G

LEMMA SumWithout ==
    ASSUME NEW f, NEW S, IsFiniteSet(S), \A x \in S : f[x] \in Int, NEW x \in S
    PROVE  SumFunctionOnSet(f, S) = f[x] + SumFunctionOnSet(f, S \ {x})
<1>1. Parts(f, S)[S] = f[x] + Parts(f, S)[S \ {x}]
  BY PartsWithout
<1>2. IsFiniteSet(S \ {x})
  BY FS_RemoveElement
<1>3. Parts(f, S)[S \ {x}] = Parts(f, S \ {x})[S \ {x}]
  BY <1>2, PartsAgree
<1> QED
  BY <1>1, <1>3, SumIsPart

LEMMA SumWith ==
    ASSUME NEW f, NEW S, IsFiniteSet(S), \A y \in S : f[y] \in Int, NEW x, x \notin S, f[x] \in Int
    PROVE  SumFunctionOnSet(f, S \cup {x}) = f[x] + SumFunctionOnSet(f, S)
<1>1. IsFiniteSet(S \cup {x}) /\ \A y \in S \cup {x} : f[y] \in Int
  BY FS_AddElement
<1>2. (S \cup {x}) \ {x} = S /\ x \in S \cup {x}
  OBVIOUS
<1>3. SumFunctionOnSet(f, S \cup {x}) = f[x] + SumFunctionOnSet(f, (S \cup {x}) \ {x})
  BY <1>1, <1>2, SumWithout
<1> QED
  BY <1>2, <1>3

LEMMA SumWithin ==
    ASSUME NEW f, NEW S, IsFiniteSet(S), NEW m \in Nat, \A x \in S : f[x] \in Int /\ f[x] <= m
    PROVE  SumFunctionOnSet(f, S) <= Cardinality(S) * m
<1> DEFINE G == {s \in SUBSET S : SumFunctionOnSet(f, s) <= Cardinality(s) * m}
<1>1. {} \in G
  BY SumEmpty, FS_EmptySet
<1>2. ASSUME NEW s \in SUBSET S, s # {}, \A x \in s : s \ {x} \in G PROVE s \in G
  <2>1. PICK x : x \in s
    BY <1>2
  <2> DEFINE r == s \ {x}
             n == Cardinality(r)
             c == SumFunctionOnSet(f, r)
  <2>2. IsFiniteSet(s) /\ IsFiniteSet(r) /\ n = Cardinality(s) - 1 /\ Cardinality(s) \in Nat \ {0}
    BY <2>1, Smaller
  <2>3. SumFunctionOnSet(f, s) = f[x] + c
    BY <2>1, <2>2, SumWithout
  <2>4. c <= n * m
    BY <1>2, <2>1
  <2>5. c \in Int /\ f[x] \in Int /\ f[x] <= m
    BY <2>1, <2>2, SumType
  <2> HIDE DEF n, c, r
  <2>6. n \in Nat /\ Cardinality(s) = n + 1
    BY <2>2
  <2>7. (n + 1) * m = n * m + m /\ n * m \in Int
    BY <2>6
  <2> DEFINE k == n * m
  <2> HIDE DEF k
  <2>8. f[x] + c <= k + m
    BY <2>4, <2>5, <2>7 DEF k
  <2> QED
    BY <2>3, <2>6, <2>7, <2>8 DEF k
<1> HIDE DEF G
<1>3. \A s \in SUBSET S : s \in G
  BY <1>1, <1>2, SubsetsByStep
<1> QED
  BY <1>3 DEF G

(* One value changes.                                                      *)
LEMMA SumUpdated ==
    ASSUME NEW f, NEW g, NEW S, IsFiniteSet(S), NEW x \in S,
           \A y \in S : f[y] \in Int /\ g[y] \in Int, \A y \in S \ {x} : f[y] = g[y]
    PROVE  SumFunctionOnSet(g, S) = SumFunctionOnSet(f, S) - f[x] + g[x]
<1>1. IsFiniteSet(S \ {x})
  BY FS_RemoveElement
<1> DEFINE a == SumFunctionOnSet(f, S \ {x})
<1>2. a = SumFunctionOnSet(g, S \ {x}) /\ a \in Int
  BY <1>1, SumSame, SumType
<1>3. SumFunctionOnSet(f, S) = f[x] + a /\ SumFunctionOnSet(g, S) = g[x] + a
  BY <1>2, SumWithout
<1> HIDE DEF a
<1> QED
  BY <1>2, <1>3

(* No value grows.                                                         *)
LEMMA SumAtMost ==
    ASSUME NEW f, NEW g, NEW S, IsFiniteSet(S),
           \A x \in S : f[x] \in Int /\ g[x] \in Int /\ g[x] <= f[x]
    PROVE  SumFunctionOnSet(g, S) <= SumFunctionOnSet(f, S)
<1> DEFINE G == {s \in SUBSET S : SumFunctionOnSet(g, s) <= SumFunctionOnSet(f, s)}
<1>1. {} \in G
  BY SumEmpty
<1>2. ASSUME NEW s \in SUBSET S, s # {}, \A x \in s : s \ {x} \in G PROVE s \in G
  <2>1. PICK x : x \in s
    BY <1>2
  <2> DEFINE r == s \ {x}
             a == SumFunctionOnSet(f, r)
             b == SumFunctionOnSet(g, r)
  <2>2. IsFiniteSet(s) /\ IsFiniteSet(r)
    BY <2>1, Smaller
  <2>3. SumFunctionOnSet(f, s) = f[x] + a /\ SumFunctionOnSet(g, s) = g[x] + b
    BY <2>1, <2>2, SumWithout
  <2>4. b <= a
    BY <1>2, <2>1
  <2>5. a \in Int /\ b \in Int /\ f[x] \in Int /\ g[x] \in Int /\ g[x] <= f[x]
    BY <2>1, <2>2, SumType
  <2> HIDE DEF a, b, r
  <2>6. g[x] + b <= f[x] + a
    BY <2>4, <2>5
  <2> QED
    BY <2>3, <2>6
<1> HIDE DEF G
<1>3. \A s \in SUBSET S : s \in G
  BY <1>1, <1>2, SubsetsByStep
<1> QED
  BY <1>3 DEF G

=============================================================================
