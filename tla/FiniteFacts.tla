------------------------------ MODULE FiniteFacts ------------------------------
(***************************************************************************)
(* Lemmas that the proofs of several components need: least and greatest   *)
(* numbers, sets of numbers put in order, and sums over finite sets.  The  *)
(* induction they rest on is the well-foundedness of the numbers           *)
(* (LeastNumber), since induction over an operator is out of reach.        *)
(***************************************************************************)
EXTENDS Integers, Sequences, SequencesExt, FiniteSetTheorems, WellFoundedInduction, TLAPS

(***************************************************************************)
(* Numbers and enumerations                                                *)
(***************************************************************************)
LEMMA LeastNumber ==
  ASSUME NEW S, S \subseteq Nat, S # {}
  PROVE  \E m \in S : \A k \in S : m <= k
<1>1. \E x \in S : \A y \in S : ~ (<<y, x>> \in OpToRel(<, Nat))
  BY WFMin, NatLessThanWellFounded, Zenon
<1>2. PICK m \in S : \A y \in S : ~ (<<y, m>> \in OpToRel(<, Nat))
  BY <1>1, Zenon
<1>3. \A k \in S : ~(k < m)
  <2> TAKE k \in S
  <2>1. k \in Nat /\ m \in Nat  BY Zenon
  <2>2. k < m => <<k, m>> \in OpToRel(<, Nat)  BY <2>1, Zenon DEF OpToRel
  <2> QED  BY <1>2, <2>2, Zenon
<1>4. \A k \in S : m <= k
  <2> TAKE k \in S
  <2>1. k \in Nat /\ m \in Nat  BY Zenon
  <2>2. ~(k < m)  BY <1>3
  <2> QED  BY <2>1, <2>2, SMT
<1> QED  BY <1>4

LEMMA GreatestNumber ==
  ASSUME NEW n \in Nat, NEW S \in SUBSET (1 .. n), S # {}
  PROVE  \E m \in S : \A k \in S : k <= m
<1> DEFINE Bounds == {b \in Nat : \A k \in S : k <= b}
<1>1. PICK m \in Bounds : \A b \in Bounds : m <= b
  <2>1. n \in Bounds  OBVIOUS
  <2> QED  BY <2>1, LeastNumber
<1>2. m \in Nat /\ \A k \in S : k <= m /\ k >= 1  OBVIOUS
<1>3. m \in S
  <2> SUFFICES ASSUME m \notin S PROVE FALSE
    OBVIOUS
  <2>1. m >= 1
    <3>1. PICK k \in S : TRUE  OBVIOUS
    <3>2. k \in 1 .. n /\ k <= m  BY <1>2, <3>1
    <3> QED  BY <1>2, <3>2
  <2>2. m - 1 \in Bounds  BY <1>2, <2>1
  <2> QED  BY <1>1, <1>2, <2>2
<1> QED  BY <1>2, <1>3

LEMMA PartIsFinite ==
  ASSUME NEW n \in Nat, NEW S \in SUBSET (1 .. n)
  PROVE  IsFiniteSet(S) /\ Cardinality(S) \in Nat
<1>1. IsFiniteSet(1 .. n)  BY FS_Interval
<1> QED  BY <1>1, FS_Subset, FS_CardinalityType

(* Every set of sequence numbers can be put in order.                      *)
Enumerates(q, S) ==
  /\ q \in [1 .. Cardinality(S) -> S]
  /\ ToSet(q) = S
  /\ \A i, j \in DOMAIN q : i < j => q[i] < q[j]

LEMMA CanBeOrdered ==
  ASSUME NEW n \in Nat, NEW S \in SUBSET (1 .. n)
  PROVE  \E q : Enumerates(q, S)
<1> DEFINE Bad == {k \in Nat : \E T \in SUBSET (1 .. k) : \A q : ~Enumerates(q, T)}
<1> SUFFICES ASSUME Bad # {} PROVE FALSE
  OBVIOUS
<1>1. PICK m \in Bad : \A k \in Bad : m <= k
  BY LeastNumber
<1>2. PICK T \in SUBSET (1 .. m) : \A q : ~Enumerates(q, T)
  BY <1>1
<1> HIDE DEF Bad
<1>3. m \in Nat  BY <1>1 DEF Bad
<1>4. T # {}
  <2> SUFFICES ASSUME T = {} PROVE FALSE
    OBVIOUS
  <2>1. Cardinality(T) = 0  BY FS_EmptySet
  <2>2. Enumerates([i \in 1 .. Cardinality(T) |-> 0], T)
    BY <2>1 DEF Enumerates, ToSet
  <2> QED  BY <1>2, <2>2
<1>5. m > 0
  <2>1. PICK x \in T : x \in 1 .. m  BY <1>4
  <2> QED  BY <1>3, <2>1
<1>6. m - 1 \in Nat /\ m - 1 \notin Bad  BY <1>1, <1>3, <1>5
<1>7. \A R \in SUBSET (1 .. m - 1) : \E q : Enumerates(q, R)
  BY <1>6 DEF Bad
<1>8. m \in T
  BY <1>2, <1>3, <1>7
<1> DEFINE R == T \ {m}
<1>9. R \in SUBSET (1 .. m - 1)  BY <1>3
<1>10. PICK q : Enumerates(q, R)  BY <1>7, <1>9
<1>11. /\ Cardinality(R) \in Nat /\ Cardinality(T) = Cardinality(R) + 1
       /\ \A x \in R : x < m
  <2>1. IsFiniteSet(R) /\ Cardinality(R) \in Nat  BY <1>6, <1>9, PartIsFinite
  <2>2. T = R \cup {m}  BY <1>8
  <2> HIDE DEF R
  <2>3. m \notin R /\ \A x \in R : x < m  BY <1>3, <1>9
  <2> QED  BY <2>1, <2>2, <2>3, FS_AddElement
<1> DEFINE p == [i \in 1 .. Cardinality(T) |-> IF i = Cardinality(T) THEN m ELSE q[i]]
<1>12. Enumerates(p, T)
  <2>1. T = R \cup {m}  BY <1>8
  <2> HIDE DEF R
  <2>2. /\ p[Cardinality(T)] = m /\ Cardinality(T) \in DOMAIN p
        /\ \A i \in DOMAIN q : i \in DOMAIN p /\ p[i] = q[i] /\ q[i] \in R
        /\ \A i \in DOMAIN p : i \in DOMAIN q \/ i = Cardinality(T)
    BY <1>10, <1>11 DEF Enumerates
  <2>3. ToSet(p) = T
    <3>1. ToSet(q) = R  BY <1>10 DEF Enumerates
    <3> HIDE DEF p
    <3> QED  BY <2>1, <2>2, <3>1, Zenon DEF ToSet
  <2>4. p \in [1 .. Cardinality(T) -> T]
    BY <1>10, <1>11, <2>1 DEF Enumerates
  <2>5. \A i, j \in DOMAIN p : i < j => p[i] < p[j]
    BY <1>10, <1>11, <2>2 DEF Enumerates
  <2> QED  BY <2>3, <2>4, <2>5 DEF Enumerates
<1> QED  BY <1>2, <1>12

(***************************************************************************)
(* Sums over finite sets                                                   *)
(***************************************************************************)
LEMMA NumbersReach ==
  ASSUME NEW S, 0 \in S, \A n \in Nat : n \in S => n + 1 \in S
  PROVE  Nat \subseteq S
<1> SUFFICES ASSUME Nat \ S # {} PROVE FALSE
  OBVIOUS
<1>1. PICK m \in Nat \ S : \A k \in Nat \ S : m <= k
  BY LeastNumber
<1>2. m # 0 /\ m - 1 \in Nat /\ ~(m <= m - 1)
  BY <1>1
<1>3. m - 1 \in S
  BY <1>1, <1>2
<1> QED  BY <1>1, <1>2, <1>3

(* The element a sum takes first, and the equation of the partial sums.    *)
First(s) == CHOOSE x \in s : TRUE
SumsUp(g, f, S) ==
  g = [s \in SUBSET S |-> IF s = {} THEN 0 ELSE f[First(s)] + g[s \ {First(s)}]]
Sums(f, S) == CHOOSE g : SumsUp(g, f, S)
Total(f, S) == Sums(f, S)[S]

LEMMA FirstIsIn ==
  ASSUME NEW s, s # {}
  PROVE  First(s) \in s
BY DEF First

LEMMA SmallerPart ==
  ASSUME NEW s, IsFiniteSet(s), NEW x \in s
  PROVE  /\ IsFiniteSet(s \ {x}) /\ Cardinality(s) \in Nat /\ Cardinality(s) >= 1
         /\ Cardinality(s \ {x}) = Cardinality(s) - 1
<1>1. Cardinality(s \ {x}) = Cardinality(s) - 1 /\ IsFiniteSet(s \ {x})
  BY FS_RemoveElement
<1>2. Cardinality(s) \in Nat /\ Cardinality(s) # 0
  BY FS_CardinalityType, FS_EmptySet
<1> QED  BY <1>1, <1>2

LEMMA SumsDefined ==
  ASSUME NEW f, NEW S, IsFiniteSet(S)
  PROVE  SumsUp(Sums(f, S), f, S)
<1> DEFINE Body(g, s) == IF s = {} THEN 0 ELSE f[First(s)] + g[s \ {First(s)}]
           Upto(n) == {s \in SUBSET S : Cardinality(s) <= n}
           Good == {n \in Nat : \E g : /\ g = [s \in SUBSET S |-> g[s]]
                                       /\ \A s \in Upto(n) : g[s] = Body(g, s)}
<1>1. \A s \in SUBSET S : IsFiniteSet(s) /\ Cardinality(s) \in Nat
  BY FS_Subset, FS_CardinalityType
<1>2. 0 \in Good
  <2> DEFINE g == [s \in SUBSET S |-> 0]
  <2>1. g = [s \in SUBSET S |-> g[s]]  OBVIOUS
  <2>2. ASSUME NEW s \in Upto(0) PROVE g[s] = Body(g, s)
    <3>1. s = {}  BY <1>1, FS_EmptySet
    <3> QED  BY <3>1
  <2> HIDE DEF g
  <2> QED  BY <2>1, <2>2
<1>3. ASSUME NEW n \in Nat, n \in Good PROVE n + 1 \in Good
  <2>1. PICK g : /\ g = [s \in SUBSET S |-> g[s]]
                 /\ \A s \in Upto(n) : g[s] = Body(g, s)
    BY <1>3
  <2> DEFINE h == [s \in SUBSET S |-> IF Cardinality(s) <= n THEN g[s] ELSE Body(g, s)]
  <2>2. h = [s \in SUBSET S |-> h[s]]  OBVIOUS
  <2>3. ASSUME NEW s \in Upto(n + 1) PROVE h[s] = Body(h, s)
    <3>1. CASE s = {}
      <4>1. Cardinality(s) = 0  BY <3>1, FS_EmptySet
      <4>2. s \in Upto(n)  BY <4>1
      <4>3. h[s] = g[s]  BY <4>1
      <4> QED  BY <2>1, <3>1, <4>2, <4>3
    <3>2. CASE s # {}
      <4> DEFINE t == s \ {First(s)}
      <4>1. t \in SUBSET S /\ Cardinality(t) = Cardinality(s) - 1 /\ Cardinality(s) \in Nat
        BY <1>1, <3>2, FirstIsIn, SmallerPart
      <4>2. Cardinality(t) <= n  BY <4>1
      <4>3. h[t] = g[t]  BY <4>1, <4>2
      <4>4. h[s] = f[First(s)] + g[t]
        <5>1. CASE Cardinality(s) <= n
          BY <2>1, <3>2, <5>1
        <5>2. CASE ~(Cardinality(s) <= n)
          BY <3>2, <5>2
        <5> QED  BY <5>1, <5>2
      <4> QED  BY <3>2, <4>3, <4>4
    <3> QED  BY <3>1, <3>2
  <2> HIDE DEF h, Upto, Body
  <2>4. /\ h = [s \in SUBSET S |-> h[s]]
        /\ \A s \in Upto(n + 1) : h[s] = Body(h, s)
    BY <2>2, <2>3
  <2>5. n + 1 \in Nat  OBVIOUS
  <2> QED  BY <2>4, <2>5, Zenon
<1>4. Cardinality(S) \in Good
  <2> HIDE DEF Good
  <2> QED  BY <1>1, <1>2, <1>3, NumbersReach
<1>5. PICK g : /\ g = [s \in SUBSET S |-> g[s]]
               /\ \A s \in Upto(Cardinality(S)) : g[s] = Body(g, s)
  BY <1>4
<1>6. ASSUME NEW s \in SUBSET S PROVE g[s] = Body(g, s)
  <2>1. Cardinality(s) <= Cardinality(S)  BY FS_Subset
  <2> QED  BY <1>5, <2>1
<1>7. SumsUp(g, f, S)
  BY <1>5, <1>6 DEF SumsUp
<1> QED  BY <1>7 DEF Sums

(* Partial sums depend on the values summed, not on the set they are part  *)
(* of.                                                                     *)
LEMMA SumsAgree ==
  ASSUME NEW f, NEW g, NEW S, IsFiniteSet(S), NEW T \in SUBSET S, \A x \in T : f[x] = g[x]
  PROVE  \A s \in SUBSET T : Sums(f, S)[s] = Sums(g, T)[s]
<1> DEFINE a == Sums(f, S)
           b == Sums(g, T)
           Good == {n \in Nat : \A s \in SUBSET T : Cardinality(s) <= n => a[s] = b[s]}
<1>1. IsFiniteSet(T) /\ \A s \in SUBSET T : IsFiniteSet(s) /\ Cardinality(s) \in Nat
  BY FS_Subset, FS_CardinalityType
<1>2. SumsUp(a, f, S) /\ SumsUp(b, g, T)
  BY <1>1, SumsDefined
<1> HIDE DEF a, b
<1>3. \A s \in SUBSET S : a[s] = IF s = {} THEN 0 ELSE f[First(s)] + a[s \ {First(s)}]
  BY <1>2 DEF SumsUp
<1>4. \A s \in SUBSET T : b[s] = IF s = {} THEN 0 ELSE g[First(s)] + b[s \ {First(s)}]
  BY <1>2 DEF SumsUp
<1>5. a[{}] = b[{}]
  BY <1>3, <1>4
<1>6. 0 \in Good
  <2> SUFFICES ASSUME NEW s \in SUBSET T, Cardinality(s) <= 0 PROVE a[s] = b[s]
    OBVIOUS
  <2>1. s = {}  BY <1>1, FS_EmptySet
  <2> QED  BY <1>5, <2>1
<1>7. ASSUME NEW n \in Nat, n \in Good PROVE n + 1 \in Good
  <2> SUFFICES ASSUME NEW s \in SUBSET T, Cardinality(s) <= n + 1, s # {} PROVE a[s] = b[s]
    BY <1>5
  <2>1. First(s) \in s  BY FirstIsIn
  <2> DEFINE t == s \ {First(s)}
  <2>2. Cardinality(t) = Cardinality(s) - 1 /\ Cardinality(s) \in Nat
    BY <1>1, <2>1, SmallerPart
  <2>3. t \in SUBSET T /\ Cardinality(t) <= n  BY <2>2
  <2>4. a[t] = b[t]  BY <1>7, <2>3
  <2>5. a[s] = f[First(s)] + a[t]  BY <1>3
  <2>6. b[s] = g[First(s)] + b[t]  BY <1>4
  <2> QED  BY <2>1, <2>4, <2>5, <2>6
<1> HIDE DEF Good
<1>8. Nat \subseteq Good  BY <1>6, <1>7, NumbersReach
<1>9. ASSUME NEW s \in SUBSET T PROVE a[s] = b[s]
  <2>1. Cardinality(s) \in Good  BY <1>1, <1>8
  <2> QED  BY <1>1, <2>1 DEF Good
<1> QED  BY <1>9 DEF a, b

LEMMA TotalSame ==
  ASSUME NEW f, NEW g, NEW S, IsFiniteSet(S), \A x \in S : f[x] = g[x]
  PROVE  Total(f, S) = Total(g, S)
BY SumsAgree DEF Total

LEMMA TotalEmpty ==
  ASSUME NEW f
  PROVE  Total(f, {}) = 0
<1>1. SumsUp(Sums(f, {}), f, {})  BY SumsDefined, FS_EmptySet
<1> QED  BY <1>1 DEF SumsUp, Total

LEMMA TotalFirst ==
  ASSUME NEW f, NEW S, IsFiniteSet(S), S # {}
  PROVE  Total(f, S) = f[First(S)] + Total(f, S \ {First(S)})
<1> DEFINE T == S \ {First(S)}
           a == Sums(f, S)
<1>1. SumsUp(a, f, S)  BY SumsDefined
<1>2. a[T] = Sums(f, T)[T]  BY SumsAgree
<1> HIDE DEF a
<1>3. a[S] = f[First(S)] + a[T]  BY <1>1 DEF SumsUp
<1> QED  BY <1>2, <1>3 DEF Total, a

LEMMA TotalIsNat ==
  ASSUME NEW f, NEW S, IsFiniteSet(S), \A x \in S : f[x] \in Nat
  PROVE  Total(f, S) \in Nat
<1> DEFINE Good == {n \in Nat : \A s \in SUBSET S : Cardinality(s) <= n => Total(f, s) \in Nat}
<1>1. \A s \in SUBSET S : IsFiniteSet(s) /\ Cardinality(s) \in Nat
  BY FS_Subset, FS_CardinalityType
<1>2. 0 \in Good
  <2> SUFFICES ASSUME NEW s \in SUBSET S, Cardinality(s) <= 0 PROVE Total(f, s) \in Nat
    OBVIOUS
  <2>1. s = {}  BY <1>1, FS_EmptySet
  <2> QED  BY <2>1, TotalEmpty
<1>3. ASSUME NEW n \in Nat, n \in Good PROVE n + 1 \in Good
  <2> SUFFICES ASSUME NEW s \in SUBSET S, Cardinality(s) <= n + 1, s # {} PROVE Total(f, s) \in Nat
    BY TotalEmpty
  <2>1. First(s) \in s  BY FirstIsIn
  <2> DEFINE t == s \ {First(s)}
  <2>2. Cardinality(t) = Cardinality(s) - 1 /\ Cardinality(s) \in Nat
    BY <1>1, <2>1, SmallerPart
  <2>3. t \in SUBSET S /\ Cardinality(t) <= n  BY <2>2
  <2>4. Total(f, t) \in Nat  BY <1>3, <2>3
  <2>5. Total(f, s) = f[First(s)] + Total(f, t)  BY <1>1, TotalFirst
  <2> QED  BY <2>1, <2>4, <2>5
<1> HIDE DEF Good
<1>4. Cardinality(S) \in Good  BY <1>1, <1>2, <1>3, NumbersReach
<1> QED  BY <1>1, <1>4 DEF Good

(* Any element may be taken first.                                         *)
LEMMA TotalTake ==
  ASSUME NEW f, NEW S, IsFiniteSet(S), \A x \in S : f[x] \in Nat, NEW e \in S
  PROVE  Total(f, S) = f[e] + Total(f, S \ {e})
<1> DEFINE Good == {n \in Nat : \A s \in SUBSET S : \A x \in s :
                      Cardinality(s) <= n => Total(f, s) = f[x] + Total(f, s \ {x})}
<1>1. \A s \in SUBSET S : IsFiniteSet(s) /\ Cardinality(s) \in Nat /\ Total(f, s) \in Nat
  <2> SUFFICES ASSUME NEW s \in SUBSET S
               PROVE  IsFiniteSet(s) /\ Cardinality(s) \in Nat /\ Total(f, s) \in Nat
    OBVIOUS
  <2>1. IsFiniteSet(s)  BY FS_Subset
  <2> QED  BY <2>1, FS_CardinalityType, TotalIsNat
<1>2. 0 \in Good
  <2> SUFFICES ASSUME NEW s \in SUBSET S, NEW x \in s, Cardinality(s) <= 0 PROVE FALSE
    OBVIOUS
  <2>1. s = {}  BY <1>1, FS_EmptySet
  <2> QED  BY <2>1
<1>3. ASSUME NEW n \in Nat, n \in Good PROVE n + 1 \in Good
  <2> SUFFICES ASSUME NEW s \in SUBSET S, NEW x \in s, Cardinality(s) <= n + 1
               PROVE  Total(f, s) = f[x] + Total(f, s \ {x})
    OBVIOUS
  <2> DEFINE y == First(s)
  <2>1. y \in s /\ Total(f, s) = f[y] + Total(f, s \ {y})
    BY <1>1, FirstIsIn, TotalFirst
  <2>2. CASE x = y
    BY <2>1, <2>2
  <2>3. CASE x # y
    <3> HIDE DEF y
    <3>1. /\ Cardinality(s \ {y}) = Cardinality(s) - 1 /\ Cardinality(s \ {x}) = Cardinality(s) - 1
          /\ Cardinality(s) \in Nat
      BY <1>1, <2>1, SmallerPart
    <3>2. Cardinality(s \ {y}) <= n /\ Cardinality(s \ {x}) <= n  BY <3>1
    <3>3. Total(f, s \ {y}) = f[x] + Total(f, (s \ {y}) \ {x})
      BY <1>3, <2>3, <3>2
    <3>4. Total(f, s \ {x}) = f[y] + Total(f, (s \ {x}) \ {y})
      BY <1>3, <2>1, <2>3, <3>2
    <3>5. (s \ {x}) \ {y} = (s \ {y}) \ {x}  OBVIOUS
    <3>6. Total(f, (s \ {x}) \ {y}) \in Nat /\ f[x] \in Nat /\ f[y] \in Nat  BY <1>1, <2>1
    <3> QED  BY <2>1, <3>3, <3>4, <3>5, <3>6
  <2> QED  BY <2>2, <2>3
<1> HIDE DEF Good
<1>4. Cardinality(S) \in Good  BY <1>1, <1>2, <1>3, NumbersReach
<1> QED  BY <1>1, <1>4 DEF Good

(* A part and the rest of it make up the whole.                            *)
LEMMA TotalSplit ==
  ASSUME NEW f, NEW S, IsFiniteSet(S), \A x \in S : f[x] \in Nat, NEW A \in SUBSET S
  PROVE  Total(f, S) = Total(f, A) + Total(f, S \ A)
<1> DEFINE Good == {n \in Nat : \A s \in SUBSET A :
                      Cardinality(s) <= n => Total(f, S) = Total(f, s) + Total(f, S \ s)}
<1>1. \A s \in SUBSET S : IsFiniteSet(s) /\ Cardinality(s) \in Nat /\ Total(f, s) \in Nat
  <2> SUFFICES ASSUME NEW s \in SUBSET S
               PROVE  IsFiniteSet(s) /\ Cardinality(s) \in Nat /\ Total(f, s) \in Nat
    OBVIOUS
  <2>1. IsFiniteSet(s)  BY FS_Subset
  <2> QED  BY <2>1, FS_CardinalityType, TotalIsNat
<1>2. Total(f, S) = Total(f, {}) + Total(f, S \ {})
  <2>1. S \ {} = S  OBVIOUS
  <2> QED  BY <1>1, <2>1, TotalEmpty
<1>3. 0 \in Good
  <2> SUFFICES ASSUME NEW s \in SUBSET A, Cardinality(s) <= 0 PROVE s = {}
    BY <1>2
  <2> QED  BY <1>1, FS_EmptySet
<1>4. ASSUME NEW n \in Nat, n \in Good PROVE n + 1 \in Good
  <2> SUFFICES ASSUME NEW s \in SUBSET A, Cardinality(s) <= n + 1, s # {}
               PROVE  Total(f, S) = Total(f, s) + Total(f, S \ s)
    <3>1. n + 1 \in Nat  OBVIOUS
    <3> QED  BY <1>2, <3>1, Zenon
  <2>1. PICK x \in s : TRUE  OBVIOUS
  <2> DEFINE t == s \ {x}
  <2>2. Cardinality(t) = Cardinality(s) - 1 /\ Cardinality(s) \in Nat
    BY <1>1, <2>1, SmallerPart
  <2>3. t \in SUBSET A /\ Cardinality(t) <= n  BY <2>2
  <2>4. Total(f, S) = Total(f, t) + Total(f, S \ t)  BY <1>4, <2>3
  <2>5. Total(f, s) = f[x] + Total(f, t)  BY <1>1, <2>1, TotalTake
  <2>6. Total(f, S \ t) = f[x] + Total(f, (S \ t) \ {x})
    <3>1. S \ t \in SUBSET S /\ x \in S \ t  BY <2>1
    <3>2. IsFiniteSet(S \ t)  BY <1>1, <3>1
    <3> QED  BY <3>1, <3>2, TotalTake
  <2>7. (S \ t) \ {x} = S \ s  BY <2>1
  <2>8. Total(f, t) \in Nat /\ Total(f, S \ s) \in Nat /\ f[x] \in Nat
    <3>1. t \in SUBSET S /\ S \ s \in SUBSET S /\ x \in S  BY <2>1
    <3> QED  BY <1>1, <3>1
  <2> HIDE DEF t
  <2>9. Total(f, S \ t) = f[x] + Total(f, S \ s)  BY <2>6, <2>7
  <2> QED  BY <2>4, <2>5, <2>8, <2>9
<1> HIDE DEF Good
<1>5. Cardinality(A) \in Good  BY <1>1, <1>3, <1>4, NumbersReach
<1> QED  BY <1>1, <1>5 DEF Good
=============================================================================
