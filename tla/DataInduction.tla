---------------------------- MODULE DataInduction -----------------------------
(* Induction over data, stated about sets instead of predicates: what      *)
(* holds of zero and of every successor, or of the empty set and of every  *)
(* set with one element more, is a set to be shown to hold everything.     *)
EXTENDS Integers, FiniteSets, FiniteSetsExt, Functions, FiniteSetTheorems,
        WellFoundedInduction, TLAPS

(* Every set of natural numbers that is not empty has a least element.     *)
LEMMA LeastNat ==
    ASSUME NEW S \in SUBSET Nat, S # {}
    PROVE  \E m \in S : \A k \in S : m <= k
<1> DEFINE R == OpToRel(<, Nat)
<1>1. IsWellFoundedOn(R, Nat)
  BY NatLessThanWellFounded
<1>2. PICK m \in S : \A y \in S : <<y, m>> \notin R
  <2> HIDE DEF R
  <2> QED
    BY <1>1, WFMin
<1>3. \A y \in S : ~(y < m)
  BY <1>2 DEF OpToRel
<1> QED
  BY <1>3

(* Max of a set of positions of a sequence is one of them, and the last.   *)
LEMMA MaxOfPositions ==
    ASSUME NEW n \in Nat, NEW S \in SUBSET (1..n), S # {}
    PROVE  Max(S) \in S /\ \A x \in S : x <= Max(S)
<1> DEFINE T == {n - x : x \in S}
<1>0. \A x \in S : x \in 1..n /\ n - x \in Nat
  OBVIOUS
<1>1. T \in SUBSET Nat /\ T # {}
  <2>1. T # {}
    OBVIOUS
  <2>2. \A t \in T : t \in Nat
    BY <1>0
  <2> QED
    BY <2>1, <2>2
<1>2. PICK m \in T : \A k \in T : m <= k
  <2> HIDE DEF T
  <2> QED
    BY <1>1, LeastNat
<1>3. PICK x \in S : m = n - x
  BY <1>2
<1>4. \A y \in S : x >= y
  <2> SUFFICES ASSUME NEW y \in S PROVE x >= y
    OBVIOUS
  <2>1. n - x <= n - y
    BY <1>2, <1>3
  <2> QED
    BY <2>1, <1>0
<1>5. Max(S) \in S /\ \A y \in S : Max(S) >= y
  BY <1>3, <1>4 DEF Max
<1> QED
  BY <1>5


(* Among sets of subsets of a finite set, one with the fewest elements.    *)
LEMMA LeastSet ==
    ASSUME NEW S, IsFiniteSet(S), NEW B \in SUBSET SUBSET S, B # {}
    PROVE  \E s \in B : \A t \in B : ~(Cardinality(t) < Cardinality(s))
<1> DEFINE C == {Cardinality(s) : s \in B}
<1>1. \A s \in B : Cardinality(s) \in Nat
  BY FS_Subset, FS_CardinalityType
<1>2. C \in SUBSET Nat /\ C # {}
  BY <1>1
<1>3. PICK m \in C : \A k \in C : m <= k
  <2> HIDE DEF C
  <2> QED
    BY <1>2, LeastNat
<1>4. PICK s \in B : m = Cardinality(s)
  BY <1>3
<1>5. ASSUME NEW t \in B PROVE ~(Cardinality(t) < Cardinality(s))
  <2>1. Cardinality(s) <= Cardinality(t)
    BY <1>3, <1>4
  <2> QED
    BY <1>1, <2>1
<1> QED
  BY <1>5

LEMMA Fewer ==
    ASSUME NEW S, IsFiniteSet(S), NEW s \in SUBSET S, NEW x \in s
    PROVE  s \ {x} \in SUBSET S /\ Cardinality(s \ {x}) < Cardinality(s)
           /\ Cardinality(s) \in Nat /\ Cardinality(s \ {x}) = Cardinality(s) - 1
<1>1. IsFiniteSet(s)
  BY FS_Subset
<1>2. Cardinality(s) \in Nat /\ Cardinality(s \ {x}) = Cardinality(s) - 1
  BY <1>1, FS_CardinalityType, FS_RemoveElement
<1> QED
  BY <1>2

-------------------------------------------------------------------------------
(* Sums *)

(* The recursion by which the library adds up f over the subsets of S.     *)
AnyOf(s) == CHOOSE x \in s : TRUE
Added(f, h, s) == IF s = {} THEN 0 ELSE f[AnyOf(s)] + h[s \ {AnyOf(s)}]
Adds(h, f, S) == h = [s \in SUBSET S |-> Added(f, h, s)]

LEMMA AnyOfSet == ASSUME NEW s, s # {} PROVE AnyOf(s) \in s
BY DEF AnyOf

LEMMA AddsSome ==
    ASSUME NEW S, IsFiniteSet(S), NEW f
    PROVE  \E h : Adds(h, f, S)
<1> DEFINE Upto(n) == {s \in SUBSET S : Cardinality(s) <= n}
           Fits(h, n) == \A s \in Upto(n) : h[s] = Added(f, h, s)
           Bad == {n \in Nat : ~\E h : Fits(h, n)}
<1>1. \A s \in SUBSET S : Cardinality(s) \in Nat /\ (Cardinality(s) = 0 <=> s = {})
  BY FS_Subset, FS_CardinalityType, FS_EmptySet
<1>2. 0 \notin Bad
  <2> DEFINE h == [s \in SUBSET S |-> 0]
  <2>1. \A s \in Upto(0) : s = {}
    BY <1>1
  <2>2. Fits(h, 0)
    BY <2>1 DEF Added
  <2> QED
    BY <2>2
<1>3. ASSUME NEW n \in Nat, n \notin Bad
      PROVE  n + 1 \notin Bad
  <2>1. PICK h : Fits(h, n)
    BY <1>3
  <2> DEFINE g == [s \in SUBSET S |-> IF Cardinality(s) <= n THEN h[s] ELSE Added(f, h, s)]
  <2>2. ASSUME NEW s \in Upto(n + 1) PROVE g[s] = Added(f, g, s)
    <3>1. g[s] = Added(f, h, s)
      BY <2>1
    <3>2. CASE s = {}
      BY <3>1, <3>2 DEF Added
    <3>3. CASE s # {}
      <4> DEFINE rest == s \ {AnyOf(s)}
      <4>1. AnyOf(s) \in s
        BY <3>3, AnyOfSet
      <4>2. rest \in SUBSET S /\ Cardinality(rest) <= n
        BY <4>1, <1>1, Fewer
      <4>3. g[rest] = h[rest]
        BY <4>2
      <4> HIDE DEF g
      <4> QED
        BY <3>1, <3>3, <4>3 DEF Added
    <3> QED
      BY <3>2, <3>3
  <2> HIDE DEF g
  <2>3. Fits(g, n + 1)
    BY <2>2
  <2> QED
    BY <2>3
<1>4. Bad = {}
  <2> SUFFICES ASSUME Bad # {} PROVE FALSE
    OBVIOUS
  <2>1. Bad \in SUBSET Nat
    OBVIOUS
  <2> HIDE DEF Bad
  <2>2. PICK m \in Bad : \A k \in Bad : m <= k
    BY <2>1, LeastNat
  <2>3. m \in Nat /\ m # 0
    BY <1>2, <2>1, <2>2
  <2>4. m - 1 \in Nat /\ m - 1 \notin Bad
    BY <2>2, <2>3
  <2>5. (m - 1) + 1 \notin Bad
    BY <1>3, <2>4
  <2> QED
    BY <2>2, <2>3, <2>5
<1>5. Cardinality(S) \in Nat /\ \A s \in SUBSET S : Cardinality(s) <= Cardinality(S)
  BY FS_Subset, FS_CardinalityType
<1>6. PICK h : Fits(h, Cardinality(S))
  BY <1>4, <1>5
<1> DEFINE g == [s \in SUBSET S |-> h[s]]
<1>7. \A s \in SUBSET S : g[s] = Added(f, h, s)
  BY <1>5, <1>6
<1>8. \A s \in SUBSET S : Added(f, h, s) = Added(f, g, s)
  BY AnyOfSet DEF Added
<1>9. Adds(g, f, S)
  BY <1>7, <1>8 DEF Adds
<1> QED
  BY <1>9

LEMMA AddsStep ==
    ASSUME NEW S, NEW f, NEW h, Adds(h, f, S), NEW s \in SUBSET S
    PROVE  /\ s = {} => h[s] = 0
           /\ s # {} => /\ AnyOf(s) \in s /\ s \ {AnyOf(s)} \in SUBSET S
                        /\ h[s] = f[AnyOf(s)] + h[s \ {AnyOf(s)}]
<1>1. h[s] = Added(f, h, s)
  BY DEF Adds
<1> QED
  BY <1>1, AnyOfSet DEF Added

LEMMA SumIsAdded ==
    ASSUME NEW S, IsFiniteSet(S), NEW f
    PROVE  \E h : Adds(h, f, S) /\ SumFunctionOnSet(f, S) = h[S]
<1> DEFINE iter == CHOOSE h : Adds(h, f, S)
<1>1. Adds(iter, f, S)
  BY AddsSome
<1>2. SumFunctionOnSet(f, S) = iter[S]
  BY DEF SumFunctionOnSet, FoldFunctionOnSet, MapThenFoldSet, Adds, Added, AnyOf
<1> QED
  BY <1>1, <1>2

(* All such functions agree where they are defined, for equal summands.    *)
LEMMA AddsSame ==
    ASSUME NEW S, IsFiniteSet(S), NEW T \in SUBSET S, NEW f, NEW g,
           \A x \in T : f[x] = g[x],
           NEW h, NEW k, Adds(h, f, S), Adds(k, g, T)
    PROVE  \A s \in SUBSET T : h[s] = k[s]
<1> DEFINE B == {s \in SUBSET T : h[s] # k[s]}
<1> SUFFICES ASSUME B # {} PROVE FALSE
  OBVIOUS
<1>1. B \in SUBSET SUBSET S
  OBVIOUS
<1>2. PICK s \in B : \A t \in B : ~(Cardinality(t) < Cardinality(s))
  <2> HIDE DEF B
  <2> QED
    BY <1>1, LeastSet
<1>3. s # {}
  BY <1>2, AddsStep
<1> DEFINE x == AnyOf(s)
<1>4. x \in s /\ s \ {x} \in SUBSET T /\ h[s] = f[x] + h[s \ {x}] /\ k[s] = g[x] + k[s \ {x}]
  BY <1>2, <1>3, AddsStep
<1>5. Cardinality(s \ {x}) < Cardinality(s)
  BY <1>2, <1>4, Fewer
<1>6. h[s \ {x}] = k[s \ {x}]
  BY <1>2, <1>4, <1>5
<1> QED
  BY <1>2, <1>4, <1>6

(* The order does not matter.                                              *)
LEMMA AddsAnyOrder ==
    ASSUME NEW S, IsFiniteSet(S), NEW f, \A x \in S : f[x] \in Nat,
           NEW h, Adds(h, f, S)
    PROVE  \A s \in SUBSET S : h[s] \in Nat /\ \A e \in s : h[s] = f[e] + h[s \ {e}]
<1>0. h[{}] = 0
  <2>1. {} \in SUBSET S
    OBVIOUS
  <2>2. h[{}] = Added(f, h, {})
    BY <2>1 DEF Adds
  <2> QED
    BY <2>2 DEF Added
<1> DEFINE Good(s) == h[s] \in Nat /\ \A e \in s : h[s] = f[e] + h[s \ {e}]
           B == {s \in SUBSET S : ~Good(s)}
<1> SUFFICES ASSUME B # {} PROVE FALSE
  OBVIOUS
<1>1. B \in SUBSET SUBSET S
  OBVIOUS
<1>2. PICK s \in B : \A t \in B : ~(Cardinality(t) < Cardinality(s))
  <2> HIDE DEF B
  <2> QED
    BY <1>1, LeastSet
<1>3. s # {}
  <2>1. Good({})
    BY <1>0
  <2> HIDE DEF Good
  <2> QED
    BY <1>2, <2>1
<1> DEFINE x == AnyOf(s)
<1>4. x \in s /\ x \in S /\ s \ {x} \in SUBSET S /\ h[s] = f[x] + h[s \ {x}]
  BY <1>2, <1>3, AddsStep
<1>5. \A e \in s : s \ {e} \in SUBSET S /\ Good(s \ {e})
  BY <1>2, Fewer
<1> HIDE DEF x
<1>6. h[s] \in Nat
  BY <1>4, <1>5
<1>7. ASSUME NEW e \in s, e # x PROVE h[s] = f[e] + h[s \ {e}]
  <2>1. h[s \ {x}] = f[e] + h[(s \ {x}) \ {e}]
    BY <1>4, <1>5, <1>7
  <2>2. h[s \ {e}] = f[x] + h[(s \ {e}) \ {x}]
    BY <1>4, <1>5, <1>7
  <2>3. (s \ {x}) \ {e} = (s \ {e}) \ {x}
    OBVIOUS
  <2>4. f[e] \in Nat /\ f[x] \in Nat /\ h[s \ {x}] \in Nat /\ h[s \ {e}] \in Nat
    BY <1>2, <1>4, <1>5
  <2>5. (s \ {x}) \ {e} \in SUBSET S /\ h[(s \ {x}) \ {e}] \in Nat
    <3>1. Cardinality((s \ {x}) \ {e}) < Cardinality(s)
      <4>1. Cardinality(s \ {x}) = Cardinality(s) - 1 /\ Cardinality(s) \in Nat
        BY <1>4, Fewer
      <4>2. Cardinality((s \ {x}) \ {e}) = Cardinality(s \ {x}) - 1
        BY <1>4, <1>7, Fewer
      <4> QED
        BY <4>1, <4>2
    <3> QED
      BY <1>2, <3>1
  <2> DEFINE r == h[(s \ {x}) \ {e}]
  <2>6. h[s] = f[x] + (f[e] + r)
    BY <1>4, <2>1
  <2>7. h[s \ {e}] = f[x] + r
    BY <2>2, <2>3
  <2>8. r \in Nat
    BY <2>5
  <2> HIDE DEF r
  <2>9. f[x] + (f[e] + r) = f[e] + (f[x] + r)
    BY <2>4, <2>8
  <2> QED
    BY <2>6, <2>7, <2>9
<1> QED
  BY <1>2, <1>4, <1>6, <1>7

-------------------------------------------------------------------------------
(* What is known of a sum over a finite set. *)

Summands(f, S) == IsFiniteSet(S) /\ \A x \in S : f[x] \in Nat

LEMMA SumNat ==
    ASSUME NEW S, NEW f, Summands(f, S)
    PROVE  SumFunctionOnSet(f, S) \in Nat
<1>1. PICK h : Adds(h, f, S) /\ SumFunctionOnSet(f, S) = h[S]
  BY SumIsAdded DEF Summands
<1> QED
  BY <1>1, AddsAnyOrder DEF Summands

LEMMA SumEmpty ==
    ASSUME NEW f
    PROVE  SumFunctionOnSet(f, {}) = 0
<1>1. PICK h : Adds(h, f, {}) /\ SumFunctionOnSet(f, {}) = h[{}]
  BY SumIsAdded, FS_EmptySet
<1>2. h[{}] = 0
  <2>1. {} \in SUBSET {}
    OBVIOUS
  <2> QED
    BY <1>1, <2>1, AddsStep
<1> QED
  BY <1>1, <1>2

LEMMA SumSame ==
    ASSUME NEW S, IsFiniteSet(S), NEW f, NEW g, \A x \in S : f[x] = g[x]
    PROVE  SumFunctionOnSet(f, S) = SumFunctionOnSet(g, S)
<1>1. PICK h : Adds(h, f, S) /\ SumFunctionOnSet(f, S) = h[S]
  BY SumIsAdded
<1>2. PICK k : Adds(k, g, S) /\ SumFunctionOnSet(g, S) = k[S]
  BY SumIsAdded
<1>3. S \in SUBSET S
  OBVIOUS
<1>4. \A s \in SUBSET S : h[s] = k[s]
  BY <1>1, <1>2, <1>3, AddsSame
<1> QED
  BY <1>1, <1>2, <1>3, <1>4

LEMMA SumWith ==
    ASSUME NEW S, NEW f, Summands(f, S), NEW e \in S
    PROVE  SumFunctionOnSet(f, S) = f[e] + SumFunctionOnSet(f, S \ {e})
<1> DEFINE R == S \ {e}
<1>1. IsFiniteSet(R) /\ R \in SUBSET S
  BY FS_Subset DEF Summands
<1>2. PICK h : Adds(h, f, S) /\ SumFunctionOnSet(f, S) = h[S]
  BY SumIsAdded DEF Summands
<1>3. PICK k : Adds(k, f, R) /\ SumFunctionOnSet(f, R) = k[R]
  BY <1>1, SumIsAdded
<1>4. h[R] = k[R]
  BY <1>1, <1>2, <1>3, AddsSame DEF Summands
<1>5. h[S] = f[e] + h[R]
  BY <1>2, AddsAnyOrder DEF Summands
<1> QED
  BY <1>2, <1>3, <1>4, <1>5

(* The sum of one.                                                         *)
LEMMA SumOne ==
    ASSUME NEW f, NEW x, f[x] \in Nat
    PROVE  SumFunctionOnSet(f, {x}) = f[x]
<1>1. Summands(f, {x})
  BY FS_Singleton DEF Summands
<1>2. SumFunctionOnSet(f, {x}) = f[x] + SumFunctionOnSet(f, {x} \ {x})
  BY <1>1, SumWith
<1>3. {x} \ {x} = {}
  OBVIOUS
<1> QED
  BY <1>2, <1>3, SumEmpty

LEMMA SumUnion ==
    ASSUME NEW S, NEW T, NEW f, Summands(f, S), Summands(f, T), S \cap T = {}
    PROVE  SumFunctionOnSet(f, S \cup T)
             = SumFunctionOnSet(f, S) + SumFunctionOnSet(f, T)
<1> DEFINE Good(t) == SumFunctionOnSet(f, S \cup t)
                        = SumFunctionOnSet(f, S) + SumFunctionOnSet(f, t)
           B == {t \in SUBSET T : ~Good(t)}
<1> SUFFICES ASSUME B # {} PROVE FALSE
  OBVIOUS
<1>1. B \in SUBSET SUBSET T /\ IsFiniteSet(T)
  BY DEF Summands
<1>2. PICK t \in B : \A u \in B : ~(Cardinality(u) < Cardinality(t))
  <2> HIDE DEF B
  <2> QED
    BY <1>1, LeastSet
<1>3. SumFunctionOnSet(f, S) \in Nat
  BY SumNat
<1>4. t # {}
  <2>1. Good({})
    <3>1. S \cup {} = S
      OBVIOUS
    <3> QED
      BY <1>3, <3>1, SumEmpty
  <2> QED
    BY <1>2, <2>1
<1>5. PICK x \in t : TRUE
  BY <1>4
<1>6. t \ {x} \in SUBSET T /\ Good(t \ {x})
  <2>1. t \ {x} \in SUBSET T /\ Cardinality(t \ {x}) < Cardinality(t)
    BY <1>1, <1>2, <1>5, Fewer
  <2> HIDE DEF Good
  <2> QED
    BY <1>2, <2>1
<1>7. Summands(f, t) /\ Summands(f, t \ {x})
  BY <1>1, <1>2, <1>6, FS_Subset DEF Summands
<1>8. Summands(f, S \cup t)
  BY <1>7, FS_Union DEF Summands
<1>9. (S \cup t) \ {x} = S \cup (t \ {x})
  BY <1>2
<1>10. SumFunctionOnSet(f, S \cup t) = f[x] + SumFunctionOnSet(f, S \cup (t \ {x}))
  BY <1>8, <1>9, SumWith
<1>11. SumFunctionOnSet(f, t) = f[x] + SumFunctionOnSet(f, t \ {x})
  BY <1>7, SumWith
<1>12. f[x] \in Nat /\ SumFunctionOnSet(f, t \ {x}) \in Nat
  BY <1>7, SumNat DEF Summands
<1>13. Good(t)
  BY <1>3, <1>6, <1>10, <1>11, <1>12
<1> QED
  BY <1>2, <1>13

(* What is added up part by part is added up once.                         *)
LEMMA SumOfParts ==
    ASSUME NEW P, IsFiniteSet(P), NEW part, NEW f, NEW total,
           \A p \in P : Summands(f, part[p]) /\ total[p] = SumFunctionOnSet(f, part[p]),
           \A p, q \in P : p # q => part[p] \cap part[q] = {},
           NEW W, \A x : x \in W <=> \E p \in P : x \in part[p]
    PROVE  SumFunctionOnSet(total, P) = SumFunctionOnSet(f, W)
<1> DEFINE Whole(Q) == UNION {part[p] : p \in Q}
           Good(Q) == /\ Summands(f, Whole(Q))
                      /\ SumFunctionOnSet(total, Q) = SumFunctionOnSet(f, Whole(Q))
           B == {Q \in SUBSET P : ~Good(Q)}
<1>0. ASSUME B = {} PROVE SumFunctionOnSet(total, P) = SumFunctionOnSet(f, W)
  <2>1. Whole(P) = W
    OBVIOUS
  <2>2. P \in SUBSET P
    OBVIOUS
  <2>3. Good(P)
    <3> HIDE DEF Good
    <3> QED
      BY <1>0, <2>2
  <2> HIDE DEF Whole
  <2> QED
    BY <2>1, <2>3
<1> SUFFICES ASSUME B # {} PROVE FALSE
  BY <1>0
<1>1. B \in SUBSET SUBSET P
  OBVIOUS
<1>2. PICK Q \in B : \A R \in B : ~(Cardinality(R) < Cardinality(Q))
  <2> HIDE DEF B
  <2> QED
    BY <1>1, LeastSet
<1>3. Q # {}
  <2>1. Whole({}) = {}
    OBVIOUS
  <2>2. Good({})
    BY <2>1, SumEmpty, FS_EmptySet DEF Summands
  <2> QED
    BY <1>2, <2>2
<1>4. PICK p \in Q : TRUE
  BY <1>3
<1> DEFINE R == Q \ {p}
<1>5. R \in SUBSET P /\ Good(R) /\ p \in P
  <2>1. R \in SUBSET P /\ Cardinality(R) < Cardinality(Q)
    BY <1>2, <1>4, Fewer
  <2> HIDE DEF Good
  <2> QED
    BY <1>2, <1>4, <2>1
<1>6. Whole(Q) = Whole(R) \cup part[p]
  OBVIOUS
<1>7. Whole(R) \cap part[p] = {}
  BY <1>5
<1>8. Summands(f, part[p]) /\ total[p] = SumFunctionOnSet(f, part[p])
  BY <1>5
<1>9. Summands(total, Q)
  <2>1. IsFiniteSet(Q)
    BY <1>2, FS_Subset
  <2>2. \A q \in Q : total[q] \in Nat
    BY <1>2, SumNat
  <2> QED
    BY <2>1, <2>2 DEF Summands
<1>10. SumFunctionOnSet(total, Q) = total[p] + SumFunctionOnSet(total, R)
  BY <1>9, SumWith
<1> HIDE DEF Whole
<1>11. Summands(f, Whole(Q))
  <2>1. IsFiniteSet(Whole(R) \cup part[p])
    BY <1>5, <1>8, FS_Union DEF Summands
  <2> QED
    BY <1>5, <1>6, <1>8, <2>1 DEF Summands
<1>12. SumFunctionOnSet(f, Whole(Q)) = SumFunctionOnSet(f, Whole(R)) + total[p]
  <2> DEFINE V == Whole(R)
             T == part[p]
  <2>1. Summands(f, V) /\ Summands(f, T) /\ V \cap T = {}
    BY <1>5, <1>7, <1>8
  <2> HIDE DEF V, T
  <2>2. SumFunctionOnSet(f, V \cup T) = SumFunctionOnSet(f, V) + SumFunctionOnSet(f, T)
    BY <2>1, SumUnion
  <2> QED
    BY <1>6, <1>8, <2>2 DEF V, T
<1>13. SumFunctionOnSet(f, Whole(R)) \in Nat /\ total[p] \in Nat
  BY <1>5, <1>8, SumNat
<1>14. Good(Q)
  BY <1>5, <1>10, <1>11, <1>12, <1>13
<1> QED
  BY <1>2, <1>14
===============================================================================
