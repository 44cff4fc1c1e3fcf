----------------------------- MODULE TotalProofs ------------------------------
(***************************************************************************)
(* Sums over finite sets, for every set and every function.  The library's *)
(* induction theorems take a predicate as a parameter; here the predicate  *)
(* is a set of good subsets instead, and induction over it comes down to   *)
(* the least size of a subset that is not good (SubsetInduction).  From it *)
(* follow that Total is well defined and what the allocator and the        *)
(* governor's books need of it.                                            *)
(***************************************************************************)
EXTENDS Totals, FiniteSetTheorems, TLAPS

(* A non-empty set of naturals has a least element.                        *)
LEMMA LeastNatural ==
  ASSUME NEW T \in SUBSET Nat, T # {}
  PROVE  \E n \in T : \A m \in T : n <= m
  <1> DEFINE R == OpToRel(<, Nat)
  <1>1. IsWellFoundedOn(R, Nat)
    BY NatLessThanWellFounded, Zenon
  <1>2. \A x, y \in Nat : <<y, x>> \in R <=> y < x
    BY DEF OpToRel
  <1> HIDE DEF R
  <1>3. \E x \in T : \A y \in T : ~ (<<y, x>> \in R)
    BY <1>1, WFMin, Zenon
  <1>4. PICK n \in T : \A y \in T : ~ (<<y, n>> \in R)
    BY <1>3, Zenon
  <1>5. \A m \in T : ~ (m < n)
    BY <1>2, <1>4, Zenon
  <1>6. QED
    BY <1>4, <1>5

(* Induction over the subsets of a finite set.  G holds the subsets the    *)
(* claim is true of, so that no predicate is a parameter.                  *)
LEMMA SubsetInduction ==
  ASSUME NEW S, IsFiniteSet(S), NEW G,
         \A T \in SUBSET S : (\A x \in T : T \ {x} \in G) => T \in G
  PROVE  \A T \in SUBSET S : T \in G
  <1> DEFINE bad == { T \in SUBSET S : T \notin G }
             sizes == { Cardinality(T) : T \in bad }
  <1> SUFFICES ASSUME bad # {} PROVE FALSE
    OBVIOUS
  <1>1. \A T \in SUBSET S : IsFiniteSet(T) /\ Cardinality(T) \in Nat
    BY FS_Subset, FS_CardinalityType
  <1>2. sizes \in SUBSET Nat /\ sizes # {}
    BY <1>1
  <1>3. PICK n \in sizes : \A m \in sizes : n <= m
    BY <1>2, LeastNatural, Zenon
  <1>4. PICK T \in bad : n = Cardinality(T)
    BY <1>3
  <1>5. \A x \in T : T \ {x} \in G
    <2> TAKE x \in T
    <2> SUFFICES ASSUME T \ {x} \notin G PROVE FALSE
      OBVIOUS
    <2>1. T \ {x} \in bad
      OBVIOUS
    <2>2. Cardinality(T \ {x}) = Cardinality(T) - 1
      BY <1>1, FS_RemoveElement
    <2>3. Cardinality(T) <= Cardinality(T \ {x})
      BY <2>1, <1>3, <1>4
    <2>4. QED
      BY <2>2, <2>3, <1>1
  <1>6. QED
    BY <1>4, <1>5

(* The element the sum takes next, and the equation of the partial sums.   *)
Any(s) == CHOOSE x \in s : TRUE

Sums(g, S, h) ==
  h = [s \in SUBSET S |-> IF s = {} THEN 0 ELSE g[Any(s)] + h[s \ {Any(s)}]]

(* It is an element.                                                       *)
LEMMA AnyIsMember == \A s : s # {} => Any(s) \in s
  BY DEF Any

(* Two tables of partial sums say the same of the subsets of S.            *)
Agree(h, k, S) == \A s \in SUBSET S : h[s] = k[s]

(* The equation determines the partial sums of a finite set, whatever      *)
(* larger set they were tabulated for.                                     *)
LEMMA SumsUnique ==
  ASSUME NEW g, NEW S, NEW T, IsFiniteSet(S), NEW h, NEW k, Sums(g, S, h), Sums(g, T, k)
  PROVE  Agree(h, k, S \cap T)
  <1> DEFINE G == { s \in SUBSET (S \cap T) : h[s] = k[s] }
  <1>1. IsFiniteSet(S \cap T)
    BY FS_Subset
  <1>2. \A s \in SUBSET (S \cap T) : (\A x \in s : s \ {x} \in G) => s \in G
    <2> TAKE s \in SUBSET (S \cap T)
    <2> HAVE \A x \in s : s \ {x} \in G
    <2>1. s # {} => Any(s) \in s
      BY AnyIsMember
    <2>2. h[s] = IF s = {} THEN 0 ELSE g[Any(s)] + h[s \ {Any(s)}]
      <3>1. s \in SUBSET S
        OBVIOUS
      <3>2. QED
        BY <3>1, Zenon DEF Sums
    <2>3. k[s] = IF s = {} THEN 0 ELSE g[Any(s)] + k[s \ {Any(s)}]
      <3>1. s \in SUBSET T
        OBVIOUS
      <3>2. QED
        BY <3>1, Zenon DEF Sums
    <2>4. QED
      BY <2>1, <2>2, <2>3
  <1> HIDE DEF G
  <1>3. \A s \in SUBSET (S \cap T) : s \in G
    BY <1>1, <1>2, SubsetInduction, Zenon
  <1>4. QED
    BY <1>3 DEF G, Agree

(* The equation has a solution for every finite set: the tables of its     *)
(* smaller subsets agree, and together make the next.                      *)
LEMMA SumsExists ==
  ASSUME NEW g, NEW S, IsFiniteSet(S)
  PROVE  \E h : Sums(g, S, h)
  <1> DEFINE G == { T \in SUBSET S : \E h : Sums(g, T, h) }
  <1>1. ASSUME NEW T \in SUBSET S, \A x \in T : T \ {x} \in G
        PROVE  T \in G
    <2> DEFINE k(x) == CHOOSE h : Sums(g, T \ {x}, h)
               h == [s \in SUBSET T |->
                       IF s = {} THEN 0 ELSE g[Any(s)] + k(Any(s))[s \ {Any(s)}]]
    <2>1. \A x \in T : Sums(g, T \ {x}, k(x))
      BY <1>1
    <2>2. \A s \in SUBSET T : s # {} => Any(s) \in s
      BY AnyIsMember
    <2>3. \A x \in T : IsFiniteSet(T \ {x})
      BY FS_Subset
    <2>4. \A s \in SUBSET T : h[s] = IF s = {} THEN 0 ELSE g[Any(s)] + k(Any(s))[s \ {Any(s)}]
      OBVIOUS
    <2>5. \A x \in T : \A u \in SUBSET (T \ {x}) :
            k(x)[u] = IF u = {} THEN 0 ELSE g[Any(u)] + k(x)[u \ {Any(u)}]
      BY <2>1, Zenon DEF Sums
    <2> HIDE DEF k, h
    <2>6. \A x, y \in T : Agree(k(x), k(y), (T \ {x}) \cap (T \ {y}))
      BY <2>1, <2>3, SumsUnique, Zenon
    <2>7. \A x \in T : \A u \in SUBSET (T \ {x}) : h[u] = k(x)[u]
      <3> TAKE x \in T
      <3> TAKE u \in SUBSET (T \ {x})
      <3>1. CASE u = {}
        BY <3>1, <2>4, <2>5
      <3>2. CASE u # {}
        <4>1. Any(u) \in u /\ Any(u) \in T
          BY <3>2, <2>2
        <4>2. k(x)[u \ {Any(u)}] = k(Any(u))[u \ {Any(u)}]
          BY <4>1, <2>6 DEF Agree
        <4>3. QED
          BY <3>2, <4>2, <2>4, <2>5
      <3>3. QED
        BY <3>1, <3>2
    <2>8. \A s \in SUBSET T : s # {} => h[s] = g[Any(s)] + h[s \ {Any(s)}]
      BY <2>2, <2>4, <2>7
    <2>9. h = [s \in SUBSET T |-> IF s = {} THEN 0 ELSE g[Any(s)] + h[s \ {Any(s)}]]
      BY <2>8, <2>4, Zenon DEF h
    <2>10. Sums(g, T, h)
      BY <2>9, Zenon DEF Sums
    <2>11. QED
      BY <2>10
  <1> HIDE DEF G
  <1>2. \A T \in SUBSET S : T \in G
    BY <1>1, SubsetInduction, Zenon
  <1>3. QED
    BY <1>2 DEF G

(* So the fold, which chooses a solution, returns the sum it should.       *)
LEMMA TotalOfSums ==
  ASSUME NEW g, NEW S, IsFiniteSet(S)
  PROVE  \E h : Sums(g, S, h) /\ Total(g, S) = h[S]
  <1>1. Total(g, S) = (CHOOSE h : Sums(g, S, h))[S]
    BY DEF Total, MapThenSumSet, MapThenFoldSet, Sums, Any
  <1>2. Sums(g, S, CHOOSE h : Sums(g, S, h))
    BY SumsExists
  <1>3. QED
    BY <1>1, <1>2, Zenon

(* What MapThenSumSet computes: nothing over the empty set, and otherwise  *)
(* the element it chooses plus the rest.                                   *)
LEMMA TotalStep ==
  ASSUME NEW g, NEW S, IsFiniteSet(S)
  PROVE  /\ S = {} => Total(g, S) = 0
         /\ S # {} => \E x \in S : Total(g, S) = g[x] + Total(g, S \ {x})
  <1>1. PICK h : Sums(g, S, h) /\ Total(g, S) = h[S]
    BY TotalOfSums
  <1> DEFINE x == Any(S)
  <1>2. h[S] = IF S = {} THEN 0 ELSE g[x] + h[S \ {x}]
    BY <1>1, Zenon DEF Sums
  <1>3. S # {} => x \in S
    BY AnyIsMember
  <1> HIDE DEF x
  <1>4. PICK k : Sums(g, S \ {x}, k) /\ Total(g, S \ {x}) = k[S \ {x}]
    BY TotalOfSums, FS_Subset
  <1>5. h[S \ {x}] = k[S \ {x}]
    <2>1. Agree(h, k, S \cap (S \ {x}))
      BY <1>1, <1>4, SumsUnique, Zenon
    <2>2. QED
      BY <2>1 DEF Agree
  <1>6. QED
    BY <1>1, <1>2, <1>3, <1>4, <1>5

(* A sum of naturals is a natural.                                         *)
LEMMA TotalType ==
  ASSUME NEW S, IsFiniteSet(S), NEW g, \A x \in S : g[x] \in Nat
  PROVE  Total(g, S) \in Nat
  <1> DEFINE G == { T \in SUBSET S : Total(g, T) \in Nat }
  <1>1. ASSUME NEW T \in SUBSET S, \A x \in T : T \ {x} \in G
        PROVE  T \in G
    <2>1. IsFiniteSet(T)
      BY FS_Subset
    <2>2. CASE T = {}
      BY <2>1, <2>2, TotalStep
    <2>3. CASE T # {}
      <3>1. PICK x \in T : Total(g, T) = g[x] + Total(g, T \ {x})
        BY <2>1, <2>3, TotalStep
      <3>2. QED
        BY <3>1, <1>1
    <2>4. QED
      BY <2>2, <2>3
  <1> HIDE DEF G
  <1>2. \A T \in SUBSET S : T \in G
    BY <1>1, SubsetInduction, Zenon
  <1>3. QED
    BY <1>2 DEF G

(* Any element may be taken out of a sum, not only the one the recursion   *)
(* chooses.                                                                *)
LEMMA TotalRemove ==
  ASSUME NEW S, IsFiniteSet(S), NEW g, \A x \in S : g[x] \in Nat
  PROVE  \A y \in S : Total(g, S) = g[y] + Total(g, S \ {y})
  <1> DEFINE G == { T \in SUBSET S : \A y \in T : Total(g, T) = g[y] + Total(g, T \ {y}) }
  <1>1. ASSUME NEW T \in SUBSET S, \A x \in T : T \ {x} \in G, NEW y \in T
        PROVE  Total(g, T) = g[y] + Total(g, T \ {y})
    <2>1. IsFiniteSet(T)
      BY FS_Subset
    <2>2. PICK x \in T : Total(g, T) = g[x] + Total(g, T \ {x})
      BY <2>1, TotalStep
    <2>3. CASE x # y
      <3>1. Total(g, T \ {x}) = g[y] + Total(g, (T \ {x}) \ {y})
        BY <1>1, <2>3
      <3>2. Total(g, T \ {y}) = g[x] + Total(g, (T \ {y}) \ {x})
        BY <1>1, <2>3
      <3>3. (T \ {x}) \ {y} = (T \ {y}) \ {x}
        OBVIOUS
      <3>4. IsFiniteSet((T \ {x}) \ {y}) /\ \A z \in (T \ {x}) \ {y} : g[z] \in Nat
        BY <2>1, FS_Subset
      <3>5. Total(g, (T \ {x}) \ {y}) \in Nat
        BY <3>4, TotalType
      <3>6. g[x] \in Nat /\ g[y] \in Nat
        OBVIOUS
      <3>7. Total(g, T \ {y}) = g[x] + Total(g, (T \ {x}) \ {y})
        BY <3>2, <3>3
      <3>8. Total(g, T) = g[x] + (g[y] + Total(g, (T \ {x}) \ {y}))
        BY <2>2, <3>1
      <3>9. QED
        BY <3>5, <3>6, <3>7, <3>8
    <2>4. QED
      BY <2>2, <2>3
  <1>2. \A T \in SUBSET S : (\A x \in T : T \ {x} \in G) => T \in G
    BY <1>1
  <1> HIDE DEF G
  <1>3. \A T \in SUBSET S : T \in G
    BY <1>2, SubsetInduction, Zenon
  <1>4. QED
    BY <1>3 DEF G

(* A sum rises with its terms, and a part of it is no more than the whole. *)
LEMMA TotalMonotone ==
  ASSUME NEW S, IsFiniteSet(S), NEW g, NEW h, NEW A \in SUBSET S,
         \A x \in S : g[x] \in Nat /\ h[x] \in Nat,
         \A x \in A : g[x] <= h[x]
  PROVE  Total(g, A) <= Total(h, S)
  <1> DEFINE G == { T \in SUBSET S : Total(g, T \cap A) <= Total(h, T) }
  <1>1. ASSUME NEW T \in SUBSET S, \A x \in T : T \ {x} \in G
        PROVE  T \in G
    <2>1. /\ IsFiniteSet(T) /\ IsFiniteSet(T \cap A)
          /\ \A x \in T : IsFiniteSet(T \ {x}) /\ IsFiniteSet((T \ {x}) \cap A)
      BY FS_Subset
    <2>2. CASE T = {}
      <3>1. T \cap A = {}
        BY <2>2
      <3>2. Total(g, T \cap A) = 0 /\ Total(h, T) = 0
        BY <2>1, <2>2, <3>1, TotalStep
      <3>3. QED
        BY <3>2
    <2>3. CASE T # {}
      <3>1. PICK x \in T : Total(h, T) = h[x] + Total(h, T \ {x})
        BY <2>1, <2>3, TotalStep
      <3>2. Total(g, (T \ {x}) \cap A) <= Total(h, T \ {x})
        BY <1>1
      <3>3. Total(h, T \ {x}) \in Nat /\ Total(g, (T \ {x}) \cap A) \in Nat
        BY <2>1, TotalType, Zenon
      <3>4. CASE x \in A
        <4>1. Total(g, T \cap A) = g[x] + Total(g, (T \cap A) \ {x})
          BY <2>1, <3>4, TotalRemove
        <4>2. (T \cap A) \ {x} = (T \ {x}) \cap A
          OBVIOUS
        <4>3. g[x] \in Nat /\ h[x] \in Nat /\ g[x] <= h[x]
          BY <3>4
        <4>4. Total(g, T \cap A) = g[x] + Total(g, (T \ {x}) \cap A)
          BY <4>1, <4>2, Zenon
        <4>5. Total(g, T \cap A) <= Total(h, T)
          BY <3>1, <3>2, <3>3, <4>3, <4>4
        <4>6. QED
          BY <4>5
      <3>5. CASE x \notin A
        <4>1. T \cap A = (T \ {x}) \cap A
          BY <3>5
        <4>2. h[x] \in Nat
          OBVIOUS
        <4>3. QED
          BY <3>1, <3>2, <3>3, <4>1, <4>2
      <3>6. QED
        BY <3>4, <3>5
    <2>4. QED
      BY <2>2, <2>3
  <1> HIDE DEF G
  <1>2. S \in G
    BY <1>1, SubsetInduction
  <1>3. S \cap A = A
    OBVIOUS
  <1>4. QED
    BY <1>2, <1>3 DEF G

(* A sum in which the terms of A gain c times a weight gains c times the   *)
(* weight of A.                                                            *)
LEMMA TotalGain ==
  ASSUME NEW S, IsFiniteSet(S), NEW g, NEW h, NEW w, NEW c \in Nat, NEW A \in SUBSET S,
         \A x \in S : g[x] \in Nat /\ h[x] \in Nat /\ w[x] \in Nat,
         \A x \in S : h[x] = IF x \in A THEN g[x] + c * w[x] ELSE g[x]
  PROVE  Total(h, S) = Total(g, S) + c * Total(w, A)
  <1> DEFINE G == { T \in SUBSET S : Total(h, T) = Total(g, T) + c * Total(w, T \cap A) }
  <1>1. ASSUME NEW T \in SUBSET S, \A x \in T : T \ {x} \in G
        PROVE  T \in G
    <2>1. /\ IsFiniteSet(T) /\ IsFiniteSet(T \cap A)
          /\ \A x \in T : IsFiniteSet(T \ {x}) /\ IsFiniteSet((T \ {x}) \cap A)
      BY FS_Subset
    <2>2. CASE T = {}
      <3>1. T \cap A = {}
        BY <2>2
      <3>2. Total(g, T) = 0 /\ Total(h, T) = 0 /\ Total(w, T \cap A) = 0
        BY <2>1, <2>2, <3>1, TotalStep
      <3>3. QED
        BY <3>2
    <2>3. CASE T # {}
      <3>1. PICK x \in T : Total(h, T) = h[x] + Total(h, T \ {x})
        BY <2>1, <2>3, TotalStep
      <3>2. Total(g, T) = g[x] + Total(g, T \ {x})
        BY <2>1, TotalRemove
      <3> DEFINE H == Total(h, T \ {x})
                 R == Total(g, T \ {x})
                 W == Total(w, (T \ {x}) \cap A)
      <3>3. H = R + c * W
        BY <1>1
      <3>4. R \in Nat /\ W \in Nat
        BY <2>1, TotalType, Zenon
      <3>5. g[x] \in Nat /\ w[x] \in Nat
        OBVIOUS
      <3>6. CASE x \in A
        <4>1. Total(w, T \cap A) = w[x] + Total(w, (T \cap A) \ {x})
          BY <2>1, <3>6, TotalRemove
        <4>2. (T \cap A) \ {x} = (T \ {x}) \cap A
          OBVIOUS
        <4>3. Total(w, T \cap A) = w[x] + W
          BY <4>1, <4>2, Zenon
        <4>4. h[x] = g[x] + c * w[x]
          BY <3>6
        <4> HIDE DEF H, R, W
        <4>5. c * (w[x] + W) = c * w[x] + c * W
          BY <3>4, <3>5
        <4>6. c * w[x] \in Nat /\ c * W \in Nat
          BY <3>4, <3>5
        <4>7. Total(h, T) = h[x] + H /\ Total(g, T) = g[x] + R
          BY <3>1, <3>2 DEF H, R
        <4>8. QED
          BY <3>3, <3>4, <3>5, <4>3, <4>4, <4>5, <4>6, <4>7
      <3>7. CASE x \notin A
        <4>1. T \cap A = (T \ {x}) \cap A
          BY <3>7
        <4>2. h[x] = g[x]
          BY <3>7
        <4>3. Total(h, T) = h[x] + H /\ Total(g, T) = g[x] + R /\ Total(w, T \cap A) = W
          BY <3>1, <3>2, <4>1, Zenon
        <4> HIDE DEF H, R, W
        <4>4. c * W \in Nat
          BY <3>4
        <4>5. QED
          BY <3>3, <3>4, <3>5, <4>2, <4>3, <4>4
      <3>8. QED
        BY <3>6, <3>7
    <2>4. QED
      BY <2>2, <2>3
  <1> HIDE DEF G
  <1>2. S \in G
    BY <1>1, SubsetInduction, Zenon
  <1>3. S \cap A = A
    OBVIOUS
  <1>4. QED
    BY <1>2, <1>3, Zenon DEF G

(* Equal terms have equal sums, and no term exceeds the sum.               *)
LEMMA TotalEqual ==
  ASSUME NEW S, IsFiniteSet(S), NEW g, NEW h,
         \A x \in S : g[x] \in Nat /\ g[x] = h[x]
  PROVE  Total(g, S) = Total(h, S)
  <1>1. Total(g, S) <= Total(h, S) /\ Total(h, S) <= Total(g, S)
    BY TotalMonotone
  <1>2. Total(g, S) \in Nat /\ Total(h, S) \in Nat
    BY TotalType
  <1>3. QED
    BY <1>1, <1>2

(* No term exceeds the sum.                                                *)
LEMMA TotalBoundsTerm ==
  ASSUME NEW S, IsFiniteSet(S), NEW g, \A x \in S : g[x] \in Nat, NEW y \in S
  PROVE  g[y] <= Total(g, S)
  <1>1. Total(g, S) = g[y] + Total(g, S \ {y})
    BY TotalRemove
  <1>2. Total(g, S \ {y}) \in Nat
    BY FS_Subset, TotalType
  <1>3. QED
    BY <1>1, <1>2

(* A sum of zeros is zero.                                                 *)
LEMMA TotalZero ==
  ASSUME NEW S, IsFiniteSet(S), NEW g, \A x \in S : g[x] = 0
  PROVE  Total(g, S) = 0
  <1>1. Total(g, S) = Total(g, S) + 1 * Total(g, S)
    BY TotalGain
  <1>2. Total(g, S) \in Nat
    BY TotalType
  <1>3. \A t \in Nat : t = t + 1 * t => t = 0
    OBVIOUS
  <1>4. QED
    BY <1>1, <1>2, <1>3, Zenon

(* A common factor comes out of a sum.                                     *)
LEMMA TotalScale ==
  ASSUME NEW S, IsFiniteSet(S), NEW g, NEW h, NEW c \in Nat,
         \A x \in S : g[x] \in Nat /\ h[x] = c * g[x]
  PROVE  Total(h, S) = c * Total(g, S)
  <1> DEFINE zero == [x \in S |-> 0]
  <1>1. \A x \in S : zero[x] = 0
    OBVIOUS
  <1>2. \A x \in S : g[x] \in Nat /\ h[x] \in Nat /\ zero[x] \in Nat
    OBVIOUS
  <1> HIDE DEF zero
  <1>3. \A x \in S : h[x] = IF x \in S THEN zero[x] + c * g[x] ELSE zero[x]
    BY <1>1, <1>2
  <1>4. Total(h, S) = Total(zero, S) + c * Total(g, S)
    BY <1>2, <1>3, TotalGain
  <1>5. Total(zero, S) = 0 /\ Total(g, S) \in Nat
    BY <1>1, TotalZero, TotalType
  <1>6. QED
    BY <1>4, <1>5

(* Min of a non-empty set of naturals is the least of them.                *)
LEMMA MinIsLeast ==
  ASSUME NEW T \in SUBSET Nat, T # {}
  PROVE  Min(T) \in T /\ \A m \in T : Min(T) <= m
  BY LeastNatural, Zenon DEF Min

(* Division of naturals.                                                   *)
LEMMA Division ==
  ASSUME NEW a \in Nat, NEW b \in Nat, b > 0
  PROVE  /\ a \div b \in Nat
         /\ b * (a \div b) <= a
         /\ a % b = 0 => b * (a \div b) = a
  OBVIOUS

(* The quotient of a larger number is no smaller.                          *)
LEMMA QuotientMonotone ==
  ASSUME NEW a \in Nat, NEW b \in Nat, NEW c \in Nat, c > 0, a <= b
  PROVE  a \div c <= b \div c
  <1>1. /\ a \div c \in Nat /\ c * (a \div c) <= a
        /\ b \div c \in Nat /\ b < c * (b \div c) + c
    OBVIOUS
  <1>2. ASSUME NEW x \in Nat, NEW y \in Nat, c * x <= a, b < c * y + c, ~ (x <= y) PROVE FALSE
    <2>1. x - (y + 1) \in Nat
      BY <1>2
    <2>2. c * x = c * (y + 1) + c * (x - (y + 1)) /\ c * (x - (y + 1)) \in Nat
      BY <2>1
    <2>3. c * (y + 1) = c * y + c
      OBVIOUS
    <2>4. QED
      BY <1>2, <2>2, <2>3
  <1>3. QED
    BY <1>1, <1>2

(* A part of a rate is no more than the rate.                              *)
LEMMA PartOfRate ==
  ASSUME NEW rate \in Nat, NEW part \in Nat, NEW whole \in Nat, whole > 0, part <= whole
  PROVE  (rate * part) \div whole <= rate
  <1>1. rate * part \in Nat /\ rate * whole \in Nat /\ rate * part <= rate * whole
    OBVIOUS
  <1>2. (rate * whole) \div whole = rate
    OBVIOUS
  <1>3. QED
    BY <1>1, <1>2, QuotientMonotone
===============================================================================
