-------------------------- MODULE ArithmeticTheorems --------------------------
(***************************************************************************)
(* Facts of arithmetic that the proofs of several components need:         *)
(* products, quotients, powers of two, induction, and the sums             *)
(* SumFunctionOnSet of the models.  The induction theorems of the library  *)
(* take the hypothesis as an operator; here it is a set, found minimal by  *)
(* WFMin, which the provers can instantiate.                               *)
(***************************************************************************)
EXTENDS FiniteSetTheorems, TLAPS

-----------------------------------------------------------------------------
(* Products, quotients and powers.                                          *)

\* Multiplying keeps the order.
LEMMA TimesMonotone ==
    ASSUME NEW a \in Nat, NEW b \in Nat, NEW c \in Nat, a <= b
    PROVE  a * c <= b * c /\ a * c \in Nat
<1>1. b = a + (b - a) /\ b - a \in Nat
  OBVIOUS
<1>2. b * c = a * c + (b - a) * c
  OBVIOUS
<1>3. (b - a) * c >= 0 /\ a * c \in Nat
  BY <1>1
<1> QED
  BY <1>2, <1>3

\* The quotient and what is left over.
LEMMA Division ==
    ASSUME NEW a \in Nat, NEW d \in Nat \ {0}
    PROVE  /\ a \div d \in Nat
           /\ d * (a \div d) <= a
           /\ a < d * (a \div d) + d
BY Z3

\* Dividing keeps the order.
LEMMA DivMonotone ==
    ASSUME NEW a \in Nat, NEW b \in Nat, NEW d \in Nat \ {0}, a <= b
    PROVE  a \div d <= b \div d
<1> DEFINE p == a \div d
           q == b \div d
<1>1. p \in Nat /\ q \in Nat /\ d * p <= a /\ b < d * q + d
  BY Division
<1> HIDE DEF p, q
<1>2. d * p < d * (q + 1)
  BY <1>1
<1>3. CASE p >= q + 1
  <2>1. (q + 1) * d <= p * d
    BY <1>1, <1>3, TimesMonotone
  <2> QED
    BY <1>1, <1>2, <2>1
<1>4. p <= q
  BY <1>1, <1>3
<1> QED
  BY <1>4 DEF p, q

\* A power of two counts the subsets of a set.
THEOREM PowersOfTwo == 2^0 = 1 /\ \A n \in Nat : 2^n \in Nat /\ 2^(n + 1) = 2 * 2^n
<1>1. 2^0 = 1
  <2>1. IsFiniteSet({}) /\ Cardinality({}) = 0
    BY FS_EmptySet
  <2>2. Cardinality(SUBSET {}) = 2^0
    BY <2>1, FS_SUBSET
  <2>3. SUBSET {} = {{}}
    OBVIOUS
  <2> QED
    BY <2>2, <2>3, FS_Singleton
<1>2. ASSUME NEW n \in Nat
      PROVE  2^n \in Nat /\ 2^(n + 1) = 2 * 2^n
  <2> DEFINE S == 1 .. n
             A == SUBSET S
             B == {T \cup {n + 1} : T \in A}
  <2>1. /\ IsFiniteSet(S) /\ Cardinality(S) = n
        /\ IsFiniteSet(1 .. n + 1) /\ Cardinality(1 .. n + 1) = n + 1
    BY FS_Interval
  <2>2. /\ IsFiniteSet(A) /\ Cardinality(A) = 2^n
        /\ Cardinality(SUBSET (1 .. n + 1)) = 2^(n + 1)
    BY <2>1, FS_SUBSET
  <2>3. SUBSET (1 .. n + 1) = A \cup B
    <3>1. ASSUME NEW T \in SUBSET (1 .. n + 1), n + 1 \in T
          PROVE  T \in B
      <4>1. T \ {n + 1} \in A /\ T = (T \ {n + 1}) \cup {n + 1}
        BY <3>1
      <4> QED
        BY <4>1
    <3>2. ASSUME NEW T \in SUBSET (1 .. n + 1), n + 1 \notin T
          PROVE  T \in A
      BY <3>2
    <3>3. A \cup B \subseteq SUBSET (1 .. n + 1)
      <4>1. 1 .. n \subseteq 1 .. n + 1 /\ n + 1 \in 1 .. n + 1
        OBVIOUS
      <4> QED
        BY <4>1
    <3> QED
      BY <3>1, <3>2, <3>3
  <2>4. A \cap B = {}
    OBVIOUS
  <2>5. IsFiniteSet(B) /\ Cardinality(B) = Cardinality(A)
    <3> DEFINE f == [T \in A |-> T \cup {n + 1}]
    <3>1. f \in Bijection(A, B)
      <4>1. f \in [A -> B]
        OBVIOUS
      <4>2. \A T, U \in A : f[T] = f[U] => T = U
        <5>1. \A T \in A : T = f[T] \ {n + 1}
          OBVIOUS
        <5> QED
          BY <5>1
      <4>3. \A T \in B : \E U \in A : f[U] = T
        OBVIOUS
      <4> QED
        BY <4>1, <4>2, <4>3 DEF Bijection, Injection, Surjection, IsInjective
    <3> QED
      BY <2>2, <3>1, FS_Bijection DEF ExistsBijection
  <2> HIDE DEF A, B
  <2>6. Cardinality(A \cup B) = Cardinality(A) + Cardinality(B)
    <3>1. Cardinality(A \cup B) = Cardinality(A) + Cardinality(B) - Cardinality(A \cap B)
      BY <2>2, <2>5, FS_Union
    <3>2. Cardinality(A \cap B) = 0
      BY <2>4, FS_EmptySet
    <3>3. Cardinality(A) \in Nat /\ Cardinality(B) \in Nat
      BY <2>2, <2>5, FS_CardinalityType
    <3> QED
      BY <3>1, <3>2, <3>3
  <2> QED
    <3>1. Cardinality(A) \in Nat
      BY <2>2, FS_CardinalityType
    <3>2. 2^(n + 1) = Cardinality(A) + Cardinality(A) /\ 2^n = Cardinality(A)
      BY <2>2, <2>3, <2>5, <2>6
    <3> QED
      BY <3>1, <3>2
<1> QED
  BY <1>1, <1>2

-----------------------------------------------------------------------------
(* Induction.                                                               *)

\* A set with 0 and the successor of each of its numbers has all of them.
THEOREM NatSetInduction ==
    ASSUME NEW S, 0 \in S, \A n \in Nat : n \in S => n + 1 \in S
    PROVE  \A n \in Nat : n \in S
<1> DEFINE T == Nat \ S
           R == OpToRel(<, Nat)
<1> SUFFICES ASSUME T # {} PROVE FALSE
  OBVIOUS
<1>1. IsWellFoundedOn(R, Nat)
  BY NatLessThanWellFounded DEF OpToRel
<1>2. T \subseteq Nat
  OBVIOUS
<1> HIDE DEF T, R
<1>3. PICK x \in T : \A y \in T : <<y, x>> \notin R
  BY <1>1, <1>2, WFMin
<1> USE DEF T
<1>4. x \in Nat /\ x - 1 \in Nat /\ x - 1 < x /\ (x - 1) + 1 = x
  OBVIOUS
<1>5. x - 1 \in T
  BY <1>4
<1>6. <<x - 1, x>> \in R
  BY <1>4 DEF R, OpToRel
<1> QED
  BY <1>3, <1>5, <1>6

\* A set of subsets that has {}, and with a subset every larger one by an element, has S.
THEOREM FiniteSetInduction ==
    ASSUME NEW S, IsFiniteSet(S), NEW G, {} \in G,
           \A T \in SUBSET S, x \in S : T \in G /\ x \notin T => T \cup {x} \in G
    PROVE  S \in G
<1> DEFINE B == (SUBSET S) \ G
           R == StrictSubsetOrdering(S)
<1> SUFFICES ASSUME B # {} PROVE FALSE
  OBVIOUS
<1>1. IsWellFoundedOn(R, SUBSET S)
  BY FS_StrictSubsetOrderingWellFounded, FS_FiniteSubsetsOfFinite
<1>2. B \subseteq SUBSET S
  OBVIOUS
<1> HIDE DEF B, R
<1>3. PICK T \in B : \A U \in B : <<U, T>> \notin R
  BY <1>1, <1>2, WFMin
<1> USE DEF B
<1>4. PICK x : x \in T
  OBVIOUS
<1> DEFINE U == T \ {x}
<1>5. U \in SUBSET S /\ T = U \cup {x} /\ x \notin U /\ x \in S
  BY <1>4
<1>6. U \in G
  <2>1. <<U, T>> \in R
    BY <1>4, <1>5 DEF R, StrictSubsetOrdering
  <2> QED
    BY <1>3, <1>5, <2>1
<1> QED
  BY <1>5, <1>6

-----------------------------------------------------------------------------
(* A sum is what its recursion equation says.                               *)

Chosen(T) == CHOOSE x \in T : TRUE

\* g is the sum of f over each of the sets in D.
SumsOver(g, f, D) ==
    g = [T \in D |-> IF T = {} THEN 0 ELSE f[Chosen(T)] + g[T \ {Chosen(T)}]]

SumIter(f, S) == CHOOSE g : SumsOver(g, f, SUBSET S)

LEMMA SumIsIter ==
    ASSUME NEW f, NEW S
    PROVE  SumFunctionOnSet(f, S) = SumIter(f, S)[S]
BY DEF SumFunctionOnSet, FoldFunctionOnSet, MapThenFoldSet, SumIter, SumsOver, Chosen

\* Taking the chosen element away leaves a smaller set.
LEMMA ChosenLeaves ==
    ASSUME NEW T, T # {}, IsFiniteSet(T)
    PROVE  /\ Chosen(T) \in T
           /\ IsFiniteSet(T \ {Chosen(T)})
           /\ Cardinality(T \ {Chosen(T)}) = Cardinality(T) - 1
           /\ Cardinality(T) \in Nat
<1>1. Chosen(T) \in T
  BY DEF Chosen
<1> QED
  BY <1>1, FS_RemoveElement, FS_CardinalityType

\* The equation has a solution, made set size by set size.
LEMMA SumExists ==
    ASSUME NEW f, NEW S, IsFiniteSet(S)
    PROVE  \E g : SumsOver(g, f, SUBSET S)
<1> DEFINE Level(n) == {T \in SUBSET S : Cardinality(T) <= n}
           N == {n \in Nat : \E g : SumsOver(g, f, Level(n))}
<1>1. \A T \in SUBSET S : IsFiniteSet(T) /\ Cardinality(T) \in Nat
                          /\ Cardinality(T) <= Cardinality(S) /\ (Cardinality(T) = 0 <=> T = {})
  BY FS_Subset, FS_CardinalityType, FS_EmptySet
<1>2. 0 \in N
  <2>1. Level(0) = {{}}
    BY <1>1, FS_EmptySet
  <2>2. SumsOver([T \in Level(0) |-> 0], f, Level(0))
    BY <2>1 DEF SumsOver
  <2> QED
    BY <2>2
<1>3. ASSUME NEW n \in Nat, n \in N PROVE n + 1 \in N
  <2>1. PICK g : SumsOver(g, f, Level(n))
    BY <1>3
  <2> DEFINE h == [T \in Level(n + 1) |->
                      IF T = {} THEN 0 ELSE f[Chosen(T)] + g[T \ {Chosen(T)}]]
  <2>2. \A T \in Level(n) : T \in Level(n + 1) /\ h[T] = g[T]
    <3> TAKE T \in Level(n)
    <3>1. T \in Level(n + 1)
      BY <1>1
    <3> HIDE DEF Level
    <3>2. g[T] = IF T = {} THEN 0 ELSE f[Chosen(T)] + g[T \ {Chosen(T)}]
      BY <2>1 DEF SumsOver
    <3> QED
      BY <3>1, <3>2
  <2>3. \A T \in Level(n + 1) : T # {} => T \ {Chosen(T)} \in Level(n)
    <3> TAKE T \in Level(n + 1)
    <3> HAVE T # {}
    <3>1. T \ {Chosen(T)} \in SUBSET S
      OBVIOUS
    <3>2. Cardinality(T \ {Chosen(T)}) = Cardinality(T) - 1
      BY <1>1, ChosenLeaves
    <3> QED
      BY <1>1, <3>1, <3>2
  <2> HIDE DEF Level
  <2>4. SumsOver(h, f, Level(n + 1))
    <3>1. h = [T \in Level(n + 1) |-> IF T = {} THEN 0 ELSE f[Chosen(T)] + h[T \ {Chosen(T)}]]
      BY <2>2, <2>3
    <3> QED
      BY <3>1 DEF SumsOver
  <2> QED
    BY <2>4
<1>4. Cardinality(S) \in N
  <2> HIDE DEF N
  <2> QED
    BY <1>2, <1>3, NatSetInduction, FS_CardinalityType
<1>5. Level(Cardinality(S)) = SUBSET S
  BY <1>1
<1> QED
  BY <1>4, <1>5

LEMMA SumIterEquation ==
    ASSUME NEW f, NEW S, IsFiniteSet(S), NEW T \in SUBSET S
    PROVE  SumIter(f, S)[T] =
              IF T = {} THEN 0 ELSE f[Chosen(T)] + SumIter(f, S)[T \ {Chosen(T)}]
<1>1. SumsOver(SumIter(f, S), f, SUBSET S)
  BY SumExists DEF SumIter
<1> HIDE DEF SumIter
<1> QED
  BY <1>1 DEF SumsOver

\* One solution for the larger set is one for the smaller.
LEMMA SumIterSubset ==
    ASSUME NEW f, NEW S, IsFiniteSet(S), NEW T \in SUBSET S
    PROVE  SumIter(f, S)[T] = SumFunctionOnSet(f, T)
<1> DEFINE N == {n \in Nat : \A U \in SUBSET T :
                     Cardinality(U) = n => SumIter(f, S)[U] = SumIter(f, T)[U]}
<1>1. IsFiniteSet(T)
  BY FS_Subset
<1>2. \A U \in SUBSET T : IsFiniteSet(U) /\ Cardinality(U) \in Nat /\ (Cardinality(U) = 0 <=> U = {})
  BY <1>1, FS_Subset, FS_CardinalityType, FS_EmptySet
<1>3. 0 \in N
  BY <1>1, <1>2, SumIterEquation
<1>4. ASSUME NEW n \in Nat, n \in N PROVE n + 1 \in N
  <2> SUFFICES ASSUME NEW U \in SUBSET T, Cardinality(U) = n + 1
               PROVE  SumIter(f, S)[U] = SumIter(f, T)[U]
    OBVIOUS
  <2>1. U # {}
    BY <1>2
  <2> DEFINE V == U \ {Chosen(U)}
  <2>2. Cardinality(V) = n /\ V \in SUBSET T
    BY <1>2, <2>1, ChosenLeaves
  <2>3. SumIter(f, S)[V] = SumIter(f, T)[V]
    BY <1>4, <2>2
  <2>4. SumIter(f, S)[U] = f[Chosen(U)] + SumIter(f, S)[V]
    <3>1. U \in SUBSET S
      OBVIOUS
    <3> HIDE DEF N
    <3>2. SumIter(f, S)[U] =
             IF U = {} THEN 0 ELSE f[Chosen(U)] + SumIter(f, S)[U \ {Chosen(U)}]
      BY <3>1, SumIterEquation
    <3> QED
      BY <2>1, <3>2
  <2>5. SumIter(f, T)[U] = f[Chosen(U)] + SumIter(f, T)[V]
    BY <1>1, <2>1, SumIterEquation
  <2> QED
    BY <2>3, <2>4, <2>5
<1>5. Cardinality(T) \in N
  <2> HIDE DEF N
  <2> QED
    BY <1>2, <1>3, <1>4, NatSetInduction
<1> QED
  BY <1>5, SumIsIter

\* The sum over nothing.
THEOREM SumEmpty == ASSUME NEW f PROVE SumFunctionOnSet(f, {}) = 0
BY FS_EmptySet, SumIsIter, SumIterEquation

\* The sum takes its chosen element first.
LEMMA SumChosen ==
    ASSUME NEW f, NEW S, IsFiniteSet(S), S # {}
    PROVE  SumFunctionOnSet(f, S) = f[Chosen(S)] + SumFunctionOnSet(f, S \ {Chosen(S)})
<1>1. SumFunctionOnSet(f, S) = SumIter(f, S)[S]
  BY SumIsIter
<1>2. SumIter(f, S)[S] = f[Chosen(S)] + SumIter(f, S)[S \ {Chosen(S)}]
  BY SumIterEquation
<1>3. SumIter(f, S)[S \ {Chosen(S)}] = SumFunctionOnSet(f, S \ {Chosen(S)})
  BY SumIterSubset
<1> QED
  BY <1>1, <1>2, <1>3

\* A sum of numbers is a number.
THEOREM SumType ==
    ASSUME NEW f, NEW S, IsFiniteSet(S), \A x \in S : f[x] \in Nat
    PROVE  SumFunctionOnSet(f, S) \in Nat
<1> DEFINE N == {n \in Nat : \A U \in SUBSET S :
                     Cardinality(U) = n => SumFunctionOnSet(f, U) \in Nat}
<1>1. \A U \in SUBSET S : IsFiniteSet(U) /\ Cardinality(U) \in Nat /\ (Cardinality(U) = 0 <=> U = {})
  BY FS_Subset, FS_CardinalityType, FS_EmptySet
<1>2. 0 \in N
  BY <1>1, SumEmpty
<1>3. ASSUME NEW n \in Nat, n \in N PROVE n + 1 \in N
  <2> SUFFICES ASSUME NEW U \in SUBSET S, Cardinality(U) = n + 1
               PROVE  SumFunctionOnSet(f, U) \in Nat
    OBVIOUS
  <2>1. U # {} /\ IsFiniteSet(U)
    BY <1>1
  <2> DEFINE V == U \ {Chosen(U)}
  <2>2. Cardinality(V) = n /\ V \in SUBSET S /\ Chosen(U) \in S
    BY <2>1, ChosenLeaves
  <2>3. SumFunctionOnSet(f, V) \in Nat /\ f[Chosen(U)] \in Nat
    BY <1>3, <2>2
  <2>4. SumFunctionOnSet(f, U) = f[Chosen(U)] + SumFunctionOnSet(f, V)
    BY <2>1, SumChosen
  <2> QED
    BY <2>3, <2>4
<1>4. Cardinality(S) \in N
  <2> HIDE DEF N
  <2> QED
    BY <1>2, <1>3, NatSetInduction, FS_CardinalityType
<1> QED
  BY <1>4

\* Whichever element is taken out of it, a sum falls by that element's part.
THEOREM SumRemove ==
    ASSUME NEW f, NEW S, IsFiniteSet(S), \A x \in S : f[x] \in Nat, NEW x \in S
    PROVE  /\ SumFunctionOnSet(f, S) = f[x] + SumFunctionOnSet(f, S \ {x})
           /\ SumFunctionOnSet(f, S \ {x}) \in Nat
<1> DEFINE N == {n \in Nat : \A U \in SUBSET S : Cardinality(U) = n =>
                    \A y \in U : SumFunctionOnSet(f, U) = f[y] + SumFunctionOnSet(f, U \ {y})}
<1>1. \A U \in SUBSET S : /\ IsFiniteSet(U) /\ Cardinality(U) \in Nat
                          /\ Cardinality(U) = 0 <=> U = {}
                          /\ SumFunctionOnSet(f, U) \in Nat
  BY FS_Subset, FS_CardinalityType, FS_EmptySet, SumType
<1>2. 0 \in N
  BY <1>1
<1>3. ASSUME NEW n \in Nat, n \in N PROVE n + 1 \in N
  <2> SUFFICES ASSUME NEW U \in SUBSET S, Cardinality(U) = n + 1, NEW y \in U
               PROVE  SumFunctionOnSet(f, U) = f[y] + SumFunctionOnSet(f, U \ {y})
    OBVIOUS
  <2> DEFINE c == Chosen(U)
             V == U \ {c}
             W == U \ {y}
             Z == U \ {c, y}
  <2>1. IsFiniteSet(U) /\ U # {}
    BY <1>1
  <2>2. c \in U /\ Cardinality(V) = n
    BY <2>1, ChosenLeaves
  <2>3. Cardinality(W) = n
    <3> HIDE DEF N
    <3>1. Cardinality(U \ {y}) = Cardinality(U) - 1
      BY <2>1, FS_RemoveElement
    <3> QED
      BY <3>1
  <2>4. SumFunctionOnSet(f, U) = f[c] + SumFunctionOnSet(f, V)
    BY <2>1, SumChosen
  <2>5. CASE y = c
    BY <2>4, <2>5
  <2>6. CASE y # c
    <3>1. y \in V /\ c \in W /\ V \in SUBSET S /\ W \in SUBSET S /\ Z \in SUBSET S
      BY <2>2, <2>6
    <3>2. V \ {y} = Z /\ W \ {c} = Z
      OBVIOUS
    <3> HIDE DEF V, W, Z, c
    <3>3. SumFunctionOnSet(f, V) = f[y] + SumFunctionOnSet(f, V \ {y})
      BY <1>3, <2>2, <3>1
    <3>4. SumFunctionOnSet(f, W) = f[c] + SumFunctionOnSet(f, W \ {c})
      BY <1>3, <2>3, <3>1
    <3>5. /\ SumFunctionOnSet(f, Z) \in Nat /\ f[c] \in Nat /\ f[y] \in Nat
      BY <1>1, <2>2, <3>1
    <3>6. SumFunctionOnSet(f, U) = f[y] + SumFunctionOnSet(f, W)
      BY <2>4, <3>2, <3>3, <3>4, <3>5
    <3> QED
      BY <3>6 DEF W
  <2> QED
    BY <2>5, <2>6
<1>4. Cardinality(S) \in N
  <2> HIDE DEF N
  <2> QED
    BY <1>2, <1>3, NatSetInduction, FS_CardinalityType
<1> QED
  BY <1>1, <1>4

\* A new element adds its part.
THEOREM SumAdd ==
    ASSUME NEW f, NEW S, IsFiniteSet(S), NEW x, x \notin S, \A y \in S \cup {x} : f[y] \in Nat
    PROVE  SumFunctionOnSet(f, S \cup {x}) = f[x] + SumFunctionOnSet(f, S)
<1>1. IsFiniteSet(S \cup {x}) /\ (S \cup {x}) \ {x} = S
  BY FS_AddElement
<1> QED
  BY <1>1, SumRemove

\* A sum over two sets apart is the sum of their sums.
THEOREM SumUnion ==
    ASSUME NEW f, NEW S, IsFiniteSet(S), NEW T, IsFiniteSet(T), S \cap T = {},
           \A x \in S \cup T : f[x] \in Nat
    PROVE  SumFunctionOnSet(f, S \cup T) = SumFunctionOnSet(f, S) + SumFunctionOnSet(f, T)
<1> DEFINE G == {U \in SUBSET T : SumFunctionOnSet(f, S \cup U) =
                                   SumFunctionOnSet(f, S) + SumFunctionOnSet(f, U)}
<1>1. \A U \in SUBSET T : IsFiniteSet(U)
  BY FS_Subset
<1>2. \A U \in SUBSET T : IsFiniteSet(S \cup U)
  BY <1>1, FS_Union
<1>3. SumFunctionOnSet(f, S) \in Nat /\ \A U \in SUBSET T : SumFunctionOnSet(f, U) \in Nat
  BY <1>1, SumType
<1>4. {} \in G
  <2>1. S \cup {} = S /\ SumFunctionOnSet(f, {}) = 0
    BY SumEmpty
  <2> QED
    BY <1>3, <2>1
<1>5. ASSUME NEW U \in SUBSET T, NEW x \in T, U \in G, x \notin U
      PROVE  U \cup {x} \in G
  <2>1. S \cup (U \cup {x}) = (S \cup U) \cup {x} /\ x \notin S \cup U
    BY <1>5
  <2>2. SumFunctionOnSet(f, (S \cup U) \cup {x}) = f[x] + SumFunctionOnSet(f, S \cup U)
    BY <1>2, <2>1, SumAdd
  <2>3. SumFunctionOnSet(f, U \cup {x}) = f[x] + SumFunctionOnSet(f, U)
    BY <1>1, <1>5, SumAdd
  <2>4. f[x] \in Nat /\ U \cup {x} \in SUBSET T
    OBVIOUS
  <2> QED
    BY <1>3, <1>5, <2>1, <2>2, <2>3, <2>4
<1>6. T \in G
  <2> HIDE DEF G
  <2> QED
    BY <1>4, <1>5, FiniteSetInduction
<1> QED
  BY <1>6

\* A sum over more is no less.
THEOREM SumSubset ==
    ASSUME NEW f, NEW S, IsFiniteSet(S), \A x \in S : f[x] \in Nat, NEW T \in SUBSET S
    PROVE  /\ SumFunctionOnSet(f, T) <= SumFunctionOnSet(f, S)
           /\ SumFunctionOnSet(f, T) \in Nat /\ SumFunctionOnSet(f, S) \in Nat
<1> DEFINE D == S \ T
           G == {U \in SUBSET D : SumFunctionOnSet(f, T) <= SumFunctionOnSet(f, T \cup U)}
<1>1. \A U \in SUBSET S : IsFiniteSet(U) /\ SumFunctionOnSet(f, U) \in Nat
  BY FS_Subset, SumType
<1>2. {} \in G
  <2>1. T \cup {} = T
    OBVIOUS
  <2> QED
    BY <1>1, <2>1
<1>3. ASSUME NEW U \in SUBSET D, NEW x \in D, U \in G, x \notin U
      PROVE  U \cup {x} \in G
  <2>1. T \cup U \in SUBSET S /\ x \notin T \cup U /\ T \cup (U \cup {x}) = (T \cup U) \cup {x}
    BY <1>3
  <2>2. SumFunctionOnSet(f, (T \cup U) \cup {x}) = f[x] + SumFunctionOnSet(f, T \cup U)
    BY <1>1, <2>1, SumAdd
  <2>3. SumFunctionOnSet(f, T) <= f[x] + SumFunctionOnSet(f, T \cup U)
    BY <1>1, <1>3, <2>1
  <2> QED
    BY <2>1, <2>2, <2>3
<1>4. D \in G
  <2> HIDE DEF G, D
  <2>1. IsFiniteSet(D)
    BY <1>1 DEF D
  <2> QED
    BY <1>2, <1>3, <2>1, FiniteSetInduction
<1>5. T \cup D = S
  OBVIOUS
<1> QED
  BY <1>1, <1>4, <1>5

\* Terms that fit, one to one, under those of another sum.
THEOREM SumInjection ==
    ASSUME NEW f, NEW S, IsFiniteSet(S), \A x \in S : f[x] \in Nat,
           NEW g, NEW T, IsFiniteSet(T), \A y \in T : g[y] \in Nat,
           NEW h, \A x \in S : h[x] \in T /\ f[x] <= g[h[x]],
           \A x, y \in S : h[x] = h[y] => x = y
    PROVE  SumFunctionOnSet(f, S) <= SumFunctionOnSet(g, T)
<1> DEFINE Im(U) == {h[x] : x \in U}
           G == {U \in SUBSET S : SumFunctionOnSet(f, U) <= SumFunctionOnSet(g, Im(U))}
<1>1. \A U \in SUBSET S : /\ IsFiniteSet(U) /\ Im(U) \in SUBSET T /\ IsFiniteSet(Im(U))
                          /\ SumFunctionOnSet(f, U) \in Nat
                          /\ SumFunctionOnSet(g, Im(U)) \in Nat
  <2> TAKE U \in SUBSET S
  <2>1. IsFiniteSet(U) /\ SumFunctionOnSet(f, U) \in Nat
    BY FS_Subset, SumType
  <2>2. Im(U) \in SUBSET T
    OBVIOUS
  <2> HIDE DEF Im
  <2>3. IsFiniteSet(Im(U)) /\ SumFunctionOnSet(g, Im(U)) \in Nat
    BY <2>2, FS_Subset, SumType
  <2> QED
    BY <2>1, <2>2, <2>3
<1>2. {} \in G
  <2>1. Im({}) = {}
    OBVIOUS
  <2> QED
    BY <2>1, SumEmpty
<1>3. ASSUME NEW U \in SUBSET S, NEW x \in S, U \in G, x \notin U
      PROVE  U \cup {x} \in G
  <2>1. Im(U \cup {x}) = Im(U) \cup {h[x]} /\ h[x] \notin Im(U)
    BY <1>3
  <2>2. f[x] <= g[h[x]] /\ f[x] \in Nat /\ g[h[x]] \in Nat
    OBVIOUS
  <2> HIDE DEF Im
  <2>3. SumFunctionOnSet(f, U \cup {x}) = f[x] + SumFunctionOnSet(f, U)
    BY <1>1, <1>3, SumAdd
  <2>4. SumFunctionOnSet(g, Im(U) \cup {h[x]}) = g[h[x]] + SumFunctionOnSet(g, Im(U))
    BY <1>1, <2>1, SumAdd
  <2>5. SumFunctionOnSet(f, U) <= SumFunctionOnSet(g, Im(U))
    BY <1>3
  <2>6. SumFunctionOnSet(f, U \cup {x}) <= SumFunctionOnSet(g, Im(U) \cup {h[x]})
    BY <1>1, <2>2, <2>3, <2>4, <2>5
  <2> QED
    BY <2>1, <2>6
<1>4. S \in G
  <2> HIDE DEF G
  <2> QED
    BY <1>2, <1>3, FiniteSetInduction
<1>5. SumFunctionOnSet(f, S) <= SumFunctionOnSet(g, Im(S))
  BY <1>4
<1> HIDE DEF Im
<1>6. SumFunctionOnSet(g, Im(S)) <= SumFunctionOnSet(g, T) /\ SumFunctionOnSet(g, T) \in Nat
  BY <1>1, SumSubset
<1> QED
  BY <1>1, <1>5, <1>6

\* A sum looks at its terms only.
THEOREM SumSame ==
    ASSUME NEW f, NEW g, NEW S, IsFiniteSet(S), \A x \in S : f[x] \in Nat /\ g[x] = f[x]
    PROVE  SumFunctionOnSet(g, S) = SumFunctionOnSet(f, S)
<1> DEFINE h == [x \in S |-> x]
<1>1. SumFunctionOnSet(f, S) \in Nat /\ SumFunctionOnSet(g, S) \in Nat
  BY SumType
<1>2. \A x \in S : h[x] \in S /\ f[x] <= g[h[x]] /\ g[x] <= f[h[x]]
  OBVIOUS
<1>3. \A x, y \in S : h[x] = h[y] => x = y
  OBVIOUS
<1> HIDE DEF h
<1>4. SumFunctionOnSet(f, S) <= SumFunctionOnSet(g, S)
  BY <1>2, <1>3, SumInjection
<1>5. SumFunctionOnSet(g, S) <= SumFunctionOnSet(f, S)
  BY <1>2, <1>3, SumInjection
<1> QED
  BY <1>1, <1>4, <1>5

\* One term that changes moves the sum by its change.
THEOREM SumUpdate ==
    ASSUME NEW f, NEW g, NEW S, IsFiniteSet(S), \A x \in S : f[x] \in Nat /\ g[x] \in Nat,
           NEW x \in S, \A y \in S : y # x => g[y] = f[y]
    PROVE  SumFunctionOnSet(g, S) = SumFunctionOnSet(f, S) + g[x] - f[x]
<1>1. IsFiniteSet(S \ {x})
  BY FS_RemoveElement
<1>2. SumFunctionOnSet(g, S \ {x}) = SumFunctionOnSet(f, S \ {x})
  BY <1>1, SumSame
<1>3. /\ SumFunctionOnSet(f, S) = f[x] + SumFunctionOnSet(f, S \ {x})
      /\ SumFunctionOnSet(f, S \ {x}) \in Nat
  BY SumRemove
<1>4. SumFunctionOnSet(g, S) = g[x] + SumFunctionOnSet(g, S \ {x})
  BY SumRemove
<1> QED
  BY <1>2, <1>3, <1>4

\* A sum of nothings is nothing.
THEOREM SumZero ==
    ASSUME NEW f, NEW S, IsFiniteSet(S), \A x \in S : f[x] = 0
    PROVE  SumFunctionOnSet(f, S) = 0
<1> DEFINE G == {U \in SUBSET S : SumFunctionOnSet(f, U) = 0}
<1>1. {} \in G
  BY SumEmpty
<1>2. ASSUME NEW U \in SUBSET S, NEW x \in S, U \in G, x \notin U
      PROVE  U \cup {x} \in G
  <2>1. IsFiniteSet(U)
    BY FS_Subset
  <2>2. \A y \in U \cup {x} : f[y] \in Nat
    OBVIOUS
  <2>3. SumFunctionOnSet(f, U \cup {x}) = f[x] + SumFunctionOnSet(f, U)
    BY <1>2, <2>1, <2>2, SumAdd
  <2> QED
    BY <1>2, <2>3
<1>3. S \in G
  <2> HIDE DEF G
  <2> QED
    BY <1>1, <1>2, FiniteSetInduction
<1> QED
  BY <1>3

=============================================================================
