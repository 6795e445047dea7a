--------------------------- MODULE TornadoPoolProofs ---------------------------
(***************************************************************************)
(* Proofs about TornadoPool for a tree of any height, a ring of any size   *)
(* and any deposits and withdrawals: the incremental tree arrives at the   *)
(* root of the whole tree, the ring holds the recent roots, and the pool   *)
(* can pay every note.                                                     *)
(***************************************************************************)
EXTENDS TornadoPool, ArithmeticTheorems, SequenceTheorems

-----------------------------------------------------------------------------
(* The recursive definitions compute what they say.                         *)

\* A level has the level below it, and the lowest is 0.
LEMMA LevelsUp ==
    /\ 0 \in Height /\ Levels \in Height
    /\ \A i \in Height : i # 0 => i - 1 \in Height /\ i - 1 \in 0 .. Levels - 1
    /\ \A i \in 0 .. Levels - 1 : i \in Height /\ i + 1 \in Height /\ i + 1 # 0 /\ (i + 1) - 1 = i
BY PoolAssumption DEF Height

LEMMA ZerosEquation ==
    /\ zeros[0] = ZeroValue
    /\ \A i \in 0 .. Levels - 1 : zeros[i + 1] = hashLeftRight(zeros[i], zeros[i])
<1> DEFINE Is(g, m) ==
              g = [i \in 0 .. m |-> IF i = 0 THEN ZeroValue ELSE hashLeftRight(g[i - 1], g[i - 1])]
           N == {m \in Nat : \E g : Is(g, m)}
<1>1. 0 \in N
  <2>1. Is([i \in 0 .. 0 |-> ZeroValue], 0)
    OBVIOUS
  <2> QED
    BY <2>1
<1>2. ASSUME NEW n \in Nat, n \in N
      PROVE  n + 1 \in N
  <2>1. PICK g : Is(g, n)
    BY <1>2
  <2> DEFINE up == [i \in 0 .. n + 1 |-> IF i = n + 1 THEN hashLeftRight(g[n], g[n]) ELSE g[i]]
  <2>2. ASSUME NEW i \in 0 .. n + 1
        PROVE  up[i] = IF i = 0 THEN ZeroValue ELSE hashLeftRight(up[i - 1], up[i - 1])
    <3>1. CASE i = n + 1
      BY <3>1
    <3>2. CASE i # n + 1
      <4>1. i \in 0 .. n /\ up[i] = g[i] /\ (i # 0 => up[i - 1] = g[i - 1])
        BY <3>2
      <4> QED
        BY <2>1, <4>1
    <3> QED
      BY <3>1, <3>2
  <2>3. Is(up, n + 1)
    BY <2>2
  <2> HIDE DEF up
  <2>4. n + 1 \in Nat /\ \E h : Is(h, n + 1)
    BY <2>3
  <2> QED
    BY <2>4
<1> HIDE DEF N
<1>3. Levels \in N
  BY <1>1, <1>2, NatSetInduction, PoolAssumption
<1>4. \E g : g = [i \in Height |-> IF i = 0 THEN ZeroValue ELSE hashLeftRight(g[i - 1], g[i - 1])]
  BY <1>3 DEF N, Height
<1>5. zeros = [i \in Height |-> IF i = 0 THEN ZeroValue ELSE hashLeftRight(zeros[i - 1], zeros[i - 1])]
  BY <1>4 DEF zeros
<1> QED
  BY <1>5, LevelsUp

LEMMA AncestorEquation ==
    ASSUME NEW index
    PROVE  /\ Ancestor(index)[0] = index
           /\ \A i \in 0 .. Levels - 1 : Ancestor(index)[i + 1] = Ancestor(index)[i] \div 2
<1> DEFINE Base == index
           Step(g, i) == g[i - 1] \div 2
           Is(g, m) == g = [i \in 0 .. m |-> IF i = 0 THEN Base ELSE Step(g, i)]
           N == {m \in Nat : \E g : Is(g, m)}
<1>1. 0 \in N
  <2>1. Is([i \in 0 .. 0 |-> Base], 0)
    OBVIOUS
  <2> QED
    BY <2>1
<1>2. ASSUME NEW n \in Nat, n \in N
      PROVE  n + 1 \in N
  <2>1. PICK g : Is(g, n)
    BY <1>2
  <2> DEFINE up == [i \in 0 .. n + 1 |-> IF i = n + 1 THEN Step(g, n + 1) ELSE g[i]]
  <2>2. ASSUME NEW i \in 0 .. n + 1
        PROVE  up[i] = IF i = 0 THEN Base ELSE Step(up, i)
    <3>1. i # 0 => i - 1 \in 0 .. n /\ up[i - 1] = g[i - 1]
      OBVIOUS
    <3>2. CASE i = n + 1
      BY <3>1, <3>2
    <3>3. CASE i # n + 1
      <4>1. i \in 0 .. n /\ up[i] = g[i]
        BY <3>3
      <4> QED
        BY <2>1, <3>1, <4>1
    <3> QED
      BY <3>2, <3>3
  <2>3. Is(up, n + 1)
    BY <2>2
  <2> HIDE DEF up
  <2>4. n + 1 \in Nat /\ \E h : Is(h, n + 1)
    BY <2>3
  <2> QED
    BY <2>4
<1> HIDE DEF N
<1>3. Levels \in N
  BY <1>1, <1>2, NatSetInduction, PoolAssumption
<1>4. \E g : g = [i \in Height |-> IF i = 0 THEN Base ELSE Step(g, i)]
  BY <1>3 DEF N, Height
<1> DEFINE f == Ancestor(index)
<1>5. f = [i \in Height |-> IF i = 0 THEN Base ELSE Step(f, i)]
  BY <1>4 DEF Ancestor
<1> HIDE DEF f
<1>6. f[0] = Base /\ \A i \in 0 .. Levels - 1 : f[i + 1] = Step(f, i + 1)
  BY <1>5, LevelsUp
<1> QED
  BY <1>6, LevelsUp DEF f

LEMMA PathUpEquation ==
    ASSUME NEW leaf, NEW index
    PROVE  /\ PathUp(leaf, index)[0] = leaf
           /\ \A i \in 0 .. Levels - 1 :
                 PathUp(leaf, index)[i + 1] =
                    IF IsLeft(index, i) THEN hashLeftRight(PathUp(leaf, index)[i], zeros[i])
                    ELSE hashLeftRight(filledSubtrees[i], PathUp(leaf, index)[i])
<1> DEFINE Base == leaf
           Step(g, i) == IF IsLeft(index, i - 1) THEN hashLeftRight(g[i - 1], zeros[i - 1])
                         ELSE hashLeftRight(filledSubtrees[i - 1], g[i - 1])
           Is(g, m) == g = [i \in 0 .. m |-> IF i = 0 THEN Base ELSE Step(g, i)]
           N == {m \in Nat : \E g : Is(g, m)}
<1>1. 0 \in N
  <2>1. Is([i \in 0 .. 0 |-> Base], 0)
    OBVIOUS
  <2> QED
    BY <2>1
<1>2. ASSUME NEW n \in Nat, n \in N
      PROVE  n + 1 \in N
  <2>1. PICK g : Is(g, n)
    BY <1>2
  <2> DEFINE up == [i \in 0 .. n + 1 |-> IF i = n + 1 THEN Step(g, n + 1) ELSE g[i]]
  <2>2. ASSUME NEW i \in 0 .. n + 1
        PROVE  up[i] = IF i = 0 THEN Base ELSE Step(up, i)
    <3>1. i # 0 => i - 1 \in 0 .. n /\ up[i - 1] = g[i - 1]
      OBVIOUS
    <3>2. CASE i = n + 1
      BY <3>1, <3>2
    <3>3. CASE i # n + 1
      <4>1. i \in 0 .. n /\ up[i] = g[i]
        BY <3>3
      <4> QED
        BY <2>1, <3>1, <4>1
    <3> QED
      BY <3>2, <3>3
  <2>3. Is(up, n + 1)
    BY <2>2
  <2> HIDE DEF up
  <2>4. n + 1 \in Nat /\ \E h : Is(h, n + 1)
    BY <2>3
  <2> QED
    BY <2>4
<1> HIDE DEF N
<1>3. Levels \in N
  BY <1>1, <1>2, NatSetInduction, PoolAssumption
<1>4. \E g : g = [i \in Height |-> IF i = 0 THEN Base ELSE Step(g, i)]
  BY <1>3 DEF N, Height
<1> DEFINE f == PathUp(leaf, index)
<1>5. f = [i \in Height |-> IF i = 0 THEN Base ELSE Step(f, i)]
  BY <1>4 DEF PathUp
<1> HIDE DEF f
<1>6. f[0] = Base /\ \A i \in 0 .. Levels - 1 : f[i + 1] = Step(f, i + 1)
  BY <1>5, LevelsUp
<1> QED
  BY <1>6, LevelsUp DEF f

LEMMA LayerEquation ==
    ASSUME NEW s
    PROVE  \A h \in Height :
              Layer(s)[h] = [k \in 0 .. 2^(Levels - h) - 1 |->
                                IF h = 0 THEN IF k < Len(s) THEN s[k + 1] ELSE ZeroValue
                                ELSE hashLeftRight(Layer(s)[h - 1][2 * k], Layer(s)[h - 1][2 * k + 1])]
<1> DEFINE Row(g, h) == [k \in 0 .. 2^(Levels - h) - 1 |->
                            IF h = 0 THEN IF k < Len(s) THEN s[k + 1] ELSE ZeroValue
                            ELSE hashLeftRight(g[h - 1][2 * k], g[h - 1][2 * k + 1])]
           Is(g, m) == g = [h \in 0 .. m |-> Row(g, h)]
           N == {m \in Nat : \E g : Is(g, m)}
<1>1. 0 \in N
  <2> DEFINE g == [h \in 0 .. 0 |-> [k \in 0 .. 2^(Levels - h) - 1 |->
                                        IF k < Len(s) THEN s[k + 1] ELSE ZeroValue]]
  <2>1. Is(g, 0)
    OBVIOUS
  <2> HIDE DEF g
  <2>2. 0 \in Nat /\ \E h : Is(h, 0)
    BY <2>1
  <2> QED
    BY <2>2
<1>2. ASSUME NEW n \in Nat, n \in N
      PROVE  n + 1 \in N
  <2>1. PICK g : Is(g, n)
    BY <1>2
  <2> DEFINE up == [h \in 0 .. n + 1 |-> IF h = n + 1 THEN Row(g, n + 1) ELSE g[h]]
  <2>2. ASSUME NEW h \in 0 .. n + 1
        PROVE  up[h] = Row(up, h)
    <3>1. h # 0 => h - 1 \in 0 .. n /\ up[h - 1] = g[h - 1]
      OBVIOUS
    <3>2. Row(up, h) = Row(g, h)
      BY <3>1
    <3> HIDE DEF Row
    <3>3. CASE h = n + 1
      BY <3>2, <3>3
    <3>4. CASE h # n + 1
      <4>1. h \in 0 .. n /\ up[h] = g[h]
        BY <3>4
      <4> QED
        BY <2>1, <3>2, <4>1
    <3> QED
      BY <3>3, <3>4
  <2> HIDE DEF Row
  <2>3. Is(up, n + 1)
    BY <2>2
  <2> HIDE DEF up
  <2>4. n + 1 \in Nat /\ \E h : Is(h, n + 1)
    BY <2>3
  <2> QED
    BY <2>4
<1> HIDE DEF N
<1>3. Levels \in N
  BY <1>1, <1>2, NatSetInduction, PoolAssumption
<1>4. \E g : g = [h \in Height |-> Row(g, h)]
  BY <1>3 DEF N, Height
<1> DEFINE f == Layer(s)
<1>5. f = [h \in Height |-> Row(f, h)]
  BY <1>4 DEF Layer
<1> HIDE DEF f
<1>6. \A h \in Height : f[h] = Row(f, h)
  <2> HIDE DEF Row
  <2> QED
    BY <1>5
<1> QED
  BY <1>6 DEF f

-----------------------------------------------------------------------------
(* The nodes of a tree, and those that one more leaf changes.               *)

Node(s, h, k) == Layer(s)[h][k]

LEMMA PowerPositive == \A n \in Nat : 2^n \in Nat /\ 2^n # 0
<1> DEFINE S == {n \in Nat : 2^n # 0}
<1>1. 0 \in S
  BY PowersOfTwo
<1>2. \A n \in Nat : n \in S => n + 1 \in S
  BY PowersOfTwo
<1> HIDE DEF S
<1>3. \A n \in Nat : n \in S
  BY <1>1, <1>2, NatSetInduction
<1> QED
  BY <1>3, PowersOfTwo DEF S

\* A node has two below it.
LEMMA Halving ==
    ASSUME NEW x \in Nat
    PROVE  /\ x \div 2 \in Nat
           /\ x % 2 = 0 => x = 2 * (x \div 2)
           /\ x % 2 # 0 => x % 2 = 1 /\ x = 2 * (x \div 2) + 1
OBVIOUS

LEMMA Widths ==
    /\ \A h \in Height : 2^(Levels - h) \in Nat
    /\ \A h \in 0 .. Levels - 1 : 2^(Levels - h) = 2 * 2^(Levels - (h + 1))
    /\ 2^(Levels - Levels) = 1
<1>1. \A h \in Height : Levels - h \in Nat
  BY PoolAssumption DEF Height
<1>2. ASSUME NEW h \in 0 .. Levels - 1
      PROVE  2^(Levels - h) = 2 * 2^(Levels - (h + 1))
  <2>1. Levels - (h + 1) \in Nat /\ Levels - h = (Levels - (h + 1)) + 1
    BY PoolAssumption
  <2> QED
    BY <2>1, PowersOfTwo
<1>3. Levels - Levels = 0
  BY PoolAssumption
<1> QED
  BY <1>1, <1>2, <1>3, PowersOfTwo

LEMMA Nodes ==
    ASSUME NEW s
    PROVE  /\ \A k \in 0 .. 2^Levels - 1 :
                 Node(s, 0, k) = IF k < Len(s) THEN s[k + 1] ELSE ZeroValue
           /\ \A h \in 0 .. Levels - 1 : \A k \in 0 .. 2^(Levels - (h + 1)) - 1 :
                 /\ 2 * k \in 0 .. 2^(Levels - h) - 1 /\ 2 * k + 1 \in 0 .. 2^(Levels - h) - 1
                 /\ Node(s, h + 1, k) = hashLeftRight(Node(s, h, 2 * k), Node(s, h, 2 * k + 1))
<1>1. ASSUME NEW k \in 0 .. 2^Levels - 1
      PROVE  Node(s, 0, k) = IF k < Len(s) THEN s[k + 1] ELSE ZeroValue
  <2>1. Levels - 0 = Levels /\ 0 \in Height
    BY PoolAssumption DEF Height
  <2> DEFINE L == Layer(s)
  <2>2. L[0] = [j \in 0 .. 2^(Levels - 0) - 1 |->
                   IF 0 = 0 THEN IF j < Len(s) THEN s[j + 1] ELSE ZeroValue
                   ELSE hashLeftRight(L[0 - 1][2 * j], L[0 - 1][2 * j + 1])]
    BY <2>1, LayerEquation
  <2> HIDE DEF L
  <2>3. L[0] = [j \in 0 .. 2^Levels - 1 |-> IF j < Len(s) THEN s[j + 1] ELSE ZeroValue]
    BY <2>1, <2>2
  <2> QED
    BY <2>3 DEF Node, L
<1>2. ASSUME NEW h \in 0 .. Levels - 1, NEW k \in 0 .. 2^(Levels - (h + 1)) - 1
      PROVE  /\ 2 * k \in 0 .. 2^(Levels - h) - 1 /\ 2 * k + 1 \in 0 .. 2^(Levels - h) - 1
             /\ Node(s, h + 1, k) = hashLeftRight(Node(s, h, 2 * k), Node(s, h, 2 * k + 1))
  <2>1. h + 1 \in Height /\ h + 1 # 0 /\ (h + 1) - 1 = h
    BY LevelsUp
  <2> DEFINE L == Layer(s)
             i == h + 1
             w == 2^(Levels - i)
  <2>2. L[i] = [j \in 0 .. w - 1 |->
                   IF i = 0 THEN IF j < Len(s) THEN s[j + 1] ELSE ZeroValue
                   ELSE hashLeftRight(L[i - 1][2 * j], L[i - 1][2 * j + 1])]
    BY <2>1, LayerEquation
  <2> HIDE DEF L
  <2>3. i # 0 /\ i - 1 = h /\ k \in 0 .. w - 1
    BY <2>1
  <2> HIDE DEF i, w
  <2>4. L[i][k] = hashLeftRight(L[h][2 * k], L[h][2 * k + 1])
    BY <2>2, <2>3
  <2>5. Layer(s)[h + 1][k] = hashLeftRight(Layer(s)[h][2 * k], Layer(s)[h][2 * k + 1])
    BY <2>4 DEF i, L
  <2>6. 2^(Levels - (h + 1)) \in Nat /\ 2^(Levels - h) = 2 * 2^(Levels - (h + 1))
    BY <2>1, Widths
  <2>7. 2 * k \in 0 .. 2^(Levels - h) - 1 /\ 2 * k + 1 \in 0 .. 2^(Levels - h) - 1
    BY <2>6
  <2> QED
    BY <2>5, <2>7 DEF Node
<1> QED
  BY <1>1, <1>2

\* The nodes above a leaf are in the tree.
LEMMA AncestorBounds ==
    ASSUME NEW n \in 0 .. 2^Levels - 1
    PROVE  \A h \in Height : Ancestor(n)[h] \in 0 .. 2^(Levels - h) - 1
<1> DEFINE S == {h \in Nat : h \in Height => Ancestor(n)[h] \in 0 .. 2^(Levels - h) - 1}
<1>1. 0 \in S
  <2>1. Levels - 0 = Levels
    BY PoolAssumption
  <2> QED
    BY <2>1, AncestorEquation
<1>2. ASSUME NEW h \in Nat, h \in S
      PROVE  h + 1 \in S
  <2> SUFFICES ASSUME h + 1 \in Height
               PROVE  Ancestor(n)[h + 1] \in 0 .. 2^(Levels - (h + 1)) - 1
    OBVIOUS
  <2>1. h \in 0 .. Levels - 1 /\ h \in Height
    BY PoolAssumption DEF Height
  <2>2. Ancestor(n)[h] \in 0 .. 2^(Levels - h) - 1 /\ Ancestor(n)[h + 1] = Ancestor(n)[h] \div 2
    BY <1>2, <2>1, AncestorEquation
  <2>3. 2^(Levels - (h + 1)) \in Nat /\ 2^(Levels - h) = 2 * 2^(Levels - (h + 1))
    BY <2>1, Widths
  <2> QED
    BY <2>2, <2>3
<1> HIDE DEF S
<1>3. \A h \in Nat : h \in S
  BY <1>1, <1>2, NatSetInduction
<1> QED
  BY <1>3 DEF S, Height

\* t is s and one more leaf, for which the tree has room.
Extends(t, s, leaf) ==
    /\ Len(s) \in 0 .. 2^Levels - 1 /\ Len(t) = Len(s) + 1
    /\ \A k \in 1 .. Len(s) : t[k] = s[k]
    /\ t[Len(s) + 1] = leaf

\* One more leaf changes the nodes above it, and those to their right are still empty.
LEMMA NodesKept ==
    ASSUME NEW s, NEW t, NEW leaf, Extends(t, s, leaf)
    PROVE  \A h \in Height : \A k \in 0 .. 2^(Levels - h) - 1 :
              /\ k # Ancestor(Len(s))[h] => Node(t, h, k) = Node(s, h, k)
              /\ k > Ancestor(Len(s))[h] => Node(t, h, k) = zeros[h]
<1> DEFINE n == Len(s)
           S == {h \in Nat : h \in Height =>
                    \A k \in 0 .. 2^(Levels - h) - 1 :
                        /\ k # Ancestor(n)[h] => Node(t, h, k) = Node(s, h, k)
                        /\ k > Ancestor(n)[h] => Node(t, h, k) = zeros[h]}
<1>1. n \in 0 .. 2^Levels - 1 /\ Len(t) = n + 1 /\ \A k \in 1 .. n : t[k] = s[k]
  BY DEF Extends
<1>2. 0 \in S
  <2> SUFFICES ASSUME NEW k \in 0 .. 2^(Levels - 0) - 1
               PROVE  /\ k # Ancestor(n)[0] => Node(t, 0, k) = Node(s, 0, k)
                      /\ k > Ancestor(n)[0] => Node(t, 0, k) = zeros[0]
    OBVIOUS
  <2>1. Levels - 0 = Levels /\ Ancestor(n)[0] = n /\ zeros[0] = ZeroValue
    BY PoolAssumption, AncestorEquation, ZerosEquation
  <2>2. /\ Node(t, 0, k) = IF k < n + 1 THEN t[k + 1] ELSE ZeroValue
        /\ Node(s, 0, k) = IF k < n THEN s[k + 1] ELSE ZeroValue
    BY <1>1, <2>1, Nodes
  <2>3. k < n => t[k + 1] = s[k + 1]
    BY <1>1
  <2>4. k \in Nat /\ n \in Nat
    BY <1>1
  <2> HIDE DEF n
  <2> QED
    BY <2>1, <2>2, <2>3, <2>4
<1>3. ASSUME NEW h \in Nat, h \in S
      PROVE  h + 1 \in S
  <2> SUFFICES ASSUME h + 1 \in Height, NEW k \in 0 .. 2^(Levels - (h + 1)) - 1
               PROVE  /\ k # Ancestor(n)[h + 1] => Node(t, h + 1, k) = Node(s, h + 1, k)
                      /\ k > Ancestor(n)[h + 1] => Node(t, h + 1, k) = zeros[h + 1]
    OBVIOUS
  <2>1. h \in 0 .. Levels - 1 /\ h \in Height
    BY PoolAssumption DEF Height
  <2> DEFINE a == Ancestor(n)[h]
  <2>2. a \in Nat /\ Ancestor(n)[h + 1] = a \div 2
    BY <1>1, <2>1, AncestorBounds, AncestorEquation
  <2>3. /\ 2 * k \in 0 .. 2^(Levels - h) - 1 /\ 2 * k + 1 \in 0 .. 2^(Levels - h) - 1
        /\ Node(s, h + 1, k) = hashLeftRight(Node(s, h, 2 * k), Node(s, h, 2 * k + 1))
        /\ Node(t, h + 1, k) = hashLeftRight(Node(t, h, 2 * k), Node(t, h, 2 * k + 1))
    BY <2>1, Nodes
  <2>4. zeros[h + 1] = hashLeftRight(zeros[h], zeros[h])
    BY <2>1, ZerosEquation
  <2>5. \A j \in 0 .. 2^(Levels - h) - 1 :
           /\ j # a => Node(t, h, j) = Node(s, h, j)
           /\ j > a => Node(t, h, j) = zeros[h]
    BY <1>3, <2>1
  <2> HIDE DEF a
  <2>6. k \in Nat
    BY <2>3
  <2>7. /\ k # a \div 2 => 2 * k # a /\ 2 * k + 1 # a
        /\ k > a \div 2 => 2 * k > a /\ 2 * k + 1 > a
    BY <2>2, <2>6, Halving
  <2> QED
    BY <2>2, <2>3, <2>4, <2>5, <2>7
<1> HIDE DEF S
<1>4. \A h \in Nat : h \in S
  BY <1>2, <1>3, NatSetInduction
<1> QED
  BY <1>4 DEF S, Height

-----------------------------------------------------------------------------
(* One insertion: the path up is that of the whole tree, and what the       *)
(* contract remembers of each level suffices for the next one.              *)

\* Where the next leaf's ancestor is a right child, its left sibling is remembered.
Remembered(filled, s) ==
    \A h \in 0 .. Levels - 1 :
        Ancestor(Len(s))[h] % 2 # 0 => filled[h] = Node(s, h, Ancestor(Len(s))[h] - 1)

LEMMA PathIsTree ==
    ASSUME NEW s, NEW t, NEW leaf, Extends(t, s, leaf), Remembered(filledSubtrees, s)
    PROVE  \A h \in Height : PathUp(leaf, Len(s))[h] = Node(t, h, Ancestor(Len(s))[h])
<1> DEFINE n == Len(s)
           S == {h \in Nat : h \in Height =>
                    PathUp(leaf, n)[h] = Node(t, h, Ancestor(n)[h])}
<1>1. n \in 0 .. 2^Levels - 1 /\ Len(t) = n + 1 /\ t[n + 1] = leaf
  BY DEF Extends
<1>2. 0 \in S
  <2>1. PathUp(leaf, n)[0] = leaf /\ Ancestor(n)[0] = n
    BY PathUpEquation, AncestorEquation
  <2>2. Node(t, 0, n) = IF n < n + 1 THEN t[n + 1] ELSE ZeroValue
    BY <1>1, Nodes
  <2>3. n < n + 1
    BY <1>1
  <2> QED
    BY <1>1, <2>1, <2>2, <2>3
<1>3. ASSUME NEW h \in Nat, h \in S
      PROVE  h + 1 \in S
  <2> SUFFICES ASSUME h + 1 \in Height
               PROVE  PathUp(leaf, n)[h + 1] = Node(t, h + 1, Ancestor(n)[h + 1])
    OBVIOUS
  <2>1. h \in 0 .. Levels - 1 /\ h \in Height
    BY PoolAssumption DEF Height
  <2> DEFINE a == Ancestor(n)[h]
             k == Ancestor(n)[h + 1]
  <2>2. /\ a \in 0 .. 2^(Levels - h) - 1 /\ k \in 0 .. 2^(Levels - (h + 1)) - 1
        /\ k = a \div 2
    BY <1>1, <2>1, AncestorBounds, AncestorEquation
  <2>3. /\ 2 * k \in 0 .. 2^(Levels - h) - 1 /\ 2 * k + 1 \in 0 .. 2^(Levels - h) - 1
        /\ Node(t, h + 1, k) = hashLeftRight(Node(t, h, 2 * k), Node(t, h, 2 * k + 1))
    BY <2>1, <2>2, Nodes
  <2>4. \A j \in 0 .. 2^(Levels - h) - 1 :
           /\ j # a => Node(t, h, j) = Node(s, h, j)
           /\ j > a => Node(t, h, j) = zeros[h]
    BY <2>1, NodesKept
  <2>5. PathUp(leaf, n)[h] = Node(t, h, a)
    BY <1>3, <2>1
  <2>6. PathUp(leaf, n)[h + 1] =
           IF a % 2 = 0 THEN hashLeftRight(PathUp(leaf, n)[h], zeros[h])
           ELSE hashLeftRight(filledSubtrees[h], PathUp(leaf, n)[h])
    BY <2>1, PathUpEquation DEF IsLeft
  <2>7. a % 2 # 0 => filledSubtrees[h] = Node(s, h, a - 1)
    BY <2>1 DEF Remembered
  <2> HIDE DEF a, k, n
  <2>8. CASE a % 2 = 0
    <3>1. a = 2 * k /\ 2 * k + 1 > a
      BY <2>2, <2>8, Halving
    <3>2. Node(t, h, 2 * k + 1) = zeros[h]
      BY <2>3, <2>4, <3>1
    <3>3. PathUp(leaf, n)[h + 1] = hashLeftRight(Node(t, h, a), zeros[h])
      BY <2>5, <2>6, <2>8
    <3>4. Node(t, h, 2 * k) = Node(t, h, a)
      BY <3>1
    <3> QED
      BY <2>3, <3>2, <3>3, <3>4 DEF k
  <2>9. CASE a % 2 # 0
    <3>1. a = 2 * k + 1 /\ 2 * k # a /\ a - 1 = 2 * k
      BY <2>2, <2>9, Halving
    <3>2. Node(t, h, 2 * k) = Node(s, h, 2 * k)
      BY <2>3, <2>4, <3>1
    <3>3. PathUp(leaf, n)[h + 1] = hashLeftRight(Node(s, h, a - 1), Node(t, h, a))
      BY <2>5, <2>6, <2>7, <2>9
    <3>4. Node(t, h, 2 * k + 1) = Node(t, h, a) /\ Node(s, h, 2 * k) = Node(s, h, a - 1)
      BY <3>1
    <3> QED
      BY <2>3, <3>2, <3>3, <3>4 DEF k
  <2> QED
    BY <2>8, <2>9
<1> HIDE DEF S
<1>4. \A h \in Nat : h \in S
  BY <1>2, <1>3, NatSetInduction
<1> QED
  BY <1>4 DEF S, Height

\* The path ends in the root of the tree.
LEMMA PathEndsInRoot ==
    ASSUME NEW s, NEW t, NEW leaf, Extends(t, s, leaf), Remembered(filledSubtrees, s)
    PROVE  PathUp(leaf, Len(s))[Levels] = RootOf(t)
<1>1. Levels \in Height /\ Len(s) \in 0 .. 2^Levels - 1
  BY LevelsUp DEF Extends
<1>2. Ancestor(Len(s))[Levels] \in 0 .. 2^(Levels - Levels) - 1
  BY <1>1, AncestorBounds
<1>3. Ancestor(Len(s))[Levels] = 0
  BY <1>2, Widths
<1> QED
  BY <1>1, <1>3, PathIsTree DEF RootOf, Node

\* The next leaf has the same ancestors as this one, or their right neighbours.
LEMMA NextAncestor ==
    ASSUME NEW n \in 0 .. 2^Levels - 1
    PROVE  \A h \in Height : Ancestor(n + 1)[h] \in {Ancestor(n)[h], Ancestor(n)[h] + 1}
<1> DEFINE S == {h \in Nat : h \in Height =>
                    Ancestor(n + 1)[h] \in {Ancestor(n)[h], Ancestor(n)[h] + 1}}
<1>1. 0 \in S
  BY AncestorEquation
<1>2. ASSUME NEW h \in Nat, h \in S
      PROVE  h + 1 \in S
  <2> SUFFICES ASSUME h + 1 \in Height
               PROVE  Ancestor(n + 1)[h + 1] \in {Ancestor(n)[h + 1], Ancestor(n)[h + 1] + 1}
    OBVIOUS
  <2>1. h \in 0 .. Levels - 1 /\ h \in Height
    BY PoolAssumption DEF Height
  <2> DEFINE a == Ancestor(n)[h]
             b == Ancestor(n + 1)[h]
  <2>2. a \in Nat /\ b \in {a, a + 1}
    BY <1>2, <2>1, AncestorBounds
  <2>3. Ancestor(n)[h + 1] = a \div 2 /\ Ancestor(n + 1)[h + 1] = b \div 2
    BY <2>1, AncestorEquation
  <2> HIDE DEF a, b
  <2>4. b \div 2 \in {a \div 2, a \div 2 + 1}
    BY <2>2
  <2> QED
    BY <2>3, <2>4
<1> HIDE DEF S
<1>3. \A h \in Nat : h \in S
  BY <1>1, <1>2, NatSetInduction
<1> QED
  BY <1>3 DEF S, Height

LEMMA FillRemembers ==
    ASSUME NEW s, NEW t, NEW leaf, Extends(t, s, leaf), Remembered(filledSubtrees, s)
    PROVE  Remembered(Fill(PathUp(leaf, Len(s)), Len(s)), t)
<1> DEFINE n == Len(s)
           filled == Fill(PathUp(leaf, n), n)
<1>1. n \in 0 .. 2^Levels - 1 /\ Len(t) = n + 1
  BY DEF Extends
<1> SUFFICES ASSUME NEW h \in 0 .. Levels - 1, Ancestor(n + 1)[h] % 2 # 0
             PROVE  filled[h] = Node(t, h, Ancestor(n + 1)[h] - 1)
  BY <1>1 DEF Remembered
<1>2. h \in Height
  BY LevelsUp
<1> DEFINE a == Ancestor(n)[h]
           b == Ancestor(n + 1)[h]
<1>3. a \in 0 .. 2^(Levels - h) - 1 /\ b \in {a, a + 1} /\ b % 2 # 0
  BY <1>1, <1>2, AncestorBounds, NextAncestor
<1>4. filled[h] = IF a % 2 = 0 THEN PathUp(leaf, n)[h] ELSE filledSubtrees[h]
  BY DEF Fill, IsLeft
<1>5. PathUp(leaf, n)[h] = Node(t, h, a)
  BY <1>2, PathIsTree
<1>6. a % 2 # 0 => filledSubtrees[h] = Node(s, h, a - 1)
  BY DEF Remembered
<1>7. \A j \in 0 .. 2^(Levels - h) - 1 : j # a => Node(t, h, j) = Node(s, h, j)
  BY <1>2, NodesKept
<1>8. filled[h] = Node(t, h, b - 1)
  <2> HIDE DEF a, b, n, filled
  <2>1. CASE a % 2 = 0
    <3>1. b - 1 = a
      BY <1>3, <2>1
    <3> QED
      BY <1>4, <1>5, <2>1, <3>1
  <2>2. CASE a % 2 # 0
    <3>1. b - 1 = a - 1 /\ a - 1 \in 0 .. 2^(Levels - h) - 1 /\ a - 1 # a
      <4>1. b = a
        BY <1>3, <2>2
      <4>2. a \in Nat /\ a # 0
        BY <1>3, <2>2
      <4> DEFINE w == 2^(Levels - h)
      <4>3. a \in 0 .. w - 1 /\ w \in Nat
        BY <1>2, <1>3, Widths
      <4> HIDE DEF w
      <4>4. a - 1 \in 0 .. w - 1 /\ a - 1 # a
        BY <4>2, <4>3
      <4> QED
        BY <4>1, <4>4 DEF w
    <3> QED
      BY <1>4, <1>6, <1>7, <2>2, <3>1
  <2> QED
    BY <2>1, <2>2
<1> QED
  BY <1>8

\* Before the first leaf there is nothing to remember.
LEMMA AncestorOfZero == \A h \in Height : Ancestor(0)[h] = 0
<1> DEFINE S == {h \in Nat : h \in Height => Ancestor(0)[h] = 0}
<1>1. 0 \in S
  BY AncestorEquation
<1>2. ASSUME NEW h \in Nat, h \in S
      PROVE  h + 1 \in S
  <2> SUFFICES ASSUME h + 1 \in Height
               PROVE  Ancestor(0)[h + 1] = 0
    OBVIOUS
  <2>1. h \in 0 .. Levels - 1 /\ h \in Height
    BY PoolAssumption DEF Height
  <2>2. Ancestor(0)[h] = 0 /\ Ancestor(0)[h + 1] = Ancestor(0)[h] \div 2
    BY <1>2, <2>1, AncestorEquation
  <2> QED
    BY <2>2
<1> HIDE DEF S
<1>3. \A h \in Nat : h \in S
  BY <1>1, <1>2, NatSetInduction
<1> QED
  BY <1>3 DEF S, Height

-----------------------------------------------------------------------------
(* Different trees have different roots.                                    *)

\* The leaves of a tree that is neither empty nor too large.
Filled(s, n) == n \in 1 .. 2^Levels /\ s \in [1 .. n -> Commitments] /\ Len(s) = n

\* A root determines every node, and so every leaf.
LEMMA RootDetermines ==
    ASSUME NEW s, NEW t, RootOf(s) = RootOf(t)
    PROVE  \A k \in 0 .. 2^Levels - 1 : Node(s, 0, k) = Node(t, 0, k)
<1> DEFINE S == {d \in Nat : d <= Levels =>
                    \A k \in 0 .. 2^d - 1 : Node(s, Levels - d, k) = Node(t, Levels - d, k)}
<1>1. 0 \in S
  <2>1. Levels - 0 = Levels
    BY PoolAssumption
  <2>2. \A k \in 0 .. 2^0 - 1 : k = 0
    BY PowersOfTwo
  <2> QED
    BY <2>1, <2>2 DEF RootOf, Node
<1>2. ASSUME NEW d \in Nat, d \in S
      PROVE  d + 1 \in S
  <2> SUFFICES ASSUME d + 1 <= Levels, NEW k \in 0 .. 2^(d + 1) - 1
               PROVE  Node(s, Levels - (d + 1), k) = Node(t, Levels - (d + 1), k)
    OBVIOUS
  <2> DEFINE h == Levels - (d + 1)
             j == k \div 2
  <2>1. h \in 0 .. Levels - 1 /\ h + 1 = Levels - d /\ Levels - (h + 1) = d /\ d <= Levels
    BY PoolAssumption
  <2>2. 2^d \in Nat /\ 2^(d + 1) = 2 * 2^d
    BY PowersOfTwo
  <2>3. j \in 0 .. 2^d - 1 /\ k \in Nat
    BY <2>2
  <2>4. Node(s, h + 1, j) = Node(t, h + 1, j)
    BY <1>2, <2>1, <2>3
  <2>5. /\ Node(s, h + 1, j) = hashLeftRight(Node(s, h, 2 * j), Node(s, h, 2 * j + 1))
        /\ Node(t, h + 1, j) = hashLeftRight(Node(t, h, 2 * j), Node(t, h, 2 * j + 1))
    BY <2>1, <2>3, Nodes
  <2>6. Node(s, h, 2 * j) = Node(t, h, 2 * j) /\ Node(s, h, 2 * j + 1) = Node(t, h, 2 * j + 1)
    BY <2>4, <2>5 DEF hashLeftRight
  <2>7. k = 2 * j \/ k = 2 * j + 1
    BY <2>3, Halving
  <2> HIDE DEF h, j
  <2>8. Node(s, h, k) = Node(t, h, k)
    BY <2>6, <2>7
  <2> QED
    BY <2>8 DEF h
<1> HIDE DEF S
<1>3. \A d \in Nat : d \in S
  BY <1>1, <1>2, NatSetInduction
<1>4. Levels \in Nat /\ Levels <= Levels /\ Levels - Levels = 0
  BY PoolAssumption
<1> QED
  BY <1>3, <1>4 DEF S

\* Trees of which one continues the other have one root only when what it adds is zeros.
LEMMA SameRoot ==
    ASSUME NEW s, NEW m, Filled(s, m), NEW t, NEW n, Filled(t, n), m < n, RootOf(s) = RootOf(t)
    PROVE  \A k \in m + 1 .. n : t[k] = ZeroValue
<1> SUFFICES ASSUME NEW k \in m + 1 .. n PROVE t[k] = ZeroValue
  OBVIOUS
<1>1. 2^Levels \in Nat
  BY PoolAssumption, PowersOfTwo
<1>2. /\ k - 1 \in 0 .. 2^Levels - 1 /\ ~(k - 1 < m) /\ k - 1 < n /\ (k - 1) + 1 = k
      /\ Len(s) = m /\ Len(t) = n
  BY <1>1 DEF Filled
<1>3. Node(s, 0, k - 1) = ZeroValue /\ Node(t, 0, k - 1) = t[k]
  BY <1>2, Nodes
<1> QED
  BY <1>2, <1>3, RootDetermines

\* A zero for the next leaf changes no node.
LEMMA ZeroLeafSameRoot ==
    ASSUME NEW s, NEW t, Extends(t, s, ZeroValue)
    PROVE  RootOf(t) = RootOf(s)
<1> DEFINE S == {h \in Nat : h \in Height =>
                    \A k \in 0 .. 2^(Levels - h) - 1 : Node(t, h, k) = Node(s, h, k)}
<1>1. 0 \in S
  <2> SUFFICES ASSUME NEW k \in 0 .. 2^(Levels - 0) - 1
               PROVE  Node(t, 0, k) = Node(s, 0, k)
    OBVIOUS
  <2> DEFINE n == Len(s)
  <2>1. /\ n \in Nat /\ Len(t) = n + 1 /\ t[n + 1] = ZeroValue
        /\ \A j \in 1 .. n : t[j] = s[j]
    BY DEF Extends
  <2>2. Levels - 0 = Levels
    BY PoolAssumption
  <2>3. /\ Node(t, 0, k) = IF k < n + 1 THEN t[k + 1] ELSE ZeroValue
        /\ Node(s, 0, k) = IF k < n THEN s[k + 1] ELSE ZeroValue
    BY <2>1, <2>2, Nodes
  <2> HIDE DEF n
  <2>4. CASE k < n
    BY <2>1, <2>3, <2>4
  <2>5. CASE k = n
    BY <2>1, <2>3, <2>5
  <2>6. CASE k > n
    BY <2>1, <2>3, <2>6
  <2> QED
    BY <2>1, <2>4, <2>5, <2>6
<1>2. ASSUME NEW h \in Nat, h \in S
      PROVE  h + 1 \in S
  <2> SUFFICES ASSUME h + 1 \in Height, NEW k \in 0 .. 2^(Levels - (h + 1)) - 1
               PROVE  Node(t, h + 1, k) = Node(s, h + 1, k)
    OBVIOUS
  <2>1. h \in 0 .. Levels - 1 /\ h \in Height
    BY PoolAssumption DEF Height
  <2>2. /\ 2 * k \in 0 .. 2^(Levels - h) - 1 /\ 2 * k + 1 \in 0 .. 2^(Levels - h) - 1
        /\ Node(s, h + 1, k) = hashLeftRight(Node(s, h, 2 * k), Node(s, h, 2 * k + 1))
        /\ Node(t, h + 1, k) = hashLeftRight(Node(t, h, 2 * k), Node(t, h, 2 * k + 1))
    BY <2>1, Nodes
  <2> QED
    BY <1>2, <2>1, <2>2
<1> HIDE DEF S
<1>3. \A h \in Nat : h \in S
  BY <1>1, <1>2, NatSetInduction
<1>4. \A k \in 0 .. 2^(Levels - Levels) - 1 : Node(t, Levels, k) = Node(s, Levels, k)
  BY <1>3, LevelsUp, PoolAssumption DEF S
<1>5. 0 \in 0 .. 2^(Levels - Levels) - 1
  BY Widths
<1> QED
  BY <1>4, <1>5 DEF RootOf, Node

\* The root the constructor writes is of no tree that holds a leaf.
LEMMA ZeroRootDiffers ==
    ASSUME NEW s, NEW n, Filled(s, n)
    PROVE  zeros[Levels - 1] # RootOf(s)
<1> DEFINE S == {h \in Nat : h <= Levels - 1 => zeros[h] # Node(s, h + 1, 0)}
<1>1. ASSUME NEW h \in 0 .. Levels - 1
      PROVE  Node(s, h + 1, 0) = hashLeftRight(Node(s, h, 0), Node(s, h, 1))
  <2>1. 2^(Levels - (h + 1)) \in Nat /\ 0 \in 0 .. 2^(Levels - (h + 1)) - 1
    <3>1. Levels - (h + 1) \in Nat
      BY PoolAssumption
    <3>2. \A d \in Nat : 2^d \in Nat /\ 2^d # 0
      BY PowerPositive
    <3> DEFINE w == 2^(Levels - (h + 1))
    <3>3. w \in Nat /\ w # 0
      BY <3>1, <3>2
    <3> HIDE DEF w
    <3>4. 0 \in 0 .. w - 1
      BY <3>3
    <3> QED
      BY <3>3, <3>4 DEF w
  <2>2. 2 * 0 = 0 /\ 2 * 0 + 1 = 1
    OBVIOUS
  <2> QED
    BY <2>1, <2>2, Nodes
<1>2. 0 \in S
  <2>1. 0 \in 0 .. Levels - 1
    BY PoolAssumption
  <2>2. 0 \in 0 .. 2^Levels - 1 /\ 1 \in 0 .. 2^Levels - 1
    <3>1. Levels - 1 \in Nat /\ Levels = (Levels - 1) + 1
      BY PoolAssumption
    <3>2. 2^(Levels - 1) \in Nat /\ 2^(Levels - 1) # 0 /\ 2^Levels = 2 * 2^(Levels - 1)
      BY <3>1, PowersOfTwo, PowerPositive
    <3> QED
      BY <3>2
  <2>3. Node(s, 0, 0) \in Commitments \cup {ZeroValue}
    BY <2>2, Nodes DEF Filled
  <2>4. Node(s, 0, 1) \in Commitments \cup {ZeroValue}
    BY <2>2, Nodes DEF Filled
  <2> QED
    BY <1>1, <2>1, <2>3, <2>4, ZerosEquation, HashAssumption
<1>3. ASSUME NEW h \in Nat, h \in S
      PROVE  h + 1 \in S
  <2> SUFFICES ASSUME h + 1 <= Levels - 1, zeros[h + 1] = Node(s, (h + 1) + 1, 0)
               PROVE  FALSE
    OBVIOUS
  <2>1. h \in 0 .. Levels - 1 /\ h + 1 \in 0 .. Levels - 1 /\ h <= Levels - 1
    BY PoolAssumption
  <2>2. zeros[h + 1] = hashLeftRight(zeros[h], zeros[h])
    BY <2>1, ZerosEquation
  <2>3. Node(s, (h + 1) + 1, 0) = hashLeftRight(Node(s, h + 1, 0), Node(s, h + 1, 1))
    BY <1>1, <2>1
  <2>4. zeros[h] # Node(s, h + 1, 0)
    BY <1>3, <2>1
  <2> QED
    BY <2>2, <2>3, <2>4 DEF hashLeftRight
<1> HIDE DEF S
<1>4. \A h \in Nat : h \in S
  BY <1>2, <1>3, NatSetInduction
<1>5. Levels - 1 \in Nat /\ Levels - 1 <= Levels - 1 /\ (Levels - 1) + 1 = Levels
  BY PoolAssumption
<1>6. zeros[Levels - 1] # Node(s, Levels, 0)
  BY <1>4, <1>5 DEF S
<1> QED
  BY <1>6 DEF RootOf, Node

-----------------------------------------------------------------------------
(* The inductive invariant.                                                 *)

\* How many deposits ago a slot of the ring was written.
Age(i, current) == IF i <= current THEN current - i ELSE current - i + RootHistorySize

\* What a slot written a deposits ago holds, when there are n leaves.
RootAged(s, n, a) ==
    IF a < n THEN RootOf(SubSeq(s, 1, n - a))
    ELSE IF a = n THEN zeros[Levels - 1] ELSE NoRoot

RingInv == \A i \in Ring : roots[i] = RootAged(leaves, nextIndex, Age(i, currentRootIndex))

TreeInv ==
    /\ DOMAIN filledSubtrees = 0 .. Levels - 1 /\ DOMAIN roots = Ring
    /\ currentRootIndex \in Ring
    /\ nextIndex \in 0 .. 2^Levels
    /\ leaves \in Seq(Commitments) /\ Len(leaves) = nextIndex
    /\ Remembered(filledSubtrees, leaves)

NullifiersOf(C) == {nullifierOf[c] : c \in C}

NotesInv ==
    /\ commitments \in SUBSET Commitments /\ Cardinality(commitments) = nextIndex
    /\ \A k \in 1 .. nextIndex : leaves[k] \in commitments
    /\ \A j, k \in 1 .. nextIndex : leaves[j] = leaves[k] => j = k
    /\ nullifierHashes \in SUBSET NullifiersOf(commitments)
    /\ pool = Denomination * (nextIndex - Cardinality(nullifierHashes))

PoolInv == TreeInv /\ RingInv /\ NotesInv

LEMMA NullifiersCount ==
    ASSUME NEW C \in SUBSET Commitments
    PROVE  /\ IsFiniteSet(C) /\ Cardinality(C) \in Nat
           /\ IsFiniteSet(NullifiersOf(C)) /\ Cardinality(NullifiersOf(C)) \in Nat
           /\ Cardinality(NullifiersOf(C)) <= Cardinality(C)
<1> DEFINE f == [c \in C |-> nullifierOf[c]]
<1>1. IsFiniteSet(C)
  BY FS_Subset, PoolAssumption
<1>2. f \in Surjection(C, NullifiersOf(C))
  BY DEF Surjection, NullifiersOf
<1>3. IsFiniteSet(NullifiersOf(C)) /\ Cardinality(NullifiersOf(C)) <= Cardinality(C)
  BY <1>1, <1>2, FS_Surjection
<1> QED
  BY <1>1, <1>3, FS_CardinalityType

\* The notes spent are notes, and the rest are as many as the difference.
LEMMA UnspentCount ==
    ASSUME NEW C \in SUBSET Commitments, NEW H \in SUBSET NullifiersOf(C)
    PROVE  /\ IsFiniteSet(H) /\ Cardinality(H) \in Nat /\ Cardinality(H) <= Cardinality(C)
           /\ Cardinality(NullifiersOf(C) \ H) \in Nat
           /\ Cardinality(NullifiersOf(C) \ H) <= Cardinality(C) - Cardinality(H)
<1>1. IsFiniteSet(H) /\ Cardinality(H) <= Cardinality(NullifiersOf(C))
  BY NullifiersCount, FS_Subset
<1>2. NullifiersOf(C) \cap H = H
  OBVIOUS
<1>3. /\ IsFiniteSet(NullifiersOf(C) \ H)
      /\ Cardinality(NullifiersOf(C) \ H) = Cardinality(NullifiersOf(C)) - Cardinality(H)
  BY <1>2, NullifiersCount, FS_Difference
<1>4. Cardinality(H) \in Nat /\ Cardinality(NullifiersOf(C) \ H) \in Nat
  BY <1>1, <1>3, FS_CardinalityType
<1> QED
  BY <1>1, <1>3, <1>4, NullifiersCount

LEMMA PrefixFilled ==
    ASSUME NEW s \in Seq(Commitments), Len(s) \in 0 .. 2^Levels, NEW n \in 1 .. Len(s)
    PROVE  Filled(SubSeq(s, 1, n), n)
<1>1. 2^Levels \in Nat
  BY PoolAssumption, PowersOfTwo
<1>2. n \in 1 .. 2^Levels
  BY <1>1
<1>3. SubSeq(s, 1, n) \in [1 .. n -> Commitments] /\ Len(SubSeq(s, 1, n)) = n
  <2>1. \A k \in 1 .. n : s[k] \in Commitments
    OBVIOUS
  <2>2. SubSeq(s, 1, n) \in Seq(Commitments) /\ Len(SubSeq(s, 1, n)) = n
    BY <2>1, SubSeqProperties
  <2> QED
    BY <2>2, LenProperties
<1> QED
  BY <1>2, <1>3 DEF Filled

\* The trees there were before a deposit are those there were after it.
LEMMA PrefixesKept ==
    ASSUME NEW s \in Seq(Commitments), NEW c \in Commitments
    PROVE  /\ Append(s, c) \in Seq(Commitments) /\ Len(Append(s, c)) = Len(s) + 1
           /\ \A n \in 1 .. Len(s) : SubSeq(Append(s, c), 1, n) = SubSeq(s, 1, n)
           /\ SubSeq(Append(s, c), 1, Len(s) + 1) = Append(s, c)
           /\ Len(s) \in 0 .. 2^Levels - 1 => Extends(Append(s, c), s, c)
<1>1. /\ Append(s, c) \in Seq(Commitments) /\ Len(Append(s, c)) = Len(s) + 1 /\ Len(s) \in Nat
      /\ \A k \in 1 .. Len(s) : Append(s, c)[k] = s[k]
      /\ Append(s, c)[Len(s) + 1] = c
  OBVIOUS
<1>2. ASSUME NEW n \in 1 .. Len(s)
      PROVE  SubSeq(Append(s, c), 1, n) = SubSeq(s, 1, n)
  BY SubSeqProperties, <1>1
<1>3. SubSeq(Append(s, c), 1, Len(s) + 1) = Append(s, c)
  BY <1>1, SubSeqFull
<1> QED
  BY <1>1, <1>2, <1>3 DEF Extends

LEMMA NextSlot ==
    ASSUME NEW c \in Ring
    PROVE  /\ (c + 1) % RootHistorySize = IF c + 1 = RootHistorySize THEN 0 ELSE c + 1
           /\ (c + 1) % RootHistorySize \in Ring
           /\ \A i \in Ring : Age(i, (c + 1) % RootHistorySize) =
                 IF i = (c + 1) % RootHistorySize THEN 0 ELSE Age(i, c) + 1
           /\ \A i \in Ring : Age(i, c) \in Ring
           /\ \A a \in Ring : \E i \in Ring : Age(i, c) = a
<1> DEFINE N == RootHistorySize
           d == (c + 1) % N
<1>1. c \in 0 .. N - 1 /\ N \in Nat \ {0} /\ Ring = 0 .. N - 1
  BY PoolAssumption DEF Ring
<1>2. d = IF c + 1 = N THEN 0 ELSE c + 1
  <2> HIDE DEF N
  <2> QED
    BY <1>1
<1> HIDE DEF d
<1>3. d \in Ring /\ \A i \in Ring : Age(i, d) = IF i = d THEN 0 ELSE Age(i, c) + 1
  BY <1>1, <1>2 DEF Age
<1>4. \A i \in Ring : Age(i, c) \in Ring
  BY <1>1 DEF Age
<1>5. ASSUME NEW a \in Ring
      PROVE  \E i \in Ring : Age(i, c) = a
  <2>1. CASE a <= c
    <3>1. c - a \in Ring /\ Age(c - a, c) = a
      BY <1>1, <2>1 DEF Age
    <3> QED
      BY <3>1
  <2>2. CASE ~(a <= c)
    <3>1. c - a + N \in Ring /\ Age(c - a + N, c) = a
      BY <1>1, <2>2 DEF Age
    <3> QED
      BY <3>1
  <2> QED
    BY <2>1, <2>2
<1> QED
  BY <1>2, <1>3, <1>4, <1>5 DEF d

-----------------------------------------------------------------------------
(* The initial state and each step.                                         *)

LEMMA InitPool == Init => PoolInv
<1> SUFFICES ASSUME Init PROVE PoolInv
  OBVIOUS
<1>1. 2^Levels \in Nat /\ RootHistorySize \in Nat \ {0}
  BY PoolAssumption, PowersOfTwo
<1>2. TreeInv
  <2>1. leaves \in Seq(Commitments) /\ Len(leaves) = 0
    BY DEF Init
  <2>2. currentRootIndex \in Ring /\ nextIndex \in 0 .. 2^Levels
    BY <1>1 DEF Init, Ring
  <2>3. Remembered(filledSubtrees, leaves)
    <3>1. \A h \in 0 .. Levels - 1 : Ancestor(0)[h] = 0
      BY AncestorOfZero, LevelsUp
    <3>2. \A h \in 0 .. Levels - 1 : Ancestor(0)[h] % 2 = 0
      BY <3>1
    <3> QED
      BY <2>1, <3>2 DEF Remembered
  <2> QED
    BY <2>1, <2>2, <2>3 DEF TreeInv, Init
<1>3. RingInv
  <2>1. \A i \in Ring : Age(i, 0) = IF i = 0 THEN 0 ELSE RootHistorySize - i
    BY <1>1 DEF Age, Ring
  <2>2. \A i \in Ring : Age(i, 0) \in Nat /\ (Age(i, 0) = 0 <=> i = 0)
    BY <1>1, <2>1 DEF Ring
  <2> QED
    BY <2>2 DEF Init, RingInv, RootAged
<1>4. NotesInv
  <2>1. IsFiniteSet({}) /\ Cardinality({}) = 0
    BY FS_EmptySet
  <2> QED
    BY <2>1, PoolAssumption DEF Init, NotesInv
<1> QED
  BY <1>2, <1>3, <1>4 DEF PoolInv

\* A deposit writes the root of the tree with its leaf, and the older trees stay.
LEMMA DepositTree ==
    ASSUME TreeInv, NEW c \in Commitments, deposit(c)
    PROVE  /\ TreeInv'
           /\ roots' = [roots EXCEPT ![NextRootIndex] = RootOf(SubSeq(leaves', 1, nextIndex'))]
           /\ \A n \in 1 .. nextIndex : SubSeq(leaves', 1, n) = SubSeq(leaves, 1, n)
<1> DEFINE up == PathUp(c, nextIndex)
<1>1. 2^Levels \in Nat
  BY PoolAssumption, PowersOfTwo
<1>2. /\ nextIndex # 2^Levels
      /\ filledSubtrees' = Fill(up, nextIndex)
      /\ currentRootIndex' = NextRootIndex
      /\ roots' = [roots EXCEPT ![NextRootIndex] = up[Levels]]
      /\ nextIndex' = nextIndex + 1
      /\ leaves' = Append(leaves, c)
  BY DEF deposit, insert
<1>3. /\ leaves \in Seq(Commitments) /\ Len(leaves) = nextIndex
      /\ nextIndex \in 0 .. 2^Levels - 1 /\ nextIndex + 1 \in 0 .. 2^Levels
      /\ Remembered(filledSubtrees, leaves)
  BY <1>1, <1>2 DEF TreeInv
<1>4. /\ leaves' \in Seq(Commitments) /\ Len(leaves') = nextIndex + 1
      /\ \A n \in 1 .. nextIndex : SubSeq(leaves', 1, n) = SubSeq(leaves, 1, n)
      /\ SubSeq(leaves', 1, nextIndex + 1) = leaves'
      /\ Extends(leaves', leaves, c)
  BY <1>2, <1>3, PrefixesKept
<1>5. Remembered(filledSubtrees', leaves')
  BY <1>2, <1>3, <1>4, FillRemembers
<1>6. up[Levels] = RootOf(leaves')
  BY <1>3, <1>4, PathEndsInRoot
<1>7. NextRootIndex \in Ring
  BY NextSlot DEF TreeInv, NextRootIndex
<1>8. TreeInv'
  <2>1. DOMAIN filledSubtrees' = 0 .. Levels - 1
    BY <1>2 DEF Fill
  <2>2. DOMAIN roots' = Ring
    BY <1>2 DEF TreeInv
  <2>3. nextIndex' \in 0 .. 2^Levels
    BY <1>2, <1>3
  <2> QED
    BY <1>2, <1>4, <1>5, <1>7, <2>1, <2>2, <2>3 DEF TreeInv
<1> QED
  BY <1>2, <1>4, <1>6, <1>8

\* A deposit overwrites the oldest root of the ring, and the others grow one older.
LEMMA DepositRing ==
    ASSUME TreeInv, RingInv, NEW c \in Commitments, deposit(c)
    PROVE  RingInv'
<1>1. /\ roots' = [roots EXCEPT ![NextRootIndex] = RootOf(SubSeq(leaves', 1, nextIndex'))]
      /\ \A n \in 1 .. nextIndex : SubSeq(leaves', 1, n) = SubSeq(leaves, 1, n)
      /\ currentRootIndex' = NextRootIndex /\ nextIndex' = nextIndex + 1
      /\ nextIndex \in Nat /\ DOMAIN roots = Ring /\ currentRootIndex \in Ring
  <2>1. nextIndex \in Nat /\ DOMAIN roots = Ring /\ currentRootIndex \in Ring
    BY DEF TreeInv
  <2>2. currentRootIndex' = NextRootIndex /\ nextIndex' = nextIndex + 1
    BY DEF deposit, insert
  <2> QED
    BY <2>1, <2>2, DepositTree
<1>2. \A i \in Ring : /\ Age(i, currentRootIndex) \in Nat
                      /\ Age(i, NextRootIndex) =
                            IF i = NextRootIndex THEN 0 ELSE Age(i, currentRootIndex) + 1
  <2>1. \A a \in Ring : a \in Nat
    BY PoolAssumption DEF Ring
  <2> QED
    BY <1>1, <2>1, NextSlot DEF NextRootIndex
<1>3. ASSUME NEW i \in Ring
      PROVE  roots'[i] = RootAged(leaves', nextIndex', Age(i, NextRootIndex))
  <2>1. CASE i = NextRootIndex
    <3>1. roots'[i] = RootOf(SubSeq(leaves', 1, nextIndex'))
      BY <1>1, <2>1
    <3>2. 0 < nextIndex' /\ nextIndex' - 0 = nextIndex' /\ Age(i, NextRootIndex) = 0
      BY <1>1, <1>2, <2>1
    <3> QED
      BY <3>1, <3>2 DEF RootAged
  <2>2. CASE i # NextRootIndex
    <3> DEFINE a == Age(i, currentRootIndex)
    <3>1. roots'[i] = RootAged(leaves, nextIndex, a)
      BY <1>1, <2>2 DEF RingInv
    <3>2. a \in Nat /\ Age(i, NextRootIndex) = a + 1
      BY <1>2, <2>2
    <3> HIDE DEF a
    <3>3. /\ a + 1 < nextIndex' <=> a < nextIndex
          /\ a + 1 = nextIndex' <=> a = nextIndex
          /\ nextIndex' - (a + 1) = nextIndex - a
      BY <1>1, <3>2
    <3>4. a < nextIndex => SubSeq(leaves', 1, nextIndex - a) = SubSeq(leaves, 1, nextIndex - a)
      BY <1>1, <3>2
    <3>5. RootAged(leaves', nextIndex', a + 1) = RootAged(leaves, nextIndex, a)
      <4>1. CASE a < nextIndex
        BY <3>3, <3>4, <4>1 DEF RootAged
      <4>2. CASE ~(a < nextIndex)
        BY <3>3, <4>2 DEF RootAged
      <4> QED
        BY <4>1, <4>2
    <3> QED
      BY <3>1, <3>2, <3>5
  <2> QED
    BY <2>1, <2>2
<1> QED
  BY <1>1, <1>3 DEF RingInv

LEMMA DepositNotes ==
    ASSUME TreeInv, NotesInv, NEW c \in Commitments, deposit(c)
    PROVE  NotesInv'
<1>1. /\ c \notin commitments /\ commitments' = commitments \cup {c}
      /\ nullifierHashes' = nullifierHashes /\ pool' = pool + Denomination
      /\ leaves' = Append(leaves, c) /\ nextIndex' = nextIndex + 1
  BY DEF deposit, insert
<1>2. /\ leaves \in Seq(Commitments) /\ Len(leaves) = nextIndex /\ nextIndex \in Nat
  BY DEF TreeInv
<1>3. commitments' \in SUBSET Commitments /\ Cardinality(commitments') = nextIndex'
  <2>1. IsFiniteSet(commitments)
    BY NullifiersCount DEF NotesInv
  <2> QED
    BY <1>1, <2>1, FS_AddElement DEF NotesInv
<1>4. /\ \A k \in 1 .. nextIndex' : leaves'[k] \in commitments'
      /\ \A j, k \in 1 .. nextIndex' : leaves'[j] = leaves'[k] => j = k
  <2>1. /\ leaves'[nextIndex + 1] = c
        /\ \A k \in 1 .. nextIndex : leaves'[k] = leaves[k] /\ leaves[k] \in commitments
    BY <1>1, <1>2 DEF NotesInv
  <2>2. \A k \in 1 .. nextIndex' : k \in 1 .. nextIndex \/ k = nextIndex + 1
    BY <1>1, <1>2
  <2> QED
    BY <1>1, <2>1, <2>2 DEF NotesInv
<1>5. nullifierHashes' \in SUBSET NullifiersOf(commitments')
  BY <1>1 DEF NotesInv, NullifiersOf
<1>6. pool' = Denomination * (nextIndex' - Cardinality(nullifierHashes'))
  <2>1. Cardinality(nullifierHashes) \in Nat
    BY UnspentCount DEF NotesInv
  <2>2. \A d \in Nat, n \in Nat, h \in Nat : d * (n - h) + d = d * ((n + 1) - h)
    OBVIOUS
  <2> QED
    BY <1>1, <1>2, <2>1, <2>2, PoolAssumption DEF NotesInv
<1> QED
  BY <1>3, <1>4, <1>5, <1>6 DEF NotesInv

\* A withdrawal spends the nullifier of a note that was deposited.
LEMMA WithdrawNotes ==
    ASSUME TreeInv, NotesInv, NEW c \in Commitments, NEW n \in 1 .. nextIndex, NEW fee \in Fees,
           withdraw(c, n, fee)
    PROVE  NotesInv'
<1>1. /\ nullifierOf[c] \notin nullifierHashes
      /\ nullifierHashes' = nullifierHashes \cup {nullifierOf[c]}
      /\ pool' = pool - (Denomination - fee) - fee
      /\ UNCHANGED <<nextIndex, commitments, leaves>>
      /\ c \in LeavesOf(n)
  BY DEF withdraw, SpendNullifier, processWithdraw, tree
<1>2. nextIndex \in Nat /\ fee \in Nat /\ Denomination \in Nat
  BY PoolAssumption DEF TreeInv
<1>3. c \in commitments
  <2>1. \A k \in 1 .. n : k \in 1 .. nextIndex
    BY <1>2
  <2> QED
    BY <1>1, <2>1 DEF LeavesOf, NotesInv
<1>4. nullifierHashes' \in SUBSET NullifiersOf(commitments)
  BY <1>1, <1>3 DEF NotesInv, NullifiersOf
<1>5. /\ IsFiniteSet(nullifierHashes) /\ Cardinality(nullifierHashes) \in Nat
  BY UnspentCount DEF NotesInv
<1>6. Cardinality(nullifierHashes') = Cardinality(nullifierHashes) + 1
  BY <1>1, <1>5, FS_AddElement
<1>7. pool' = Denomination * (nextIndex - Cardinality(nullifierHashes'))
  <2>1. \A d \in Nat, m \in Nat, h \in Nat, f \in Nat :
           d * (m - h) - (d - f) - f = d * (m - (h + 1))
    OBVIOUS
  <2>2. pool = Denomination * (nextIndex - Cardinality(nullifierHashes))
    BY DEF NotesInv
  <2> QED
    BY <1>1, <1>2, <1>5, <1>6, <2>1, <2>2
<1> QED
  BY <1>1, <1>4, <1>7 DEF NotesInv

LEMMA NextPool == PoolInv /\ [Next]_vars => PoolInv'
<1> SUFFICES ASSUME PoolInv, [Next]_vars PROVE PoolInv'
  OBVIOUS
<1>1. ASSUME NEW c \in Commitments, deposit(c)
      PROVE  PoolInv'
  BY <1>1, DepositTree, DepositRing, DepositNotes DEF PoolInv
<1>2. ASSUME NEW c \in Commitments, NEW n \in 1 .. nextIndex, NEW fee \in Fees, withdraw(c, n, fee)
      PROVE  PoolInv'
  <2>1. UNCHANGED <<tree, leaves>>
    BY <1>2 DEF withdraw
  <2>2. TreeInv'
    BY <2>1 DEF PoolInv, TreeInv, tree
  <2>3. RingInv'
    BY <2>1 DEF PoolInv, RingInv, tree
  <2>4. NotesInv'
    BY <1>2, WithdrawNotes DEF PoolInv
  <2> QED
    BY <2>2, <2>3, <2>4 DEF PoolInv
<1>3. CASE UNCHANGED vars
  BY <1>3 DEF vars, tree, PoolInv, TreeInv, RingInv, NotesInv
<1> QED
  BY <1>1, <1>2, <1>3 DEF Next

LEMMA PoolInvariant == Spec => []PoolInv
BY InitPool, NextPool, PTL DEF Spec

-----------------------------------------------------------------------------
(* What depositors rely on.                                                 *)

\* After every deposit the current root of the ring is the root of the full tree over the
\* deposit events, whatever the height of the tree and the order of the deposits.
THEOREM RootIsThatOfLeaves == Spec => []RootMatchesLeaves
<1>1. PoolInv => RootMatchesLeaves
  <2> SUFFICES ASSUME PoolInv, nextIndex > 0
               PROVE  roots[currentRootIndex] = RootOver(nextIndex)
    BY DEF RootMatchesLeaves
  <2>1. currentRootIndex \in Ring /\ currentRootIndex \in Nat /\ nextIndex \in Nat
    BY PoolAssumption DEF PoolInv, TreeInv, Ring
  <2>2. Age(currentRootIndex, currentRootIndex) = 0 /\ 0 < nextIndex /\ nextIndex - 0 = nextIndex
    BY <2>1 DEF Age
  <2> QED
    BY <2>1, <2>2 DEF PoolInv, RingInv, RootAged, RootOver
<1> QED
  BY <1>1, PoolInvariant, PTL

\* Two trees of one sequence of deposits have one root only when the later one is the
\* earlier one with the zero value deposited on top.
LEMMA RootsOfTrees ==
    ASSUME PoolInv, NEW m \in 1 .. nextIndex, NEW n \in 1 .. nextIndex, m < n
    PROVE  RootOver(m) = RootOver(n) <=> n = m + 1 /\ leaves[n] = ZeroValue
<1>1. /\ leaves \in Seq(Commitments) /\ Len(leaves) = nextIndex /\ nextIndex \in 0 .. 2^Levels
      /\ nextIndex \in Nat /\ m \in Nat /\ n \in Nat /\ 2^Levels \in Nat
      /\ \A j, k \in 1 .. nextIndex : leaves[j] = leaves[k] => j = k
  BY PoolAssumption, PowersOfTwo DEF PoolInv, TreeInv, NotesInv
<1> DEFINE s == SubSeq(leaves, 1, m)
           t == SubSeq(leaves, 1, n)
<1>2. Filled(s, m) /\ Filled(t, n)
  BY <1>1, PrefixFilled
<1>3. /\ Len(s) = m /\ Len(t) = n
      /\ \A k \in 1 .. m : s[k] = leaves[k]
      /\ \A k \in 1 .. n : t[k] = leaves[k]
  BY <1>1
<1> HIDE DEF s, t
<1>4. ASSUME RootOf(s) = RootOf(t)
      PROVE  n = m + 1 /\ leaves[n] = ZeroValue
  <2>1. \A k \in m + 1 .. n : t[k] = ZeroValue
    BY <1>2, <1>4, SameRoot
  <2>2. \A k \in m + 1 .. n : leaves[k] = ZeroValue /\ k \in 1 .. nextIndex
    BY <1>1, <1>3, <2>1
  <2>3. m + 1 \in m + 1 .. n /\ n \in m + 1 .. n
    BY <1>1
  <2> QED
    BY <1>1, <2>2, <2>3
<1>5. ASSUME n = m + 1, leaves[n] = ZeroValue
      PROVE  RootOf(s) = RootOf(t)
  <2>1. Extends(t, s, ZeroValue)
    BY <1>1, <1>3, <1>5 DEF Extends
  <2> QED
    BY <2>1, ZeroLeafSameRoot
<1> QED
  BY <1>4, <1>5 DEF RootOver, s, t

\* The root of the tree of n leaves was written with leaf n, and at no other time than with
\* the leaf after it, should that be the zero value.
LEMMA WrittenAt ==
    ASSUME PoolInv, NEW n \in 1 .. nextIndex, NEW m \in 1 .. nextIndex
    PROVE  /\ LastWritten(n) \in n .. nextIndex
           /\ RootOver(LastWritten(n)) = RootOver(n)
           /\ RootOver(m) = RootOver(n) => m <= LastWritten(n)
<1>1. nextIndex \in Nat /\ m \in Nat /\ n \in Nat
  BY DEF PoolInv, TreeInv
<1>2. CASE n < nextIndex /\ leaves[n + 1] = ZeroValue
  <2>1. LastWritten(n) = n + 1 /\ n + 1 \in 1 .. nextIndex /\ n < n + 1
    BY <1>1, <1>2 DEF LastWritten
  <2>2. RootOver(n) = RootOver(n + 1)
    BY <1>2, <2>1, RootsOfTrees
  <2>3. RootOver(m) = RootOver(n) => m <= n + 1
    <3>1. n < m /\ RootOver(m) = RootOver(n) => m = n + 1
      BY RootsOfTrees
    <3> QED
      BY <1>1, <3>1
  <2> QED
    BY <1>1, <2>1, <2>2, <2>3
<1>3. CASE ~(n < nextIndex /\ leaves[n + 1] = ZeroValue)
  <2>1. LastWritten(n) = n
    BY <1>3 DEF LastWritten
  <2>2. n < m /\ RootOver(m) = RootOver(n) => m = n + 1 /\ leaves[m] = ZeroValue
    BY RootsOfTrees
  <2>3. RootOver(m) = RootOver(n) => m <= n
    BY <1>1, <1>3, <2>2
  <2> QED
    BY <1>1, <2>1, <2>3
<1> QED
  BY <1>2, <1>3

\* A root is known for exactly the RootHistorySize - 1 deposits after the last one that wrote
\* it: no slot of the ring holds an older tree's root, and no two trees share one, but for a
\* tree and the same with the zero value deposited on top.
THEOREM RecentRootsOnly == Spec => []KnownRootsAreRecent
<1>1. PoolInv => KnownRootsAreRecent
  <2> SUFFICES ASSUME PoolInv, NEW n \in 1 .. nextIndex
               PROVE  isKnownRoot(RootOver(n)) <=> LastWritten(n) > nextIndex - RootHistorySize
    BY DEF KnownRootsAreRecent
  <2> DEFINE last == LastWritten(n)
  <2>1. /\ leaves \in Seq(Commitments) /\ Len(leaves) = nextIndex /\ nextIndex \in 0 .. 2^Levels
        /\ currentRootIndex \in Ring
    BY DEF PoolInv, TreeInv
  <2>2. Filled(SubSeq(leaves, 1, n), n)
    BY <2>1, PrefixFilled
  <2>3. nextIndex \in Nat /\ n \in Nat /\ RootHistorySize \in Nat
    BY <2>1, PoolAssumption
  <2>4. RootOver(n) # NoRoot
    BY <2>2, HashAssumption DEF Filled, RootOver
  <2>5. zeros[Levels - 1] # RootOver(n)
    BY <2>2, ZeroRootDiffers DEF RootOver
  <2>6. /\ last \in n .. nextIndex /\ RootOver(last) = RootOver(n)
        /\ \A m \in 1 .. nextIndex : RootOver(m) = RootOver(n) => m <= last
    BY WrittenAt
  <2> HIDE DEF last
  <2>7. ASSUME NEW a \in Nat, RootAged(leaves, nextIndex, a) = RootOver(n)
        PROVE  a >= nextIndex - last
    <3>1. a < nextIndex
      <4>1. CASE ~(a < nextIndex)
        <5>1. RootAged(leaves, nextIndex, a) \in {zeros[Levels - 1], NoRoot}
          BY <4>1 DEF RootAged
        <5> QED
          BY <2>4, <2>5, <2>7, <5>1
      <4> QED
        BY <4>1
    <3>2. RootAged(leaves, nextIndex, a) = RootOver(nextIndex - a) /\ nextIndex - a \in 1 .. nextIndex
      BY <2>3, <3>1 DEF RootAged, RootOver
    <3>3. nextIndex - a <= last
      BY <2>6, <2>7, <3>2
    <3> QED
      BY <2>3, <2>6, <3>3
  <2>8. nextIndex - last \in Nat /\ RootAged(leaves, nextIndex, nextIndex - last) = RootOver(n)
    <3>1. nextIndex - last \in Nat /\ nextIndex - last < nextIndex /\ nextIndex - (nextIndex - last) = last
      BY <2>3, <2>6
    <3> QED
      BY <2>6, <3>1 DEF RootAged, RootOver
  <2>9. /\ \A i \in Ring : Age(i, currentRootIndex) \in Ring
        /\ \A a \in Ring : \E i \in Ring : Age(i, currentRootIndex) = a
        /\ \A i \in Ring : roots[i] = RootAged(leaves, nextIndex, Age(i, currentRootIndex))
    BY <2>1, NextSlot DEF PoolInv, RingInv
  <2>10. isKnownRoot(RootOver(n)) <=> nextIndex - last \in Ring
    <3>1. ASSUME NEW i \in Ring, roots[i] = RootOver(n)
          PROVE  nextIndex - last \in Ring
      <4>1. Age(i, currentRootIndex) \in Ring /\ Age(i, currentRootIndex) \in Nat
        BY <2>9 DEF Ring
      <4>2. Age(i, currentRootIndex) >= nextIndex - last
        BY <2>7, <2>9, <3>1, <4>1
      <4> QED
        BY <2>3, <2>8, <4>1, <4>2 DEF Ring
    <3>2. ASSUME nextIndex - last \in Ring
          PROVE  \E i \in Ring : roots[i] = RootOver(n)
      BY <2>8, <2>9, <3>2
    <3> QED
      BY <2>4, <3>1, <3>2 DEF isKnownRoot
  <2>11. nextIndex - last \in Ring <=> last > nextIndex - RootHistorySize
    BY <2>3, <2>6 DEF Ring
  <2> QED
    BY <2>10, <2>11 DEF last
<1> QED
  BY <1>1, PoolInvariant, PTL

\* The pool always holds a denomination for every note that can still be withdrawn, and
\* has paid exactly one for every nullifier spent.
THEOREM PoolIsSolvent == Spec => []Solvent
<1>1. PoolInv => Solvent
  <2> SUFFICES ASSUME PoolInv PROVE Solvent
    OBVIOUS
  <2> DEFINE h == Cardinality(nullifierHashes)
             u == Cardinality(UnspentNotes)
  <2>1. /\ h \in Nat /\ u \in Nat /\ u <= nextIndex - h
        /\ nextIndex \in Nat /\ Denomination \in Nat
    <3>1. nextIndex \in Nat /\ Denomination \in Nat
      BY PoolAssumption DEF PoolInv, TreeInv
    <3>2. /\ commitments \in SUBSET Commitments /\ Cardinality(commitments) = nextIndex
          /\ nullifierHashes \in SUBSET NullifiersOf(commitments)
      BY DEF PoolInv, NotesInv
    <3>3. UnspentNotes = NullifiersOf(commitments) \ nullifierHashes
      BY DEF UnspentNotes, NullifiersOf
    <3> QED
      BY <3>1, <3>2, <3>3, UnspentCount
  <2>2. pool = Denomination * (nextIndex - h)
    BY DEF PoolInv, NotesInv
  <2> HIDE DEF h, u
  <2>3. nextIndex - h \in Nat
    BY <2>1
  <2>4. u * Denomination <= (nextIndex - h) * Denomination
    BY <2>1, <2>3, TimesMonotone
  <2>5. pool >= Denomination * u
    BY <2>1, <2>2, <2>3, <2>4
  <2> QED
    BY <2>2, <2>5 DEF Solvent, h, u
<1> QED
  BY <1>1, PoolInvariant, PTL

\* Every variable keeps its type; that the pool's balance is a natural number is solvency.
THEOREM PoolTypes == Spec => []TypeOK
<1>1. PoolInv => TypeOK
  <2> SUFFICES ASSUME PoolInv PROVE TypeOK
    OBVIOUS
  <2>1. pool \in Nat
    <3>1. Cardinality(nullifierHashes) \in Nat /\ Cardinality(nullifierHashes) <= nextIndex
      BY UnspentCount DEF PoolInv, NotesInv
    <3>2. nextIndex \in Nat /\ Denomination \in Nat
      BY PoolAssumption DEF PoolInv, TreeInv
    <3>3. nextIndex - Cardinality(nullifierHashes) \in Nat
      BY <3>1, <3>2
    <3>4. \A d \in Nat, m \in Nat : d * m \in Nat
      OBVIOUS
    <3> QED
      BY <3>2, <3>3, <3>4 DEF PoolInv, NotesInv
  <2>2. nullifierHashes \in SUBSET NullifierHashes
    BY DEF PoolInv, NotesInv, NullifiersOf, NullifierHashes
  <2> QED
    BY <2>1, <2>2 DEF PoolInv, TreeInv, NotesInv, TypeOK
<1> QED
  BY <1>1, PoolInvariant, PTL

-----------------------------------------------------------------------------
(* The pool implements the abstract one: a deposit puts in a new note, and  *)
(* a withdrawal takes one out that is in, not spent, and paid for.          *)

LEMMA InitNotes == Init => Notes!Init
<1> SUFFICES ASSUME Init PROVE Notes!Init
  OBVIOUS
<1>1. leaves = <<>> /\ nextIndex = 0 /\ nullifierHashes = {} /\ pool = 0
  BY DEF Init
<1>2. LeavesOf(nextIndex) = {}
  BY <1>1 DEF LeavesOf
<1> QED
  BY <1>1, <1>2 DEF Notes!Init

LEMMA DepositsNote ==
    ASSUME PoolInv, NEW c \in Commitments, deposit(c)
    PROVE  Notes!Deposit(c)
<1>1. /\ c \notin commitments /\ leaves' = Append(leaves, c) /\ nextIndex' = nextIndex + 1
      /\ pool' = pool + Denomination /\ UNCHANGED nullifierHashes
  BY DEF deposit, insert
<1>2. /\ leaves \in Seq(Commitments) /\ Len(leaves) = nextIndex /\ nextIndex \in Nat
      /\ \A k \in 1 .. nextIndex : leaves[k] \in commitments
  BY DEF PoolInv, TreeInv, NotesInv
<1>3. c \notin LeavesOf(nextIndex)
  BY <1>1, <1>2 DEF LeavesOf
<1>4. /\ leaves'[nextIndex + 1] = c
      /\ \A k \in 1 .. nextIndex : leaves'[k] = leaves[k]
  BY <1>1, <1>2
<1>5. 1 .. nextIndex + 1 = (1 .. nextIndex) \cup {nextIndex + 1}
  BY <1>2
<1>6. LeavesOf(nextIndex)' = LeavesOf(nextIndex) \cup {c}
  BY <1>1, <1>4, <1>5 DEF LeavesOf
<1> QED
  BY <1>1, <1>3, <1>6 DEF Notes!Deposit

\* While a note is unspent the pool holds a denomination for it.
LEMMA UnspentIsHeld ==
    ASSUME PoolInv, NEW c \in commitments, nullifierOf[c] \notin nullifierHashes
    PROVE  pool >= Denomination
<1> DEFINE unspent == NullifiersOf(commitments) \ nullifierHashes
           h == Cardinality(nullifierHashes)
<1>1. /\ commitments \in SUBSET Commitments /\ Cardinality(commitments) = nextIndex
      /\ nullifierHashes \in SUBSET NullifiersOf(commitments)
      /\ pool = Denomination * (nextIndex - h)
      /\ nextIndex \in Nat /\ Denomination \in Nat
  BY PoolAssumption DEF PoolInv, TreeInv, NotesInv
<1>2. h \in Nat /\ Cardinality(unspent) \in Nat /\ Cardinality(unspent) <= nextIndex - h
  BY <1>1, UnspentCount
<1>3. nullifierOf[c] \in unspent /\ IsFiniteSet(unspent)
  BY <1>1, NullifiersCount, FS_Difference DEF NullifiersOf
<1>4. Cardinality(unspent) # 0
  BY <1>3, FS_EmptySet
<1> HIDE DEF h, unspent
<1>5. nextIndex - h \in Nat /\ 1 <= nextIndex - h
  BY <1>1, <1>2, <1>4
<1>6. 1 * Denomination <= (nextIndex - h) * Denomination
  BY <1>1, <1>5, TimesMonotone
<1> QED
  BY <1>1, <1>5, <1>6

LEMMA WithdrawsNote ==
    ASSUME PoolInv, NEW c \in Commitments, NEW n \in 1 .. nextIndex, NEW fee \in Fees,
           withdraw(c, n, fee)
    PROVE  c \in LeavesOf(nextIndex) /\ Notes!Withdraw(c)
<1>1. /\ nullifierOf[c] \notin nullifierHashes
      /\ nullifierHashes' = nullifierHashes \cup {nullifierOf[c]}
      /\ pool' = pool - (Denomination - fee) - fee
      /\ UNCHANGED <<nextIndex, leaves>> /\ c \in LeavesOf(n)
  BY DEF withdraw, SpendNullifier, processWithdraw, tree
<1>2. /\ nextIndex \in Nat /\ Denomination \in Nat /\ fee \in Nat
      /\ \A k \in 1 .. nextIndex : leaves[k] \in commitments
  BY PoolAssumption DEF PoolInv, TreeInv, NotesInv
<1>3. c \in LeavesOf(nextIndex) /\ c \in commitments
  <2>1. \A k \in 1 .. n : k \in 1 .. nextIndex
    BY <1>2
  <2> QED
    BY <1>1, <1>2, <2>1 DEF LeavesOf
<1>4. pool >= Denomination
  BY <1>1, <1>3, UnspentIsHeld
<1>5. pool' = pool - Denomination
  <2>1. pool \in Int
    <3>1. Cardinality(nullifierHashes) \in Nat
      BY UnspentCount DEF PoolInv, NotesInv
    <3>2. \A d \in Nat, m \in Nat, h \in Nat : d * (m - h) \in Int
      OBVIOUS
    <3> QED
      BY <1>2, <3>1, <3>2 DEF PoolInv, NotesInv
  <2> QED
    BY <1>1, <1>2, <2>1
<1>6. UNCHANGED LeavesOf(nextIndex)
  BY <1>1 DEF LeavesOf
<1> QED
  BY <1>1, <1>3, <1>4, <1>5, <1>6 DEF Notes!Withdraw

\* For any tree and ring: what happens to the notes and the money is what happens in the
\* abstract pool, which has no roots to get wrong.
THEOREM PoolImplementsNotes == Spec => ImplementsNotePool
<1>1. Init => Notes!Init
  BY InitNotes
<1>2. PoolInv /\ [Next]_vars => [Notes!Next]_(Notes!notes)
  <2> SUFFICES ASSUME PoolInv, [Next]_vars PROVE [Notes!Next]_(Notes!notes)
    OBVIOUS
  <2>1. ASSUME NEW c \in Commitments, deposit(c)
        PROVE  Notes!Next
    BY <2>1, DepositsNote DEF Notes!Next
  <2>2. ASSUME NEW c \in Commitments, NEW n \in 1 .. nextIndex, NEW fee \in Fees, withdraw(c, n, fee)
        PROVE  Notes!Next
    BY <2>2, WithdrawsNote DEF Notes!Next
  <2>3. CASE UNCHANGED vars
    BY <2>3 DEF vars, tree, Notes!notes, LeavesOf
  <2> QED
    BY <2>1, <2>2, <2>3 DEF Next
<1> QED
  BY <1>1, <1>2, PoolInvariant, PTL DEF Spec, ImplementsNotePool, Notes!Spec

=============================================================================
