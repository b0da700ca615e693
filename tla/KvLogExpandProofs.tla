--------------------------- MODULE KvLogExpandProofs ---------------------------
(* Whatever the capture was stopped at, the expander accepts whole layers of  *)
(* single decode passes, and all complete ones.                               *)
EXTENDS KvLogExpand, Sequences, FiniteSetTheorems, WellFoundedInduction, TLAPS
-------------------------------------------------------------------------------
(* Every set of naturals that is not empty has a least element: induction on  *)
(* a data value, as the least counterexample of a claim.                      *)
LEMMA LeastNat ==
    ASSUME NEW T \in SUBSET Nat, T # {}
    PROVE  \E n \in T : \A m \in T : n <= m
  <1>1. PICK n \in T : \A m \in T : <<m, n>> \notin OpToRel(<, Nat)
    BY NatLessThanWellFounded, WFMin
  <1>2. ASSUME NEW m \in T, m < n PROVE <<m, n>> \in OpToRel(<, Nat)
    BY <1>2 DEF OpToRel
  <1>3. \A m \in T : ~(m < n)
    BY <1>1, <1>2, Zenon
  <1> QED BY <1>3

LEMMA Times ==
    ASSUME NEW x \in Int, NEW y \in Int, NEW z \in Int
    PROVE  /\ x * y \in Int /\ x * y = y * x
           /\ (x + y) * z = x * z + y * z /\ (x - y) * z = x * z - y * z
  BY Z3

LEMMA TimesOrder ==
    ASSUME NEW x \in Nat, NEW y \in Nat, NEW z \in Nat, x <= y
    PROVE  x * z <= y * z /\ x * z \in Nat
  BY Z3

LEMMA DivMod ==
    ASSUME NEW a \in Nat, NEW m \in Nat \ {0}
    PROVE  /\ a \div m \in Nat /\ a % m \in 0 .. m - 1
           /\ a = (a \div m) * m + (a % m)
  BY Z3

(* The quotient is the number of whole m's.                                   *)
LEMMA DivIs ==
    ASSUME NEW a \in Nat, NEW m \in Nat \ {0}, NEW q \in Nat
    PROVE  a \div m = q <=> q * m <= a /\ a < q * m + m
  <1> DEFINE d == a \div m
             r == a % m
  <1>1. d \in Nat /\ r \in 0 .. m - 1 /\ a = d * m + r
    BY DivMod
  <1> HIDE DEF d, r
  <1>2. q * m \in Nat /\ d * m \in Nat
    BY <1>1, Z3
  <1>3. ASSUME q < d PROVE q * m + m <= d * m
    <2>1. (q + 1) * m <= d * m
      BY <1>1, <1>3, TimesOrder
    <2> QED BY <2>1, Times
  <1>4. ASSUME d < q PROVE d * m + m <= q * m
    <2>1. (d + 1) * m <= q * m
      BY <1>1, <1>4, TimesOrder
    <2> QED BY <1>1, <2>1, Times
  <1>5. d = q <=> q * m <= a /\ a < q * m + m
    BY <1>1, <1>2, <1>3, <1>4
  <1> QED BY <1>5 DEF d

(* What is kept from a to b is the part of the sequence from a to b.          *)
LEMMA PickedRange ==
    ASSUME NEW s, NEW a \in Int, NEW b \in Int, a <= b + 1
    PROVE  /\ Cardinality(a .. b) = b - a + 1
           /\ Picked(s, a .. b) = [j \in 1 .. b - a + 1 |-> s[a + j - 1]]
  <1>1. Cardinality(a .. b) = b - a + 1
    BY FS_Interval
  <1>2. ASSUME NEW j \in 1 .. b - a + 1 PROVE Position(a .. b, j) = a + j - 1
    <2>1. ASSUME NEW i \in a .. b PROVE Cardinality({k \in a .. b : k <= i}) = i - a + 1
      <3>1. {k \in a .. b : k <= i} = a .. i
        OBVIOUS
      <3>2. i \in Int /\ a <= i
        OBVIOUS
      <3>3. Cardinality(a .. i) = i - a + 1
        BY <3>2, FS_Interval
      <3> QED BY <3>1, <3>3
    <2>2. a + j - 1 \in a .. b /\ \A i \in a .. b : i - a + 1 = j <=> i = a + j - 1
      OBVIOUS
    <2> QED BY <2>1, <2>2 DEF Position
  <1> QED BY <1>1, <1>2 DEF Picked

(* Appending, position by position.                                           *)
LEMMA Appended ==
    ASSUME NEW len \in Nat, NEW f, f = [i \in 1 .. len |-> f[i]], NEW v
    PROVE  /\ Len(f) = len
           /\ Append(f, v) = [i \in 1 .. len + 1 |-> IF i <= len THEN f[i] ELSE v]
           /\ Len(Append(f, v)) = len + 1
  <1> DEFINE T == {f[i] : i \in 1 .. len} \cup {v}
             s == Append(f, v)
  <1>1. f \in Seq(T) /\ Len(f) = len
    <2>1. [i \in 1 .. len |-> f[i]] \in Seq(T)
      OBVIOUS
    <2>2. Len([i \in 1 .. len |-> f[i]]) = len
      OBVIOUS
    <2> QED BY <2>1, <2>2
  <1>2. v \in T
    OBVIOUS
  <1> HIDE DEF T
  <1>3. s \in Seq(T) /\ Len(s) = len + 1
    BY <1>1, <1>2
  <1>4. \A i \in 1 .. len + 1 : s[i] = IF i <= len THEN f[i] ELSE v
    BY <1>1, <1>2
  <1> HIDE DEF s
  <1>5. s \in [1 .. len + 1 -> T]
    BY <1>3
  <1>6. s = [i \in 1 .. len + 1 |-> s[i]]
    BY <1>5
  <1>7. [i \in 1 .. len + 1 |-> s[i]] = [i \in 1 .. len + 1 |-> IF i <= len THEN f[i] ELSE v]
    BY <1>4
  <1> QED BY <1>1, <1>3, <1>6, <1>7 DEF s

(* The positions kept are counted off in their order, each of them once.      *)
UpTo(kept, i) == {k \in kept : k <= i}

LEMMA Counted ==
    ASSUME NEW N \in Nat, NEW kept \in SUBSET (1 .. N)
    PROVE  /\ IsFiniteSet(kept) /\ Cardinality(kept) \in Nat
           /\ \A i \in Int : /\ IsFiniteSet(UpTo(kept, i))
                             /\ Cardinality(UpTo(kept, i)) \in 0 .. Cardinality(kept)
           /\ \A i \in kept : UpTo(kept, i) = UpTo(kept, i - 1) \cup {i}
           /\ \A i \in Int : i \notin kept =>
                UpTo(kept, i) = UpTo(kept, i - 1)
           /\ \A i \in kept : Cardinality(UpTo(kept, i))
                                = Cardinality(UpTo(kept, i - 1)) + 1
  <1>1. IsFiniteSet(kept) /\ Cardinality(kept) \in Nat
    <2>1. 1 \in Int /\ N \in Int
      OBVIOUS
    <2>2. IsFiniteSet(1 .. N)
      BY <2>1, FS_Interval
    <2>3. IsFiniteSet(kept)
      BY <2>2, FS_Subset
    <2> QED BY <2>3, FS_CardinalityType
  <1>2. ASSUME NEW i \in Int
        PROVE  /\ IsFiniteSet(UpTo(kept, i))
               /\ Cardinality(UpTo(kept, i)) \in 0 .. Cardinality(kept)
    <2> DEFINE T == UpTo(kept, i)
    <2>1. T \in SUBSET kept
      BY DEF UpTo
    <2> HIDE DEF T
    <2>2. IsFiniteSet(T) /\ Cardinality(T) <= Cardinality(kept)
      BY <1>1, <2>1, FS_Subset
    <2>3. Cardinality(T) \in Nat
      BY <2>2, FS_CardinalityType
    <2>4. Cardinality(T) \in 0 .. Cardinality(kept)
      BY <1>1, <2>2, <2>3
    <2> QED BY <2>2, <2>4 DEF T
  <1>3. \A k \in kept : k \in Int
    OBVIOUS
  <1>4. ASSUME NEW i \in kept
        PROVE  UpTo(kept, i) = UpTo(kept, i - 1) \cup {i}
    <2>1. \A k \in kept : k <= i <=> k <= i - 1 \/ k = i
      BY <1>3
    <2> QED BY <2>1, Zenon DEF UpTo
  <1>5. ASSUME NEW i \in Int, i \notin kept
        PROVE  UpTo(kept, i) = UpTo(kept, i - 1)
    <2>1. \A k \in kept : k # i
      BY <1>5
    <2>2. \A k \in kept : k <= i <=> k <= i - 1
      BY <1>3, <2>1
    <2> QED BY <2>2, Zenon DEF UpTo
  <1>6. ASSUME NEW i \in kept
        PROVE  Cardinality(UpTo(kept, i))
                 = Cardinality(UpTo(kept, i - 1)) + 1
    <2> DEFINE T == UpTo(kept, i - 1)
    <2>1. IsFiniteSet(T) /\ i \notin T
      <3>1. i \in Int /\ i - 1 \in Int /\ i \notin UpTo(kept, i - 1)
        BY <1>3 DEF UpTo
      <3>2. IsFiniteSet(T)
        BY <1>2, <3>1
      <3> QED BY <3>1, <3>2
    <2>2. UpTo(kept, i) = T \cup {i}
      BY <1>4
    <2> HIDE DEF T
    <2>3. Cardinality(T \cup {i}) = Cardinality(T) + 1
      BY <2>1, FS_AddElement
    <2> QED BY <2>2, <2>3 DEF T
  <1> QED BY <1>1, <1>2, <1>4, <1>5, <1>6

LEMMA PositionsExist ==
    ASSUME NEW N \in Nat, NEW kept \in SUBSET (1 .. N),
           NEW j \in 1 .. Cardinality(kept)
    PROVE  /\ Position(kept, j) \in kept
           /\ Cardinality(UpTo(kept, Position(kept, j))) = j
  <1> DEFINE Count(i) == Cardinality(UpTo(kept, i))
             Enough == {i \in 0 .. N : Count(i) >= j}
  <1>1. Cardinality(kept) \in Nat /\ \A i \in Int : Count(i) \in 0 .. Cardinality(kept)
    BY Counted
  <1>2. N \in Enough
    <2>1. \A k \in kept : k <= N
      OBVIOUS
    <2>2. UpTo(kept, N) = kept
      BY <2>1 DEF UpTo
    <2>3. Count(N) = Cardinality(kept) /\ N \in 0 .. N
      BY <2>2
    <2> QED BY <1>1, <2>3
  <1>3. PICK i \in Enough : \A m \in Enough : i <= m
    <2>1. Enough \in SUBSET Nat
      OBVIOUS
    <2> HIDE DEF Enough
    <2> QED BY <1>2, <2>1, LeastNat
  <1>4. i \in 0 .. N /\ Count(i) >= j
    OBVIOUS
  <1>5. i # 0
    <2>1. UpTo(kept, 0) = {}
      <3>1. \A k \in kept : ~(k <= 0)
        OBVIOUS
      <3> QED BY <3>1 DEF UpTo
    <2>2. Count(0) = 0
      BY <2>1, FS_EmptySet
    <2> HIDE DEF Count
    <2> QED BY <1>1, <1>4, <2>2
  <1>6. Count(i - 1) < j
    <2>1. i - 1 \in 0 .. N /\ i - 1 < i /\ i - 1 \in Int
      BY <1>4, <1>5
    <2>2. Count(i - 1) \in Int
      BY <1>1, <2>1
    <2>3. i - 1 \notin Enough
      <3> HIDE DEF Enough, Count
      <3>1. i - 1 \in Enough => i <= i - 1
        BY <1>3
      <3> QED BY <1>4, <2>1, <3>1
    <2> HIDE DEF Count
    <2> QED BY <1>1, <2>1, <2>2, <2>3
  <1>7. i \in kept
    <2>1. i \notin kept => Count(i) = Count(i - 1)
      <3>1. i \in Int
        BY <1>4
      <3> QED BY <3>1, Counted
    <2>2. i - 1 \in Int /\ i \in Int
      BY <1>4
    <2>3. Count(i - 1) \in Int /\ Count(i) \in Int
      BY <1>1, <2>2
    <2> HIDE DEF Count, Enough
    <2> QED BY <1>4, <1>6, <2>1, <2>3
  <1>8. Count(i) = j
    <2>1. Count(i) = Count(i - 1) + 1
      BY <1>7, Counted
    <2>2. i - 1 \in Int
      BY <1>4
    <2>3. Count(i - 1) \in Int
      BY <1>1, <2>2
    <2> HIDE DEF Count, Enough
    <2> QED BY <1>4, <1>6, <2>1, <2>3
  <1> QED BY <1>7, <1>8 DEF Position, UpTo

LEMMA PositionsRise ==
    ASSUME NEW N \in Nat, NEW kept \in SUBSET (1 .. N),
           NEW i \in kept, NEW m \in kept, i < m
    PROVE  Cardinality(UpTo(kept, i)) < Cardinality(UpTo(kept, m))
  <1> DEFINE A == UpTo(kept, i)
             B == UpTo(kept, m - 1)
  <1>1. i \in Int /\ m \in Int /\ m - 1 \in Int /\ \A k \in kept : k \in Int
    OBVIOUS
  <1>2. A \in SUBSET B
    <2>1. \A k \in kept : k <= i => k <= m - 1
      BY <1>1
    <2> QED BY <2>1 DEF UpTo
  <1>3. IsFiniteSet(B) /\ Cardinality(A) \in Nat /\ Cardinality(B) \in Nat
    <2>1. Cardinality(kept) \in Nat /\ Cardinality(A) \in 0 .. Cardinality(kept)
          /\ Cardinality(B) \in 0 .. Cardinality(kept) /\ IsFiniteSet(B)
      BY <1>1, Counted
    <2> HIDE DEF A, B
    <2> QED BY <2>1
  <1>4. Cardinality(UpTo(kept, m)) = Cardinality(B) + 1
    BY Counted
  <1> HIDE DEF A, B
  <1>5. Cardinality(A) <= Cardinality(B)
    BY <1>2, <1>3, FS_Subset
  <1>6. Cardinality(A) < Cardinality(B) + 1
    BY <1>3, <1>5
  <1> QED BY <1>4, <1>6 DEF A

(* The elements picked are those at the positions kept, in their order.       *)
LEMMA Positions ==
    ASSUME NEW N \in Nat, NEW kept \in SUBSET (1 .. N)
    PROVE  /\ Cardinality(kept) \in Nat
           /\ \A j \in 1 .. Cardinality(kept) : Position(kept, j) \in kept
           /\ \A i \in kept : \E j \in 1 .. Cardinality(kept) : Position(kept, j) = i
           /\ \A j, l \in 1 .. Cardinality(kept) :
                j < l => Position(kept, j) < Position(kept, l)
  <1> DEFINE Count(i) == Cardinality(UpTo(kept, i))
             P(j) == Position(kept, j)
             n == Cardinality(kept)
  <1>1. n \in Nat /\ \A i \in kept : i \in Int
    <2>1. n \in Nat
      BY Counted
    <2>2. \A i \in kept : i \in Int
      OBVIOUS
    <2> QED BY <2>1, <2>2
  <1>2. \A j \in 1 .. n : P(j) \in kept /\ Count(P(j)) = j
    BY PositionsExist
  <1>3. \A i, m \in kept : i < m => Count(i) < Count(m)
    BY PositionsRise
  <1>4. \A i \in kept : Count(i) \in 1 .. n
    <2>1. ASSUME NEW i \in kept PROVE Count(i) \in 1 .. n
      <3>1. i \in Int /\ i - 1 \in Int
        BY <1>1
      <3>2. Count(i) \in 0 .. n /\ Count(i - 1) \in 0 .. n /\ Count(i) = Count(i - 1) + 1
        BY <3>1, Counted
      <3> HIDE DEF Count, n
      <3> QED BY <1>1, <3>2
    <2> QED BY <2>1
  <1> HIDE DEF Count, P, n
  <1>5. ASSUME NEW i \in kept PROVE \E j \in 1 .. n : P(j) = i
    <2> DEFINE j == Count(i)
    <2>1. j \in 1 .. n
      BY <1>4
    <2>2. P(j) \in kept /\ Count(P(j)) = j
      BY <1>2, <2>1
    <2>3. ~(P(j) < i) /\ ~(i < P(j))
      <3>1. P(j) < i => Count(P(j)) < Count(i)
        BY <1>3, <2>2
      <3>2. i < P(j) => Count(i) < Count(P(j))
        BY <1>3, <2>2
      <3>3. j \in Int
        BY <1>1, <2>1
      <3> QED BY <2>2, <3>1, <3>2, <3>3
    <2>4. P(j) = i
      <3>1. P(j) \in Int /\ i \in Int
        BY <1>1, <2>2
      <3> QED BY <2>3, <3>1
    <2> QED BY <2>1, <2>4
  <1>6. ASSUME NEW j \in 1 .. n, NEW l \in 1 .. n, j < l PROVE P(j) < P(l)
    <2>1. P(j) \in kept /\ P(l) \in kept /\ Count(P(j)) = j /\ Count(P(l)) = l
      BY <1>2
    <2>2. P(j) \in Int /\ P(l) \in Int /\ j \in Int /\ l \in Int
      <3>1. j \in Int /\ l \in Int
        BY <1>1
      <3> QED BY <1>1, <2>1, <3>1
    <2>3. P(l) < P(j) => l < j
      BY <1>3, <2>1
    <2>4. P(l) # P(j)
      BY <1>6, <2>1, <2>2
    <2> QED BY <1>6, <2>2, <2>3, <2>4
  <1> QED BY <1>1, <1>2, <1>5, <1>6 DEF P, n

(* Everything but the last, and another last.                                 *)
LEMMA LastReplaced ==
    ASSUME NEW n \in Nat \ {0}, NEW s, s = [i \in 1 .. n |-> s[i]], NEW v
    PROVE  /\ Len(s) = n
           /\ SubSeq(s, 1, n - 1) \o <<v>> = [i \in 1 .. n |-> IF i < n THEN s[i] ELSE v]
           /\ Len(SubSeq(s, 1, n - 1) \o <<v>>) = n
  <1> DEFINE T == {s[i] : i \in 1 .. n} \cup {v}
             f == SubSeq(s, 1, n - 1)
             r == f \o <<v>>
  <1>1. s \in Seq(T) /\ Len(s) = n
    <2>1. [i \in 1 .. n |-> s[i]] \in Seq(T)
      OBVIOUS
    <2>2. Len([i \in 1 .. n |-> s[i]]) = n
      OBVIOUS
    <2> QED BY <2>1, <2>2
  <1>2. <<v>> \in Seq(T) /\ Len(<<v>>) = 1 /\ <<v>>[1] = v
    OBVIOUS
  <1> HIDE DEF T
  <1>3. f \in Seq(T) /\ Len(f) = n - 1 /\ \A i \in 1 .. n - 1 : f[i] = s[i]
    BY <1>1
  <1> HIDE DEF f
  <1>4. r \in Seq(T) /\ Len(r) = n
    BY <1>2, <1>3
  <1>5. \A i \in 1 .. n : r[i] = IF i < n THEN s[i] ELSE v
    <2>1. ASSUME NEW i \in 1 .. n PROVE r[i] = IF i < n THEN s[i] ELSE v
      <3>1. CASE i < n
        <4>1. i \in 1 .. Len(f)
          BY <1>3, <3>1
        <4>2. r[i] = f[i]
          BY <1>2, <1>3, <4>1 DEF r
        <4> QED BY <1>3, <3>1, <4>1, <4>2
      <3>2. CASE i = n
        <4> DEFINE one == <<v>>
        <4>1. one \in Seq(T) /\ Len(one) = 1 /\ one[1] = v /\ r = f \o one
          BY <1>2 DEF r
        <4> HIDE DEF one
        <4>2. r[(n - 1) + 1] = one[1]
          BY <1>3, <4>1
        <4>3. (n - 1) + 1 = n /\ ~(i < n)
          BY <3>2
        <4>4. r[n] = v
          BY <4>1, <4>2, <4>3
        <4> QED BY <3>2, <4>3, <4>4
      <3>3. i < n \/ i = n
        OBVIOUS
      <3> QED BY <3>1, <3>2, <3>3
    <2> QED BY <2>1
  <1> HIDE DEF r
  <1>6. r \in [1 .. n -> T]
    BY <1>4
  <1>7. r = [i \in 1 .. n |-> IF i < n THEN s[i] ELSE v]
    BY <1>5, <1>6
  <1> QED BY <1>1, <1>4, <1>7 DEF r, f

-------------------------------------------------------------------------------
(* The n-th operation a capture logs, from 0 on.                              *)
OpAt(n) ==
    [tag |-> OpKinds[((n % OpsPerPass) % 4) + 1].tag,
     kv |-> OpKinds[((n % OpsPerPass) % 4) + 1].kv,
     layer |-> (n % OpsPerPass) \div 4, pass |-> n \div OpsPerPass + 1]

LEMMA Ops ==
    /\ Len(OpKinds) = 4 /\ DOMAIN OpKinds = 1 .. 4
    /\ Layers \in Nat \ {0} /\ OpsPerPass = 4 * Layers /\ OpsPerPass \in Nat \ {0}
    /\ PassCounts \subseteq Nat
    /\ OpKinds[1] = [tag |-> "SR", kv |-> "k"] /\ OpKinds[2] = [tag |-> "SR", kv |-> "v"]
    /\ OpKinds[3] = [tag |-> "MM", kv |-> "k"] /\ OpKinds[4] = [tag |-> "MM", kv |-> "v"]
  BY ExpandAssumption DEF OpKinds, OpsPerPass

(* The operations of a pass are those of its layers, four by four.            *)
LEMMA InPass ==
    ASSUME NEW j \in Nat \ {0}, NEW m \in 0 .. OpsPerPass - 1
    PROVE  LET op == OpAt((j - 1) * OpsPerPass + m) IN
           /\ op.tag = OpKinds[(m % 4) + 1].tag /\ op.kv = OpKinds[(m % 4) + 1].kv
           /\ op.layer = m \div 4 /\ op.pass = j
  <1> DEFINE O == OpsPerPass
             q == (j - 1) * O
             n == q + m
  <1>1. O \in Nat \ {0} /\ m \in 0 .. O - 1
    BY Ops
  <1>2. q \in Nat
    <2>1. j - 1 \in Nat
      OBVIOUS
    <2> HIDE DEF O
    <2> QED BY <1>1, <2>1, TimesOrder
  <1>3. n \div O = j - 1
    <2>1. n \in Nat /\ j - 1 \in Nat /\ q <= n /\ n < q + O
      BY <1>1, <1>2
    <2> HIDE DEF n, O
    <2> QED BY <1>1, <2>1, DivIs
  <1>4. n % O = m
    <2> DEFINE d == n \div O
               r == n % O
    <2>1. r \in Nat /\ n = d * O + r
      <3>1. n \in Nat
        BY <1>1, <1>2
      <3> HIDE DEF n, O
      <3> QED BY <1>1, <3>1, DivMod
    <2>2. d * O = q
      BY <1>3
    <2> HIDE DEF d, r, q
    <2>3. r = m
      BY <1>1, <1>2, <2>1, <2>2
    <2> QED BY <2>3 DEF r
  <1>5. OpAt(n) = [tag |-> OpKinds[(m % 4) + 1].tag, kv |-> OpKinds[(m % 4) + 1].kv,
                   layer |-> m \div 4, pass |-> j - 1 + 1]
    <2> HIDE DEF n
    <2> QED BY <1>3, <1>4 DEF OpAt
  <1>6. j - 1 + 1 = j
    OBVIOUS
  <1> HIDE DEF n
  <1>7. /\ OpAt(n).tag = OpKinds[(m % 4) + 1].tag /\ OpAt(n).kv = OpKinds[(m % 4) + 1].kv
        /\ OpAt(n).layer = m \div 4 /\ OpAt(n).pass = j
    BY <1>5, <1>6
  <1> QED BY <1>7 DEF n

(* The log is the operations of its passes in their order, cut anywhere.      *)
LogInv ==
    /\ Len(log) \in Nat /\ log = [i \in 1 .. Len(log) |-> OpAt(i - 1)]
    /\ kinds \in Seq({"prefill", "decode"})
    /\ (Len(kinds) - 1) * OpsPerPass < Len(log)
    /\ Len(log) <= Len(kinds) * OpsPerPass

(* How far apart passes start once split.  With one layer the index never     *)
(* falls: there is one, of the whole log.                                     *)
Span == IF Layers = 1 THEN Len(log) + 1 ELSE OpsPerPass

PartLen(j, n) == IF j * Span <= n THEN Span ELSE n - (j - 1) * Span
Part(j, n) == [i \in 1 .. PartLen(j, n) |-> log[(j - 1) * Span + i]]

SplitInv ==
    /\ read \in 0 .. Len(log)
    /\ Len(passes) \in Nat
    /\ (Len(passes) - 1) * Span < read /\ read <= Len(passes) * Span
    /\ passes = [j \in 1 .. Len(passes) |-> Part(j, read)]

ExpandInv ==
    /\ pc \in {"capture", "split", "expand", "failed"} /\ count \in Nat
    /\ pc = "capture" => read = 0 /\ passes = <<>>
    /\ pc # "expand" => accesses = <<>>
    /\ pc = "expand" =>
        /\ read = Len(log) /\ accesses = decode_passes
        /\ \A i \in DOMAIN accesses : validate_decode_pass(accesses[i])

KvInv == LogInv /\ SplitInv /\ ExpandInv

LEMMA LogGrows ==
    ASSUME LogInv, LogOp
    PROVE  LogInv'
  <1> DEFINE O == OpsPerPass
             L == Len(log)
             K == Len(kinds)
             A == K * O
             n == L % O
             new == [tag |-> OpKinds[(n % 4) + 1].tag, kv |-> OpKinds[(n % 4) + 1].kv,
                     layer |-> n \div 4, pass |-> Len(kinds')]
  <1>1. /\ O \in Nat \ {0} /\ L \in Nat /\ K \in Nat
        /\ kinds \in Seq({"prefill", "decode"})
        /\ (K - 1) * O < L /\ L <= A
    BY Ops DEF LogInv
  <1>2. (K - 1) * O = A - O /\ (K + 1) * O = A + O /\ A \in Nat
    <2> HIDE DEF K, O
    <2>1. (K - 1) * O = K * O - 1 * O /\ (K + 1) * O = K * O + 1 * O /\ K * O \in Nat
      BY <1>1, Times, TimesOrder
    <2> QED BY <1>1, <2>1
  <1>3. log' = Append(log, new)
    BY Ops DEF LogOp
  <1>4. /\ n = 0 => \E k \in {"prefill", "decode"} : kinds' = Append(kinds, k)
        /\ n # 0 => kinds' = kinds
    BY DEF LogOp
  <1>5. L \div O = (IF L = A THEN K ELSE K - 1) /\ (n = 0 <=> L = A)
    <2> DEFINE d == L \div O
    <2>1. d \in Nat /\ n \in 0 .. O - 1 /\ L = d * O + n
      <3> HIDE DEF L, O
      <3> QED BY <1>1, DivMod
    <2>2. CASE L = A
      <3>1. d = K
        <4> HIDE DEF L, O, K, d
        <4>1. K * O <= L /\ L < K * O + O
          BY <1>1, <2>2 DEF A
        <4>2. L \div O = K
          BY <1>1, <4>1, DivIs
        <4> QED BY <4>2 DEF d
      <3>2. n = 0
        <4>1. d * O = A
          BY <3>1
        <4> HIDE DEF d, n, L, A, O, K
        <4> QED BY <1>1, <1>2, <2>1, <2>2, <4>1
      <3> QED BY <2>2, <3>1, <3>2
    <2>3. CASE L # A
      <3>1. K - 1 \in Nat
        <4>1. K # 0
          <5>1. K = 0 => A = 0
            <6> HIDE DEF K, O
            <6> QED BY <1>1
          <5> HIDE DEF A, L, K
          <5> QED BY <1>1, <1>2, <2>3, <5>1
        <4> HIDE DEF K
        <4> QED BY <1>1, <4>1
      <3>2. d = K - 1
        <4>1. (K - 1) * O <= L /\ L < (K - 1) * O + O
          <5> HIDE DEF A, L, K, O
          <5> QED BY <1>1, <1>2, <2>3
        <4> HIDE DEF L, O, K, d
        <4>2. L \div O = K - 1
          BY <1>1, <3>1, <4>1, DivIs
        <4> QED BY <4>2 DEF d
      <3>3. n # 0
        <4>1. d * O = A - O
          BY <1>2, <3>2
        <4>2. (K - 1) * O = A - O
          BY <1>2
        <4> HIDE DEF d, n, L, A, O
        <4> QED BY <1>1, <1>2, <2>1, <4>1, <4>2
      <3> QED BY <2>3, <3>2, <3>3
    <2> QED BY <2>2, <2>3
  <1>6. Len(kinds') = (IF L = A THEN K + 1 ELSE K) /\ kinds' \in Seq({"prefill", "decode"})
    BY <1>1, <1>4, <1>5
  <1>7. new = OpAt(L)
    <2>1. L \div O + 1 = Len(kinds')
      <3> HIDE DEF L, O, A
      <3> QED BY <1>1, <1>5, <1>6
    <2> QED BY <2>1 DEF OpAt
  <1>8. Len(log)' = L + 1 /\ log' = [i \in 1 .. L + 1 |-> OpAt(i - 1)]
    <2>1. log = [i \in 1 .. L |-> log[i]] /\ \A i \in 1 .. L : log[i] = OpAt(i - 1)
      <3>1. log = [i \in 1 .. L |-> OpAt(i - 1)]
        BY DEF LogInv
      <3> HIDE DEF L
      <3> QED BY <3>1
    <2> HIDE DEF L, new
    <2>2. /\ Append(log, new) = [i \in 1 .. L + 1 |-> IF i <= L THEN log[i] ELSE new]
          /\ Len(Append(log, new)) = L + 1
      BY <1>1, <2>1, Appended
    <2>3. \A i \in 1 .. L + 1 : (IF i <= L THEN log[i] ELSE new) = OpAt(i - 1)
      <3>1. \A i \in 1 .. L + 1 : (i <= L /\ i \in 1 .. L) \/ (~(i <= L) /\ i - 1 = L)
        BY <1>1
      <3> QED BY <1>7, <2>1, <3>1
    <2> QED BY <1>3, <2>2, <2>3
  <1>9. (Len(kinds') - 1) * O < L + 1 /\ L + 1 <= Len(kinds') * O
    <2>1. CASE L = A
      <3>1. Len(kinds') = K + 1 /\ (K + 1) - 1 = K
        BY <1>1, <1>6, <2>1
      <3>2. (Len(kinds') - 1) * O = A /\ Len(kinds') * O = A + O
        BY <1>2, <3>1
      <3> HIDE DEF A, O, L
      <3> QED BY <1>1, <1>2, <2>1, <3>2
    <2>2. CASE L # A
      <3>1. (Len(kinds') - 1) * O = A - O /\ Len(kinds') * O = A
        BY <1>2, <1>6, <2>2
      <3> HIDE DEF A, O, L
      <3> QED BY <1>1, <1>2, <2>2, <3>1
    <2> QED BY <2>1, <2>2
  <1>10. OpsPerPass' = OpsPerPass
    BY DEF OpsPerPass
  <1> HIDE DEF L, A, K, n, new
  <1> QED BY <1>1, <1>6, <1>8, <1>9 DEF LogInv

-------------------------------------------------------------------------------
(* Splitting at falling layers cuts the log where its passes begin.           *)
LEMMA LogOps ==
    ASSUME LogInv
    PROVE  /\ Len(log) \in Nat /\ \A i \in 1 .. Len(log) : log[i] = OpAt(i - 1)
           /\ Span \in Nat \ {0}
           /\ Len(log) > 0 => Span > 1
           /\ Layers # 1 => Span = OpsPerPass
  <1>1. Len(log) \in Nat /\ \A i \in 1 .. Len(log) : log[i] = OpAt(i - 1)
    <2> DEFINE L == Len(log)
    <2>1. L \in Nat /\ log = [i \in 1 .. L |-> OpAt(i - 1)]
      BY DEF LogInv
    <2> HIDE DEF L
    <2>2. \A i \in 1 .. L : log[i] = OpAt(i - 1)
      BY <2>1
    <2> QED BY <2>1, <2>2 DEF L
  <1> QED BY <1>1, Ops DEF Span

LEMMA LayerFalls ==
    ASSUME LogInv, NEW L \in Nat \ {0}, NEW n \in Nat \ {0}, n < Len(log),
           (L - 1) * Span < n, n <= L * Span
    PROVE  log[n + 1].layer < log[n].layer <=> n = L * Span
  <1>1. /\ Len(log) \in Nat /\ log[n] = OpAt(n - 1) /\ log[n + 1] = OpAt(n)
    <2>1. Len(log) \in Nat /\ n \in 1 .. Len(log) /\ n + 1 \in 1 .. Len(log)
          /\ (n + 1) - 1 = n
      BY LogOps
    <2> QED BY <2>1, LogOps
  <1>2. CASE Layers = 1
    <2>1. Span = Len(log) + 1
      BY <1>2 DEF Span
    <2>2. L = 1
      <3>1. ASSUME L # 1 PROVE FALSE
        <4>1. 1 * Span <= (L - 1) * Span
          BY <1>1, <2>1, <3>1, TimesOrder
        <4>2. 1 * Span = Span
          BY <1>1, <2>1
        <4> DEFINE x == (L - 1) * Span
        <4>3. x \in Int
          BY <1>1, <2>1, Z3
        <4> HIDE DEF x
        <4>4. Span <= x /\ x < n
          BY <4>1, <4>2 DEF x
        <4> QED BY <1>1, <2>1, <4>3, <4>4
      <3> QED BY <3>1
    <2>3. n # L * Span
      BY <1>1, <2>1, <2>2
    <2>4. \A x \in Nat : OpAt(x).layer = 0
      <3>1. \A x \in Nat : (x % 4) \div 4 = 0
        BY Z3
      <3>2. OpsPerPass = 4
        BY <1>2, Ops
      <3> QED BY <3>1, <3>2 DEF OpAt
    <2>5. log[n].layer = 0 /\ log[n + 1].layer = 0
      BY <1>1, <2>4
    <2> QED BY <2>3, <2>5
  <1>3. CASE Layers # 1
    <2> DEFINE O == OpsPerPass
               x == (L - 1) * O
               m == n - x
    <2>1. Span = O /\ O \in Nat \ {0} /\ O = 4 * Layers /\ Layers \in Nat /\ Layers >= 2
      BY <1>1, <1>3, Ops DEF Span
    <2>2. x \in Nat /\ L * O = x + O
      <3> HIDE DEF O
      <3>1. L - 1 \in Nat
        OBVIOUS
      <3>2. (L - 1) * O = L * O - 1 * O /\ L * O \in Int /\ (L - 1) * O \in Nat
        BY <2>1, <3>1, Times, TimesOrder
      <3> QED BY <2>1, <3>2
    <2>3. m \in 1 .. O /\ n = x + m
      <3>1. x < n /\ n <= x + O
        BY <2>1, <2>2
      <3> HIDE DEF x, O
      <3> QED BY <2>1, <2>2, <3>1
    <2>4. log[n].layer = (m - 1) \div 4
      <3>1. m - 1 \in 0 .. O - 1 /\ x + (m - 1) = n - 1
        <4> HIDE DEF x, O, m
        <4> QED BY <2>1, <2>2, <2>3
      <3>2. OpAt(x + (m - 1)).layer = (m - 1) \div 4
        <4> HIDE DEF m
        <4> QED BY <3>1, InPass
      <3> HIDE DEF x, m
      <3> QED BY <1>1, <3>1, <3>2
    <2>5. CASE m = O
      <3>1. log[n + 1].layer = 0
        <4>1. n = ((L + 1) - 1) * O + 0 /\ L + 1 \in Nat \ {0} /\ 0 \in 0 .. O - 1
          <5>1. n = L * O /\ L * O \in Nat
            <6> HIDE DEF x, O, m
            <6> QED BY <2>1, <2>2, <2>3, <2>5
          <5>2. (L + 1) - 1 = L
            OBVIOUS
          <5>3. 0 \in 0 .. O - 1
            BY <2>1
          <5> HIDE DEF O
          <5> QED BY <5>1, <5>2, <5>3
        <4>2. OpAt(((L + 1) - 1) * O + 0).layer = 0 \div 4
          BY <4>1, InPass
        <4>3. 0 \div 4 = 0
          BY Z3
        <4> HIDE DEF O
        <4> QED BY <1>1, <4>1, <4>2, <4>3
      <3>2. log[n].layer = Layers - 1
        <4>1. (4 * Layers - 1) \div 4 = Layers - 1
          BY <2>1, Z3
        <4>2. m - 1 = 4 * Layers - 1
          BY <2>1, <2>5
        <4> HIDE DEF m
        <4> QED BY <2>4, <4>1, <4>2
      <3>3. n = L * Span
        <4> HIDE DEF x, O, m
        <4> QED BY <2>1, <2>2, <2>3, <2>5
      <3> QED BY <2>1, <3>1, <3>2, <3>3
    <2>6. CASE m # O
      <3>1. log[n + 1].layer = m \div 4
        <4>1. m \in 0 .. O - 1
          <5> HIDE DEF m, O
          <5> QED BY <2>1, <2>3, <2>6
        <4>2. OpAt(x + m).layer = m \div 4
          <5> HIDE DEF m
          <5> QED BY <4>1, InPass
        <4> HIDE DEF x, m
        <4> QED BY <1>1, <2>3, <4>2
      <3>2. ~(m \div 4 < (m - 1) \div 4)
        <4> HIDE DEF m, O
        <4> QED BY <2>1, <2>3, Z3
      <3>3. n # L * Span
        <4> HIDE DEF x, O, m
        <4> QED BY <2>1, <2>2, <2>3, <2>6
      <3> HIDE DEF m
      <3> QED BY <2>4, <3>1, <3>2, <3>3
    <2> QED BY <2>5, <2>6
  <1> QED BY <1>2, <1>3

LEMMA PartLenIs ==
    ASSUME NEW j, NEW n, NEW x, x = j * Span, NEW y, y = (j - 1) * Span
    PROVE  /\ x <= n => PartLen(j, n) = Span
           /\ ~(x <= n) => PartLen(j, n) = n - y
  BY Zenon DEF PartLen

LEMMA SplitStep ==
    ASSUME LogInv, SplitInv, SplitOp
    PROVE  SplitInv'
  <1> DEFINE S == Span
             L == Len(passes)
             A == L * S
             op == log[read + 1]
             P(j, n) == Part(j, n)
             PL(j, n) == PartLen(j, n)
  <1>1. /\ S \in Nat \ {0} /\ S > 1 /\ L \in Nat /\ Len(log) \in Nat
        /\ read \in Nat /\ read < Len(log)
        /\ (L - 1) * S < read /\ read <= A
        /\ passes = [j \in 1 .. L |-> P(j, read)]
        /\ log' = log /\ read' = read + 1
        /\ passes' = IF NewPass(op) THEN Append(passes, <<op>>)
                     ELSE Front(passes) \o <<Append(Last(passes), op)>>
    <2>1. Len(log) \in Nat /\ S \in Nat \ {0} /\ (Len(log) > 0 => S > 1)
      BY LogOps
    <2>2. /\ read \in 0 .. Len(log) /\ read < Len(log)
          /\ log' = log /\ read' = read + 1
          /\ passes' = IF NewPass(op) THEN Append(passes, <<op>>)
                       ELSE Front(passes) \o <<Append(Last(passes), op)>>
      BY DEF SplitInv, SplitOp, capture
    <2>3. /\ L \in Nat /\ (L - 1) * S < read /\ read <= A
          /\ passes = [j \in 1 .. L |-> P(j, read)]
      BY DEF SplitInv
    <2>4. Len(log) > 0 /\ read \in Nat
      BY <2>1, <2>2
    <2> HIDE DEF S, L, A, op, P
    <2> QED BY <2>1, <2>2, <2>3, <2>4
  <1>2. (L - 1) * S = A - S /\ (L + 1) * S = A + S /\ A \in Nat
    <2> HIDE DEF L, S
    <2>1. (L - 1) * S = L * S - 1 * S /\ (L + 1) * S = L * S + 1 * S /\ L * S \in Nat
      BY <1>1, Times, TimesOrder
    <2> QED BY <1>1, <2>1
  <1>3. \A j \in 1 .. L : passes[j] = P(j, read)
    <2> HIDE DEF L, P
    <2> QED BY <1>1
  <1>4. \A j, n : P(j, n)' = P(j, n')
    <2>1. Span' = Span
      BY <1>1 DEF Span
    <2> QED BY <1>1, <2>1 DEF Part, PartLen
  (* The passes before the last are complete already.                         *)
  <1>5. ASSUME NEW j \in 1 .. L, j * S <= read PROVE P(j, read + 1) = P(j, read)
    <2>1. j * S \in Int
      <3> HIDE DEF S, L
      <3> QED BY <1>1, Times
    <2>2. PL(j, read) = S /\ PL(j, read + 1) = S
      <3> DEFINE x == j * S
      <3>1. x <= read + 1
        <4> HIDE DEF x
        <4> QED BY <1>1, <1>5, <2>1 DEF x
      <3> QED BY <1>5, <3>1 DEF PartLen
    <2> QED BY <2>2 DEF Part
  <1>6. CASE read = A
    <2>1. ASSUME L # 0
          PROVE  /\ passes # <<>> /\ Last(Last(passes)).layer = log[read].layer
                 /\ log[read + 1].layer < log[read].layer
      <3>1. L \in 1 .. L /\ L \in Nat \ {0}
        BY <1>1, <2>1
      <3>2. passes # <<>> /\ Last(passes) = P(L, read)
        <4>1. passes # <<>>
          BY <3>1
        <4> QED BY <1>3, <3>1, <4>1 DEF Last
      <3>3. PL(L, read) = S
        BY <1>6, <1>1 DEF PartLen
      <3>4. P(L, read) = [i \in 1 .. S |-> log[(L - 1) * S + i]]
        BY <3>3 DEF Part
      <3>5. Len(P(L, read)) = S /\ P(L, read)[S] = log[(L - 1) * S + S]
        <4> DEFINE f == [i \in 1 .. S |-> log[(L - 1) * S + i]]
        <4>1. S \in Nat /\ S \in 1 .. S
          BY <1>1
        <4>2. Len(f) = S /\ f[S] = log[(L - 1) * S + S]
          <5> HIDE DEF S, L
          <5> QED BY <4>1
        <4> QED BY <3>4, <4>2
      <3>6. (L - 1) * S + S = read
        <4> HIDE DEF A, S, L
        <4> QED BY <1>1, <1>2, <1>6
      <3>7. Last(Last(passes)).layer = log[read].layer
        <4> HIDE DEF P, S, L
        <4> QED BY <3>2, <3>5, <3>6 DEF Last
      <3>8. read \in Nat \ {0}
        <4>1. S <= A
          <5> DEFINE x == 1 * S
          <5>1. x <= A /\ x = S
            <6> HIDE DEF S, L
            <6> QED BY <1>1, <3>1, TimesOrder DEF A
          <5> HIDE DEF x
          <5> QED BY <5>1
        <4> HIDE DEF A, S
        <4> QED BY <1>1, <1>2, <1>6, <4>1
      <3>9. log[read + 1].layer < log[read].layer
        <4> HIDE DEF L
        <4> QED BY <1>1, <1>6, <3>1, <3>8, LayerFalls
      <3> QED BY <3>2, <3>7, <3>9
    <2>2. NewPass(op)
      <3>1. CASE L = 0
        <4>1. passes = <<>>
          <5>1. \A f : [j \in 1 .. 0 |-> f[j]] = <<>>
            OBVIOUS
          <5>2. 1 .. 0 = {}
            OBVIOUS
          <5>3. passes = [j \in {} |-> P(j, read)]
            <6> HIDE DEF L, P
            <6> QED BY <1>1, <3>1, <5>2
          <5> QED BY <5>3
        <4> QED BY <4>1 DEF NewPass
      <3>2. CASE L # 0
        BY <2>1, <3>2 DEF NewPass, Falls
      <3> QED BY <3>1, <3>2
    <2>3. /\ passes' = [j \in 1 .. L + 1 |-> IF j <= L THEN passes[j] ELSE <<op>>]
          /\ Len(passes') = L + 1
      <3>1. passes = [j \in 1 .. L |-> passes[j]]
        <4> HIDE DEF L, P
        <4> QED BY <1>1
      <3>2. passes' = Append(passes, <<op>>)
        BY <1>1, <2>2
      <3>3. L \in Nat
        BY <1>1
      <3> DEFINE v == <<op>>
      <3> HIDE DEF L, v
      <3>4. /\ Append(passes, v) = [j \in 1 .. L + 1 |-> IF j <= L THEN passes[j] ELSE v]
            /\ Len(Append(passes, v)) = L + 1
        BY <3>1, <3>3, Appended
      <3> QED BY <3>2, <3>4 DEF v
    <2>4. <<op>> = P(L + 1, read + 1)
      <3>1. PL(L + 1, read + 1) = 1
        <4>1. (L + 1) - 1 = L
          BY <1>1
        <4> DEFINE x == (L + 1) * S
        <4>2. /\ x <= read + 1 => PL(L + 1, read + 1) = S
              /\ ~(x <= read + 1) => PL(L + 1, read + 1) = (read + 1) - A
          <5>1. ((L + 1) - 1) * Span = A /\ x = (L + 1) * Span
            BY <4>1
          <5> DEFINE K == L + 1
                     r == read + 1
          <5>2. A = (K - 1) * Span /\ x = K * Span
            BY <5>1
          <5> HIDE DEF A, x, K, L, r
          <5>3. x <= r => PartLen(K, r) = Span
            BY <5>2, PartLenIs
          <5>4. ~(x <= r) => PartLen(K, r) = r - A
            BY <5>2, PartLenIs
          <5> QED BY <5>3, <5>4 DEF K, r
        <4>3. x = A + S
          BY <1>2
        <4>4. S \in Nat /\ S > 1 /\ A \in Nat /\ read = A
          BY <1>1, <1>2, <1>6
        <4> HIDE DEF x, A, S, PL
        <4> QED BY <4>2, <4>3, <4>4
      <3>2. P(L + 1, read + 1) = [i \in 1 .. 1 |-> log[A + i]]
        <4>1. (L + 1) - 1 = L
          BY <1>1
        <4> QED BY <3>1, <4>1 DEF Part
      <3>3. [i \in 1 .. 1 |-> log[A + i]] = <<log[A + 1]>>
        <4> HIDE DEF A
        <4> QED OBVIOUS
      <3> QED BY <1>6, <3>2, <3>3
    <2>5. \A j \in 1 .. L + 1 : (IF j <= L THEN passes[j] ELSE <<op>>) = P(j, read + 1)
      <3>1. ASSUME NEW j \in 1 .. L PROVE passes[j] = P(j, read + 1)
        <4>1. j * S <= read
          <5>1. j \in Nat /\ j <= L
            BY <1>1
          <5> HIDE DEF L, S
          <5> QED BY <1>1, <1>6, <5>1, TimesOrder DEF A
        <4> QED BY <1>3, <1>5, <4>1
      <3>2. \A j \in 1 .. L + 1 : (j <= L /\ j \in 1 .. L) \/ (~(j <= L) /\ j = L + 1)
        <4> HIDE DEF L
        <4> QED BY <1>1
      <3> HIDE DEF L, P, op
      <3> QED BY <2>4, <3>1, <3>2
    <2>6. passes' = [j \in 1 .. L + 1 |-> P(j, read + 1)]
      <3> HIDE DEF L, P, op
      <3> QED BY <2>3, <2>5
    <2>7. passes' = [j \in 1 .. Len(passes)' |-> P(j, read)']
      <3>1. \A j : P(j, read)' = P(j, read + 1)
        BY <1>1, <1>4
      <3> HIDE DEF L, P
      <3> QED BY <2>3, <2>6, <3>1
    <2>8. Span' = S
      BY <1>1 DEF Span
    <2>9. (Len(passes)' - 1) * S < read + 1 /\ read + 1 <= Len(passes)' * S
      <3>1. Len(passes)' = L + 1 /\ (L + 1) - 1 = L
        BY <1>1, <2>3
      <3>2. (Len(passes)' - 1) * S = A /\ Len(passes)' * S = A + S
        BY <1>2, <3>1
      <3> HIDE DEF A, S
      <3> QED BY <1>1, <1>2, <1>6, <3>2
    <2>10. read' \in 0 .. Len(log)' /\ Len(passes)' \in Nat
      <3> HIDE DEF L
      <3> QED BY <1>1, <2>3
    <2> HIDE DEF P, L
    <2> QED BY <1>1, <2>7, <2>8, <2>9, <2>10 DEF SplitInv, P
  <1>7. CASE read # A
    <2> DEFINE m == read - (L - 1) * S
               p == P(L, read)
    <2>1. L \in Nat \ {0} /\ L \in 1 .. L
      <3>1. L = 0 => A = 0
        <4> HIDE DEF L, S
        <4> QED BY <1>1 DEF A
      <3> HIDE DEF A
      <3>2. L # 0
        <4> HIDE DEF L, S
        <4> QED BY <1>1, <1>2, <1>7, <3>1
      <3> QED BY <1>1, <3>2
    <2>2. m \in 1 .. S - 1 /\ read = (L - 1) * S + m /\ read \in Nat \ {0}
      <3> DEFINE x == (L - 1) * S
      <3>1. x = A - S /\ x \in Nat
        <4>1. L - 1 \in Nat
          BY <2>1
        <4>2. x \in Nat
          <5> HIDE DEF L, S
          <5> QED BY <1>1, <4>1, TimesOrder
        <4> QED BY <1>2, <4>2
      <3>2. x < read
        BY <1>1
      <3> HIDE DEF x, A, S
      <3> QED BY <1>1, <1>2, <1>7, <3>1, <3>2 DEF m, x
    <2>3. p = [i \in 1 .. m |-> log[(L - 1) * S + i]]
      <3>1. PL(L, read) = m
        <4>1. ~(L * S <= read)
          <5> HIDE DEF S, L
          <5> QED BY <1>1, <1>2, <1>7 DEF A
        <4> QED BY <4>1 DEF PartLen
      <3> QED BY <3>1 DEF Part
    <2>4. passes # <<>> /\ Last(passes) = p
      <3>1. passes # <<>>
        BY <2>1
      <3> QED BY <1>3, <2>1, <3>1 DEF Last
    <2>5. p = [i \in 1 .. m |-> p[i]] /\ Len(p) = m /\ p[m] = log[read]
      <3> DEFINE f == [i \in 1 .. m |-> log[(L - 1) * S + i]]
      <3>1. m \in Nat /\ m \in 1 .. m
        <4> HIDE DEF m, S
        <4> QED BY <1>1, <2>2
      <3>2. Len(f) = m /\ f[m] = log[(L - 1) * S + m] /\ f = [i \in 1 .. m |-> f[i]]
        <4> HIDE DEF m, S, L
        <4> QED BY <3>1
      <3> HIDE DEF p, m, S, L
      <3> QED BY <2>2, <2>3, <3>2
    <2>6. ~NewPass(op)
      <3>1. ~(log[read + 1].layer < log[read].layer)
        <4> HIDE DEF L
        <4> QED BY <1>1, <1>7, <2>1, <2>2, LayerFalls
      <3>2. Last(Last(passes)).layer = log[read].layer
        <4> HIDE DEF p, m
        <4> QED BY <2>4, <2>5 DEF Last
      <3> QED BY <2>4, <3>1, <3>2 DEF NewPass, Falls
    <2>7. /\ passes' = [j \in 1 .. L |-> IF j < L THEN passes[j] ELSE Append(p, op)]
          /\ Len(passes') = L
      <3>1. passes = [j \in 1 .. L |-> passes[j]]
        <4> HIDE DEF L, P
        <4> QED BY <1>1
      <3>2. passes' = SubSeq(passes, 1, L - 1) \o <<Append(p, op)>>
        BY <1>1, <2>4, <2>6 DEF Front
      <3> DEFINE v == Append(p, op)
      <3> HIDE DEF L, v
      <3>3. /\ SubSeq(passes, 1, L - 1) \o <<v>> = [j \in 1 .. L |-> IF j < L THEN passes[j] ELSE v]
            /\ Len(SubSeq(passes, 1, L - 1) \o <<v>>) = L
        <4>1. L \in Nat \ {0}
          BY <2>1
        <4>2. SubSeq(passes, 1, L - 1) \o <<v>> = [j \in 1 .. L |-> IF j < L THEN passes[j] ELSE v]
          BY <3>1, <4>1, LastReplaced
        <4>3. Len(SubSeq(passes, 1, L - 1) \o <<v>>) = L
          BY <3>1, <4>1, LastReplaced
        <4> QED BY <4>2, <4>3
      <3> QED BY <3>2, <3>3 DEF v
    <2>8. Append(p, op) = P(L, read + 1)
      <3>1. PL(L, read + 1) = m + 1
        <4> DEFINE x == (L - 1) * S
        <4>1. x = A - S
          BY <1>2
        <4>2. /\ A <= read + 1 => PL(L, read + 1) = S
              /\ ~(A <= read + 1) => PL(L, read + 1) = (read + 1) - x
          <5> DEFINE r == read + 1
          <5>1. A = L * Span /\ x = (L - 1) * Span
            OBVIOUS
          <5> HIDE DEF A, x, L, r
          <5>2. A <= r => PartLen(L, r) = Span
            BY <5>1, PartLenIs
          <5>3. ~(A <= r) => PartLen(L, r) = r - x
            BY <5>1, PartLenIs
          <5> QED BY <5>2, <5>3 DEF r
        <4>3. m = read - x
          OBVIOUS
        <4>4. /\ S \in Nat /\ S > 1 /\ A \in Nat /\ read \in Nat /\ read <= A
              /\ read # A /\ m \in 1 .. S - 1
          BY <1>1, <1>2, <1>7, <2>2
        <4> HIDE DEF x, m, A, S, PL
        <4> QED BY <4>1, <4>2, <4>3, <4>4
      <3>2. P(L, read + 1) = [i \in 1 .. m + 1 |-> log[(L - 1) * S + i]]
        BY <3>1 DEF Part
      <3>3. Append(p, op) = [i \in 1 .. m + 1 |-> IF i <= m THEN p[i] ELSE op]
        <4>1. m \in Nat
          <5> HIDE DEF m, S
          <5> QED BY <1>1, <2>2
        <4> HIDE DEF p, op, m
        <4> QED BY <2>5, <4>1, Appended
      <3>4. \A i \in 1 .. m + 1 : (IF i <= m THEN p[i] ELSE op) = log[(L - 1) * S + i]
        <4> DEFINE x == (L - 1) * S
        <4>1. \A i \in 1 .. m + 1 : (i <= m /\ i \in 1 .. m) \/ (~(i <= m) /\ i = m + 1)
          <5> HIDE DEF m, S
          <5> QED BY <1>1, <2>2
        <4>2. x + (m + 1) = read + 1
          <5>1. x = A - S /\ m = read - x /\ A \in Nat /\ S \in Nat /\ read \in Nat
            BY <1>1, <1>2
          <5> HIDE DEF x, m, A, S
          <5> QED BY <5>1
        <4>3. \A i \in 1 .. m : p[i] = log[x + i]
          <5>1. p = [i \in 1 .. m |-> log[x + i]]
            BY <2>3
          <5> HIDE DEF p, m, x
          <5> QED BY <5>1
        <4> HIDE DEF p, m, x
        <4> QED BY <4>1, <4>2, <4>3 DEF x
      <3> HIDE DEF p, m, op, P
      <3> QED BY <3>2, <3>3, <3>4
    <2>9. \A j \in 1 .. L : (IF j < L THEN passes[j] ELSE Append(p, op)) = P(j, read + 1)
      <3>1. ASSUME NEW j \in 1 .. L, j < L PROVE passes[j] = P(j, read + 1)
        <4>1. j * S <= read
          <5> DEFINE x == (L - 1) * S
                     y == j * S
          <5>1. y <= x /\ y \in Nat /\ x \in Nat
            <6>1. j \in Nat /\ L - 1 \in Nat /\ j <= L - 1
              BY <2>1, <3>1
            <6> HIDE DEF L, S
            <6> QED BY <1>1, <6>1, TimesOrder
          <5>2. x < read
            BY <1>1
          <5> HIDE DEF x, y
          <5>3. y <= read
            BY <1>1, <5>1, <5>2
          <5> QED BY <5>3 DEF y
        <4> QED BY <1>3, <1>5, <4>1
      <3>2. \A j \in 1 .. L : j < L \/ (~(j < L) /\ j = L)
        <4>1. L \in Nat
          BY <1>1
        <4> HIDE DEF L
        <4> QED BY <4>1
      <3> HIDE DEF L, P, op, p
      <3> QED BY <2>8, <3>1, <3>2
    <2>10. passes' = [j \in 1 .. L |-> P(j, read + 1)]
      <3> HIDE DEF L, P, op, p
      <3> QED BY <2>7, <2>9
    <2>11. passes' = [j \in 1 .. Len(passes)' |-> P(j, read)']
      <3>1. \A j : P(j, read)' = P(j, read + 1)
        BY <1>1, <1>4
      <3> HIDE DEF L, P
      <3> QED BY <2>7, <2>10, <3>1
    <2>12. Span' = S
      BY <1>1 DEF Span
    <2>13. (Len(passes)' - 1) * S < read + 1 /\ read + 1 <= Len(passes)' * S
      <3>1. Len(passes)' = L
        BY <2>7
      <3>2. (Len(passes)' - 1) * S = A - S /\ Len(passes)' * S = A
        BY <1>2, <3>1
      <3>3. A - S < read
        BY <1>1, <1>2
      <3> HIDE DEF A, S
      <3> QED BY <1>1, <1>2, <1>7, <3>2, <3>3
    <2>14. read' \in 0 .. Len(log)' /\ Len(passes)' \in Nat
      <3> HIDE DEF L
      <3> QED BY <1>1, <2>7
    <2> HIDE DEF P, L, p, m
    <2> QED BY <1>1, <2>11, <2>12, <2>13, <2>14 DEF SplitInv, P
  <1> QED BY <1>6, <1>7

(* Before it splits, what has been split of the log stays as nothing, however *)
(* far passes start apart.                                                    *)
LEMMA NothingSplit ==
    ASSUME LogInv', read' = 0, passes' = <<>>
    PROVE  SplitInv'
  <1> DEFINE S == Span'
             f == [j \in 1 .. 0 |-> Part(j, read)']
  <1>1. Len(log)' \in Nat /\ S \in Nat \ {0}
    <2>1. Len(log)' \in Nat /\ (OpsPerPass \in Nat \ {0})
      BY Ops DEF LogInv
    <2> QED BY <2>1 DEF Span, OpsPerPass
  <1>2. Len(passes)' = 0 /\ (0 - 1) * S < 0 /\ 0 <= 0 * S
    <2> HIDE DEF S
    <2> QED BY <1>1
  <1>3. passes' = f
    <2>1. 1 .. 0 = {}
      OBVIOUS
    <2> QED BY <2>1
  <1>4. read' \in 0 .. Len(log)'
    BY <1>1
  <1>5. passes' = [j \in 1 .. Len(passes)' |-> Part(j, read)']
    BY <1>2, <1>3
  <1>6. (Len(passes)' - 1) * S < read' /\ read' <= Len(passes)' * S
    BY <1>2
  <1> QED BY <1>2, <1>4, <1>5, <1>6 DEF SplitInv

LEMMA KvInit == Init => KvInv
  <1> SUFFICES ASSUME Init PROVE KvInv
    OBVIOUS
  <1>1. LogInv
    <2>1. Len(log) = 0 /\ Len(kinds) = 0 /\ kinds \in Seq({"prefill", "decode"})
      BY DEF Init
    <2>2. log = [i \in 1 .. 0 |-> OpAt(i - 1)]
      <3>1. 1 .. 0 = {}
        OBVIOUS
      <3> QED BY <3>1 DEF Init
    <2>3. (0 - 1) * OpsPerPass < 0 /\ 0 <= 0 * OpsPerPass
      <3> DEFINE O == OpsPerPass
      <3>1. O \in Nat \ {0}
        BY Ops
      <3> HIDE DEF O
      <3>2. (0 - 1) * O < 0 /\ 0 <= 0 * O
        BY <3>1
      <3> QED BY <3>2 DEF O
    <2> QED BY <2>1, <2>2, <2>3 DEF LogInv
  <1>2. SplitInv
    <2>1. Span \in Nat \ {0}
      BY <1>1, LogOps
    <2>2. Len(passes) = 0 /\ read = 0 /\ (0 - 1) * Span < 0 /\ 0 <= 0 * Span
      <3> DEFINE S == Span
      <3>1. S \in Nat \ {0}
        BY <2>1
      <3> HIDE DEF S
      <3>2. (0 - 1) * S < 0 /\ 0 <= 0 * S
        BY <3>1
      <3> QED BY <3>2 DEF S, Init
    <2>3. passes = [j \in 1 .. 0 |-> Part(j, read)]
      <3>1. 1 .. 0 = {}
        OBVIOUS
      <3> QED BY <3>1 DEF Init
    <2>4. read \in 0 .. Len(log)
      BY <1>1 DEF LogInv, Init
    <2>5. passes = [j \in 1 .. Len(passes) |-> Part(j, read)]
      BY <2>2, <2>3
    <2>6. (Len(passes) - 1) * Span < read /\ read <= Len(passes) * Span
      BY <2>2
    <2> QED BY <2>2, <2>4, <2>5, <2>6 DEF SplitInv
  <1>3. ExpandInv
    BY Ops DEF Init, ExpandInv
  <1> QED BY <1>1, <1>2, <1>3 DEF KvInv

(* What the invariant reads of the state.                                     *)
LEMMA SameLog ==
    ASSUME LogInv, UNCHANGED <<log, kinds>>
    PROVE  LogInv'
  BY DEF LogInv, OpsPerPass

LEMMA SameSplit ==
    ASSUME SplitInv, UNCHANGED <<log, read, passes>>
    PROVE  SplitInv'
  <1>1. Span' = Span
    BY DEF Span, OpsPerPass
  <1>2. \A j : Part(j, read)' = Part(j, read)
    BY <1>1 DEF Part, PartLen
  <1> QED BY <1>1, <1>2 DEF SplitInv

LEMMA SameFound ==
    ASSUME UNCHANGED <<kinds, passes>>
    PROVE  found' = found /\ \A p : is_decode_pass(p)' = is_decode_pass(p')
  BY DEF found, is_decode_pass, MMs, n_tok

LEMMA KvNext == KvInv /\ [Next]_vars => KvInv'
  <1> SUFFICES ASSUME KvInv, [Next]_vars PROVE KvInv'
    OBVIOUS
  <1> USE DEF KvInv
  <1>1. CASE LogOp
    <2>1. LogInv'
      BY <1>1, LogGrows
    <2>2. read' = 0 /\ passes' = <<>>
      BY <1>1 DEF LogOp, ExpandInv
    <2>3. SplitInv'
      BY <2>1, <2>2, NothingSplit
    <2>4. ExpandInv'
      BY <1>1, <2>2 DEF LogOp, ExpandInv
    <2> QED BY <2>1, <2>3, <2>4
  <1>2. CASE EndCapture
    <2>1. UNCHANGED <<log, kinds, read, passes>>
      BY <1>2 DEF EndCapture
    <2>2. ExpandInv'
      BY <1>2 DEF EndCapture, ExpandInv
    <2> QED BY <2>1, <2>2, SameLog, SameSplit
  <1>3. CASE Parse
    <2>1. UNCHANGED <<log, kinds, read, passes>>
      BY <1>3 DEF Parse, capture
    <2>2. ExpandInv'
      BY <1>3 DEF Parse, ExpandInv
    <2> QED BY <2>1, <2>2, SameLog, SameSplit
  <1>4. CASE SplitOp
    <2>1. UNCHANGED <<log, kinds>>
      BY <1>4 DEF SplitOp, capture
    <2>2. ExpandInv'
      BY <1>4 DEF SplitOp, ExpandInv
    <2> QED BY <1>4, <2>1, <2>2, SameLog, SplitStep
  <1>5. CASE Expand
    <2>1. UNCHANGED <<log, kinds, read, passes, count>>
      BY <1>5 DEF Expand, capture
    <2>2. decode_passes' = decode_passes
      BY <2>1, SameFound DEF decode_passes
    <2>3. ExpandInv'
      <3>1. CASE pc' = "expand"
        <4>1. /\ accesses' = decode_passes /\ read = Len(log)
              /\ \A i \in DOMAIN decode_passes : validate_decode_pass(decode_passes[i])
          BY <1>5, <3>1 DEF Expand
        <4>2. \A i \in DOMAIN accesses' : validate_decode_pass(accesses[i])'
          BY <4>1 DEF validate_decode_pass, n_layers, LayerSet, by_kind, OpKinds
        <4>3. count' \in Nat
          BY <2>1 DEF ExpandInv
        <4> QED BY <2>1, <2>2, <3>1, <4>1, <4>2, <4>3 DEF ExpandInv
      <3>2. CASE pc' # "expand"
        <4>1. pc' = "failed" /\ accesses' = accesses
          BY <1>5, <3>2 DEF Expand
        <4>2. accesses = <<>> /\ count' \in Nat
          BY <1>5, <2>1 DEF Expand, ExpandInv
        <4> QED BY <4>1, <4>2 DEF ExpandInv
      <3> QED BY <3>1, <3>2
    <2> QED BY <2>1, <2>3, SameLog, SameSplit
  <1>6. CASE UNCHANGED vars
    <2>1. UNCHANGED <<log, kinds, read, passes, count, pc, accesses>>
      BY <1>6 DEF vars
    <2>2. decode_passes' = decode_passes
      BY <2>1, SameFound DEF decode_passes
    <2>3. \A i \in DOMAIN accesses : validate_decode_pass(accesses[i])' <=> validate_decode_pass(accesses[i])
      BY <2>1 DEF validate_decode_pass, n_layers, LayerSet, by_kind, OpKinds
    <2>4. ExpandInv'
      BY <2>1, <2>2, <2>3 DEF ExpandInv
    <2> QED BY <2>1, <2>4, SameLog, SameSplit
  <1> QED BY <1>1, <1>2, <1>3, <1>4, <1>5, <1>6 DEF Next, Stopped

-------------------------------------------------------------------------------
(* Equally many operations of every kind, taken in turn, end with a layer.    *)
LEMMA ThreeBack ==
    ASSUME NEW m \in Nat, NEW i \in 1 .. m, (i - 1) % 4 = 3
    PROVE  i - 3 \in 1 .. m /\ ((i - 3) - 1) % 4 = 0
  <1> DEFINE a == i - 1
             d == a \div 4
             r == a % 4
  <1>1. a \in Nat /\ 4 \in Nat \ {0} /\ r = 3
    OBVIOUS
  <1>2. d \in Nat /\ a = d * 4 + r
    <2> HIDE DEF a
    <2> QED BY <1>1, DivMod
  <1> HIDE DEF d, r
  <1>3. a = 4 * d + 3 /\ d \in Nat
    <2> HIDE DEF a
    <2> QED BY <1>1, <1>2
  <1>4. i - 3 \in 1 .. m /\ (i - 3) - 1 = 4 * d
    BY <1>3
  <1>5. (4 * d) % 4 = 0
    BY <1>3, Z3
  <1> QED BY <1>4, <1>5

LEMMA WholeLayers ==
    ASSUME NEW m \in Nat \ {0}, NEW p, p = [i \in 1 .. m |-> p[i]],
           \A i \in 1 .. m : /\ p[i].tag = OpKinds[((i - 1) % 4) + 1].tag
                             /\ p[i].kv = OpKinds[((i - 1) % 4) + 1].kv,
           validate_decode_pass(p)
    PROVE  m % 4 = 0 /\ (n_layers(p) = 1 => m = 4)
  <1> DEFINE S(k) == {i \in 1 .. m : (i - 1) % 4 = k}
             A == S(0)
             B == S(3)
             n == n_layers(p)
  <1>1. DOMAIN p = 1 .. m
    OBVIOUS
  <1>2. /\ by_kind(p, OpKinds[1]) = A /\ by_kind(p, OpKinds[4]) = B
    <2>1. \A i \in 1 .. m : (i - 1) % 4 \in {0, 1, 2, 3}
      BY Z3
    <2>2. \A i \in 1 .. m :
              /\ p[i].tag = "SR" /\ p[i].kv = "k" <=> (i - 1) % 4 = 0
              /\ p[i].tag = "MM" /\ p[i].kv = "v" <=> (i - 1) % 4 = 3
      <3> TAKE i \in 1 .. m
      <3> DEFINE r == (i - 1) % 4
      <3>1. /\ p[i].tag = OpKinds[r + 1].tag /\ p[i].kv = OpKinds[r + 1].kv
            /\ r = 0 \/ r = 1 \/ r = 2 \/ r = 3
        BY <2>1
      <3> HIDE DEF r
      <3>2. /\ p[i].tag = "SR" /\ p[i].kv = "k" <=> r = 0
            /\ p[i].tag = "MM" /\ p[i].kv = "v" <=> r = 3
        <4>1. CASE r = 0
          <5>1. r + 1 = 1
            BY <4>1
          <5> QED BY <3>1, <4>1, <5>1, Ops
        <4>2. CASE r = 1
          <5>1. r + 1 = 2
            BY <4>2
          <5> QED BY <3>1, <4>2, <5>1, Ops
        <4>3. CASE r = 2
          <5>1. r + 1 = 3
            BY <4>3
          <5> QED BY <3>1, <4>3, <5>1, Ops
        <4>4. CASE r = 3
          <5>1. r + 1 = 4
            BY <4>4
          <5> QED BY <3>1, <4>4, <5>1, Ops
        <4> QED BY <3>1, <4>1, <4>2, <4>3, <4>4
      <3> QED BY <3>2 DEF r
    <2>3. \A i : i \in by_kind(p, OpKinds[1]) <=> i \in A
      BY <1>1, <2>2, Ops DEF by_kind
    <2>4. \A i : i \in by_kind(p, OpKinds[4]) <=> i \in B
      BY <1>1, <2>2, Ops DEF by_kind
    <2> HIDE DEF A, B
    <2> QED BY Zenon, <2>3, <2>4
  <1>3. Cardinality(A) = n /\ Cardinality(B) = n
    <2>1. \A k \in 1 .. 4 : Cardinality(by_kind(p, OpKinds[k])) = n
      BY Ops DEF validate_decode_pass
    <2> HIDE DEF A, B, n
    <2> QED BY <1>2, <2>1
  <1>4. IsFiniteSet(A) /\ IsFiniteSet(B) /\ n \in Nat
    <2>1. A \subseteq 1 .. m /\ B \subseteq 1 .. m /\ IsFiniteSet(1 .. m)
      BY FS_Interval
    <2> HIDE DEF A, B, n
    <2>2. IsFiniteSet(A) /\ IsFiniteSet(B)
      BY <2>1, FS_Subset
    <2> QED BY <1>3, <2>2, FS_CardinalityType
  <1>5. m % 4 = 0
    <2> SUFFICES ASSUME m % 4 # 0 PROVE FALSE
      OBVIOUS
    <2> DEFINE q == m \div 4
               last == 4 * q + 1
               C == A \ {last}
               f == [i \in B |-> i - 3]
    <2>1. q \in Nat /\ m % 4 \in 1 .. 3 /\ m = 4 * q + (m % 4)
      <3> DEFINE r == m % 4
      <3>1. q \in Nat /\ r \in 0 .. 3 /\ m = q * 4 + r /\ r # 0
        <4>1. 4 \in Nat \ {0} /\ 4 - 1 = 3
          OBVIOUS
        <4> QED BY <4>1, DivMod
      <3> HIDE DEF q, r
      <3>2. q \in Nat /\ r \in 1 .. 3 /\ m = 4 * q + r
        BY <3>1
      <3> QED BY <3>2 DEF r
    <2>2. last \in A
      <3>1. (4 * q) % 4 = 0
        <4> HIDE DEF q
        <4> QED BY <2>1, Z3
      <3>2. last \in 1 .. m /\ last - 1 = 4 * q
        <4> DEFINE r == m % 4
        <4> HIDE DEF q, r
        <4> QED BY <2>1 DEF r
      <3> HIDE DEF last, q
      <3> QED BY <3>1, <3>2
    <2>3. IsFiniteSet(C) /\ Cardinality(C) = n - 1
      <3> HIDE DEF A, last, n
      <3> QED BY <1>3, <1>4, <2>2, FS_RemoveElement
    <2>4. \A i \in B : i \in 1 .. m /\ (i - 1) % 4 = 3 /\ i - 3 \in C
      <3> TAKE i \in B
      <3>1. i \in 1 .. m /\ (i - 1) % 4 = 3
        OBVIOUS
      <3>2. i - 3 \in 1 .. m /\ ((i - 3) - 1) % 4 = 0
        <4> HIDE DEF B
        <4> QED BY <3>1, ThreeBack
      <3>3. i - 3 # last
        <4> DEFINE r == m % 4
        <4>1. r \in 1 .. 3 /\ m = 4 * q + r
          BY <2>1
        <4> HIDE DEF q, r
        <4> QED BY <2>1, <3>1, <4>1
      <3> HIDE DEF last
      <3> QED BY <3>1, <3>2, <3>3
    <2>5. f \in Injection(B, C)
      <3>1. f \in [B -> C]
        <4> HIDE DEF B, C
        <4> QED BY <2>4
      <3>2. \A i, j \in B : f[i] = f[j] => i = j
        <4> HIDE DEF B
        <4> QED BY <2>4
      <3> HIDE DEF f, B, C
      <3> QED BY <3>1, <3>2 DEF Injection, IsInjective
    <2>6. Cardinality(B) <= Cardinality(C)
      <3> HIDE DEF f, B, C
      <3> QED BY <2>3, <2>5, FS_Injection
    <2> HIDE DEF n, B, C
    <2> QED BY <1>3, <1>4, <2>3, <2>6
  <1>6. ASSUME n = 1 PROVE m = 4
    <2> SUFFICES ASSUME m # 4 PROVE FALSE
      OBVIOUS
    <2>1. 1 \in 1 .. m /\ 5 \in 1 .. m
      BY <1>5, Z3
    <2>2. 1 \in A /\ 5 \in A
      <3>1. (1 - 1) % 4 = 0 /\ (5 - 1) % 4 = 0
        BY Z3
      <3> QED BY <2>1, <3>1
    <2> HIDE DEF A
    <2>3. PICK x : A = {x}
      BY <1>3, <1>4, <1>6, FS_Singleton
    <2> QED BY <2>2, <2>3
  <1> QED BY <1>5, <1>6

(* The x-th pass split of the whole log is m operations of the x-th captured, *)
(* all of them unless the log ends before.                                    *)
IsCut(x, m) ==
    LET c == (x - 1) * OpsPerPass IN
    /\ x \in Nat \ {0} /\ c \in Nat
    /\ m \in 1 .. OpsPerPass /\ c + m <= Len(log)
    /\ m = OpsPerPass \/ c + m = Len(log)
    /\ x < Len(passes) => m = OpsPerPass
    /\ passes[x] = [i \in 1 .. m |-> log[c + i]]
    /\ \A i \in 1 .. m : log[c + i] = OpAt(c + (i - 1))

LEMMA Cut ==
    ASSUME LogInv, SplitInv, read = Len(log), Layers # 1, NEW x \in 1 .. Len(passes)
    PROVE  /\ IsCut(x, PartLen(x, read))
           /\ x * OpsPerPass <= Len(log) => PartLen(x, read) = OpsPerPass
  <1> DEFINE O == OpsPerPass
             L == Len(passes)
             N == Len(log)
             c == (x - 1) * O
             b == x * O
             e == (L - 1) * O
             m == PartLen(x, read)
  <1>1. /\ O \in Nat \ {0} /\ L \in Nat /\ N \in Nat /\ Span = O /\ read = N
        /\ e < N /\ passes = [j \in 1 .. L |-> Part(j, read)]
        /\ \A i \in 1 .. N : log[i] = OpAt(i - 1)
    <2>1. Span = O
      BY LogOps
    <2> QED BY <2>1, Ops, LogOps DEF SplitInv
  <1>2. x \in Nat \ {0} /\ x - 1 \in Nat /\ x <= L /\ L - 1 \in Nat
    <2> HIDE DEF L
    <2> QED BY <1>1
  <1>3. c \in Nat /\ b = c + O /\ b \in Nat /\ e \in Nat /\ c <= e /\ (x < L => b <= e)
    <2> HIDE DEF O, L
    <2>1. (x - 1) * O = x * O - 1 * O /\ x * O \in Int
      BY <1>1, <1>2, Times
    <2>2. (x - 1) * O \in Nat /\ (L - 1) * O \in Nat /\ (x - 1) * O <= (L - 1) * O
      BY <1>1, <1>2, TimesOrder
    <2>3. x < L => x * O <= (L - 1) * O
      BY <1>1, <1>2, TimesOrder
    <2>4. c \in Nat /\ b = c + O /\ b \in Nat
      <3> HIDE DEF b, c
      <3>1. c = b - 1 * O /\ c \in Nat /\ b \in Int
        BY <2>1, <2>2 DEF b, c
      <3> QED BY <1>1, <3>1
    <2> QED BY <2>2, <2>3, <2>4
  <1>4. /\ b <= N => m = O
        /\ ~(b <= N) => m = N - c
    <2>1. b = x * Span /\ c = (x - 1) * Span
      BY <1>1
    <2> HIDE DEF b, c, N, O
    <2>2. b <= read => PartLen(x, read) = Span
      BY <2>1, PartLenIs
    <2>3. ~(b <= read) => PartLen(x, read) = read - c
      BY <2>1, PartLenIs
    <2> QED BY <1>1, <2>2, <2>3
  <1>5. /\ m \in 1 .. O /\ c + m <= N /\ (m = O \/ c + m = N)
        /\ x < L => m = O
    <2> HIDE DEF O, L, N, c, b, e, m
    <2> QED BY <1>1, <1>3, <1>4
  <1>6. passes[x] = [i \in 1 .. m |-> log[c + i]]
    <2>1. passes[x] = Part(x, read)
      <3> HIDE DEF L
      <3> QED BY <1>1
    <2>2. Part(x, read) = [i \in 1 .. m |-> log[(x - 1) * Span + i]]
      BY DEF Part
    <2> QED BY <1>1, <2>1, <2>2
  <1>7. \A i \in 1 .. m : log[c + i] = OpAt(c + (i - 1))
    <2> TAKE i \in 1 .. m
    <2> HIDE DEF O, N, c, m
    <2>1. c + i \in 1 .. N /\ (c + i) - 1 = c + (i - 1)
      BY <1>1, <1>3, <1>5
    <2> QED BY <1>1, <2>1
  <1>8. IsCut(x, m)
    <2> HIDE DEF m
    <2> QED BY <1>2, <1>3, <1>5, <1>6, <1>7 DEF IsCut
  <1> QED BY <1>4, <1>8

(* What the operations of such a pass are.                                    *)
LEMMA CutOps ==
    ASSUME NEW x, NEW m, IsCut(x, m)
    PROVE  /\ Len(passes[x]) = m /\ passes[x] = [i \in 1 .. m |-> passes[x][i]]
           /\ \A i \in 1 .. m :
                 /\ passes[x][i].tag = OpKinds[((i - 1) % 4) + 1].tag
                 /\ passes[x][i].kv = OpKinds[((i - 1) % 4) + 1].kv
                 /\ passes[x][i].pass = x
  <1> DEFINE O == OpsPerPass
             c == (x - 1) * O
             p == passes[x]
  <1>1. /\ x \in Nat \ {0} /\ c \in Nat /\ m \in 1 .. O /\ O \in Nat
        /\ p = [i \in 1 .. m |-> log[c + i]]
        /\ \A i \in 1 .. m : log[c + i] = OpAt(c + (i - 1))
    BY Ops DEF IsCut
  <1>2. m \in Nat
    <2> HIDE DEF O
    <2> QED BY <1>1
  <1>3. Len(p) = m /\ p = [i \in 1 .. m |-> p[i]] /\ \A i \in 1 .. m : p[i] = OpAt(c + (i - 1))
    <2> HIDE DEF p, c
    <2> QED BY <1>1, <1>2
  <1>4. ASSUME NEW i \in 1 .. m
        PROVE  /\ p[i].tag = OpKinds[((i - 1) % 4) + 1].tag
               /\ p[i].kv = OpKinds[((i - 1) % 4) + 1].kv
               /\ p[i].pass = x
    <2> DEFINE k == i - 1
    <2>1. k \in 0 .. O - 1
      <3> HIDE DEF O
      <3> QED BY <1>1
    <2> HIDE DEF k
    <2>2. /\ OpAt(c + k).tag = OpKinds[(k % 4) + 1].tag
          /\ OpAt(c + k).kv = OpKinds[(k % 4) + 1].kv /\ OpAt(c + k).pass = x
      BY <1>1, <2>1, InPass
    <2>3. p[i] = OpAt(c + k)
      BY <1>3 DEF k
    <2> HIDE DEF p, c
    <2>4. /\ p[i].tag = OpKinds[(k % 4) + 1].tag /\ p[i].kv = OpKinds[(k % 4) + 1].kv
          /\ p[i].pass = x
      BY <2>2, <2>3
    <2> QED BY <2>4 DEF k
  <1> QED BY <1>3, <1>4

(* With one layer a validated pass is the whole log, of one pass.             *)
LEMMA OnePass ==
    ASSUME LogInv, SplitInv, read = Len(log), Layers = 1, NEW x \in 1 .. Len(passes),
           validate_decode_pass(passes[x])
    PROVE  Len(log) = OpsPerPass /\ IsCut(x, OpsPerPass)
  <1> DEFINE L == Len(passes)
             N == Len(log)
             S == Span
             p == passes[1]
  <1>1. OpsPerPass = 4 /\ N \in Nat /\ S = N + 1 /\ L \in Nat
    BY Ops, LogOps DEF SplitInv, Span
  <1>2. L = 1 /\ x = 1 /\ N > 0
    <2>1. (L - 1) * S < N
      BY DEF SplitInv
    <2>2. L >= 1
      <3>1. x \in 1 .. L
        OBVIOUS
      <3> HIDE DEF L
      <3> QED BY <1>1, <3>1
    <2>3. ASSUME L # 1 PROVE FALSE
      <3> DEFINE y == (L - 1) * S
      <3>1. 1 \in Nat /\ L - 1 \in Nat /\ 1 <= L - 1 /\ S \in Nat
        <4> HIDE DEF L, S, N
        <4> QED BY <1>1, <2>2, <2>3
      <3>2. 1 * S <= y /\ y \in Nat
        <4> HIDE DEF L, S
        <4> QED BY <3>1, TimesOrder
      <3>3. 1 * S = S
        BY <3>1
      <3> HIDE DEF y, S, L, N
      <3> QED BY <1>1, <2>1, <3>2, <3>3 DEF y
    <2>4. (L - 1) * S = 0
      <3>1. L - 1 = 0
        BY <2>3
      <3> HIDE DEF L, S, N
      <3> QED BY <1>1, <3>1
    <2> HIDE DEF S, L, N
    <2> QED BY <1>1, <2>1, <2>3, <2>4 DEF L
  <1>3. p = [i \in 1 .. N |-> log[i]]
    <2>1. p = Part(1, read)
      <3>1. passes = [j \in 1 .. L |-> Part(j, read)]
        BY DEF SplitInv
      <3> HIDE DEF L
      <3> QED BY <1>2, <3>1
    <2>2. PartLen(1, read) = N
      <3> DEFINE a == 1 * S
                 z == (1 - 1) * S
      <3>1. a = S /\ z = 0
        <4> HIDE DEF S, N
        <4> QED BY <1>1
      <3>2. a = 1 * Span /\ z = (1 - 1) * Span
        OBVIOUS
      <3> HIDE DEF a, z
      <3>3. ~(a <= read) => PartLen(1, read) = read - z
        BY <3>2, PartLenIs
      <3> HIDE DEF S, N
      <3> QED BY <1>1, <3>1, <3>3 DEF N
    <2>3. (1 - 1) * Span = 0
      <3> HIDE DEF N, S
      <3>1. (1 - 1) * S = 0
        BY <1>1
      <3> QED BY <3>1 DEF S
    <2>4. Part(1, read) = [i \in 1 .. N |-> log[0 + i]]
      BY <2>2, <2>3 DEF Part
    <2>5. \A i \in 1 .. N : 0 + i = i
      OBVIOUS
    <2> QED BY <2>1, <2>4, <2>5
  <1>4. \A i \in 1 .. N : log[i] = OpAt(i - 1)
    BY LogOps
  <1>5. \A i \in 1 .. N : /\ p[i].tag = OpKinds[((i - 1) % 4) + 1].tag
                          /\ p[i].kv = OpKinds[((i - 1) % 4) + 1].kv
                          /\ p[i].layer = 0
    <2>1. \A n \in Nat : (n % 4) % 4 = n % 4 /\ (n % 4) \div 4 = 0
      BY Z3
    <2> TAKE i \in 1 .. N
    <2> DEFINE n == i - 1
    <2>2. n \in Nat
      OBVIOUS
    <2>3. p[i] = OpAt(n)
      <3> HIDE DEF p, N
      <3> QED BY <1>3, <1>4
    <2>4. /\ OpAt(n).tag = OpKinds[((n % 4) % 4) + 1].tag /\ OpAt(n).kv = OpKinds[((n % 4) % 4) + 1].kv
          /\ OpAt(n).layer = (n % 4) \div 4
      <3> HIDE DEF n
      <3> QED BY <1>1 DEF OpAt
    <2> HIDE DEF n, p
    <2>5. /\ p[i].tag = OpKinds[(n % 4) + 1].tag /\ p[i].kv = OpKinds[(n % 4) + 1].kv
          /\ p[i].layer = 0
      BY <2>1, <2>2, <2>3, <2>4
    <2> QED BY <2>5 DEF n
  <1>6. n_layers(p) = 1
    <2>1. LayerSet(p) = {0}
      <3>1. DOMAIN p = 1 .. N /\ 1 \in 1 .. N
        <4> HIDE DEF N
        <4> QED BY <1>1, <1>2, <1>3
      <3> HIDE DEF p, N
      <3> QED BY <1>5, <3>1 DEF LayerSet
    <2> QED BY <2>1, FS_Singleton DEF n_layers
  <1>7. N = 4
    <2>1. N \in Nat \ {0} /\ p = [i \in 1 .. N |-> p[i]] /\ validate_decode_pass(p)
      <3>1. p = [i \in 1 .. N |-> p[i]]
        <4> HIDE DEF N, p
        <4> QED BY <1>3
      <3> QED BY <1>1, <1>2, <3>1
    <2> HIDE DEF N, p
    <2> QED BY <1>5, <1>6, <2>1, WholeLayers
  <1>8. IsCut(x, 4)
    <2>1. (x - 1) * OpsPerPass = 0
      BY <1>1, <1>2
    <2>2. passes[x] = [i \in 1 .. 4 |-> log[0 + i]]
      <3>1. \A i \in 1 .. 4 : 0 + i = i
        OBVIOUS
      <3> HIDE DEF N
      <3> QED BY <1>2, <1>3, <1>7, <3>1
    <2>3. \A i \in 1 .. 4 : log[0 + i] = OpAt(0 + (i - 1))
      <3>1. \A i \in 1 .. 4 : 0 + i = i /\ 0 + (i - 1) = i - 1
        OBVIOUS
      <3> HIDE DEF N
      <3> QED BY <1>4, <1>7, <3>1
    <2>4. x \in Nat \ {0} /\ 0 \in Nat /\ 4 \in 1 .. 4 /\ 0 + 4 <= Len(log) /\ ~(x < Len(passes))
      BY <1>2, <1>7
    <2> HIDE DEF N, L, p
    <2> QED BY <1>1, <2>1, <2>2, <2>3, <2>4 DEF IsCut
  <1> QED BY <1>1, <1>7, <1>8

(* An accepted pass is such a cut of one decode pass, whole layers of it.     *)
LEMMA Accepted ==
    ASSUME LogInv, SplitInv, read = Len(log), NEW x \in 1 .. Len(passes),
           is_decode_pass(passes[x]), validate_decode_pass(passes[x])
    PROVE  \E m \in Nat : /\ IsCut(x, m) /\ m % 4 = 0 /\ kinds[x] = "decode"
                          /\ Layers = 1 => Len(log) = OpsPerPass
  <1>1. \E m : IsCut(x, m) /\ (Layers = 1 => Len(log) = OpsPerPass)
    BY Cut, OnePass
  <1>2. PICK m : IsCut(x, m) /\ (Layers = 1 => Len(log) = OpsPerPass)
    BY <1>1
  <1> DEFINE p == passes[x]
  <1>3. m \in Nat \ {0}
    BY <1>2, Ops DEF IsCut
  <1>4. /\ p = [i \in 1 .. m |-> p[i]]
        /\ \A i \in 1 .. m : /\ p[i].tag = OpKinds[((i - 1) % 4) + 1].tag
                             /\ p[i].kv = OpKinds[((i - 1) % 4) + 1].kv
                             /\ p[i].pass = x
    BY <1>2, CutOps
  <1>5. m % 4 = 0
    <2>1. validate_decode_pass(p)
      OBVIOUS
    <2> HIDE DEF p
    <2> QED BY <1>3, <1>4, <2>1, WholeLayers
  <1>6. kinds[x] = "decode"
    <2>1. PICK i \in MMs(p) : n_tok(p[i]) = 1
      BY DEF is_decode_pass
    <2>2. p[i].pass = x
      <3>1. i \in DOMAIN p /\ DOMAIN p = 1 .. m
        <4> HIDE DEF p
        <4> QED BY <1>4, <2>1 DEF MMs
      <3> HIDE DEF p
      <3> QED BY <1>4, <3>1
    <2> HIDE DEF p
    <2> QED BY <2>1, <2>2 DEF n_tok
  <1> QED BY <1>2, <1>3, <1>5, <1>6

Decodes == {x \in DOMAIN passes : is_decode_pass(passes[x])}

(* What is accepted are the decode passes in their order, as many as asked.   *)
LEMMA AccessesAre ==
    ASSUME KvInv, pc = "expand"
    PROVE  \E n \in 0 .. Cardinality(Decodes) :
              /\ accesses = [j \in 1 .. n |-> passes[Position(Decodes, j)]]
              /\ count = 0 => n = Cardinality(Decodes)
              /\ Decodes \in SUBSET (1 .. Len(passes)) /\ Len(passes) \in Nat
  <1> DEFINE D == Decodes
             C == Cardinality(D)
             f == [j \in 1 .. C |-> passes[Position(D, j)]]
  <1>1. Len(passes) \in Nat /\ count \in Nat /\ accesses = decode_passes
    BY DEF KvInv, SplitInv, ExpandInv
  <1>2. D \in SUBSET (1 .. Len(passes))
    <2>1. DOMAIN passes = 1 .. Len(passes)
      <3> DEFINE L == Len(passes)
      <3>1. passes = [j \in 1 .. L |-> Part(j, read)]
        BY DEF KvInv, SplitInv
      <3> HIDE DEF L
      <3>2. DOMAIN passes = 1 .. L
        BY <3>1
      <3> QED BY <3>2 DEF L
    <2> QED BY <2>1 DEF Decodes
  <1>3. C \in Nat
    <2> HIDE DEF D
    <2> QED BY <1>1, <1>2, Positions
  <1>4. found = f
    BY DEF found, Picked, Decodes
  <1>5. Len(f) = C
    <2> HIDE DEF C, D
    <2> QED BY <1>3
  <1>6. CASE count = 0 \/ count > Len(found)
    <2>1. accesses = f /\ C \in 0 .. C
      BY <1>1, <1>3, <1>4, <1>6 DEF decode_passes
    <2> QED BY <1>1, <1>2, <2>1
  <1>7. CASE ~(count = 0 \/ count > Len(found))
    <2>1. accesses = SubSeq(f, 1, count)
      BY <1>1, <1>4, <1>7 DEF decode_passes
    <2>2. count \in 1 .. C
      <3> HIDE DEF C, f
      <3> QED BY <1>1, <1>3, <1>4, <1>5, <1>7
    <2>3. SubSeq(f, 1, count) = [j \in 1 .. count |-> passes[Position(D, j)]]
      <3> HIDE DEF C, D
      <3> QED BY <1>3, <2>2
    <2> HIDE DEF C
    <2> QED BY <1>1, <1>2, <1>3, <2>1, <2>2, <2>3 DEF C
  <1> QED BY <1>6, <1>7

(* The operations of the x-th captured pass in the log.                       *)
LEMMA OfPass ==
    ASSUME LogInv, NEW x, NEW m, IsCut(x, m)
    PROVE  Picked(log, {n \in DOMAIN log : log[n].pass = x}) = passes[x]
  <1> DEFINE O == OpsPerPass
             c == (x - 1) * O
             N == Len(log)
             K == {n \in DOMAIN log : log[n].pass = x}
  <1>1. /\ O \in Nat \ {0} /\ N \in Nat /\ c \in Nat /\ x \in Nat \ {0}
        /\ m \in 1 .. O /\ c + m <= N /\ (m = O \/ c + m = N)
        /\ passes[x] = [i \in 1 .. m |-> log[c + i]]
        /\ \A i \in 1 .. N : log[i] = OpAt(i - 1)
    BY Ops, LogOps DEF IsCut
  <1>2. DOMAIN log = 1 .. N
    <2>1. log = [i \in 1 .. N |-> OpAt(i - 1)]
      BY DEF LogInv
    <2> HIDE DEF N
    <2> QED BY <2>1
  <1>3. ASSUME NEW n \in 1 .. N PROVE log[n].pass = x <=> n \in c + 1 .. c + m
    <2> DEFINE q == (n - 1) \div O
    <2>1. n - 1 \in Nat /\ x - 1 \in Nat
      <3> HIDE DEF N
      <3> QED BY <1>1
    <2>2. q \in Nat
      <3> HIDE DEF O
      <3> QED BY <1>1, <2>1, DivMod
    <2>3. log[n].pass = q + 1
      <3>1. log[n] = OpAt(n - 1)
        BY <1>1
      <3>2. OpAt(n - 1).pass = q + 1
        BY DEF OpAt
      <3> QED BY <3>1, <3>2
    <2>4. q = x - 1 <=> c <= n - 1 /\ n - 1 < c + O
      <3> DEFINE a == n - 1
                 y == x - 1
      <3> HIDE DEF O, a, y
      <3>1. a \div O = y <=> y * O <= a /\ a < y * O + O
        BY <1>1, <2>1, DivIs DEF a, y
      <3> QED BY <3>1 DEF a, y
    <2>5. c <= n - 1 /\ n - 1 < c + O <=> n \in c + 1 .. c + m
      <3> HIDE DEF c, O, N
      <3> QED BY <1>1, <1>3
    <2>6. q = x - 1 <=> q + 1 = x
      <3> HIDE DEF q
      <3> QED BY <1>1, <2>2
    <2> HIDE DEF q, c, O
    <2> QED BY <2>3, <2>4, <2>5, <2>6
  <1>4. K = c + 1 .. c + m
    <2>1. c + 1 .. c + m \subseteq 1 .. N
      <3> HIDE DEF c, N, O
      <3> QED BY <1>1
    <2> DEFINE R == c + 1 .. c + m
    <2>2. \A n : n \in K <=> n \in 1 .. N /\ log[n].pass = x
      BY <1>2
    <2> HIDE DEF R, K, N
    <2>3. \A n : n \in K <=> n \in R
      BY <1>3, <2>1, <2>2 DEF R
    <2>4. K = R
      BY Zenon, <2>3
    <2> QED BY <2>4 DEF R
  <1>5. Picked(log, c + 1 .. c + m) = [j \in 1 .. m |-> log[c + j]]
    <2> DEFINE a == c + 1
               b == c + m
    <2>1. a \in Int /\ b \in Int /\ a <= b + 1 /\ b - a + 1 = m
      <3> HIDE DEF c, O
      <3> QED BY <1>1
    <2>2. \A j \in 1 .. m : a + j - 1 = c + j
      <3> HIDE DEF c, O
      <3> QED BY <1>1
    <2> HIDE DEF a, b
    <2>3. Picked(log, a .. b) = [j \in 1 .. b - a + 1 |-> log[a + j - 1]]
      BY <2>1, PickedRange
    <2>4. Picked(log, a .. b) = [j \in 1 .. m |-> log[c + j]]
      <3> HIDE DEF c
      <3> QED BY <2>1, <2>2, <2>3
    <2> QED BY <2>4 DEF a, b
  <1> HIDE DEF c, K
  <1> QED BY <1>1, <1>4, <1>5 DEF K

-------------------------------------------------------------------------------
(* Accepted passes are whole layers of single decode passes, from their first *)
(* operation on, for every capture and wherever it was stopped: passes begin  *)
(* Span apart, validation leaves whole layers, and only the last of the log   *)
(* can be cut (expand_kv_log.py:109-176).                                     *)
THEOREM AcceptedAreDecodePassesCorrect == Spec => []AcceptedAreDecodePasses
  <1>1. KvInv => AcceptedAreDecodePasses
    <2> SUFFICES ASSUME KvInv, NEW i \in DOMAIN accesses
                 PROVE  /\ kinds[accesses[i][1].pass] = "decode"
                        /\ IsPrefix(accesses[i],
                                    Picked(log, {n \in DOMAIN log :
                                                    log[n].pass = accesses[i][1].pass}))
                        /\ Len(accesses[i]) % Len(OpKinds) = 0
                        /\ i < Len(accesses) => Whole(accesses[i])
      BY DEF AcceptedAreDecodePasses
    <2>1. /\ pc = "expand" /\ LogInv /\ SplitInv /\ read = Len(log)
          /\ validate_decode_pass(accesses[i])
      BY DEF KvInv, ExpandInv
    <2>2. PICK n \in 0 .. Cardinality(Decodes) :
              /\ accesses = [j \in 1 .. n |-> passes[Position(Decodes, j)]]
              /\ Decodes \in SUBSET (1 .. Len(passes)) /\ Len(passes) \in Nat
      BY <2>1, AccessesAre
    <2> DEFINE C == Cardinality(Decodes)
               x == Position(Decodes, i)
    <2>3. /\ C \in Nat
          /\ \A j \in 1 .. C : Position(Decodes, j) \in Decodes
          /\ \A j, l \in 1 .. C : j < l => Position(Decodes, j) < Position(Decodes, l)
      BY <2>2, Positions
    <2>4. n \in Nat /\ n <= C /\ Len(accesses) = n /\ i \in 1 .. n /\ i \in 1 .. C
      <3>1. n \in Nat /\ n <= C
        <4> HIDE DEF C
        <4> QED BY <2>2, <2>3 DEF C
      <3>2. DOMAIN accesses = 1 .. n /\ Len(accesses) = n
        BY <2>2, <3>1
      <3> HIDE DEF C
      <3> QED BY <2>3, <3>1, <3>2
    <2>5. x \in Decodes /\ accesses[i] = passes[x]
      <3> HIDE DEF C
      <3> QED BY <2>2, <2>3, <2>4
    <2>6. x \in 1 .. Len(passes) /\ is_decode_pass(passes[x])
      <3> HIDE DEF x
      <3> QED BY <2>2, <2>5 DEF Decodes
    <2>7. PICK m \in Nat : IsCut(x, m) /\ m % 4 = 0 /\ kinds[x] = "decode"
      <3>1. validate_decode_pass(passes[x])
        BY <2>1, <2>5
      <3> HIDE DEF x
      <3> QED BY <2>1, <2>6, <3>1, Accepted
    <2>8. Len(passes[x]) = m /\ passes[x][1].pass = x
      <3> HIDE DEF x
      <3>1. 1 \in 1 .. m
        BY <2>7, Ops DEF IsCut
      <3> QED BY <2>7, <3>1, CutOps
    <2>9. Picked(log, {k \in DOMAIN log : log[k].pass = x}) = passes[x]
      <3> HIDE DEF x
      <3> QED BY <2>1, <2>7, OfPass
    <2>10. IsPrefix(passes[x], passes[x])
      <3> DEFINE p == passes[x]
      <3>1. Len(p) \in Nat
        BY <2>7, <2>8
      <3> HIDE DEF p
      <3>2. IsPrefix(p, p)
        BY <3>1 DEF IsPrefix
      <3> QED BY <3>2 DEF p
    <2>11. i < Len(accesses) => Whole(accesses[i])
      <3> SUFFICES ASSUME i < n PROVE m = OpsPerPass
        BY <2>4, <2>5, <2>8 DEF Whole
      <3> DEFINE y == Position(Decodes, i + 1)
      <3>1. i + 1 \in 1 .. C /\ i < i + 1
        <4> HIDE DEF C
        <4> QED BY <2>3, <2>4
      <3>2. x < y /\ y \in 1 .. Len(passes)
        <4>1. x < y
          <5> HIDE DEF C
          <5> QED BY <2>3, <2>4, <3>1
        <4>2. y \in Decodes
          <5> HIDE DEF C
          <5> QED BY <2>3, <3>1
        <4> HIDE DEF x, y
        <4> QED BY <2>2, <4>1, <4>2
      <3>3. x < Len(passes)
        <4> HIDE DEF x, y
        <4> QED BY <2>2, <2>6, <3>2
      <3> HIDE DEF x, y
      <3> QED BY <2>7, <3>3 DEF IsCut
    <2> HIDE DEF x
    <2>12. accesses[i][1].pass = x
      BY <2>5, <2>8
    <2>13. kinds[accesses[i][1].pass] = "decode"
      BY <2>7, <2>12
    <2>14. IsPrefix(accesses[i], Picked(log, {k \in DOMAIN log : log[k].pass = accesses[i][1].pass}))
      BY <2>5, <2>9, <2>10, <2>12
    <2>15. Len(accesses[i]) % Len(OpKinds) = 0
      BY <2>5, <2>7, <2>8, Ops
    <2> QED BY <2>11, <2>13, <2>14, <2>15
  <1> QED BY <1>1, KvInit, KvNext, PTL DEF Spec

(* A run over all passes leaves no complete decode pass out.                  *)
THEOREM AllDecodePassesTakenCorrect == Spec => []AllDecodePassesTaken
  <1>1. KvInv => AllDecodePassesTaken
    <2> SUFFICES ASSUME KvInv, accesses # <<>>, count = 0, NEW p \in DOMAIN kinds,
                        kinds[p] = "decode", p * OpsPerPass <= Len(log)
                 PROVE  \E i \in DOMAIN accesses : accesses[i][1].pass = p
      BY DEF AllDecodePassesTaken
    <2> DEFINE O == OpsPerPass
               L == Len(passes)
               C == Cardinality(Decodes)
    <2>1. /\ pc = "expand" /\ LogInv /\ SplitInv /\ read = Len(log)
          /\ \A i \in DOMAIN accesses : validate_decode_pass(accesses[i])
      BY DEF KvInv, ExpandInv
    <2>2. /\ accesses = [j \in 1 .. C |-> passes[Position(Decodes, j)]]
          /\ Decodes \in SUBSET (1 .. L) /\ L \in Nat
      BY <2>1, AccessesAre
    <2>3. /\ C \in Nat
          /\ \A j \in 1 .. C : Position(Decodes, j) \in Decodes
          /\ \A k \in Decodes : \E j \in 1 .. C : Position(Decodes, j) = k
      BY <2>2, Positions
    <2>4. DOMAIN accesses = 1 .. C /\ \A j \in 1 .. C : accesses[j] = passes[Position(Decodes, j)]
      <3> HIDE DEF C
      <3> QED BY <2>2
    <2>5. p \in Nat \ {0} /\ O \in Nat \ {0}
      BY <2>1, Ops DEF LogInv
    <2>6. CASE Layers = 1
      <3>1. 1 \in 1 .. C
        <4>1. C # 0
          <5> SUFFICES ASSUME C = 0 PROVE FALSE
            OBVIOUS
          <5> HIDE DEF C
          <5>1. accesses = [j \in 1 .. 0 |-> passes[Position(Decodes, j)]] /\ 1 .. 0 = {}
            BY <2>2
          <5> QED BY <5>1
        <4> HIDE DEF C
        <4> QED BY <2>3, <4>1
      <3> DEFINE x == Position(Decodes, 1)
      <3>2. x \in Decodes /\ accesses[1] = passes[x] /\ validate_decode_pass(passes[x])
        <4> HIDE DEF C
        <4> QED BY <2>1, <2>3, <2>4, <3>1
      <3>3. x \in 1 .. L
        <4> HIDE DEF x
        <4> QED BY <2>2, <3>2
      <3> HIDE DEF x
      <3>4. Len(log) = O /\ IsCut(x, O)
        BY <2>1, <2>6, <3>2, <3>3, OnePass
      <3>5. p = 1
        <4> SUFFICES ASSUME p # 1 PROVE FALSE
          OBVIOUS
        <4> DEFINE a == 2 * O
                   b == p * O
        <4>1. a <= b /\ a \in Nat /\ b \in Nat
          <5>1. 2 <= p /\ 2 \in Nat /\ p \in Nat /\ O \in Nat
            <6> HIDE DEF O
            <6> QED BY <2>5
          <5> HIDE DEF O
          <5> QED BY <5>1, TimesOrder
        <4>2. a > O /\ b <= O
          <5>1. b <= O
            BY <3>4
          <5>2. a > O
            <6> HIDE DEF O
            <6> QED BY <2>5
          <5> HIDE DEF O
          <5> QED BY <5>1, <5>2
        <4> HIDE DEF a, b, O
        <4> QED BY <2>5, <4>1, <4>2
      <3>6. x = 1
        <4> DEFINE c == (x - 1) * O
        <4>1. c = 0
          <5>1. c \in Nat /\ c + O <= O
            BY <3>4 DEF IsCut
          <5> HIDE DEF c, O
          <5> QED BY <2>5, <5>1
        <4> SUFFICES ASSUME x # 1 PROVE FALSE
          OBVIOUS
        <4>2. 1 * O <= c
          <5>1. 1 \in Nat /\ x - 1 \in Nat /\ 1 <= x - 1 /\ O \in Nat
            <6> HIDE DEF O, L
            <6> QED BY <2>2, <2>5, <3>3
          <5> HIDE DEF O
          <5> QED BY <5>1, TimesOrder
        <4>3. 1 * O = O
          BY <2>5
        <4> HIDE DEF c, O
        <4> QED BY <2>5, <4>1, <4>2, <4>3
      <3>7. accesses[1][1].pass = 1
        <4>1. 1 \in 1 .. O
          <5> HIDE DEF O
          <5> QED BY <2>5
        <4>2. passes[x][1].pass = x
          <5> HIDE DEF O
          <5> QED BY <3>4, <4>1, CutOps
        <4> QED BY <3>2, <3>6, <4>2
      <3> HIDE DEF C
      <3> QED BY <2>4, <3>1, <3>5, <3>7
    <2>7. CASE Layers # 1
      <3>1. p \in 1 .. L
        <4>1. p * O <= L * O
          <5> DEFINE a == p * O
                     b == L * O
          <5>1. Span = O /\ Len(log) \in Nat
            BY <2>1, <2>7, LogOps
          <5>2. Len(log) <= b /\ a <= Len(log)
            BY <2>1, <5>1 DEF SplitInv
          <5>3. a \in Nat /\ b \in Nat
            <6>1. a \in Nat
              <7> HIDE DEF O
              <7> QED BY <2>5, TimesOrder
            <6>2. b \in Nat
              <7> HIDE DEF O, L
              <7> QED BY <2>2, <2>5, TimesOrder
            <6> QED BY <6>1, <6>2
          <5> HIDE DEF a, b
          <5> QED BY <5>1, <5>2, <5>3 DEF a, b
        <4> SUFFICES ASSUME ~(p <= L) PROVE FALSE
          <5> HIDE DEF L
          <5> QED BY <2>2, <2>5
        <4> DEFINE a == (L + 1) * O
                   b == p * O
                   d == L * O
        <4>2. a <= b /\ a = d + O /\ d \in Nat /\ b \in Nat
          <5> HIDE DEF O, L
          <5>1. L + 1 <= p /\ L + 1 \in Nat /\ p \in Nat
            BY <2>2, <2>5
          <5>2. (L + 1) * O <= p * O /\ p * O \in Nat /\ L * O \in Nat
            <6>1. (L + 1) * O <= p * O
              BY <2>5, <5>1, TimesOrder
            <6>2. p * O \in Nat
              BY <2>5, <5>1, TimesOrder
            <6>3. L * O \in Nat
              BY <2>2, <2>5, TimesOrder
            <6> QED BY <6>1, <6>2, <6>3
          <5>3. (L + 1) * O = L * O + 1 * O
            BY <2>2, <2>5, Times
          <5> QED BY <2>5, <5>2, <5>3
        <4> HIDE DEF a, b, d, O
        <4>3. b <= d
          BY <4>1 DEF b, d
        <4> QED BY <2>5, <4>2, <4>3
      <3>2. IsCut(p, O)
        <4> HIDE DEF O, L
        <4>1. IsCut(p, PartLen(p, read)) /\ PartLen(p, read) = O
          BY <2>1, <2>7, <3>1, Cut DEF O, L
        <4> QED BY <4>1
      <3>3. 1 \in 1 .. O /\ 3 \in 1 .. O
        BY Ops
      <3>4. /\ passes[p] = [i \in 1 .. O |-> passes[p][i]]
            /\ passes[p][3].tag = OpKinds[((3 - 1) % 4) + 1].tag
            /\ \A i \in 1 .. O : passes[p][i].pass = p
        <4> HIDE DEF O
        <4> QED BY <3>2, <3>3, CutOps
      <3>5. is_decode_pass(passes[p])
        <4>1. DOMAIN passes[p] = 1 .. O
          <5> HIDE DEF O
          <5> QED BY <3>4
        <4>2. passes[p][3].tag = "MM"
          <5>1. ((3 - 1) % 4) + 1 = 3
            BY Z3
          <5> QED BY <3>4, <5>1, Ops
        <4>3. 3 \in MMs(passes[p])
          BY <3>3, <4>1, <4>2 DEF MMs
        <4>4. \A i \in MMs(passes[p]) : n_tok(passes[p][i]) = 1
          <5> HIDE DEF O
          <5> QED BY <3>4, <4>1 DEF MMs, n_tok
        <4> QED BY <4>3, <4>4 DEF is_decode_pass
      <3>6. p \in Decodes
        <4>1. p \in DOMAIN passes
          <5>1. passes = [j \in 1 .. L |-> Part(j, read)]
            BY <2>1 DEF SplitInv
          <5> HIDE DEF L
          <5> QED BY <3>1, <5>1
        <4> QED BY <3>5, <4>1 DEF Decodes
      <3>7. PICK j \in 1 .. C : Position(Decodes, j) = p
        <4> HIDE DEF C
        <4> QED BY <2>3, <3>6
      <3>8. accesses[j][1].pass = p
        <4> HIDE DEF C, O
        <4> QED BY <2>4, <3>3, <3>4, <3>7
      <3> HIDE DEF C
      <3> QED BY <2>4, <3>7, <3>8
    <2> QED BY <2>6, <2>7
  <1> QED BY <1>1, KvInit, KvNext, PTL DEF Spec

===============================================================================
