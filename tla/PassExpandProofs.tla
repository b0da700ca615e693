-------------------------- MODULE PassExpandProofs ----------------------------
(* Theorems of the expander's walks, of the lines they read and store, and of *)
(* the rebased traces.                                                        *)
EXTENDS PassExpand, Picking, Sequences, FiniteSetTheorems, WellFoundedInduction, TLAPS
-------------------------------------------------------------------------------
(* Every set of naturals that is not empty has a least element: induction on  *)
(* a data value, as the least counterexample of a claim.                      *)
LEMMA LeastNat ==
    ASSUME NEW T \in SUBSET Nat, T # {}
    PROVE  \E n \in T : \A m \in T : n <= m
  <1>1. PICK n \in T : \A m \in T : <<m, n>> \notin OpToRel(<, Nat)
    BY NatLessThanWellFounded, WFMin
  <1>2. ASSUME NEW m \in T, m < n PROVE <<m, n>> \in OpToRel(<, Nat)
    BY <1>2 DEF OpToRel
  <1>3. \A m \in T : ~(m < n)
    BY <1>1, <1>2, Zenon
  <1> QED BY <1>3

LEMMA Times ==
    ASSUME NEW x \in Int, NEW y \in Int, NEW z \in Int
    PROVE  /\ x * y \in Int /\ x * y = y * x
           /\ (x + y) * z = x * z + y * z /\ (x - y) * z = x * z - y * z
  BY Z3

LEMMA TimesOrder ==
    ASSUME NEW x \in Nat, NEW y \in Nat, NEW z \in Nat, x <= y
    PROVE  x * z <= y * z /\ x * z \in Nat
  BY Z3

LEMMA DivMod ==
    ASSUME NEW a \in Nat, NEW m \in Nat \ {0}
    PROVE  /\ a \div m \in Nat /\ a % m \in 0 .. m - 1
           /\ a = (a \div m) * m + (a % m)
  BY Z3

(* The quotient is the number of whole m's.                                   *)
LEMMA DivIs ==
    ASSUME NEW a \in Nat, NEW m \in Nat \ {0}, NEW q \in Nat
    PROVE  a \div m = q <=> q * m <= a /\ a < q * m + m
  <1> DEFINE d == a \div m
             r == a % m
  <1>1. d \in Nat /\ r \in 0 .. m - 1 /\ a = d * m + r
    BY DivMod
  <1> HIDE DEF d, r
  <1>2. q * m \in Nat /\ d * m \in Nat
    BY <1>1, Z3
  <1>3. ASSUME q < d PROVE q * m + m <= d * m
    <2>1. (q + 1) * m <= d * m
      BY <1>1, <1>3, TimesOrder
    <2> QED BY <2>1, Times
  <1>4. ASSUME d < q PROVE d * m + m <= q * m
    <2>1. (d + 1) * m <= q * m
      BY <1>1, <1>4, TimesOrder
    <2> QED BY <1>1, <2>1, Times
  <1>5. d = q <=> q * m <= a /\ a < q * m + m
    BY <1>1, <1>2, <1>3, <1>4
  <1> QED BY <1>5 DEF d

LEMMA QuotientBelow ==
    ASSUME NEW a \in Nat, NEW m \in Nat \ {0}, NEW n \in Nat, a < n * m
    PROVE  a \div m \in Nat /\ a \div m < n
  <1> DEFINE d == a \div m
  <1>1. d \in Nat
    BY DivMod
  <1>2. d * m <= a
    <2> HIDE DEF d
    <2>1. a \div m = d
      BY DEF d
    <2> QED BY <1>1, <2>1, DivIs
  <1> HIDE DEF d
  <1>3. ASSUME n <= d PROVE FALSE
    <2>1. n * m <= d * m /\ n * m \in Nat /\ d * m \in Nat
      BY <1>1, <1>3, TimesOrder
    <2> QED BY <1>2, <2>1
  <1>4. d < n
    BY <1>1, <1>3
  <1> QED BY <1>1, <1>4 DEF d

(* As many parts of the rounded-up length as were asked for cover the whole.  *)

(* What is kept from a to b is the part of the sequence from a to b.          *)
LEMMA PickedRange ==
    ASSUME NEW s, NEW a \in Int, NEW b \in Int, a <= b + 1
    PROVE  /\ Cardinality(a .. b) = b - a + 1
           /\ Picked(s, a .. b) = [j \in 1 .. b - a + 1 |-> s[a + j - 1]]
  <1>1. Cardinality(a .. b) = b - a + 1
    BY FS_Interval
  <1>2. ASSUME NEW j \in 1 .. b - a + 1 PROVE Position(a .. b, j) = a + j - 1
    <2>1. ASSUME NEW i \in a .. b PROVE Cardinality({k \in a .. b : k <= i}) = i - a + 1
      <3>1. {k \in a .. b : k <= i} = a .. i
        OBVIOUS
      <3>2. i \in Int /\ a <= i
        OBVIOUS
      <3>3. Cardinality(a .. i) = i - a + 1
        BY <3>2, FS_Interval
      <3> QED BY <3>1, <3>3
    <2>2. a + j - 1 \in a .. b /\ \A i \in a .. b : i - a + 1 = j <=> i = a + j - 1
      OBVIOUS
    <2> QED BY <2>1, <2>2 DEF Position
  <1> QED BY <1>1, <1>2 DEF Picked

(* Equal steps make an arithmetic sequence.                                   *)
LEMMA Progression ==
    ASSUME NEW n \in Nat, NEW f, NEW d \in Int,
           \A i \in 1 .. n : f[i] \in Int,
           \A i \in 1 .. n - 1 : f[i + 1] - f[i] = d
    PROVE  \A i \in 1 .. n : f[i] = f[1] + (i - 1) * d
  <1> DEFINE Off == {i \in 1 .. n : f[i] # f[1] + (i - 1) * d}
  <1>1. ASSUME Off # {} PROVE FALSE
    <2>1. PICK least \in Off : \A m \in Off : least <= m
      <3>1. Off \in SUBSET Nat
        OBVIOUS
      <3> HIDE DEF Off
      <3> QED BY <1>1, <3>1, LeastNat
    <2>2. least \in 1 .. n /\ f[least] # f[1] + (least - 1) * d
      OBVIOUS
    <2>3. least # 1
      <3>1. (1 - 1) * d = 0 /\ f[1] \in Int
        BY <2>2, Z3
      <3> QED BY <2>2, <3>1
    <2> DEFINE i == least - 1
    <2>4. i \in 1 .. n - 1 /\ i \notin Off
      BY <2>1, <2>2, <2>3
    <2>5. f[i] = f[1] + (i - 1) * d /\ f[i + 1] - f[i] = d /\ i + 1 = least
          /\ f[1] \in Int /\ f[i] \in Int /\ f[i + 1] \in Int
      BY <2>2, <2>4
    <2>6. (i - 1) * d + d = i * d /\ i * d \in Int /\ (i - 1) * d \in Int
      <3>1. i \in Int
        BY <2>4
      <3> HIDE DEF i
      <3> QED BY <3>1, Z3
    <2> HIDE DEF i, Off
    <2>7. f[least] = f[1] + i * d /\ least - 1 = i
      BY <2>2, <2>4, <2>5, <2>6
    <2> QED BY <2>2, <2>7
  <1> QED BY <1>1

(* Appending, position by position.                                           *)
LEMMA Appended ==
    ASSUME NEW len \in Nat, NEW f, f = [i \in 1 .. len |-> f[i]], NEW v
    PROVE  /\ Len(f) = len
           /\ Append(f, v) = [i \in 1 .. len + 1 |-> IF i <= len THEN f[i] ELSE v]
           /\ Len(Append(f, v)) = len + 1
  <1> DEFINE T == {f[i] : i \in 1 .. len} \cup {v}
             s == Append(f, v)
  <1>1. f \in Seq(T) /\ Len(f) = len
    <2>1. [i \in 1 .. len |-> f[i]] \in Seq(T)
      OBVIOUS
    <2>2. Len([i \in 1 .. len |-> f[i]]) = len
      OBVIOUS
    <2> QED BY <2>1, <2>2
  <1>2. v \in T
    OBVIOUS
  <1> HIDE DEF T
  <1>3. s \in Seq(T) /\ Len(s) = len + 1
    BY <1>1, <1>2
  <1>4. \A i \in 1 .. len + 1 : s[i] = IF i <= len THEN f[i] ELSE v
    BY <1>1, <1>2
  <1> HIDE DEF s
  <1>5. s \in [1 .. len + 1 -> T]
    BY <1>3
  <1>6. s = [i \in 1 .. len + 1 |-> s[i]]
    BY <1>5
  <1>7. [i \in 1 .. len + 1 |-> s[i]] = [i \in 1 .. len + 1 |-> IF i <= len THEN f[i] ELSE v]
    BY <1>4
  <1> QED BY <1>1, <1>3, <1>6, <1>7 DEF s

LEMMA GreatestNat ==
    ASSUME NEW T \in SUBSET Nat, T # {}, NEW b \in Nat, \A t \in T : t <= b
    PROVE  \E n \in T : \A m \in T : m <= n
  <1> DEFINE Below == {b - t : t \in T}
  <1>1. Below \in SUBSET Nat /\ Below # {}
    <2>1. \A t \in T : b - t \in Nat
      OBVIOUS
    <2> QED BY <2>1
  <1>2. PICK d \in Below : \A e \in Below : d <= e
    <2> HIDE DEF Below
    <2> QED BY <1>1, LeastNat
  <1>3. PICK n \in T : d = b - n
    OBVIOUS
  <1>4. ASSUME NEW m \in T PROVE m <= n
    <2>1. b - n <= b - m
      BY <1>2, <1>3
    <2> QED BY <2>1
  <1> QED BY <1>4

(* Multiples.                                                                 *)
IsMultiple(a, m) == \E q \in Int : a = q * m

LEMMA ModMultiple ==
    ASSUME NEW a \in Nat, NEW m \in Nat \ {0}
    PROVE  a % m = 0 <=> IsMultiple(a, m)
  <1>1. ASSUME a % m = 0 PROVE IsMultiple(a, m)
    <2> DEFINE q == a \div m
               r == a % m
    <2>1. q \in Nat /\ a = q * m + r /\ r = 0
      BY <1>1, DivMod
    <2> HIDE DEF q, r
    <2>2. q * m \in Int
      BY <2>1, Z3
    <2> QED BY <2>1, <2>2 DEF IsMultiple
  <1>2. ASSUME NEW q \in Int, a = q * m PROVE a % m = 0
    <2>1. q \in Nat
      <3>1. ASSUME q < 0 PROVE FALSE
        <4>1. q * m < 0
          BY <3>1, Z3
        <4> QED BY <1>2, <4>1
      <3> QED BY <3>1
    <2>2. a \div m = q
      BY <1>2, <2>1, DivIs
    <2> DEFINE r == a % m
    <2>3. a = q * m + r /\ r \in Int
      <3> DEFINE d == a \div m
      <3>1. a = d * m + r /\ r \in Int /\ d = q
        BY <2>2, DivMod
      <3> HIDE DEF d, r
      <3> QED BY <3>1
    <2> HIDE DEF r
    <2>4. r = 0
      <3>1. q * m \in Int
        BY <1>2
      <3> QED BY <1>2, <2>3, <3>1
    <2> QED BY <2>4 DEF r
  <1> QED BY <1>1, <1>2 DEF IsMultiple

LEMMA Multiples ==
    ASSUME NEW m \in Nat, NEW a, NEW b, IsMultiple(a, m), IsMultiple(b, m)
    PROVE  /\ a \in Int /\ b \in Int
           /\ IsMultiple(a + b, m) /\ IsMultiple(a - b, m)
           /\ \A c \in Int : IsMultiple(c * a, m) /\ c * a \in Int
  <1>1. PICK p \in Int : a = p * m
    BY DEF IsMultiple
  <1>2. PICK q \in Int : b = q * m
    BY DEF IsMultiple
  <1>3. a \in Int /\ b \in Int
    BY <1>1, <1>2, Z3
  <1>4. a + b = (p + q) * m /\ a - b = (p - q) * m
    BY <1>1, <1>2, Times
  <1>5. ASSUME NEW c \in Int PROVE c * a = (c * p) * m /\ c * p \in Int /\ c * a \in Int
    BY <1>1, <1>3, Z3
  <1>6. IsMultiple(a + b, m) /\ IsMultiple(a - b, m)
    <2>1. p + q \in Int /\ p - q \in Int
      OBVIOUS
    <2> QED BY <1>4, <2>1, Zenon DEF IsMultiple
  <1>7. \A c \in Int : IsMultiple(c * a, m) /\ c * a \in Int
    BY <1>5, Zenon DEF IsMultiple
  <1> QED BY <1>3, <1>6, <1>7

-------------------------------------------------------------------------------

(* As many parts of the rounded-up length as were asked for cover the whole.  *)
LEMMA CeilDiv ==
    ASSUME NEW a \in Nat \ {0}, NEW b \in Nat \ {0}
    PROVE  /\ M!ceil_div(a, b) \in Nat \ {0}
           /\ a <= b * M!ceil_div(a, b)
           /\ M!ceil_div(a, b) <= a
  <1> DEFINE c == M!ceil_div(a, b)
  <1>1. c = (a + b - 1) \div b /\ a + b - 1 \in Nat
    BY DEF M!ceil_div
  <1>2. c \in Nat /\ c * b <= a + b - 1 /\ a + b - 1 < c * b + b
    <2>1. c \in Nat
      BY <1>1, DivMod
    <2> HIDE DEF c
    <2> QED BY <1>1, <2>1, DivIs
  <1> HIDE DEF c
  <1>3. c * b \in Nat /\ b * c = c * b
    BY <1>2, Times, TimesOrder
  <1>4. c # 0
    <2>1. c = 0 => c * b = 0
      BY Z3
    <2> QED BY <1>2, <1>3, <2>1
  <1>5. c <= a
    <2>1. ASSUME a < c PROVE FALSE
      <3>1. (a + 1) * b <= c * b
        BY <1>2, <2>1, TimesOrder
      <3>2. (a + 1) * b = a * b + b
        BY Times
      <3>3. a * b \in Nat /\ a <= a * b
        BY Z3
      <3> QED BY <1>2, <1>3, <3>1, <3>2, <3>3
    <2> QED BY <1>2, <2>1
  <1> QED BY <1>2, <1>3, <1>4, <1>5 DEF c

------------------------------------------------------------------------------
(* The shape of the walk over one mul_mat.                                    *)
LEMMA WalkShape ==
    ASSUME M!IsMulMat(op)
    PROVE  /\ M!nr0 \in Nat \ {0} /\ M!nr1 \in Nat \ {0}
           /\ M!nchunk0 \in Nat \ {0} /\ M!nchunk1 \in Nat \ {0}
           /\ M!dr0 \in Nat \ {0} /\ M!dr1 \in Nat \ {0}
           /\ M!nr0 <= M!nchunk0 * M!dr0 /\ M!nr1 <= M!nchunk1 * M!dr1
           /\ M!Rows = (0 .. M!nr1 - 1) \X (0 .. M!nr0 - 1)
           /\ Blck \in Nat \ {0}
  <1>1. M!nr0 \in Nat \ {0} /\ M!nr1 \in Nat \ {0} /\ Blck \in Nat \ {0}
    <2>1. op.n_tok * op.n_q_heads \in Nat \ {0}
      BY Z3 DEF M!IsMulMat
    <2> QED BY <2>1, PassAssumption DEF M!IsMulMat, M!nr0, M!nr1
  <1>2. M!chunk_size \in Nat \ {0}
    BY PassAssumption DEF M!chunk_size
  <1>3. M!nchunk0 \in Nat \ {0} /\ M!nchunk1 \in Nat \ {0}
    BY <1>1, <1>2, CeilDiv DEF M!nchunk0, M!nchunk1
  <1>4. /\ M!dr0 \in Nat \ {0} /\ M!dr1 \in Nat \ {0}
        /\ M!nr0 <= M!nchunk0 * M!dr0 /\ M!nr1 <= M!nchunk1 * M!dr1
    BY <1>1, <1>3, CeilDiv DEF M!dr0, M!dr1
  <1> QED BY <1>1, <1>3, <1>4 DEF M!Rows, M!RowsOf, M!nr0, M!nr1

(* The chunk a row of src0 falls into for a query head.                       *)
ChunkOf(h1, row) == (h1 \div M!dr1) * M!nchunk0 + row \div M!dr0

(* What of the current chunk the tiles before the current row hold.           *)
Before(h1, row) ==
    \/ h1 < iir1
    \/ /\ h1 < iir1 + Blck
       /\ \/ row < iir0
          \/ /\ row < iir0 + Blck
             /\ h1 < ir1 \/ (h1 = ir1 /\ row < ir0)

Walked(h1, row) ==
    \/ ChunkOf(h1, row) < chunk
    \/ walking /\ ChunkOf(h1, row) = chunk /\ Before(h1, row)

InTile ==
    /\ M!HasChunk
    /\ iir1 \in Nat /\ ir1 \in Nat /\ iir0 \in Nat /\ ir0 \in Nat
    /\ M!ir1_start <= iir1 /\ iir1 <= ir1 /\ ir1 < M!tile1_end
    /\ M!ir0_start <= iir0 /\ iir0 <= ir0 /\ ir0 < M!tile0_end
    /\ (iir1 - M!ir1_start) % Blck = 0 /\ (iir0 - M!ir0_start) % Blck = 0

(* What has been read is a function of the loop indices: all rows of the      *)
(* chunks before, and of this one those of earlier tiles, then earlier heads  *)
(* of this tile, then earlier rows of this head.                              *)
WalkInv ==
    /\ op = Current /\ M!IsMulMat(op)
    /\ chunk \in 0 .. M!nchunk0 * M!nchunk1 /\ walking \in BOOLEAN
    /\ walking => InTile
    /\ visits = [r \in M!Rows |-> IF Walked(r[1], r[2]) THEN 1 ELSE 0]

(* A row is in the current chunk exactly when it is within its bounds.        *)
LEMMA InChunk ==
    ASSUME M!IsMulMat(op), chunk \in Nat, M!HasChunk,
           NEW h1 \in 0 .. M!nr1 - 1, NEW row \in 0 .. M!nr0 - 1
    PROVE  /\ ChunkOf(h1, row) \in Nat
           /\ ChunkOf(h1, row) = chunk
                <=> /\ M!ir1_start <= h1 /\ h1 < M!ir1_end
                    /\ M!ir0_start <= row /\ row < M!ir0_end
  <1> DEFINE n0 == M!nchunk0
             d0 == M!dr0
             d1 == M!dr1
             x == h1 \div d1
             y == row \div d0
             c == chunk \div n0
             d == chunk % n0
  <1>1. /\ n0 \in Nat \ {0} /\ d0 \in Nat \ {0} /\ d1 \in Nat \ {0}
        /\ M!nr0 \in Nat \ {0} /\ M!nr1 \in Nat \ {0} /\ M!nr0 <= n0 * d0
        /\ h1 \in Nat /\ row \in Nat
    BY WalkShape
  <1>2. x \in Nat /\ y \in Nat /\ c \in Nat /\ d \in 0 .. n0 - 1 /\ chunk = c * n0 + d
    BY <1>1, DivMod
  <1>3. y < n0
    <2>1. y * d0 <= row
      BY <1>1, <1>2, DivIs
    <2> HIDE DEF n0, d0, y
    <2>2. ASSUME n0 <= y PROVE FALSE
      <3>1. n0 * d0 <= y * d0 /\ n0 * d0 \in Nat /\ y * d0 \in Int
        BY <1>1, <1>2, <2>2, TimesOrder, Times
      <3> QED BY <1>1, <2>1, <3>1
    <2> QED BY <1>1, <1>2, <2>2
  <1>4. x * n0 + y = chunk <=> x = c /\ y = d
    <2> HIDE DEF n0, d0, d1, x, y, c, d
    <2>1. /\ x * n0 \in Nat /\ x * n0 + y \in Nat
      BY <1>1, <1>2, TimesOrder
    <2>2. (x * n0 + y) \div n0 = x
      BY <1>1, <1>2, <1>3, <2>1, DivIs
    <2>3. (c * n0 + d) \div n0 = c
      <3>1. c * n0 \in Nat
        BY <1>1, <1>2, TimesOrder
      <3> QED BY <1>1, <1>2, <3>1, DivIs
    <2>4. ASSUME x * n0 + y = chunk PROVE x = c /\ y = d
      <3>1. x = c
        BY <1>2, <2>2, <2>3, <2>4
      <3> QED BY <1>2, <2>1, <2>4, <3>1
    <2> QED BY <1>2, <2>4
  <1>5. ChunkOf(h1, row) = x * n0 + y /\ ChunkOf(h1, row) \in Nat
    <2>1. x * n0 \in Nat
      BY <1>1, <1>2, TimesOrder
    <2> QED BY <1>2, <2>1 DEF ChunkOf
  <1>6. x = c <=> c * d1 <= h1 /\ h1 < c * d1 + d1
    BY <1>1, <1>2, DivIs
  <1>7. y = d <=> d * d0 <= row /\ row < d * d0 + d0
    <2>1. d \in Nat
      BY <1>1, <1>2
    <2> HIDE DEF d, d0
    <2> QED BY <1>1, <2>1, DivIs
  <1>8. M!ir1_start = c * d1 /\ M!ir0_start = d * d0
    BY <1>1, <1>2, Times DEF M!ir1_start, M!ir0_start
  <1>9. /\ h1 < M!ir1_end <=> h1 < c * d1 + d1
        /\ row < M!ir0_end <=> row < d * d0 + d0
    <2> HIDE DEF c, d, d0, d1
    <2>1. c * d1 \in Nat /\ d * d0 \in Nat
      BY <1>1, <1>2, TimesOrder
    <2> QED BY <1>1, <1>8, <2>1 DEF M!ir1_end, M!ir0_end, M!Least, d0, d1
  <1> QED BY <1>4, <1>5, <1>6, <1>7, <1>8, <1>9

LEMMA SameShape ==
    ASSUME op' = op
    PROVE  /\ M!nr0' = M!nr0 /\ M!nr1' = M!nr1 /\ M!Rows' = M!Rows
           /\ M!nchunk0' = M!nchunk0 /\ M!nchunk1' = M!nchunk1
           /\ M!dr0' = M!dr0 /\ M!dr1' = M!dr1
           /\ \A h1, row : ChunkOf(h1, row)' = ChunkOf(h1, row)
           /\ chunk' = chunk => /\ M!HasChunk' = M!HasChunk
                                /\ M!ir0_start' = M!ir0_start /\ M!ir0_end' = M!ir0_end
                                /\ M!ir1_start' = M!ir1_start /\ M!ir1_end' = M!ir1_end
  <1>1. M!nr0' = M!nr0 /\ M!nr1' = M!nr1 /\ M!Rows' = M!Rows
    BY DEF M!nr0, M!nr1, M!Rows
  <1>2. M!chunk_size' = M!chunk_size
    BY <1>1 DEF M!chunk_size
  <1>3. M!nchunk0' = M!nchunk0 /\ M!nchunk1' = M!nchunk1
    BY <1>1, <1>2 DEF M!nchunk0, M!nchunk1, M!Few
  <1>4. M!dr0' = M!dr0 /\ M!dr1' = M!dr1
    BY <1>1, <1>3 DEF M!dr0, M!dr1
  <1>5. \A h1, row : ChunkOf(h1, row)' = ChunkOf(h1, row)
    BY <1>3, <1>4 DEF ChunkOf
  <1>6. ASSUME chunk' = chunk
        PROVE  /\ M!HasChunk' = M!HasChunk
               /\ M!ir0_start' = M!ir0_start /\ M!ir0_end' = M!ir0_end
               /\ M!ir1_start' = M!ir1_start /\ M!ir1_end' = M!ir1_end
    BY <1>1, <1>3, <1>4, <1>6
       DEF M!HasChunk, M!ir0_start, M!ir0_end, M!ir1_start, M!ir1_end
  <1> QED BY <1>1, <1>3, <1>4, <1>5, <1>6

(* Bounds of a chunk, and where the row about to be read is.                  *)
LEMMA ChunkBounds ==
    ASSUME M!IsMulMat(op), chunk \in Nat
    PROVE  /\ M!ir0_start \in Nat /\ M!ir1_start \in Nat
           /\ M!ir0_end \in Nat /\ M!ir1_end \in Nat
           /\ M!ir0_end <= M!nr0 /\ M!ir1_end <= M!nr1
           /\ M!nchunk0 * M!nchunk1 \in Nat
  <1>1. /\ M!nchunk0 \in Nat \ {0} /\ M!nchunk1 \in Nat \ {0}
        /\ M!dr0 \in Nat \ {0} /\ M!dr1 \in Nat \ {0}
        /\ M!nr0 \in Nat /\ M!nr1 \in Nat
    BY WalkShape
  <1>2. chunk \div M!nchunk0 \in Nat /\ chunk % M!nchunk0 \in Nat
    <2> DEFINE n0 == M!nchunk0
    <2>1. n0 \in Nat \ {0}
      BY <1>1
    <2> HIDE DEF n0
    <2>2. chunk \div n0 \in Nat /\ chunk % n0 \in 0 .. n0 - 1
      BY <2>1, DivMod
    <2> QED BY <2>1, <2>2 DEF n0
  <1>3. M!ir0_start \in Nat /\ M!ir1_start \in Nat
    BY <1>1, <1>2, TimesOrder DEF M!ir0_start, M!ir1_start
  <1>4. M!nchunk0 * M!nchunk1 \in Nat
    BY <1>1, TimesOrder
  <1> QED BY <1>1, <1>3, <1>4 DEF M!ir0_end, M!ir1_end, M!Least

LEMMA AtRow ==
    ASSUME WalkInv, walking
    PROVE  /\ ir1 \in 0 .. M!nr1 - 1 /\ ir0 \in 0 .. M!nr0 - 1
           /\ ir1 < M!ir1_end /\ ir0 < M!ir0_end
           /\ ChunkOf(ir1, ir0) = chunk /\ ~Walked(ir1, ir0)
           /\ chunk \in Nat /\ chunk + 1 <= M!nchunk0 * M!nchunk1
           /\ iir1 <= ir1 /\ ir1 < iir1 + Blck
           /\ iir0 <= ir0 /\ ir0 < iir0 + Blck
  <1>1. /\ M!IsMulMat(op) /\ InTile /\ chunk \in Nat /\ Blck \in Nat
    BY WalkShape DEF WalkInv
  <1>2. /\ ir1 < M!ir1_end /\ ir0 < M!ir0_end
        /\ iir1 <= ir1 /\ ir1 < iir1 + Blck
        /\ iir0 <= ir0 /\ ir0 < iir0 + Blck
    BY <1>1, ChunkBounds DEF InTile, M!tile0_end, M!tile1_end, M!Least
  <1>3. ir1 \in 0 .. M!nr1 - 1 /\ ir0 \in 0 .. M!nr0 - 1
    BY <1>1, <1>2, ChunkBounds, WalkShape DEF InTile
  <1>4. M!ir1_start <= ir1 /\ M!ir0_start <= ir0
    BY <1>1, ChunkBounds DEF InTile
  <1>5. ChunkOf(ir1, ir0) = chunk
    BY <1>1, <1>2, <1>3, <1>4, InChunk DEF InTile
  <1>6. ~Walked(ir1, ir0)
    BY <1>1, <1>2, <1>5 DEF Walked, Before, InTile
  <1>7. chunk + 1 <= M!nchunk0 * M!nchunk1
    BY <1>1, ChunkBounds DEF InTile, M!HasChunk
  <1> QED BY <1>1, <1>2, <1>3, <1>5, <1>6, <1>7

(* Whichever loop goes on, what is before the next row of the chunk is what   *)
(* was before this one, and this one.                                         *)
BeforeGrows ==
    \A h1 \in M!ir1_start .. M!ir1_end - 1, row \in M!ir0_start .. M!ir0_end - 1 :
        Before(h1, row)' <=> Before(h1, row) \/ (h1 = ir1 /\ row = ir0)

LEMMA ModStep ==
    ASSUME NEW a \in Nat, NEW m \in Nat \ {0}, a % m = 0
    PROVE  (a + m) % m = 0
  <1> DEFINE d == a \div m
             r == (a + m) % m
  <1>1. d \in Nat /\ a = d * m
    BY DivMod
  <1>2. r \in 0 .. m - 1 /\ a + m = ((a + m) \div m) * m + r
    BY DivMod
  <1> HIDE DEF d, r
  <1>3. d * m \in Nat /\ (d + 1) * m = d * m + m
    BY <1>1, Times, TimesOrder
  <1>4. (a + m) \div m = d + 1
    BY <1>1, <1>3, DivIs
  <1>5. r = 0
    BY <1>1, <1>2, <1>3, <1>4
  <1> QED BY <1>5 DEF r

LEMMA EmitStep ==
    ASSUME WalkInv, M!EmitRow
    PROVE  \/ /\ chunk' = chunk /\ walking' = TRUE
              /\ BeforeGrows /\ InTile'
           \/ /\ chunk' = chunk + 1 /\ walking' = FALSE
              /\ \A h1 \in M!ir1_start .. M!ir1_end - 1,
                    row \in M!ir0_start .. M!ir0_end - 1 :
                    Before(h1, row) \/ (h1 = ir1 /\ row = ir0)
  <1> DEFINE s0 == M!ir0_start
             e0 == M!ir0_end
             s1 == M!ir1_start
             e1 == M!ir1_end
  <1>1. /\ walking /\ op' = op /\ InTile /\ chunk \in Nat /\ Blck \in Nat \ {0}
        /\ s0 \in Nat /\ s1 \in Nat /\ e0 \in Nat /\ e1 \in Nat
        /\ iir0 \in Nat /\ iir1 \in Nat /\ ir0 \in Nat /\ ir1 \in Nat
        /\ s1 <= iir1 /\ s0 <= iir0
    BY WalkShape, ChunkBounds DEF WalkInv, InTile, M!EmitRow
  <1>2. /\ ir1 < e1 /\ ir0 < e0
        /\ iir1 <= ir1 /\ ir1 < iir1 + Blck
        /\ iir0 <= ir0 /\ ir0 < iir0 + Blck
    BY <1>1, AtRow
  <1>3. /\ (iir1 - s1) % Blck = 0 /\ (iir0 - s0) % Blck = 0
        /\ (iir1 + Blck - s1) % Blck = 0 /\ (iir0 + Blck - s0) % Blck = 0
        /\ (s0 - s0) % Blck = 0
    <2>1. (iir1 - s1) % Blck = 0 /\ (iir0 - s0) % Blck = 0
      BY <1>1 DEF InTile
    <2> HIDE DEF s0, s1
    <2>2. iir1 - s1 \in Nat /\ iir0 - s0 \in Nat
      BY <1>1
    <2>3. iir1 + Blck - s1 = (iir1 - s1) + Blck /\ iir0 + Blck - s0 = (iir0 - s0) + Blck
      BY <1>1
    <2>4. (s0 - s0) % Blck = 0
      <3>1. s0 - s0 = 0
        BY <1>1
      <3>2. 0 % Blck = 0
        BY <1>1, Z3
      <3> QED BY <3>1, <3>2
    <2>5. ((iir1 - s1) + Blck) % Blck = 0 /\ ((iir0 - s0) + Blck) % Blck = 0
      BY <1>1, <2>1, <2>2, ModStep
    <2> QED BY <2>1, <2>3, <2>4, <2>5
  <1>4. /\ M!tile1_end = IF iir1 + Blck < e1 THEN iir1 + Blck ELSE e1
        /\ M!tile0_end = IF iir0 + Blck < e0 THEN iir0 + Blck ELSE e0
    BY DEF M!tile0_end, M!tile1_end, M!Least
  <1>5. ASSUME chunk' = chunk
        PROVE  /\ s0' = s0 /\ s1' = s1 /\ e0' = e0 /\ e1' = e1 /\ M!HasChunk'
               /\ M!tile1_end' = IF iir1' + Blck < e1 THEN iir1' + Blck ELSE e1
               /\ M!tile0_end' = IF iir0' + Blck < e0 THEN iir0' + Blck ELSE e0
    BY <1>1, <1>5, SameShape DEF M!tile0_end, M!tile1_end, M!Least, InTile
  <1>6. ir0 + 1 < M!tile0_end <=> ir0 + 1 < iir0 + Blck /\ ir0 + 1 < e0
    BY <1>1, <1>4
  <1>7. ir1 + 1 < M!tile1_end <=> ir1 + 1 < iir1 + Blck /\ ir1 + 1 < e1
    BY <1>1, <1>4
  <1>8. InTile' <=> /\ M!HasChunk'
                    /\ iir1' \in Nat /\ ir1' \in Nat /\ iir0' \in Nat /\ ir0' \in Nat
                    /\ s1' <= iir1' /\ iir1' <= ir1' /\ ir1' < M!tile1_end'
                    /\ s0' <= iir0' /\ iir0' <= ir0' /\ ir0' < M!tile0_end'
                    /\ (iir1' - s1') % Blck = 0 /\ (iir0' - s0') % Blck = 0
    BY DEF InTile
  <1>9. BeforeGrows <=>
            \A h1 \in s1 .. e1 - 1, row \in s0 .. e0 - 1 :
               Before(h1, row)' <=> Before(h1, row) \/ (h1 = ir1 /\ row = ir0)
    BY DEF BeforeGrows
  <1> HIDE DEF s0, s1, e0, e1
  <1>10. CASE ir0 + 1 < M!tile0_end
    <2>1. M!NextIr0
      BY <1>10 DEF M!EmitRow
    <2>2. /\ ir0' = ir0 + 1 /\ chunk' = chunk /\ iir1' = iir1 /\ iir0' = iir0 /\ ir1' = ir1
          /\ walking' = TRUE
      BY <1>1, <2>1 DEF M!NextIr0
    <2>3. BeforeGrows
      BY <1>1, <1>2, <1>6, <1>9, <1>10, <2>2 DEF Before
    <2>4. InTile'
      BY <1>1, <1>2, <1>3, <1>4, <1>5, <1>8, <1>10, <2>2
    <2> QED BY <2>2, <2>3, <2>4
  <1>11. CASE ~(ir0 + 1 < M!tile0_end) /\ ir1 + 1 < M!tile1_end
    <2>1. M!NextIr1
      BY <1>11 DEF M!EmitRow
    <2>2. /\ ir0' = iir0 /\ chunk' = chunk /\ iir1' = iir1 /\ iir0' = iir0 /\ ir1' = ir1 + 1
          /\ walking' = TRUE
      BY <1>1, <2>1 DEF M!NextIr1
    <2>3. BeforeGrows
      BY <1>1, <1>2, <1>6, <1>7, <1>9, <1>11, <2>2 DEF Before
    <2>4. InTile'
      BY <1>1, <1>2, <1>3, <1>4, <1>5, <1>8, <1>11, <2>2
    <2> QED BY <2>2, <2>3, <2>4
  <1>12. CASE /\ ~(ir0 + 1 < M!tile0_end) /\ ~(ir1 + 1 < M!tile1_end)
              /\ iir0 + Blck < M!ir0_end
    <2>1. M!NextTile0
      BY <1>12 DEF M!EmitRow
    <2>2. /\ ir0' = iir0 + Blck /\ chunk' = chunk /\ iir1' = iir1
          /\ iir0' = iir0 + Blck /\ ir1' = iir1 /\ walking' = TRUE
      BY <1>1, <2>1 DEF M!NextTile0
    <2>3. iir0 + Blck < e0
      BY <1>12 DEF e0
    <2>4. BeforeGrows
      BY <1>1, <1>2, <1>6, <1>7, <1>9, <1>12, <2>2, <2>3 DEF Before
    <2>5. InTile'
      BY <1>1, <1>2, <1>3, <1>4, <1>5, <1>8, <2>2, <2>3
    <2> QED BY <2>2, <2>4, <2>5
  <1>13. CASE /\ ~(ir0 + 1 < M!tile0_end) /\ ~(ir1 + 1 < M!tile1_end)
              /\ ~(iir0 + Blck < M!ir0_end) /\ iir1 + Blck < M!ir1_end
    <2>1. M!NextTile1
      BY <1>13 DEF M!EmitRow
    <2>2. /\ ir0' = s0 /\ chunk' = chunk /\ iir1' = iir1 + Blck
          /\ iir0' = s0 /\ ir1' = iir1 + Blck /\ walking' = TRUE
      BY <1>1, <2>1 DEF M!NextTile1, s0
    <2>3. iir1 + Blck < e1 /\ ~(iir0 + Blck < e0)
      BY <1>13 DEF e0, e1
    <2>4. BeforeGrows
      BY <1>1, <1>2, <1>6, <1>7, <1>9, <1>13, <2>2, <2>3 DEF Before
    <2>5. InTile'
      BY <1>1, <1>2, <1>3, <1>4, <1>5, <1>8, <2>2, <2>3
    <2> QED BY <2>2, <2>4, <2>5
  <1>14. CASE /\ ~(ir0 + 1 < M!tile0_end) /\ ~(ir1 + 1 < M!tile1_end)
              /\ ~(iir0 + Blck < M!ir0_end) /\ ~(iir1 + Blck < M!ir1_end)
    <2>1. M!LeaveChunk
      BY <1>14 DEF M!EmitRow
    <2>2. chunk' = chunk + 1 /\ walking' = FALSE
      BY <2>1 DEF M!LeaveChunk
    <2>3. ~(iir1 + Blck < e1) /\ ~(iir0 + Blck < e0)
      BY <1>14 DEF e0, e1
    <2>4. \A h1 \in s1 .. e1 - 1, row \in s0 .. e0 - 1 :
             Before(h1, row) \/ (h1 = ir1 /\ row = ir0)
      BY <1>1, <1>2, <1>6, <1>7, <1>14, <2>3 DEF Before
    <2> QED BY <2>2, <2>4 DEF s0, s1, e0, e1
  <1> QED BY <1>10, <1>11, <1>12, <1>13, <1>14

LEMMA EmitKeepsWalk ==
    ASSUME WalkInv, M!EmitRow, Current' = Current
    PROVE  WalkInv'
  <1>1. /\ walking /\ op' = op /\ M!IsMulMat(op) /\ chunk \in Nat
        /\ chunk \in 0 .. M!nchunk0 * M!nchunk1
        /\ visits = [r \in M!Rows |-> IF Walked(r[1], r[2]) THEN 1 ELSE 0]
        /\ visits' = [visits EXCEPT ![<<ir1, ir0>>] = @ + 1]
        /\ M!HasChunk
    BY DEF WalkInv, InTile, M!EmitRow
  <1>2. M!Rows = (0 .. M!nr1 - 1) \X (0 .. M!nr0 - 1)
    BY <1>1, WalkShape
  <1>3. /\ <<ir1, ir0>> \in M!Rows /\ ChunkOf(ir1, ir0) = chunk /\ ~Walked(ir1, ir0)
        /\ chunk + 1 <= M!nchunk0 * M!nchunk1
    BY <1>2, <1>1, AtRow
  <1>4. ASSUME NEW h1 \in 0 .. M!nr1 - 1, NEW row \in 0 .. M!nr0 - 1
        PROVE  Walked(h1, row)' <=> Walked(h1, row) \/ (h1 = ir1 /\ row = ir0)
    <2>1. Walked(h1, row)' <=> \/ ChunkOf(h1, row) < chunk'
                               \/ walking' /\ ChunkOf(h1, row) = chunk' /\ Before(h1, row)'
      BY <1>1, SameShape DEF Walked
    <2>2. ChunkOf(h1, row) \in Nat
      BY <1>1, InChunk
    <2>3. ASSUME ChunkOf(h1, row) = chunk
          PROVE  /\ h1 \in M!ir1_start .. M!ir1_end - 1
                 /\ row \in M!ir0_start .. M!ir0_end - 1
      <3>1. /\ M!ir1_start <= h1 /\ h1 < M!ir1_end
            /\ M!ir0_start <= row /\ row < M!ir0_end
        BY <1>1, <2>3, InChunk
      <3>2. h1 \in Int /\ row \in Int
        OBVIOUS
      <3> QED BY <1>1, <3>1, <3>2, ChunkBounds
    <2>4. CASE chunk' = chunk /\ walking' = TRUE /\ BeforeGrows
      <3>1. ASSUME ChunkOf(h1, row) = chunk
            PROVE  Before(h1, row)' <=> Before(h1, row) \/ (h1 = ir1 /\ row = ir0)
        BY <2>3, <2>4, <3>1 DEF BeforeGrows
      <3> QED BY <1>1, <1>3, <2>1, <2>2, <2>4, <3>1 DEF Walked
    <2>5. CASE /\ chunk' = chunk + 1 /\ walking' = FALSE
               /\ \A h \in M!ir1_start .. M!ir1_end - 1,
                     r \in M!ir0_start .. M!ir0_end - 1 :
                     Before(h, r) \/ (h = ir1 /\ r = ir0)
      <3>1. ChunkOf(h1, row) = chunk => Before(h1, row) \/ (h1 = ir1 /\ row = ir0)
        BY <2>3, <2>5
      <3> QED BY <1>1, <1>3, <2>1, <2>2, <2>5, <3>1 DEF Walked
    <2> QED BY <2>4, <2>5, EmitStep
  <1>5. visits' = [r \in M!Rows |-> IF Walked(r[1], r[2])' THEN 1 ELSE 0]
    <2>1. ASSUME NEW r \in M!Rows
          PROVE  visits'[r] = IF Walked(r[1], r[2])' THEN 1 ELSE 0
      <3>1. PICK h1 \in 0 .. M!nr1 - 1, row \in 0 .. M!nr0 - 1 : r = <<h1, row>>
        BY <1>2
      <3>2. Walked(h1, row)' <=> Walked(h1, row) \/ (h1 = ir1 /\ row = ir0)
        BY <1>4
      <3>3. CASE r = <<ir1, ir0>>
        <4>1. h1 = ir1 /\ row = ir0
          BY <3>1, <3>3
        <4>2. visits'[r] = 1
          BY <1>1, <1>3, <3>3
        <4> QED BY <3>1, <3>2, <4>1, <4>2
      <3>4. CASE r # <<ir1, ir0>>
        <4>1. ~(h1 = ir1 /\ row = ir0)
          BY <3>1, <3>4
        <4>2. visits'[r] = IF Walked(h1, row) THEN 1 ELSE 0
          BY <1>1, <3>1, <3>4
        <4> QED BY <3>1, <3>2, <4>1, <4>2
      <3> QED BY <3>3, <3>4
    <2>2. visits' = [r \in M!Rows |-> visits'[r]]
      BY <1>1
    <2> HIDE <1>1
    <2> QED BY <2>1, <2>2
  <1>6. op' = Current' /\ M!IsMulMat(op)'
    BY <1>1 DEF WalkInv, M!IsMulMat
  <1>7. M!Rows' = M!Rows /\ M!nchunk0' * M!nchunk1' = M!nchunk0 * M!nchunk1
    BY <1>1, SameShape
  <1>8. /\ chunk' \in 0 .. M!nchunk0 * M!nchunk1 /\ walking' \in BOOLEAN
        /\ walking' => InTile'
    <2>1. \/ chunk' = chunk /\ walking' = TRUE /\ InTile'
          \/ chunk' = chunk + 1 /\ walking' = FALSE
      BY EmitStep
    <2> DEFINE N == M!nchunk0 * M!nchunk1
    <2>2. N \in Nat /\ chunk \in 0 .. N /\ chunk + 1 <= N
      BY <1>1, <1>3, ChunkBounds
    <2>3. chunk' \in 0 .. N
      <3> HIDE DEF N
      <3> QED BY <2>1, <2>2
    <2> QED BY <2>1, <2>3
  <1> QED BY <1>5, <1>6, <1>7, <1>8 DEF WalkInv

LEMMA EnterKeepsWalk ==
    ASSUME WalkInv, M!EnterChunk, Current' = Current
    PROVE  WalkInv'
  <1>1. /\ ~walking /\ op' = op /\ M!IsMulMat(op) /\ chunk \in Nat
        /\ chunk \in 0 .. M!nchunk0 * M!nchunk1
        /\ visits = [r \in M!Rows |-> IF Walked(r[1], r[2]) THEN 1 ELSE 0]
        /\ visits' = visits /\ M!HasChunk
    BY DEF WalkInv, M!EnterChunk
  <1>2. M!Rows = (0 .. M!nr1 - 1) \X (0 .. M!nr0 - 1) /\ Blck \in Nat \ {0}
    BY <1>1, WalkShape
  <1>3. /\ M!ir0_start \in Nat /\ M!ir1_start \in Nat
        /\ M!ir0_end \in Nat /\ M!ir1_end \in Nat
    BY <1>1, ChunkBounds
  <1>4. ASSUME NEW h1 \in 0 .. M!nr1 - 1, NEW row \in 0 .. M!nr0 - 1
        PROVE  Walked(h1, row)' <=> Walked(h1, row)
    <2>1. Walked(h1, row)' <=> \/ ChunkOf(h1, row) < chunk'
                               \/ walking' /\ ChunkOf(h1, row) = chunk' /\ Before(h1, row)'
      BY <1>1, SameShape DEF Walked
    <2>2. ChunkOf(h1, row) \in Nat
      BY <1>1, InChunk
    <2>3. ChunkOf(h1, row) = chunk
            <=> /\ M!ir1_start <= h1 /\ h1 < M!ir1_end
                /\ M!ir0_start <= row /\ row < M!ir0_end
      BY <1>1, InChunk
    <2>4. CASE M!Empty
      <3>1. chunk' = chunk + 1 /\ walking' = FALSE
        BY <1>1, <2>4 DEF M!EnterChunk
      <3>2. ChunkOf(h1, row) # chunk
        BY <1>3, <2>3, <2>4 DEF M!Empty
      <3> QED BY <1>1, <2>1, <2>2, <3>1, <3>2 DEF Walked
    <2>5. CASE ~M!Empty
      <3>1. /\ chunk' = chunk /\ walking' = TRUE
            /\ iir1' = M!ir1_start /\ ir1' = M!ir1_start
            /\ iir0' = M!ir0_start /\ ir0' = M!ir0_start
        BY <2>5 DEF M!EnterChunk
      <3>2. ChunkOf(h1, row) = chunk => ~Before(h1, row)'
        BY <1>2, <1>3, <2>3, <3>1 DEF Before
      <3> QED BY <1>1, <2>1, <2>2, <3>1, <3>2 DEF Walked
    <2> QED BY <2>4, <2>5
  <1>5. visits' = [r \in M!Rows |-> IF Walked(r[1], r[2])' THEN 1 ELSE 0]
    <2>1. ASSUME NEW r \in M!Rows PROVE Walked(r[1], r[2])' <=> Walked(r[1], r[2])
      BY <1>2, <1>4
    <2> QED BY <1>1, <2>1
  <1>6. op' = Current' /\ M!IsMulMat(op)'
    BY <1>1 DEF WalkInv, M!IsMulMat
  <1>7. M!Rows' = M!Rows /\ M!nchunk0' * M!nchunk1' = M!nchunk0 * M!nchunk1
    BY <1>1, SameShape
  <1>8. /\ chunk' \in 0 .. M!nchunk0 * M!nchunk1 /\ walking' \in BOOLEAN
    <2>1. \/ chunk' = chunk + 1 /\ walking' = walking
          \/ chunk' = chunk /\ walking' = TRUE
      BY DEF M!EnterChunk
    <2> DEFINE N == M!nchunk0 * M!nchunk1
    <2>2. N \in Nat /\ chunk \in 0 .. N /\ chunk < N
      BY <1>1, ChunkBounds DEF M!HasChunk
    <2>3. chunk' \in 0 .. N
      <3> HIDE DEF N
      <3> QED BY <2>1, <2>2
    <2>4. walking' \in BOOLEAN
      BY <2>1 DEF WalkInv
    <2> QED BY <2>3, <2>4
  <1>9. ASSUME walking' PROVE InTile'
    <2>1. /\ chunk' = chunk /\ ~M!Empty
          /\ iir1' = M!ir1_start /\ ir1' = M!ir1_start
          /\ iir0' = M!ir0_start /\ ir0' = M!ir0_start
      BY <1>1, <1>9 DEF M!EnterChunk
    <2>2. /\ M!HasChunk' /\ M!ir0_start' = M!ir0_start /\ M!ir0_end' = M!ir0_end
          /\ M!ir1_start' = M!ir1_start /\ M!ir1_end' = M!ir1_end
      BY <1>1, <2>1, SameShape
    <2>3. M!ir0_start < M!ir0_end /\ M!ir1_start < M!ir1_end
      BY <1>3, <2>1 DEF M!Empty
    <2>4. ir1' < M!tile1_end' /\ ir0' < M!tile0_end'
      BY <1>2, <1>3, <2>1, <2>2, <2>3 DEF M!tile0_end, M!tile1_end, M!Least
    <2>5. (iir1' - M!ir1_start') % Blck = 0 /\ (iir0' - M!ir0_start') % Blck = 0
      <3>1. iir1' - M!ir1_start' = 0 /\ iir0' - M!ir0_start' = 0
        BY <1>3, <2>1, <2>2
      <3>2. 0 % Blck = 0
        BY <1>2, Z3
      <3> QED BY <3>1, <3>2
    <2> QED BY <1>3, <2>1, <2>2, <2>4, <2>5 DEF InTile
  <1> QED BY <1>5, <1>6, <1>7, <1>8, <1>9 DEF WalkInv

LEMMA StartOfWalk ==
    /\ op = Current /\ M!IsMulMat(op) /\ chunk = 0 /\ walking = FALSE
    /\ visits = [r \in M!Rows |-> 0]
    => WalkInv
  <1> SUFFICES ASSUME op = Current, M!IsMulMat(op), chunk = 0, walking = FALSE,
                      visits = [r \in M!Rows |-> 0]
               PROVE  WalkInv
    OBVIOUS
  <1>1. /\ M!Rows = (0 .. M!nr1 - 1) \X (0 .. M!nr0 - 1)
        /\ M!nchunk0 * M!nchunk1 \in Nat \ {0}
    <2>1. M!nchunk0 \in Nat \ {0} /\ M!nchunk1 \in Nat \ {0}
      BY WalkShape
    <2>2. M!nchunk0 * M!nchunk1 \in Nat \ {0}
      BY <2>1, Z3
    <2> QED BY <2>2, WalkShape
  <1>2. M!HasChunk
    BY <1>1 DEF M!HasChunk
  <1>3. ASSUME NEW r \in M!Rows PROVE ~Walked(r[1], r[2])
    <2>1. ChunkOf(r[1], r[2]) \in Nat
      BY <1>1, <1>2, InChunk
    <2> QED BY <2>1 DEF Walked
  <1>4. chunk \in 0 .. M!nchunk0 * M!nchunk1
    <2> DEFINE N == M!nchunk0 * M!nchunk1
    <2>1. N \in Nat
      BY <1>1
    <2> HIDE DEF N
    <2>2. chunk \in 0 .. N
      BY <2>1
    <2> QED BY <2>2 DEF N
  <1>5. visits = [r \in M!Rows |-> IF Walked(r[1], r[2]) THEN 1 ELSE 0]
    BY <1>3
  <1> QED BY <1>4, <1>5 DEF WalkInv

LEMMA StartsWalk ==
    ASSUME M!IsMulMat(Current'), M!Start(Current')
    PROVE  WalkInv'
  <1>1. /\ op' = Current' /\ chunk' = 0 /\ walking' = FALSE
        /\ visits' = [r \in M!RowsOf(Current') |-> 0]
    BY DEF M!Start
  <1>2. M!IsMulMat(op)' /\ M!Rows' = M!RowsOf(Current')
    BY <1>1 DEF M!IsMulMat, M!Rows
  <1>3. (/\ op = Current /\ M!IsMulMat(op) /\ chunk = 0 /\ walking = FALSE
         /\ visits = [r \in M!Rows |-> 0]
         => WalkInv)'
    BY StartOfWalk, PTL
  <1> QED BY <1>1, <1>2, <1>3

LEMMA UnchangedWalk ==
    ASSUME WalkInv, UNCHANGED mm, Current' = Current
    PROVE  WalkInv'
  <1>1. /\ op' = op /\ chunk' = chunk /\ iir1' = iir1 /\ iir0' = iir0 /\ ir1' = ir1
        /\ ir0' = ir0 /\ walking' = walking /\ visits' = visits
    BY DEF mm
  <1>2. InTile' = InTile
    BY <1>1, SameShape DEF InTile, M!tile0_end, M!tile1_end, M!Least
  <1>3. \A h1, row : Walked(h1, row)' = Walked(h1, row)
    BY <1>1, SameShape DEF Walked, Before
  <1>4. M!IsMulMat(op)' = M!IsMulMat(op)
    BY <1>1 DEF M!IsMulMat
  <1> QED BY <1>1, <1>2, <1>3, <1>4, SameShape DEF WalkInv

------------------------------------------------------------------------------
(* While a mul_mat is current its walk has the invariant.                     *)
PassInv ==
    /\ ops \in Runs /\ at \in 0 .. Len(ops)
    /\ Is("MM") => WalkInv

LEMMA RunOps ==
    ASSUME NEW r \in Runs
    PROVE  /\ Len(r) \in Nat
           /\ \A i \in 1 .. Len(r) : r[i].tag = "MM" => M!IsMulMat(r[i])
  BY PassAssumption

LEMMA NextPass == PassInv /\ [Next]_vars => PassInv'
  <1> SUFFICES ASSUME PassInv, [Next]_vars PROVE PassInv'
    OBVIOUS
  <1>1. CASE NextOp
    <2>1. /\ ops' = ops /\ at' = at + 1 /\ at' \in 1 .. Len(ops) /\ Current' = ops[at + 1]
      BY <1>1, RunOps DEF NextOp, PassInv, Current
    <2>2. ASSUME Is("MM")' PROVE WalkInv'
      <3>1. Current'.tag = "MM"
        BY <2>2 DEF Is
      <3>2. M!IsMulMat(Current') /\ M!Start(Current')
        BY <1>1, <2>1, <3>1, RunOps DEF NextOp, PassInv
      <3> QED BY <3>2, StartsWalk
    <2> QED BY <2>1, <2>2 DEF PassInv
  <1>2. CASE expand_mm
    <2>1. WalkInv /\ ops' = ops /\ at' = at /\ Current' = Current
      BY <1>2 DEF expand_mm, PassInv, Current
    <2>2. M!EnterChunk \/ M!EmitRow
      BY <1>2 DEF expand_mm
    <2> QED BY <2>1, <2>2, EnterKeepsWalk, EmitKeepsWalk DEF PassInv
  <1>3. CASE expand_sr \/ Reject \/ Rebase \/ Stopped \/ UNCHANGED vars
    <2>1. /\ ops' = ops /\ at' = at /\ UNCHANGED mm /\ Current' = Current
          /\ Is("MM")' => Is("MM")
      BY <1>3 DEF expand_sr, Reject, Rebase, Stopped, vars, mm, Is, Current
    <2> QED BY <2>1, UnchangedWalk DEF PassInv
  <1> QED BY <1>1, <1>2, <1>3 DEF Next

LEMMA InitPass == Init => PassInv
  BY RunOps DEF Init, PassInv, Is

(* Every row is read by the end, whatever chunk it is in.                     *)
LEMMA WalkCovers == PassInv => EachRowOnce
  <1> SUFFICES ASSUME WalkInv PROVE M!EachRowOnce
    BY DEF PassInv, EachRowOnce
  <1>1. /\ M!IsMulMat(op)
        /\ visits = [r \in M!Rows |-> IF Walked(r[1], r[2]) THEN 1 ELSE 0]
        /\ chunk \in 0 .. M!nchunk0 * M!nchunk1
    BY DEF WalkInv
  <1>2. ASSUME M!Finished, NEW r \in M!Rows PROVE Walked(r[1], r[2])
    <2> DEFINE n0 == M!nchunk0
               n1 == M!nchunk1
               d0 == M!dr0
               d1 == M!dr1
    <2>1. /\ n0 \in Nat \ {0} /\ n1 \in Nat \ {0} /\ d0 \in Nat \ {0} /\ d1 \in Nat \ {0}
          /\ M!nr0 \in Nat /\ M!nr1 \in Nat /\ M!nr0 <= n0 * d0 /\ M!nr1 <= n1 * d1
          /\ M!Rows = (0 .. M!nr1 - 1) \X (0 .. M!nr0 - 1)
      BY <1>1, WalkShape
    <2>2. PICK h1 \in 0 .. M!nr1 - 1, row \in 0 .. M!nr0 - 1 : r = <<h1, row>>
      BY <2>1
    <2> DEFINE x == h1 \div d1
               y == row \div d0
    <2>3. x < n1 /\ y < n0 /\ x \in Nat /\ y \in Nat
      <3>1. h1 \in Nat /\ h1 < n1 * d1 /\ row \in Nat /\ row < n0 * d0
        BY <2>1, Times
      <3> QED BY <2>1, <3>1, QuotientBelow
    <2>4. chunk = n0 * n1
      BY <1>1, <1>2, <2>1, Times DEF M!Finished, M!HasChunk
    <2>5. x * n0 + y < n1 * n0
      <3> HIDE DEF x, y, n0, n1
      <3>1. (x + 1) * n0 <= n1 * n0 /\ (x + 1) * n0 = x * n0 + n0 /\ x * n0 \in Nat
        BY <2>1, <2>3, TimesOrder, Times
      <3>2. n1 * n0 \in Int
        BY <2>1, Times
      <3> QED BY <2>1, <2>3, <3>1, <3>2
    <2>6. n1 * n0 = n0 * n1
      BY <2>1, Times
    <2> QED BY <2>2, <2>4, <2>5, <2>6 DEF Walked, ChunkOf
  <1> QED BY <1>1, <1>2 DEF M!EachRowOnce

(* The chunks and tiles partition heads and rows: no row is read twice, none  *)
(* is left out, for every shape and every size of chunks and tiles.           *)
THEOREM EachRowOnceCorrect == Spec => []EachRowOnce
  BY WalkCovers, InitPass, NextPass, PTL DEF Spec

------------------------------------------------------------------------------
(* Tiles by their first row: a is in the tile that begins at i or before it.  *)
LEMMA TileOf ==
    ASSUME NEW B \in Nat \ {0}, NEW i \in Nat, i % B = 0, NEW x \in Nat,
           i <= x, x < i + B, NEW a \in Nat
    PROVE  /\ a \div B \in Int /\ x \div B \in Int
           /\ a \div B = x \div B <=> i <= a /\ a < i + B
           /\ a \div B < x \div B <=> a < i
  <1> DEFINE t == i \div B
             d == a \div B
  <1>1. t \in Nat /\ d \in Nat /\ i = t * B
    BY DivMod
  <1>2. x \div B = t
    <2> HIDE DEF t
    <2> QED BY <1>1, DivIs
  <1>3. d = t <=> i <= a /\ a < i + B
    <2> HIDE DEF t
    <2> QED BY <1>1, DivIs
  <1>4. d < t <=> a < i
    <2>1. a < t * B => d < t
      <3> HIDE DEF t
      <3> QED BY <1>1, QuotientBelow
    <2>2. d * B <= a
      <3> HIDE DEF d
      <3>1. a \div B = d
        BY DEF d
      <3> QED BY <1>1, <3>1, DivIs
    <2>3. ASSUME d < t PROVE a < t * B
      <3> HIDE DEF d, t
      <3>1. (d + 1) * B <= t * B /\ (d + 1) * B = d * B + B
        BY <1>1, <2>3, TimesOrder, Times
      <3>2. a < d * B + B
        <4>1. a \div B = d
          BY DEF d
        <4> QED BY <1>1, <4>1, DivIs
      <3>3. d * B \in Int /\ t * B \in Int
        BY <1>1, Times
      <3> QED BY <3>1, <3>2, <3>3
    <2> QED BY <1>1, <2>1, <2>3
  <1> QED BY <1>1, <1>2, <1>3, <1>4

LEMMA EarlierIs ==
    ASSUME NEW p \in Int \X Int \X Int \X Int, NEW q \in Int \X Int \X Int \X Int
    PROVE  M!Earlier(p, q)
             <=> \/ p[1] < q[1]
                 \/ p[1] = q[1] /\ p[2] < q[2]
                 \/ p[1] = q[1] /\ p[2] = q[2] /\ p[3] < q[3]
                 \/ p[1] = q[1] /\ p[2] = q[2] /\ p[3] = q[3] /\ p[4] < q[4]
  <1> DEFINE Less(k) == p[k] < q[k] /\ \A m \in 1 .. k - 1 : p[m] = q[m]
  <1>1. /\ 1 .. 1 - 1 = {} /\ 1 .. 2 - 1 = {1} /\ 1 .. 3 - 1 = {1, 2}
        /\ 1 .. 4 - 1 = {1, 2, 3} /\ 1 .. 4 = {1, 2, 3, 4}
    OBVIOUS
  <1>2. M!Earlier(p, q) <=> \E k \in {1, 2, 3, 4} : Less(k)
    BY <1>1 DEF M!Earlier
  <1>3. Less(1) <=> p[1] < q[1]
    BY <1>1
  <1>4. Less(2) <=> p[1] = q[1] /\ p[2] < q[2]
    BY <1>1
  <1>5. Less(3) <=> p[1] = q[1] /\ p[2] = q[2] /\ p[3] < q[3]
    BY <1>1
  <1>6. Less(4) <=> p[1] = q[1] /\ p[2] = q[2] /\ p[3] = q[3] /\ p[4] < q[4]
    BY <1>1
  <1> HIDE DEF Less
  <1>7. M!Earlier(p, q) <=> Less(1) \/ Less(2) \/ Less(3) \/ Less(4)
    BY <1>2
  <1> QED BY <1>3, <1>4, <1>5, <1>6, <1>7

(* Within a chunk rows are read in the order of llama.cpp's blocked mul_mat:  *)
(* tile by tile, and in a tile head by head.                                  *)
THEOREM TileOrderCorrect == Spec => []TileOrder
  <1>1. PassInv => TileOrder
    <2> SUFFICES ASSUME WalkInv, walking,
                        NEW h1 \in M!ir1_start .. M!ir1_end - 1,
                        NEW row \in M!ir0_start .. M!ir0_end - 1
                 PROVE  visits[<<h1, row>>] > 0
                          <=> M!Earlier(M!Pos(h1, row), M!Pos(ir1, ir0))
      BY DEF PassInv, TileOrder, M!TileOrder
    <2> DEFINE s1 == M!ir1_start
               s0 == M!ir0_start
    <2>1. /\ M!IsMulMat(op) /\ chunk \in Nat /\ InTile /\ Blck \in Nat \ {0}
          /\ M!HasChunk
          /\ s1 \in Nat /\ s0 \in Nat /\ M!ir1_end \in Nat /\ M!ir0_end \in Nat
          /\ M!ir1_end <= M!nr1 /\ M!ir0_end <= M!nr0
          /\ M!nr1 \in Nat /\ M!nr0 \in Nat
          /\ M!Rows = (0 .. M!nr1 - 1) \X (0 .. M!nr0 - 1)
      BY WalkShape, ChunkBounds DEF WalkInv, InTile
    <2>2. /\ h1 \in Nat /\ row \in Nat /\ s1 <= h1 /\ s0 <= row
          /\ h1 \in 0 .. M!nr1 - 1 /\ row \in 0 .. M!nr0 - 1
          /\ h1 < M!ir1_end /\ row < M!ir0_end
      BY <2>1
    <2>3. ChunkOf(h1, row) = chunk
      BY <2>1, <2>2, InChunk
    <2>4. visits[<<h1, row>>] > 0 <=> Before(h1, row)
      <3>1. <<h1, row>> \in M!Rows
        BY <2>1, <2>2
      <3>2. visits[<<h1, row>>] = IF Walked(h1, row) THEN 1 ELSE 0
        BY <3>1 DEF WalkInv
      <3> QED BY <2>1, <2>3, <3>2 DEF Walked
    <2>5. /\ iir1 - s1 \in Nat /\ ir1 - s1 \in Nat /\ h1 - s1 \in Nat
          /\ iir0 - s0 \in Nat /\ ir0 - s0 \in Nat /\ row - s0 \in Nat
          /\ (iir1 - s1) % Blck = 0 /\ (iir0 - s0) % Blck = 0
          /\ iir1 - s1 <= ir1 - s1 /\ ir1 - s1 < (iir1 - s1) + Blck
          /\ iir0 - s0 <= ir0 - s0 /\ ir0 - s0 < (iir0 - s0) + Blck
          /\ ir1 \in Nat /\ ir0 \in Nat /\ iir1 \in Nat /\ iir0 \in Nat
      BY <2>1, <2>2, AtRow DEF InTile
    <2> DEFINE a == (h1 - s1) \div Blck
               e == (ir1 - s1) \div Blck
               b == (row - s0) \div Blck
               f == (ir0 - s0) \div Blck
    <2>6. /\ a \in Int /\ e \in Int
          /\ a = e <=> iir1 - s1 <= h1 - s1 /\ h1 - s1 < (iir1 - s1) + Blck
          /\ a < e <=> h1 - s1 < iir1 - s1
      <3> HIDE DEF s1
      <3> QED BY <2>1, <2>5, TileOf
    <2>7. /\ b \in Int /\ f \in Int
          /\ b = f <=> iir0 - s0 <= row - s0 /\ row - s0 < (iir0 - s0) + Blck
          /\ b < f <=> row - s0 < iir0 - s0
      <3> HIDE DEF s0
      <3> QED BY <2>1, <2>5, TileOf
    <2>8. M!Pos(h1, row) = <<a, b, h1, row>> /\ M!Pos(ir1, ir0) = <<e, f, ir1, ir0>>
      BY DEF M!Pos
    <2> HIDE DEF a, b, e, f, s1, s0
    <2>9. M!Earlier(M!Pos(h1, row), M!Pos(ir1, ir0))
            <=> \/ a < e
                \/ a = e /\ b < f
                \/ a = e /\ b = f /\ h1 < ir1
                \/ a = e /\ b = f /\ h1 = ir1 /\ row < ir0
      <3>1. h1 \in Int /\ row \in Int /\ ir1 \in Int /\ ir0 \in Int
        BY <2>2, <2>5
      <3>2. a \in Int /\ e \in Int /\ b \in Int /\ f \in Int
        BY <2>6, <2>7
      <3> DEFINE p == <<a, b, h1, row>>
                 q == <<e, f, ir1, ir0>>
      <3>3. p \in Int \X Int \X Int \X Int /\ q \in Int \X Int \X Int \X Int
        BY <3>1, <3>2
      <3>4. /\ p[1] = a /\ p[2] = b /\ p[3] = h1 /\ p[4] = row
            /\ q[1] = e /\ q[2] = f /\ q[3] = ir1 /\ q[4] = ir0
        OBVIOUS
      <3>5. M!Pos(h1, row) = p /\ M!Pos(ir1, ir0) = q
        BY <2>8
      <3> HIDE DEF p, q
      <3> QED BY <3>3, <3>4, <3>5, EarlierIs
    <2>10. /\ a = e <=> iir1 <= h1 /\ h1 < iir1 + Blck
           /\ a < e <=> h1 < iir1
           /\ b = f <=> iir0 <= row /\ row < iir0 + Blck
           /\ b < f <=> row < iir0
      BY <2>1, <2>2, <2>5, <2>6, <2>7
    <2> QED BY <2>1, <2>2, <2>4, <2>5, <2>9, <2>10 DEF Before
  <1> QED BY <1>1, InitPass, NextPass, PTL DEF Spec
-------------------------------------------------------------------------------
(* The reconstruction of a set_rows (SetRowsExpand).                          *)

(* The rows emitted so far are those the samples extrapolate to.              *)
SrInv ==
    /\ status \in {"idle", "logged", "expanding", "done", "rejected"}
    /\ status # "idle" => rows \in Seq(Nat) \ {<<>>}
    /\ status = "rejected" => ~S!Regular
    /\ status = "logged" => out = <<>>
    /\ status \in {"expanding", "done"} =>
        /\ S!Regular
        /\ Len(out) \in 0 .. S!n_idx
        /\ out = [i \in 1 .. Len(out) |-> S!samples[1] + (i - 1) * S!stride]
    /\ status = "done" => Len(out) = S!n_idx

LEMMA Samples ==
    ASSUME rows \in Seq(Nat) \ {<<>>}
    PROVE  /\ S!n_idx \in Nat \ {0}
           /\ Len(S!samples) = S!Least(4, S!n_idx)
           /\ \A i \in 1 .. S!Least(4, S!n_idx) : S!samples[i] = rows[i]
           /\ \A i \in 1 .. S!n_idx : rows[i] \in Nat
  <1> DEFINE n == S!n_idx
             few == S!Least(4, n)
             kept == {i \in 1 .. 4 : S!idx[i] >= 0}
  <1>1. n \in Nat \ {0} /\ \A i \in 1 .. n : rows[i] \in Nat
    BY DEF S!n_idx
  <1>2. few \in 1 .. 4 /\ few <= n
    BY <1>1 DEF S!Least
  <1>3. kept = 1 .. few
    <2>1. \A i \in 1 .. 4 : S!idx[i] = IF i <= n THEN rows[i] ELSE -1
      BY DEF S!idx
    <2> HIDE DEF n
    <2>2. \A i \in 1 .. 4 : S!idx[i] >= 0 <=> i <= n
      <3> SUFFICES ASSUME NEW i \in 1 .. 4 PROVE S!idx[i] >= 0 <=> i <= n
        OBVIOUS
      <3>1. CASE i <= n
        <4>1. i \in 1 .. n
          BY <1>1, <3>1
        <4>2. S!idx[i] = rows[i] /\ rows[i] \in Nat
          BY <1>1, <2>1, <3>1, <4>1
        <4> QED BY <3>1, <4>2
      <3>2. CASE ~(i <= n)
        <4>1. S!idx[i] = -1
          BY <2>1, <3>2
        <4> QED BY <3>2, <4>1
      <3> QED BY <3>1, <3>2
    <2>3. \A i \in 1 .. 4 : i <= n <=> i \in 1 .. few
      BY <1>1 DEF S!Least
    <2>4. \A i \in 1 .. few : i \in 1 .. 4
      BY <1>2
    <2> QED BY <2>2, <2>3, <2>4
  <1>4. S!Picked(S!idx, kept) = Picked(S!idx, kept)
    <2>1. \A set : S!Cardinality(set) = Cardinality(set)
      BY Zenon DEF S!Cardinality, Cardinality, S!IsFiniteSet, IsFiniteSet
    <2> HIDE DEF kept
    <2>2. \A j : S!Position(kept, j) = Position(kept, j)
      BY <2>1 DEF S!Position, Position
    <2> QED BY <2>1, <2>2 DEF S!Picked, Picked
  <1>5. Picked(S!idx, 1 .. few) = [j \in 1 .. few |-> S!idx[j]]
    <2>1. few \in Int /\ 1 <= few + 1 /\ few - 1 + 1 = few
      BY <1>2
    <2> HIDE DEF few
    <2>2. Picked(S!idx, 1 .. few) = [j \in 1 .. few - 1 + 1 |-> S!idx[1 + j - 1]]
      BY <2>1, PickedRange
    <2>3. \A j \in 1 .. few : 1 + j - 1 = j
      BY <2>1
    <2> QED BY <2>1, <2>2, <2>3
  <1>6. S!samples = SubSeq([j \in 1 .. few |-> S!idx[j]], 1, few)
    <2>1. S!samples = SubSeq(S!Picked(S!idx, kept), 1, few)
      BY DEF S!samples
    <2> HIDE DEF few, kept
    <2> QED BY <1>3, <1>4, <1>5, <2>1
  <1>7. \A j \in 1 .. few : S!idx[j] = rows[j]
    <2> HIDE DEF few
    <2>1. \A j \in 1 .. few : j \in 1 .. 4 /\ j <= n
      BY <1>1, <1>2
    <2> QED BY <2>1 DEF S!idx
  <1> HIDE DEF few
  <1>8. Len(S!samples) = few /\ \A i \in 1 .. few : S!samples[i] = S!idx[i]
    BY <1>2, <1>6
  <1> QED BY <1>1, <1>7, <1>8 DEF few

LEMMA Strides ==
    ASSUME rows \in Seq(Nat) \ {<<>>}
    PROVE  /\ S!stride \in Int
           /\ S!samples[1] = rows[1] /\ rows[1] \in Nat
           /\ S!n_idx > 1 => S!stride = rows[2] - rows[1]
           /\ S!Regular <=>
                /\ \A i \in 1 .. S!Least(4, S!n_idx) - 1 :
                       rows[i + 1] - rows[i] = S!stride
                /\ rows[S!n_idx] = rows[1] + (S!n_idx - 1) * S!stride
  <1> DEFINE n == S!n_idx
             few == S!Least(4, n)
  <1>1. /\ n \in Nat \ {0} /\ few \in 1 .. 4 /\ few <= n /\ (n > 1 => few >= 2)
        /\ Len(S!samples) = few /\ \A i \in 1 .. few : S!samples[i] = rows[i]
        /\ \A i \in 1 .. n : rows[i] \in Nat
    BY Samples DEF S!Least
  <1>2. /\ S!stride \in Int /\ S!samples[1] = rows[1] /\ rows[1] \in Nat
        /\ n > 1 => S!stride = rows[2] - rows[1]
    <2> HIDE DEF few, n
    <2>1. S!stride = IF n > 1 THEN S!samples[2] - S!samples[1] ELSE 0
      BY DEF S!stride, n
    <2> QED BY <1>1, <2>1
  <1>3. S!Regular <=> /\ \A i \in 1 .. few - 1 : S!samples[i + 1] - S!samples[i] = S!stride
                      /\ rows[n] = rows[1] + (n - 1) * S!stride
    BY <1>1, <1>2 DEF S!Regular, S!expect_last, S!idx_last
  <1>4. \A i \in 1 .. few - 1 : S!samples[i + 1] = rows[i + 1] /\ S!samples[i] = rows[i]
    <2> HIDE DEF few, n
    <2> QED BY <1>1
  <1> QED BY <1>2, <1>3, <1>4

LEMMA Extrapolates ==
    ASSUME rows \in Seq(Nat) \ {<<>>}, S!Arithmetic
    PROVE  \A i \in 1 .. S!n_idx : rows[i] = rows[1] + (i - 1) * S!stride
  <1> DEFINE n == S!n_idx
  <1>1. n \in Nat \ {0} /\ S!stride \in Int /\ \A i \in 1 .. n : rows[i] \in Int
    BY Samples, Strides
  <1>2. \A i \in 1 .. n - 1 : rows[i + 1] - rows[i] = S!stride
    <2>1. ASSUME NEW i \in 1 .. n - 1 PROVE S!stride = rows[S!Least(2, n)] - rows[1]
      BY <1>1, Strides DEF S!Least
    <2> QED BY <2>1 DEF S!Arithmetic
  <1> HIDE DEF n
  <1>3. \A i \in 1 .. n : rows[i] = rows[1] + (i - 1) * S!stride
    BY <1>1, <1>2, Progression
  <1> QED BY <1>3 DEF n

LEMMA ArithmeticIsRegular ==
    ASSUME rows \in Seq(Nat) \ {<<>>}, S!Arithmetic
    PROVE  S!Regular
  <1> DEFINE n == S!n_idx
             few == S!Least(4, n)
  <1>1. n \in Nat \ {0} /\ few <= n /\ few \in Nat
    BY Samples DEF S!Least
  <1>2. rows[n] = rows[1] + (n - 1) * S!stride
    BY <1>1, Extrapolates
  <1>3. \A i \in 1 .. few - 1 : rows[i + 1] - rows[i] = S!stride
    <2>1. ASSUME NEW i \in 1 .. n - 1 PROVE S!stride = rows[S!Least(2, n)] - rows[1]
      BY <1>1, Strides DEF S!Least
    <2>2. \A i \in 1 .. n - 1 : rows[i + 1] - rows[i] = S!stride
      BY <2>1 DEF S!Arithmetic
    <2> HIDE DEF few, n
    <2> QED BY <1>1, <2>2
  <1> QED BY <1>2, <1>3, Strides

(* The log determines the rows when there are no more than five: four samples *)
(* and the last.                                                              *)
LEMMA RegularDetermines ==
    ASSUME rows \in Seq(Nat) \ {<<>>}, S!Regular, S!n_idx <= 5
    PROVE  S!Arithmetic
  <1> DEFINE n == S!n_idx
             few == S!Least(4, n)
             d == S!stride
  <1>1. /\ n \in 1 .. 5 /\ \A i \in 1 .. n : rows[i] \in Nat
        /\ d \in Int /\ (n > 1 => d = rows[2] - rows[1])
        /\ \A i \in 1 .. few - 1 : rows[i + 1] - rows[i] = d
        /\ rows[n] = rows[1] + (n - 1) * d
    <2>1. n \in Nat \ {0} /\ n <= 5 /\ \A i \in 1 .. n : rows[i] \in Nat
      BY Samples
    <2>2. /\ d \in Int /\ (n > 1 => d = rows[2] - rows[1])
          /\ \A i \in 1 .. few - 1 : rows[i + 1] - rows[i] = d
          /\ rows[n] = rows[1] + (n - 1) * d
      BY Strides
    <2>3. n \in 1 .. 5
      BY <2>1
    <2> HIDE DEF n, d, few
    <2> QED BY <2>1, <2>2, <2>3
  <1>2. \A i \in 1 .. n - 1 : rows[i + 1] - rows[i] = d
    <2>1. CASE n <= 4
      BY <1>1, <2>1 DEF S!Least
    <2>2. CASE n = 5
      <3> HIDE DEF d
      <3>1. /\ rows[2] - rows[1] = d /\ rows[3] - rows[2] = d /\ rows[4] - rows[3] = d
            /\ rows[5] = rows[1] + 4 * d
        BY <1>1, <2>2 DEF S!Least
      <3>2. /\ rows[1] \in Nat /\ rows[2] \in Nat /\ rows[3] \in Nat
            /\ rows[4] \in Nat /\ rows[5] \in Nat
        BY <1>1, <2>2
      <3>3. d \in Int
        BY <1>1
      <3>4. rows[5] - rows[4] = d
        <4> DEFINE a == rows[1]
                   b == rows[2]
                   c == rows[3]
                   e == rows[4]
                   last == rows[5]
        <4>1. /\ a \in Nat /\ b \in Nat /\ c \in Nat /\ e \in Nat /\ last \in Nat
              /\ b - a = d /\ c - b = d /\ e - c = d /\ last = a + 4 * d
          BY <3>1, <3>2
        <4> HIDE DEF a, b, c, e, last
        <4>2. last - e = d
          BY <3>3, <4>1
        <4> QED BY <4>2 DEF e, last
      <3> HIDE DEF n
      <3>5. ASSUME NEW i \in 1 .. n - 1 PROVE rows[i + 1] - rows[i] = d
        <4>1. CASE i = 1
          BY <3>1, <4>1
        <4>2. CASE i = 2
          BY <3>1, <4>2
        <4>3. CASE i = 3
          BY <3>1, <4>3
        <4>4. CASE i = 4
          BY <3>4, <4>4
        <4>5. i \in 1 .. 4
          BY <2>2
        <4> QED BY <4>1, <4>2, <4>3, <4>4, <4>5
      <3> QED BY <3>5
    <2> QED BY <1>1, <2>1, <2>2
  <1>3. n > 1 => rows[S!Least(2, n)] - rows[1] = d
    BY <1>1 DEF S!Least
  <1> HIDE DEF d, n
  <1>4. \A i \in 1 .. n - 1 : n > 1
    BY <1>1
  <1> QED BY <1>2, <1>3, <1>4 DEF S!Arithmetic, n

LEMMA SameRows ==
    ASSUME rows' = rows
    PROVE  /\ S!n_idx' = S!n_idx /\ S!samples' = S!samples /\ S!stride' = S!stride
           /\ S!Regular' = S!Regular
  <1>1. S!n_idx' = S!n_idx /\ S!samples' = S!samples /\ S!stride' = S!stride
    BY DEF S!n_idx, S!samples, S!stride, S!idx, S!Picked, S!Position
  <1>2. S!Regular' = S!Regular
    BY <1>1 DEF S!Regular, S!expect_last, S!idx_last
  <1> QED BY <1>1, <1>2

LEMMA UnchangedRows ==
    ASSUME SrInv, UNCHANGED sr
    PROVE  SrInv'
  <1>1. rows' = rows /\ status' = status /\ out' = out
    BY DEF sr
  <1>2. S!n_idx' = S!n_idx /\ S!samples' = S!samples /\ S!stride' = S!stride
    BY <1>1, SameRows
  <1>3. S!Regular' = S!Regular
    BY <1>1, SameRows
  <1> QED BY <1>1, <1>2, <1>3 DEF SrInv

LEMMA EmitsNextRow ==
    ASSUME SrInv, S!EmitRow
    PROVE  SrInv'
  <1> DEFINE f == [i \in 1 .. Len(out) |-> S!samples[1] + (i - 1) * S!stride]
             v == S!samples[1] + Len(out) * S!stride
  <1>1. /\ rows' = rows /\ status = "expanding" /\ status' = status
        /\ rows \in Seq(Nat) \ {<<>>} /\ S!Regular
        /\ Len(out) \in 0 .. S!n_idx /\ Len(out) < S!n_idx
        /\ out = f /\ out' = Append(out, v)
    BY DEF SrInv, S!EmitRow
  <1>2. S!n_idx' = S!n_idx /\ S!samples' = S!samples /\ S!stride' = S!stride
    BY <1>1, SameRows
  <1>3. S!Regular' = S!Regular
    BY <1>1, SameRows
  <1>4. S!n_idx \in Nat
    BY <1>1, Samples
  <1> DEFINE len == Len(out)
             g == [i \in 1 .. len + 1 |-> S!samples[1] + (i - 1) * S!stride]
  <1>5. out' = g /\ Len(out') = len + 1
    <2>1. len \in Nat
      BY <1>1, <1>4
    <2>2. v = S!samples[1] + ((len + 1) - 1) * S!stride
      <3>1. (len + 1) - 1 = len
        BY <2>1
      <3> QED BY <3>1
    <2>3. Append(f, v) = g /\ Len(Append(f, v)) = len + 1
      <3>1. Append(f, v) = [i \in 1 .. len + 1 |-> IF i <= len THEN f[i] ELSE v]
        <4>1. f = [i \in 1 .. len |-> f[i]]
          OBVIOUS
        <4> HIDE DEF f, v, len
        <4> QED BY <2>1, <4>1, Appended
      <3>2. \A i \in 1 .. len + 1 : (IF i <= len THEN f[i] ELSE v) = g[i]
        <4>1. \A i \in 1 .. len + 1 : i <= len => f[i] = g[i]
          <5>1. \A i \in 1 .. len + 1 : i <= len => i \in 1 .. len
            BY <2>1
          <5>2. \A i \in 1 .. len : f[i] = S!samples[1] + (i - 1) * S!stride
            OBVIOUS
          <5>3. \A i \in 1 .. len + 1 : g[i] = S!samples[1] + (i - 1) * S!stride
            OBVIOUS
          <5> HIDE DEF f, g, v, len
          <5> QED BY <5>1, <5>2, <5>3
        <4>2. g[len + 1] = v
          BY <2>1, <2>2
        <4>3. \A i \in 1 .. len + 1 : i <= len \/ i = len + 1
          BY <2>1
        <4> HIDE DEF f, g, v, len
        <4> QED BY <4>1, <4>2, <4>3
      <3>3. Append(f, v) = g
        <4>1. g = [i \in 1 .. len + 1 |-> g[i]]
          OBVIOUS
        <4> HIDE DEF f, g, v, len
        <4> QED BY <3>1, <3>2, <4>1
      <3>4. Len(g) = len + 1
        BY <2>1
      <3> HIDE DEF f, g, v, len
      <3> QED BY <3>3, <3>4
    <2> HIDE DEF f, g, v
    <2> QED BY <1>1, <2>3
  <1>6. out' = [i \in 1 .. Len(out)' |-> S!samples[1]' + (i - 1) * S!stride']
    BY <1>2, <1>5
  <1>7. Len(out)' \in 0 .. S!n_idx
    BY <1>1, <1>4, <1>5
  <1> HIDE DEF f, v, g, len
  <1> QED BY <1>1, <1>2, <1>3, <1>6, <1>7 DEF SrInv

LEMMA NextRows == PassInv /\ SrInv /\ [Next]_vars => SrInv'
  <1> SUFFICES ASSUME PassInv, SrInv, [Next]_vars PROVE SrInv'
    OBVIOUS
  <1>1. CASE NextOp
    <2>1. CASE UNCHANGED sr
      BY <2>1, UnchangedRows
    <2>2. CASE S!Start(ops[at + 1].idxs) /\ ops[at + 1].tag # "MM"
      <3>1. rows' \in Seq(Nat) \ {<<>>}
        <4>1. ops \in Runs /\ at + 1 \in 1 .. Len(ops)
          BY <1>1, RunOps DEF NextOp, PassInv
        <4>2. at + 1 \in DOMAIN ops
          BY <4>1, PassAssumption
        <4>3. ops[at + 1].tag = "SR" /\ ops[at + 1].idxs \in Seq(Nat) \ {<<>>}
          BY <2>2, <4>1, <4>2, PassAssumption
        <4> QED BY <2>2, <4>3 DEF S!Start
      <3> QED BY <2>2, <3>1 DEF S!Start, SrInv
    <2> QED BY <1>1, <2>1, <2>2 DEF NextOp
  <1>2. CASE expand_sr
    <2>1. CASE S!Check
      <3>1. rows' = rows /\ out' = out /\ status = "logged"
            /\ status' = IF S!Regular THEN "expanding" ELSE "rejected"
        BY <2>1 DEF S!Check
      <3>2. out = <<>>
        BY <3>1 DEF SrInv
      <3>3. /\ rows \in Seq(Nat) \ {<<>>} /\ S!n_idx \in Nat
            /\ S!n_idx' = S!n_idx /\ S!samples' = S!samples /\ S!stride' = S!stride
            /\ S!Regular' = S!Regular
        BY <3>1, Samples, SameRows DEF SrInv
      <3>4. Len(out) = 0 /\ out = [i \in 1 .. Len(out) |-> S!samples[1] + (i - 1) * S!stride]
        BY <3>2
      <3>5. /\ Len(out)' = 0
            /\ out' = [i \in 1 .. Len(out)' |-> S!samples[1]' + (i - 1) * S!stride']
        BY <3>1, <3>3, <3>4
      <3> QED BY <3>1, <3>3, <3>5 DEF SrInv
    <2>2. CASE S!Finish
      <3>1. /\ rows' = rows /\ out' = out /\ status = "expanding" /\ status' = "done"
            /\ Len(out) = S!n_idx
        BY <2>2 DEF S!Finish
      <3>2. /\ S!n_idx' = S!n_idx /\ S!samples' = S!samples /\ S!stride' = S!stride
            /\ S!Regular' = S!Regular
        BY <3>1, SameRows
      <3> QED BY <3>1, <3>2 DEF SrInv
    <2>3. CASE S!EmitRow
      BY <2>3, EmitsNextRow
    <2> QED BY <1>2, <2>1, <2>2, <2>3 DEF expand_sr
  <1>3. CASE expand_mm \/ Reject \/ Rebase \/ Stopped \/ UNCHANGED vars
    BY <1>3, UnchangedRows DEF expand_mm, Reject, Rebase, Stopped, vars
  <1> QED BY <1>1, <1>2, <1>3 DEF Next

(* When all rows are emitted they are those written, if the log determines    *)
(* them.                                                                      *)
LEMMA Rebuilt == SrInv => ExpansionExact
  <1> SUFFICES ASSUME SrInv PROVE S!ExpansionExact
    BY DEF ExpansionExact
  <1>1. ASSUME status = "done", S!n_idx <= 5 \/ S!Arithmetic
        PROVE  out = rows
    <2>1. rows \in Seq(Nat) \ {<<>>} /\ S!Regular /\ Len(out) = S!n_idx
          /\ out = [i \in 1 .. Len(out) |-> S!samples[1] + (i - 1) * S!stride]
      BY <1>1 DEF SrInv
    <2>2. S!Arithmetic
      BY <1>1, <2>1, RegularDetermines
    <2>3. \A i \in 1 .. S!n_idx : rows[i] = rows[1] + (i - 1) * S!stride
      BY <2>1, <2>2, Extrapolates
    <2>4. S!samples[1] = rows[1]
      BY <2>1, Strides
    <2>5. rows = [i \in 1 .. S!n_idx |-> rows[i]]
      BY <2>1 DEF S!n_idx
    <2> QED BY <2>1, <2>3, <2>4, <2>5
  <1>2. ASSUME status = "rejected" PROVE ~S!Arithmetic
    BY <1>2, ArithmeticIsRegular DEF SrInv
  <1> QED BY <1>1, <1>2 DEF S!ExpansionExact

(* expand_sr writes exactly what set_rows wrote whenever the log determines   *)
(* it, up to five rows, or the rows are an arithmetic sequence of any length; *)
(* it refuses no arithmetic sequence.  For every list of rows.                *)
THEOREM ExpansionExactCorrect == Spec => []ExpansionExact
  <1>1. Init => SrInv
    BY DEF Init, S!Idle, SrInv
  <1> QED BY <1>1, Rebuilt, InitPass, NextPass, NextRows, PTL DEF Spec

-------------------------------------------------------------------------------
(* The stream of lines and its copies.                                        *)
Access == [compute : {compute_read, compute_store},
           line : {n \in Nat : n % CACHE_LINE = 0}, write : BOOLEAN]

(* Whole lines, and a highest one.                                            *)
StreamInv ==
    /\ accesses \in Seq(Access)
    /\ \E b \in Nat : \A i \in DOMAIN accesses : accesses[i].line <= b

LEMMA AccessLine ==
    ASSUME NEW a \in Access
    PROVE  /\ a.line \in Nat /\ a.line % CACHE_LINE = 0
           /\ a = [compute |-> a.compute, line |-> a.line, write |-> a.write]
  BY DEF Access

LEMMA LineStart ==
    ASSUME NEW a \in Nat
    PROVE  /\ LineOf(a) \in Nat /\ LineOf(a) % CACHE_LINE = 0
           /\ LineOf(a) <= a /\ a < LineOf(a) + CACHE_LINE
           /\ IsMultiple(LineOf(a), CACHE_LINE)
  <1> DEFINE q == a \div CACHE_LINE
             r == a % CACHE_LINE
             qc == q * CACHE_LINE
  <1>1. CACHE_LINE \in Nat \ {0}
    BY PassAssumption
  <1>2. q \in Nat /\ r \in 0 .. CACHE_LINE - 1 /\ a = qc + r /\ LineOf(a) = a - r
    BY <1>1, DivMod DEF LineOf
  <1>3. qc \in Int
    <2> HIDE DEF q
    <2> QED BY <1>1, <1>2, Z3
  <1>4. LineOf(a) = qc /\ LineOf(a) \in Nat /\ LineOf(a) <= a /\ a < LineOf(a) + CACHE_LINE
    <2>1. qc >= 0
      <3> HIDE DEF q
      <3> QED BY <1>1, <1>2, Z3
    <2> HIDE DEF q, r, qc
    <2> QED BY <1>1, <1>2, <1>3, <2>1
  <1>5. IsMultiple(LineOf(a), CACHE_LINE)
    <2> HIDE DEF q, r
    <2> QED BY <1>2, <1>4 DEF IsMultiple
  <1> QED BY <1>1, <1>4, <1>5, ModMultiple

(* What a row appends is a sequence of whole lines, bounded.                  *)
LEMMA RowStream ==
    ASSUME NEW addr \in Nat, NEW length \in Nat \ {0},
           NEW compute \in {compute_read, compute_store}, NEW write \in BOOLEAN
    PROVE  LET e == emit_row(addr, length, compute, write) IN
           /\ e \in Seq(Access)
           /\ \E b \in Nat : \A i \in DOMAIN e : e[i].line <= b
  <1> DEFINE e == emit_row(addr, length, compute, write)
             first == LineOf(addr)
             last == LineOf(addr + length - 1)
             n == (last - first) \div CACHE_LINE
             b == first + n * CACHE_LINE
  <1>1. CACHE_LINE \in Nat \ {0} /\ addr + length - 1 \in Nat
    BY PassAssumption
  <1>2. /\ first \in Nat /\ IsMultiple(first, CACHE_LINE) /\ first <= addr
        /\ last \in Nat /\ IsMultiple(last, CACHE_LINE) /\ addr < last + CACHE_LINE
    BY <1>1, LineStart
  <1>3. n \in Int /\ n >= -1
    <2>1. last - first \in Int /\ last - first >= -CACHE_LINE
      BY <1>1, <1>2
    <2> HIDE DEF first, last
    <2> QED BY <1>1, <2>1, Z3
  <1>4. e = [i \in 1 .. n + 1 |->
               [compute |-> compute, line |-> first + (i - 1) * CACHE_LINE, write |-> write]]
    BY DEF emit_row
  <1> HIDE DEF e, first, last, n
  <1>5. ASSUME NEW i \in 1 .. n + 1
        PROVE  LET line == first + (i - 1) * CACHE_LINE IN
               line \in Nat /\ line % CACHE_LINE = 0 /\ line <= b
    <2> DEFINE k == (i - 1) * CACHE_LINE
    <2>1. i - 1 \in Nat /\ n \in Nat /\ i - 1 <= n
      BY <1>3
    <2>2. k \in Nat /\ k <= n * CACHE_LINE /\ n * CACHE_LINE \in Nat
      BY <1>1, <2>1, TimesOrder
    <2>3. IsMultiple(k, CACHE_LINE)
      BY <2>1 DEF IsMultiple
    <2> HIDE DEF k
    <2>4. first + k \in Nat /\ IsMultiple(first + k, CACHE_LINE) /\ first + k <= b
      <3>1. IsMultiple(first + k, CACHE_LINE)
        BY <1>1, <1>2, <2>3, Multiples
      <3> QED BY <1>2, <2>2, <3>1
    <2>5. (first + k) % CACHE_LINE = 0
      BY <1>1, <2>4, ModMultiple
    <2> QED BY <2>4, <2>5 DEF k
  <1>6. e \in Seq(Access)
    <2>1. n + 1 \in Nat
      BY <1>3
    <2>2. \A i \in 1 .. n + 1 : e[i] \in Access
      BY <1>4, <1>5 DEF Access
    <2> QED BY <1>4, <2>1, <2>2
  <1>7. CASE n = -1
    <2>1. DOMAIN e = {}
      BY <1>4, <1>7
    <2> QED BY <1>6, <2>1 DEF e
  <1>8. CASE n \in Nat
    <2>1. b \in Nat
      <3>1. n * CACHE_LINE \in Nat
        BY <1>1, <1>8, TimesOrder
      <3> QED BY <1>2, <3>1
    <2>2. \A i \in DOMAIN e : e[i].line <= b
      BY <1>4, <1>5
    <2> QED BY <1>6, <2>1, <2>2 DEF e
  <1> QED BY <1>3, <1>7, <1>8

LEMMA StreamGrows ==
    ASSUME StreamInv, NEW e \in Seq(Access), accesses' = accesses \o e,
           \E b \in Nat : \A i \in DOMAIN e : e[i].line <= b
    PROVE  StreamInv'
  <1>1. PICK b1 \in Nat : \A i \in DOMAIN accesses : accesses[i].line <= b1
    BY DEF StreamInv
  <1>2. PICK b2 \in Nat : \A i \in DOMAIN e : e[i].line <= b2
    OBVIOUS
  <1> DEFINE b == IF b1 < b2 THEN b2 ELSE b1
  <1>3. accesses \in Seq(Access) /\ accesses' \in Seq(Access)
    BY DEF StreamInv
  <1>4. \A i \in DOMAIN accesses : accesses[i].line \in Nat
    BY <1>3, AccessLine
  <1>5. \A i \in DOMAIN e : e[i].line \in Nat
    BY AccessLine
  <1>6. ASSUME NEW i \in DOMAIN accesses' PROVE accesses'[i].line <= b
    <2> DEFINE n == Len(accesses)
    <2>1. n \in Nat /\ Len(e) \in Nat /\ i \in 1 .. n + Len(e)
          /\ DOMAIN accesses = 1 .. n /\ DOMAIN e = 1 .. Len(e)
          /\ accesses'[i] = IF i <= n THEN accesses[i] ELSE e[i - n]
      BY <1>3
    <2> HIDE DEF n
    <2>2. CASE i <= n
      BY <1>1, <1>4, <2>1, <2>2
    <2>3. CASE i > n
      <3>1. i - n \in DOMAIN e
        BY <2>1, <2>3
      <3> QED BY <1>2, <1>5, <2>1, <2>3, <3>1
    <2> QED BY <2>1, <2>2, <2>3
  <1>7. b \in Nat
    OBVIOUS
  <1> HIDE DEF b
  <1> QED BY <1>3, <1>6, <1>7 DEF StreamInv

(* The addresses of both walks are natural numbers.                           *)
LEMMA RowAddress ==
    ASSUME PassInv, Is("MM"), walking
    PROVE  row_addr \in Nat /\ Current.row_bytes \in Nat \ {0}
  <1>1. /\ op = Current /\ M!IsMulMat(op) /\ ir1 \in Nat /\ ir0 \in Nat
    BY DEF PassInv, WalkInv, InTile
  <1>2. /\ Current.data \in Nat /\ Current.row_bytes \in Nat \ {0}
        /\ Current.nb01 \in Nat /\ Current.nb02 \in Nat
    <2>1. ops \in Runs /\ at \in DOMAIN ops /\ ops[at].tag = "MM"
      <3>1. at \in 1 .. Len(ops) /\ ops \in Runs
        BY RunOps DEF PassInv, Is
      <3> QED BY <3>1, PassAssumption DEF Is, Current
    <2> QED BY <2>1, PassAssumption DEF Current
  <1>3. M!i02(ir1) \in Nat
    <2> DEFINE q == op.n_q_heads
               t == op.n_tok
               h == ir1 % (q * t)
               k == h \div t
    <2>1. q \in Nat \ {0} /\ t \in Nat \ {0} /\ op.ne02 \in Nat \ {0}
          /\ q % op.ne02 = 0
      BY <1>1 DEF M!IsMulMat
    <2>2. q * t \in Nat \ {0}
      <3> HIDE DEF q, t
      <3> QED BY <2>1, Z3
    <2>3. h \in Nat
      <3> HIDE DEF q, t
      <3> QED BY <1>1, <2>2, DivMod
    <2>4. k \in Nat
      <3> HIDE DEF h
      <3> QED BY <2>1, <2>3, DivMod
    <2>5. M!r2 \in Nat \ {0}
      <3> DEFINE r == q \div op.ne02
      <3>1. r \in Nat /\ q = r * op.ne02 + (q % op.ne02)
        BY <2>1, DivMod
      <3>2. r # 0
        <4> HIDE DEF r
        <4>1. r = 0 => r * op.ne02 = 0
          BY <2>1, Z3
        <4> QED BY <2>1, <3>1, <4>1
      <3> QED BY <3>1, <3>2 DEF M!r2
    <2>6. M!i02(ir1) = k \div M!r2
      BY DEF M!i02
    <2> HIDE DEF k
    <2> QED BY <2>4, <2>5, <2>6, DivMod
  <1>4. M!i02(ir1) * Current.nb02 \in Nat /\ ir0 * Current.nb01 \in Nat
    <2> DEFINE i == M!i02(ir1)
               x == Current.nb02
               y == Current.nb01
    <2>1. i \in Nat /\ x \in Nat /\ y \in Nat
      BY <1>2, <1>3
    <2> HIDE DEF i, x, y
    <2>2. i * x \in Nat /\ ir0 * y \in Nat
      BY <1>1, <2>1, TimesOrder
    <2> QED BY <2>2 DEF i, x, y
  <1> QED BY <1>2, <1>4 DEF row_addr

(* Regular rows stay between the first and the last, so none is negative.     *)
LEMMA RowsNotNegative ==
    ASSUME SrInv, S!EmitRow
    PROVE  out'[Len(out')] \in Nat
  <1> DEFINE n == S!n_idx
             d == S!stride
             k == Len(out)
             x == rows[1]
  <1>1. /\ rows \in Seq(Nat) \ {<<>>} /\ S!Regular
        /\ k \in 0 .. n /\ k < n
        /\ out = [i \in 1 .. Len(out) |-> S!samples[1] + (i - 1) * S!stride]
        /\ out' = Append(out, S!samples[1] + k * d)
    BY DEF SrInv, S!EmitRow
  <1>2. /\ n \in Nat \ {0} /\ d \in Int /\ x \in Nat /\ S!samples[1] = x
        /\ rows[n] \in Nat /\ rows[n] = x + (n - 1) * d
    <2>1. n \in Nat \ {0} /\ \A i \in 1 .. n : rows[i] \in Nat
      BY <1>1, Samples
    <2>2. d \in Int /\ x \in Nat /\ S!samples[1] = x /\ rows[n] = x + (n - 1) * d
      BY <1>1, Strides
    <2> HIDE DEF n, d, x
    <2>3. n \in 1 .. n
      BY <2>1
    <2> QED BY <2>1, <2>2, <2>3
  <1>3. out'[Len(out')] = x + k * d
    <2>1. k \in Nat /\ out = [i \in 1 .. k |-> out[i]]
      BY <1>1, <1>2
    <2> DEFINE v == x + k * d
    <2>2. out' = Append(out, v)
      BY <1>1, <1>2
    <2> HIDE DEF v, k
    <2>3. out' = [i \in 1 .. k + 1 |-> IF i <= k THEN out[i] ELSE v] /\ Len(out') = k + 1
      BY <2>1, <2>2, Appended
    <2>4. k + 1 \in 1 .. k + 1 /\ ~(k + 1 <= k)
      BY <2>1
    <2> QED BY <2>3, <2>4 DEF v
  <1>4. x + k * d \in Nat
    <2> HIDE DEF n, d, k, x
    <2>1. k \in Nat /\ n - 1 \in Nat /\ k <= n - 1
      BY <1>1, <1>2
    <2>2. CASE d >= 0
      <3>1. k * d \in Nat
        BY <1>2, <2>1, <2>2, TimesOrder
      <3> QED BY <1>2, <3>1
    <2>3. CASE d < 0
      <3> DEFINE e == -d
      <3>1. e \in Nat /\ d = -e
        BY <1>2, <2>3
      <3> HIDE DEF e
      <3>2. k * e <= (n - 1) * e /\ k * e \in Nat /\ (n - 1) * e \in Nat
        BY <2>1, <3>1, TimesOrder
      <3>3. k * d = -(k * e) /\ (n - 1) * d = -((n - 1) * e)
        BY <2>1, <3>1, Z3
      <3>4. x - (n - 1) * e \in Nat
        BY <1>2, <3>2, <3>3
      <3> QED BY <1>2, <3>2, <3>3, <3>4
    <2> QED BY <1>2, <2>2, <2>3
  <1> QED BY <1>3, <1>4

LEMMA NextStream == PassInv /\ SrInv /\ StreamInv /\ [Next]_vars => StreamInv'
  <1> SUFFICES ASSUME PassInv, SrInv, StreamInv, [Next]_vars PROVE StreamInv'
    OBVIOUS
  <1>1. CASE UNCHANGED accesses
    BY <1>1 DEF StreamInv
  <1>2. CASE Is("MM") /\ M!EmitRow /\ accesses' = accesses \o
                emit_row(row_addr, Current.row_bytes, compute_read, FALSE)
    <2>1. row_addr \in Nat /\ Current.row_bytes \in Nat \ {0}
      BY <1>2, RowAddress DEF M!EmitRow
    <2> DEFINE e == emit_row(row_addr, Current.row_bytes, compute_read, FALSE)
    <2>2. e \in Seq(Access) /\ \E b \in Nat : \A i \in DOMAIN e : e[i].line <= b
      BY <2>1, RowStream
    <2>3. accesses' = accesses \o e
      BY <1>2
    <2> HIDE DEF e
    <2> QED BY <2>2, <2>3, StreamGrows
  <1>3. CASE Is("SR") /\ S!EmitRow /\ accesses' = accesses \o
                emit_row(Current.data + out'[Len(out')] * Current.nb1,
                         Current.row_bytes, compute_store, TRUE)
    <2> DEFINE addr == Current.data + out'[Len(out')] * Current.nb1
               e == emit_row(addr, Current.row_bytes, compute_store, TRUE)
    <2>1. Current.data \in Nat /\ Current.row_bytes \in Nat \ {0} /\ Current.nb1 \in Nat
      <3>1. ops \in Runs /\ at \in DOMAIN ops /\ ops[at].tag = "SR"
        <4>1. at \in 1 .. Len(ops) /\ ops \in Runs
          BY <1>3, RunOps DEF PassInv, Is
        <4> QED BY <1>3, <4>1, PassAssumption DEF Is, Current
      <3> QED BY <3>1, PassAssumption DEF Current
    <2>2. addr \in Nat
      <3> DEFINE v == out'[Len(out')]
                 nb == Current.nb1
      <3>1. v \in Nat /\ nb \in Nat
        BY <1>3, <2>1, RowsNotNegative
      <3> HIDE DEF v, nb
      <3>2. v * nb \in Nat
        BY <3>1, TimesOrder
      <3> QED BY <2>1, <3>2 DEF v, nb
    <2>3. accesses' = accesses \o e
      BY <1>3
    <2> HIDE DEF addr
    <2>4. e \in Seq(Access) /\ \E b \in Nat : \A i \in DOMAIN e : e[i].line <= b
      BY <2>1, <2>2, RowStream
    <2> HIDE DEF e
    <2> QED BY <2>3, <2>4, StreamGrows
  <1>4. UNCHANGED accesses
        \/ (Is("MM") /\ M!EmitRow /\ accesses' = accesses \o
                emit_row(row_addr, Current.row_bytes, compute_read, FALSE))
        \/ (Is("SR") /\ S!EmitRow /\ accesses' = accesses \o
                emit_row(Current.data + out'[Len(out')] * Current.nb1,
                         Current.row_bytes, compute_store, TRUE))
    BY DEF Next, NextOp, expand_mm, expand_sr, Reject, Rebase, Stopped, vars
  <1> QED BY <1>1, <1>2, <1>3, <1>4

(* The lowest and the highest line of a stream that is not empty.             *)
LEMMA Extremes ==
    ASSUME StreamInv, NEW j \in DOMAIN accesses
    PROVE  /\ lo \in Lines /\ Max(Lines) \in Lines
           /\ \A i \in DOMAIN accesses :
                accesses[i].line \in Nat /\ lo <= accesses[i].line
                /\ accesses[i].line <= Max(Lines)
  <1>1. \A i \in DOMAIN accesses : accesses[i].line \in Nat
    BY AccessLine DEF StreamInv
  <1>2. Lines \in SUBSET Nat /\ accesses[j].line \in Lines
    BY <1>1 DEF Lines
  <1>3. PICK b \in Nat : \A n \in Lines : n <= b
    BY DEF StreamInv, Lines
  <1>4. \E n \in Lines : \A m \in Lines : n <= m
    BY <1>2, LeastNat
  <1>5. lo \in Lines /\ \A m \in Lines : lo <= m
    BY <1>4 DEF lo, Min
  <1>6. \E n \in Lines : \A m \in Lines : m <= n
    BY <1>2, <1>3, GreatestNat
  <1>7. \E n \in Lines : \A m \in Lines : n >= m
    BY <1>2, <1>6
  <1>8. Max(Lines) \in Lines /\ \A m \in Lines : Max(Lines) >= m
    BY <1>7 DEF Max
  <1>9. \A i \in DOMAIN accesses : accesses[i].line \in Lines
    BY DEF Lines
  <1> QED BY <1>1, <1>2, <1>5, <1>8, <1>9

(* A region holds the whole span, in whole pages.                             *)
LEMMA RegionHolds ==
    ASSUME StreamInv, NEW j \in DOMAIN accesses
    PROVE  /\ lo \in Nat /\ IsMultiple(lo, CACHE_LINE)
           /\ region \in Nat /\ IsMultiple(region, CACHE_LINE)
           /\ \A i \in DOMAIN accesses :
                accesses[i].line - lo + CACHE_LINE <= region
  <1>1. CACHE_LINE \in Nat \ {0} /\ Page \in Nat \ {0} /\ Page % CACHE_LINE = 0
    BY PassAssumption
  <1>2. /\ lo \in Nat /\ Max(Lines) \in Nat /\ lo <= Max(Lines)
        /\ \A i \in DOMAIN accesses :
             accesses[i].line \in Nat /\ accesses[i].line <= Max(Lines)
    BY Extremes DEF Lines
  <1>3. IsMultiple(lo, CACHE_LINE)
    <2>1. PICK i \in DOMAIN accesses : lo = accesses[i].line
      BY Extremes DEF Lines
    <2>2. lo % CACHE_LINE = 0
      BY <2>1, AccessLine DEF StreamInv
    <2> QED BY <1>1, <1>2, <2>2, ModMultiple
  <1>4. span \in Nat \ {0} /\ span = Max(Lines) + CACHE_LINE - lo
    BY <1>1, <1>2 DEF span
  <1> DEFINE pages == M!ceil_div(span, Page)
  <1>5. pages \in Nat /\ span <= Page * pages /\ region = pages * Page
    BY <1>1, <1>4, CeilDiv DEF region
  <1> HIDE DEF pages
  <1>6. region \in Nat /\ span <= region
    BY <1>1, <1>5, TimesOrder, Times
  <1>7. IsMultiple(region, CACHE_LINE)
    <2>1. IsMultiple(Page, CACHE_LINE)
      BY <1>1, ModMultiple
    <2>2. \A c \in Int : IsMultiple(c * Page, CACHE_LINE)
      BY <1>1, <2>1, Multiples
    <2>3. IsMultiple(pages * Page, CACHE_LINE)
      BY <1>5, <2>2
    <2> QED BY <1>5, <2>3
  <1> QED BY <1>1, <1>2, <1>3, <1>4, <1>6, <1>7

LEMMA Rebased ==
    ASSUME StreamInv, NEW core \in 0 .. cores - 1, NEW i \in DOMAIN accesses
    PROVE  LET line == accesses[i].line + delta(core) IN
           /\ line >= base + core * region
           /\ line + CACHE_LINE <= base + (core + 1) * region
           /\ line % CACHE_LINE = 0
  <1> DEFINE line == accesses[i].line
             at0 == core * region
  <1>1. CACHE_LINE \in Nat \ {0} /\ base \in Nat /\ base % CACHE_LINE = 0 /\ core \in Nat
    BY PassAssumption
  <1>2. /\ lo \in Nat /\ IsMultiple(lo, CACHE_LINE)
        /\ region \in Nat /\ IsMultiple(region, CACHE_LINE)
        /\ line - lo + CACHE_LINE <= region
    BY RegionHolds
  <1>3. line \in Nat /\ lo <= line /\ line % CACHE_LINE = 0
    BY Extremes, AccessLine DEF StreamInv
  <1>4. delta(core) = base + at0 - lo
    BY DEF delta
  <1>5. at0 \in Nat /\ (core + 1) * region = at0 + region /\ IsMultiple(at0, CACHE_LINE)
    <2>1. core * region \in Nat /\ (core + 1) * region = core * region + region
      BY <1>1, <1>2, TimesOrder, Times
    <2>2. IsMultiple(core * region, CACHE_LINE)
      BY <1>1, <1>2, Multiples
    <2> QED BY <2>1, <2>2
  <1> HIDE DEF line, at0
  <1>6. /\ line + delta(core) \in Nat
        /\ line + delta(core) = (base + at0) + (line - lo)
        /\ line + delta(core) >= base + at0
        /\ line + delta(core) + CACHE_LINE <= base + (core + 1) * region
    BY <1>1, <1>2, <1>3, <1>4, <1>5
  <1>7. IsMultiple((base + at0) + (line - lo), CACHE_LINE)
    <2>1. IsMultiple(base, CACHE_LINE) /\ IsMultiple(line, CACHE_LINE)
      BY <1>1, <1>3, ModMultiple
    <2>2. IsMultiple(base + at0, CACHE_LINE) /\ IsMultiple(line - lo, CACHE_LINE)
      BY <1>1, <1>2, <1>5, <2>1, Multiples
    <2> QED BY <1>1, <2>2, Multiples
  <1>8. (line + delta(core)) % CACHE_LINE = 0
    BY <1>1, <1>6, <1>7, ModMultiple
  <1> QED BY <1>6, <1>8 DEF line, at0

LEMMA NextCopies == StreamInv /\ CopiesApart /\ [Next]_vars => CopiesApart'
  <1> SUFFICES ASSUME StreamInv, CopiesApart, [Next]_vars, pc' = "done"
               PROVE  CopiesApart'
    BY DEF CopiesApart
  <1>1. CASE Rebase
    <2>1. /\ accesses' = accesses
          /\ traces' = [core \in 0 .. cores - 1 |-> [i \in DOMAIN accesses |->
                          [accesses[i] EXCEPT !.line = @ + delta(core)]]]
      BY <1>1 DEF Rebase
    <2>2. region' = region
      BY <2>1 DEF region, span, lo, Lines
    <2>3. ASSUME NEW core \in DOMAIN traces', NEW i \in DOMAIN traces'[core]
          PROVE  /\ traces'[core][i].line >= base + core * region
                 /\ traces'[core][i].line + CACHE_LINE <= base + (core + 1) * region
                 /\ traces'[core][i].line % CACHE_LINE = 0
      <3>1. core \in 0 .. cores - 1 /\ i \in DOMAIN accesses
        BY <2>1
      <3>2. traces'[core][i] = [accesses[i] EXCEPT !.line = @ + delta(core)]
        BY <2>1, <3>1
      <3>3. traces'[core][i].line = accesses[i].line + delta(core)
        <4>1. accesses[i] = [compute |-> accesses[i].compute, line |-> accesses[i].line,
                             write |-> accesses[i].write]
          BY <3>1, AccessLine DEF StreamInv
        <4> QED BY <3>2, <4>1
      <3> QED BY <3>1, <3>3, Rebased
    <2> QED BY <2>2, <2>3 DEF CopiesApart
  <1>2. CASE UNCHANGED vars
    <2>1. pc = "done" /\ traces' = traces /\ region' = region
      BY <1>2 DEF vars, region, span, lo, Lines
    <2> QED BY <2>1 DEF CopiesApart
  <1>3. Rebase \/ UNCHANGED vars
    BY DEF Next, NextOp, expand_mm, expand_sr, Reject, Stopped, Is
  <1> QED BY <1>1, <1>2, <1>3

(* The copies of the stream are whole lines of regions that are apart,        *)
(* whatever the span, the base and the number of cores.                       *)
THEOREM CopiesApartCorrect == Spec => []CopiesApart
  <1>1. Init => SrInv /\ StreamInv /\ CopiesApart
    BY DEF Init, S!Idle, SrInv, StreamInv, CopiesApart
  <1> QED BY <1>1, InitPass, NextPass, NextRows, NextStream, NextCopies, PTL DEF Spec

-------------------------------------------------------------------------------
(* Which lines a row is, and how often each is in the stream.                 *)
LEMMA LineIs ==
    ASSUME NEW a \in Nat
    PROVE  /\ LineOf(a) = (a \div CACHE_LINE) * CACHE_LINE
           /\ a \div CACHE_LINE \in Nat
  <1> DEFINE q == a \div CACHE_LINE
             r == a % CACHE_LINE
             qc == q * CACHE_LINE
  <1>1. q \in Nat /\ r \in 0 .. CACHE_LINE - 1 /\ a = qc + r /\ LineOf(a) = a - r
    BY PassAssumption, DivMod DEF LineOf
  <1>2. qc \in Int
    <2> HIDE DEF q
    <2> QED BY <1>1, PassAssumption, Z3
  <1>3. r \in Int
    BY <1>1, PassAssumption
  <1>4. LineOf(a) = qc
    <2> HIDE DEF q, r, qc
    <2> QED BY <1>1, <1>2, <1>3
  <1> QED BY <1>1, <1>4

LEMMA DivMonotone ==
    ASSUME NEW a \in Nat, NEW b \in Nat, a <= b, NEW m \in Nat \ {0}
    PROVE  a \div m <= b \div m
  <1> DEFINE p == a \div m
             q == b \div m
  <1>1. p \in Nat /\ q \in Nat
    BY DivMod
  <1>2. p * m <= a /\ b < q * m + m
    <2> HIDE DEF p, q
    <2>1. p = a \div m /\ q = b \div m
      BY DEF p, q
    <2> QED BY <1>1, <2>1, DivIs
  <1> HIDE DEF p, q
  <1>3. ASSUME q < p PROVE FALSE
    <2>1. (q + 1) * m <= p * m /\ (q + 1) * m = q * m + m /\ p * m \in Nat /\ q * m \in Nat
      BY <1>1, <1>3, TimesOrder, Times
    <2> QED BY <1>2, <2>1
  <1>4. p <= q
    BY <1>1, <1>3
  <1> QED BY <1>4 DEF p, q

(* The lines from the first byte's to the last byte's are those of all bytes. *)
LEMMA RowLinesAre ==
    ASSUME NEW addr \in Nat, NEW length \in Nat \ {0}
    PROVE  LET p == addr \div CACHE_LINE
               q == (addr + length - 1) \div CACHE_LINE IN
           /\ p \in Nat /\ q \in Nat /\ p <= q
           /\ RowLines(addr, length) = {u * CACHE_LINE : u \in p .. q}
  <1> DEFINE p == addr \div CACHE_LINE
             q == (addr + length - 1) \div CACHE_LINE
             c == CACHE_LINE
  <1>1. c \in Nat \ {0} /\ addr + length - 1 \in Nat /\ addr <= addr + length - 1
    BY PassAssumption
  <1>2. p \in Nat /\ q \in Nat /\ p <= q
    BY <1>1, DivMod, DivMonotone
  <1>3. p * c <= addr /\ addr < p * c + c /\ q * c <= addr + length - 1
    <2> HIDE DEF p, q, c
    <2>1. p = addr \div c /\ q = (addr + length - 1) \div c
      BY DEF p, q, c
    <2> QED BY <1>1, <1>2, <2>1, DivIs
  <1>4. ASSUME NEW b \in 0 .. length - 1
        PROVE  \E u \in p .. q : LineOf(addr + b) = u * c
    <2> DEFINE u == (addr + b) \div c
    <2>1. addr + b \in Nat /\ addr <= addr + b /\ addr + b <= addr + length - 1
      OBVIOUS
    <2>2. u \in Nat /\ LineOf(addr + b) = u * c
      BY <2>1, LineIs
    <2>3. p <= u /\ u <= q
      BY <1>1, <2>1, DivMonotone
    <2> HIDE DEF u, p, q
    <2>4. u \in p .. q
      BY <1>2, <2>2, <2>3
    <2> QED BY <2>2, <2>4
  <1>5. ASSUME NEW u \in p .. q
        PROVE  \E b \in 0 .. length - 1 : LineOf(addr + b) = u * c
    <2> HIDE DEF p, q, c
    <2>1. u \in Nat /\ u * c \in Nat /\ u * c <= q * c /\ q * c \in Nat /\ p * c \in Nat
      BY <1>1, <1>2, TimesOrder
    <2>2. CASE u = p
      <3>1. LineOf(addr + 0) = p * c /\ 0 \in 0 .. length - 1
        BY LineIs DEF p, c
      <3> QED BY <2>2, <3>1
    <2>3. CASE p < u
      <3>1. (p + 1) * c <= u * c /\ (p + 1) * c = p * c + c
        BY <1>1, <1>2, <2>1, <2>3, TimesOrder, Times
      <3> DEFINE b == u * c - addr
      <3>2. b \in 0 .. length - 1 /\ addr + b = u * c
        BY <1>1, <1>3, <2>1, <3>1
      <3>3. (addr + b) \div c = u
        <4>1. u * c <= u * c /\ u * c < u * c + c
          BY <1>1, <2>1
        <4>2. (u * c) \div c = u
          BY <1>1, <2>1, <4>1, DivIs
        <4> QED BY <3>2, <4>2
      <3>4. LineOf(addr + b) = u * c
        BY <2>1, <3>2, <3>3, LineIs DEF c
      <3> QED BY <3>2, <3>4
    <2> QED BY <1>2, <2>1, <2>2, <2>3
  <1>6. RowLines(addr, length) = {u * c : u \in p .. q}
    <2> HIDE DEF p, q, c
    <2> QED BY <1>4, <1>5, Zenon DEF RowLines
  <1> QED BY <1>2, <1>6

(* What a row appends is each of its lines once.                              *)
LEMMA RowOnce ==
    ASSUME NEW addr \in Nat, NEW length \in Nat \ {0}, NEW compute, NEW write
    PROVE  LET e == emit_row(addr, length, compute, write) IN
           /\ Len(e) \in Nat /\ DOMAIN e = 1 .. Len(e)
           /\ \A n \in 1 .. Len(e) : e[n].compute = compute
           /\ RowLines(addr, length) = {e[n].line : n \in 1 .. Len(e)}
           /\ \A n \in 1 .. Len(e), m \in 1 .. Len(e) : e[n].line = e[m].line => n = m
  <1> DEFINE p == addr \div CACHE_LINE
             q == (addr + length - 1) \div CACHE_LINE
             c == CACHE_LINE
             e == emit_row(addr, length, compute, write)
             k == q - p + 1
  <1>1. c \in Nat \ {0} /\ addr + length - 1 \in Nat
    BY PassAssumption
  <1>2. /\ p \in Nat /\ q \in Nat /\ p <= q
        /\ RowLines(addr, length) = {u * c : u \in p .. q}
    BY RowLinesAre
  <1>3. LineOf(addr) = p * c /\ LineOf(addr + length - 1) = q * c
    BY <1>1, LineIs
  <1>4. (q * c - p * c) \div c = q - p
    <2> HIDE DEF p, q, c
    <2>1. (q - p) * c = q * c - p * c /\ (q - p) * c \in Nat /\ q - p \in Nat
      BY <1>1, <1>2, Times, TimesOrder
    <2> DEFINE d == q - p
               dc == d * c
    <2>2. d \in Nat /\ dc \in Nat
      BY <2>1
    <2>3. dc \div c = d
      <3> HIDE DEF d
      <3>1. d * c <= dc /\ dc < d * c + c
        BY <1>1, <2>2
      <3> HIDE DEF dc
      <3> QED BY <1>1, <2>2, <3>1, DivIs
    <2> QED BY <2>1, <2>3
  <1>5. e = [n \in 1 .. k |->
               [compute |-> compute, line |-> p * c + (n - 1) * c, write |-> write]]
    <2> HIDE DEF p, q, k
    <2>1. (LineOf(addr + length - 1) - LineOf(addr)) \div c + 1 = k
      BY <1>3, <1>4 DEF k
    <2> QED BY <1>3, <2>1 DEF emit_row
  <1> HIDE DEF e, p, q
  <1>6. k \in Nat \ {0}
    BY <1>2
  <1>7. Len(e) = k /\ DOMAIN e = 1 .. k
    <2> HIDE DEF k
    <2> QED BY <1>5, <1>6
  <1>8. ASSUME NEW n \in 1 .. k
        PROVE  e[n].compute = compute /\ e[n].line = (p + n - 1) * c /\ p + n - 1 \in p .. q
    <2>1. p * c + (n - 1) * c = (p + n - 1) * c
      <3>1. n - 1 \in Int /\ p + (n - 1) = p + n - 1
        BY <1>2
      <3> QED BY <1>1, <1>2, <3>1, Times
    <2>2. p + n - 1 \in p .. q
      BY <1>2
    <2> HIDE DEF k, c
    <2> QED BY <1>5, <2>1, <2>2
  <1>9. RowLines(addr, length) = {e[n].line : n \in 1 .. k}
    <2>1. ASSUME NEW u \in p .. q
          PROVE  \E n \in 1 .. k : u = p + n - 1
      <3>1. u - p + 1 \in 1 .. k /\ u = p + (u - p + 1) - 1
        BY <1>2
      <3> QED BY <3>1
    <2> HIDE DEF k, c
    <2>2. \A u \in p .. q : \E n \in 1 .. k : u * c = e[n].line
      BY <1>8, <2>1
    <2>3. \A n \in 1 .. k : \E u \in p .. q : e[n].line = u * c
      BY <1>8
    <2>4. {u * c : u \in p .. q} = {e[n].line : n \in 1 .. k}
      BY <2>2, <2>3, Zenon
    <2> QED BY <1>2, <2>4
  <1>10. ASSUME NEW n \in 1 .. k, NEW m \in 1 .. k, e[n].line = e[m].line
         PROVE  n = m
    <2>1. (p + n - 1) * c = (p + m - 1) * c
      BY <1>8, <1>10
    <2>2. p + n - 1 \in Int /\ p + m - 1 \in Int
      BY <1>2
    <2>3. p + n - 1 = p + m - 1
      <3> DEFINE x == p + n - 1
                 y == p + m - 1
      <3>1. x \in Int /\ y \in Int /\ x * c = y * c
        BY <2>1, <2>2
      <3> HIDE DEF x, y
      <3>2. x = y
        BY <1>1, <3>1, Z3
      <3> QED BY <3>2 DEF x, y
    <2> QED BY <1>2, <2>3
  <1> HIDE DEF k
  <1>11. /\ Len(e) \in Nat /\ DOMAIN e = 1 .. Len(e)
         /\ \A n \in 1 .. Len(e) : e[n].compute = compute
         /\ RowLines(addr, length) = {e[n].line : n \in 1 .. Len(e)}
         /\ \A n \in 1 .. Len(e), m \in 1 .. Len(e) : e[n].line = e[m].line => n = m
    BY <1>6, <1>7, <1>8, <1>9, <1>10
  <1> QED BY <1>11 DEF e
-------------------------------------------------------------------------------
(* The parts of the stream, one for each operation begun.                     *)
PartsFollow ==
    /\ starts \in Seq(Nat) /\ Len(starts) = at
    /\ \A n \in 1 .. at : starts[n] <= Len(accesses)
    /\ \A n \in 1 .. at - 1 : starts[n] <= starts[n + 1]

(* A step appends to the stream, if anything.                                 *)
Appends(e) ==
    /\ e \in Seq(Access) /\ accesses' = accesses \o e
    /\ Len(accesses') = Len(accesses) + Len(e)
    /\ \A i \in 1 .. Len(accesses) : accesses'[i] = accesses[i]
    /\ \A i \in 1 .. Len(e) : accesses'[Len(accesses) + i] = e[i]

LEMMA Concatenated ==
    ASSUME StreamInv, NEW e \in Seq(Access), accesses' = accesses \o e
    PROVE  Appends(e)
  <1>1. accesses \in Seq(Access)
    BY DEF StreamInv
  <1> DEFINE n == Len(accesses)
  <1>2. /\ n \in Nat /\ Len(e) \in Nat /\ Len(accesses') = n + Len(e)
        /\ \A i \in 1 .. n + Len(e) :
             accesses'[i] = IF i <= n THEN accesses[i] ELSE e[i - n]
    BY <1>1
  <1> HIDE DEF n
  <1>3. ASSUME NEW i \in 1 .. n PROVE accesses'[i] = accesses[i]
    BY <1>2
  <1>4. ASSUME NEW i \in 1 .. Len(e) PROVE accesses'[n + i] = e[i]
    <2>1. n + i \in 1 .. n + Len(e) /\ ~(n + i <= n) /\ n + i - n = i
      BY <1>2
    <2> QED BY <1>2, <2>1
  <1> QED BY <1>2, <1>3, <1>4 DEF Appends, n

LEMMA NoneAppended ==
    ASSUME StreamInv, accesses' = accesses
    PROVE  Appends(<<>>)
  <1>1. <<>> \in Seq(Access) /\ accesses \in Seq(Access)
    BY DEF StreamInv
  <1>2. accesses' = accesses \o <<>>
    BY <1>1
  <1> QED BY <1>1, <1>2, Concatenated

(* What a step appends: nothing, or one row of the walk that is current.      *)
ReadRow == emit_row(row_addr, Current.row_bytes, compute_read, FALSE)
StoredRow == emit_row(Current.data + out'[Len(out')] * Current.nb1, Current.row_bytes,
                      compute_store, TRUE)

LEMMA StoredAddress ==
    ASSUME PassInv, SrInv, Is("SR"), S!EmitRow
    PROVE  /\ Current.data + out'[Len(out')] * Current.nb1 \in Nat
           /\ Current.row_bytes \in Nat \ {0}
  <1>1. Current.data \in Nat /\ Current.row_bytes \in Nat \ {0} /\ Current.nb1 \in Nat
    <2>1. ops \in Runs /\ at \in DOMAIN ops /\ ops[at].tag = "SR"
      <3>1. at \in 1 .. Len(ops) /\ ops \in Runs
        BY RunOps DEF PassInv, Is
      <3> QED BY <3>1, PassAssumption DEF Is, Current
    <2> QED BY <2>1, PassAssumption DEF Current
  <1> DEFINE v == out'[Len(out')]
             nb == Current.nb1
  <1>2. v \in Nat /\ nb \in Nat
    BY <1>1, RowsNotNegative
  <1> HIDE DEF v, nb
  <1>3. v * nb \in Nat
    BY <1>2, TimesOrder
  <1> QED BY <1>1, <1>3 DEF v, nb

LEMMA ReadsRow ==
    ASSUME PassInv, StreamInv, expand_mm, M!EmitRow
    PROVE  Appends(ReadRow)
  <1>1. Is("MM") /\ walking /\ accesses' = accesses \o ReadRow
    BY DEF expand_mm, M!EmitRow, M!EnterChunk, ReadRow
  <1>2. ReadRow \in Seq(Access)
    BY <1>1, RowAddress, RowStream DEF ReadRow
  <1> QED BY <1>1, <1>2, Concatenated

LEMMA StoresRow ==
    ASSUME PassInv, SrInv, StreamInv, expand_sr, S!EmitRow
    PROVE  Appends(StoredRow)
  <1>1. Is("SR") /\ accesses' = accesses \o StoredRow
    BY DEF expand_sr, S!EmitRow, S!Check, S!Finish, StoredRow
  <1>2. StoredRow \in Seq(Access)
    <2> DEFINE addr == Current.data + out'[Len(out')] * Current.nb1
    <2>1. addr \in Nat /\ Current.row_bytes \in Nat \ {0}
      BY <1>1, StoredAddress
    <2> HIDE DEF addr
    <2>2. emit_row(addr, Current.row_bytes, compute_store, TRUE) \in Seq(Access)
      BY <2>1, RowStream
    <2> QED BY <2>2 DEF addr, StoredRow
  <1> QED BY <1>1, <1>2, Concatenated

LEMMA StepAppends ==
    ASSUME PassInv, SrInv, StreamInv, [Next]_vars
    PROVE  \E e : Appends(e)
  <1>1. CASE accesses' = accesses
    BY <1>1, NoneAppended
  <1>2. CASE expand_mm /\ M!EmitRow
    BY <1>2, ReadsRow
  <1>3. CASE expand_sr /\ S!EmitRow
    BY <1>3, StoresRow
  <1> QED BY <1>1, <1>2, <1>3
       DEF Next, NextOp, expand_mm, expand_sr, Reject, Rebase, Stopped, vars

LEMMA NextParts ==
    PassInv /\ SrInv /\ StreamInv /\ PartsFollow /\ [Next]_vars => PartsFollow'
  <1> SUFFICES ASSUME PassInv, SrInv, StreamInv, PartsFollow, [Next]_vars
               PROVE  PartsFollow'
    OBVIOUS
  <1>1. PICK e : Appends(e)
    BY StepAppends
  <1> DEFINE n == Len(accesses)
             m == Len(accesses')
  <1>2. n \in Nat /\ m \in Nat /\ n <= m
    BY <1>1 DEF Appends, StreamInv
  <1>3. /\ at \in Nat /\ starts \in Seq(Nat) /\ Len(starts) = at
        /\ \A i \in 1 .. at : starts[i] \in Nat /\ starts[i] <= n
        /\ \A i \in 1 .. at - 1 : starts[i] <= starts[i + 1]
    BY DEF PartsFollow
  <1> HIDE DEF n, m
  <1>4. CASE NextOp
    <2>1. at' = at + 1 /\ starts' = Append(starts, n)
      BY <1>4 DEF NextOp, n
    <2>2. /\ starts' \in Seq(Nat) /\ Len(starts') = at + 1
          /\ \A i \in 1 .. at : starts'[i] = starts[i]
          /\ starts'[at + 1] = n
      BY <1>2, <1>3, <2>1
    <2>3. \A i \in 1 .. at + 1 : starts'[i] <= m
      BY <1>2, <1>3, <2>2
    <2>4. \A i \in 1 .. at : starts'[i] <= starts'[i + 1]
      BY <1>2, <1>3, <2>2
    <2> QED BY <1>3, <2>1, <2>2, <2>3, <2>4 DEF PartsFollow, m
  <1>5. CASE UNCHANGED <<starts, at>>
    <2>1. \A i \in 1 .. at : starts[i] <= m
      BY <1>2, <1>3
    <2> QED BY <1>3, <1>5, <2>1 DEF PartsFollow, m
  <1> QED BY <1>4, <1>5 DEF Next, expand_mm, expand_sr, Reject, Rebase, Stopped, vars

(* An operation's part stays what it is once the next one has begun.          *)
LEMMA PartStays ==
    ASSUME StreamInv, PartsFollow, NEW e, Appends(e), NEW n \in 1 .. at,
           \/ starts' = starts /\ (n < at \/ accesses' = accesses)
           \/ starts' = Append(starts, Len(accesses))
    PROVE  Part(n)' = Part(n) /\ PartOf(n)' = PartOf(n)
  <1> DEFINE len == Len(accesses)
  <1>1. /\ at \in Nat /\ len \in Nat /\ starts \in Seq(Nat) /\ Len(starts) = at
        /\ \A i \in 1 .. at : starts[i] \in Nat /\ starts[i] <= len
        /\ \A i \in 1 .. len : accesses'[i] = accesses[i]
    BY DEF PartsFollow, StreamInv, Appends
  <1> DEFINE end == IF n = at THEN len ELSE starts[n + 1]
  <1>2. Part(n) = starts[n] + 1 .. end
    BY <1>1 DEF Part
  <1>3. end \in Nat /\ end <= len /\ starts[n] \in Nat
    <2>1. n # at => n + 1 \in 1 .. at
      BY <1>1
    <2> HIDE DEF len
    <2> QED BY <1>1, <2>1
  <1>4. Part(n)' = starts[n] + 1 .. end
    <2>1. Part(n)' = starts'[n] + 1 .. IF n = Len(starts') THEN Len(accesses') ELSE starts'[n + 1]
      BY DEF Part
    <2>2. CASE starts' = starts /\ (n < at \/ accesses' = accesses)
      BY <1>1, <2>1, <2>2
    <2>3. CASE starts' = Append(starts, len)
      <3>1. /\ Len(starts') = at + 1 /\ starts'[at + 1] = len
            /\ \A i \in 1 .. at : starts'[i] = starts[i]
        <4>1. /\ at \in Nat /\ starts \in Seq(Nat) /\ len \in Nat
              /\ starts' = Append(starts, len) /\ Len(starts) = at
          BY <1>1, <2>3
        <4> HIDE DEF len
        <4> QED BY <4>1
      <3>2. n # at + 1 /\ (n # at => n + 1 \in 1 .. at)
        BY <1>1
      <3> HIDE DEF len
      <3> QED BY <2>1, <3>1, <3>2
    <2> QED BY <2>2, <2>3
  <1>5. \A i \in Part(n) : accesses'[i] = accesses[i]
    <2> HIDE DEF end, len
    <2>1. \A i \in starts[n] + 1 .. end : i \in 1 .. len
      BY <1>1, <1>3
    <2> QED BY <1>1, <1>2, <2>1
  <1>6. Part(n)' = Part(n)
    BY <1>2, <1>4
  <1>7. PartOf(n)' = {accesses'[i].line : i \in Part(n)'}
    BY DEF PartOf
  <1>8. {accesses'[i].line : i \in Part(n)} = {accesses[i].line : i \in Part(n)}
    BY <1>5, Zenon
  <1> QED BY <1>6, <1>7, <1>8 DEF PartOf

(* The current operation's part, after a step that emits a row.               *)
LEMMA CurrentPart ==
    ASSUME StreamInv, PartsFollow, at > 0, NEW e, Appends(e),
           starts' = starts, at' = at
    PROVE  LET len == Len(accesses) IN
           /\ Part(at) = starts[at] + 1 .. len /\ Part(at) \subseteq 1 .. len
           /\ len \in Nat /\ starts[at] \in Nat /\ starts[at] <= len /\ Len(e) \in Nat
           /\ Part(at)' = starts[at] + 1 .. len + Len(e)
           /\ \A i \in Part(at) : i \in Part(at)' /\ accesses'[i] = accesses[i]
           /\ \A i \in 1 .. Len(e) : len + i \in Part(at)' /\ accesses'[len + i] = e[i]
           /\ \A i \in Part(at)' : i \in Part(at) \/ \E j \in 1 .. Len(e) : i = len + j
  <1> DEFINE len == Len(accesses)
             k == Len(e)
             s == starts[at]
  <1>1. /\ at \in 1 .. at /\ len \in Nat /\ k \in Nat /\ Len(starts) = at
        /\ s \in Nat /\ s <= len /\ Len(accesses') = len + k
        /\ \A i \in 1 .. len : accesses'[i] = accesses[i]
        /\ \A i \in 1 .. k : accesses'[len + i] = e[i]
    BY DEF PartsFollow, StreamInv, Appends
  <1>2. Part(at) = s + 1 .. len
    BY <1>1 DEF Part
  <1>3. Part(at)' = s + 1 .. len + k
    BY <1>1 DEF Part
  <1> HIDE DEF len, k, s
  <1>4. \A i \in s + 1 .. len : i \in 1 .. len /\ i \in s + 1 .. len + k
    BY <1>1
  <1>5. \A i \in 1 .. k : len + i \in s + 1 .. len + k
    BY <1>1
  <1>6. ASSUME NEW i \in s + 1 .. len + k, i \notin s + 1 .. len
        PROVE  \E j \in 1 .. k : i = len + j
    <2>1. i - len \in 1 .. k /\ i = len + (i - len)
      BY <1>1, <1>6
    <2> QED BY <2>1
  <1>7. \A i \in Part(at) : i \in Part(at)' /\ accesses'[i] = accesses[i]
    BY <1>1, <1>2, <1>3, <1>4
  <1>8. \A i \in 1 .. k : len + i \in Part(at)' /\ accesses'[len + i] = e[i]
    BY <1>1, <1>3, <1>5
  <1>9. \A i \in Part(at)' : i \in Part(at) \/ \E j \in 1 .. k : i = len + j
    BY <1>2, <1>3, <1>6
  <1>10. Part(at) \subseteq 1 .. len
    BY <1>2, <1>4
  <1> QED BY <1>1, <1>2, <1>3, <1>7, <1>8, <1>9, <1>10 DEF len, k, s
-------------------------------------------------------------------------------
(* A mul_mat: the rows read so far that have a byte in a line, and how often  *)
(* the line is in the operation's part.                                       *)
AddrOf(r) == Current.data + M!i02(r[1]) * Current.nb02 + r[2] * Current.nb01
Touching(line) ==
    {r \in M!Rows : visits[r] > 0 /\ line \in RowLines(AddrOf(r), Current.row_bytes)}
On(line) == {i \in Part(at) : accesses[i].line = line}

ReadInv ==
    Is("MM") =>
        /\ \A i \in Part(at) : accesses[i].compute = compute_read
        /\ \A line \in Nat : Cardinality(On(line)) = Cardinality(Touching(line))

LEMMA RowsFinite ==
    ASSUME M!IsMulMat(op)
    PROVE  IsFiniteSet(M!Rows) /\ \A line : IsFiniteSet(Touching(line))
  <1>1. M!Rows = (0 .. M!nr1 - 1) \X (0 .. M!nr0 - 1) /\ M!nr1 \in Nat /\ M!nr0 \in Nat
    BY WalkShape
  <1>2. IsFiniteSet(0 .. M!nr1 - 1) /\ IsFiniteSet(0 .. M!nr0 - 1)
    BY <1>1, FS_Interval
  <1>3. IsFiniteSet(M!Rows)
    BY <1>1, <1>2, FS_Product
  <1>4. ASSUME NEW line PROVE IsFiniteSet(Touching(line))
    <2>1. Touching(line) \in SUBSET M!Rows
      BY DEF Touching
    <2> QED BY <1>3, <2>1, FS_Subset
  <1> QED BY <1>3, <1>4

LEMMA PartFinite ==
    ASSUME StreamInv, PartsFollow, at > 0, NEW line
    PROVE  IsFiniteSet(On(line))
  <1>1. IsFiniteSet(Part(at))
    <2> DEFINE s == starts[at]
    <2>1. Part(at) = s + 1 .. Len(accesses) /\ s \in Nat /\ Len(accesses) \in Nat
      BY DEF PartsFollow, Part, StreamInv
    <2> HIDE DEF s
    <2>2. s + 1 \in Int /\ Len(accesses) \in Int
      BY <2>1
    <2>3. IsFiniteSet(s + 1 .. Len(accesses))
      BY <2>2, FS_Interval
    <2> QED BY <2>1, <2>3
  <1>2. On(line) \in SUBSET Part(at)
    BY DEF On
  <1> QED BY <1>1, <1>2, FS_Subset

LEMMA SameReads ==
    ASSUME UNCHANGED <<op, visits, accesses, starts, at>>, Current' = Current
    PROVE  /\ Part(at)' = Part(at)
           /\ \A line : Touching(line)' = Touching(line) /\ On(line)' = On(line)
  <1>1. Part(at)' = Part(at)
    BY DEF Part
  <1>2. M!Rows' = M!Rows /\ M!r2' = M!r2
    BY DEF M!Rows, M!RowsOf, M!r2
  <1>3. \A h1 : M!i02(h1)' = M!i02(h1)
    BY <1>2 DEF M!i02
  <1>4. \A r : AddrOf(r)' = AddrOf(r)
    BY <1>3 DEF AddrOf
  <1>5. \A line : Touching(line)' = Touching(line)
    BY <1>2, <1>4 DEF Touching, RowLines, LineOf
  <1>6. \A line : On(line)' = On(line)
    BY <1>1 DEF On
  <1> QED BY <1>1, <1>5, <1>6

(* A row read is one more of the rows that touch its lines.                   *)
LEMMA TouchesMore ==
    ASSUME PassInv, Is("MM"), M!EmitRow, Current' = Current, NEW line
    PROVE  /\ row_addr = AddrOf(<<ir1, ir0>>)
           /\ <<ir1, ir0>> \notin Touching(line)
           /\ Touching(line)' = IF line \in RowLines(row_addr, Current.row_bytes)
                                THEN Touching(line) \cup {<<ir1, ir0>>}
                                ELSE Touching(line)
  <1> DEFINE here == <<ir1, ir0>>
  <1>1. WalkInv /\ walking /\ op' = op /\ M!IsMulMat(op)
        /\ visits = [r \in M!Rows |-> IF Walked(r[1], r[2]) THEN 1 ELSE 0]
        /\ visits' = [visits EXCEPT ![here] = @ + 1]
    BY DEF PassInv, WalkInv, M!EmitRow
  <1>2. here \in M!Rows /\ visits[here] = 0
    <2>1. ir1 \in 0 .. M!nr1 - 1 /\ ir0 \in 0 .. M!nr0 - 1 /\ ~Walked(ir1, ir0)
      BY <1>1, AtRow
    <2>2. M!Rows = (0 .. M!nr1 - 1) \X (0 .. M!nr0 - 1)
      BY <1>1, WalkShape
    <2> QED BY <1>1, <2>1, <2>2
  <1>3. M!Rows' = M!Rows /\ \A r : AddrOf(r)' = AddrOf(r)
    <2>1. M!Rows' = M!Rows /\ M!r2' = M!r2
      BY <1>1 DEF M!Rows, M!RowsOf, M!r2
    <2>2. \A h1 : M!i02(h1)' = M!i02(h1)
      BY <1>1, <2>1 DEF M!i02
    <2> QED BY <2>1, <2>2 DEF AddrOf
  <1>4. row_addr = AddrOf(here)
    BY DEF row_addr, AddrOf
  <1>5. \A r \in M!Rows : visits[r] \in {0, 1}
    BY <1>1
  <1>6. \A r \in M!Rows : visits'[r] > 0 <=> visits[r] > 0 \/ r = here
    <2>1. \A r \in M!Rows : visits'[r] = IF r = here THEN 1 ELSE visits[r]
      BY <1>1, <1>2
    <2> QED BY <1>5, <2>1
  <1>7. Touching(line)' = {r \in M!Rows : visits'[r] > 0
                              /\ line \in RowLines(AddrOf(r), Current.row_bytes)}
    BY <1>3 DEF Touching, RowLines, LineOf
  <1>8. ~(visits[here] > 0)
    BY <1>2
  <1> HIDE DEF here
  <1>9. here \notin Touching(line)
    BY <1>8 DEF Touching
  <1>10. Touching(line)' = IF line \in RowLines(row_addr, Current.row_bytes)
                           THEN Touching(line) \cup {here} ELSE Touching(line)
    BY <1>2, <1>4, <1>6, <1>7, Zenon DEF Touching
  <1> QED BY <1>4, <1>9, <1>10 DEF here

(* And its lines are once more in the stream.                                 *)
LEMMA ReadsMore ==
    ASSUME StreamInv, PartsFollow, at > 0, starts' = starts, at' = at,
           NEW addr \in Nat, NEW length \in Nat \ {0}, NEW compute, NEW write,
           Appends(emit_row(addr, length, compute, write)), NEW line
    PROVE  /\ line \in RowLines(addr, length) =>
                \E i : i \notin On(line) /\ On(line)' = On(line) \cup {i}
           /\ line \notin RowLines(addr, length) => On(line)' = On(line)
  <1> DEFINE e == emit_row(addr, length, compute, write)
             len == Len(accesses)
             k == Len(e)
  <1>1. /\ k \in Nat
        /\ RowLines(addr, length) = {e[n].line : n \in 1 .. k}
        /\ \A n \in 1 .. k, m \in 1 .. k : e[n].line = e[m].line => n = m
    BY RowOnce
  <1>2. /\ Part(at) \subseteq 1 .. len /\ len \in Nat
        /\ \A i \in Part(at) : i \in Part(at)' /\ accesses'[i] = accesses[i]
        /\ \A i \in 1 .. k : len + i \in Part(at)' /\ accesses'[len + i] = e[i]
        /\ \A i \in Part(at)' : i \in Part(at) \/ \E j \in 1 .. k : i = len + j
    <2> HIDE DEF e
    <2>1. Appends(e)
      BY DEF e
    <2> QED BY <2>1, CurrentPart
  <1>3. On(line)' = {i \in Part(at)' : accesses'[i].line = line}
    BY DEF On
  <1> HIDE DEF e, k, len
  <1>4. \A j \in 1 .. k : len + j \notin Part(at)
    <2>1. \A j \in 1 .. k : len + j \notin 1 .. len
      BY <1>1, <1>2
    <2> QED BY <1>2, <2>1
  <1>5. CASE line \in RowLines(addr, length)
    <2>1. PICK n \in 1 .. k : e[n].line = line
      BY <1>1, <1>5
    <2>2. len + n \notin On(line)
      BY <1>4 DEF On
    <2>3. ASSUME NEW i \in On(line)' PROVE i \in On(line) \cup {len + n}
      <3>1. CASE i \in Part(at)
        BY <1>2, <1>3, <2>3, <3>1 DEF On
      <3>2. CASE \E j \in 1 .. k : i = len + j
        <4>1. PICK j \in 1 .. k : i = len + j
          BY <3>2
        <4>2. e[j].line = line
          BY <1>2, <1>3, <2>3, <4>1
        <4> QED BY <1>1, <2>1, <4>1, <4>2
      <3> QED BY <1>2, <1>3, <2>3, <3>1, <3>2
    <2>4. On(line) \subseteq On(line)'
      BY <1>2, <1>3 DEF On
    <2>5. len + n \in On(line)'
      BY <1>2, <1>3, <2>1
    <2>6. On(line)' = On(line) \cup {len + n}
      BY <2>3, <2>4, <2>5
    <2> QED BY <1>5, <2>2, <2>6
  <1>6. CASE line \notin RowLines(addr, length)
    <2>1. \A j \in 1 .. k : e[j].line # line
      BY <1>1, <1>6
    <2>2. ASSUME NEW i \in On(line)' PROVE i \in On(line)
      <3>1. i \in Part(at)
        BY <1>2, <1>3, <2>1, <2>2
      <3> QED BY <1>2, <1>3, <2>2, <3>1 DEF On
    <2>3. On(line) \subseteq On(line)'
      BY <1>2, <1>3 DEF On
    <2> QED BY <1>6, <2>2, <2>3
  <1> QED BY <1>5, <1>6

LEMMA OneMore ==
    ASSUME NEW A, NEW B, NEW x, NEW y, IsFiniteSet(A), IsFiniteSet(B),
           Cardinality(A) = Cardinality(B), x \notin A, y \notin B
    PROVE  Cardinality(A \cup {x}) = Cardinality(B \cup {y})
  <1>1. Cardinality(A \cup {x}) = Cardinality(A) + 1
    BY FS_AddElement
  <1>2. Cardinality(B \cup {y}) = Cardinality(B) + 1
    BY FS_AddElement
  <1> QED BY <1>1, <1>2

LEMMA RowCounted ==
    ASSUME PassInv, StreamInv, PartsFollow, ReadInv, expand_mm, M!EmitRow
    PROVE  ReadInv'
  <1> DEFINE e == emit_row(row_addr, Current.row_bytes, compute_read, FALSE)
  <1>1. /\ Is("MM") /\ walking /\ ops' = ops /\ at' = at /\ starts' = starts
        /\ Current' = Current /\ at > 0 /\ at \in Nat
    BY DEF expand_mm, M!EmitRow, Current, PassInv, Is
  <1>2. row_addr \in Nat /\ Current.row_bytes \in Nat \ {0} /\ M!IsMulMat(op)
    BY <1>1, RowAddress DEF PassInv, WalkInv
  <1>3. Appends(e)
    BY ReadsRow DEF ReadRow
  <1>4. ASSUME NEW i \in Part(at)' PROVE accesses'[i].compute = compute_read
    <2> DEFINE k == Len(e)
               len == Len(accesses)
    <2>1. \A n \in 1 .. k : e[n].compute = compute_read
      BY <1>2, RowOnce
    <2>2. /\ \A j \in Part(at) : accesses'[j] = accesses[j]
          /\ \A j \in 1 .. k : accesses'[len + j] = e[j]
          /\ i \in Part(at) \/ \E j \in 1 .. k : i = len + j
      <3> HIDE DEF e
      <3> QED BY <1>1, <1>3, <1>4, CurrentPart DEF k, len
    <2> HIDE DEF e, k, len
    <2>3. CASE i \in Part(at)
      BY <1>1, <2>2, <2>3 DEF ReadInv
    <2>4. CASE \E j \in 1 .. k : i = len + j
      BY <2>1, <2>2, <2>4
    <2> QED BY <2>2, <2>3, <2>4
  <1>5. ASSUME NEW line \in Nat
        PROVE  Cardinality(On(line)') = Cardinality(Touching(line)')
    <2>1. /\ IsFiniteSet(On(line)) /\ IsFiniteSet(Touching(line))
          /\ Cardinality(On(line)) = Cardinality(Touching(line))
      BY <1>1, <1>2, PartFinite, RowsFinite DEF ReadInv
    <2>2. <<ir1, ir0>> \notin Touching(line)
      BY <1>1, TouchesMore
    <2>3. CASE line \in RowLines(row_addr, Current.row_bytes)
      <3>1. Touching(line)' = Touching(line) \cup {<<ir1, ir0>>}
        BY <1>1, <2>3, TouchesMore
      <3>2. PICK i : i \notin On(line) /\ On(line)' = On(line) \cup {i}
        BY <1>1, <1>2, <1>3, <2>3, ReadsMore
      <3> QED BY <2>1, <2>2, <3>1, <3>2, OneMore
    <2>4. CASE line \notin RowLines(row_addr, Current.row_bytes)
      <3>1. Touching(line)' = Touching(line)
        BY <1>1, <2>4, TouchesMore
      <3>2. On(line)' = On(line)
        BY <1>1, <1>2, <1>3, <2>4, ReadsMore
      <3> QED BY <2>1, <3>1, <3>2
    <2> QED BY <2>3, <2>4
  <1>6. \A line \in Nat : Cardinality(On(line))' = Cardinality(Touching(line))'
    BY <1>5
  <1> QED BY <1>1, <1>4, <1>6 DEF ReadInv

(* The next operation begins with an empty part.                              *)
LEMMA NoPartYet ==
    ASSUME PassInv, StreamInv, PartsFollow, NextOp
    PROVE  Part(at)' = {}
  <1> DEFINE len == Len(accesses)
  <1>1. /\ at' = at + 1 /\ starts' = Append(starts, len)
        /\ accesses' = accesses /\ at \in Nat
    BY DEF NextOp, PassInv
  <1>2. len \in Nat /\ starts \in Seq(Nat) /\ Len(starts) = at
    BY DEF StreamInv, PartsFollow
  <1>3. Len(starts') = at + 1 /\ starts'[at + 1] = len
    <2> HIDE DEF len
    <2> QED BY <1>1, <1>2
  <1>4. Part(at)' = len + 1 .. len
    BY <1>1, <1>3 DEF Part
  <1> HIDE DEF len
  <1> QED BY <1>2, <1>4

LEMMA WalkBegins ==
    ASSUME PassInv, StreamInv, PartsFollow, NextOp
    PROVE  ReadInv'
  <1>1. at' = at + 1 /\ Current' = ops[at + 1]
    BY DEF NextOp, Current
  <1>2. Part(at)' = {}
    BY NoPartYet
  <1> SUFFICES ASSUME Is("MM")'
               PROVE  \A line \in Nat : Cardinality(On(line)') = Cardinality(Touching(line)')
    BY <1>2 DEF ReadInv
  <1>3. M!Start(ops[at + 1])
    BY <1>1 DEF NextOp, Is
  <1>4. M!Rows' = M!RowsOf(ops[at + 1]) /\ visits' = [r \in M!Rows' |-> 0]
    BY <1>3 DEF M!Start, M!Rows
  <1>5. ASSUME NEW line PROVE On(line)' = {} /\ Touching(line)' = {}
    <2>1. On(line)' = {}
      BY <1>2 DEF On
    <2>2. Touching(line)' \subseteq {r \in M!Rows' : visits'[r] > 0}
      BY DEF Touching
    <2>3. \A r \in M!Rows' : ~(visits'[r] > 0)
      BY <1>4
    <2> QED BY <2>1, <2>2, <2>3
  <1> QED BY <1>5

LEMMA NextReads ==
    PassInv /\ StreamInv /\ PartsFollow /\ ReadInv /\ [Next]_vars => ReadInv'
  <1> SUFFICES ASSUME PassInv, StreamInv, PartsFollow, ReadInv, [Next]_vars
               PROVE  ReadInv'
    OBVIOUS
  <1>1. CASE NextOp
    BY <1>1, WalkBegins
  <1>2. CASE expand_mm /\ M!EmitRow
    BY <1>2, RowCounted
  <1>3. CASE /\ UNCHANGED <<op, visits, accesses, starts, at, ops>>
             /\ Is("MM")' => Is("MM")
    <2>1. Current' = Current
      BY <1>3 DEF Current
    <2>2. /\ Part(at)' = Part(at)
          /\ \A line : Touching(line)' = Touching(line) /\ On(line)' = On(line)
      BY <1>3, <2>1, SameReads
    <2> QED BY <1>3, <2>2 DEF ReadInv
  <1>4. CASE expand_mm /\ M!EnterChunk /\ UNCHANGED accesses
    <2>1. UNCHANGED <<op, visits, accesses, starts, at, ops>> /\ Is("MM")
      BY <1>4 DEF expand_mm, M!EnterChunk
    <2> QED BY <1>3, <2>1
  <1>5. CASE expand_sr \/ Reject \/ Rebase \/ Stopped \/ UNCHANGED vars
    <2>1. Is("MM")' => Is("MM") /\ UNCHANGED <<op, visits, accesses, starts, at, ops>>
      BY <1>5 DEF expand_sr, Reject, Rebase, Stopped, vars, mm, Is, Current
    <2> QED BY <1>3, <2>1 DEF ReadInv
  <1> QED BY <1>1, <1>2, <1>4, <1>5 DEF Next, expand_mm
-------------------------------------------------------------------------------
(* A mul_mat that is finished.  The heads of a KV head's group, for all       *)
(* tokens, are as many successive ir1's.                                      *)
Group == M!r2 * op.n_tok

LEMMA DivDiv ==
    ASSUME NEW a \in Nat, NEW m \in Nat \ {0}, NEW n \in Nat \ {0}
    PROVE  n * m \in Nat \ {0} /\ (a \div m) \div n = a \div (n * m)
  <1> DEFINE u == a \div m
             v == u \div n
             w == n * m
  <1>1. u \in Nat /\ w \in Nat \ {0}
    <2>1. n * m \in Nat \ {0}
      BY Z3
    <2> QED BY <2>1, DivMod
  <1>2. v \in Nat
    <2> HIDE DEF u
    <2> QED BY <1>1, DivMod
  <1>3. u * m <= a /\ a < u * m + m
    <2> HIDE DEF u
    <2>1. u = a \div m
      BY DEF u
    <2> QED BY <1>1, <2>1, DivIs
  <1>4. v * n <= u /\ u < v * n + n
    <2> HIDE DEF v, u
    <2>1. v = u \div n
      BY DEF v
    <2> QED BY <1>1, <1>2, <2>1, DivIs
  <1> HIDE DEF u, v, w
  <1>5. v * w <= a /\ a < v * w + w
    <2>1. v * w = (v * n) * m /\ w = n * m
      BY <1>2, Z3 DEF w
    <2> DEFINE vn == v * n
    <2>2. vn \in Nat
      BY <1>2, TimesOrder
    <2>3. vn <= u /\ u + 1 <= vn + n
      BY <1>1, <1>4, <2>2
    <2> HIDE DEF vn
    <2>4. vn * m <= u * m /\ vn * m \in Nat /\ u * m \in Nat
      BY <1>1, <2>2, <2>3, TimesOrder
    <2>5. (u + 1) * m <= (vn + n) * m
      BY <1>1, <2>2, <2>3, TimesOrder
    <2>6. (u + 1) * m = u * m + m /\ (vn + n) * m = vn * m + n * m
      BY <1>1, <2>2, Times
    <2>7. v * w = vn * m
      BY <2>1 DEF vn
    <2> QED BY <1>1, <1>3, <2>1, <2>4, <2>5, <2>6, <2>7
  <1>6. a \div w = v
    BY <1>1, <1>2, <1>5, DivIs
  <1> QED BY <1>1, <1>6 DEF v, u, w

LEMMA Groups ==
    ASSUME M!IsMulMat(op)
    PROVE  /\ Group \in Nat \ {0} /\ op.ne02 \in Nat \ {0}
           /\ M!nr1 = op.ne02 * Group
           /\ \A h1 \in 0 .. M!nr1 - 1 : M!i02(h1) = h1 \div Group
  <1> DEFINE q == op.n_q_heads
             t == op.n_tok
             n2 == op.ne02
             r == M!r2
  <1>1. q \in Nat \ {0} /\ t \in Nat \ {0} /\ n2 \in Nat \ {0} /\ q % n2 = 0
    BY DEF M!IsMulMat
  <1>2. r \in Nat \ {0} /\ q = r * n2
    <2>1. r \in Nat /\ q = r * n2 + (q % n2)
      <3> HIDE DEF q, n2
      <3>1. q \div n2 \in Nat /\ q = (q \div n2) * n2 + (q % n2)
        BY <1>1, DivMod
      <3> QED BY <3>1 DEF M!r2, q, n2
    <2> HIDE DEF r, q, n2
    <2>2. r * n2 \in Int
      BY <1>1, <2>1, Times
    <2>3. r = 0 => r * n2 = 0
      BY <1>1, Z3
    <2> QED BY <1>1, <2>1, <2>2, <2>3
  <1>3. Group = r * t /\ M!nr1 = t * q
    BY DEF Group, M!nr1
  <1> HIDE DEF r
  <1>4. \A h1 : M!i02(h1) = ((h1 % (q * t)) \div t) \div r
    BY DEF M!i02, r
  <1> HIDE DEF q, t, n2
  <1>5. Group \in Nat \ {0} /\ M!nr1 = n2 * Group /\ q * t = M!nr1 /\ M!nr1 \in Nat \ {0}
    BY <1>1, <1>2, <1>3, Z3
  <1>6. ASSUME NEW h1 \in 0 .. M!nr1 - 1 PROVE M!i02(h1) = h1 \div Group
    <2> DEFINE n == M!nr1
    <2>1. h1 \in Nat /\ n \in Nat \ {0} /\ h1 < n
      BY <1>5
    <2> HIDE DEF n
    <2>2. h1 % n = h1
      <3>1. 0 * n <= h1 /\ h1 < 0 * n + n
        BY <2>1, Z3
      <3>2. h1 \div n = 0
        BY <2>1, <3>1, DivIs
      <3> DEFINE m == h1 % n
      <3>3. h1 = (h1 \div n) * n + m /\ m \in Int
        BY <2>1, DivMod
      <3> HIDE DEF m
      <3>4. 0 * n = 0
        BY <2>1, Z3
      <3>5. m = h1
        BY <2>1, <3>2, <3>3, <3>4
      <3> QED BY <3>5 DEF m
    <2>3. M!i02(h1) = (h1 \div t) \div r
      BY <1>4, <1>5, <2>2 DEF n
    <2>4. (h1 \div t) \div r = h1 \div (r * t)
      <3>1. h1 \in Nat /\ t \in Nat \ {0} /\ r \in Nat \ {0}
        BY <1>1, <1>2, <2>1
      <3> QED BY <3>1, DivDiv, Zenon
    <2> QED BY <1>3, <2>3, <2>4
  <1> QED BY <1>1, <1>5, <1>6 DEF n2

LEMMA Matched ==
    ASSUME NEW A, NEW B, IsFiniteSet(A), NEW f \in [A -> B],
           \A x \in A, y \in A : f[x] = f[y] => x = y,
           \A b \in B : \E x \in A : f[x] = b
    PROVE  IsFiniteSet(B) /\ Cardinality(B) = Cardinality(A)
  <1>1. f \in Bijection(A, B)
    BY DEF Bijection, Injection, Surjection, IsInjective
  <1>2. ExistsBijection(A, B)
    BY <1>1 DEF ExistsBijection
  <1> QED BY <1>2, FS_Bijection

(* The rows that touch a line are those of its view that do, for every head   *)
(* of the group.                                                              *)
LEMMA AllTouching ==
    ASSUME M!IsMulMat(op), op = Current, NEW line
    PROVE  LET T == {r \in M!Rows : line \in RowLines(AddrOf(r), Current.row_bytes)} IN
           /\ IsFiniteSet(RowsOn(Current, line))
           /\ Cardinality(T) = Group * Cardinality(RowsOn(Current, line))
  <1> DEFINE T == {r \in M!Rows : line \in RowLines(AddrOf(r), Current.row_bytes)}
             V == RowsOn(Current, line)
             g == Group
             n2 == op.ne02
             n1 == op.ne01
             f == [x \in (0 .. g - 1) \X V |-> <<x[2][1] * g + x[1], x[2][2]>>]
  <1>1. /\ g \in Nat \ {0} /\ n2 \in Nat \ {0} /\ M!nr1 = n2 * g
        /\ \A h1 \in 0 .. M!nr1 - 1 : M!i02(h1) = h1 \div g
    BY Groups
  <1>2. n1 \in Nat \ {0} /\ M!nr0 = n1 /\ M!Rows = (0 .. M!nr1 - 1) \X (0 .. n1 - 1)
    BY WalkShape DEF M!nr0
  <1>3. ViewRows(Current) = (0 .. n2 - 1) \X (0 .. n1 - 1)
    BY DEF ViewRows
  <1> HIDE DEF g, n2, n1
  <1>4. IsFiniteSet(V)
    <2>1. IsFiniteSet(0 .. n2 - 1) /\ IsFiniteSet(0 .. n1 - 1)
      BY <1>1, <1>2, FS_Interval
    <2>2. IsFiniteSet(ViewRows(Current))
      BY <1>3, <2>1, FS_Product
    <2>3. V \in SUBSET ViewRows(Current)
      BY DEF RowsOn
    <2> QED BY <2>2, <2>3, FS_Subset
  \* a head of the group of kv
  <1>5. ASSUME NEW kv \in 0 .. n2 - 1, NEW j \in 0 .. g - 1
        PROVE  kv * g + j \in 0 .. M!nr1 - 1 /\ (kv * g + j) \div g = kv
    <2>1. kv \in Nat /\ kv + 1 <= n2 /\ j \in Nat /\ j < g /\ kv + 1 \in Nat
      BY <1>1
    <2>2. (kv + 1) * g <= n2 * g /\ (kv + 1) * g = kv * g + g /\ kv * g \in Nat
      <3>1. (kv + 1) * g <= n2 * g /\ kv * g \in Nat
        BY <1>1, <2>1, TimesOrder
      <3>2. (kv + 1) * g = kv * g + 1 * g /\ 1 * g = g
        BY <1>1, <2>1, Z3
      <3> QED BY <3>1, <3>2
    <2> DEFINE kg == kv * g
               a == kg + j
               ng == n2 * g
    <2>3. kg \in Nat /\ kg + g <= ng /\ ng \in Nat
      BY <1>1, <2>2, TimesOrder
    <2>4. a \in Nat /\ kv * g <= a /\ a < kv * g + g
      BY <1>1, <2>1, <2>3
    <2>5. a \div g = kv
      <3> HIDE DEF a
      <3> QED BY <1>1, <2>1, <2>4, DivIs
    <2>6. a \in 0 .. ng - 1
      <3> HIDE DEF kg, ng
      <3> QED BY <1>1, <2>1, <2>3
    <2> QED BY <1>1, <2>5, <2>6
  <1>6. ASSUME NEW h1 \in 0 .. M!nr1 - 1
        PROVE  /\ h1 \div g \in 0 .. n2 - 1 /\ h1 % g \in 0 .. g - 1
               /\ h1 = (h1 \div g) * g + (h1 % g)
    <2> DEFINE ng == n2 * g
    <2>1. ng \in Nat /\ h1 \in 0 .. ng - 1
      BY <1>1, TimesOrder
    <2>2. h1 \in Nat /\ h1 < n2 * g
      <3> HIDE DEF ng
      <3>1. h1 \in Nat /\ h1 < ng
        BY <2>1
      <3> QED BY <3>1 DEF ng
    <2> HIDE DEF ng
    <2>3. h1 \div g \in Nat /\ h1 \div g < n2
      BY <1>1, <2>2, QuotientBelow
    <2>4. h1 % g \in 0 .. g - 1 /\ h1 = (h1 \div g) * g + (h1 % g)
      BY <1>1, <2>2, DivMod
    <2>5. h1 \div g \in 0 .. n2 - 1
      <3> DEFINE d == h1 \div g
      <3>1. d \in Nat /\ d < n2
        BY <2>3
      <3> HIDE DEF d
      <3>2. d \in 0 .. n2 - 1
        BY <1>1, <3>1
      <3> QED BY <3>2 DEF d
    <2> QED BY <2>4, <2>5
  <1>7. ASSUME NEW h1 \in 0 .. M!nr1 - 1, NEW row \in 0 .. n1 - 1
        PROVE  AddrOf(<<h1, row>>) = RowAt(Current, <<h1 \div g, row>>)
    BY <1>1 DEF AddrOf, RowAt
  <1> HIDE DEF V
  <1>8. ASSUME NEW v \in V
        PROVE  /\ v[1] \in 0 .. n2 - 1 /\ v[2] \in 0 .. n1 - 1 /\ v = <<v[1], v[2]>>
               /\ line \in RowLines(RowAt(Current, v), Current.row_bytes)
    BY <1>3 DEF V, RowsOn
  <1>9. ASSUME NEW j \in 0 .. g - 1, NEW v \in V
        PROVE  <<v[1] * g + j, v[2]>> \in T
    <2> DEFINE h1 == v[1] * g + j
    <2>1. h1 \in 0 .. M!nr1 - 1 /\ h1 \div g = v[1]
      BY <1>5, <1>8
    <2> HIDE DEF h1
    <2>2. AddrOf(<<h1, v[2]>>) = RowAt(Current, v)
      BY <1>7, <1>8, <2>1
    <2>3. <<h1, v[2]>> \in M!Rows
      BY <1>2, <1>8, <2>1
    <2> QED BY <1>8, <2>2, <2>3 DEF h1
  <1>10. ASSUME NEW r \in T
         PROVE  \E j \in 0 .. g - 1, v \in V : <<v[1] * g + j, v[2]>> = r
    <2>1. PICK h1 \in 0 .. M!nr1 - 1, row \in 0 .. n1 - 1 : r = <<h1, row>>
      BY <1>2
    <2> DEFINE kv == h1 \div g
               j == h1 % g
    <2>2. kv \in 0 .. n2 - 1 /\ j \in 0 .. g - 1 /\ h1 = kv * g + j
      BY <1>6
    <2>3. AddrOf(<<h1, row>>) = RowAt(Current, <<kv, row>>)
      BY <1>7
    <2> HIDE DEF kv, j
    <2>4. <<kv, row>> \in V
      BY <1>3, <2>1, <2>2, <2>3 DEF V, RowsOn
    <2> DEFINE v == <<kv, row>>
    <2>5. v \in V /\ v[1] = kv /\ v[2] = row
      BY <2>4
    <2> HIDE DEF v
    <2>6. <<v[1] * g + j, v[2]>> = r
      BY <2>1, <2>2, <2>5
    <2> QED BY <2>2, <2>5, <2>6
  <1>11. ASSUME NEW j \in 0 .. g - 1, NEW v \in V, NEW i \in 0 .. g - 1, NEW w \in V,
                <<v[1] * g + j, v[2]>> = <<w[1] * g + i, w[2]>>
         PROVE  j = i /\ v = w
    <2> DEFINE a == v[1] * g + j
               b == w[1] * g + i
    <2>1. a = b /\ v[2] = w[2]
      BY <1>11
    <2>2. a \div g = v[1] /\ b \div g = w[1]
      BY <1>5, <1>8
    <2>3. v[1] = w[1]
      BY <2>1, <2>2
    <2>4. v = w
      BY <1>8, <2>1, <2>3
    <2> DEFINE c == v[1] * g
    <2>5. c \in Int /\ c + j = c + i
      <3>1. v[1] \in Nat
        BY <1>1, <1>8
      <3>2. v[1] * g \in Int
        BY <1>1, <3>1, TimesOrder
      <3> QED BY <2>1, <2>3, <3>2
    <2>6. j = i
      <3> HIDE DEF c
      <3>1. j \in Int /\ i \in Int
        BY <1>1
      <3> QED BY <2>5, <3>1
    <2> QED BY <2>4, <2>6
  <1> HIDE DEF T
  <1>12. f \in [(0 .. g - 1) \X V -> T]
    BY <1>9
  <1>13. IsFiniteSet((0 .. g - 1) \X V) /\ Cardinality((0 .. g - 1) \X V) = g * Cardinality(V)
    <2>1. g - 1 \in Int /\ 0 \in Int /\ ~(0 > g - 1) /\ g - 1 - 0 + 1 = g
      BY <1>1
    <2>2. IsFiniteSet(0 .. g - 1) /\ Cardinality(0 .. g - 1) = g
      BY <2>1, FS_Interval
    <2> QED BY <1>4, <2>2, FS_Product
  <1>14. \A x \in (0 .. g - 1) \X V : f[x] = <<x[2][1] * g + x[1], x[2][2]>>
    OBVIOUS
  <1> HIDE DEF f
  <1>15. ASSUME NEW x \in (0 .. g - 1) \X V, NEW y \in (0 .. g - 1) \X V, f[x] = f[y]
         PROVE  x = y
    <2>1. PICK j \in 0 .. g - 1, v \in V : x = <<j, v>>
      OBVIOUS
    <2>2. PICK i \in 0 .. g - 1, w \in V : y = <<i, w>>
      OBVIOUS
    <2>3. f[x] = <<v[1] * g + j, v[2]>> /\ f[y] = <<w[1] * g + i, w[2]>>
      BY <1>14, <2>1, <2>2
    <2>4. <<v[1] * g + j, v[2]>> = <<w[1] * g + i, w[2]>>
      BY <1>15, <2>3
    <2>5. j = i /\ v = w
      BY <1>11, <2>4
    <2> QED BY <2>1, <2>2, <2>5
  <1>16. ASSUME NEW r \in T PROVE \E x \in (0 .. g - 1) \X V : f[x] = r
    <2>1. PICK j \in 0 .. g - 1, v \in V : <<v[1] * g + j, v[2]>> = r
      BY <1>10
    <2> DEFINE x == <<j, v>>
    <2>2. x \in (0 .. g - 1) \X V /\ f[x] = r
      BY <1>14, <2>1
    <2> QED BY <2>2
  <1>17. Cardinality(T) = g * Cardinality(V)
    <2> DEFINE A == (0 .. g - 1) \X V
    <2>1. IsFiniteSet(A) /\ Cardinality(A) = g * Cardinality(V) /\ f \in [A -> T]
      BY <1>12, <1>13
    <2>2. /\ \A x \in A, y \in A : f[x] = f[y] => x = y
          /\ \A r \in T : \E x \in A : f[x] = r
      BY <1>15, <1>16
    <2> HIDE DEF A
    <2>3. Cardinality(T) = Cardinality(A)
      BY <2>1, <2>2, Matched
    <2> QED BY <2>1, <2>3
  <1> QED BY <1>4, <1>17 DEF T, g, V
LEMMA ViewRowAddress ==
    ASSUME PassInv, Is("MM"), NEW row \in ViewRows(Current)
    PROVE  RowAt(Current, row) \in Nat /\ Current.row_bytes \in Nat \ {0}
  <1>1. /\ Current.data \in Nat /\ Current.row_bytes \in Nat \ {0}
        /\ Current.nb01 \in Nat /\ Current.nb02 \in Nat /\ M!IsMulMat(Current)
    <2>1. ops \in Runs /\ at \in DOMAIN ops /\ ops[at].tag = "MM"
      <3>1. at \in 1 .. Len(ops) /\ ops \in Runs
        BY RunOps DEF PassInv, Is
      <3> QED BY <3>1, PassAssumption DEF Is, Current
    <2> QED BY <2>1, PassAssumption DEF Current
  <1>2. row[1] \in Nat /\ row[2] \in Nat
    BY <1>1 DEF ViewRows, M!IsMulMat
  <1>3. row[1] * Current.nb02 \in Nat /\ row[2] * Current.nb01 \in Nat
    <2> DEFINE i == row[1]
               j == row[2]
               x == Current.nb02
               y == Current.nb01
    <2>1. i \in Nat /\ j \in Nat /\ x \in Nat /\ y \in Nat
      BY <1>1, <1>2
    <2> HIDE DEF i, j, x, y
    <2>2. i * x \in Nat /\ j * y \in Nat
      BY <2>1, TimesOrder
    <2> QED BY <2>2 DEF i, j, x, y
  <1> QED BY <1>1, <1>3 DEF RowAt

(* When the walk has ended, its part is the view, every line as often as its  *)
(* rows and the group say.                                                    *)
LEMMA ReadAll ==
    ASSUME PassInv, StreamInv, PartsFollow, ReadInv, Is("MM"), M!Finished
    PROVE  /\ \A line \in Nat : Cardinality(On(line)) = Group * Cardinality(RowsOn(Current, line))
           /\ PartOf(at) = ViewLines(Current)
           /\ ViewLines(Current) \subseteq Nat
  <1>1. op = Current /\ M!IsMulMat(op) /\ at > 0 /\ at \in Nat
    BY DEF PassInv, WalkInv, Is
  <1>2. \A r \in M!Rows : visits[r] = 1
    BY WalkCovers DEF EachRowOnce, M!EachRowOnce
  <1>3. ASSUME NEW line
        PROVE  /\ IsFiniteSet(RowsOn(Current, line))
               /\ Cardinality(Touching(line)) = Group * Cardinality(RowsOn(Current, line))
    <2>1. Touching(line) = {r \in M!Rows : line \in RowLines(AddrOf(r), Current.row_bytes)}
      BY <1>2 DEF Touching
    <2> QED BY <1>1, <2>1, AllTouching
  <1>4. \A line \in Nat : Cardinality(On(line)) = Group * Cardinality(RowsOn(Current, line))
    BY <1>3 DEF ReadInv
  <1>5. Group \in Nat \ {0}
    BY <1>1, Groups
  <1>6. ASSUME NEW line \in Nat
        PROVE  On(line) = {} <=> RowsOn(Current, line) = {}
    <2> DEFINE c == Cardinality(RowsOn(Current, line))
               d == Cardinality(On(line))
    <2>1. d = Group * c
      BY <1>4
    <2>2. c \in Nat /\ (c = 0 <=> RowsOn(Current, line) = {})
      BY <1>3, FS_EmptySet, FS_CardinalityType
    <2>3. d = 0 <=> On(line) = {}
      BY <1>1, PartFinite, FS_EmptySet
    <2> HIDE DEF c, d
    <2>4. Group * c = 0 <=> c = 0
      BY <1>5, <2>2, Z3
    <2> QED BY <2>1, <2>2, <2>3, <2>4
  <1>7. ViewLines(Current) \subseteq Nat
    <2>1. ASSUME NEW row \in ViewRows(Current), NEW b \in 0 .. Current.row_bytes - 1
          PROVE  LineOf(RowAt(Current, row) + b) \in Nat
      <3>1. RowAt(Current, row) + b \in Nat
        BY ViewRowAddress
      <3> QED BY <3>1, LineStart
    <2> QED BY <2>1 DEF ViewLines, RowLines
  <1>8. PartOf(at) \subseteq Nat
    <2>1. ASSUME NEW i \in Part(at) PROVE accesses[i].line \in Nat
      <3>1. i \in DOMAIN accesses
        <4>1. accesses \in Seq(Access) /\ Part(at) \subseteq 1 .. Len(accesses)
          BY <1>1 DEF StreamInv, PartsFollow, Part
        <4> QED BY <4>1
      <3> QED BY <3>1, AccessLine DEF StreamInv
    <2> QED BY <2>1 DEF PartOf
  <1>9. \A line : line \in PartOf(at) <=> On(line) # {}
    BY DEF PartOf, On
  <1>10. \A line : line \in ViewLines(Current) <=> RowsOn(Current, line) # {}
    BY DEF ViewLines, RowsOn
  <1>11. PartOf(at) = ViewLines(Current)
    <2>1. \A line \in Nat : line \in PartOf(at) <=> line \in ViewLines(Current)
      BY <1>6, <1>9, <1>10
    <2> QED BY <1>7, <1>8, <2>1
  <1> QED BY <1>4, <1>7, <1>11

LEMMA InitParts == Init => PartsFollow /\ ReadInv
  BY RunOps DEF Init, PartsFollow, ReadInv, Is

(* A mul_mat reads its view and no more, and each line as often as rows and   *)
(* heads ask for it, whatever the layout: rows padded, overlapping, not       *)
(* aligned, and groups of any size.                                           *)
THEOREM ComputeMatchesCorrect == Spec => []ComputeMatches
  <1>1. PassInv /\ StreamInv /\ PartsFollow /\ ReadInv => ComputeMatches
    <2> SUFFICES ASSUME PassInv, StreamInv, PartsFollow, ReadInv, Is("MM"), M!Finished
                 PROVE  /\ PartOf(at) = ViewLines(Current)
                        /\ \A i \in Part(at) : accesses[i].compute = compute_read
                        /\ \A line \in ViewLines(Current) :
                             Cardinality({i \in Part(at) : accesses[i].line = line})
                               = (Current.n_q_heads \div Current.ne02) * Current.n_tok
                                   * Cardinality(RowsOn(Current, line))
      BY DEF ComputeMatches
    <2>1. /\ \A line \in Nat : Cardinality(On(line)) = Group * Cardinality(RowsOn(Current, line))
          /\ PartOf(at) = ViewLines(Current) /\ ViewLines(Current) \subseteq Nat
      BY ReadAll
    <2>2. \A i \in Part(at) : accesses[i].compute = compute_read
      BY DEF ReadInv
    <2>3. Group = (Current.n_q_heads \div Current.ne02) * Current.n_tok
      BY DEF Group, M!r2, PassInv, WalkInv
    <2>4. \A line \in ViewLines(Current) :
            Cardinality(On(line)) = Group * Cardinality(RowsOn(Current, line))
      BY <2>1
    <2> HIDE DEF Group
    <2> QED BY <2>1, <2>2, <2>3, <2>4, Zenon DEF On
  <1>2. Init => SrInv /\ StreamInv
    BY DEF Init, S!Idle, SrInv, StreamInv
  <1> QED BY <1>1, <1>2, InitPass, InitParts, NextPass, NextRows, NextStream, NextParts,
             NextReads, PTL DEF Spec
-------------------------------------------------------------------------------
(* A set_rows: the lines of the rows emitted so far.                          *)
StoreAt(o, row) == RowLines(o.data + row * o.nb1, o.row_bytes)
StoredLines(o) == UNION {StoreAt(o, o.idxs[i]) : i \in DOMAIN o.idxs}

WrittenInv ==
    Is("SR") =>
        /\ rows = Current.idxs
        /\ PartOf(at) = UNION {StoreAt(Current, out[j]) : j \in DOMAIN out}

LEMMA PartGrows ==
    ASSUME StreamInv, PartsFollow, at > 0, starts' = starts, at' = at,
           NEW addr \in Nat, NEW length \in Nat \ {0}, NEW compute, NEW write,
           Appends(emit_row(addr, length, compute, write))
    PROVE  PartOf(at)' = PartOf(at) \cup RowLines(addr, length)
  <1>1. \A line : line \in PartOf(at) <=> On(line) # {}
    BY DEF PartOf, On
  <1>2. \A line : line \in PartOf(at)' <=> On(line)' # {}
    BY DEF PartOf, On
  <1>3. ASSUME NEW line
        PROVE  line \in PartOf(at)' <=> line \in PartOf(at) \cup RowLines(addr, length)
    <2>1. CASE line \in RowLines(addr, length)
      <3>1. \E i : On(line)' = On(line) \cup {i}
        BY <2>1, ReadsMore
      <3> QED BY <1>2, <2>1, <3>1
    <2>2. CASE line \notin RowLines(addr, length)
      <3>1. On(line)' = On(line)
        BY <2>2, ReadsMore
      <3> QED BY <1>1, <1>2, <2>2, <3>1
    <2> QED BY <2>1, <2>2
  <1> QED BY <1>3

LEMMA RowWritten ==
    ASSUME PassInv, SrInv, StreamInv, PartsFollow, WrittenInv, expand_sr, S!EmitRow
    PROVE  WrittenInv'
  <1> DEFINE k == Len(out)
             v == S!samples[1] + k * S!stride
             addr == Current.data + v * Current.nb1
             W == {StoreAt(Current, out[j]) : j \in 1 .. k}
  <1>1. /\ Is("SR") /\ ops' = ops /\ at' = at /\ starts' = starts /\ Current' = Current
        /\ at > 0 /\ rows' = rows /\ out' = Append(out, v)
    BY DEF expand_sr, S!EmitRow, Current, PassInv, Is
  <1>2. /\ k \in Nat /\ out = [i \in 1 .. k |-> out[i]]
    <2>1. /\ Len(out) \in 0 .. S!n_idx /\ S!n_idx \in Nat
          /\ out = [i \in 1 .. Len(out) |-> S!samples[1] + (i - 1) * S!stride]
      BY Samples DEF SrInv, S!EmitRow
    <2> QED BY <2>1
  <1> HIDE DEF v, k
  <1>3. /\ out' = [i \in 1 .. k + 1 |-> IF i <= k THEN out[i] ELSE v]
        /\ Len(out') = k + 1
    BY <1>1, <1>2, Appended
  <1>4. /\ DOMAIN out = 1 .. k /\ DOMAIN out' = 1 .. k + 1
        /\ \A j \in 1 .. k : j \in 1 .. k + 1 /\ out'[j] = out[j]
        /\ k + 1 \in 1 .. k + 1 /\ out'[k + 1] = v
        /\ \A j \in 1 .. k + 1 : j \in 1 .. k \/ j = k + 1
    BY <1>2, <1>3
  <1>5. out'[Len(out')] = v
    BY <1>3, <1>4
  <1>6. addr \in Nat /\ Current.row_bytes \in Nat \ {0}
    BY <1>1, <1>5, StoredAddress
  <1>7. Appends(emit_row(addr, Current.row_bytes, compute_store, TRUE))
    BY <1>5, StoresRow DEF StoredRow
  <1> HIDE DEF addr
  <1>8. PartOf(at)' = PartOf(at) \cup RowLines(addr, Current.row_bytes)
    BY <1>1, <1>6, <1>7, PartGrows
  <1>9. RowLines(addr, Current.row_bytes) = StoreAt(Current, v)
    BY DEF StoreAt, addr
  <1>10. PartOf(at) = UNION W
    BY <1>1, <1>4 DEF WrittenInv
  <1>11. {StoreAt(Current, out'[j]) : j \in 1 .. k + 1} = W \cup {StoreAt(Current, v)}
    <2>1. \A j \in 1 .. k + 1 : StoreAt(Current, out'[j]) \in W \cup {StoreAt(Current, v)}
      BY <1>4
    <2>2. \A j \in 1 .. k : StoreAt(Current, out[j]) \in
             {StoreAt(Current, out'[i]) : i \in 1 .. k + 1}
      BY <1>4
    <2>3. StoreAt(Current, v) \in {StoreAt(Current, out'[i]) : i \in 1 .. k + 1}
      BY <1>4
    <2> QED BY <2>1, <2>2, <2>3
  <1>12. PartOf(at)' = UNION {StoreAt(Current, out'[j]) : j \in DOMAIN out'}
    <2> HIDE DEF W
    <2>1. UNION (W \cup {StoreAt(Current, v)}) = (UNION W) \cup StoreAt(Current, v)
      OBVIOUS
    <2> QED BY <1>4, <1>8, <1>9, <1>10, <1>11, <2>1
  <1>13. \A o, row : StoreAt(o, row)' = StoreAt(o, row)
    BY DEF StoreAt, RowLines, LineOf
  <1> QED BY <1>1, <1>12 DEF WrittenInv, StoreAt, RowLines, LineOf

LEMMA NextWritten ==
    PassInv /\ SrInv /\ StreamInv /\ PartsFollow /\ WrittenInv /\ [Next]_vars => WrittenInv'
  <1> SUFFICES ASSUME PassInv, SrInv, StreamInv, PartsFollow, WrittenInv, [Next]_vars
               PROVE  WrittenInv'
    OBVIOUS
  <1>1. CASE NextOp
    <2> SUFFICES ASSUME Is("SR")' PROVE WrittenInv'
      BY DEF WrittenInv
    <2>1. at' = at + 1 /\ Current' = ops[at + 1] /\ ops[at + 1].tag = "SR"
      BY <1>1 DEF NextOp, Is, Current
    <2>2. S!Start(ops[at + 1].idxs)
      BY <1>1, <2>1 DEF NextOp
    <2>3. rows' = Current'.idxs /\ out' = <<>>
      BY <2>1, <2>2 DEF S!Start
    <2>4. Part(at)' = {}
      BY <1>1, NoPartYet
    <2> QED BY <2>3, <2>4 DEF WrittenInv, PartOf
  <1>2. CASE expand_sr /\ S!EmitRow
    BY <1>2, RowWritten
  <1>3. CASE /\ UNCHANGED <<rows, out, accesses, starts, at, ops>>
             /\ Is("SR")' => Is("SR")
    <2>1. Current' = Current /\ PartOf(at)' = PartOf(at)
      BY <1>3 DEF Current, PartOf, Part
    <2> QED BY <1>3, <2>1 DEF WrittenInv, StoreAt, RowLines, LineOf
  <1>4. CASE expand_sr /\ (S!Check \/ S!Finish) /\ UNCHANGED accesses
    <2>1. UNCHANGED <<rows, out, accesses, starts, at, ops>> /\ Is("SR")
      BY <1>4 DEF expand_sr, S!Check, S!Finish
    <2> QED BY <1>3, <2>1
  <1>5. CASE expand_mm
    <2>1. ~Is("SR")'
      BY <1>5 DEF expand_mm, Is, Current
    <2> QED BY <2>1 DEF WrittenInv
  <1>6. CASE Reject \/ Rebase \/ Stopped \/ UNCHANGED vars
    <2>1. Is("SR")' => Is("SR") /\ UNCHANGED <<rows, out, accesses, starts, at, ops>>
      BY <1>6 DEF Reject, Rebase, Stopped, vars, sr, Is, Current
    <2> QED BY <1>3, <2>1 DEF WrittenInv
  <1> QED BY <1>1, <1>2, <1>4, <1>5, <1>6 DEF Next, expand_sr

-------------------------------------------------------------------------------
(* The parts of the operations that are finished.                             *)
Complete(n) ==
    /\ ops[n].tag = "MM" => PartOf(n) = ViewLines(ops[n])
    /\ ops[n].tag = "SR" /\ Determined(ops[n].idxs) => PartOf(n) = StoredLines(ops[n])

PartsComplete ==
    /\ \A n \in 1 .. at - 1 : Complete(n)
    /\ pc = "done" => at = Len(ops) /\ \A n \in 1 .. at : Complete(n)

LEMMA StoresAll ==
    ASSUME PassInv, SrInv, WrittenInv, Is("SR"), status = "done", Determined(Current.idxs)
    PROVE  PartOf(at) = StoredLines(Current)
  <1>1. rows = Current.idxs /\ rows \in Seq(Nat) \ {<<>>} /\ S!n_idx = Len(rows)
    BY DEF WrittenInv, SrInv, S!n_idx
  <1>2. S!n_idx <= 5 \/ S!Arithmetic
    <2>1. ASSUME ~(S!n_idx <= 5) PROVE S!Arithmetic
      <3>1. S!n_idx \in Nat /\ S!Least(2, S!n_idx) = 2
        BY <1>1, <2>1, Samples DEF S!Least
      <3> QED BY <1>1, <2>1, <3>1 DEF Determined, S!Arithmetic
    <2> QED BY <2>1
  <1>3. out = rows
    BY <1>2, Rebuilt DEF ExpansionExact, S!ExpansionExact
  <1> QED BY <1>1, <1>3 DEF WrittenInv, StoredLines

LEMMA CompleteNow ==
    ASSUME PassInv, SrInv, StreamInv, PartsFollow, ReadInv, WrittenInv,
           pc = "expand", OpDone, at > 0
    PROVE  Complete(at)
  <1>1. CASE Is("MM") /\ M!Finished
    <2>1. PartOf(at) = ViewLines(Current)
      BY <1>1, ReadAll
    <2> QED BY <1>1, <2>1 DEF Complete, Current, Is
  <1>2. CASE Is("SR") /\ status = "done"
    <2>1. Determined(Current.idxs) => PartOf(at) = StoredLines(Current)
      BY <1>2, StoresAll
    <2> QED BY <1>2, <2>1 DEF Complete, Current, Is
  <1> QED BY <1>1, <1>2 DEF OpDone

LEMMA StaysComplete ==
    ASSUME StreamInv, PartsFollow, NEW e, Appends(e), ops' = ops, NEW n \in 1 .. at, Complete(n),
           \/ starts' = starts /\ (n < at \/ accesses' = accesses)
           \/ starts' = Append(starts, Len(accesses))
    PROVE  Complete(n)'
  <1>1. PartOf(n)' = PartOf(n)
    BY PartStays
  <1>2. ViewLines(ops[n])' = ViewLines(ops[n]) /\ StoredLines(ops[n])' = StoredLines(ops[n])
    BY DEF ViewLines, ViewRows, RowAt, StoredLines, StoreAt, RowLines, LineOf
  <1> QED BY <1>1, <1>2 DEF Complete, Determined

PassesInv == PassInv /\ SrInv /\ StreamInv /\ PartsFollow /\ ReadInv /\ WrittenInv

LEMMA NextComplete == PassesInv /\ PartsComplete /\ [Next]_vars => PartsComplete'
  <1> SUFFICES ASSUME PassesInv, PartsComplete, [Next]_vars PROVE PartsComplete'
    OBVIOUS
  <1> USE DEF PassesInv
  <1>1. PICK e : Appends(e)
    BY StepAppends
  <1>2. at \in Nat
    BY DEF PassInv
  <1>3. CASE NextOp
    <2>1. /\ ops' = ops /\ at' = at + 1 /\ pc = "expand" /\ pc' = pc /\ OpDone
          /\ starts' = Append(starts, Len(accesses))
      BY <1>3 DEF NextOp
    <2>2. ASSUME NEW n \in 1 .. at PROVE Complete(n)'
      <3>1. Complete(n)
        <4>1. CASE n = at
          BY <2>1, <4>1, CompleteNow
        <4>2. CASE n \in 1 .. at - 1
          BY <4>2 DEF PartsComplete
        <4> QED BY <1>2, <4>1, <4>2
      <3> QED BY <1>1, <2>1, <3>1, StaysComplete
    <2>3. at' - 1 = at
      BY <1>2, <2>1
    <2> QED BY <2>1, <2>2, <2>3 DEF PartsComplete
  <1>4. CASE Rebase
    <2>1. /\ ops' = ops /\ at' = at /\ pc = "expand" /\ OpDone /\ at = Len(ops)
          /\ starts' = starts /\ accesses' = accesses
      BY <1>4 DEF Rebase
    <2>2. ASSUME NEW n \in 1 .. at PROVE Complete(n)'
      <3>1. Complete(n)
        <4>1. CASE n = at
          BY <1>2, <2>1, <4>1, CompleteNow
        <4>2. CASE n \in 1 .. at - 1
          BY <4>2 DEF PartsComplete
        <4> QED BY <1>2, <4>1, <4>2
      <3> QED BY <1>1, <2>1, <3>1, StaysComplete
    <2>3. \A n \in 1 .. at - 1 : n \in 1 .. at
      BY <1>2
    <2> QED BY <2>1, <2>2, <2>3 DEF PartsComplete
  <1>5. CASE expand_mm \/ expand_sr \/ Reject \/ Stopped \/ UNCHANGED vars
    <2>1. /\ ops' = ops /\ at' = at /\ starts' = starts
          /\ pc' = "done" => pc = "done" /\ accesses' = accesses
      BY <1>5 DEF expand_mm, expand_sr, Reject, Stopped, vars, Is
    <2>2. ASSUME NEW n \in 1 .. at - 1 PROVE Complete(n)'
      <3>1. n \in 1 .. at /\ n < at
        BY <1>2
      <3>2. Complete(n)
        BY DEF PartsComplete
      <3> QED BY <1>1, <2>1, <3>1, <3>2, StaysComplete
    <2>3. ASSUME pc' = "done", NEW n \in 1 .. at PROVE Complete(n)'
      <3>1. Complete(n)
        BY <2>1, <2>3 DEF PartsComplete
      <3> QED BY <1>1, <2>1, <2>3, <3>1, StaysComplete
    <2> QED BY <2>1, <2>2, <2>3 DEF PartsComplete
  <1> QED BY <1>3, <1>4, <1>5 DEF Next

(* What lies in a view shares its lines with the view.                        *)
LEMMA StoredLinesIn ==
    ASSUME NEW o, NEW m, StoredIn(o, m)
    PROVE  StoredLines(o) \subseteq ViewLines(m)
  <1> SUFFICES ASSUME NEW i \in DOMAIN o.idxs, NEW b \in 0 .. o.row_bytes - 1
               PROVE  LineOf(o.data + o.idxs[i] * o.nb1 + b) \in ViewLines(m)
    BY DEF StoredLines, StoreAt, RowLines
  <1>1. PICK row \in ViewRows(m), c \in 0 .. m.row_bytes - 1 :
          o.data + o.idxs[i] * o.nb1 + b = RowAt(m, row) + c
    BY DEF StoredIn
  <1>2. LineOf(RowAt(m, row) + c) \in RowLines(RowAt(m, row), m.row_bytes)
    BY DEF RowLines
  <1> QED BY <1>1, <1>2 DEF ViewLines

(* A set_rows that wrote into a mul_mat's view is expanded to lines that this *)
(* mul_mat is expanded to read, for every run and every layout.               *)
THEOREM NewEntriesReadCorrect == Spec => []NewEntriesRead
  <1>1. Init => PassesInv /\ PartsComplete
    <2>1. Init => SrInv /\ StreamInv /\ WrittenInv
      BY DEF Init, S!Idle, SrInv, StreamInv, WrittenInv, Is
    <2>2. Init => PartsComplete
      BY DEF Init, PartsComplete
    <2> QED BY <2>1, <2>2, InitPass, InitParts DEF PassesInv
  <1>2. PassesInv /\ [Next]_vars => PassesInv'
    BY NextPass, NextRows, NextStream, NextParts, NextReads, NextWritten DEF PassesInv
  <1>3. PassesInv /\ PartsComplete => NewEntriesRead
    <2> SUFFICES ASSUME PassesInv, PartsComplete, pc = "done",
                        NEW n \in DOMAIN ops, NEW m \in DOMAIN ops,
                        ops[n].tag = "SR", ops[m].tag = "MM", StoredIn(ops[n], ops[m])
                 PROVE  PartOf(n) \subseteq PartOf(m)
      BY DEF NewEntriesRead
    <2>1. DOMAIN ops = 1 .. Len(ops)
      BY PassAssumption DEF PassesInv, PassInv
    <2>2. Complete(n) /\ Complete(m)
      BY <2>1 DEF PartsComplete
    <2>3. PartOf(n) = StoredLines(ops[n]) /\ PartOf(m) = ViewLines(ops[m])
      BY <2>2 DEF Complete, StoredIn
    <2> QED BY <2>3, StoredLinesIn
  <1> QED BY <1>1, <1>2, <1>3, NextComplete, PTL DEF Spec
===============================================================================
