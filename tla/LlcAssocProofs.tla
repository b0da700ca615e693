---------------------------- MODULE LlcAssocProofs ----------------------------
(* llc_auto_assoc computes the least number of ways with a power of two of    *)
(* sets, for every number of cores.                                           *)
EXTENDS SharedLlc, FiniteSetTheorems, WellFoundedInduction, TLAPS
-------------------------------------------------------------------------------
(* Every set of naturals that is not empty has a least element: induction on  *)
(* a data value, as the least counterexample of a claim.                      *)
LEMMA LeastNat ==
    ASSUME NEW T \in SUBSET Nat, T # {}
    PROVE  \E n \in T : \A m \in T : n <= m
  <1>1. PICK n \in T : \A m \in T : <<m, n>> \notin OpToRel(<, Nat)
    BY NatLessThanWellFounded, WFMin
  <1>2. ASSUME NEW m \in T, m < n PROVE <<m, n>> \in OpToRel(<, Nat)
    BY <1>2 DEF OpToRel
  <1>3. \A m \in T : ~(m < n)
    BY <1>1, <1>2, Zenon
  <1> QED BY <1>3

LEMMA Times ==
    ASSUME NEW x \in Int, NEW y \in Int, NEW z \in Int
    PROVE  /\ x * y \in Int /\ x * y = y * x
           /\ (x + y) * z = x * z + y * z /\ (x - y) * z = x * z - y * z
  BY Z3

LEMMA TimesOrder ==
    ASSUME NEW x \in Nat, NEW y \in Nat, NEW z \in Nat, x <= y
    PROVE  x * z <= y * z /\ x * z \in Nat
  BY Z3

LEMMA DivMod ==
    ASSUME NEW a \in Nat, NEW m \in Nat \ {0}
    PROVE  /\ a \div m \in Nat /\ a % m \in 0 .. m - 1
           /\ a = (a \div m) * m + (a % m)
  BY Z3

(* The quotient is the number of whole m's.                                   *)
LEMMA DivIs ==
    ASSUME NEW a \in Nat, NEW m \in Nat \ {0}, NEW q \in Nat
    PROVE  a \div m = q <=> q * m <= a /\ a < q * m + m
  <1> DEFINE d == a \div m
             r == a % m
  <1>1. d \in Nat /\ r \in 0 .. m - 1 /\ a = d * m + r
    BY DivMod
  <1> HIDE DEF d, r
  <1>2. q * m \in Nat /\ d * m \in Nat
    BY <1>1, Z3
  <1>3. ASSUME q < d PROVE q * m + m <= d * m
    <2>1. (q + 1) * m <= d * m
      BY <1>1, <1>3, TimesOrder
    <2> QED BY <2>1, Times
  <1>4. ASSUME d < q PROVE d * m + m <= q * m
    <2>1. (d + 1) * m <= q * m
      BY <1>1, <1>4, TimesOrder
    <2> QED BY <1>1, <2>1, Times
  <1>5. d = q <=> q * m <= a /\ a < q * m + m
    BY <1>1, <1>2, <1>3, <1>4
  <1> QED BY <1>5 DEF d

(* Multiples.                                                                 *)
IsMultiple(a, m) == \E q \in Int : a = q * m

LEMMA ModMultiple ==
    ASSUME NEW a \in Nat, NEW m \in Nat \ {0}
    PROVE  a % m = 0 <=> IsMultiple(a, m)
  <1>1. ASSUME a % m = 0 PROVE IsMultiple(a, m)
    <2> DEFINE q == a \div m
               r == a % m
    <2>1. q \in Nat /\ a = q * m + r /\ r = 0
      BY <1>1, DivMod
    <2> HIDE DEF q, r
    <2>2. q * m \in Int
      BY <2>1, Z3
    <2> QED BY <2>1, <2>2 DEF IsMultiple
  <1>2. ASSUME NEW q \in Int, a = q * m PROVE a % m = 0
    <2>1. q \in Nat
      <3>1. ASSUME q < 0 PROVE FALSE
        <4>1. q * m < 0
          BY <3>1, Z3
        <4> QED BY <1>2, <4>1
      <3> QED BY <3>1
    <2>2. a \div m = q
      BY <1>2, <2>1, DivIs
    <2> DEFINE r == a % m
    <2>3. a = q * m + r /\ r \in Int
      <3> DEFINE d == a \div m
      <3>1. a = d * m + r /\ r \in Int /\ d = q
        BY <2>2, DivMod
      <3> HIDE DEF d, r
      <3> QED BY <3>1
    <2> HIDE DEF r
    <2>4. r = 0
      <3>1. q * m \in Int
        BY <1>2
      <3> QED BY <1>2, <2>3, <3>1
    <2> QED BY <2>4 DEF r
  <1> QED BY <1>1, <1>2 DEF IsMultiple

-------------------------------------------------------------------------------
(* Divisibility and powers of two, as numbers without an odd divisor but 1.   *)
Pos == Nat \ {0}

LEMMA Product ==
    ASSUME NEW x \in Pos, NEW y \in Pos
    PROVE  x * y \in Pos /\ x <= x * y /\ y <= x * y /\ x * y = y * x
  BY Z3 DEF Pos

LEMMA Divides ==
    ASSUME NEW m \in Pos, NEW d \in Pos
    PROVE  m % d = 0 <=> \E q \in Pos : m = q * d
  <1>1. ASSUME NEW q \in Int, m = q * d PROVE q \in Pos
    BY <1>1, Z3 DEF Pos
  <1>2. m \in Nat /\ d \in Nat \ {0} /\ Pos \subseteq Int
    BY DEF Pos
  <1>3. m % d = 0 <=> \E q \in Int : m = q * d
    BY <1>2, ModMultiple DEF IsMultiple
  <1> QED BY <1>1, <1>2, <1>3

LEMMA Even ==
    ASSUME NEW x \in Pos
    PROVE  /\ x % 2 = 0 <=> \E h \in Pos : x = 2 * h
           /\ x % 2 # 0 <=> \E e \in Nat : x = 2 * e + 1
  <1>1. x % 2 = 0 => \E h \in Pos : x = 2 * h
    <2>1. ASSUME x % 2 = 0 PROVE x \div 2 \in Pos /\ x = 2 * (x \div 2)
      BY <2>1, Z3 DEF Pos
    <2> QED BY <2>1
  <1>2. x % 2 # 0 => \E e \in Nat : x = 2 * e + 1
    <2>1. ASSUME x % 2 # 0 PROVE x \div 2 \in Nat /\ x = 2 * (x \div 2) + 1
      BY <2>1, Z3 DEF Pos
    <2> QED BY <2>1
  <1>3. \A h \in Pos : (2 * h) % 2 = 0
    BY Z3 DEF Pos
  <1>4. \A e \in Nat : (2 * e + 1) % 2 # 0
    BY Z3
  <1> QED BY <1>1, <1>2, <1>3, <1>4

(* An odd number times an odd one is odd.                                     *)
LEMMA OddTimes ==
    ASSUME NEW o \in Pos, o % 2 # 0, NEW x \in Pos, (o * x) % 2 = 0
    PROVE  x % 2 = 0
  <1>1. PICK e \in Nat : o = 2 * e + 1
    BY Even
  <1>2. o * x \in Pos
    BY Product
  <1>3. PICK h \in Pos : o * x = 2 * h
    BY <1>2, Even
  <1> DEFINE f == e * x
  <1>4. o * x = 2 * f + x /\ f \in Nat
    BY <1>1, Z3 DEF Pos
  <1> HIDE DEF f
  <1>5. x = 2 * (h - f) /\ h - f \in Pos
    BY <1>3, <1>4 DEF Pos
  <1> QED BY <1>5, Even

LEMMA Pow2One == IsPow2(1)
  BY DEF IsPow2

LEMMA Pow2Part ==
    ASSUME NEW g \in Pos, NEW p \in Pos, IsPow2(g * p)
    PROVE  IsPow2(g)
  <1>1. ASSUME NEW d \in 2 .. g, g % d = 0 PROVE d % 2 = 0
    <2>1. d \in Pos /\ g * p \in Pos /\ g <= g * p
      BY Product DEF Pos
    <2>2. PICK q \in Pos : g = q * d
      BY <1>1, <2>1, Divides
    <2>3. g * p = (q * p) * d /\ q * p \in Pos
      <3>1. q * p \in Pos
        BY Product
      <3> QED BY <2>1, <2>2, <3>1, Z3 DEF Pos
    <2>4. (g * p) % d = 0
      BY <2>1, <2>3, Divides
    <2>5. d \in 2 .. g * p
      BY <2>1 DEF Pos
    <2> QED BY <2>4, <2>5 DEF IsPow2
  <1> QED BY <1>1 DEF IsPow2, Pos

LEMMA Pow2Twice ==
    ASSUME NEW p \in Pos, IsPow2(p)
    PROVE  IsPow2(2 * p) /\ 2 * p \in Pos
  <1>1. 2 * p \in Pos
    BY DEF Pos
  <1>2. ASSUME NEW d \in 2 .. 2 * p, (2 * p) % d = 0, d % 2 # 0 PROVE FALSE
    <2>1. d \in Pos
      BY DEF Pos
    <2>2. PICK q \in Pos : 2 * p = q * d
      BY <1>1, <1>2, <2>1, Divides
    <2>3. q % 2 = 0
      <3>1. (d * q) % 2 = 0
        <4>1. d * q = 2 * p /\ d * q \in Pos
          BY <2>1, <2>2, Product
        <4> QED BY <4>1, Even
      <3> QED BY <1>2, <2>1, <3>1, OddTimes
    <2>4. PICK h \in Pos : q = 2 * h
      BY <2>3, Even
    <2>5. p = h * d
      <3> DEFINE k == h * d
      <3>1. q * d = 2 * k /\ k \in Int
        BY <2>1, <2>4, Z3 DEF Pos
      <3> HIDE DEF k
      <3>2. p = k
        BY <2>2, <3>1 DEF Pos
      <3> QED BY <3>2 DEF k
    <2>6. p % d = 0 /\ d <= p
      BY <2>1, <2>5, Divides, Product
    <2>7. d \in 2 .. p
      BY <2>6 DEF Pos
    <2> QED BY <1>2, <2>6, <2>7 DEF IsPow2
  <1> QED BY <1>1, <1>2 DEF IsPow2, Pos

LEMMA Pow2Half ==
    ASSUME NEW p \in Pos, IsPow2(p), p # 1
    PROVE  \E h \in Pos : p = 2 * h /\ IsPow2(h) /\ h < p
  <1>1. p \in 2 .. p
    BY DEF Pos
  <1>2. p % p = 0
    <2>1. p = 1 * p /\ 1 \in Pos
      BY DEF Pos
    <2> QED BY <2>1, Divides
  <1>3. p % 2 = 0
    BY <1>1, <1>2 DEF IsPow2
  <1>4. PICK h \in Pos : p = 2 * h
    BY <1>3, Even
  <1>5. p = h * 2 /\ 2 \in Pos /\ h < p
    BY <1>4 DEF Pos
  <1> QED BY <1>4, <1>5, Pow2Part

(* Of two powers of two the smaller divides the greater.                      *)
LEMMA Pow2Divides ==
    ASSUME NEW g \in Pos, NEW s \in Pos, IsPow2(g), IsPow2(s), g <= s
    PROVE  \E t \in Pos : s = t * g
  <1> DEFINE Bad == {x \in Pos : IsPow2(x) /\ \E y \in Pos :
                        IsPow2(y) /\ x <= y /\ \A t \in Pos : y # t * x}
  <1>1. ASSUME Bad # {} PROVE FALSE
    <2>1. PICK x \in Bad : \A z \in Bad : x <= z
      <3>1. Bad \in SUBSET Nat
        BY DEF Pos
      <3> HIDE DEF Bad
      <3> QED BY <1>1, <3>1, LeastNat
    <2>2. x \in Pos /\ IsPow2(x)
      OBVIOUS
    <2>3. PICK y \in Pos : IsPow2(y) /\ x <= y /\ \A t \in Pos : y # t * x
      OBVIOUS
    <2>4. x # 1
      <3>1. y = y * 1
        BY DEF Pos
      <3> QED BY <2>3, <3>1
    <2>5. PICK h \in Pos : x = 2 * h /\ IsPow2(h) /\ h < x
      BY <2>2, <2>4, Pow2Half
    <2>6. y # 1
      BY <2>2, <2>3, <2>4 DEF Pos
    <2>7. PICK k \in Pos : y = 2 * k /\ IsPow2(k)
      BY <2>3, <2>6, Pow2Half
    <2>8. h <= k
      BY <2>3, <2>5, <2>7 DEF Pos
    <2>9. h \notin Bad
      BY <2>1, <2>5 DEF Pos
    <2>10. PICK t \in Pos : k = t * h
      BY <2>5, <2>7, <2>8, <2>9
    <2>11. y = t * x
      BY <2>5, <2>7, <2>10, Z3 DEF Pos
    <2> QED BY <2>3, <2>11
  <1>2. g \notin Bad
    <2> HIDE DEF Bad
    <2> QED BY <1>1
  <1> QED BY <1>2

LEMMA Pow2Apart ==
    ASSUME NEW g \in Pos, NEW s \in Pos, IsPow2(g), IsPow2(s), g < s
    PROVE  2 * g <= s
  <1>1. PICK t \in Pos : s = t * g
    BY Pow2Divides DEF Pos
  <1>2. t # 1
    <2>1. 1 * g = g
      BY DEF Pos
    <2> QED BY <1>1, <2>1 DEF Pos
  <1>3. 2 * g <= t * g
    <2>1. 2 \in Nat /\ t \in Nat /\ g \in Nat /\ 2 <= t
      BY <1>2 DEF Pos
    <2> QED BY <2>1, TimesOrder
  <1> QED BY <1>1, <1>3

(* What is left of a power of two when an odd factor is taken away.           *)
LEMMA Cancel ==
    ASSUME NEW o \in Pos, o % 2 # 0, NEW H \in Pos, IsPow2(H),
           NEW w \in Pos, NEW p \in Pos, IsPow2(p), o * H = w * p
    PROVE  \E g \in Pos : H = g * p
  <1> DEFINE Bad == {x \in Pos : IsPow2(x) /\ \E y \in Pos, v \in Pos :
                        IsPow2(y) /\ o * y = v * x /\ \A g \in Pos : y # g * x}
  <1>1. ASSUME Bad # {} PROVE FALSE
    <2>1. PICK x \in Bad : \A z \in Bad : x <= z
      <3>1. Bad \in SUBSET Nat
        BY DEF Pos
      <3> HIDE DEF Bad
      <3> QED BY <1>1, <3>1, LeastNat
    <2>2. x \in Pos /\ IsPow2(x)
      OBVIOUS
    <2>3. PICK y \in Pos, v \in Pos :
             IsPow2(y) /\ o * y = v * x /\ \A g \in Pos : y # g * x
      OBVIOUS
    <2>4. x # 1
      <3>1. y = y * 1
        BY DEF Pos
      <3> QED BY <2>3, <3>1
    <2>5. PICK h \in Pos : x = 2 * h /\ IsPow2(h) /\ h < x
      BY <2>2, <2>4, Pow2Half
    <2> DEFINE c == v * h
    <2>6. o * y = 2 * c /\ c \in Pos
      <3>1. c \in Pos
        BY Product
      <3>2. v * x = 2 * c
        BY <2>5, Z3 DEF Pos
      <3> QED BY <2>3, <3>1, <3>2
    <2>7. y % 2 = 0
      <3> HIDE DEF c
      <3>1. (o * y) % 2 = 0
        BY <2>6, Even, Product
      <3> QED BY <3>1, OddTimes
    <2>8. y # 1
      BY <2>7
    <2>9. PICK k \in Pos : y = 2 * k /\ IsPow2(k)
      BY <2>3, <2>8, Pow2Half
    <2>10. o * k = v * h
      <3> DEFINE b == o * k
      <3>1. b \in Pos
        BY Product
      <3>2. o * y = 2 * b
        BY <2>9, Z3 DEF Pos
      <3> HIDE DEF b, c
      <3>3. b = c
        BY <2>6, <3>1, <3>2 DEF Pos
      <3> QED BY <3>3 DEF b, c
    <2>11. h \notin Bad
      <3> HIDE DEF Bad
      <3>1. h \in Bad => x <= h
        BY <2>1
      <3> QED BY <2>5, <3>1 DEF Pos
    <2>12. PICK g \in Pos : k = g * h
      BY <2>5, <2>9, <2>10, <2>11
    <2>13. y = g * x
      BY <2>5, <2>9, <2>12, Z3 DEF Pos
    <2> QED BY <2>3, <2>13
  <1>2. p \notin Bad
    <2> HIDE DEF Bad
    <2> QED BY <1>1
  <1> QED BY <1>2

-------------------------------------------------------------------------------
(* The invariant of the two loops.  What the first has halved away is a power *)
(* of two, so the cache's lines are odd times one; the second multiplies odd  *)
(* by powers of two, and stops at the first one not below the floor.          *)
AutoInv ==
    run.opt = "auto" /\ run.n_cores > 0 =>
        /\ \E H \in Pos : llc_lines = odd * H /\ IsPow2(H) /\ PerCoreLines <= H
        /\ pc # "halve" =>
            /\ odd % 2 # 0
            /\ \E s \in Pos : /\ ways = odd * s /\ IsPow2(s)
                              /\ s = 1 \/ ways < 2 * Floor
        /\ pc = "built" => ways >= Floor

(* Without cores the odd part and the ways never rise above zero.             *)
NoCoresInv ==
    NeverBuilt => odd <= 0 /\ ways <= 0 /\ pc # "built"

LlcInv == TypeOK /\ AutoInv /\ NoCoresInv

LEMMA Constants ==
    /\ PerCoreLines \in Pos /\ Floor \in Pos /\ DefaultWays \in Pos
    /\ Floor <= PerCoreLines /\ IsPow2(PerCoreLines)
    /\ \A r \in Choices : r.n_cores \in Int /\ r.ways \in Pos
  <1>1. /\ PerCoreLines \in Pos /\ Floor \in Pos /\ DefaultWays \in Pos
        /\ Floor <= PerCoreLines /\ IsPow2(PerCoreLines)
    BY LlcAssumption DEF Pos
  <1>2. \A r \in Choices : r.n_cores \in Int /\ r.ways \in Pos
    BY LlcAssumption DEF Pos
  <1> QED BY <1>1, <1>2

LEMMA InitLlc == Init => LlcInv
  <1> SUFFICES ASSUME Init PROVE LlcInv
    OBVIOUS
  <1>1. run \in Choices /\ odd = run.n_cores /\ odd \in Int
    BY Constants DEF Init
  <1>2. TypeOK
    BY <1>1, Constants DEF Init, TypeOK, Pos
  <1>3. ASSUME run.opt = "auto", run.n_cores > 0 PROVE AutoInv
    <2>1. pc = "halve" /\ llc_lines = odd * PerCoreLines
      BY <1>1, <1>3 DEF Init, llc_lines
    <2>2. PerCoreLines <= PerCoreLines
      BY Constants DEF Pos
    <2> QED BY <2>1, <2>2, Constants DEF AutoInv
  <1>4. NoCoresInv
    BY <1>1 DEF Init, NoCoresInv, NeverBuilt
  <1> QED BY <1>2, <1>3, <1>4 DEF LlcInv, AutoInv

LEMMA NoCoresNext == LlcInv /\ [Next]_vars => NoCoresInv'
  <1> SUFFICES ASSUME LlcInv, [Next]_vars, NeverBuilt
               PROVE  run' = run /\ odd' <= 0 /\ ways' <= 0 /\ pc' # "built"
    BY DEF NoCoresInv, NeverBuilt, Next, Halve, StartDoubling, Double, Built,
           BeyondBound, vars
  <1>1. odd \in Int /\ ways \in Int /\ odd <= 0 /\ ways <= 0 /\ pc # "built"
        /\ Floor \in Nat /\ 1 <= Floor
    BY Constants DEF LlcInv, TypeOK, NoCoresInv, Pos
  <1>2. CASE Halve
    <2>1. odd \div 2 <= 0
      BY <1>1, Z3
    <2> QED BY <1>1, <1>2, <2>1 DEF Halve
  <1>3. CASE StartDoubling
    BY <1>1, <1>3 DEF StartDoubling
  <1>4. CASE Double
    <2>1. ways < Floor
      BY <1>1
    <2> QED BY <1>1, <1>4, <2>1 DEF Double
  <1>5. CASE Built \/ BeyondBound \/ UNCHANGED vars
    BY <1>1, <1>5 DEF Built, BeyondBound, vars
  <1> QED BY <1>2, <1>3, <1>4, <1>5 DEF Next

\* Types, also where no core is asked for.
LEMMA TypeNext == LlcInv /\ [Next]_vars /\ run.n_cores <= 0 => TypeOK'
  <1> SUFFICES ASSUME LlcInv, [Next]_vars, run.n_cores <= 0 PROVE TypeOK'
    OBVIOUS
  <1>1. /\ run \in Choices /\ run' = run /\ run.n_cores \in Int
        /\ odd \in Int /\ ways \in Int /\ pc \in {"halve", "double", "built"}
    BY Constants DEF LlcInv, TypeOK, Next, Halve, StartDoubling, Double, Built,
                     BeyondBound, vars
  <1>2. odd' \in Int /\ ways' \in Int /\ pc' \in {"halve", "double", "built"}
    BY <1>1 DEF Next, Halve, StartDoubling, Double, Built, BeyondBound, vars
  <1> QED BY <1>1, <1>2 DEF TypeOK

LEMMA NextLlc == LlcInv /\ [Next]_vars => LlcInv'
  <1> SUFFICES ASSUME LlcInv, [Next]_vars PROVE LlcInv'
    OBVIOUS
  <1> SUFFICES ASSUME run.n_cores > 0 PROVE TypeOK' /\ AutoInv'
    <2>1. run' = run /\ run.n_cores \in Int
      <3>1. run' = run
        BY DEF Next, Halve, StartDoubling, Double, Built, BeyondBound, vars
      <3> QED BY <3>1, Constants DEF LlcInv, TypeOK
    <2>2. ~(run.n_cores > 0) => run.n_cores <= 0
      BY <2>1
    <2>3. run.n_cores <= 0 => AutoInv'
      BY <2>1 DEF AutoInv
    <2> QED BY <2>2, <2>3, NoCoresNext, TypeNext DEF LlcInv
  <1>1. /\ run \in Choices /\ run' = run /\ run.n_cores \in Pos
        /\ odd \in Pos /\ odd <= run.n_cores /\ ways \in Nat
        /\ pc \in {"halve", "double", "built"} /\ llc_lines' = llc_lines
    BY Constants DEF LlcInv, TypeOK, Pos, Next, Halve, StartDoubling, Double, Built,
                     BeyondBound, vars, llc_lines
  <1>2. CASE Halve
    <2>1. PICK h \in Pos : odd = 2 * h
      BY <1>1, <1>2, Even DEF Halve
    <2>2. pc = "halve" /\ pc' = "halve" /\ ways' = ways /\ odd' = h /\ h < odd
      BY <1>2, <2>1 DEF Halve, Pos
    <2>3. TypeOK'
      BY <1>1, <2>2 DEF TypeOK, Pos
    <2>4. ASSUME run.opt = "auto" PROVE AutoInv'
      <3>1. PICK H \in Pos : llc_lines = odd * H /\ IsPow2(H) /\ PerCoreLines <= H
        BY <2>4 DEF LlcInv, AutoInv
      <3>2. llc_lines = h * (2 * H)
        BY <2>1, <3>1, Z3 DEF Pos
      <3>3. IsPow2(2 * H) /\ 2 * H \in Pos
        BY <3>1, Pow2Twice
      <3>4. PerCoreLines <= 2 * H
        BY <3>1, Constants DEF Pos
      <3> QED BY <1>1, <2>2, <3>2, <3>3, <3>4 DEF AutoInv
    <2> QED BY <1>1, <2>3, <2>4 DEF LlcInv, AutoInv
  <1>3. CASE StartDoubling
    <2>1. pc = "halve" /\ pc' = "double" /\ odd' = odd /\ ways' = odd /\ odd % 2 # 0
      BY <1>3 DEF StartDoubling
    <2>2. TypeOK'
      BY <1>1, <2>1 DEF TypeOK, Pos
    <2>3. odd = odd * 1 /\ 1 \in Pos /\ IsPow2(1)
      BY <1>1, Pow2One DEF Pos
    <2>4. ASSUME run.opt = "auto" PROVE AutoInv'
      BY <1>1, <2>1, <2>3, <2>4 DEF LlcInv, AutoInv
    <2> QED BY <1>1, <2>2, <2>4 DEF LlcInv, AutoInv
  <1>4. CASE Double /\ ways < Floor
    <2>1. pc = "double" /\ pc' = pc /\ odd' = odd /\ ways' = 2 * ways
      BY <1>4 DEF Double
    <2>2. TypeOK'
      BY <1>1, <2>1 DEF TypeOK, Pos
    <2>3. ASSUME run.opt = "auto" PROVE AutoInv'
      <3>1. PICK s \in Pos : ways = odd * s /\ IsPow2(s)
        BY <2>1, <2>3 DEF LlcInv, AutoInv
      <3>2. ways' = odd * (2 * s) /\ ways' < 2 * Floor
        <4>1. odd * (2 * s) = 2 * (odd * s)
          BY <1>1, Z3 DEF Pos
        <4> QED BY <1>1, <1>4, <2>1, <3>1, <4>1, Constants DEF Pos
      <3>3. IsPow2(2 * s) /\ 2 * s \in Pos
        BY <3>1, Pow2Twice
      <3> QED BY <1>1, <2>1, <2>3, <3>2, <3>3 DEF LlcInv, AutoInv
    <2> QED BY <1>1, <2>2, <2>3 DEF LlcInv, AutoInv
  <1>5. CASE Double /\ ~(ways < Floor)
    <2>1. pc = "double" /\ pc' = "built" /\ odd' = odd /\ ways' = ways /\ ways >= Floor
      BY <1>1, <1>5, Constants DEF Double, Pos
    <2> QED BY <1>1, <2>1 DEF LlcInv, TypeOK, AutoInv
  <1>6. CASE Built \/ BeyondBound \/ UNCHANGED vars
    <2>1. UNCHANGED vars
      BY <1>6 DEF Built, BeyondBound
    <2> QED BY <1>1, <2>1 DEF vars, LlcInv, TypeOK, AutoInv
  <1> QED BY <1>2, <1>3, <1>4, <1>5, <1>6 DEF Next

(* The variables keep their types in both loops.                              *)
THEOREM TypeCorrect == Spec => []TypeOK
  <1>1. LlcInv => TypeOK
    BY DEF LlcInv
  <1> QED BY <1>1, InitLlc, NextLlc, PTL DEF Spec

(* Asked for no cores or fewer, llc_auto_assoc never returns.                 *)
THEOREM NeverBuiltCorrect == Spec => [](NeverBuilt => pc # "built")
  <1>1. LlcInv => (NeverBuilt => pc # "built")
    BY DEF LlcInv, NoCoresInv
  <1> QED BY <1>1, InitLlc, NextLlc, PTL DEF Spec

(* llc_auto_assoc returns the least number of ways, from the floor up, that   *)
(* divides the cache into a power of two of sets.                             *)
THEOREM AutoIsMinimalCorrect == Spec => []AutoIsMinimal
  <1>1. LlcInv => AutoIsMinimal
    <2> SUFFICES ASSUME LlcInv, pc = "built", run.opt = "auto"
                 PROVE  /\ ways >= Floor /\ Pow2Sets(ways)
                        /\ \A w \in Floor .. ways - 1 : ~Pow2Sets(w)
      BY DEF AutoIsMinimal
    <2>0. run.n_cores > 0
      BY Constants DEF LlcInv, TypeOK, NoCoresInv, NeverBuilt
    <2>1. odd \in Pos /\ odd % 2 # 0 /\ ways >= Floor /\ ways \in Nat
      BY <2>0 DEF LlcInv, TypeOK, AutoInv, Pos
    <2>2. PICK H \in Pos : llc_lines = odd * H /\ IsPow2(H) /\ PerCoreLines <= H
      BY <2>0 DEF LlcInv, AutoInv
    <2>3. PICK s \in Pos : /\ ways = odd * s /\ IsPow2(s)
                           /\ s = 1 \/ ways < 2 * Floor
      BY <2>0 DEF LlcInv, AutoInv
    <2>4. llc_lines \in Pos
      BY <2>1, <2>2, Product
    <2>5. s <= H
      <3>1. CASE s = 1
        BY <3>1 DEF Pos
      <3>2. CASE ways < 2 * Floor
        <4>1. s < 2 * PerCoreLines
          <5>1. s <= ways
            BY <2>1, <2>3, Product
          <5> QED BY <2>1, <3>2, <5>1, Constants DEF Pos
        <4>2. s <= PerCoreLines
          <5>1. PerCoreLines < s => 2 * PerCoreLines <= s
            BY <2>3, Constants, Pow2Apart
          <5> QED BY <4>1, <5>1, Constants DEF Pos
        <4> QED BY <2>2, <4>2, Constants DEF Pos
      <3> QED BY <2>3, <3>1, <3>2
    <2>6. Pow2Sets(ways)
      <3>1. PICK t \in Pos : H = t * s
        BY <2>2, <2>3, <2>5, Pow2Divides
      <3>2. llc_lines = t * ways
        BY <2>1, <2>2, <2>3, <3>1, Z3 DEF Pos
      <3>3. ways \in Pos
        BY <2>1, <2>3, Product
      <3>4. llc_lines % ways = 0
        BY <2>4, <3>2, <3>3, Divides
      <3>5. llc_lines \div ways = t
        <4>1. t * ways <= llc_lines /\ llc_lines < t * ways + ways
          BY <2>4, <3>2, <3>3 DEF Pos
        <4>2. llc_lines \in Nat /\ ways \in Nat \ {0} /\ t \in Nat
          BY <2>4, <3>3 DEF Pos
        <4> QED BY <4>1, <4>2, DivIs
      <3>6. IsPow2(t)
        BY <2>2, <3>1, Pow2Part
      <3> QED BY <3>4, <3>5, <3>6 DEF Pow2Sets
    <2>7. ASSUME NEW w \in Floor .. ways - 1, Pow2Sets(w) PROVE FALSE
      <3>1. w \in Pos /\ Floor <= w /\ w < ways
        BY <2>1, Constants DEF Pos
      <3> DEFINE p == llc_lines \div w
      <3>2. llc_lines % w = 0 /\ IsPow2(p)
        BY <2>7 DEF Pow2Sets
      <3>3. PICK q \in Pos : llc_lines = q * w
        BY <2>4, <3>1, <3>2, Divides
      <3>4. p = q
        <4>1. q * w <= llc_lines /\ llc_lines < q * w + w
          BY <2>4, <3>1, <3>3 DEF Pos
        <4>2. llc_lines \in Nat /\ w \in Nat \ {0} /\ q \in Nat
          BY <2>4, <3>1 DEF Pos
        <4> QED BY <4>1, <4>2, DivIs
      <3>5. odd * H = w * q
        BY <2>2, <3>1, <3>3, Product
      <3> HIDE DEF p
      <3>6. PICK g \in Pos : H = g * q
        <4>1. IsPow2(q)
          BY <3>2, <3>4
        <4>2. odd \in Pos /\ odd % 2 # 0 /\ IsPow2(H) /\ w \in Pos
          BY <2>1, <2>2, <3>1
        <4> QED BY <3>5, <4>1, <4>2, Cancel
      <3>7. w = odd * g
        <4> DEFINE a == odd * g
        <4>1. a \in Pos /\ odd * H = a * q
          BY <2>1, <3>6, Product, Z3 DEF Pos
        <4> HIDE DEF a
        <4>2. a * q = w * q
          BY <3>5, <4>1
        <4>3. a = w
          BY <3>1, <4>1, <4>2, Z3 DEF Pos
        <4> QED BY <4>3 DEF a
      <3>8. IsPow2(g)
        BY <2>2, <3>6, Pow2Part
      <3>9. g < s
        <4>1. s <= g => odd * s <= odd * g
          <5>1. odd \in Nat /\ s \in Nat /\ g \in Nat
            BY <2>1 DEF Pos
          <5>2. s <= g => s * odd <= g * odd
            BY <5>1, TimesOrder
          <5> QED BY <2>1, <5>2, Product
        <4> QED BY <2>1, <2>3, <3>1, <3>7, <4>1 DEF Pos
      <3>10. 2 * w <= ways
        <4>1. 2 * g <= s
          BY <2>3, <3>8, <3>9, Pow2Apart
        <4> DEFINE x == 2 * g
        <4>2. x \in Nat /\ s \in Nat /\ odd \in Nat /\ x <= s
          BY <2>1, <4>1 DEF Pos
        <4>3. x * odd <= s * odd
          <5> HIDE DEF x
          <5> QED BY <4>2, TimesOrder
        <4>4. x * odd = 2 * w
          BY <2>1, <3>7, Z3 DEF Pos
        <4>5. s * odd = ways
          BY <2>1, <2>3, Product
        <4> QED BY <4>3, <4>4, <4>5
      <3>11. s # 1
        BY <3>9 DEF Pos
      <3> QED BY <2>1, <2>3, <3>1, <3>10, <3>11, Constants DEF Pos
    <2> QED BY <2>1, <2>6, <2>7
  <1> QED BY <1>1, InitLlc, NextLlc, PTL DEF Spec

-------------------------------------------------------------------------------
(* Lines in the LLC.  Halves and bits of a number.                            *)
LEMMA Halve2 ==
    ASSUME NEW a \in Nat, NEW h \in Pos
    PROVE  (a \div h) \div 2 = a \div (2 * h)
  <1> DEFINE d == a \div h
             e == d \div 2
             c == e * h
  <1>0. h \in Nat \ {0} /\ 2 * h \in Nat \ {0}
    BY DEF Pos
  <1>1. d \in Nat /\ d * h <= a /\ a < d * h + h
    <2>1. d \in Nat
      BY <1>0, DivMod
    <2> HIDE DEF d
    <2>2. a \div h = d
      BY DEF d
    <2> QED BY <1>0, <2>1, <2>2, DivIs
  <1> HIDE DEF d
  <1>2. e \in Nat /\ (d = 2 * e \/ d = 2 * e + 1)
    BY <1>1, Z3
  <1> HIDE DEF e
  <1>3. c \in Nat /\ e * (2 * h) = 2 * c
    BY <1>0, <1>2, Z3
  <1>4. d * h = 2 * c \/ d * h = 2 * c + h
    <2>1. d = 2 * e => d * h = 2 * c
      BY <1>0, <1>2, Z3
    <2>2. d = 2 * e + 1 => d * h = 2 * c + h
      BY <1>0, <1>2, Z3
    <2> QED BY <1>2, <2>1, <2>2
  <1> HIDE DEF c
  <1>5. 2 * c <= a /\ a < 2 * c + 2 * h
    BY <1>0, <1>1, <1>3, <1>4
  <1>6. a \div (2 * h) = e
    <2> DEFINE m == 2 * h
    <2>1. m \in Nat \ {0} /\ e * m <= a /\ a < e * m + m
      BY <1>0, <1>3, <1>5
    <2> HIDE DEF m
    <2>2. a \div m = e
      BY <1>2, <2>1, DivIs
    <2> QED BY <2>2 DEF m
  <1> QED BY <1>6 DEF d, e

\* Numbers with one quotient and the same bits below it are the same.
LEMMA SameBits ==
    ASSUME NEW a \in Nat, NEW b \in Nat, NEW s \in Pos, IsPow2(s),
           a \div s = b \div s,
           \A p \in Pos : IsPow2(p) /\ p < s => (HasBit(a, p) <=> HasBit(b, p))
    PROVE  a = b
  <1> DEFINE T == {p \in Pos : IsPow2(p) /\ p <= s /\ a \div p = b \div p}
  <1>1. s \in T
    BY DEF Pos
  <1>2. PICK p \in T : \A q \in T : p <= q
    <2>1. T \in SUBSET Nat /\ T # {}
      BY <1>1 DEF Pos
    <2> HIDE DEF T
    <2> QED BY <2>1, LeastNat
  <1>3. p \in Pos /\ IsPow2(p) /\ p <= s /\ a \div p = b \div p
    OBVIOUS
  <1>4. p = 1
    <2>1. ASSUME p # 1 PROVE FALSE
      <3>1. PICK h \in Pos : p = 2 * h /\ IsPow2(h) /\ h < p
        BY <1>3, <2>1, Pow2Half
      <3> DEFINE x == a \div h
                 y == b \div h
      <3>2. x \in Nat /\ y \in Nat
        BY DivMod DEF Pos
      <3>3. x \div 2 = y \div 2
        BY <1>3, <3>1, Halve2
      <3>4. x % 2 = 1 <=> y % 2 = 1
        BY <1>3, <3>1 DEF HasBit, Pos
      <3>5. x = y
        <4> HIDE DEF x, y
        <4> QED BY <3>2, <3>3, <3>4, Z3
      <3>6. h \in T
        BY <1>3, <3>1, <3>5 DEF Pos
      <3> QED BY <1>2, <3>1, <3>6 DEF Pos
    <2> QED BY <2>1
  <1>5. a \div 1 = a /\ b \div 1 = b
    OBVIOUS
  <1> QED BY <1>3, <1>4, <1>5

\* One less than a power of two has all the bits below it.
LEMMA AllOnes ==
    ASSUME NEW s \in Pos, IsPow2(s), NEW p \in Pos, IsPow2(p), p < s
    PROVE  HasBit(s - 1, p)
  <1>1. PICK t \in Pos : s = t * p
    BY Pow2Divides DEF Pos
  <1>2. t # 1
    <2>1. 1 * p = p
      BY DEF Pos
    <2> QED BY <1>1, <2>1 DEF Pos
  <1>3. IsPow2(t)
    BY <1>1, Pow2Part
  <1>4. PICK h \in Pos : t = 2 * h
    BY <1>2, <1>3, Pow2Half
  <1>5. (s - 1) \div p = t - 1
    <2> DEFINE q == t - 1
               a == s - 1
    <2>1. q * p = t * p - p
      BY Z3 DEF Pos
    <2>2. q \in Nat /\ a \in Nat /\ p \in Nat \ {0} /\ q * p <= a /\ a < q * p + p
      BY <1>1, <2>1 DEF Pos
    <2> HIDE DEF q, a
    <2>3. a \div p = q
      BY <2>2, DivIs
    <2> QED BY <2>3 DEF q, a
  <1>6. (t - 1) % 2 = 1
    BY <1>4, Z3 DEF Pos
  <1> QED BY <1>5, <1>6 DEF HasBit

\* Between two powers of two, one less than a number lacks a bit.
LEMMA SomeZero ==
    ASSUME NEW u \in Pos, IsPow2(u), NEW s \in Nat, u < s, s < 2 * u
    PROVE  \E h \in Pos : IsPow2(h) /\ h < u /\ ~HasBit(s - 1, h)
  <1> DEFINE Bad == {p \in Pos : IsPow2(p) /\ p <= u /\ \A t \in Pos : s # t * p}
  <1>0. s \in Pos
    BY DEF Pos
  <1>1. u \in Bad
    <2>1. ASSUME NEW t \in Pos, s = t * u PROVE FALSE
      <3>1. t = 1 \/ 2 <= t
        BY DEF Pos
      <3>2. 2 <= t => 2 * u <= t * u
        <4>1. 2 \in Nat /\ t \in Nat /\ u \in Nat
          BY DEF Pos
        <4> QED BY <4>1, TimesOrder
      <3>3. 1 * u = u
        BY DEF Pos
      <3>4. t = 1 => s = u
        BY <2>1, <3>3
      <3>5. u \in Nat
        BY DEF Pos
      <3> QED BY <2>1, <3>1, <3>2, <3>4, <3>5
    <2> QED BY <2>1 DEF Pos
  <1>2. PICK p \in Bad : \A q \in Bad : p <= q
    <2>1. Bad \in SUBSET Nat /\ Bad # {}
      BY <1>1 DEF Pos
    <2> HIDE DEF Bad
    <2> QED BY <2>1, LeastNat
  <1>3. p \in Pos /\ IsPow2(p) /\ p <= u /\ \A t \in Pos : s # t * p
    OBVIOUS
  <1>4. p # 1
    <2>1. s = s * 1
      OBVIOUS
    <2> QED BY <1>0, <1>3, <2>1
  <1>5. PICK h \in Pos : p = 2 * h /\ IsPow2(h) /\ h < p
    BY <1>3, <1>4, Pow2Half
  <1>6. h < u
    BY <1>3, <1>5 DEF Pos
  <1>7. PICK t \in Pos : s = t * h
    <2>1. h \notin Bad
      <3>1. h \in Bad => p <= h
        BY <1>2
      <3> HIDE DEF Bad
      <3> QED BY <1>5, <3>1 DEF Pos
    <2> QED BY <1>5, <1>6, <2>1 DEF Pos
  <1>8. (s - 1) \div h = t - 1
    <2> DEFINE q == t - 1
               a == s - 1
    <2>1. q * h = t * h - h
      BY Z3 DEF Pos
    <2>2. q \in Nat /\ a \in Nat /\ h \in Nat \ {0} /\ q * h <= a /\ a < q * h + h
      BY <1>0, <1>7, <2>1 DEF Pos
    <2> HIDE DEF q, a
    <2>3. a \div h = q
      BY <2>2, DivIs
    <2> QED BY <2>3 DEF q, a
  <1>9. t % 2 # 0
    <2>1. ASSUME t % 2 = 0 PROVE FALSE
      <3>1. PICK v \in Pos : t = 2 * v
        BY <2>1, Even
      <3>2. s = v * p
        BY <1>5, <1>7, <3>1, Z3 DEF Pos
      <3> QED BY <1>3, <3>2
    <2> QED BY <2>1
  <1>10. (t - 1) % 2 # 1
    BY <1>9, Z3 DEF Pos
  <1> QED BY <1>5, <1>6, <1>8, <1>10 DEF HasBit

\* A power of two has one bit.
LEMMA OneBit ==
    ASSUME NEW h \in Pos, IsPow2(h), NEW p \in Pos, IsPow2(p), HasBit(h, p)
    PROVE  p = h
  <1>1. CASE h < p
    <2>1. h \div p = 0
      <3>1. h \in Nat /\ p \in Nat \ {0} /\ 0 \in Nat /\ 0 * p = 0
        BY DEF Pos
      <3>2. 0 * p <= h /\ h < 0 * p + p
        BY <1>1, <3>1
      <3> QED BY <3>1, <3>2, DivIs
    <2> QED BY <2>1 DEF HasBit
  <1>2. CASE p < h
    <2>1. PICK t \in Pos : h = t * p
      BY <1>2, Pow2Divides DEF Pos
    <2>2. h \div p = t
      <3>1. h \in Nat /\ p \in Nat \ {0} /\ t \in Nat
        BY DEF Pos
      <3>2. t * p <= h /\ h < t * p + p
        BY <2>1, <3>1
      <3> QED BY <3>1, <3>2, DivIs
    <2>3. t # 1 /\ IsPow2(t)
      <3>1. 1 * p = p
        BY DEF Pos
      <3>2. t # 1
        BY <1>2, <2>1, <3>1 DEF Pos
      <3> QED BY <2>1, <3>2, Pow2Part
    <2>4. PICK v \in Pos : t = 2 * v
      BY <2>3, Pow2Half
    <2>5. t % 2 = 0
      BY <2>4, Even
    <2> QED BY <2>2, <2>5 DEF HasBit
  <1> QED BY <1>1, <1>2 DEF Pos

\* A product of powers of two is one.
LEMMA Pow2Product ==
    ASSUME NEW x \in Pos, IsPow2(x), NEW p \in Pos, IsPow2(p)
    PROVE  IsPow2(x * p)
  <1> DEFINE Bad == {y \in Pos : IsPow2(y) /\ ~IsPow2(y * p)}
  <1>1. ASSUME Bad # {} PROVE FALSE
    <2>1. PICK y \in Bad : \A z \in Bad : y <= z
      <3>1. Bad \in SUBSET Nat
        BY DEF Pos
      <3> HIDE DEF Bad
      <3> QED BY <1>1, <3>1, LeastNat
    <2>2. y \in Pos /\ IsPow2(y) /\ ~IsPow2(y * p)
      OBVIOUS
    <2>3. y # 1
      <3>1. 1 * p = p
        BY DEF Pos
      <3> QED BY <2>2, <3>1
    <2>4. PICK h \in Pos : y = 2 * h /\ IsPow2(h) /\ h < y
      BY <2>2, <2>3, Pow2Half
    <2>5. IsPow2(h * p)
      <3>1. h \notin Bad
        BY <2>1, <2>4 DEF Pos
      <3> QED BY <2>4, <3>1
    <2>6. y * p = 2 * (h * p) /\ h * p \in Pos
      BY <2>4, Product, Z3 DEF Pos
    <2> QED BY <2>2, <2>5, <2>6, Pow2Twice
  <1>2. x \notin Bad
    <2> HIDE DEF Bad
    <2> QED BY <1>1
  <1> QED BY <1>2

(* A lookup is false where two lines have one index and one tag.              *)
LEMMA Collide ==
    FalseHits <=> \E a, b \in 0 .. Lines - 1 :
                    a # b /\ Index(a) = Index(b) /\ Tag(a) = Tag(b)
  <1> DEFINE S == 0 .. Lines - 1
             at(l) == <<Index(l), Tag(l)>>
             T == {at(l) : l \in S}
             f == [l \in S |-> at(l)]
  <1>1. IsFiniteSet(S) /\ Cardinality(S) = Lines
    <2>1. Lines \in Nat /\ 0 \in Int /\ Lines - 1 \in Int
      BY LinesAssumption
    <2> QED BY <2>1, FS_Interval
  <1>2. \A a, b : at(a) = at(b) <=> Index(a) = Index(b) /\ Tag(a) = Tag(b)
    OBVIOUS
  <1> HIDE DEF S, at
  <1>3. f \in Surjection(S, T)
    BY Zenon DEF Surjection
  <1>4. Cardinality(T) <= Cardinality(S) /\ IsFiniteSet(T)
        /\ (Cardinality(T) = Cardinality(S) <=> f \in Injection(S, T))
    <2> HIDE DEF f, T
    <2> QED BY <1>1, <1>3, FS_Surjection
  <1>5. f \in Injection(S, T) <=> \A a, b \in S : at(a) = at(b) => a = b
    <2>1. f \in [S -> T] /\ \A a \in S : f[a] = at(a)
      OBVIOUS
    <2> HIDE DEF f, T
    <2> QED BY <2>1, Zenon DEF Injection, IsInjective
  <1>6. FalseHits <=> Cardinality(T) < Lines
    BY Zenon DEF FalseHits, S, at
  <1>7. Cardinality(T) \in Nat /\ Lines \in Nat
    <2> HIDE DEF T
    <2> QED BY <1>4, FS_CardinalityType, LinesAssumption
  <1>8. FalseHits <=> ~(f \in Injection(S, T))
    <2> HIDE DEF T, f
    <2> QED BY <1>1, <1>4, <1>6, <1>7
  <1> HIDE DEF f, T
  <1>9. FalseHits <=> \E a, b \in S : at(a) = at(b) /\ a # b
    BY <1>5, <1>8
  <1> QED BY <1>2, <1>9, Zenon DEF S

\* The tag starts at the greatest power of two not above the set count.
LEMMA TagUnitIs ==
    ASSUME sets \in 1 .. Lines
    PROVE  TagUnit \in Bits /\ TagUnit <= sets /\ sets < 2 * TagUnit
  <1> DEFINE n == sets
             T == {n - p : p \in {q \in Bits : q <= n}}
  <1>0. Lines \in Nat /\ n \in Nat /\ 1 <= n /\ n <= Lines
    BY LinesAssumption
  <1> HIDE DEF n
  <1>1. \A p : p \in Bits <=> p \in Pos /\ p <= Lines /\ IsPow2(p)
    BY <1>0 DEF Bits, Pos
  <1>2. T \in SUBSET Nat /\ T # {}
    <2>1. 1 \in Bits
      BY <1>0, <1>1, Pow2One DEF Pos
    <2>2. \A p \in Bits : p \in Nat
      BY <1>1 DEF Pos
    <2> QED BY <1>0, <2>1, <2>2
  <1>3. PICK m \in T : \A k \in T : m <= k
    <2> HIDE DEF T
    <2> QED BY <1>2, LeastNat
  <1>4. PICK p \in Bits : p <= n /\ m = n - p
    OBVIOUS
  <1>5. p \in Pos /\ IsPow2(p)
    BY <1>1, <1>4
  <1>6. n < 2 * p
    <2>1. ASSUME 2 * p <= n PROVE FALSE
      <3>1. 2 * p \in Bits
        BY <1>0, <1>1, <1>5, <2>1, Pow2Twice DEF Pos
      <3>2. n - 2 * p \in T
        BY <2>1, <3>1
      <3>3. m <= n - 2 * p
        BY <1>3, <3>2
      <3> QED BY <1>0, <1>4, <1>5, <3>3 DEF Pos
    <2> QED BY <1>0, <1>5, <2>1 DEF Pos
  <1>7. \E q \in Bits : q <= sets /\ sets < 2 * q
    BY <1>4, <1>6 DEF n
  <1> QED BY <1>7, Zenon DEF TagUnit

(* Whatever chose the ways: with a power of two of sets no lines collide, and *)
(* with any other number of sets some do.                                     *)
LEMMA SetsDecide ==
    ASSUME sets \in 1 .. Lines
    PROVE  FalseHits <=> ~IsPow2(sets)
  <1> DEFINE s == sets
             u == TagUnit
  <1>1. Lines \in Nat /\ s \in Pos /\ s \in Nat /\ s <= Lines
    BY LinesAssumption DEF Pos
  <1>2. u \in Bits /\ u <= s /\ s < 2 * u
    BY TagUnitIs
  <1>3. \A p : p \in Bits <=> p \in Pos /\ p <= Lines /\ IsPow2(p)
    BY <1>1 DEF Bits, Pos
  <1>4. \A l, p : p \in Index(l) <=> p \in Bits /\ HasBit(l, p) /\ HasBit(s - 1, p)
    BY Zenon DEF Index
  <1>5. \A l : Tag(l) = l \div u
    BY DEF Tag
  <1>6. u \in Pos /\ IsPow2(u)
    BY <1>2, <1>3
  <1> HIDE DEF s, u
  <1>7. ASSUME IsPow2(s), NEW a \in 0 .. Lines - 1, NEW b \in 0 .. Lines - 1,
               Index(a) = Index(b), Tag(a) = Tag(b)
        PROVE  a = b
    <2>1. u = s
      <3>1. u < s => 2 * u <= s
        BY <1>1, <1>6, <1>7, Pow2Apart
      <3> QED BY <1>1, <1>2, <1>6, <3>1 DEF Pos
    <2>2. a \in Nat /\ b \in Nat /\ a \div s = b \div s
      BY <1>1, <1>5, <1>7, <2>1
    <2>3. ASSUME NEW p \in Pos, IsPow2(p), p < s
          PROVE  HasBit(a, p) <=> HasBit(b, p)
      <3>1. p \in Bits
        BY <1>1, <1>3, <2>3 DEF Pos
      <3>2. HasBit(s - 1, p)
        BY <1>1, <1>7, <2>3, AllOnes
      <3> QED BY <1>4, <1>7, <3>1, <3>2, Zenon
    <2> QED BY <1>1, <1>7, <2>2, <2>3, SameBits
  <1>8. ASSUME ~IsPow2(s)
        PROVE  \E a, b \in 0 .. Lines - 1 : a # b /\ Index(a) = Index(b) /\ Tag(a) = Tag(b)
    <2>1. u < s
      BY <1>1, <1>2, <1>6, <1>8 DEF Pos
    <2>2. PICK h \in Pos : IsPow2(h) /\ h < u /\ ~HasBit(s - 1, h)
      BY <1>1, <1>2, <1>6, <2>1, SomeZero
    <2>3. Index(h) = {}
      <3>1. ASSUME NEW p \in Index(h) PROVE FALSE
        <4>1. p \in Pos /\ IsPow2(p) /\ HasBit(h, p) /\ HasBit(s - 1, p)
          BY <1>3, <1>4, Zenon
        <4> QED BY <2>2, <4>1, OneBit
      <3> QED BY <3>1
    <2>4. ASSUME NEW p \in Pos PROVE 0 \div p = 0
      <3>1. 0 \in Nat /\ p \in Nat \ {0} /\ 0 * p = 0
        BY DEF Pos
      <3>2. 0 * p <= 0 /\ 0 < 0 * p + p
        BY <3>1
      <3> QED BY <3>1, <3>2, DivIs
    <2>5. Index(0) = {}
      <3>1. ASSUME NEW p \in Index(0) PROVE FALSE
        <4>1. p \in Pos /\ HasBit(0, p)
          BY <1>3, <1>4, Zenon
        <4> QED BY <2>4, <4>1 DEF HasBit
      <3> QED BY <3>1
    <2>6. Tag(0) = Tag(h)
      <3>1. h \div u = 0
        <4>1. h \in Nat /\ u \in Nat \ {0} /\ 0 \in Nat /\ 0 * u = 0
          BY <1>6 DEF Pos
        <4>2. 0 * u <= h /\ h < 0 * u + u
          BY <2>2, <4>1
        <4> QED BY <4>1, <4>2, DivIs
      <3> QED BY <1>5, <1>6, <2>4, <3>1
    <2>7. 0 \in 0 .. Lines - 1 /\ h \in 0 .. Lines - 1 /\ h # 0
      BY <1>1, <1>2, <1>6, <2>2 DEF Pos
    <2> QED BY <2>3, <2>5, <2>6, <2>7
  <1> QED BY <1>7, <1>8, Collide DEF s

\* What the run gives for its ways is not touched by the loops.
GivenInv ==
    run.opt # "auto" =>
        pc = "built" /\ ways = IF run.opt = "int" THEN run.ways ELSE DefaultWays

LEMMA InitGiven == Init => GivenInv
  BY DEF Init, GivenInv

LEMMA NextGiven == GivenInv /\ [Next]_vars => GivenInv'
  BY DEF GivenInv, Next, Halve, StartDoubling, Double, Built, BeyondBound, vars

LEMMA SetsFit ==
    ASSUME LlcInv, GivenInv, pc = "built", ways <= llc_lines
    PROVE  llc_lines \in Pos /\ ways \in Pos /\ sets \in 1 .. Lines
  <1>0. run \in Choices /\ run.n_cores \in Int /\ run.ways \in Pos /\ ways \in Int
        /\ run.opt \in {"auto", "default", "int"}
    BY Constants, LlcAssumption DEF LlcInv, TypeOK
  <1>1. run.n_cores \in Pos
    <2>1. ASSUME run.n_cores <= 0 PROVE FALSE
      <3>1. run.opt # "auto"
        BY <2>1 DEF LlcInv, NoCoresInv, NeverBuilt
      <3>2. ways \in Pos
        BY <1>0, <3>1, Constants DEF GivenInv
      <3>3. llc_lines <= 0 /\ llc_lines \in Int
        BY <1>0, <2>1, Constants, Z3 DEF llc_lines, Pos
      <3> QED BY <3>2, <3>3 DEF Pos
    <2> QED BY <1>0, <2>1 DEF Pos
  <1>2. llc_lines \in Pos
    BY <1>1, Constants, Product DEF llc_lines
  <1>3. ways \in Pos
    <2>1. CASE run.opt = "auto"
      <3>1. ways >= Floor
        BY <1>1, <2>1 DEF LlcInv, AutoInv, Pos
      <3> QED BY <1>0, <3>1, Constants DEF Pos
    <2>2. CASE run.opt # "auto"
      BY <1>0, <2>2, Constants DEF GivenInv
    <2> QED BY <2>1, <2>2
  <1>4. llc_lines <= Lines /\ Lines \in Nat
    BY <1>0, LinesAssumption DEF llc_lines
  <1> DEFINE a == llc_lines
             q == a \div ways
             r == a % ways
  <1>5. q \in Nat /\ r \in 0 .. ways - 1 /\ a = q * ways + r
    <2>1. a \in Nat /\ ways \in Nat \ {0}
      BY <1>2, <1>3 DEF Pos
    <2> QED BY <2>1, DivMod
  <1>6. q \in Pos
    <2> HIDE DEF q, r, a
    <2>1. q = 0 => q * ways = 0
      BY <1>3 DEF Pos
    <2>2. a \in Nat /\ ways \in Nat /\ ways <= a
      BY <1>2, <1>3 DEF Pos, a
    <2>3. q = 0 => a = r
      BY <1>5, <2>1
    <2> QED BY <1>5, <2>2, <2>3 DEF Pos
  <1>7. q <= a
    <2> HIDE DEF q, r
    <2>1. q <= q * ways /\ q * ways \in Pos
      BY <1>3, <1>6, Product
    <2>2. q * ways <= a
      <3> DEFINE c == q * ways
      <3>1. c \in Nat /\ a = c + r /\ r \in Nat
        BY <1>3, <1>5, <2>1 DEF Pos
      <3> HIDE DEF c, a
      <3>2. c <= a
        BY <3>1
      <3> QED BY <3>2 DEF c
    <2> QED BY <1>2, <1>6, <2>1, <2>2 DEF Pos
  <1>8. sets \in 1 .. Lines
    <2>1. sets = q
      BY DEF sets
    <2> HIDE DEF q
    <2> QED BY <1>2, <1>4, <1>6, <1>7, <2>1 DEF Pos
  <1> QED BY <1>2, <1>3, <1>8

(* For every number of cores: distinct lines stay distinct in the LLC exactly *)
(* when the set count is a power of two, and so they do under 'auto' and for  *)
(* the power-of-two core counts under the default.                            *)
THEOREM NoFalseHitsCorrect == Spec => []NoFalseHits
  <1>1. LlcInv /\ GivenInv /\ AutoIsMinimal => NoFalseHits
    <2> SUFFICES ASSUME LlcInv, GivenInv, AutoIsMinimal, pc = "built", ways <= llc_lines
                 PROVE  /\ FalseHits <=> ~IsPow2(sets)
                        /\ run.opt = "auto" => ~FalseHits
                        /\ run.opt = "default" /\ IsPow2(run.n_cores) => ~FalseHits
      BY DEF NoFalseHits
    <2>1. llc_lines \in Pos /\ ways \in Pos /\ sets \in 1 .. Lines
      BY SetsFit
    <2>2. FalseHits <=> ~IsPow2(sets)
      BY <2>1, SetsDecide
    <2>3. run.opt = "auto" => IsPow2(sets)
      BY DEF AutoIsMinimal, Pow2Sets, sets
    <2>4. ASSUME run.opt = "default", IsPow2(run.n_cores) PROVE IsPow2(sets)
      <3>1. ways = DefaultWays /\ IsPow2(ways)
        BY <2>4, LinesAssumption DEF GivenInv
      <3>2. IsPow2(llc_lines)
        <4>1. run.n_cores \in Pos /\ PerCoreLines \in Pos /\ IsPow2(PerCoreLines)
          BY <2>4, Constants DEF LlcInv, TypeOK, IsPow2, Pos
        <4> QED BY <2>4, <4>1, Pow2Product DEF llc_lines
      <3>3. PICK t \in Pos : llc_lines = t * ways
        BY <2>1, <3>1, <3>2, Pow2Divides
      <3>4. IsPow2(t)
        BY <2>1, <3>2, <3>3, Pow2Part
      <3>5. sets = t
        <4>1. llc_lines \in Nat /\ ways \in Nat \ {0} /\ t \in Nat
              /\ t * ways <= llc_lines /\ llc_lines < t * ways + ways
          BY <2>1, <3>3 DEF Pos
        <4> QED BY <4>1, DivIs DEF sets
      <3> QED BY <3>4, <3>5
    <2> QED BY <2>2, <2>3, <2>4
  <1>2. Spec => []LlcInv
    BY InitLlc, NextLlc, PTL DEF Spec
  <1>3. Spec => []GivenInv
    BY InitGiven, NextGiven, PTL DEF Spec
  <1> QED BY <1>1, <1>2, <1>3, AutoIsMinimalCorrect, PTL
===============================================================================
