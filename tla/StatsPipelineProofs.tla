-------------------------- MODULE StatsPipelineProofs -------------------------
(* From a finished simulation to the row, every number stays the one that the *)
(* simulator reported, and the two readers of the text agree.                 *)
EXTENDS StatsPipeline, FiniteSetTheorems, WellFoundedInduction, TLAPS
-------------------------------------------------------------------------------
(* Sums.  The library folds a function over its domain with a CHOOSE for the  *)
(* order; the sum is the one whatever is taken first.                         *)
LEMMA LeastNat ==
    ASSUME NEW T \in SUBSET Nat, T # {}
    PROVE  \E n \in T : \A m \in T : n <= m
  <1>1. PICK n \in T : \A m \in T : <<m, n>> \notin OpToRel(<, Nat)
    BY NatLessThanWellFounded, WFMin
  <1>2. ASSUME NEW m \in T, m < n PROVE <<m, n>> \in OpToRel(<, Nat)
    BY <1>2 DEF OpToRel
  <1>3. \A m \in T : ~(m < n)
    BY <1>1, <1>2, Zenon
  <1> QED BY <1>3

(* A set of finite sets has a smallest member.                                *)
LEMMA SmallestSet ==
    ASSUME NEW S, IsFiniteSet(S), NEW T \in SUBSET (SUBSET S), T # {}
    PROVE  \E s \in T : /\ IsFiniteSet(s)
                        /\ \A x \in s : s \ {x} \notin T
  <1> DEFINE Sizes == {Cardinality(s) : s \in T}
  <1>1. ASSUME NEW s \in T PROVE IsFiniteSet(s) /\ Cardinality(s) \in Nat
    <2>1. IsFiniteSet(s)
      BY FS_Subset
    <2> QED BY <2>1, FS_CardinalityType
  <1>2. Sizes \in SUBSET Nat /\ Sizes # {}
    BY <1>1
  <1>3. PICK n \in Sizes : \A m \in Sizes : n <= m
    <2> HIDE DEF Sizes
    <2> QED BY <1>2, LeastNat
  <1>4. PICK s \in T : n = Cardinality(s)
    OBVIOUS
  <1>5. ASSUME NEW x \in s, s \ {x} \in T PROVE FALSE
    <2>1. Cardinality(s \ {x}) = Cardinality(s) - 1
      BY <1>1, FS_RemoveElement
    <2>2. Cardinality(s) <= Cardinality(s \ {x})
      BY <1>3, <1>4, <1>5
    <2> QED BY <1>1, <2>1, <2>2
  <1> QED BY <1>1, <1>5

Pick(s) == CHOOSE x \in s : TRUE
Term(f, g, s) == IF s = {} THEN 0 ELSE f[Pick(s)] + g[s \ {Pick(s)}]
Iter(f, S) == CHOOSE g : g = [s \in SUBSET S |-> Term(f, g, s)]

LEMMA SumIsIter ==
    ASSUME NEW f
    PROVE  SumFunction(f) = Iter(f, DOMAIN f)[DOMAIN f]
  BY Zenon DEF SumFunction, SumFunctionOnSet, FoldFunctionOnSet, MapThenFoldSet, Iter, Term, Pick

LEMMA PickIn ==
    ASSUME NEW s, s # {}
    PROVE  Pick(s) \in s
  BY DEF Pick

LEMMA IterExists ==
    ASSUME NEW S, IsFiniteSet(S), NEW f, \A i \in S : f[i] \in Nat
    PROVE  \E g \in [SUBSET S -> Nat] : \A s \in SUBSET S : g[s] = Term(f, g, s)
  <1> DEFINE Small(n) == {s \in SUBSET S : Cardinality(s) <= n}
             Good(n) == \E g \in [Small(n) -> Nat] : \A s \in Small(n) : g[s] = Term(f, g, s)
             Bad == {n \in Nat : ~Good(n)}
  <1>1. \A s \in SUBSET S : IsFiniteSet(s) /\ Cardinality(s) \in Nat
    BY FS_Subset, FS_CardinalityType
  <1>2. Good(0)
    <2> DEFINE g == [s \in Small(0) |-> 0]
    <2>1. \A s \in Small(0) : s = {}
      BY <1>1, FS_EmptySet
    <2>2. g \in [Small(0) -> Nat] /\ \A s \in Small(0) : g[s] = Term(f, g, s)
      BY <2>1 DEF Term
    <2> QED BY <2>2
  <1>3. ASSUME NEW n \in Nat, Good(n) PROVE Good(n + 1)
    <2>1. PICK g \in [Small(n) -> Nat] : \A s \in Small(n) : g[s] = Term(f, g, s)
      BY <1>3
    <2> DEFINE h == [s \in Small(n + 1) |-> Term(f, g, s)]
    <2>2. ASSUME NEW s \in Small(n + 1), s # {}
          PROVE  Pick(s) \in S /\ s \ {Pick(s)} \in Small(n)
      <3>1. s \in SUBSET S /\ Cardinality(s) <= n + 1 /\ Pick(s) \in s
        BY <2>2, PickIn
      <3>2. Cardinality(s \ {Pick(s)}) = Cardinality(s) - 1
        BY <1>1, <3>1, FS_RemoveElement
      <3>3. Cardinality(s) \in Nat
        BY <1>1, <3>1
      <3> QED BY <3>1, <3>2, <3>3
    <2>3. ASSUME NEW s \in Small(n + 1) PROVE h[s] \in Nat
      BY <2>2 DEF Term
    <2>4. Small(n) \subseteq Small(n + 1)
      BY <1>1
    <2>5. ASSUME NEW s \in Small(n) PROVE h[s] = g[s]
      BY <2>1, <2>4
    <2>6. ASSUME NEW s \in Small(n + 1) PROVE h[s] = Term(f, h, s)
      <3>1. h[s] = Term(f, g, s)
        OBVIOUS
      <3>2. CASE s = {}
        BY <3>1, <3>2 DEF Term
      <3>3. CASE s # {}
        <4>1. h[s \ {Pick(s)}] = g[s \ {Pick(s)}]
          BY <2>2, <2>5, <3>3
        <4> HIDE DEF h
        <4> QED BY <3>1, <3>3, <4>1 DEF Term
      <3> QED BY <3>2, <3>3
    <2>7. h \in [Small(n + 1) -> Nat]
      BY <2>3
    <2> HIDE DEF h, Small
    <2> QED BY <2>6, <2>7
  <1>4. ASSUME Bad # {} PROVE FALSE
    <2>1. PICK least \in Bad : \A m \in Bad : least <= m
      <3>1. Bad \in SUBSET Nat
        OBVIOUS
      <3> HIDE DEF Bad
      <3> QED BY <1>4, <3>1, LeastNat
    <2> HIDE DEF Good
    <2>2. least \in Nat /\ ~Good(least) /\ least # 0
      BY <1>2
    <2>3. least - 1 \in Nat /\ ~(least - 1 \in Bad)
      BY <2>1, <2>2
    <2>4. Good((least - 1) + 1)
      BY <1>3, <2>3
    <2>5. (least - 1) + 1 = least
      BY <2>2
    <2> QED BY <2>2, <2>4, <2>5
  <1>5. Good(Cardinality(S))
    <2>1. Cardinality(S) \in Nat
      BY FS_CardinalityType
    <2> HIDE DEF Good
    <2> QED BY <1>4, <2>1
  <1>6. Small(Cardinality(S)) = SUBSET S
    BY FS_Subset
  <1>7. PICK g \in [SUBSET S -> Nat] : \A s \in SUBSET S : g[s] = Term(f, g, s)
    <2> HIDE DEF Small
    <2> QED BY <1>5, <1>6
  <1> QED BY <1>7

LEMMA IterStep ==
    ASSUME NEW S, IsFiniteSet(S), NEW f, \A i \in S : f[i] \in Nat
    PROVE  \A s \in SUBSET S :
             Iter(f, S)[s] \in Nat /\ Iter(f, S)[s] = Term(f, Iter(f, S), s)
  <1> DEFINE G == Iter(f, S)
  <1>1. PICK g \in [SUBSET S -> Nat] : \A s \in SUBSET S : g[s] = Term(f, g, s)
    BY IterExists
  <1>2. G = [s \in SUBSET S |-> Term(f, G, s)]
    <2>1. g = [s \in SUBSET S |-> g[s]]
      OBVIOUS
    <2>2. [s \in SUBSET S |-> g[s]] = [s \in SUBSET S |-> Term(f, g, s)]
      BY <1>1, Zenon
    <2>3. g = [s \in SUBSET S |-> Term(f, g, s)]
      BY <2>1, <2>2, Zenon
    <2> QED BY <2>3, Zenon DEF Iter
  <1> DEFINE Off == {s \in SUBSET S : G[s] # g[s]}
  <1> HIDE DEF G
  <1>3. \A s \in SUBSET S : G[s] = Term(f, G, s)
    BY <1>2, Zenon
  <1>4. \A s \in SUBSET S : g[s] = Term(f, g, s)
    BY <1>1
  <1>5. ASSUME Off # {} PROVE FALSE
    <2>1. PICK s \in Off : \A x \in s : s \ {x} \notin Off
      <3>1. Off \in SUBSET (SUBSET S)
        OBVIOUS
      <3> HIDE DEF Off
      <3> QED BY <1>5, <3>1, SmallestSet
    <2>2. s # {}
      BY <1>3, <1>4 DEF Term
    <2>3. Pick(s) \in s
      BY <2>2, PickIn
    <2>4. G[s \ {Pick(s)}] = g[s \ {Pick(s)}]
      BY <2>1, <2>3
    <2>5. Term(f, G, s) = Term(f, g, s)
      BY <2>4 DEF Term
    <2> QED BY <1>3, <1>4, <2>5
  <1>6. \A s \in SUBSET S : G[s] \in Nat
    BY <1>5
  <1> QED BY <1>3, <1>6 DEF G

(* Whatever is taken out first.                                               *)
LEMMA IterAny ==
    ASSUME NEW S, IsFiniteSet(S), NEW f, \A i \in S : f[i] \in Nat,
           NEW s \in SUBSET S, NEW x \in s
    PROVE  Iter(f, S)[s] = f[x] + Iter(f, S)[s \ {x}]
  <1> DEFINE G == Iter(f, S)
             Off == {t \in SUBSET S : \E y \in t : G[t] # f[y] + G[t \ {y}]}
  <1>1. \A t \in SUBSET S : G[t] \in Nat /\ G[t] = Term(f, G, t)
    BY IterStep
  <1> HIDE DEF G
  <1>2. ASSUME Off # {} PROVE FALSE
    <2>1. PICK t \in Off : \A y \in t : t \ {y} \notin Off
      <3>1. Off \in SUBSET (SUBSET S)
        OBVIOUS
      <3> HIDE DEF Off
      <3> QED BY <1>2, <3>1, SmallestSet
    <2>2. PICK y \in t : G[t] # f[y] + G[t \ {y}]
      OBVIOUS
    <2> DEFINE p == Pick(t)
    <2>3. p \in t /\ G[t] = f[p] + G[t \ {p}]
      BY <1>1, PickIn DEF Term
    <2>4. p # y
      BY <2>2, <2>3
    <2> HIDE DEF p
    <2>5. G[t \ {p}] = f[y] + G[(t \ {p}) \ {y}]
      <3>1. t \ {p} \in SUBSET S /\ t \ {p} \notin Off /\ y \in t \ {p}
        BY <2>1, <2>3, <2>4
      <3> QED BY <3>1
    <2>6. G[t \ {y}] = f[p] + G[(t \ {y}) \ {p}]
      <3>1. t \ {y} \in SUBSET S /\ t \ {y} \notin Off /\ p \in t \ {y}
        BY <2>1, <2>3, <2>4
      <3> QED BY <3>1
    <2> DEFINE rest == (t \ {p}) \ {y}
    <2>7. rest \in SUBSET S /\ (t \ {y}) \ {p} = rest
      OBVIOUS
    <2>8. G[rest] \in Nat /\ f[p] \in Nat /\ f[y] \in Nat
      BY <1>1, <2>3, <2>7
    <2> HIDE DEF rest
    <2>9. /\ G[t] = f[p] + G[t \ {p}] /\ G[t \ {p}] = f[y] + G[rest]
          /\ G[t \ {y}] = f[p] + G[rest]
      BY <2>3, <2>5, <2>6, <2>7, Zenon DEF rest
    <2>10. G[t] = f[y] + G[t \ {y}]
      BY <2>8, <2>9
    <2> QED BY <2>2, <2>10
  <1>3. s \notin Off
    BY <1>2
  <1>4. G[s] = f[x] + G[s \ {x}]
    BY <1>3
  <1> QED BY <1>4 DEF G

(* Two functions that differ only in where they are zero or not defined have  *)
(* the same sum.                                                              *)
LEMMA SumAgrees ==
    ASSUME NEW S, NEW T, IsFiniteSet(S), IsFiniteSet(T),
           NEW f, NEW g, DOMAIN f = S, DOMAIN g = T,
           \A i \in S : f[i] \in Nat, \A i \in T : g[i] \in Nat,
           \A i \in S \cap T : f[i] = g[i],
           \A i \in S \ T : f[i] = 0, \A i \in T \ S : g[i] = 0
    PROVE  SumFunction(f) = SumFunction(g) /\ SumFunction(f) \in Nat
  <1> DEFINE F == Iter(f, S)
             G == Iter(g, T)
             Off == {u \in SUBSET (S \cup T) : F[u \cap S] # G[u \cap T]}
  <1>1. /\ \A s \in SUBSET S : F[s] \in Nat /\ F[s] = Term(f, F, s)
        /\ \A s \in SUBSET T : G[s] \in Nat /\ G[s] = Term(g, G, s)
    <2>1. \A s \in SUBSET S : F[s] \in Nat /\ F[s] = Term(f, F, s)
      BY IterStep
    <2>2. \A s \in SUBSET T : G[s] \in Nat /\ G[s] = Term(g, G, s)
      BY IterStep
    <2> QED BY <2>1, <2>2
  <1>2. \A s \in SUBSET S : \A x \in s : F[s] = f[x] + F[s \ {x}]
    <2>1. ASSUME NEW s \in SUBSET S, NEW x \in s
          PROVE  F[s] = f[x] + F[s \ {x}]
      BY IterAny, Z3
    <2> QED BY <2>1
  <1>3. \A s \in SUBSET T : \A x \in s : G[s] = g[x] + G[s \ {x}]
    <2>1. ASSUME NEW s \in SUBSET T, NEW x \in s
          PROVE  G[s] = g[x] + G[s \ {x}]
      BY IterAny
    <2> QED BY <2>1
  <1>4. SumFunction(f) = F[S] /\ SumFunction(g) = G[T]
    BY SumIsIter
  <1> HIDE DEF F, G
  <1>5. ASSUME Off # {} PROVE FALSE
    <2>1. PICK u \in Off : \A y \in u : u \ {y} \notin Off
      <3>1. Off \in SUBSET (SUBSET (S \cup T)) /\ IsFiniteSet(S \cup T)
        BY FS_Union
      <3> HIDE DEF Off
      <3> QED BY <1>5, <3>1, SmallestSet
    <2>2. u # {}
      <3>1. F[{}] = 0 /\ G[{}] = 0
        BY <1>1 DEF Term
      <3>2. ASSUME u = {} PROVE FALSE
        <4>1. u \cap S = {} /\ u \cap T = {}
          BY <3>2
        <4> QED BY <3>1, <4>1
      <3> QED BY <3>2
    <2>3. PICK x \in u : TRUE
      BY <2>2
    <2> DEFINE v == u \ {x}
    <2>4. v \in SUBSET (S \cup T) /\ v \notin Off
      BY <2>1
    <2>5. F[v \cap S] = G[v \cap T]
      BY <2>4
    <2>6. /\ v \cap S \in SUBSET S /\ v \cap T \in SUBSET T
          /\ v \cap S = (u \cap S) \ {x} /\ v \cap T = (u \cap T) \ {x}
      OBVIOUS
    <2>7. /\ x \in S => F[u \cap S] = f[x] + F[v \cap S]
          /\ x \notin S => F[u \cap S] = F[v \cap S]
      <3>1. x \notin S => u \cap S = v \cap S
        OBVIOUS
      <3>2. x \in S => x \in u \cap S /\ u \cap S \in SUBSET S
        OBVIOUS
      <3>3. x \in S => F[u \cap S] = f[x] + F[(u \cap S) \ {x}]
        BY <1>2, <3>2, Zenon
      <3> QED BY <2>6, <3>1, <3>3, Zenon
    <2>8. /\ x \in T => G[u \cap T] = g[x] + G[v \cap T]
          /\ x \notin T => G[u \cap T] = G[v \cap T]
      <3>1. x \notin T => u \cap T = v \cap T
        OBVIOUS
      <3>2. x \in T => x \in u \cap T /\ u \cap T \in SUBSET T
        OBVIOUS
      <3>3. x \in T => G[u \cap T] = g[x] + G[(u \cap T) \ {x}]
        BY <1>3, <3>2, Zenon
      <3> QED BY <2>6, <3>1, <3>3, Zenon
    <2>9. F[v \cap S] \in Nat /\ G[v \cap T] \in Nat
      BY <1>1, <2>6
    <2>10. F[u \cap S] # G[u \cap T] /\ x \in S \cup T
      OBVIOUS
    <2> HIDE DEF v, Off
    <2> QED BY <2>5, <2>7, <2>8, <2>9, <2>10
  <1>6. S \cup T \notin Off
    BY <1>5
  <1>7. (S \cup T) \cap S = S /\ (S \cup T) \cap T = T
    OBVIOUS
  <1>8. F[S] = G[T]
    BY <1>6, <1>7
  <1>9. F[S] \in Nat
    BY <1>1
  <1> QED BY <1>4, <1>8, <1>9

-------------------------------------------------------------------------------
(* What the nested stats hold of the keys that the two readers look for.      *)
ReadKeys == CounterKeys \cup FloatKeys \cup CoreKeys \cup TotalKeys

Sources(key) ==
    IF key \in CoreKeys THEN DOMAIN stats.frontend[key]
    ELSE IF key \in TotalKeys THEN {i \in {NoIndex} : key \in DOMAIN stats.total}
    ELSE {i \in Channels : key \in DOMAIN stats.controller[i]}
Value(key, i) ==
    IF key \in CoreKeys THEN stats.frontend[key][i]
    ELSE IF key \in TotalKeys THEN stats.total[key]
    ELSE stats.controller[i][key]

LineOf(key, i) == [key |-> key, suffix |-> i, num |-> Value(key, i)]

\* The places a sweep reads a key from, and the array it makes of them.
Ints(key) == {i \in Sources(key) : key \in FloatKeys \/ Value(key, i).t = "int"}
Last(key) == IF Ints(key) = {} THEN -1 ELSE Max(Ints(key))
ArrayOf(key) ==
    [i \in 0 .. Last(key) |-> IF i \in Ints(key) THEN Value(key, i) ELSE Fill(key)]
TotalOf(key) == IF Ints(key) = {} THEN None ELSE stats.total[key].v

-------------------------------------------------------------------------------
(* The inductive invariant.  What is read of each key is passed on from stage *)
(* to stage as the simulator reported it.                                     *)
FlatOK ==
    pc = "flat" => \A key \in ReadKeys :
        /\ {x \in DOMAIN flat : x[1] = key} = {<<key, i>> : i \in Sources(key)}
        /\ \A i \in Sources(key) : flat[<<key, i>>] = Value(key, i)

OnFile == pc \notin {"simulated", "flat"}
TextOK ==
    OnFile => \A key \in ReadKeys :
        {l \in text : l.key = key} = {LineOf(key, i) : i \in Sources(key)}

MetricsOK ==
    pc = "parsed" =>
        /\ \A key \in CounterKeys \cup FloatKeys \cup CoreKeys : metrics[key] = ArrayOf(key)
        /\ \A key \in TotalKeys : metrics[key] = TotalOf(key)

\* The file no longer changes, so the comparison does not age.
ComparedOK == compared # Nothing => OnFile /\ compared = Compare!summarize

TotalsOK ==
    pc = "summarized" => summary.total_read_reqs = TotalOf("total_num_read_requests")

IInv ==
    /\ stats \in Stats
    /\ FlatOK /\ TextOK /\ MetricsOK /\ ComparedOK /\ TotalsOK
    /\ ChannelsKeepTheirNumbers /\ RuntimeIsSlowestCore

-------------------------------------------------------------------------------
(* The keys.                                                                  *)
ChannelKeys == CounterKeys \cup FloatKeys
ArrayKeys == ChannelKeys \cup CoreKeys

LEMMA Keys ==
    /\ ReadKeys = ArrayKeys \cup TotalKeys
    /\ ArrayKeys \cap TotalKeys = {} /\ ChannelKeys \cap CoreKeys = {}
    /\ CounterKeys \cap FloatKeys = {}
    /\ CoreKeys \cap FloatKeys = {} /\ TotalKeys \cap FloatKeys = {}
    /\ PerCore \cap ReadKeys = {} /\ "memory_system_cycles" \notin ReadKeys
  BY DEF ReadKeys, ArrayKeys, ChannelKeys, CounterKeys, FloatKeys, CoreKeys,
         TotalKeys, PerCore

(* A finite set of numbers has a greatest.                                    *)
LEMMA MaxIs ==
    ASSUME NEW S \in SUBSET Int, IsFiniteSet(S), S # {}
    PROVE  Max(S) \in S /\ \A y \in S : y <= Max(S)
  <1> DEFINE Top(s) == \E x \in s : \A y \in s : x >= y
             Off == {s \in SUBSET S : s # {} /\ ~Top(s)}
  <1>1. ASSUME Off # {} PROVE FALSE
    <2>1. PICK s \in Off : \A x \in s : s \ {x} \notin Off
      <3>1. Off \in SUBSET (SUBSET S)
        OBVIOUS
      <3> HIDE DEF Off
      <3> QED BY <1>1, <3>1, SmallestSet
    <2>2. PICK x \in s : TRUE
      OBVIOUS
    <2>3. s \ {x} # {}
      <3>1. ASSUME s \ {x} = {} PROVE Top(s)
        BY <2>2, <3>1
      <3> QED BY <3>1
    <2>4. Top(s \ {x})
      <3> HIDE DEF Top
      <3> QED BY <2>1, <2>2, <2>3
    <2>5. PICK m \in s \ {x} : \A y \in s \ {x} : m >= y
      BY <2>4
    <2>6. Top(s)
      <3>1. CASE m >= x
        <4>1. \A y \in s : m >= y
          BY <2>5, <3>1
        <4> QED BY <4>1
      <3>2. CASE ~(m >= x)
        <4>1. \A y \in s : x >= y
          BY <2>5, <3>2
        <4> QED BY <2>2, <4>1
      <3> QED BY <3>1, <3>2
    <2> QED BY <2>6
  <1>2. Top(S)
    <2>1. S \notin Off
      BY <1>1
    <2> HIDE DEF Top
    <2> QED BY <2>1
  <1>3. Max(S) \in S /\ \A y \in S : Max(S) >= y
    BY <1>2, Zenon DEF Max
  <1>4. \A y \in S : y \in Int
    OBVIOUS
  <1> QED BY <1>3, <1>4

(* What is reported, and where.                                               *)
LEMMA StatsTypes ==
    ASSUME stats \in Stats
    PROVE  /\ stats.channels \in Nat /\ Channels \in SUBSET Nat /\ IsFiniteSet(Channels)
           /\ \A key \in CoreKeys : /\ IsFiniteSet(Sources(key))
                                    /\ Sources(key) = 0 .. Cardinality(Sources(key)) - 1
           /\ \A key \in ChannelKeys : Sources(key) \in SUBSET Channels
           /\ \A key \in ArrayKeys : Sources(key) \in SUBSET Nat /\ IsFiniteSet(Sources(key))
           /\ \A key \in ReadKeys : \A i \in Sources(key) : Value(key, i) \in Number
           /\ \A i \in Channels : DOMAIN stats.controller[i] \cap (CoreKeys \cup TotalKeys) = {}
  <1>1. /\ DOMAIN stats.total \subseteq TotalKeys /\ Numbers(stats.total)
        /\ DOMAIN stats.frontend = CoreKeys
        /\ \A k \in CoreKeys :
             /\ IsFiniteSet(DOMAIN stats.frontend[k])
             /\ DOMAIN stats.frontend[k] = 0 .. Cardinality(DOMAIN stats.frontend[k]) - 1
             /\ Numbers(stats.frontend[k])
        /\ stats.channels \in Nat
        /\ DOMAIN stats.controller = Channels
        /\ \A i \in Channels :
             Numbers(stats.controller[i])
             /\ DOMAIN stats.controller[i] \cap (CoreKeys \cup TotalKeys) = {}
    BY StatsAssumption, Zenon DEF Channels
  <1>2. Channels \in SUBSET Nat /\ IsFiniteSet(Channels)
    <2>1. 0 \in Int /\ stats.channels - 1 \in Int
      BY <1>1
    <2>2. IsFiniteSet(Channels)
      BY <2>1, FS_Interval DEF Channels
    <2> QED BY <2>2 DEF Channels
  <1>3. ASSUME NEW key \in CoreKeys
        PROVE  /\ Sources(key) = DOMAIN stats.frontend[key]
               /\ IsFiniteSet(Sources(key))
               /\ Sources(key) = 0 .. Cardinality(Sources(key)) - 1
               /\ Sources(key) \in SUBSET Nat
    <2>1. Sources(key) = DOMAIN stats.frontend[key]
      BY DEF Sources
    <2>2. IsFiniteSet(Sources(key)) /\ Sources(key) = 0 .. Cardinality(Sources(key)) - 1
      BY <1>1, <2>1
    <2>3. 0 .. Cardinality(Sources(key)) - 1 \in SUBSET Nat
      OBVIOUS
    <2> QED BY <2>1, <2>2, <2>3, Zenon
  <1>4. ASSUME NEW key \in ChannelKeys
        PROVE  /\ Sources(key) = {i \in Channels : key \in DOMAIN stats.controller[i]}
               /\ Sources(key) \in SUBSET Channels
               /\ Sources(key) \in SUBSET Nat /\ IsFiniteSet(Sources(key))
    <2>1. key \notin CoreKeys /\ key \notin TotalKeys
      BY Keys DEF ArrayKeys
    <2>2. Sources(key) = {i \in Channels : key \in DOMAIN stats.controller[i]}
      BY <2>1 DEF Sources
    <2>3. Sources(key) \in SUBSET Channels
      BY <2>2
    <2> QED BY <1>2, <2>2, <2>3, FS_Subset
  <1>5. ASSUME NEW key \in ReadKeys, NEW i \in Sources(key) PROVE Value(key, i) \in Number
    <2>1. CASE key \in CoreKeys
      BY <1>1, <1>3, <2>1 DEF Value, Numbers
    <2>2. CASE key \in ChannelKeys
      <3>1. key \notin CoreKeys /\ key \notin TotalKeys
        BY <2>2, Keys DEF ArrayKeys
      <3>2. i \in Channels /\ key \in DOMAIN stats.controller[i]
        BY <1>4, <2>2
      <3>3. stats.controller[i][key] \in Number
        BY <1>1, <3>2 DEF Numbers
      <3> QED BY <3>1, <3>3 DEF Value
    <2>3. CASE key \in TotalKeys
      <3>1. key \notin CoreKeys
        BY <2>3, Keys DEF ArrayKeys
      <3>2. key \in DOMAIN stats.total
        BY <2>3, <3>1 DEF Sources
      <3> QED BY <1>1, <2>3, <3>1, <3>2 DEF Value, Numbers
    <2> QED BY <2>1, <2>2, <2>3, Keys DEF ArrayKeys
  <1> QED BY <1>1, <1>2, <1>3, <1>4, <1>5 DEF ArrayKeys

(* The last place of a key that is read, -1 when there is none.               *)
LEMMA LastIs ==
    ASSUME stats \in Stats, NEW key \in ArrayKeys
    PROVE  /\ Last(key) \in Int /\ -1 <= Last(key)
           /\ Ints(key) \in SUBSET (0 .. Last(key)) /\ Ints(key) \in SUBSET Sources(key)
           /\ Ints(key) # {} => Last(key) \in Ints(key)
           /\ IsFiniteSet(0 .. Last(key)) /\ Cardinality(0 .. Last(key)) = Last(key) + 1
  <1>1. Ints(key) \in SUBSET Sources(key) /\ Ints(key) \in SUBSET Nat /\ IsFiniteSet(Ints(key))
    <2>1. Sources(key) \in SUBSET Nat /\ IsFiniteSet(Sources(key))
      BY StatsTypes
    <2>2. Ints(key) \in SUBSET Sources(key)
      BY DEF Ints
    <2> QED BY <2>1, <2>2, FS_Subset
  <1>2. CASE Ints(key) = {}
    <2>1. Last(key) = -1
      BY <1>2 DEF Last
    <2>2. 0 .. -1 = {}
      OBVIOUS
    <2> QED BY <1>1, <1>2, <2>1, <2>2, FS_EmptySet
  <1>3. CASE Ints(key) # {}
    <2>1. Last(key) = Max(Ints(key)) /\ Ints(key) \in SUBSET Int
      BY <1>1, <1>3 DEF Last
    <2>2. Last(key) \in Ints(key) /\ \A y \in Ints(key) : y <= Last(key)
      BY <1>1, <1>3, <2>1, MaxIs
    <2>3. Last(key) \in Nat
      BY <1>1, <2>2
    <2>4. \A y \in Ints(key) : y \in 0 .. Last(key)
      BY <1>1, <2>2, <2>3
    <2>5. IsFiniteSet(0 .. Last(key)) /\ Cardinality(0 .. Last(key)) = Last(key) + 1
      <3>1. 0 \in Int /\ Last(key) \in Int
        BY <2>3
      <3>2. IsFiniteSet(0 .. Last(key))
        BY <3>1, FS_Interval
      <3>3. Cardinality(0 .. Last(key)) = IF 0 > Last(key) THEN 0 ELSE Last(key) - 0 + 1
        BY <3>1, FS_Interval
      <3> QED BY <2>3, <3>2, <3>3
    <2> QED BY <1>1, <2>2, <2>3, <2>4, <2>5
  <1> QED BY <1>2, <1>3

-------------------------------------------------------------------------------
(* The text, as the sweeps read it.                                           *)
LEMMA Lines ==
    ASSUME TextOK, OnFile, NEW key \in ReadKeys
    PROVE  /\ \A i \in Sources(key) : LineOf(key, i) \in text
           /\ \A l \in text : l.key = key => \E i \in Sources(key) : l = LineOf(key, i)
           /\ \A i : LineOf(key, i).key = key /\ LineOf(key, i).suffix = i
                       /\ LineOf(key, i).num = Value(key, i)
  <1>1. {l \in text : l.key = key} = {LineOf(key, i) : i \in Sources(key)}
    BY DEF TextOK
  <1>2. \A i \in Sources(key) : LineOf(key, i) \in text
    BY <1>1, Zenon
  <1>3. \A l \in text : l.key = key => \E i \in Sources(key) : l = LineOf(key, i)
    BY <1>1, Zenon
  <1>4. \A i : LineOf(key, i).key = key /\ LineOf(key, i).suffix = i
                 /\ LineOf(key, i).num = Value(key, i)
    BY DEF LineOf
  <1> QED BY <1>2, <1>3, <1>4, Zenon

LEMMA MatchesAre ==
    ASSUME TextOK, OnFile, NEW key \in ReadKeys
    PROVE  /\ \A i \in Ints(key) : LineOf(key, i) \in Matches(key)
           /\ \A l \in Matches(key) : \E i \in Ints(key) : l = LineOf(key, i)
           /\ {l.suffix : l \in Matches(key)} = Ints(key)
           /\ Matches(key) = {} <=> Ints(key) = {}
  <1>1. ASSUME NEW i \in Ints(key) PROVE LineOf(key, i) \in Matches(key)
    <2>1. i \in Sources(key) /\ (key \in FloatKeys \/ Value(key, i).t = "int")
      BY DEF Ints
    <2>2. LineOf(key, i) \in text /\ LineOf(key, i).key = key /\ LineOf(key, i).num = Value(key, i)
      BY <2>1, Lines, Zenon
    <2> QED BY <2>1, <2>2, Zenon DEF Matches
  <1>2. ASSUME NEW l \in Matches(key) PROVE \E i \in Ints(key) : l = LineOf(key, i)
    <2>1. l \in text /\ l.key = key /\ (key \in FloatKeys \/ l.num.t = "int")
      BY DEF Matches
    <2>2. PICK i \in Sources(key) : l = LineOf(key, i)
      BY <2>1, Lines, Zenon
    <2>3. l.num = Value(key, i)
      BY <2>2, Lines, Zenon
    <2>4. i \in Ints(key)
      BY <2>1, <2>3, Zenon DEF Ints
    <2> QED BY <2>2, <2>4
  <1>3. \A i : LineOf(key, i).suffix = i
    BY DEF LineOf
  <1>4. \A i : i \in {l.suffix : l \in Matches(key)} <=> i \in Ints(key)
    BY <1>1, <1>2, <1>3, Zenon
  <1>5. {l.suffix : l \in Matches(key)} = Ints(key)
    BY <1>4, Zenon
  <1>6. Matches(key) = {} <=> Ints(key) = {}
    BY <1>1, <1>2, Zenon
  <1> QED BY <1>1, <1>2, <1>5, <1>6, Zenon

LEMMA ArrayIs ==
    ASSUME TextOK, OnFile, NEW key \in ArrayKeys
    PROVE  Array(key) = ArrayOf(key)
  <1>1. key \in ReadKeys
    BY Keys
  <1> DEFINE At(i) == CHOOSE l \in Matches(key) : l.suffix = i
  <1>2. (IF Matches(key) = {} THEN -1 ELSE Max({l.suffix : l \in Matches(key)})) = Last(key)
    BY <1>1, MatchesAre, Zenon DEF Last
  <1>3. ASSUME NEW i
        PROVE  /\ (\E l \in Matches(key) : l.suffix = i) <=> i \in Ints(key)
               /\ i \in Ints(key) => At(i).num = Value(key, i)
    <2>1. \A k : LineOf(key, k).suffix = k /\ LineOf(key, k).num = Value(key, k)
      BY DEF LineOf
    <2> HIDE DEF At
    <2>0. /\ \A k \in Ints(key) : LineOf(key, k) \in Matches(key)
          /\ \A l \in Matches(key) : \E k \in Ints(key) : l = LineOf(key, k)
      BY <1>1, MatchesAre, Zenon
    <2>2. (\E l \in Matches(key) : l.suffix = i) <=> i \in Ints(key)
      BY <2>0, <2>1, Zenon
    <2>3. ASSUME i \in Ints(key) PROVE At(i).num = Value(key, i)
      <3>1. At(i) \in Matches(key) /\ At(i).suffix = i
        BY <2>2, <2>3, Zenon DEF At
      <3>2. PICK k \in Ints(key) : At(i) = LineOf(key, k)
        BY <2>0, <3>1, Zenon
      <3>3. k = i
        BY <2>1, <3>1, <3>2, Zenon
      <3> QED BY <2>1, <3>2, <3>3, Zenon
    <2> QED BY <2>2, <2>3
  <1>4. Array(key) = [i \in 0 .. Last(key) |->
                        IF \E l \in Matches(key) : l.suffix = i
                        THEN At(i).num ELSE Fill(key)]
    BY <1>2, Zenon DEF Array
  <1> HIDE DEF At
  <1>5. \A i : (IF \E l \in Matches(key) : l.suffix = i THEN At(i).num ELSE Fill(key))
                 = (IF i \in Ints(key) THEN Value(key, i) ELSE Fill(key))
    BY <1>3, Zenon
  <1> QED BY <1>4, <1>5, Zenon DEF ArrayOf

LEMMA ScalarIs ==
    ASSUME TextOK, OnFile, NEW key \in TotalKeys
    PROVE  Scalar(key) = TotalOf(key)
  <1>1. key \in ReadKeys /\ key \notin CoreKeys
    BY Keys DEF ArrayKeys
  <1>2. \A i \in Ints(key) : LineOf(key, i).num = stats.total[key]
    BY <1>1, Zenon DEF LineOf, Value
  <1>3. ASSUME Matches(key) # {}
        PROVE  (CHOOSE l \in Matches(key) : TRUE).num = stats.total[key]
    <2>1. (CHOOSE l \in Matches(key) : TRUE) \in Matches(key)
      BY <1>3, Zenon
    <2> QED BY <1>1, <1>2, <2>1, MatchesAre, Zenon
  <1>4. Matches(key) = {} <=> Ints(key) = {}
    BY <1>1, MatchesAre
  <1> QED BY <1>3, <1>4, Zenon DEF Scalar, TotalOf

(* What the summary reads of an array.                                        *)
LEMMA ArrGetIs ==
    ASSUME stats \in Stats, MetricsOK, pc = "parsed",
           NEW key \in CounterKeys \cup CoreKeys
    PROVE  /\ DOMAIN metrics[key] = 0 .. Last(key) /\ Len0(key) = Last(key) + 1
           /\ \A i \in 0 .. Last(key) :
                metrics[key][i].v = IF i \in Ints(key) THEN Value(key, i).v ELSE 0
           /\ \A i : ArrGet(key, i) = IF i \in Ints(key) THEN Value(key, i).v ELSE 0
           /\ \A i : ArrGet(key, i) \in Nat
  <1>1. key \in ArrayKeys /\ key \notin FloatKeys /\ key \in ReadKeys
    BY Keys DEF ArrayKeys, ChannelKeys
  <1>2. metrics[key] = [i \in 0 .. Last(key) |->
                          IF i \in Ints(key) THEN Value(key, i) ELSE Fill(key)]
    BY <1>1 DEF MetricsOK, ArrayOf, ArrayKeys, ChannelKeys
  <1>3. Fill(key).v = 0
    BY DEF Fill
  <1>4. DOMAIN metrics[key] = 0 .. Last(key)
    BY <1>2, Zenon
  <1>5. \A i \in 0 .. Last(key) :
          metrics[key][i].v = IF i \in Ints(key) THEN Value(key, i).v ELSE 0
    BY <1>2, <1>3, Zenon
  <1>6. Ints(key) \in SUBSET (0 .. Last(key))
    BY <1>1, LastIs
  <1>7. \A i : ArrGet(key, i) = IF i \in Ints(key) THEN Value(key, i).v ELSE 0
    BY <1>4, <1>5, <1>6, Zenon DEF ArrGet
  <1>8. \A i \in Ints(key) : Value(key, i).v \in Nat
    <2>1. \A i \in Ints(key) : Value(key, i) \in Number
      BY <1>1, StatsTypes, Zenon DEF Ints
    <2> QED BY <2>1 DEF Number
  <1>9. \A i : ArrGet(key, i) \in Nat
    <2>1. 0 \in Nat
      OBVIOUS
    <2> QED BY <2>1, <1>7, <1>8, Zenon
  <1>10. Len0(key) = Last(key) + 1
    BY <1>1, <1>4, LastIs DEF Len0
  <1> QED BY <1>4, <1>5, <1>7, <1>9, <1>10

(* ... is what the channel reports.                                           *)
LEMMA ReportedIs ==
    ASSUME stats \in Stats, NEW key \in CounterKeys
    PROVE  /\ \A i \in Ints(key) : i \in Channels
           /\ \A i \in Channels :
                Reported(key, i) = IF i \in Ints(key) THEN Value(key, i).v ELSE 0
           /\ \A i \in Channels : Reported(key, i) \in Nat
  <1>1. key \in ChannelKeys /\ key \in ReadKeys /\ key \notin CoreKeys /\ key \notin TotalKeys
        /\ key \notin FloatKeys
    BY Keys DEF ArrayKeys, ChannelKeys
  <1>2. Sources(key) = {i \in Channels : key \in DOMAIN stats.controller[i]}
        /\ \A i : Value(key, i) = stats.controller[i][key]
    BY <1>1 DEF Sources, Value
  <1>3. \A i : i \in Ints(key) <=> /\ i \in Channels /\ key \in DOMAIN stats.controller[i]
                                   /\ stats.controller[i][key].t = "int"
    <2>1. \A i : i \in Ints(key) <=> i \in Sources(key) /\ Value(key, i).t = "int"
      BY <1>1, Zenon DEF Ints
    <2>2. \A i : i \in Sources(key) <=> i \in Channels /\ key \in DOMAIN stats.controller[i]
      BY <1>2, Zenon
    <2>3. \A i : Value(key, i).t = stats.controller[i][key].t
      BY <1>2
    <2> QED BY <2>1, <2>2, <2>3, Zenon
  <1>4. \A i \in Channels :
          Reported(key, i) = IF i \in Ints(key) THEN Value(key, i).v ELSE 0
    BY <1>2, <1>3, Zenon DEF Reported
  <1>5. \A i \in Ints(key) : Value(key, i) \in Number
    BY <1>1, StatsTypes, Zenon DEF Ints
  <1>6. \A i \in Ints(key) : Value(key, i).v \in Nat
    BY <1>5 DEF Number
  <1>7. \A i \in Channels : Reported(key, i) \in Nat
    <2>1. 0 \in Nat
      OBVIOUS
    <2> QED BY <1>4, <1>6, <2>1, Zenon
  <1> QED BY <1>3, <1>4, <1>7

LEMMA TotalIs ==
    ASSUME stats \in Stats, MetricsOK, pc = "parsed", NEW key \in CounterKeys
    PROVE  Total(key) = SumOver(key) /\ SumOver(key) \in Nat
  <1> DEFINE f == [i \in DOMAIN metrics[key] |-> metrics[key][i].v]
             g == [i \in Channels |-> Reported(key, i)]
             S == 0 .. Last(key)
  <1>1. key \in ArrayKeys /\ key \in CounterKeys \cup CoreKeys
    BY DEF ArrayKeys, ChannelKeys
  <1>2. DOMAIN f = S /\ \A i \in S : f[i] = IF i \in Ints(key) THEN Value(key, i).v ELSE 0
    BY <1>1, ArrGetIs
  <1>3. DOMAIN g = Channels
        /\ \A i \in Channels : g[i] = IF i \in Ints(key) THEN Value(key, i).v ELSE 0
    BY ReportedIs
  <1>4. /\ Ints(key) \in SUBSET S /\ Ints(key) \in SUBSET Channels
        /\ IsFiniteSet(S) /\ IsFiniteSet(Channels)
    BY <1>1, LastIs, ReportedIs, StatsTypes
  <1>5. \A i \in Channels : g[i] \in Nat
    BY ReportedIs
  <1>6. Total(key) = SumFunction(f) /\ SumOver(key) = SumFunction(g)
    BY Zenon DEF Total, SumOver
  <1> HIDE DEF f, g, S
  <1>7. \A i \in S : f[i] \in Nat
    <2>1. 0 \in Nat
      OBVIOUS
    <2> QED BY <1>2, <1>3, <1>4, <1>5, <2>1, Zenon
  <1>8. \A i \in S \cap Channels : f[i] = g[i]
    BY <1>2, <1>3, Zenon
  <1>9. \A i \in S \ Channels : f[i] = 0
    BY <1>2, <1>4, Zenon
  <1>10. \A i \in Channels \ S : g[i] = 0
    BY <1>3, <1>4, Zenon
  <1>11. SumFunction(f) = SumFunction(g) /\ SumFunction(f) \in Nat
    BY <1>2, <1>3, <1>4, <1>5, <1>7, <1>8, <1>9, <1>10, SumAgrees
  <1> QED BY <1>6, <1>11

(* Only channels with reads are active.                                       *)
LEMMA ActiveIs ==
    ASSUME stats \in Stats, MetricsOK, pc = "parsed"
    PROVE  active_idx = Active
  <1> DEFINE reqs == "num_read_reqs"
             a == Len0("num_read_reqs")
             b == Len0("read_row_hits")
             m == Max({a, b})
  <1>1. reqs \in CounterKeys /\ "read_row_hits" \in CounterKeys
    BY DEF CounterKeys
  <1>2. reqs \in ArrayKeys /\ "read_row_hits" \in ArrayKeys /\ reqs \in CounterKeys \cup CoreKeys
        /\ "read_row_hits" \in CounterKeys \cup CoreKeys
    BY <1>1 DEF ArrayKeys, ChannelKeys
  <1>3. a = Last(reqs) + 1 /\ b \in Int /\ Last(reqs) \in Int
    <2>1. a = Last(reqs) + 1 /\ Last(reqs) \in Int
      BY <1>2, ArrGetIs, LastIs
    <2>2. b = Last("read_row_hits") + 1 /\ Last("read_row_hits") \in Int
      BY <1>2, ArrGetIs, LastIs
    <2> QED BY <2>1, <2>2
  <1>4. \A i : ArrGet(reqs, i) = IF i \in Ints(reqs) THEN Value(reqs, i).v ELSE 0
    BY <1>2, ArrGetIs
  <1>5. Ints(reqs) \in SUBSET (0 .. Last(reqs))
    BY <1>2, LastIs
  <1>6. /\ \A i \in Ints(reqs) : i \in Channels
        /\ \A i \in Channels : Reported(reqs, i) = IF i \in Ints(reqs) THEN Value(reqs, i).v ELSE 0
    BY <1>1, ReportedIs
  <1>7. a <= m /\ m \in Int
    <2> HIDE DEF a, b
    <2>1. IsFiniteSet({a, b})
      <3>1. IsFiniteSet({a}) /\ {a, b} = {a} \cup {b}
        BY FS_Singleton
      <3> QED BY <3>1, FS_AddElement, Zenon
    <2>2. {a, b} \in SUBSET Int /\ {a, b} # {}
      BY <1>3
    <2>3. m \in {a, b} /\ \A y \in {a, b} : y <= m
      BY <2>1, <2>2, MaxIs
    <2> QED BY <1>3, <2>3
  <1>8. active_idx = {i \in 0 .. m - 1 : ArrGet(reqs, i) > 0}
    BY DEF active_idx
  <1>9. Active = {i \in Channels : Reported(reqs, i) > 0}
    BY DEF Active
  <1> HIDE DEF reqs, a, b, m
  <1>10. ~(0 > 0)
    OBVIOUS
  <1>11. 0 .. Last(reqs) \subseteq 0 .. m - 1
    BY <1>3, <1>7
  <1>12. \A i : i \in {j \in 0 .. m - 1 : ArrGet(reqs, j) > 0}
                <=> i \in {j \in Channels : Reported(reqs, j) > 0}
    BY <1>4, <1>5, <1>6, <1>10, <1>11, Zenon
  <1> QED BY <1>8, <1>9, <1>12, Zenon

-------------------------------------------------------------------------------
(* Nothing changes what the simulator reported.                               *)
LEMMA SameStats ==
    ASSUME stats' = stats
    PROVE  /\ Channels' = Channels /\ Active' = Active /\ Regular' = Regular
           /\ \A key : /\ Sources(key)' = Sources(key) /\ Ints(key)' = Ints(key)
                       /\ ArrayOf(key)' = ArrayOf(key) /\ TotalOf(key)' = TotalOf(key)
                       /\ SumOver(key)' = SumOver(key)
           /\ \A key, i : /\ Value(key, i)' = Value(key, i)
                          /\ Reported(key, i)' = Reported(key, i)
                          /\ LineOf(key, i)' = LineOf(key, i)
  <1>1. Channels' = Channels
    BY DEF Channels
  <1>2. ASSUME NEW key, NEW i
        PROVE  Value(key, i)' = Value(key, i) /\ Reported(key, i)' = Reported(key, i)
               /\ LineOf(key, i)' = LineOf(key, i)
    BY Zenon DEF Value, Reported, LineOf
  <1>3. ASSUME NEW key PROVE Sources(key)' = Sources(key)
    BY <1>1, Zenon DEF Sources
  <1>4. ASSUME NEW key PROVE Ints(key)' = Ints(key)
    BY <1>2, <1>3, Zenon DEF Ints
  <1>5. ASSUME NEW key PROVE ArrayOf(key)' = ArrayOf(key) /\ TotalOf(key)' = TotalOf(key)
    BY <1>2, <1>4, Zenon DEF ArrayOf, TotalOf, Last
  <1>6. ASSUME NEW key PROVE SumOver(key)' = SumOver(key)
    BY <1>1, <1>2, Zenon DEF SumOver
  <1>7. Active' = Active
    BY <1>1, <1>2, Zenon DEF Active
  <1>8. Regular' = Regular
    BY <1>1, <1>2, Zenon DEF Regular
  <1> QED BY <1>1, <1>2, <1>3, <1>4, <1>5, <1>6, <1>7, <1>8

(* flatten_stats loses nothing that is read, and mixes no two keys.           *)
LEMMA FlattenKeeps ==
    ASSUME stats \in Stats, Flatten
    PROVE  FlatOK'
  <1> DEFINE front == UNION {{<<k, c>> : c \in DOMAIN stats.frontend[k]} : k \in CoreKeys}
             total == {<<k, NoIndex>> : k \in DOMAIN stats.total}
             chan == UNION {{<<k, i>> : k \in DOMAIN stats.controller[i] \ PerCore} :
                              i \in Channels}
             cycles == <<"memory_system_cycles", NoIndex>>
             all == front \cup total \cup chan \cup {cycles}
             sum == max_cycles
  <1>1. /\ flat' = [x \in all |->
                     IF x \in front THEN stats.frontend[x[1]][x[2]]
                     ELSE IF x \in total THEN stats.total[x[1]]
                     ELSE IF x \in chan THEN stats.controller[x[2]][x[1]]
                     ELSE sum]
        /\ stats' = stats
    BY Zenon DEF Flatten
  <1>2. ASSUME NEW k, NEW i
        PROVE  /\ <<k, i>> \in front <=> k \in CoreKeys /\ i \in DOMAIN stats.frontend[k]
               /\ <<k, i>> \in total <=> k \in DOMAIN stats.total /\ i = NoIndex
               /\ <<k, i>> \in chan <=> i \in Channels /\ k \in DOMAIN stats.controller[i] \ PerCore
               /\ <<k, i>> = cycles <=> k = "memory_system_cycles" /\ i = NoIndex
    OBVIOUS
  <1>3. \A x \in all : x = <<x[1], x[2]>>
    OBVIOUS
  <1>4. DOMAIN stats.total \subseteq TotalKeys
    BY StatsAssumption
  <1> HIDE DEF front, total, chan, cycles, sum
  <1>5. ASSUME NEW key \in ReadKeys, NEW i
        PROVE  <<key, i>> \in all <=> i \in Sources(key)
    <2>1. <<key, i>> # cycles /\ key \notin PerCore
      BY <1>2, Keys
    <2>2. CASE key \in CoreKeys
      <3>1. key \notin TotalKeys /\ (i \in Channels => key \notin DOMAIN stats.controller[i])
        BY <2>2, Keys, StatsTypes DEF ArrayKeys
      <3>2. Sources(key) = DOMAIN stats.frontend[key]
        BY <2>2 DEF Sources
      <3> QED BY <1>2, <1>4, <2>1, <2>2, <3>1, <3>2, Zenon
    <2>3. CASE key \in TotalKeys
      <3>1. key \notin CoreKeys
        BY <2>3, Keys DEF ArrayKeys
      <3>2. i \in Sources(key) <=> i = NoIndex /\ key \in DOMAIN stats.total
        BY <2>3, <3>1 DEF Sources
      <3>3. ~(i \in Channels /\ key \in DOMAIN stats.controller[i])
        BY <2>3, StatsTypes
      <3> QED BY <1>2, <2>1, <3>1, <3>2, <3>3, Zenon
    <2>4. CASE key \in ChannelKeys
      <3>1. key \notin CoreKeys /\ key \notin TotalKeys
        BY <2>4, Keys DEF ArrayKeys
      <3>2. i \in Sources(key) <=> i \in Channels /\ key \in DOMAIN stats.controller[i]
        BY <3>1 DEF Sources
      <3> QED BY <1>2, <1>4, <2>1, <3>1, <3>2, Zenon
    <2> QED BY <2>2, <2>3, <2>4, Keys DEF ArrayKeys
  <1>6. ASSUME NEW key \in ReadKeys, NEW i \in Sources(key)
        PROVE  flat'[<<key, i>>] = Value(key, i)
    <2> DEFINE x == <<key, i>>
    <2>1. /\ x \in all /\ x[1] = key /\ x[2] = i
          /\ x \in front <=> key \in CoreKeys /\ i \in DOMAIN stats.frontend[key]
          /\ x \in total <=> key \in DOMAIN stats.total /\ i = NoIndex
          /\ x \in chan <=> i \in Channels /\ key \in DOMAIN stats.controller[i] \ PerCore
      BY <1>2, <1>5
    <2> HIDE DEF x, all
    <2>2. flat'[x] = IF x \in front THEN stats.frontend[key][i]
                     ELSE IF x \in total THEN stats.total[key]
                     ELSE IF x \in chan THEN stats.controller[i][key]
                     ELSE sum
      BY <1>1, <2>1, Zenon
    <2> SUFFICES flat'[x] = Value(key, i)
      BY DEF x
    <2>3. CASE key \in CoreKeys
      <3>1. Sources(key) = DOMAIN stats.frontend[key] /\ Value(key, i) = stats.frontend[key][i]
        BY <2>3 DEF Sources, Value
      <3>2. x \in front
        BY <2>1, <2>3, <3>1
      <3> QED BY <2>2, <3>1, <3>2
    <2>4. CASE key \in TotalKeys
      <3>1. key \notin CoreKeys
        BY <2>4, Keys DEF ArrayKeys
      <3>2. i = NoIndex /\ key \in DOMAIN stats.total
        BY <2>4, <3>1 DEF Sources
      <3>3. x \notin front /\ x \in total
        BY <2>1, <3>1, <3>2
      <3>4. Value(key, i) = stats.total[key]
        BY <2>4, <3>1 DEF Value
      <3> QED BY <2>2, <3>3, <3>4
    <2>5. CASE key \in ChannelKeys
      <3>1. key \notin CoreKeys /\ key \notin TotalKeys /\ key \notin PerCore
        BY <2>5, Keys DEF ArrayKeys
      <3>2. i \in Channels /\ key \in DOMAIN stats.controller[i]
        BY <3>1 DEF Sources
      <3>3. x \notin front /\ x \notin total /\ x \in chan
        BY <1>4, <2>1, <3>1, <3>2
      <3>4. Value(key, i) = stats.controller[i][key]
        BY <3>1 DEF Value
      <3> QED BY <2>2, <3>3, <3>4
    <2>6. key \in CoreKeys \/ key \in TotalKeys \/ key \in ChannelKeys
      BY Keys DEF ArrayKeys
    <2> QED BY <2>3, <2>4, <2>5, <2>6
  <1>7. DOMAIN flat' = all
    BY <1>1, Zenon
  <1>8. ASSUME NEW key \in ReadKeys
        PROVE  {x \in DOMAIN flat' : x[1] = key} = {<<key, i>> : i \in Sources(key)}
    <2> HIDE DEF all
    <2>1. ASSUME NEW x \in all, x[1] = key PROVE \E i \in Sources(key) : x = <<key, i>>
      <3>1. x = <<key, x[2]>>
        BY <1>3, <2>1, Zenon
      <3>2. x[2] \in Sources(key)
        BY <1>5, <3>1, Zenon
      <3> QED BY <3>1, <3>2, Zenon
    <2>2. ASSUME NEW i \in Sources(key) PROVE <<key, i>> \in all /\ <<key, i>>[1] = key
      <3>1. <<key, i>>[1] = key
        OBVIOUS
      <3> QED BY <1>5, <3>1
    <2>3. \A x : x \in {y \in all : y[1] = key} <=> x \in {<<key, i>> : i \in Sources(key)}
      BY <2>1, <2>2, Zenon
    <2>4. {y \in all : y[1] = key} = {<<key, i>> : i \in Sources(key)}
      BY <2>3, Zenon
    <2> QED BY <1>7, <2>4, Zenon
  <1>9. \A key, i : Sources(key)' = Sources(key) /\ Value(key, i)' = Value(key, i)
    BY <1>1, SameStats, Zenon
  <1> HIDE DEF all
  <1>10. \A key \in ReadKeys :
           /\ {x \in DOMAIN flat' : x[1] = key} = {<<key, i>> : i \in Sources(key)'}
           /\ \A i \in Sources(key)' : flat'[<<key, i>>] = Value(key, i)'
    BY <1>6, <1>8, <1>9, Zenon
  <1> QED BY <1>10, Zenon DEF FlatOK

(* The file holds what was flattened.                                         *)
LEMMA WriteKeeps ==
    ASSUME FlatOK, Write
    PROVE  TextOK'
  <1>1. /\ text' = {[key |-> x[1], suffix |-> x[2], num |-> flat[x]] : x \in DOMAIN flat}
        /\ stats' = stats /\ pc = "flat"
    BY DEF Write
  <1>2. ASSUME NEW key \in ReadKeys
        PROVE  {l \in text' : l.key = key} = {LineOf(key, i) : i \in Sources(key)}
    <2>1. /\ {x \in DOMAIN flat : x[1] = key} = {<<key, i>> : i \in Sources(key)}
          /\ \A i \in Sources(key) : flat[<<key, i>>] = Value(key, i)
      BY <1>1 DEF FlatOK
    <2> DEFINE line(x) == [key |-> x[1], suffix |-> x[2], num |-> flat[x]]
    <2>2. \A i : <<key, i>>[1] = key /\ <<key, i>>[2] = i
      OBVIOUS
    <2>3. \A x : line(x).key = x[1]
      OBVIOUS
    <2>4. ASSUME NEW i \in Sources(key)
          PROVE  <<key, i>> \in DOMAIN flat /\ line(<<key, i>>) = LineOf(key, i)
      <3>1. <<key, i>> \in DOMAIN flat
        BY <2>1, Zenon
      <3>2. flat[<<key, i>>] = Value(key, i)
        BY <2>1
      <3> QED BY <2>2, <3>1, <3>2, Zenon DEF LineOf
    <2>5. \A x \in DOMAIN flat : x[1] = key => \E i \in Sources(key) : x = <<key, i>>
      BY <2>1, Zenon
    <2>6. \A l : l \in text' <=> \E x \in DOMAIN flat : l = line(x)
      BY <1>1, Zenon
    <2> HIDE DEF line
    <2>7. \A i : LineOf(key, i).key = key
      BY DEF LineOf
    <2>8. ASSUME NEW l \in text', l.key = key PROVE \E i \in Sources(key) : l = LineOf(key, i)
      <3>1. PICK x \in DOMAIN flat : l = line(x)
        BY <2>6, Zenon
      <3>2. x[1] = key
        BY <2>3, <2>8, <3>1, Zenon
      <3>3. PICK i \in Sources(key) : x = <<key, i>>
        BY <2>5, <3>2, Zenon
      <3> QED BY <2>4, <3>1, <3>3, Zenon
    <2>9. ASSUME NEW i \in Sources(key) PROVE LineOf(key, i) \in text'
      BY <2>4, <2>6, Zenon
    <2>10. \A l : l \in {m \in text' : m.key = key} <=> l \in {LineOf(key, i) : i \in Sources(key)}
      BY <2>7, <2>8, <2>9, Zenon
    <2> QED BY <2>10, Zenon
  <1>3. \A key, i : Sources(key)' = Sources(key) /\ LineOf(key, i)' = LineOf(key, i)
    BY <1>1, SameStats, Zenon
  <1>4. ASSUME NEW key \in ReadKeys
        PROVE  {l \in text' : l.key = key} = {LineOf(key, i)' : i \in Sources(key)'}
    <2>1. Sources(key)' = Sources(key)
      BY <1>3, Zenon
    <2>2. \A i : LineOf(key, i)' = LineOf(key, i)
      BY <1>3, Zenon
    <2>3. \A l : l \in {LineOf(key, i)' : i \in Sources(key)'}
                <=> l \in {LineOf(key, i) : i \in Sources(key)}
      BY <2>1, <2>2, Zenon
    <2>4. {LineOf(key, i)' : i \in Sources(key)'} = {LineOf(key, i) : i \in Sources(key)}
      BY <2>3, Zenon
    <2> QED BY <1>2, <2>4, Zenon
  <1> QED BY <1>4, Zenon DEF TextOK

(* Every array is the one of what was reported.                               *)
LEMMA ParseKeeps ==
    ASSUME TextOK, Parse
    PROVE  MetricsOK'
  <1>1. /\ OnFile /\ stats' = stats
        /\ metrics' = [k \in CounterKeys \cup FloatKeys \cup CoreKeys \cup ScalarKeys |->
                         IF k \in ScalarKeys THEN Scalar(k) ELSE Array(k)]
    BY DEF Parse, OnFile
  <1>2. ASSUME NEW key \in CounterKeys \cup FloatKeys \cup CoreKeys
        PROVE  metrics'[key] = ArrayOf(key)
    <2>1. key \in ArrayKeys
      BY DEF ArrayKeys, ChannelKeys
    <2>2. key \notin ScalarKeys
      BY DEF CounterKeys, FloatKeys, CoreKeys, ScalarKeys, TotalKeys
    <2>3. Array(key) = ArrayOf(key)
      BY <1>1, <2>1, ArrayIs
    <2> QED BY <1>1, <2>2, <2>3
  <1>3. ASSUME NEW key \in TotalKeys PROVE metrics'[key] = TotalOf(key)
    <2>1. key \in ScalarKeys
      BY DEF ScalarKeys
    <2>2. Scalar(key) = TotalOf(key)
      BY <1>1, ScalarIs
    <2> QED BY <1>1, <2>1, <2>2
  <1>4. \A key : ArrayOf(key)' = ArrayOf(key) /\ TotalOf(key)' = TotalOf(key)
    BY <1>1, SameStats, Zenon
  <1> QED BY <1>2, <1>3, <1>4, Zenon DEF MetricsOK


-------------------------------------------------------------------------------
(* The summary, channel by channel.                                           *)
LEMMA QueueIs ==
    ASSUME stats \in Stats, MetricsOK, pc = "parsed", NEW i
    PROVE  LET rq == "read_queue_len_avg"
           IN  /\ i \in DOMAIN metrics[rq] /\ metrics[rq][i].t # "nan"
                  <=> /\ i \in Channels /\ rq \in DOMAIN stats.controller[i]
                      /\ stats.controller[i][rq].t # "nan"
               /\ i \in Channels /\ rq \in DOMAIN stats.controller[i] =>
                    metrics[rq][i] = stats.controller[i][rq]
  <1> DEFINE rq == "read_queue_len_avg"
  <1>1. rq \in FloatKeys /\ rq \in ArrayKeys /\ rq \in ReadKeys /\ rq \notin CoreKeys
        /\ rq \notin TotalKeys
    BY Keys DEF FloatKeys, ArrayKeys, ChannelKeys
  <1>2. metrics[rq] = [j \in 0 .. Last(rq) |-> IF j \in Ints(rq) THEN Value(rq, j) ELSE Fill(rq)]
    BY <1>1 DEF MetricsOK, ArrayOf
  <1> HIDE DEF rq
  <1>3. \A j : j \in Ints(rq) <=> j \in Channels /\ rq \in DOMAIN stats.controller[j]
    <2>1. \A j : j \in Ints(rq) <=> j \in Sources(rq)
      BY <1>1, Zenon DEF Ints
    <2>2. \A j : j \in Sources(rq) <=> j \in Channels /\ rq \in DOMAIN stats.controller[j]
      BY <1>1 DEF Sources
    <2> QED BY <2>1, <2>2, Zenon
  <1>4. Value(rq, i) = stats.controller[i][rq]
    BY <1>1 DEF Value
  <1>5. Fill(rq).t = "nan"
    BY <1>1 DEF Fill
  <1>6. Ints(rq) \in SUBSET (0 .. Last(rq))
    BY <1>1, LastIs
  <1>7. i \in Ints(rq) => i \in DOMAIN metrics[rq] /\ metrics[rq][i] = stats.controller[i][rq]
    BY <1>2, <1>4, <1>6
  <1>8. i \in DOMAIN metrics[rq] /\ i \notin Ints(rq) => metrics[rq][i].t = "nan"
    BY <1>2, <1>5
  <1>9. /\ i \in DOMAIN metrics[rq] /\ metrics[rq][i].t # "nan"
           <=> /\ i \in Channels /\ rq \in DOMAIN stats.controller[i]
               /\ stats.controller[i][rq].t # "nan"
        /\ i \in Channels /\ rq \in DOMAIN stats.controller[i] =>
             metrics[rq][i] = stats.controller[i][rq]
    BY <1>3, <1>7, <1>8, Zenon
  <1> QED BY <1>9 DEF rq

LEMMA SummarizeKeepsNumbers ==
    ASSUME stats \in Stats, MetricsOK, Summarize
    PROVE  ChannelsKeepTheirNumbers'
  <1> DEFINE rq == "read_queue_len_avg"
             lats == [i \in active_idx |-> <<ArrGet("read_latency", i), ArrGet("num_read_reqs", i)>>]
             queues == {<<i, metrics[rq][i].v>> :
                          i \in {j \in active_idx \cap DOMAIN metrics[rq] :
                                  metrics[rq][j].t # "nan"}}
  <1>1. /\ pc = "parsed" /\ stats' = stats
        /\ summary'.active = active_idx /\ summary'.latencies = lats
        /\ summary'.queues = queues
        /\ summary'.row_hits = Total("read_row_hits")
        /\ summary'.row_accesses = Total("read_row_hits") + Total("read_row_misses")
                                     + Total("read_row_conflicts")
    BY DEF Summarize
  <1>2. active_idx = Active
    BY <1>1, ActiveIs
  <1>3. \A key \in {"read_row_hits", "read_row_misses", "read_row_conflicts"} :
          Total(key) = SumOver(key)
    BY <1>1, TotalIs DEF CounterKeys
  <1>4. \A key \in CounterKeys : \A i \in Channels : ArrGet(key, i) = Reported(key, i)
    <2>1. ASSUME NEW key \in CounterKeys, NEW i \in Channels PROVE ArrGet(key, i) = Reported(key, i)
      <3>1. key \in CounterKeys \cup CoreKeys
        OBVIOUS
      <3>2. ArrGet(key, i) = IF i \in Ints(key) THEN Value(key, i).v ELSE 0
        BY <1>1, <3>1, ArrGetIs
      <3>3. Reported(key, i) = IF i \in Ints(key) THEN Value(key, i).v ELSE 0
        BY ReportedIs
      <3> QED BY <3>2, <3>3
    <2> QED BY <2>1
  <1>5. Active \in SUBSET Channels
    BY DEF Active
  <1>6. lats = [i \in Active |-> <<Reported("read_latency", i), Reported("num_read_reqs", i)>>]
    <2>1. \A i \in Active : ArrGet("read_latency", i) = Reported("read_latency", i)
                            /\ ArrGet("num_read_reqs", i) = Reported("num_read_reqs", i)
      BY <1>4, <1>5 DEF CounterKeys
    <2> QED BY <1>2, <2>1, Zenon
  <1>7. queues = {<<i, stats.controller[i][rq].v>> :
                    i \in {j \in Active : /\ rq \in DOMAIN stats.controller[j]
                                          /\ stats.controller[j][rq].t # "nan"}}
    <2> DEFINE A == {j \in active_idx \cap DOMAIN metrics[rq] : metrics[rq][j].t # "nan"}
               B == {j \in Active : /\ rq \in DOMAIN stats.controller[j]
                                    /\ stats.controller[j][rq].t # "nan"}
    <2>1. \A i : /\ i \in DOMAIN metrics[rq] /\ metrics[rq][i].t # "nan"
                    <=> /\ i \in Channels /\ rq \in DOMAIN stats.controller[i]
                        /\ stats.controller[i][rq].t # "nan"
                 /\ i \in Channels /\ rq \in DOMAIN stats.controller[i] =>
                      metrics[rq][i] = stats.controller[i][rq]
      BY <1>1, QueueIs, Zenon
    <2>2. \A i : i \in A <=> i \in B
      BY <1>2, <1>5, <2>1, Zenon
    <2>3. A = B
      BY <2>2, Zenon
    <2>4. \A i \in A : metrics[rq][i].v = stats.controller[i][rq].v
      BY <1>2, <1>5, <2>1, <2>3, Zenon
    <2>5. {<<i, metrics[rq][i].v>> : i \in A} = {<<i, stats.controller[i][rq].v>> : i \in B}
      <3> HIDE DEF A, B
      <3> QED BY <2>3, <2>4, Zenon
    <2> QED BY <2>5, Zenon
  <1>8. /\ Active' = Active
        /\ \A key : SumOver(key)' = SumOver(key)
        /\ \A key, i : Reported(key, i)' = Reported(key, i)
    BY <1>1, SameStats, Zenon
  <1> HIDE DEF lats, queues
  <1>9. summary'.active = Active'
    BY <1>1, <1>2, <1>8
  <1>10. summary'.latencies = [i \in Active' |-> <<Reported("read_latency", i)',
                                                   Reported("num_read_reqs", i)'>>]
    BY <1>1, <1>6, <1>8, Zenon
  <1>11. summary'.queues = {<<i, stats'.controller[i][rq].v>> :
                              i \in {j \in Active' : /\ rq \in DOMAIN stats'.controller[j]
                                                     /\ stats'.controller[j][rq].t # "nan"}}
    BY <1>1, <1>7, <1>8, Zenon
  <1>12. /\ summary'.row_hits = SumOver("read_row_hits")'
         /\ summary'.row_accesses = SumOver("read_row_hits")'
              + SumOver("read_row_misses")' + SumOver("read_row_conflicts")'
    BY <1>1, <1>3, <1>8
  <1> QED BY <1>9, <1>10, <1>11, <1>12, Zenon DEF ChannelsKeepTheirNumbers

(* The runtime.                                                               *)
Recorded == "cycles_recorded_core"

LEMMA RuntimeIs ==
    ASSUME stats \in Stats, MetricsOK, pc = "parsed"
    PROVE  LET a == metrics[Recorded]
               most == Max({a[c].v : c \in DOMAIN a})
           IN  /\ DOMAIN a = {} <=> Ints(Recorded) = {}
               /\ Ints(Recorded) # {} =>
                    /\ \A c \in Ints(Recorded) : Value(Recorded, c).v <= most
                    /\ \E c \in Ints(Recorded) : Value(Recorded, c).v = most
  <1> DEFINE a == metrics[Recorded]
             S == 0 .. Last(Recorded)
             V == {a[c].v : c \in DOMAIN a}
             most == Max(V)
  <1>1. Recorded \in CounterKeys \cup CoreKeys /\ Recorded \in ArrayKeys
    BY DEF CoreKeys, Recorded, ArrayKeys
  <1>2. /\ DOMAIN a = S
        /\ \A i \in S : a[i].v = IF i \in Ints(Recorded) THEN Value(Recorded, i).v ELSE 0
    BY <1>1, ArrGetIs
  <1>3. /\ Ints(Recorded) \in SUBSET S /\ IsFiniteSet(S)
        /\ Ints(Recorded) # {} => Last(Recorded) \in Ints(Recorded)
        /\ Ints(Recorded) = {} => S = {}
    <2>1. /\ Ints(Recorded) \in SUBSET S /\ IsFiniteSet(S)
          /\ Ints(Recorded) # {} => Last(Recorded) \in Ints(Recorded)
      BY <1>1, LastIs
    <2>2. Ints(Recorded) = {} => S = {}
      BY DEF Last
    <2> QED BY <2>1, <2>2
  <1>4. \A i \in Ints(Recorded) : Value(Recorded, i).v \in Nat
    <2>1. \A i \in Ints(Recorded) : Value(Recorded, i) \in Number
      BY <1>1, StatsTypes, Keys, Zenon DEF Ints
    <2> QED BY <2>1 DEF Number
  <1> HIDE DEF a, S
  <1>5. DOMAIN a = {} <=> Ints(Recorded) = {}
    BY <1>2, <1>3
  <1>6. ASSUME Ints(Recorded) # {}
        PROVE  /\ \A c \in Ints(Recorded) : Value(Recorded, c).v <= most
               /\ \E c \in Ints(Recorded) : Value(Recorded, c).v = most
    <2>1. \A i \in S : a[i].v \in Nat
      BY <1>2, <1>4
    <2>2. V \in SUBSET Int /\ V # {}
      BY <1>2, <1>5, <1>6, <2>1
    <2>3. IsFiniteSet(V)
      <3> DEFINE f == [i \in S |-> a[i].v]
      <3>1. f \in Surjection(S, V)
        BY <1>2 DEF Surjection
      <3> QED BY <1>3, <3>1, FS_Surjection
    <2>4. most \in V /\ \A y \in V : y <= most
      <3> HIDE DEF V
      <3> QED BY <2>2, <2>3, MaxIs
    <2> HIDE DEF most
    <2>5. ASSUME NEW c \in Ints(Recorded)
          PROVE  Value(Recorded, c).v \in V
      <3>1. c \in S /\ a[c].v = Value(Recorded, c).v
        BY <1>2, <1>3
      <3> QED BY <1>2, <3>1
    <2>6. PICK i \in S : most = a[i].v
      BY <1>2, <2>4
    <2>7. \E c \in Ints(Recorded) : Value(Recorded, c).v = most
      <3>1. CASE i \in Ints(Recorded)
        BY <1>2, <2>6, <3>1
      <3>2. CASE i \notin Ints(Recorded)
        <4>1. most = 0
          BY <1>2, <2>6, <3>2
        <4>2. PICK c \in Ints(Recorded) : TRUE
          BY <1>6
        <4>3. Value(Recorded, c).v = 0
          BY <1>4, <2>4, <2>5, <4>1
        <4> QED BY <4>1, <4>3
      <3> QED BY <3>1, <3>2
    <2> QED BY <2>4, <2>5, <2>7
  <1> QED BY <1>5, <1>6 DEF a

\* The conjuncts of RuntimeIsSlowestCore.
Cores == {c \in DOMAIN stats.frontend[Recorded] : stats.frontend[Recorded][c].t = "int"}
RuntimeOf(s) ==
    IF Cores = {} THEN s.runtime_cycles = None
    ELSE /\ \A c \in Cores : stats.frontend[Recorded][c].v <= s.runtime_cycles
         /\ \E c \in Cores : stats.frontend[Recorded][c].v = s.runtime_cycles
         /\ Cores = DOMAIN stats.frontend[Recorded] =>
                /\ s.n_cores_observed = Cardinality(Cores)
                /\ \A x \in s.stalls : stats.frontend[Recorded][x[1]].v = x[3]
BandwidthOf(r) ==
    r # Nothing /\ Cores # {} /\ (\A c \in Cores : stats.frontend[Recorded][c].v > 0) =>
        r.read_bw = (\E k \in DOMAIN stats.total : stats.total[k].t = "int")

LEMMA RuntimeParts ==
    RuntimeIsSlowestCore <=>
        /\ pc = "summarized" => RuntimeOf(summary)
        /\ pc = "next" => Cores # {}
        /\ BandwidthOf(row)
  BY Zenon DEF RuntimeIsSlowestCore, RuntimeOf, BandwidthOf, Cores, Recorded

LEMMA CoresAre ==
    /\ Cores = Ints(Recorded)
    /\ \A c : Value(Recorded, c) = stats.frontend[Recorded][c]
    /\ Sources(Recorded) = DOMAIN stats.frontend[Recorded]
  <1>1. Recorded \in CoreKeys /\ Recorded \notin FloatKeys
    BY DEF CoreKeys, FloatKeys, Recorded
  <1>2. /\ \A c : Value(Recorded, c) = stats.frontend[Recorded][c]
        /\ Sources(Recorded) = DOMAIN stats.frontend[Recorded]
    BY <1>1, Zenon DEF Value, Sources
  <1>3. \A c : c \in Cores <=> c \in Ints(Recorded)
    BY <1>1, <1>2, Zenon DEF Cores, Ints
  <1> QED BY <1>2, <1>3, Zenon


LEMMA SameCores ==
    ASSUME stats' = stats
    PROVE  Cores' = Cores
  BY Zenon DEF Cores

LEMMA SameRuntime ==
    ASSUME stats' = stats, NEW s, summary' = s
    PROVE  RuntimeOf(summary)' <=> RuntimeOf(s)
  BY Zenon DEF Cores, RuntimeOf

LEMMA SameBandwidth ==
    ASSUME stats' = stats, NEW r, row' = r
    PROVE  BandwidthOf(row)' <=> BandwidthOf(r)
  BY Zenon DEF Cores, BandwidthOf

LEMMA SummarizeTakesSlowest ==
    ASSUME stats \in Stats, MetricsOK, RuntimeIsSlowestCore, Summarize
    PROVE  RuntimeIsSlowestCore' /\ TotalsOK'
  <1> DEFINE a == metrics[Recorded]
             mac == "memory_access_cycles_recorded_core"
             most == Max({a[c].v : c \in DOMAIN a})
             stalled == {i \in 0 .. Least(Len0(mac), Len0(Recorded)) - 1 :
                           ArrGet(Recorded, i) > 0}
  <1>1. /\ pc = "parsed" /\ pc' = "summarized" /\ stats' = stats /\ row' = row
        /\ summary'.runtime_cycles = IF DOMAIN a = {} THEN None ELSE most
        /\ summary'.n_cores_observed = Len0(Recorded)
        /\ summary'.total_read_reqs = metrics["total_num_read_requests"]
        /\ summary'.stalls = {<<c, ArrGet(mac, c), ArrGet(Recorded, c)>> : c \in stalled}
    BY Zenon DEF Summarize, Recorded
  <1>2. /\ Recorded \in CounterKeys \cup CoreKeys /\ Recorded \in ArrayKeys /\ Recorded \in CoreKeys
        /\ mac \in CounterKeys \cup CoreKeys /\ mac \in ArrayKeys
    BY DEF CoreKeys, Recorded, ArrayKeys
  <1>3. /\ DOMAIN a = {} <=> Ints(Recorded) = {}
        /\ Ints(Recorded) # {} =>
             /\ \A c \in Ints(Recorded) : Value(Recorded, c).v <= most
             /\ \E c \in Ints(Recorded) : Value(Recorded, c).v = most
    BY <1>1, RuntimeIs, Zenon
  <1>4. /\ Cores = Ints(Recorded)
        /\ \A c : Value(Recorded, c) = stats.frontend[Recorded][c]
        /\ Sources(Recorded) = DOMAIN stats.frontend[Recorded]
    BY CoresAre
  <1> HIDE DEF a, most
  <1>5. ASSUME Cores = DOMAIN stats.frontend[Recorded], Cores # {}
        PROVE  /\ Len0(Recorded) = Cardinality(Cores)
               /\ \A i \in stalled : i \in Cores
    <2> DEFINE last == Last(Recorded)
    <2>1. Cores = 0 .. Cardinality(Cores) - 1 /\ IsFiniteSet(Cores)
      BY <1>2, <1>4, <1>5, StatsTypes
    <2>2. /\ last \in Int /\ Cores \in SUBSET (0 .. last) /\ last \in Cores
          /\ Cardinality(0 .. last) = last + 1
      BY <1>2, <1>4, <1>5, LastIs
    <2>3. Cores = 0 .. last
      <3>1. Cardinality(Cores) \in Nat
        BY <2>1, FS_CardinalityType
      <3> HIDE DEF last
      <3>2. \A i \in 0 .. last : i \in Cores
        BY <2>1, <2>2, <3>1
      <3> QED BY <2>2, <3>2
    <2>4. Len0(Recorded) = last + 1
      BY <1>1, <1>2, ArrGetIs
    <2>5. Len0(mac) \in Int
      <3>1. Len0(mac) = Last(mac) + 1 /\ Last(mac) \in Int
        BY <1>1, <1>2, ArrGetIs, LastIs
      <3> QED BY <3>1
    <2> HIDE DEF last
    <2>6. \A i \in stalled : i \in 0 .. last
      BY <2>2, <2>4, <2>5 DEF Least
    <2> QED BY <2>2, <2>3, <2>4, <2>6
  <1>6. \A c \in Cores : ArrGet(Recorded, c) = stats.frontend[Recorded][c].v
    BY <1>1, <1>2, <1>4, ArrGetIs
  <1> HIDE DEF stalled
  <1> DEFINE s == summary'
  <1>7. RuntimeOf(s)
    <2>1. CASE Cores = {}
      BY <1>1, <1>3, <1>4, <2>1, Zenon DEF RuntimeOf
    <2>2. CASE Cores # {}
      <3>1. s.runtime_cycles = most
        BY <1>1, <1>3, <1>4, <2>2, Zenon
      <3>2. /\ \A c \in Cores : stats.frontend[Recorded][c].v <= s.runtime_cycles
            /\ \E c \in Cores : stats.frontend[Recorded][c].v = s.runtime_cycles
        BY <1>3, <1>4, <2>2, <3>1, Zenon
      <3>3. ASSUME Cores = DOMAIN stats.frontend[Recorded]
            PROVE  /\ s.n_cores_observed = Cardinality(Cores)
                   /\ \A x \in s.stalls : stats.frontend[Recorded][x[1]].v = x[3]
        <4>1. s.n_cores_observed = Cardinality(Cores)
          BY <1>1, <1>5, <2>2, <3>3
        <4>2. ASSUME NEW x \in s.stalls PROVE stats.frontend[Recorded][x[1]].v = x[3]
          <5>1. PICK c \in stalled : x = <<c, ArrGet(mac, c), ArrGet(Recorded, c)>>
            BY <1>1, Zenon
          <5>2. c \in Cores
            BY <1>5, <2>2, <3>3
          <5>3. x[1] = c /\ x[3] = ArrGet(Recorded, c)
            BY <5>1
          <5> QED BY <1>6, <5>2, <5>3
        <4> QED BY <4>1, <4>2
      <3> QED BY <2>2, <3>2, <3>3, Zenon DEF RuntimeOf
    <2> QED BY <2>1, <2>2
  <1>8. RuntimeOf(summary)'
    BY <1>1, <1>7, SameRuntime, Zenon
  <1>9. BandwidthOf(row)'
    <2>1. BandwidthOf(row)
      BY RuntimeParts
    <2> QED BY <1>1, <2>1, SameBandwidth, Zenon
  <1>10. pc' # "next"
    BY <1>1
  <1>11. RuntimeIsSlowestCore'
    <2>1. RuntimeIsSlowestCore' <=> /\ pc' = "summarized" => RuntimeOf(summary)'
                                    /\ pc' = "next" => Cores' # {}
                                    /\ BandwidthOf(row)'
      BY Zenon DEF RuntimeIsSlowestCore, RuntimeOf, BandwidthOf, Cores, Recorded
    <2> QED BY <1>8, <1>9, <1>10, <2>1, Zenon
  <1>12. TotalsOK'
    <2>1. "total_num_read_requests" \in TotalKeys
      BY DEF TotalKeys
    <2>2. metrics["total_num_read_requests"] = TotalOf("total_num_read_requests")
      BY <1>1, <2>1 DEF MetricsOK
    <2>3. TotalOf("total_num_read_requests")' = TotalOf("total_num_read_requests")
      BY <1>1, SameStats, Zenon
    <2> QED BY <1>1, <2>2, <2>3, Zenon DEF TotalsOK
  <1> QED BY <1>11, <1>12

(* A missing runtime or total is never divided by, nor a sweep's next point.  *)
LEMMA ReportKeeps ==
    ASSUME stats \in Stats, RuntimeIsSlowestCore, TotalsOK, Report
    PROVE  RuntimeIsSlowestCore'
  <1>1. /\ pc = "summarized" /\ stats' = stats /\ pc' \in {"next", "failed"}
        /\ \/ row' = Nothing
           \/ row' = [runtime_cycles |-> summary.runtime_cycles, read_bw |-> Divides]
        /\ pc' = "next" => summary.runtime_cycles # None
    BY DEF Report
  <1>2. RuntimeOf(summary)
    BY <1>1, RuntimeParts
  <1>3. pc' = "next" => Cores # {}
    BY <1>1, <1>2 DEF RuntimeOf
  <1> DEFINE total == \E k \in DOMAIN stats.total : stats.total[k].t = "int"
             key == "total_num_read_requests"
  <1>4. (summary.total_read_reqs # None) <=> total
    <2>1. summary.total_read_reqs = TotalOf(key)
      BY <1>1 DEF TotalsOK
    <2>2. key \in TotalKeys /\ key \in ReadKeys /\ key \notin CoreKeys /\ key \notin FloatKeys
          /\ \A k \in TotalKeys : k = key
      BY Keys DEF TotalKeys, ArrayKeys
    <2>3. DOMAIN stats.total \subseteq TotalKeys
      BY StatsAssumption
    <2>4. \A i : Value(key, i) = stats.total[key]
      BY <2>2 DEF Value
    <2>5. \A i : i \in Sources(key) <=> i = NoIndex /\ key \in DOMAIN stats.total
      BY <2>2 DEF Sources
    <2> HIDE DEF key
    <2>6. \A i : i \in Ints(key) <=> i = NoIndex /\ key \in DOMAIN stats.total
                                     /\ stats.total[key].t = "int"
      <3>1. \A i : i \in Ints(key) <=> i \in Sources(key) /\ Value(key, i).t = "int"
        BY <2>2, Zenon DEF Ints
      <3>2. \A i : Value(key, i).t = stats.total[key].t
        BY <2>4
      <3> QED BY <2>5, <3>1, <3>2, Zenon
    <2>7. Ints(key) # {} <=> total
      <3>1. Ints(key) # {} <=> key \in DOMAIN stats.total /\ stats.total[key].t = "int"
        BY <2>6, Zenon
      <3>2. total <=> key \in DOMAIN stats.total /\ stats.total[key].t = "int"
        BY <2>2, <2>3, Zenon
      <3> QED BY <3>1, <3>2
    <2>8. Ints(key) # {} => stats.total[key].v # None
      <3>1. ASSUME NEW i \in Ints(key) PROVE stats.total[key].v \in Nat
        <4>1. i \in Sources(key)
          BY DEF Ints
        <4>2. Value(key, i) \in Number
          BY <2>2, <4>1, StatsTypes
        <4> QED BY <2>4, <4>2 DEF Number
      <3> QED BY <3>1 DEF None
    <2> QED BY <2>1, <2>7, <2>8, Zenon DEF TotalOf
  <1>5. BandwidthOf(row)'
    <2> DEFINE r == row'
    <2>1. ASSUME r # Nothing, Cores # {}, \A c \in Cores : stats.frontend[Recorded][c].v > 0
          PROVE  r.read_bw = total
      <3>1. r.read_bw = Divides
        BY <1>1, <2>1
      <3>2. PICK c \in Cores : stats.frontend[Recorded][c].v = summary.runtime_cycles
        BY <1>2, <2>1, Zenon DEF RuntimeOf
      <3>3. stats.frontend[Recorded][c].v \in Nat
        <4>1. c \in Sources(Recorded) /\ Value(Recorded, c) = stats.frontend[Recorded][c]
          BY CoresAre DEF Ints
        <4>2. Recorded \in ReadKeys
          BY Keys DEF Recorded, ArrayKeys, CoreKeys
        <4>3. Value(Recorded, c) \in Number
          BY <4>1, <4>2, StatsTypes
        <4> QED BY <4>1, <4>3 DEF Number
      <3>4. summary.runtime_cycles \notin {None, 0}
        BY <2>1, <3>2, <3>3 DEF None
      <3>5. Divides = total
        BY <1>4, <3>4, Zenon DEF Divides
      <3> QED BY <3>1, <3>5
    <2>2. BandwidthOf(r)
      BY <2>1, Zenon DEF BandwidthOf
    <2> QED BY <1>1, <2>2, SameBandwidth, Zenon
  <1>6. RuntimeIsSlowestCore' <=> /\ pc' = "summarized" => RuntimeOf(summary)'
                                  /\ pc' = "next" => Cores' # {}
                                  /\ BandwidthOf(row)'
    BY Zenon DEF RuntimeIsSlowestCore, RuntimeOf, BandwidthOf, Cores, Recorded
  <1>7. Cores' = Cores
    BY <1>1, SameCores
  <1>8. pc' # "summarized"
    BY <1>1
  <1> QED BY <1>3, <1>5, <1>6, <1>7, <1>8, Zenon

-------------------------------------------------------------------------------
(* The second reader.                                                         *)
LEMMA CompareKeys ==
    /\ Compare!CHANNEL_METRICS = ChannelKeys
    /\ Compare!SUM_CHANNEL_METRICS = CounterKeys
  BY DEF Compare!CHANNEL_METRICS, Compare!SUM_CHANNEL_METRICS, Compare!AVG_METRICS,
         ChannelKeys, CounterKeys, FloatKeys

LEMMA CompareLines ==
    ASSUME stats \in Stats, TextOK, OnFile, NEW key \in ChannelKeys
    PROVE  /\ \A i \in Sources(key) : LineOf(key, i) \in Compare!ChannelLines
           /\ \A l \in Compare!ChannelLines :
                l.key = key => \E i \in Sources(key) : l = LineOf(key, i)
           /\ \A i : LineOf(key, i).key = key /\ LineOf(key, i).suffix = i
                     /\ LineOf(key, i).num = Value(key, i)
  <1>1. key \in ReadKeys /\ key \in Compare!CHANNEL_METRICS
    BY CompareKeys, Keys DEF ArrayKeys
  <1>2. Sources(key) \in SUBSET Nat
    BY StatsTypes DEF ArrayKeys
  <1>3. \A i : LineOf(key, i).key = key /\ LineOf(key, i).suffix = i
               /\ LineOf(key, i).num = Value(key, i)
    BY DEF LineOf
  <1>4. ASSUME NEW i \in Sources(key) PROVE LineOf(key, i) \in Compare!ChannelLines
    <2>1. LineOf(key, i) \in text
      BY <1>1, Lines, Zenon
    <2>2. LineOf(key, i).suffix >= 0
      <3>1. LineOf(key, i).suffix = i /\ i \in Nat
        BY <1>2, <1>3
      <3> HIDE DEF LineOf
      <3> QED BY <3>1
    <2> QED BY <1>1, <1>3, <2>1, <2>2, Zenon DEF Compare!ChannelLines
  <1>5. ASSUME NEW l \in Compare!ChannelLines, l.key = key
        PROVE  \E i \in Sources(key) : l = LineOf(key, i)
    <2>1. l \in text
      BY Zenon DEF Compare!ChannelLines
    <2> QED BY <1>1, <1>5, <2>1, Lines, Zenon
  <1> QED BY <1>3, <1>4, <1>5

LEMMA GetIs ==
    ASSUME stats \in Stats, TextOK, OnFile, NEW key \in ChannelKeys, NEW ch
    PROVE  /\ Compare!Has(ch, key) <=> ch \in Sources(key)
           /\ ch \in Sources(key) => Compare!NumOf(ch, key) = Value(key, ch)
           /\ Compare!get(ch, key) = IF ch \in Sources(key) THEN Value(key, ch).v ELSE 0
  <1> DEFINE line == CHOOSE l \in Compare!ChannelLines : l.key = key /\ l.suffix = ch
  <1>1. /\ \A i \in Sources(key) : LineOf(key, i) \in Compare!ChannelLines
        /\ \A l \in Compare!ChannelLines :
             l.key = key => \E i \in Sources(key) : l = LineOf(key, i)
    BY CompareLines, Zenon
  <1>2. \A i : LineOf(key, i).key = key /\ LineOf(key, i).suffix = i
               /\ LineOf(key, i).num = Value(key, i)
    BY DEF LineOf
  <1>3. Compare!Has(ch, key) <=> ch \in Sources(key)
    <2>1. ASSUME Compare!Has(ch, key) PROVE ch \in Sources(key)
      <3>1. PICK l \in Compare!ChannelLines : l.key = key /\ l.suffix = ch
        BY <2>1, Zenon DEF Compare!Has
      <3>2. PICK i \in Sources(key) : l = LineOf(key, i)
        BY <1>1, <3>1, Zenon
      <3>3. i = ch
        BY <1>2, <3>1, <3>2, Zenon
      <3> QED BY <3>2, <3>3
    <2>2. ASSUME ch \in Sources(key) PROVE Compare!Has(ch, key)
      BY <1>1, <1>2, <2>2, Zenon DEF Compare!Has
    <2> QED BY <2>1, <2>2
  <1>4. ASSUME ch \in Sources(key) PROVE Compare!NumOf(ch, key) = Value(key, ch)
    <2>1. \E l \in Compare!ChannelLines : l.key = key /\ l.suffix = ch
      BY <1>1, <1>2, <1>4, Zenon
    <2>2. line \in Compare!ChannelLines /\ line.key = key /\ line.suffix = ch
      BY <2>1, Zenon
    <2>3. Compare!NumOf(ch, key) = line.num
      BY Zenon DEF Compare!NumOf
    <2> HIDE DEF line
    <2>4. PICK i \in Sources(key) : line = LineOf(key, i)
      BY <1>1, <2>2, Zenon
    <2>5. i = ch
      BY <1>2, <2>2, <2>4, Zenon
    <2> QED BY <1>2, <2>3, <2>4, <2>5, Zenon
  <1>5. Compare!get(ch, key) = IF ch \in Sources(key) THEN Value(key, ch).v ELSE 0
    <2>1. Compare!get(ch, key) = IF Compare!Has(ch, key) THEN Compare!NumOf(ch, key).v ELSE 0
      BY Zenon DEF Compare!get
    <2> QED BY <1>3, <1>4, <2>1, Zenon
  <1> QED BY <1>3, <1>4, <1>5

LEMMA ChannelsFound ==
    ASSUME stats \in Stats, TextOK, OnFile
    PROVE  /\ Compare!channels \in SUBSET Channels /\ IsFiniteSet(Compare!channels)
           /\ \A key \in ChannelKeys : \A i \in Sources(key) : i \in Compare!channels
  <1>1. ASSUME NEW l \in Compare!ChannelLines PROVE l.suffix \in Channels
    <2>1. l.key \in ChannelKeys
      BY CompareKeys, Zenon DEF Compare!ChannelLines
    <2> DEFINE key == l.key
    <2>5. key \in ChannelKeys /\ l.key = key
      BY <2>1
    <2> HIDE DEF key
    <2>2. PICK i \in Sources(key) : l = LineOf(key, i)
      BY <2>5, CompareLines, Zenon
    <2>3. l.suffix = i
      BY <2>2, <2>5, CompareLines, Zenon
    <2>4. i \in Channels
      BY <2>5, StatsTypes
    <2> QED BY <2>3, <2>4
  <1>2. Compare!channels \in SUBSET Channels
    BY <1>1, Zenon DEF Compare!channels
  <1>3. ASSUME NEW key \in ChannelKeys, NEW i \in Sources(key) PROVE i \in Compare!channels
    <2>1. LineOf(key, i) \in Compare!ChannelLines /\ LineOf(key, i).suffix = i
      BY CompareLines, Zenon
    <2> QED BY <2>1, Zenon DEF Compare!channels
  <1>4. IsFiniteSet(Compare!channels)
    BY <1>2, StatsTypes, FS_Subset
  <1> QED BY <1>2, <1>3, <1>4

LEMMA RegularGet ==
    ASSUME stats \in Stats, TextOK, OnFile, Regular, NEW key \in CounterKeys
    PROVE  /\ \A i \in Channels : Compare!get(i, key) = Reported(key, i)
           /\ \A i \in Channels : i \notin Compare!channels => Reported(key, i) = 0
           /\ \A i \in Channels : Reported(key, i) \in Nat
  <1>1. key \in ChannelKeys /\ key \notin CoreKeys /\ key \notin TotalKeys
    BY Keys DEF ArrayKeys, ChannelKeys
  <1>2. ASSUME NEW i \in Channels
        PROVE  /\ i \in Sources(key) <=> key \in DOMAIN stats.controller[i]
               /\ Value(key, i) = stats.controller[i][key]
               /\ key \in DOMAIN stats.controller[i] => stats.controller[i][key].t = "int"
    BY <1>1 DEF Sources, Value, Regular
  <1>3. \A i \in Channels : Compare!get(i, key) = Reported(key, i)
    <2>1. ASSUME NEW i \in Channels PROVE Compare!get(i, key) = Reported(key, i)
      <3>1. Compare!get(i, key) = IF i \in Sources(key) THEN Value(key, i).v ELSE 0
        BY <1>1, GetIs
      <3> QED BY <1>2, <3>1, Zenon DEF Reported
    <2> QED BY <2>1
  <1>4. \A i \in Channels : i \notin Compare!channels => Reported(key, i) = 0
    <2>1. ASSUME NEW i \in Channels, i \notin Compare!channels PROVE Reported(key, i) = 0
      <3>1. i \notin Sources(key)
        BY <1>1, <2>1, ChannelsFound
      <3> QED BY <1>2, <3>1 DEF Reported
    <2> QED BY <2>1
  <1>5. \A i \in Channels : Reported(key, i) \in Nat
    BY ReportedIs
  <1> QED BY <1>3, <1>4, <1>5

LEMMA CompareSums ==
    ASSUME stats \in Stats, TextOK, OnFile, Regular, NEW key \in CounterKeys
    PROVE  Compare!SumOver(key) = SumOver(key)
  <1> DEFINE f == [ch \in Compare!channels |-> Compare!get(ch, key)]
             g == [i \in Channels |-> Reported(key, i)]
             C == Compare!channels
  <1>1. Compare!SumOver(key) = SumFunction(f)
    BY Zenon DEF Compare!SumOver, Compare!SumFunction, Compare!SumFunctionOnSet,
       Compare!FoldFunctionOnSet, Compare!MapThenFoldSet,
       SumFunction, SumFunctionOnSet, FoldFunctionOnSet, MapThenFoldSet
  <1>2. SumOver(key) = SumFunction(g)
    BY Zenon DEF SumOver
  <1>3. /\ \A i \in Channels : Compare!get(i, key) = Reported(key, i)
        /\ \A i \in Channels : i \notin C => Reported(key, i) = 0
        /\ \A i \in Channels : Reported(key, i) \in Nat
    BY RegularGet
  <1>4. C \in SUBSET Channels /\ IsFiniteSet(C) /\ IsFiniteSet(Channels)
    BY ChannelsFound, StatsTypes
  <1>5. /\ DOMAIN f = C /\ DOMAIN g = Channels
        /\ \A i \in C : f[i] = Reported(key, i)
        /\ \A i \in Channels : g[i] = Reported(key, i)
    BY <1>3, <1>4
  <1> HIDE DEF f, g, C
  <1>6. /\ \A i \in C : f[i] \in Nat
        /\ \A i \in Channels : g[i] \in Nat
        /\ \A i \in C \cap Channels : f[i] = g[i]
        /\ \A i \in C \ Channels : f[i] = 0
        /\ \A i \in Channels \ C : g[i] = 0
    BY <1>3, <1>4, <1>5
  <1>7. SumFunction(f) = SumFunction(g)
    BY <1>4, <1>5, <1>6, SumAgrees
  <1> QED BY <1>1, <1>2, <1>7

(* Channels without reads have no latency either.                             *)
LEMMA LatencySums ==
    ASSUME stats \in Stats, Regular, ChannelsKeepTheirNumbers, pc = "summarized"
    PROVE  /\ LatencySum(1) = SumOver("read_latency")
           /\ LatencySum(2) = SumOver("num_read_reqs")
  <1> DEFINE lat == "read_latency"
             reqs == "num_read_reqs"
             l == summary.latencies
  <1>1. l = [i \in Active |-> <<Reported(lat, i), Reported(reqs, i)>>]
    BY Zenon DEF ChannelsKeepTheirNumbers
  <1>2. /\ \A i \in Channels : Reported(lat, i) \in Nat /\ Reported(reqs, i) \in Nat
        /\ \A i \in Channels : i \in Active <=> Reported(reqs, i) > 0
        /\ \A i \in Channels : Reported(reqs, i) = 0 => Reported(lat, i) = 0
        /\ Active \in SUBSET Channels
    <2>1. lat \in CounterKeys /\ reqs \in CounterKeys
      BY DEF CounterKeys
    <2>2. \A i \in Channels : Reported(lat, i) \in Nat /\ Reported(reqs, i) \in Nat
      BY <2>1, ReportedIs
    <2> QED BY <2>2 DEF Active, Regular
  <1>3. IsFiniteSet(Channels) /\ IsFiniteSet(Active)
    <2>1. IsFiniteSet(Channels)
      BY StatsTypes
    <2> QED BY <1>2, <2>1, FS_Subset
  <1>4. \A i \in Active : l[i][1] = Reported(lat, i) /\ l[i][2] = Reported(reqs, i)
    BY <1>1
  <1>5. DOMAIN l = Active
    BY <1>1, Zenon
  <1> HIDE DEF lat, reqs, l
  <1>6. ASSUME NEW n \in {1, 2}, NEW key, \A i \in Active : l[i][n] = Reported(key, i),
               \A i \in Channels : Reported(key, i) \in Nat,
               \A i \in Channels : i \notin Active => Reported(key, i) = 0
        PROVE  LatencySum(n) = SumOver(key)
    <2> DEFINE f == [i \in DOMAIN l |-> l[i][n]]
               g == [i \in Channels |-> Reported(key, i)]
    <2>1. LatencySum(n) = SumFunction(f) /\ SumOver(key) = SumFunction(g)
      BY Zenon DEF LatencySum, SumOver, l
    <2>2. /\ DOMAIN f = Active /\ DOMAIN g = Channels
          /\ \A i \in Active : f[i] = Reported(key, i)
          /\ \A i \in Channels : g[i] = Reported(key, i)
      BY <1>5, <1>6
    <2> HIDE DEF f, g
    <2>3. /\ \A i \in Active : f[i] \in Nat
          /\ \A i \in Channels : g[i] \in Nat
          /\ \A i \in Active \cap Channels : f[i] = g[i]
          /\ \A i \in Active \ Channels : f[i] = 0
          /\ \A i \in Channels \ Active : g[i] = 0
      BY <1>2, <1>6, <2>2
    <2>4. SumFunction(f) = SumFunction(g)
      BY <1>3, <2>2, <2>3, SumAgrees
    <2> QED BY <2>1, <2>4
  <1>7. LatencySum(1) = SumOver(lat)
    <2>1. \A i \in Channels : i \notin Active => Reported(lat, i) = 0
      BY <1>2
    <2> QED BY <1>2, <1>4, <1>6, <2>1
  <1>8. LatencySum(2) = SumOver(reqs)
    <2>1. \A i \in Channels : i \notin Active => Reported(reqs, i) = 0
      BY <1>2
    <2> QED BY <1>2, <1>4, <1>6, <2>1
  <1> QED BY <1>7, <1>8 DEF lat, reqs

(* The sum of a single number.                                                *)
LEMMA SingleSum ==
    ASSUME NEW i, NEW f, DOMAIN f = {i}, f[i] \in Nat
    PROVE  SumFunction(f) = f[i]
  <1> DEFINE S == {i}
             G == Iter(f, S)
  <1>1. IsFiniteSet(S) /\ (\A j \in S : f[j] \in Nat) /\ i \in S /\ S \in SUBSET S
    BY FS_Singleton
  <1>2. SumFunction(f) = G[S]
    BY SumIsIter
  <1>3. S \ {i} = {} /\ {} \in SUBSET S
    OBVIOUS
  <1> HIDE DEF S
  <1>4. G[S] = f[i] + G[S \ {i}]
    <2>1. ASSUME NEW s \in SUBSET S, NEW x \in s
          PROVE  G[s] = f[x] + G[s \ {x}]
      BY <1>1, IterAny
    <2> HIDE DEF G
    <2> QED BY <1>1, <2>1
  <1>5. G[{}] = Term(f, G, {})
    BY <1>1, <1>3, IterStep
  <1> HIDE DEF G
  <1>6. G[{}] = 0
    BY <1>5 DEF Term
  <1> QED BY <1>2, <1>3, <1>4, <1>6

(* With one channel read, its numbers are the sums.                           *)
LEMMA OneLatency ==
    ASSUME stats \in Stats, ChannelsKeepTheirNumbers, pc = "summarized",
           NEW i \in summary.active, summary.active = {i}
    PROVE  summary.latencies[i] = <<LatencySum(1), LatencySum(2)>>
  <1> DEFINE l == summary.latencies
             lat == Reported("read_latency", i)
             reqs == Reported("num_read_reqs", i)
             f == [j \in DOMAIN l |-> l[j][1]]
             g == [j \in DOMAIN l |-> l[j][2]]
  <1>1. /\ l = [j \in Active |-> <<Reported("read_latency", j), Reported("num_read_reqs", j)>>]
        /\ Active = {i}
    BY Zenon DEF ChannelsKeepTheirNumbers
  <1>2. DOMAIN l = {i} /\ l[i] = <<lat, reqs>>
    BY <1>1, Zenon
  <1>3. lat \in Nat /\ reqs \in Nat
    <2>1. i \in Channels
      BY <1>1 DEF Active
    <2>2. "read_latency" \in CounterKeys /\ "num_read_reqs" \in CounterKeys
      BY DEF CounterKeys
    <2> QED BY <2>1, <2>2, ReportedIs
  <1>4. LatencySum(1) = SumFunction(f) /\ LatencySum(2) = SumFunction(g)
    BY Zenon DEF LatencySum
  <1> HIDE DEF l, lat, reqs
  <1>5. DOMAIN f = {i} /\ f[i] = lat /\ DOMAIN g = {i} /\ g[i] = reqs
    BY <1>2
  <1> HIDE DEF f, g
  <1>6. SumFunction(f) = lat /\ SumFunction(g) = reqs
    BY <1>3, <1>5, SingleSum
  <1> QED BY <1>2, <1>4, <1>6 DEF l

\* What the second reader's summary holds.
LEMMA CompareParts ==
    LET c == Compare!summarize IN
    /\ c.row_hits = Compare!SumOver("read_row_hits")
    /\ c.row_total = Compare!SumOver("read_row_hits") + Compare!SumOver("read_row_misses")
                       + Compare!SumOver("read_row_conflicts")
    /\ c.sums["read_latency"] = Compare!SumOver("read_latency")
    /\ c.sums["num_read_reqs"] = Compare!SumOver("num_read_reqs")
    /\ c.active = Compare!active_channels
    /\ c.requests = Compare!Global("total_num_read_requests", -1)
    /\ \A x \in c.queues : \E ch \in Compare!active_channels :
         x[1] = ch /\ x[3] = Compare!get(ch, "read_queue_len_avg")
  <1>1. "read_latency" \in Compare!SUM_CHANNEL_METRICS
        /\ "num_read_reqs" \in Compare!SUM_CHANNEL_METRICS
    BY DEF Compare!SUM_CHANNEL_METRICS
  <1> QED BY <1>1 DEF Compare!summarize

\* The second reader's total is the one the sweeps read.
LEMMA RequestsAre ==
    ASSUME stats \in Stats, TextOK, OnFile, Regular,
           NEW num \in Compare!Global("total_num_read_requests", -1)
    PROVE  num.v = TotalOf("total_num_read_requests")
  <1> DEFINE key == "total_num_read_requests"
  <1>1. key \in TotalKeys /\ key \in ReadKeys /\ key \notin CoreKeys
    BY Keys DEF TotalKeys, ArrayKeys
  <1>2. PICK l \in text : l.key = key /\ l.num = num
    BY Zenon DEF Compare!Global, Compare!Globals
  <1> HIDE DEF key
  <1>3. PICK i \in Sources(key) : l = LineOf(key, i)
    BY <1>1, <1>2, Lines, Zenon
  <1>4. num = Value(key, i)
    <2>1. LineOf(key, i).num = Value(key, i)
      BY DEF LineOf
    <2> QED BY <1>2, <1>3, <2>1
  <1>5. Value(key, i) = stats.total[key] /\ key \in DOMAIN stats.total
    BY <1>1 DEF Value, Sources
  <1>6. Value(key, i).t = "int"
    BY <1>5 DEF Regular
  <1>7. i \in Ints(key)
    BY <1>6, Zenon DEF Ints
  <1>8. TotalOf(key) = stats.total[key].v
    BY <1>7, Zenon DEF TotalOf
  <1> QED BY <1>4, <1>5, <1>8 DEF key

\* A channel is active for the second reader also when it is only written.
LEMMA CompareActive ==
    ASSUME stats \in Stats, TextOK, OnFile, Regular
    PROVE  Compare!active_channels =
             Active \cup {i \in Channels : Reported("num_write_reqs", i) > 0}
  <1> DEFINE r == "num_read_reqs"
             w == "num_write_reqs"
  <1>1. r \in CounterKeys /\ w \in CounterKeys
    BY DEF CounterKeys
  <1>2. /\ \A i \in Channels : Compare!get(i, r) = Reported(r, i)
        /\ \A i \in Channels : i \notin Compare!channels => Reported(r, i) = 0
        /\ \A i \in Channels : Reported(r, i) \in Nat
    BY <1>1, RegularGet
  <1>3. /\ \A i \in Channels : Compare!get(i, w) = Reported(w, i)
        /\ \A i \in Channels : i \notin Compare!channels => Reported(w, i) = 0
        /\ \A i \in Channels : Reported(w, i) \in Nat
    BY <1>1, RegularGet
  <1>4. Compare!channels \in SUBSET Channels
    BY ChannelsFound
  <1>5. \A i : i \in Compare!active_channels <=>
                 i \in Compare!channels /\ Compare!get(i, r) + Compare!get(i, w) # 0
    BY Zenon DEF Compare!active_channels, Compare!weight
  <1>6. \A i : i \in Active <=> i \in Channels /\ Reported(r, i) > 0
    BY Zenon DEF Active
  <1> HIDE DEF r, w
  <1>7. ASSUME NEW i
        PROVE  i \in Compare!active_channels <=>
                 i \in Active \/ (i \in Channels /\ Reported(w, i) > 0)
    <2>1. CASE i \in Channels
      <3> DEFINE a == Reported(r, i)
                 b == Reported(w, i)
      <3>1. a \in Nat /\ b \in Nat
        BY <1>2, <1>3, <2>1
      <3>2. i \in Compare!active_channels <=> i \in Compare!channels /\ a + b # 0
        BY <1>2, <1>3, <1>5, <2>1, Zenon
      <3>3. i \notin Compare!channels => a = 0 /\ b = 0
        BY <1>2, <1>3, <2>1
      <3>4. i \in Active <=> a > 0
        BY <1>6, <2>1
      <3> HIDE DEF a, b
      <3>5. a + b # 0 <=> a > 0 \/ b > 0
        BY <3>1
      <3>6. a = 0 => ~(a > 0)
        BY <3>1
      <3>7. b = 0 => ~(b > 0)
        BY <3>1
      <3>8. i \in Compare!active_channels <=> i \in Active \/ b > 0
        BY <3>2, <3>3, <3>4, <3>5, <3>6, <3>7, Zenon
      <3> QED BY <2>1, <3>8 DEF b
    <2>2. CASE i \notin Channels
      BY <1>4, <1>5, <1>6, <2>2, Zenon
    <2> QED BY <2>1, <2>2
  <1> QED BY <1>7, Zenon DEF w

(* Where both read the same thing, they agree.                                *)
LEMMA BothAgree ==
    ASSUME stats \in Stats, TextOK, ComparedOK, TotalsOK, ChannelsKeepTheirNumbers
    PROVE  ReadersAgree
  <1> SUFFICES ASSUME pc = "summarized", compared # Nothing, Regular
               PROVE  /\ compared.row_hits = summary.row_hits
                      /\ compared.row_total = summary.row_accesses
                      /\ compared.sums["read_latency"] = LatencySum(1)
                      /\ compared.sums["num_read_reqs"] = LatencySum(2)
                      /\ \A num \in compared.requests : num.v = summary.total_read_reqs
                      /\ compared.active = summary.active
                            \cup {i \in Channels : Reported("num_write_reqs", i) > 0}
                      /\ \A i \in summary.active : summary.active = {i} =>
                            summary.latencies[i] = <<compared.sums["read_latency"],
                                                     compared.sums["num_read_reqs"]>>
                      /\ Cardinality(compared.active) = 1 /\ summary.queues # {} =>
                            \A x \in compared.queues : <<x[1], x[3]>> \in summary.queues
    BY Zenon DEF ReadersAgree
  <1>1. OnFile /\ compared = Compare!summarize
    BY Zenon DEF ComparedOK
  <1>2. /\ compared.row_hits = Compare!SumOver("read_row_hits")
        /\ compared.row_total = Compare!SumOver("read_row_hits")
             + Compare!SumOver("read_row_misses") + Compare!SumOver("read_row_conflicts")
        /\ compared.sums["read_latency"] = Compare!SumOver("read_latency")
        /\ compared.sums["num_read_reqs"] = Compare!SumOver("num_read_reqs")
        /\ compared.active = Compare!active_channels
        /\ compared.requests = Compare!Global("total_num_read_requests", -1)
        /\ \A x \in compared.queues : \E ch \in Compare!active_channels :
             x[1] = ch /\ x[3] = Compare!get(ch, "read_queue_len_avg")
    BY <1>1, CompareParts
  <1>3. \A key \in CounterKeys : Compare!SumOver(key) = SumOver(key)
    BY <1>1, CompareSums
  <1>4. /\ summary.active = Active
        /\ summary.queues = {<<i, stats.controller[i]["read_queue_len_avg"].v>> :
               i \in {j \in Active :
                        /\ "read_queue_len_avg" \in DOMAIN stats.controller[j]
                        /\ stats.controller[j]["read_queue_len_avg"].t # "nan"}}
        /\ summary.row_hits = SumOver("read_row_hits")
        /\ summary.row_accesses = SumOver("read_row_hits")
            + SumOver("read_row_misses") + SumOver("read_row_conflicts")
    BY Zenon DEF ChannelsKeepTheirNumbers
  <1>5. compared.row_hits = summary.row_hits /\ compared.row_total = summary.row_accesses
    BY <1>2, <1>3, <1>4 DEF CounterKeys
  <1>6. compared.sums["read_latency"] = LatencySum(1)
        /\ compared.sums["num_read_reqs"] = LatencySum(2)
    BY <1>2, <1>3, LatencySums DEF CounterKeys
  <1>7. \A num \in compared.requests : num.v = summary.total_read_reqs
    <2>1. summary.total_read_reqs = TotalOf("total_num_read_requests")
      BY DEF TotalsOK
    <2> QED BY <1>1, <1>2, <2>1, RequestsAre
  <1>8. compared.active = summary.active
             \cup {i \in Channels : Reported("num_write_reqs", i) > 0}
    BY <1>1, <1>2, <1>4, CompareActive, Zenon
  <1>9. ASSUME Cardinality(compared.active) = 1, summary.queues # {}, NEW x \in compared.queues
        PROVE  <<x[1], x[3]>> \in summary.queues
    <2> DEFINE q == "read_queue_len_avg"
    <2>1. PICK i \in Active : /\ q \in DOMAIN stats.controller[i]
                              /\ <<i, stats.controller[i][q].v>> \in summary.queues
      BY <1>4, <1>9, Zenon
    <2>2. PICK ch \in compared.active : x[1] = ch /\ x[3] = Compare!get(ch, q)
      BY <1>2, <1>9
    <2>3. i = ch
      <3>1. IsFiniteSet(compared.active)
        <4>1. compared.active \in SUBSET Channels
          BY <1>4, <1>8 DEF Active
        <4> QED BY <4>1, StatsTypes, FS_Subset
      <3>2. PICK y : compared.active = {y}
        BY <1>9, <3>1, FS_Singleton
      <3> QED BY <1>4, <1>8, <2>1, <2>2, <3>2
    <2>4. Compare!get(ch, q) = stats.controller[ch][q].v
      <3>1. q \in ChannelKeys /\ q \notin CoreKeys /\ q \notin TotalKeys
        BY Keys DEF ArrayKeys, ChannelKeys, FloatKeys
      <3>2. ch \in Sources(q) /\ Value(q, ch) = stats.controller[ch][q]
        BY <2>1, <2>3, <3>1 DEF Sources, Value, Active
      <3> HIDE DEF q
      <3>3. Compare!get(ch, q) = IF ch \in Sources(q) THEN Value(q, ch).v ELSE 0
        BY <1>1, <3>1, GetIs
      <3> QED BY <3>2, <3>3
    <2> QED BY <2>1, <2>2, <2>3, <2>4
  <1>10. ASSUME NEW i \in summary.active, summary.active = {i}
         PROVE  summary.latencies[i] = <<compared.sums["read_latency"],
                                         compared.sums["num_read_reqs"]>>
    <2>1. summary.latencies[i] = <<LatencySum(1), LatencySum(2)>>
      BY <1>10, OneLatency
    <2> QED BY <1>6, <2>1
  <1> QED BY <1>5, <1>6, <1>7, <1>8, <1>9, <1>10

-------------------------------------------------------------------------------
(* The invariant holds from the start and is kept by every step.              *)
LEMMA SameComparison ==
    ASSUME text' = text
    PROVE  Compare!summarize' = Compare!summarize
  <1>1. Compare!ChannelLines' = Compare!ChannelLines
    BY Zenon DEF Compare!ChannelLines
  <1>2. Compare!channels' = Compare!channels
    BY <1>1, Zenon DEF Compare!channels
  <1>3. ASSUME NEW ch, NEW metric
        PROVE  /\ Compare!Has(ch, metric)' <=> Compare!Has(ch, metric)
               /\ Compare!NumOf(ch, metric)' = Compare!NumOf(ch, metric)
    BY <1>1, Zenon DEF Compare!Has, Compare!NumOf
  <1>4. ASSUME NEW ch, NEW metric
        PROVE  Compare!get(ch, metric)' = Compare!get(ch, metric)
    BY <1>3, Zenon DEF Compare!get
  <1>5. ASSUME NEW metric PROVE Compare!SumOver(metric)' = Compare!SumOver(metric)
    BY <1>2, <1>4, Zenon DEF Compare!SumOver
  <1>6. ASSUME NEW ch PROVE Compare!weight(ch)' = Compare!weight(ch)
    BY <1>4, Zenon DEF Compare!weight
  <1>7. Compare!active_channels' = Compare!active_channels
    BY <1>2, <1>6, Zenon DEF Compare!active_channels
  <1>8. ASSUME NEW key, NEW suffix PROVE Compare!Global(key, suffix)' = Compare!Global(key, suffix)
    BY <1>1, Zenon DEF Compare!Global, Compare!Globals
  <1> QED BY <1>3, <1>4, <1>5, <1>6, <1>7, <1>8, Zenon DEF Compare!summarize

LEMMA InitHolds ==
    ASSUME Init
    PROVE  IInv
  <1>1. /\ stats \in Stats /\ pc = "simulated" /\ compared = Nothing /\ row = Nothing
    BY DEF Init
  <1>2. BandwidthOf(row)
    BY <1>1, Zenon DEF BandwidthOf
  <1>3. RuntimeIsSlowestCore
    BY <1>1, <1>2, RuntimeParts
  <1> QED BY <1>1, <1>3 DEF IInv, FlatOK, TextOK, OnFile, MetricsOK, ComparedOK, TotalsOK,
           ChannelsKeepTheirNumbers

\* The row stays, and its bandwidth with it.
LEMMA RowKept ==
    ASSUME stats' = stats, row' = row, RuntimeIsSlowestCore,
           pc' \notin {"summarized", "next"}
    PROVE  RuntimeIsSlowestCore'
  <1>1. BandwidthOf(row)
    BY RuntimeParts, Zenon
  <1>2. BandwidthOf(row)'
    BY <1>1, SameBandwidth, Zenon
  <1>3. RuntimeIsSlowestCore' <=> /\ pc' = "summarized" => RuntimeOf(summary)'
                                  /\ pc' = "next" => Cores' # {}
                                  /\ BandwidthOf(row)'
    BY Zenon DEF RuntimeIsSlowestCore, RuntimeOf, BandwidthOf, Cores, Recorded
  <1> QED BY <1>2, <1>3, Zenon

\* The file stays, and the comparison with it.
LEMMA FileKept ==
    ASSUME stats' = stats, text' = text, OnFile, OnFile', TextOK
    PROVE  TextOK'
  <1>1. \A key \in ReadKeys : {l \in text : l.key = key} = {LineOf(key, i) : i \in Sources(key)}
    BY DEF TextOK
  <1>2. \A key, i : Sources(key)' = Sources(key) /\ LineOf(key, i)' = LineOf(key, i)
    BY SameStats, Zenon
  <1>3. ASSUME NEW key \in ReadKeys
        PROVE  {l \in text' : l.key = key} = {LineOf(key, i)' : i \in Sources(key)'}
    <2>1. \A l : l \in {LineOf(key, i)' : i \in Sources(key)'}
                <=> l \in {LineOf(key, i) : i \in Sources(key)}
      BY <1>2, Zenon
    <2>2. {LineOf(key, i)' : i \in Sources(key)'} = {LineOf(key, i) : i \in Sources(key)}
      BY <2>1, Zenon
    <2> QED BY <1>1, <2>2, Zenon
  <1> QED BY <1>3, Zenon DEF TextOK

LEMMA ComparisonKept ==
    ASSUME ComparedOK, compared' = compared, text' = text, OnFile => OnFile'
    PROVE  ComparedOK'
  BY SameComparison, Zenon DEF ComparedOK

\* Everything stays that the invariant speaks of, but for the comparison.
LEMMA PipelineKept ==
    ASSUME IInv, UNCHANGED <<stats, pc, flat, text, metrics, summary, row>>
    PROVE  /\ stats' \in Stats /\ FlatOK' /\ TextOK' /\ MetricsOK' /\ TotalsOK'
           /\ ChannelsKeepTheirNumbers' /\ RuntimeIsSlowestCore'
  <1>0. stats' = stats /\ pc' = pc /\ flat' = flat /\ text' = text /\ metrics' = metrics
        /\ summary' = summary /\ row' = row
    OBVIOUS
  <1>1. stats' \in Stats
    BY <1>0 DEF IInv
  <1>2. FlatOK'
    <2>1. FlatOK
      BY DEF IInv
    <2>2. \A key, i : Sources(key)' = Sources(key) /\ Value(key, i)' = Value(key, i)
      BY <1>0, SameStats, Zenon
    <2>3. ASSUME pc' = "flat", NEW key \in ReadKeys
          PROVE  /\ {x \in DOMAIN flat' : x[1] = key} = {<<key, i>> : i \in Sources(key)'}
                 /\ \A i \in Sources(key)' : flat'[<<key, i>>] = Value(key, i)'
      BY <1>0, <2>1, <2>2, <2>3, Zenon DEF FlatOK
    <2> QED BY <2>3, Zenon DEF FlatOK
  <1>3. TextOK'
    <2>1. CASE OnFile
      <3>1. OnFile' /\ TextOK
        BY <1>0, <2>1 DEF OnFile, IInv
      <3> QED BY <1>0, <2>1, <3>1, FileKept
    <2>2. CASE ~OnFile
      <3>1. ~OnFile'
        BY <1>0, <2>2 DEF OnFile
      <3> QED BY <3>1 DEF TextOK
    <2> QED BY <2>1, <2>2
  <1>4. MetricsOK'
    <2>1. MetricsOK
      BY DEF IInv
    <2>2. \A key : ArrayOf(key)' = ArrayOf(key) /\ TotalOf(key)' = TotalOf(key)
      BY <1>0, SameStats, Zenon
    <2> QED BY <1>0, <2>1, <2>2, Zenon DEF MetricsOK
  <1>5. TotalsOK'
    <2>1. TotalsOK
      BY DEF IInv
    <2>2. \A key : TotalOf(key)' = TotalOf(key)
      BY <1>0, SameStats, Zenon
    <2> QED BY <1>0, <2>1, <2>2, Zenon DEF TotalsOK
  <1>6. ChannelsKeepTheirNumbers'
    <2>1. ChannelsKeepTheirNumbers
      BY DEF IInv
    <2>2. /\ Active' = Active
          /\ \A key : SumOver(key)' = SumOver(key)
          /\ \A key, i : Reported(key, i)' = Reported(key, i)
      BY <1>0, SameStats, Zenon
    <2>3. ASSUME pc = "summarized"
          PROVE  /\ summary'.active = Active'
                 /\ summary'.latencies = [i \in Active' |-> <<Reported("read_latency", i)',
                                                             Reported("num_read_reqs", i)'>>]
                 /\ summary'.queues = {<<i, stats'.controller[i]["read_queue_len_avg"].v>> :
                        i \in {j \in Active' :
                                 /\ "read_queue_len_avg" \in DOMAIN stats'.controller[j]
                                 /\ stats'.controller[j]["read_queue_len_avg"].t # "nan"}}
                 /\ summary'.row_hits = SumOver("read_row_hits")'
                 /\ summary'.row_accesses = SumOver("read_row_hits")'
                     + SumOver("read_row_misses")' + SumOver("read_row_conflicts")'
      <3>1. summary'.latencies = [i \in Active |-> <<Reported("read_latency", i),
                                                    Reported("num_read_reqs", i)>>]
        BY <1>0, <2>1, <2>3, Zenon DEF ChannelsKeepTheirNumbers
      <3>2. summary'.latencies = [i \in Active' |-> <<Reported("read_latency", i)',
                                                     Reported("num_read_reqs", i)'>>]
        BY <2>2, <3>1, Zenon
      <3>3. /\ summary'.active = Active
            /\ summary'.queues = {<<i, stats.controller[i]["read_queue_len_avg"].v>> :
                   i \in {j \in Active :
                            /\ "read_queue_len_avg" \in DOMAIN stats.controller[j]
                            /\ stats.controller[j]["read_queue_len_avg"].t # "nan"}}
            /\ summary'.row_hits = SumOver("read_row_hits")
            /\ summary'.row_accesses = SumOver("read_row_hits")
                + SumOver("read_row_misses") + SumOver("read_row_conflicts")
        BY <1>0, <2>1, <2>3, Zenon DEF ChannelsKeepTheirNumbers
      <3>4. SumOver("read_row_hits")' = SumOver("read_row_hits")
            /\ SumOver("read_row_misses")' = SumOver("read_row_misses")
            /\ SumOver("read_row_conflicts")' = SumOver("read_row_conflicts")
        BY <2>2, Zenon
      <3>5. Active' = Active /\ stats' = stats
        BY <1>0, <2>2
      <3>6. /\ summary'.active = Active'
            /\ summary'.queues = {<<i, stats'.controller[i]["read_queue_len_avg"].v>> :
                   i \in {j \in Active' :
                            /\ "read_queue_len_avg" \in DOMAIN stats'.controller[j]
                            /\ stats'.controller[j]["read_queue_len_avg"].t # "nan"}}
        BY <3>3, <3>5, Zenon
      <3>7. /\ summary'.row_hits = SumOver("read_row_hits")'
            /\ summary'.row_accesses = SumOver("read_row_hits")'
                + SumOver("read_row_misses")' + SumOver("read_row_conflicts")'
        BY <3>3, <3>4, Zenon
      <3> QED BY <3>2, <3>6, <3>7
    <2> QED BY <1>0, <2>3, Zenon DEF ChannelsKeepTheirNumbers
  <1>7. RuntimeIsSlowestCore'
    <2>1. RuntimeIsSlowestCore
      BY DEF IInv
    <2> QED BY <1>0, <2>1, Zenon DEF RuntimeIsSlowestCore
  <1> QED BY <1>1, <1>2, <1>3, <1>4, <1>5, <1>6, <1>7

LEMMA NextKeeps ==
    ASSUME IInv, [Next]_vars
    PROVE  IInv'
  <1> USE DEF IInv
  <1>1. CASE Flatten
    <2>1. /\ pc = "simulated" /\ pc' = "flat" /\ stats' = stats /\ row' = row
          /\ compared' = compared
      BY <1>1, Zenon DEF Flatten
    <2>2. FlatOK'
      BY <1>1, FlattenKeeps
    <2>3. ~OnFile /\ ~OnFile'
      BY <2>1 DEF OnFile
    <2>4. TextOK' /\ ComparedOK'
      BY <2>1, <2>3, Zenon DEF TextOK, ComparedOK
    <2>5. MetricsOK' /\ TotalsOK' /\ ChannelsKeepTheirNumbers'
      BY <2>1 DEF MetricsOK, TotalsOK, ChannelsKeepTheirNumbers
    <2>6. RuntimeIsSlowestCore'
      BY <2>1, RowKept
    <2> QED BY <2>1, <2>2, <2>4, <2>5, <2>6
  <1>2. CASE Write
    <2>1. /\ pc = "flat" /\ pc' = "written" /\ stats' = stats /\ row' = row
          /\ compared' = compared
      BY <1>2, Zenon DEF Write
    <2>2. TextOK'
      BY <1>2, WriteKeeps
    <2>3. ~OnFile
      BY <2>1 DEF OnFile
    <2>4. ComparedOK'
      BY <2>1, <2>3, Zenon DEF ComparedOK
    <2>5. FlatOK' /\ MetricsOK' /\ TotalsOK' /\ ChannelsKeepTheirNumbers'
      BY <2>1 DEF FlatOK, MetricsOK, TotalsOK, ChannelsKeepTheirNumbers
    <2>6. RuntimeIsSlowestCore'
      BY <2>1, RowKept
    <2> QED BY <2>1, <2>2, <2>4, <2>5, <2>6
  <1>3. CASE Parse
    <2>1. /\ pc = "written" /\ pc' = "parsed" /\ stats' = stats /\ row' = row
          /\ text' = text /\ compared' = compared
      BY <1>3, Zenon DEF Parse
    <2>2. MetricsOK'
      BY <1>3, ParseKeeps
    <2>3. OnFile /\ OnFile'
      BY <2>1 DEF OnFile
    <2>4. TextOK' /\ ComparedOK'
      BY <2>1, <2>3, FileKept, ComparisonKept
    <2>5. FlatOK' /\ TotalsOK' /\ ChannelsKeepTheirNumbers'
      BY <2>1 DEF FlatOK, TotalsOK, ChannelsKeepTheirNumbers
    <2>6. RuntimeIsSlowestCore'
      BY <2>1, RowKept
    <2> QED BY <2>1, <2>2, <2>4, <2>5, <2>6
  <1>4. CASE Summarize
    <2>1. /\ pc = "parsed" /\ pc' = "summarized" /\ stats' = stats
          /\ text' = text /\ compared' = compared
      BY <1>4, Zenon DEF Summarize
    <2>2. ChannelsKeepTheirNumbers'
      BY <1>4, SummarizeKeepsNumbers
    <2>3. RuntimeIsSlowestCore' /\ TotalsOK'
      BY <1>4, SummarizeTakesSlowest
    <2>4. OnFile /\ OnFile'
      BY <2>1 DEF OnFile
    <2>5. TextOK' /\ ComparedOK'
      BY <2>1, <2>4, FileKept, ComparisonKept
    <2>6. FlatOK' /\ MetricsOK'
      BY <2>1 DEF FlatOK, MetricsOK
    <2> QED BY <2>1, <2>2, <2>3, <2>5, <2>6
  <1>5. CASE Report
    <2>1. /\ pc = "summarized" /\ pc' \in {"next", "failed"} /\ stats' = stats
          /\ text' = text /\ compared' = compared
      BY <1>5 DEF Report
    <2>2. RuntimeIsSlowestCore'
      BY <1>5, ReportKeeps
    <2>3. OnFile /\ OnFile'
      BY <2>1 DEF OnFile
    <2>4. TextOK' /\ ComparedOK'
      BY <2>1, <2>3, FileKept, ComparisonKept
    <2>5. FlatOK' /\ MetricsOK' /\ TotalsOK' /\ ChannelsKeepTheirNumbers'
      BY <2>1 DEF FlatOK, MetricsOK, TotalsOK, ChannelsKeepTheirNumbers
    <2> QED BY <2>1, <2>2, <2>4, <2>5
  <1>6. CASE CompareFile
    <2>1. /\ OnFile /\ text' = text /\ pc' = pc /\ compared' = Compare!summarize
          /\ UNCHANGED <<stats, pc, flat, text, metrics, summary, row>>
      BY <1>6, Zenon DEF CompareFile, OnFile
    <2>2. OnFile'
      BY <2>1, Zenon DEF OnFile
    <2>3. Compare!summarize' = Compare!summarize
      BY <2>1, SameComparison
    <2>4. ComparedOK'
      BY <2>1, <2>2, <2>3, Zenon DEF ComparedOK
    <2> QED BY <2>1, <2>4, PipelineKept
  <1>7. CASE UNCHANGED vars
    <2>1. /\ UNCHANGED <<stats, pc, flat, text, metrics, summary, row>>
          /\ compared' = compared /\ text' = text
      BY <1>7 DEF vars
    <2>2. OnFile => OnFile'
      BY <2>1 DEF OnFile
    <2>3. ComparedOK'
      BY <2>1, <2>2, ComparisonKept
    <2> QED BY <2>1, <2>3, PipelineKept
  <1> QED BY <1>1, <1>2, <1>3, <1>4, <1>5, <1>6, <1>7 DEF Next, Stopped

(* Through the dictionary, the text and the arrays, what is read of every key *)
(* is what the simulator reported under it, whichever channels leave it out.  *)
THEOREM StagesAgree == Spec => []IInv
  <1>1. Init => IInv
    BY InitHolds
  <1>2. IInv /\ [Next]_vars => IInv'
    BY NextKeeps
  <1> QED BY <1>1, <1>2, PTL DEF Spec

(* For any stats: the sweep's row is made of each active channel's own reads, *)
(* latency and queue length, and of the sums of all channels' row counters.   *)
THEOREM RowKeepsChannels == Spec => []ChannelsKeepTheirNumbers
  <1>1. IInv => ChannelsKeepTheirNumbers
    BY DEF IInv
  <1> QED BY <1>1, StagesAgree, PTL

(* For any stats: the runtime is the slowest core's that recorded one, no     *)
(* sweep goes on without one, and a bandwidth is missing only where the       *)
(* simulator reported no total or a core without cycles.                      *)
THEOREM RowHasSlowestCore == Spec => []RuntimeIsSlowestCore
  <1>1. IInv => RuntimeIsSlowestCore
    BY DEF IInv
  <1> QED BY <1>1, StagesAgree, PTL

(* For any stats and any moment of the comparison: compare_stats.py and the   *)
(* sweeps, which read one file differently, compute the same values.          *)
THEOREM ReadersAlwaysAgree == Spec => []ReadersAgree
  <1>1. IInv => ReadersAgree
    BY BothAgree DEF IInv
  <1> QED BY <1>1, StagesAgree, PTL
===============================================================================
