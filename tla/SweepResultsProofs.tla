-------------------------- MODULE SweepResultsProofs --------------------------
(* The rows of a results file, for every grid and number of invocations: none *)
(* is lost, what the file holds, and that it implements ResultStore.          *)
EXTENDS SweepResults, FiniteSetTheorems, TLAPS

Row == [key : Nat \X Nat, run : 1 .. MaxRuns, whole : BOOLEAN]

-------------------------------------------------------------------------------
(* The sort.  Precedes is a strict total order of the positions, so the ranks *)
(* are the positions again in some order.                                     *)
LEMMA PrecedesOrder ==
    ASSUME NEW s \in Rows
    PROVE  /\ \A i \in DOMAIN s : ~Precedes(s, i, i)
           /\ \A i, j \in DOMAIN s : i # j => Precedes(s, i, j) \/ Precedes(s, j, i)
           /\ \A i, j, k \in DOMAIN s :
                Precedes(s, i, j) /\ Precedes(s, j, k) => Precedes(s, i, k)
<1>1. \A i \in DOMAIN s : i \in Nat /\ s[i].key[1] \in Nat /\ s[i].key[2] \in Nat
  <2>1. s \in Seq(Row)
    BY DEF Rows, Row
  <2>2. DOMAIN s = 1 .. Len(s) /\ \A i \in 1 .. Len(s) : s[i] \in Row
    BY <2>1
  <2>3. \A r \in Row : r.key[1] \in Nat /\ r.key[2] \in Nat
    BY DEF Row
  <2> QED
    BY <2>2, <2>3
<1>2. \A i \in DOMAIN s : ~Precedes(s, i, i)
  BY <1>1 DEF Precedes, Before
<1>3. \A i, j \in DOMAIN s : i # j => Precedes(s, i, j) \/ Precedes(s, j, i)
  BY <1>1 DEF Precedes, Before
<1>4. ASSUME NEW i \in DOMAIN s, NEW j \in DOMAIN s, NEW k \in DOMAIN s,
             Precedes(s, i, j), Precedes(s, j, k)
      PROVE  Precedes(s, i, k)
  BY <1>1, <1>4 DEF Precedes, Before
<1> QED
  BY <1>2, <1>3, <1>4

LEMMA RankBijective ==
    ASSUME NEW s \in Rows
    PROVE  /\ \A j \in DOMAIN s : Rank(s, j) \in 1 .. Len(s)
           /\ \A j, k \in DOMAIN s : Rank(s, j) = Rank(s, k) => j = k
           /\ \A n \in 1 .. Len(s) : \E j \in DOMAIN s : Rank(s, j) = n
           /\ \A j, k \in DOMAIN s : Precedes(s, j, k) => Rank(s, j) < Rank(s, k)
<1> DEFINE D == DOMAIN s
           Smaller(j) == {i \in D : Precedes(s, i, j)}
<1>1. D = 1 .. Len(s) /\ Len(s) \in Nat
  BY DEF Rows
<1>2. IsFiniteSet(D) /\ Cardinality(D) = Len(s)
  <2>1. IsFiniteSet(1 .. Len(s))
        /\ Cardinality(1 .. Len(s)) = IF 1 > Len(s) THEN 0 ELSE Len(s) - 1 + 1
    BY <1>1, FS_Interval
  <2> QED
    BY <1>1, <2>1
<1>3. ASSUME NEW j \in D
      PROVE  /\ IsFiniteSet(Smaller(j)) /\ Cardinality(Smaller(j)) \in Nat
             /\ Rank(s, j) = Cardinality(Smaller(j)) + 1
             /\ Rank(s, j) \in 1 .. Len(s)
  <2>1. IsFiniteSet(Smaller(j)) /\ Cardinality(Smaller(j)) <= Len(s)
    BY <1>2, FS_Subset
  <2>2. Cardinality(Smaller(j)) \in Nat
    BY <2>1, FS_CardinalityType
  <2>3. Smaller(j) # D
    BY PrecedesOrder
  <2>4. Cardinality(Smaller(j)) # Len(s)
    BY <1>2, <2>3, FS_Subset
  <2>5. Rank(s, j) = Cardinality(Smaller(j)) + 1
    BY DEF Rank
  <2> HIDE DEF Smaller
  <2> QED
    BY <1>1, <2>1, <2>2, <2>4, <2>5
<1>4. ASSUME NEW j \in D, NEW k \in D, Precedes(s, j, k)
      PROVE  Rank(s, j) < Rank(s, k)
  <2>1. Smaller(j) \subseteq Smaller(k)
    BY <1>4, PrecedesOrder
  <2>2. j \in Smaller(k) /\ j \notin Smaller(j)
    BY <1>4, PrecedesOrder
  <2>3. Smaller(j) # Smaller(k)
    BY <2>2
  <2>4. Cardinality(Smaller(j)) <= Cardinality(Smaller(k))
        /\ Cardinality(Smaller(j)) # Cardinality(Smaller(k))
    <3> HIDE DEF Smaller
    <3> QED
      BY <1>3, <2>1, <2>3, FS_Subset
  <2> HIDE DEF Smaller
  <2> QED
    BY <1>3, <2>4
<1>5. \A j, k \in D : Rank(s, j) = Rank(s, k) => j = k
  <2> SUFFICES ASSUME NEW j \in D, NEW k \in D, j # k
               PROVE  Rank(s, j) # Rank(s, k)
    OBVIOUS
  <2>1. Rank(s, j) < Rank(s, k) \/ Rank(s, k) < Rank(s, j)
    BY <1>4, PrecedesOrder
  <2>2. Rank(s, j) \in Int /\ Rank(s, k) \in Int
    <3>1. Rank(s, j) \in 1 .. Len(s) /\ Rank(s, k) \in 1 .. Len(s)
      BY <1>3
    <3> QED
      BY <3>1
  <2> QED
    BY <2>1, <2>2
<1>6. \A n \in 1 .. Len(s) : \E j \in D : Rank(s, j) = n
  <2> DEFINE f == [j \in D |-> Rank(s, j)]
  <2>1. f \in Injection(D, 1 .. Len(s))
    BY <1>3, <1>5 DEF Injection, IsInjective
  <2>2. IsFiniteSet(1 .. Len(s)) /\ Cardinality(1 .. Len(s)) = Cardinality(D)
    BY <1>1, <1>2
  <2>3. f \in Surjection(D, 1 .. Len(s))
    BY <2>1, <2>2, FS_Injection
  <2> QED
    BY <2>3 DEF Surjection
<1> QED
  BY <1>3, <1>4, <1>5, <1>6

(* Sorting keeps the rows, and so their keys.                                 *)
LEMMA InOrderKeeps ==
    ASSUME NEW s \in Rows
    PROVE  /\ InOrder(s) \in Rows /\ Len(InOrder(s)) = Len(s)
           /\ \A j \in DOMAIN s : \E n \in DOMAIN InOrder(s) : InOrder(s)[n] = s[j]
           /\ \A n \in DOMAIN InOrder(s) : \E j \in DOMAIN s : InOrder(s)[n] = s[j]
<1> DEFINE At(n) == CHOOSE j \in DOMAIN s : Rank(s, j) = n
<1>1. s \in Seq(Row) /\ Len(s) \in Nat /\ DOMAIN s = 1 .. Len(s)
  BY DEF Rows, Row
<1>2. \A n \in 1 .. Len(s) : At(n) \in DOMAIN s /\ Rank(s, At(n)) = n
  BY RankBijective
<1>3. InOrder(s) = [n \in 1 .. Len(s) |-> s[At(n)]]
  BY DEF InOrder
<1>4. \A j \in DOMAIN s : Rank(s, j) \in 1 .. Len(s) /\ At(Rank(s, j)) = j
  BY <1>2, RankBijective
<1> HIDE DEF At
<1>5. InOrder(s) \in Seq(Row) /\ Len(InOrder(s)) = Len(s)
  BY <1>1, <1>2, <1>3
<1> QED
  BY <1>1, <1>2, <1>3, <1>4, <1>5 DEF Rows, Row

LEMMA SortedKeeps ==
    ASSUME NEW s \in Rows
    PROVE  Sorted(s) \in Rows /\ Len(Sorted(s)) = Len(s) /\ Keys(Sorted(s)) = Keys(s)
<1>1. CASE ~resumes
  BY <1>1 DEF Sorted
<1>2. CASE resumes
  <2>1. Sorted(s) = InOrder(s)
    BY <1>2 DEF Sorted
  <2>2. Keys(InOrder(s)) = Keys(s)
    <3>1. \A j \in DOMAIN s : s[j].key \in Keys(InOrder(s))
      BY InOrderKeeps DEF Keys
    <3>2. \A n \in DOMAIN InOrder(s) : InOrder(s)[n].key \in Keys(s)
      BY InOrderKeeps DEF Keys
    <3> QED
      BY <3>1, <3>2 DEF Keys
  <2> QED
    BY <2>1, <2>2, InOrderKeeps
<1> QED
  BY <1>1, <1>2
-------------------------------------------------------------------------------
(* Small facts about keys and the current point.                              *)
LEMMA RowsFacts ==
    ASSUME NEW s \in Rows
    PROVE  /\ s \in Seq(Row) /\ Len(s) \in Nat /\ DOMAIN s = 1 .. Len(s)
           /\ \A i \in DOMAIN s : s[i] \in Row
           /\ Keys(s) \subseteq Nat \X Nat
<1>1. s \in Seq(Row) /\ Len(s) \in Nat /\ DOMAIN s = 1 .. Len(s)
  BY DEF Rows, Row
<1>2. \A i \in DOMAIN s : s[i] \in Row
  BY <1>1
<1>3. \A r \in Row : r.key \in Nat \X Nat
  BY DEF Row
<1> QED
  BY <1>1, <1>2, <1>3 DEF Keys

LEMMA KeysAppend ==
    ASSUME NEW s \in Rows, NEW r \in Row
    PROVE  Append(s, r) \in Rows /\ Keys(Append(s, r)) = Keys(s) \cup {r.key}
<1>1. s \in Seq(Row) /\ DOMAIN s = 1 .. Len(s) /\ Len(s) \in Nat
  BY RowsFacts
<1>2. Append(s, r) \in Seq(Row) /\ DOMAIN Append(s, r) = 1 .. Len(s) + 1
  BY <1>1
<1>3. Append(s, r)[Len(s) + 1] = r
      /\ \A i \in 1 .. Len(s) : Append(s, r)[i] = s[i]
  BY <1>1
<1>4. \A i \in 1 .. Len(s) + 1 : i \in 1 .. Len(s) \/ i = Len(s) + 1
  BY <1>1
<1>5. Len(s) + 1 \in 1 .. Len(s) + 1 /\ 1 .. Len(s) \subseteq 1 .. Len(s) + 1
  BY <1>1
<1>6. Append(s, r) \in Rows
  BY <1>2 DEF Rows, Row
<1>7. Keys(Append(s, r)) \subseteq Keys(s) \cup {r.key}
  BY <1>1, <1>2, <1>3, <1>4 DEF Keys
<1>8. Keys(s) \cup {r.key} \subseteq Keys(Append(s, r))
  BY <1>1, <1>2, <1>3, <1>5 DEF Keys
<1> QED
  BY <1>6, <1>7, <1>8

LEMMA KeyType ==
    ASSUME TypeOK, InGrid
    PROVE  Key \in Nat \X Nat /\ pos \in 1 .. Len(grid)
<1>1. grid \in Seq(Nat \X Nat)
  <2>1. <<>> \in Seq(Nat \X Nat)
    OBVIOUS
  <2>2. grid \in Grids \/ grid = <<>>
    BY DEF TypeOK
  <2> QED
    BY <2>1, <2>2, SweepAssumption
<1>2. pos \in Nat /\ 1 <= pos /\ Len(grid) \in Nat
  BY <1>1 DEF TypeOK
<1> QED
  BY <1>1, <1>2 DEF InGrid, Key

-------------------------------------------------------------------------------
(* The invariant, one lemma for the first state and one per action.           *)
LEMMA InitInv == Init => SweepInv
<1> SUFFICES ASSUME Init PROVE SweepInv
  OBVIOUS
<1>1. <<>> \in Rows /\ Keys(<<>>) = {} /\ Len(<<>>) = 0
  BY DEF Rows, Keys
<1>2. TypeOK
  <2>1. grid \in Grids \cup {<<>>} /\ pos \in 1 .. Len(grid) + 1
    BY <1>1 DEF Init
  <2>2. rows \in Rows /\ csv \in Rows /\ runs \in 0 .. MaxRuns
    BY <1>1, SweepAssumption DEF Init
  <2> QED
    BY <2>1, <2>2 DEF Init, TypeOK
<1> QED
  BY <1>1, <1>2 DEF Init, SweepInv, Running, Lasting

LEMMA StartInv == ASSUME SweepInv, Start PROVE SweepInv'
<1>1. TypeOK /\ runs + 1 \in 1 .. MaxRuns /\ runs' = runs + 1
  BY SweepAssumption DEF SweepInv, TypeOK, Start
<1>2. CASE resumes /\ torn
  <2>1. /\ script' = script /\ pc = "idle" /\ pc' = "idle" /\ grid' = grid /\ pos' = pos
        /\ rows' = rows /\ done' = done /\ csv' = csv /\ torn' = torn
        /\ published' = published /\ cut' = cut /\ completed' = {} /\ finished' = FALSE
    BY <1>2 DEF Start, process, file
  <2>2. TypeOK'
    <3>1. runs' \in 0 .. MaxRuns
      BY <1>1, SweepAssumption
    <3>2. grid' \in Grids \cup {<<>>} /\ pos' \in 1 .. Len(grid') + 1
      BY <1>1, <2>1 DEF TypeOK
    <3>3. completed' \subseteq published' /\ published' \subseteq Nat \X Nat
      BY <1>1, <2>1 DEF TypeOK
    <3> QED
      BY <1>1, <2>1, <3>1, <3>2, <3>3 DEF TypeOK
  <2>3. resumes' = resumes /\ Keys(csv)' = Keys(csv)
    BY <2>1 DEF resumes, Keys
  <2>4. Lasting' = Lasting /\ (~cut => Lasting \subseteq Keys(csv))
    BY <1>2, <2>1, <2>3 DEF Lasting, SweepInv
  <2> QED
    BY <2>1, <2>2, <2>3, <2>4 DEF SweepInv, Running
<1>3. CASE ~(resumes /\ torn)
  <2>1. /\ script' = script /\ csv' = csv /\ torn' = torn /\ cut' = cut
        /\ published' = published /\ completed' = {} /\ finished' = FALSE
        /\ grid' \in Grids /\ pos' = 1 /\ pc' = "next" /\ Load
    BY <1>3 DEF Start, file
  <2>2. grid' \in Seq(Nat \X Nat) /\ pos' \in 1 .. Len(grid') + 1
    <3>1. grid' \in Seq(Nat \X Nat)
      BY <2>1, SweepAssumption
    <3>2. Len(grid') \in Nat
      BY <3>1
    <3> QED
      BY <2>1, <3>1, <3>2
  <2>3. <<>> \in Rows /\ csv \in Rows /\ Keys(csv) \subseteq Nat \X Nat
    <3>1. <<>> \in Rows
      BY DEF Rows
    <3>2. csv \in Rows
      BY <1>1 DEF TypeOK
    <3> QED
      BY <3>1, <3>2, RowsFacts
  <2>4. /\ rows' = (IF resumes THEN csv ELSE <<>>)
        /\ done' = (IF resumes THEN Keys(csv) ELSE {})
    BY <2>1 DEF Load
  <2>5. TypeOK'
    <3>1. rows' \in Rows /\ done' \subseteq Nat \X Nat
      BY <2>3, <2>4
    <3>2. /\ script \in Scripts /\ torn \in BOOLEAN /\ cut \in BOOLEAN
          /\ published \subseteq Nat \X Nat
      BY <1>1 DEF TypeOK
    <3>3. runs' \in 0 .. MaxRuns
      BY <1>1, SweepAssumption
    <3> QED
      BY <2>1, <2>2, <2>3, <3>1, <3>2, <3>3 DEF TypeOK
  <2>6. Keys(rows)' = IF resumes THEN Keys(csv) ELSE Keys(<<>>)
    BY <2>4 DEF Keys
  <2>7. Keys(csv)' = Keys(csv) /\ resumes' = resumes
    BY <2>1 DEF Keys, resumes
  <2>8. ~cut => (resumes => published \subseteq Keys(csv))
    BY <2>1 DEF SweepInv, Lasting, Start
  <2>9. Lasting' = IF resumes THEN published ELSE {}
    BY <2>1, <2>7 DEF Lasting
  <2> QED
    BY <1>1, <2>1, <2>4, <2>5, <2>6, <2>7, <2>8, <2>9 DEF SweepInv, Running
<1> QED
  BY <1>2, <1>3

LEMMA SkipInv == ASSUME SweepInv, Skip PROVE SweepInv'
<1>1. TypeOK /\ pos \in 1 .. Len(grid) /\ Len(grid) \in Nat
  <2>1. TypeOK /\ InGrid
    BY DEF SweepInv, Skip
  <2> QED
    BY <2>1, KeyType
<1>2. TypeOK'
  BY <1>1 DEF Skip, TypeOK, file, observed, InGrid
<1> QED
  BY <1>2 DEF Skip, SweepInv, file, observed, Running, Lasting, resumes, Keys

LEMMA GenerateInv == ASSUME SweepInv, Generate PROVE SweepInv'
<1>1. TypeOK'
  BY DEF SweepInv, Generate, TypeOK, process, file, observed, InGrid
<1> QED
  BY <1>1 DEF Generate, SweepInv, process, file, observed, Running, Lasting,
     resumes, Keys, Key

LEMMA MeasureInv == ASSUME SweepInv, Measure PROVE SweepInv'
<1> DEFINE r == [key |-> Key, run |-> runs, whole |-> TRUE]
<1>1. TypeOK /\ pc = "ready" /\ Key \in Nat \X Nat /\ InGrid
  <2>1. TypeOK /\ pc = "ready" /\ InGrid
    BY DEF SweepInv, TypeOK, Measure
  <2> QED
    BY <2>1, KeyType
<1>2. r \in Row
  BY <1>1, SweepAssumption DEF Row, SweepInv, TypeOK, Running
<1>3. rows \in Rows /\ rows' = Append(rows, r)
  BY <1>1 DEF TypeOK, Measure
<1>4. rows' \in Rows /\ Keys(rows)' = Keys(rows) \cup {Key}
  <2>1. Keys(rows)' = Keys(Append(rows, r))
    BY <1>3 DEF Keys
  <2>2. r.key = Key
    OBVIOUS
  <2> QED
    BY <1>2, <1>3, <2>1, <2>2, KeysAppend
<1>5. TypeOK'
  BY <1>1, <1>4 DEF TypeOK, Measure, file, observed, InGrid
<1>6. Key' = Key /\ resumes' = resumes /\ Lasting' = Lasting /\ Keys(csv)' = Keys(csv)
  BY DEF Measure, Key, resumes, Lasting, file, observed, Keys
<1> QED
  BY <1>1, <1>4, <1>5, <1>6 DEF Measure, SweepInv, file, observed, Running

LEMMA OpenCsvInv == ASSUME SweepInv, OpenCsv PROVE SweepInv'
<1>1. TypeOK /\ rows \in Rows /\ pc = "write"
  BY DEF SweepInv, TypeOK, OpenCsv
<1>2. rows' \in Rows /\ Keys(rows)' = Keys(rows)
  <2>1. rows' = Sorted(rows)
    BY DEF OpenCsv
  <2>2. Keys(rows)' = Keys(Sorted(rows))
    BY <2>1 DEF Keys
  <2> QED
    BY <1>1, <2>1, <2>2, SortedKeeps
<1>3. <<>> \in Rows
  BY DEF Rows
<1>4. TypeOK'
  BY <1>1, <1>2, <1>3 DEF TypeOK, OpenCsv, observed, InGrid
<1>5. Key' = Key /\ resumes' = resumes /\ Lasting' = Lasting
  BY DEF OpenCsv, Key, resumes, Lasting, observed
<1> QED
  BY <1>1, <1>2, <1>4, <1>5 DEF OpenCsv, SweepInv, observed, Running

LEMMA CloseCsvInv == ASSUME SweepInv, CloseCsv PROVE SweepInv'
<1>1. /\ TypeOK /\ pc = "writing" /\ Key \in Nat \X Nat
      /\ pos \in 1 .. Len(grid) /\ Len(grid) \in Nat
  <2>1. TypeOK /\ pc = "writing" /\ InGrid
    BY DEF SweepInv, TypeOK, CloseCsv
  <2> QED
    BY <2>1, KeyType
<1>2. pc' \in {"next", "idle"}
  BY DEF CloseCsv
<1>3. TypeOK'
  BY <1>1, <1>2 DEF TypeOK, CloseCsv, InGrid
<1>4. resumes' = resumes /\ Keys(rows)' = Keys(rows) /\ Keys(csv)' = Keys(rows)
  BY DEF CloseCsv, resumes, Keys
<1>5. Key \in Keys(rows) /\ (~cut => Lasting \subseteq Keys(rows))
  BY <1>1 DEF SweepInv, Running
<1>6. Lasting' = Lasting \cup {Key}
  BY <1>4 DEF CloseCsv, Lasting
<1> QED
  BY <1>1, <1>2, <1>3, <1>4, <1>5, <1>6 DEF CloseCsv, SweepInv, Running

LEMMA CutCsvInv == ASSUME SweepInv, CutCsv PROVE SweepInv'
<1>1. TypeOK /\ rows \in Rows
  BY DEF SweepInv, TypeOK
<1>2. csv' \in Rows /\ torn' \in BOOLEAN
  <2>1. PICK n \in 0 .. Len(rows) - 1 :
            LET prefix == SubSeq(rows, 1, n)
                key == rows[n + 1].key IN
            \/ csv' = prefix /\ torn' \in BOOLEAN
            \/ /\ \E cores \in CutDigits(key[2]) \cup {key[2]} :
                    csv' = Append(prefix,
                                  [key |-> <<key[1], cores>>,
                                   run |-> rows[n + 1].run, whole |-> FALSE])
               /\ torn' = FALSE
    BY DEF CutCsv
  <2>2. rows \in Seq(Row) /\ Len(rows) \in Nat /\ rows[n + 1] \in Row
    <3>1. n + 1 \in DOMAIN rows
      BY <1>1, RowsFacts
    <3> QED
      BY <1>1, <3>1, RowsFacts
  <2>3. SubSeq(rows, 1, n) \in Rows
    <3>1. SubSeq(rows, 1, n) \in Seq(Row)
      BY <2>2
    <3> QED
      BY <3>1 DEF Rows, Row
  <2>4. ASSUME NEW cores \in CutDigits(rows[n + 1].key[2]) \cup {rows[n + 1].key[2]}
        PROVE  [key |-> <<rows[n + 1].key[1], cores>>,
                run |-> rows[n + 1].run, whole |-> FALSE] \in Row
    <3>1. /\ rows[n + 1].key[1] \in Nat /\ rows[n + 1].key[2] \in Nat
          /\ rows[n + 1].run \in 1 .. MaxRuns
      BY <2>2 DEF Row
    <3>2. cores \in Nat
      <4>1. \A m \in Nat : m \div 10 \in Nat /\ m \div 100 \in Nat /\ m \div 1000 \in Nat
        OBVIOUS
      <4> DEFINE k == rows[n + 1].key[2]
      <4>2. k \in Nat
        BY <3>1
      <4>3. CutDigits(k) \subseteq {k \div 10, k \div 100, k \div 1000}
        BY DEF CutDigits
      <4>4. cores \in {k, k \div 10, k \div 100, k \div 1000}
        BY <4>3
      <4> HIDE DEF k
      <4> QED
        BY <4>1, <4>2, <4>4
    <3> QED
      BY <3>1, <3>2 DEF Row
  <2>5. \A x \in Row : Append(SubSeq(rows, 1, n), x) \in Rows
    BY <2>3, KeysAppend
  <2> QED
    BY <2>1, <2>3, <2>4, <2>5
<1>3. TypeOK'
  BY <1>1, <1>2 DEF TypeOK, CutCsv, process, InGrid
<1> QED
  BY <1>3 DEF CutCsv, SweepInv, Running

LEMMA DieInv == ASSUME SweepInv, Die PROVE SweepInv'
<1>1. TypeOK'
  BY DEF SweepInv, Die, TypeOK, process, file, observed, InGrid
<1> QED
  BY <1>1 DEF Die, SweepInv, process, file, observed, Running, Lasting, resumes, Keys

LEMMA FinishInv == ASSUME SweepInv, Finish PROVE SweepInv'
<1>1. TypeOK'
  BY DEF SweepInv, Finish, TypeOK, process, file, InGrid
<1> QED
  BY <1>1 DEF Finish, SweepInv, process, file, Running, Lasting, resumes, Keys

LEMMA StutterInv == ASSUME SweepInv, UNCHANGED vars PROVE SweepInv'
<1>1. TypeOK'
  BY DEF SweepInv, TypeOK, vars, InGrid
<1> QED
  BY <1>1 DEF SweepInv, vars, Running, Lasting, resumes, Keys, Key

(* The inductive invariant of every sweep, whatever the grids.                *)
THEOREM SweepCorrect == Spec => []SweepInv
<1>1. SweepInv /\ [Next]_vars => SweepInv'
  BY StartInv, SkipInv, GenerateInv, MeasureInv, OpenCsvInv, CloseCsvInv, CutCsvInv,
     DieInv, FinishInv, StutterInv DEF Next, Work, NoMoreRuns
<1> QED
  BY <1>1, InitInv, PTL DEF Spec

(* As long as no rewrite was cut, failures lose no row completed: none of the *)
(* invocation's for the batch sweep, none ever for the compute sweep.         *)
THEOREM CompletedRowsKeptCorrect == Spec => []CompletedRowsKept
<1>1. SweepInv => CompletedRowsKept
  BY DEF SweepInv, CompletedRowsKept
<1> QED
  BY <1>1, SweepCorrect, PTL

(* No point ever published is measured again by the compute sweep.            *)
THEOREM ReRunsOnlyFillGapsCorrect == Spec => ReRunsOnlyFillGaps
<1>1. SweepInv => (resumes /\ ~cut /\ pc = "ready" /\ pc' = "write" => Key \notin published)
  BY DEF SweepInv, Running, Lasting
<1> QED
  BY <1>1, SweepCorrect, PTL DEF ReRunsOnlyFillGaps

-------------------------------------------------------------------------------
(* What the rows of a results file are, for every grid and number of          *)
(* invocations: one per key and in key order, all of a finished grid, and of  *)
(* which invocation's options.                                                *)

(* Whole rows with different keys come out of the sort in strict key order.   *)
LEMMA SortOrders ==
    ASSUME NEW s \in Rows, OneEach(s)
    PROVE  InKeyOrder(InOrder(s))
<1> DEFINE At(n) == CHOOSE j \in DOMAIN s : Rank(s, j) = n
<1>1. InOrder(s) = [n \in 1 .. Len(s) |-> s[At(n)]]
  BY DEF InOrder
<1>2. \A n \in 1 .. Len(s) : At(n) \in DOMAIN s /\ Rank(s, At(n)) = n
  BY RankBijective
<1>3. \A j \in DOMAIN s : s[j].key \in Nat \X Nat
  <2>1. \A r \in Row : r.key \in Nat \X Nat
    BY DEF Row
  <2> QED
    BY <2>1, RowsFacts
<1>4. ASSUME NEW a \in DOMAIN s, NEW b \in DOMAIN s, Rank(s, a) < Rank(s, b),
             s[a].whole, s[b].whole
      PROVE  Before(s[a], s[b])
  <2>1. Rank(s, a) \in 1 .. Len(s) /\ Rank(s, b) \in 1 .. Len(s) /\ Len(s) \in Nat
    BY RankBijective, RowsFacts
  <2>2. ~(Rank(s, b) < Rank(s, a)) /\ a # b
    BY <1>4, <2>1
  <2>3. Precedes(s, a, b)
    BY <2>2, PrecedesOrder, RankBijective
  <2>4. s[a].key # s[b].key
    BY <1>4, <2>2 DEF OneEach
  <2>5. Before(s[a], s[b]) \/ Before(s[b], s[a])
    BY <1>3, <2>4 DEF Before
  <2> QED
    BY <2>3, <2>5 DEF Precedes
<1> HIDE DEF At
<1>5. Len(s) \in Nat /\ DOMAIN InOrder(s) = 1 .. Len(s)
  BY <1>1, RowsFacts
<1>6. ASSUME NEW n \in 1 .. Len(s), NEW m \in 1 .. Len(s), n < m,
             InOrder(s)[n].whole, InOrder(s)[m].whole
      PROVE  Before(InOrder(s)[n], InOrder(s)[m])
  <2>1. Rank(s, At(n)) < Rank(s, At(m))
    BY <1>2, <1>6
  <2> QED
    BY <1>1, <1>2, <1>4, <1>6, <2>1
<1> QED
  BY <1>5, <1>6 DEF InKeyOrder

LEMMA OrderedAreDistinct ==
    ASSUME NEW s \in Rows, InKeyOrder(s)
    PROVE  OneEach(s)
<1>1. \A j \in DOMAIN s : j \in Nat /\ s[j].key \in Nat \X Nat
  <2>1. \A r \in Row : r.key \in Nat \X Nat
    BY DEF Row
  <2> QED
    BY <2>1, RowsFacts
<1>2. \A i, j \in DOMAIN s : Before(s[i], s[j]) => s[i].key # s[j].key
  BY <1>1 DEF Before
<1> QED
  BY <1>1, <1>2 DEF InKeyOrder, OneEach

(* A property of every row survives the sort, and so do distinct keys.        *)
LEMMA SortedElements ==
    ASSUME NEW s \in Rows
    PROVE  \A n \in DOMAIN Sorted(s) : \E j \in DOMAIN s : Sorted(s)[n] = s[j]
<1>1. CASE resumes
  BY <1>1, InOrderKeeps DEF Sorted
<1>2. CASE ~resumes
  BY <1>2 DEF Sorted
<1> QED
  BY <1>1, <1>2

LEMMA AppendElements ==
    ASSUME NEW s \in Rows, NEW r \in Row
    PROVE  /\ DOMAIN Append(s, r) = 1 .. Len(s) + 1 /\ DOMAIN s = 1 .. Len(s)
           /\ Len(s) \in Nat
           /\ \A i \in DOMAIN Append(s, r) :
                \/ i \in DOMAIN s /\ Append(s, r)[i] = s[i]
                \/ i = Len(s) + 1 /\ Append(s, r)[i] = r
<1>1. s \in Seq(Row) /\ DOMAIN s = 1 .. Len(s) /\ Len(s) \in Nat
  BY RowsFacts
<1>2. \A i \in 1 .. Len(s) + 1 : i \in 1 .. Len(s) \/ i = Len(s) + 1
  BY <1>1
<1> QED
  BY <1>1, <1>2

-------------------------------------------------------------------------------
(* The invariant, one lemma for the first state and one per action.           *)
LEMMA InitFile == Init => FileInv
<1> SUFFICES ASSUME Init PROVE FileInv
  OBVIOUS
<1>1. DOMAIN csv = {} /\ csv = <<>>
  BY DEF Init
<1> QED
  BY <1>1 DEF Init, FileInv, Running, InKeyOrder, FinishedIsComplete, OlderRowsOnlyLoaded

LEMMA StartFile == ASSUME SweepInv, FileInv, Start PROVE FileInv'
<1>1. /\ script' = script /\ csv' = csv /\ cut' = cut /\ resumes' = resumes
      /\ completed' = {} /\ finished' = FALSE /\ pc = "idle"
      /\ runs' = runs + 1 /\ runs \in Nat /\ csv \in Rows
  BY SweepAssumption DEF Start, file, resumes, SweepInv, TypeOK
<1>2. ~cut => \A i \in DOMAIN csv : csv[i].whole /\ csv[i].run <= runs /\ csv[i].run \in Nat
  <2>1. \A i \in DOMAIN csv : csv[i].run \in Nat
    BY <1>1, RowsFacts, SweepAssumption DEF Row
  <2> QED
    BY <2>1 DEF FileInv
<1>3. ~cut' => \A i \in DOMAIN csv' : csv'[i].whole /\ csv'[i].run <= runs'
  BY <1>1, <1>2
<1>4. resumes => InKeyOrder(csv) /\ OneEach(csv)
  BY <1>1, OrderedAreDistinct DEF FileInv
<1>5. FinishedIsComplete' /\ OlderRowsOnlyLoaded'
  BY <1>1 DEF FinishedIsComplete, OlderRowsOnlyLoaded
<1>6. CASE resumes /\ torn
  <2>1. pc' = "idle"
    BY <1>1, <1>6 DEF Start
  <2> QED
    BY <1>1, <1>3, <1>4, <1>5, <2>1 DEF FileInv, Running
<1>7. CASE ~(resumes /\ torn)
  <2>1. pc' = "next" /\ pos' = 1 /\ rows' = (IF resumes THEN csv ELSE <<>>)
    BY <1>7 DEF Start, Load
  <2>2. Mine' = {}
    BY <1>1, <2>1 DEF Mine
  <2>3. ~cut => \A i \in DOMAIN rows' :
            /\ rows'[i].whole /\ rows'[i].run <= runs'
            /\ rows'[i].run = runs' <=> (~resumes' \/ rows'[i].key \in Mine')
    BY <1>1, <1>2, <2>1, <2>2
  <2>4. resumes => OneEach(rows')
    BY <1>4, <2>1
  <2> QED
    BY <1>1, <1>3, <1>4, <1>5, <2>1, <2>3, <2>4 DEF FileInv, Running
<1> QED
  BY <1>6, <1>7

LEMMA SkipFile == ASSUME SweepInv, FileInv, Skip PROVE FileInv'
<1>1. /\ pc = "next" /\ resumes /\ Key \in done /\ pos' = pos + 1
      /\ pc' = pc /\ script' = script /\ grid' = grid /\ rows' = rows /\ csv' = csv
      /\ cut' = cut /\ runs' = runs /\ completed' = completed /\ finished' = finished
      /\ resumes' = resumes
  BY DEF Skip, file, observed, resumes
<1>2. pos \in Nat /\ Keys(rows)' = Keys(rows) /\ grid[pos] \in Keys(rows)
  <2>1. pos \in 1 .. Len(grid)
    BY KeyType DEF Skip, SweepInv
  <2>2. grid[pos] \in Keys(rows)
    BY <1>1 DEF SweepInv, Running, Key
  <2> QED
    BY <1>1, <2>1, <2>2 DEF Keys
<1>3. \A i \in 1 .. pos' - 1 : grid'[i] \in Keys(rows)'
  <2>1. \A i \in 1 .. pos' - 1 : i \in 1 .. pos - 1 \/ i = pos
    BY <1>1, <1>2
  <2> QED
    BY <1>1, <1>2, <2>1 DEF FileInv, Running
<1>4. Mine' = Mine
  BY <1>1 DEF Mine
<1>5. csv = rows
  BY <1>1 DEF FileInv
<1>6. FinishedIsComplete' /\ OlderRowsOnlyLoaded'
  BY <1>1 DEF FileInv, FinishedIsComplete, OlderRowsOnlyLoaded
<1> QED
  BY <1>1, <1>3, <1>4, <1>5, <1>6 DEF FileInv, Running

LEMMA QuietFile ==
    ASSUME FileInv,
           UNCHANGED <<script, grid, pos, rows, done, csv, torn, runs, completed,
                       published, cut, finished>>,
           \/ pc = "next" /\ pc' = "ready"
           \/ pc # "writing" /\ pc' = "idle"
           \/ pc' = pc
    PROVE  FileInv'
<1>1. resumes' = resumes /\ Keys(rows)' = Keys(rows) /\ (pc' # "idle" => Mine' = Mine)
  BY DEF resumes, Keys, Mine, Key
<1>2. FinishedIsComplete' /\ OlderRowsOnlyLoaded'
  BY <1>1 DEF FileInv, FinishedIsComplete, OlderRowsOnlyLoaded
<1> QED
  BY <1>1, <1>2 DEF FileInv, Running

LEMMA MeasureFile == ASSUME SweepInv, FileInv, Measure PROVE FileInv'
<1> DEFINE r == [key |-> Key, run |-> runs, whole |-> TRUE]
<1>1. /\ pc = "ready" /\ pc' = "write" /\ rows' = Append(rows, r)
      /\ script' = script /\ grid' = grid /\ pos' = pos /\ csv' = csv
      /\ cut' = cut /\ runs' = runs /\ completed' = completed /\ finished' = finished
      /\ resumes' = resumes
  BY DEF Measure, file, observed, resumes
<1>2. rows \in Rows /\ csv \in Rows /\ r \in Row /\ runs \in Nat
  <2>1. TypeOK /\ InGrid /\ runs \in 1 .. MaxRuns
    BY <1>1, SweepAssumption DEF SweepInv, TypeOK, Running
  <2>2. Key \in Nat \X Nat
    BY <2>1, KeyType
  <2> QED
    BY <2>1, <2>2, SweepAssumption DEF TypeOK, Row
<1>3. Keys(rows)' = Keys(rows) \cup {Key}
  <2>1. Keys(rows)' = Keys(Append(rows, r)) /\ r.key = Key
    BY <1>1 DEF Keys
  <2> QED
    BY <1>2, <2>1, KeysAppend
<1>4. Mine' = Mine \cup {Key}
  BY <1>1 DEF Mine, Key
<1>5. resumes => Key \notin Keys(rows)
  BY <1>1 DEF SweepInv, Running
<1>6. \A i \in DOMAIN rows : rows[i].key \in Keys(rows)
  BY DEF Keys
<1>7. \A i \in DOMAIN rows' : \/ i \in DOMAIN rows /\ rows'[i] = rows[i]
                              \/ i = Len(rows) + 1 /\ rows'[i] = r
  BY <1>1, <1>2, AppendElements
<1>8. r.key = Key /\ r.run = runs /\ r.whole
  OBVIOUS
<1> HIDE DEF r
<1>9. ~cut => \A i \in DOMAIN rows :
        /\ rows[i].whole /\ rows[i].run <= runs
        /\ rows[i].run = runs <=> (~resumes \/ rows[i].key \in Mine)
  BY <1>1 DEF FileInv, Running
<1>10. ~cut => \A i \in DOMAIN rows' :
        /\ rows'[i].whole /\ rows'[i].run <= runs
        /\ rows'[i].run = runs <=> (~resumes \/ rows'[i].key \in Mine')
  <2> SUFFICES ASSUME ~cut, NEW i \in DOMAIN rows'
               PROVE  /\ rows'[i].whole /\ rows'[i].run <= runs
                      /\ rows'[i].run = runs <=> (~resumes \/ rows'[i].key \in Mine')
    OBVIOUS
  <2>1. CASE i \in DOMAIN rows /\ rows'[i] = rows[i]
    BY <1>4, <1>5, <1>6, <1>9, <2>1
  <2>2. CASE rows'[i] = r
    BY <1>2, <1>4, <1>8, <2>2
  <2> QED
    BY <1>7, <2>1, <2>2
<1>11. resumes => OneEach(rows')
  BY <1>1, <1>5, <1>6, <1>7, <1>8 DEF FileInv, Running, OneEach
<1>12. FinishedIsComplete' /\ OlderRowsOnlyLoaded'
  BY <1>1 DEF FileInv, FinishedIsComplete, OlderRowsOnlyLoaded
<1>13. \A i \in 1 .. pos' - 1 : grid'[i] \in Keys(rows)'
  BY <1>1, <1>3 DEF FileInv, Running
<1> QED
  BY <1>1, <1>10, <1>11, <1>12, <1>13 DEF FileInv, Running

LEMMA OpenCsvFile == ASSUME SweepInv, FileInv, OpenCsv PROVE FileInv'
<1>1. /\ pc = "write" /\ pc' = "writing" /\ rows' = Sorted(rows) /\ csv' = <<>>
      /\ script' = script /\ grid' = grid /\ pos' = pos
      /\ cut' = cut /\ runs' = runs /\ completed' = completed /\ finished' = finished
      /\ resumes' = resumes
  BY DEF OpenCsv, observed, resumes
<1>2. rows \in Rows /\ rows' \in Rows
  BY <1>1, SortedKeeps DEF SweepInv, TypeOK
<1>3. Keys(rows)' = Keys(rows)
  <2>1. Keys(rows)' = Keys(Sorted(rows))
    BY <1>1 DEF Keys
  <2> QED
    BY <1>2, <2>1, SortedKeeps
<1>4. Mine' = Mine
  BY <1>1 DEF Mine, Key
<1>5. \A n \in DOMAIN rows' : \E j \in DOMAIN rows : rows'[n] = rows[j]
  BY <1>1, <1>2, SortedElements
<1>6. resumes => InKeyOrder(rows') /\ OneEach(rows')
  <2>1. SUFFICES ASSUME resumes PROVE InKeyOrder(rows') /\ OneEach(rows')
    OBVIOUS
  <2>2. OneEach(rows)
    BY <1>1, <2>1 DEF FileInv, Running
  <2>3. InKeyOrder(rows')
    BY <1>1, <1>2, <2>1, <2>2, SortOrders DEF Sorted
  <2> QED
    BY <1>2, <2>3, OrderedAreDistinct
<1>7. ~cut => \A i \in DOMAIN rows' :
        /\ rows'[i].whole /\ rows'[i].run <= runs
        /\ rows'[i].run = runs <=> (~resumes \/ rows'[i].key \in Mine)
  BY <1>1, <1>5 DEF FileInv, Running
<1>8. FinishedIsComplete' /\ OlderRowsOnlyLoaded'
  BY <1>1 DEF FileInv, FinishedIsComplete, OlderRowsOnlyLoaded
<1>9. \A i \in 1 .. pos' - 1 : grid'[i] \in Keys(rows)'
  BY <1>1, <1>3 DEF FileInv, Running
<1>10. DOMAIN csv' = {}
  BY <1>1
<1> QED
  BY <1>1, <1>4, <1>6, <1>7, <1>8, <1>9, <1>10 DEF FileInv, Running

LEMMA CloseCsvFile == ASSUME SweepInv, FileInv, CloseCsv PROVE FileInv'
<1>1. /\ pc = "writing" /\ csv' = rows /\ completed' = completed \cup {Key}
      /\ pos' = pos + 1 /\ script' = script /\ grid' = grid /\ rows' = rows
      /\ runs' = runs /\ cut' = cut /\ finished' = finished /\ resumes' = resumes
      /\ pc' \in {"next", "idle"} /\ (resumes => pc' = "next")
  BY DEF CloseCsv, resumes
<1>2. Mine = completed' /\ Mine' = completed'
  BY <1>1 DEF Mine
<1>3. ~cut => \A i \in DOMAIN rows :
        /\ rows[i].whole /\ rows[i].run <= runs
        /\ rows[i].run = runs <=> (~resumes \/ rows[i].key \in completed')
  BY <1>1, <1>2 DEF FileInv, Running
<1>4. pos \in Nat /\ Keys(rows)' = Keys(rows) /\ grid[pos] \in Keys(rows)
  <2>1. pos \in 1 .. Len(grid)
    <3>1. TypeOK /\ InGrid
      BY <1>1 DEF SweepInv, TypeOK
    <3> QED
      BY <3>1, KeyType
  <2>2. grid[pos] \in Keys(rows)
    BY <1>1 DEF SweepInv, Key
  <2> QED
    BY <1>1, <2>1, <2>2 DEF Keys
<1>5. \A i \in 1 .. pos' - 1 : grid'[i] \in Keys(rows)'
  <2>1. \A i \in 1 .. pos' - 1 : i \in 1 .. pos - 1 \/ i = pos
    BY <1>1, <1>4
  <2> QED
    BY <1>1, <1>4, <2>1 DEF FileInv, Running
<1>6. FinishedIsComplete'
  BY <1>1 DEF FileInv, FinishedIsComplete
<1>7. OlderRowsOnlyLoaded'
  BY <1>1, <1>3 DEF OlderRowsOnlyLoaded
<1>8. resumes => InKeyOrder(rows) /\ OneEach(rows)
  BY <1>1 DEF FileInv, Running
<1> QED
  BY <1>1, <1>2, <1>3, <1>5, <1>6, <1>7, <1>8 DEF FileInv, Running

(* A cut rewrite leaves rows of memory and behind them one that is not whole. *)
LEMMA CutCsvFile == ASSUME SweepInv, FileInv, CutCsv PROVE FileInv'
<1>1. pc = "writing" /\ pc' = "idle" /\ cut' = TRUE /\ finished' = finished
      /\ resumes' = resumes
  BY DEF CutCsv, resumes
<1>2. FinishedIsComplete' /\ OlderRowsOnlyLoaded'
  BY <1>1 DEF FileInv, FinishedIsComplete, OlderRowsOnlyLoaded
<1>3. \A i \in DOMAIN csv' : csv'[i].whole => i \in DOMAIN rows /\ csv'[i] = rows[i]
  <2>1. PICK n \in 0 .. Len(rows) - 1 :
            LET prefix == SubSeq(rows, 1, n)
                key == rows[n + 1].key IN
            \/ csv' = prefix /\ torn' \in BOOLEAN
            \/ /\ \E cores \in CutDigits(key[2]) \cup {key[2]} :
                    csv' = Append(prefix,
                                  [key |-> <<key[1], cores>>,
                                   run |-> rows[n + 1].run, whole |-> FALSE])
               /\ torn' = FALSE
    BY DEF CutCsv
  <2>2. rows \in Rows /\ rows \in Seq(Row) /\ Len(rows) \in Nat
        /\ DOMAIN rows = 1 .. Len(rows) /\ n \in Nat /\ n <= Len(rows)
    <3>1. rows \in Rows
      BY DEF SweepInv, TypeOK
    <3> QED
      BY <3>1, RowsFacts
  <2> DEFINE prefix == SubSeq(rows, 1, n)
  <2>3. /\ DOMAIN prefix = 1 .. n /\ Len(prefix) = n /\ prefix \in Seq(Row)
        /\ \A i \in 1 .. n : prefix[i] = rows[i] /\ i \in DOMAIN rows
    BY <2>2
  <2>4. CASE csv' = prefix
    BY <2>3, <2>4
  <2>5. ASSUME NEW damaged, damaged.whole = FALSE, csv' = Append(prefix, damaged)
        PROVE  \A i \in DOMAIN csv' : csv'[i].whole => i \in DOMAIN rows /\ csv'[i] = rows[i]
    <3> HIDE DEF prefix
    <3>1. DOMAIN csv' = 1 .. n + 1 /\ csv'[n + 1] = damaged
          /\ \A i \in 1 .. n : csv'[i] = prefix[i]
      BY <2>2, <2>3, <2>5
    <3>2. \A i \in 1 .. n + 1 : i \in 1 .. n \/ i = n + 1
      BY <2>2
    <3> QED
      BY <2>3, <2>5, <3>1, <3>2
  <2>6. CASE csv' # prefix
    <3> DEFINE damaged(cores) == [key |-> <<rows[n + 1].key[1], cores>>,
                                  run |-> rows[n + 1].run, whole |-> FALSE]
    <3>1. \E cores : csv' = Append(prefix, damaged(cores))
      BY <2>1, <2>6
    <3>2. PICK cores : csv' = Append(prefix, damaged(cores))
      BY <3>1
    <3>3. damaged(cores).whole = FALSE
      OBVIOUS
    <3> HIDE DEF damaged, prefix
    <3> QED
      BY <2>5, <3>2, <3>3
  <2> QED
    BY <2>4, <2>6
<1>4. resumes => InKeyOrder(csv')
  BY <1>1, <1>3 DEF FileInv, InKeyOrder
<1> QED
  BY <1>1, <1>2, <1>4 DEF FileInv, Running

LEMMA FinishFile == ASSUME SweepInv, FileInv, Finish PROVE FileInv'
<1>1. /\ pc = "next" /\ pos > Len(grid) /\ pc' = "idle" /\ finished' = TRUE
      /\ script' = script /\ grid' = grid /\ rows' = rows /\ csv' = csv
      /\ runs' = runs /\ completed' = completed /\ cut' = cut /\ resumes' = resumes
  <2>1. pos \in Nat /\ Len(grid) \in Nat
    <3>1. grid \in Seq(Nat \X Nat)
      <4>1. <<>> \in Seq(Nat \X Nat) /\ (grid \in Grids \/ grid = <<>>)
        BY DEF SweepInv, TypeOK
      <4> QED
        BY <4>1, SweepAssumption
    <3> QED
      BY <3>1 DEF SweepInv, TypeOK
  <2> QED
    BY <2>1 DEF Finish, process, file, InGrid, resumes
<1>2. FinishedIsComplete'
  <2> SUFFICES ASSUME NEW i \in DOMAIN grid
               PROVE  \E j \in DOMAIN csv : csv[j].key = grid[i] /\ (cut \/ csv[j].whole)
    BY <1>1 DEF FinishedIsComplete
  <2>1. i \in 1 .. pos - 1 /\ pos > 1
    <3>1. grid \in Seq(Nat \X Nat) /\ pos \in Nat
      <4>1. <<>> \in Seq(Nat \X Nat) /\ (grid \in Grids \/ grid = <<>>)
        BY DEF SweepInv, TypeOK
      <4> QED
        BY <4>1, SweepAssumption DEF SweepInv, TypeOK
    <3>2. i \in 1 .. Len(grid) /\ Len(grid) \in Nat
      BY <3>1
    <3> QED
      BY <1>1, <3>1, <3>2
  <2>2. csv = rows /\ grid[i] \in Keys(rows)
    BY <1>1, <2>1 DEF FileInv, Running
  <2>3. PICK j \in DOMAIN csv : csv[j].key = grid[i]
    BY <2>2 DEF Keys
  <2> QED
    BY <2>3 DEF FileInv
<1>3. OlderRowsOnlyLoaded'
  BY <1>1 DEF FileInv, OlderRowsOnlyLoaded
<1> QED
  BY <1>1, <1>2, <1>3 DEF FileInv, Running

LEMMA FileStep == SweepInv /\ FileInv /\ [Next]_vars => FileInv'
<1> SUFFICES ASSUME SweepInv, FileInv, [Next]_vars PROVE FileInv'
  OBVIOUS
<1>1. CASE Generate
  BY <1>1, QuietFile DEF Generate, process, file, observed
<1>2. CASE Die
  BY <1>2, QuietFile DEF Die, process, file, observed
<1>3. CASE UNCHANGED vars
  BY <1>3, QuietFile DEF vars
<1> QED
  BY <1>1, <1>2, <1>3, StartFile, SkipFile, MeasureFile, OpenCsvFile, CloseCsvFile,
     CutCsvFile, FinishFile DEF Next, Work, NoMoreRuns

(* The inductive invariant of the rows, whatever the grids.                   *)
THEOREM FileCorrect == Spec => []FileInv
<1> QED
  BY SweepCorrect, InitFile, FileStep, PTL DEF Spec

(* The merged file has one whole row per key, in key order, for any mixture   *)
(* of grids, duplicates, failures and cut rewrites.                           *)
THEOREM OneRowPerKeyCorrect == Spec => []OneRowPerKey
<1>1. SweepInv /\ FileInv => OneRowPerKey
  <2> SUFFICES ASSUME SweepInv, FileInv, resumes,
                      NEW i \in DOMAIN csv, NEW j \in DOMAIN csv, i < j,
                      csv[i].whole, csv[j].whole
               PROVE  csv[i].key # csv[j].key /\ Before(csv[i], csv[j])
    BY DEF OneRowPerKey
  <2>1. csv \in Rows
    BY DEF SweepInv, TypeOK
  <2>2. pc # "writing"
    BY <2>1, RowsFacts DEF FileInv
  <2>3. InKeyOrder(csv)
    BY <2>2 DEF FileInv
  <2>4. i # j
    BY <2>1, RowsFacts
  <2> QED
    BY <2>1, <2>3, <2>4, OrderedAreDistinct DEF InKeyOrder, OneEach
<1> QED
  BY <1>1, SweepCorrect, FileCorrect, PTL

(* An invocation that runs to its end has a row for every point of its grid,  *)
(* whatever happened to the ones before it.                                   *)
THEOREM FinishedIsCompleteCorrect == Spec => []FinishedIsComplete
<1>1. FileInv => FinishedIsComplete
  BY DEF FileInv
<1> QED
  BY <1>1, FileCorrect, PTL

(* Rows of other invocations, with options of their own, are in the file only *)
(* where a merging sweep loaded them.                                         *)
THEOREM OlderRowsOnlyLoadedCorrect == Spec => []OlderRowsOnlyLoaded
<1>1. FileInv => OlderRowsOnlyLoaded
  BY DEF FileInv
<1> QED
  BY <1>1, FileCorrect, PTL

-------------------------------------------------------------------------------
(* The results file implements ResultStore: whole rewrites, the sort and the  *)
(* reloading by later invocations look to a reader like results published one *)
(* at a time, for every grid and number of invocations.                       *)

(* StoreInv, one lemma for the first state and one per action that disturbs   *)
(* it.                                                                        *)
LEMMA InitStore == Init => StoreInv
BY DEF Init, StoreInv, Running

LEMMA StartStore == ASSUME StoreInv, Start PROVE StoreInv'
<1>1. CASE resumes /\ torn
  <2>1. pc' = "idle"
    BY <1>1 DEF Start
  <2> QED
    BY <2>1 DEF StoreInv, Running
<1>2. CASE ~(resumes /\ torn)
  <2>1. pc' = "next" /\ completed' = {} /\ rows' = (IF resumes THEN csv ELSE <<>>)
        /\ resumes' = resumes
    BY <1>2 DEF Start, Load, resumes
  <2>2. ~resumes => Keys(rows)' = {}
    BY <2>1 DEF Keys
  <2> QED
    BY <2>1, <2>2 DEF StoreInv, Running
<1> QED
  BY <1>1, <1>2

LEMMA SkipStore == ASSUME SweepInv, Skip PROVE StoreInv'
<1>1. resumes' /\ pc' = "next" /\ pos' = pos + 1 /\ pos \in 1 .. Len(grid)
  <2>1. TypeOK /\ InGrid
    BY DEF SweepInv, Skip
  <2> QED
    BY <2>1, KeyType DEF Skip, resumes
<1>2. pos' # 1
  BY <1>1
<1> QED
  BY <1>1, <1>2 DEF StoreInv, Running

LEMMA QuietStore ==
    ASSUME StoreInv,
           UNCHANGED <<script, grid, pos, rows, csv, runs, completed>>,
           \/ pc = "next" /\ pc' \in {"ready", "idle"}
           \/ pc' = "idle"
           \/ pc' = pc
    PROVE  StoreInv'
<1>1. resumes' = resumes /\ Keys(rows)' = Keys(rows) /\ Key' = Key
      /\ (pc' # "idle" => Mine' = Mine)
  BY DEF resumes, Keys, Mine, Key
<1> QED
  BY <1>1 DEF StoreInv, Running

LEMMA MeasureStore == ASSUME SweepInv, FileInv, StoreInv, Measure PROVE StoreInv'
<1> DEFINE r == [key |-> Key, run |-> runs, whole |-> TRUE]
<1>1. /\ pc = "ready" /\ pc' = "write" /\ rows' = Append(rows, r)
      /\ pos' = pos /\ csv' = csv /\ completed' = completed /\ runs' = runs
      /\ resumes' = resumes /\ Key' = Key
  BY DEF Measure, file, observed, resumes, Key
<1>2. rows \in Rows /\ r \in Row
  <2>1. TypeOK /\ InGrid /\ runs \in 1 .. MaxRuns
    BY <1>1, SweepAssumption DEF SweepInv, TypeOK, Running
  <2>2. Key \in Nat \X Nat
    BY <2>1, KeyType
  <2> QED
    BY <2>1, <2>2, SweepAssumption DEF TypeOK, Row
<1>3. Keys(rows)' = Keys(rows) \cup {Key}
  <2>1. Keys(rows)' = Keys(Append(rows, r)) /\ r.key = Key
    BY <1>1 DEF Keys
  <2> QED
    BY <1>2, <2>1, KeysAppend
<1>4. Mine' = Mine \cup {Key}
  BY <1>1 DEF Mine
<1>5. resumes \/ pos > 1 => rows = csv
  BY <1>1 DEF FileInv
<1>6. ~(resumes \/ pos > 1) => rows = <<>>
  <2> SUFFICES ASSUME ~resumes, ~(pos > 1) PROVE rows = <<>>
    OBVIOUS
  <2>1. pos = 1
    BY DEF SweepInv, TypeOK
  <2>2. Keys(rows) = {}
    BY <1>1, <2>1 DEF StoreInv, Running, Mine
  <2>3. rows \in Seq(Row) /\ DOMAIN rows = {} /\ DOMAIN rows = 1 .. Len(rows) /\ Len(rows) \in Nat
    BY <1>2, <2>2, RowsFacts DEF Keys
  <2> QED
    BY <2>3
<1> QED
  BY <1>1, <1>3, <1>4, <1>5, <1>6 DEF StoreInv, Running

LEMMA OpenCsvStore == ASSUME SweepInv, StoreInv, OpenCsv PROVE StoreInv'
<1>1. /\ pc = "write" /\ pc' = "writing" /\ rows' = Sorted(rows) /\ pos' = pos
      /\ completed' = completed /\ resumes' = resumes /\ Key' = Key
  BY DEF OpenCsv, observed, resumes, Key
<1>2. Keys(rows)' = Keys(rows)
  <2>1. Keys(rows)' = Keys(Sorted(rows)) /\ rows \in Rows
    BY <1>1 DEF Keys, SweepInv, TypeOK
  <2> QED
    BY <2>1, SortedKeeps
<1>3. Mine' = Mine
  BY <1>1 DEF Mine
<1> QED
  BY <1>1, <1>2, <1>3 DEF StoreInv, Running

LEMMA CloseCsvStore == ASSUME SweepInv, StoreInv, CloseCsv PROVE StoreInv'
<1>1. /\ pc = "writing" /\ pc' \in {"next", "idle"} /\ rows' = rows /\ pos' = pos + 1
      /\ completed' = completed \cup {Key} /\ resumes' = resumes
  BY DEF CloseCsv, resumes
<1>2. Mine = completed' /\ Mine' = completed' /\ Keys(rows)' = Keys(rows)
  BY <1>1 DEF Mine, Keys
<1>3. pos' # 1
  <2>1. TypeOK /\ InGrid
    BY <1>1 DEF SweepInv, TypeOK
  <2>2. pos \in 1 .. Len(grid)
    BY <2>1, KeyType
  <2> QED
    BY <1>1, <2>2
<1> QED
  BY <1>1, <1>2, <1>3 DEF StoreInv, Running

LEMMA StoreStep == SweepInv /\ FileInv /\ StoreInv /\ [Next]_vars => StoreInv'
<1> SUFFICES ASSUME SweepInv, FileInv, StoreInv, [Next]_vars PROVE StoreInv'
  OBVIOUS
<1>1. CASE Generate
  BY <1>1, QuietStore DEF Generate, process, file, observed
<1>2. CASE Die
  BY <1>2, QuietStore DEF Die, process, file, observed
<1>3. CASE Finish
  BY <1>3, QuietStore DEF Finish, process, file
<1>4. CASE CutCsv
  BY <1>4 DEF CutCsv, StoreInv, Running
<1>5. CASE UNCHANGED vars
  BY <1>5, QuietStore DEF vars
<1> QED
  BY <1>1, <1>2, <1>3, <1>4, <1>5, StartStore, SkipStore, MeasureStore, OpenCsvStore,
     CloseCsvStore DEF Next, Work, NoMoreRuns

LEMMA StoreCorrect == Spec => []StoreInv
BY SweepCorrect, FileCorrect, InitStore, StoreStep, PTL DEF Spec

-------------------------------------------------------------------------------
(* Rows of one key that agree on the run that measured them, as distinct keys *)
(* and the rows of one invocation do, say what Measured says.                 *)
OneRun(s) == \A i, j \in DOMAIN s : s[i].key = s[j].key => s[i].run = s[j].run

LEMMA MeasuredIs ==
    ASSUME NEW s, OneRun(s)
    PROVE  /\ DOMAIN Measured(s) = Keys(s)
           /\ \A i \in DOMAIN s : Measured(s)[s[i].key] = s[i].run
<1> DEFINE At(k) == CHOOSE i \in DOMAIN s : s[i].key = k
<1>1. Measured(s) = [k \in Keys(s) |-> s[At(k)].run]
  BY DEF Measured
<1>2. ASSUME NEW i \in DOMAIN s
      PROVE  At(s[i].key) \in DOMAIN s /\ s[At(s[i].key)].key = s[i].key
  OBVIOUS
<1>3. \A i \in DOMAIN s : s[i].key \in Keys(s)
  BY DEF Keys
<1> HIDE DEF At
<1> QED
  BY <1>1, <1>2, <1>3 DEF OneRun

(* What opening the file does to a reader's map.                              *)
LEMMA OpenPublishes ==
    ASSUME SweepInv, FileInv, StoreInv, OpenCsv, ~cut
    PROVE  LET old == IF resumes THEN Measured(csv) ELSE [p \in completed |-> Measured(csv)[p]]
           IN  /\ Measured(rows') = [p \in DOMAIN old \cup {Key} |->
                                        IF p = Key THEN runs ELSE old[p]]
               /\ resumes => Key \notin Keys(csv)
<1> DEFINE r == [key |-> Key, run |-> runs, whole |-> TRUE]
           base == IF resumes \/ pos > 1 THEN csv ELSE <<>>
           old == IF resumes THEN Measured(csv) ELSE [p \in completed |-> Measured(csv)[p]]
<1>1. /\ pc = "write" /\ rows' = Sorted(rows) /\ rows = Append(base, r)
      /\ rows \in Rows /\ csv \in Rows /\ TypeOK /\ Running
  BY DEF OpenCsv, StoreInv, SweepInv, TypeOK, Running
<1>2. base \in Rows /\ r \in Row /\ r.key = Key /\ r.run = runs
  <2>1. <<>> \in Rows
    BY DEF Rows
  <2>2. Key \in Nat \X Nat
    BY <1>1, KeyType DEF TypeOK
  <2>3. runs \in 1 .. MaxRuns
    BY <1>1, SweepAssumption DEF SweepInv, TypeOK
  <2> QED
    BY <1>1, <2>1, <2>2, <2>3 DEF Row
<1> HIDE DEF r
<1>3. \A i \in DOMAIN rows : \/ i \in DOMAIN base /\ rows[i] = base[i]
                             \/ i = Len(base) + 1 /\ rows[i] = r
  BY <1>1, <1>2, AppendElements
<1>4. /\ \A i \in DOMAIN base : i \in DOMAIN rows /\ rows[i] = base[i]
      /\ Len(base) + 1 \in DOMAIN rows /\ rows[Len(base) + 1] = r
  <2>1. /\ DOMAIN rows = 1 .. Len(base) + 1 /\ DOMAIN base = 1 .. Len(base)
        /\ Len(base) \in Nat /\ base \in Seq(Row)
    BY <1>1, <1>2, AppendElements, RowsFacts
  <2> QED
    BY <1>1, <1>2, <2>1
<1>5. Keys(rows) = Keys(base) \cup {Key}
  BY <1>1, <1>2, KeysAppend
<1>6. /\ resumes => OneEach(rows)
      /\ \A i \in DOMAIN rows : rows[i].whole
  BY <1>1 DEF FileInv
<1>7. ~resumes => \A i \in DOMAIN rows : rows[i].run = runs
  BY <1>1 DEF FileInv
<1>8. OneRun(rows) /\ OneRun(base)
  BY <1>4, <1>6, <1>7 DEF OneRun, OneEach
<1>9. /\ Keys(rows') = Keys(rows)
      /\ \A n \in DOMAIN rows' : \E j \in DOMAIN rows : rows'[n] = rows[j]
  BY <1>1, SortedKeeps, SortedElements
<1>10. OneRun(rows')
  BY <1>8, <1>9 DEF OneRun
<1>11. ASSUME NEW j \in DOMAIN rows
       PROVE  Measured(rows')[rows[j].key] = rows[j].run
  <2>1. rows[j].key \in Keys(rows')
    BY <1>9 DEF Keys
  <2>2. PICK n \in DOMAIN rows' : rows'[n].key = rows[j].key
    BY <2>1 DEF Keys
  <2>3. Measured(rows')[rows[j].key] = rows'[n].run
    BY <1>10, <2>2, MeasuredIs
  <2>4. PICK m \in DOMAIN rows : rows'[n] = rows[m]
    BY <1>9
  <2> QED
    BY <1>8, <2>2, <2>3, <2>4 DEF OneRun
<1>12. Measured(rows')[Key] = runs
  BY <1>2, <1>4, <1>11
<1>13. \A p \in Keys(base) : p # Key => Measured(rows')[p] = Measured(base)[p]
  <2> SUFFICES ASSUME NEW p \in Keys(base)
               PROVE  Measured(rows')[p] = Measured(base)[p]
    OBVIOUS
  <2>1. PICK j \in DOMAIN base : base[j].key = p
    BY DEF Keys
  <2>2. Measured(base)[p] = base[j].run
    BY <1>8, <2>1, MeasuredIs
  <2>3. Measured(rows')[p] = base[j].run
    BY <1>4, <1>11, <2>1
  <2> QED
    BY <2>2, <2>3
<1>14. DOMAIN Measured(rows') = Keys(base) \cup {Key}
  BY <1>5, <1>9, <1>10, MeasuredIs
<1>15. resumes => /\ base = csv /\ old = Measured(csv) /\ DOMAIN old = Keys(base)
                  /\ Key \notin Keys(csv)
  <2> SUFFICES ASSUME resumes PROVE DOMAIN Measured(csv) = Keys(csv) /\ Key \notin Keys(csv)
    OBVIOUS
  <2>1. base = csv
    OBVIOUS
  <2>2. DOMAIN Measured(csv) = Keys(csv)
    BY DEF Measured
  <2>3. ASSUME NEW i \in DOMAIN base PROVE base[i].key # Key
    <3>1. i # Len(base) + 1
      <4>1. DOMAIN base = 1 .. Len(base) /\ Len(base) \in Nat
        BY <1>2, RowsFacts
      <4> QED
        BY <4>1
    <3> QED
      BY <1>2, <1>4, <1>6, <3>1 DEF OneEach
  <2> QED
    BY <2>1, <2>2, <2>3 DEF Keys
<1>16. ~resumes => /\ DOMAIN old \cup {Key} = Keys(base) \cup {Key}
                   /\ \A p \in DOMAIN old : old[p] = Measured(base)[p]
  <2> SUFFICES ASSUME ~resumes
               PROVE  /\ completed \cup {Key} = Keys(base) \cup {Key}
                      /\ \A p \in completed : Measured(csv)[p] = Measured(base)[p]
    OBVIOUS
  <2>1. Keys(base) \subseteq completed \cup {Key}
    BY <1>1, <1>5 DEF StoreInv, Mine
  <2>2. completed \subseteq Keys(csv)
    BY <1>1 DEF SweepInv, Lasting
  <2>3. CASE pos > 1
    BY <2>1, <2>2, <2>3
  <2>4. CASE ~(pos > 1)
    <3>1. completed = {} /\ base = <<>>
      <4>1. pos = 1
        BY <1>1, <2>4 DEF TypeOK
      <4> QED
        BY <1>1, <2>4, <4>1 DEF StoreInv
    <3>2. Keys(base) = {}
      BY <3>1 DEF Keys
    <3> QED
      BY <3>1, <3>2
  <2> QED
    BY <2>3, <2>4
<1> HIDE DEF base
<1>17. \E f : Measured(rows') = [p \in Keys(rows') |-> f[p]]
  <2>1. Measured(rows') = [p \in Keys(rows') |->
            [k \in Keys(rows') |-> rows'[CHOOSE i \in DOMAIN rows' : rows'[i].key = k].run][p]]
    BY DEF Measured
  <2> QED
    BY <2>1
<1>18. /\ DOMAIN old \cup {Key} = Keys(base) \cup {Key}
       /\ \A p \in DOMAIN old : old[p] = Measured(base)[p]
  BY <1>15, <1>16
<1> HIDE DEF old
<1>19. Measured(rows') = [p \in DOMAIN old \cup {Key} |-> IF p = Key THEN runs ELSE old[p]]
  <2>1. \A p \in DOMAIN old \cup {Key} :
            Measured(rows')[p] = IF p = Key THEN runs ELSE old[p]
    BY <1>12, <1>13, <1>18
  <2>2. Keys(rows') = DOMAIN old \cup {Key}
    BY <1>5, <1>9, <1>18
  <2> QED
    BY <1>17, <2>1, <2>2
<1> QED
  BY <1>15, <1>19 DEF old

-------------------------------------------------------------------------------
storeOf == Measured(IF pc = "writing" THEN rows ELSE csv)
mineOf == completed \cup (IF pc = "writing" THEN {Key} ELSE {})

LEMMA InitImplements == Init => Store!Init
<1> SUFFICES ASSUME Init PROVE Store!Init
  OBVIOUS
<1>1. Keys(csv) = {} /\ pc # "writing" /\ completed = {} /\ cut = FALSE
  BY DEF Init, Keys
<1>2. Measured(csv) = [k \in {} |-> 0]
  BY <1>1 DEF Measured
<1>3. resumes \in BOOLEAN
  BY DEF resumes
<1> QED
  BY <1>1, <1>2, <1>3 DEF Store!Init

\* Nothing a reader sees changes.
LEMMA Invisible ==
    ASSUME script' = script, cut' = cut, storeOf' = storeOf, mineOf' = mineOf
    PROVE  UNCHANGED Store!vars
BY DEF Store!vars, storeOf, mineOf, resumes

LEMMA DamageIsAllowed ==
    ASSUME script' = script, cut' = TRUE
    PROVE  Store!Next
BY DEF Store!Next, Store!Damage, resumes

LEMMA StartImplements ==
    ASSUME Start
    PROVE  Store!Next
<1>1. /\ script' = script /\ csv' = csv /\ cut' = cut /\ completed' = {}
      /\ pc = "idle" /\ pc' \in {"idle", "next"}
  BY DEF Start, file
<1>2. Measured(csv)' = Measured(csv)
  BY <1>1 DEF Measured, Keys
<1>3. CASE cut
  BY <1>1, <1>3, DamageIsAllowed
<1>4. CASE ~cut
  <2>1. Store!BeginSession
    BY <1>1, <1>2, <1>4 DEF Store!BeginSession, resumes
  <2> QED
    BY <2>1 DEF Store!Next
<1> QED
  BY <1>3, <1>4

LEMMA OpenCsvImplements ==
    ASSUME SweepInv, FileInv, StoreInv, OpenCsv
    PROVE  Store!Next
<1>1. /\ script' = script /\ cut' = cut /\ pc = "write" /\ pc' = "writing"
      /\ completed' = completed /\ Key' = Key /\ resumes' = resumes
      /\ cut \in BOOLEAN
  BY DEF OpenCsv, observed, Key, resumes, SweepInv, TypeOK
<1>2. CASE cut
  BY <1>1, <1>2, DamageIsAllowed
<1>3. CASE ~cut
  <2>1. Key \in UNION {{g[i] : i \in DOMAIN g} : g \in Grids}
    <3>1. pos \in 1 .. Len(grid) /\ grid \in Grids /\ Grids \subseteq Seq(Nat \X Nat)
      <4>1. pos \in 1 .. Len(grid)
        BY <1>1, KeyType DEF SweepInv, TypeOK
      <4>2. grid # <<>>
        BY <4>1
      <4> QED
        BY <4>1, <4>2, SweepAssumption DEF SweepInv, TypeOK
    <3>2. pos \in DOMAIN grid
      BY <3>1
    <3> QED
      BY <3>1, <3>2 DEF Key
  <2>2. runs \in 1 .. MaxRuns
    BY <1>1, SweepAssumption DEF SweepInv, TypeOK, Running
  <2>3. Store!Kept = IF resumes THEN Measured(csv) ELSE [p \in completed |-> Measured(csv)[p]]
    BY <1>1 DEF Store!Kept, Store!Restrict
  <2>4. /\ Measured(rows') = [p \in DOMAIN Store!Kept \cup {Key} |->
                                IF p = Key THEN runs ELSE Store!Kept[p]]
        /\ resumes => Key \notin Keys(csv)
    BY <1>3, <2>3, OpenPublishes
  <2>5. Measured(rows)' = Measured(rows') /\ DOMAIN Measured(csv) = Keys(csv)
    BY DEF Measured, Keys
  <2>6. Store!Publish(Key, runs)
    BY <1>1, <1>3, <2>4, <2>5 DEF Store!Publish
  <2> QED
    BY <2>1, <2>2, <2>6 DEF Store!Next
<1> QED
  BY <1>1, <1>2, <1>3

LEMMA CloseCsvImplements == ASSUME CloseCsv PROVE UNCHANGED Store!vars
<1>1. /\ pc = "writing" /\ pc' # "writing" /\ csv' = rows /\ script' = script
      /\ cut' = cut /\ completed' = completed \cup {Key}
  BY DEF CloseCsv
<1>2. storeOf' = storeOf
  BY <1>1 DEF storeOf, Measured, Keys
<1>3. mineOf' = mineOf
  BY <1>1 DEF mineOf
<1> QED
  BY <1>1, <1>2, <1>3, Invisible

LEMMA QuietImplements ==
    ASSUME UNCHANGED <<script, csv, completed, cut>>,
           (pc # "writing" /\ pc' # "writing") \/ UNCHANGED vars
    PROVE  UNCHANGED Store!vars
<1>1. storeOf' = storeOf
  <2>1. CASE pc # "writing" /\ pc' # "writing"
    BY <2>1 DEF storeOf, Measured, Keys
  <2>2. CASE UNCHANGED vars
    BY <2>2 DEF storeOf, Measured, Keys, vars
  <2> QED
    BY <2>1, <2>2
<1>2. mineOf' = mineOf
  <2>1. CASE pc # "writing" /\ pc' # "writing"
    BY <2>1 DEF mineOf
  <2>2. CASE UNCHANGED vars
    BY <2>2 DEF mineOf, Key, vars
  <2> QED
    BY <2>1, <2>2
<1> QED
  BY <1>1, <1>2, Invisible

(* Each step of the programs on their file publishes one result, starts a     *)
(* session, damages the store or is invisible.                                *)
THEOREM ImplementsResultStoreCorrect == Spec => ImplementsResultStore
<1>1. SweepInv /\ FileInv /\ StoreInv /\ [Next]_vars => [Store!Next]_(Store!vars)
  <2> SUFFICES ASSUME SweepInv, FileInv, StoreInv, [Next]_vars
               PROVE  Store!Next \/ UNCHANGED Store!vars
    OBVIOUS
  <2>1. CASE Skip
    BY <2>1, QuietImplements DEF Skip, file, observed
  <2>2. CASE Generate
    BY <2>2, QuietImplements DEF Generate, file, observed
  <2>3. CASE Measure
    BY <2>3, QuietImplements DEF Measure, file, observed
  <2>4. CASE Die
    BY <2>4, QuietImplements DEF Die, file, observed
  <2>5. CASE Finish
    BY <2>5, QuietImplements DEF Finish, file
  <2>6. CASE CutCsv
    BY <2>6, DamageIsAllowed DEF CutCsv
  <2>7. CASE UNCHANGED vars
    BY <2>7, QuietImplements DEF vars
  <2> QED
    BY <2>1, <2>2, <2>3, <2>4, <2>5, <2>6, <2>7, StartImplements, OpenCsvImplements,
       CloseCsvImplements DEF Next, Work, NoMoreRuns
<1> QED
  BY <1>1, InitImplements, SweepCorrect, FileCorrect, StoreCorrect, PTL
     DEF Spec, ImplementsResultStore, Store!Spec
===============================================================================
