--------------------------- MODULE KvTraceGenProofs ---------------------------
(* What KvTraceGen's runs check on small command lines, proved for every one: *)
(* the address arithmetic; the loops stay in range; the streams and the write *)
(* loop cover exactly what they should, at addresses in their tensors; the    *)
(* instruction count; and that all of it implements DecodeAttention.          *)
EXTENDS KvTraceGen, FiniteSetTheorems, TLAPS

-------------------------------------------------------------------------------
(* Facts about the address arithmetic of the generator, for every shape that  *)
(* validate_args accepts.                                                     *)

(* A whole number of cache lines covers a row of at least one byte.           *)
LEMMA CeilDivPositive ==
    ASSUME NEW n \in Nat \ {0}, NEW m \in Nat \ {0}
    PROVE  ceil_div(n, m) \in Nat \ {0}
  BY Z3 DEF ceil_div

(* What validate_args is worth: every loop of the generator has an iteration. *)
LEMMA ShapePositive ==
    ASSUME NEW a \in Args, validate_args(a)
    PROVE  /\ a.num_layers \in Nat \ {0} /\ a.batch \in Nat \ {0}
           /\ a.num_kv_heads \in Nat \ {0} /\ a.context_len \in Nat \ {0}
           /\ a.decode_tokens \in Nat \ {0}
           /\ a.reread_block_positions \in Nat \ {0}
           /\ a.compute_per_store_line \in Nat \ {0}
           /\ dim_lines(a) \in Nat \ {0}
           /\ group_size(a) \in Nat \ {0}
           /\ \A S \in Streams : ComputePerLine(a, S) \in Nat \ {0}
  <1>1. /\ a.num_layers \in Nat \ {0} /\ a.batch \in Nat \ {0}
        /\ a.num_kv_heads \in Nat \ {0} /\ a.context_len \in Nat \ {0}
        /\ a.decode_tokens \in Nat \ {0} /\ a.head_dim \in Nat \ {0}
        /\ a.reread_block_positions \in Nat \ {0}
        /\ a.compute_per_store_line \in Nat \ {0}
        /\ a.compute_per_k_line \in Nat \ {0}
        /\ a.compute_per_v_line \in Nat \ {0}
        /\ a.dtype_bytes \in Nat \ {0} /\ a.num_query_heads \in Nat \ {0}
        /\ a.num_query_heads >= a.num_kv_heads
    BY DEF Args, validate_args
  <1>2. row_bytes(a) \in Nat \ {0}
    BY <1>1 DEF row_bytes
  <1>3. dim_lines(a) \in Nat \ {0}
    BY <1>2, CeilDivPositive, CacheLineAssumption DEF dim_lines
  <1>4. group_size(a) \in Nat \ {0}
    BY <1>1 DEF group_size
  <1>5. \A S \in Streams : ComputePerLine(a, S) \in Nat \ {0}
    BY <1>1 DEF Streams, ComputePerLine
  <1> QED BY <1>1, <1>3, <1>4, <1>5

------------------------------------------------------------------------------
LEMMA NestNat ==
    ASSUME NEW i \in Nat, NEW m \in Nat, NEW j \in Nat
    PROVE  i * m + j \in Nat
  BY Z3

LEMMA TimesAssociates ==
    ASSUME NEW i \in Nat, NEW j \in Nat, NEW k \in Nat
    PROVE  (i * j) * k = i * (j * k)
  BY Z3

(* Row-major nesting stays below the product of the extents.                  *)
LEMMA NestBound ==
    ASSUME NEW n \in Nat, NEW m \in Nat, NEW i \in 0 .. n - 1, NEW j \in 0 .. m - 1
    PROVE  i * m + j \in 0 .. n * m - 1
  <1>1. i * m \in Nat /\ i * m + j \in Nat
    BY Z3
  <1>2. i * m <= (n - 1) * m
    BY Z3
  <1>3. (n - 1) * m = n * m - m
    BY Z3
  <1>4. n * m \in Nat
    BY Z3
  <1> QED BY <1>1, <1>2, <1>3, <1>4

(* The last line of a row starts at one of the row's own elements.            *)
LEMMA LineStartsInRow ==
    ASSUME NEW hd \in Nat \ {0}, NEW dt \in Nat \ {0}, dt <= CacheLine,
           NEW k \in 0 .. ceil_div(hd * dt, CacheLine) - 1
    PROVE  k * (CacheLine \div dt) \in 0 .. hd - 1
  <1> DEFINE e == CacheLine \div dt
             n == hd * dt
  <1>1. CacheLine \in Nat \ {0} /\ n \in Nat \ {0}
    BY CacheLineAssumption, Z3
  <1>2. e \in Nat /\ e * dt <= CacheLine
    BY <1>1, Z3
  <1>3. k \in Nat /\ k * CacheLine < n
    <2> DEFINE q == (n + CacheLine - 1) \div CacheLine
    <2>1. q \in Nat /\ q * CacheLine <= n + CacheLine - 1
      BY <1>1, Z3
    <2>2. k \in Nat /\ k <= q - 1
      BY <2>1 DEF ceil_div
    <2> HIDE DEF q, n
    <2>3. k * CacheLine <= (q - 1) * CacheLine
      BY <1>1, <2>1, <2>2, Z3
    <2>4. (q - 1) * CacheLine = q * CacheLine - CacheLine
      BY <1>1, <2>1, Z3
    <2> QED BY <1>1, <2>1, <2>2, <2>3, <2>4, Z3
  <1> HIDE DEF e
  <1>4. k * (e * dt) <= k * CacheLine
    BY <1>1, <1>2, <1>3, Z3
  <1>5. (k * e) * dt < hd * dt
    BY <1>1, <1>2, <1>3, <1>4, Z3
  <1>6. k * e \in Nat /\ k * e < hd
    BY <1>2, <1>3, <1>5, Z3
  <1> QED BY <1>6 DEF e

(* Two indices of a row-major nest that coincide agree in both coordinates.   *)
LEMMA NestInjective ==
    ASSUME NEW m \in Nat, NEW i \in Nat, NEW j \in 0 .. m - 1,
           NEW x \in Nat, NEW y \in 0 .. m - 1, i * m + j = x * m + y
    PROVE  i = x /\ j = y
  <1>1. ASSUME NEW p \in Nat, NEW q \in Nat, p < q PROVE p * m + m <= q * m
    <2>1. (p + 1) * m <= q * m
      BY <1>1, Z3
    <2> QED BY <2>1, Z3
  <1>2. ~(i < x)
    <2> SUFFICES ASSUME i < x PROVE FALSE
      OBVIOUS
    <2>1. i * m + m <= x * m
      BY <1>1
    <2> QED BY <2>1, Z3
  <1>3. ~(x < i)
    <2> SUFFICES ASSUME x < i PROVE FALSE
      OBVIOUS
    <2>1. x * m + m <= i * m
      BY <1>1
    <2> QED BY <2>1, Z3
  <1> QED BY <1>2, <1>3, Z3

Rows(a) == a.num_layers * a.batch * a.num_kv_heads * max_seq_len(a)

(* In either layout a row index stays below the number of rows of the tensor. *)
LEMMA RowBound ==
    ASSUME NEW a \in Args, validate_args(a),
           NEW l \in 0 .. a.num_layers - 1, NEW b \in 0 .. a.batch - 1,
           NEW h \in 0 .. a.num_kv_heads - 1, NEW s \in 0 .. max_seq_len(a) - 1
    PROVE  kv_row(a, l, b, h, s) \in 0 .. Rows(a) - 1
  <1> DEFINE M == max_seq_len(a)
  <1>1. /\ a.num_layers \in Nat /\ a.batch \in Nat /\ a.num_kv_heads \in Nat
        /\ M \in Nat
    BY ShapePositive DEF max_seq_len
  <1> HIDE DEF M
  <1>2. l * a.batch + b \in 0 .. a.num_layers * a.batch - 1
    BY <1>1, NestBound
  <1>3. a.num_layers * a.batch \in Nat
    BY <1>1, Z3
  <1>4. CASE a.layout = "head_seq_dim"
    <2>1. (l * a.batch + b) * a.num_kv_heads + h
            \in 0 .. (a.num_layers * a.batch) * a.num_kv_heads - 1
      BY <1>1, <1>2, <1>3, NestBound
    <2>2. (a.num_layers * a.batch) * a.num_kv_heads \in Nat
      BY <1>1, <1>3, Z3
    <2>3. ((l * a.batch + b) * a.num_kv_heads + h) * M + s
            \in 0 .. ((a.num_layers * a.batch) * a.num_kv_heads) * M - 1
      BY <1>1, <2>1, <2>2, NestBound DEF M
    <2> QED BY <1>4, <2>3 DEF kv_row, Rows, M
  <1>5. CASE a.layout # "head_seq_dim"
    <2>1. (l * a.batch + b) * M + s \in 0 .. (a.num_layers * a.batch) * M - 1
      BY <1>1, <1>2, <1>3, NestBound DEF M
    <2>2. (a.num_layers * a.batch) * M \in Nat
      BY <1>1, <1>3, Z3
    <2>3. ((l * a.batch + b) * M + s) * a.num_kv_heads + h
            \in 0 .. ((a.num_layers * a.batch) * M) * a.num_kv_heads - 1
      BY <1>1, <2>1, <2>2, NestBound
    <2>4. ((a.num_layers * a.batch) * M) * a.num_kv_heads
            = ((a.num_layers * a.batch) * a.num_kv_heads) * M
      BY <1>1, <1>3, Z3
    <2> QED BY <1>5, <2>3, <2>4 DEF kv_row, Rows, M
  <1> QED BY <1>4, <1>5

(* In either layout different rows have different indices.                    *)
LEMMA RowInjective ==
    ASSUME NEW a \in Args, validate_args(a),
           NEW l1 \in 0 .. a.num_layers - 1, NEW b1 \in 0 .. a.batch - 1,
           NEW h1 \in 0 .. a.num_kv_heads - 1, NEW s1 \in 0 .. max_seq_len(a) - 1,
           NEW l2 \in 0 .. a.num_layers - 1, NEW b2 \in 0 .. a.batch - 1,
           NEW h2 \in 0 .. a.num_kv_heads - 1, NEW s2 \in 0 .. max_seq_len(a) - 1,
           kv_row(a, l1, b1, h1, s1) = kv_row(a, l2, b2, h2, s2)
    PROVE  l1 = l2 /\ b1 = b2 /\ h1 = h2 /\ s1 = s2
  <1> DEFINE M == max_seq_len(a)
             r1 == l1 * a.batch + b1
             r2 == l2 * a.batch + b2
  <1>1. /\ a.num_layers \in Nat /\ a.batch \in Nat /\ a.num_kv_heads \in Nat
        /\ M \in Nat
    BY ShapePositive DEF max_seq_len
  <1>2. s1 \in 0 .. M - 1 /\ s2 \in 0 .. M - 1
    OBVIOUS
  <1>3. r1 \in Nat /\ r2 \in Nat
    BY <1>1, NestBound
  <1>4. r1 = r2 => l1 = l2 /\ b1 = b2
    BY <1>1, NestInjective
  <1>5. CASE a.layout = "head_seq_dim"
    <2>1. (r1 * a.num_kv_heads + h1) * M + s1 = (r2 * a.num_kv_heads + h2) * M + s2
      BY <1>5 DEF kv_row
    <2> HIDE DEF r1, r2, M
    <2>2. r1 * a.num_kv_heads + h1 \in Nat /\ r2 * a.num_kv_heads + h2 \in Nat
      BY <1>1, <1>3, Z3
    <2>3. r1 * a.num_kv_heads + h1 = r2 * a.num_kv_heads + h2 /\ s1 = s2
      BY <1>1, <1>2, <2>1, <2>2, NestInjective
    <2>4. r1 = r2 /\ h1 = h2
      BY <1>1, <1>3, <2>3, NestInjective
    <2> QED BY <1>4, <2>3, <2>4
  <1>6. CASE a.layout # "head_seq_dim"
    <2>1. (r1 * M + s1) * a.num_kv_heads + h1 = (r2 * M + s2) * a.num_kv_heads + h2
      BY <1>6 DEF kv_row
    <2> HIDE DEF r1, r2, M
    <2>2. r1 * M + s1 \in Nat /\ r2 * M + s2 \in Nat
      BY <1>1, <1>2, <1>3, NestNat
    <2>3. r1 * M + s1 = r2 * M + s2 /\ h1 = h2
      <3>1. ASSUME NEW i \in Nat, NEW x \in Nat,
                   i * a.num_kv_heads + h1 = x * a.num_kv_heads + h2
            PROVE  i = x /\ h1 = h2
        BY <1>1, <3>1, NestInjective
      <3> QED BY <2>1, <2>2, <3>1
    <2>4. r1 = r2 /\ s1 = s2
      BY <1>1, <1>2, <1>3, <2>3, NestInjective
    <2> QED BY <1>4, <2>3, <2>4
  <1> QED BY <1>5, <1>6

(* Every line the generator can emit for a tensor starts inside it.           *)
LEMMA CellInTensor ==
    ASSUME NEW a \in Args, validate_args(a), NEW base \in Nat,
           NEW l \in 0 .. a.num_layers - 1, NEW c \in Cells(a)
    PROVE  /\ CellAddr(a, base, l, c) \in Nat
           /\ base <= CellAddr(a, base, l, c)
           /\ CellAddr(a, base, l, c) < base + tensor_bytes(a)
  <1>1. PICK b \in 0 .. a.batch - 1, h \in 0 .. a.num_kv_heads - 1,
             s \in 0 .. max_seq_len(a) - 1, d \in 0 .. dim_lines(a) - 1 :
                c = <<b, h, s, d>>
    BY DEF Cells
  <1> DEFINE r == kv_row(a, l, b, h, s)
             k == d * elems_per_line(a)
  <1>2. /\ a.head_dim \in Nat \ {0} /\ a.dtype_bytes \in Nat \ {0}
        /\ a.dtype_bytes <= CacheLine
    BY DEF Args, validate_args
  <1>3. r \in 0 .. Rows(a) - 1
    BY RowBound
  <1>4. k \in 0 .. a.head_dim - 1
    BY <1>2, LineStartsInRow DEF dim_lines, row_bytes, elems_per_line
  <1>5. Rows(a) \in Nat
    <2>1. /\ a.num_layers \in Nat /\ a.batch \in Nat /\ a.num_kv_heads \in Nat
          /\ max_seq_len(a) \in Nat
      BY ShapePositive DEF max_seq_len
    <2>2. a.num_layers * a.batch \in Nat
      BY <2>1, Z3
    <2>3. (a.num_layers * a.batch) * a.num_kv_heads \in Nat
      BY <2>1, <2>2, Z3
    <2> QED BY <2>1, <2>3, Z3 DEF Rows
  <1>6. CellAddr(a, base, l, c) = base + (r * a.head_dim + k) * a.dtype_bytes
    BY <1>1 DEF CellAddr, kv_addr
  <1>7. tensor_bytes(a) = Rows(a) * (a.head_dim * a.dtype_bytes)
    BY DEF tensor_bytes, Rows, row_bytes
  <1> HIDE DEF r, k
  <1>8. r * a.head_dim + k \in 0 .. Rows(a) * a.head_dim - 1
    BY <1>2, <1>3, <1>4, <1>5, NestBound
  <1>9. (r * a.head_dim + k) * a.dtype_bytes + 0
           \in 0 .. (Rows(a) * a.head_dim) * a.dtype_bytes - 1
    <2>1. Rows(a) * a.head_dim \in Nat /\ 0 \in 0 .. a.dtype_bytes - 1
      BY <1>2, <1>5, Z3
    <2> QED BY <1>2, <1>8, <2>1, NestBound
  <1>10. (Rows(a) * a.head_dim) * a.dtype_bytes = Rows(a) * (a.head_dim * a.dtype_bytes)
    BY <1>2, <1>5, TimesAssociates
  <1> DEFINE x == (r * a.head_dim + k) * a.dtype_bytes
  <1>11. tensor_bytes(a) \in Nat
    BY <1>2, <1>5, <1>7
  <1>12. x \in 0 .. tensor_bytes(a) - 1 /\ CellAddr(a, base, l, c) = base + x
    BY <1>2, <1>6, <1>7, <1>8, <1>9, <1>10
  <1> HIDE DEF x
  <1> QED BY <1>11, <1>12

(* Rows that are whole lines, in a tensor that begins at one: the cells of a  *)
(* tensor are its lines, counted row by row.                                  *)
LEMMA QuotientIs ==
    ASSUME NEW m \in Nat \ {0}, NEW q \in Nat, NEW r \in 0 .. m - 1
    PROVE  (q * m + r) \div m = q
  <1> DEFINE x == q * m + r
             k == x \div m
  <1>1. x \in Nat /\ q * m \in Nat
    BY Z3
  <1>2. k \in Nat /\ x = k * m + (x % m) /\ x % m \in 0 .. m - 1
    BY <1>1, Z3
  <1>3. x % m \in 0 .. m - 1 /\ k \in Nat /\ k * m + (x % m) = q * m + r
    BY <1>2
  <1> HIDE DEF k, x
  <1> QED BY <1>3, NestInjective DEF k, x

LEMMA WholeRows ==
    ASSUME NEW a \in Args, validate_args(a),
           row_bytes(a) % CacheLine = 0, CacheLine % a.dtype_bytes = 0
    PROVE  /\ a.head_dim * a.dtype_bytes = dim_lines(a) * CacheLine
           /\ elems_per_line(a) * a.dtype_bytes = CacheLine
           /\ elems_per_line(a) \in Nat
  <1>1. /\ a.head_dim \in Nat \ {0} /\ a.dtype_bytes \in Nat \ {0}
        /\ CacheLine \in Nat \ {0}
    BY CacheLineAssumption DEF Args, validate_args
  <1> DEFINE n == a.head_dim * a.dtype_bytes
             q == n \div CacheLine
  <1>2. n \in Nat /\ n % CacheLine = 0
    BY <1>1 DEF row_bytes
  <1> HIDE DEF n
  <1>3. q \in Nat /\ n = q * CacheLine
    BY <1>1, <1>2, Z3
  <1> HIDE DEF q
  <1>4. dim_lines(a) = (q * CacheLine + (CacheLine - 1)) \div CacheLine
    <2>1. q * CacheLine \in Nat
      BY <1>1, <1>3, Z3
    <2>2. n + CacheLine - 1 = q * CacheLine + (CacheLine - 1)
      BY <1>1, <1>3, <2>1
    <2> QED BY <2>2 DEF dim_lines, ceil_div, row_bytes, n
  <1>5. dim_lines(a) = q
    <2>1. CacheLine - 1 \in 0 .. CacheLine - 1
      BY <1>1
    <2> QED BY <1>1, <1>3, <1>4, <2>1, QuotientIs
  <1>6. CacheLine = (CacheLine \div a.dtype_bytes) * a.dtype_bytes
        /\ CacheLine \div a.dtype_bytes \in Nat
    BY <1>1, Z3
  <1> QED BY <1>3, <1>5, <1>6 DEF elems_per_line, n

LEMMA CellIsLine ==
    ASSUME NEW a \in Args, validate_args(a),
           row_bytes(a) % CacheLine = 0, CacheLine % a.dtype_bytes = 0,
           NEW base \in Nat, base % CacheLine = 0,
           NEW l \in 0 .. a.num_layers - 1, NEW b \in 0 .. a.batch - 1,
           NEW h \in 0 .. a.num_kv_heads - 1, NEW s \in 0 .. max_seq_len(a) - 1,
           NEW d \in 0 .. dim_lines(a) - 1
    PROVE  LET addr == CellAddr(a, base, l, <<b, h, s, d>>) IN
           /\ LineOf(addr) = base \div CacheLine
                                + (kv_row(a, l, b, h, s) * dim_lines(a) + d)
           /\ addr = LineOf(addr) * CacheLine
  <1> DEFINE r == kv_row(a, l, b, h, s)
             D == dim_lines(a)
             e == elems_per_line(a)
             B == base \div CacheLine
             addr == CellAddr(a, base, l, <<b, h, s, d>>)
  <1>1. /\ a.head_dim \in Nat \ {0} /\ a.dtype_bytes \in Nat \ {0}
        /\ CacheLine \in Nat \ {0}
    BY CacheLineAssumption DEF Args, validate_args
  <1>2. a.head_dim * a.dtype_bytes = D * CacheLine /\ e * a.dtype_bytes = CacheLine
        /\ e \in Nat /\ D \in Nat
    BY WholeRows, ShapePositive
  <1>3. r \in Nat /\ d \in Nat
    BY <1>2, RowBound
  <1>4. B \in Nat /\ base = B * CacheLine
    BY <1>1, Z3
  <1>5. addr = base + (r * a.head_dim + d * e) * a.dtype_bytes
    BY DEF CellAddr, kv_addr
  <1> HIDE DEF r, D, e, B, addr
  <1>6. (r * a.head_dim + d * e) * a.dtype_bytes
          = r * (a.head_dim * a.dtype_bytes) + d * (e * a.dtype_bytes)
    BY <1>1, <1>2, <1>3, Z3
  <1>7. r * (D * CacheLine) + d * CacheLine = (r * D + d) * CacheLine
    BY <1>1, <1>2, <1>3, Z3
  <1>8. r * D + d \in Nat
    BY <1>2, <1>3, NestNat
  <1> DEFINE x == r * D + d
  <1>9. addr = B * CacheLine + x * CacheLine
    BY <1>2, <1>4, <1>5, <1>6, <1>7
  <1>10. x \in Nat
    BY <1>8
  <1> HIDE DEF x
  <1>11. addr = (B + x) * CacheLine + 0 /\ B + x \in Nat
    BY <1>1, <1>4, <1>9, <1>10, Z3
  <1>12. LineOf(addr) = B + x
    <2>1. 0 \in 0 .. CacheLine - 1
      BY <1>1
    <2> QED BY <1>1, <1>11, <2>1, QuotientIs DEF LineOf
  <1>13. addr = LineOf(addr) * CacheLine
    <2>1. (B + x) * CacheLine \in Nat
      BY <1>1, <1>11, Z3
    <2> QED BY <1>11, <1>12, <2>1
  <1> QED BY <1>12, <1>13 DEF x, B, r, D, addr

(* ... and the lines its bytes occupy are those of its own cells.             *)
LEMMA RowHasCells ==
    ASSUME NEW a \in Args, validate_args(a),
           row_bytes(a) % CacheLine = 0, CacheLine % a.dtype_bytes = 0,
           NEW base \in Nat, base % CacheLine = 0,
           NEW l \in 0 .. a.num_layers - 1, NEW b \in 0 .. a.batch - 1,
           NEW h \in 0 .. a.num_kv_heads - 1, NEW s \in 0 .. max_seq_len(a) - 1,
           NEW k \in 0 .. dim_lines(a) - 1,
           NEW x \in RowLines(a, base, l, <<b, h, s, k>>)
    PROVE  \E d \in 0 .. dim_lines(a) - 1 : x = LineOf(CellAddr(a, base, l, <<b, h, s, d>>))
  <1> DEFINE D == dim_lines(a)
             z == base \div CacheLine + kv_row(a, l, b, h, s) * D
             first == kv_addr(a, base, l, b, h, s, 0)
  <1>1. /\ D \in Nat \ {0} /\ CacheLine \in Nat \ {0}
        /\ row_bytes(a) = D * CacheLine /\ elems_per_line(a) \in Nat
    BY WholeRows, ShapePositive, CacheLineAssumption DEF row_bytes
  <1>2. z \in Nat
    <2>1. base \div CacheLine \in Nat /\ kv_row(a, l, b, h, s) \in Nat
      BY <1>1, RowBound
    <2> HIDE DEF D
    <2>2. kv_row(a, l, b, h, s) * D + 0 \in Nat
      BY <1>1, <2>1, NestNat
    <2> QED BY <1>1, <2>1, <2>2
  <1>3. \A d \in 0 .. D - 1 : LineOf(CellAddr(a, base, l, <<b, h, s, d>>)) = z + d
    <2> SUFFICES ASSUME NEW d \in 0 .. D - 1
                 PROVE  LineOf(CellAddr(a, base, l, <<b, h, s, d>>)) = z + d
      OBVIOUS
    <2>1. LineOf(CellAddr(a, base, l, <<b, h, s, d>>))
            = base \div CacheLine + (kv_row(a, l, b, h, s) * D + d)
      BY CellIsLine
    <2>2. base \div CacheLine \in Nat /\ kv_row(a, l, b, h, s) \in Nat
      BY <1>1, RowBound
    <2> HIDE DEF D
    <2>3. kv_row(a, l, b, h, s) * D + 0 \in Nat
      BY <1>1, <2>2, NestNat
    <2> QED BY <1>1, <2>1, <2>2, <2>3
  <1>4. first = z * CacheLine
    <2>1. first = CellAddr(a, base, l, <<b, h, s, 0>>)
      BY <1>1 DEF CellAddr
    <2>2. 0 \in 0 .. D - 1
      BY <1>1
    <2>3. CellAddr(a, base, l, <<b, h, s, 0>>)
            = LineOf(CellAddr(a, base, l, <<b, h, s, 0>>)) * CacheLine
      BY <2>2, CellIsLine
    <2>4. LineOf(CellAddr(a, base, l, <<b, h, s, 0>>)) = z
      BY <1>2, <1>3, <2>2
    <2> QED BY <2>1, <2>3, <2>4
  <1>5. x \in LineOf(first) .. LineOf(first + row_bytes(a) - 1)
    BY DEF RowLines
  <1> HIDE DEF z, D, first
  <1>6. LineOf(first) = z
    <2>1. first = z * CacheLine + 0 /\ 0 \in 0 .. CacheLine - 1
      BY <1>1, <1>2, <1>4, Z3
    <2> QED BY <1>1, <1>2, <2>1, QuotientIs DEF LineOf
  <1>7. LineOf(first + row_bytes(a) - 1) = z + D - 1
    <2> DEFINE q == z + D - 1
    <2>1. q \in Nat /\ CacheLine - 1 \in 0 .. CacheLine - 1
      BY <1>1, <1>2
    <2>2. z * CacheLine + D * CacheLine - 1 = (z + D - 1) * CacheLine + (CacheLine - 1)
      BY <1>1, <1>2, Z3
    <2>3. first + row_bytes(a) - 1 = q * CacheLine + (CacheLine - 1)
      BY <1>1, <1>4, <2>2
    <2> HIDE DEF q
    <2>4. LineOf(first + row_bytes(a) - 1) = q
      BY <1>1, <2>1, <2>3, QuotientIs DEF LineOf
    <2> QED BY <2>4 DEF q
  <1>8. x - z \in 0 .. D - 1 /\ x = z + (x - z)
    BY <1>1, <1>2, <1>5, <1>6, <1>7
  <1> QED BY <1>3, <1>8 DEF D

------------------------------------------------------------------------------
(* What the loop bounds are worth once the command line was accepted.         *)
LEMMA BoundsPositive ==
    ASSUME TypeOK
    PROVE  /\ args \in Args /\ validate_args(args)
           /\ current_seq \in Nat /\ n_seq = current_seq + 1
           /\ current_seq < max_seq_len(args) /\ max_seq_len(args) \in Nat
           /\ dim_lines(args) \in Nat \ {0}
           /\ args.batch \in Nat \ {0} /\ args.num_kv_heads \in Nat \ {0}
           /\ args.num_layers \in Nat \ {0} /\ args.decode_tokens \in Nat \ {0}
           /\ args.context_len \in Nat \ {0}
           /\ passes \in Nat \ {0} /\ blk \in Nat \ {0}
           /\ args.compute_per_store_line \in Nat
           /\ \A S \in Streams : compute_of(S) \in Nat \ {0}
  <1>1. args \in Args /\ validate_args(args)
    BY ConfigsAssumption DEF TypeOK
  <1>2. /\ args.num_layers \in Nat \ {0} /\ args.batch \in Nat \ {0}
        /\ args.num_kv_heads \in Nat \ {0} /\ args.context_len \in Nat \ {0}
        /\ args.decode_tokens \in Nat \ {0}
        /\ args.reread_block_positions \in Nat \ {0}
        /\ args.compute_per_store_line \in Nat \ {0}
        /\ dim_lines(args) \in Nat \ {0} /\ group_size(args) \in Nat \ {0}
        /\ \A S \in Streams : ComputePerLine(args, S) \in Nat \ {0}
    BY <1>1, ShapePositive
  <1>3. /\ current_seq \in Nat /\ n_seq = current_seq + 1
        /\ current_seq < max_seq_len(args) /\ max_seq_len(args) \in Nat
    BY <1>2 DEF TypeOK, current_seq, n_seq, max_seq_len
  <1>4. passes \in Nat \ {0} /\ blk \in Nat \ {0}
    BY <1>2, <1>3 DEF passes, blk
  <1>5. \A S \in Streams : compute_of(S) \in Nat \ {0}
    BY <1>2 DEF compute_of
  <1> QED BY <1>1, <1>2, <1>3, <1>4, <1>5

LEMMA BlockEnd ==
    ASSUME TypeOK
    PROVE  /\ blk_end \in Nat /\ blk_start < blk_end /\ blk_end <= n_seq
           /\ blk_start + blk < n_seq => blk_end = blk_start + blk
           /\ blk_start + blk >= n_seq => blk_end = n_seq
  BY BoundsPositive DEF TypeOK, blk_end

(* The cell the loop indices stand on.                                        *)
LEMMA CurrentCell ==
    ASSUME TypeOK
    PROVE  /\ <<batch, head, current_seq, dim_line>> \in Cells(args)
           /\ <<batch, head, seq, dim_line>> \in Cells(args)
           /\ seq <= current_seq
  <1>1. seq \in Nat /\ seq <= current_seq
    BY BoundsPositive, BlockEnd DEF TypeOK
  <1>2. /\ batch \in 0 .. args.batch - 1 /\ head \in 0 .. args.num_kv_heads - 1
        /\ dim_line \in 0 .. dim_lines(args) - 1
        /\ current_seq \in 0 .. max_seq_len(args) - 1
        /\ seq \in 0 .. max_seq_len(args) - 1
    BY <1>1, BoundsPositive DEF TypeOK
  <1> QED BY <1>1, <1>2 DEF Cells

(* The program counter moves along its loops and nothing else: the part of    *)
(* type correctness that concerns the stream loops.                           *)
LEMMA StreamStepTypes ==
    ASSUME TypeOK, args' = args, token' = token,
           NextLine \/ NextPosition \/ NextSweep \/ NextBlock \/ NextStreamHead
    PROVE  /\ batch' \in 0 .. args.batch - 1
           /\ head' \in 0 .. args.num_kv_heads - 1
           /\ dim_line' \in 0 .. dim_lines(args) - 1
           /\ blk_start' \in 0 .. current_seq'
           /\ rep' \in 0 .. passes' - 1
           /\ seq' \in blk_start' .. blk_end' - 1
  <1> USE BoundsPositive, BlockEnd
  <1>1. /\ current_seq' = current_seq /\ n_seq' = n_seq /\ blk' = blk
        /\ passes' = passes
    BY DEF current_seq, n_seq, blk, passes, reread
  <1>2. CASE NextLine
    BY <1>1, <1>2 DEF TypeOK, NextLine, LastLine, blk_end
  <1>3. CASE NextPosition
    BY <1>1, <1>3 DEF TypeOK, NextPosition, LastLine, LastSeq, blk_end
  <1>4. CASE NextSweep
    BY <1>1, <1>4 DEF TypeOK, NextSweep, LastRep, LastSeq, blk_end
  <1>5. CASE NextBlock
    BY <1>1, <1>5 DEF TypeOK, NextBlock, LastBlock, LastRep, blk_end
  <1>6. CASE NextStreamHead
    BY <1>1, <1>6 DEF TypeOK, NextStreamHead, NextHead, LastHead, blk_end
  <1> QED BY <1>2, <1>3, <1>4, <1>5, <1>6

LEMMA InitType == Init => TypeOK
  <1> SUFFICES ASSUME Init PROVE TypeOK
    OBVIOUS
  <1>1. args \in Args /\ args \in Configs /\ validate_args(args)
    BY ConfigsAssumption DEF Init
  <1>2. /\ args.num_layers \in Nat \ {0} /\ args.batch \in Nat \ {0}
        /\ args.num_kv_heads \in Nat \ {0} /\ args.context_len \in Nat \ {0}
        /\ args.decode_tokens \in Nat \ {0}
        /\ args.reread_block_positions \in Nat \ {0}
        /\ dim_lines(args) \in Nat \ {0} /\ group_size(args) \in Nat \ {0}
    BY <1>1, ShapePositive
  <1>3. blk_start \in 0 .. current_seq /\ seq \in blk_start .. blk_end - 1
    BY <1>2 DEF Init, current_seq, n_seq, blk, blk_end
  <1>4. rep \in 0 .. passes - 1
    BY <1>2 DEF Init, passes
  <1> QED BY <1>1, <1>2, <1>3, <1>4 DEF Init, TypeOK, Streams

LEMMA NextType == TypeOK /\ [Next]_vars => TypeOK'
  <1> SUFFICES ASSUME TypeOK, [Next]_vars PROVE TypeOK'
    OBVIOUS
  <1> USE BoundsPositive, BlockEnd, CurrentCell
  <1>1. CASE Append
    <2>1. /\ batch' \in 0 .. args.batch - 1
          /\ head' \in 0 .. args.num_kv_heads - 1
          /\ dim_line' \in 0 .. dim_lines(args) - 1
      <3>1. /\ args.batch \in Nat \ {0} /\ args.num_kv_heads \in Nat \ {0}
            /\ dim_lines(args) \in Nat \ {0}
            /\ batch \in 0 .. args.batch - 1
            /\ head \in 0 .. args.num_kv_heads - 1
            /\ dim_line \in 0 .. dim_lines(args) - 1
        BY DEF TypeOK
      <3> HIDE BoundsPositive, BlockEnd, CurrentCell
      <3> QED BY <1>1, <3>1 DEF Append, LastLine, LastHead, NextHead
    <2>2. reads' \in [Streams -> [Cells(args) -> Nat]]
      BY <1>1 DEF Append, TypeOK, NoReads, Streams
    <2>3. appended' \subseteq (0 .. args.num_layers - 1) \X Cells(args)
      <3>1. <<layer, <<batch, head, current_seq, dim_line>>>>
                \in (0 .. args.num_layers - 1) \X Cells(args)
        BY DEF TypeOK
      <3> QED BY <1>1, <3>1 DEF Append, AppendCell, TypeOK
    <2>4. UNCHANGED <<current_seq, blk_end, passes>>
      BY <1>1 DEF Append, current_seq, n_seq, blk, blk_end, passes, reread
    <2>5. phase' \in {"append", "K"} /\ blk_start = 0 /\ rep = 0 /\ seq = 0
      BY <1>1 DEF Append, TypeOK, Streams
    <2>6. /\ args' = args /\ token' = token /\ layer' = layer
          /\ UNCHANGED <<blk_start, rep, seq>>
          /\ estimated_insts' \in Nat /\ trace_lines' \in Nat
      BY <1>1 DEF Append, AppendCell, TypeOK
    <2> HIDE BoundsPositive, BlockEnd, CurrentCell
    <2> QED BY <2>1, <2>2, <2>3, <2>4, <2>5, <2>6 DEF TypeOK
  <1>2. ASSUME NEW S \in Streams, Read(S)
        PROVE  TypeOK'
    <2>1. reads' \in [Streams -> [Cells(args) -> Nat]]
      BY <1>2 DEF Read, TypeOK, NoReads, Streams
    <2>2. estimated_insts' \in Nat /\ trace_lines' \in Nat
      BY <1>2 DEF Read, TypeOK
    <2>3. args' = args /\ appended' = appended
      BY <1>2 DEF Read
    <2>4. CASE /\ NextLine \/ NextPosition \/ NextSweep \/ NextBlock
                  \/ NextStreamHead
               /\ UNCHANGED <<token, layer, phase>>
      BY <1>2, <2>1, <2>2, <2>3, <2>4, StreamStepTypes DEF Read, TypeOK
    <2>5. CASE EndOfStream /\ ~UNCHANGED phase
      <3>1. /\ token' \in 0 .. args.decode_tokens - 1
            /\ layer' \in 0 .. args.num_layers - 1
            /\ phase' \in {"append", "V", "done"}
        BY <1>2, <2>5 DEF Read, TypeOK, NextLayer, EndOfStream, LastBlock, LastRep, LastSeq
      <3>2. PICK t \in 0 .. args.decode_tokens - 1 : token' = t
        BY <3>1
      <3>3. /\ blk_start' = 0 /\ seq' = 0 /\ rep' = 0
            /\ batch' = 0 /\ head' = 0 /\ dim_line' = 0
        BY <2>5 DEF EndOfStream
      <3>4. /\ args.context_len \in Nat \ {0} /\ t \in Nat
            /\ args.reread_block_positions \in Nat \ {0}
            /\ group_size(args) \in Nat \ {0} /\ dim_lines(args) \in Nat \ {0}
            /\ args.batch \in Nat \ {0} /\ args.num_kv_heads \in Nat \ {0}
        BY <3>2, ShapePositive
      <3> HIDE BoundsPositive, BlockEnd, CurrentCell
      <3>5. 0 \in 0 .. current_seq' /\ 0 \in 0 .. passes' - 1
        BY <2>3, <3>2, <3>4 DEF current_seq, passes, reread
      <3>6. 0 \in 0 .. blk_end' - 1
        BY <2>3, <3>2, <3>3, <3>4
           DEF current_seq, blk_end, blk, n_seq, reread
      <3> QED BY <2>1, <2>2, <2>3, <3>1, <3>3, <3>4, <3>5, <3>6 DEF TypeOK
    <2> QED BY <1>2, <2>4, <2>5 DEF Read, NextLayer, Streams
  <1>3. CASE UNCHANGED vars
    BY <1>3 DEF vars, TypeOK, current_seq, n_seq, blk, blk_end, passes, reread
  <1> QED BY <1>1, <1>2, <1>3 DEF Next, ReadK, ReadV, Done, Streams

(* The generator's loop indices, counters and observations always have their *)
(* types, for every accepted command line.                                    *)
THEOREM TypeCorrect == Spec => []TypeOK
  BY InitType, NextType, PTL DEF Spec

------------------------------------------------------------------------------
(* A step inside a stream moves exactly the cell just read behind the loop    *)
(* indices, whichever loop it advances.                                       *)
LEMMA StreamStepPrefix ==
    ASSUME TypeOK, args' = args, token' = token, NEW c \in Cells(args),
           NextLine \/ NextPosition \/ NextSweep \/ NextBlock \/ NextStreamHead
    PROVE  ReadSoFar(c)' = IF c = <<batch, head, seq, dim_line>>
                           THEN ReadSoFar(c) + 1 ELSE ReadSoFar(c)
  <1>1. PICK b \in 0 .. args.batch - 1, h \in 0 .. args.num_kv_heads - 1,
             s \in 0 .. max_seq_len(args) - 1, d \in 0 .. dim_lines(args) - 1 :
                c = <<b, h, s, d>>
    BY DEF Cells
  <1>2. /\ c = <<batch, head, seq, dim_line>>
             <=> b = batch /\ h = head /\ s = seq /\ d = dim_line
        /\ c[1] = b /\ c[2] = h /\ c[3] = s /\ c[4] = d
    BY <1>1
  <1>3. /\ b \in Nat /\ h \in Nat /\ s \in Nat /\ d \in Nat
        /\ h < args.num_kv_heads /\ d < dim_lines(args)
    BY <1>1, BoundsPositive
  <1>4. /\ current_seq \in Nat /\ n_seq = current_seq + 1
        /\ dim_lines(args) \in Nat \ {0} /\ args.num_kv_heads \in Nat \ {0}
        /\ passes \in Nat \ {0} /\ blk \in Nat \ {0}
        /\ blk_end \in Nat /\ blk_start < blk_end /\ blk_end <= n_seq
        /\ blk_start + blk < n_seq => blk_end = blk_start + blk
        /\ blk_start + blk >= n_seq => blk_end = n_seq
    BY BoundsPositive, BlockEnd
  <1>5. /\ batch \in Nat /\ head \in Nat /\ head < args.num_kv_heads
        /\ dim_line \in Nat /\ dim_line < dim_lines(args)
        /\ blk_start \in Nat /\ rep \in Nat /\ rep < passes
        /\ seq \in Nat /\ blk_start <= seq /\ seq < blk_end
    BY <1>4, BoundsPositive DEF TypeOK
  <1>6. /\ current_seq' = current_seq /\ passes' = passes /\ blk' = blk
        /\ n_seq' = n_seq
    BY DEF current_seq, n_seq, blk, passes, reread
  <1> DEFINE End(x) == IF x + blk < n_seq THEN x + blk ELSE n_seq
  <1>7. blk_end' = End(blk_start')
    BY <1>6 DEF blk_end
  <1>8. blk_end = End(blk_start)
    BY DEF blk_end
  <1>9. CASE NextLine
    BY <1>2, <1>3, <1>4, <1>5, <1>6, <1>7, <1>8, <1>9
       DEF NextLine, LastLine, ReadSoFar, Before, SweptBefore
  <1>10. CASE NextPosition
    BY <1>2, <1>3, <1>4, <1>5, <1>6, <1>7, <1>8, <1>10
       DEF NextPosition, LastLine, LastSeq, ReadSoFar, Before, SweptBefore
  <1>11. CASE NextSweep
    BY <1>2, <1>3, <1>4, <1>5, <1>6, <1>7, <1>8, <1>11
       DEF NextSweep, LastLine, LastSeq, LastRep, ReadSoFar, Before, SweptBefore
  <1>12. CASE NextBlock
    BY <1>2, <1>3, <1>4, <1>5, <1>6, <1>7, <1>8, <1>12
       DEF NextBlock, LastLine, LastSeq, LastRep, LastBlock, ReadSoFar, Before,
           SweptBefore
  <1>13. CASE NextStreamHead
    <2>1. /\ seq + 1 = n_seq /\ rep + 1 = passes
          /\ dim_line + 1 = dim_lines(args) /\ blk_end = n_seq
      BY <1>4, <1>5, <1>13
         DEF NextStreamHead, LastLine, LastSeq, LastRep, LastBlock
    <2>2. /\ blk_start' = 0 /\ seq' = 0 /\ rep' = 0 /\ dim_line' = 0
      BY <1>13 DEF NextStreamHead
    <2>3. PICK e \in Nat : blk_end' = e /\ e <= n_seq
      BY <1>4, <1>7, <2>2
    <2>4. ReadSoFar(c) = IF s > current_seq THEN 0
                         ELSE IF b < batch \/ (b = batch /\ h < head) THEN passes
                         ELSE IF ~(b = batch /\ h = head) THEN 0
                         ELSE IF s = seq /\ d = dim_line THEN rep ELSE rep + 1
      <3>1. CASE s > current_seq
        BY <1>2, <1>3, <1>4, <3>1 DEF ReadSoFar
      <3>2. CASE s <= current_seq /\ (b < batch \/ (b = batch /\ h < head))
        BY <1>2, <1>3, <1>4, <1>5, <3>2 DEF ReadSoFar, Before
      <3>3. CASE s <= current_seq /\ b = batch /\ h = head
        BY <1>2, <1>3, <1>4, <1>5, <2>1, <3>3
           DEF ReadSoFar, Before, SweptBefore
      <3>4. CASE /\ s <= current_seq /\ ~(b = batch /\ h = head)
                 /\ ~(b < batch \/ (b = batch /\ h < head))
        BY <1>2, <1>3, <1>4, <1>5, <3>4 DEF ReadSoFar, Before
      <3> QED BY <1>3, <1>4, <3>1, <3>2, <3>3, <3>4
    \* Nothing of the next head has been read.
    <2>5. ASSUME NEW x \in Nat, NEW y \in Nat, batch' = x, head' = y
          PROVE  ReadSoFar(c)' = IF s <= current_seq /\ (b < x \/ (b = x /\ h < y))
                                 THEN passes ELSE 0
      BY <1>2, <1>3, <1>4, <1>6, <2>2, <2>3, <2>5
         DEF ReadSoFar, Before, SweptBefore
    <2>6. CASE head + 1 < args.num_kv_heads
      <3>1. batch' = batch /\ head' = head + 1
        BY <1>13, <2>6 DEF NextStreamHead, NextHead
      <3>2. ReadSoFar(c)' = IF s <= current_seq /\ (b < batch \/ (b = batch /\ h < head + 1))
                            THEN passes ELSE 0
        BY <1>5, <2>5, <3>1
      <3> QED BY <1>2, <1>3, <1>4, <1>5, <2>1, <2>4, <3>2
    <2>7. CASE ~(head + 1 < args.num_kv_heads)
      <3>1. batch' = batch + 1 /\ head' = 0
        BY <1>13, <2>7 DEF NextStreamHead, NextHead
      <3>2. ReadSoFar(c)' = IF s <= current_seq /\ (b < batch + 1 \/ (b = batch + 1 /\ h < 0))
                            THEN passes ELSE 0
        BY <1>5, <2>5, <3>1
      <3> QED BY <1>2, <1>3, <1>4, <1>5, <2>1, <2>4, <2>7, <3>2
    <2> QED BY <2>6, <2>7
  <1> QED BY <1>9, <1>10, <1>11, <1>12, <1>13

(* The last line of a stream completes it.                                    *)
LEMMA EndOfStreamPrefix ==
    ASSUME TypeOK, EndOfStream, NEW c \in Cells(args)
    PROVE  (IF c = <<batch, head, seq, dim_line>>
            THEN ReadSoFar(c) + 1 ELSE ReadSoFar(c))
              = IF c[3] <= current_seq THEN passes ELSE 0
  <1>1. PICK b \in 0 .. args.batch - 1, h \in 0 .. args.num_kv_heads - 1,
             s \in 0 .. max_seq_len(args) - 1, d \in 0 .. dim_lines(args) - 1 :
                c = <<b, h, s, d>>
    BY DEF Cells
  <1>2. /\ c = <<batch, head, seq, dim_line>>
             <=> b = batch /\ h = head /\ s = seq /\ d = dim_line
        /\ c[1] = b /\ c[2] = h /\ c[3] = s /\ c[4] = d
    BY <1>1
  <1>3. /\ b \in Nat /\ h \in Nat /\ s \in Nat /\ d \in Nat
        /\ b < args.batch /\ h < args.num_kv_heads /\ d < dim_lines(args)
        /\ current_seq \in Nat /\ n_seq = current_seq + 1
        /\ dim_lines(args) \in Nat \ {0} /\ args.num_kv_heads \in Nat \ {0}
        /\ passes \in Nat \ {0} /\ args.batch \in Nat \ {0}
    BY <1>1, BoundsPositive
  <1>4. /\ batch \in Nat /\ head \in Nat /\ dim_line \in Nat
        /\ blk_start \in Nat /\ rep \in Nat /\ seq \in Nat /\ blk_start <= seq
    BY BoundsPositive DEF TypeOK
  <1>5. /\ seq + 1 = n_seq /\ rep + 1 = passes /\ blk_end = n_seq
        /\ dim_line + 1 = dim_lines(args)
        /\ batch + 1 = args.batch /\ head + 1 = args.num_kv_heads
    BY <1>3, <1>4, BlockEnd
       DEF EndOfStream, LastLine, LastSeq, LastRep, LastBlock, LastHead
  <1>6. CASE s > current_seq
    BY <1>2, <1>3, <1>4, <1>5, <1>6 DEF ReadSoFar
  <1>7. CASE s <= current_seq /\ ~(b = batch /\ h = head)
    BY <1>2, <1>3, <1>4, <1>5, <1>7 DEF ReadSoFar, Before
  <1>8. CASE s <= current_seq /\ b = batch /\ h = head
    BY <1>2, <1>3, <1>4, <1>5, <1>8 DEF ReadSoFar, Before, SweptBefore
  <1> QED BY <1>2, <1>3, <1>6, <1>7, <1>8

AtStart == /\ batch = 0 /\ head = 0 /\ dim_line = 0
           /\ blk_start = 0 /\ rep = 0 /\ seq = 0
Untouched == \A c \in Cells(args) : ReadSoFar(c) = 0

(* At the start of a stream nothing is behind the loop indices.               *)
LEMMA StartOfStreamPrefix == TypeOK /\ AtStart => Untouched
  <1> SUFFICES ASSUME TypeOK, AtStart, NEW c \in Cells(args)
               PROVE  ReadSoFar(c) = 0
    BY DEF Untouched
  <1>1. PICK b \in Nat, h \in Nat, s \in Nat, d \in Nat : c = <<b, h, s, d>>
    BY BoundsPositive DEF Cells
  <1>2. c[1] = b /\ c[2] = h /\ c[3] = s /\ c[4] = d
    BY <1>1
  <1>3. blk_end \in Nat /\ current_seq \in Nat
    BY BoundsPositive, BlockEnd
  <1> QED BY <1>1, <1>2, <1>3 DEF AtStart, ReadSoFar, Before, SweptBefore

LEMMA EnterStream == TypeOK' /\ AtStart' => Untouched'
  BY StartOfStreamPrefix, PTL

Inv == TypeOK /\ StreamPrefix

LEMMA NextPrefix == Inv /\ [Next]_vars => StreamPrefix'
  <1> SUFFICES ASSUME TypeOK, StreamPrefix, [Next]_vars PROVE StreamPrefix'
    BY DEF Inv
  <1>0. TypeOK'
    BY NextType
  <1>1. CASE Append
    <2>1. CASE phase' = "append"
      BY <2>1 DEF StreamPrefix, Streams
    <2>2. CASE phase' = "K"
      <3>1. args' = args /\ reads'["K"] = NoReads
        BY <1>1, <2>2 DEF Append, TypeOK, Streams
      <3>2. /\ batch' = 0 /\ head' = 0 /\ dim_line' = 0
            /\ blk_start' = 0 /\ rep' = 0 /\ seq' = 0
        BY <1>1, <2>2 DEF Append, TypeOK, Streams
      <3>3. Untouched'
        BY <1>0, <3>2, EnterStream DEF AtStart
      <3> QED BY <2>2, <3>1, <3>3 DEF StreamPrefix, NoReads, Streams, Untouched
    <2> QED BY <1>1, <2>1, <2>2 DEF Append, TypeOK
  <1>2. ASSUME NEW S \in Streams, Read(S) PROVE StreamPrefix'
    <2>1. args' = args /\ phase = S
      BY <1>2 DEF Read
    <2>2. CASE /\ NextLine \/ NextPosition \/ NextSweep \/ NextBlock
                  \/ NextStreamHead
               /\ UNCHANGED <<token, phase>>
               /\ reads' = [reads EXCEPT ![S] =
                    [reads[S] EXCEPT ![<<batch, head, seq, dim_line>>] = @ + 1]]
      <3>1. ASSUME NEW c \in Cells(args)
            PROVE  reads'[S][c] = ReadSoFar(c)'
        <4>1. reads[S][c] = ReadSoFar(c)
          BY <2>1 DEF StreamPrefix
        <4>2. reads'[S][c] = IF c = <<batch, head, seq, dim_line>>
                             THEN reads[S][c] + 1 ELSE reads[S][c]
          BY <2>2 DEF TypeOK
        <4> QED BY <2>1, <2>2, <4>1, <4>2, StreamStepPrefix
      <3> QED BY <2>1, <2>2, <3>1 DEF StreamPrefix
    <2>3. CASE EndOfStream /\ S = "K" /\ phase' = "V" /\ reads'["V"] = NoReads
      <3>1. Untouched'
        BY <1>0, <2>3, EnterStream DEF AtStart, EndOfStream
      <3> QED BY <2>1, <2>3, <3>1 DEF StreamPrefix, NoReads, Streams, Untouched
    <2>4. CASE phase' \notin Streams
      BY <2>4 DEF StreamPrefix
    <2>5. \/ /\ NextLine \/ NextPosition \/ NextSweep \/ NextBlock
                \/ NextStreamHead
             /\ UNCHANGED <<token, phase>>
             /\ reads' = [reads EXCEPT ![S] =
                  [reads[S] EXCEPT ![<<batch, head, seq, dim_line>>] = @ + 1]]
          \/ EndOfStream /\ S = "K" /\ phase' = "V" /\ reads'["V"] = NoReads
          \/ phase' \notin Streams
      BY <1>2 DEF Read, TypeOK, Streams, NextLayer
    <2> QED BY <2>2, <2>3, <2>4, <2>5
  <1>3. CASE UNCHANGED vars
    BY <1>3 DEF vars, StreamPrefix, ReadSoFar, Before, SweptBefore, current_seq,
                n_seq, blk, blk_end, passes, reread
  <1> QED BY <1>1, <1>2, <1>3 DEF Next, ReadK, ReadV, Done, Streams

LEMMA InitPrefix == Init => StreamPrefix
  BY DEF Init, StreamPrefix, Streams

(* At every point of every stream, exactly the cells behind the loop indices  *)
(* have been read, each the number of times its query-head group asks for.    *)
THEOREM StreamPrefixCorrect == Spec => []StreamPrefix
  <1>1. Init => Inv
    BY InitType, InitPrefix DEF Inv
  <1>2. Inv /\ [Next]_vars => Inv'
    BY NextType, NextPrefix DEF Inv
  <1> QED BY <1>1, <1>2, PTL DEF Spec, Inv

(* No stream is left before every position up to the current one has been     *)
(* read once per query head sharing it, and none beyond it is ever read.      *)
THEOREM StreamsCompleteCorrect == Spec => StreamsComplete
  <1> DEFINE Complete(S) ==
        phase = S /\ phase' # S =>
          \A c \in Cells(args) :
             reads'[S][c] = IF c[3] <= current_seq THEN passes ELSE 0
  <1>1. TypeOK /\ StreamPrefix /\ [Next]_vars => [\A S \in Streams : Complete(S)]_vars
    <2> SUFFICES ASSUME TypeOK, StreamPrefix, Next, NEW S \in Streams,
                        phase = S, phase' # S, NEW c \in Cells(args)
                 PROVE  reads'[S][c] = IF c[3] <= current_seq THEN passes ELSE 0
      BY DEF vars
    <2>1. EndOfStream /\ reads'[S] =
            [reads[S] EXCEPT ![<<batch, head, seq, dim_line>>] = @ + 1]
      BY DEF Next, Append, ReadK, ReadV, Read, Done, vars, Streams, TypeOK
    <2>2. reads'[S][c] = IF c = <<batch, head, seq, dim_line>>
                         THEN ReadSoFar(c) + 1 ELSE ReadSoFar(c)
      BY <2>1 DEF TypeOK, StreamPrefix
    <2> QED BY <2>1, <2>2, EndOfStreamPrefix
  <1> QED BY <1>1, TypeCorrect, StreamPrefixCorrect, PTL
             DEF Spec, StreamsComplete

------------------------------------------------------------------------------
(* A write-allocate moves exactly the row line just written behind the loops. *)
LEMMA AppendStepPrefix ==
    ASSUME TypeOK, Append, NEW l \in 0 .. args.num_layers - 1, NEW c \in Cells(args)
    PROVE  AppendedSoFar(l, c)' <=>
              AppendedSoFar(l, c) \/ <<l, c>> = <<layer, <<batch, head, current_seq, dim_line>>>>
  <1>1. PICK b \in 0 .. args.batch - 1, h \in 0 .. args.num_kv_heads - 1,
             s \in 0 .. max_seq_len(args) - 1, d \in 0 .. dim_lines(args) - 1 :
                c = <<b, h, s, d>>
    BY DEF Cells
  <1>2. /\ <<l, c>> = <<layer, <<batch, head, current_seq, dim_line>>>>
             <=> l = layer /\ b = batch /\ h = head /\ s = current_seq /\ d = dim_line
        /\ c[1] = b /\ c[2] = h /\ c[3] = s /\ c[4] = d
    BY <1>1
  <1>3. /\ b \in Nat /\ h \in Nat /\ s \in Nat /\ d \in Nat /\ l \in Nat
        /\ b < args.batch /\ h < args.num_kv_heads /\ d < dim_lines(args)
        /\ current_seq \in Nat /\ args.context_len \in Nat
        /\ args.context_len <= current_seq
        /\ dim_lines(args) \in Nat \ {0} /\ args.num_kv_heads \in Nat \ {0}
        /\ args.batch \in Nat \ {0}
    BY <1>1, BoundsPositive DEF TypeOK, current_seq
  <1>4. /\ batch \in Nat /\ head \in Nat /\ dim_line \in Nat /\ layer \in Nat
        /\ head < args.num_kv_heads /\ batch < args.batch
        /\ dim_line < dim_lines(args)
    BY BoundsPositive DEF TypeOK
  <1>5. args' = args /\ current_seq' = current_seq /\ layer' = layer
    BY DEF Append, current_seq
  <1>6. phase = "append"
    BY DEF Append
  <1>7. CASE ~LastLine
    <2>1. /\ dim_line' = dim_line + 1 /\ batch' = batch /\ head' = head
          /\ phase' = "append"
      BY <1>7, <1>6 DEF Append
    <2> QED BY <1>2, <1>3, <1>4, <1>5, <1>6, <2>1 DEF AppendedSoFar, Before
  <1>8. CASE LastLine /\ ~LastHead
    <2>1. dim_line' = 0 /\ phase' = "append" /\ dim_line + 1 = dim_lines(args)
      BY <1>8, <1>6 DEF Append, LastLine
    <2>2. CASE head + 1 < args.num_kv_heads
      <3>1. batch' = batch /\ head' = head + 1
        BY <1>8, <2>2 DEF Append, NextHead
      <3> QED BY <1>2, <1>3, <1>4, <1>5, <1>6, <2>1, <3>1 DEF AppendedSoFar, Before
    <2>3. CASE ~(head + 1 < args.num_kv_heads)
      <3>1. batch' = batch + 1 /\ head' = 0
        BY <1>8, <2>3 DEF Append, NextHead
      <3> QED BY <1>2, <1>3, <1>4, <1>5, <1>6, <2>1, <2>3, <3>1
              DEF AppendedSoFar, Before
    <2> QED BY <2>2, <2>3
  <1>9. CASE LastLine /\ LastHead
    <2>1. /\ phase' = "K" /\ dim_line + 1 = dim_lines(args)
          /\ batch + 1 = args.batch /\ head + 1 = args.num_kv_heads
      BY <1>9 DEF Append, LastLine, LastHead
    <2> QED BY <1>2, <1>3, <1>4, <1>5, <1>6, <2>1 DEF AppendedSoFar, Before
  <1> QED BY <1>7, <1>8, <1>9

(* Reading appends nothing, and what was appended stays behind the loops when *)
(* the next layer or the next token begins.                                   *)
LEMMA ReadStepAppended ==
    ASSUME TypeOK, NEW S \in Streams, Read(S),
           NEW l \in 0 .. args.num_layers - 1, NEW c \in Cells(args)
    PROVE  AppendedSoFar(l, c)' <=> AppendedSoFar(l, c)
  <1>1. PICK b \in Nat, h \in Nat, s \in Nat, d \in Nat : c = <<b, h, s, d>>
    BY BoundsPositive DEF Cells
  <1>2. c[1] = b /\ c[2] = h /\ c[3] = s /\ c[4] = d
    BY <1>1
  <1>3. /\ l \in Nat /\ layer \in Nat /\ token \in Nat /\ args.context_len \in Nat
        /\ l < args.num_layers /\ args.num_layers \in Nat
        /\ layer < args.num_layers
    BY BoundsPositive DEF TypeOK
  <1>4. args' = args /\ phase # "append"
    BY DEF Read, Streams
  <1>5. CASE UNCHANGED <<token, layer>> /\ phase' # "append"
    BY <1>2, <1>3, <1>4, <1>5 DEF AppendedSoFar, current_seq
  <1>6. CASE EndOfStream /\ NextLayer
    <2>1. batch' = 0 /\ head' = 0 /\ dim_line' = 0
      BY <1>6 DEF EndOfStream
    <2>2. CASE layer' = layer + 1 /\ token' = token /\ phase' = "append"
      BY <1>1, <1>2, <1>3, <1>4, <2>1, <2>2 DEF AppendedSoFar, Before, current_seq
    <2>3. CASE /\ layer + 1 = args.num_layers
               /\ layer' = 0 /\ token' = token + 1 /\ phase' = "append"
      BY <1>1, <1>2, <1>3, <1>4, <2>1, <2>3 DEF AppendedSoFar, Before, current_seq
    <2> QED BY <1>5, <1>6, <2>2, <2>3 DEF NextLayer
  <1> QED BY <1>4, <1>5, <1>6 DEF Read, Streams

LEMMA InitAppended == Init => AppendedPrefix
  <1> SUFFICES ASSUME Init, NEW p \in (0 .. args.num_layers - 1) \X Cells(args)
               PROVE  ~AppendedSoFar(p[1], p[2])
    BY DEF Init, AppendedPrefix
  <1>1. p[1] \in Nat /\ p[2] \in Cells(args)
    BY InitType, BoundsPositive
  <1>2. PICK b \in Nat, h \in Nat, s \in Nat, d \in Nat : p[2] = <<b, h, s, d>>
    BY <1>1, InitType, BoundsPositive DEF Cells
  <1>3. /\ p[2][1] = b /\ p[2][2] = h /\ p[2][3] = s /\ p[2][4] = d
        /\ args.context_len \in Nat
    BY <1>2, InitType, BoundsPositive
  <1> QED BY <1>1, <1>3 DEF Init, AppendedSoFar, Before, current_seq

LEMMA NextAppended == TypeOK /\ AppendedPrefix /\ [Next]_vars => AppendedPrefix'
  <1> SUFFICES ASSUME TypeOK, AppendedPrefix, [Next]_vars PROVE AppendedPrefix'
    OBVIOUS
  <1> DEFINE All == (0 .. args.num_layers - 1) \X Cells(args)
  <1>1. CASE Append
    <2>1. <<layer, <<batch, head, current_seq, dim_line>>>> \in All
      BY CurrentCell DEF TypeOK
    <2>2. \A p \in All : p[1] \in 0 .. args.num_layers - 1 /\ p[2] \in Cells(args)
                         /\ p = <<p[1], p[2]>>
      OBVIOUS
    <2>3. \A p \in All : AppendedSoFar(p[1], p[2])' <=>
             p \in appended \/ p = <<layer, <<batch, head, current_seq, dim_line>>>>
      BY <1>1, <2>2, AppendStepPrefix DEF AppendedPrefix
    <2>4. args' = args /\ appended' = appended \cup
                             {<<layer, <<batch, head, current_seq, dim_line>>>>}
      BY <1>1 DEF Append, AppendCell
    <2> QED BY <2>1, <2>3, <2>4 DEF AppendedPrefix
  <1>2. ASSUME NEW S \in Streams, Read(S) PROVE AppendedPrefix'
    <2>1. args' = args /\ appended' = appended
      BY <1>2 DEF Read
    <2>2. \A p \in All : p[1] \in 0 .. args.num_layers - 1 /\ p[2] \in Cells(args)
      OBVIOUS
    <2>3. \A p \in All : AppendedSoFar(p[1], p[2])' <=> AppendedSoFar(p[1], p[2])
      BY <1>2, <2>2, ReadStepAppended
    <2> QED BY <2>1, <2>3 DEF AppendedPrefix
  <1>3. CASE UNCHANGED vars
    BY <1>3 DEF vars, AppendedPrefix, AppendedSoFar, Before, current_seq
  <1> QED BY <1>1, <1>2, <1>3 DEF Next, ReadK, ReadV, Done, Streams

(* The write loop appends each decoded token's row to every layer, batch and  *)
(* head exactly when the loops pass it, and writes nothing else.              *)
THEOREM AppendedPrefixCorrect == Spec => []AppendedPrefix
  BY InitAppended, NextAppended, TypeCorrect, PTL DEF Spec

(* No stream reads a row that is neither prefilled nor appended before it.    *)
THEOREM ReadsOnlyCachedCorrect == Spec => []ReadsOnlyCached
  <1>1. TypeOK /\ StreamPrefix /\ AppendedPrefix => ReadsOnlyCached
    <2> SUFFICES ASSUME TypeOK, StreamPrefix, AppendedPrefix, NEW S \in Streams,
                        NEW c \in Cells(args), phase = S, reads[S][c] > 0,
                        ~(c[3] < args.context_len)
                 PROVE  <<layer, c>> \in appended
      BY DEF ReadsOnlyCached
    <2>1. PICK b \in Nat, h \in Nat, s \in Nat, d \in Nat : c = <<b, h, s, d>>
      BY BoundsPositive DEF Cells
    <2>2. c[3] \in Nat /\ current_seq \in Nat /\ args.context_len \in Nat
      BY <2>1, BoundsPositive
    <2>3. c[3] <= current_seq
      BY <2>2 DEF StreamPrefix, ReadSoFar
    <2>4. AppendedSoFar(layer, c)
      BY <2>2, <2>3 DEF AppendedSoFar, Streams
    <2> QED BY <2>4 DEF AppendedPrefix, TypeOK
  <1> QED BY <1>1, TypeCorrect, StreamPrefixCorrect, AppendedPrefixCorrect, PTL

------------------------------------------------------------------------------
(* Every address the generator emits lies inside the tensor it is meant for,  *)
(* in both layouts and for every shape.                                       *)
THEOREM AddressesInTensorCorrect == Spec => []AddressesInTensor
  <1>1. TypeOK => AddressesInTensor
    <2> SUFFICES ASSUME TypeOK, NEW p \in Pending
                 PROVE  LET base == BaseOf(args, p[1])
                            addr == CellAddr(args, base, layer, p[2])
                        IN  base <= addr /\ addr < base + tensor_bytes(args)
      BY DEF AddressesInTensor
    <2>1. p[2] \in Cells(args) /\ layer \in 0 .. args.num_layers - 1
      BY CurrentCell DEF Pending, TypeOK, Streams
    <2>2. BaseOf(args, p[1]) \in Nat
      BY BoundsPositive DEF Args, BaseOf
    <2> QED BY <2>1, <2>2, BoundsPositive, CellInTensor
  <1> QED BY <1>1, TypeCorrect, PTL

------------------------------------------------------------------------------
(* Two cells of the tensors whose lines coincide are the same cell.           *)
LEMMA LinesDiffer ==
    ASSUME NEW a \in Args, validate_args(a),
           row_bytes(a) % CacheLine = 0, CacheLine % a.dtype_bytes = 0,
           a.base_k % CacheLine = 0, a.base_v % CacheLine = 0,
           a.base_k + tensor_bytes(a) <= a.base_v,
           NEW S \in Streams, NEW l \in 0 .. a.num_layers - 1, NEW c \in Cells(a),
           NEW T \in Streams, NEW k \in 0 .. a.num_layers - 1, NEW e \in Cells(a),
           LineOf(CellAddr(a, BaseOf(a, S), l, c)) = LineOf(CellAddr(a, BaseOf(a, T), k, e))
    PROVE  S = T /\ l = k /\ c = e
  <1>1. PICK b1 \in 0 .. a.batch - 1, h1 \in 0 .. a.num_kv_heads - 1,
             s1 \in 0 .. max_seq_len(a) - 1, d1 \in 0 .. dim_lines(a) - 1 :
                c = <<b1, h1, s1, d1>>
    BY DEF Cells
  <1>2. PICK b2 \in 0 .. a.batch - 1, h2 \in 0 .. a.num_kv_heads - 1,
             s2 \in 0 .. max_seq_len(a) - 1, d2 \in 0 .. dim_lines(a) - 1 :
                e = <<b2, h2, s2, d2>>
    BY DEF Cells
  <1>3. /\ BaseOf(a, S) \in Nat /\ BaseOf(a, S) % CacheLine = 0
        /\ BaseOf(a, T) \in Nat /\ BaseOf(a, T) % CacheLine = 0
        /\ a.base_k \in Nat /\ a.base_v \in Nat
    BY DEF BaseOf, Args
  <1> DEFINE D == dim_lines(a)
             addr1 == CellAddr(a, BaseOf(a, S), l, c)
             addr2 == CellAddr(a, BaseOf(a, T), k, e)
             r1 == kv_row(a, l, b1, h1, s1)
             r2 == kv_row(a, k, b2, h2, s2)
  <1>4. /\ LineOf(addr1) = BaseOf(a, S) \div CacheLine + (r1 * D + d1)
        /\ addr1 = LineOf(addr1) * CacheLine
    BY <1>1, <1>3, CellIsLine
  <1>5. /\ LineOf(addr2) = BaseOf(a, T) \div CacheLine + (r2 * D + d2)
        /\ addr2 = LineOf(addr2) * CacheLine
    BY <1>2, <1>3, CellIsLine
  <1>6. addr1 = addr2
    BY <1>4, <1>5
  <1>7. S = T
    <2>1. /\ addr1 \in Nat /\ BaseOf(a, S) <= addr1
          /\ addr1 < BaseOf(a, S) + tensor_bytes(a)
      BY <1>3, CellInTensor
    <2>2. /\ addr2 \in Nat /\ BaseOf(a, T) <= addr2
          /\ addr2 < BaseOf(a, T) + tensor_bytes(a)
      BY <1>3, CellInTensor
    <2>3. tensor_bytes(a) \in Int
      <3>1. /\ a.num_layers \in Int /\ a.batch \in Int /\ a.num_kv_heads \in Int
            /\ max_seq_len(a) \in Int /\ row_bytes(a) \in Int
        BY DEF Args, max_seq_len, row_bytes
      <3> QED BY <3>1 DEF tensor_bytes
    <2> HIDE DEF addr1, addr2
    <2> QED BY <1>3, <1>6, <2>1, <2>2, <2>3 DEF BaseOf, Streams
  <1>8. /\ r1 \in Nat /\ r2 \in Nat /\ D \in Nat
        /\ BaseOf(a, S) \div CacheLine \in Int
    <2>1. D \in Nat /\ r1 \in Nat /\ r2 \in Nat
      BY ShapePositive, RowBound
    <2> QED BY <1>3, <2>1, CacheLineAssumption
  <1>9. d1 \in 0 .. D - 1 /\ d2 \in 0 .. D - 1
    OBVIOUS
  <1>10. r1 * D + d1 = r2 * D + d2
    <2>1. LineOf(addr1) = LineOf(addr2)
      BY <1>6
    <2> DEFINE x1 == r1 * D + d1
               x2 == r2 * D + d2
    <2>2. x1 \in Nat /\ x2 \in Nat
      BY <1>8, <1>9, NestNat
    <2>3. BaseOf(a, S) \div CacheLine + x1 = BaseOf(a, S) \div CacheLine + x2
      BY <1>4, <1>5, <1>7, <2>1
    <2> HIDE DEF x1, x2
    <2>4. x1 = x2
      BY <1>8, <2>2, <2>3
    <2> QED BY <2>4 DEF x1, x2
  <1>11. r1 = r2 /\ d1 = d2
    <2> HIDE DEF r1, r2, D
    <2> QED BY <1>8, <1>9, <1>10, NestInjective
  <1>12. l = k /\ b1 = b2 /\ h1 = h2 /\ s1 = s2
    BY <1>11, RowInjective
  <1> QED BY <1>1, <1>2, <1>7, <1>11, <1>12

(* No line of the tensors is shared by two rows, in either layout: as many    *)
(* distinct lines are touched as cells.                                       *)
THEOREM LinesNotSharedCorrect == Spec => []LinesNotShared
  <1>1. TypeOK => LinesNotShared
    <2> SUFFICES ASSUME TypeOK, RowsAreLines
                 PROVE  LinesNotShared
      BY DEF LinesNotShared
    <2> DEFINE line(p) == LineOf(CellAddr(args, BaseOf(args, p[1]), p[2], p[3]))
               touched == {p \in Streams \X (0 .. layer) \X Cells(args) :
                               p[2] = layer => reads[p[1]][p[3]] > 0}
               lines == {line(p) : p \in touched}
               f == [p \in touched |-> line(p)]
    <2>1. ASSUME NEW p \in touched
          PROVE  /\ p[1] \in Streams /\ p[3] \in Cells(args)
                 /\ p[2] \in 0 .. args.num_layers - 1 /\ p = <<p[1], p[2], p[3]>>
      BY BoundsPositive DEF TypeOK
    <2>2. /\ args \in Args /\ validate_args(args)
          /\ row_bytes(args) % CacheLine = 0 /\ CacheLine % args.dtype_bytes = 0
          /\ args.base_k % CacheLine = 0 /\ args.base_v % CacheLine = 0
          /\ args.base_k + tensor_bytes(args) <= args.base_v
      BY BoundsPositive DEF RowsAreLines
    <2>3. ASSUME NEW p \in touched, NEW q \in touched, line(p) = line(q)
          PROVE  p = q
      <3>1. p[1] = q[1] /\ p[2] = q[2] /\ p[3] = q[3]
        BY <2>1, <2>2, <2>3, LinesDiffer
      <3> QED BY <2>1, <3>1
    <2>4. /\ tensor_bytes(args) \in Int
          /\ args.base_k \in Nat /\ args.base_v \in Nat
      <3>1. /\ args.num_layers \in Int /\ args.batch \in Int
            /\ args.num_kv_heads \in Int /\ max_seq_len(args) \in Int
            /\ row_bytes(args) \in Int
        BY <2>2 DEF Args, max_seq_len, row_bytes
      <3> QED BY <2>2, <3>1 DEF tensor_bytes, Args
    <2> DEFINE top == args.base_v + tensor_bytes(args)
    <2>5. ASSUME NEW p \in touched PROVE line(p) \in 0 .. top
      <3> DEFINE base == BaseOf(args, p[1])
                 addr == CellAddr(args, base, p[2], p[3])
      <3>1. base \in Nat /\ base <= args.base_v
        BY <2>2, <2>4, <2>1, CellInTensor DEF BaseOf
      <3>2. addr \in Nat /\ addr < base + tensor_bytes(args)
        BY <2>1, <2>2, <3>1, CellInTensor
      <3> HIDE DEF addr
      <3>3. addr \div CacheLine \in 0 .. addr
        BY <3>2, CacheLineAssumption, Z3
      <3> QED BY <2>4, <3>1, <3>2, <3>3 DEF LineOf, addr
    <2> HIDE DEF line, touched
    <2>6. IsFiniteSet(touched)
      <3>1. f \in Injection(touched, 0 .. top)
        BY <2>3, <2>5 DEF Injection, IsInjective
      <3>2. IsFiniteSet(0 .. top)
        BY <2>4, FS_Interval
      <3> QED BY <3>1, <3>2, FS_Injection
    <2>7. f \in Bijection(touched, lines)
      BY <2>3 DEF Bijection, Injection, IsInjective, Surjection
    <2>8. Cardinality(lines) = Cardinality(touched)
      BY <2>6, <2>7, FS_Bijection DEF ExistsBijection
    <2> QED BY <2>8 DEF LinesNotShared, line, touched
  <1> QED BY <1>1, TypeCorrect, PTL

(* Where rows are whole lines, "stream all previous K cache lines" is true to *)
(* the byte: every line that holds bytes of a covered position has been read. *)
THEOREM RowsFullyReadCorrect == Spec /\ RowsAreLines => RowsFullyRead
  <1> DEFINE Full(S) ==
        phase = S /\ phase' # S =>
          LET base == BaseOf(args, S)
              lines == {LineOf(CellAddr(args, base, layer, c)) :
                           c \in {d \in Cells(args) : reads'[S][d] > 0}}
          IN  \A c \in Cells(args) :
                 c[3] <= current_seq => RowLines(args, base, layer, c) \subseteq lines
      Complete(S) ==
        phase = S /\ phase' # S =>
          \A c \in Cells(args) :
             reads'[S][c] = IF c[3] <= current_seq THEN passes ELSE 0
  <1>1. TypeOK /\ RowsAreLines /\ [\A S \in Streams : Complete(S)]_vars
          => [\A S \in Streams : Full(S)]_vars
    <2> SUFFICES ASSUME TypeOK, RowsAreLines, NEW S \in Streams, Complete(S),
                        phase = S, phase' # S,
                        NEW c \in Cells(args), c[3] <= current_seq,
                        NEW x \in RowLines(args, BaseOf(args, S), layer, c)
                 PROVE  \E d \in Cells(args) :
                          /\ reads'[S][d] > 0
                          /\ x = LineOf(CellAddr(args, BaseOf(args, S), layer, d))
      OBVIOUS
    <2>1. PICK b \in 0 .. args.batch - 1, h \in 0 .. args.num_kv_heads - 1,
               s \in 0 .. max_seq_len(args) - 1, k \in 0 .. dim_lines(args) - 1 :
                  c = <<b, h, s, k>>
      BY DEF Cells
    <2>2. /\ args \in Args /\ validate_args(args) /\ passes > 0
          /\ BaseOf(args, S) \in Nat /\ BaseOf(args, S) % CacheLine = 0
          /\ row_bytes(args) % CacheLine = 0 /\ CacheLine % args.dtype_bytes = 0
          /\ layer \in 0 .. args.num_layers - 1
      BY BoundsPositive DEF RowsAreLines, TypeOK, BaseOf, Args
    <2>3. PICK d \in 0 .. dim_lines(args) - 1 :
               x = LineOf(CellAddr(args, BaseOf(args, S), layer, <<b, h, s, d>>))
      BY <2>1, <2>2, RowHasCells
    <2>4. <<b, h, s, d>> \in Cells(args) /\ <<b, h, s, d>>[3] <= current_seq
      BY <2>1 DEF Cells
    <2>5. reads'[S][<<b, h, s, d>>] > 0
      BY <2>2, <2>4
    <2> QED BY <2>3, <2>4, <2>5
  <1>2. RowsAreLines /\ [Next]_vars => RowsAreLines'
    BY DEF Next, Append, ReadK, ReadV, Read, Done, vars, RowsAreLines
  <1> QED BY <1>1, <1>2, TypeCorrect, StreamsCompleteCorrect, PTL
             DEF Spec, StreamsComplete, RowsFullyRead

------------------------------------------------------------------------------
(* The instruction count.  What has been retired is a function of the loop    *)
(* indices: whole tokens, whole layers of this one, and what this layer's     *)
(* stores and streams have emitted so far.                                    *)
StoreInsts == 2 * (args.compute_per_store_line + 1)
ReadInsts(S) == compute_of(S) + 1
Heads == args.batch * args.num_kv_heads

HeadsDone == batch * args.num_kv_heads + head
StoresDone == HeadsDone * dim_lines(args) + dim_line

PositionsWalked == passes * blk_start + rep * (blk_end - blk_start) + (seq - blk_start)
ReadsPerHead == (passes * n_seq) * dim_lines(args)
ReadsDone == HeadsDone * ReadsPerHead + (PositionsWalked * dim_lines(args) + dim_line)

AllStores == (Heads * dim_lines(args)) * StoreInsts
AllReads(S) == (Heads * ReadsPerHead) * ReadInsts(S)
LayerInsts == AllStores + AllReads("K") + AllReads("V")

InLayer == CASE phase = "append" -> StoresDone * StoreInsts
             [] phase = "K" -> AllStores + ReadsDone * ReadInsts("K")
             [] phase = "V" -> AllStores + AllReads("K") + ReadsDone * ReadInsts("V")
             [] phase = "done" -> LayerInsts

\* The positions streamed by the first t tokens of one layer and head.
PositionsOf(t) == t * (args.context_len + 1) + (t * (t - 1)) \div 2
TokensInsts(t) ==
    args.num_layers * ((Heads * dim_lines(args))
      * (t * StoreInsts + PositionsOf(t) * (passes * (ReadInsts("K") + ReadInsts("V")))))

InstsInv ==
    /\ phase = "done" => layer + 1 = args.num_layers /\ token + 1 = args.decode_tokens
    /\ estimated_insts = TokensInsts(token) + layer * LayerInsts + InLayer

(* The last line of a stream is the last of all its heads' lines.             *)
LEMMA LastRead ==
    ASSUME TypeOK, LastBlock, LastHead
    PROVE  ReadsDone + 1 = Heads * ReadsPerHead
  <1> DEFINE D == dim_lines(args)
             p == passes
             n == n_seq
             w == blk_end - blk_start
             H == args.num_kv_heads
             R == ReadsPerHead
  <1>1. /\ D \in Nat \ {0} /\ p \in Nat \ {0} /\ n \in Nat \ {0} /\ blk_start \in Nat
        /\ rep \in Nat /\ w \in Nat /\ batch \in Nat /\ head \in Nat /\ H \in Nat
        /\ blk_end = n
    BY BoundsPositive, BlockEnd DEF TypeOK, LastBlock
  <1>2. /\ dim_line + 1 = D /\ seq + 1 = blk_end /\ rep + 1 = p
        /\ args.batch = batch + 1 /\ H = head + 1
    BY DEF LastBlock, LastRep, LastSeq, LastLine, LastHead
  <1>3. HeadsDone \in Nat /\ HeadsDone + 1 = Heads
    <2>1. (batch + 1) * H = batch * H + H /\ batch * H \in Nat
      <3> HIDE DEF D, p, n, w, H
      <3> QED BY <1>1, Z3
    <2> QED BY <1>1, <1>2, <2>1 DEF HeadsDone, Heads
  <1>4. PositionsWalked \in Nat /\ PositionsWalked + 1 = p * n
    <2>1. p * (blk_start + w) = p * blk_start + p * w /\ p * blk_start \in Nat
      <3> HIDE DEF p, w
      <3> QED BY <1>1, Z3
    <2>2. (rep + 1) * w = rep * w + w /\ rep * w \in Nat
      <3> HIDE DEF w
      <3> QED BY <1>1, Z3
    <2>3. blk_start + w = n /\ seq - blk_start + 1 = w
      BY <1>1, <1>2, BoundsPositive, BlockEnd DEF TypeOK
    <2>4. PositionsWalked = p * blk_start + rep * w + (seq - blk_start)
      BY DEF PositionsWalked
    <2>5. seq - blk_start \in Int
      BY <1>1, <2>3, BoundsPositive, BlockEnd DEF TypeOK
    <2>6. p * w = rep * w + w
      BY <1>2, <2>2
    <2>7. p * n = p * blk_start + p * w
      BY <2>1, <2>3
    <2>8. \A x \in Nat, y \in Nat, z \in Int, v \in Nat :
             z + 1 = v => x + y + z \in Int /\ x + y + z + 1 = x + (y + v)
      OBVIOUS
    <2>9. PositionsWalked + 1 = p * n
      <3> HIDE DEF p, n, w
      <3> QED BY <1>1, <2>1, <2>2, <2>3, <2>4, <2>5, <2>6, <2>7, <2>8
    <2>10. seq - blk_start \in Nat
      BY <1>1, BoundsPositive, BlockEnd DEF TypeOK
    <2> HIDE DEF p, n, w
    <2> QED BY <2>1, <2>2, <2>4, <2>9, <2>10
  <1> DEFINE u == PositionsWalked
             h == HeadsDone
  <1>5. R = (p * n) * D
    BY DEF ReadsPerHead
  <1>6. /\ u * D \in Nat /\ (u + 1) * D = u * D + D
        /\ p * n \in Nat
    <2>1. u \in Nat
      BY <1>4
    <2> HIDE DEF D, p, n, u
    <2> QED BY <1>1, <2>1, Z3
  <1>7. R \in Nat /\ u * D + D = R
    <2>1. (u + 1) * D = (p * n) * D
      BY <1>4
    <2>2. u * D + D \in Nat
      BY <1>1, <1>6
    <2> HIDE DEF D, u
    <2> QED BY <1>5, <1>6, <2>1, <2>2
  <1>8. h * R \in Nat /\ (h + 1) * R = h * R + R
    <2>1. h \in Nat
      BY <1>3
    <2> HIDE DEF h, R
    <2> QED BY <1>7, <2>1, Z3
  <1>9. ReadsDone = h * R + (u * D + dim_line) /\ dim_line \in Nat
    BY BoundsPositive DEF ReadsDone, TypeOK
  <1>10. Heads * R = (h + 1) * R
    BY <1>3
  <1> HIDE DEF D, u, h, R
  <1> QED BY <1>1, <1>2, <1>6, <1>7, <1>8, <1>9, <1>10 DEF R

(* The next head is the next of batch times heads, and the last is the last.  *)
LEMMA HeadStep ==
    ASSUME TypeOK, args' = args
    PROVE  /\ HeadsDone \in Nat /\ Heads \in Nat
           /\ ~LastHead /\ NextHead => HeadsDone' = HeadsDone + 1
           /\ LastHead => HeadsDone + 1 = Heads
  <1> DEFINE H == args.num_kv_heads
  <1>1. /\ H \in Nat \ {0} /\ args.batch \in Nat \ {0}
        /\ batch \in 0 .. args.batch - 1 /\ head \in 0 .. H - 1
    BY BoundsPositive DEF TypeOK
  <1>2. HeadsDone \in Nat /\ Heads \in Nat
    <2>1. batch \in Nat /\ head \in Nat
      BY <1>1
    <2> QED BY <1>1, <2>1, NestNat, Z3 DEF HeadsDone, Heads
  <1>3. ASSUME ~LastHead, NextHead PROVE HeadsDone' = HeadsDone + 1
    <2>1. HeadsDone' = batch' * H + head'
      BY DEF HeadsDone
    <2>2. CASE head + 1 < H
      <3>1. batch' = batch /\ head' = head + 1
        BY <1>3, <2>2 DEF NextHead
      <3>2. batch * H \in Nat
        BY <1>1, Z3
      <3> QED BY <1>1, <2>1, <3>1, <3>2 DEF HeadsDone
    <2>3. CASE ~(head + 1 < H)
      <3>1. batch' = batch + 1 /\ head' = 0 /\ head + 1 = H
        BY <1>1, <1>3, <2>3 DEF NextHead
      <3>2. (batch + 1) * H = batch * H + H /\ batch * H \in Nat
        BY <1>1, Z3
      <3> QED BY <1>1, <2>1, <3>1, <3>2 DEF HeadsDone
    <2> QED BY <2>2, <2>3
  <1>4. ASSUME LastHead PROVE HeadsDone + 1 = Heads
    <2>1. args.batch = batch + 1 /\ H = head + 1
      BY <1>4 DEF LastHead
    <2>2. (batch + 1) * H = batch * H + H /\ batch * H \in Nat
      BY <1>1, Z3
    <2> QED BY <1>1, <2>1, <2>2 DEF HeadsDone, Heads
  <1> QED BY <1>2, <1>3, <1>4

(* A stream's positions are counted across blocks and sweeps.                 *)
LEMMA WalkStep ==
    ASSUME TypeOK, args' = args, token' = token
    PROVE  /\ PositionsWalked \in Nat
           /\ NextPosition \/ NextSweep \/ NextBlock
                => PositionsWalked' = PositionsWalked + 1
           /\ NextLine => PositionsWalked' = PositionsWalked
           /\ LastBlock => PositionsWalked + 1 = passes * n_seq
  <1> DEFINE p == passes
             n == n_seq
             s == blk_start
             e == blk_end
             L == blk
  <1>1. /\ p \in Nat \ {0} /\ n \in Nat \ {0} /\ L \in Nat \ {0} /\ s \in Nat /\ e \in Nat
        /\ rep \in 0 .. p - 1 /\ seq \in s .. e - 1 /\ s < e /\ e <= n
        /\ s + L < n => e = s + L
        /\ s + L >= n => e = n
    BY BoundsPositive, BlockEnd DEF TypeOK
  <1>2. p' = p /\ n' = n /\ L' = L
    BY DEF passes, n_seq, current_seq, blk, reread
  <1>3. PositionsWalked = p * s + rep * (e - s) + (seq - s)
    BY DEF PositionsWalked
  <1>4. PositionsWalked' = p * s' + rep' * (e' - s') + (seq' - s')
    BY <1>2 DEF PositionsWalked
  <1>5. e' = IF s' + L < n THEN s' + L ELSE n
    BY <1>2 DEF blk_end
  <1>6. e = IF s + L < n THEN s + L ELSE n
    BY DEF blk_end
  <1>7. p * s \in Nat /\ rep * (e - s) \in Nat
    <2>1. e - s \in Nat /\ rep \in Nat
      BY <1>1
    <2> DEFINE w == e - s
    <2> HIDE DEF w
    <2>2. rep * w \in Nat
      BY <2>1, Z3 DEF w
    <2>3. p * s \in Nat
      BY <1>1, Z3
    <2> QED BY <2>2, <2>3 DEF w
  <1>8. PositionsWalked \in Nat
    BY <1>1, <1>3, <1>7
  <1>9. ASSUME NextLine PROVE PositionsWalked' = PositionsWalked
    <2>1. s' = s /\ rep' = rep /\ seq' = seq /\ e' = e
      BY <1>5, <1>6, <1>9 DEF NextLine
    <2> QED BY <1>3, <1>4, <2>1
  <1>10. ASSUME NextPosition PROVE PositionsWalked' = PositionsWalked + 1
    <2>1. s' = s /\ rep' = rep /\ seq' = seq + 1 /\ e' = e
      BY <1>5, <1>6, <1>10 DEF NextPosition
    <2> QED BY <1>1, <1>3, <1>4, <1>7, <2>1
  <1>11. ASSUME NextSweep PROVE PositionsWalked' = PositionsWalked + 1
    <2>1. s' = s /\ rep' = rep + 1 /\ seq' = s /\ e' = e /\ seq + 1 = e
      BY <1>5, <1>6, <1>11 DEF NextSweep, LastSeq
    <2>2. (rep + 1) * (e - s) = rep * (e - s) + (e - s)
      BY <1>1, Z3
    <2> QED BY <1>1, <1>3, <1>4, <1>7, <2>1, <2>2
  <1>12. ASSUME NextBlock PROVE PositionsWalked' = PositionsWalked + 1
    <2>1. /\ rep' = 0 /\ s' = s + L /\ seq' = s + L /\ seq + 1 = e /\ rep + 1 = p
          /\ s + L < n
      BY <1>1, <1>12 DEF NextBlock, LastBlock, LastRep, LastSeq
    <2>2. e = s + L /\ e' \in Int
      BY <1>1, <1>5, <2>1
    <2>3. (rep + 1) * (e - s) = rep * (e - s) + (e - s)
      BY <1>1, Z3
    <2>4. p * e = p * s + p * (e - s)
      BY <1>1, Z3
    <2>5. rep' * (e' - s') = 0
      <3>1. e' - s' \in Int
        BY <1>1, <2>1, <2>2
      <3>2. \A x \in Int : 0 * x = 0
        OBVIOUS
      <3> HIDE DEF e, s
      <3> QED BY <2>1, <3>1, <3>2
    <2>6. PositionsWalked' = p * e
      <3>1. p * e \in Nat
        BY <1>1, Z3
      <3>2. p * s' = p * e /\ seq' - s' = 0
        BY <1>1, <2>1, <2>2
      <3> QED BY <1>4, <2>5, <3>1, <3>2
    <2>7. p * (e - s) = rep * (e - s) + (e - s)
      BY <2>1, <2>3
    <2> QED BY <1>1, <1>3, <1>7, <2>1, <2>4, <2>6, <2>7
  <1>13. ASSUME LastBlock PROVE PositionsWalked + 1 = p * n
    <2>1. seq + 1 = e /\ rep + 1 = p /\ e = n
      BY <1>1, <1>13 DEF LastBlock, LastRep, LastSeq
    <2>2. (rep + 1) * (e - s) = rep * (e - s) + (e - s)
      BY <1>1, Z3
    <2>3. p * e = p * s + p * (e - s)
      BY <1>1, Z3
    <2>4. p * (e - s) = rep * (e - s) + (e - s)
      BY <2>1, <2>2
    <2> QED BY <1>1, <1>3, <1>7, <2>1, <2>3, <2>4
  <1> QED BY <1>8, <1>9, <1>10, <1>11, <1>12, <1>13

(* Every line of a stream is counted once, and a stream has Heads times       *)
(* ReadsPerHead of them.                                                      *)
LEMMA ReadCount ==
    ASSUME TypeOK, args' = args, token' = token
    PROVE  /\ ReadsDone \in Nat
           /\ NextLine \/ NextPosition \/ NextSweep \/ NextBlock \/ NextStreamHead
                => ReadsDone' = ReadsDone + 1
           /\ EndOfStream => ReadsDone + 1 = Heads * ReadsPerHead
  <1> DEFINE D == dim_lines(args)
             w == PositionsWalked
             h == HeadsDone
             R == ReadsPerHead
             pn == passes * n_seq
  <1>1. /\ D \in Nat \ {0} /\ dim_line \in 0 .. D - 1 /\ w \in Nat /\ h \in Nat
        /\ pn \in Nat
    <2>1. passes \in Nat /\ n_seq \in Nat
      BY BoundsPositive
    <2>2. passes * n_seq \in Nat
      BY <2>1, Z3
    <2> QED BY <2>2, BoundsPositive, HeadStep, WalkStep DEF TypeOK
  <1>2. R = pn * D /\ R' = R /\ D' = D
    <2>1. passes' = passes /\ n_seq' = n_seq
      BY DEF passes, n_seq, current_seq, reread
    <2> QED BY <2>1 DEF ReadsPerHead
  <1>3. ReadsDone = h * R + (w * D + dim_line)
    BY DEF ReadsDone
  <1>4. ReadsDone' = h' * R + (w' * D + dim_line')
    BY <1>2 DEF ReadsDone
  <1>5. /\ NextPosition \/ NextSweep \/ NextBlock => w' = w + 1
        /\ NextLine => w' = w
        /\ LastBlock => w + 1 = pn
    BY WalkStep
  <1>6. /\ ~LastHead /\ NextHead => h' = h + 1
        /\ LastHead => h + 1 = Heads
    BY HeadStep
  <1>7. R \in Nat /\ h * R \in Nat /\ w * D \in Nat /\ (w + 1) * D = w * D + D
        /\ (h + 1) * R = h * R + R
    <2> HIDE DEF D, w, h, pn, R
    <2>1. R \in Nat /\ w * D \in Nat /\ (w + 1) * D = w * D + D
      BY <1>1, <1>2, Z3
    <2>2. h * R \in Nat /\ (h + 1) * R = h * R + R
      BY <1>1, <2>1, Z3
    <2> QED BY <2>1, <2>2
  <1>8. ASSUME NextLine PROVE ReadsDone' = ReadsDone + 1
    <2>1. h' = h /\ dim_line' = dim_line + 1 /\ w' = w
      BY <1>5, <1>8 DEF NextLine, HeadsDone
    <2> HIDE DEF D, w, h, R
    <2> QED BY <1>1, <1>3, <1>4, <1>7, <2>1
  <1>9. ASSUME NextPosition \/ NextSweep \/ NextBlock PROVE ReadsDone' = ReadsDone + 1
    <2>1. h' = h /\ dim_line' = 0 /\ dim_line + 1 = D /\ w' = w + 1
      BY <1>5, <1>9 DEF NextPosition, NextSweep, NextBlock, HeadsDone, LastLine,
                        LastBlock, LastRep, LastSeq
    <2> HIDE DEF D, w, h, R
    <2> QED BY <1>1, <1>3, <1>4, <1>7, <2>1
  <1>10. ASSUME LastBlock PROVE dim_line + 1 = D /\ w + 1 = pn /\ w * D + D = R
    <2>1. dim_line + 1 = D /\ w + 1 = pn
      BY <1>5, <1>10 DEF LastLine, LastBlock, LastRep, LastSeq
    <2> QED BY <1>2, <1>7, <2>1
  <1>11. ASSUME NextStreamHead PROVE ReadsDone' = ReadsDone + 1
    <2>1. LastBlock /\ dim_line' = 0 /\ h' = h + 1 /\ seq' = 0 /\ blk_start' = 0 /\ rep' = 0
      BY <1>6, <1>11 DEF NextStreamHead
    <2>2. w' = 0
      <3>1. passes' = passes /\ passes \in Nat /\ blk_end' \in Int
        <4>1. passes' = passes /\ n_seq' = n_seq /\ blk' = blk
          BY DEF passes, n_seq, current_seq, blk, reread
        <4> QED BY <2>1, <4>1, BoundsPositive DEF blk_end
      <3>2. /\ passes' * blk_start' = 0 /\ rep' * (blk_end' - blk_start') = 0
            /\ seq' - blk_start' = 0
        <4>1. \A x \in Int : 0 * x = 0 /\ x * 0 = 0
          OBVIOUS
        <4>2. blk_end' - blk_start' \in Int
          BY <2>1, <3>1
        <4>3. rep' * (blk_end' - blk_start') = 0
          BY <2>1, <4>1, <4>2
        <4>4. passes' * blk_start' = 0 /\ seq' - blk_start' = 0
          BY <2>1, <3>1
        <4> QED BY <4>3, <4>4
      <3> QED BY <3>2 DEF PositionsWalked
    <2> HIDE DEF D, w, h, R
    <2> QED BY <1>1, <1>3, <1>4, <1>7, <1>10, <2>1, <2>2
  <1>12. ASSUME EndOfStream PROVE ReadsDone + 1 = Heads * ReadsPerHead
    BY <1>12, LastRead DEF EndOfStream
  <1>13. ReadsDone \in Nat
    <2> HIDE DEF D, w, h, R
    <2> QED BY <1>1, <1>3, <1>7
  <1> QED BY <1>8, <1>9, <1>11, <1>12, <1>13

(* The same for the write loop.                                               *)
LEMMA StoreCount ==
    ASSUME TypeOK, Append
    PROVE  /\ StoresDone \in Nat
           /\ ~(LastLine /\ LastHead) => StoresDone' = StoresDone + 1
           /\ LastLine /\ LastHead => StoresDone + 1 = Heads * dim_lines(args)
  <1> DEFINE D == dim_lines(args)
             h == HeadsDone
  <1>1. /\ args' = args /\ D' = D /\ D \in Nat \ {0} /\ dim_line \in 0 .. D - 1
    BY BoundsPositive DEF TypeOK, Append
  <1>2. /\ h \in Nat
        /\ ~LastHead /\ NextHead => h' = h + 1
        /\ LastHead => h + 1 = Heads
    BY <1>1, HeadStep
  <1>3. StoresDone = h * D + dim_line /\ StoresDone' = h' * D + dim_line'
    BY <1>1 DEF StoresDone
  <1>4. h * D \in Nat /\ (h + 1) * D = h * D + D
    <2> HIDE DEF D, h
    <2> QED BY <1>1, <1>2, Z3
  <1>5. ASSUME ~(LastLine /\ LastHead) PROVE StoresDone' = StoresDone + 1
    <2>1. CASE ~LastLine
      <3>1. h' = h /\ dim_line' = dim_line + 1
        BY <1>1, <2>1 DEF Append, HeadsDone
      <3> HIDE DEF D, h
      <3> QED BY <1>1, <1>3, <1>4, <3>1
    <2>2. CASE LastLine
      <3>1. dim_line' = 0 /\ h' = h + 1
        BY <1>2, <1>5, <2>2 DEF Append
      <3>2. dim_line + 1 = D
        BY <2>2 DEF LastLine
      <3> HIDE DEF D, h
      <3> QED BY <1>1, <1>3, <1>4, <3>1, <3>2
    <2> QED BY <2>1, <2>2
  <1>6. ASSUME LastLine, LastHead PROVE StoresDone + 1 = Heads * D
    <2>1. dim_line + 1 = D /\ h + 1 = Heads
      BY <1>2, <1>6 DEF LastLine
    <2> HIDE DEF D, h
    <2> QED BY <1>1, <1>3, <1>4, <2>1
  <1>7. StoresDone \in Nat
    <2> HIDE DEF D, h
    <2> QED BY <1>1, <1>3, <1>4
  <1> QED BY <1>5, <1>6, <1>7

LEMMA Distributes ==
    ASSUME NEW x \in Nat, NEW y \in Nat, NEW z \in Nat
    PROVE  /\ x * (y + z) = x * y + x * z
           /\ (y + z) * x = y * x + z * x
           /\ x * y \in Nat
  BY Z3

(* What one line, one layer and the tokens so far are worth.                  *)
LEMMA InstsTypes ==
    ASSUME TypeOK
    PROVE  /\ StoreInsts \in Nat /\ ReadInsts("K") \in Nat /\ ReadInsts("V") \in Nat
           /\ Heads * dim_lines(args) \in Nat /\ ReadsPerHead \in Nat
           /\ AllStores \in Nat /\ AllReads("K") \in Nat /\ AllReads("V") \in Nat
           /\ LayerInsts \in Nat
  <1>1. /\ StoreInsts \in Nat /\ ReadInsts("K") \in Nat /\ ReadInsts("V") \in Nat
    <2>1. "K" \in Streams /\ "V" \in Streams
      BY DEF Streams
    <2> QED BY <2>1, BoundsPositive DEF StoreInsts, ReadInsts
  <1>2. Heads \in Nat /\ dim_lines(args) \in Nat /\ passes \in Nat /\ n_seq \in Nat
    BY BoundsPositive, HeadStep, Distributes DEF Heads
  <1>3. Heads * dim_lines(args) \in Nat /\ ReadsPerHead \in Nat
    <2>1. passes * n_seq \in Nat
      BY <1>2, Distributes
    <2> QED BY <1>2, <2>1, Distributes DEF ReadsPerHead
  <1>4. Heads * ReadsPerHead \in Nat
    BY <1>2, <1>3, Distributes
  <1>5. AllStores \in Nat /\ AllReads("K") \in Nat /\ AllReads("V") \in Nat
    BY <1>1, <1>3, <1>4, Distributes DEF AllStores, AllReads
  <1> QED BY <1>1, <1>3, <1>5 DEF LayerInsts

LEMMA PositionsStep ==
    ASSUME NEW t \in Nat, args.context_len \in Nat
    PROVE  /\ PositionsOf(t) \in Nat
           /\ PositionsOf(t + 1) = PositionsOf(t) + (args.context_len + t + 1)
  <1> DEFINE c == args.context_len
             x == t * (t - 1)
  <1>1. x \in Nat /\ (t + 1) * t = x + 2 * t
    BY Z3
  <1>2. PositionsOf(t) = t * (c + 1) + x \div 2
    BY DEF PositionsOf
  <1>3. PositionsOf(t + 1) = (t + 1) * (c + 1) + (x + 2 * t) \div 2
    <2>1. (t + 1) - 1 = t
      OBVIOUS
    <2> QED BY <1>1, <2>1 DEF PositionsOf
  <1>4. c \in Nat
    OBVIOUS
  <1> HIDE DEF x, c
  <1>5. (x + 2 * t) \div 2 = x \div 2 + t /\ x \div 2 \in Nat
    BY <1>1
  <1>6. (t + 1) * (c + 1) = t * (c + 1) + (c + 1) /\ t * (c + 1) \in Nat
    BY <1>4, Z3
  <1> QED BY <1>2, <1>3, <1>4, <1>5, <1>6 DEF c

(* One token more is all layers once more, at its own sequence length.        *)
LEMMA TokenSum ==
    ASSUME TypeOK
    PROVE  /\ TokensInsts(token) \in Nat
           /\ TokensInsts(token + 1) = TokensInsts(token) + args.num_layers * LayerInsts
  <1> DEFINE L == args.num_layers
             D == dim_lines(args)
             X == Heads * D
             I == StoreInsts
             RK == ReadInsts("K")
             RV == ReadInsts("V")
             p == passes
             n == n_seq
             Q == p * (RK + RV)
             pos == PositionsOf(token)
             A == token * I + pos * Q
             B == I + n * Q
  <1>1. /\ L \in Nat /\ D \in Nat /\ Heads \in Nat /\ X \in Nat /\ I \in Nat
        /\ RK \in Nat /\ RV \in Nat /\ p \in Nat /\ n \in Nat /\ token \in Nat
        /\ args.context_len \in Nat
    BY BoundsPositive, InstsTypes, HeadStep, Distributes DEF TypeOK, Heads
  <1>2. pos \in Nat /\ PositionsOf(token + 1) = pos + n
    <2>1. n = args.context_len + token + 1
      BY DEF n_seq, current_seq
    <2> QED BY <1>1, <2>1, PositionsStep
  <1>3. TokensInsts(token) = L * (X * A)
    BY DEF TokensInsts
  <1>4. TokensInsts(token + 1) = L * (X * ((token + 1) * I + (pos + n) * Q))
    BY <1>2 DEF TokensInsts
  <1>5. LayerInsts = X * I + (Heads * ((p * n) * D)) * RK + (Heads * ((p * n) * D)) * RV
    BY DEF LayerInsts, AllStores, AllReads, ReadsPerHead
  <1>6. X = Heads * D /\ Q = p * (RK + RV) /\ A = token * I + pos * Q /\ B = I + n * Q
    OBVIOUS
  <1> HIDE DEF L, D, X, I, RK, RV, p, n, pos, Q, A, B
  <1>7. Q \in Nat /\ p * n \in Nat
    BY <1>1, <1>6, Distributes
  <1>8. token * I \in Nat /\ pos * Q \in Nat /\ n * Q \in Nat
    BY <1>1, <1>2, <1>7, Distributes
  <1>9. A \in Nat /\ B \in Nat
    BY <1>1, <1>6, <1>8
  <1>10. (token + 1) * I + (pos + n) * Q = A + B
    <2>1. (token + 1) * I = token * I + I
      BY <1>1, Z3
    <2>2. (pos + n) * Q = pos * Q + n * Q
      BY <1>1, <1>2, <1>7, Distributes
    <2> QED BY <1>1, <1>6, <1>8, <2>1, <2>2
  <1>11. LayerInsts = X * B
    <2>1. Heads * ((p * n) * D) = X * (p * n)
      <3>1. (p * n) * D = D * (p * n)
        BY <1>1, <1>7, Z3
      <3> QED BY <1>1, <1>6, <1>7, <3>1, TimesAssociates
    <2>2. (X * (p * n)) * RK = X * ((p * n) * RK) /\ (X * (p * n)) * RV = X * ((p * n) * RV)
      BY <1>1, <1>7, TimesAssociates
    <2>3. n * Q = (p * n) * RK + (p * n) * RV
      <3>1. p * n = n * p
        BY <1>1, Z3
      <3>2. (n * p) * (RK + RV) = n * (p * (RK + RV))
        BY <1>1, TimesAssociates
      <3>3. (n * p) * (RK + RV) = (n * p) * RK + (n * p) * RV
        BY <1>1, <1>7, <3>1, Distributes
      <3> QED BY <1>6, <3>1, <3>2, <3>3
    <2>4. (p * n) * RK \in Nat /\ (p * n) * RV \in Nat
      BY <1>1, <1>7, Distributes
    <2>5. X * (n * Q) = X * ((p * n) * RK) + X * ((p * n) * RV)
      BY <1>1, <2>3, <2>4, Distributes
    <2>6. X * B = X * I + X * (n * Q)
      BY <1>1, <1>6, <1>8, Distributes
    <2>7. X * I \in Nat /\ X * ((p * n) * RK) \in Nat /\ X * ((p * n) * RV) \in Nat
      BY <1>1, <2>4, Distributes
    <2> QED BY <1>5, <2>1, <2>2, <2>5, <2>6, <2>7
  <1>12. X * A \in Nat /\ X * B \in Nat /\ X * (A + B) = X * A + X * B
    BY <1>1, <1>9, Distributes
  <1>13. L * (X * A) \in Nat /\ L * (X * A + X * B) = L * (X * A) + L * (X * B)
    BY <1>1, <1>12, Distributes
  <1> QED BY <1>3, <1>4, <1>10, <1>11, <1>12, <1>13 DEF L

LEMMA SameRates ==
    ASSUME args' = args
    PROVE  /\ StoreInsts' = StoreInsts /\ AllStores' = AllStores
           /\ ReadInsts("K")' = ReadInsts("K") /\ ReadInsts("V")' = ReadInsts("V")
           /\ token' = token =>
                /\ AllReads("K")' = AllReads("K") /\ AllReads("V")' = AllReads("V")
                /\ LayerInsts' = LayerInsts /\ TokensInsts(token)' = TokensInsts(token)
           /\ token' = token + 1 => TokensInsts(token)' = TokensInsts(token + 1)
  <1>1. /\ StoreInsts' = StoreInsts /\ AllStores' = AllStores /\ Heads' = Heads
        /\ ReadInsts("K")' = ReadInsts("K") /\ ReadInsts("V")' = ReadInsts("V")
        /\ passes' = passes /\ dim_lines(args)' = dim_lines(args)
    BY DEF StoreInsts, AllStores, Heads, ReadInsts, compute_of, reread, passes
  <1>2. ASSUME token' = token
        PROVE  /\ AllReads("K")' = AllReads("K") /\ AllReads("V")' = AllReads("V")
               /\ LayerInsts' = LayerInsts
    <2>1. n_seq' = n_seq
      BY <1>2 DEF n_seq, current_seq
    <2> QED BY <1>1, <2>1 DEF AllReads, ReadsPerHead, LayerInsts
  <1>3. token' = token => TokensInsts(token)' = TokensInsts(token)
    BY <1>1 DEF TokensInsts, PositionsOf
  <1>4. token' = token + 1 => TokensInsts(token)' = TokensInsts(token + 1)
    BY <1>1 DEF TokensInsts, PositionsOf
  <1> QED BY <1>1, <1>2, <1>3, <1>4

(* A write loop, or a stream, that begins has emitted nothing.                *)
LEMMA NothingAtStart ==
    TypeOK /\ batch = 0 /\ head = 0 /\ dim_line = 0
      => /\ StoresDone = 0
         /\ blk_start = 0 /\ rep = 0 /\ seq = 0 => ReadsDone = 0
  <1> SUFFICES ASSUME TypeOK, batch = 0, head = 0, dim_line = 0
               PROVE  /\ StoresDone = 0
                      /\ blk_start = 0 /\ rep = 0 /\ seq = 0 => ReadsDone = 0
    OBVIOUS
  <1>1. /\ args.num_kv_heads \in Nat /\ dim_lines(args) \in Nat /\ passes \in Nat
        /\ blk_end \in Nat /\ ReadsPerHead \in Nat
    BY BoundsPositive, BlockEnd, InstsTypes
  <1>2. HeadsDone = 0
    BY <1>1 DEF HeadsDone
  <1>3. StoresDone = 0
    BY <1>1, <1>2 DEF StoresDone
  <1>4. ASSUME blk_start = 0, rep = 0, seq = 0 PROVE ReadsDone = 0
    <2>1. PositionsWalked = 0
      BY <1>1, <1>4 DEF PositionsWalked
    <2> QED BY <1>1, <1>2, <2>1 DEF ReadsDone
  <1> QED BY <1>3, <1>4

LEMMA NothingDone ==
    (TypeOK /\ batch = 0 /\ head = 0 /\ dim_line = 0
       => /\ StoresDone = 0
          /\ blk_start = 0 /\ rep = 0 /\ seq = 0 => ReadsDone = 0)'
  BY NothingAtStart, PTL

LEMMA InitInsts == Init => InstsInv
  <1> SUFFICES ASSUME Init PROVE InstsInv
    OBVIOUS
  <1>1. TypeOK /\ phase = "append" /\ layer = 0 /\ token = 0 /\ estimated_insts = 0
    BY InitType DEF Init
  <1>2. StoresDone = 0
    BY BoundsPositive, <1>1 DEF Init, StoresDone, HeadsDone
  <1>3. TokensInsts(token) = 0
    <2>1. PositionsOf(0) = 0
      BY <1>1, BoundsPositive DEF PositionsOf
    <2>2. /\ StoreInsts \in Nat /\ passes * (ReadInsts("K") + ReadInsts("V")) \in Nat
          /\ Heads * dim_lines(args) \in Nat /\ args.num_layers \in Nat
      BY <1>1, BoundsPositive, InstsTypes, Distributes
    <2>3. \A x \in Nat : 0 * x = 0 /\ x * 0 = 0
      OBVIOUS
    <2>4. 0 * StoreInsts = 0 /\ 0 * (passes * (ReadInsts("K") + ReadInsts("V"))) = 0
      BY <2>2, <2>3
    <2>5. (Heads * dim_lines(args)) * 0 = 0 /\ args.num_layers * 0 = 0
      BY <2>2, <2>3
    <2> QED BY <1>1, <2>1, <2>4, <2>5 DEF TokensInsts
  <1>4. InLayer = 0 /\ layer * LayerInsts = 0
    BY <1>1, <1>2, InstsTypes DEF InLayer
  <1> QED BY <1>1, <1>3, <1>4 DEF InstsInv

LEMMA AppendInsts == ASSUME TypeOK, TypeOK', InstsInv, Append PROVE InstsInv'
  <1>1. /\ args' = args /\ token' = token /\ layer' = layer /\ phase = "append"
        /\ estimated_insts' = estimated_insts + StoreInsts
        /\ phase' # "done"
    BY DEF Append, StoreInsts
  <1>2. InLayer' = InLayer + StoreInsts
    <2>1. InLayer = StoresDone * StoreInsts /\ StoresDone \in Nat /\ StoreInsts \in Nat
      BY <1>1, StoreCount, InstsTypes DEF InLayer
    <2>2. (StoresDone + 1) * StoreInsts = StoresDone * StoreInsts + StoreInsts
      BY <2>1, Z3
    <2>3. CASE ~(LastLine /\ LastHead)
      <3>1. phase' = "append" /\ StoresDone' = StoresDone + 1 /\ StoreInsts' = StoreInsts
        BY <1>1, <2>3, StoreCount, SameRates DEF Append
      <3>2. InLayer' = StoresDone' * StoreInsts'
        BY <3>1 DEF InLayer
      <3> QED BY <2>1, <2>2, <3>1, <3>2
    <2>4. CASE LastLine /\ LastHead
      <3>1. /\ phase' = "K" /\ batch' = 0 /\ head' = 0 /\ dim_line' = 0
            /\ blk_start' = 0 /\ rep' = 0 /\ seq' = 0
        BY <1>1, <2>4 DEF Append, TypeOK, Streams
      <3>2. ReadsDone' = 0 /\ AllStores' = AllStores /\ ReadInsts("K")' = ReadInsts("K")
        BY <1>1, <3>1, NothingDone, SameRates
      <3>3. InLayer' = AllStores
        <4>1. InLayer' = AllStores' + ReadsDone' * ReadInsts("K")'
          BY <3>1 DEF InLayer
        <4> QED BY <3>2, <4>1, InstsTypes
      <3>4. StoresDone + 1 = Heads * dim_lines(args)
        BY <2>4, StoreCount
      <3> QED BY <2>1, <2>2, <3>3, <3>4 DEF AllStores
    <2> QED BY <2>3, <2>4
  <1>3. InLayer \in Nat /\ StoreInsts \in Nat
    BY <1>1, StoreCount, InstsTypes, Distributes DEF InLayer
  <1>4. /\ TokensInsts(token)' = TokensInsts(token) /\ LayerInsts' = LayerInsts
        /\ TokensInsts(token) \in Nat /\ layer * LayerInsts \in Nat
    BY <1>1, SameRates, TokenSum, InstsTypes, Distributes DEF TypeOK
  <1>5. estimated_insts' = TokensInsts(token)' + layer' * LayerInsts' + InLayer'
    BY <1>1, <1>2, <1>3, <1>4 DEF InstsInv
  <1> QED BY <1>1, <1>5 DEF InstsInv

(* What the layer has cost grows by what one line of its stream costs.        *)
LEMMA ReadInLayer ==
    ASSUME TypeOK, NEW S \in Streams, phase = S
    PROVE  /\ InLayer \in Nat /\ ReadInsts(S) \in Nat /\ ReadsDone \in Nat
           /\ InLayer = (IF S = "K" THEN AllStores ELSE AllStores + AllReads("K"))
                          + ReadsDone * ReadInsts(S)
           /\ (ReadsDone + 1) * ReadInsts(S) = ReadsDone * ReadInsts(S) + ReadInsts(S)
  <1>1. ReadsDone \in Nat
    <2>1. PositionsWalked \in Nat /\ HeadsDone \in Nat /\ dim_line \in Nat
      <3>1. /\ passes \in Nat /\ blk_start \in Nat /\ rep \in Nat
            /\ blk_end - blk_start \in Nat /\ seq - blk_start \in Nat
        BY BoundsPositive, BlockEnd DEF TypeOK
      <3>2. passes * blk_start \in Nat /\ rep * (blk_end - blk_start) \in Nat
        BY <3>1, Distributes
      <3>3. batch \in Nat /\ head \in Nat /\ args.num_kv_heads \in Nat
        BY BoundsPositive DEF TypeOK
      <3>4. dim_line \in Nat
        BY BoundsPositive DEF TypeOK
      <3> QED BY <3>1, <3>2, <3>3, <3>4, NestNat DEF PositionsWalked, HeadsDone
    <2>2. ReadsPerHead \in Nat /\ dim_lines(args) \in Nat
      BY InstsTypes, BoundsPositive
    <2>3. HeadsDone * ReadsPerHead \in Nat /\ PositionsWalked * dim_lines(args) \in Nat
      BY <2>1, <2>2, Distributes
    <2> QED BY <2>1, <2>3 DEF ReadsDone
  <1>2. ReadInsts(S) \in Nat /\ AllStores \in Nat /\ AllReads("K") \in Nat
    BY InstsTypes DEF Streams
  <1>3. ReadsDone * ReadInsts(S) \in Nat
        /\ (ReadsDone + 1) * ReadInsts(S) = ReadsDone * ReadInsts(S) + ReadInsts(S)
    BY <1>1, <1>2, Z3
  <1>4. InLayer = (IF S = "K" THEN AllStores ELSE AllStores + AllReads("K"))
                    + ReadsDone * ReadInsts(S)
    BY DEF InLayer, Streams
  <1> QED BY <1>1, <1>2, <1>3, <1>4

LEMMA NextInstsType == (TypeOK => LayerInsts \in Nat)'
  BY InstsTypes, PTL

LEMMA ReadInstsInv == ASSUME TypeOK, TypeOK', InstsInv, NEW S \in Streams, Read(S)
                      PROVE  InstsInv'
  <1>1. /\ args' = args /\ phase = S /\ phase # "done"
        /\ estimated_insts' = estimated_insts + ReadInsts(S)
    <2>1. compute_of(S) \in Nat /\ estimated_insts \in Nat
      BY BoundsPositive DEF TypeOK
    <2> QED BY <2>1 DEF Read, ReadInsts, Streams
  <1>2. /\ TokensInsts(token) \in Nat /\ layer * LayerInsts \in Nat /\ layer \in Nat
        /\ LayerInsts \in Nat /\ AllStores \in Nat /\ AllReads("K") \in Nat
        /\ AllReads("V") \in Nat /\ args.num_layers \in Nat
        /\ token \in Nat /\ args.decode_tokens \in Nat
    BY TokenSum, InstsTypes, Distributes, BoundsPositive DEF TypeOK
  <1>3. CASE /\ NextLine \/ NextPosition \/ NextSweep \/ NextBlock \/ NextStreamHead
             /\ UNCHANGED <<token, layer, phase>>
    <2>1. ReadsDone' = ReadsDone + 1
      BY <1>1, <1>3, ReadCount
    <2>2. /\ ReadInsts(S)' = ReadInsts(S) /\ AllStores' = AllStores
          /\ AllReads("K")' = AllReads("K") /\ LayerInsts' = LayerInsts
          /\ TokensInsts(token)' = TokensInsts(token)
      BY <1>1, <1>3, SameRates DEF Streams
    <2>3. InLayer' = (IF S = "K" THEN AllStores ELSE AllStores + AllReads("K"))
                       + ReadsDone' * ReadInsts(S)
      BY <1>1, <1>3, <2>2 DEF InLayer, Streams
    <2>4. ReadsDone * ReadInsts(S) \in Nat
      BY <1>1, ReadInLayer, Distributes
    <2>5. InLayer' = InLayer + ReadInsts(S)
      BY <1>1, <1>2, <2>1, <2>3, <2>4, ReadInLayer
    <2>6. estimated_insts' = TokensInsts(token)' + layer' * LayerInsts' + InLayer'
      BY <1>1, <1>2, <1>3, <2>2, <2>5, ReadInLayer DEF InstsInv
    <2> QED BY <1>1, <1>3, <2>6 DEF InstsInv
  <1>4. ASSUME EndOfStream
        PROVE  /\ ReadsDone * ReadInsts(S) + ReadInsts(S) = AllReads(S)
               /\ batch' = 0 /\ head' = 0 /\ dim_line' = 0
               /\ blk_start' = 0 /\ rep' = 0 /\ seq' = 0
    <2>1. LastBlock /\ LastHead
      BY <1>4 DEF EndOfStream
    <2>2. ReadsDone + 1 = Heads * ReadsPerHead
      BY <1>1, <2>1, LastRead
    <2> QED BY <1>1, <1>4, <2>2, ReadInLayer DEF AllReads, EndOfStream
  <1>5. CASE EndOfStream /\ S = "K" /\ phase' = "V" /\ UNCHANGED <<token, layer>>
    <2>1. ReadsDone' = 0
      BY <1>4, <1>5, NothingDone
    <2>2. /\ ReadInsts("V")' = ReadInsts("V") /\ AllStores' = AllStores
          /\ AllReads("K")' = AllReads("K") /\ LayerInsts' = LayerInsts
          /\ TokensInsts(token)' = TokensInsts(token)
      BY <1>1, <1>5, SameRates
    <2>3. InLayer' = AllStores + AllReads("K")
      <3>1. InLayer' = AllStores' + AllReads("K")' + ReadsDone' * ReadInsts("V")'
        BY <1>5 DEF InLayer
      <3> QED BY <1>2, <2>1, <2>2, <3>1, InstsTypes
    <2>4. ReadsDone * ReadInsts(S) \in Nat
      BY <1>1, ReadInLayer, Distributes
    <2>5. InLayer' = InLayer + ReadInsts(S)
      BY <1>1, <1>2, <1>4, <1>5, <2>3, <2>4, ReadInLayer
    <2>6. estimated_insts' = TokensInsts(token)' + layer' * LayerInsts' + InLayer'
      BY <1>1, <1>2, <1>5, <2>2, <2>5, ReadInLayer DEF InstsInv
    <2> QED BY <1>5, <2>6 DEF InstsInv
  <1>6. CASE EndOfStream /\ S = "V" /\ NextLayer
    <2>1. estimated_insts' = TokensInsts(token) + layer * LayerInsts + LayerInsts
      <3>1. InLayer + ReadInsts(S) = LayerInsts
        <4>1. ReadsDone * ReadInsts(S) \in Nat
          BY <1>1, ReadInLayer, Distributes
        <4> QED BY <1>1, <1>2, <1>4, <1>6, <4>1, ReadInLayer DEF LayerInsts
      <3> QED BY <1>1, <1>2, <3>1, ReadInLayer DEF InstsInv
    <2>2. StoresDone' = 0 /\ StoreInsts' \in Nat
      BY <1>1, <1>4, <1>6, NothingDone, SameRates, InstsTypes
    <2>3. phase' = "append" => InLayer' = 0
      BY <2>2 DEF InLayer
    <2>4. (layer + 1) * LayerInsts = layer * LayerInsts + LayerInsts
      BY <1>2, Z3
    <2>5. CASE layer + 1 < args.num_layers
      <3>1. layer' = layer + 1 /\ token' = token /\ phase' = "append"
        BY <1>2, <1>6, <2>5 DEF NextLayer
      <3>2. LayerInsts' = LayerInsts /\ TokensInsts(token)' = TokensInsts(token)
        BY <1>1, <3>1, SameRates
      <3>3. estimated_insts' = TokensInsts(token)' + layer' * LayerInsts' + InLayer'
        BY <1>2, <2>1, <2>3, <2>4, <3>1, <3>2
      <3> QED BY <3>1, <3>3 DEF InstsInv
    <2>6. CASE layer + 1 = args.num_layers /\ token + 1 < args.decode_tokens
      <3>1. layer' = 0 /\ token' = token + 1 /\ phase' = "append"
        BY <1>2, <1>6, <2>6 DEF NextLayer
      <3>2. TokensInsts(token)' = TokensInsts(token) + args.num_layers * LayerInsts
        BY <1>1, <3>1, SameRates, TokenSum
      <3>3. layer' * LayerInsts' = 0
        <4>1. LayerInsts' \in Nat
          BY NextInstsType
        <4>2. \A x \in Nat : 0 * x = 0
          OBVIOUS
        <4> QED BY <3>1, <4>1, <4>2
      <3>4. estimated_insts' = TokensInsts(token)' + layer' * LayerInsts' + InLayer'
        BY <1>2, <2>1, <2>3, <2>4, <2>6, <3>1, <3>2, <3>3
      <3> QED BY <3>1, <3>4 DEF InstsInv
    <2>7. CASE layer + 1 = args.num_layers /\ token + 1 = args.decode_tokens
      <3>1. layer' = layer /\ token' = token /\ phase' = "done"
        BY <1>2, <1>6, <2>7 DEF NextLayer
      <3>2. LayerInsts' = LayerInsts /\ TokensInsts(token)' = TokensInsts(token)
        BY <1>1, <3>1, SameRates
      <3>3. InLayer' = LayerInsts'
        BY <3>1 DEF InLayer
      <3>4. estimated_insts' = TokensInsts(token)' + layer' * LayerInsts' + InLayer'
        BY <2>1, <3>1, <3>2, <3>3
      <3> QED BY <1>1, <2>7, <3>1, <3>4 DEF InstsInv
    <2> QED BY <1>6, <2>5, <2>6, <2>7 DEF NextLayer
  <1> QED BY <1>2, <1>3, <1>5, <1>6 DEF Read

LEMMA NextInsts == TypeOK /\ TypeOK' /\ InstsInv /\ [Next]_vars => InstsInv'
  <1> SUFFICES ASSUME TypeOK, TypeOK', InstsInv, [Next]_vars PROVE InstsInv'
    OBVIOUS
  <1>1. CASE UNCHANGED vars
    <2>1. /\ TokensInsts(token)' = TokensInsts(token) /\ LayerInsts' = LayerInsts
          /\ AllStores' = AllStores /\ StoreInsts' = StoreInsts
          /\ AllReads("K")' = AllReads("K") /\ ReadInsts("K")' = ReadInsts("K")
          /\ ReadInsts("V")' = ReadInsts("V")
      BY <1>1, SameRates DEF vars
    <2>2. passes' = passes /\ n_seq' = n_seq /\ blk' = blk
      BY <1>1 DEF vars, passes, n_seq, current_seq, blk, reread
    <2>3. blk_end' = blk_end /\ HeadsDone' = HeadsDone /\ ReadsPerHead' = ReadsPerHead
      BY <1>1, <2>2 DEF vars, blk_end, HeadsDone, ReadsPerHead
    <2>4. StoresDone' = StoresDone /\ ReadsDone' = ReadsDone
      BY <1>1, <2>2, <2>3 DEF vars, StoresDone, ReadsDone, PositionsWalked
    <2>5. InLayer' = InLayer
      BY <1>1, <2>1, <2>4 DEF vars, InLayer
    <2> QED BY <1>1, <2>1, <2>5 DEF vars, InstsInv
  <1> QED BY <1>1, AppendInsts, ReadInstsInv DEF Next, ReadK, ReadV, Done, Streams

(* What is printed as the instructions of a pass is the closed form the       *)
(* sweeps rely on, for every command line: it depends on neither the block    *)
(* length, the layout nor the bases.                                          *)
THEOREM InstsClosedFormCorrect == Spec => []InstsClosedForm
  <1>1. TypeOK /\ InstsInv => InstsClosedForm
    <2> SUFFICES ASSUME TypeOK, InstsInv, phase = "done" PROVE InstsClosedForm
      BY DEF InstsClosedForm
    <2>1. /\ layer \in Nat /\ LayerInsts \in Nat /\ args.num_layers \in Nat
          /\ TokensInsts(token) \in Nat /\ layer * LayerInsts \in Nat
      BY BoundsPositive, TokenSum, InstsTypes, Distributes DEF TypeOK
    <2>2. (layer + 1) * LayerInsts = layer * LayerInsts + LayerInsts
      BY <2>1, Z3
    <2>3. estimated_insts = TokensInsts(args.decode_tokens)
      <3>1. estimated_insts = TokensInsts(token) + layer * LayerInsts + LayerInsts
        BY DEF InstsInv, InLayer
      <3>2. layer + 1 = args.num_layers /\ token + 1 = args.decode_tokens
        BY DEF InstsInv
      <3>3. args.num_layers * LayerInsts = layer * LayerInsts + LayerInsts
        BY <2>2, <3>2
      <3>4. TokensInsts(args.decode_tokens)
              = TokensInsts(token) + args.num_layers * LayerInsts
        BY <3>2, TokenSum
      <3> QED BY <2>1, <3>1, <3>3, <3>4
    <2> DEFINE t == args.decode_tokens
               per_position == passes * (compute_of("K") + compute_of("V") + 2)
               per_token == 2 * (args.compute_per_store_line + 1)
               L == args.num_layers
               b == args.batch
               H == args.num_kv_heads
               D == dim_lines(args)
               sum == PositionsOf(t) * per_position + t * per_token
    <2>4. per_position = passes * (ReadInsts("K") + ReadInsts("V"))
      <3>1. compute_of("K") \in Nat /\ compute_of("V") \in Nat
        BY BoundsPositive DEF Streams
      <3> QED BY <3>1 DEF ReadInsts
    <2>5. /\ L \in Nat /\ b \in Nat /\ H \in Nat /\ D \in Nat /\ t \in Nat
          /\ per_token \in Nat /\ per_position \in Nat /\ PositionsOf(t) \in Nat
      <3>1. L \in Nat /\ b \in Nat /\ H \in Nat /\ D \in Nat /\ t \in Nat
        BY BoundsPositive DEF TypeOK
      <3>2. per_token \in Nat
        BY InstsTypes DEF StoreInsts
      <3>3. per_position \in Nat
        <4>1. /\ passes \in Nat
              /\ ReadInsts("K") + ReadInsts("V") \in Nat
          BY BoundsPositive, InstsTypes
        <4> QED BY <2>4, <4>1, Distributes
      <3>4. PositionsOf(t) \in Nat
        BY <3>1, BoundsPositive, PositionsStep
      <3> QED BY <3>1, <3>2, <3>3, <3>4
    <2>6. estimated_insts = L * (((b * H) * D) * (t * per_token + PositionsOf(t) * per_position))
      BY <2>3, <2>4 DEF TokensInsts, Heads, StoreInsts
    <2>7. InstsClosedForm <=> estimated_insts = L * b * H * D * sum
      BY DEF InstsClosedForm, PositionsOf
    <2>8. t * per_token + PositionsOf(t) * per_position = sum /\ sum \in Nat
      <3> HIDE DEF t, per_token, per_position
      <3>1. t * per_token \in Nat /\ PositionsOf(t) * per_position \in Nat
        BY <2>5, Distributes
      <3> QED BY <3>1
    <2> HIDE DEF L, b, H, D, sum, t, per_token, per_position
    <2>9. L * (((b * H) * D) * sum) = L * b * H * D * sum
      <3>1. b * H \in Nat /\ (b * H) * D \in Nat /\ L * b \in Nat
        BY <2>5, Distributes
      <3>2. L * (((b * H) * D) * sum) = (L * ((b * H) * D)) * sum
        BY <2>5, <2>8, <3>1, TimesAssociates
      <3>3. L * ((b * H) * D) = (L * (b * H)) * D /\ L * (b * H) = (L * b) * H
        BY <2>5, <3>1, TimesAssociates
      <3> QED BY <3>2, <3>3
    <2> QED BY <2>6, <2>7, <2>8, <2>9
  <1> QED BY <1>1, InitInsts, NextInsts, TypeCorrect, PTL DEF Spec

-------------------------------------------------------------------------------
(* The generator implements the abstract decode step of DecodeAttention: the  *)
(* emission mode, the block length and the loop order are invisible in what   *)
(* lines a stream touches and in how much compute each one is given.          *)

LEMMA TimesNext ==
    ASSUME NEW i \in Nat, NEW k \in Nat
    PROVE  i * k \in Nat /\ (i + 1) * k = i * k + k
  BY Z3

LEMMA TimesMonotone ==
    ASSUME NEW i \in Nat, NEW j \in Nat, NEW k \in Nat, i <= j
    PROVE  i * k <= j * k
  BY Z3

(* The abstract step reads the command line through the same operators.       *)
LEMMA SameShape ==
    /\ Attention!Streams = Streams
    /\ \A a : Attention!validate_args(a) <=> validate_args(a)
    /\ \A a : Attention!Cells(a) = Cells(a)
    /\ \A a : Attention!group_size(a) = group_size(a)
    /\ \A a, S : Attention!ComputePerLine(a, S) = ComputePerLine(a, S)
  <1>1. Attention!Streams = Streams
    BY DEF Attention!Streams, Streams
  <1>2. \A a : Attention!validate_args(a) <=> validate_args(a)
    BY DEF Attention!validate_args, validate_args
  <1>3. \A a : Attention!Cells(a) = Cells(a)
    BY DEF Attention!Cells, Cells, Attention!max_seq_len, max_seq_len,
           Attention!dim_lines, dim_lines, Attention!ceil_div, ceil_div,
           Attention!row_bytes, row_bytes
  <1>4. \A a : Attention!group_size(a) = group_size(a)
    BY DEF Attention!group_size, group_size
  <1>5. \A a, S : Attention!ComputePerLine(a, S) = ComputePerLine(a, S)
    BY DEF Attention!ComputePerLine, ComputePerLine
  <1> QED BY <1>1, <1>2, <1>3, <1>4, <1>5

(* Both modes spend the same compute on a line that has had all its passes.   *)
LEMMA FullWork ==
    ASSUME TypeOK, NEW S \in Streams
    PROVE  /\ passes * compute_of(S) = Attention!Owed(S)
           /\ compute_of(S) \in 1 .. Attention!Owed(S)
           /\ Attention!Owed(S) \in Nat
  <1> DEFINE cpl == ComputePerLine(args, S)
             g == group_size(args)
  <1>1. cpl \in Nat \ {0} /\ g \in Nat \ {0}
    BY BoundsPositive, ShapePositive
  <1> HIDE DEF cpl, g
  <1>2. /\ cpl * g \in Nat /\ cpl <= cpl * g /\ 1 <= cpl * g
        /\ 1 * (cpl * g) = cpl * g /\ g * cpl = cpl * g
    BY <1>1, Z3
  <1> USE DEF cpl, g
  <1>3. Attention!Owed(S) = cpl * g
    BY SameShape DEF Attention!Owed
  <1>4. CASE reread
    <2>1. passes = g /\ compute_of(S) = cpl
      BY <1>4 DEF passes, compute_of
    <2> HIDE DEF cpl, g
    <2> QED BY <1>1, <1>2, <1>3, <2>1
  <1>5. CASE ~reread
    <2>1. passes = 1 /\ compute_of(S) = cpl * g
      BY <1>5 DEF passes, compute_of
    <2> HIDE DEF cpl, g
    <2> QED BY <1>1, <1>2, <1>3, <2>1
  <1> QED BY <1>4, <1>5

LEMMA InitRefines == Init => Attention!Init
  <1> SUFFICES ASSUME Init PROVE Attention!Init
    OBVIOUS
  <1>1. TypeOK
    BY InitType
  <1>2. \A S \in Streams : compute_of(S) \in Nat
    BY <1>1, BoundsPositive
  <1>3. WorkDone = [S \in Streams |-> [c \in Cells(args) |-> 0]]
    <2>1. ASSUME NEW S \in Streams, NEW c \in Cells(args)
          PROVE  reads[S][c] * compute_of(S) = 0
      <3>1. reads[S][c] = 0
        BY DEF Init
      <3> QED BY <1>2, <3>1
    <2> QED BY <2>1 DEF WorkDone
  <1> QED BY <1>3, SameShape DEF Init, Attention!Init

(* One write-allocate is one append of the abstract step.                     *)
LEMMA AppendRefines ==
    ASSUME TypeOK, AppendedPrefix, AppendedPrefix', Append
    PROVE  Attention!Append
  <1> DEFINE c == <<batch, head, current_seq, dim_line>>
  <1>1. c \in Attention!NewRow
    BY CurrentCell, SameShape DEF Attention!NewRow, Attention!Position, current_seq
  <1>2. ~AppendedSoFar(layer, c)
    <2>1. /\ current_seq \in Nat /\ layer \in Nat /\ batch \in Nat
          /\ head \in Nat /\ dim_line \in Nat /\ phase = "append"
      BY BoundsPositive DEF TypeOK, Append
    <2> QED BY <2>1 DEF AppendedSoFar, Before
  <1>3. /\ <<layer, c>> \notin appended
        /\ appended' = appended \cup {<<layer, c>>}
    BY <1>2 DEF AppendedPrefix, Append, AppendCell
  <1>4. UNCHANGED <<args, token, layer>> /\ phase = "append"
    BY DEF Append
  <1>5. \A S \in Streams : compute_of(S)' = compute_of(S)
    BY <1>4 DEF compute_of, reread
  <1>6. CASE phase' = "append"
    <2>1. reads' = reads
      BY <1>6 DEF Append
    <2>2. WorkDone' = WorkDone
      BY <1>4, <1>5, <2>1 DEF WorkDone
    <2> QED BY <1>1, <1>3, <1>4, <1>6, <2>2 DEF Attention!Append
  <1>7. CASE phase' = "K"
    <2>1. reads' = [reads EXCEPT !["K"] = NoReads]
      BY <1>4, <1>7 DEF Append
    <2>2. WorkDone' = [WorkDone EXCEPT !["K"] = Attention!NoWork]
      <3>1. \A S \in Streams : compute_of(S) \in Nat
        BY BoundsPositive
      <3>2. ASSUME NEW x \in Cells(args)
            PROVE  reads'["K"][x] * compute_of("K") = 0
        BY <2>1, <3>1, <3>2 DEF TypeOK, NoReads, Streams
      <3>3. reads' \in [Streams -> [Cells(args) -> Nat]] /\ reads'["V"] = reads["V"]
        BY <2>1 DEF TypeOK, NoReads, Streams
      <3> QED BY <1>4, <1>5, <3>2, <3>3, SameShape
              DEF WorkDone, Attention!NoWork, Streams
    <2>3. \A d \in Attention!NewRow : <<layer, d>> \in appended'
      <3> SUFFICES ASSUME NEW d \in Attention!NewRow
                   PROVE  <<layer, d>> \in appended'
        OBVIOUS
      <3>1. /\ d \in Cells(args) /\ d[3] = current_seq
            /\ layer \in 0 .. args.num_layers - 1
            /\ args.context_len <= current_seq
        BY BoundsPositive, SameShape
           DEF Attention!NewRow, Attention!Position, current_seq, TypeOK
      <3>2. AppendedSoFar(layer, d)'
        BY <1>4, <1>7, <3>1 DEF AppendedSoFar, current_seq
      <3> QED BY <1>4, <3>1, <3>2 DEF AppendedPrefix
    <2> QED BY <1>1, <1>3, <1>4, <1>7, <2>2, <2>3 DEF Attention!Append
  <1> QED BY <1>4, <1>6, <1>7 DEF Append

(* One read of a stream is one instalment of the compute a line is owed.      *)
LEMMA ReadRefines ==
    ASSUME TypeOK, StreamPrefix, NEW S \in Streams, Read(S)
    PROVE  Attention!Attend(S)
  <1> DEFINE c == <<batch, head, seq, dim_line>>
             n == compute_of(S)
             counted == [reads[S] EXCEPT ![c] = @ + 1]
             spent == [WorkDone[S] EXCEPT ![c] = @ + n]
  <1>1. /\ c \in Cells(args) /\ seq <= current_seq
        /\ c \in Attention!Visible
    BY CurrentCell, SameShape DEF Attention!Visible, Attention!Position, current_seq
  <1>2. /\ n \in 1 .. Attention!Owed(S) /\ Attention!Owed(S) \in Nat
        /\ n \in Nat /\ passes * n = Attention!Owed(S) /\ passes \in Nat
    BY FullWork, BoundsPositive
  <1>3. /\ counted \in [Cells(args) -> Nat] /\ reads[S] \in [Cells(args) -> Nat]
        /\ counted[c] = reads[S][c] + 1
        /\ \A x \in Cells(args) : x # c => counted[x] = reads[S][x]
    BY <1>1 DEF TypeOK
  <1>4. spent = [x \in Cells(args) |-> counted[x] * n]
    <2>1. WorkDone[S] = [x \in Cells(args) |-> reads[S][x] * n]
      BY DEF WorkDone
    <2>2. counted[c] * n = reads[S][c] * n + n
      BY <1>1, <1>2, <1>3, TimesNext
    <2> HIDE DEF n, counted, c
    <2> QED BY <1>1, <1>3, <2>1, <2>2
  <1>5. phase = S /\ args' = args /\ appended' = appended
    BY DEF Read
  <1>6. spent[c] <= Attention!Owed(S)
    <2>1. reads[S][c] = rep /\ rep + 1 <= passes /\ rep \in Nat
      <3>1. reads[S][c] = ReadSoFar(c)
        BY <1>1, <1>5 DEF StreamPrefix
      <3>2. /\ batch \in Nat /\ head \in Nat /\ dim_line \in Nat /\ seq \in Nat
            /\ blk_start \in Nat /\ blk_start <= seq /\ seq < blk_end
            /\ rep \in Nat /\ rep + 1 <= passes /\ current_seq \in Nat
        BY BoundsPositive, BlockEnd DEF TypeOK
      <3> QED BY <1>1, <3>1, <3>2 DEF ReadSoFar, Before, SweptBefore
    <2>2. counted[c] * n <= passes * n
      BY <1>2, <1>3, <2>1, TimesMonotone
    <2> QED BY <1>1, <1>2, <1>4, <2>2
  <1>7. \A T \in Streams : compute_of(T)' = compute_of(T)
    BY <1>5 DEF compute_of, reread
  <1>8. ASSUME reads' = [reads EXCEPT ![S] = counted]
        PROVE  WorkDone' = [WorkDone EXCEPT ![S] = spent]
    <2>1. ASSUME NEW T \in Streams
          PROVE  WorkDone'[T] = IF T = S THEN spent ELSE WorkDone[T]
      BY <1>4, <1>5, <1>7, <1>8 DEF WorkDone, TypeOK
    <2> HIDE DEF spent
    <2> QED BY <2>1 DEF WorkDone
  <1>9. CASE /\ NextLine \/ NextPosition \/ NextSweep \/ NextBlock
                \/ NextStreamHead
             /\ reads' = [reads EXCEPT ![S] = counted]
             /\ UNCHANGED <<token, layer, phase>>
    <2>1. WorkDone' = [WorkDone EXCEPT ![S] = spent]
      BY <1>8, <1>9
    <2> HIDE DEF n, counted, c
    <2> QED BY <1>1, <1>2, <1>5, <1>6, <1>9, <2>1 DEF Attention!Attend
  <1>10. ASSUME EndOfStream
         PROVE  \A d \in Attention!Visible : spent[d] = Attention!Owed(S)
    <2> SUFFICES ASSUME NEW d \in Attention!Visible
                 PROVE  spent[d] = Attention!Owed(S)
      OBVIOUS
    <2>1. d \in Cells(args) /\ d[3] <= current_seq
      BY SameShape DEF Attention!Visible, Attention!Position, current_seq
    <2>2. counted[d] = IF d = c THEN ReadSoFar(d) + 1 ELSE ReadSoFar(d)
      BY <1>1, <1>3, <1>5, <2>1 DEF StreamPrefix
    <2>3. counted[d] = passes
      BY <1>10, <2>1, <2>2, EndOfStreamPrefix
    <2> QED BY <1>2, <1>4, <2>1, <2>3
  <1>11. CASE /\ EndOfStream /\ S = "K" /\ phase' = "V"
              /\ reads' = [reads EXCEPT !["K"] = counted, !["V"] = NoReads]
              /\ UNCHANGED <<token, layer>>
    <2>1. WorkDone' = [WorkDone EXCEPT !["K"] = spent, !["V"] = Attention!NoWork]
      <3>1. WorkDone'["K"] = spent
        BY <1>4, <1>5, <1>7, <1>11 DEF WorkDone, TypeOK, Streams
      <3>2. WorkDone'["V"] = Attention!NoWork
        <4>1. \A x \in Cells(args) : 0 * compute_of("V") = 0
          BY BoundsPositive DEF Streams
        <4> QED BY <1>5, <1>7, <1>11, <4>1, SameShape
                DEF WorkDone, TypeOK, Streams, NoReads, Attention!NoWork
      <3> HIDE DEF spent
      <3> QED BY <3>1, <3>2 DEF WorkDone, Streams
    <2> HIDE DEF n, counted, c
    <2> QED BY <1>1, <1>2, <1>5, <1>6, <1>10, <1>11, <2>1 DEF Attention!Attend
  <1>12. CASE /\ EndOfStream /\ S = "V" /\ NextLayer
              /\ reads' = [reads EXCEPT !["V"] = counted]
    <2>1. WorkDone' = [WorkDone EXCEPT !["V"] = spent]
      BY <1>8, <1>12
    <2>2. Attention!NextLayer
      BY <1>12, BoundsPositive DEF NextLayer, Attention!NextLayer, TypeOK
    <2> HIDE DEF n, counted, c
    <2> QED BY <1>1, <1>2, <1>5, <1>6, <1>10, <1>12, <2>1, <2>2
            DEF Attention!Attend
  <1> QED BY <1>9, <1>11, <1>12 DEF Read

(* Every behaviour of the generator is a behaviour of the abstract decode     *)
(* step, in both modes, for every block length and every shape.               *)
THEOREM ImplementsAttentionCorrect == Spec => ImplementsAttention
  <1>1. TypeOK /\ StreamPrefix /\ AppendedPrefix /\ AppendedPrefix' /\ [Next]_vars
          => [Attention!Next]_(Attention!vars)
    <2> SUFFICES ASSUME TypeOK, StreamPrefix, AppendedPrefix, AppendedPrefix',
                        [Next]_vars
                 PROVE  [Attention!Next]_(Attention!vars)
      OBVIOUS
    <2>1. CASE Append
      BY <2>1, AppendRefines, SameShape DEF Attention!Next
    <2>2. ASSUME NEW S \in Streams, Read(S) PROVE Attention!Next
      BY <2>2, ReadRefines, SameShape DEF Attention!Next
    <2>3. CASE UNCHANGED vars
      BY <2>3 DEF vars, Attention!vars, WorkDone, compute_of, reread
    <2> QED BY <2>1, <2>2, <2>3 DEF Next, ReadK, ReadV, Done, Streams
  <1> QED BY <1>1, InitRefines, TypeCorrect, StreamPrefixCorrect,
             AppendedPrefixCorrect, PTL
          DEF Spec, ImplementsAttention, Attention!Spec
===============================================================================
