------------------------------- MODULE KvShape -------------------------------
(* The pure part of gen/gen_kv_decode_trace.py: the command line, the checks  *)
(* made on it, and the address arithmetic.  The trace generator, the abstract *)
(* decode step and the per-core layout are all written over these operators.  *)
EXTENDS Integers

CONSTANT CacheLine      \* bytes of one cache line (64 in sim_constants.py)

ASSUME CacheLineAssumption == CacheLine \in Nat \ {0}

(* The namespace argparse builds.  The integers are unchecked at this point.  *)
Args == [num_layers : Int, batch : Int, num_query_heads : Int,
         num_kv_heads : Int, head_dim : Int, context_len : Int,
         decode_tokens : Int, dtype_bytes : Int, compute_per_k_line : Int,
         compute_per_v_line : Int, compute_per_store_line : Int,
         reread_block_positions : Int,
         gqa_emission : {"reread", "naive"},
         layout : {"head_seq_dim", "seq_head_dim"},
         base_k : Nat, base_v : Nat]

validate_args(a) ==
    /\ \A v \in {a.num_layers, a.batch, a.num_query_heads, a.num_kv_heads,
                 a.head_dim, a.context_len, a.decode_tokens, a.dtype_bytes,
                 a.compute_per_k_line, a.compute_per_v_line,
                 a.compute_per_store_line, a.reread_block_positions} : v > 0
    /\ a.dtype_bytes <= CacheLine
    /\ a.num_query_heads >= a.num_kv_heads
    /\ a.num_query_heads % a.num_kv_heads = 0

ceil_div(a, b) == (a + b - 1) \div b

\* align_down keeps the line an address falls in; a line is its index here.
LineOf(addr) == addr \div CacheLine

group_size(a) == a.num_query_heads \div a.num_kv_heads
max_seq_len(a) == a.context_len + a.decode_tokens
elems_per_line(a) == CacheLine \div a.dtype_bytes
row_bytes(a) == a.head_dim * a.dtype_bytes
dim_lines(a) == ceil_div(row_bytes(a), CacheLine)

tensor_bytes(a) ==
    a.num_layers * a.batch * a.num_kv_heads * max_seq_len(a) * row_bytes(a)

\* Mutation: the two inner extents of the nest swapped.
kv_row_Swapped(a, layer, b, h, s) ==
    IF a.layout = "head_seq_dim"
    THEN ((layer * a.batch + b) * a.num_kv_heads + h) * a.num_kv_heads + s
    ELSE ((layer * a.batch + b) * max_seq_len(a) + s) * max_seq_len(a) + h

kv_row(a, layer, b, h, s) ==
    IF a.layout = "head_seq_dim"
    THEN ((layer * a.batch + b) * a.num_kv_heads + h) * max_seq_len(a) + s
    ELSE ((layer * a.batch + b) * max_seq_len(a) + s) * a.num_kv_heads + h

kv_addr(a, base, layer, b, h, s, dim) ==
    base + (kv_row(a, layer, b, h, s) * a.head_dim + dim) * a.dtype_bytes

(* One emission of a stream: batch, head, position and line within the row.   *)
Cells(a) == (0 .. a.batch - 1) \X (0 .. a.num_kv_heads - 1)
              \X (0 .. max_seq_len(a) - 1) \X (0 .. dim_lines(a) - 1)

CellAddr(a, base, layer, c) ==
    kv_addr(a, base, layer, c[1], c[2], c[3], c[4] * elems_per_line(a))

(* The lines that the bytes of one K or V vector really occupy.               *)
RowLines(a, base, layer, c) ==
    LET first == kv_addr(a, base, layer, c[1], c[2], c[3], 0)
    IN  LineOf(first) .. LineOf(first + row_bytes(a) - 1)

Streams == {"K", "V"}
BaseOf(a, S) == IF S = "K" THEN a.base_k ELSE a.base_v
ComputePerLine(a, S) ==
    IF S = "K" THEN a.compute_per_k_line ELSE a.compute_per_v_line
==============================================================================
