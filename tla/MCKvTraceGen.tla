---------------------------- MODULE MCKvTraceGen ----------------------------
(* Small command lines for KvTraceGen: a cache line of 4 bytes, rows of one   *)
(* or two lines, up to three query heads per group, block lengths that divide *)
(* the sequence, that do not, and that exceed it.                             *)
EXTENDS KvTraceGen

Shape(l, b, q, h, d, c, t, r, mode, lay) ==
    [num_layers |-> l, batch |-> b, num_query_heads |-> q, num_kv_heads |-> h,
     head_dim |-> d, context_len |-> c, decode_tokens |-> t, dtype_bytes |-> 2,
     compute_per_k_line |-> 3, compute_per_v_line |-> 2,
     compute_per_store_line |-> 1, reread_block_positions |-> r,
     gqa_emission |-> mode, layout |-> lay,
     base_k |-> 4, base_v |-> 4 + 256]

\* Includes command lines validate_args rejects (3 query heads on 2 KV heads);
\* the naive mode never looks at the block length.  Not all extents are large
\* at once: six is enough for any two of them to exceed one together.
SmallShapes ==
    {a \in {Shape(l, b, q, h, d, c, t, m[2], m[1], lay) :
            l \in {1, 2}, b \in {1, 2}, q \in {2, 3, 4}, h \in {1, 2},
            d \in {2, 4}, c \in {1, 2}, t \in {1, 2},
            m \in {<<"naive", 1>>} \cup ({"reread"} \X {1, 2, 3}),
            lay \in {"head_seq_dim", "seq_head_dim"}} :
        a.num_layers + a.batch + a.context_len + a.decode_tokens <= 6}

\* Rows of 3 bytes on lines of 4: a head dimension the tensor layout does not pad.
UnpaddedShapes ==
    {[Shape(1, 1, 2, 1, 3, c, 2, 2, mode, "head_seq_dim")
        EXCEPT !.dtype_bytes = 1] :
        c \in {1, 2}, mode \in {"reread", "naive"}}
=============================================================================
