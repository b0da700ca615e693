----------------------------- MODULE MCPassExpand -----------------------------
(* Chunks of 3 (5 when one side has a single row), tiles of 2, lines of 4     *)
(* bytes and regions of multiples of 16.  Single operations: mul_mats of up   *)
(* to nine rows and six heads (too few chunks, many, ragged last ones), every *)
(* index list of up to five below 4 and of six below 3, and longer regular    *)
(* ones.  Whole runs: two passes of two layers, heads of whole lines and not. *)
EXTENDS PassExpand

MM(kv, layer, pass, data, bytes, nb01, nb02, ne01, ne02, q) ==
    [tag |-> "MM", kv |-> kv, layer |-> layer, pass |-> pass, data |-> data,
     row_bytes |-> bytes, nb01 |-> nb01, nb02 |-> nb02, ne01 |-> ne01,
     ne02 |-> ne02, n_tok |-> 1, n_q_heads |-> q]
SR(kv, layer, pass, data, bytes, idxs) ==
    [tag |-> "SR", kv |-> kv, layer |-> layer, pass |-> pass, data |-> data,
     row_bytes |-> bytes, nb1 |-> bytes, idxs |-> idxs]

(* A view of K has the heads of a row side by side.                           *)
K(bytes, n, kv, q) == MM("k", 0, 1, 0, bytes, kv * bytes, bytes, n, kv, q)
MulMats ==
    {<<K(4, n, m[1], m[2])>> : n \in 1 .. 9,
        m \in {<<1, 1>>, <<1, 3>>, <<2, 4>>, <<2, 6>>, <<3, 3>>}}
        \cup {<<K(6, 4, 2, 4)>>, <<K(4, 21, 1, 1)>>}

Lists == UNION {[1 .. n -> 0 .. 3] : n \in 1 .. 5} \cup [1 .. 6 -> 0 .. 2]
           \cup {[i \in 1 .. n |-> 3 + (i - 1) * d] : n \in 6 .. 7, d \in 0 .. 3}
SetRows == {<<SR("k", 0, 1, 0, 2, list)>> : list \in Lists}

(* Elements of 2 bytes, two KV heads of dim, four query heads; the token of   *)
(* pass p is stored at p - 1 of a cache of size.  V is transposed: one row of *)
(* the cache per dimension of a head.                                         *)
Layer(l, p, dim, size, data) ==
    LET bytes == 2 * dim
        k == data + l * 8 * dim * size
        v == k + 4 * dim * size IN
    <<SR("k", l, p, k, 2 * bytes, <<p - 1>>),
      SR("v", l, p, v, 2, [d \in 1 .. 2 * dim |-> (d - 1) * size + p - 1]),
      MM("k", l, p, k, bytes, 2 * bytes, bytes, size, 2, 4),
      MM("v", l, p, v, 2 * size, 2 * size, 2 * size * dim, dim, 2, 4)>>
Whole(dim, size, data) ==
    Layer(0, 1, dim, size, data) \o Layer(1, 1, dim, size, data)
      \o Layer(0, 2, dim, size, data) \o Layer(1, 2, dim, size, data)

SmallRuns == MulMats \cup SetRows
               \cup {Whole(2, 2, 32), Whole(2, 2, 34), Whole(2, 4, 38), Whole(3, 3, 6)}

(* In a pass of these runs the mul_mat of a layer and cache comes after its   *)
(* set_rows and reads what that stored.                                       *)
ASSUME PassesStoreFirst ==
    \A r \in SmallRuns : \A n \in DOMAIN r, m \in DOMAIN r :
        /\ r[n].tag = "SR" /\ r[m].tag = "MM"
        /\ r[n].kv = r[m].kv /\ r[n].layer = r[m].layer /\ r[n].pass = r[m].pass
        => n < m /\ StoredIn(r[n], r[m])
===============================================================================
