----------------------------- MODULE MulMatExpand -----------------------------
(* expand_mm of gen/expand_kv_log.py: the walk over one mul_mat reading a KV  *)
(* view, one action per row read.  The rows of src0 (ir0) and the query heads *)
(* (ir1) are cut into chunks, taken in index order by the one thread of the   *)
(* capture, and each chunk is walked in Blck x Blck tiles.  PassExpand starts *)
(* it for the operations of a pass.                                           *)
EXTENDS Integers, FiniteSets

CONSTANTS
    SmallChunk, BigChunk,   \* 16, and 64 when either side has one row
    Blck                    \* 16

(* A mul_mat the walk may be given.                                           *)
IsMulMat(o) ==
    /\ o.ne01 \in Nat \ {0} /\ o.ne02 \in Nat \ {0}
    /\ o.n_tok \in Nat \ {0} /\ o.n_q_heads \in Nat \ {0}
    \* the query heads broadcast over the KV heads, as ggml asserts
    /\ o.n_q_heads % o.ne02 = 0

VARIABLES
    op,                             \* [ne01, ne02, n_tok, n_q_heads, ...]
    chunk, iir1, iir0, ir1, ir0,    \* the loops, outermost first
    walking,                        \* inside the loops of a chunk
    visits                          \* how often each <<ir1, ir0>> was read

ceil_div(a, b) == (a + b - 1) \div b
Least(a, b) == IF a < b THEN a ELSE b

r2 == op.n_q_heads \div op.ne02
nr0 == op.ne01
nr1 == op.n_tok * op.n_q_heads

chunk_size == IF nr0 = 1 \/ nr1 = 1 THEN BigChunk ELSE SmallChunk
\* Fewer chunks than 4 per thread: one chunk per thread, of one thread.
Few == ceil_div(nr0, chunk_size) * ceil_div(nr1, chunk_size) < 4
nchunk0 == IF Few THEN 1 ELSE ceil_div(nr0, chunk_size)
nchunk1 == IF Few THEN 1 ELSE ceil_div(nr1, chunk_size)
\* Mutation: the last, shorter chunk is rounded away.
dr0_Floor == IF nr0 < nchunk0 THEN 1 ELSE nr0 \div nchunk0
dr0 == ceil_div(nr0, nchunk0)
dr1 == ceil_div(nr1, nchunk1)

ir0_start == dr0 * (chunk % nchunk0)
\* Mutation: a chunk runs into the next.
ir0_end_Long == Least(ir0_start + dr0 + 1, nr0)
ir0_end == Least(ir0_start + dr0, nr0)
ir1_start == dr1 * (chunk \div nchunk0)
ir1_end == Least(ir1_start + dr1, nr1)

tile0_end == Least(iir0 + Blck, ir0_end)
tile1_end == Least(iir1 + Blck, ir1_end)

RowsOf(o) == (0 .. o.n_tok * o.n_q_heads - 1) \X (0 .. o.ne01 - 1)
Rows == RowsOf(op)

NoOp == [ne01 |-> 0, ne02 |-> 1, n_tok |-> 1, n_q_heads |-> 0]
Idle ==
    /\ op = NoOp
    /\ chunk = 0 /\ walking = FALSE
    /\ iir1 = 0 /\ iir0 = 0 /\ ir1 = 0 /\ ir0 = 0
    /\ visits = [r \in Rows |-> 0]

Start(o) ==
    /\ op' = o
    /\ chunk' = 0 /\ walking' = FALSE
    /\ iir1' = 0 /\ iir0' = 0 /\ ir1' = 0 /\ ir0' = 0
    /\ visits' = [r \in RowsOf(o) |-> 0]

HasChunk == chunk < nchunk0 * nchunk1
Empty == ir0_start >= ir0_end \/ ir1_start >= ir1_end

(* With one thread no chunk comes out empty; the code passes over one anyway. *)
EnterChunk ==
    /\ ~walking /\ HasChunk
    /\ IF Empty
       THEN /\ chunk' = chunk + 1
            /\ UNCHANGED <<iir1, iir0, ir1, ir0, walking>>
       ELSE /\ walking' = TRUE
            /\ iir1' = ir1_start /\ ir1' = ir1_start
            /\ iir0' = ir0_start /\ ir0' = ir0_start
            /\ UNCHANGED chunk
    /\ UNCHANGED <<op, visits>>

(* Where the loops go after the row <<ir1, ir0>>.                             *)
NextIr0 ==
    /\ ir0' = ir0 + 1
    /\ UNCHANGED <<chunk, iir1, iir0, ir1, walking>>

\* Mutation: ir0 does not return to the start of its tile.
NextIr1_NoReset ==
    /\ ir1' = ir1 + 1
    /\ UNCHANGED <<chunk, iir1, iir0, ir0, walking>>
NextIr1 ==
    /\ ir1' = ir1 + 1 /\ ir0' = iir0
    /\ UNCHANGED <<chunk, iir1, iir0, walking>>

NextTile0 ==
    /\ iir0' = iir0 + Blck /\ ir0' = iir0 + Blck /\ ir1' = iir1
    /\ UNCHANGED <<chunk, iir1, walking>>

NextTile1 ==
    /\ iir1' = iir1 + Blck /\ ir1' = iir1 + Blck
    /\ iir0' = ir0_start /\ ir0' = ir0_start
    /\ UNCHANGED <<chunk, walking>>

LeaveChunk ==
    /\ walking' = FALSE /\ chunk' = chunk + 1
    /\ UNCHANGED <<iir1, iir0, ir1, ir0>>

EmitRow ==
    /\ walking
    /\ visits' = [visits EXCEPT ![<<ir1, ir0>>] = @ + 1]
    /\ UNCHANGED op
    /\ IF ir0 + 1 < tile0_end THEN NextIr0
       ELSE IF ir1 + 1 < tile1_end THEN NextIr1
       ELSE IF iir0 + Blck < ir0_end THEN NextTile0
       ELSE IF iir1 + Blck < ir1_end THEN NextTile1
       ELSE LeaveChunk

Finished == ~walking /\ ~HasChunk

\* The KV head whose row a visit reads.
i02(h1) == ((h1 % (op.n_q_heads * op.n_tok)) \div op.n_tok) \div r2

-------------------------------------------------------------------------------
(* The chunks and tiles partition the product of heads and rows: nothing is   *)
(* read twice while walking, and nothing is left out at the end.              *)
EachRowOnce ==
    \A r \in Rows : visits[r] <= 1 /\ (Finished => visits[r] = 1)

(* Within a chunk the tiles come in order, and in a tile every row of the     *)
(* tile is read for one query head before the next: nothing of a later tile   *)
(* or head has been read when a row of an earlier one is.                     *)
Pos(h1, row) == <<(h1 - ir1_start) \div Blck, (row - ir0_start) \div Blck,
                  h1, row>>
Earlier(p, q) == \E k \in 1 .. 4 : p[k] < q[k] /\ \A m \in 1 .. k - 1 : p[m] = q[m]

TileOrder ==
    walking => \A h1 \in ir1_start .. ir1_end - 1, row \in ir0_start .. ir0_end - 1 :
        visits[<<h1, row>>] > 0 <=> Earlier(Pos(h1, row), Pos(ir1, ir0))

===============================================================================
