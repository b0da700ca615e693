------------------------------ MODULE PassExpand ------------------------------
(* gen/expand_kv_log.py from the selected decode passes (KvLogExpand) to the  *)
(* lines of the per-core traces: the operations are expanded one after the    *)
(* other into one serial stream of cache lines, mul_mats by MulMatExpand and  *)
(* set_rows by SetRowsExpand, and the stream is copied for every core into a  *)
(* region of its own.                                                         *)
EXTENDS Integers, Sequences, FiniteSets, FiniteSetsExt

CONSTANTS
    SmallChunk, BigChunk, Blck,     \* see MulMatExpand
    CACHE_LINE,                     \* 64
    Page,                           \* what a region is a multiple of: 1 MiB
    base, cores,                    \* --base and --cores
    compute_read, compute_store,    \* --compute-read and --compute-store
    Runs        \* the operations of a run's passes: a mul_mat is [tag, kv,
                \* layer, pass, data, row_bytes, nb01, nb02, ne01, ne02, n_tok,
                \* n_q_heads], a set_rows [tag, kv, layer, pass, data,
                \* row_bytes, nb1, idxs], its rows included (SetRowsExpand)

VARIABLES
    ops, at,                        \* the run's operations, the current one
    pc,                             \* "expand", "done", "failed"
    accesses,                       \* the stream: [compute, line, write]
    starts,                         \* where each operation's part begins
    traces,                         \* per core, the lines of its trace
    op, chunk, iir1, iir0, ir1, ir0, walking, visits,   \* expand_mm
    rows, status, out                                   \* expand_sr

M == INSTANCE MulMatExpand
S == INSTANCE SetRowsExpand

mm == <<op, chunk, iir1, iir0, ir1, ir0, walking, visits>>
sr == <<rows, status, out>>
vars == <<ops, at, pc, accesses, starts, traces, mm, sr>>

ASSUME PassAssumption ==
    /\ SmallChunk \in Nat \ {0} /\ BigChunk \in Nat \ {0} /\ Blck \in Nat \ {0}
    /\ CACHE_LINE \in Nat \ {0} /\ Page \in Nat \ {0} /\ Page % CACHE_LINE = 0
    /\ base \in Nat /\ base % CACHE_LINE = 0 /\ cores \in Nat
    /\ \A r \in Runs : r # <<>> /\ r \in Seq({r[i] : i \in DOMAIN r})
    /\ \A r \in Runs : \A i \in DOMAIN r :
        /\ r[i].tag \in {"MM", "SR"}
        /\ r[i].data \in Nat /\ r[i].row_bytes \in Nat \ {0}
        /\ r[i].tag = "MM" =>
            M!IsMulMat(r[i]) /\ r[i].nb01 \in Nat /\ r[i].nb02 \in Nat
        /\ r[i].tag = "SR" =>
            r[i].idxs \in Seq(Nat) \ {<<>>} /\ r[i].nb1 \in Nat

Init ==
    /\ ops \in Runs /\ at = 0 /\ pc = "expand"
    /\ accesses = <<>> /\ starts = <<>> /\ traces = <<>>
    /\ M!Idle /\ S!Idle

Current == ops[at]
Is(tag) == pc = "expand" /\ at > 0 /\ Current.tag = tag
OpDone == at = 0 \/ (Is("MM") /\ M!Finished) \/ (Is("SR") /\ status = "done")

NextOp ==
    /\ pc = "expand" /\ OpDone /\ at < Len(ops)
    /\ at' = at + 1
    /\ starts' = Append(starts, Len(accesses))
    /\ IF ops[at + 1].tag = "MM"
       THEN M!Start(ops[at + 1]) /\ UNCHANGED sr
       ELSE S!Start(ops[at + 1].idxs) /\ UNCHANGED mm
    /\ UNCHANGED <<ops, pc, accesses, traces>>

LineOf(byte) == byte - (byte % CACHE_LINE)

\* Mutation: as many lines as the row is long, wherever it begins.
emit_row_Length(addr, length, compute, write) ==
    [n \in 1 .. M!ceil_div(length, CACHE_LINE) |->
        [compute |-> compute, line |-> LineOf(addr) + (n - 1) * CACHE_LINE,
         write |-> write]]
emit_row(addr, length, compute, write) ==
    [n \in 1 .. (LineOf(addr + length - 1) - LineOf(addr)) \div CACHE_LINE + 1 |->
        [compute |-> compute, line |-> LineOf(addr) + (n - 1) * CACHE_LINE,
         write |-> write]]

row_addr == Current.data + M!i02(ir1) * Current.nb02 + ir0 * Current.nb01

expand_mm ==
    /\ Is("MM")
    /\ \/ M!EnterChunk /\ UNCHANGED accesses
       \/ /\ M!EmitRow
          /\ accesses' = accesses \o emit_row(row_addr, Current.row_bytes,
                                              compute_read, FALSE)
    /\ UNCHANGED <<ops, at, pc, starts, traces, sr>>

expand_sr ==
    /\ Is("SR")
    /\ \/ (S!Check \/ S!Finish) /\ UNCHANGED accesses
       \/ /\ S!EmitRow
          /\ accesses' = accesses \o
                emit_row(Current.data + out'[Len(out')] * Current.nb1,
                         Current.row_bytes, compute_store, TRUE)
    /\ UNCHANGED <<ops, at, pc, starts, traces, mm>>

(* A set_rows whose indices are not regular ends the run, before any file.    *)
Reject ==
    /\ Is("SR") /\ status = "rejected"
    /\ pc' = "failed"
    /\ UNCHANGED <<ops, at, accesses, starts, traces, mm, sr>>

Lines == {accesses[i].line : i \in DOMAIN accesses}
lo == Min(Lines)
\* Mutation: the span ends where its last line begins.
span_ToLastLine == Max(Lines) - lo
span == Max(Lines) + CACHE_LINE - lo
region == M!ceil_div(span, Page) * Page

delta(core) == base + core * region - lo

(* The traces of all cores, one after the other.                              *)
Rebase ==
    /\ pc = "expand" /\ OpDone /\ at = Len(ops)
    /\ pc' = "done"
    /\ traces' = [core \in 0 .. cores - 1 |->
                    [i \in DOMAIN accesses |->
                        [accesses[i] EXCEPT !.line = @ + delta(core)]]]
    /\ UNCHANGED <<ops, at, accesses, starts, mm, sr>>

Stopped == pc \in {"done", "failed"} /\ UNCHANGED vars

Next == NextOp \/ expand_mm \/ expand_sr \/ Reject \/ Rebase \/ Stopped

Spec == Init /\ [][Next]_vars

-------------------------------------------------------------------------------
(* The properties of the two walks, of every operation of a run.              *)

(* The chunks and tiles of expand_mm partition the product of query heads and *)
(* rows, whatever the shape: see MulMatExpand.                                *)
EachRowOnce == Is("MM") => M!EachRowOnce

(* The order of llama.cpp's blocked mul_mat, within a chunk: see MulMatExpand.*)
TileOrder == Is("MM") => M!TileOrder

(* expand_sr writes what set_rows wrote or refuses: see SetRowsExpand.        *)
ExpansionExact == S!ExpansionExact

(* The rows of a view by KV head and position, and the lines with a byte of   *)
(* one: what a read of it touches, however its rows lie in lines.             *)
ViewRows(o) == (0 .. o.ne02 - 1) \X (0 .. o.ne01 - 1)
RowAt(o, row) == o.data + row[1] * o.nb02 + row[2] * o.nb01
RowLines(addr, length) == {LineOf(addr + b) : b \in 0 .. length - 1}
ViewLines(o) == UNION {RowLines(RowAt(o, row), o.row_bytes) : row \in ViewRows(o)}
RowsOn(o, line) == {row \in ViewRows(o) : line \in RowLines(RowAt(o, row), o.row_bytes)}

Part(n) ==
    starts[n] + 1 .. IF n = Len(starts) THEN Len(accesses) ELSE starts[n + 1]
PartOf(n) == {accesses[i].line : i \in Part(n)}

(* A mul_mat reads the lines of its view and no other, each once per query    *)
(* head of the KV head's group for every row that has a byte in it.  Where    *)
(* rows keep to lines of their own, the compute of a line so adds up to the   *)
(* group's, which is what one synthetic line carries                          *)
(* (expand_kv_log.py:30-33, "Total compute matches").                         *)
ComputeMatches ==
    Is("MM") /\ M!Finished =>
        LET group == Current.n_q_heads \div Current.ne02 IN
        /\ PartOf(at) = ViewLines(Current)
        /\ \A i \in Part(at) : accesses[i].compute = compute_read
        /\ \A line \in ViewLines(Current) :
            Cardinality({i \in Part(at) : accesses[i].line = line})
              = group * Current.n_tok * Cardinality(RowsOn(Current, line))

(* The rows a set_rows stores, where the log determines them (SetRowsExpand), *)
(* hold nothing that a mul_mat's view does not.                               *)
Determined(list) ==
    Len(list) <= 5 \/ \A i \in 1 .. Len(list) - 1 : list[i + 1] - list[i] = list[2] - list[1]
StoredIn(o, m) ==
    /\ Determined(o.idxs)
    /\ \A i \in DOMAIN o.idxs, b \in 0 .. o.row_bytes - 1 :
        \E row \in ViewRows(m), c \in 0 .. m.row_bytes - 1 :
            o.data + o.idxs[i] * o.nb1 + b = RowAt(m, row) + c

(* What is stored in a view is read with it: if the set_rows of a run wrote   *)
(* into what one of its mul_mats reads, every line the expander stores is     *)
(* among those it reads, so the entry of the new token takes part in its own  *)
(* attention, K stored row by row and V element by element into the           *)
(* transposed cache, aligned to lines or not.                                 *)
NewEntriesRead ==
    pc = "done" =>
        \A n \in DOMAIN ops, m \in DOMAIN ops :
            ops[n].tag = "SR" /\ ops[m].tag = "MM" /\ StoredIn(ops[n], ops[m])
              => PartOf(n) \subseteq PartOf(m)

(* Each core's lines, whole and aligned, stay in its own region: copies never *)
(* share a line, whatever the span is.                                        *)
CopiesApart ==
    pc = "done" =>
        \A core \in DOMAIN traces : \A i \in DOMAIN traces[core] :
            /\ traces[core][i].line >= base + core * region
            /\ traces[core][i].line + CACHE_LINE <= base + (core + 1) * region
            /\ traces[core][i].line % CACHE_LINE = 0
===============================================================================
