------------------------------ MODULE KvTraceGen ------------------------------
(* gen/gen_kv_decode_trace.py as a state machine: one action per trace line,  *)
(* the program counter being the nest of for loops of main() and of           *)
(* stream_attention_reads().                                                  *)
EXTENDS KvShape, FiniteSets

CONSTANT Configs        \* the command lines the program is started with

ASSUME ConfigsAssumption == Configs \subseteq Args

VARIABLES
    args,
    token, layer,               \* the outer loops of main()
    phase,                      \* "append", "K", "V" or "done"
    batch, head, dim_line,      \* loops shared by the append and the streams
    blk_start, rep, seq,        \* loops of stream_attention_reads only
    estimated_insts, trace_lines,
    (* what has been written to the trace file *)
    appended,                   \* <<layer, cell>> written by write-allocates
    reads                       \* per stream, how often each cell was read
                                \* since the stream was last entered

vars == <<args, token, layer, phase, batch, head, dim_line, blk_start, rep,
          seq, estimated_insts, trace_lines, appended, reads>>

current_seq == args.context_len + token
\* Mutation: the token being decoded is left out of its own streams.
n_seq_Short == current_seq
n_seq == current_seq + 1

(* The naive branch is the reread loop nest with a single block that holds    *)
(* the whole sequence and a single sweep of it.                               *)
reread == args.gqa_emission = "reread"
blk == IF reread THEN args.reread_block_positions ELSE n_seq
passes == IF reread THEN group_size(args) ELSE 1
\* Mutation: naive mode does not amortise the group's compute.
compute_of_Unscaled(S) == ComputePerLine(args, S)
compute_of(S) == IF reread THEN ComputePerLine(args, S)
                           ELSE ComputePerLine(args, S) * group_size(args)
blk_end == IF blk_start + blk < n_seq THEN blk_start + blk ELSE n_seq

NoReads == [c \in Cells(args) |-> 0]

Init ==
    /\ args \in {a \in Configs : validate_args(a)}
    /\ token = 0 /\ layer = 0 /\ phase = "append"
    /\ batch = 0 /\ head = 0 /\ dim_line = 0
    /\ blk_start = 0 /\ rep = 0 /\ seq = 0
    /\ estimated_insts = 0 /\ trace_lines = 0
    /\ appended = {}
    /\ reads = [S \in Streams |-> [c \in Cells(args) |-> 0]]

(* Loop exits, innermost first: this line is the last one of its loop.        *)
LastLine == dim_line + 1 = dim_lines(args)
LastSeq == LastLine /\ seq + 1 = blk_end
\* Mutation: one sweep whatever the group size.
LastRep_OneSweep == LastSeq
LastRep == LastSeq /\ rep + 1 = passes
LastBlock == LastRep /\ blk_start + blk >= n_seq
\* Mutation: the batch loop is forgotten.
LastHead_NoBatch == head + 1 = args.num_kv_heads
LastHead == batch + 1 = args.batch /\ head + 1 = args.num_kv_heads

(* The next head of this batch, else the first head of the next batch.        *)
NextHead ==
    IF head + 1 < args.num_kv_heads
    THEN head' = head + 1 /\ batch' = batch
    ELSE head' = 0 /\ batch' = batch + 1

------------------------------------------------------------------------------
\* Mutation: current_seq computed once, before the token loop.
AppendCell_Stale == <<layer, <<batch, head, args.context_len, dim_line>>>>
AppendCell == <<layer, <<batch, head, current_seq, dim_line>>>>

(* Two write-allocate lines, one in K and one in V.                           *)
Append ==
    /\ phase = "append"
    /\ appended' = appended \cup {AppendCell}
    /\ estimated_insts' = estimated_insts
                             + 2 * (args.compute_per_store_line + 1)
    /\ trace_lines' = trace_lines + 2
    /\ \/ /\ ~LastLine
          /\ dim_line' = dim_line + 1
          /\ UNCHANGED <<phase, batch, head, reads>>
       \/ /\ LastLine /\ ~LastHead
          /\ dim_line' = 0 /\ NextHead
          /\ UNCHANGED <<phase, reads>>
       \/ /\ LastLine /\ LastHead
          /\ dim_line' = 0 /\ head' = 0 /\ batch' = 0
          /\ phase' = "K"
          /\ reads' = [reads EXCEPT !["K"] = NoReads]
    /\ UNCHANGED <<args, token, layer, blk_start, rep, seq>>

(* One step of the loop nest of stream_attention_reads that stays inside it.  *)
NextLine ==
    /\ ~LastLine
    /\ dim_line' = dim_line + 1
    /\ UNCHANGED <<batch, head, blk_start, rep, seq>>

NextPosition ==
    /\ LastLine /\ ~LastSeq
    /\ dim_line' = 0 /\ seq' = seq + 1
    /\ UNCHANGED <<batch, head, blk_start, rep>>

\* Mutation: a sweep restarts at the head of the sequence, not of its block.
NextSweep_FromZero ==
    /\ LastSeq /\ ~LastRep
    /\ dim_line' = 0 /\ seq' = 0 /\ rep' = rep + 1
    /\ UNCHANGED <<batch, head, blk_start>>

NextSweep ==
    /\ LastSeq /\ ~LastRep
    /\ dim_line' = 0 /\ seq' = blk_start /\ rep' = rep + 1
    /\ UNCHANGED <<batch, head, blk_start>>

NextBlock ==
    /\ LastRep /\ ~LastBlock
    /\ dim_line' = 0 /\ rep' = 0
    /\ blk_start' = blk_start + blk /\ seq' = blk_start + blk
    /\ UNCHANGED <<batch, head>>

NextStreamHead ==
    /\ LastBlock /\ ~LastHead
    /\ dim_line' = 0 /\ rep' = 0 /\ blk_start' = 0 /\ seq' = 0
    /\ NextHead

EndOfStream ==
    /\ LastBlock /\ LastHead
    /\ dim_line' = 0 /\ rep' = 0 /\ blk_start' = 0 /\ seq' = 0
    /\ head' = 0 /\ batch' = 0

(* The layer loop inside the token loop of main().                            *)
NextLayer ==
    \/ /\ layer + 1 < args.num_layers
       /\ layer' = layer + 1 /\ token' = token /\ phase' = "append"
    \/ /\ layer + 1 = args.num_layers /\ token + 1 < args.decode_tokens
       /\ layer' = 0 /\ token' = token + 1 /\ phase' = "append"
    \/ /\ layer + 1 = args.num_layers /\ token + 1 = args.decode_tokens
       /\ phase' = "done"
       /\ UNCHANGED <<layer, token>>

(* One line of a stream.                                                      *)
Read(S) ==
    /\ phase = S
    /\ estimated_insts' = estimated_insts + compute_of(S) + 1
    /\ trace_lines' = trace_lines + 1
    /\ LET counted == [reads[S] EXCEPT ![<<batch, head, seq, dim_line>>] = @ + 1]
       IN \/ /\ NextLine \/ NextPosition \/ NextSweep \/ NextBlock
                \/ NextStreamHead
             /\ reads' = [reads EXCEPT ![S] = counted]
             /\ UNCHANGED <<token, layer, phase>>
          \/ /\ EndOfStream /\ S = "K"
             /\ phase' = "V"
             /\ reads' = [reads EXCEPT !["K"] = counted, !["V"] = NoReads]
             /\ UNCHANGED <<token, layer>>
          \/ /\ EndOfStream /\ S = "V"
             /\ NextLayer
             /\ reads' = [reads EXCEPT !["V"] = counted]
    /\ UNCHANGED <<args, appended>>

ReadK == Read("K")
ReadV == Read("V")

\* The with-block closes the file; the program prints its totals and exits.
Done == phase = "done" /\ UNCHANGED vars

Next == Append \/ ReadK \/ ReadV \/ Done

Spec == Init /\ [][Next]_vars

------------------------------------------------------------------------------
TypeOK ==
    /\ args \in Configs /\ validate_args(args)
    /\ token \in 0 .. args.decode_tokens - 1
    /\ layer \in 0 .. args.num_layers - 1
    /\ phase \in {"append", "K", "V", "done"}
    /\ batch \in 0 .. args.batch - 1
    /\ head \in 0 .. args.num_kv_heads - 1
    /\ dim_line \in 0 .. dim_lines(args) - 1
    /\ blk_start \in 0 .. current_seq
    /\ rep \in 0 .. passes - 1
    /\ seq \in blk_start .. blk_end - 1
    /\ phase \notin Streams => blk_start = 0 /\ rep = 0 /\ seq = 0
    /\ estimated_insts \in Nat /\ trace_lines \in Nat
    /\ appended \subseteq (0 .. args.num_layers - 1) \X Cells(args)
    /\ reads \in [Streams -> [Cells(args) -> Nat]]

(* The position of the loops in the order the streams walk the cells.         *)
Before(b, h) == b < batch \/ (b = batch /\ h < head)
SweptBefore(s, d) == s < seq \/ (s = seq /\ d < dim_line)

(* How often the current stream has read a cell, from the loop indices alone: *)
(* finished heads and finished blocks have had every sweep, the current block *)
(* has had the finished sweeps and the swept part of this one, and nothing    *)
(* ahead of the loops has been touched.                                       *)
ReadSoFar(c) ==
    LET here == c[1] = batch /\ c[2] = head IN
    IF c[3] > current_seq THEN 0
    ELSE IF Before(c[1], c[2]) \/ (here /\ c[3] < blk_start) THEN passes
    ELSE IF here /\ c[3] < blk_end
         THEN IF SweptBefore(c[3], c[4]) THEN rep + 1 ELSE rep
         ELSE 0

(* Sweeping the sequence block by block loses and repeats nothing: however    *)
(* the block length divides the sequence, at every point the stream has read  *)
(* exactly the cells behind its loop indices, each the right number of times  *)
(* (stream_attention_reads).                                                  *)
StreamPrefix ==
    \A S \in Streams : phase = S =>
        \A c \in Cells(args) : reads[S][c] = ReadSoFar(c)

(* A stream is left only when every position up to the current one, in every  *)
(* batch and head, has been read once per query head sharing it (once in      *)
(* naive mode), and no position beyond it has been read at all: "stream all   *)
(* previous K cache lines", then all V.                                       *)
StreamsComplete ==
    [][\A S \in Streams : phase = S /\ phase' # S =>
         \A c \in Cells(args) :
            reads'[S][c] = IF c[3] <= current_seq THEN passes ELSE 0]_vars

(* Which rows have been appended, from the loop indices alone.                *)
AppendedSoFar(l, c) ==
    /\ args.context_len <= c[3]
    /\ \/ c[3] < current_seq
       \/ c[3] = current_seq /\ l < layer
       \/ /\ c[3] = current_seq /\ l = layer
          /\ \/ phase # "append"
             \/ Before(c[1], c[2])
             \/ c[1] = batch /\ c[2] = head /\ c[4] < dim_line

(* Each decoded token appends its own row to every layer, batch and head, and *)
(* no other: the write-allocates never touch the prefilled context or a later *)
(* position, and no line of an earlier token's row is missing (the write loop *)
(* of main()).                                                                *)
AppendedPrefix ==
    appended = {p \in (0 .. args.num_layers - 1) \X Cells(args) :
                    AppendedSoFar(p[1], p[2])}

(* No stream reads a position the cache does not hold yet: the position is    *)
(* part of the prefilled context or its row was appended, for this layer,     *)
(* before the stream began (the order of the three blocks of main()).         *)
ReadsOnlyCached ==
    \A S \in Streams, c \in Cells(args) :
        phase = S /\ reads[S][c] > 0 =>
            c[3] < args.context_len \/ <<layer, c>> \in appended

\* The cells the next trace lines are about, per stream.
Pending ==
    CASE phase = "append" -> Streams \X {<<batch, head, current_seq, dim_line>>}
      [] phase \in Streams -> {<<phase, <<batch, head, seq, dim_line>>>>}
      [] phase = "done" -> {}

(* Every emitted address lies inside the tensor it is meant for, whatever the *)
(* layout: the row index of kv_addr never reaches into the other tensor or    *)
(* past the footprint tensor_bytes() reports and the sweeps reserve.          *)
AddressesInTensor ==
    \A p \in Pending :
        LET base == BaseOf(args, p[1])
            addr == CellAddr(args, base, layer, p[2])
        IN  base <= addr /\ addr < base + tensor_bytes(args)

RowsAreLines ==
    /\ row_bytes(args) % CacheLine = 0 /\ CacheLine % args.dtype_bytes = 0
    /\ args.base_k % CacheLine = 0 /\ args.base_v % CacheLine = 0
    /\ args.base_k + tensor_bytes(args) <= args.base_v

(* Two different rows never share a cache line when rows are whole lines, in  *)
(* either layout: a line the cache model sees twice is a re-read of one row,  *)
(* so the distinct lines of a layer's streams are as many as its cells.       *)
LinesNotShared ==
    RowsAreLines =>
        LET touched == {p \in Streams \X (0 .. layer) \X Cells(args) :
                            p[2] = layer => reads[p[1]][p[3]] > 0}
            line(p) == LineOf(CellAddr(args, BaseOf(args, p[1]), p[2], p[3]))
        IN  Cardinality({line(p) : p \in touched}) = Cardinality(touched)

(* Every line that holds bytes of a position the stream covers has been read  *)
(* when the stream is left: "Stream all previous K cache lines" and "number   *)
(* of cache lines one head's vector occupies".                                *)
RowsFullyRead ==
    [][\A S \in Streams : phase = S /\ phase' # S =>
         LET base == BaseOf(args, S)
             lines == {LineOf(CellAddr(args, base, layer, c)) :
                          c \in {d \in Cells(args) : reads'[S][d] > 0}}
         IN  \A c \in Cells(args) :
                c[3] <= current_seq => RowLines(args, base, layer, c) \subseteq lines]_vars

(* What is printed as "estimated retired instructions for one pass" has the   *)
(* closed form the sweeps size their simulations by: it does not depend on    *)
(* the block length, the layout or the base addresses, so all cores of a      *)
(* concurrent run retire the same number (generate_traces relies on it).      *)
InstsClosedForm ==
    phase = "done" =>
        LET t == args.decode_tokens
            positions == t * (args.context_len + 1) + (t * (t - 1)) \div 2
            per_position == passes * (compute_of("K") + compute_of("V") + 2)
            per_token == 2 * (args.compute_per_store_line + 1)
        IN  estimated_insts =
              args.num_layers * args.batch * args.num_kv_heads * dim_lines(args)
                * (positions * per_position + t * per_token)

------------------------------------------------------------------------------
(* The generator, in both emission modes and for every block length, is an    *)
(* implementation of the abstract decode step: same lines, same total compute *)
(* per line, appends before reads, K before V.                                *)
WorkDone == [S \in Streams |-> [c \in Cells(args) |-> reads[S][c] * compute_of(S)]]

Attention ==
    INSTANCE DecodeAttention WITH
        stage <- phase, cached <- appended, work <- WorkDone

ImplementsAttention == Attention!Spec
==============================================================================
