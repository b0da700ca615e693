# Verification of the KV-cache memory study

This directory holds TLA+ models of the programs in `src/` that generate
KV-cache traces, place cores in memory, drive the simulator and collect its
results, the TLC runs that check them on small instances, and the theorems that
TLAPS proves of them for every instance. Paths below are relative to `src/`.

## The system

The study simulates the DRAM traffic of LLM decoding. Its value rests on the
traces being what they claim to be, on the cores of a concurrent run not
sharing memory by accident, and on the rows of a results file belonging to the
points they name. The simulator itself (Ramulator 2.1, a submodule) and the
instrumented llama.cpp (another) are external.

| part | state it keeps | operations | interacts with |
|---|---|---|---|
| `gen/gen_kv_decode_trace.py` | loop indices, instruction and line totals, the trace file | append the new K/V rows, stream K, stream V, per token and layer | called as a subprocess by two sweeps, which read its printed instruction count |
| `run/run_kv_core_batch_sweep.py`: placement | layout, traces generated so far, instruction count | lay out regions, generate one trace per core, check | the generator; the simulator's address wrap |
| `run/run_*_sweep.py`: grid and results | grid position, rows in memory, the CSV | skip or measure a point, rewrite the CSV | placement, `ram21.py`, later invocations through the CSV |
| `sim_constants.py`, `run/ram21.py`: LLC ways | ways | `llc_auto_assoc`, `build_sim` | the simulator's LLC |
| `run/ram21.py`, `parse_stats`, `summarize` | nested stats, flat dictionary, text, arrays, row | flatten, write, parse, aggregate, report | a `.stats` file between the two halves |
| `analysis/compare_stats.py` | dictionaries of the `.stats` files | parse, sum per channel, compare | the same `.stats` files, read its own way |
| `gen/expand_kv_log.py` | log, passes, access list, trace files, `meta.json` | split, select, validate, expand, write | the capture log; the real-trace sweep through its files |
| `run/run_real_trace_sweep.py` | `meta.json` as read, grid, rows | check the traces, measure point by point | the expander's traces and `meta.json`, which either program may meet half written |
| `analysis/make_report_figures.py`, `configs/`, `gen/make_random_llama31_8b_gguf.py` | none that others read | plots, one standalone run, a model file | not modelled |

What makes each part correct: the streams cover every cached position and
nothing else; no two cores share a line; the ways leave a power of two of sets;
a row in a results file is that of the point it names and is not lost; an
expanded pass reads and writes what llama.cpp did; `meta.json` is about the
traces beside it; a metric is the simulator's number of that channel and core.

What is hard here is seldom concurrency inside one process: it is

* loop nests with ragged boundaries whose errors leave plausible totals (the
  block sweep, the mul_mat walk, the row reconstruction);
* address arithmetic that meets a silent modulus (`MAX_ADDR`, the LLC index);
* files that outlive the process that writes them (the CSV, the trace files and
  `meta.json`), rewritten in place by programs that may be killed, and read by
  others that nothing keeps apart;
* text between two programs (statistics with gaps, a log that stops anywhere).

`PROJECT.json` lists each as a hazard at its line, with the properties that
would catch it.

## Modules

```
KvShape ──── DecodeAttention            (abstract decode step)
   │               ▲ implements
   └──── KvTraceGen ┘ ── MCKvTraceGen
             └ KvTraceGenProofs
CoreLayout ── MCCoreLayout, CoreLayoutProofs
LlcAssoc ── SharedLlc ── MCSharedLlc, LlcAssocProofs
ResultStore                             (abstract results file)
   ▲ implements
SweepResults ── MCSweepResults
   └ SweepResultsProofs
Picking                                 (list comprehensions)
   ├ KvLogExpand ── MCKvLogExpand, KvLogExpandProofs
   └ SetRowsExpand ┐
MulMatExpand ──────┴ PassExpand ── MCPassExpand, PassExpandProofs
RealSweep ── MCRealSweep, RealSweepProofs
CompareStats ── StatsPipeline ── MCStatsPipeline, StatsPipelineProofs
```

**KvShape** is the pure part of the generator: the accepted command lines
(`validate_args`) and the address arithmetic (`kv_addr`, `tensor_bytes`). A
cache line is the quotient of an address, which is what `align_down` keeps.

**KvTraceGen** is the generator. Every action emits a trace line (`Append` the
two lines of a store pair) and moves the loop indices as Python's nested `for`s
would: `LastLine`, `LastSeq`, `LastRep`, `LastBlock` and `LastHead` say which
loops end here, and `NextPosition`, `NextSweep`, `NextBlock`, `NextStreamHead`,
`EndOfStream` where control goes. The naive branch is the same nest with one
block and one sweep. `appended` and `reads` observe what has been written to
the file; they appear in no guard.

**DecodeAttention** is what any emission mode promises: per token and layer the
new row is appended, then K, then V streamed, and a stream ends when every line
of every position up to the current one has received the compute of its whole
query-head group, in any order and in any portions. `KvTraceGen` implements it
with `stage <- phase, cached <- appended, work <- WorkDone`, the compute being
the number of reads times the compute attached to each.

**CoreLayout** places cores for the three programs that do so: the batch sweep
(`layout_for`, with its checks), the compute sweep and the expander (without).
A request carries the size in lines and the instruction count of the
generator's trace; the former is what `AddressesInTensor` bounds, the latter is
one number for all cores because of `InstsClosedForm`. `PhysLine` is the
external wrap modulo `MAX_ADDR`.

**LlcAssoc** and **SharedLlc** choose the ways and look lines up as
`ram21.py:123-128` says the simulator does: the index is the line masked with
`set_size - 1`, here the set of bits both have (a mask as a number would need bit
operations, which the prover does not know), and the tag is the line divided by the
greatest power of two in the set count (`TagUnit`), which is the shift by
`floor(log2)`.

**SweepResults** is the results file over several invocations. `OpenCsv` and
`CloseCsv` are the two ends of `write_csv`; between them `CutCsv` leaves any
prefix of the rows, with a row cut before its key is complete, inside its
digits, or inside its metrics. `Die` ends an invocation anywhere else (an
exception, `sys.exit(1)`, a kill). `resumes` tells the compute sweep, which
loads and skips, from the two that start with no rows. Each row carries the
invocation that measured it, which stands for the options no column records.

**ResultStore** is what a reader of that file is promised: a map from points to
measurements, published one at a time. A merging store never replaces what it
holds; a fresh one keeps what the session before published until the session
now running publishes its first result; after a cut nothing is promised.
`SweepResults` implements it with `store <- Measured(csv)`, or of the rows in
memory while the file is open: the moment of publication is `OpenCsv`, at which
the new row, and in a fresh sweep the disappearance of the old file, become
what a completed rewrite will show. `mine` are the points this invocation has
published and `damaged` is `cut`.

**KvLogExpand** takes the expander from a log, whose capture (`LogOp`,
`EndCapture`, external) may be stopped at any operation or inside the line of
one, to the decode passes it expands: parsing, splitting, selection, `--passes`,
validation.

**Picking** is Python's `[x for x in s if ...]` as a function of the positions it
keeps: the elements at the least, second least, ... of them.

**PassExpand** takes those passes to the lines of the per-core traces. It runs
the operations one after the other, mul_mats by **MulMatExpand** and set_rows by
**SetRowsExpand** (both instantiated, one action per row), appends the cache lines
of each row to one serial stream, and copies the stream for every core into a
region of its own.

**RealSweep** has the files between the expander and the real-trace sweep, as two
processes: the expander opens one trace per core, which empties what was there, writes
its passes and closes it, and then writes `meta.json`, over those of earlier runs; the
sweep reads `meta.json`, checks that the traces it names exist, and then reads them
point by point. Either may die at any step, and each may start while the other runs.
A trace is the stream it is of and the whole passes on disk, so a cut or unfinished file
holds fewer than its name says. The name carries the core and the number of passes
of the run and not the rest of its options, which is `stream`. Two sets only observe,
and appear in no guard: `opened` (the traces opened since a run last completed
`meta.json`) and `replaced` (those opened since the completion of the `meta.json` this
sweep has read). What either property says of a trace it says by core and options
(`Copy`), not by file name, so a name that several runs share does not hide anything.

**StatsPipeline** carries a finished simulation's numbers through flattening,
text and regular expressions to a row of metrics, and to whether the sweep then
goes on (`Report`); a number is an integer, a float or a NaN, because that decides
which expression matches. `StatsAssumption` says what a simulation's statistics are:
a dictionary per channel in which any of the keys may be missing, per-core counters
indexed from 0 without gaps, no channel key that is also one of the frontend's or of
the totals'. **CompareStats** is the second reader of the same text: it takes every
line with a number and sums a dictionary per channel. `ReadersAgree` compares what both
compute: sums, totals and active channels, and the mean read latency where one channel is
read, as in all runs of the study (`DDR4_CHANNELS` is 1). Where several are, the
sweeps average the channels' means (`run/run_kv_core_batch_sweep.py:317-319`) and
`compare_stats.py:127` weights them by their reads, under a name that says so: the two
means then differ by definition, and only their terms are compared.

## Runs

| run | question | bounds | states |
|---|---|---|---|
| `kv_trace` | are the streams complete, ordered, cached, inside their tensors, of the stated length? do both modes and every block length implement `DecodeAttention`? | 1-2 layers, batches, KV heads, context positions, tokens (not all 2 at once); 2-4 query heads; rows of 1 or 2 lines; blocks of 1, 2, 3; both modes and layouts | 45,808 |
| `kv_trace_unpadded` | violated: rows that are not whole lines | 3-byte rows, 4-byte lines | |
| `core_layout` | are cores disjoint after the wrap, are checks early and sufficient? | 1-5 cores, 1-3 lines, an address space of 16 lines, five region sizes | 1,890 |
| `core_layout_unchecked` | violated: two programs do not compare with `MAX_ADDR` | as above | |
| `shared_llc` | least ways, no false hits; for which core counts do both loops end? | -6 to 40 cores, 16 lines per core, 640 lines looked up (all that 40 cores' cache holds), ways doubled down to -64 (`WaysBound`) | 507 |
| `sweep_results` | do re-runs of the compute sweep only fill gaps? does either sweep lose a row without a cut, or finish without one? are other options' rows left only where merged? are the whole rows of a merged file distinct and sorted whatever was cut? do both implement `ResultStore`? | 2 programs, 3 invocations, 2 overlapping grids of 3, failures and cuts anywhere | 14,667 |
| `sweep_hard_fail` | violated: a cut rewrite loses rows | 2 invocations | |
| `pass_expand` | is every row read once per head, in tile order? is the reconstruction exact? does the compute per line add up, is what is stored read, do copies stay apart? | mul_mats of 1-9 rows (and 21), 1-6 heads, chunks of 3 and 5, tiles of 2; every list of up to 5 indices below 4, of 6 below 3, and longer regular ones; two passes of two layers over four cache layouts, rows of whole lines and not; 3 cores | 10,302 |
| `kv_log` | are accepted passes decode passes, none lost? | 2 layers, 4 passes cut anywhere, `--passes` absent, 1 and 2 | 19,899 |
| `kv_log_cut` | violated: a pass cut at a layer | 2 passes, all of them taken | |
| `real_sweep` | which traces does `meta.json` describe, and which of a row's traces are those it described, whatever interferes or dies? | 3 runs of the expander, 1 sweep, 4 option sets (2 streams of one name, fewer cores, another number of passes), 2 grids, deaths anywhere, also between two passes of a trace | 386,905 |
| `stats` | does every channel keep its numbers, is a missing runtime noticed, do both readers agree? | 3 channels of 7 kinds (integer and float cycles among them), up to 3 cores, a total that is an integer, a float or missing, 2 programs, `compare_stats.py` at any time after the file is written | 15,320 |

The bounds are chosen so that the boundaries occur. Two of a loop already
separate first, inner and last iterations, and a third value where a remainder
matters: a block length that divides the sequence, one that does not, one that
exceeds it; a last chunk and a last tile that are short; one chunk too few for
the walk to be chunked. The address space of `core_layout` is small enough that
layouts fit exactly, fit with room and overflow by one region. A third
invocation of `sweep_results` can load what a re-run of a cut file wrote, and a
third run of the expander in `real_sweep` can repair what the second left over
the first; one sweep is enough, because a sweep leaves nothing for the next to
find there. The cache layouts of `pass_expand` include one whose span is a whole
number of regions and one whose transposed rows begin inside a line; in all of them a
pass stores into the views that it reads (`PassesStoreFirst`).
Scaled constants (4-byte lines, chunks of 3) stand where the code only
compares, adds and divides; the theorems below are for every value.

**Fairness.** Only two questions are about what must happen, and each has a loop whose
end is not plain from its shape: a placement must end in an answer whichever generator
fails (`Decided`), and the loops of `llc_auto_assoc` must end (`EndsForPositiveCounts`),
which they do for positive core counts and for no other: `--cores` also takes 0 and
less. Both programs are sequential and wait for nothing; `FairSpec` asks for weak
fairness of their own steps and of nothing else. That a `for` over a finite range ends is
not stated as a property.

Where a run states no liveness it uses `Spec`. Termination is a self-loop
(`Done`, `Stopped`, `NoMoreRuns`, and `BeyondBound` where `WaysBound` stops a loop that
Python would go on with), so that deadlock is checked everywhere.

### What the violated runs show

* `kv_trace_unpadded`: "stream all previous K cache lines"
  (`gen/gen_kv_decode_trace.py:8`) does not hold when rows are not whole lines,
  which `validate_args` permits. All shapes of the study have whole lines.
* `core_layout_unchecked`: `sim_constants.py:52` says run scripts hard-fail above
  `MAX_ADDR`; only the batch sweep does.
* `sweep_hard_fail`: "a hard fail mid-sweep keeps all rows"
  (`run/run_kv_core_batch_sweep.py:432-433`) does not hold for a kill or a full
  disk inside the rewrite. For failures outside it `CompletedRowsKept` holds.
* `kv_log_cut`: a capture stopped between two layers yields a decode pass of
  fewer layers (`gen/expand_kv_log.py:23-25` demands complete ones).

Stale comments the runs do not need to refute: `run/run_compute_sweep.py:15-16`,
`run/run_real_trace_sweep.py:48` and `sim_constants.py:59` give 'auto' as "ways =
n_cores", while `llc_auto_assoc` doubles the odd part up to 6 (three cores: 6
ways), which is what `AutoIsMinimal` states.

## Proofs

Constants are arbitrary except for the named assumptions of the modules:
positive sizes, `MaxAddr` a whole number of lines, requests of positive size; a
core's share of the cache a power of two of lines (2 MB in 64 B lines) that is not
below the floor of 6 ways; the operations of a pass of non-negative addresses and
strides, as `int(..., 16)` of the log and ggml's tensors have them, rows of at
least one byte, stores of at least one row at rows not negative, and query heads
that broadcast over the KV heads.

What would be an induction over the length of a sequence or the size of a set is done
by a least counterexample (`LeastNat`, from well-foundedness), which needs no operator
as a parameter: that equal differences make an arithmetic sequence (`Progression`), that
a comprehension keeps the positions it names, each once and in order (`Positions`, from
counting the positions up to a bound), that a fold sums to the same whatever it takes
first (`IterAny`).

**KvTraceGenProofs** begins with the arithmetic: an accepted command line has a positive
extent in every dimension; the row index is below the product of the extents
in both layouts (`NestBound`, `RowBound`) and different cells have different rows
(`NestInjective`, `RowInjective`), so the address of a cell is
inside the tensor although the last line of a row starts at
`dim_line * elems_per_line` and not at a multiple of the line. Where rows are whole
lines, the cells of a row are counted lines, one per line of the row (`CellIsLine`,
`RowHasCells`).

Of the walk, `TypeCorrect` needs more than types: `seq` stays in the
block (`blk_start .. blk_end - 1`), and `blk_start`, `rep` and `seq` are 0 outside
the streams, which is what the next stream starts from. `StreamPrefix` says what
has been read as a function of the loop indices alone and is inductive given
the types: the proof has one step per way control leaves a line, each of which
shows that the function of the new indices counts one more read of the current
cell and nothing else. `StreamsComplete` follows, because the exit is taken at the last
index of every loop, where the function is `passes` for every visible cell.
`AppendedPrefix` has the same form for the stores, `ReadsOnlyCached` combines
the two, and `AddressesInTensor` uses types and the arithmetic. `LinesNotShared`
counts: lines of different rows differ (`LinesDiffer`, from `RowInjective`), so the
lines of a set of rows are as many as the cells that name them. `RowsFullyRead`
puts `StreamsComplete` and `RowHasCells` together. `InstsClosedForm` needs
`InstsInv`, which says what has been retired at every line: whole tokens, whole
layers of this one, and what the stores and streams of this layer have emitted,
counted by the loop indices (`StoreCount`, `ReadCount`); the tokens sum to a
quadratic because each is one position longer than the last (`PositionsStep`).

The refinement (`ImplementsAttention`): `Init` maps to the abstract `Init` and every
step to an abstract one: a read gives its cell `compute_of(S)` more work, which
never exceeds what is owed because it has been read fewer than `passes` times
(`StreamPrefix`), and at the end of a stream all that is owed has been given
(`StreamsComplete`), as `passes * compute_of(S)` is the group's compute in both
modes.

**CoreLayoutProofs.** `LayoutInv` is the inductive invariant: the traces written
carry the layout's bases, and in an accepted layout a region holds a tensor and
the V base is where `VBaseOf` puts it. `KBelowV` and `CoresNeverAlias` follow:
below `MaxAddr` the wrap is the identity on the layout, and two different
regions are at least a tensor of whole lines apart; lines of two tensors at
least a tensor apart never coincide, even at bases that are not aligned.

`ChecksInv` adds what can have stopped a placement (`reason`) and that an accepted layout
has passed the first trace's tests; `ChecksAreRedundant` and `CapStopsEarly` follow.

**SweepResultsProofs.** `SweepInv` says where the lasting rows are: in memory while
the program runs, in the file while it does not write, and the keys to skip are
those in memory. The hard step is the stable sort before the rewrite. Its
definition places row j at the number of rows that precede it plus one;
`Precedes` is a strict total order on the indices: what precedes a row also
precedes every row behind it, so ranks are distinct, they lie in `1 .. Len`, and
a counting argument makes `Rank` a bijection (`RankBijective`): sorting keeps the
keys.
`CompletedRowsKept` and `ReRunsOnlyFillGaps` follow.

`FileInv` is about the rows themselves: between rewrites memory
and file agree, the rows of a merging sweep are one per key and sorted, and a row
carries this invocation's number exactly when it completed it. Sorted output is
in key order because `Rank` respects `Precedes`, and distinct keys make that order
strict. All this is about the whole rows and so outlasts cuts: each damages at most one
row, and a damaged row may repeat the key of a whole one or hold another point's
(`CutDigits`), which the code does not notice. `OneRowPerKey`, `FinishedIsComplete` and
`OlderRowsOnlyLoaded` follow.

The refinement (`ImplementsResultStore`): every step of `SweepResults` is a step of
`ResultStore` or invisible: `OpenCsv` publishes (`StoreInv` has that the rows in memory are those
of the file plus the one just measured), `Start` begins a session, `CutCsv` damages
the store. `Measured` chooses a row per key, which is immaterial where there
is one (`OneEach`) or all are of this invocation (`OneRun`).

**RealSweepProofs.** `FilesInv` says that the traces the expander has closed so far in
this run are whole and its own, that the one it writes is noted as `opened`, and
`MetaDescribesFiles`: a trace that is opened joins `opened` and every other keeps its
place, because names differ where core or number of passes do (`NamesDiffer`); and when
the run completes `meta.json` all it names are closed. `ReadInv` relates what the sweep
was told to what is on disk: a trace that is not in `replaced` is the one the sweep's
`meta.json` described, whoever writes what, and a step of the expander takes one out of
this only by putting it into `replaced` (`ExpandSpares`). `RowsMeasureDescribed` is a
conjunct of it.

**PassExpandProofs.** `WalkInv` gives what a mul_mat has read as a function of the
loop indices: every row of the chunks before this one (`ChunkOf`), and of this one
those of earlier tiles, then of earlier heads of the tile, then earlier rows of the
head (`Before`). Whichever loop goes on, what is before the next row is what was
before this one, and this one (`EmitStep`); a chunk is entered with nothing of it
read because chunks partition heads and rows, the last one short (`CeilDiv`,
`InChunk`, `ChunkBounds`). `EachRowOnce` and `TileOrder` follow. `SrInv` has that the
rows emitted are those the samples extrapolate to; where the list is arithmetic or
no longer than the samples and the last index determine, that is the list
(`ArithmeticIsRegular`, `RegularDetermines`), hence `ExpansionExact`. `StreamInv` says
that the stream is whole lines below some bound; `RegionHolds` that a region, a
whole number of pages, holds what lies between the lowest line and the end of the
highest; and copies are that span moved by whole regions (`Rebased`), hence
`CopiesApart`.

`emit_row` emits the lines with a byte of the row, each once, wherever the row begins
(`RowLinesAre`, `RowOnce`). `PartsFollow` keeps the parts of the operations apart in the
stream, which only grows (`StepAppends`), so that a finished part stays what it was
(`PartStays`). `ReadInv` counts the part of the current mul_mat: a line occurs in it as
often as rows read so far touch it. When the walk is finished the rows read are all
pairs of a query head (and token) and a row of it; they match the pairs of a place in
the group and a row of the view one to one (`AllTouching`, from `DivDiv`: the KV head of a
query head is its quotient by the group), hence `ComputeMatches`, rows that overlap or
share lines included. `WrittenInv` has the same of a set_rows, for the rows rebuilt so
far; with `ExpansionExact` its finished part is the lines of the rows stored.
`PartsComplete` collects what the finished parts are, and what lies in a view shares its
lines with the view (`StoredLinesIn`), hence `NewEntriesRead`. `PassesInv`, the
conjunction of these, is inductive.

**LlcAssocProofs.** `AutoInv` says that the cores are the odd part times a power of two
(halving), and the ways the odd part times one (doubling), less than twice the
floor once anything was doubled. A power of two is a number whose only odd divisor is 1; two odd
parts times powers of two are equal only part by part (`Pow2Apart`), so any ways that
leave a power of two of sets are the odd part times a power of two, and of those the
loop stops at the least not below the floor. It needs the floor not to exceed a
core's share of lines, so that the ways divide the lines.

`NoFalseHits` is about the set count alone: a power of two of sets makes the mask all
the bits below it (`AllOnes`), so the index and the quotient determine the line
(`SameBits`, bit by bit from the lowest); any other count lacks a bit below its greatest
power of two (`SomeZero`), and then line 0 and the line that is this bit have the same
index and the same tag (`Collide`). That the count is a power of two is `SetsDecide` and
the arithmetic of the ways; `GivenInv` adds that the loops leave given ways alone.
Core counts are any integers. For those of zero and below `NoCoresInv` has that the odd
part, and then the ways, stay at or below zero: no return (`NeverBuiltCorrect`), and
what is said of the ways returned is about positive counts.
`LinesAssumption` asks that every line a cache
holds is among those looked up and that the default is a power of two of ways, as 8 is.

**StatsPipelineProofs.** `IInv` says what each stage has made of the nested statistics:
the flat dictionary holds a number exactly where a channel, a core or a total has one
(`FlatOK`), the text its lines one per entry (`TextOK`), the arrays at every index the
number of that channel or the fill (`MetricsOK`, by `ArrayIs`: the last index seen is the
array's, `LastIs`), and the two readers' results accordingly
(`ChannelsKeepTheirNumbers`, `RuntimeIsSlowestCore`, `ComparedOK`, `TotalsOK`). The sums
of the two readers and the one of the statistics run over different index sets: an
array as long as its last entry, the channels that appear in the text, all channels.
The library's fold chooses an order for each; `IterAny` has that the choice does not
matter, and `SumAgrees` that indices with 0 change nothing, so each of the three is the
same number. `ReadersAgree` follows from `ComparedOK` and the row's terms, which
agree key by key where all counters are integers.

**KvLogExpandProofs.** The log is the operations of its passes in order, cut anywhere
(`LogInv`), and splitting where the layer index falls cuts it every `Span` operations:
a whole pass, or, with one layer, never (`SplitInv`, `LayerFalls`, `SplitStep`). A cut
with equally many operations of each kind ends with a layer, because dropping one
last operation of a layer would leave more first ones (`WholeLayers`); with one layer
validation leaves only a log of one pass (`OnePass`). With `Positions`, what is
accepted is decode passes in their order and only the last of the log can be cut:
`AcceptedAreDecodePasses`; and a complete decode pass is found under its own number:
`AllDecodePassesTaken`.

Type invariants are not checked by the runs: where a component has proofs its
types are part of what is proved (`TypeCorrect` of KvTraceGen, CoreLayout and LlcAssoc,
`SweepInv`, `FilesInv` and `ReadInv`).

Only model-checked: the liveness properties `Decided` and `EndsForPositiveCounts`
(out of the prover's reach; of the latter the safety half is `NeverBuiltCorrect`). Every
other property of a passing run is a theorem. That the premise of `NewEntriesRead` is
met, that is, that the passes of the runs store into what their mul_mats read and before
those read it, is an assumption TLC evaluates (`PassesStoreFirst` of MCPassExpand): it
is a fact of the runs' cache layouts, not of the expander.

## Not modelled

* The external simulator beyond its wrap and its LLC index: which requests
  hit, and what a core's instruction target means for the cores that finish
  first. Its source is a submodule that is not here.
* `analysis/make_report_figures.py` (plots of the CSV files), the standalone
  configuration and the random model file: no state that another part reads.
* Text layout of traces, CSV and reports; the metrics' values beyond channel
  selection, sums, terms and whether they exist. Of `compare_stats.py` the ratios,
  tables, LLC counters, combined (read and write) row counters and the variation
  over channels; of `summarize` the warning about diverging row counters, which
  only prints.
* Malformed lines of a capture log other than a cut last one, and a
  `--num-query-heads` the KV heads do not divide (ggml asserts it of the operation
  captured, the log does not carry it).
* The instruction and line totals in `meta.json`, which are sums over the stream.
* Two sweeps at the same time in one output directory: nothing in the repository
  starts two or speaks of it.

## Plan

Done, in this order: KvShape, KvTraceGen and DecodeAttention with their
theorems; CoreLayout with its theorems; LlcAssoc and SharedLlc; SweepResults;
the expander's modules; StatsPipeline; ResultStore, with the theorems of the
results file and its refinement; RealSweep with its theorems; PassExpand over the
two walks; CompareStats; the row and the missing runtime in StatsPipeline; the
theorems of PassExpand, LlcAssoc, SharedLlc, KvLogExpand and StatsPipeline.

Next, by importance:

1. **TraceCache**, composing `KvTraceGen` with a cache of bounded ways: the
   sweeps after the first of a block hit whenever the block fits, as the
   generator's docstring says. It needs the cache's replacement policy, which is
   the simulator's.
2. **SharedSim**: what a core's instruction target (`num_expected`, 1.1 times a
   pass) means for the cores that finish first, with the same reservation.
3. The remaining metrics of `compare_stats.py`.
