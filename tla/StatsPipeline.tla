---------------------------- MODULE StatsPipeline -----------------------------
(* From a finished simulation to one row of metrics: ram21.py flattens the    *)
(* nested stats and writes them as text, and run_kv_core_batch_sweep.py reads *)
(* the text back with one regular expression per counter, aggregates the      *)
(* channels and makes the row; compare_stats.py reads the same text its own   *)
(* way (CompareStats).  A number is [t : {"int", "float", "nan"}, v : Nat]:   *)
(* it crosses the text as digits, as digits with a point, or as ".nan".       *)
EXTENDS Integers, FiniteSets, FiniteSetsExt

CONSTANTS
    Scripts,    \* of "compute_sweep", "batch_sweep", "real_sweep"
    Stats       \* the nested stats a simulation may end with

None == -1

CounterKeys == {"num_read_reqs", "num_write_reqs", "read_row_hits",
                "read_row_misses", "read_row_conflicts", "read_latency"}
FloatKeys == {"read_queue_len_avg"}
CoreKeys == {"cycles_recorded_core", "memory_access_cycles_recorded_core"}
TotalKeys == {"total_num_read_requests"}
PerCore == {"num_read_reqs_core_0"}     \* of a controller
ScalarKeys == TotalKeys \cup {"memory_system_cycles"}

Number == [t : {"int", "float", "nan"}, v : Nat]
Numbers(dict) == \A k \in DOMAIN dict : dict[k] \in Number

(* The totals; per-core counters of the frontend, by core; one dictionary per *)
(* channel, 0 .. channels - 1, which holds some of the keys, per-core         *)
(* counters among them (their names end in _core_<n>), but none of the keys   *)
(* the frontend and the totals have.                                          *)
ASSUME StatsAssumption ==
    \A s \in Stats :
        /\ DOMAIN s.total \subseteq TotalKeys /\ Numbers(s.total)
        /\ DOMAIN s.frontend = CoreKeys
        /\ \A k \in CoreKeys :
            LET cores == DOMAIN s.frontend[k]
            IN  /\ IsFiniteSet(cores) /\ cores = 0 .. Cardinality(cores) - 1
                /\ Numbers(s.frontend[k])
        /\ s.channels \in Nat
        /\ DOMAIN s.controller = 0 .. s.channels - 1
        /\ \A i \in DOMAIN s.controller :
            /\ Numbers(s.controller[i])
            /\ DOMAIN s.controller[i] \cap (CoreKeys \cup TotalKeys) = {}

VARIABLES
    script,
    stats,      \* what the simulator reports (external)
    pc,         \* "simulated", "flat", "written", "parsed", "summarized",
                \* then "next" or "failed" as the sweep goes on or raises
    flat,       \* flatten_stats' dictionary: <<key, suffix>> -> number
    text,       \* the lines of the .stats file: [key, suffix, num]
    metrics,    \* parse_stats' arrays and scalars
    summary,    \* summarize's metrics
    row,        \* the row of the results file, Nothing before it is written
    compared    \* what compare_stats.py makes of the file, at some moment

vars == <<script, stats, pc, flat, text, metrics, summary, row, compared>>

Compare == INSTANCE CompareStats

Nothing == [x \in {} |-> 0]

Init ==
    /\ script \in Scripts
    /\ stats \in Stats /\ pc = "simulated"
    /\ flat = Nothing /\ text = {} /\ metrics = Nothing /\ summary = Nothing
    /\ row = Nothing /\ compared = Nothing

Channels == 0 .. stats.channels - 1

NoIndex == -1

(* max_cycles: the greatest of the channels' cycles, with the type it has, the *)
(* first of equals; the integer 0 where none is greater, and a NaN never is.   *)
Counted == {i \in Channels : /\ "cycles" \in DOMAIN stats.controller[i]
                             /\ stats.controller[i]["cycles"].t # "nan"
                             /\ stats.controller[i]["cycles"].v > 0}
max_cycles ==
    IF Counted = {} THEN [t |-> "int", v |-> 0]
    ELSE LET cycles(i) == stats.controller[i]["cycles"]
         IN  cycles(Min({i \in Counted :
                            \A j \in Counted : cycles(j).v <= cycles(i).v}))

(* flatten_stats: numbers only; a controller's per-core counters are dropped, *)
(* its other counters get the channel's index as a suffix.                    *)
Flatten ==
    /\ pc = "simulated" /\ pc' = "flat"
    /\ LET front == UNION {{<<k, c>> : c \in DOMAIN stats.frontend[k]} : k \in CoreKeys}
           total == {<<k, NoIndex>> : k \in DOMAIN stats.total}
           chan == UNION {{<<k, i>> : k \in DOMAIN stats.controller[i]
                                            \ PerCore} :
                            i \in Channels}
           cycles == <<"memory_system_cycles", NoIndex>>
       IN flat' = [x \in front \cup total \cup chan \cup {cycles} |->
                     IF x \in front THEN stats.frontend[x[1]][x[2]]
                     ELSE IF x \in total THEN stats.total[x[1]]
                     ELSE IF x \in chan THEN stats.controller[x[2]][x[1]]
                     ELSE max_cycles]
    /\ UNCHANGED <<script, stats, text, metrics, summary, row, compared>>

(* render_stats_text and the file.                                            *)
Write ==
    /\ pc = "flat" /\ pc' = "written"
    /\ text' = {[key |-> x[1], suffix |-> x[2], num |-> flat[x]] : x \in DOMAIN flat}
    /\ UNCHANGED <<script, stats, flat, metrics, summary, row, compared>>

(* compare_stats.py runs on the file, at any time.                            *)
CompareFile ==
    /\ pc # "simulated" /\ pc # "flat" /\ compared = Nothing
    /\ compared' = Compare!summarize
    /\ UNCHANGED <<script, stats, pc, flat, text, metrics, summary, row>>

(* The counters' expression matches digits to the end of the line: a float or *)
(* a NaN under a counter's name does not match and is passed over.            *)
\* Mutation: the expressions match any number.
Matches_Any(key) == {l \in text : l.key = key}
Matches(key) ==
    {l \in text : l.key = key /\ (key \in FloatKeys \/ l.num.t = "int")}

(* _ensure_len: an array as long as the largest index seen, the gaps filled   *)
(* with 0 for a counter and NaN for a float.                                  *)
Fill(key) == [t |-> IF key \in FloatKeys THEN "nan" ELSE "int", v |-> 0]
\* Mutation: an array as long as the number of matches.
Array_Short(key) ==
    [i \in 0 .. Cardinality(Matches(key)) - 1 |->
        IF \E l \in Matches(key) : l.suffix = i
        THEN (CHOOSE l \in Matches(key) : l.suffix = i).num ELSE Fill(key)]
Array(key) ==
    LET last == IF Matches(key) = {} THEN -1
                ELSE Max({l.suffix : l \in Matches(key)})
    IN  [i \in 0 .. last |->
            IF \E l \in Matches(key) : l.suffix = i
            THEN (CHOOSE l \in Matches(key) : l.suffix = i).num ELSE Fill(key)]

Scalar(key) ==
    IF Matches(key) = {} THEN None ELSE (CHOOSE l \in Matches(key) : TRUE).num.v

Parse ==
    /\ pc = "written" /\ pc' = "parsed"
    /\ metrics' = [k \in CounterKeys \cup FloatKeys \cup CoreKeys \cup ScalarKeys
                    |-> IF k \in ScalarKeys THEN Scalar(k) ELSE Array(k)]
    /\ UNCHANGED <<script, stats, flat, text, summary, row, compared>>

Least(a, b) == IF a < b THEN a ELSE b
ArrGet(key, i) == IF i \in DOMAIN metrics[key] THEN metrics[key][i].v ELSE 0
Total(key) == SumFunction([i \in DOMAIN metrics[key] |-> metrics[key][i].v])
Len0(key) == Cardinality(DOMAIN metrics[key])

active_idx ==
    {i \in 0 .. Max({Len0("num_read_reqs"), Len0("read_row_hits")}) - 1 :
        ArrGet("num_read_reqs", i) > 0}

Summarize ==
    /\ pc = "parsed" /\ pc' = "summarized"
    /\ summary' =
        [runtime_cycles |->
            IF DOMAIN metrics["cycles_recorded_core"] = {} THEN None
            ELSE Max({metrics["cycles_recorded_core"][c].v :
                        c \in DOMAIN metrics["cycles_recorded_core"]}),
         n_cores_observed |-> Len0("cycles_recorded_core"),
         memory_system_cycles |->
            IF metrics["memory_system_cycles"] = None THEN 0
            ELSE metrics["memory_system_cycles"],
         total_read_reqs |-> metrics["total_num_read_requests"],
         \* the fractions the mean stall is the mean of
         stalls |-> {<<c, ArrGet("memory_access_cycles_recorded_core", c),
                          ArrGet("cycles_recorded_core", c)>> :
                        c \in {i \in 0 .. Least(Len0("memory_access_cycles_recorded_core"),
                                                  Len0("cycles_recorded_core")) - 1 :
                                ArrGet("cycles_recorded_core", i) > 0}},
         active |-> active_idx,
         row_hits |-> Total("read_row_hits"),
         row_accesses |-> Total("read_row_hits") + Total("read_row_misses")
                            + Total("read_row_conflicts"),
         \* the terms of the mean latency and of the mean queue length
         latencies |-> [i \in active_idx |->
                            <<ArrGet("read_latency", i), ArrGet("num_read_reqs", i)>>],
         queues |-> {<<i, metrics["read_queue_len_avg"][i].v>> :
                        i \in {j \in active_idx \cap DOMAIN metrics["read_queue_len_avg"] :
                                metrics["read_queue_len_avg"][j].t # "nan"}}]
    /\ UNCHANGED <<script, stats, flat, text, metrics, row, compared>>

Divides == summary.runtime_cycles \notin {None, 0} /\ summary.total_read_reqs # None

(* The compute sweep divides by the runtime before it has a row; the others   *)
(* put NaN for the bandwidth, write the row, and format the runtime in their  *)
(* progress line.  Formatting or dividing by None raises.                     *)
Report ==
    /\ pc = "summarized"
    /\ row' = IF script = "compute_sweep" /\ ~Divides THEN Nothing
              ELSE [runtime_cycles |-> summary.runtime_cycles, read_bw |-> Divides]
    /\ pc' = IF row' # Nothing /\ summary.runtime_cycles # None
             THEN "next" ELSE "failed"
    /\ UNCHANGED <<script, stats, flat, text, metrics, summary, compared>>

Ended == pc \in {"next", "failed"}
Stopped == Ended /\ compared # Nothing /\ UNCHANGED vars

Next == \/ Flatten \/ Write \/ Parse \/ Summarize \/ Report
        \/ CompareFile \/ Stopped

Spec == Init /\ [][Next]_vars

-------------------------------------------------------------------------------
(* What channel i reports under a key, 0 when it does not.                    *)
Reported(key, i) ==
    IF key \in DOMAIN stats.controller[i] /\ stats.controller[i][key].t = "int"
    THEN stats.controller[i][key].v ELSE 0
Active == {i \in Channels : Reported("num_read_reqs", i) > 0}
SumOver(key) == SumFunction([i \in Channels |-> Reported(key, i)])

(* The row agrees with the nested stats, channel by channel, through the text *)
(* and the arrays and whatever channels leave out: only channels with reads   *)
(* enter the means, each with its own latency, reads and queue length, and no *)
(* channel is taken for another when an earlier one reports less.             *)
ChannelsKeepTheirNumbers ==
    pc = "summarized" =>
        /\ summary.active = Active
        /\ summary.latencies = [i \in Active |-> <<Reported("read_latency", i),
                                                   Reported("num_read_reqs", i)>>]
        /\ summary.queues = {<<i, stats.controller[i]["read_queue_len_avg"].v>> :
               i \in {j \in Active :
                        /\ "read_queue_len_avg" \in DOMAIN stats.controller[j]
                        /\ stats.controller[j]["read_queue_len_avg"].t # "nan"}}
        /\ summary.row_hits = SumOver("read_row_hits")
        /\ summary.row_accesses = SumOver("read_row_hits")
            + SumOver("read_row_misses") + SumOver("read_row_conflicts")

(* The runtime is the slowest core's, and is missing exactly when no core     *)
(* recorded its cycles; only then, or where a core's cycles are 0 or there is *)
(* no total that is an integer, is there no bandwidth, and no sweep goes on   *)
(* to its next point without a runtime.                                       *)
RuntimeIsSlowestCore ==
    LET cycles == stats.frontend["cycles_recorded_core"]
        cores == {c \in DOMAIN cycles : cycles[c].t = "int"} IN
    /\ pc = "summarized" =>
        IF cores = {} THEN summary.runtime_cycles = None
        ELSE /\ \A c \in cores : cycles[c].v <= summary.runtime_cycles
             /\ \E c \in cores : cycles[c].v = summary.runtime_cycles
             /\ cores = DOMAIN cycles =>
                    /\ summary.n_cores_observed = Cardinality(cores)
                    /\ \A x \in summary.stalls : cycles[x[1]].v = x[3]
    /\ pc = "next" => cores # {}
    /\ row # Nothing /\ cores # {} /\ (\A c \in cores : cycles[c].v > 0) =>
        row.read_bw = (\E k \in DOMAIN stats.total : stats.total[k].t = "int")

(* All counters are integers, and latencies are of reads.                     *)
Regular ==
    /\ \A k \in DOMAIN stats.total : stats.total[k].t = "int"
    /\ \A i \in Channels :
        /\ \A k \in CounterKeys \cap DOMAIN stats.controller[i] :
            stats.controller[i][k].t = "int"
        /\ Reported("num_read_reqs", i) = 0 => Reported("read_latency", i) = 0

LatencySum(n) ==
    SumFunction([i \in DOMAIN summary.latencies |-> summary.latencies[i][n]])

(* The two readers of a file agree wherever they compute the same thing: the  *)
(* read row hits and accesses, the sums of reads and of latencies, the total  *)
(* of reads, and the active channels but for those only written.  Where one   *)
(* channel is read, the mean latencies are quotients of the same two numbers, *)
(* though the sweeps average the channels' means and compare_stats.py weights *)
(* them by their reads; where one is active, the queue lengths are the same.  *)
ReadersAgree ==
    pc = "summarized" /\ compared # Nothing /\ Regular =>
        /\ compared.row_hits = summary.row_hits
        /\ compared.row_total = summary.row_accesses
        /\ compared.sums["read_latency"] = LatencySum(1)
        /\ compared.sums["num_read_reqs"] = LatencySum(2)
        /\ \A num \in compared.requests : num.v = summary.total_read_reqs
        /\ compared.active = summary.active
                \cup {i \in Channels : Reported("num_write_reqs", i) > 0}
        /\ \A i \in summary.active : summary.active = {i} =>
                summary.latencies[i] = <<compared.sums["read_latency"],
                                         compared.sums["num_read_reqs"]>>
        /\ Cardinality(compared.active) = 1 /\ summary.queues # {} =>
                \A x \in compared.queues : <<x[1], x[3]>> \in summary.queues
===============================================================================
