----------------------------- MODULE CompareStats -----------------------------
(* analysis/compare_stats.py, the second reader of a .stats file: where the   *)
(* sweeps look for the counters they know, it takes every line that has a     *)
(* number and sorts it by its name, and sums a dictionary per channel where   *)
(* they sum arrays.  Lines are [key, suffix, num], see StatsPipeline.         *)
EXTENDS Integers, FiniteSets, FiniteSetsExt

VARIABLE text

(* Of CHANNEL_METRICS, those the summary uses.                                *)
SUM_CHANNEL_METRICS == {"num_read_reqs", "num_write_reqs", "read_latency",
                        "read_row_hits", "read_row_misses", "read_row_conflicts"}
AVG_METRICS == {"read_queue_len_avg"}
CHANNEL_METRICS == SUM_CHANNEL_METRICS \cup AVG_METRICS

\* "<metric>_<channel>"; every other line, cycles_0 among them, is a global.
ChannelLines ==
    {l \in text : l.key \in CHANNEL_METRICS /\ l.suffix >= 0}
Globals == text \ ChannelLines

channels == {l.suffix : l \in ChannelLines}
Has(ch, metric) == \E l \in ChannelLines : l.key = metric /\ l.suffix = ch
NumOf(ch, metric) ==
    (CHOOSE l \in ChannelLines : l.key = metric /\ l.suffix = ch).num
get(ch, metric) == IF Has(ch, metric) THEN NumOf(ch, metric).v ELSE 0

SumOver(metric) == SumFunction([ch \in channels |-> get(ch, metric)])

\* Mutation: channels that were only written are not active.
weight_Reads(ch) == get(ch, "num_read_reqs")
weight(ch) == get(ch, "num_read_reqs") + get(ch, "num_write_reqs")
active_channels == {ch \in channels : weight(ch) # 0}

Global(key, suffix) == {l.num : l \in {g \in Globals : g.key = key /\ g.suffix = suffix}}

(* The terms of the table: sums, rates and means are fractions of these.      *)
summarize ==
    [sums |-> [metric \in SUM_CHANNEL_METRICS |-> SumOver(metric)],
     row_hits |-> SumOver("read_row_hits"),
     row_total |-> SumOver("read_row_hits") + SumOver("read_row_misses")
                     + SumOver("read_row_conflicts"),
     active |-> active_channels,
     cycles |-> Global("cycles_recorded_core", 0),
     requests |-> Global("total_num_read_requests", -1),
     \* a NaN of a channel that has requests makes the mean a NaN
     queues |-> {<<ch, weight(ch), get(ch, "read_queue_len_avg")>> : ch \in active_channels},
     queue_nan |-> \E ch \in active_channels :
        Has(ch, "read_queue_len_avg") /\ NumOf(ch, "read_queue_len_avg").t = "nan"]
===============================================================================
