-------------------------- MODULE MCStatsPipeline -----------------------------
(* Up to three channels, each idle, busy, saturated, only written, silent, or *)
(* reporting part of its counters or a value of an unexpected type; up to     *)
(* three cores, with memory cycles for all of them or for the first.  The     *)
(* total is an integer, missing or a float.                                   *)
EXTENDS StatsPipeline, TLC

I(n) == [t |-> "int", v |-> n]
F(n) == [t |-> "float", v |-> n]
NaN == [t |-> "nan", v |-> 0]

Idle == ("num_read_reqs" :> I(0)) @@ ("read_queue_len_avg" :> NaN) @@ ("cycles" :> I(70))
Busy == ("num_read_reqs" :> I(4)) @@ ("read_latency" :> I(40))
          @@ ("read_row_hits" :> I(3)) @@ ("read_row_misses" :> I(1))
          @@ ("read_queue_len_avg" :> F(2)) @@ ("num_read_reqs_core_0" :> I(4))
          @@ ("num_write_reqs" :> I(1)) @@ ("cycles" :> I(70))
Saturated == ("num_read_reqs" :> I(9)) @@ ("read_latency" :> I(900))
               @@ ("read_row_conflicts" :> I(9)) @@ ("read_queue_len_avg" :> I(32))
               @@ ("cycles" :> F(80))
Written == ("num_read_reqs" :> I(0)) @@ ("num_write_reqs" :> I(3))
             @@ ("read_queue_len_avg" :> F(0))
Partial == ("num_read_reqs" :> I(2)) @@ ("read_row_hits" :> I(2))
Odd == ("num_read_reqs" :> F(5)) @@ ("read_latency" :> I(7))
Silent == [k \in {} |-> 0]

Kinds == {Idle, Busy, Saturated, Written, Partial, Odd, Silent}
Cycles0 == UNION {[0 .. n -> {I(5), I(8)}] : n \in -1 .. 2}
Totals == {Nothing} \cup {"total_num_read_requests" :> n : n \in {I(6), F(6)}}

Report0(cycles, mem, total, n, controller) ==
    [frontend |-> ("cycles_recorded_core" :> cycles)
                    @@ ("memory_access_cycles_recorded_core" :> mem),
     total |-> total, channels |-> n, controller |-> controller]

SmallStats ==
    {Report0(Nothing, Nothing, Nothing, 3, f) : f \in [0 .. 2 -> Kinds]}
    \cup {Report0(c, m, t, 2, f) : c \in Cycles0, m \in {Nothing, 0 :> I(3)}, t \in Totals,
            f \in [0 .. 1 -> {Busy, Silent}]}
    \cup {Report0(0 :> I(n), 0 :> I(n), t, 1, 0 :> k) : n \in {0, 5}, t \in Totals, k \in Kinds}
    \cup {Report0(0 :> F(5), 0 :> I(2), t, 1, 0 :> k) : t \in Totals, k \in Kinds}
===============================================================================
