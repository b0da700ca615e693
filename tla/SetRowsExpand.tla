---------------------------- MODULE SetRowsExpand -----------------------------
(* expand_sr of gen/expand_kv_log.py: rebuilding the rows a ggml_set_rows     *)
(* wrote from the few indices the instrumentation logs of them.  PassExpand   *)
(* starts it for the operations of a pass.                                    *)
EXTENDS Integers, Sequences, Picking

VARIABLES
    rows,       \* the indices really written (not in the log)
    status,     \* "idle", "logged", "expanding", "done" or "rejected"
    out         \* rows emitted so far

(* The log line (external): the number of rows, the first four padded with    *)
(* -1, and the last.                                                          *)
n_idx == Len(rows)
idx == [i \in 1 .. 4 |-> IF i <= n_idx THEN rows[i] ELSE -1]
idx_last == rows[n_idx]

Least(a, b) == IF a < b THEN a ELSE b

samples == SubSeq(Picked(idx, {i \in 1 .. 4 : idx[i] >= 0}), 1, Least(4, n_idx))
stride == IF n_idx > 1 THEN samples[2] - samples[1] ELSE 0
expect_last == samples[1] + (n_idx - 1) * stride

\* Mutation: the samples are not compared with each other.
Regular_Last == idx_last = expect_last
Regular ==
    /\ \A i \in 1 .. Len(samples) - 1 : samples[i + 1] - samples[i] = stride
    /\ idx_last = expect_last

Idle == rows = <<>> /\ status = "idle" /\ out = <<>>
Start(list) == rows' = list /\ status' = "logged" /\ out' = <<>>

Check ==
    /\ status = "logged"
    /\ status' = IF Regular THEN "expanding" ELSE "rejected"
    /\ UNCHANGED <<rows, out>>

EmitRow ==
    /\ status = "expanding" /\ Len(out) < n_idx
    /\ out' = Append(out, samples[1] + Len(out) * stride)
    /\ UNCHANGED <<rows, status>>

Finish ==
    /\ status = "expanding" /\ Len(out) = n_idx
    /\ status' = "done"
    /\ UNCHANGED <<rows, out>>

-------------------------------------------------------------------------------
Arithmetic == \A i \in 1 .. n_idx - 1 : rows[i + 1] - rows[i] = rows[Least(2, n_idx)] - rows[1]

(* What is emitted is what was written, for every list the log determines (up *)
(* to five rows) and for every longer one that is an arithmetic sequence, as  *)
(* decode-time lists are said to be; and only irregular lists are refused.    *)
ExpansionExact ==
    /\ status = "done" /\ (n_idx <= 5 \/ Arithmetic) => out = rows
    /\ status = "rejected" => ~Arithmetic
===============================================================================
