------------------------------ MODULE KvLogExpand -----------------------------
(* gen/expand_kv_log.py from the captured log to the decode passes it expands:*)
(* lines are parsed, passes are split where the layer index falls, the decode *)
(* passes selected and validated.  PassExpand expands them, RealSweep has the *)
(* files.                                                                     *)
EXTENDS Integers, Sequences, FiniteSets, SequencesExt, Picking

CONSTANTS
    Layers,         \* layers of the captured model
    MaxPasses,      \* bound on the forward passes of the capture
    PassCounts      \* --passes; 0 when it is not given

ASSUME ExpandAssumption ==
    /\ Layers \in Nat \ {0} /\ MaxPasses \in Nat
    /\ PassCounts \subseteq Nat

VARIABLES
    (* the capture; its process may be stopped at any byte *)
    log,        \* logged operations, each with the pass it belongs to
    kinds,      \* per captured pass, "prefill" (n_tok > 1) or "decode"
    half,       \* the last line of the log is not whole
    (* the expander *)
    pc,         \* "capture", "split", "expand", "failed"
    count,      \* its --passes
    read,       \* operations of the log split so far
    passes,     \* split_passes' result
    accesses    \* the passes expanded

capture == <<log, kinds, half>>
vars == <<log, kinds, half, pc, count, read, passes, accesses>>

OpKinds == <<[tag |-> "SR", kv |-> "k"], [tag |-> "SR", kv |-> "v"],
             [tag |-> "MM", kv |-> "k"], [tag |-> "MM", kv |-> "v"]>>
OpsPerPass == Layers * Len(OpKinds)

Init ==
    /\ log = <<>> /\ kinds = <<>> /\ half = FALSE
    /\ pc = "capture" /\ count \in PassCounts
    /\ read = 0 /\ passes = <<>> /\ accesses = <<>>

(* External: one operation of a forward pass is logged; a pass logs, layer by *)
(* layer, the stores of K and V and the reads of K and V.                     *)
LogOp ==
    /\ pc = "capture"
    /\ LET n == Len(log) % OpsPerPass
           kind == OpKinds[(n % Len(OpKinds)) + 1] IN
       /\ n = 0 => Len(kinds) < MaxPasses
       /\ IF n = 0 THEN \E k \in {"prefill", "decode"} : kinds' = Append(kinds, k)
                   ELSE UNCHANGED kinds
       /\ log' = Append(log, [tag |-> kind.tag, kv |-> kind.kv,
                              layer |-> n \div Len(OpKinds), pass |-> Len(kinds')])
    /\ UNCHANGED <<half, pc, count, read, passes, accesses>>

(* The captured process ends, or is stopped wherever it is, also inside the   *)
(* line it writes.                                                            *)
EndCapture ==
    /\ pc = "capture" /\ log # <<>>
    /\ half' \in BOOLEAN
    /\ pc' = "split"
    /\ UNCHANGED <<log, kinds, count, read, passes, accesses>>

(* parse_log: a cut line does not match LINE_RE, or has no type TYPE_SIZE     *)
(* knows, and the expander raises before it splits anything.                  *)
Parse ==
    /\ pc = "split" /\ half
    /\ pc' = "failed"
    /\ UNCHANGED <<capture, count, read, passes, accesses>>

Falls(op) == passes # <<>> /\ op.layer < Last(Last(passes)).layer
NewPass(op) == passes = <<>> \/ Falls(op)

SplitOp ==
    /\ pc = "split" /\ ~half /\ read < Len(log)
    /\ LET op == log[read + 1] IN
       passes' = IF NewPass(op) THEN Append(passes, <<op>>)
                 ELSE Front(passes) \o <<Append(Last(passes), op)>>
    /\ read' = read + 1
    /\ UNCHANGED <<capture, pc, count, accesses>>

MMs(p) == {i \in DOMAIN p : p[i].tag = "MM"}
n_tok(op) == IF kinds[op.pass] = "decode" THEN 1 ELSE 2
is_decode_pass(p) ==
    MMs(p) # {} /\ \A i \in MMs(p) : n_tok(p[i]) = 1

LayerSet(p) == {p[i].layer : i \in DOMAIN p}
n_layers(p) == Cardinality(LayerSet(p))
by_kind(p, kind) ==
    {i \in DOMAIN p : p[i].tag = kind.tag /\ p[i].kv = kind.kv}
\* Mutation: only the layer numbers are checked.
validate_decode_pass_Layers(p) == LayerSet(p) = 0 .. n_layers(p) - 1
validate_decode_pass(p) ==
    /\ LayerSet(p) = 0 .. n_layers(p) - 1
    /\ \A k \in DOMAIN OpKinds :
        Cardinality(by_kind(p, OpKinds[k])) = n_layers(p)

found == Picked(passes, {i \in DOMAIN passes : is_decode_pass(passes[i])})
\* Mutation: the last decode pass of the log is taken for incomplete.
decode_passes_ButLast ==
    IF count = 0 \/ count > Len(found)
    THEN SubSeq(found, 1, Len(found) - 1)
    ELSE SubSeq(found, 1, count)
decode_passes ==
    IF count = 0 \/ count > Len(found) THEN found
    ELSE SubSeq(found, 1, count)

(* No decode pass, or one of those selected that does not validate, ends the  *)
(* expander before it has expanded any.                                       *)
Expand ==
    /\ pc = "split" /\ ~half /\ read = Len(log)
    /\ IF decode_passes # <<>>
          /\ \A i \in DOMAIN decode_passes : validate_decode_pass(decode_passes[i])
       THEN pc' = "expand" /\ accesses' = decode_passes
       ELSE pc' = "failed" /\ UNCHANGED accesses
    /\ UNCHANGED <<capture, count, read, passes>>

Stopped == pc \in {"expand", "failed"} /\ UNCHANGED vars

Next == LogOp \/ EndCapture \/ Parse \/ SplitOp \/ Expand \/ Stopped

Spec == Init /\ [][Next]_vars

-------------------------------------------------------------------------------
Whole(p) == Len(p) = OpsPerPass

(* Whatever the capture was stopped at, an accepted pass is a run of          *)
(* consecutive operations of one captured decode pass from its first on,      *)
(* whole layers of it; only the last one may lack layers.  Prefill never      *)
(* leaks in and two passes are never taken for one.                           *)
AcceptedAreDecodePasses ==
    \A i \in DOMAIN accesses :
        /\ kinds[accesses[i][1].pass] = "decode"
        /\ IsPrefix(accesses[i],
                    Picked(log, {n \in DOMAIN log :
                                    log[n].pass = accesses[i][1].pass}))
        /\ Len(accesses[i]) % Len(OpKinds) = 0
        /\ i < Len(accesses) => Whole(accesses[i])

(* No complete decode pass is lost: a run over all passes accepts every one   *)
(* (for more than one layer; with one, the layer index never falls).          *)
AllDecodePassesTaken ==
    accesses # <<>> /\ count = 0 =>
        \A p \in DOMAIN kinds :
            kinds[p] = "decode" /\ p * OpsPerPass <= Len(log) =>
                \E i \in DOMAIN accesses : accesses[i][1].pass = p

(* expand_kv_log.py:23-25 says of the input: "The pass structure must be      *)
(* complete: n_layers x (SR k, SR v, MM k, MM v)."                            *)
PassStructureComplete ==
    \A i \in DOMAIN accesses : LayerSet(accesses[i]) = 0 .. Layers - 1
===============================================================================
