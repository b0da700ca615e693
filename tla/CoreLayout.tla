------------------------------ MODULE CoreLayout ------------------------------
(* Where each core's KV tensors live.  Three programs place them: the batch   *)
(* sweep (layout_for, core_bases, generate_traces), the compute sweep (a      *)
(* region fixed for its one shape) and the real-trace expander (which shifts  *)
(* the captured arena).  The simulator then wraps every address modulo        *)
(* MaxAddr without an error, so that two cores whose regions meet after the   *)
(* wrap silently share cache lines.                                           *)
EXTENDS Integers

CONSTANTS
    CacheLine,      \* bytes of a line
    RegionAlign,    \* REGION_ALIGN, 1 MiB in sim_constants.py
    MaxAddr,        \* MAX_ADDR: NoTranslation wraps here
    MaxInsts,       \* MAX_EXPECTED_INSTS of the batch sweep
    Requests        \* the placements asked for

AutoSize == 0           \* --core-region-size not given

ASSUME LayoutAssumption ==
    /\ CacheLine \in Nat \ {0} /\ RegionAlign \in Nat \ {0}
    /\ MaxAddr \in Nat \ {0} /\ MaxAddr % CacheLine = 0
    /\ MaxInsts \in Nat

(* The tensor is a whole number of lines: KvTraceGen's AddressesInTensor      *)
(* bounds what a trace touches by it.  slack is --inst-slack in tenths.       *)
ASSUME RequestsAssumption ==
    \A r \in Requests :
        /\ r.script \in {"batch_sweep", "compute_sweep", "expand"}
        /\ r.n_cores \in Nat \ {0} /\ r.base \in Nat
        /\ r.lines \in Nat \ {0} /\ r.region_size \in Nat
        /\ r.insts \in Nat \ {0} /\ r.slack \in Nat

VARIABLES
    req,
    status,         \* "layout", "placing", "ready" or "failed"
    reason,         \* which check raised
    region, base_v,
    core,           \* core_id, the next core to generate
    traces,         \* per generated core, the bases its trace was written with
    insts           \* per_core_insts, 0 for None

vars == <<req, status, reason, region, base_v, core, traces, insts>>

align_up(n, a) == ((n + a - 1) \div a) * a

tensor == req.lines * CacheLine

\* Mutation: the V regions start one region too low.
VBaseOf_Short(r) == req.base + (req.n_cores - 1) * r
VBaseOf(r) == req.base + req.n_cores * r

\* Mutation: only the K half of the layout is measured.
Top_KOnly(r) == VBaseOf(r)
Top(r) == IF req.script = "expand" THEN VBaseOf(r)
                                   ELSE VBaseOf(r) + req.n_cores * r

\* core_bases, written inline by the other two programs.
core_bases(i) == [k |-> req.base + i * region, v |-> base_v + i * region]

Init ==
    /\ req \in Requests
    /\ status = "layout" /\ reason = "none"
    /\ region = 0 /\ base_v = 0
    /\ core = 0 /\ traces = [i \in 0 .. -1 |-> 0]
    /\ insts = 0

\* Mutation: the error is reported and the loop goes on.
Fail_Logged(why) == status' = status /\ reason' = why
Fail(why) == status' = "failed" /\ reason' = why

Proceed == status' = "placing" /\ reason' = reason

RegionFor ==
    IF req.region_size = AutoSize THEN align_up(tensor, RegionAlign)
                              ELSE req.region_size

LayoutFor ==
    /\ req.script = "batch_sweep" /\ status = "layout"
    /\ region' = RegionFor
    /\ base_v' = VBaseOf(RegionFor)
    /\ IF RegionFor < tensor THEN Fail("region_size")
       ELSE IF Top(RegionFor) > MaxAddr THEN Fail("top")
       ELSE Proceed
    /\ UNCHANGED <<req, core, traces, insts>>

(* The compute sweep and the expander round their tensor up and look at       *)
(* nothing else.  The expander has one arena, K and V together.               *)
FixedLayout ==
    /\ req.script \in {"compute_sweep", "expand"} /\ status = "layout"
    /\ LET r == align_up(tensor, RegionAlign) IN
       /\ region' = r
       /\ base_v' = IF req.script = "expand" THEN req.base ELSE VBaseOf(r)
    /\ Proceed
    /\ UNCHANGED <<req, core, traces, insts>>

num_expected(n) == (n * req.slack) \div 10

(* One turn of the loop over the cores.  The generator is a subprocess: it    *)
(* may fail (and raise), and what it reports depends on the shape alone.      *)
AddTrace ==
    /\ traces' = [i \in 0 .. core |-> IF i = core THEN core_bases(core)
                                                  ELSE traces[i]]
    /\ core' = core + 1
    /\ insts' = req.insts

\* Mutation: the check made after the last core only.
NextCore_Late(stop, why) ==
    IF stop /\ core + 1 = req.n_cores THEN Fail(why)
    ELSE /\ status' = IF core + 1 = req.n_cores THEN "ready" ELSE "placing"
         /\ reason' = reason
NextCore(stop, why) ==
    IF stop THEN Fail(why)
    ELSE /\ status' = IF core + 1 = req.n_cores THEN "ready" ELSE "placing"
         /\ reason' = reason

GenerateTrace ==
    /\ status = "placing"
    /\ UNCHANGED <<req, region, base_v>>
    /\ IF req.script = "batch_sweep" /\ core_bases(core).k + region > base_v
       THEN Fail("overrun") /\ UNCHANGED <<core, traces, insts>>
       ELSE \/ /\ AddTrace
               /\ IF insts = 0
                  THEN NextCore(/\ req.script = "batch_sweep"
                                /\ num_expected(req.insts) > MaxInsts, "cap")
                  ELSE NextCore(insts # req.insts, "mismatch")
            \/ Fail("generator") /\ UNCHANGED <<core, traces, insts>>

Stopped == status \in {"ready", "failed"} /\ UNCHANGED vars

Next == LayoutFor \/ FixedLayout \/ GenerateTrace \/ Stopped

Spec == Init /\ [][Next]_vars

FairSpec == Spec /\ WF_vars(LayoutFor \/ FixedLayout \/ GenerateTrace)

-------------------------------------------------------------------------------
Cores == 0 .. core - 1      \* the cores whose trace is written

(* The state the three programs share; one trace per core placed.             *)
TypeOK ==
    /\ req \in Requests
    /\ status \in {"layout", "placing", "ready", "failed"}
    /\ reason \in {"none", "region_size", "top", "overrun", "cap", "mismatch",
                   "generator"}
    /\ region \in Nat /\ base_v \in Nat /\ insts \in Nat
    /\ core \in 0 .. req.n_cores
    /\ traces \in [Cores -> [k : Nat, v : Nat]]

(* Inductive: the traces written are the layout's bases, and an accepted      *)
(* layout is one whose regions hold a tensor.                                 *)
LayoutInv ==
    /\ TypeOK
    /\ traces = [i \in Cores |-> core_bases(i)]
    /\ status = "layout" => core = 0
    /\ status = "placing" => core < req.n_cores
    /\ status \in {"placing", "ready"} =>
        /\ region >= tensor
        /\ base_v = IF req.script = "expand" THEN req.base ELSE VBaseOf(region)
        /\ req.script = "batch_sweep" => Top(region) <= MaxAddr

(* Inductive with LayoutInv: what has stopped a run, and what the first trace *)
(* has been tested for.                                                       *)
ChecksInv ==
    /\ reason \notin {"overrun", "mismatch"}
    /\ reason # "none" => status = "failed"
    /\ insts = IF core = 0 THEN 0 ELSE req.insts
    /\ status = "ready" => core > 0
    /\ req.script = "batch_sweep" =>
        /\ reason = "cap" => core = 1
        /\ core > 0 /\ reason # "cap" => num_expected(req.insts) <= MaxInsts

(* External: NoTranslation's wrap, then the line the LLC sees.                *)
PhysLine(addr) == (addr % MaxAddr) \div CacheLine

Streams == IF req.script = "expand" THEN {"k"} ELSE {"k", "v"}

\* The address of line j of stream s of core i's trace.
TraceAddr(i, s, j) == traces[i][s] + j * CacheLine

(* A line of memory belongs to at most one core and one of its tensors, as    *)
(* run_kv_core_batch_sweep.py:37-44 promises, for every core placed so far:   *)
(* always in the batch sweep, whose layout check is what makes it true, and   *)
(* for the two programs without a check whenever the layout fits.             *)
Fits == req.script = "batch_sweep" \/ Top(region) <= MaxAddr

CoresNeverAlias ==
    status \in {"placing", "ready"} /\ Fits =>
        \A i, j \in Cores : \A s, t \in Streams :
            <<i, s>> # <<j, t>> =>
                \A a, b \in 0 .. req.lines - 1 :
                    PhysLine(TraceAddr(i, s, a)) # PhysLine(TraceAddr(j, t, b))

(* All V above all K: no core's K tensor reaches the V tensor of any core.    *)
KBelowV ==
    status \in {"placing", "ready"} /\ req.script # "expand" =>
        \A i, j \in Cores : traces[i].k + tensor <= traces[j].v

(* The checks of generate_traces after the layout is accepted (the overrun    *)
(* test and the per-core instruction count) are second lines of defence: no   *)
(* run ever stops at them.                                                    *)
ChecksAreRedundant == reason \notin {"overrun", "mismatch"}

(* An oversized run is refused after its first trace, before the remaining    *)
(* (multi-GB) ones are written; no run that starts exceeds the cap.           *)
CapStopsEarly ==
    req.script = "batch_sweep" =>
        /\ reason = "cap" => Cores = {0}
        /\ status = "ready" => num_expected(insts) <= MaxInsts

(* Every placement is eventually accepted for all its cores, or refused.      *)
Decided == <>(status = "failed" \/ (status = "ready" /\ core = req.n_cores))

(* sim_constants.py:52 says of the wrap: "run scripts hard-fail above it".    *)
HardFailAboveMaxAddr == status = "ready" => Top(region) <= MaxAddr
===============================================================================
