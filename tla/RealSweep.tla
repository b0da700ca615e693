------------------------------- MODULE RealSweep ------------------------------
(* The trace files and meta.json between their two users: the expander writes *)
(* one trace per core and then meta.json, over those of earlier runs; the     *)
(* real-trace sweep reads meta.json first and the traces it names point by    *)
(* point.  Nothing keeps the two programs apart, and either may be killed.    *)
EXTENDS Integers, Sequences

CONSTANTS
    Options,        \* the expander's runs: [cores, passes, stream], stream
                    \* being the rest that decides the lines of a trace (the
                    \* log, --compute-read, --base, ...), of one tag and model
    Grids,          \* the sweep's --cores
    MaxExpansions, MaxSweeps    \* bounds on the runs of either program

ASSUME RealSweepAssumption ==
    /\ \A o \in Options : o.cores \in Nat \ {0} /\ o.passes \in Nat \ {0}
    /\ Grids \subseteq Seq(Nat \ {0}) \ {<<>>}
    /\ MaxExpansions \in Nat /\ MaxSweeps \in Nat

VARIABLES
    (* the files *)
    traces,     \* file name -> [stream, passes]: of which run, and the whole
                \* passes on disk so far
    meta,       \* None, Cut, or the options of the run that wrote it
    (* the expander *)
    xpc,        \* "idle", "next", "trace", "meta"
    opt, core,
    (* the sweep *)
    spc,        \* "idle", "check", "read"
    claim,      \* meta.json as read
    grid, pos,
    used,       \* the traces read for the point, by core
    rows,       \* its rows: [cores, used]
    (* observation *)
    expansions, sweeps,
    opened,     \* traces opened since a run last completed meta.json, each as
                \* <<core, passes>> of its run
    replaced    \* ... since the run completed whose meta.json the sweep has read

files == <<traces, meta>>
expander == <<xpc, opt, core>>
sweep == <<spc, claim, grid, pos, used, rows>>
vars == <<traces, meta, xpc, opt, core, spc, claim, grid, pos, used, rows,
          expansions, sweeps, opened, replaced>>

None == [cores |-> 0, passes |-> 0]
Cut == [cores |-> -1, passes |-> 0]

Init ==
    /\ traces = [name \in {} |-> 0] /\ meta = None
    /\ xpc = "idle" /\ opt = None /\ core = 0
    /\ spc = "idle" /\ claim = None /\ grid = <<>> /\ pos = 1 /\ used = <<>>
    /\ rows = <<>>
    /\ expansions = 0 /\ sweeps = 0 /\ opened = {} /\ replaced = {}

-------------------------------------------------------------------------------
(* The expander.  The log is read, split, validated and expanded in memory    *)
(* first (KvLogExpand): a run that fails there has opened no file.            *)
StartExpand ==
    /\ xpc = "idle" /\ expansions < MaxExpansions
    /\ expansions' = expansions + 1
    /\ opt' \in Options /\ core' = 0
    /\ xpc' = "next"
    /\ UNCHANGED <<files, sweep, sweeps, opened, replaced>>

\* Mutation: a trace's name does not carry the number of passes.
Name_NoPasses(o, c) == <<c, 0>>
\* The tag, kv_size and layers of a name are those of every run here.
Name(o, c) == <<c, o.passes>>

Put(name, trace) ==
    traces' = [f \in DOMAIN traces \cup {name} |->
                 IF f = name THEN trace ELSE traces[f]]
Trace(n) == [stream |-> opt.stream, passes |-> n]

\* A core's trace of a run of so many passes, whatever it is called.
Copy(o, c) == <<c, o.passes>>

Opened(copy) ==
    /\ opened' = opened \cup {copy}
    /\ replaced' = replaced \cup {copy}

\* Mutation: meta.json is complete before the traces it names.
OpenTrace_MetaFirst ==
    /\ xpc = "next" /\ core < opt.cores
    /\ Put(Name(opt, core), Trace(0))
    /\ Opened(Copy(opt, core))
    /\ meta' = IF core = 0 THEN opt ELSE meta
    /\ xpc' = "trace"
    /\ UNCHANGED <<opt, core, sweep, expansions, sweeps>>
(* Opening empties what another run left under the name.                      *)
OpenTrace ==
    /\ xpc = "next" /\ core < opt.cores
    /\ Put(Name(opt, core), Trace(0))
    /\ Opened(Copy(opt, core))
    /\ xpc' = "trace"
    /\ UNCHANGED <<meta, opt, core, sweep, expansions, sweeps>>

Written == traces[Name(opt, core)].passes

(* The lines of one more pass.                                                *)
WritePass ==
    /\ xpc = "trace" /\ Written < opt.passes
    /\ Put(Name(opt, core), Trace(Written + 1))
    /\ UNCHANGED <<meta, expander, sweep, expansions, sweeps, opened, replaced>>

CloseTrace ==
    /\ xpc = "trace" /\ Written = opt.passes
    /\ core' = core + 1
    /\ xpc' = "next"
    /\ UNCHANGED <<files, opt, sweep, expansions, sweeps, opened, replaced>>

OpenMeta ==
    /\ xpc = "next" /\ core = opt.cores
    /\ meta' = Cut
    /\ xpc' = "meta"
    /\ UNCHANGED <<traces, opt, core, sweep, expansions, sweeps, opened, replaced>>

CloseMeta ==
    /\ xpc = "meta"
    /\ meta' = opt
    /\ xpc' = "idle"
    /\ opened' = {}
    /\ UNCHANGED <<traces, opt, core, sweep, expansions, sweeps, replaced>>

(* An exception, a full disk or a kill: an open trace stays as short as it is.*)
DieExpand ==
    /\ xpc # "idle"
    /\ xpc' = "idle"
    /\ UNCHANGED <<files, opt, core, sweep, expansions, sweeps, opened, replaced>>

-------------------------------------------------------------------------------
(* The sweep.  json.loads raises on a meta.json that is not there or not      *)
(* whole.                                                                     *)
Readable == meta \notin {None, Cut}

ReadMeta ==
    /\ spc = "idle" /\ sweeps < MaxSweeps
    /\ sweeps' = sweeps + 1
    /\ rows' = <<>> /\ used' = <<>> /\ pos' = 1
    /\ grid' \in Grids
    /\ IF Readable THEN spc' = "check" /\ claim' = meta
                   ELSE UNCHANGED <<spc, claim>>
    /\ replaced' = opened
    /\ UNCHANGED <<files, expander, expansions, opened>>

Named(c) == Name(claim, c)

Enough == \A i \in DOMAIN grid : grid[i] <= claim.cores

CheckFiles ==
    /\ spc = "check"
    /\ spc' = IF /\ \A c \in 0 .. claim.cores - 1 : Named(c) \in DOMAIN traces
                 /\ Enough
              THEN "read" ELSE "idle"
    /\ UNCHANGED <<files, expander, claim, grid, pos, used, rows, expansions,
                   sweeps, opened, replaced>>

(* External: the simulation of a point reads the files of its first n cores.  *)
InGrid == pos <= Len(grid)

ReadTrace ==
    /\ spc = "read" /\ InGrid /\ Len(used) < grid[pos]
    /\ used' = Append(used, traces[Named(Len(used))])
    /\ UNCHANGED <<files, expander, spc, claim, grid, pos, rows, expansions,
                   sweeps, opened, replaced>>

(* run_to_stats_file, summarize and write_csv (SweepResults).                 *)
WriteRow ==
    /\ spc = "read" /\ InGrid /\ Len(used) = grid[pos]
    /\ rows' = Append(rows, [cores |-> grid[pos], used |-> used])
    /\ pos' = pos + 1 /\ used' = <<>>
    /\ UNCHANGED <<files, expander, spc, claim, grid, expansions, sweeps, opened,
                   replaced>>

(* The end of the grid; an exception (a trace the simulator refuses) or a     *)
(* kill before it.                                                            *)
EndSweep ==
    /\ spc = "read" /\ ~InGrid
    /\ spc' = "idle"
    /\ UNCHANGED <<files, expander, claim, grid, pos, used, rows, expansions,
                   sweeps, opened, replaced>>
DieSweep ==
    /\ spc # "idle"
    /\ spc' = "idle"
    /\ UNCHANGED <<files, expander, claim, grid, pos, used, rows, expansions,
                   sweeps, opened, replaced>>

-------------------------------------------------------------------------------
Expand == OpenTrace \/ WritePass \/ CloseTrace \/ OpenMeta \/ CloseMeta
Sweep == CheckFiles \/ ReadTrace \/ WriteRow \/ EndSweep
NoMoreRuns ==
    /\ xpc = "idle" /\ expansions = MaxExpansions
    /\ spc = "idle" /\ sweeps = MaxSweeps
    /\ UNCHANGED vars

Next == \/ StartExpand \/ Expand \/ DieExpand
        \/ ReadMeta \/ Sweep \/ DieSweep
        \/ NoMoreRuns

Spec == Init /\ [][Next]_vars

Whole(o) == [stream |-> o.stream, passes |-> o.passes]
Holds(o, c) == Name(o, c) \in DOMAIN traces /\ traces[Name(o, c)] = Whole(o)

(* A meta.json that can be read describes every trace it names, whole and of  *)
(* its run, but for those that a later run has opened without ending: one     *)
(* that is writing, or died.  A run that fails before its first file damages  *)
(* nothing, one that dies later no more than the traces it opened, and one    *)
(* that ends leaves no damage behind.                                         *)
MetaDescribesFiles ==
    Readable => \A c \in 0 .. meta.cores - 1 :
        Copy(meta, c) \notin opened => Holds(meta, c)

(* What a row's n-th core ran: the trace meta.json described, or one that has *)
(* been opened again since its run completed.                                 *)
Described(u, n) == u[n] = Whole(claim) \/ Copy(claim, n - 1) \in replaced

(* Every row has a trace for each of its cores, from core 0 on, and each that *)
(* no run opened between the completion of meta.json and the end of the row   *)
(* is the one meta.json described, so that the instruction count a row is     *)
(* divided by is theirs: a run of other options that interferes harms the     *)
(* traces of its own names only.  For those the row may come from another     *)
(* stream or a part of the passes, and the sweep does not notice.             *)
RowsMeasureDescribed ==
    \A i \in DOMAIN rows :
        /\ Len(rows[i].used) = rows[i].cores
        /\ \A n \in DOMAIN rows[i].used : Described(rows[i].used, n)

Traces == [stream : {o.stream : o \in Options}, passes : Nat]

\* Inductive: the traces the current run has closed are whole, the one it has
\* open is its own and noted as opened.
FilesInv ==
    /\ xpc \in {"idle", "next", "trace", "meta"}
    /\ xpc # "idle" => /\ opt \in Options /\ core \in 0 .. opt.cores
                       /\ \A c \in 0 .. core - 1 : Holds(opt, c)
    /\ xpc = "trace" => /\ core < opt.cores /\ Copy(opt, core) \in opened
                        /\ Name(opt, core) \in DOMAIN traces
                        /\ traces[Name(opt, core)].stream = opt.stream
    /\ xpc = "meta" => core = opt.cores
    /\ Readable => meta \in Options
    /\ \A f \in DOMAIN traces : traces[f] \in Traces
    /\ MetaDescribesFiles

\* Inductive with FilesInv: the traces that were not opened since are there for
\* the sweep as meta.json described them, and so is what it has read of them.
ReadInv ==
    /\ spc \in {"idle", "check", "read"}
    /\ grid \in Seq(Nat) /\ pos \in Nat \ {0}
    /\ spc # "idle" =>
        /\ claim \in Options
        /\ xpc = "trace" => Copy(opt, core) \in replaced
        /\ \A c \in 0 .. claim.cores - 1 :
            Copy(claim, c) \notin replaced => Holds(claim, c)
    /\ spc = "check" => used = <<>> /\ rows = <<>>
    /\ spc = "read" =>
        /\ \A c \in 0 .. claim.cores - 1 : Named(c) \in DOMAIN traces
        /\ Enough
        /\ \A n \in DOMAIN used : Described(used, n)
    /\ used \in Seq(Traces) /\ rows \in Seq([cores : Nat, used : Seq(Traces)])
    /\ RowsMeasureDescribed
===============================================================================
