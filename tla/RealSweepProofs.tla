--------------------------- MODULE RealSweepProofs ----------------------------
(* meta.json and the traces it names, for any options and number of runs.     *)
EXTENDS RealSweep, TLAPS

(* Writing one file.                                                          *)
LEMMA PutFacts ==
    ASSUME NEW name, NEW trace, Put(name, trace)
    PROVE  /\ DOMAIN traces' = DOMAIN traces \cup {name}
           /\ traces'[name] = trace
           /\ \A f \in DOMAIN traces : f # name => traces'[f] = traces[f]
BY DEF Put

LEMMA OptionFacts ==
    ASSUME NEW o \in Options
    PROVE  /\ o.cores \in Nat \ {0} /\ o.passes \in Nat \ {0}
           /\ o # None /\ o # Cut
           /\ Whole(o) \in Traces
BY RealSweepAssumption DEF None, Cut, Whole, Traces

(* Traces of different cores, or of runs of different numbers of passes, have *)
(* names of their own.                                                        *)
LEMMA NamesDiffer ==
    ASSUME NEW o, NEW c, NEW p, NEW d, Copy(o, c) # Copy(p, d)
    PROVE  Name(o, c) # Name(p, d)
BY DEF Name, Copy

(* A trace put in place of one copy leaves the others alone.                  *)
LEMMA HoldsKept ==
    ASSUME NEW o, NEW c, Copy(o, c) # Copy(opt, core),
           NEW trace, Put(Name(opt, core), trace), Holds(o, c)
    PROVE  /\ Name(o, c) \in DOMAIN traces'
           /\ traces'[Name(o, c)] = Whole(o)
<1>1. Name(o, c) # Name(opt, core)
  BY NamesDiffer
<1> QED
  BY <1>1, PutFacts DEF Holds

(* Every trace put into a file of the right type keeps the files typed.       *)
LEMMA TypesKept ==
    ASSUME NEW name, NEW trace \in Traces, Put(name, trace),
           \A f \in DOMAIN traces : traces[f] \in Traces
    PROVE  \A f \in DOMAIN traces' : traces'[f] \in Traces
<1> SUFFICES ASSUME NEW f \in DOMAIN traces' PROVE traces'[f] \in Traces
  OBVIOUS
<1>1. CASE f = name
  BY <1>1, PutFacts
<1>2. CASE f # name
  <2>1. /\ DOMAIN traces' = DOMAIN traces \cup {name}
        /\ \A g \in DOMAIN traces : g # name => traces'[g] = traces[g]
    BY PutFacts
  <2>2. f \in DOMAIN traces /\ traces'[f] = traces[f]
    BY <1>2, <2>1
  <2> QED
    BY <2>2
<1> QED
  BY <1>1, <1>2

LEMMA TraceTyped ==
    ASSUME opt \in Options, NEW n \in Nat
    PROVE  Trace(n) \in Traces /\ Trace(n).stream = opt.stream
BY DEF Trace, Traces

-------------------------------------------------------------------------------
(* The expander: one lemma per action.                                        *)
LEMMA InitFiles == Init => FilesInv
BY DEF Init, FilesInv, MetaDescribesFiles, Readable

LEMMA StartExpandFiles == ASSUME FilesInv, StartExpand PROVE FilesInv'
<1>1. opt' \in Options /\ core' \in 0 .. opt'.cores /\ 0 .. core' - 1 = {}
  BY OptionFacts DEF StartExpand
<1>2. MetaDescribesFiles'
  BY DEF StartExpand, FilesInv, MetaDescribesFiles, Readable, files, Holds, Name,
     Copy, Whole
<1> QED
  BY <1>1, <1>2 DEF StartExpand, FilesInv, files, Readable

(* Putting the trace of the current core, once it counts as opened, disturbs  *)
(* neither what meta.json describes nor the closed traces of the run.         *)
LEMMA PutKeeps ==
    ASSUME FilesInv, NEW trace \in Traces, Put(Name(opt, core), trace),
           opt \in Options, core \in 0 .. opt.cores,
           opt' = opt, core' = core, meta' = meta,
           opened \subseteq opened', Copy(opt, core) \in opened',
           xpc \in {"next", "trace"}
    PROVE  /\ \A c \in 0 .. core - 1 : Holds(opt, c)'
           /\ \A f \in DOMAIN traces' : traces'[f] \in Traces
           /\ MetaDescribesFiles'
<1>1. ASSUME NEW c \in 0 .. core - 1 PROVE Holds(opt, c)'
  <2>1. Holds(opt, c)
    BY DEF FilesInv
  <2>2. Copy(opt, c) # Copy(opt, core)
    <3>1. c # core
      BY OptionFacts
    <3> QED
      BY <3>1 DEF Copy
  <2> QED
    BY <2>1, <2>2, HoldsKept DEF Holds, Name, Whole
<1>2. \A f \in DOMAIN traces' : traces'[f] \in Traces
  BY TypesKept DEF FilesInv
<1>3. MetaDescribesFiles'
  <2> SUFFICES ASSUME Readable, NEW c \in 0 .. meta.cores - 1,
                      Copy(meta, c) \notin opened'
               PROVE  Holds(meta, c)'
    BY DEF MetaDescribesFiles, Readable, Copy
  <2>1. Holds(meta, c)
    BY DEF FilesInv, MetaDescribesFiles
  <2>2. Copy(meta, c) # Copy(opt, core)
    OBVIOUS
  <2> QED
    BY <2>1, <2>2, HoldsKept DEF Holds, Name, Whole
<1> QED
  BY <1>1, <1>2, <1>3

LEMMA OpenTraceFiles == ASSUME FilesInv, OpenTrace PROVE FilesInv'
<1>1. /\ opt \in Options /\ core \in 0 .. opt.cores /\ core < opt.cores
      /\ Put(Name(opt, core), Trace(0)) /\ xpc = "next" /\ xpc' = "trace"
      /\ opt' = opt /\ core' = core /\ meta' = meta
      /\ opened' = opened \cup {Copy(opt, core)}
  BY DEF FilesInv, OpenTrace, Opened
<1>2. Trace(0) \in Traces /\ Trace(0).stream = opt.stream
  BY <1>1, TraceTyped
<1>3. /\ \A c \in 0 .. core - 1 : Holds(opt, c)'
      /\ \A f \in DOMAIN traces' : traces'[f] \in Traces
      /\ MetaDescribesFiles'
  BY <1>1, <1>2, PutKeeps
<1>4. Name(opt, core) \in DOMAIN traces' /\ traces'[Name(opt, core)].stream = opt.stream
  BY <1>1, <1>2, PutFacts
<1> QED
  BY <1>1, <1>3, <1>4 DEF FilesInv, Readable, Name, Copy

LEMMA WritePassFiles == ASSUME FilesInv, WritePass PROVE FilesInv'
<1>1. /\ opt \in Options /\ core \in 0 .. opt.cores /\ core < opt.cores
      /\ Put(Name(opt, core), Trace(Written + 1)) /\ xpc = "trace" /\ xpc' = "trace"
      /\ opt' = opt /\ core' = core /\ meta' = meta
      /\ opened' = opened /\ Copy(opt, core) \in opened
  BY DEF FilesInv, WritePass, expander
<1>2. Written \in Nat
  BY <1>1 DEF FilesInv, Written, Traces
<1>3. Trace(Written + 1) \in Traces /\ Trace(Written + 1).stream = opt.stream
  BY <1>1, <1>2, TraceTyped
<1>4. /\ \A c \in 0 .. core - 1 : Holds(opt, c)'
      /\ \A f \in DOMAIN traces' : traces'[f] \in Traces
      /\ MetaDescribesFiles'
  BY <1>1, <1>3, PutKeeps
<1>5. Name(opt, core) \in DOMAIN traces' /\ traces'[Name(opt, core)].stream = opt.stream
  BY <1>1, <1>3, PutFacts
<1> QED
  BY <1>1, <1>4, <1>5 DEF FilesInv, Readable, Name, Copy

LEMMA CloseTraceFiles == ASSUME FilesInv, CloseTrace PROVE FilesInv'
<1>1. /\ opt \in Options /\ core \in 0 .. opt.cores /\ core < opt.cores
      /\ opt.cores \in Nat /\ core \in Nat
      /\ traces' = traces /\ xpc' = "next" /\ opened' = opened
      /\ opt' = opt /\ core' = core + 1 /\ meta' = meta
  <2>1. opt \in Options /\ core \in 0 .. opt.cores /\ core < opt.cores
    BY DEF FilesInv, CloseTrace
  <2>2. opt.cores \in Nat /\ core \in Nat
    BY <2>1, OptionFacts
  <2> QED
    BY <2>1, <2>2 DEF CloseTrace, files
<1>2. Holds(opt, core)
  <2>1. /\ Name(opt, core) \in DOMAIN traces
        /\ traces[Name(opt, core)].stream = opt.stream
        /\ traces[Name(opt, core)].passes = opt.passes
        /\ traces[Name(opt, core)] \in Traces
    BY DEF FilesInv, CloseTrace, Written
  <2>2. \A t \in Traces : t = [stream |-> t.stream, passes |-> t.passes]
    BY DEF Traces
  <2> QED
    BY <2>1, <2>2 DEF Holds, Whole
<1>3. ASSUME NEW c \in 0 .. core' - 1 PROVE Holds(opt, c)'
  <2>1. c \in 0 .. core - 1 \/ c = core
    BY <1>1
  <2>2. Holds(opt, c)
    BY <1>2, <2>1 DEF FilesInv, CloseTrace
  <2> QED
    BY <1>1, <2>2 DEF Holds, Name, Whole
<1>4. MetaDescribesFiles' /\ core' \in 0 .. opt'.cores
  BY <1>1 DEF FilesInv, MetaDescribesFiles, Readable, Copy, Holds, Name, Whole
<1> QED
  BY <1>1, <1>3, <1>4 DEF FilesInv, Readable

LEMMA OpenMetaFiles == ASSUME FilesInv, OpenMeta PROVE FilesInv'
<1>1. \A c : Holds(opt, c)' <=> Holds(opt, c)
  BY DEF OpenMeta, Holds, Name, Whole
<1>2. MetaDescribesFiles' /\ ~Readable'
  BY DEF OpenMeta, MetaDescribesFiles, Readable
<1> QED
  BY <1>1, <1>2 DEF OpenMeta, FilesInv

LEMMA CloseMetaFiles == ASSUME FilesInv, CloseMeta PROVE FilesInv'
<1>1. /\ opt \in Options /\ core = opt.cores /\ meta' = opt /\ xpc' = "idle"
      /\ traces' = traces
      /\ \A c \in 0 .. core - 1 : Holds(opt, c)
  BY DEF FilesInv, CloseMeta
<1>2. MetaDescribesFiles'
  BY <1>1 DEF MetaDescribesFiles, Holds, Name, Whole
<1> QED
  BY <1>1, <1>2 DEF FilesInv, Readable

\* The steps that leave the traces, meta.json and what was opened alone, and
\* start nothing.
Elsewhere == /\ UNCHANGED <<files, opt, core, opened>>
             /\ xpc' = xpc \/ xpc' = "idle"

LEMMA ElsewhereFiles == ASSUME FilesInv, Elsewhere PROVE FilesInv'
<1>1. \A o, c : Holds(o, c)' <=> Holds(o, c)
  BY DEF Elsewhere, files, Holds, Name, Whole
<1>2. MetaDescribesFiles'
  BY <1>1 DEF Elsewhere, FilesInv, MetaDescribesFiles, Readable, files, Holds, Name,
     Copy, Whole
<1>3. xpc' # "idle" => \A c \in 0 .. core' - 1 : Holds(opt, c)'
  BY <1>1 DEF Elsewhere, FilesInv
<1>4. xpc' = "trace" => /\ core' < opt'.cores /\ Copy(opt, core)' \in opened'
                        /\ Name(opt, core)' \in DOMAIN traces'
                        /\ traces'[Name(opt, core)'].stream = opt'.stream
  BY DEF Elsewhere, FilesInv, files, Copy, Name
<1> QED
  BY <1>2, <1>3, <1>4 DEF Elsewhere, FilesInv, files, Readable

LEMMA FilesStep == FilesInv /\ [Next]_vars => FilesInv'
<1>1. ASSUME DieExpand \/ ReadMeta \/ Sweep \/ DieSweep \/ NoMoreRuns \/ UNCHANGED vars
      PROVE  Elsewhere
  BY <1>1 DEF DieExpand, ReadMeta, Sweep, DieSweep, NoMoreRuns, vars, Elsewhere,
     CheckFiles, ReadTrace, WriteRow, EndSweep, files, expander
<1> QED
  BY <1>1, StartExpandFiles, OpenTraceFiles, WritePassFiles, CloseTraceFiles,
     OpenMetaFiles, CloseMetaFiles, ElsewhereFiles DEF Next, Expand

(* A meta.json that can be read describes every trace it names but those a    *)
(* later run, still writing or dead, has opened.                              *)
THEOREM MetaDescribesFilesCorrect == Spec => []MetaDescribesFiles
<1>1. FilesInv => MetaDescribesFiles
  BY DEF FilesInv
<1> QED
  BY <1>1, InitFiles, FilesStep, PTL DEF Spec

-------------------------------------------------------------------------------
(* The sweep.  Its own variables are out of the expander's reach, no file is  *)
(* ever removed, and what the expander changes it has opened since.           *)
RowRecords == [cores : Nat, used : Seq(Traces)]

LEMMA InitRead == Init => ReadInv
<1> SUFFICES ASSUME Init PROVE ReadInv
  OBVIOUS
<1>1. grid \in Seq(Nat) /\ used \in Seq(Traces) /\ rows \in Seq(RowRecords)
      /\ DOMAIN rows = {}
  BY DEF Init
<1> QED
  BY <1>1 DEF Init, ReadInv, RowsMeasureDescribed, RowRecords

\* What a step of the expander does to the sweep.
Spared == /\ UNCHANGED sweep
          /\ DOMAIN traces \subseteq DOMAIN traces'
          /\ replaced \subseteq replaced'
          /\ spc # "idle" /\ xpc' = "trace" => Copy(opt', core') \in replaced'
          /\ \A c : spc # "idle" /\ Copy(claim, c) \notin replaced' /\ Holds(claim, c) =>
                        /\ Name(claim, c) \in DOMAIN traces'
                        /\ traces'[Name(claim, c)] = Whole(claim)

LEMMA ExpandSpares ==
    ASSUME FilesInv, ReadInv, StartExpand \/ Expand \/ DieExpand
    PROVE  Spared
<1>1. CASE StartExpand \/ CloseTrace \/ OpenMeta \/ CloseMeta \/ DieExpand
  <2>1. UNCHANGED <<sweep, traces, replaced>> /\ xpc' # "trace"
    BY <1>1 DEF StartExpand, CloseTrace, OpenMeta, CloseMeta, DieExpand, files
  <2> QED
    BY <2>1 DEF Spared, Holds
<1>2. ASSUME NEW trace, Put(Name(opt, core), trace), UNCHANGED <<sweep, opt, core>>,
             replaced \subseteq replaced',
             spc # "idle" => Copy(opt, core) \in replaced'
      PROVE  Spared
  <2>1. DOMAIN traces \subseteq DOMAIN traces'
    BY <1>2, PutFacts
  <2>2. ASSUME NEW c, spc # "idle", Copy(claim, c) \notin replaced', Holds(claim, c)
        PROVE  /\ Name(claim, c) \in DOMAIN traces'
               /\ traces'[Name(claim, c)] = Whole(claim)
    <3>1. Copy(claim, c) # Copy(opt, core)
      BY <1>2, <2>2
    <3> QED
      BY <1>2, <2>2, <3>1, HoldsKept
  <2> QED
    BY <1>2, <2>1, <2>2 DEF Spared
<1>3. CASE OpenTrace
  BY <1>2, <1>3 DEF OpenTrace, Opened
<1>4. CASE WritePass
  BY <1>2, <1>4 DEF WritePass, ReadInv, expander
<1> QED
  BY <1>1, <1>3, <1>4 DEF Expand

LEMMA SparedRead == ASSUME ReadInv, Spared PROVE ReadInv'
<1>1. /\ spc' = spc /\ claim' = claim /\ grid' = grid /\ pos' = pos
      /\ used' = used /\ rows' = rows /\ replaced \subseteq replaced'
  BY DEF Spared, sweep
<1>2. \A u, n : Described(u, n) => Described(u, n)'
  BY <1>1 DEF Described, Whole, Copy
<1>3. RowsMeasureDescribed'
  BY <1>1, <1>2 DEF ReadInv, RowsMeasureDescribed
<1>4. spc' = "read" => \A c \in 0 .. claim'.cores - 1 : Named(c)' \in DOMAIN traces'
  BY <1>1 DEF Spared, ReadInv, Named, Name
<1>5. Enough' <=> Enough
  BY <1>1 DEF Enough
<1>6. spc' # "idle" => \A c \in 0 .. claim'.cores - 1 :
            Copy(claim, c)' \notin replaced' => Holds(claim, c)'
  BY <1>1 DEF Spared, ReadInv, Copy, Holds, Name, Whole
<1>7. spc' # "idle" /\ xpc' = "trace" => Copy(opt, core)' \in replaced'
  BY <1>1 DEF Spared, Copy
<1>8. spc' = "read" => \A n \in DOMAIN used' : Described(used, n)'
  BY <1>1, <1>2 DEF ReadInv
<1> QED
  BY <1>1, <1>3, <1>4, <1>5, <1>6, <1>7, <1>8 DEF ReadInv

LEMMA ReadMetaRead == ASSUME FilesInv, ReadInv, ReadMeta PROVE ReadInv'
<1>1. <<>> \in Seq(Traces) /\ <<>> \in Seq(RowRecords)
  OBVIOUS
<1>2. /\ grid' \in Seq(Nat) /\ pos' = 1 /\ used' = <<>> /\ rows' = <<>>
      /\ traces' = traces /\ xpc' = xpc /\ opt' = opt /\ core' = core
      /\ replaced' = opened /\ spc = "idle"
  <2>1. \A g \in Grids : g \in Seq(Nat)
    BY RealSweepAssumption
  <2> QED
    BY <2>1 DEF ReadMeta, files, expander
<1>3. \/ spc' = "check" /\ claim' = meta /\ Readable
      \/ spc' = "idle"
  BY <1>2 DEF ReadMeta
<1>4. RowsMeasureDescribed'
  BY <1>2 DEF RowsMeasureDescribed
<1>5. spc' # "idle" =>
        /\ claim' \in Options
        /\ xpc' = "trace" => Copy(opt, core)' \in replaced'
        /\ \A c \in 0 .. claim'.cores - 1 :
            Copy(claim, c)' \notin replaced' => Holds(claim, c)'
  <2> SUFFICES ASSUME spc' # "idle"
               PROVE  /\ claim' \in Options
                      /\ xpc' = "trace" => Copy(opt, core)' \in replaced'
                      /\ \A c \in 0 .. claim'.cores - 1 :
                          Copy(claim, c)' \notin replaced' => Holds(claim, c)'
    OBVIOUS
  <2>1. claim' = meta /\ Readable
    BY <1>3
  <2>2. claim' \in Options
    BY <2>1 DEF FilesInv
  <2>3. xpc' = "trace" => Copy(opt, core)' \in replaced'
    BY <1>2 DEF FilesInv, Copy
  <2>4. \A c \in 0 .. meta.cores - 1 : Copy(meta, c) \notin opened => Holds(meta, c)
    BY <2>1 DEF FilesInv, MetaDescribesFiles
  <2> QED
    BY <1>2, <2>1, <2>2, <2>3, <2>4 DEF Copy, Holds, Name, Whole
<1>6. spc' \in {"idle", "check"} /\ pos' \in Nat \ {0}
  BY <1>2, <1>3
<1> QED
  BY <1>1, <1>2, <1>4, <1>5, <1>6 DEF ReadInv, RowRecords

\* What a step of the sweep leaves alone.
Apart == UNCHANGED <<files, expander, claim, grid, opened, replaced>>

LEMMA ApartFacts ==
    ASSUME Apart
    PROVE  /\ \A c : Named(c)' = Named(c)
           /\ \A c : Copy(claim, c)' = Copy(claim, c)
           /\ \A c : Holds(claim, c)' <=> Holds(claim, c)
           /\ \A u, n : Described(u, n)' <=> Described(u, n)
           /\ (Enough' <=> Enough)
           /\ traces' = traces /\ claim' = claim /\ grid' = grid
           /\ replaced' = replaced /\ xpc' = xpc /\ Copy(opt, core)' = Copy(opt, core)
BY DEF Apart, files, expander, Named, Name, Enough, Whole, Copy, Holds, Described

LEMMA CheckFilesRead == ASSUME ReadInv, CheckFiles PROVE ReadInv'
<1>1. Apart /\ spc = "check" /\ used' = used /\ rows' = rows /\ pos' = pos
      /\ used = <<>> /\ rows = <<>>
  BY DEF CheckFiles, Apart, files, expander, ReadInv
<1>2. spc' = "read" => Enough /\ \A c \in 0 .. claim.cores - 1 : Named(c) \in DOMAIN traces
  BY DEF CheckFiles
<1>3. spc' \in {"read", "idle"}
  BY DEF CheckFiles
<1>4. RowsMeasureDescribed'
  BY <1>1 DEF RowsMeasureDescribed
<1>5. spc' = "read" => \A c \in 0 .. claim'.cores - 1 : Named(c)' \in DOMAIN traces'
  BY <1>1, <1>2, ApartFacts
<1>6. DOMAIN used' = {}
  BY <1>1
<1> QED
  BY <1>1, <1>2, <1>3, <1>4, <1>5, <1>6, ApartFacts DEF ReadInv

LEMMA ReadTraceRead == ASSUME FilesInv, ReadInv, ReadTrace PROVE ReadInv'
<1> DEFINE c == Len(used)
           trace == traces[Named(c)]
<1>1. Apart /\ spc = "read" /\ spc' = "read" /\ rows' = rows /\ pos' = pos
      /\ used' = Append(used, trace)
  BY DEF ReadTrace, Apart, files, expander
<1>2. claim \in Options /\ claim.cores \in Nat /\ used \in Seq(Traces) /\ c \in Nat
  BY <1>1, OptionFacts DEF ReadInv
<1>3. c \in 0 .. claim.cores - 1
  <2>1. grid \in Seq(Nat) /\ pos \in Nat \ {0} /\ pos <= Len(grid) /\ c < grid[pos]
    BY DEF ReadTrace, ReadInv, InGrid
  <2>2. pos \in DOMAIN grid /\ grid[pos] \in Nat
    BY <2>1
  <2>3. grid[pos] <= claim.cores
    BY <1>1, <2>2 DEF ReadInv, Enough
  <2> QED
    BY <1>2, <2>1, <2>2, <2>3
<1>4. trace \in Traces
  BY <1>1, <1>3 DEF ReadInv, FilesInv
<1>5. Copy(claim, c) \notin replaced => trace = Whole(claim)
  BY <1>1, <1>3 DEF ReadInv, Holds, Named
<1>6. /\ used' \in Seq(Traces)
      /\ \A n \in DOMAIN used' : \/ n \in DOMAIN used /\ used'[n] = used[n]
                                 \/ n = c + 1 /\ used'[n] = trace
  <2> HIDE DEF trace
  <2> QED
    BY <1>1, <1>2, <1>4
<1>7. ASSUME NEW n \in DOMAIN used' PROVE Described(used', n)
  <2>1. CASE n \in DOMAIN used /\ used'[n] = used[n]
    BY <1>1, <2>1 DEF ReadInv, Described
  <2>2. CASE n = c + 1 /\ used'[n] = trace
    <3>1. n - 1 = c
      BY <1>2, <2>2
    <3> HIDE DEF c, trace
    <3> QED
      BY <1>5, <2>2, <3>1 DEF Described
  <2> QED
    BY <1>6, <2>1, <2>2
<1> HIDE DEF c, trace
<1>8. \A n \in DOMAIN used' : Described(used, n)'
  <2>1. \A n : Described(used, n)' <=> Described(used', n)
    BY <1>1, ApartFacts DEF Described, Whole, Copy
  <2> QED
    BY <1>7, <2>1
<1>9. RowsMeasureDescribed'
  BY <1>1, ApartFacts DEF ReadInv, RowsMeasureDescribed
<1>10. \A d \in 0 .. claim'.cores - 1 : Named(d)' \in DOMAIN traces'
  BY <1>1, ApartFacts DEF ReadInv
<1> QED
  BY <1>1, <1>6, <1>8, <1>9, <1>10, ApartFacts DEF ReadInv

LEMMA WriteRowRead == ASSUME ReadInv, WriteRow PROVE ReadInv'
<1> DEFINE row == [cores |-> grid[pos], used |-> used]
<1>1. Apart /\ spc = "read" /\ spc' = "read" /\ rows' = Append(rows, row)
      /\ used' = <<>> /\ pos' = pos + 1 /\ Len(used) = grid[pos]
  BY DEF WriteRow, Apart, files, expander
<1>2. row \in RowRecords /\ rows \in Seq(RowRecords) /\ pos' \in Nat \ {0}
  <2>1. used \in Seq(Traces) /\ Len(used) \in Nat /\ rows \in Seq(RowRecords)
        /\ pos \in Nat \ {0}
    BY DEF ReadInv, RowRecords
  <2> QED
    BY <1>1, <2>1 DEF RowRecords
<1>3. \A n \in DOMAIN row.used : Described(row.used, n)
  BY <1>1 DEF ReadInv
<1>4. Len(row.used) = row.cores
  BY <1>1
<1> HIDE DEF row
<1>5. /\ rows' \in Seq(RowRecords)
      /\ \A i \in DOMAIN rows' : (i \in DOMAIN rows /\ rows'[i] = rows[i]) \/ rows'[i] = row
  BY <1>1, <1>2
<1>6. RowsMeasureDescribed'
  <2> SUFFICES ASSUME NEW i \in DOMAIN rows'
               PROVE  /\ Len(rows'[i].used) = rows'[i].cores
                      /\ \A n \in DOMAIN rows'[i].used : Described(rows'[i].used, n)
    BY <1>1, ApartFacts DEF RowsMeasureDescribed, Described, Whole, Copy
  <2>1. CASE rows'[i] = row
    BY <1>3, <1>4, <2>1
  <2>2. CASE i \in DOMAIN rows /\ rows'[i] = rows[i]
    BY <2>2 DEF ReadInv, RowsMeasureDescribed
  <2> QED
    BY <1>5, <2>1, <2>2
<1>7. used' \in Seq(Traces) /\ DOMAIN used' = {}
  BY <1>1
<1>8. \A d \in 0 .. claim'.cores - 1 : Named(d)' \in DOMAIN traces'
  BY <1>1, ApartFacts DEF ReadInv
<1> QED
  BY <1>1, <1>2, <1>5, <1>6, <1>7, <1>8, ApartFacts DEF ReadInv, RowRecords

LEMMA StopRead == ASSUME ReadInv, EndSweep \/ DieSweep PROVE ReadInv'
<1>1. Apart /\ spc' = "idle" /\ used' = used /\ rows' = rows /\ pos' \in {pos}
  BY DEF EndSweep, DieSweep, Apart, files, expander
<1>2. RowsMeasureDescribed'
  BY <1>1, ApartFacts DEF ReadInv, RowsMeasureDescribed
<1> QED
  BY <1>1, <1>2, ApartFacts DEF ReadInv

LEMMA ReadStep == FilesInv /\ ReadInv /\ [Next]_vars => ReadInv'
<1>1. ASSUME FilesInv, ReadInv, NoMoreRuns \/ UNCHANGED vars PROVE Spared
  BY <1>1 DEF NoMoreRuns, vars, Spared, sweep, ReadInv, Holds
<1> QED
  BY <1>1, ExpandSpares, SparedRead, ReadMetaRead, CheckFilesRead, ReadTraceRead,
     WriteRowRead, StopRead DEF Next, Sweep

(* The sweep's invariant, together with the expander's.                       *)
THEOREM ReadCorrect == Spec => []ReadInv
BY InitFiles, FilesStep, InitRead, ReadStep, PTL DEF Spec

(* Every trace of a row that no run opened since meta.json was completed is   *)
(* the one meta.json described, whole and of its run.                         *)
THEOREM RowsMeasureDescribedCorrect == Spec => []RowsMeasureDescribed
<1>1. ReadInv => RowsMeasureDescribed
  BY DEF ReadInv
<1> QED
  BY <1>1, ReadCorrect, PTL
===============================================================================
