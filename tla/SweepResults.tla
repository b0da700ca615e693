----------------------------- MODULE SweepResults -----------------------------
(* The results file of the three sweep programs, over several invocations in  *)
(* one output directory.  Each program measures the points of its grid one by *)
(* one and rewrites the whole CSV after each; the compute sweep starts from   *)
(* the rows it finds there, the other two from none.  Any step may raise or   *)
(* be killed, the rewrite included: it truncates the file first.              *)
EXTENDS Integers, Sequences, FiniteSets

CONSTANTS
    Scripts,    \* of "compute_sweep", "batch_sweep", "real_sweep"
    Grids,      \* the grids invocations ask for: sequences of keys
                \* <<compute or batch, cores>>, in the order of the loops
    MaxRuns     \* bound on the number of invocations

ASSUME SweepAssumption ==
    /\ Scripts \subseteq {"compute_sweep", "batch_sweep", "real_sweep"}
    /\ MaxRuns \in Nat
    /\ Grids \subseteq Seq(Nat \X Nat)

VARIABLES
    script,     \* the program run; each has a file of its own
    (* the process; lost when it ends *)
    pc,         \* "idle", "next", "ready", "write", "writing"
    grid, pos,  \* the loops, flattened
    rows,       \* rows measured or loaded: [key, run, whole], run being the
                \* invocation that measured the row, with options of its own
                \* (--gqa-emission, --inst-slack) that no column records
    done,       \* keys to skip (compute sweep)
    (* the file *)
    csv,        \* its intact rows
    torn,       \* it ends in a row cut inside its key
    (* observation *)
    runs,
    completed,  \* keys whose rewrite completed in this invocation
    published,  \* ... in any invocation
    cut,        \* some rewrite was cut
    finished    \* the last invocation ran to its end

process == <<grid, pos, rows, done>>
file == <<csv, torn>>
observed == <<runs, completed, published, cut, finished>>
vars == <<script, pc, grid, pos, rows, done, csv, torn, runs, completed,
          published, cut, finished>>

resumes == script = "compute_sweep"

Key == grid[pos]
Keys(s) == {s[i].key : i \in DOMAIN s}

Init ==
    /\ script \in Scripts
    /\ pc = "idle" /\ grid = <<>> /\ pos = 1 /\ rows = <<>> /\ done = {}
    /\ csv = <<>> /\ torn = FALSE
    /\ runs = 0 /\ completed = {} /\ published = {}
    /\ cut = FALSE /\ finished = FALSE

(* Loading int()s the key of every row: a cut key raises before the loop.     *)
\* Mutation: every program starts from the rows it finds.
Load_Always ==
    /\ rows' = csv
    /\ done' = IF resumes THEN Keys(csv) ELSE {}
\* Mutation: the keys to skip are not loaded.
Load_NoDone ==
    /\ rows' = IF resumes THEN csv ELSE <<>>
    /\ done' = {}
Load ==
    /\ rows' = IF resumes THEN csv ELSE <<>>
    /\ done' = IF resumes THEN Keys(csv) ELSE {}

Start ==
    /\ pc = "idle" /\ runs < MaxRuns
    /\ runs' = runs + 1
    /\ completed' = {} /\ finished' = FALSE
    /\ IF resumes /\ torn
       THEN UNCHANGED <<pc, process>>
       ELSE /\ grid' \in Grids
            /\ pos' = 1
            /\ Load
            /\ pc' = "next"
    /\ UNCHANGED <<script, file, published, cut>>

InGrid == pos <= Len(grid)

Skip ==
    /\ pc = "next" /\ InGrid /\ resumes /\ Key \in done
    /\ pos' = pos + 1
    /\ UNCHANGED <<script, pc, grid, rows, done, file, observed>>

(* The traces of one point; the real sweep finds them ready made.             *)
Generate ==
    /\ pc = "next" /\ InGrid /\ ~(resumes /\ Key \in done)
    /\ pc' = "ready"
    /\ UNCHANGED <<script, process, file, observed>>

(* build_sim, run_to_stats_file, parse_stats and summarize of one point.      *)
Measure ==
    /\ pc = "ready"
    /\ rows' = Append(rows, [key |-> Key, run |-> runs, whole |-> TRUE])
    /\ done' = IF resumes THEN done \cup {Key} ELSE done
    /\ pc' = "write"
    /\ UNCHANGED <<script, grid, pos, file, observed>>

Before(r, s) == \/ r.key[1] < s.key[1]
                \/ r.key[1] = s.key[1] /\ r.key[2] < s.key[2]

(* Python's sort is stable: a row goes behind every smaller one and behind    *)
(* those of the same key that came before it.                                 *)
Precedes(s, i, j) == Before(s[i], s[j]) \/ (i < j /\ ~Before(s[j], s[i]))
Rank(s, j) == Cardinality({i \in DOMAIN s : Precedes(s, i, j)}) + 1
InOrder(s) == [n \in 1 .. Len(s) |-> s[CHOOSE j \in DOMAIN s : Rank(s, j) = n]]

\* Mutation: the rows are written in the order they were measured.
Sorted_Not(s) == s
Sorted(s) == IF resumes THEN InOrder(s) ELSE s

OpenCsv ==
    /\ pc = "write"
    /\ rows' = Sorted(rows)
    /\ csv' = <<>> /\ torn' = FALSE
    /\ pc' = "writing"
    /\ UNCHANGED <<script, grid, pos, done, observed>>

\* Mutation: only the row just measured is written.
CloseCsv_LastOnly ==
    /\ pc = "writing"
    /\ csv' = <<rows[Len(rows)]>> /\ UNCHANGED torn
    /\ completed' = completed \cup {Key} /\ published' = published \cup {Key}
    /\ pos' = pos + 1 /\ pc' = "next"
    /\ UNCHANGED <<script, grid, rows, done, runs, cut, finished>>
\* Mutation: the loop advances twice after a write.
CloseCsv_AdvanceTwice ==
    /\ pc = "writing"
    /\ csv' = rows /\ UNCHANGED torn
    /\ completed' = completed \cup {Key} /\ published' = published \cup {Key}
    /\ pos' = pos + 2 /\ pc' = "next"
    /\ UNCHANGED <<script, grid, rows, done, runs, cut, finished>>
(* The file is complete.  The progress line that follows formats values that  *)
(* are None when the simulator recorded no cycles, and raises; the compute    *)
(* sweep has raised before, while dividing by them.                           *)
CloseCsv ==
    /\ pc = "writing"
    /\ csv' = rows /\ UNCHANGED torn
    /\ completed' = completed \cup {Key} /\ published' = published \cup {Key}
    /\ pos' = pos + 1
    /\ pc' \in IF resumes THEN {"next"} ELSE {"next", "idle"}
    /\ UNCHANGED <<script, grid, rows, done, runs, cut, finished>>

\* What is left of a number cut inside its digits (up to four of them).
CutDigits(n) == {n \div p : p \in {10, 100, 1000}} \ {0}

(* Killed, or out of disk, during the rewrite: a prefix is on disk, the row   *)
(* after it not there, cut before its second key (torn: int() will raise),    *)
(* cut inside the digits of that key, or cut inside its metrics.              *)
CutCsv ==
    /\ pc = "writing"
    /\ \E n \in 0 .. Len(rows) - 1 :
        LET prefix == SubSeq(rows, 1, n)
            key == rows[n + 1].key IN
        \/ csv' = prefix /\ torn' \in BOOLEAN
        \/ /\ \E cores \in CutDigits(key[2]) \cup {key[2]} :
                csv' = Append(prefix,
                              [key |-> <<key[1], cores>>,
                               run |-> rows[n + 1].run, whole |-> FALSE])
           /\ torn' = FALSE
    /\ cut' = TRUE
    /\ pc' = "idle"
    /\ UNCHANGED <<script, process, runs, completed, published, finished>>

(* sys.exit(1), an exception nothing catches, or a kill, outside the rewrite. *)
Die ==
    /\ pc \in {"next", "ready", "write"}
    /\ pc' = "idle"
    /\ UNCHANGED <<script, process, file, observed>>

Finish ==
    /\ pc = "next" /\ ~InGrid
    /\ pc' = "idle" /\ finished' = TRUE
    /\ UNCHANGED <<script, process, file, runs, completed, published, cut>>

Work == \/ Skip \/ Generate \/ Measure \/ OpenCsv \/ CloseCsv \/ Finish
NoMoreRuns == pc = "idle" /\ runs = MaxRuns /\ UNCHANGED vars

Next == Start \/ Work \/ CutCsv \/ Die \/ NoMoreRuns

Spec == Init /\ [][Next]_vars

-------------------------------------------------------------------------------
Rows == Seq([key : Nat \X Nat, run : 1 .. MaxRuns, whole : BOOLEAN])

TypeOK ==
    /\ script \in Scripts
    /\ pc \in {"idle", "next", "ready", "write", "writing"}
    /\ grid \in Grids \cup {<<>>} /\ pos \in 1 .. Len(grid) + 1
    /\ rows \in Rows /\ csv \in Rows
    /\ done \subseteq Nat \X Nat
    /\ torn \in BOOLEAN /\ cut \in BOOLEAN /\ finished \in BOOLEAN
    /\ runs \in 0 .. MaxRuns
    /\ completed \subseteq published /\ published \subseteq Nat \X Nat
    /\ pc \in {"ready", "write", "writing"} => InGrid

Running == pc # "idle"
\* What the program keeps for: the compute sweep for every invocation.
Lasting == IF resumes THEN published ELSE completed

(* Inductive: what is to last is in memory while the program runs and in the  *)
(* file while it does not write, and the keys to skip are those in memory.    *)
SweepInv ==
    /\ TypeOK
    /\ Running => runs >= 1
    /\ Running /\ resumes => done = Keys(rows)
    /\ pc = "ready" /\ resumes => Key \notin done
    /\ pc \in {"write", "writing"} => Key \in Keys(rows)
    /\ Running /\ ~cut => Lasting \subseteq Keys(rows)
    /\ pc # "writing" /\ ~cut => Lasting \subseteq Keys(csv)

(* Outside a rewrite, and as long as none was cut, the file holds every row   *)
(* completed by this invocation (core_batch_sweep) or by any (the compute     *)
(* sweep, whose results merge): failures elsewhere lose nothing written.      *)
CompletedRowsKept ==
    pc # "writing" /\ ~cut => Lasting \subseteq Keys(csv)

(* A re-run of the compute sweep measures only what is missing: no point that *)
(* was ever published is measured again unless a rewrite was cut.             *)
ReRunsOnlyFillGaps ==
    [][resumes /\ ~cut /\ pc = "ready" /\ pc' = "write" =>
        Key \notin published]_vars

(* The merged file has one whole row per key, in key order, whatever mixture  *)
(* of grids, duplicates in a grid, failures and cut rewrites came before.     *)
(* Only what a cut left of a row may repeat a key: cut inside the digits, it  *)
(* names another point, which may have a row or will be skipped for it; it is *)
(* sorted and written again among the whole rows from then on.                *)
OneRowPerKey ==
    resumes => \A i, j \in DOMAIN csv :
        i < j /\ csv[i].whole /\ csv[j].whole =>
            csv[i].key # csv[j].key /\ Before(csv[i], csv[j])

(* An invocation that runs to its end has a row for every point of its grid,  *)
(* also when earlier ones were cut; and whole rows when none was.             *)
FinishedIsComplete ==
    finished => \A i \in DOMAIN grid : \E j \in DOMAIN csv :
        csv[j].key = grid[i] /\ (cut \/ csv[j].whole)

(* The file mixes results of different options only where a merging sweep     *)
(* found them and never among the points this invocation completed: as soon   *)
(* as a sweep that does not merge has completed one point, nothing older is   *)
(* left.                                                                      *)
OlderRowsOnlyLoaded ==
    pc # "writing" /\ ~cut /\ completed # {} => \A i \in DOMAIN csv :
        csv[i].run = runs <=> (~resumes \/ csv[i].key \in completed)

\* Of the whole rows: in key order, with different keys.
InKeyOrder(s) == \A i, j \in DOMAIN s :
    i < j /\ s[i].whole /\ s[j].whole => Before(s[i], s[j])
OneEach(s) == \A i, j \in DOMAIN s :
    i # j /\ s[i].whole /\ s[j].whole => s[i].key # s[j].key
\* The points of the rows this invocation measured.
Mine == completed \cup (IF pc \in {"write", "writing"} THEN {Key} ELSE {})

(* Inductive with SweepInv: what memory and file hold besides the keys.       *)
FileInv ==
    /\ pc = "writing" => csv = <<>>
    /\ finished => pc = "idle"
    /\ pc \in {"next", "ready"} /\ (resumes \/ pos > 1) => csv = rows
    /\ Running => \A i \in 1 .. pos - 1 : grid[i] \in Keys(rows)
    /\ Running /\ ~cut => \A i \in DOMAIN rows :
        /\ rows[i].whole /\ rows[i].run <= runs
        /\ rows[i].run = runs <=> (~resumes \/ rows[i].key \in Mine)
    /\ ~cut => \A i \in DOMAIN csv : csv[i].whole /\ csv[i].run <= runs
    /\ Running /\ resumes => OneEach(rows)
    /\ resumes => InKeyOrder(IF pc = "writing" THEN rows ELSE csv)
    /\ FinishedIsComplete
    /\ OlderRowsOnlyLoaded

(* The rewrites implement a map to which results are published one by one     *)
(* (ResultStore), the opening of the file, with the row of the new point in   *)
(* memory, being the moment of publication.                                   *)
Measured(s) == [k \in Keys(s) |-> s[CHOOSE i \in DOMAIN s : s[i].key = k].run]

Store == INSTANCE ResultStore WITH
    Points <- UNION {{g[i] : i \in DOMAIN g} : g \in Grids}, Measurements <- 1 .. MaxRuns,
    merge <- resumes,
    store <- Measured(IF pc = "writing" THEN rows ELSE csv),
    mine <- completed \cup (IF pc = "writing" THEN {Key} ELSE {}),
    damaged <- cut

ImplementsResultStore == Store!Spec

\* Inductive with SweepInv and FileInv: what opening the file publishes.
StoreInv ==
    /\ pc = "write" =>
        rows = Append(IF resumes \/ pos > 1 THEN csv ELSE <<>>,
                      [key |-> Key, run |-> runs, whole |-> TRUE])
    /\ Running /\ pos = 1 => completed = {}
    /\ Running /\ ~resumes => Keys(rows) \subseteq Mine

(* run_kv_core_batch_sweep.py:432-433 says of the file: "rewritten after      *)
(* every completed run, so a hard fail mid-sweep keeps all rows completed so  *)
(* far".                                                                      *)
HardFailKeepsRows ==
    pc = "idle" => completed \subseteq Keys(csv)
===============================================================================
