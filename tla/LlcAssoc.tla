------------------------------- MODULE LlcAssoc -------------------------------
(* Choosing the ways of the shared last-level cache.  The cache holds         *)
(* n_cores * PerCoreLines lines; its set count must come out a power of two   *)
(* or the simulator indexes it wrongly.  A run either leaves the default,     *)
(* passes --llc-associativity N, or asks for 'auto' (llc_auto_assoc); the     *)
(* compute sweep always asks for 'auto'.                                      *)
EXTENDS Integers

CONSTANTS
    PerCoreLines,   \* lines of LLC per core: 2 MB / 64 B
    DefaultWays,    \* LLC_DEFAULT_ASSOC
    Floor,          \* the default of llc_auto_assoc's floor
    WaysBound,      \* bound on the doubling of negative ways, which never ends
    Choices         \* the runs: [n_cores, opt, ways], ways for opt = "int"

\* No odd divisor but 1.
IsPow2(m) == m > 0 /\ \A d \in 2 .. m : m % d = 0 => d % 2 = 0

\* A core's share is 2^15 lines, which the floor of 6 ways is far below.
\* --cores takes any integer; nothing looks at its sign before the loops.
ASSUME LlcAssumption ==
    /\ PerCoreLines \in Nat \ {0} /\ DefaultWays \in Nat \ {0}
    /\ Floor \in 1 .. PerCoreLines /\ IsPow2(PerCoreLines)
    /\ WaysBound \in Nat
    /\ Choices \subseteq [n_cores : Int, opt : {"auto", "default", "int"},
                          ways : Nat \ {0}]

VARIABLES
    run,
    pc,         \* "halve", "double" (the two loops), "built"
    odd, ways

vars == <<run, pc, odd, ways>>

Init ==
    /\ run \in Choices
    /\ odd = run.n_cores
    /\ IF run.opt = "auto"
       THEN pc = "halve" /\ ways = 0
       ELSE pc = "built" /\ ways = IF run.opt = "int" THEN run.ways
                                                      ELSE DefaultWays

Halve ==
    /\ pc = "halve" /\ odd % 2 = 0
    /\ odd' = odd \div 2
    /\ UNCHANGED <<run, pc, ways>>

\* Mutation: the doubling starts from half the odd part.
StartDoubling_Half ==
    /\ pc = "halve" /\ odd % 2 # 0
    /\ ways' = odd \div 2
    /\ pc' = "double"
    /\ UNCHANGED <<run, odd>>
StartDoubling ==
    /\ pc = "halve" /\ odd % 2 # 0
    /\ ways' = odd
    /\ pc' = "double"
    /\ UNCHANGED <<run, odd>>

\* Mutations: one doubling too many; steps of one instead of doubling.
Double_Past ==
    /\ pc = "double" /\ ways >= -WaysBound
    /\ IF ways <= Floor THEN ways' = 2 * ways /\ UNCHANGED pc
                        ELSE pc' = "built" /\ UNCHANGED ways
    /\ UNCHANGED <<run, odd>>
Double_Increment ==
    /\ pc = "double" /\ ways >= -WaysBound
    /\ IF ways < Floor THEN ways' = ways + 1 /\ UNCHANGED pc
                       ELSE pc' = "built" /\ UNCHANGED ways
    /\ UNCHANGED <<run, odd>>
Double ==
    /\ pc = "double" /\ ways >= -WaysBound
    /\ IF ways < Floor THEN ways' = 2 * ways /\ UNCHANGED pc
                       ELSE pc' = "built" /\ UNCHANGED ways
    /\ UNCHANGED <<run, odd>>

Built == pc = "built" /\ UNCHANGED vars

\* Python's integers go on; the model stops here.
BeyondBound == pc = "double" /\ ways < -WaysBound /\ UNCHANGED vars

Next == Halve \/ StartDoubling \/ Double \/ Built \/ BeyondBound

Spec == Init /\ [][Next]_vars

(* Nothing else runs in the process.                                          *)
FairSpec == Spec /\ WF_vars(Halve \/ StartDoubling \/ Double)

-------------------------------------------------------------------------------
TypeOK ==
    /\ run \in Choices /\ pc \in {"halve", "double", "built"}
    /\ odd \in Int /\ ways \in Int
    /\ run.n_cores > 0 => odd \in 1 .. run.n_cores /\ ways >= 0

llc_lines == run.n_cores * PerCoreLines

\* Whole sets, and a power of two of them.
Pow2Sets(w) == llc_lines % w = 0 /\ IsPow2(llc_lines \div w)

(* What llc_auto_assoc's docstring (sim_constants.py:67-75) promises: the     *)
(* least number of ways, from the floor up, with a power of two of sets.      *)
(* The two loops compute it without ever looking at the cache's size.         *)
AutoIsMinimal ==
    pc = "built" /\ run.opt = "auto" =>
        /\ ways >= Floor /\ Pow2Sets(ways)
        /\ \A w \in Floor .. ways - 1 : ~Pow2Sets(w)

(* The loops of llc_auto_assoc end for every positive core count and for no   *)
(* other, which --cores accepts as well (run_compute_sweep.py asks for 'auto' *)
(* with every count, run_real_trace_sweep.py when told to): zero is halved    *)
(* for ever, a negative odd part doubled away from the floor.                 *)
NeverBuilt == run.opt = "auto" /\ run.n_cores <= 0
EndsForPositiveCounts ==
    /\ ~NeverBuilt => <>(pc = "built")
    /\ NeverBuilt => [](pc # "built")
===============================================================================
