----------------------------- MODULE MCSharedLlc ------------------------------
(* Up to 40 cores with 16 lines of LLC each: every way of combining an odd    *)
(* part with powers of two around the floor of 6 and the default of 8.  Core  *)
(* counts of zero and below are accepted too.                                 *)
EXTENDS SharedLlc

Choice(n, o, w) == [n_cores |-> n, opt |-> o, ways |-> w]

AllChoices ==
    {Choice(n, o, 1) : n \in -6 .. 40, o \in {"auto", "default"}}
        \cup {Choice(n, "int", w) : n \in -1 .. 12, w \in 1 .. 16}
===============================================================================
