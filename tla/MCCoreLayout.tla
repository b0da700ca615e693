----------------------------- MODULE MCCoreLayout -----------------------------
(* Lines of 4 bytes, regions aligned to 8, an address space of 64: up to four *)
(* cores of one to three lines, where layouts fit exactly, fit with room, and *)
(* overflow.  Bases and region overrides need not be aligned to a line.       *)
EXTENDS CoreLayout

Request(s, n, b, l, o, i) ==
    [script |-> s, n_cores |-> n, base |-> b, lines |-> l,
     region_size |-> o, insts |-> i, slack |-> 11]

BatchRequests ==
    {Request("batch_sweep", n, b, l, o, i) :
        n \in 1 .. 4, b \in {0, 6, 16}, l \in 1 .. 3, o \in {AutoSize, 4, 10, 12, 16},
        i \in {80, 100}}

UncheckedRequests ==
    {Request(s, n, b, l, AutoSize, 100) :
        s \in {"compute_sweep", "expand"}, n \in 1 .. 5, b \in {0, 6, 16},
        l \in 1 .. 3}

SmallRequests == BatchRequests \cup UncheckedRequests
===============================================================================
