----------------------------- MODULE MCRealSweep ------------------------------
(* Three runs of the expander and one of the sweep, anywhere between them:    *)
(* two streams under one name, fewer cores, another number of passes.         *)
EXTENDS RealSweep

SmallOptions == {[cores |-> 2, passes |-> 1, stream |-> "a"],
                 [cores |-> 2, passes |-> 1, stream |-> "b"],
                 [cores |-> 1, passes |-> 1, stream |-> "b"],
                 [cores |-> 2, passes |-> 2, stream |-> "a"]}
SmallGrids == {<<1, 2>>, <<2>>}
===============================================================================
