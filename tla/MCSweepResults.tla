---------------------------- MODULE MCSweepResults ----------------------------
(* Two grids over the same output directory that overlap in one point, one of *)
(* them naming a point twice, and a core count of two digits that a cut turns *)
(* into that of another point; up to three invocations.                       *)
EXTENDS SweepResults

SmallGrids == {<<<<16, 1>>, <<16, 10>>, <<32, 1>>>>,
               <<<<32, 2>>, <<32, 2>>, <<16, 10>>>>}
===============================================================================
