---------------------------- MODULE MCKvLogExpand -----------------------------
(* Up to four passes of a two-layer model, prefill and decode in any order,   *)
(* the capture stopped anywhere.                                              *)
EXTENDS KvLogExpand
===============================================================================
