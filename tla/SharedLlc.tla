------------------------------ MODULE SharedLlc -------------------------------
(* How the simulator's LLC (external: llc.cpp, as ram21.py:123-128 describes  *)
(* it) finds a line once the ways are chosen: the index is the line masked    *)
(* with sets - 1, the tag what remains above floor(log2 sets) bits.           *)
EXTENDS LlcAssoc, FiniteSets

CONSTANT Lines      \* lines 0 .. Lines - 1 are looked up

\* More than any cache holds, and LLC_DEFAULT_ASSOC is 8.
ASSUME LinesAssumption ==
    /\ Lines \in Nat /\ \A r \in Choices : r.n_cores * PerCoreLines <= Lines
    /\ IsPow2(DefaultWays)

sets == llc_lines \div ways

\* The bits of a number, each by its value; an index is the set of its bits.
Bits == {p \in 1 .. Lines : IsPow2(p)}
HasBit(m, p) == (m \div p) % 2 = 1

Index(line) == {p \in Bits : HasBit(line, p) /\ HasBit(sets - 1, p)}

\* 2 ^ floor(log2 sets).
TagUnit == CHOOSE p \in Bits : p <= sets /\ sets < 2 * p
Tag(line) == line \div TagUnit

(* A lookup of one line can hit on another: a false hit.                      *)
FalseHits ==
    Cardinality({<<Index(l), Tag(l)>> : l \in 0 .. Lines - 1}) < Lines

(* Distinct lines stay distinct in the LLC exactly when the set count is a    *)
(* power of two, which is so for every core count under 'auto' and for the    *)
(* power-of-two core counts under the default.                                *)
NoFalseHits ==
    pc = "built" /\ ways <= llc_lines =>
        /\ FalseHits <=> ~IsPow2(sets)
        /\ run.opt = "auto" => ~FalseHits
        /\ run.opt = "default" /\ IsPow2(run.n_cores) => ~FalseHits
===============================================================================
