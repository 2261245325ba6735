---------------------------- MODULE MCSideTables ----------------------------
(***************************************************************************)
(* SideTables for TLC.                                                     *)
(***************************************************************************)
EXTENDS SideTables

CONSTANTS m1, m2, m3, t1, t2, f1, f2, c1, c2

MCSays == [t \in {t1, t2} |-> IF t = t1 THEN {f1, f2} ELSE {f2}]
MCSymmetry == Permutations({c1, c2}) \cup Permutations({m2, m3})
=============================================================================
