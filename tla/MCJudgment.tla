----------------------------- MODULE MCJudgment -----------------------------
(***************************************************************************)
(* Judgment for TLC: two sessions, two attempts each, three runs of any    *)
(* mode and selection, each of which may be killed anywhere.               *)
(***************************************************************************)
EXTENDS Judgment

CONSTANTS s1, s2

MCOrder == <<s1, s2>>
=============================================================================
