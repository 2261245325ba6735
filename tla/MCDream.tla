------------------------------ MODULE MCDream ------------------------------
(***************************************************************************)
(* Dream for TLC.                                                          *)
(***************************************************************************)
EXTENDS Dream

CONSTANTS a, b, nightly, hand, insight, g1, g2
=============================================================================
