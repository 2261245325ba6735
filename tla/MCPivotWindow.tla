--------------------------- MODULE MCPivotWindow ---------------------------
(***************************************************************************)
(* PivotWindow for TLC: a required and a recommended task, two candidates  *)
(* of which the gate looks for one, a foreign row with a candidate's key   *)
(* and one with a key of its own.                                          *)
(***************************************************************************)
EXTENDS PivotWindow, TLC

CONSTANTS ingest, autopull, c1, c2, f1, f2

MCInventory == <<ingest, autopull>>
MCRival == (f1 :> c1) @@ (f2 :> NoCand)
=============================================================================
