----------------------------- MODULE MCFileLock -----------------------------
(***************************************************************************)
(* FileLock for TLC: two processes, one of them with two calls in flight.  *)
(***************************************************************************)
EXTENDS FileLock, TLC

CONSTANTS c1, c2, c3, p1, p2

MCHostShared == (c1 :> p1) @@ (c2 :> p1) @@ (c3 :> p2)
=============================================================================
