----------------------------- MODULE MCFileLock -----------------------------
(* Instances of FileLock for TLC: two processes with two callers each, or      *)
(* three processes, of which p has two callers.                                *)
EXTENDS FileLock, TLC

CONSTANTS p, q, r, p1, p2, q1, q2, r1

MCProcOf == (p1 :> p) @@ (p2 :> p) @@ (q1 :> q) @@ (q2 :> q)
MCProcOfThree == (p1 :> p) @@ (p2 :> p) @@ (q1 :> q) @@ (r1 :> r)
============================================================================
