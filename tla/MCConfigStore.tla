--------------------------- MODULE MCConfigStore ---------------------------
(* Instances of ConfigStore for TLC: p has two callers, q one; p1 and q1      *)
(* toggle the same provider.                                                  *)
EXTENDS ConfigStore, TLC

CONSTANTS p, q, p1, p2, q1, f, g

MCProcOf == (p1 :> p) @@ (p2 :> p) @@ (q1 :> q)
MCFieldOf == (p1 :> f) @@ (p2 :> g) @@ (q1 :> f)
============================================================================
