--------------------------- MODULE MCAutoFallback ---------------------------
(* Instance of AutoFallback for TLC: provider p has the models a and b,       *)
(* provider q has c.                                                          *)
EXTENDS AutoFallback, TLC

CONSTANTS a, b, c, p, q

MCModel == {a, b, c}
MCProvider == {p, q}
MCProviderOf == (a :> p) @@ (b :> p) @@ (c :> q)
MCRank == (a :> 1) @@ (b :> 2) @@ (c :> 3)
============================================================================
