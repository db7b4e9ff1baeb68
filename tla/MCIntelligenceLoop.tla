------------------------- MODULE MCIntelligenceLoop -------------------------
(* IntelligenceLoop on an instance that TLC can exhaust.                    *)
EXTENDS IntelligenceLoop, TLC

CONSTANTS d1, d2, d3, s1, s2, c1, c2

\* d1 and d2 are reprints of one event by two sources.
SourceOf == d1 :> s1 @@ d2 :> s2 @@ d3 :> s1
ClusterOf == d1 :> c1 @@ d2 :> c1 @@ d3 :> c2
PricePath == 0 :> 10 @@ 1 :> 20 @@ 2 :> 10
Ranked == <<d2, d3, d1>>
=============================================================================
