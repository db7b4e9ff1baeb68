-------------------------- MODULE MCIncidentCenter --------------------------
(* IncidentCenter on an instance that TLC can exhaust.                      *)
EXTENDS IncidentCenter, TLC

CONSTANTS k1, k2

\* The second kind occurs among events of the first.
KindOfEvent == 1 :> k1 @@ 2 :> k2 @@ 3 :> k1 @@ 4 :> k1
=============================================================================
