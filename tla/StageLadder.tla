----------------------------- MODULE StageLadder -----------------------------
(***************************************************************************)
(* What the governance of a strategy promises, whoever asks and however    *)
(* often: a candidate climbs the ladder one rung at a time, or leaves it   *)
(* for good; its evidence only grows; and each of the last rungs is        *)
(* reached with sufficient evidence and an approval that a human granted   *)
(* for this candidate.                                                     *)
(***************************************************************************)
CONSTANTS Above,      \* Above[r]: the rungs right above r
          Exits,      \* where a candidate leaves the ladder to
          Guarded,    \* the rungs that need evidence and an approval
          Sufficient  \* the sets of evidence that are enough for them

VARIABLES rung, evidence, granted

ladder == <<rung, evidence, granted>>

Init == rung = "DRAFT" /\ evidence = {} /\ granted = {}

\* A human grants an approval for this candidate.
Grant ==
    /\ granted \subseteq granted'
    /\ UNCHANGED <<rung, evidence>>

Climb ==
    /\ rung \notin Exits /\ rung' \in Above[rung]
    /\ evidence \subseteq evidence'
    /\ rung' \in Guarded => evidence' \in Sufficient /\ granted # {}
    /\ UNCHANGED granted

Withdraw ==
    /\ rung \notin Exits /\ rung' \in Exits
    /\ evidence \subseteq evidence'
    /\ UNCHANGED granted

Next == Grant \/ Climb \/ Withdraw

Spec == Init /\ [][Next]_ladder
==============================================================================
