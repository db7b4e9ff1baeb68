-------------------------------- MODULE Lists --------------------------------
(***************************************************************************)
(* Two computations on lists that the code does in several places: a       *)
(* comprehension with a condition, and a sum.  They are recursive          *)
(* functions, about which ListProofs can prove what they compute.          *)
(***************************************************************************)
EXTENDS Integers, Sequences

\* The elements of a list that are in a set, in their order.
Only(list, set) ==
    LET kept[n \in 0..Len(list)] ==
          IF n = 0 THEN <<>>
          ELSE IF list[n] \in set THEN Append(kept[n - 1], list[n]) ELSE kept[n - 1]
    IN kept[Len(list)]

\* The sum of a list of integers.
Total(list) ==
    LET total[n \in 0..Len(list)] == IF n = 0 THEN 0 ELSE total[n - 1] + list[n]
    IN total[Len(list)]
=============================================================================
