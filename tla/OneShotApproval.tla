--------------------------- MODULE OneShotApproval ---------------------------
(***************************************************************************)
(* What the gateway promises about one approval, whatever the number of    *)
(* workers, retries and crashes: it is a one-time credential.  It is       *)
(* requested, a human grants it, and it then pays for exactly one order or *)
(* becomes void.  Nothing brings a spent or a void approval back, and the  *)
(* order a spent one paid for never changes.                               *)
(***************************************************************************)
CONSTANTS Approvals, Orders

VARIABLES
    credential, \* what an approval is worth
    paid        \* the orders it paid for

vars == <<credential, paid>>

Credentials == {"none", "requested", "granted", "spent", "void"}

Init ==
    /\ credential = [a \in Approvals |-> "none"]
    /\ paid = [a \in Approvals |-> {}]

Request(a) ==
    /\ credential[a] = "none"
    /\ credential' = [credential EXCEPT ![a] = "requested"]
    /\ UNCHANGED paid

Grant(a) ==
    /\ credential[a] = "requested"
    /\ credential' = [credential EXCEPT ![a] = "granted"]
    /\ UNCHANGED paid

\* One order is placed on the strength of the approval, its first and its last.
Spend(a) ==
    /\ credential[a] = "granted" /\ paid[a] = {}
    /\ \E o \in Orders : paid' = [paid EXCEPT ![a] = {o}]
    /\ credential' = [credential EXCEPT ![a] = "spent"]

\* Rejected, expired, or lost with the process that held them: a crash may
\* void the credentials of several requests at once.
Void(S) ==
    /\ \A a \in S : credential[a] \in {"requested", "granted"}
    /\ credential' = [a \in Approvals |-> IF a \in S THEN "void" ELSE credential[a]]
    /\ UNCHANGED paid

Next ==
    \/ \E a \in Approvals : Request(a) \/ Grant(a) \/ Spend(a)
    \/ \E S \in SUBSET Approvals : Void(S)

Spec == Init /\ [][Next]_vars
==============================================================================
