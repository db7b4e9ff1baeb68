------------------------ MODULE TradeExecutionProofs ------------------------
(***************************************************************************)
(* What holds of TradeExecution for every set of signals, every number of  *)
(* restarts and every combination of modes.                                *)
(***************************************************************************)
EXTENDS TradeExecution, ListProofs

\* The states of the machine, by name.
LEMMA StatusNames ==
  /\ Open = {"SIGNAL_RECEIVED", "PREVIEWED", "AWAITING_APPROVAL", "APPROVED_SUBMITTING",
             "PRE_SUBMIT_BLOCKED", "SUBMISSION_UNKNOWN", "SUBMITTED", "ACKNOWLEDGED",
             "PARTIALLY_FILLED", "FILLED"}
  /\ TaskStatus = Open \cup Terminal
BY DEF Open, TaskStatus, Transitions

\* What the state machine lets a task become, and from where.
LEMMA LegalFrom ==
  ASSUME NEW s \in Signals, NEW target, Legal(s, target)
  PROVE  /\ status[s] \in Open
         /\ target = "PREVIEWED" => status[s] = "SIGNAL_RECEIVED"
         /\ target = "AWAITING_APPROVAL" => status[s] = "PREVIEWED"
         /\ target = "APPROVED_SUBMITTING" => status[s] \in {"AWAITING_APPROVAL", "PRE_SUBMIT_BLOCKED"}
         /\ target \in {"REJECTED", "EXPIRED", "APPROVAL_UNKNOWN"} => status[s] = "AWAITING_APPROVAL"
         /\ target = "PRE_SUBMIT_BLOCKED" => status[s] = "APPROVED_SUBMITTING"
         /\ target = "PRE_SUBMIT_FAILED" =>
              status[s] \in {"SIGNAL_RECEIVED", "PREVIEWED", "AWAITING_APPROVAL",
                             "APPROVED_SUBMITTING", "PRE_SUBMIT_BLOCKED"}
         /\ target = "SUBMITTED" => status[s] \in {"APPROVED_SUBMITTING", "SUBMISSION_UNKNOWN"}
BY StatusNames DEF Legal, Transitions

\* The place of every action in Next.
LEMMA NextCases ==
  ASSUME [Next]_vars
  PROVE  \/ Tick
         \/ \E s \in Signals : Submission(s)
         \/ \E s \in Signals : Reconciliation(s)
         \/ \E s \in Signals : NewSignal(s)
         \/ \E s \in Signals : Others(s)
         \/ Restart
         \/ UNCHANGED vars
BY DEF Next, Bot

LEMMA InitType == Init => TypeOK
BY SignalsAssumption, StatusNames DEF Init, TypeOK, JournalStatus, OrderStatus, Steps, Answers, Unread

\* The loop variables.
LoopType == mode \in Modes /\ phase \in 0..6 /\ queue \subseteq Signals /\ pc \in Steps /\ answer \in Answers

LEMMA LoopTypes ==
  ASSUME TypeOK
  PROVE  /\ TickFails => LoopType'
         /\ \A s \in Signals : Leave(s) => LoopType'
         /\ \A step \in Steps : GoOn(step) => LoopType'
BY DEF TypeOK, LoopType, TickFails, Leave, GoOn, Steps, Answers

\* How the actions that move a task move it.
StatusMoved(s) == \/ status' = status
            \/ \E target \in TaskStatus : Set(s, target)

LEMMA MovedType ==
  ASSUME TypeOK, NEW s \in Signals, StatusMoved(s)
  PROVE  status' \in [Signals -> TaskStatus \cup {"absent"}]
BY DEF TypeOK, StatusMoved, Set

LEMMA MoveTypes ==
  ASSUME TypeOK, NEW s \in Signals,
         \/ QuarantineSubmission(s) \/ RetryBlocked(s) \/ CheckApproval(s)
         \/ ReconcileFill(s) \/ ReconcileAccount(s)
         \/ Previewed(s) \/ CheckLimits(s) \/ AwaitApproval(s)
  PROVE  TypeOK'
<1>1. /\ LoopType'
      /\ StatusMoved(s)
      /\ UNCHANGED <<current, intent, baseline, timer, remembered, gateway, restarts>>
  <2>1. CASE QuarantineSubmission(s)
    BY <2>1, LoopTypes, StatusNames DEF QuarantineSubmission, MoveThen, StatusMoved, Terminal
  <2>2. CASE RetryBlocked(s)
    BY <2>2, LoopTypes, StatusNames DEF RetryBlocked, MoveThen, StatusMoved, Steps, Terminal
  <2>3. CASE CheckApproval(s)
    BY <2>3, LoopTypes, StatusNames DEF CheckApproval, MoveThen, StatusMoved, Steps, Terminal
  <2>4. CASE ReconcileFill(s)
    BY <2>4, LoopTypes, StatusNames DEF ReconcileFill, MoveThen, StatusMoved, Steps, Terminal
  <2>5. CASE ReconcileAccount(s)
    BY <2>5, LoopTypes, StatusNames DEF ReconcileAccount, MoveThen, StatusMoved, Steps, Terminal
  <2>6. CASE Previewed(s)
    BY <2>6, LoopTypes, StatusNames DEF Previewed, MoveThen, StatusMoved, Steps
  <2>7. CASE CheckLimits(s)
    BY <2>7, LoopTypes, StatusNames DEF CheckLimits, MoveThen, StatusMoved, Steps, Terminal
  <2>8. CASE AwaitApproval(s)
    BY <2>8, LoopTypes, StatusNames DEF AwaitApproval, MoveThen, StatusMoved, Steps
  <2>9. QED
    BY <2>1, <2>2, <2>3, <2>4, <2>5, <2>6, <2>7, <2>8
<1>2. QED
  BY <1>1, MovedType DEF TypeOK, LoopType, gateway

LEMMA SubmissionType ==
  ASSUME TypeOK, NEW s \in Signals, Submission(s)
  PROVE  TypeOK'
<1> USE DEF TypeOK
<1>1. CASE QuarantineSubmission(s) \/ RetryBlocked(s) \/ CheckApproval(s)
  BY <1>1, MoveTypes
<1>2. CASE ResubmitUnknown(s) \/ RevalidateFails(s) \/ ResumeSubmitting(s) \/ Unavailable(s)
           \/ AdoptFails(s)
  <2>1. LoopType'
    BY <1>2, LoopTypes DEF ResubmitUnknown, RevalidateFails, ResumeSubmitting, Unavailable,
                           AdoptFails, Steps
  <2>2. UNCHANGED <<tasks, gateway, restarts>>
    BY <1>2 DEF ResubmitUnknown, RevalidateFails, ResumeSubmitting, Unavailable, AdoptFails
  <2>3. QED
    BY <2>1, <2>2 DEF tasks, gateway, LoopType
<1>3. CASE BuildIntent(s)
  BY <1>3 DEF BuildIntent, GoOn, gateway, Steps
<1>4. CASE Unreachable(s) \/ RefuseIntent(s) \/ KnownKey(s) \/ RefuseOrder(s) \/ Answered(s)
           \/ TimedOut(s)
  <2>1. \E ans \in Answers, entry \in JournalStatus : Reply(s, ans, entry)
    BY <1>4 DEF Unreachable, RefuseIntent, KnownKey, RefuseOrder, Answered, TimedOut, Freed,
                Answers, Outcomes, JournalStatus
  <2>2. QED
    BY <2>1 DEF Reply, tasks, Steps
<1>5. CASE AcceptOrder(s)
  BY <1>5 DEF AcceptOrder, tasks, Steps, JournalStatus
<1>6. CASE RecordRefusal(s)
  <2>1. LoopType' /\ StatusMoved(s)
    BY <1>6, LoopTypes, StatusNames DEF RecordRefusal, MoveThen, StatusMoved, Terminal, Outcomes
  <2>2. timer' \in [Signals -> {"off", "on", "over"}]
    BY <1>6 DEF RecordRefusal
  <2>3. UNCHANGED <<current, intent, baseline, remembered, gateway, restarts>>
    BY <1>6 DEF RecordRefusal
  <2>4. QED
    BY <2>1, <2>2, <2>3, MovedType DEF LoopType, gateway
<1>7. CASE RecordOrder(s) \/ AdoptOrder(s)
  <2>1. LoopType' /\ StatusMoved(s)
    BY <1>7, LoopTypes, StatusNames DEF RecordOrder, AdoptOrder, MoveThen, StatusMoved, Steps
  <2>2. timer' \in [Signals -> {"off", "on", "over"}]
    BY <1>7 DEF RecordOrder, AdoptOrder
  <2>3. UNCHANGED <<current, intent, baseline, remembered, gateway, restarts>>
    BY <1>7 DEF RecordOrder, AdoptOrder
  <2>4. QED
    BY <2>1, <2>2, <2>3, MovedType DEF LoopType, gateway
<1>8. QED
  BY <1>1, <1>2, <1>3, <1>4, <1>5, <1>6, <1>7 DEF Submission

LEMMA ReconciliationType ==
  ASSUME TypeOK, NEW s \in Signals, Reconciliation(s)
  PROVE  TypeOK'
<1>1. CASE ReconcileFill(s) \/ ReconcileAccount(s)
  BY <1>1, MoveTypes
<1>2. CASE OrderUnknown(s)
  <2>1. LoopType' /\ StatusMoved(s)
    BY <1>2, LoopTypes, StatusNames DEF OrderUnknown, MoveThen, StatusMoved, Terminal
  <2>2. timer' \in [Signals -> {"off", "on", "over"}]
    BY <1>2 DEF OrderUnknown, TypeOK
  <2>3. UNCHANGED <<current, intent, baseline, remembered, gateway, restarts>>
    BY <1>2 DEF OrderUnknown
  <2>4. QED
    BY <2>1, <2>2, <2>3, MovedType DEF LoopType, TypeOK, gateway
<1>3. QED
  BY <1>1, <1>2 DEF Reconciliation

LEMMA NewSignalType ==
  ASSUME TypeOK, NEW s \in Signals, NewSignal(s)
  PROVE  TypeOK'
<1> USE DEF TypeOK
<1>1. CASE Previewed(s) \/ CheckLimits(s) \/ AwaitApproval(s)
  BY <1>1, MoveTypes
<1>2. CASE SkipRemembered(s) \/ PreviewFails(s)
  <2>1. LoopType'
    BY <1>2, LoopTypes DEF SkipRemembered, PreviewFails
  <2>2. UNCHANGED <<tasks, gateway, restarts>>
    BY <1>2 DEF SkipRemembered, PreviewFails
  <2>3. QED
    BY <2>1, <2>2 DEF tasks, gateway, LoopType
<1>3. CASE GateSignal(s) \/ PreviewRefused(s) \/ RememberSignal(s)
  <2>1. LoopType' /\ StatusMoved(s) /\ remembered' \subseteq Signals
    BY <1>3, LoopTypes, StatusNames DEF GateSignal, PreviewRefused, RememberSignal, MoveThen,
                                        StatusMoved, Steps, Terminal
  <2>2. UNCHANGED <<current, intent, baseline, timer, gateway, restarts>>
    BY <1>3 DEF GateSignal, PreviewRefused, RememberSignal
  <2>3. QED
    BY <2>1, <2>2, MovedType DEF LoopType, gateway
<1>4. CASE CreateTask(s) \/ RecordShadow(s)
  <2>1. LoopType'
    BY <1>4, LoopTypes DEF CreateTask, RecordShadow, Steps
  <2>2. status' \in [Signals -> TaskStatus \cup {"absent"}]
    BY <1>4, StatusNames DEF CreateTask, RecordShadow, Terminal
  <2>3. UNCHANGED <<current, intent, baseline, timer, remembered, gateway, restarts>>
    BY <1>4 DEF CreateTask, RecordShadow
  <2>4. QED
    BY <2>1, <2>2, <2>3 DEF LoopType, gateway
<1>5. CASE Preview(s)
  <2>1. \A t \in Signals : Account[t] \in 0..2
    BY DEF Account, FillOf
  <2>2. Account \in [Signals -> 0..2]
    BY <2>1 DEF Account
  <2>3. baseline' \in [Signals -> [Signals -> 0..2] \cup {Unread}]
    BY <1>5, <2>2 DEF Preview
  <2>4. QED
    BY <1>5, <2>3 DEF Preview, GoOn, gateway, Steps
<1>6. CASE RequestApproval(s)
  BY <1>6 DEF RequestApproval, Requested, GoOn, Steps
<1>7. CASE ApprovalRequestFails(s)
  <2>1. LoopType' /\ StatusMoved(s)
    BY <1>7, LoopTypes, StatusNames DEF ApprovalRequestFails, MoveThen, StatusMoved, Steps, Terminal
  <2>2. Requested(s) \/ UNCHANGED gateway
    BY <1>7 DEF ApprovalRequestFails
  <2>3. UNCHANGED <<current, intent, baseline, timer, remembered, restarts>>
    BY <1>7 DEF ApprovalRequestFails
  <2>4. asked' \in [Signals -> Nat] /\ UNCHANGED <<journal, venue, lapsed>>
    BY <2>2 DEF Requested, gateway
  <2>5. approval' \in [Signals -> {"none", "REQUESTED", "APPROVED", "REJECTED", "EXPIRED", "gone"}]
    BY <2>2 DEF Requested, gateway
  <2>6. QED
    BY <2>1, <2>3, <2>4, <2>5, MovedType DEF LoopType
<1>8. QED
  BY <1>1, <1>2, <1>3, <1>4, <1>5, <1>6, <1>7 DEF NewSignal

LEMMA OthersType ==
  ASSUME TypeOK, NEW s \in Signals, Others(s)
  PROVE  TypeOK'
<1> USE DEF TypeOK, tasks, bot
<1>1. CASE \/ Decide(s, "APPROVED") \/ Decide(s, "REJECTED")
           \/ ExpireApproval(s) \/ PurgeApproval(s)
  BY <1>1 DEF Decide, ExpireApproval, PurgeApproval
<1>2. CASE LapseIntent(s) \/ WindowPasses(s)
  BY <1>2 DEF LapseIntent, WindowPasses, gateway
<1>3. CASE HandlerStep(s) \/ HandlerDies(s)
  BY <1>3 DEF HandlerStep, HandlerDies, JournalStatus, OrderStatus
<1>4. CASE VenueMoves(s)
  <2>1. \A order \in OrderStatus : OrderMoves[order] \subseteq OrderStatus
    BY DEF OrderMoves, OrderStatus
  <2>2. PICK next \in OrderStatus : venue' = [venue EXCEPT ![s] = next]
    BY <1>4, <2>1 DEF VenueMoves
  <2>3. QED
    BY <1>4, <2>2 DEF VenueMoves
<1>5. QED
  BY <1>1, <1>2, <1>3, <1>4 DEF Others

LEMMA NextType ==
  ASSUME TypeOK, [Next]_vars
  PROVE  TypeOK'
<1>1. CASE Tick
  <2>1. CASE NextGroup \/ ReadSignals
    <3>1. phase' \in 0..6 /\ queue' \subseteq Signals
      <4>1. ASSUME NextGroup
            PROVE  phase' \in 1..5 /\ \E g \in 1..5 : queue' = Listed(g)
        BY <4>1 DEF TypeOK, NextGroup
      <4>2. QED
        BY <2>1, <4>1 DEF ReadSignals, Listed
    <3>2. UNCHANGED <<tasks, gateway, mode, pc, answer, restarts>>
      BY <2>1 DEF NextGroup, ReadSignals
    <3>3. QED
      BY <3>1, <3>2 DEF TypeOK, tasks, gateway
  <2>2. CASE SkipSignals \/ EndTick
    <3>1. LoopType'
      BY <2>2, LoopTypes DEF SkipSignals, EndTick
    <3>2. UNCHANGED <<tasks, gateway, restarts>>
      BY <2>2 DEF SkipSignals, EndTick
    <3>3. QED
      BY <3>1, <3>2 DEF TypeOK, LoopType, tasks, gateway
  <2>3. QED
    BY <1>1, <2>1, <2>2 DEF Tick
<1>2. CASE Restart
  BY <1>2, SignalsAssumption DEF TypeOK, Restart, tasks, gateway, Steps, Answers
<1>3. CASE UNCHANGED vars
  BY <1>3 DEF TypeOK, vars, tasks, gateway, bot
<1>4. QED
  BY <1>1, <1>2, <1>3, NextCases, SubmissionType, ReconciliationType, NewSignalType, OthersType

\* Tasks, gateway and loop have the right types in every state.
THEOREM TypeCorrect == Spec => []TypeOK
BY InitType, NextType, PTL DEF Spec

(***************************************************************************)
(* The inductive invariant, in two halves: what holds of the tasks and the *)
(* gateway, and what holds of the loop.                                    *)
(***************************************************************************)
TaskInv == /\ QuietUntilSubmitted /\ KeysTellOrders
           /\ NotAskedYet /\ OneApprovalPerSignal
           /\ SubmittedHasOrder
LoopInv == TurnsFit /\ StillListed /\ SubmittingFirst

LEMMA Halves == IInv <=> TypeOK /\ TaskInv /\ LoopInv
BY DEF IInv, TaskInv, LoopInv

LEMMA InitHolds == Init => IInv
<1> SUFFICES ASSUME Init
             PROVE  IInv
  OBVIOUS
<1>1. TaskInv
  BY DEF Init, TaskInv, QuietUntilSubmitted, KeysTellOrders, NotAskedYet, OneApprovalPerSignal,
         SubmittedHasOrder, Quiet, QuietUnlessLapsed
<1>2. LoopInv
  BY DEF Init, LoopInv, TurnsFit, StepInPhase, StepFits, At, StillListed, SubmittingFirst
<1>3. QED
  BY <1>1, <1>2, InitType, Halves DEF Init

\* The loop is at one signal at a time.
LEMMA OneTurn ==
  ASSUME TypeOK, NEW s \in Signals, NEW t \in Signals, At(s), At(t)
  PROVE  s = t
BY SignalsAssumption DEF At

(***************************************************************************)
(* Tasks.                                                                  *)
(***************************************************************************)
\* What a task may become, given its order and its approvals.
MayBecome(s, target) ==
    /\ target \in WrittenOff \cup {"PREVIEWED", "AWAITING_APPROVAL"} => QuietUnlessLapsed(s)
    /\ target \in {"SUBMITTED", "ACKNOWLEDGED", "PARTIALLY_FILLED", "CANCELLED"}
         => venue[s] # "none"
    /\ target \in {"FILLED", "DONE"} => venue[s] = "FILLED"
    /\ target \notin {"absent", "SIGNAL_RECEIVED"}

MovedFairly(s) ==
    \/ status' = status
    \/ \E target \in TaskStatus : Set(s, target) /\ MayBecome(s, target)

LEMMA TasksUntouched ==
  ASSUME TaskInv, UNCHANGED <<status, intent, asked, journal, venue>>, lapsed \subseteq lapsed'
  PROVE  TaskInv'
BY DEF TaskInv, QuietUntilSubmitted, KeysTellOrders, NotAskedYet, OneApprovalPerSignal,
       SubmittedHasOrder, Quiet, QuietUnlessLapsed

LEMMA TasksMoved ==
  ASSUME TypeOK, TaskInv, NEW s \in Signals, MovedFairly(s),
         UNCHANGED <<intent, asked, journal, venue, lapsed>>
  PROVE  TaskInv'
<1>1. CASE status' = status
  BY <1>1, TasksUntouched
<1>2. ASSUME NEW target \in TaskStatus, Set(s, target), MayBecome(s, target)
      PROVE  TaskInv'
  <2>1. /\ status'[s] = target
        /\ \A t \in Signals \ {s} : status'[t] = status[t]
    BY <1>2 DEF Set, TypeOK
  <2>2. (KeysTellOrders /\ OneApprovalPerSignal)'
    BY DEF TaskInv, KeysTellOrders, OneApprovalPerSignal
  <2>3. QuietUntilSubmitted'
    BY <1>2, <2>1 DEF TaskInv, QuietUntilSubmitted, Quiet, QuietUnlessLapsed, MayBecome
  <2>4. (NotAskedYet /\ SubmittedHasOrder)'
    BY <1>2, <2>1 DEF TaskInv, NotAskedYet, SubmittedHasOrder, MayBecome
  <2>5. QED
    BY <2>2, <2>3, <2>4 DEF TaskInv
<1>3. QED
  BY <1>1, <1>2 DEF MovedFairly

\* Every move of the state machine that the bot makes is a fair one.
LEMMA MovesAreFair ==
  ASSUME IInv, NEW s \in Signals,
         \/ QuarantineSubmission(s) \/ RetryBlocked(s) \/ CheckApproval(s)
         \/ RecordRefusal(s) \/ RecordOrder(s) \/ AdoptOrder(s)
         \/ ReconcileFill(s) \/ OrderUnknown(s) \/ ReconcileAccount(s)
         \/ PreviewRefused(s) \/ Previewed(s) \/ CheckLimits(s)
         \/ ApprovalRequestFails(s) \/ AwaitApproval(s)
  PROVE  MovedFairly(s)
<1> USE DEF MoveThen, MovedFairly, MayBecome, WrittenOff, Terminal
<1>1. /\ status[s] \in {"SIGNAL_RECEIVED", "PREVIEWED", "AWAITING_APPROVAL", "PRE_SUBMIT_BLOCKED"}
           => QuietUnlessLapsed(s)
      /\ status[s] = "FILLED" => venue[s] = "FILLED"
      /\ journal[s] = "COMPLETED" => venue[s] # "none"
  BY DEF IInv, QuietUntilSubmitted, KeysTellOrders, SubmittedHasOrder
<1>2. /\ At(s) => StepFits(s)
      /\ pc \in {"preview", "limits", "ask"} => status[s] # "APPROVED_SUBMITTING"
  BY DEF IInv, TurnsFit, StepInPhase, SubmittingFirst
<1>3. CASE QuarantineSubmission(s)
  BY <1>3, StatusNames DEF QuarantineSubmission
<1>4. CASE RetryBlocked(s)
  <2>1. status[s] = "PRE_SUBMIT_BLOCKED"
    BY <1>4 DEF RetryBlocked, Turn, At, IInv, StillListed, Groups
  <2>2. QED
    BY <1>1, <1>4, <2>1, StatusNames DEF RetryBlocked
<1>5. CASE CheckApproval(s)
  BY <1>1, <1>5, StatusNames DEF CheckApproval
<1>6. CASE RecordRefusal(s)
  BY <1>2, <1>6, StatusNames DEF RecordRefusal, On, Outcomes, StepFits
<1>7. CASE RecordOrder(s) \/ AdoptOrder(s)
  BY <1>1, <1>2, <1>7, StatusNames DEF RecordOrder, AdoptOrder, On, StepFits
<1>8. CASE ReconcileFill(s)
  BY <1>8, StatusNames DEF ReconcileFill
<1>9. CASE OrderUnknown(s)
  BY <1>9, StatusNames DEF OrderUnknown
<1>10. CASE ReconcileAccount(s)
  <2>1. Legal(s, "DONE") => status[s] = "FILLED"
    BY StatusNames DEF Legal, Transitions
  <2>2. QED
    BY <1>1, <1>10, <2>1, StatusNames DEF ReconcileAccount
<1>11. CASE PreviewRefused(s) \/ CheckLimits(s) \/ ApprovalRequestFails(s)
  <2>1. Legal(s, "PRE_SUBMIT_FAILED") => QuietUnlessLapsed(s)
    BY <1>1, <1>2, <1>11, LegalFrom DEF PreviewRefused, CheckLimits, ApprovalRequestFails, On
  <2>2. QED
    BY <1>11, <2>1, StatusNames DEF PreviewRefused, CheckLimits, ApprovalRequestFails
<1>12. CASE Previewed(s) \/ AwaitApproval(s)
  BY <1>1, <1>12, LegalFrom, StatusNames DEF Previewed, AwaitApproval
<1>13. QED
  BY <1>3, <1>4, <1>5, <1>6, <1>7, <1>8, <1>9, <1>10, <1>11, <1>12

LEMMA SubmissionKeepsTasks ==
  ASSUME IInv, NEW s \in Signals, Submission(s)
  PROVE  TaskInv'
<1> USE DEF IInv
<1>0. TaskInv /\ (At(s) => StepFits(s))
  BY DEF TaskInv, TurnsFit
<1>1. CASE QuarantineSubmission(s) \/ RetryBlocked(s) \/ CheckApproval(s)
           \/ RecordRefusal(s) \/ RecordOrder(s) \/ AdoptOrder(s)
  <2>1. UNCHANGED <<intent, asked, journal, venue, lapsed>>
    BY <1>1 DEF QuarantineSubmission, RetryBlocked, CheckApproval, RecordRefusal, RecordOrder,
                AdoptOrder, gateway
  <2>2. QED
    BY <1>0, <1>1, <2>1, MovesAreFair, TasksMoved
<1>2. CASE ResubmitUnknown(s) \/ RevalidateFails(s) \/ ResumeSubmitting(s) \/ Unavailable(s)
           \/ AdoptFails(s)
  <2>1. UNCHANGED <<tasks, gateway>>
    BY <1>2 DEF ResubmitUnknown, RevalidateFails, ResumeSubmitting, Unavailable, AdoptFails
  <2>2. QED
    BY <1>0, <2>1, TasksUntouched DEF tasks, gateway
<1>3. CASE BuildIntent(s)
  <2>1. /\ UNCHANGED <<status, asked, journal, venue, lapsed>>
        /\ \A t \in Signals : intent'[t] # "approved" => intent[t] # "approved"
    BY <1>3 DEF BuildIntent, gateway, TypeOK
  <2>2. QED
    BY <1>0, <2>1 DEF TaskInv, QuietUntilSubmitted, KeysTellOrders, NotAskedYet,
                      OneApprovalPerSignal, SubmittedHasOrder, Quiet, QuietUnlessLapsed
<1>4. CASE Unreachable(s) \/ RefuseIntent(s) \/ KnownKey(s) \/ RefuseOrder(s) \/ Answered(s)
           \/ TimedOut(s)
  <2>1. PICK entry \in JournalStatus :
          /\ journal' = [journal EXCEPT ![s] = entry]
          /\ \/ entry = journal[s]
             \/ entry = "COMPLETED" /\ journal[s] = "orphan" /\ venue[s] # "none"
             \/ entry \in {"FAILED", "orphan"} /\ FreeKey(s)
    BY <1>4 DEF Unreachable, RefuseIntent, KnownKey, RefuseOrder, Answered, TimedOut, Freed,
                Reply, JournalStatus, TypeOK, FreeKey
  <2>2. UNCHANGED <<status, intent, asked, venue, lapsed>>
    BY <1>4 DEF Unreachable, RefuseIntent, KnownKey, RefuseOrder, Answered, TimedOut, Reply, tasks
  <2>3. FreeKey(s) => venue[s] = "none"
    BY DEF FreeKey, KeysTellOrders
  <2>4. QuietUntilSubmitted' /\ KeysTellOrders'
    BY <2>1, <2>2, <2>3 DEF QuietUntilSubmitted, KeysTellOrders, Quiet, QuietUnlessLapsed, TypeOK
  <2>5. QED
    BY <2>2, <2>4 DEF TaskInv, NotAskedYet, OneApprovalPerSignal, SubmittedHasOrder
<1>5. CASE AcceptOrder(s)
  <2>1. /\ journal' = [journal EXCEPT ![s] = "running"]
        /\ UNCHANGED <<status, intent, asked, venue, lapsed>>
        /\ status[s] \in Submitting /\ intent[s] = "approved"
    BY <1>0, <1>5 DEF AcceptOrder, Sent, On, StepFits, tasks
  <2>2. QuietUntilSubmitted' /\ KeysTellOrders'
    BY <2>1 DEF QuietUntilSubmitted, KeysTellOrders, Quiet, QuietUnlessLapsed, TypeOK, Submitting, WrittenOff
  <2>3. QED
    BY <2>1, <2>2 DEF TaskInv, NotAskedYet, OneApprovalPerSignal, SubmittedHasOrder
<1>6. QED
  BY <1>1, <1>2, <1>3, <1>4, <1>5 DEF Submission

LEMMA ReconciliationKeepsTasks ==
  ASSUME IInv, NEW s \in Signals, Reconciliation(s)
  PROVE  TaskInv'
<1>1. UNCHANGED <<intent, asked, journal, venue, lapsed>>
  BY DEF Reconciliation, ReconcileFill, OrderUnknown, ReconcileAccount, gateway
<1>2. QED
  BY <1>1, Halves, MovesAreFair, TasksMoved DEF Reconciliation

LEMMA NewSignalKeepsTasks ==
  ASSUME IInv, NEW s \in Signals, NewSignal(s)
  PROVE  TaskInv'
<1> USE DEF IInv
<1>0. TaskInv /\ (At(s) => StepFits(s))
  BY DEF TaskInv, TurnsFit
<1>1. CASE PreviewRefused(s) \/ Previewed(s) \/ CheckLimits(s) \/ AwaitApproval(s)
  <2>1. UNCHANGED <<intent, asked, journal, venue, lapsed>>
    BY <1>1 DEF PreviewRefused, Previewed, CheckLimits, AwaitApproval, gateway
  <2>2. QED
    BY <1>0, <1>1, <2>1, MovesAreFair, TasksMoved
<1>2. CASE SkipRemembered(s) \/ GateSignal(s) \/ PreviewFails(s) \/ Preview(s) \/ RememberSignal(s)
  <2>1. UNCHANGED <<status, intent, asked, journal, venue, lapsed>>
    BY <1>2 DEF SkipRemembered, GateSignal, PreviewFails, Preview, RememberSignal, tasks, gateway
  <2>2. QED
    BY <1>0, <2>1, TasksUntouched
<1>3. CASE CreateTask(s) \/ RecordShadow(s)
  <2>1. /\ UNCHANGED <<intent, asked, journal, venue, lapsed>>
        /\ \A t \in Signals :
             \/ status'[t] = status[t]
             \/ status[t] = "absent" /\ status'[t] = "SIGNAL_RECEIVED"
             \/ status[t] \in {"SIGNAL_RECEIVED", "PREVIEWED"} /\ status'[t] = "SHADOW_RECORDED"
    BY <1>3 DEF CreateTask, RecordShadow, gateway, TypeOK
  <2>2. QED
    BY <1>0, <2>1 DEF TaskInv, QuietUntilSubmitted, KeysTellOrders, NotAskedYet,
                      OneApprovalPerSignal, SubmittedHasOrder, Quiet, QuietUnlessLapsed, WrittenOff
<1>4. CASE RequestApproval(s)
  <2>1. /\ UNCHANGED <<status, intent, journal, venue, lapsed>>
        /\ asked' = [asked EXCEPT ![s] = @ + 1]
        /\ status[s] = "PREVIEWED" /\ asked[s] = 0
    BY <1>0, <1>4 DEF RequestApproval, Requested, On, StepFits
  <2>2. NotAskedYet' /\ OneApprovalPerSignal'
    BY <2>1 DEF NotAskedYet, OneApprovalPerSignal, TypeOK
  <2>3. QED
    BY <2>1, <2>2 DEF TaskInv, QuietUntilSubmitted, KeysTellOrders, SubmittedHasOrder, Quiet, QuietUnlessLapsed
<1>5. CASE ApprovalRequestFails(s)
  <2>1. /\ UNCHANGED <<intent, journal, venue, lapsed>>
        /\ asked' = asked \/ asked' = [asked EXCEPT ![s] = @ + 1]
        /\ status[s] = "PREVIEWED" /\ asked[s] = 0 /\ QuietUnlessLapsed(s)
    BY <1>0, <1>5 DEF ApprovalRequestFails, Requested, gateway, On, StepFits, QuietUntilSubmitted
  <2>2. \A t \in Signals : \/ status'[t] = status[t]
                           \/ t = s /\ status'[t] = "PRE_SUBMIT_FAILED"
    BY <1>5 DEF ApprovalRequestFails, MoveThen, Set, TypeOK
  <2>3. NotAskedYet' /\ OneApprovalPerSignal'
    BY <2>1, <2>2 DEF NotAskedYet, OneApprovalPerSignal, TypeOK
  <2>4. (QuietUntilSubmitted /\ KeysTellOrders /\ SubmittedHasOrder)'
    BY <2>1, <2>2 DEF QuietUntilSubmitted, KeysTellOrders, SubmittedHasOrder, Quiet, QuietUnlessLapsed
  <2>5. QED
    BY <2>3, <2>4 DEF TaskInv
<1>6. QED
  BY <1>1, <1>2, <1>3, <1>4, <1>5 DEF NewSignal

LEMMA OthersKeepTasks ==
  ASSUME IInv, NEW s \in Signals, Others(s)
  PROVE  TaskInv'
<1> USE DEF IInv
<1>0. TaskInv
  BY DEF TaskInv
<1>1. UNCHANGED <<status, intent, asked>> /\ lapsed \subseteq lapsed'
  BY DEF Others, Decide, ExpireApproval, PurgeApproval, LapseIntent, HandlerStep, HandlerDies,
         VenueMoves, WindowPasses, tasks, gateway
<1>2. CASE UNCHANGED <<journal, venue>>
  BY <1>0, <1>1, <1>2, TasksUntouched
<1>3. CASE HandlerStep(s) \/ HandlerDies(s) \/ VenueMoves(s)
  <2>1. ~Quiet(s)
    BY <1>3 DEF HandlerStep, HandlerDies, VenueMoves, Quiet, OrderMoves
  <2>2. /\ \A t \in Signals \ {s} : journal'[t] = journal[t] /\ venue'[t] = venue[t]
        /\ journal'[s] \in {journal[s], "orphan", "COMPLETED"}
        /\ venue'[s] # "none" \/ venue'[s] = venue[s]
        /\ venue[s] # "none" => venue'[s] # "none"
        /\ venue[s] = "FILLED" => venue'[s] = "FILLED"
        /\ journal'[s] = "COMPLETED" => venue'[s] # "none"
        /\ journal'[s] \in {"absent", "FAILED"} => venue'[s] = "none"
    <3>1. CASE HandlerStep(s) \/ HandlerDies(s)
      BY <3>1 DEF HandlerStep, HandlerDies, TypeOK, KeysTellOrders
    <3>2. CASE VenueMoves(s)
      <4>1. PICK next \in OrderMoves[venue[s]] : venue' = [venue EXCEPT ![s] = next]
        BY <3>2 DEF VenueMoves
      <4>2. venue[s] \notin {"none", "FILLED"} /\ next # "none"
        <5>1. venue[s] \in OrderStatus
          BY DEF TypeOK
        <5>2. \A order \in OrderStatus : /\ "none" \notin OrderMoves[order]
                                         /\ OrderMoves["none"] = {} /\ OrderMoves["FILLED"] = {}
          BY DEF OrderMoves, OrderStatus
        <5>3. QED
          BY <4>1, <5>1, <5>2
      <4>3. journal' = journal
        BY <3>2 DEF VenueMoves
      <4>4. QED
        BY <4>1, <4>2, <4>3 DEF TypeOK, KeysTellOrders
    <3>3. QED
      BY <1>3, <3>1, <3>2
  <2>3. QuietUntilSubmitted'
    BY <1>1, <2>1, <2>2 DEF QuietUntilSubmitted, Quiet, QuietUnlessLapsed
  <2>4. (KeysTellOrders /\ SubmittedHasOrder)'
    BY <1>1, <2>2 DEF KeysTellOrders, SubmittedHasOrder
  <2>5. QED
    BY <1>1, <2>3, <2>4 DEF TaskInv, NotAskedYet, OneApprovalPerSignal
<1>4. QED
  BY <1>2, <1>3 DEF Others, Decide, ExpireApproval, PurgeApproval, LapseIntent, WindowPasses, gateway

LEMMA KeepsTasks ==
  ASSUME IInv, [Next]_vars
  PROVE  TaskInv'
<1>1. TaskInv
  BY Halves
<1>2. CASE Tick \/ Restart \/ UNCHANGED vars
  <2>1. UNCHANGED <<tasks, gateway>>
    BY <1>2 DEF Tick, NextGroup, ReadSignals, SkipSignals, EndTick, Restart, vars
  <2>2. QED
    BY <1>1, <2>1, TasksUntouched DEF tasks, gateway
<1>3. QED
  BY <1>2, NextCases, SubmissionKeepsTasks, ReconciliationKeepsTasks, NewSignalKeepsTasks,
     OthersKeepTasks

(***************************************************************************)
(* The loop.                                                               *)
(***************************************************************************)
\* The statuses of all tasks but that of s stay as they are.
OnlyAt(s) == \A t \in Signals \ {s} : status'[t] = status[t]

LEMMA TickEnds ==
  ASSUME TickFails
  PROVE  LoopInv'
BY DEF TickFails, LoopInv, TurnsFit, StepInPhase, StepFits, StillListed, SubmittingFirst

LEMMA LoopLeaves ==
  ASSUME TypeOK, LoopInv, NEW s \in Signals, At(s), OnlyAt(s), Leave(s),
         status'[s] = "APPROVED_SUBMITTING" => phase < 3
  PROVE  LoopInv'
<1>1. TurnsFit'
  BY DEF Leave, TurnsFit, StepInPhase, StepFits
<1>2. ASSUME NEW t \in queue \ {s}
      PROVE  status'[t] = status[t] /\ ~At(t)
  BY <1>2, OneTurn DEF OnlyAt, TypeOK
<1>3. StillListed'
  BY <1>2 DEF Leave, LoopInv, StillListed
<1>4. SubmittingFirst'
  BY <1>2 DEF Leave, LoopInv, SubmittingFirst, OnlyAt, TypeOK
<1>5. QED
  BY <1>1, <1>3, <1>4 DEF LoopInv

LEMMA LoopGoesOn ==
  ASSUME TypeOK, LoopInv, NEW s \in Signals, At(s), OnlyAt(s),
         UNCHANGED <<phase, queue>>, pc' # "next",
         StepInPhase', StepFits(s)',
         \/ status'[s] # "APPROVED_SUBMITTING"
         \/ status[s] = "APPROVED_SUBMITTING"
         \/ phase <= 3
  PROVE  LoopInv'
<1>1. At(s)' /\ \A t \in Signals : At(t)' => t = s
  BY OneTurn DEF At
<1>2. TurnsFit'
  BY <1>1 DEF TurnsFit
<1>3. ASSUME NEW t \in queue, t # s
      PROVE  status'[t] = status[t] /\ ~At(t)
  BY <1>3, OneTurn DEF OnlyAt, TypeOK
<1>4. StillListed'
  BY <1>1, <1>3 DEF LoopInv, StillListed
<1>5. SubmittingFirst'
  BY DEF LoopInv, SubmittingFirst, OnlyAt, At, TypeOK
<1>6. QED
  BY <1>2, <1>4, <1>5 DEF LoopInv

LEMMA TickKeepsLoop ==
  ASSUME IInv, Tick
  PROVE  LoopInv'
<1>1. CASE NextGroup
  <2>1. PICK g \in phase + 1 .. 5 :
          /\ \A h \in phase + 1 .. g - 1 : Listed(h) = {}
          /\ phase' = g /\ queue' = Listed(g)
    BY <1>1 DEF NextGroup
  <2>2. /\ pc = "next" /\ pc' = "next" /\ queue = {}
        /\ UNCHANGED status
        /\ phase \in 0..6
    BY <1>1 DEF NextGroup, tasks, IInv, TypeOK
  <2>3. TurnsFit' /\ StillListed'
    BY <2>1, <2>2 DEF TurnsFit, StepInPhase, StepFits, StillListed, Listed
  <2>4. ASSUME NEW s \in Signals, status[s] = "APPROVED_SUBMITTING"
        PROVE  g < 3 \/ (g = 3 /\ s \in Listed(g))
    <3>1. phase < 3
      BY <2>2, <2>4 DEF IInv, SubmittingFirst
    <3>2. s \in Listed(3)
      BY <2>4 DEF Listed, Groups
    <3>3. QED
      BY <2>1, <2>2, <3>1, <3>2
  <2>5. QED
    BY <2>1, <2>2, <2>3, <2>4 DEF LoopInv, SubmittingFirst
<1>2. CASE ReadSignals
  BY <1>2 DEF ReadSignals, tasks, IInv, LoopInv, TurnsFit, StepInPhase, StepFits, StillListed,
              SubmittingFirst
<1>3. CASE SkipSignals \/ EndTick
  BY <1>3, TickEnds DEF SkipSignals, EndTick
<1>4. QED
  BY <1>1, <1>2, <1>3 DEF Tick

LEMMA SubmissionKeepsLoop ==
  ASSUME IInv, NEW s \in Signals, Submission(s)
  PROVE  LoopInv'
<1> USE DEF IInv, MoveThen, Terminal
<1>0. /\ LoopInv
      /\ phase \in 0..6
      /\ status[s] = "APPROVED_SUBMITTING" => phase \in 0..3
      /\ phase \in 1..5 /\ pc = "next" /\ At(s) => status[s] \in Groups[phase]
      /\ At(s) => StepFits(s)
  BY DEF LoopInv, TypeOK, SubmittingFirst, StillListed, TurnsFit, At
<1>1. CASE QuarantineSubmission(s)
  <2>1. At(s) /\ (TickFails \/ Leave(s)) /\ phase = 1
    BY <1>1 DEF QuarantineSubmission, Turn
  <2>2. OnlyAt(s)
    BY <1>1 DEF QuarantineSubmission, Set, OnlyAt, TypeOK
  <2>3. QED
    BY <1>0, <2>1, <2>2, LoopLeaves, TickEnds
<1>2. CASE ResubmitUnknown(s) \/ ResumeSubmitting(s) \/ BuildIntent(s)
  <2>1. /\ At(s) /\ UNCHANGED <<status, phase, queue>>
        /\ pc' \in {"submit", "send"} /\ phase \in 1..3
    BY <1>2 DEF ResubmitUnknown, ResumeSubmitting, BuildIntent, GoOn, Turn, On, tasks, TurnsFit,
                StepInPhase
  <2>2. status[s] \in Submitting
    BY <1>0, <1>2 DEF ResubmitUnknown, ResumeSubmitting, BuildIntent, Turn, On, Groups,
                      Submitting, StepFits
  <2>3. StepInPhase' /\ StepFits(s)' /\ OnlyAt(s)
    BY <2>1, <2>2 DEF StepInPhase, StepFits, OnlyAt
  <2>4. QED
    BY <1>0, <2>1, <2>3, LoopGoesOn
<1>3. CASE RetryBlocked(s) \/ CheckApproval(s)
  <2>1. At(s) /\ pc = "next" /\ phase \in {2, 3}
    BY <1>3 DEF RetryBlocked, CheckApproval, Turn
  <2>2. OnlyAt(s)
    BY <1>3 DEF RetryBlocked, CheckApproval, Set, OnlyAt, TypeOK
  <2>3. \/ TickFails /\ UNCHANGED status
        \/ Leave(s) /\ status'[s] # "APPROVED_SUBMITTING"
        \/ GoOn("submit") /\ status'[s] = "APPROVED_SUBMITTING"
    <3>1. status[s] # "APPROVED_SUBMITTING"
      BY <1>0, <1>3, <2>1 DEF RetryBlocked, CheckApproval, Turn, Groups
    <3>2. QED
      BY <1>3, <3>1 DEF RetryBlocked, CheckApproval, Set, TypeOK
  <2>4. CASE TickFails /\ UNCHANGED status
    BY <2>4, TickEnds
  <2>5. CASE Leave(s) /\ status'[s] # "APPROVED_SUBMITTING"
    BY <1>0, <2>1, <2>2, <2>5, LoopLeaves
  <2>6. CASE GoOn("submit") /\ status'[s] = "APPROVED_SUBMITTING"
    <3>1. StepInPhase' /\ StepFits(s)'
      BY <2>1, <2>6 DEF GoOn, StepInPhase, StepFits, Submitting
    <3>2. QED
      BY <1>0, <2>1, <2>2, <2>6, <3>1, LoopGoesOn DEF GoOn
  <2>7. QED
    BY <2>3, <2>4, <2>5, <2>6
<1>4. CASE RevalidateFails(s) \/ AdoptFails(s)
  BY <1>4, TickEnds DEF RevalidateFails, AdoptFails
<1>5. CASE Unavailable(s)
  <2>1. At(s) /\ Leave(s) /\ UNCHANGED status
    BY <1>5 DEF Unavailable, Turn, On, tasks
  <2>2. status[s] = "APPROVED_SUBMITTING" => phase < 3
    BY <1>0, <1>5 DEF Unavailable, Turn, On, StepFits, Submitted
  <2>3. QED
    BY <1>0, <2>1, <2>2, LoopLeaves DEF OnlyAt
<1>6. CASE Unreachable(s) \/ RefuseIntent(s) \/ KnownKey(s) \/ RefuseOrder(s) \/ Answered(s)
           \/ TimedOut(s)
  <2>1. /\ At(s) /\ UNCHANGED <<status, phase, queue, asked, venue>>
        /\ pc' = "answer" /\ phase \in 1..3 /\ status[s] \in Submitting
    BY <1>0, <1>6 DEF Unreachable, RefuseIntent, KnownKey, RefuseOrder, Answered, TimedOut, Sent,
                      On, Reply, tasks, TurnsFit, StepInPhase, StepFits
  <2>2. /\ answer' \in {"PRE_SUBMIT_FAILED", "PRE_SUBMIT_BLOCKED"} => QuietUnlessLapsed(s)'
        /\ answer' = "ORDER" => venue[s] # "none"
    <3>1. /\ intent[s] # "approved" => Quiet(s)
          /\ journal[s] \in {"absent", "FAILED"} => venue[s] = "none"
          /\ journal[s] = "COMPLETED" => venue[s] # "none"
      BY DEF QuietUntilSubmitted, KeysTellOrders
    <3>2. CASE Unreachable(s) \/ Answered(s) \/ TimedOut(s) \/ KnownKey(s)
      BY <3>1, <3>2 DEF Unreachable, Answered, TimedOut, KnownKey, Reply
    <3>3. CASE RefuseIntent(s)
      <4>1. QuietUnlessLapsed(s)
        BY <3>1, <3>3 DEF RefuseIntent, QuietUnlessLapsed
      <4>2. UNCHANGED <<venue, lapsed>> /\ journal' = [journal EXCEPT ![s] = journal[s]]
        BY <3>3 DEF RefuseIntent, Reply
      <4>3. answer' # "ORDER"
        BY <3>3 DEF RefuseIntent, Reply
      <4>4. QED
        BY <4>1, <4>2, <4>3 DEF Quiet, QuietUnlessLapsed, TypeOK
    <3>4. CASE RefuseOrder(s)
      <4>1. venue[s] = "none" /\ venue' = venue
        BY <3>1, <3>4 DEF RefuseOrder, FreeKey, Reply
      <4>2. journal'[s] \in {"absent", "FAILED", "orphan"}
        BY <3>4 DEF RefuseOrder, FreeKey, Freed, Reply, TypeOK
      <4>3. answer' # "ORDER"
        BY <3>4 DEF RefuseOrder, Reply
      <4>4. QED
        BY <4>1, <4>2, <4>3 DEF Quiet, QuietUnlessLapsed
    <3>5. QED
      BY <1>6, <3>2, <3>3, <3>4
  <2>3. StepInPhase' /\ StepFits(s)' /\ OnlyAt(s)
    BY <2>1, <2>2 DEF StepInPhase, StepFits, OnlyAt
  <2>4. QED
    BY <1>0, <2>1, <2>3, LoopGoesOn
<1>7. CASE AcceptOrder(s)
  <2>1. /\ At(s) /\ UNCHANGED <<status, phase, queue>>
        /\ pc' = "wait" /\ phase \in 1..3 /\ status[s] \in Submitting
    BY <1>0, <1>7 DEF AcceptOrder, Sent, On, tasks, TurnsFit, StepInPhase, StepFits
  <2>2. StepInPhase' /\ StepFits(s)' /\ OnlyAt(s)
    BY <2>1 DEF StepInPhase, StepFits, OnlyAt
  <2>3. QED
    BY <1>0, <2>1, <2>2, LoopGoesOn
<1>8. CASE RecordRefusal(s)
  <2>1. At(s) /\ OnlyAt(s)
    BY <1>8 DEF RecordRefusal, On, Set, OnlyAt, TypeOK
  <2>2. TickFails \/ (Leave(s) /\ status'[s] # "APPROVED_SUBMITTING")
    BY <1>8 DEF RecordRefusal, Set, Outcomes, TypeOK
  <2>3. QED
    BY <1>0, <2>1, <2>2, LoopLeaves, TickEnds
<1>9. CASE RecordOrder(s) \/ AdoptOrder(s)
  <2>1. At(s) /\ OnlyAt(s)
    BY <1>9 DEF RecordOrder, AdoptOrder, On, Set, OnlyAt, TypeOK
  <2>2. \/ TickFails
        \/ Leave(s) /\ status'[s] # "APPROVED_SUBMITTING"
        \/ GoOn("fill") /\ status'[s] = "SUBMITTED"
    BY <1>9 DEF RecordOrder, AdoptOrder, Set, TypeOK
  <2>3. CASE GoOn("fill") /\ status'[s] = "SUBMITTED"
    <3>1. StepInPhase' /\ StepFits(s)'
      BY <2>3 DEF GoOn, StepInPhase, StepFits, Submitted
    <3>2. QED
      BY <1>0, <2>1, <2>3, <3>1, LoopGoesOn DEF GoOn
  <2>4. QED
    BY <1>0, <2>1, <2>2, <2>3, LoopLeaves, TickEnds
<1>10. QED
  BY <1>1, <1>2, <1>3, <1>4, <1>5, <1>6, <1>7, <1>8, <1>9 DEF Submission

LEMMA ReconciliationKeepsLoop ==
  ASSUME IInv, NEW s \in Signals, Reconciliation(s)
  PROVE  LoopInv'
<1> USE DEF IInv, MoveThen
<1>1. LoopInv /\ At(s) /\ OnlyAt(s)
  BY DEF Reconciliation, ReconcileFill, OrderUnknown, ReconcileAccount, Turn, On, Set, OnlyAt,
         LoopInv, TypeOK
<1>2. status[s] # "APPROVED_SUBMITTING"
  BY <1>1 DEF Reconciliation, ReconcileFill, OrderUnknown, ReconcileAccount, Turn, On,
              SubmittingFirst, TurnsFit, StepFits, Submitted
<1>3. \/ TickFails
      \/ Leave(s) /\ status'[s] # "APPROVED_SUBMITTING"
      \/ GoOn("account") /\ status'[s] = "FILLED"
  BY <1>2 DEF Reconciliation, ReconcileFill, OrderUnknown, ReconcileAccount, Set, TypeOK
<1>4. CASE GoOn("account") /\ status'[s] = "FILLED"
  <2>1. StepInPhase' /\ StepFits(s)'
    BY <1>4 DEF GoOn, StepInPhase, StepFits, Submitted
  <2>2. QED
    BY <1>1, <1>4, <2>1, LoopGoesOn DEF GoOn
<1>5. QED
  BY <1>1, <1>3, <1>4, LoopLeaves, TickEnds

LEMMA NewSignalKeepsLoop ==
  ASSUME IInv, NEW s \in Signals, NewSignal(s)
  PROVE  LoopInv'
<1> USE DEF IInv, MoveThen
<1>1. /\ LoopInv /\ At(s)
      /\ phase = 6 /\ status[s] # "APPROVED_SUBMITTING"
  BY DEF NewSignal, SkipRemembered, GateSignal, CreateTask, PreviewFails, PreviewRefused, Preview,
         Previewed, CheckLimits, RequestApproval, ApprovalRequestFails, AwaitApproval,
         RememberSignal, RecordShadow, Turn, On, LoopInv, TurnsFit, StepInPhase, SubmittingFirst
<1>2. OnlyAt(s) /\ status'[s] # "APPROVED_SUBMITTING"
  BY <1>1 DEF NewSignal, SkipRemembered, GateSignal, CreateTask, PreviewFails, PreviewRefused,
         Preview, Previewed, CheckLimits, RequestApproval, ApprovalRequestFails, AwaitApproval,
         RememberSignal, RecordShadow, Set, OnlyAt, tasks, TypeOK
<1>3. \/ TickFails \/ Leave(s)
      \/ GoOn("preview") \/ GoOn("advance") \/ GoOn("await") \/ GoOn("note") \/ GoOn("shadow")
      \/ GoOn("limits") /\ status[s] = "SIGNAL_RECEIVED" /\ status'[s] = "PREVIEWED" /\ asked' = asked
      \/ GoOn("ask") /\ pc = "limits" /\ status' = status /\ asked' = asked
  BY LegalFrom DEF NewSignal, SkipRemembered, GateSignal, CreateTask, PreviewFails,
         PreviewRefused, Preview, Previewed, CheckLimits, RequestApproval, ApprovalRequestFails,
         AwaitApproval, RememberSignal, RecordShadow, Set, On, TypeOK, tasks, gateway
<1>4. CASE TickFails \/ Leave(s)
  BY <1>1, <1>2, <1>4, LoopLeaves, TickEnds
<1>5. CASE ~(TickFails \/ Leave(s))
  <2>1. StepInPhase' /\ StepFits(s)'
    BY <1>1, <1>3, <1>5 DEF GoOn, StepInPhase, StepFits, TurnsFit, NotAskedYet
  <2>2. UNCHANGED <<phase, queue>> /\ pc' # "next"
    BY <1>3, <1>5 DEF GoOn
  <2>3. QED
    BY <1>1, <1>2, <2>1, <2>2, LoopGoesOn
<1>6. QED
  BY <1>4, <1>5

LEMMA OthersKeepLoop ==
  ASSUME IInv, NEW s \in Signals, Others(s)
  PROVE  LoopInv'
<1>1. UNCHANGED <<status, asked, phase, queue, pc, answer>> /\ lapsed \subseteq lapsed'
  BY DEF Others, Decide, ExpireApproval, PurgeApproval, LapseIntent, HandlerStep, HandlerDies,
         VenueMoves, WindowPasses, tasks, gateway, bot
<1>2. ASSUME NEW t \in Signals
      PROVE  (Quiet(t) => Quiet(t)') /\ (venue[t] # "none" => venue'[t] # "none")
  <2>1. CASE HandlerStep(s) \/ HandlerDies(s)
    BY <2>1 DEF HandlerStep, HandlerDies, Quiet, IInv, TypeOK
  <2>2. CASE VenueMoves(s)
    <3>1. PICK next \in OrderMoves[venue[s]] : venue' = [venue EXCEPT ![s] = next]
      BY <2>2 DEF VenueMoves
    <3>2. venue[s] \in OrderStatus
      BY DEF IInv, TypeOK
    <3>3. \A order \in OrderStatus : "none" \notin OrderMoves[order] /\ OrderMoves["none"] = {}
      BY DEF OrderMoves, OrderStatus
    <3>4. venue[s] # "none" /\ next # "none" /\ journal' = journal
      BY <2>2, <3>1, <3>2, <3>3 DEF VenueMoves
    <3>5. QED
      BY <3>1, <3>4 DEF Quiet, IInv, TypeOK
  <2>3. CASE UNCHANGED <<journal, venue>>
    BY <2>3 DEF Quiet
  <2>4. QED
    BY <2>1, <2>2, <2>3 DEF Others, Decide, ExpireApproval, PurgeApproval, LapseIntent,
                            WindowPasses, gateway
<1>3. QED
  <2>1. \A t \in Signals : QuietUnlessLapsed(t) => QuietUnlessLapsed(t)'
    BY <1>1, <1>2 DEF QuietUnlessLapsed
  <2>2. QED
    BY <1>1, <1>2, <2>1 DEF IInv, LoopInv, TurnsFit, StepInPhase, StepFits, At, StillListed,
                            SubmittingFirst

LEMMA KeepsLoop ==
  ASSUME IInv, [Next]_vars
  PROVE  LoopInv'
<1>1. CASE Restart
  BY <1>1 DEF Restart, LoopInv, TurnsFit, StepInPhase, StepFits, StillListed, SubmittingFirst
<1>2. CASE UNCHANGED vars
  BY <1>2 DEF IInv, vars, bot, tasks, gateway, LoopInv, TurnsFit, StepInPhase, StepFits, At,
              Quiet, QuietUnlessLapsed, StillListed, SubmittingFirst
<1>3. QED
  BY <1>1, <1>2, NextCases, TickKeepsLoop, SubmissionKeepsLoop, ReconciliationKeepsLoop,
     NewSignalKeepsLoop, OthersKeepLoop

(***************************************************************************)
(* The theorems.                                                           *)
(***************************************************************************)
\* The invariant behind the safety properties holds.
THEOREM Invariance == Spec => []IInv
<1>1. IInv /\ [Next]_vars => IInv'
  BY NextType, KeepsTasks, KeepsLoop, Halves DEF IInv, TaskInv, LoopInv
<1>2. QED
  BY InitHolds, <1>1, PTL DEF Spec

\* At most one approval is ever requested for a signal, however often the bot is
\* restarted and whatever fails.
THEOREM ApprovalsAskedOnce == Spec => []OneApprovalPerSignal
<1>1. IInv => OneApprovalPerSignal
  BY DEF IInv
<1>2. QED
  BY Invariance, <1>1, PTL

\* A task written off before its submission has no order and none is coming,
\* unless the intent lapsed while it was being submitted.
THEOREM OrdersTrackedUnlessLapsed ==
  Spec => [](\A s \in Signals \ lapsed :
               status[s] \in WrittenOff => venue[s] = "none" /\ journal[s] # "running")
<1>1. IInv => \A s \in Signals \ lapsed :
                status[s] \in WrittenOff => venue[s] = "none" /\ journal[s] # "running"
  BY DEF IInv, QuietUntilSubmitted, Quiet, QuietUnlessLapsed
<1>2. QED
  BY Invariance, <1>1, PTL

\* While no intent can lapse, every task written off is without an order.
THEOREM OrdersTracked ==
  ASSUME Perishable = {}
  PROVE  Spec => []OrdersAreTracked
<1>1. IInv => OrdersAreTracked
  BY DEF IInv, TypeOK, QuietUntilSubmitted, Quiet, QuietUnlessLapsed, OrdersAreTracked
<1>2. QED
  BY Invariance, <1>1, PTL

\* A submitted task has an order at the venue, a filled or done one a filled order.
THEOREM SubmittedHaveOrders == Spec => []SubmittedHasOrder
<1>1. IInv => SubmittedHasOrder
  BY DEF IInv
<1>2. QED
  BY Invariance, <1>1, PTL

(***************************************************************************)
(* The accounts of the matched tasks, in a bot that was not restarted.     *)
(***************************************************************************)
\* What resuming a task at s does not touch, and what it never makes of a task.
Resumes(s) ==
    /\ UNCHANGED <<baseline, remembered, restarts>>
    /\ \A t \in Signals :
         status'[t] = status[t] \/ (t = s /\ status[s] \notin Fresh /\ status'[s] \notin Fresh)
    /\ \A t \in Signals : intent'[t] = intent[t] \/ status[t] \notin Fresh
    /\ pc \notin {"preview", "advance", "note"} /\ pc' \notin {"preview", "advance", "note"}

LEMMA MoveResumes ==
  ASSUME TypeOK, NEW s \in Signals, NEW target \in TaskStatus \ Fresh, status[s] \notin Fresh,
         NEW ACTION after, MoveThen(s, target, after)
  PROVE  \A t \in Signals :
           status'[t] = status[t] \/ (t = s /\ status[s] \notin Fresh /\ status'[s] \notin Fresh)
BY DEF MoveThen, Set, TypeOK

LEMMA SubmissionResumes ==
  ASSUME IInv, NEW s \in Signals, Submission(s)
  PROVE  Resumes(s)
<1>1. TypeOK /\ (At(s) => StepFits(s))
  BY DEF IInv, TurnsFit
<1>2. UNCHANGED <<baseline, remembered, restarts>>
  BY DEF Submission, QuarantineSubmission, ResubmitUnknown, RetryBlocked, CheckApproval,
         RevalidateFails, ResumeSubmitting, Unavailable, BuildIntent, Unreachable, RefuseIntent,
         KnownKey, RefuseOrder, AcceptOrder, Answered, TimedOut, RecordRefusal, RecordOrder,
         AdoptOrder, AdoptFails, Reply, tasks
<1>3. pc \notin {"preview", "advance", "note"} /\ pc' \notin {"preview", "advance", "note"}
  BY DEF Submission, QuarantineSubmission, ResubmitUnknown, RetryBlocked, CheckApproval,
         RevalidateFails, ResumeSubmitting, Unavailable, BuildIntent, Unreachable, RefuseIntent,
         KnownKey, RefuseOrder, AcceptOrder, Answered, TimedOut, RecordRefusal, RecordOrder,
         AdoptOrder, AdoptFails, Reply, Turn, On, Sent, MoveThen, TickFails, Leave, GoOn
<1>4. \A t \in Signals : intent'[t] = intent[t] \/ status[t] \notin Fresh
  <2>1. CASE BuildIntent(s)
    BY <1>1, <2>1 DEF BuildIntent, On, StepFits, Submitting, Fresh, TypeOK
  <2>2. CASE ~BuildIntent(s)
    BY <2>2 DEF Submission, QuarantineSubmission, ResubmitUnknown, RetryBlocked, CheckApproval,
         RevalidateFails, ResumeSubmitting, Unavailable, Unreachable, RefuseIntent,
         KnownKey, RefuseOrder, AcceptOrder, Answered, TimedOut, RecordRefusal, RecordOrder,
         AdoptOrder, AdoptFails, Reply, tasks
  <2>3. QED
    BY <2>1, <2>2
<1>5. \A t \in Signals :
        status'[t] = status[t] \/ (t = s /\ status[s] \notin Fresh /\ status'[s] \notin Fresh)
  <2>1. CASE QuarantineSubmission(s)
    <3>1. status[s] = "SUBMISSION_UNKNOWN"
      BY <2>1 DEF QuarantineSubmission, Turn, At, IInv, StillListed, Groups
    <3>2. QED
      BY <1>1, <2>1, <3>1, MoveResumes, StatusNames DEF QuarantineSubmission, Fresh, Terminal
  <2>2. CASE RetryBlocked(s)
    <3>1. status[s] = "PRE_SUBMIT_BLOCKED"
      BY <2>2 DEF RetryBlocked, Turn, At, IInv, StillListed, Groups
    <3>2. QED
      BY <1>1, <2>2, <3>1, MoveResumes, StatusNames DEF RetryBlocked, Fresh, Terminal
  <2>3. CASE CheckApproval(s)
    BY <1>1, <2>3, MoveResumes, StatusNames DEF CheckApproval, Fresh, Terminal
  <2>4. CASE RecordRefusal(s) \/ RecordOrder(s) \/ AdoptOrder(s)
    <3>1. status[s] \in Submitting
      BY <1>1, <2>4 DEF RecordRefusal, RecordOrder, AdoptOrder, On, StepFits
    <3>2. QED
      BY <1>1, <2>4, <3>1, MoveResumes, StatusNames
         DEF RecordRefusal, RecordOrder, AdoptOrder, Outcomes, Fresh, Submitting, Terminal
  <2>5. CASE ~(QuarantineSubmission(s) \/ RetryBlocked(s) \/ CheckApproval(s)
               \/ RecordRefusal(s) \/ RecordOrder(s) \/ AdoptOrder(s))
    BY <2>5 DEF Submission, ResubmitUnknown, RevalidateFails, ResumeSubmitting, Unavailable,
         BuildIntent, Unreachable, RefuseIntent, KnownKey, RefuseOrder, AcceptOrder, Answered,
         TimedOut, AdoptFails, Reply, tasks
  <2>6. QED
    BY <2>1, <2>2, <2>3, <2>4, <2>5
<1>6. QED
  BY <1>2, <1>3, <1>4, <1>5 DEF Resumes

LEMMA ReconciliationResumes ==
  ASSUME IInv, NEW s \in Signals, Reconciliation(s)
  PROVE  Resumes(s)
<1>1. TypeOK /\ (At(s) => StepFits(s))
  BY DEF IInv, TurnsFit
<1>2. status[s] \notin Fresh
  BY <1>1 DEF Reconciliation, ReconcileFill, OrderUnknown, ReconcileAccount, Turn, On, At, IInv,
         StillListed, Groups, StepFits, Submitted, Fresh
<1>3. \A t \in Signals :
        status'[t] = status[t] \/ (t = s /\ status[s] \notin Fresh /\ status'[s] \notin Fresh)
  BY <1>1, <1>2, MoveResumes, StatusNames
     DEF Reconciliation, ReconcileFill, OrderUnknown, ReconcileAccount, Fresh, Terminal
<1>4. UNCHANGED <<baseline, remembered, restarts, intent>>
  BY DEF Reconciliation, ReconcileFill, OrderUnknown, ReconcileAccount
<1>5. pc \notin {"preview", "advance", "note"} /\ pc' \notin {"preview", "advance", "note"}
  BY DEF Reconciliation, ReconcileFill, OrderUnknown, ReconcileAccount, Turn, On, MoveThen,
         TickFails, Leave, GoOn
<1>6. QED
  BY <1>3, <1>4, <1>5 DEF Resumes

\* What turning the signal s into a task does.
TakesUp(s) ==
    /\ At(s) /\ UNCHANGED <<intent, restarts>>
    /\ pc # "fill" /\ pc' # "fill"
    /\ baseline' = baseline \/ (Preview(s) /\ status' = status)
    /\ \A t \in Signals \ {s} : status'[t] = status[t]
    /\ status'[s] \in Fresh => status[s] \in Fresh
    /\ status'[s] \notin Fresh /\ status[s] \in Fresh => On(s, "note")'
    /\ status'[s] # "DONE" \/ status'[s] = status[s]
    /\ \A t \in remembered : t \in remembered'
    /\ pc = "note" => s \in remembered'
    /\ pc' \in {"preview", "advance"} =>
         /\ queue' = queue
         /\ \/ s \notin remembered /\ pc = "next" /\ status'[s] # "absent"
            \/ pc = "preview" /\ status' = status

LEMMA MoveTakesUp ==
  ASSUME TypeOK, NEW s \in Signals, At(s), NEW target \in TaskStatus,
         NEW ACTION after, MoveThen(s, target, after),
         \/ target = "PREVIEWED" /\ after = GoOn("limits")
         \/ target = "AWAITING_APPROVAL" /\ after = GoOn("note")
         \/ target = "PRE_SUBMIT_FAILED" /\ after = GoOn("note")
  PROVE  /\ \A t \in Signals \ {s} : status'[t] = status[t]
         /\ status'[s] \in Fresh => status[s] \in Fresh
         /\ status'[s] \notin Fresh /\ status[s] \in Fresh => On(s, "note")'
         /\ status'[s] # "DONE" \/ status'[s] = status[s]
         /\ pc' \notin {"preview", "advance", "fill"}
<1>1. CASE Legal(s, target) /\ Set(s, target) /\ after
  <2>1. /\ status'[s] = target
        /\ \A t \in Signals \ {s} : status'[t] = status[t]
    BY <1>1 DEF Set, TypeOK
  <2>2. target = "PREVIEWED" => status[s] \in Fresh
    BY <1>1, LegalFrom DEF Fresh
  <2>3. target # "PREVIEWED" => On(s, "note")'
    BY <1>1 DEF GoOn, On, At
  <2>4. pc' \notin {"preview", "advance", "fill"}
    BY <1>1 DEF GoOn
  <2>5. QED
    BY <2>1, <2>2, <2>3, <2>4 DEF Fresh
<1>2. CASE UNCHANGED status /\ TickFails
  BY <1>2 DEF TickFails
<1>3. QED
  BY <1>1, <1>2 DEF MoveThen

LEMMA NewSignalTakesUp ==
  ASSUME IInv, NEW s \in Signals, NewSignal(s)
  PROVE  TakesUp(s)
<1>1. TypeOK /\ At(s) /\ StepFits(s)
  BY DEF IInv, TurnsFit, NewSignal, SkipRemembered, GateSignal, CreateTask, PreviewFails,
         PreviewRefused, Preview, Previewed, CheckLimits, RequestApproval, ApprovalRequestFails,
         AwaitApproval, RememberSignal, RecordShadow, Turn, On
<1>2. CASE SkipRemembered(s) \/ GateSignal(s) \/ RememberSignal(s) \/ PreviewFails(s)
  BY <1>1, <1>2 DEF SkipRemembered, GateSignal, RememberSignal, PreviewFails, tasks, Leave,
     TickFails, Turn, On, TakesUp, Fresh
<1>3. CASE CreateTask(s)
  BY <1>1, <1>3 DEF CreateTask, Turn, GoOn, TakesUp, Fresh, TypeOK
<1>4. CASE PreviewRefused(s) \/ CheckLimits(s) \/ ApprovalRequestFails(s)
  BY <1>1, <1>4, MoveTakesUp, StatusNames
     DEF PreviewRefused, CheckLimits, ApprovalRequestFails, On, GoOn, TakesUp, Fresh, Terminal
<1>5. CASE Preview(s)
  BY <1>1, <1>5 DEF Preview, On, GoOn, TakesUp, Fresh
<1>6. CASE Previewed(s) \/ AwaitApproval(s)
  BY <1>1, <1>6, MoveTakesUp, StatusNames DEF Previewed, AwaitApproval, On, TakesUp
<1>7. CASE RequestApproval(s)
  BY <1>1, <1>7 DEF RequestApproval, On, GoOn, TakesUp, Fresh
<1>8. CASE RecordShadow(s)
  BY <1>1, <1>8 DEF RecordShadow, On, At, GoOn, TakesUp, Fresh, TypeOK
<1>9. QED
  BY <1>2, <1>3, <1>4, <1>5, <1>6, <1>7, <1>8 DEF NewSignal

\* The steps that touch no task, or only its timer.
Passes ==
    /\ UNCHANGED <<status, intent, baseline, remembered>>
    /\ \/ UNCHANGED <<bot, restarts>>
       \/ pc = "next" /\ pc' = "next" /\ UNCHANGED restarts
       \/ pc' = "next" /\ restarts' # 0

LEMMA OthersPass ==
  ASSUME TypeOK, [Next]_vars
  PROVE  \/ Passes
         \/ \E s \in Signals : Submission(s) \/ Reconciliation(s) \/ NewSignal(s)
<1>1. CASE Tick
  BY <1>1 DEF Tick, NextGroup, ReadSignals, SkipSignals, EndTick, TickFails, tasks, Passes
<1>2. CASE Restart
  BY <1>2 DEF Restart, tasks, Passes, TypeOK
<1>3. CASE \E s \in Signals : Others(s)
  BY <1>3 DEF Others, Decide, ExpireApproval, PurgeApproval, LapseIntent, HandlerStep, HandlerDies,
         VenueMoves, WindowPasses, tasks, Passes
<1>4. CASE UNCHANGED vars
  BY <1>4 DEF vars, tasks, Passes
<1>5. QED
  BY <1>1, <1>2, <1>3, <1>4, NextCases

\* A task is done only when its account matches, at the end of its reconciliation.
LEMMA DoneMatches ==
  ASSUME IInv, [Next]_vars, NEW s \in Signals, status'[s] = "DONE", status[s] # "DONE"
  PROVE  Matches(s) /\ UNCHANGED baseline /\ venue[s] = "FILLED"
         /\ \A t \in Signals \ {s} : status'[t] = status[t]
<1>1. TypeOK
  BY DEF IInv
<1>2. ~Passes /\ ~NewSignal(s)
  BY NewSignalTakesUp DEF Passes, TakesUp
<1>3. PICK t \in Signals : Submission(t) \/ Reconciliation(t)
  <2>1. ASSUME NEW t \in Signals, NewSignal(t)
        PROVE  FALSE
    BY <1>2, <2>1, NewSignalTakesUp DEF TakesUp
  <2>2. QED
    BY <1>1, <1>2, <2>1, OthersPass
<1>4. t = s
  BY <1>3, SubmissionResumes, ReconciliationResumes DEF Resumes
<1>5. ~Submission(s)
  BY <1>1 DEF Submission, QuarantineSubmission, ResubmitUnknown, RetryBlocked, CheckApproval,
         RevalidateFails, ResumeSubmitting, Unavailable, BuildIntent, Unreachable, RefuseIntent,
         KnownKey, RefuseOrder, AcceptOrder, Answered, TimedOut, RecordRefusal, RecordOrder,
         AdoptOrder, AdoptFails, Reply, tasks, MoveThen, Set, TypeOK, Outcomes
<1>6. ReconcileAccount(s) /\ Legal(s, "DONE") /\ Set(s, "DONE") /\ Matches(s)
  BY <1>1, <1>3, <1>4, <1>5 DEF Reconciliation, ReconcileFill, OrderUnknown, ReconcileAccount,
     MoveThen, Set, TypeOK
<1>7. status[s] = "FILLED"
  BY <1>6, StatusNames DEF Legal, Transitions
<1>8. QED
  BY <1>1, <1>6, <1>7 DEF ReconcileAccount, Set, IInv, SubmittedHasOrder, TypeOK

\* Before its approval is asked for, a signal has no order: its baseline lacks it.
LEMMA PreviewPredates ==
  ASSUME IInv, UnsentUntilAsked, NEW s \in Signals, Preview(s), status[s] \in Fresh
  PROVE  /\ baseline'[s] = Unread \/ baseline'[s][s] = 0
         /\ \A t \in Signals \ {s} : baseline'[t] = baseline[t]
<1>1. TypeOK
  BY DEF IInv
<1>2. venue[s] = "none"
  BY DEF UnsentUntilAsked, IInv, QuietUntilSubmitted, Quiet
<1>3. Account[s] = 0
  BY <1>2 DEF Account, FillOf
<1>4. PICK read \in {Account, Unread} : baseline' = [baseline EXCEPT ![s] = read]
  BY DEF Preview
<1>5. QED
  BY <1>1, <1>3, <1>4 DEF TypeOK

\* The bot moves no order; its gateway and the venue fill it further.
LEMMA AccountGrows ==
  ASSUME TypeOK, [Next]_vars
  PROVE  \A t \in Signals : Account[t] \in 0..2 /\ Account'[t] \in 0..2 /\ Account[t] <= Account'[t]
<1>1. \A t \in Signals : Account[t] = FillOf(venue[t]) /\ Account'[t] = FillOf(venue'[t])
  BY DEF Account
<1>2. CASE UNCHANGED venue
  BY <1>1, <1>2 DEF FillOf
<1>3. CASE \E s \in Signals : Others(s)
  <2>1. PICK s \in Signals : Others(s)
    BY <1>3
  <2>2. CASE HandlerStep(s)
    BY <1>1, <2>2 DEF HandlerStep, TypeOK, FillOf
  <2>3. CASE VenueMoves(s)
    <3>1. PICK next \in OrderMoves[venue[s]] : venue' = [venue EXCEPT ![s] = next]
      BY <2>3 DEF VenueMoves
    <3>2. FillOf(venue[s]) <= FillOf(next)
      BY <3>1 DEF TypeOK, OrderStatus, OrderMoves, FillOf
    <3>3. \A t \in Signals : venue'[t] = IF t = s THEN next ELSE venue[t]
      BY <3>1 DEF TypeOK
    <3>4. QED
      BY <1>1, <3>2, <3>3 DEF FillOf
  <2>4. CASE ~HandlerStep(s) /\ ~VenueMoves(s)
    BY <1>2, <2>1, <2>4 DEF Others, Decide, ExpireApproval, PurgeApproval, LapseIntent, HandlerDies,
       WindowPasses, gateway
  <2>5. QED
    BY <2>2, <2>3, <2>4
<1>4. CASE \E s \in Signals : Submission(s)
  <2>1. UNCHANGED venue
    BY <1>4 DEF Submission, QuarantineSubmission, ResubmitUnknown, RetryBlocked, CheckApproval,
       RevalidateFails, ResumeSubmitting, Unavailable, BuildIntent, Unreachable, RefuseIntent,
       KnownKey, RefuseOrder, AcceptOrder, Answered, TimedOut, RecordRefusal, RecordOrder,
       AdoptOrder, AdoptFails, Reply, gateway
  <2>2. QED
    BY <1>2, <2>1
<1>5. CASE \E s \in Signals : NewSignal(s)
  <2>1. UNCHANGED venue
    BY <1>5 DEF NewSignal, SkipRemembered, GateSignal, CreateTask, PreviewFails, PreviewRefused,
       Preview, Previewed, CheckLimits, RequestApproval, ApprovalRequestFails, AwaitApproval,
       RememberSignal, RecordShadow, Requested, gateway
  <2>2. QED
    BY <1>2, <2>1
<1>6. CASE Tick \/ Restart \/ (\E s \in Signals : Reconciliation(s)) \/ UNCHANGED vars
  <2>1. UNCHANGED venue
    BY <1>6 DEF Tick, NextGroup, ReadSignals, SkipSignals, EndTick, Restart, Reconciliation,
       ReconcileFill, OrderUnknown, ReconcileAccount, gateway, vars
  <2>2. QED
    BY <1>2, <2>1
<1>7. QED
  BY <1>3, <1>4, <1>5, <1>6, NextCases

\* A baseline is the account as it was, so that the account is nowhere less.
LEMMA BaselinesKept ==
  ASSUME TypeOK, [Next]_vars, BaselinesBelow,
         baseline' = baseline \/ \E s \in Signals : Preview(s)
  PROVE  BaselinesBelow'
<1>1. \A t \in Signals : Account[t] \in 0..2 /\ Account'[t] \in 0..2 /\ Account[t] <= Account'[t]
  BY AccountGrows
<1>2. Unread' = Unread
  BY DEF Unread
<1>3. ASSUME NEW u \in Signals, baseline'[u] # Unread, NEW t \in Signals
      PROVE  baseline'[u][t] <= Account'[t]
  <2>1. CASE baseline'[u] = baseline[u]
    <3>1. baseline[u][t] \in Int /\ baseline[u][t] <= Account[t]
      BY <1>3, <2>1 DEF BaselinesBelow, TypeOK
    <3>2. QED
      BY <1>1, <2>1, <3>1
  <2>2. CASE baseline'[u] # baseline[u]
    <3>1. PICK s \in Signals : Preview(s)
      BY <2>2
    <3>2. PICK read \in {Account, Unread} : baseline' = [baseline EXCEPT ![s] = read]
      BY <3>1 DEF Preview
    <3>3. baseline'[u] = Account
      BY <1>3, <2>2, <3>2 DEF TypeOK
    <3>4. QED
      BY <1>1, <3>3
  <2>3. QED
    BY <2>1, <2>2
<1>4. QED
  BY <1>2, <1>3 DEF BaselinesBelow

LEMMA PassesKeepsAccounts ==
  ASSUME TypeOK, AccountInv, [Next]_vars, Passes
  PROVE  AccountInv'
<1>1. (UnsentUntilAsked /\ FillFits)'
  BY DEF AccountInv, UnsentUntilAsked, FillFits, Passes, On, At, bot
<1>2. (restarts = 0)' => (TakenUpOnce /\ PreviewedFresh /\ BaselinePredatesOrder)'
  BY DEF AccountInv, TakenUpOnce, PreviewedFresh, BaselinePredatesOrder, Passes, On, At, bot
<1>3. (restarts = 0)' /\ NothingCancels => MatchedInTurn'
  BY DEF AccountInv, MatchedInTurn, Passes
<1>4. BaselinesBelow'
  BY BaselinesKept DEF AccountInv, Passes
<1>5. QED
  BY <1>1, <1>2, <1>3, <1>4 DEF AccountInv

LEMMA UnsentKept ==
  ASSUME UnsentUntilAsked, NEW s \in Signals, Resumes(s) \/ TakesUp(s)
  PROVE  UnsentUntilAsked'
BY DEF UnsentUntilAsked, Resumes, TakesUp

\* Only the answer of the gateway brings the bot to the look at a new order.
LEMMA FillKept ==
  ASSUME IInv, FillFits, NEW s \in Signals, Submission(s) \/ Reconciliation(s) \/ NewSignal(s)
  PROVE  FillFits'
<1>1. TypeOK
  BY DEF IInv
<1>2. CASE RecordOrder(s) \/ AdoptOrder(s)
  <2>1. CASE Set(s, "SUBMITTED") /\ GoOn("fill")
    <3>1. \A t \in Signals : On(t, "fill")' => t = s
      BY <1>1, <1>2, <2>1, OneTurn DEF RecordOrder, AdoptOrder, On, At, GoOn
    <3>2. status'[s] = "SUBMITTED"
      BY <1>1, <2>1 DEF Set, TypeOK
    <3>3. QED
      BY <3>1, <3>2 DEF FillFits
  <2>2. CASE pc' # "fill"
    BY <2>2 DEF FillFits, On
  <2>3. QED
    BY <1>2, <2>1, <2>2 DEF RecordOrder, AdoptOrder, MoveThen, TickFails, Leave
<1>3. CASE ~(RecordOrder(s) \/ AdoptOrder(s))
  <2>1. pc' # "fill"
    <3>1. CASE NewSignal(s)
      BY <3>1, NewSignalTakesUp DEF TakesUp
    <3>2. CASE Submission(s) \/ Reconciliation(s)
      BY <1>3, <3>2 DEF Submission, QuarantineSubmission, ResubmitUnknown, RetryBlocked,
         CheckApproval, RevalidateFails, ResumeSubmitting, Unavailable, BuildIntent, Unreachable,
         RefuseIntent, KnownKey, RefuseOrder, AcceptOrder, Answered, TimedOut, RecordRefusal,
         AdoptFails, Reply, MoveThen, TickFails, Leave, GoOn,
         Reconciliation, ReconcileFill, OrderUnknown, ReconcileAccount
    <3>3. QED
      BY <3>1, <3>2
  <2>2. QED
    BY <2>1 DEF FillFits, On
<1>4. QED
  BY <1>2, <1>3

\* Two tasks that are done: the later one counted the order of the other one.
LEMMA MatchedKept ==
  ASSUME IInv, [Next]_vars, BaselinesBelow, BaselinePredatesOrder, NothingCancels, MatchedInTurn,
         \A t \in Signals : status'[t] = "DONE" /\ status[t] = "DONE" => baseline'[t] = baseline[t]
  PROVE  MatchedInTurn'
<1>1. TypeOK
  BY DEF IInv
<1>2. ASSUME NEW s \in Signals, NEW t \in Signals, s # t,
             status'[s] = "DONE", status'[t] = "DONE", status[s] # "DONE"
      PROVE  baseline'[s][t] = 2
  <2>1. Matches(s) /\ UNCHANGED baseline /\ status[t] = "DONE"
    BY <1>2, DoneMatches
  <2>2. venue[t] = "FILLED"
    BY <2>1 DEF IInv, SubmittedHasOrder
  <2>3. Account[t] = 2
    BY <2>2 DEF Account, FillOf
  <2>4. Account[t] = baseline[s][t]
    <3>1. baseline[s] # Unread /\ PositionFits(s, baseline[s], Account) /\ CashFits(s, baseline[s], Account)
      BY <2>1 DEF Matches
    <3>2. baseline[s][s] = 0 /\ \A u \in Signals : baseline[s][u] <= Account[u]
      BY <3>1 DEF BaselinesBelow, BaselinePredatesOrder
    <3>3. baseline[s] \in [Signals -> 0..2] /\ Account \in [Signals -> 0..2]
      BY <1>1, <3>1, AccountGrows DEF Account, TypeOK
    <3>4. QED
      BY <1>2, <3>1, <3>2, <3>3 DEF NothingCancels
  <2>5. QED
    BY <2>1, <2>3, <2>4
<1>3. ASSUME NEW s \in Signals, NEW t \in Signals, s # t, status'[s] = "DONE", status'[t] = "DONE"
      PROVE  baseline'[s][t] = 2 \/ baseline'[t][s] = 2
  <2>1. CASE status[s] = "DONE" /\ status[t] = "DONE"
    BY <1>3, <2>1 DEF MatchedInTurn
  <2>2. CASE status[s] # "DONE" \/ status[t] # "DONE"
    BY <1>2, <1>3, <2>2
  <2>3. QED
    BY <2>1, <2>2
<1>4. QED
  BY <1>3 DEF MatchedInTurn

LEMMA ResumesKeepsAccounts ==
  ASSUME IInv, AccountInv, [Next]_vars, NEW s \in Signals, Submission(s) \/ Reconciliation(s)
  PROVE  AccountInv'
<1>1. Resumes(s)
  BY SubmissionResumes, ReconciliationResumes
<1>2. (UnsentUntilAsked /\ FillFits)'
  BY <1>1, UnsentKept, FillKept DEF AccountInv
<1>3. (restarts = 0)' => (TakenUpOnce /\ PreviewedFresh /\ BaselinePredatesOrder)'
  BY <1>1 DEF AccountInv, Resumes, TakenUpOnce, PreviewedFresh, BaselinePredatesOrder, On
<1>4. (restarts = 0)' /\ NothingCancels => MatchedInTurn'
  BY <1>1, MatchedKept DEF AccountInv, Resumes
<1>5. BaselinesBelow'
  BY <1>1, BaselinesKept DEF AccountInv, Resumes, IInv
<1>6. QED
  BY <1>2, <1>3, <1>4, <1>5 DEF AccountInv

LEMMA NewSignalKeepsAccounts ==
  ASSUME IInv, AccountInv, [Next]_vars, NEW s \in Signals, NewSignal(s)
  PROVE  AccountInv'
<1>1. TypeOK /\ TakesUp(s)
  BY NewSignalTakesUp DEF IInv
<1>2. (UnsentUntilAsked /\ FillFits)'
  BY <1>1, UnsentKept, FillKept DEF AccountInv
<1>3. ASSUME (restarts = 0)'
      PROVE  /\ (TakenUpOnce /\ PreviewedFresh /\ BaselinePredatesOrder)'
             /\ NothingCancels => MatchedInTurn'
  <2>1. /\ TakenUpOnce /\ PreviewedFresh /\ BaselinePredatesOrder /\ UnsentUntilAsked
        /\ BaselinesBelow /\ (NothingCancels => MatchedInTurn)
    BY <1>1, <1>3 DEF AccountInv, TakesUp
  <2>2. TakenUpOnce'
    <3>1. ASSUME NEW t \in Signals, status'[t] \notin Fresh
          PROVE  t \in remembered' \/ On(t, "note")'
      <4>1. CASE status[t] \in Fresh
        BY <1>1, <3>1, <4>1 DEF TakesUp
      <4>2. CASE status[t] \notin Fresh
        <5>1. t \in remembered \/ (pc = "note" /\ t = s)
          BY <1>1, <2>1, <4>2, OneTurn DEF TakenUpOnce, On, TakesUp
        <5>2. QED
          BY <1>1, <5>1 DEF TakesUp
      <4>3. QED
        BY <4>1, <4>2
    <3>2. QED
      BY <3>1 DEF TakenUpOnce
  <2>3. PreviewedFresh'
    <3>1. ASSUME NEW t \in Signals, pc' \in {"preview", "advance"}, At(t)'
          PROVE  status'[t] \in {"SIGNAL_RECEIVED", "PREVIEWED"}
      <4>1. t = s
        BY <1>1, <3>1, OneTurn DEF TakesUp, At
      <4>2. CASE pc = "preview" /\ status' = status
        BY <1>1, <2>1, <4>1, <4>2 DEF PreviewedFresh, On, TakesUp
      <4>3. CASE s \notin remembered /\ pc = "next" /\ status'[s] # "absent"
        <5>1. status[s] \in Fresh
          BY <2>1, <4>3 DEF TakenUpOnce, On
        <5>2. status'[s] \in Fresh
          BY <1>1, <3>1, <5>1 DEF TakesUp, On
        <5>3. QED
          BY <4>1, <4>3, <5>2 DEF Fresh
      <4>4. QED
        BY <1>1, <3>1, <4>2, <4>3 DEF TakesUp
    <3>2. QED
      BY <3>1 DEF PreviewedFresh, On
  <2>4. Preview(s) => status[s] \in Fresh
    BY <2>1 DEF Preview, PreviewedFresh, Fresh
  <2>5. BaselinePredatesOrder'
    BY <1>1, <2>1, <2>4, PreviewPredates DEF BaselinePredatesOrder, TakesUp
  <2>6. \A t \in Signals : status'[t] = "DONE" /\ status[t] = "DONE" => baseline'[t] = baseline[t]
    BY <1>1, <2>1, <2>4, PreviewPredates DEF TakesUp, Fresh
  <2>7. QED
    BY <2>1, <2>2, <2>3, <2>5, <2>6, MatchedKept
<1>4. BaselinesBelow'
  BY <1>1, BaselinesKept DEF AccountInv, TakesUp
<1>5. QED
  BY <1>2, <1>3, <1>4 DEF AccountInv

LEMMA InitAccounts == Init => AccountInv
BY DEF Init, AccountInv, UnsentUntilAsked, FillFits, TakenUpOnce, PreviewedFresh,
       BaselinePredatesOrder, BaselinesBelow, Account, FillOf, MatchedInTurn, On, At, Fresh

LEMMA KeepsAccounts ==
  ASSUME IInv, AccountInv, [Next]_vars
  PROVE  AccountInv'
BY OthersPass, PassesKeepsAccounts, ResumesKeepsAccounts, NewSignalKeepsAccounts DEF IInv

LEMMA AccountInvariance == Spec => []AccountInv
<1>1. IInv /\ AccountInv /\ [Next]_vars => AccountInv'
  BY KeepsAccounts
<1>2. QED
  BY InitAccounts, <1>1, Invariance, PTL DEF Spec

-----------------------------------------------------------------------------
(* What the totals of an account tell of the orders in it.                 *)

\* One entry more or less in an account.
LEMMA TogetherChanged ==
  ASSUME NEW f \in [Signals -> Int], NEW g \in [Signals -> Int], NEW s \in Signals,
         \A t \in Signals \ {s} : g[t] = f[t]
  PROVE  Together(g) = Together(f) + (g[s] - f[s])
<1> DEFINE list == SetToSeq(Signals)
           before == [i \in 1..Len(list) |-> f[list[i]]]
           after == [i \in 1..Len(list) |-> g[list[i]]]
<1>1. IsFiniteSet(Signals)
  BY SignalsAssumption
<1>2. list \in Seq(Signals)
  BY <1>1, SetToSeqType
<1>3. PICK k \in 1..Len(list) : list[k] = s /\ \A i \in 1..Len(list) : i # k => list[i] # s
  BY <1>1, SetToSeqOnce
<1> HIDE DEF list
<1>4. \A i \in 1..Len(list) : list[i] \in Signals
  BY <1>2
<1>5. before \in Seq(Int) /\ after \in Seq(Int) /\ Len(before) = Len(list) /\ Len(after) = Len(list)
  BY <1>2, <1>4
<1>6. \A i \in 1..Len(list) : i # k => after[i] = before[i]
  BY <1>3, <1>4
<1>7. before[k] = f[s] /\ after[k] = g[s]
  BY <1>3
<1>8. Total(after) = Total(before) + (after[k] - before[k])
  <2> HIDE DEF before, after
  <2> QED
    BY <1>5, <1>6, TotalChanged
<1>9. QED
  BY <1>7, <1>8 DEF Together, list

LEMMA TogetherType ==
  ASSUME NEW f \in [Signals -> Int]
  PROVE  Together(f) \in Int
<1> DEFINE list == SetToSeq(Signals)
           amounts == [i \in 1..Len(list) |-> f[list[i]]]
<1>1. list \in Seq(Signals)
  BY SignalsAssumption, SetToSeqType
<1> HIDE DEF list
<1>2. amounts \in Seq(Int)
  BY <1>1
<1>3. Total(amounts) \in Int
  <2> HIDE DEF amounts
  <2> QED
    BY <1>2, TotalType
<1>4. QED
  BY <1>3 DEF Together, list

\* An account that is nowhere less has the same total only if it is the same.
LEMMA TogetherGrows ==
  ASSUME NEW f \in [Signals -> Int], NEW g \in [Signals -> Int],
         \A t \in Signals : f[t] <= g[t], Together(f) = Together(g)
  PROVE  \A t \in Signals : f[t] = g[t]
<1> DEFINE list == SetToSeq(Signals)
           less == [i \in 1..Len(list) |-> f[list[i]]]
           more == [i \in 1..Len(list) |-> g[list[i]]]
<1>1. IsFiniteSet(Signals)
  BY SignalsAssumption
<1>2. list \in Seq(Signals)
  BY <1>1, SetToSeqType
<1>3. \A t \in Signals : \E k \in 1..Len(list) : list[k] = t
  BY <1>1, SetToSeqOnce
<1>4. Total(less) = Total(more)
  BY DEF Together
<1> HIDE DEF list
<1>5. \A i \in 1..Len(list) : list[i] \in Signals
  BY <1>2
<1>6. less \in Seq(Int) /\ more \in Seq(Int) /\ Len(less) = Len(list) /\ Len(more) = Len(list)
  BY <1>2, <1>5
<1>7. \A i \in 1..Len(list) : less[i] <= more[i]
  BY <1>5
<1>8. \A i \in 1..Len(list) : less[i] = more[i]
  <2> HIDE DEF less, more
  <2> QED
    BY <1>4, <1>6, <1>7, TotalGrows
<1>9. QED
  BY <1>3, <1>8

\* An account that has one more order than another has its fill more in the totals.
LEMMA TotalsFollow ==
  ASSUME NEW s \in Signals, NEW base \in [Signals -> 0..2], NEW account \in [Signals -> 0..2],
         base[s] = 0, \A t \in Signals \ {s} : account[t] = base[t]
  PROVE  PositionFits(s, base, account) /\ CashFits(s, base, account)
<1> DEFINE shares(a) == [t \in Signals |->
                           IF Order[t].symbol = Order[s].symbol THEN a[t] * Order[t].shares ELSE 0]
           cash(a) == [t \in Signals |-> a[t] * Order[t].cash]
<1>1. \A t \in Signals : Order[t].shares \in Int /\ Order[t].cash \in Int
  BY SignalsAssumption
<1>2. /\ shares(base) \in [Signals -> Int] /\ shares(account) \in [Signals -> Int]
      /\ cash(base) \in [Signals -> Int] /\ cash(account) \in [Signals -> Int]
  BY <1>1
<1>3. \A t \in Signals \ {s} : shares(account)[t] = shares(base)[t] /\ cash(account)[t] = cash(base)[t]
  OBVIOUS
<1>4. /\ shares(account)[s] = account[s] * Order[s].shares /\ shares(base)[s] = base[s] * Order[s].shares
      /\ cash(account)[s] = account[s] * Order[s].cash /\ cash(base)[s] = base[s] * Order[s].cash
  OBVIOUS
<1>5. shares(base)[s] = 0 /\ cash(base)[s] = 0
  BY <1>1, <1>4
<1>6. shares(account)[s] \in Int /\ cash(account)[s] \in Int
  BY <1>2
<1>7. /\ shares(account)[s] - shares(base)[s] = account[s] * Order[s].shares
      /\ cash(account)[s] - cash(base)[s] = account[s] * Order[s].cash
  BY <1>4, <1>5, <1>6
<1>8. /\ Position(Order[s].symbol, base) = Together(shares(base))
      /\ Position(Order[s].symbol, account) = Together(shares(account))
      /\ Cash(base) = Together(cash(base)) /\ Cash(account) = Together(cash(account))
  BY DEF Position, Cash
<1> HIDE DEF shares, cash
<1>9. /\ Together(shares(account)) = Together(shares(base)) + (shares(account)[s] - shares(base)[s])
      /\ Together(cash(account)) = Together(cash(base)) + (cash(account)[s] - cash(base)[s])
  BY <1>2, <1>3, TogetherChanged
<1>10. QED
  BY <1>7, <1>8, <1>9 DEF PositionFits, CashFits

\* All orders are purchases, or all are sales.
OneSided == (\A s \in Signals : Order[s].cash < 0) \/ (\A s \in Signals : Order[s].cash > 0)

\* The orders of one side add up, and so do those of no more than two signals.
LEMMA OrdersAddUp ==
  ASSUME OneSided \/ \E s, t \in Signals : Signals = {s, t}
  PROVE  NothingCancels
<1> SUFFICES ASSUME NEW s \in Signals,
                    NEW base \in [Signals -> 0..2], NEW account \in [Signals -> 0..2],
                    base[s] = 0, \A t \in Signals : base[t] <= account[t],
                    CashFits(s, base, account),
                    NEW t \in Signals \ {s}
             PROVE  base[t] = account[t]
  BY DEF NothingCancels
<1> DEFINE between == [base EXCEPT ![s] = account[s]]
           cash(a) == [u \in Signals |-> a[u] * Order[u].cash]
<1>1. \A u \in Signals : Order[u].cash \in Int /\ Order[u].cash # 0
  BY SignalsAssumption
<1>2. /\ between \in [Signals -> 0..2] /\ between[s] = account[s] /\ between[t] = base[t]
      /\ \A u \in Signals \ {s} : between[u] = base[u]
  OBVIOUS
<1> HIDE DEF between
<1>3. cash(between) \in [Signals -> Int] /\ cash(account) \in [Signals -> Int]
  BY <1>1, <1>2
<1>4. Together(cash(between)) = Together(cash(account))
  <2>1. CashFits(s, base, between)
    BY <1>2, TotalsFollow
  <2>2. QED
    BY <1>2, <2>1 DEF CashFits, Cash
<1>5. ASSUME NEW u \in Signals
      PROVE  /\ Order[u].cash > 0 => cash(between)[u] <= cash(account)[u]
             /\ Order[u].cash < 0 => cash(account)[u] <= cash(between)[u]
             /\ cash(between)[u] = cash(account)[u] => between[u] = account[u]
  <2>1. PICK a \in 0..2, b \in 0..2, c \in Int : a = account[u] /\ b = between[u] /\ c = Order[u].cash
    BY <1>1, <1>2
  <2>2. b <= a /\ c # 0
    BY <1>1, <1>2, <2>1
  <2>3. (a = 0 \/ a = 1 \/ a = 2) /\ (b = 0 \/ b = 1 \/ b = 2)
    OBVIOUS
  <2>4. (c > 0 => b * c <= a * c) /\ (c < 0 => a * c <= b * c) /\ (b * c = a * c => b = a)
    BY <2>2, <2>3
  <2>5. QED
    BY <2>1, <2>4
<1>6. CASE \A u \in Signals : Order[u].cash > 0
  <2> HIDE DEF cash
  <2>1. cash(between)[t] = cash(account)[t]
    BY <1>3, <1>4, <1>5, <1>6, TogetherGrows
  <2>2. QED
    BY <1>2, <1>5, <2>1
<1>7. CASE \A u \in Signals : Order[u].cash < 0
  <2> HIDE DEF cash
  <2>1. cash(between)[t] = cash(account)[t]
    BY <1>3, <1>4, <1>5, <1>7, TogetherGrows
  <2>2. QED
    BY <1>2, <1>5, <2>1
<1>8. CASE Signals = {s, t}
  <2>1. \A u \in Signals \ {t} : cash(account)[u] = cash(between)[u]
    BY <1>2, <1>8
  <2> HIDE DEF cash
  <2>2. Together(cash(account)) = Together(cash(between)) + (cash(account)[t] - cash(between)[t])
    BY <1>3, <2>1, TogetherChanged
  <2>3. /\ cash(account)[t] \in Int /\ cash(between)[t] \in Int /\ Together(cash(between)) \in Int
    BY <1>3, TogetherType
  <2>4. cash(between)[t] = cash(account)[t]
    BY <1>4, <2>2, <2>3
  <2>5. QED
    BY <1>2, <1>5, <2>4
<1>9. QED
  BY <1>6, <1>7, <1>8 DEF OneSided

\* Until the first restart of the bot, of two matched tasks one was previewed
\* when the other had filled: no two of them match against the same account.  This
\* holds of any number of orders that are all purchases or all sales, and of two
\* orders of any kind.  Of three, a purchase and a sale may cancel each other in the
\* one position and the one balance that the reconciliation of the third looks at.
THEOREM MatchedTasksTookTurns ==
  ASSUME OneSided \/ \E s, t \in Signals : Signals = {s, t}
  PROVE  Spec => [](restarts = 0 => MatchedInTurn)
<1>1. AccountInv => (restarts = 0 => MatchedInTurn)
  BY OrdersAddUp DEF AccountInv
<1>2. QED
  BY AccountInvariance, <1>1, PTL

-----------------------------------------------------------------------------
\* A filled task becomes an incident nowhere but in its own reconciliation.
LEMMA IncidentMismatches ==
  ASSUME IInv, AccountInv, [Next]_vars, NEW s \in Signals,
         status[s] = "FILLED", status'[s] = "INCIDENT"
  PROVE  ~Matches(s)
<1>1. TypeOK
  BY DEF IInv
<1>2. PICK t \in Signals : Submission(t) \/ Reconciliation(t) \/ NewSignal(t)
  BY <1>1, OthersPass DEF Passes
<1>3. t = s /\ (Submission(s) \/ Reconciliation(s) \/ NewSignal(s))
  BY <1>2, SubmissionResumes, ReconciliationResumes, NewSignalTakesUp DEF Resumes, TakesUp
<1>4. ~QuarantineSubmission(s) /\ (OrderUnknown(s) => UNCHANGED status)
  BY DEF QuarantineSubmission, OrderUnknown, Turn, On, At, IInv, StillListed, Groups, AccountInv,
         FillFits, MoveThen
<1>5. ~Submission(s) /\ ~NewSignal(s)
  BY <1>1, <1>4 DEF Submission, ResubmitUnknown, RetryBlocked, CheckApproval,
         RevalidateFails, ResumeSubmitting, Unavailable, BuildIntent, Unreachable, RefuseIntent,
         KnownKey, RefuseOrder, AcceptOrder, Answered, TimedOut, RecordRefusal, RecordOrder,
         AdoptOrder, AdoptFails, Reply, tasks, MoveThen, Set, TypeOK, Outcomes,
         NewSignal, SkipRemembered, GateSignal, CreateTask, PreviewFails, PreviewRefused, Preview,
         Previewed, CheckLimits, RequestApproval, ApprovalRequestFails, AwaitApproval,
         RememberSignal, RecordShadow
<1>6. QED
  BY <1>1, <1>3, <1>4, <1>5 DEF Reconciliation, ReconcileFill, ReconcileAccount, MoveThen, Set, TypeOK

\* A bot that is not restarted quarantines a filled task only when its baseline
\* was not read or the order of another task moved the account since.
THEOREM MismatchTellsInterference ==
  ASSUME MaxRestarts = 0
  PROVE  Spec => MismatchMeansInterference
<1>1. ASSUME IInv, AccountInv, [Next]_vars, NEW s \in Signals,
             status[s] = "FILLED", status'[s] = "INCIDENT", baseline[s] # Unread
      PROVE  \E t \in Signals \ {s} : Account[t] # baseline[s][t]
  <2>1. TypeOK /\ restarts = 0
    BY <1>1 DEF IInv, TypeOK
  <2>2. baseline[s][s] = 0 /\ venue[s] = "FILLED"
    BY <1>1, <2>1 DEF AccountInv, BaselinePredatesOrder, IInv, SubmittedHasOrder
  <2>3. FillOf(venue[s]) = 2 /\ Account[s] = 2
    BY <2>2 DEF FillOf, Account
  <2>4. SUFFICES ASSUME \A t \in Signals \ {s} : Account[t] = baseline[s][t]
                 PROVE  FALSE
    OBVIOUS
  <2>5. Account \in [Signals -> 0..2] /\ baseline[s] \in [Signals -> 0..2]
    <3>1. \A t \in Signals : Account[t] \in 0..2
      BY <1>1, <2>1, AccountGrows
    <3>2. baseline[s] \in [Signals -> 0..2]
      BY <1>1, <2>1 DEF TypeOK
    <3>3. QED
      BY <3>1, <3>2 DEF Account
  <2>6. PositionFits(s, baseline[s], Account) /\ CashFits(s, baseline[s], Account)
    BY <2>2, <2>4, <2>5, TotalsFollow
  <2>7. QED
    BY <1>1, <2>6, IncidentMismatches DEF Matches
<1>2. IInv /\ AccountInv /\ [Next]_vars
        => [\A s \in Signals :
              status[s] = "FILLED" /\ status'[s] = "INCIDENT"
                => baseline[s] = Unread \/ \E t \in Signals \ {s} : Account[t] # baseline[s][t]]_vars
  BY <1>1
<1>3. QED
  BY Invariance, AccountInvariance, <1>2, PTL DEF Spec, MismatchMeansInterference
=============================================================================
