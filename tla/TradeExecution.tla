--------------------------- MODULE TradeExecution ---------------------------
(***************************************************************************)
(* The trade execution core of packages/dsh-runtime (execution.py,         *)
(* tasks.py): one bot process runs ticks; a tick first resumes the tasks   *)
(* left over by earlier ones, group by group, then turns new signals into  *)
(* tasks.  Every commit to the bot's database and every call to the        *)
(* gateway is a step of its own, and the process may die before any of     *)
(* them.  The gateway is what the bot sees of it: an approval, an entry of *)
(* the key journal and an order per signal; its inside is OrderGateway.    *)
(*                                                                         *)
(* Decision-ledger rows, domain events and notes other than the tag        *)
(* "signal:<id>" are written here and read by no guard: they are left out. *)
(***************************************************************************)
EXTENDS Integers, FiniteSets, Lists, SequencesExt

CONSTANTS
    Signals,      \* signal ids, in the order of the feed and of the tasks' creation
    Order,        \* the order of a signal: its symbol, and what each of the two lots
                  \* it is filled in adds to the shares held and to the cash
    Modes,        \* the modes the bot may be restarted in
    Perishable,   \* signals whose valid_until may pass while their task is under way
    Purges,       \* the gateway's TTL clean-up overtakes the bot
    MaxRestarts   \* bound on crashes and restarts of the bot

ASSUME SignalsAssumption ==
    /\ Signals \subseteq Nat /\ IsFiniteSet(Signals)
    /\ \A s \in Signals : Order[s].shares \in Int /\ Order[s].cash \in Int \ {0}
    /\ Modes \subseteq {"paper", "shadow"} /\ Modes # {}
    /\ Perishable \subseteq Signals
    /\ Purges \in BOOLEAN
    /\ MaxRestarts \in Nat

VARIABLES
    status,     \* bot_tasks.status
    current,    \* payload and idempotency_key are those the approval was asked for
    intent,     \* payload.order_intent: what was, or may have been, sent
    baseline,   \* payload.reconcile_baseline: the account when it was previewed
    timer,      \* payload.(submission_)unknown_since against the quarantine window
    remembered, \* signals whose tag is in the bot's memory
    asked,      \* approvals requested for a signal
    approval,   \* the decision on the approval, at the gateway
    journal,    \* the idempotency key of the approved intent, at the gateway
    venue,      \* the order of the signal, at the venue
    lapsed,     \* signals whose approved valid_until has passed
    mode, phase, queue, pc, answer,
    restarts

tasks == <<status, current, intent, baseline, timer, remembered>>
gateway == <<asked, approval, journal, venue, lapsed>>
bot == <<mode, phase, queue, pc, answer>>
vars == <<tasks, gateway, bot, restarts>>

-----------------------------------------------------------------------------
(* The task state machine.                                                 *)

\* _TRANSITIONS, without the targets FAILED and RECONCILED, which no code uses.
Transitions == [
    SIGNAL_RECEIVED     |-> {"PREVIEWED", "PRE_SUBMIT_FAILED", "SHADOW_RECORDED"},
    PREVIEWED           |-> {"AWAITING_APPROVAL", "PRE_SUBMIT_FAILED", "SHADOW_RECORDED"},
    AWAITING_APPROVAL   |-> {"APPROVED_SUBMITTING", "REJECTED", "EXPIRED",
                             "APPROVAL_UNKNOWN", "PRE_SUBMIT_FAILED"},
    APPROVED_SUBMITTING |-> {"SUBMITTED", "SUBMISSION_UNKNOWN", "PRE_SUBMIT_FAILED",
                             "PRE_SUBMIT_BLOCKED", "ORDER_REJECTED"},
    PRE_SUBMIT_BLOCKED  |-> {"APPROVED_SUBMITTING", "PRE_SUBMIT_FAILED",
                             "SUBMISSION_UNKNOWN", "INCIDENT"},
    SUBMISSION_UNKNOWN  |-> {"SUBMITTED", "INCIDENT"},
    SUBMITTED           |-> {"ACKNOWLEDGED", "PARTIALLY_FILLED", "FILLED", "CANCELLED",
                             "ORDER_REJECTED", "INCIDENT"},
    ACKNOWLEDGED        |-> {"PARTIALLY_FILLED", "FILLED", "CANCELLED",
                             "ORDER_REJECTED", "INCIDENT"},
    PARTIALLY_FILLED    |-> {"PARTIALLY_FILLED", "FILLED", "CANCELLED", "INCIDENT"},
    FILLED              |-> {"FILLED", "DONE", "INCIDENT"}]

Terminal == {"REJECTED", "EXPIRED", "CANCELLED", "ORDER_REJECTED", "DONE",
             "APPROVAL_UNKNOWN", "INCIDENT", "PRE_SUBMIT_FAILED", "SHADOW_RECORDED"}

TaskStatus == DOMAIN Transitions \cup Terminal
Open == DOMAIN Transitions

\* Mutant of Legal: the state machine is not consulted.
LegalAlways(s, target) == TRUE

Legal(s, target) == status[s] \in Open /\ target \in Transitions[status[s]]

\* The groups of _resume_pending_tasks, in its order; the sixth are the signals.
Groups == << {"SUBMISSION_UNKNOWN"}, {"PRE_SUBMIT_BLOCKED"},
             {"AWAITING_APPROVAL", "APPROVED_SUBMITTING"},
             {"SUBMITTED", "ACKNOWLEDGED", "PARTIALLY_FILLED"}, {"FILLED"} >>
Listed(g) == {s \in Signals : status[s] \in Groups[g]}

OrderStatus == {"none", "SUBMITTED", "ACKNOWLEDGED", "PARTIALLY_FILLED", "FILLED",
                "CANCELLED", "PART_CANCELLED", "REJECTED"}

\* The lots of an order that are filled: none, one, both.
FillOf(order) ==
    CASE order = "FILLED" -> 2
      [] order \in {"PARTIALLY_FILLED", "PART_CANCELLED"} -> 1
      [] OTHER -> 0

\* The account, by the fills that made it.
Account == [s \in Signals |-> FillOf(venue[s])]

\* What is read of it: one position in a symbol and one balance of cash.
Together(amount) ==
    LET list == SetToSeq(Signals) IN Total([i \in 1..Len(list) |-> amount[list[i]]])
Position(symbol, account) ==
    Together([s \in Signals |->
                IF Order[s].symbol = symbol THEN account[s] * Order[s].shares ELSE 0])
Cash(account) == Together([s \in Signals |-> account[s] * Order[s].cash])

\* A baseline that could not be read is all zeros, cash included: no account.
Unread == [s \in Signals |-> -1]

\* "running": RESERVED by a handler at work; "orphan": by one that died or raised.
JournalStatus == {"absent", "running", "orphan", "FAILED", "COMPLETED"}

\* What _classify_submit_failure makes of a response.
Outcomes == {"SUBMISSION_UNKNOWN", "PRE_SUBMIT_BLOCKED", "PRE_SUBMIT_FAILED", "ORDER_REJECTED"}
Answers == Outcomes \cup {"none", "ORDER", "ADOPT"}

Steps == {"next", "submit", "send", "wait", "answer", "fill", "account",
          "preview", "advance", "limits", "ask", "await", "note", "shadow"}

TypeOK ==
    /\ status \in [Signals -> TaskStatus \cup {"absent"}]
    /\ current \in [Signals -> BOOLEAN]
    /\ intent \in [Signals -> {"none", "approved", "stray"}]
    /\ baseline \in [Signals -> [Signals -> 0..2] \cup {Unread}]
    /\ timer \in [Signals -> {"off", "on", "over"}]
    /\ remembered \subseteq Signals
    /\ asked \in [Signals -> Nat]
    /\ approval \in [Signals -> {"none", "REQUESTED", "APPROVED", "REJECTED", "EXPIRED", "gone"}]
    /\ journal \in [Signals -> JournalStatus]
    /\ venue \in [Signals -> OrderStatus]
    /\ lapsed \subseteq Perishable
    /\ mode \in Modes /\ phase \in 0..6 /\ queue \subseteq Signals
    /\ pc \in Steps /\ answer \in Answers
    /\ restarts \in 0..MaxRestarts

-----------------------------------------------------------------------------
(* The loop.                                                               *)

\* s is the task or the signal the loop is at.
At(s) == s \in queue /\ \A t \in queue : s <= t
Turn(s, g) == pc = "next" /\ phase = g /\ At(s)
On(s, step) == pc = step /\ At(s)

Leave(s) ==
    /\ queue' = queue \ {s}
    /\ pc' = "next" /\ answer' = "none"
    /\ UNCHANGED <<mode, phase>>
GoOn(step) == pc' = step /\ UNCHANGED <<mode, phase, queue, answer>>

\* An exception leaves the tick; run_once swallows it.
TickFails ==
    /\ phase' = 0 /\ queue' = {} /\ pc' = "next" /\ answer' = "none"
    /\ UNCHANGED mode

Set(s, target) == status' = [status EXCEPT ![s] = target]

\* transition: the target is checked against the table, and refused with TaskError.
MoveThen(s, target, after) ==
    \/ Legal(s, target) /\ Set(s, target) /\ after
    \/ ~Legal(s, target) /\ UNCHANGED status /\ TickFails

\* The next group that has a task; the fifth when there is none.  In phase 0 the
\* tick is about to begin.
NextGroup ==
    /\ pc = "next" /\ queue = {}
    /\ \E g \in phase + 1 .. 5 :
         /\ \A h \in phase + 1 .. g - 1 : Listed(h) = {}
         /\ g = 5 \/ Listed(g) # {}
         /\ phase' = g /\ queue' = Listed(g)
    /\ UNCHANGED <<tasks, gateway, mode, pc, answer, restarts>>

\* _process_new_signals, of the signals the feed has now.  The shadow mode records
\* its decisions also while the market is closed or its data stale.
ReadSignals ==
    /\ pc = "next" /\ queue = {} /\ phase = 5
    /\ phase' = 6 /\ queue' \in SUBSET Signals
    /\ UNCHANGED <<tasks, gateway, mode, pc, answer, restarts>>

\* Closed or stale, or the health or the signals cannot be read (an exception).
SkipSignals ==
    /\ pc = "next" /\ queue = {} /\ phase = 5
    /\ TickFails
    /\ UNCHANGED <<tasks, gateway, restarts>>

EndTick ==
    /\ pc = "next" /\ queue = {} /\ phase = 6
    /\ TickFails
    /\ UNCHANGED <<tasks, gateway, restarts>>

-----------------------------------------------------------------------------
(* Resuming: the submission.                                               *)

\* What get_approval answers APPROVED to: granted, and not consumed.
Usable(s) == approval[s] = "APPROVED" /\ journal[s] \in {"absent", "FAILED"}

\* The checks of _revalidate other than the expiry: evidence, the live signal,
\* the fresh preview against the approved boundary.  They may go either way.
Revalidated(s) == ~(current[s] /\ s \in lapsed)

QuarantineSubmission(s) ==
    /\ Turn(s, 1) /\ timer[s] = "over"
    /\ MoveThen(s, "INCIDENT", Leave(s))
    /\ UNCHANGED <<current, intent, baseline, timer, remembered, gateway, restarts>>

ResubmitUnknown(s) ==
    /\ Turn(s, 1) /\ timer[s] # "over"
    /\ GoOn("submit")
    /\ UNCHANGED <<tasks, gateway, restarts>>

\* Mutant of RetryBlocked: it waits for the approval to be usable again.
RetryBlockedPatiently(s) ==
    /\ Turn(s, 2) /\ Usable(s)
    /\ \/ MoveThen(s, "PRE_SUBMIT_FAILED", Leave(s))
       \/ Revalidated(s) /\ MoveThen(s, "APPROVED_SUBMITTING", GoOn("submit"))
    /\ UNCHANGED <<current, intent, baseline, timer, remembered, gateway, restarts>>

\* _retry_pre_submit_blocked; a 404 counts as no answer (Unavailable).
RetryBlocked(s) ==
    /\ Turn(s, 2) /\ approval[s] # "gone"
    /\ \/ MoveThen(s, "PRE_SUBMIT_FAILED", Leave(s))
       \/ Usable(s) /\ Revalidated(s) /\ MoveThen(s, "APPROVED_SUBMITTING", GoOn("submit"))
    /\ UNCHANGED <<current, intent, baseline, timer, remembered, gateway, restarts>>

\* _advance_awaiting of a task whose approval is pending; a 404 is EXPIRED only
\* when the bot's clock and the audit log confirm it.
CheckApproval(s) ==
    /\ Turn(s, 3) /\ status[s] = "AWAITING_APPROVAL"
    /\ \/ Usable(s) /\ Revalidated(s) /\ MoveThen(s, "APPROVED_SUBMITTING", GoOn("submit"))
       \/ Usable(s) /\ MoveThen(s, "PRE_SUBMIT_FAILED", Leave(s))
       \/ /\ approval[s] \in {"REJECTED", "EXPIRED"}
          /\ MoveThen(s, approval[s], Leave(s))
       \/ /\ approval[s] = "gone"
          /\ \E target \in {"EXPIRED", "APPROVAL_UNKNOWN"} : MoveThen(s, target, Leave(s))
       \/ /\ ~Usable(s) /\ approval[s] \in {"REQUESTED", "APPROVED"}
          /\ Leave(s)
          /\ UNCHANGED status
    /\ UNCHANGED <<current, intent, baseline, timer, remembered, gateway, restarts>>

\* The fresh preview cannot be had, and its exception is handled by no one.
RevalidateFails(s) ==
    /\ Usable(s)
    /\ Turn(s, 2) \/ (Turn(s, 3) /\ status[s] = "AWAITING_APPROVAL")
    /\ TickFails
    /\ UNCHANGED <<tasks, gateway, restarts>>

ResumeSubmitting(s) ==
    /\ Turn(s, 3) /\ status[s] = "APPROVED_SUBMITTING"
    /\ GoOn("submit")
    /\ UNCHANGED <<tasks, gateway, restarts>>

\* The gateway does not answer a query: the task is left for the next tick.
Unavailable(s) ==
    /\ \/ Turn(s, 2) \/ Turn(s, 4) \/ Turn(s, 5) \/ On(s, "fill") \/ On(s, "account")
       \/ (Turn(s, 3) /\ status[s] = "AWAITING_APPROVAL")
    /\ Leave(s)
    /\ UNCHANGED <<tasks, gateway, restarts>>

\* _submit: the intent is stored before it is sent, and sent again as it was.
BuildIntent(s) ==
    /\ On(s, "submit")
    /\ intent' = [intent EXCEPT ![s] =
                    IF @ # "none" THEN @ ELSE IF current[s] THEN "approved" ELSE "stray"]
    /\ GoOn("send")
    /\ UNCHANGED <<status, current, baseline, timer, remembered, gateway, restarts>>

Reply(s, ans, entry) ==
    /\ answer' = ans /\ pc' = "answer"
    /\ journal' = [journal EXCEPT ![s] = entry]
    /\ UNCHANGED <<tasks, asked, approval, venue, lapsed, mode, phase, queue, restarts>>

Unreachable(s) == On(s, "send") /\ Reply(s, "SUBMISSION_UNKNOWN", journal[s])

\* An intent that has lapsed (INTENT_EXPIRED comes before the key is looked at),
\* or that is not the approved one (APPROVAL_INTENT_MISMATCH), goes no further.
RefuseIntent(s) ==
    /\ On(s, "send")
    /\ \/ /\ intent[s] = "approved" /\ s \in lapsed
          /\ Reply(s, "PRE_SUBMIT_FAILED", journal[s])
       \/ /\ intent[s] = "stray"
          /\ \E ans \in {"PRE_SUBMIT_FAILED", "PRE_SUBMIT_BLOCKED"} : Reply(s, ans, journal[s])

Sent(s) == On(s, "send") /\ intent[s] = "approved" /\ s \notin lapsed

\* The key is known: DUPLICATE_ORDER, in flight, or recovered after its grace
\* period by asking the venue.
KnownKey(s) ==
    /\ Sent(s)
    /\ \/ journal[s] = "COMPLETED" /\ Reply(s, "ADOPT", "COMPLETED")
       \/ journal[s] \in {"running", "orphan"} /\ Reply(s, "SUBMISSION_UNKNOWN", journal[s])
       \/ journal[s] = "orphan" /\ venue[s] # "none" /\ Reply(s, "ORDER", "COMPLETED")

\* The key is free, or the venue (STRONG) never saw the order of the one who held it.
FreeKey(s) ==
    \/ journal[s] \in {"absent", "FAILED"}
    \/ journal[s] = "orphan" /\ venue[s] = "none"
Freed(s) == IF journal[s] = "orphan" THEN "FAILED" ELSE journal[s]

\* The gates of a new order: risk, the approval, the kill switch.  A stop after
\* the claim leaves the key reserved; the venue may refuse the order.
RefuseOrder(s) ==
    /\ Sent(s) /\ FreeKey(s)
    /\ \/ \E ans \in {"PRE_SUBMIT_FAILED", "PRE_SUBMIT_BLOCKED"} : Reply(s, ans, Freed(s))
       \/ approval[s] # "APPROVED" /\ Reply(s, "ADOPT", Freed(s))
       \/ approval[s] = "APPROVED" /\ Reply(s, "PRE_SUBMIT_BLOCKED", "orphan")
       \/ approval[s] = "APPROVED" /\ Reply(s, "ORDER_REJECTED", "FAILED")

\* The approval and the key are claimed; the answer is to come.
AcceptOrder(s) ==
    /\ Sent(s) /\ FreeKey(s) /\ approval[s] = "APPROVED"
    /\ journal' = [journal EXCEPT ![s] = "running"]
    /\ pc' = "wait"
    /\ UNCHANGED <<tasks, asked, approval, venue, lapsed, mode, phase, queue, answer, restarts>>

Answered(s) ==
    /\ On(s, "wait") /\ journal[s] = "COMPLETED"
    /\ Reply(s, "ORDER", "COMPLETED")

\* Mutant of TimedOut: no answer is taken for a refusal.
TimedOutRefused(s) == On(s, "wait") /\ Reply(s, "PRE_SUBMIT_FAILED", journal[s])

\* The call times out, or the gateway fails after the claim (503).
TimedOut(s) == On(s, "wait") /\ Reply(s, "SUBMISSION_UNKNOWN", journal[s])

\* _mark_submit_outcome: the new state and the payload in one transaction.
RecordRefusal(s) ==
    /\ On(s, "answer") /\ answer \in Outcomes
    /\ \/ /\ status[s] # answer /\ MoveThen(s, answer, Leave(s))
          /\ timer' = IF answer = "SUBMISSION_UNKNOWN" /\ timer[s] = "off"
                        THEN [timer EXCEPT ![s] = "on"] ELSE timer
       \/ status[s] = answer /\ Leave(s) /\ UNCHANGED <<status, timer>>
    /\ UNCHANGED <<current, intent, baseline, remembered, gateway, restarts>>

RecordOrder(s) ==
    /\ On(s, "answer") /\ answer = "ORDER"
    /\ MoveThen(s, "SUBMITTED", GoOn("fill"))
    /\ timer' = [timer EXCEPT ![s] = "off"]
    /\ UNCHANGED <<current, intent, baseline, remembered, gateway, restarts>>

\* Mutant of AdoptOrder: whoever holds the key is taken for an order.
AdoptOccupied(s) ==
    /\ On(s, "answer") /\ answer = "ADOPT"
    /\ MoveThen(s, "SUBMITTED", GoOn("fill"))
    /\ timer' = [timer EXCEPT ![s] = "off"]
    /\ UNCHANGED <<current, intent, baseline, remembered, gateway, restarts>>

\* _adopt_existing_order looks up the task's key, which is not that of the
\* intent once the payload was written again.
AdoptOrder(s) ==
    /\ On(s, "answer") /\ answer = "ADOPT"
    /\ \/ /\ current[s] /\ journal[s] = "COMPLETED"
          /\ MoveThen(s, "SUBMITTED", GoOn("fill"))
          /\ timer' = [timer EXCEPT ![s] = "off"]
       \/ /\ ~(current[s] /\ journal[s] = "COMPLETED")
          /\ IF status[s] = "SUBMISSION_UNKNOWN"
               THEN Leave(s) /\ UNCHANGED status
               ELSE MoveThen(s, "SUBMISSION_UNKNOWN", Leave(s))
          /\ timer' = [timer EXCEPT ![s] = IF @ = "off" THEN "on" ELSE @]
    /\ UNCHANGED <<current, intent, baseline, remembered, gateway, restarts>>

\* The lookup of the key raises an exception the tick does not handle.
AdoptFails(s) ==
    /\ On(s, "answer") /\ answer = "ADOPT"
    /\ TickFails
    /\ UNCHANGED <<tasks, gateway, restarts>>

-----------------------------------------------------------------------------
(* Resuming: the order and the account.                                    *)

\* _reconcile_fill: what the venue says of the order.
ReconcileFill(s) ==
    /\ Turn(s, 4) \/ On(s, "fill")
    /\ \/ /\ venue[s] \in {"CANCELLED", "PART_CANCELLED"}
          /\ MoveThen(s, "CANCELLED", Leave(s))
       \/ venue[s] = "REJECTED" /\ MoveThen(s, "ORDER_REJECTED", Leave(s))
       \/ /\ venue[s] = "PARTIALLY_FILLED"
          /\ MoveThen(s, "PARTIALLY_FILLED", Leave(s))
       \/ venue[s] = "FILLED" /\ MoveThen(s, "FILLED", GoOn("account"))
       \/ /\ venue[s] = "ACKNOWLEDGED" /\ status[s] = "SUBMITTED"
          /\ MoveThen(s, "ACKNOWLEDGED", Leave(s))
       \/ /\ venue[s] = "SUBMITTED" \/ (venue[s] = "ACKNOWLEDGED" /\ status[s] # "SUBMITTED")
          /\ Leave(s)
          /\ UNCHANGED status
    /\ UNCHANGED <<current, intent, baseline, timer, remembered, gateway, restarts>>

\* The venue answers UNKNOWN: the task is watched, and quarantined in the end.
\* (An order it once reported FILLED is not UNKNOWN to it later.)
OrderUnknown(s) ==
    /\ Turn(s, 4) \/ On(s, "fill")
    /\ timer' = [timer EXCEPT ![s] = IF @ = "off" THEN "on" ELSE @]
    /\ IF timer[s] = "over" THEN MoveThen(s, "INCIDENT", Leave(s))
                            ELSE Leave(s) /\ UNCHANGED status
    /\ UNCHANGED <<current, intent, baseline, remembered, gateway, restarts>>

\* The position and the cash of an account are those of a baseline and the lots
\* that the venue reports of s.
PositionFits(s, base, account) ==
    Position(Order[s].symbol, account)
      = Position(Order[s].symbol, base) + account[s] * Order[s].shares
CashFits(s, base, account) ==
    Cash(account) = Cash(base) + account[s] * Order[s].cash

\* Mutant of Matches: the cash is not looked at.
MatchesPosition(s) == baseline[s] # Unread /\ PositionFits(s, baseline[s], Account)

\* Mutant of Matches: the account is taken to have started empty.
MatchesFromZero(s) ==
    LET empty == [t \in Signals |-> 0] IN
    PositionFits(s, empty, Account) /\ CashFits(s, empty, Account)

\* evaluate_reconcile: position and cash are the baseline plus this fill.
Matches(s) ==
    /\ baseline[s] # Unread
    /\ PositionFits(s, baseline[s], Account) /\ CashFits(s, baseline[s], Account)

\* _reconcile_account.
ReconcileAccount(s) ==
    /\ Turn(s, 5) \/ On(s, "account")
    /\ MoveThen(s, IF Matches(s) THEN "DONE" ELSE "INCIDENT", Leave(s))
    /\ UNCHANGED <<current, intent, baseline, timer, remembered, gateway, restarts>>

-----------------------------------------------------------------------------
(* New signals.                                                            *)

SkipRemembered(s) ==
    /\ Turn(s, 6) /\ s \in remembered
    /\ Leave(s)
    /\ UNCHANGED <<tasks, gateway, restarts>>

\* _gate_reason: too weak, expired, market closed.
GateSignal(s) ==
    /\ Turn(s, 6) /\ s \notin remembered /\ mode = "paper"
    /\ remembered' = remembered \cup {s}
    /\ Leave(s)
    /\ UNCHANGED <<status, current, intent, baseline, timer, gateway, restarts>>

\* INSERT OR IGNORE: a task that exists stays as it is.  In shadow mode a gated
\* signal is recorded without a preview.
CreateTask(s) ==
    /\ Turn(s, 6) /\ s \notin remembered
    /\ status' = [status EXCEPT ![s] = IF @ = "absent" THEN "SIGNAL_RECEIVED" ELSE @]
    /\ \/ status[s] # "SHADOW_RECORDED" /\ GoOn("preview")
       \/ /\ status[s] = "SHADOW_RECORDED" \/ mode = "shadow"
          /\ GoOn("shadow")
    /\ UNCHANGED <<current, intent, baseline, timer, remembered, gateway, restarts>>

\* The gateway cannot be reached for a preview: an exception leaves the tick.
PreviewFails(s) ==
    /\ On(s, "preview")
    /\ TickFails
    /\ UNCHANGED <<tasks, gateway, restarts>>

PreviewRefused(s) ==
    /\ On(s, "preview")
    /\ \/ mode = "paper" /\ MoveThen(s, "PRE_SUBMIT_FAILED", GoOn("note")) /\ UNCHANGED remembered
       \/ /\ mode = "shadow" /\ GoOn("shadow")
          /\ remembered' = remembered \cup {s}
          /\ UNCHANGED status
    /\ UNCHANGED <<current, intent, baseline, timer, gateway, restarts>>

\* _preview: a new key, a new valid_until and a new baseline (zeros when the
\* account cannot be read) are committed, before the state machine is asked.
Preview(s) ==
    /\ On(s, "preview")
    /\ current' = [current EXCEPT ![s] = FALSE]
    /\ \E read \in {Account, Unread} : baseline' = [baseline EXCEPT ![s] = read]
    /\ GoOn("advance")
    /\ UNCHANGED <<status, intent, timer, remembered, gateway, restarts>>

Previewed(s) ==
    /\ On(s, "advance")
    /\ MoveThen(s, "PREVIEWED", GoOn("limits"))
    /\ UNCHANGED <<current, intent, baseline, timer, remembered, gateway, restarts>>

\* _policy_risk_block, and the turn-off of the shadow mode.
CheckLimits(s) ==
    /\ On(s, "limits")
    /\ \/ mode = "paper" /\ MoveThen(s, "PRE_SUBMIT_FAILED", GoOn("note"))
       \/ mode = "paper" /\ GoOn("ask") /\ UNCHANGED status
       \/ mode = "shadow" /\ GoOn("shadow") /\ UNCHANGED status
    /\ UNCHANGED <<current, intent, baseline, timer, remembered, gateway, restarts>>

Requested(s) ==
    /\ asked' = [asked EXCEPT ![s] = @ + 1]
    /\ approval' = [approval EXCEPT ![s] = "REQUESTED"]
    /\ UNCHANGED <<journal, venue, lapsed>>

\* _request_approval: bound to the payload as it is.
RequestApproval(s) ==
    /\ On(s, "ask")
    /\ Requested(s)
    /\ current' = [current EXCEPT ![s] = TRUE]
    /\ GoOn("await")
    /\ UNCHANGED <<status, intent, baseline, timer, remembered, restarts>>

\* Any failure ends the task, also one of a request that did arrive.
ApprovalRequestFails(s) ==
    /\ On(s, "ask")
    /\ Requested(s) \/ UNCHANGED gateway
    /\ MoveThen(s, "PRE_SUBMIT_FAILED", GoOn("note"))
    /\ UNCHANGED <<current, intent, baseline, timer, remembered, restarts>>

AwaitApproval(s) ==
    /\ On(s, "await")
    /\ MoveThen(s, "AWAITING_APPROVAL", GoOn("note"))
    /\ UNCHANGED <<current, intent, baseline, timer, remembered, gateway, restarts>>

\* The tag that keeps the signal from being processed again.
RememberSignal(s) ==
    /\ On(s, "note")
    /\ remembered' = remembered \cup {s}
    /\ Leave(s)
    /\ UNCHANGED <<status, current, intent, baseline, timer, gateway, restarts>>

\* Mutant of RecordShadow: the task takes the status of the ledger's entry.
RecordShadowLedger(s) ==
    /\ On(s, "shadow")
    /\ status' = [status EXCEPT ![s] =
                    IF @ \in {"SIGNAL_RECEIVED", "PREVIEWED"} THEN "SHADOW" ELSE @]
    /\ GoOn("note")
    /\ UNCHANGED <<current, intent, baseline, timer, remembered, gateway, restarts>>

\* _finish_shadow.
RecordShadow(s) ==
    /\ On(s, "shadow")
    /\ status' = [status EXCEPT ![s] =
                    IF @ \in {"SIGNAL_RECEIVED", "PREVIEWED"} THEN "SHADOW_RECORDED" ELSE @]
    /\ GoOn("note")
    /\ UNCHANGED <<current, intent, baseline, timer, remembered, gateway, restarts>>

-----------------------------------------------------------------------------
(* The gateway, the people and the venue.                                  *)

Decide(s, decision) ==
    /\ approval[s] = "REQUESTED"
    /\ approval' = [approval EXCEPT ![s] = decision]
    /\ UNCHANGED <<tasks, asked, journal, venue, lapsed, bot, restarts>>

ExpireApproval(s) ==
    /\ approval[s] = "REQUESTED" \/ Usable(s)
    /\ approval' = [approval EXCEPT ![s] = "EXPIRED"]
    /\ UNCHANGED <<tasks, asked, journal, venue, lapsed, bot, restarts>>

PurgeApproval(s) ==
    /\ Purges /\ approval[s] \in {"REJECTED", "EXPIRED"}
    /\ approval' = [approval EXCEPT ![s] = "gone"]
    /\ UNCHANGED <<tasks, asked, journal, venue, lapsed, bot, restarts>>

\* valid_until passes while the intent may be sent.  (Otherwise it shows in
\* _revalidate only, which may refuse in any case.)
LapseIntent(s) ==
    /\ s \in Perishable \ lapsed /\ intent[s] = "approved"
    /\ status[s] \in {"APPROVED_SUBMITTING", "SUBMISSION_UNKNOWN"}
    /\ lapsed' = lapsed \cup {s}
    /\ UNCHANGED <<tasks, asked, approval, journal, venue, bot, restarts>>

\* The handler of an accepted order: the venue takes it, the key is finalised,
\* or the handler dies in between.
HandlerStep(s) ==
    /\ journal[s] = "running"
    /\ \/ /\ venue[s] = "none"
          /\ venue' = [venue EXCEPT ![s] = "SUBMITTED"]
          /\ UNCHANGED journal
       \/ /\ venue[s] # "none"
          /\ journal' = [journal EXCEPT ![s] = "COMPLETED"]
          /\ UNCHANGED venue
    /\ UNCHANGED <<tasks, asked, approval, lapsed, bot, restarts>>

HandlerDies(s) ==
    /\ journal[s] = "running"
    /\ journal' = [journal EXCEPT ![s] = "orphan"]
    /\ UNCHANGED <<tasks, asked, approval, venue, lapsed, bot, restarts>>

OrderMoves == [
    none             |-> {},
    SUBMITTED        |-> {"ACKNOWLEDGED", "PARTIALLY_FILLED", "FILLED", "REJECTED", "CANCELLED"},
    ACKNOWLEDGED     |-> {"PARTIALLY_FILLED", "FILLED", "REJECTED", "CANCELLED"},
    PARTIALLY_FILLED |-> {"FILLED", "PART_CANCELLED"},
    FILLED |-> {}, CANCELLED |-> {}, PART_CANCELLED |-> {}, REJECTED |-> {}]

VenueMoves(s) ==
    /\ \E next \in OrderMoves[venue[s]] : venue' = [venue EXCEPT ![s] = next]
    /\ UNCHANGED <<tasks, asked, approval, journal, lapsed, bot, restarts>>

\* Ten minutes of UNKNOWN; nobody looks at the timer of a task that has ended.
WindowPasses(s) ==
    /\ timer[s] = "on" /\ status[s] \in Open
    /\ timer' = [timer EXCEPT ![s] = "over"]
    /\ UNCHANGED <<status, current, intent, baseline, remembered, gateway, bot, restarts>>

\* The process dies, or is stopped, and is started again in one of the modes.
Restart ==
    /\ restarts < MaxRestarts
    /\ restarts' = restarts + 1
    /\ mode' \in Modes
    /\ phase' = 0 /\ queue' = {} /\ pc' = "next" /\ answer' = "none"
    /\ UNCHANGED <<tasks, gateway>>

-----------------------------------------------------------------------------

Init ==
    /\ status = [s \in Signals |-> "absent"]
    /\ current = [s \in Signals |-> FALSE]
    /\ intent = [s \in Signals |-> "none"]
    /\ baseline = [s \in Signals |-> [t \in Signals |-> 0]]
    /\ timer = [s \in Signals |-> "off"]
    /\ remembered = {} /\ lapsed = {}
    /\ asked = [s \in Signals |-> 0]
    /\ approval = [s \in Signals |-> "none"]
    /\ journal = [s \in Signals |-> "absent"]
    /\ venue = [s \in Signals |-> "none"]
    /\ mode \in Modes
    /\ phase = 0 /\ queue = {} /\ pc = "next" /\ answer = "none"
    /\ restarts = 0

Tick == NextGroup \/ ReadSignals \/ SkipSignals \/ EndTick

Submission(s) ==
    \/ QuarantineSubmission(s) \/ ResubmitUnknown(s)
    \/ RetryBlocked(s) \/ CheckApproval(s) \/ RevalidateFails(s) \/ ResumeSubmitting(s)
    \/ Unavailable(s) \/ BuildIntent(s)
    \/ Unreachable(s) \/ RefuseIntent(s) \/ KnownKey(s) \/ RefuseOrder(s) \/ AcceptOrder(s)
    \/ Answered(s) \/ TimedOut(s)
    \/ RecordRefusal(s) \/ RecordOrder(s) \/ AdoptOrder(s) \/ AdoptFails(s)

Reconciliation(s) == ReconcileFill(s) \/ OrderUnknown(s) \/ ReconcileAccount(s)

NewSignal(s) ==
    \/ SkipRemembered(s) \/ GateSignal(s) \/ CreateTask(s)
    \/ PreviewFails(s) \/ PreviewRefused(s) \/ Preview(s) \/ Previewed(s)
    \/ CheckLimits(s) \/ RequestApproval(s) \/ ApprovalRequestFails(s) \/ AwaitApproval(s)
    \/ RememberSignal(s) \/ RecordShadow(s)

Bot == Tick \/ \E s \in Signals : Submission(s) \/ Reconciliation(s) \/ NewSignal(s)

Others(s) ==
    \/ Decide(s, "APPROVED") \/ Decide(s, "REJECTED")
    \/ ExpireApproval(s) \/ PurgeApproval(s) \/ LapseIntent(s)
    \/ HandlerStep(s) \/ HandlerDies(s) \/ VenueMoves(s) \/ WindowPasses(s)

Next == Bot \/ Restart \/ \E s \in Signals : Others(s)

Spec == Init /\ [][Next]_vars

\* The bot keeps ticking; the gateway answers a question that is asked again and
\* again; the clocks, the gateway's handlers and the venue go on.
Fairness ==
    /\ WF_vars(Bot)
    /\ \A s \in Signals :
         /\ SF_vars(RetryBlocked(s)) /\ SF_vars(CheckApproval(s)) /\ SF_vars(AdoptOrder(s))
         /\ SF_vars(ReconcileFill(s)) /\ SF_vars(ReconcileAccount(s))
         /\ SF_vars(ExpireApproval(s))
         /\ WF_vars(HandlerStep(s)) /\ WF_vars(VenueMoves(s)) /\ WF_vars(WindowPasses(s))

FairSpec == Spec /\ Fairness

-----------------------------------------------------------------------------
(* Properties.                                                             *)

\* No signal has two approvals requested for it, however often the bot is
\* restarted ("never asks again for want of memory", tasks.py).
OneApprovalPerSignal == \A s \in Signals : asked[s] <= 1

\* A task that is written off before its submission has no order at the venue
\* and no handler of the gateway about to place one.
WrittenOff == {"PRE_SUBMIT_FAILED", "PRE_SUBMIT_BLOCKED", "REJECTED", "EXPIRED",
               "APPROVAL_UNKNOWN", "SHADOW_RECORDED"}
OrdersAreTracked ==
    \A s \in Signals : status[s] \in WrittenOff => venue[s] = "none" /\ journal[s] # "running"

\* A task that is submitted or further has an order at the venue; one that is
\* filled or done has a filled one.
SubmittedHasOrder ==
    \A s \in Signals :
      /\ status[s] \in {"SUBMITTED", "ACKNOWLEDGED", "PARTIALLY_FILLED", "CANCELLED"}
            => venue[s] # "none"
      /\ status[s] \in {"FILLED", "DONE"} => venue[s] = "FILLED"

\* Of two matched tasks one was previewed after the other had filled.  (Three or
\* more orders may cancel each other in the totals and hide from each of them.)
MatchedInTurn ==
    \A s, t \in Signals :
      s # t /\ status[s] = "DONE" /\ status[t] = "DONE"
        => baseline[s][t] = 2 \/ baseline[t][s] = 2

\* A filled task becomes an incident only when another order moved the account
\* since its preview, or when its baseline was never read.
MismatchMeansInterference ==
    [][\A s \in Signals :
         status[s] = "FILLED" /\ status'[s] = "INCIDENT"
           => baseline[s] = Unread \/ \E t \in Signals \ {s} : Account[t] # baseline[s][t]]_vars

\* A task that asked for an approval comes to an end, unless the approval is
\* purged while the task is blocked: its 404 is then taken for a silent gateway.
TasksSettle ==
    \A s \in Signals :
      status[s] = "AWAITING_APPROVAL"
        ~> \/ status[s] \in Terminal
           \/ status[s] = "PRE_SUBMIT_BLOCKED" /\ approval[s] = "gone"

-----------------------------------------------------------------------------
(* The inductive invariant behind the safety properties.                   *)

\* The gateway has no order of s and no handler that may still place one.
Quiet(s) == venue[s] = "none" /\ journal[s] \notin {"running", "COMPLETED"}

\* The same, but for an intent that lapsed: it is refused before its key is looked at.
QuietUnlessLapsed(s) == Quiet(s) \/ s \in lapsed

Submitting == {"APPROVED_SUBMITTING", "SUBMISSION_UNKNOWN"}
Submitted == {"SUBMITTED", "ACKNOWLEDGED", "PARTIALLY_FILLED", "FILLED"}

\* Nothing is sent before the approval is found granted, and no intent but the
\* approved one is ever accepted.
QuietUntilSubmitted ==
    \A s \in Signals :
      /\ status[s] \in WrittenOff \cup {"absent", "SIGNAL_RECEIVED", "PREVIEWED", "AWAITING_APPROVAL"}
           => QuietUnlessLapsed(s)
      /\ intent[s] # "approved" => Quiet(s)

\* The key of an order tells whether it exists, but for a crash of its handler.
KeysTellOrders ==
    \A s \in Signals :
      /\ journal[s] \in {"absent", "FAILED"} => venue[s] = "none"
      /\ journal[s] = "COMPLETED" => venue[s] # "none"

\* Where the bot is, and what it holds of the task it is at.
StepInPhase ==
    /\ pc \in {"preview", "advance", "limits", "ask", "await", "note", "shadow"} => phase = 6
    /\ pc \in {"submit", "send", "wait", "answer"} => phase \in 1..3
StepFits(s) ==
    /\ pc \in {"submit", "send", "wait", "answer"} => status[s] \in Submitting
    /\ pc \in {"fill", "account"} => status[s] \in Submitted
    /\ pc \in {"limits", "ask"} => status[s] = "PREVIEWED" /\ asked[s] = 0
    /\ pc = "answer" /\ answer \in {"PRE_SUBMIT_FAILED", "PRE_SUBMIT_BLOCKED"} => QuietUnlessLapsed(s)
    /\ pc = "answer" /\ answer = "ORDER" => venue[s] # "none"
TurnsFit == StepInPhase /\ \A s \in Signals : At(s) => StepFits(s)

\* The tasks still to be taken up are in the states they were listed for.
StillListed ==
    \A s \in queue :
      phase \in 1..5 /\ (pc = "next" \/ ~At(s)) => status[s] \in Groups[phase]

\* Tasks left in APPROVED_SUBMITTING are dealt with before any later group.
SubmittingFirst ==
    \A s \in Signals :
      status[s] = "APPROVED_SUBMITTING" => phase < 3 \/ (phase = 3 /\ s \in queue)

NotAskedYet ==
    \A s \in Signals : status[s] \in {"absent", "SIGNAL_RECEIVED"} => asked[s] = 0

IInv ==
    /\ TypeOK
    /\ QuietUntilSubmitted /\ KeysTellOrders
    /\ TurnsFit /\ StillListed /\ SubmittingFirst
    /\ NotAskedYet /\ OneApprovalPerSignal
    /\ SubmittedHasOrder

-----------------------------------------------------------------------------
(* What is added to it for the accounts of the matched tasks.              *)

\* The states of a task whose approval has not been asked for.
Fresh == {"absent", "SIGNAL_RECEIVED", "PREVIEWED"}

UnsentUntilAsked == \A s \in Signals : status[s] \in Fresh => intent[s] = "none"
FillFits == \A s \in Signals : On(s, "fill") => status[s] = "SUBMITTED"

\* An account only grows by fills.
BaselinesBelow ==
    \A s \in Signals : baseline[s] = Unread \/ \A t \in Signals : baseline[s][t] <= Account[t]

\* No fills of other orders leave position and cash as they were.
NothingCancels ==
    \A s \in Signals : \A base, account \in [Signals -> 0..2] :
      /\ base[s] = 0 /\ \A t \in Signals : base[t] <= account[t]
      /\ PositionFits(s, base, account) /\ CashFits(s, base, account)
      => \A t \in Signals \ {s} : base[t] = account[t]

\* A task past its preview is not taken up again: its signal is remembered, or is
\* about to be.  (A crash before the note loses this.)
TakenUpOnce ==
    \A s \in Signals : status[s] \notin Fresh => s \in remembered \/ On(s, "note")
PreviewedFresh ==
    \A s \in Signals :
      On(s, "preview") \/ On(s, "advance") => status[s] \in {"SIGNAL_RECEIVED", "PREVIEWED"}

\* The account of a preview does not hold the order that is previewed.
BaselinePredatesOrder == \A s \in Signals : baseline[s] = Unread \/ baseline[s][s] = 0

AccountInv ==
    /\ UnsentUntilAsked /\ FillFits /\ BaselinesBelow
    /\ restarts = 0 => TakenUpOnce /\ PreviewedFresh /\ BaselinePredatesOrder
    /\ restarts = 0 /\ NothingCancels => MatchedInTurn

=============================================================================
