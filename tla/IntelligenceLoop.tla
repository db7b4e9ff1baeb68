-------------------------- MODULE IntelligenceLoop --------------------------
(***************************************************************************)
(* How an event becomes a shadow decision and is followed up: the          *)
(* collection of services/intelligence-ingest, and the intelligence job of *)
(* one bot of packages/dsh-runtime, which a cycle of the autonomous layer  *)
(* runs one after the other for ever.  The two keep databases of their own *)
(* and meet in a file, INTELLIGENCE.json.  Every commit is a step, and a   *)
(* cycle may end before any of them: an exception, or a crash.             *)
(*                                                                         *)
(* A document yields at most one event.  A feed gives a document its own   *)
(* date, so that it is the same at each fetch; a page of links dates each  *)
(* link by the fetch, and yields another document every time.  Left out    *)
(* are the events that do not concern the bot, and the verdicts, which are *)
(* computed from the prices.  Rate limits and the health of the sources    *)
(* only make a cycle pass over a source, as a failure does.                *)
(***************************************************************************)
EXTENDS Lists, FiniteSetsExt, SequencesExt

CONSTANTS
    Docs,          \* documents that some fetch may yield
    Source,        \* the source of each
    Cluster,       \* its cluster_key: reprints and later fetches of one event share it
    Weighty,       \* documents whose event is worth a shadow decision
    Mute,          \* documents no event is extracted from
    ByEventId,     \* all documents by the id of their event, the highest first
    ExportLimit,   \* how many events the file holds: 80
    ItemLimit,     \* how many items a cycle follows up: 200
    Checkpoints,   \* the ages at which an event is looked at: 1h, 1d, 3d
    PriceAt,       \* the price, at each time, of the symbol that the events are about
    NoPrice,       \* the mark of a symbol that is not held, the price of a check to come
    NoItem,
    MaxClock,      \* bound on time
    MaxFaults      \* bound on the cycles that end early

Clusters == {Cluster[d] : d \in Docs}
Prices == Range(PriceAt)
Sources == {Source[d] : d \in Docs}
FollowUp == [Checkpoints -> Prices \cup {NoPrice}]
Item == [observed : 0..MaxClock, priced : BOOLEAN, follow : FollowUp]

ASSUME LoopAssumption ==
    /\ IsFiniteSet(Docs) /\ Weighty \subseteq Docs /\ Mute \subseteq Docs
    /\ ByEventId \in Seq(Docs) /\ Range(ByEventId) = Docs /\ IsInjective(ByEventId)
    /\ ExportLimit \in Nat /\ ItemLimit \in Nat /\ MaxClock \in Nat /\ MaxFaults \in Nat
    /\ Checkpoints \subseteq Nat /\ IsFiniteSet(Checkpoints)
    /\ DOMAIN PriceAt = 0..MaxClock /\ NoPrice \notin Prices /\ NoItem \notin Item

VARIABLES
    documents, events, \* the tables of the collection
    file,       \* the events in INTELLIGENCE.json
    items,      \* intelligence_items, by dedupe_key
    tasks,      \* the task of each item
    decisions,  \* the status of its row in the decision ledger
    judged,     \* the follow-up that the row quotes
    clock, mark, \* the time and the price that the cycle goes by
    pc,         \* the step of the cycle
    sources,    \* the sources it has yet to read
    fresh,      \* the documents it has stored, whose fetched_at is recent
    todo,       \* what is left of the list that the step goes through
    faults

collection == <<documents, events, file>>
runtime == <<items, tasks, decisions, judged>>
cycle == <<pc, sources, fresh, todo>>
vars == <<collection, runtime, clock, mark, cycle, faults>>

-----------------------------------------------------------------------------
\* extract_event finds something in the document.
Eventful == Docs \ Mute

Pending == [age \in Checkpoints |-> NoPrice]

Steps == {"idle", "collect", "document", "event", "export", "read", "item", "task",
          "shadow", "ledger", "followUp", "refresh", "judge"}

TypeOK ==
    /\ documents \subseteq Docs /\ events \subseteq documents \cap Eventful
    /\ file \in Seq(Eventful)
    /\ items \in [Clusters -> Item \cup {NoItem}]
    /\ tasks \in [Clusters -> {"none", "SIGNAL_RECEIVED", "SHADOW_RECORDED"}]
    /\ decisions \in [Clusters -> {"none", "OBSERVE", "SHADOW"}]
    /\ judged \in [Clusters -> FollowUp]
    /\ clock \in 0..MaxClock /\ mark \in Prices \cup {NoPrice}
    /\ pc \in Steps
    /\ sources \subseteq Sources /\ fresh \subseteq documents
    /\ todo \in Seq(IF pc \in {"followUp", "refresh", "judge"} THEN Clusters ELSE Docs)
    /\ faults \in 0..MaxFaults

-----------------------------------------------------------------------------
Goto(step, list) == pc' = step /\ todo' = list

\* A cycle starts.
Wake ==
    /\ pc = "idle"
    /\ sources' = Sources
    /\ Goto("collect", <<>>)
    /\ UNCHANGED <<collection, runtime, clock, mark, fresh>>

\* Mutant: the events stay.
PruneDocuments(old) ==
    /\ documents' = documents \ old
    /\ UNCHANGED events

\* prune_expired: the events of the old documents before the documents.
Prune(old) ==
    /\ events' = events \ old
    /\ documents' = documents \ old

\* collect_source: what a fetch may find, some of the documents of the source, in
\* any order.
Listings(s) == SUBSET {d \in Docs : Source[d] = s}

\* ingest_once reads the next source, which lists some of its documents, or passes over
\* it; after the last one it prunes what it has not seen for a long time.
Collect ==
    /\ pc = "collect"
    /\ \/ /\ sources = {}
          /\ \E old \in SUBSET (documents \ fresh) : Prune(old)
          /\ fresh' = {}
          /\ Goto("export", <<>>)
          /\ UNCHANGED sources
       \/ /\ sources # {}
          /\ LET s == CHOOSE s \in sources : TRUE IN
             /\ sources' = sources \ {s}
             /\ \/ Goto("collect", <<>>)
                \/ \E listed \in Listings(s) :
                     Goto("document", SetToSeq(listed))
          /\ UNCHANGED <<documents, events, fresh>>
    /\ UNCHANGED <<file, runtime, clock, mark>>

\* upsert_document: known by its content.  An error leaves the rest of the source.
StoreDocument ==
    /\ pc = "document"
    /\ \/ /\ todo # <<>>
          /\ documents' = documents \cup {Head(todo)}
          /\ fresh' = fresh \cup {Head(todo)}
          /\ IF Head(todo) \in Eventful THEN Goto("event", todo) ELSE Goto("document", Tail(todo))
       \/ /\ Goto("collect", <<>>)
          /\ UNCHANGED <<documents, fresh>>
    /\ UNCHANGED <<events, file, runtime, clock, mark, sources>>

\* upsert_event, by an id that is computed from the document.  An error here leaves
\* the document without its event.
StoreEvent ==
    /\ pc = "event"
    /\ \/ /\ events' = events \cup {Head(todo)}
          /\ Goto("document", Tail(todo))
       \/ /\ Goto("collect", <<>>)
          /\ UNCHANGED events
    /\ UNCHANGED <<documents, file, runtime, clock, mark, sources, fresh>>

\* export_snapshot replaces the file by the events with the highest ids.
Export ==
    /\ pc = "export"
    /\ LET ranked == Only(ByEventId, events) IN
       file' = SubSeq(ranked, 1, Min({ExportLimit, Len(ranked)}))
    /\ Goto("read", <<>>)
    /\ UNCHANGED <<documents, events, runtime, clock, mark, sources, fresh>>

\* marks_from_snapshots: the symbol is held, or it is not.
Marks(time) == {PriceAt[time], NoPrice}

\* run_autonomous_cycle takes the time and the mark of the symbol, if it is held, and
\* official_snapshot_items the events of the file.
ReadFile ==
    /\ pc = "read"
    /\ clock' \in {clock, clock + 1} /\ clock' <= MaxClock
    /\ mark' \in Marks(clock')
    /\ Goto("item", file)
    /\ UNCHANGED <<collection, runtime, sources, fresh>>

Current == Cluster[Head(todo)]

NewItem == [observed |-> clock, priced |-> mark # NoPrice, follow |-> Pending]

\* Mutant: nothing is kept.
MergedAnew(item) == NewItem

\* IntelligenceStore.upsert: of an item that it has the follow-up and the time are kept.
Merged(item) == [NewItem EXCEPT !.observed = item.observed, !.follow = item.follow]

\* _process_raw_item: an item that the store has is not assessed again.
UpsertItem ==
    /\ pc = "item"
    /\ \/ /\ todo = <<>>
          /\ Goto("followUp", <<>>)
          /\ UNCHANGED items
       \/ /\ todo # <<>> /\ items[Current] # NoItem
          /\ items' = [items EXCEPT ![Current] = Merged(@)]
          /\ Goto("item", Tail(todo))
       \/ /\ todo # <<>> /\ items[Current] = NoItem
          /\ items' = [items EXCEPT ![Current] = NewItem]
          /\ Goto(IF Head(todo) \in Weighty THEN "task" ELSE "ledger", todo)
    /\ UNCHANGED <<collection, tasks, decisions, judged, clock, mark, sources, fresh>>

\* Mutant: the task is not moved on.
CreateTaskOnly ==
    /\ pc = "task"
    /\ tasks' = [tasks EXCEPT ![Current] = IF @ = "none" THEN "SIGNAL_RECEIVED" ELSE @]
    /\ Goto("ledger", todo)
    /\ UNCHANGED <<collection, items, decisions, judged, clock, mark, sources, fresh>>

\* _record_shadow: the task, ...
CreateTask ==
    /\ pc = "task"
    /\ tasks' = [tasks EXCEPT ![Current] = IF @ = "none" THEN "SIGNAL_RECEIVED" ELSE @]
    /\ Goto("shadow", todo)
    /\ UNCHANGED <<collection, items, decisions, judged, clock, mark, sources, fresh>>

\* Mutant: the row is not written.
RecordShadowOnly ==
    /\ pc = "shadow"
    /\ tasks' = [tasks EXCEPT ![Current] = "SHADOW_RECORDED"]
    /\ Goto("item", Tail(todo))
    /\ UNCHANGED <<collection, items, decisions, judged, clock, mark, sources, fresh>>

\* ... its transition, ...
RecordShadow ==
    /\ pc = "shadow"
    /\ tasks' = [tasks EXCEPT ![Current] = "SHADOW_RECORDED"]
    /\ Goto("ledger", todo)
    /\ UNCHANGED <<collection, items, decisions, judged, clock, mark, sources, fresh>>

\* What the event amounts to: importance, grade, lane, evidence.
Status(d) == IF d \in Weighty THEN "SHADOW" ELSE "OBSERVE"

\* ... and the row in the ledger, which an event of no weight gets at once.
WriteLedger ==
    /\ pc = "ledger"
    /\ decisions' = [decisions EXCEPT ![Current] = Status(Head(todo))]
    /\ Goto("item", Tail(todo))
    /\ UNCHANGED <<collection, items, tasks, judged, clock, mark, sources, fresh>>

Known == {c \in Clusters : items[c] # NoItem}

\* refresh_follow_ups goes through the items that were observed last; of those that
\* one cycle observed, through any.
ListItems ==
    /\ pc = "followUp"
    /\ \E listed \in SUBSET Known :
         /\ Cardinality(listed) = Min({ItemLimit, Cardinality(Known)})
         /\ \A c \in listed, d \in Known \ listed : items[c].observed >= items[d].observed
         /\ Goto("refresh", SetToSeq(listed))
    /\ UNCHANGED <<collection, runtime, clock, mark, sources, fresh>>

\* Mutant: not at the hour that they come due.
DueAfter(item) ==
    {age \in Checkpoints : item.follow[age] = NoPrice /\ clock > item.observed + age}

\* The checks of an item that have come due and were not made yet.
Due(item) ==
    {age \in Checkpoints : item.follow[age] = NoPrice /\ clock >= item.observed + age}

Checked(item) ==
    [item EXCEPT !.priced = TRUE,
                 !.follow = [age \in Checkpoints |-> IF age \in Due(item) THEN mark ELSE @[age]]]

\* A check is made at the mark of the cycle, if the symbol has one; so is the price at
\* the event, when it is missing.
Refresh ==
    /\ pc = "refresh"
    /\ LET changed == mark # NoPrice /\ Checked(items[Head(todo)]) # items[Head(todo)] IN
       \/ /\ todo = <<>>
          /\ Goto("idle", <<>>) /\ mark' = NoPrice
          /\ UNCHANGED items
       \/ /\ todo # <<>> /\ ~changed
          /\ Goto("refresh", Tail(todo))
          /\ UNCHANGED <<items, mark>>
       \/ /\ todo # <<>> /\ changed
          /\ items' = [items EXCEPT ![Head(todo)] = Checked(@)]
          /\ Goto("judge", todo)
          /\ UNCHANGED mark
    /\ UNCHANGED <<collection, tasks, decisions, judged, clock, sources, fresh>>

\* find_by_intelligence_item.
InLedger(c) == decisions[c] # "none"

\* attach_judgment.
Judged(c) == [judged EXCEPT ![c] = items[c].follow]

\* _sync_follow_up_to_ledger.
Judge ==
    /\ pc = "judge"
    /\ judged' = IF InLedger(Head(todo)) THEN Judged(Head(todo)) ELSE judged
    /\ Goto("refresh", Tail(todo))
    /\ UNCHANGED <<collection, items, tasks, decisions, clock, mark, sources, fresh>>

Layer ==
    /\ \/ Wake \/ Collect \/ StoreDocument \/ StoreEvent \/ Export \/ ReadFile \/ UpsertItem
       \/ CreateTask \/ RecordShadow \/ WriteLedger \/ ListItems \/ Refresh \/ Judge
    /\ UNCHANGED faults

-----------------------------------------------------------------------------
\* The cycle ends early.
Fault ==
    /\ pc # "idle" /\ faults < MaxFaults
    /\ faults' = faults + 1
    /\ Goto("idle", <<>>)
    /\ sources' = {} /\ fresh' = {} /\ mark' = NoPrice
    /\ UNCHANGED <<collection, runtime, clock>>

Init ==
    /\ documents = {} /\ events = {} /\ file = <<>>
    /\ items = [c \in Clusters |-> NoItem]
    /\ tasks = [c \in Clusters |-> "none"]
    /\ decisions = [c \in Clusters |-> "none"]
    /\ judged = [c \in Clusters |-> Pending]
    /\ clock = 0 /\ mark = NoPrice
    /\ pc = "idle" /\ sources = {} /\ fresh = {} /\ todo = <<>>
    /\ faults = 0

Next == Layer \/ Fault

\* run_forever goes on whatever a cycle raises.  Time passes, and the symbols of the
\* items are held again and again.
Spec ==
    /\ Init /\ [][Next]_vars
    /\ WF_vars(Layer)
    /\ SF_vars(ReadFile /\ clock' > clock /\ UNCHANGED faults)
    /\ SF_vars(ReadFile /\ mark' \in Prices /\ UNCHANGED faults)

-----------------------------------------------------------------------------
\* The items that a decision is under way for, or that were left without one.
Undecided == {c \in Known : ~InLedger(c)}
UnderWay == IF pc \in {"task", "shadow", "ledger"} THEN {Current} ELSE {}

\* An event that reached the runtime is decided on, and a cycle that ends early leaves at
\* most one without its row in the ledger: no later cycle makes up for it, since a known
\* item is not assessed again (intelligence.py, _process_raw_item).
LostByFaultsOnly == Cardinality(Undecided \ UnderWay) <= faults

\* The ledger calls a decision SHADOW only when its task is recorded, and quotes no
\* observation that the item does not have, whichever cycle died between the writes
\* (intelligence.py, _record_shadow and _sync_follow_up_to_ledger).
LedgerIsBacked ==
    \A c \in Clusters :
        /\ decisions[c] = "SHADOW" => tasks[c] = "SHADOW_RECORDED"
        /\ \A age \in Checkpoints :
             judged[c][age] # NoPrice => items[c] # NoItem /\ judged[c][age] = items[c].follow[age]

\* What was observed of an event is never observed again nor forgotten, although the event
\* is ingested again in each cycle, from several sources, and its document may be pruned
\* (store.py, IntelligenceStore.upsert keeps follow_up and observed_at).
ObservationsStay ==
    [][\A c \in Clusters : items[c] # NoItem =>
          /\ items'[c] # NoItem /\ items'[c].observed = items[c].observed
          /\ \A age \in Checkpoints :
               items[c].follow[age] # NoPrice => items'[c].follow[age] = items[c].follow[age]]_vars

Finished(c) ==
    /\ items[c] # NoItem
    /\ \A age \in Checkpoints :
         items[c].follow[age] # NoPrice \/ items[c].observed + age > MaxClock

\* As many items as a cycle follows up were observed after this one, or with it.
PushedOut(c) ==
    Cardinality({d \in Known \ {c} : items[d].observed >= items[c].observed}) >= ItemLimit

\* Every check that comes due of an item is made in the end, unless newer items push
\* it out of the list first (intelligence.py, refresh_follow_ups).
FollowUpsFinish == \A c \in Clusters : c \in Known ~> Finished(c) \/ (c \in Known /\ PushedOut(c))
=============================================================================
