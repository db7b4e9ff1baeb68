----------------------- MODULE IntelligenceLoopProofs -----------------------
(***************************************************************************)
(* That the intelligence job loses an event only to a cycle that died,     *)
(* backs what the ledger says, and keeps what it observed, for any         *)
(* documents, sources, prices, checks and number of faults.                *)
(*                                                                         *)
(* Nothing of this but the types depends on what the file holds, or in     *)
(* which order.                                                            *)
(***************************************************************************)
EXTENDS IntelligenceLoop, ListProofs, FiniteSetTheorems, SequenceTheorems, TLAPS

\* The tables of the runtime, and what a cycle goes by.
RuntimeTyped ==
    /\ items \in [Clusters -> Item \cup {NoItem}]
    /\ tasks \in [Clusters -> {"none", "SIGNAL_RECEIVED", "SHADOW_RECORDED"}]
    /\ decisions \in [Clusters -> {"none", "OBSERVE", "SHADOW"}]
    /\ judged \in [Clusters -> FollowUp]
    /\ clock \in 0..MaxClock /\ mark \in Prices \cup {NoPrice}
    /\ faults \in Nat

\* The follow-ups go through items that the store has.
ItemsListed ==
    /\ pc \in {"refresh", "judge"} =>
         /\ todo \in Seq(Clusters)
         /\ \A i \in 1..Len(todo) : items[todo[i]] # NoItem
    /\ pc = "judge" => todo # <<>>

\* The task of a shadow decision is recorded before its row is written.
TaskFirst ==
    pc = "ledger" /\ Head(todo) \in Weighty => tasks[Current] = "SHADOW_RECORDED"

\* The tables of the collection, the file and the step of the cycle.
CollectionTyped ==
    /\ documents \subseteq Docs /\ events \subseteq documents \cap Eventful
    /\ file \in Seq(Eventful)
    /\ pc \in Steps
    /\ sources \subseteq Sources /\ fresh \subseteq documents
    /\ todo \in Seq(IF pc \in {"followUp", "refresh", "judge"} THEN Clusters ELSE Docs)
    /\ faults \in 0..MaxFaults

\* The document that an event is stored of is there, and a decision is about a document.
StepsFit ==
    /\ pc \in {"event", "task", "shadow", "ledger"} => todo # <<>>
    /\ pc = "event" => Head(todo) \in documents \cap Eventful

CInv == CollectionTyped /\ StepsFit

IInv == RuntimeTyped /\ ItemsListed /\ TaskFirst /\ LedgerIsBacked /\ LostByFaultsOnly

-----------------------------------------------------------------------------
\* The events are finitely many.
LEMMA FinitelyManyClusters == IsFiniteSet(Clusters)
<1> DEFINE f == [d \in Docs |-> Cluster[d]]
<1>1. f \in Surjection(Docs, Clusters)
      BY DEF Surjection, Clusters
<1>2. QED  BY <1>1, LoopAssumption, FS_Surjection DEF LoopAssumption

\* A document is of one of them.
LEMMA ClusterOfDocument == \A d \in Docs : Cluster[d] \in Clusters
BY DEF Clusters

\* An update of a table keeps its type, wherever it is.
LEMMA UpdateTyped ==
    ASSUME NEW S, NEW T, NEW f \in [S -> T], NEW x, NEW v, x \in S => v \in T
    PROVE  /\ [f EXCEPT ![x] = v] \in [S -> T]
           /\ \A y \in S : [f EXCEPT ![x] = v][y] = IF y = x THEN v ELSE f[y]
OBVIOUS

\* Steps that leave the runtime's tables alone.
Reading == Wake \/ Collect \/ StoreDocument \/ StoreEvent \/ Export \/ ReadFile \/ ListItems

\* The actions, one by one.
LEMMA NextCases ==
    ASSUME [Next]_vars
    PROVE  \/ Reading /\ UNCHANGED faults
           \/ UpsertItem /\ UNCHANGED faults
           \/ CreateTask /\ UNCHANGED faults
           \/ RecordShadow /\ UNCHANGED faults
           \/ WriteLedger /\ UNCHANGED faults
           \/ Refresh /\ UNCHANGED faults
           \/ Judge /\ UNCHANGED faults
           \/ Fault
           \/ UNCHANGED vars
BY DEF Next, Layer, Reading, vars

-----------------------------------------------------------------------------
(* Types.                                                                  *)

\* The time and the mark of a cycle are those of the prices.
LEMMA ReadingTyped ==
    ASSUME RuntimeTyped, Reading, UNCHANGED faults
    PROVE  RuntimeTyped' /\ UNCHANGED runtime
<1>1. UNCHANGED runtime
      BY DEF Reading, Wake, Collect, StoreDocument, StoreEvent, Export, ReadFile, ListItems
<1>2. clock' \in 0..MaxClock /\ mark' \in Prices \cup {NoPrice}
  <2>1. CASE ReadFile
    <3>1. clock' \in 0..MaxClock
          BY <2>1, LoopAssumption DEF LoopAssumption, ReadFile, RuntimeTyped
    <3>2. PriceAt[clock'] \in Prices
          BY <3>1, LoopAssumption DEF LoopAssumption, Prices, Range
    <3>3. QED  BY <2>1, <3>1, <3>2 DEF ReadFile, Marks
  <2>2. CASE ~ReadFile
        BY <2>2 DEF Reading, Wake, Collect, StoreDocument, StoreEvent, Export, ListItems, RuntimeTyped
  <2>3. QED  BY <2>1, <2>2
<1>3. QED  BY <1>1, <1>2 DEF runtime, RuntimeTyped

\* A cycle that ends early leaves the tables alone.
LEMMA FaultTyped ==
    ASSUME RuntimeTyped, Fault
    PROVE  RuntimeTyped' /\ UNCHANGED runtime
BY DEF Fault, runtime, RuntimeTyped

\* The item of a new event, and an item that is ingested again.
LEMMA ItemTyped ==
    ASSUME RuntimeTyped
    PROVE  /\ NewItem \in Item /\ NewItem # NoItem
           /\ \A i \in Item : /\ Merged(i) \in Item
                              /\ Merged(i).follow = i.follow /\ Merged(i).observed = i.observed
<1>1. Pending \in FollowUp  BY DEF Pending, FollowUp
<1>2. NewItem \in Item  BY <1>1 DEF NewItem, Item, RuntimeTyped
<1>3. NewItem # NoItem  BY <1>2, LoopAssumption DEF LoopAssumption
<1>4. ASSUME NEW i \in Item
      PROVE  Merged(i) \in Item /\ Merged(i).follow = i.follow /\ Merged(i).observed = i.observed
      BY <1>2 DEF Merged, NewItem, Item
<1>5. QED  BY <1>2, <1>3, <1>4

\* What a step leaves of the items.
Stays ==
    \A c \in Clusters : items[c] # NoItem =>
        /\ items'[c] # NoItem /\ items'[c].observed = items[c].observed
        /\ \A age \in Checkpoints :
             items[c].follow[age] # NoPrice => items'[c].follow[age] = items[c].follow[age]

\* Ingesting an event again keeps what is known, and a new one adds its item.
LEMMA Upserted ==
    ASSUME RuntimeTyped, UpsertItem, UNCHANGED faults
    PROVE  /\ RuntimeTyped' /\ Stays
           /\ \A c \in Clusters : items[c] # NoItem => items'[c].follow = items[c].follow
           /\ \A c \in Clusters : c # Current => items'[c] = items[c]
<1> DEFINE old == items[Current]
<1>1. UNCHANGED <<tasks, decisions, judged, clock, mark>>  BY DEF UpsertItem
<1>2. items \in [Clusters -> Item \cup {NoItem}]  BY DEF RuntimeTyped
<1>3. CASE UNCHANGED items
      BY <1>1, <1>2, <1>3 DEF RuntimeTyped, Stays
<1>4. CASE old # NoItem /\ items' = [items EXCEPT ![Current] = Merged(@)]
  <2>1. Current \in Clusters => old \in Item  BY <1>2, <1>4
  <2>2. Current \in Clusters => Merged(old) \in Item /\ Merged(old).follow = old.follow
                                /\ Merged(old).observed = old.observed
        BY <2>1, ItemTyped
  <2>3. items' = [items EXCEPT ![Current] = Merged(old)]  BY <1>4
  <2> HIDE DEF old
  <2>4. /\ items' \in [Clusters -> Item \cup {NoItem}]
        /\ \A c \in Clusters : items'[c] = IF c = Current THEN Merged(old) ELSE items[c]
        BY <1>2, <2>2, <2>3, UpdateTyped
  <2>5. NoItem \notin Item  BY LoopAssumption DEF LoopAssumption
  <2>6. ASSUME NEW c \in Clusters, items[c] # NoItem
        PROVE  items'[c] # NoItem /\ items'[c].observed = items[c].observed
               /\ items'[c].follow = items[c].follow
        BY <2>2, <2>4, <2>5, <2>6 DEF old
  <2>7. QED  BY <1>1, <2>4, <2>6 DEF RuntimeTyped, Stays
<1>5. CASE old = NoItem /\ items' = [items EXCEPT ![Current] = NewItem]
  <2>1. /\ items' \in [Clusters -> Item \cup {NoItem}]
        /\ \A c \in Clusters : items'[c] = IF c = Current THEN NewItem ELSE items[c]
        BY <1>2, <1>5, ItemTyped, UpdateTyped
  <2>2. \A c \in Clusters : items[c] # NoItem => items'[c] = items[c]
        BY <1>5, <2>1
  <2>3. QED  BY <1>1, <2>1, <2>2 DEF RuntimeTyped, Stays
<1>6. QED  BY <1>3, <1>4, <1>5 DEF UpsertItem

\* A check that is made is one that was not made before.
LEMMA CheckedKeeps ==
    ASSUME RuntimeTyped, mark # NoPrice, NEW i \in Item
    PROVE  /\ Checked(i) \in Item /\ Checked(i).observed = i.observed
           /\ \A age \in Checkpoints : i.follow[age] # NoPrice => Checked(i).follow[age] = i.follow[age]
<1> DEFINE checks == [age \in Checkpoints |-> IF age \in Due(i) THEN mark ELSE i.follow[age]]
<1>1. Checked(i) = [i EXCEPT !.priced = TRUE, !.follow = checks]
      BY DEF Checked
<1>2. i.follow \in FollowUp  BY DEF Item
<1>3. checks \in FollowUp  BY <1>2 DEF FollowUp, RuntimeTyped
<1>4. \A age \in Checkpoints : i.follow[age] # NoPrice => checks[age] = i.follow[age]
      BY DEF Due
<1> HIDE DEF checks
<1>5. Checked(i) \in Item /\ Checked(i).observed = i.observed /\ Checked(i).follow = checks
      BY <1>1, <1>3 DEF Item
<1>6. QED  BY <1>4, <1>5

\* A refresh changes one item that the store has.
LEMMA Refreshed ==
    ASSUME RuntimeTyped, ItemsListed, Refresh, UNCHANGED faults
    PROVE  /\ RuntimeTyped' /\ Stays
           /\ \A c \in Clusters : items[c] = NoItem => items'[c] = NoItem
<1> DEFINE c == Head(todo)
<1>1. UNCHANGED <<tasks, decisions, judged, clock>>  BY DEF Refresh
<1>2. items \in [Clusters -> Item \cup {NoItem}]  BY DEF RuntimeTyped
<1>3. mark' \in Prices \cup {NoPrice}  BY DEF Refresh, RuntimeTyped
<1>4. CASE UNCHANGED items
      BY <1>1, <1>2, <1>3, <1>4 DEF RuntimeTyped, Stays
<1>5. CASE /\ todo # <<>> /\ mark # NoPrice
           /\ items' = [items EXCEPT ![c] = Checked(@)]
  <2>1. todo \in Seq(Clusters) /\ \A i \in 1..Len(todo) : items[todo[i]] # NoItem
        BY DEF Refresh, ItemsListed
  <2>2. c \in Clusters /\ items[c] # NoItem
        BY <1>5, <2>1
  <2>3. items[c] \in Item  BY <1>2, <2>2
  <2> HIDE DEF c
  <2>4. /\ Checked(items[c]) \in Item /\ Checked(items[c]).observed = items[c].observed
        /\ \A age \in Checkpoints : items[c].follow[age] # NoPrice =>
                                      Checked(items[c]).follow[age] = items[c].follow[age]
        BY <1>5, <2>3, CheckedKeeps
  <2>5. /\ items' \in [Clusters -> Item \cup {NoItem}]
        /\ \A d \in Clusters : items'[d] = IF d = c THEN Checked(items[c]) ELSE items[d]
        BY <1>2, <1>5, <2>4, UpdateTyped
  <2>6. Checked(items[c]) # NoItem  BY <2>4, LoopAssumption DEF LoopAssumption
  <2>7. ASSUME NEW d \in Clusters, items[d] # NoItem
        PROVE  /\ items'[d] # NoItem /\ items'[d].observed = items[d].observed
               /\ \A age \in Checkpoints :
                    items[d].follow[age] # NoPrice => items'[d].follow[age] = items[d].follow[age]
        BY <2>4, <2>5, <2>6, <2>7
  <2>8. \A d \in Clusters : items[d] = NoItem => items'[d] = NoItem
        BY <2>2, <2>5
  <2>9. QED  BY <1>1, <1>3, <2>5, <2>7, <2>8 DEF RuntimeTyped, Stays
<1>6. QED  BY <1>4, <1>5 DEF Refresh

\* The task and the row of an event, and the judgement that is added to the row.
LEMMA OthersTyped ==
    ASSUME RuntimeTyped, ItemsListed, CreateTask \/ RecordShadow \/ WriteLedger \/ Judge,
           UNCHANGED faults
    PROVE  RuntimeTyped' /\ UNCHANGED items
<1>1. CASE CreateTask
  <2>1. Current \in Clusters => (IF tasks[Current] = "none" THEN "SIGNAL_RECEIVED" ELSE tasks[Current])
                                   \in {"none", "SIGNAL_RECEIVED", "SHADOW_RECORDED"}
        BY DEF RuntimeTyped
  <2>2. QED  BY <1>1, <2>1, UpdateTyped DEF CreateTask, RuntimeTyped
<1>2. CASE RecordShadow
      BY <1>2, UpdateTyped DEF RecordShadow, RuntimeTyped
<1>3. CASE WriteLedger
      BY <1>3, UpdateTyped DEF WriteLedger, RuntimeTyped, Status
<1>4. CASE Judge
  <2>1. todo \in Seq(Clusters) /\ todo # <<>> /\ \A i \in 1..Len(todo) : items[todo[i]] # NoItem
        BY <1>4 DEF Judge, ItemsListed
  <2>2. Head(todo) \in Clusters /\ items[Head(todo)] # NoItem  BY <2>1
  <2>3. items[Head(todo)].follow \in FollowUp  BY <2>2 DEF RuntimeTyped, Item
  <2>4. judged' \in [Clusters -> FollowUp]
        BY <1>4, <2>3, UpdateTyped DEF Judge, Judged, RuntimeTyped
  <2>5. QED  BY <1>4, <2>4 DEF Judge, RuntimeTyped
<1>5. QED  BY <1>1, <1>2, <1>3, <1>4

\* A step of any kind keeps the types.
LEMMA NextTyped ==
    ASSUME RuntimeTyped, ItemsListed, [Next]_vars
    PROVE  RuntimeTyped'
<1>1. CASE UNCHANGED vars
      BY <1>1 DEF vars, runtime, RuntimeTyped
<1>2. CASE ~UNCHANGED vars
      BY <1>2, NextCases, ReadingTyped, FaultTyped, Upserted, Refreshed, OthersTyped
<1>3. QED  BY <1>1, <1>2

-----------------------------------------------------------------------------
(* What is observed.                                                       *)

\* Every step keeps what was observed.
LEMMA NextStays ==
    ASSUME RuntimeTyped, ItemsListed, [Next]_vars
    PROVE  Stays
<1>1. UNCHANGED items => Stays
      BY DEF Stays
<1>2. UNCHANGED vars => UNCHANGED items
      BY DEF vars, runtime
<1>3. UNCHANGED runtime => UNCHANGED items
      BY DEF runtime
<1>4. QED
      BY <1>1, <1>2, <1>3, NextCases, ReadingTyped, FaultTyped, Upserted, Refreshed, OthersTyped

\* The follow-ups are listed of items that the store has.
LEMMA ListsKnown ==
    ASSUME ListItems
    PROVE  /\ pc' = "refresh" /\ UNCHANGED items
           /\ todo' \in Seq(Clusters)
           /\ \A i \in 1..Len(todo') : items[todo'[i]] # NoItem
<1>1. PICK listed \in SUBSET Known : Goto("refresh", SetToSeq(listed))
      BY DEF ListItems
<1>2. listed \subseteq Clusters /\ \A c \in listed : items[c] # NoItem
      BY DEF Known
<1>3. SetToSeq(listed) \in Seq(listed)
      BY <1>2, FinitelyManyClusters, FS_Subset, SetToSeqType
<1>4. \A i \in 1..Len(SetToSeq(listed)) : SetToSeq(listed)[i] \in listed
      BY <1>3
<1>5. todo' = SetToSeq(listed) /\ pc' = "refresh"
      BY <1>1 DEF Goto
<1>6. UNCHANGED items
      BY DEF ListItems, runtime
<1>7. todo' \in Seq(Clusters)
      BY <1>2, <1>3, <1>4, <1>5, SeqOfElements
<1>8. QED  BY <1>2, <1>4, <1>5, <1>6, <1>7

\* The list of the follow-ups is made of items, and items stay.
LEMMA NextListed ==
    ASSUME RuntimeTyped, ItemsListed, [Next]_vars
    PROVE  ItemsListed'
<1>1. Stays  BY NextStays
<1>2. CASE ListItems
      BY <1>2, ListsKnown DEF ItemsListed
<1>3. CASE Refresh \/ Judge
  <2>1. /\ todo \in Seq(Clusters)
        /\ \A i \in 1..Len(todo) : items[todo[i]] # NoItem /\ todo[i] \in Clusters
        BY <1>3 DEF Refresh, Judge, ItemsListed
  <2>2. \A i \in 1..Len(todo) : items'[todo[i]] # NoItem
        BY <1>1, <2>1 DEF Stays
  <2>3. CASE todo' = todo /\ todo # <<>>
        BY <2>1, <2>2, <2>3 DEF ItemsListed
  <2>4. CASE todo' = Tail(todo) /\ todo # <<>> /\ pc' = "refresh"
    <3>1. /\ Tail(todo) \in Seq(Clusters) /\ Len(Tail(todo)) = Len(todo) - 1
          /\ \A i \in 1..Len(Tail(todo)) : i + 1 \in 1..Len(todo) /\ Tail(todo)[i] = todo[i + 1]
          BY <2>1, <2>4
    <3>2. QED  BY <2>2, <2>4, <3>1 DEF ItemsListed
  <2>5. CASE pc' = "idle"
        BY <2>5 DEF ItemsListed
  <2>6. QED  BY <1>3, <2>3, <2>4, <2>5 DEF Refresh, Judge, Goto, ItemsListed
<1>4. CASE UNCHANGED vars
      BY <1>4 DEF vars, runtime, cycle, ItemsListed
<1>5. CASE \/ Wake \/ Collect \/ StoreDocument \/ StoreEvent \/ Export \/ ReadFile
           \/ UpsertItem \/ CreateTask \/ RecordShadow \/ WriteLedger \/ Fault
  <2>1. pc' \notin {"refresh", "judge"}
        BY <1>5 DEF Wake, Collect, StoreDocument, StoreEvent, Export, ReadFile, UpsertItem,
                    CreateTask, RecordShadow, WriteLedger, Fault, Goto
  <2>2. QED  BY <2>1 DEF ItemsListed
<1>6. QED  BY <1>2, <1>3, <1>4, <1>5 DEF Next, Layer

-----------------------------------------------------------------------------
(* The ledger.                                                             *)

\* Only the step that records the task leads to the row of a shadow decision.
LEMMA NextTaskFirst ==
    ASSUME RuntimeTyped, TaskFirst, [Next]_vars
    PROVE  TaskFirst'
<1>1. CASE UpsertItem
      BY <1>1 DEF UpsertItem, Goto, TaskFirst
<1>2. CASE RecordShadow
  <2>1. /\ todo' = todo
        /\ tasks' = [tasks EXCEPT ![Current] = "SHADOW_RECORDED"]
        BY <1>2 DEF RecordShadow, Goto
  <2>2. Head(todo) \in Weighty => Current \in Clusters
        BY ClusterOfDocument, LoopAssumption DEF LoopAssumption, Current
  <2>3. Current \in Clusters => tasks'[Current] = "SHADOW_RECORDED"
        BY <2>1 DEF RuntimeTyped
  <2>4. QED  BY <2>1, <2>2, <2>3 DEF TaskFirst, Current
<1>3. CASE UNCHANGED vars
      BY <1>3 DEF vars, runtime, cycle, TaskFirst, Current
<1>4. CASE \/ Wake \/ Collect \/ StoreDocument \/ StoreEvent \/ Export \/ ReadFile
           \/ CreateTask \/ WriteLedger \/ ListItems \/ Refresh \/ Judge \/ Fault
  <2>1. pc' # "ledger"
        BY <1>4 DEF Wake, Collect, StoreDocument, StoreEvent, Export, ReadFile, CreateTask,
                    WriteLedger, ListItems, Refresh, Judge, Fault, Goto
  <2>2. QED  BY <2>1 DEF TaskFirst
<1>5. QED  BY <1>1, <1>2, <1>3, <1>4 DEF Next, Layer

\* A recorded task stays recorded.
LEMMA NextTasks ==
    ASSUME RuntimeTyped, [Next]_vars, NEW c \in Clusters, tasks[c] = "SHADOW_RECORDED"
    PROVE  tasks'[c] = "SHADOW_RECORDED"
<1>1. CASE CreateTask
      BY <1>1 DEF CreateTask, RuntimeTyped
<1>2. CASE RecordShadow
      BY <1>2 DEF RecordShadow, RuntimeTyped
<1>3. CASE ~CreateTask /\ ~RecordShadow
  <2>1. UNCHANGED tasks
        BY <1>3 DEF Next, Layer, vars, runtime, Wake, Collect, StoreDocument, StoreEvent,
                    Export, ReadFile, UpsertItem, WriteLedger, ListItems, Refresh, Judge, Fault
  <2>2. QED  BY <2>1
<1>4. QED  BY <1>1, <1>2, <1>3

\* A row is written by WriteLedger only, after its task.
LEMMA NextDecisions ==
    ASSUME RuntimeTyped, TaskFirst, [Next]_vars, NEW c \in Clusters,
           decisions[c] = "SHADOW" => tasks[c] = "SHADOW_RECORDED"
    PROVE  decisions'[c] = "SHADOW" => tasks'[c] = "SHADOW_RECORDED"
<1>1. CASE WriteLedger
  <2>1. /\ UNCHANGED tasks /\ pc = "ledger"
        /\ decisions'[c] = IF c = Current THEN Status(Head(todo)) ELSE decisions[c]
        BY <1>1 DEF WriteLedger, RuntimeTyped
  <2>2. Status(Head(todo)) = "SHADOW" => Head(todo) \in Weighty  BY DEF Status
  <2>3. QED  BY <2>1, <2>2 DEF TaskFirst
<1>2. CASE ~WriteLedger
  <2>1. UNCHANGED decisions
        BY <1>2 DEF Next, Layer, vars, runtime, Wake, Collect, StoreDocument, StoreEvent,
                    Export, ReadFile, UpsertItem, CreateTask, RecordShadow, ListItems,
                    Refresh, Judge, Fault
  <2>2. QED  BY <2>1, NextTasks
<1>3. QED  BY <1>1, <1>2

\* The row quotes the checks of the item, and checks that were made stay.
LEMMA NextJudged ==
    ASSUME RuntimeTyped, ItemsListed, [Next]_vars, NEW c \in Clusters, NEW age \in Checkpoints,
           judged[c][age] # NoPrice => items[c] # NoItem /\ judged[c][age] = items[c].follow[age]
    PROVE  judged'[c][age] # NoPrice =>
             items'[c] # NoItem /\ judged'[c][age] = items'[c].follow[age]
<1>1. CASE UNCHANGED judged
      BY <1>1, NextStays DEF Stays
<1>2. CASE Judge /\ ~UNCHANGED judged
  <2>1. judged' = [judged EXCEPT ![Head(todo)] = items[Head(todo)].follow] /\ UNCHANGED items
        BY <1>2 DEF Judge, Judged
  <2>2. judged'[c] = IF c = Head(todo) THEN items[c].follow ELSE judged[c]
        BY <2>1 DEF RuntimeTyped
  <2>3. items[Head(todo)] # NoItem
        BY <1>2 DEF Judge, ItemsListed
  <2>4. QED  BY <2>1, <2>2, <2>3
<1>3. ~UNCHANGED judged => Judge
      BY DEF Next, Layer, vars, runtime, Wake, Collect, StoreDocument, StoreEvent,
             Export, ReadFile, UpsertItem, CreateTask, RecordShadow, WriteLedger, ListItems,
             Refresh, Fault
<1>4. QED  BY <1>1, <1>2, <1>3

\* What the ledger says stays backed.
LEMMA NextBacked ==
    ASSUME IInv, [Next]_vars
    PROVE  LedgerIsBacked'
<1>1. ASSUME NEW c \in Clusters
      PROVE  decisions'[c] = "SHADOW" => tasks'[c] = "SHADOW_RECORDED"
      BY NextDecisions DEF IInv, LedgerIsBacked
<1>2. ASSUME NEW c \in Clusters, NEW age \in Checkpoints
      PROVE  judged'[c][age] # NoPrice =>
               items'[c] # NoItem /\ judged'[c][age] = items'[c].follow[age]
      BY NextJudged DEF IInv, LedgerIsBacked
<1>3. QED  BY <1>1, <1>2 DEF LedgerIsBacked

-----------------------------------------------------------------------------
(* What is lost.                                                           *)

\* The items that no step will decide on.
Lost == Undecided \ UnderWay

\* A step loses none: the item that it leaves undecided is the one under way.
LEMMA NextLoses ==
    ASSUME RuntimeTyped, ItemsListed, [Next]_vars, ~Fault
    PROVE  Lost' \subseteq Lost
<1>1. CASE Reading /\ UNCHANGED faults
  <2>1. UNCHANGED <<items, decisions>>
        BY <1>1, ReadingTyped DEF runtime
  <2>2. pc \notin {"task", "shadow", "ledger"}
        BY <1>1 DEF Reading, Wake, Collect, StoreDocument, StoreEvent, Export, ReadFile, ListItems
  <2>3. QED  BY <2>1, <2>2 DEF Lost, Undecided, Known, UnderWay, InLedger
<1>2. CASE UpsertItem /\ UNCHANGED faults
  <2>1. /\ UNCHANGED decisions /\ pc = "item"
        /\ \A c \in Clusters : c # Current => items'[c] = items[c]
        BY <1>2, Upserted DEF UpsertItem
  <2>2. CASE items[Current] = NoItem /\ todo' = todo /\ pc' \in {"task", "shadow", "ledger"}
        BY <2>1, <2>2 DEF Lost, Undecided, Known, UnderWay, InLedger, Current
  <2>3. CASE items[Current] # NoItem
    <3>1. \A c \in Clusters : items'[c] # NoItem => items[c] # NoItem
          BY <2>1, <2>3
    <3>2. QED  BY <2>1, <3>1 DEF Lost, Undecided, Known, UnderWay, InLedger
  <2>4. CASE UNCHANGED items
        BY <2>1, <2>4 DEF Lost, Undecided, Known, UnderWay, InLedger
  <2>5. QED  BY <1>2, <2>2, <2>3, <2>4 DEF UpsertItem, Goto
<1>3. CASE CreateTask \/ RecordShadow
  <2>1. /\ UNCHANGED <<items, decisions, todo>>
        /\ pc \in {"task", "shadow", "ledger"} /\ pc' \in {"task", "shadow", "ledger"}
        BY <1>3 DEF CreateTask, RecordShadow, Goto
  <2>2. QED  BY <2>1 DEF Lost, Undecided, Known, UnderWay, InLedger, Current
<1>4. CASE WriteLedger
  <2>1. /\ UNCHANGED items /\ pc = "ledger"
        /\ \A c \in Clusters : decisions'[c] = IF c = Current THEN Status(Head(todo))
                                                               ELSE decisions[c]
        BY <1>4 DEF WriteLedger, RuntimeTyped
  <2>2. Status(Head(todo)) # "none"  BY DEF Status
  <2>3. QED  BY <2>1, <2>2 DEF Lost, Undecided, Known, UnderWay, InLedger
<1>5. CASE (Refresh \/ Judge) /\ UNCHANGED faults
  <2>1. /\ UNCHANGED decisions /\ pc \in {"refresh", "judge"}
        /\ \A c \in Clusters : items[c] = NoItem => items'[c] = NoItem
        BY <1>5, Refreshed, OthersTyped DEF Refresh, Judge
  <2>2. QED  BY <2>1 DEF Lost, Undecided, Known, UnderWay, InLedger
<1>6. CASE UNCHANGED vars
      BY <1>6 DEF vars, runtime, cycle, Lost, Undecided, Known, UnderWay, InLedger, Current
<1>7. QED  BY <1>1, <1>2, <1>3, <1>4, <1>5, <1>6, NextCases

\* A cycle that ends early loses at most the item under way.
LEMMA FaultLoses ==
    ASSUME RuntimeTyped, Fault
    PROVE  Lost' \subseteq Lost \cup {Current} /\ faults' = faults + 1
<1>1. UNCHANGED <<items, decisions>> /\ faults' = faults + 1
      BY FaultTyped DEF Fault, runtime
<1>2. QED  BY <1>1 DEF Lost, Undecided, Known, UnderWay, InLedger

\* So the lost items are never more than the cycles that ended early.
LEMMA NextLost ==
    ASSUME RuntimeTyped, ItemsListed, LostByFaultsOnly, [Next]_vars
    PROVE  LostByFaultsOnly'
<1>1. Lost \subseteq Clusters  BY DEF Lost, Undecided, Known
<1>2. IsFiniteSet(Lost) /\ Cardinality(Lost) \in Nat
      BY <1>1, FinitelyManyClusters, FS_Subset, FS_CardinalityType
<1>3. Cardinality(Lost) <= faults  BY DEF LostByFaultsOnly, Lost
<1>4. CASE Fault
  <2>1. Lost' \subseteq Lost \cup {Current} /\ faults' = faults + 1
        BY <1>4, FaultLoses
  <2>2. /\ IsFiniteSet(Lost \cup {Current})
        /\ Cardinality(Lost \cup {Current}) \in {Cardinality(Lost), Cardinality(Lost) + 1}
        BY <1>2, FS_AddElement
  <2>3. Cardinality(Lost') <= Cardinality(Lost \cup {Current}) /\ Cardinality(Lost') \in Nat
        BY <2>1, <2>2, FS_Subset, FS_CardinalityType
  <2>4. Cardinality(Lost') <= faults'
        BY <1>2, <1>3, <2>1, <2>2, <2>3 DEF RuntimeTyped
  <2>5. QED  BY <2>4 DEF LostByFaultsOnly, Lost
<1>5. CASE ~Fault
  <2>1. Lost' \subseteq Lost /\ faults' = faults
        BY <1>5, NextLoses, NextCases DEF vars
  <2>2. Cardinality(Lost') <= Cardinality(Lost) /\ Cardinality(Lost') \in Nat
        BY <1>2, <2>1, FS_Subset, FS_CardinalityType
  <2>3. Cardinality(Lost') <= faults'
        BY <1>2, <1>3, <2>1, <2>2 DEF RuntimeTyped
  <2>4. QED  BY <2>3 DEF LostByFaultsOnly, Lost
<1>6. QED  BY <1>4, <1>5

-----------------------------------------------------------------------------
(* The collection and the file.                                            *)

\* What is left of a list is a list, and so is none.
LEMMA RestTyped ==
    ASSUME NEW S, NEW list \in Seq(S), list # <<>>
    PROVE  Tail(list) \in Seq(S) /\ Head(list) \in S
OBVIOUS

\* The file holds events.
LEMMA ExportTyped ==
    ASSUME CInv, Export
    PROVE  file' \in Seq(Eventful)
<1> DEFINE ranked == Only(ByEventId, events)
           m == Min({ExportLimit, Len(ranked)})
<1>1. ByEventId \in Seq(Docs) /\ ExportLimit \in Nat  BY LoopAssumption DEF LoopAssumption
<1>2. ranked \in Seq(Docs \cap events)  BY <1>1, OnlyKeeps
<1>3. \A i \in 1..Len(ranked) : ranked[i] \in Eventful
  <2> HIDE DEF ranked
  <2>1. \A i \in 1..Len(ranked) : ranked[i] \in Docs \cap events  BY <1>2
  <2>2. QED  BY <2>1 DEF CInv, CollectionTyped
<1>4. ranked \in Seq(Eventful)
  <2> HIDE DEF ranked
  <2>1. QED  BY <1>2, <1>3, SeqOfElements
<1>5. m \in Nat /\ m <= Len(ranked)
  <2> HIDE DEF ranked
  <2>1. Len(ranked) \in Nat  BY <1>4
  <2>2. \E x \in {ExportLimit, Len(ranked)} : \A y \in {ExportLimit, Len(ranked)} : x <= y
        BY <1>1, <2>1
  <2>3. m \in {ExportLimit, Len(ranked)} /\ \A y \in {ExportLimit, Len(ranked)} : m <= y
        BY <2>2 DEF Min
  <2>4. QED  BY <1>1, <2>1, <2>3
<1>6. file' = SubSeq(ranked, 1, m)  BY DEF Export
<1>7. QED
  <2> HIDE DEF ranked, m
  <2>1. QED  BY <1>4, <1>5, <1>6

\* A document is stored before its event, and both are forgotten together.
LEMMA CollectionSteps ==
    ASSUME CInv, Wake \/ Collect \/ StoreDocument \/ StoreEvent, UNCHANGED faults
    PROVE  CInv'
<1>1. UNCHANGED file  BY DEF Wake, Collect, StoreDocument, StoreEvent, collection
<1>2. CASE Wake
      BY <1>1, <1>2 DEF Wake, Goto, collection, CInv, CollectionTyped, StepsFit, Steps
<1>3. CASE Collect
  <2>1. CASE sources = {}
        BY <1>1, <1>3, <2>1 DEF Collect, Goto, Prune, CInv, CollectionTyped, StepsFit, Steps
  <2>2. CASE sources # {}
    <3>1. \A s : Listings(s) \subseteq SUBSET Docs  BY DEF Listings
    <3>2. ASSUME NEW listed \in SUBSET Docs
          PROVE  SetToSeq(listed) \in Seq(Docs)
      <4>1. IsFiniteSet(listed)  BY LoopAssumption, FS_Subset DEF LoopAssumption
      <4>2. SetToSeq(listed) \in Seq(listed)  BY <4>1, SetToSeqType
      <4>3. \A i \in 1..Len(SetToSeq(listed)) : SetToSeq(listed)[i] \in Docs  BY <4>2
      <4>4. QED  BY <4>2, <4>3, SeqOfElements
    <3>3. (CHOOSE s \in sources : TRUE) \in sources  BY <2>2
    <3> DEFINE s == CHOOSE s \in sources : TRUE
    <3>4. /\ UNCHANGED <<documents, events, fresh, faults, file>> /\ sources' = sources \ {s}
          /\ Goto("collect", <<>>) \/ \E listed \in Listings(s) : Goto("document", SetToSeq(listed))
          BY <1>3, <1>1, <2>2 DEF Collect
    <3> HIDE DEF s
    <3>5. pc' \in {"collect", "document"} /\ todo' \in Seq(Docs)
      <4>1. CASE Goto("collect", <<>>)
            BY <4>1 DEF Goto
      <4>2. CASE \E listed \in Listings(s) : Goto("document", SetToSeq(listed))
        <5>1. PICK listed \in Listings(s) : Goto("document", SetToSeq(listed))  BY <4>2
        <5>2. listed \in SUBSET Docs  BY <3>1
        <5>3. SetToSeq(listed) \in Seq(Docs)  BY <3>2, <5>2
        <5>4. QED  BY <5>1, <5>3 DEF Goto
      <4>3. QED  BY <3>4, <4>1, <4>2
    <3>6. QED  BY <3>4, <3>5 DEF CInv, CollectionTyped, StepsFit, Steps
  <2>3. QED  BY <2>1, <2>2
<1>4. CASE StoreDocument
  <2>1. todo \in Seq(Docs)  BY <1>4 DEF StoreDocument, CInv, CollectionTyped
  <2>2. CASE todo # <<>> /\ documents' = documents \cup {Head(todo)}
             /\ fresh' = fresh \cup {Head(todo)}
             /\ IF Head(todo) \in Eventful THEN Goto("event", todo) ELSE Goto("document", Tail(todo))
    <3>1. Head(todo) \in Docs /\ Tail(todo) \in Seq(Docs)  BY <2>1, <2>2, RestTyped
    <3>2. UNCHANGED <<events, sources>>  BY <1>4 DEF StoreDocument
    <3>3. CASE Head(todo) \in Eventful
          BY <1>1, <2>1, <2>2, <3>1, <3>2, <3>3 DEF Goto, CInv, CollectionTyped, StepsFit, Steps
    <3>4. CASE Head(todo) \notin Eventful
          BY <1>1, <2>1, <2>2, <3>1, <3>2, <3>4 DEF Goto, CInv, CollectionTyped, StepsFit, Steps
    <3>5. QED  BY <3>3, <3>4
  <2>3. CASE Goto("collect", <<>>) /\ UNCHANGED <<documents, fresh>>
        BY <1>1, <1>4, <2>3 DEF StoreDocument, Goto, CInv, CollectionTyped, StepsFit, Steps
  <2>4. QED  BY <1>4, <2>2, <2>3 DEF StoreDocument
<1>5. CASE StoreEvent
  <2>1. todo \in Seq(Docs) /\ todo # <<>> /\ Head(todo) \in documents \cap Eventful
        BY <1>5 DEF StoreEvent, CInv, CollectionTyped, StepsFit
  <2>2. Tail(todo) \in Seq(Docs)  BY <2>1, RestTyped
  <2>3. UNCHANGED <<documents, sources, fresh>>  BY <1>5 DEF StoreEvent
  <2>4. CASE events' = events \cup {Head(todo)} /\ Goto("document", Tail(todo))
        BY <1>1, <2>1, <2>2, <2>3, <2>4 DEF Goto, CInv, CollectionTyped, StepsFit, Steps
  <2>5. CASE Goto("collect", <<>>) /\ UNCHANGED events
        BY <1>1, <2>3, <2>5 DEF Goto, CInv, CollectionTyped, StepsFit, Steps
  <2>6. QED  BY <1>5, <2>4, <2>5 DEF StoreEvent
<1>6. QED  BY <1>2, <1>3, <1>4, <1>5

\* The file is written, and read.
LEMMA FileSteps ==
    ASSUME CInv, Export \/ ReadFile, UNCHANGED faults
    PROVE  CInv'
<1>1. CASE Export
  <2>1. file' \in Seq(Eventful)  BY <1>1, ExportTyped
  <2>2. /\ UNCHANGED <<documents, events, sources, fresh, faults>>
        /\ pc' = "read" /\ todo' = <<>>
        BY <1>1 DEF Export, Goto
  <2>3. QED  BY <2>1, <2>2 DEF CInv, CollectionTyped, StepsFit, Steps
<1>2. CASE ReadFile
  <2>1. \A i \in 1..Len(file) : file[i] \in Docs
    <3>1. file \in Seq(Eventful)  BY DEF CInv, CollectionTyped
    <3>2. \A i \in 1..Len(file) : file[i] \in Eventful  BY <3>1
    <3>3. QED  BY <3>2 DEF Eventful
  <2>2. file \in Seq(Docs)
    <3>1. file \in Seq(Eventful)  BY DEF CInv, CollectionTyped
    <3>2. QED  BY <2>1, <3>1, SeqOfElements
  <2>3. QED
        BY <1>2, <2>2 DEF ReadFile, collection, Goto, CInv, CollectionTyped, StepsFit, Steps
<1>3. QED  BY <1>1, <1>2

\* The steps of the runtime leave the collection and the file alone, and go through the
\* documents of the file, then through the clusters of the items.
LEMMA RuntimeSteps ==
    ASSUME CInv, ItemsListed, UNCHANGED faults,
           \/ UpsertItem \/ CreateTask \/ RecordShadow \/ WriteLedger
           \/ ListItems \/ Refresh \/ Judge
    PROVE  CInv'
<1>1. UNCHANGED <<collection, sources, fresh>>
      BY DEF UpsertItem, CreateTask, RecordShadow, WriteLedger, ListItems, Refresh, Judge
<1>2. ASSUME pc' \in Steps, pc' # "event", todo' \in Seq(IF pc' \in {"followUp", "refresh", "judge"} THEN Clusters ELSE Docs),
             pc' \in {"task", "shadow", "ledger"} => todo' # <<>>
      PROVE  CInv'
      BY <1>1, <1>2 DEF collection, CInv, CollectionTyped, StepsFit
<1>3. CASE UpsertItem
  <2>1. todo \in Seq(Docs)  BY <1>3 DEF UpsertItem, CInv, CollectionTyped
  <2>2. todo # <<>> => Tail(todo) \in Seq(Docs)  BY <2>1, RestTyped
  <2>3. \/ pc' = "followUp" /\ todo' \in Seq(Clusters)
        \/ pc' = "item" /\ todo' \in Seq(Docs)
        \/ pc' \in {"task", "ledger"} /\ todo' \in Seq(Docs) /\ todo' # <<>>
        BY <1>3, <2>1, <2>2 DEF UpsertItem, Goto
  <2>4. /\ todo' \in Seq(IF pc' \in {"followUp", "refresh", "judge"} THEN Clusters ELSE Docs)
        /\ pc' \in Steps /\ pc' # "event" /\ (pc' \in {"task", "shadow", "ledger"} => todo' # <<>>)
        BY <2>3 DEF Steps
  <2>5. QED  BY ONLY <1>2, <2>4, Zenon
<1>4. CASE CreateTask \/ RecordShadow
  <2>1. todo \in Seq(Docs) /\ todo # <<>>
        BY <1>4 DEF CreateTask, RecordShadow, CInv, CollectionTyped, StepsFit
  <2>2. pc' \in {"shadow", "ledger"} /\ todo' = todo
        BY <1>4 DEF CreateTask, RecordShadow, Goto
  <2>3. QED  BY <1>2, <2>1, <2>2 DEF Steps
<1>5. CASE WriteLedger
  <2>1. todo \in Seq(Docs) /\ todo # <<>>
        BY <1>5 DEF WriteLedger, CInv, CollectionTyped, StepsFit
  <2>2. pc' = "item" /\ todo' \in Seq(Docs)
        BY <1>5, <2>1, RestTyped DEF WriteLedger, Goto
  <2>3. QED  BY <1>2, <2>2 DEF Steps
<1>6. CASE ListItems
      BY <1>2, <1>6, ListsKnown DEF Steps
<1>7. CASE Refresh \/ Judge
  <2>1. todo \in Seq(Clusters) /\ (Judge => todo # <<>>)
        BY <1>7 DEF Refresh, Judge, ItemsListed
  <2>2. todo # <<>> => Tail(todo) \in Seq(Clusters)  BY <2>1, RestTyped
  <2>3. \/ pc' = "idle" /\ todo' \in Seq(Docs)
        \/ pc' \in {"refresh", "judge"} /\ todo' \in Seq(Clusters)
        BY <1>7, <2>1, <2>2 DEF Refresh, Judge, Goto
  <2>4. /\ todo' \in Seq(IF pc' \in {"followUp", "refresh", "judge"} THEN Clusters ELSE Docs)
        /\ pc' \in Steps /\ pc' # "event" /\ (pc' \in {"task", "shadow", "ledger"} => todo' # <<>>)
        BY <2>3 DEF Steps
  <2>5. QED  BY ONLY <1>2, <2>4, Zenon
<1>8. QED  BY <1>3, <1>4, <1>5, <1>6, <1>7

\* Every step keeps the collection, the file and the lists.
LEMMA NextCollected ==
    ASSUME CInv, ItemsListed, [Next]_vars
    PROVE  CInv'
<1>1. CASE Layer
      BY <1>1, CollectionSteps, FileSteps, RuntimeSteps DEF Layer
<1>2. CASE Fault
  <2>1. faults' \in 0..MaxFaults
        BY <1>2, LoopAssumption DEF LoopAssumption, Fault, CInv, CollectionTyped
  <2>2. QED
        BY <1>2, <2>1 DEF Fault, Goto, collection, CInv, CollectionTyped, StepsFit, Steps
<1>3. CASE UNCHANGED vars
      BY <1>3 DEF vars, collection, cycle, CInv, CollectionTyped, StepsFit
<1>4. QED  BY <1>1, <1>2, <1>3 DEF Next

-----------------------------------------------------------------------------
(* The theorems.                                                           *)

\* At first there is nothing.
LEMMA InitIInv ==
    ASSUME Init
    PROVE  IInv
<1>1. RuntimeTyped /\ ItemsListed /\ TaskFirst /\ LedgerIsBacked
  <2>1. Pending \in FollowUp  BY DEF Pending, FollowUp
  <2>2. MaxClock \in Nat  BY LoopAssumption DEF LoopAssumption
  <2>3. RuntimeTyped  BY <2>1, <2>2 DEF Init, RuntimeTyped
  <2>4. ItemsListed /\ TaskFirst  BY DEF Init, ItemsListed, TaskFirst
  <2>5. LedgerIsBacked  BY DEF Init, LedgerIsBacked, Pending
  <2>6. QED  BY <2>3, <2>4, <2>5
<1>2. LostByFaultsOnly
  <2>1. Undecided \ UnderWay = {}  BY DEF Init, Undecided, Known
  <2>2. Cardinality(Undecided \ UnderWay) = 0  BY <2>1, FS_EmptySet
  <2>3. QED  BY <2>2 DEF Init, LostByFaultsOnly
<1>3. QED  BY <1>1, <1>2 DEF IInv

\* The tables, the list of the follow-ups, the order in which a shadow decision is
\* written, what the ledger quotes and the lost events are, together, inductive.
THEOREM Invariance == Spec => []IInv
<1>1. Init => IInv
      BY InitIInv
<1>2. IInv /\ [Next]_vars => IInv'
      BY NextTyped, NextListed, NextTaskFirst, NextBacked, NextLost DEF IInv
<1>3. QED  BY <1>1, <1>2, PTL DEF Spec

\* The documents, their events, the file and the lists of the cycle are inductive, too:
\* every event has its document, although documents are pruned.
THEOREM Typing == Spec => []TypeOK
<1>1. Init => CInv
  <2>1. MaxFaults \in Nat  BY LoopAssumption DEF LoopAssumption
  <2>2. QED  BY <2>1 DEF Init, CInv, CollectionTyped, StepsFit, Steps
<1>2. IInv /\ CInv /\ [Next]_vars => CInv'
      BY NextCollected DEF IInv
<1>3. IInv /\ CInv => TypeOK
      BY DEF IInv, CInv, RuntimeTyped, CollectionTyped, TypeOK
<1>4. QED  BY <1>1, <1>2, <1>3, Invariance, PTL DEF Spec

\* The ledger has no shadow decision without its task and quotes no observation that the
\* item does not have, whichever cycle died between the writes.
THEOREM LedgerBacked == Spec => []LedgerIsBacked
<1>1. IInv => LedgerIsBacked
      BY DEF IInv
<1>2. QED  BY <1>1, Invariance, PTL

\* An event that reached the runtime is left without a decision only by a cycle that ended
\* early, and each of those leaves at most one.
THEOREM OnlyFaultsLose == Spec => []LostByFaultsOnly
<1>1. IInv => LostByFaultsOnly
      BY DEF IInv
<1>2. QED  BY <1>1, Invariance, PTL

\* What was observed of an event is neither forgotten nor observed again.
THEOREM ObservationsKept == Spec => ObservationsStay
<1>1. IInv /\ [Next]_vars =>
        [\A c \in Clusters : items[c] # NoItem =>
            /\ items'[c] # NoItem /\ items'[c].observed = items[c].observed
            /\ \A age \in Checkpoints :
                 items[c].follow[age] # NoPrice => items'[c].follow[age] = items[c].follow[age]]_vars
      BY NextStays DEF IInv, Stays
<1>2. QED  BY <1>1, Invariance, PTL DEF Spec, ObservationsStay
=============================================================================
