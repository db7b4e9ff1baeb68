---------------------------- MODULE OrderGateway ----------------------------
(***************************************************************************)
(* The order path of services/quant-gateway: the approval ledger and the   *)
(* idempotency-key journal (SQLite, shared by all worker processes), the   *)
(* paper venue, and the handler threads that run POST /orders step by step *)
(* (routers/orders.py).  Every access to the database is one step; what a  *)
(* handler does between two accesses can interleave with every other       *)
(* handler, with the people who decide approvals, with the passing of time *)
(* and with a crash of its process.                                        *)
(***************************************************************************)
EXTENDS Naturals

CONSTANTS
    Workers,      \* handler threads: each serves one request at a time
    Procs,        \* gateway processes (uvicorn --workers)
    ProcOf,       \* the process a handler thread runs in
    Approvals,    \* approval ids
    Keys,         \* idempotency keys
    Digests,      \* digests of order intents (symbol, side, quantity, ...)
    Binding,      \* the digest an approval was created with, or NoDigest
    Intents,      \* the request bodies clients send: key, approval and digest
    Perishable,   \* the intents whose valid_until may pass
    OrderIds,     \* venue order ids (bound: at most this many acceptances)
    StrongLookup, \* the venue declares order_lookup_consistency = "STRONG"
    SerialKeys,   \* clients never have two requests with one key in flight
    PromptVenue,  \* no handler outlives the grace period between claim and finalize
    MaxFaults,    \* bound on storage errors and crashes
    NoIntent, NoOrder, NoKey, NoApproval, NoDigest

ASSUME ConstantsAssumption ==
    /\ ProcOf \in [Workers -> Procs]
    /\ Intents \subseteq [key: Keys, approval: Approvals, digest: Digests]
    /\ Binding \in [Approvals -> Digests \cup {NoDigest}]
    /\ Perishable \subseteq Intents
    /\ StrongLookup \in BOOLEAN /\ SerialKeys \in BOOLEAN /\ PromptVenue \in BOOLEAN
    /\ MaxFaults \in Nat

ASSUME SentinelsAssumption ==
    /\ NoIntent \notin Intents
    /\ NoOrder \notin OrderIds
    /\ NoKey \notin Keys
    /\ NoApproval \notin Approvals
    /\ NoDigest \notin Digests

VARIABLES
    approvals,  \* table approvals: status, consumed_key, consumed_order_id, expiry
    keys,       \* table idempotency_keys
    rows,       \* table paper_orders: the orders the venue can be asked about
    book,       \* per process: the orders its PaperAdapter filled in memory
    stopped,    \* per process: PaperAdapter.stopped, the kill switch
    lapsed,     \* the intents whose valid_until has passed
    granted,    \* history: the approvals a person has said yes to
    pc,         \* per handler: the step it is about to take
    intent,     \* per handler: the order intent it serves
    order,      \* per handler: the order id the venue gave or the lookup found
    reading,    \* per handler: the expired approval it is about to write back
    faults      \* storage errors and crashes so far

tables == <<approvals, keys, rows>>
venue == <<book, stopped>>
locals == <<pc, intent, order, reading>>
vars == <<approvals, keys, rows, book, stopped, lapsed, granted, pc, intent, order, reading, faults>>

-----------------------------------------------------------------------------
(* Types.                                                                  *)

\* "absent": not created yet; "pruned": deleted by the TTL clean-up.
ApprovalStatus == {"absent", "REQUESTED", "APPROVED", "CONSUMING", "CONSUMED",
                   "REJECTED", "EXPIRED", "pruned"}

ApprovalRow == [status: ApprovalStatus, key: Keys \cup {NoKey},
                order: OrderIds \cup {NoOrder}, lapsed: BOOLEAN]

KeyStatus == {"absent", "RESERVED", "COMPLETED", "FAILED"}

\* request_hash is the intent itself; "aged" is updated_at past the grace period.
KeyRow == [status: KeyStatus, intent: Intents \cup {NoIntent},
           order: OrderIds \cup {NoOrder}, aged: BOOLEAN]

Orders == [id: OrderIds, intent: Intents]

Stages == {"idle", "record", "lookup", "recover", "free", "gate", "precheck",
           "expire", "health", "claim", "submit", "save", "finalize", "prune",
           "reject"}

TypeOK ==
    /\ approvals \in [Approvals -> ApprovalRow]
    /\ keys \in [Keys -> KeyRow]
    /\ rows \subseteq Orders
    /\ book \in [Procs -> SUBSET Orders]
    /\ stopped \in [Procs -> BOOLEAN]
    /\ lapsed \subseteq Perishable
    /\ granted \subseteq Approvals
    /\ pc \in [Workers -> Stages]
    /\ intent \in [Workers -> Intents \cup {NoIntent}]
    /\ order \in [Workers -> OrderIds \cup {NoOrder}]
    /\ reading \in [Workers -> Approvals \cup {NoApproval}]
    /\ faults \in 0..MaxFaults
    /\ \A w \in Workers :
         /\ pc[w] \notin {"idle", "expire"} => intent[w] \in Intents
         /\ pc[w] = "expire" => reading[w] \in Approvals
         /\ pc[w] \in {"recover", "save", "finalize"} => order[w] \in OrderIds

-----------------------------------------------------------------------------
(* Rows and helpers.                                                       *)

Blank(status) == [status |-> status, key |-> NoKey, order |-> NoOrder, lapsed |-> FALSE]

\* A REQUESTED or APPROVED row never carries a consumed_key, so the stale copy
\* that _expired writes back is this row whatever it overwrites.
ExpiredRow == [status |-> "EXPIRED", key |-> NoKey, order |-> NoOrder, lapsed |-> TRUE]

NoKeyRow == [status |-> "absent", intent |-> NoIntent, order |-> NoOrder, aged |-> FALSE]

Undecided == {"REQUESTED", "APPROVED"}

Expirable(a) == approvals[a].status \in Undecided /\ approvals[a].lapsed

KeyOf(w) == intent[w].key
InFlight(k) == \E w \in Workers : intent[w] # NoIntent /\ KeyOf(w) = k

\* A handler between its claim and the end of its submission.
Claiming == {"submit", "save", "finalize", "reject"}

RowsOf(k) == {o \in rows : o.intent.key = k}
UsedIds == {o.id : o \in rows \cup UNION {book[p] : p \in Procs}}

Holders(k) == {a \in Approvals : approvals[a].key = k}

\* UPDATE idempotency_keys ... WHERE key = k: no effect on a missing row.
KeyUpdated(k, row) ==
    IF keys[k].status = "absent" THEN keys ELSE [keys EXCEPT ![k] = row]

\* release_consumed_approval: the ledgers it may leave behind.
Released(k) ==
    IF Holders(k) = {} THEN {approvals}
    ELSE {IF approvals[a].status = "CONSUMING"
            THEN [approvals EXCEPT ![a] = Blank("APPROVED")]
            ELSE approvals : a \in Holders(k)}

\* finalize_consumed_approval.
Consumed(k, o) ==
    IF Holders(k) = {} THEN {approvals}
    ELSE {IF approvals[a].status = "CONSUMING"
            THEN [approvals EXCEPT ![a].status = "CONSUMED", ![a].order = o]
            ELSE approvals : a \in Holders(k)}

\* mark_idempotency_failed: the key and its approval in one transaction.
MarkFailed(k) ==
    /\ keys' = KeyUpdated(k, [keys[k] EXCEPT !.status = "FAILED", !.aged = FALSE])
    /\ approvals' \in Released(k)

\* Mutant of FinalizeKey: the approval is forgotten.
FinalizeKeyAlone(k, o) ==
    /\ keys' = KeyUpdated(k, [keys[k] EXCEPT !.status = "COMPLETED", !.order = o,
                                             !.aged = FALSE])
    /\ UNCHANGED approvals

\* finalize_idempotency_key: the key and its approval in one transaction.
FinalizeKey(k, o) ==
    /\ keys' = KeyUpdated(k, [keys[k] EXCEPT !.status = "COMPLETED", !.order = o,
                                             !.aged = FALSE])
    /\ approvals' \in Consumed(k, o)

GoTo(w, stage) == pc' = [pc EXCEPT ![w] = stage]

\* The handler returns, or raises, and its locals are gone.
Done(w) ==
    /\ pc' = [pc EXCEPT ![w] = "idle"]
    /\ intent' = [intent EXCEPT ![w] = NoIntent]
    /\ order' = [order EXCEPT ![w] = NoOrder]
    /\ reading' = [reading EXCEPT ![w] = NoApproval]

Proceed(w, stage) == GoTo(w, stage) /\ UNCHANGED <<intent, order, reading>>

-----------------------------------------------------------------------------
(* Approvals: created by bots, decided by people, expiring with time.      *)

\* Mutant of CreateApproval: the status the client sends is stored as it is.
CreateDecided(a) ==
    /\ approvals[a].status = "absent"
    /\ approvals' \in {[approvals EXCEPT ![a] = Blank(s)] : s \in {"REQUESTED", "APPROVED"}}
    /\ UNCHANGED <<keys, rows, venue, lapsed, granted, locals, faults>>

CreateApproval(a) ==
    /\ approvals[a].status = "absent"
    /\ approvals' = [approvals EXCEPT ![a] = Blank("REQUESTED")]
    /\ UNCHANGED <<keys, rows, venue, lapsed, granted, locals, faults>>

\* decide_approval: one transaction, only from REQUESTED, and without a look at
\* expires_at; an approval gets a fresh window.
Decide(a, decision) ==
    /\ approvals[a].status = "REQUESTED"
    /\ approvals' = [approvals EXCEPT ![a] = Blank(decision)]
    /\ granted' = IF decision = "APPROVED" THEN granted \cup {a} ELSE granted
    /\ UNCHANGED <<keys, rows, venue, lapsed, locals, faults>>

LapseApproval(a) ==
    /\ approvals[a].status \in Undecided /\ ~approvals[a].lapsed
    /\ approvals' = [approvals EXCEPT ![a].lapsed = TRUE]
    /\ UNCHANGED <<keys, rows, venue, lapsed, granted, locals, faults>>

\* GET /approvals and GET /approvals/{id}: a read that finds a row past its
\* expiry goes on to write it back.
ReadApproval(w, a) ==
    /\ pc[w] = "idle"
    /\ Expirable(a)
    /\ GoTo(w, "expire")
    /\ reading' = [reading EXCEPT ![w] = a]
    /\ UNCHANGED <<tables, venue, lapsed, granted, intent, order, faults>>

\* _expired: the upsert of the copy that was read, in a transaction of its own
\* and without a condition on the row it replaces.
SaveExpired(w) ==
    /\ pc[w] = "expire"
    /\ approvals' = [approvals EXCEPT ![reading[w]] = ExpiredRow]
    /\ Done(w)
    /\ UNCHANGED <<keys, rows, venue, lapsed, granted, faults>>

-----------------------------------------------------------------------------
(* Time: the grace period of a reserved key, the validity of an intent.    *)

AgeKey(k) ==
    /\ keys[k].status = "RESERVED" /\ ~keys[k].aged
    /\ PromptVenue => ~\E w \in Workers : pc[w] \in Claiming /\ KeyOf(w) = k
    /\ keys' = [keys EXCEPT ![k].aged = TRUE]
    /\ UNCHANGED <<approvals, rows, venue, lapsed, granted, locals, faults>>

LapseIntent(i) ==
    /\ i \in Perishable \ lapsed
    /\ lapsed' = lapsed \cup {i}
    /\ UNCHANGED <<tables, venue, granted, locals, faults>>

-----------------------------------------------------------------------------
(* POST /markets/{market}/orders, one action per database access.          *)

\* Validation, the expiry of the intent, and the first look at the key.  A key
\* with another body (IDEMPOTENCY_CONFLICT) or with an order (DUPLICATE_ORDER)
\* is refused at once and changes nothing.
Receive(w, i) ==
    /\ pc[w] = "idle"
    /\ i \notin lapsed
    /\ SerialKeys => ~InFlight(i.key)
    /\ intent' = [intent EXCEPT ![w] = i]
    /\ \/ /\ keys[i.key].status = "absent"
          /\ GoTo(w, "gate")
       \/ /\ keys[i.key].intent = i /\ keys[i.key].order = NoOrder
          /\ GoTo(w, "record")
    /\ UNCHANGED <<tables, venue, lapsed, granted, order, reading, faults>>

\* Mutant of ReadRecord: a reserved key is in flight for ever.
ReadRecordInFlight(w) ==
    /\ pc[w] = "record"
    /\ IF keys[KeyOf(w)].status = "FAILED" THEN Proceed(w, "gate") ELSE Done(w)
    /\ UNCHANGED <<tables, venue, lapsed, granted, faults>>

\* The second read of the key: a FAILED key takes the full path again, an aged
\* one is looked up at the venue, a fresh or vanished one is IN_FLIGHT.
ReadRecord(w) ==
    /\ pc[w] = "record"
    /\ LET row == keys[KeyOf(w)] IN
         \/ row.status = "FAILED" /\ Proceed(w, "gate")
         \/ row.status \in {"RESERVED", "COMPLETED"} /\ row.aged /\ Proceed(w, "lookup")
         \/ row.status # "FAILED" /\ ~row.aged /\ Done(w)
    /\ UNCHANGED <<tables, venue, lapsed, granted, faults>>

\* Mutant of Lookup: every answer of the venue is taken for a miss.
LookupBlind(w) ==
    /\ pc[w] = "lookup"
    /\ Proceed(w, "free")
    /\ UNCHANGED <<tables, venue, lapsed, granted, faults>>

\* Mutant of Lookup: a miss at an EVENTUAL venue frees the key as well.
LookupTrusting(w) ==
    /\ pc[w] = "lookup"
    /\ RowsOf(KeyOf(w)) = {} /\ Proceed(w, "free")
    /\ UNCHANGED <<tables, venue, lapsed, granted, faults>>

\* find_order_by_idempotency_key: only a STRONG venue may conclude from a miss,
\* only an EVENTUAL one can miss an order it has.
Lookup(w) ==
    /\ pc[w] = "lookup"
    /\ \/ \E o \in RowsOf(KeyOf(w)) :
            /\ order' = [order EXCEPT ![w] = o.id]
            /\ GoTo(w, "recover")
            /\ UNCHANGED <<intent, reading>>
       \/ RowsOf(KeyOf(w)) = {} /\ StrongLookup /\ Proceed(w, "free")
       \/ ~StrongLookup /\ Done(w)
    /\ UNCHANGED <<tables, venue, lapsed, granted, faults>>

Recover(w) ==
    /\ pc[w] = "recover"
    /\ FinalizeKey(KeyOf(w), order[w])
    /\ Done(w)
    /\ UNCHANGED <<rows, venue, lapsed, granted, faults>>

FreeKey(w) ==
    /\ pc[w] = "free"
    /\ MarkFailed(KeyOf(w))
    /\ Proceed(w, "gate")
    /\ UNCHANGED <<rows, venue, lapsed, granted, faults>>

\* Risk snapshot, equity and risk-policy: pass, refuse, or a CRITICAL verdict
\* that stops the adapter of this process and refuses.
Gate(w) ==
    /\ pc[w] = "gate"
    /\ \/ Proceed(w, "precheck") /\ UNCHANGED stopped
       \/ Done(w) /\ UNCHANGED stopped
       \/ Done(w) /\ stopped' = [stopped EXCEPT ![ProcOf[w]] = TRUE]
    /\ UNCHANGED <<tables, book, lapsed, granted, faults>>

\* _precheck_approval: read-only, except that get_approval expires the row.
Precheck(w) ==
    /\ pc[w] = "precheck"
    /\ LET a == intent[w].approval IN
         \/ /\ Expirable(a)
            /\ GoTo(w, "expire")
            /\ reading' = [reading EXCEPT ![w] = a]
            /\ UNCHANGED <<intent, order>>
         \/ /\ ~Expirable(a)
            /\ approvals[a].status = "APPROVED" /\ Binding[a] = intent[w].digest
            /\ Proceed(w, "health")
         \/ /\ ~Expirable(a)
            /\ approvals[a].status # "APPROVED" \/ Binding[a] # intent[w].digest
            /\ Done(w)
    /\ UNCHANGED <<tables, venue, lapsed, granted, faults>>

Health(w) ==
    /\ pc[w] = "health"
    /\ IF stopped[ProcOf[w]] THEN Done(w) ELSE Proceed(w, "claim")
    /\ UNCHANGED <<tables, venue, lapsed, granted, faults>>

\* The approval may be consumed by intent i: the conditions under which the
\* transaction of claim_order_reservation commits its two writes.
Claimable(i) ==
    /\ approvals[i.approval].status = "APPROVED"
    /\ ~approvals[i.approval].lapsed
    /\ Binding[i.approval] = i.digest
    /\ \/ keys[i.key].status = "absent"
       \/ keys[i.key].status = "FAILED" /\ keys[i.key].intent = i

Claim(w) ==
    /\ pc[w] = "claim"
    /\ LET i == intent[w] IN
         \/ /\ Claimable(i)
            /\ keys' = [keys EXCEPT ![i.key] = [status |-> "RESERVED", intent |-> i,
                                                order |-> NoOrder, aged |-> FALSE]]
            /\ approvals' = [approvals EXCEPT ![i.approval] =
                               [status |-> "CONSUMING", key |-> i.key,
                                order |-> NoOrder, lapsed |-> FALSE]]
            /\ Proceed(w, "submit")
         \/ /\ approvals[i.approval].status = "APPROVED" /\ approvals[i.approval].lapsed
            /\ approvals' = [approvals EXCEPT ![i.approval] = ExpiredRow]
            /\ Done(w)
            /\ UNCHANGED keys
         \/ /\ ~Claimable(i)
            /\ ~(approvals[i.approval].status = "APPROVED" /\ approvals[i.approval].lapsed)
            /\ Done(w)
            /\ UNCHANGED <<approvals, keys>>
    /\ UNCHANGED <<rows, venue, lapsed, granted, faults>>

\* Mutant of Submit: the order id of the fill is not kept.
SubmitUnnamed(w) ==
    /\ pc[w] = "submit"
    /\ \E id \in OrderIds \ UsedIds :
         book' = [book EXCEPT ![ProcOf[w]] = @ \cup {[id |-> id, intent |-> intent[w]]}]
    /\ Proceed(w, "save")
    /\ UNCHANGED <<tables, stopped, lapsed, granted, faults>>

\* PaperAdapter.request_order up to the fill in memory.  A stopped adapter
\* raises HTTPException, which leaves the claim in place; an unknown account
\* raises ValueError.
Submit(w) ==
    /\ pc[w] = "submit"
    /\ \/ stopped[ProcOf[w]] /\ Done(w) /\ UNCHANGED book
       \/ ~stopped[ProcOf[w]] /\ Proceed(w, "reject") /\ UNCHANGED book
       \/ /\ ~stopped[ProcOf[w]]
          /\ \E id \in OrderIds \ UsedIds :
               /\ book' = [book EXCEPT ![ProcOf[w]] =
                             @ \cup {[id |-> id, intent |-> intent[w]]}]
               /\ order' = [order EXCEPT ![w] = id]
          /\ GoTo(w, "save")
          /\ UNCHANGED <<intent, reading>>
    /\ UNCHANGED <<tables, stopped, lapsed, granted, faults>>

\* save_paper_order: the INSERT that makes the order visible to lookups.
SaveOrder(w) ==
    /\ pc[w] = "save"
    /\ rows' = rows \cup {[id |-> order[w], intent |-> intent[w]]}
    /\ Proceed(w, "finalize")
    /\ UNCHANGED <<approvals, keys, venue, lapsed, granted, faults>>

\* Mutant of Finalize: a failed finalization is treated as a refused order.
FinalizeOrRelease(w) ==
    /\ pc[w] = "finalize"
    /\ FinalizeKey(KeyOf(w), order[w]) \/ MarkFailed(KeyOf(w))
    /\ Proceed(w, "prune")
    /\ UNCHANGED <<rows, venue, lapsed, granted, faults>>

Finalize(w) ==
    /\ pc[w] = "finalize"
    /\ FinalizeKey(KeyOf(w), order[w])
    /\ Proceed(w, "prune")
    /\ UNCHANGED <<rows, venue, lapsed, granted, faults>>

\* maybe_prune: deletes FAILED keys and EXPIRED or REJECTED approvals that are
\* past their TTL (which of them are is not modelled); COMPLETED keys stay, as
\* the status FINISHED that the DELETE names is never written.
Prune(w) ==
    /\ pc[w] = "prune"
    /\ \E K \in SUBSET {k \in Keys : keys[k].status = "FAILED"} :
       \E A \in SUBSET {a \in Approvals : approvals[a].status \in {"EXPIRED", "REJECTED"}} :
         /\ keys' = [k \in Keys |-> IF k \in K THEN NoKeyRow ELSE keys[k]]
         /\ approvals' = [a \in Approvals |-> IF a \in A THEN Blank("pruned") ELSE approvals[a]]
    /\ Done(w)
    /\ UNCHANGED <<rows, venue, lapsed, granted, faults>>

\* The venue refused the order: the key and the approval are given back.
Release(w) ==
    /\ pc[w] = "reject"
    /\ MarkFailed(KeyOf(w))
    /\ Done(w)
    /\ UNCHANGED <<rows, venue, lapsed, granted, faults>>

-----------------------------------------------------------------------------
(* Faults and the kill switch.                                             *)

\* A database access fails and the handler raises: VENUE_SUBMIT_UNKNOWN at the
\* venue, LOCAL_PERSIST_FAILED after it, order.release_failed, or a plain 500.
StorageError(w) ==
    /\ pc[w] # "idle" /\ faults < MaxFaults
    /\ Done(w)
    /\ faults' = faults + 1
    /\ UNCHANGED <<tables, venue, lapsed, granted>>

\* A process dies and restarts: its handlers and its adapter's memory are gone,
\* the kill switch included.
Crash(p) ==
    /\ faults < MaxFaults
    /\ pc' = [w \in Workers |-> IF ProcOf[w] = p THEN "idle" ELSE pc[w]]
    /\ intent' = [w \in Workers |-> IF ProcOf[w] = p THEN NoIntent ELSE intent[w]]
    /\ order' = [w \in Workers |-> IF ProcOf[w] = p THEN NoOrder ELSE order[w]]
    /\ reading' = [w \in Workers |-> IF ProcOf[w] = p THEN NoApproval ELSE reading[w]]
    /\ book' = [book EXCEPT ![p] = {}]
    /\ stopped' = [stopped EXCEPT ![p] = FALSE]
    /\ faults' = faults + 1
    /\ UNCHANGED <<tables, lapsed, granted>>

\* POST emergency-stop and kill-switch/resume reach the adapter of one process.
EmergencyStop(p) ==
    /\ ~stopped[p]
    /\ stopped' = [stopped EXCEPT ![p] = TRUE]
    /\ UNCHANGED <<tables, book, lapsed, granted, locals, faults>>

ResumeTrading(p) ==
    /\ stopped[p]
    /\ stopped' = [stopped EXCEPT ![p] = FALSE]
    /\ UNCHANGED <<tables, book, lapsed, granted, locals, faults>>

-----------------------------------------------------------------------------
Init ==
    /\ approvals = [a \in Approvals |-> Blank("absent")]
    /\ keys = [k \in Keys |-> NoKeyRow]
    /\ rows = {}
    /\ book = [p \in Procs |-> {}]
    /\ stopped = [p \in Procs |-> FALSE]
    /\ lapsed = {}
    /\ granted = {}
    /\ pc = [w \in Workers |-> "idle"]
    /\ intent = [w \in Workers |-> NoIntent]
    /\ order = [w \in Workers |-> NoOrder]
    /\ reading = [w \in Workers |-> NoApproval]
    /\ faults = 0

\* The steps of a request that is under way.
Handle(w) ==
    \/ ReadRecord(w) \/ Lookup(w) \/ Recover(w) \/ FreeKey(w)
    \/ Gate(w) \/ Precheck(w) \/ SaveExpired(w) \/ Health(w) \/ Claim(w)
    \/ Submit(w) \/ SaveOrder(w) \/ Finalize(w) \/ Prune(w) \/ Release(w)

Next ==
    \/ \E a \in Approvals : CreateApproval(a) \/ LapseApproval(a)
    \/ \E a \in Approvals, d \in {"APPROVED", "REJECTED"} : Decide(a, d)
    \/ \E w \in Workers, a \in Approvals : ReadApproval(w, a)
    \/ \E w \in Workers, i \in Intents : Receive(w, i)
    \/ \E w \in Workers : Handle(w) \/ StorageError(w)
    \/ \E k \in Keys : AgeKey(k)
    \/ \E i \in Perishable : LapseIntent(i)
    \/ \E p \in Procs : Crash(p) \/ EmergencyStop(p) \/ ResumeTrading(p)

Spec == Init /\ [][Next]_vars

\* Threads run, time passes, and the runtime retries a submission whose outcome
\* it does not know on every tick.
Fairness ==
    /\ \A w \in Workers : WF_vars(Handle(w))
    /\ \A k \in Keys : WF_vars(AgeKey(k))
    /\ \A i \in Intents : SF_vars(\E w \in Workers : Receive(w, i))

FairSpec == Spec /\ Fairness
-----------------------------------------------------------------------------
(* Safety.                                                                 *)

\* An approval pays for one order: no two rows of paper_orders carry the same
\* approval_id, whatever the keys they were sent under (approval_store.py).
OneOrderPerApproval ==
    \A o1, o2 \in rows : o1.intent.approval = o2.intent.approval => o1 = o2

\* An idempotency key yields one order: retries, concurrent workers and the
\* recovery of a crashed request never send a second one (storage.py).
OneOrderPerKey ==
    \A o1, o2 \in rows : o1.intent.key = o2.intent.key => o1 = o2

\* An approval behind an existing order is never usable again: the release of a
\* failed key gives back only approvals that paid for nothing.
SpentApprovalsStaySpent ==
    \A o \in rows : approvals[o.intent.approval].status \in
                      {"CONSUMING", "CONSUMED", "EXPIRED", "pruned"}

\* The two tables agree across every interleaving: an approval in CONSUMING has
\* its key reserved by an intent that names it, and an approval in CONSUMED
\* records the order the venue holds under its key.
LedgersAgree ==
    \A a \in Approvals :
      LET k == approvals[a].key IN
        /\ approvals[a].status = "CONSUMING" =>
             /\ k \in Keys
             /\ keys[k].status = "RESERVED" /\ keys[k].intent.approval = a
        /\ approvals[a].status = "CONSUMED" =>
             /\ k \in Keys
             /\ keys[k].status = "COMPLETED" /\ keys[k].order = approvals[a].order
             /\ \E o \in rows : /\ o.id = approvals[a].order
                                /\ o.intent.key = k /\ o.intent.approval = a

\* An order on the books was authorised in full: a person approved the approval
\* it names (whatever has become of that row since), the approval was created
\* for the same digest, and the key it was sent under is still held by its
\* request body (approval_store.py, orders.py).
OrdersAreAuthorised ==
    \A o \in rows :
      /\ o.intent.approval \in granted
      /\ Binding[o.intent.approval] = o.intent.digest
      /\ keys[o.intent.key].status \in {"RESERVED", "COMPLETED"}
      /\ keys[o.intent.key].intent = o.intent

-----------------------------------------------------------------------------
(* The inductive invariant behind the safety properties.  It holds when    *)
(* clients serialise the requests of a key, or when the venue's lookup is  *)
(* not trusted to free one.                                                *)

Discipline == SerialKeys \/ ~StrongLookup

\* A claim whose order is not visible yet.
Unsent == {"submit", "save", "reject"}

\* An order was sent with the digest its approval was created for, and holds the
\* key it was sent under.
OrdersHoldTheirKeys ==
    \A o \in rows :
      /\ Binding[o.intent.approval] = o.intent.digest
      /\ keys[o.intent.key].status \in {"RESERVED", "COMPLETED"}
      /\ keys[o.intent.key].intent = o.intent

OneRequestPerKey ==
    SerialKeys => \A w, v \in Workers :
                    /\ intent[w] # NoIntent /\ intent[v] # NoIntent
                    /\ intent[w].key = intent[v].key
                    => w = v

KeyRowsCoherent ==
    \A k \in Keys : keys[k].status # "absent" =>
                      keys[k].intent \in Intents /\ keys[k].intent.key = k

OnlyConsumersCarryKeys ==
    \A a \in Approvals : approvals[a].key # NoKey =>
                           approvals[a].status \in {"CONSUMING", "CONSUMED"}

SpentMatchesKey ==
    \A o \in rows : approvals[o.intent.approval].status \in {"CONSUMING", "CONSUMED"} =>
                     approvals[o.intent.approval].key = o.intent.key

\* Nobody but w can reach the key and the approval that w claimed.
ClaimedBy(w) ==
    LET i == intent[w] IN
      /\ keys[i.key].status = "RESERVED" /\ keys[i.key].intent = i
      /\ approvals[i.approval].status \in {"CONSUMING", "EXPIRED", "pruned"}
      /\ approvals[i.approval].status = "CONSUMING" => approvals[i.approval].key = i.key
      /\ Binding[i.approval] = i.digest
      /\ \A o \in rows : o.intent.key # i.key /\ o.intent.approval # i.approval
      /\ \A v \in Workers \ {w} : pc[v] \in Unsent =>
           intent[v].key # i.key /\ intent[v].approval # i.approval

ClaimsAreExclusive == \A w \in Workers : pc[w] \in Unsent => ClaimedBy(w)

\* What a handler learnt from the venue is still so when it acts on it.
LookupsAreCurrent ==
    \A w \in Workers :
      /\ pc[w] = "free" => StrongLookup /\ RowsOf(KeyOf(w)) = {}
      /\ pc[w] = "recover" => \E o \in rows : o.id = order[w] /\ o.intent.key = KeyOf(w)
      /\ pc[w] = "finalize" => \E o \in rows : o.id = order[w] /\ o.intent = intent[w]

\* The orders placed on approval a.
PaidBy(a) == {o \in rows : o.intent.approval = a}

\* A handler that has claimed approval a and may still place its order.
Submitting(a) ==
    \E w \in Workers : pc[w] \in {"submit", "save"} /\ intent[w].approval = a

\* A person said yes to every approval that can pay, that a handler may still
\* send, or that has paid: a release gives back only what was granted.  This
\* needs no discipline of the clients and is inductive on its own.
PermissionsWereGranted ==
    \A a \in Approvals :
      \/ approvals[a].status \in {"APPROVED", "CONSUMING", "CONSUMED"}
      \/ Submitting(a)
      \/ PaidBy(a) # {}
      => a \in granted

\* The conjunction that every step preserves: it strengthens the properties
\* above with what the handlers in flight know.
IInv ==
    /\ TypeOK
    /\ OneOrderPerApproval
    /\ OneOrderPerKey
    /\ SpentApprovalsStaySpent
    /\ LedgersAgree
    /\ OrdersHoldTheirKeys
    /\ OneRequestPerKey
    /\ KeyRowsCoherent
    /\ OnlyConsumersCarryKeys
    /\ SpentMatchesKey
    /\ ClaimsAreExclusive
    /\ LookupsAreCurrent

-----------------------------------------------------------------------------
(* Liveness.                                                               *)

\* A reservation is always settled: the key of a request that crashed or was
\* halted is completed with the order the venue has, or given back.
ReservationsSettle ==
    \A k \in Keys : keys[k].status = "RESERVED" ~> keys[k].status # "RESERVED"

-----------------------------------------------------------------------------
(* Refinement: each approval is a one-time credential.                     *)

CredentialOf(a) ==
    IF PaidBy(a) # {} THEN "spent"
    ELSE IF approvals[a].status \in {"APPROVED", "CONSUMING"} \/ Submitting(a) THEN "granted"
    ELSE IF approvals[a].status = "absent" THEN "none"
    ELSE IF approvals[a].status = "REQUESTED" THEN "requested"
    ELSE "void"

OneShot == INSTANCE OneShotApproval
             WITH credential <- [a \in Approvals |-> CredentialOf(a)],
                  paid <- [a \in Approvals |-> PaidBy(a)]

\* The gateway implements the one-shot credential: a second order on an approval
\* that has paid is a step the credential does not have.
ImplementsOneShot == OneShot!Spec
=============================================================================
