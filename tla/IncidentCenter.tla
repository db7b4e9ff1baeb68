--------------------------- MODULE IncidentCenter ---------------------------
(***************************************************************************)
(* How the incidents that the bots record become cases that an operator    *)
(* works on: services/incident-center, and the forwarding of the chief of  *)
(* plugins/dsh-market-chief, which posts the newest events again in each   *)
(* of its ticks, one after the other, and stops at the first that is not   *)
(* answered.  A post that is not answered may be lost, or be handled much  *)
(* later.  Every operation of the centre is one transaction.               *)
(* The chief sends no service key, and looks at no answer: a centre that   *)
(* asks for one, as every centre outside development does, turns each of   *)
(* its posts away.                                                         *)
(*                                                                         *)
(* Events are numbered as they occur.                                      *)
(***************************************************************************)
EXTENDS Integers, FiniteSets, SequencesExt

CONSTANTS
    NumEvents,    \* bound on the events
    Kinds,        \* fingerprints: source, type, market and subject of an incident
    KindOf,       \* the fingerprint of each event
    Window,       \* how many events the chief forwards: 50
    MaxFailures,  \* bound on the posts that fail
    MaxDirect     \* bound on the reports of a kind that name no event

Events == 1..NumEvents
Incident == [status : {"none", "OPEN", "MITIGATED", "RESOLVED"}, occurrences : Nat]

ASSUME CenterAssumption ==
    /\ NumEvents \in Nat /\ KindOf \in [Events -> Kinds]
    /\ Window \in Nat /\ MaxFailures \in Nat /\ MaxDirect \in Nat

VARIABLES
    keyed,      \* whether the centre asks for a service key; settled by its environment
    emitted,    \* domain_events: how many of the events have occurred
    todo,       \* what the chief has yet to forward in this tick
    late,       \* the posts that it has given up, and that may still be handled
    incidents,  \* the case of each kind
    reported,   \* reported_events
    direct,     \* how many reports of the kind named no event
    failures

vars == <<keyed, emitted, todo, late, incidents, reported, direct, failures>>

TypeOK ==
    /\ keyed \in BOOLEAN
    /\ emitted \in 0..NumEvents
    /\ todo \in Seq(1..emitted)
    /\ late \subseteq 1..emitted /\ reported \subseteq 1..emitted
    /\ incidents \in [Kinds -> Incident]
    /\ \A k \in Kinds : incidents[k].status = "none" <=> incidents[k].occurrences = 0
    /\ direct \in [Kinds -> 0..MaxDirect]
    /\ failures \in 0..MaxFailures

-----------------------------------------------------------------------------
\* Mutant: an incident is opened without an occurrence.
OpenedEmpty == [status |-> "OPEN", occurrences |-> 0]

Opened == [status |-> "OPEN", occurrences |-> 1]

\* Mutant: an incident that is opened again is not counted.
CountedUnlessReopened(incident) ==
    IF incident.status = "RESOLVED" THEN [incident EXCEPT !.status = "OPEN"]
    ELSE [incident EXCEPT !.occurrences = @ + 1]

\* One more occurrence, by which a resolved incident is open again.
Counted(incident) ==
    [status |-> IF incident.status = "RESOLVED" THEN "OPEN" ELSE incident.status,
     occurrences |-> incident.occurrences + 1]

Reported(k) ==
    incidents' = [incidents EXCEPT ![k] = IF @.status = "none" THEN Opened ELSE Counted(@)]

\* Mutant: an event that the centre knows opens its incident again.
OpenIncidentAgain(e) ==
    /\ reported' = reported \cup {e}
    /\ IF e \in reported
       THEN incidents' = [incidents EXCEPT ![KindOf[e]].status = "OPEN"]
       ELSE Reported(KindOf[e])

\* open_incident, of an event: one that was reported before changes nothing.
OpenIncident(e) ==
    /\ reported' = reported \cup {e}
    /\ IF e \in reported THEN UNCHANGED incidents ELSE Reported(KindOf[e])

\* require_service_key comes before open_incident, and the chief has no key.
Receive(e) == IF keyed THEN UNCHANGED <<incidents, reported>> ELSE OpenIncident(e)

\* open_incident, of a report that names no event, by a client that has a key.
ReportDirectly(k) ==
    /\ direct[k] < MaxDirect
    /\ direct' = [direct EXCEPT ![k] = @ + 1]
    /\ Reported(k)
    /\ UNCHANGED <<keyed, emitted, todo, late, reported, failures>>

\* _TRANSITIONS, as far as a request can ask for them.
Legal == {<<"OPEN", "MITIGATED">>, <<"MITIGATED", "RESOLVED">>}

\* mitigate and resolve.
Transition(k, target) ==
    /\ <<incidents[k].status, target>> \in Legal
    /\ incidents' = [incidents EXCEPT ![k].status = target]
    /\ UNCHANGED <<keyed, emitted, todo, late, reported, direct, failures>>

-----------------------------------------------------------------------------
\* A bot, or the chief itself, records an incident.
Emit ==
    /\ emitted < NumEvents
    /\ emitted' = emitted + 1
    /\ UNCHANGED <<keyed, todo, late, incidents, reported, direct, failures>>

\* Mutant: the oldest events.
OldestFirst == [i \in 1..(IF emitted < Window THEN emitted ELSE Window) |-> i]

\* The events that the chief selects, the newest first.
NewestFirst == [i \in 1..(IF emitted < Window THEN emitted ELSE Window) |-> emitted + 1 - i]

Tick ==
    /\ todo = <<>>
    /\ todo' = NewestFirst
    /\ UNCHANGED <<keyed, emitted, late, incidents, reported, direct, failures>>

\* A post is answered.  The chief goes on whatever the answer is.
Forward ==
    /\ todo # <<>>
    /\ Receive(Head(todo))
    /\ todo' = Tail(todo)
    /\ UNCHANGED <<keyed, emitted, late, direct, failures>>

\* The centre answers that it failed, and has done nothing.
Refuse ==
    /\ todo # <<>> /\ failures < MaxFailures
    /\ failures' = failures + 1
    /\ todo' = Tail(todo)
    /\ UNCHANGED <<keyed, emitted, late, incidents, reported, direct>>

\* A post is not answered in time, and is lost, or waits for the lock of the centre.
TimeOut ==
    /\ todo # <<>> /\ failures < MaxFailures
    /\ failures' = failures + 1
    /\ todo' = <<>>
    /\ late' \in {late, late \cup {Head(todo)}}
    /\ UNCHANGED <<keyed, emitted, incidents, reported, direct>>

\* It is handled after all.
Handle(e) ==
    /\ e \in late
    /\ late' = late \ {e}
    /\ Receive(e)
    /\ UNCHANGED <<keyed, emitted, todo, direct, failures>>

Chief == Tick \/ Forward \/ Refuse \/ TimeOut

Init ==
    /\ keyed \in BOOLEAN
    /\ emitted = 0 /\ todo = <<>> /\ late = {}
    /\ incidents = [k \in Kinds |-> [status |-> "none", occurrences |-> 0]]
    /\ reported = {}
    /\ direct = [k \in Kinds |-> 0]
    /\ failures = 0

Next ==
    \/ Emit \/ Chief
    \/ \E e \in Events : Handle(e)
    \/ \E k \in Kinds : ReportDirectly(k)
    \/ \E k \in Kinds, target \in {"MITIGATED", "RESOLVED"} : Transition(k, target)

\* The chief's loop goes on for ever; posts fail from time to time only.
Spec == Init /\ [][Next]_vars /\ WF_vars(Chief)

-----------------------------------------------------------------------------
\* An incident counts each event of its kind once, however often and however late it is
\* delivered, and each report that names none (main.py, open_incident).
CountsAreExact ==
    \A k \in Kinds :
        incidents[k].occurrences = Cardinality({e \in reported : KindOf[e] = k}) + direct[k]

\* A resolved incident is opened again by a report that the centre had not seen, and by
\* nothing else: not by an event that is delivered again (main.py, open_incident).
ReopenedByNewsOnly ==
    [][\A k \in Kinds : incidents[k].status = "RESOLVED" /\ incidents'[k].status # "RESOLVED" =>
          direct'[k] > direct[k] \/ \E e \in reported' \ reported : KindOf[e] = k]_vars

\* An event reaches a centre that asks for no key, unless it has been pushed out of the
\* window by newer ones (chief.py, _forward_open_incidents; service_auth.py,
\* require_service_key).  A centre that asks for one is promised nothing.
EventsArrive ==
    \A e \in Events :
        e <= emitted /\ ~keyed ~> e \in reported \/ e <= emitted - Window
=============================================================================
