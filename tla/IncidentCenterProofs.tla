------------------------ MODULE IncidentCenterProofs ------------------------
(***************************************************************************)
(* That the incident centre counts exactly, for any number of events and   *)
(* kinds, any window and any number of failures.                           *)
(***************************************************************************)
EXTENDS IncidentCenter, FiniteSetTheorems, SequenceTheorems, TLAPS

OfKind(k, events) == {e \in events : KindOf[e] = k}

\* The reported events of a kind are finitely many, ...
LEMMA FinitelyMany ==
    ASSUME TypeOK, NEW k
    PROVE  IsFiniteSet(OfKind(k, reported)) /\ Cardinality(OfKind(k, reported)) \in Nat
<1>1. emitted \in Int  BY CenterAssumption DEF CenterAssumption, TypeOK
<1>2. IsFiniteSet(1..emitted)  BY <1>1, FS_Interval
<1>3. OfKind(k, reported) \in SUBSET (1..emitted)  BY DEF TypeOK, OfKind
<1>4. QED  BY <1>2, <1>3, FS_Subset, FS_CardinalityType

\* ... and a new one is one more.
LEMMA OneMore ==
    ASSUME TypeOK, NEW e \in 1..emitted, e \notin reported, NEW k
    PROVE  /\ Cardinality(OfKind(k, reported)) \in Nat
           /\ Cardinality(OfKind(k, reported \cup {e})) =
                 Cardinality(OfKind(k, reported)) + (IF KindOf[e] = k THEN 1 ELSE 0)
<1>2. IsFiniteSet(OfKind(k, reported)) /\ Cardinality(OfKind(k, reported)) \in Nat
      BY FinitelyMany
<1>3. CASE KindOf[e] = k
  <2>1. OfKind(k, reported \cup {e}) = OfKind(k, reported) \cup {e} /\ e \notin OfKind(k, reported)
        BY <1>3 DEF OfKind
  <2>2. QED  BY <1>2, <1>3, <2>1, FS_AddElement
<1>4. CASE KindOf[e] # k
  <2>1. OfKind(k, reported \cup {e}) = OfKind(k, reported)  BY <1>4 DEF OfKind
  <2>2. QED  BY <1>2, <1>4, <2>1
<1>5. QED  BY <1>3, <1>4

\* What one more occurrence makes of an incident.
LEMMA OneOccurrence ==
    ASSUME TypeOK, NEW k \in Kinds, Reported(k)
    PROVE  /\ incidents' \in [Kinds -> Incident]
           /\ \A j \in Kinds : incidents'[j].status = "none" <=> incidents'[j].occurrences = 0
           /\ \A j \in Kinds : incidents'[j].occurrences =
                 incidents[j].occurrences + (IF j = k THEN 1 ELSE 0)
<1>1. incidents \in [Kinds -> Incident] /\ incidents[k] \in Incident  BY DEF TypeOK
<1> DEFINE new == IF incidents[k].status = "none" THEN Opened ELSE Counted(incidents[k])
<1>2. incidents' = [incidents EXCEPT ![k] = new]  BY DEF Reported
<1>3. /\ new \in Incident /\ new.occurrences = incidents[k].occurrences + 1
      /\ new.status # "none" /\ new.occurrences # 0
  <2>1. CASE incidents[k].status = "none"
        BY <1>1, <2>1 DEF Opened, Incident, TypeOK
  <2>2. CASE incidents[k].status # "none"
        BY <1>1, <2>2 DEF Counted, Incident
  <2>3. QED  BY <2>1, <2>2
<1> HIDE DEF new
<1>4. ASSUME NEW j \in Kinds
      PROVE  /\ incidents'[j] \in Incident
             /\ incidents'[j].status = "none" <=> incidents'[j].occurrences = 0
             /\ incidents'[j].occurrences = incidents[j].occurrences + (IF j = k THEN 1 ELSE 0)
  <2>1. CASE j = k  BY <1>1, <1>2, <1>3, <2>1
  <2>2. CASE j # k
    <3>1. incidents'[j] = incidents[j] /\ incidents[j] \in Incident  BY <1>1, <1>2, <2>2
    <3>2. QED  BY <2>2, <3>1 DEF TypeOK, Incident
  <2>3. QED  BY <2>1, <2>2
<1>5. incidents' \in [Kinds -> Incident]  BY <1>1, <1>2, <1>3
<1>6. QED  BY <1>4, <1>5

IInv == TypeOK /\ CountsAreExact

\* A post that is answered keeps the counts exact, whether or not the centre knows the
\* event, and whether or not it asks for a key.
LEMMA HandlingCounts ==
    ASSUME CenterAssumption, IInv, NEW e \in 1..emitted, Receive(e),
           UNCHANGED <<emitted, direct>>
    PROVE  /\ reported' \subseteq 1..emitted
           /\ incidents' \in [Kinds -> Incident]
           /\ \A k \in Kinds : incidents'[k].status = "none" <=> incidents'[k].occurrences = 0
           /\ CountsAreExact'
<1>1. reported' \subseteq 1..emitted
      BY DEF Receive, OpenIncident, IInv, TypeOK
<1>2. KindOf[e] \in Kinds  BY DEF CenterAssumption, Events, IInv, TypeOK
<1>3. CASE keyed \/ e \in reported
  <2>1. reported' = reported /\ incidents' = incidents  BY <1>3 DEF Receive, OpenIncident
  <2>2. QED  BY <1>1, <2>1 DEF IInv, TypeOK, CountsAreExact
<1>4. CASE ~keyed /\ e \notin reported
  <2>1. Reported(KindOf[e]) /\ reported' = reported \cup {e}
        BY <1>4 DEF Receive, OpenIncident
  <2>2. /\ incidents' \in [Kinds -> Incident]
        /\ \A k \in Kinds : incidents'[k].status = "none" <=> incidents'[k].occurrences = 0
        BY <1>2, <2>1, OneOccurrence DEF IInv
  <2>3. ASSUME NEW k \in Kinds
        PROVE  incidents'[k].occurrences = Cardinality(OfKind(k, reported')) + direct[k]
    <3>1. incidents'[k].occurrences = incidents[k].occurrences + (IF k = KindOf[e] THEN 1 ELSE 0)
          BY <1>2, <2>1, OneOccurrence DEF IInv
    <3>2. incidents[k].occurrences = Cardinality(OfKind(k, reported)) + direct[k]
          BY DEF IInv, CountsAreExact, OfKind
    <3>3. /\ Cardinality(OfKind(k, reported)) \in Nat
          /\ Cardinality(OfKind(k, reported')) =
                Cardinality(OfKind(k, reported)) + (IF KindOf[e] = k THEN 1 ELSE 0)
          BY <1>4, <2>1, OneMore DEF IInv
    <3>4. direct[k] \in Nat  BY DEF CenterAssumption, IInv, TypeOK
    <3>5. QED  BY <3>1, <3>2, <3>3, <3>4
  <2>4. CountsAreExact'  BY <2>3 DEF CountsAreExact, OfKind
  <2>5. QED  BY <1>1, <2>2, <2>4
<1>5. QED  BY <1>3, <1>4

\* So does a report that names no event.
LEMMA DirectCounts ==
    ASSUME CenterAssumption, IInv, NEW k \in Kinds, ReportDirectly(k)
    PROVE  IInv'
<1>1. /\ direct \in [Kinds -> 0..MaxDirect] /\ MaxDirect \in Nat
      /\ direct' = [direct EXCEPT ![k] = @ + 1] /\ direct[k] < MaxDirect
      BY DEF CenterAssumption, IInv, TypeOK, ReportDirectly
<1>2. direct' \in [Kinds -> 0..MaxDirect]  BY <1>1
<1>3. TypeOK'
      BY <1>2, OneOccurrence DEF IInv, TypeOK, ReportDirectly
<1>4. ASSUME NEW j \in Kinds
      PROVE  incidents'[j].occurrences = Cardinality(OfKind(j, reported)) + direct'[j]
  <2>1. incidents'[j].occurrences = incidents[j].occurrences + (IF j = k THEN 1 ELSE 0)
        BY OneOccurrence DEF IInv, ReportDirectly
  <2>2. incidents[j].occurrences = Cardinality(OfKind(j, reported)) + direct[j]
        BY DEF IInv, CountsAreExact, OfKind
  <2>3. direct'[j] = direct[j] + (IF j = k THEN 1 ELSE 0) /\ direct[j] \in Nat  BY <1>1
  <2>5. Cardinality(OfKind(j, reported)) \in Nat  BY FinitelyMany DEF IInv
  <2>6. QED  BY <2>1, <2>2, <2>3, <2>5
<1>5. CountsAreExact'
      BY <1>4 DEF CountsAreExact, OfKind, ReportDirectly
<1>6. QED  BY <1>3, <1>5 DEF IInv

\* The operator's acts count nothing.
LEMMA TransitionCounts ==
    ASSUME IInv, NEW k \in Kinds, NEW target \in {"MITIGATED", "RESOLVED"}, Transition(k, target)
    PROVE  IInv'
<1>1. /\ incidents \in [Kinds -> Incident]
      /\ incidents' = [incidents EXCEPT ![k].status = target]
      /\ incidents[k].status # "none"
      BY DEF IInv, TypeOK, Transition, Legal
<1>2. ASSUME NEW j \in Kinds
      PROVE  /\ incidents'[j] \in Incident
             /\ incidents'[j].occurrences = incidents[j].occurrences
             /\ incidents'[j].status = "none" <=> incidents[j].status = "none"
      BY <1>1 DEF Incident
<1>3. incidents' \in [Kinds -> Incident]  BY <1>1, <1>2
<1>4. TypeOK'  BY <1>2, <1>3 DEF IInv, TypeOK, Transition
<1>5. CountsAreExact'  BY <1>2 DEF IInv, CountsAreExact, Transition
<1>6. QED  BY <1>4, <1>5 DEF IInv

\* The steps that leave the centre alone.
LEMMA OthersCount ==
    ASSUME CenterAssumption, IInv, Emit \/ Tick \/ Refuse \/ TimeOut \/ UNCHANGED vars
    PROVE  IInv'
<1>1. emitted \in Nat /\ todo \in Seq(1..emitted) /\ late \subseteq 1..emitted
      BY DEF IInv, TypeOK
<1>2. CASE Emit
  <2>1. emitted' = emitted + 1 /\ emitted' \in 0..NumEvents
        BY <1>1, <1>2 DEF Emit, CenterAssumption
  <2>2. 1..emitted \subseteq 1..emitted'  BY <1>1, <2>1
  <2>3. todo' \in Seq(1..emitted')
    <3>1. todo' = todo  BY <1>2 DEF Emit
    <3>2. QED  BY <1>1, <2>2, <3>1, SeqMonotonic
  <2>4. TypeOK'  BY <1>2, <2>1, <2>2, <2>3 DEF Emit, IInv, TypeOK
  <2>5. CountsAreExact'  BY <1>2 DEF Emit, IInv, CountsAreExact
  <2>6. QED  BY <2>4, <2>5 DEF IInv
<1>3. CASE Tick
  <2>1. NewestFirst \in Seq(1..emitted)
    <3>1. CASE emitted < Window  BY <1>1, <3>1 DEF NewestFirst
    <3>2. CASE ~(emitted < Window)
      <4>1. Window \in Nat /\ Window <= emitted  BY <1>1, <3>2 DEF CenterAssumption
      <4>2. \A i \in 1..Window : emitted + 1 - i \in 1..emitted  BY <1>1, <4>1
      <4>3. QED  BY <3>2, <4>1, <4>2 DEF NewestFirst
    <3>3. QED  BY <3>1, <3>2
  <2>2. QED  BY <1>3, <2>1 DEF Tick, IInv, TypeOK, CountsAreExact
<1>4. CASE Refuse
  <2>1. Tail(todo) \in Seq(1..emitted)  BY <1>1, <1>4 DEF Refuse
  <2>2. failures' \in 0..MaxFailures  BY <1>4 DEF Refuse, IInv, TypeOK, CenterAssumption
  <2>3. QED  BY <1>4, <2>1, <2>2 DEF Refuse, IInv, TypeOK, CountsAreExact
<1>5. CASE TimeOut
  <2>1. Head(todo) \in 1..emitted  BY <1>1, <1>5 DEF TimeOut
  <2>2. failures' \in 0..MaxFailures  BY <1>5 DEF TimeOut, IInv, TypeOK, CenterAssumption
  <2>3. late' \subseteq 1..emitted  BY <1>1, <1>5, <2>1 DEF TimeOut
  <2>4. todo' \in Seq(1..emitted)  BY <1>5 DEF TimeOut
  <2>5. QED  BY <1>5, <2>2, <2>3, <2>4 DEF TimeOut, IInv, TypeOK, CountsAreExact
<1>6. CASE UNCHANGED vars  BY <1>6 DEF vars, IInv, TypeOK, CountsAreExact
<1>7. QED  BY <1>2, <1>3, <1>4, <1>5, <1>6

\* Every reachable state is well-typed and counts exactly, whatever is delivered twice, late
\* or not at all (main.py, open_incident).
THEOREM Invariance == Spec => []IInv
<1>1. Init => IInv
  <2> SUFFICES ASSUME Init PROVE IInv  OBVIOUS
  <2>1. CenterAssumption  BY CenterAssumption
  <2>2. TypeOK  BY <2>1 DEF Init, TypeOK, Incident, CenterAssumption
  <2>3. \A k \in Kinds : {e \in reported : KindOf[e] = k} = {}  BY DEF Init
  <2>4. CountsAreExact  BY <2>3, FS_EmptySet DEF Init, CountsAreExact
  <2>5. QED  BY <2>2, <2>4 DEF IInv
<1>2. IInv /\ [Next]_vars => IInv'
  <2> SUFFICES ASSUME IInv, [Next]_vars PROVE IInv'  OBVIOUS
  <2>1. CenterAssumption  BY CenterAssumption
  <2>2. CASE Forward
    <3>1. /\ Head(todo) \in 1..emitted /\ Tail(todo) \in Seq(1..emitted)
          BY <2>2 DEF Forward, IInv, TypeOK
    <3>2. Receive(Head(todo)) /\ UNCHANGED <<emitted, direct>>  BY <2>2 DEF Forward
    <3>3. QED  BY <2>1, <2>2, <3>1, <3>2, HandlingCounts DEF Forward, IInv, TypeOK
  <2>3. ASSUME NEW e \in Events, Handle(e) PROVE IInv'
    <3>1. e \in 1..emitted /\ Receive(e) /\ UNCHANGED <<emitted, direct>>
          BY <2>3 DEF Handle, IInv, TypeOK
    <3>2. QED  BY <2>1, <2>3, <3>1, HandlingCounts DEF Handle, IInv, TypeOK
  <2>4. CASE Emit \/ Tick \/ Refuse \/ TimeOut \/ UNCHANGED vars  BY <2>1, <2>4, OthersCount
  <2>5. QED  BY <2>1, <2>2, <2>3, <2>4, DirectCounts, TransitionCounts DEF Next, Chief
<1>3. QED  BY <1>1, <1>2, PTL DEF Spec

\* The type invariant holds in every reachable state.
THEOREM TypeCorrect == Spec => []TypeOK
<1>1. IInv => TypeOK  BY DEF IInv
<1>2. QED  BY <1>1, Invariance, PTL

\* An incident counts each event once and each direct report once, for any window, any number
\* of events and of failures (main.py, open_incident).
THEOREM Counts == Spec => []CountsAreExact
<1>1. IInv => CountsAreExact  BY DEF IInv
<1>2. QED  BY <1>1, Invariance, PTL

\* A step opens a resolved incident again only when it is a report the centre had not seen,
\* for all the constants (main.py, open_incident).
THEOREM NewsReopens == Spec => ReopenedByNewsOnly
<1> DEFINE Reopens(k) == incidents[k].status = "RESOLVED" /\ incidents'[k].status # "RESOLVED"
           New(k) == direct'[k] > direct[k] \/ \E e \in reported' \ reported : KindOf[e] = k
<1>1. IInv /\ [Next]_vars => [\A k \in Kinds : Reopens(k) => New(k)]_vars
  <2> SUFFICES ASSUME IInv, [Next]_vars, NEW k \in Kinds, Reopens(k) PROVE New(k)
      OBVIOUS
  <2>1. incidents \in [Kinds -> Incident] /\ direct \in [Kinds -> 0..MaxDirect] /\ MaxDirect \in Nat
        BY CenterAssumption DEF IInv, TypeOK, CenterAssumption
  <2>2. ASSUME NEW j \in Kinds, Reported(j) PROVE j = k
        BY <2>1, <2>2 DEF Reported
  <2>3. ASSUME NEW e, Receive(e), e \in 1..emitted PROVE New(k)
    <3>1. OpenIncident(e) /\ e \notin reported /\ Reported(KindOf[e])
          BY <2>3 DEF Receive, OpenIncident
    <3>2. KindOf[e] \in Kinds
      <4>1. emitted \in 0..NumEvents /\ NumEvents \in Nat
            BY CenterAssumption DEF CenterAssumption, IInv, TypeOK
      <4>2. e \in 1..NumEvents  BY <2>3, <4>1
      <4>3. QED  BY <4>2, CenterAssumption DEF CenterAssumption, Events
    <3>3. e \in reported' \ reported /\ KindOf[e] = k  BY <2>2, <2>3, <3>1, <3>2 DEF OpenIncident
    <3>4. QED  BY <3>3
  <2>4. CASE Forward
    <3>1. Head(todo) \in 1..emitted /\ Receive(Head(todo))
          BY <2>4 DEF Forward, IInv, TypeOK
    <3>2. QED  BY <2>3, <3>1
  <2>5. ASSUME NEW e \in Events, Handle(e) PROVE New(k)
        BY <2>3, <2>5 DEF Handle, IInv, TypeOK
  <2>6. ASSUME NEW j \in Kinds, ReportDirectly(j) PROVE New(k)
    <3>1. j = k  BY <2>2, <2>6 DEF ReportDirectly
    <3>2. direct'[k] = direct[k] + 1  BY <2>1, <2>6, <3>1 DEF ReportDirectly
    <3>3. QED  BY <2>1, <3>2
  <2>7. ASSUME NEW j \in Kinds, NEW target \in {"MITIGATED", "RESOLVED"}, Transition(j, target)
        PROVE FALSE
        BY <2>1, <2>7 DEF Transition, Legal
  <2>8. CASE Emit \/ Tick \/ Refuse \/ TimeOut \/ UNCHANGED vars
        BY <2>8 DEF Emit, Tick, Refuse, TimeOut, vars
  <2>9. QED  BY <2>4, <2>5, <2>6, <2>7, <2>8 DEF Next, Chief
<1>2. QED  BY <1>1, Invariance, PTL DEF Spec, ReopenedByNewsOnly
=============================================================================
