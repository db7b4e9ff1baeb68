------------------------ MODULE TradeLearningProofs ------------------------
(***************************************************************************)
(* That no trade is learned from twice, and no rule proposed that did not  *)
(* earn anything, for any trades, signals, rules, fills of the bot's own   *)
(* orders, number of rows that the bot writes and number of faults; and    *)
(* what the replay of a rule can find out.                                 *)
(***************************************************************************)
EXTENDS TradeLearning, ListProofs, FiniteSetTheorems, SequenceTheorems, TLAPS

LedgerTyped ==
    /\ ledger \in Seq(Row)
    /\ \A i, j \in DOMAIN ledger : ledger[i].key = ledger[j].key => i = j

IInv ==
    /\ TypeOK /\ StepsFit /\ LedgerInv
    /\ OneEpisodePerDecision /\ CandidatesFit /\ DraftsAreEarned

-----------------------------------------------------------------------------
(* The ledger.                                                             *)

\* A row is no absent row, and an absent link no fill.
LEMMA Apart ==
    /\ NoRow \notin Row
    /\ NoFill \notin Fills /\ NoFill \notin GatewayFills
    /\ \A f \in Fills : f \notin GatewayFills
BY LearningAssumption DEF LearningAssumption

\* Two rows of the ledger with one key are one row.
LEMMA RowOfKey ==
    ASSUME LedgerTyped
    PROVE  \A r, q \in Rows : r \in Row /\ (r.key = q.key => r = q)
BY DEF LedgerTyped, Rows, Range

\* Get finds the row of a key, if there is one.
LEMMA GetIs ==
    ASSUME LedgerTyped, NEW key
    PROVE  \/ Get(key) = NoRow /\ ~Stored(key)
           \/ Get(key) \in Rows /\ Get(key) \in Row /\ Get(key) # NoRow /\ Get(key).key = key /\ Stored(key)
<1> DEFINE I == {i \in DOMAIN ledger : ledger[i].key = key}
<1>1. CASE I # {}
  <2>1. I \in SUBSET Nat  BY DEF LedgerTyped
  <2>2. PICK k \in I : \A j \in I : k <= j  BY <1>1, <2>1, Least
  <2>3. k \in DOMAIN ledger /\ ledger[k].key = key /\ \A j \in 1..k - 1 : ~(ledger[j].key = key)
        BY <2>2 DEF LedgerTyped
  <2>4. \E i \in DOMAIN ledger : Get(key) = ledger[i] /\ ledger[i].key = key
        BY <2>3 DEF Get, Latest
  <2>5. Get(key) \in Rows /\ Get(key).key = key /\ Get(key) \in Row
        BY <2>4 DEF Rows, Range, LedgerTyped
  <2>6. QED  BY <2>5, Apart DEF Stored
<1>2. CASE I = {}
      BY <1>2 DEF Get, Latest, Stored, Rows, Range
<1>3. QED  BY <1>1, <1>2

\* So do find_by_fill ...
LEMMA ByFillIs ==
    ASSUME LedgerTyped, NEW fill
    PROVE  \/ ByFill(fill) = NoRow /\ \A r \in Rows : fill \notin {r.fill, r.key.event}
           \/ ByFill(fill) \in Rows /\ ByFill(fill) # NoRow
              /\ fill \in {ByFill(fill).fill, ByFill(fill).key.event}
<1> DEFINE I == {i \in DOMAIN ledger : fill \in {ledger[i].fill, ledger[i].key.event}}
<1>1. CASE I # {}
  <2>1. I \in SUBSET Nat  BY DEF LedgerTyped
  <2>2. PICK k \in I : \A j \in I : k <= j  BY <1>1, <2>1, Least
  <2>3. /\ k \in DOMAIN ledger /\ fill \in {ledger[k].fill, ledger[k].key.event}
        /\ \A j \in 1..k - 1 : ~(fill \in {ledger[j].fill, ledger[j].key.event})
        BY <2>2 DEF LedgerTyped
  <2>4. \E i \in DOMAIN ledger : /\ ByFill(fill) = ledger[i]
                                 /\ fill \in {ledger[i].fill, ledger[i].key.event}
        BY <2>3 DEF ByFill, Latest
  <2>5. /\ ByFill(fill) \in Rows /\ fill \in {ByFill(fill).fill, ByFill(fill).key.event}
        /\ ByFill(fill) \in Row
        BY <2>4 DEF Rows, Range, LedgerTyped
  <2>6. QED  BY <2>5, Apart
<1>2. CASE I = {}
      BY <1>2 DEF ByFill, Latest, Rows, Range
<1>3. QED  BY <1>1, <1>2

\* ... and find_by_signal.
LEMMA BySignalIs ==
    ASSUME LedgerTyped, NEW signal
    PROVE  \/ BySignal(signal) = NoRow /\ (signal = NoSignal \/ \A r \in Rows : r.key.signal # signal)
           \/ BySignal(signal) \in Rows /\ BySignal(signal) # NoRow /\ BySignal(signal).key.signal = signal
<1> DEFINE I == {i \in DOMAIN ledger : signal # NoSignal /\ ledger[i].key.signal = signal}
<1>1. CASE I # {}
  <2>1. I \in SUBSET Nat  BY DEF LedgerTyped
  <2>2. PICK k \in I : \A j \in I : k <= j  BY <1>1, <2>1, Least
  <2>3. /\ k \in DOMAIN ledger /\ signal # NoSignal /\ ledger[k].key.signal = signal
        /\ \A j \in 1..k - 1 : ~(signal # NoSignal /\ ledger[j].key.signal = signal)
        BY <2>2 DEF LedgerTyped
  <2>4. \E i \in DOMAIN ledger : BySignal(signal) = ledger[i] /\ ledger[i].key.signal = signal
        BY <2>3 DEF BySignal, Latest
  <2>5. /\ BySignal(signal) \in Rows /\ BySignal(signal).key.signal = signal
        /\ BySignal(signal) \in Row
        BY <2>4 DEF Rows, Range, LedgerTyped
  <2>6. QED  BY <2>5, Apart
<1>2. CASE I = {}
      BY <1>2 DEF BySignal, Latest, Rows, Range
<1>3. QED  BY <1>1, <1>2

\* What Put leaves: the row, and those of other keys.
RowsWith(row) == {row} \cup {r \in Rows : r.key # row.key}

\* Put replaces the row of its key, if there is one.
LEMMA PutIs ==
    ASSUME LedgerTyped, NEW row \in Row, NEW list, list = Put(row)
    PROVE  /\ list \in Seq(Row)
           /\ \A i, j \in DOMAIN list : list[i].key = list[j].key => i = j
           /\ Range(list) = RowsWith(row)
<1> DEFINE I == {i \in 1..Len(ledger) : ledger[i].key = row.key}
           m == Len(ledger)
<1>1. ledger \in Seq(Row) /\ DOMAIN ledger = 1..m /\ m \in Nat  BY DEF LedgerTyped
<1>2. CASE I # {}
  <2>1. I \in SUBSET Nat  BY <1>1
  <2>2. PICK k \in I : \A j \in I : k <= j  BY <1>2, <2>1, Least
  <2> DEFINE rest == RemoveAt(ledger, k)
  <2>3. list = <<row>> \o rest
    <3>1. Min(I) \in I /\ \A j \in I : Min(I) <= j  BY <2>2 DEF Min
    <3>2. Min(I) = k  BY <2>1, <2>2, <3>1
    <3>3. Put(row) = <<row>> \o RemoveAt(ledger, Min(I))
          BY <1>2 DEF Put, RemoveFirstMatch, SelectInSeq
    <3>4. QED  BY <3>2, <3>3
  <2>4. /\ rest \in Seq(Row) /\ Len(rest) = m - 1
        /\ \A i \in 1..(m - 1) : rest[i] = IF i < k THEN ledger[i] ELSE ledger[i + 1]
        BY <1>1, <2>2, RemoveAtIs
  <2>5. k \in 1..m /\ ledger[k].key = row.key  BY <2>2
  <2>6. \A i \in 1..m : ledger[i].key = row.key => i = k  BY <1>1, <2>5 DEF LedgerTyped
  <2> HIDE DEF rest, I, m
  <2>7. /\ list \in Seq(Row) /\ Len(list) = m /\ DOMAIN list = 1..m /\ list[1] = row
        /\ \A i \in 2..m : list[i] = rest[i - 1]
        BY <1>1, <2>3, <2>4, <2>5
  <2>8. \A i \in 2..m : list[i] = IF i <= k THEN ledger[i - 1] ELSE ledger[i]
    <3>1. TAKE i \in 2..m
    <3>2. i - 1 \in 1..(m - 1) /\ (i - 1) + 1 = i /\ (i - 1 < k <=> i <= k)  BY <1>1, <2>5
    <3>3. QED  BY <2>4, <2>7, <3>2
  <2>9. \A i, j \in 1..m : list[i].key = list[j].key => i = j
    <3>1. ASSUME NEW i \in 2..m  PROVE list[i].key # row.key
          BY <1>1, <2>5, <2>6, <2>8
    <3>2. ASSUME NEW i \in 2..m, NEW j \in 2..m, list[i].key = list[j].key  PROVE i = j
      <4> DEFINE place(x) == IF x <= k THEN x - 1 ELSE x
      <4>1. /\ place(i) \in 1..m /\ place(j) \in 1..m
            /\ list[i] = ledger[place(i)] /\ list[j] = ledger[place(j)]
            BY <1>1, <2>5, <2>8
      <4>2. place(i) # k /\ place(j) # k  BY <1>1, <2>5
      <4>3. place(i) = place(j)
        <5> HIDE DEF place
        <5>1. QED  BY <1>1, <3>2, <4>1 DEF LedgerTyped
      <4>4. QED  BY <1>1, <2>5, <4>3
    <3>3. \A i \in 1..m : i = 1 \/ i \in 2..m  BY <1>1
    <3>4. QED  BY <2>7, <3>1, <3>2, <3>3
  <2>10. ASSUME NEW r
         PROVE  r \in Range(list) <=> r \in RowsWith(row)
    <3>1. ASSUME r \in Range(list)  PROVE r \in RowsWith(row)
      <4>1. PICK i \in 1..m : r = list[i]  BY <2>7, <3>1 DEF Range
      <4>2. CASE i = 1  BY <2>7, <4>1, <4>2 DEF RowsWith
      <4>3. CASE i # 1
        <5>1. i \in 2..m  BY <1>1, <4>3
        <5>2. r.key # row.key  BY <2>5, <2>7, <2>9, <4>1, <4>3
        <5>3. \E j \in 1..m : r = ledger[j]
          <6>1. i \in 1..m /\ i - 1 \in 1..m  BY <1>1, <5>1
          <6>2. list[i] = ledger[i - 1] \/ list[i] = ledger[i]  BY <2>8, <5>1
          <6>3. CASE list[i] = ledger[i - 1]  BY <4>1, <6>1, <6>3
          <6>4. CASE list[i] = ledger[i]  BY <4>1, <6>1, <6>4
          <6>5. QED  BY <6>2, <6>3, <6>4
        <5>4. QED  BY <1>1, <5>2, <5>3 DEF RowsWith, Rows, Range
      <4>4. QED  BY <4>2, <4>3
    <3>2. ASSUME r \in RowsWith(row)  PROVE r \in Range(list)
      <4>1. CASE r = row
        <5>1. 1 \in 1..m  BY <1>1, <2>5
        <5>2. QED  BY <2>7, <4>1, <5>1 DEF Range
      <4>2. CASE r # row
        <5>1. PICK j \in 1..m : r = ledger[j] /\ r.key # row.key
              BY <1>1, <3>2, <4>2 DEF RowsWith, Rows, Range
        <5>2. j # k  BY <2>5, <5>1
        <5>3. \E i \in 2..m : list[i] = ledger[j]
          <6>1. CASE j < k
            <7>1. j + 1 \in 2..m /\ j + 1 <= k /\ (j + 1) - 1 = j  BY <1>1, <2>5, <6>1
            <7>2. QED  BY <2>8, <7>1
          <6>2. CASE j > k
            <7>1. j \in 2..m /\ ~(j <= k)  BY <1>1, <2>5, <6>2
            <7>2. QED  BY <2>8, <7>1
          <6>3. QED  BY <1>1, <2>5, <5>2, <6>1, <6>2
        <5>4. \A i \in 2..m : i \in 1..m  BY <1>1
        <5>5. QED  BY <2>7, <5>1, <5>3, <5>4 DEF Range
      <4>3. QED  BY <4>1, <4>2
    <3>3. QED  BY <3>1, <3>2
  <2>11. QED  BY <2>7, <2>9, <2>10
<1>3. CASE I = {}
  <2>1. list = <<row>> \o ledger
        BY <1>3 DEF Put, RemoveFirstMatch
  <2>2. \A i \in 1..m : ledger[i].key # row.key  BY <1>3
  <2> HIDE DEF I, m
  <2>3. /\ list \in Seq(Row) /\ DOMAIN list = 1..(m + 1) /\ list[1] = row
        /\ \A i \in 2..(m + 1) : list[i] = ledger[i - 1]
        BY <1>1, <2>1
  <2>4. \A i \in 1..(m + 1) : i = 1 \/ (i \in 2..(m + 1) /\ i - 1 \in 1..m)  BY <1>1
  <2>5. \A i, j \in 1..(m + 1) : list[i].key = list[j].key => i = j
    <3>1. ASSUME NEW i \in 2..(m + 1)
          PROVE  i - 1 \in 1..m /\ list[i] = ledger[i - 1] /\ list[i].key # row.key
          BY <1>1, <2>2, <2>3
    <3>2. ASSUME NEW i \in 2..(m + 1), NEW j \in 2..(m + 1), list[i].key = list[j].key  PROVE i = j
      <4>1. i - 1 = j - 1  BY <1>1, <3>1, <3>2 DEF LedgerTyped
      <4>2. QED  BY <1>1, <4>1
    <3>3. QED  BY <2>3, <2>4, <3>1, <3>2
  <2>6. ASSUME NEW r
        PROVE  r \in Range(list) <=> r \in RowsWith(row)
    <3>1. ASSUME r \in Range(list)  PROVE r \in RowsWith(row)
      <4>1. PICK i \in 1..(m + 1) : r = list[i]  BY <2>3, <3>1 DEF Range
      <4>2. CASE i = 1  BY <2>3, <4>1, <4>2 DEF RowsWith
      <4>3. CASE i # 1
        <5>1. i \in 2..(m + 1) /\ i - 1 \in 1..m  BY <2>4, <4>1, <4>3
        <5>2. r = ledger[i - 1] /\ r.key # row.key  BY <2>2, <2>3, <4>1, <5>1
        <5>3. r \in Rows  BY <1>1, <5>1, <5>2 DEF Rows, Range
        <5>4. QED  BY <5>2, <5>3 DEF RowsWith
      <4>4. QED  BY <4>2, <4>3
    <3>2. ASSUME r \in RowsWith(row)  PROVE r \in Range(list)
      <4>1. CASE r = row
        <5>1. 1 \in 1..(m + 1)  BY <1>1
        <5>2. QED  BY <2>3, <4>1, <5>1 DEF Range
      <4>2. CASE r # row
        <5>1. PICK j \in 1..m : r = ledger[j]  BY <1>1, <3>2, <4>2 DEF RowsWith, Rows, Range
        <5>2. j + 1 \in 2..(m + 1) /\ j + 1 \in 1..(m + 1) /\ (j + 1) - 1 = j  BY <1>1
        <5>3. r = list[j + 1]  BY <2>3, <5>1, <5>2
        <5>4. QED  BY <2>3, <5>2, <5>3 DEF Range
      <4>3. QED  BY <4>1, <4>2
    <3>3. QED  BY <3>1, <3>2
  <2>7. Range(list) = RowsWith(row)  BY <2>6
  <2>8. \A i, j \in DOMAIN list : list[i].key = list[j].key => i = j  BY <2>3, <2>5
  <2>9. list \in Seq(Row)  BY <2>3
  <2>10. QED  BY ONLY <2>7, <2>8, <2>9
<1>4. QED  BY <1>2, <1>3

\* What a step leaves of the ledger that stores a row.
LEMMA Stores ==
    ASSUME LedgerTyped, NEW row \in Row, ledger' = Put(row)
    PROVE  LedgerTyped' /\ Rows' = RowsWith(row)
<1>1. PICK list : list = ledger'  OBVIOUS
<1>2. /\ list \in Seq(Row)
      /\ \A i, j \in DOMAIN list : list[i].key = list[j].key => i = j
      /\ Range(list) = RowsWith(row)
      BY <1>1, PutIs
<1>3. LedgerTyped'  BY <1>1, <1>2 DEF LedgerTyped
<1>4. Rows' = RowsWith(row)  BY <1>1, <1>2 DEF Rows
<1>5. QED  BY <1>3, <1>4

\* A key that the ledger has it keeps, and it has that of the row.
LEMMA KeysStay ==
    ASSUME NEW row, Rows' = RowsWith(row)
    PROVE  /\ \A key : Stored(key) => \E r \in Rows' : r.key = key
           /\ \E r \in Rows' : r.key = row.key
BY DEF RowsWith, Stored

-----------------------------------------------------------------------------
(* Which rows may be stored.                                               *)

\* A row that takes no trade from another decision.
Fits(row) ==
    /\ OwnFill(row)
    /\ row.fill \in Fills => \A r \in Rows : r.fill = row.fill => r.key = row.key

\* A row that keeps the trade that its decision has.
Links(row) == \A r \in Rows : r.key = row.key /\ r.fill \in Fills => row.fill = r.fill

\* A row that gives its decision no trade.
Repeats(row) ==
    /\ row.key.event # NoFill => Stored(row.key)
    /\ row.fill \in Fills => \E r \in Rows : r.key = row.key /\ r.fill = row.fill

\* Fills are linked to one decision each.
LEMMA RowsKept ==
    ASSUME LedgerTyped, RowsFit, OneKeyPerFill, NEW row \in Row, Fits(row), Rows' = RowsWith(row)
    PROVE  RowsFit' /\ OneKeyPerFill'
<1>1. RowsFit'  BY DEF RowsFit, OwnFill, Fits, RowsWith
<1>2. ASSUME NEW r \in RowsWith(row), NEW q \in RowsWith(row), r.fill = q.fill, r.fill # NoFill
      PROVE  r.key = q.key
  <2>1. ASSUME NEW x \in Rows, x.fill = row.fill, row.fill # NoFill
        PROVE  x.key = row.key
    <3>1. row.fill \in Fills \/ row.fill \in GatewayFills  BY <2>1 DEF Row
    <3>2. CASE row.fill \in Fills  BY <2>1, <3>2 DEF Fits
    <3>3. CASE row.fill \in GatewayFills
      <4>1. OwnFill(x) /\ OwnFill(row)  BY DEF RowsFit, Fits
      <4>2. QED  BY <2>1, <3>3, <4>1 DEF OwnFill
    <3>4. QED  BY <3>1, <3>2, <3>3
  <2>2. QED  BY <1>2, <2>1 DEF RowsWith, OneKeyPerFill
<1>3. OneKeyPerFill'  BY <1>2 DEF OneKeyPerFill
<1>4. QED  BY <1>1, <1>3

\* What the bot read stays true.
LEMMA BotKept ==
    ASSUME BotFits, NEW row, Links(row), Rows' = RowsWith(row), upserting'["bot"] = upserting["bot"]
    PROVE  BotFits'
<1> DEFINE u == upserting["bot"]
<1>1. CASE u = <<>>
      BY <1>1 DEF BotFits
<1>2. CASE u # <<>>
  <2>1. /\ OwnFill(u[1]) /\ (u[2] # NoRow => u[2].key = u[1].key /\ Stored(u[1].key) /\ OwnFill(u[2]))
        /\ u[1].key.event = NoFill /\ u[1].fill \notin Fills
        /\ u[2] # NoRow /\ u[2].fill \in Fills => \A r \in Rows : r.key = u[1].key => r.fill = u[2].fill
        BY <1>2 DEF BotFits, PriorFits
  <2>2. Stored(u[1].key) => \E r \in Rows' : r.key = u[1].key  BY KeysStay
  <2>3. ASSUME u[2] # NoRow, u[2].fill \in Fills, NEW r \in Rows', r.key = u[1].key
        PROVE  r.fill = u[2].fill
    <3>1. CASE r \in Rows  BY <2>1, <2>3, <3>1
    <3>2. CASE r = row
      <4>1. PICK q \in Rows : q.key = u[1].key  BY <2>1, <2>3 DEF Stored
      <4>2. q.fill = u[2].fill  BY <2>1, <2>3, <4>1
      <4>3. QED  BY <2>3, <3>2, <4>1, <4>2 DEF Links
    <3>3. QED  BY <2>3, <3>1, <3>2 DEF RowsWith
  <2> HIDE DEF u
  <2>4. u = upserting'["bot"]  BY DEF u
  <2>5. QED  BY <2>1, <2>2, <2>3, <2>4 DEF BotFits, PriorFits, OwnFill, Stored
<1>3. QED  BY <1>1, <1>2

\* What the layer read stays true.
LEMMA LayerKept ==
    ASSUME TypeOK, StepsFit, SignalFits, TradeFits, NEW row \in Row, Repeats(row),
           Rows' = RowsWith(row), UNCHANGED layer, upserting'["layer"] = upserting["layer"]
    PROVE  SignalFits' /\ TradeFits'
<1> DEFINE u == upserting["layer"]
           h == Head(todo)
<1>1. UNCHANGED <<pc, todo, target>>  BY DEF layer
<1>2. pc \in {"attach", "import"} => h \in Fills
  <2>1. pc \in {"attach", "import"} => todo \in Seq(Fills) /\ todo # <<>>
        BY DEF TypeOK, ListedIn, StepsFit
  <2>2. QED  BY <2>1
<1>3. ASSUME NEW signal, Untraded(signal)
      PROVE  \A r \in Rows' : r.key.signal = signal => r.fill \notin Fills
      BY <1>3 DEF Untraded, RowsWith, Repeats
<1>4. \A key : Stored(key) => \E r \in Rows' : r.key = key  BY KeysStay
<1>5. SignalFits'
  <2>1. CASE pc = "select"
    <3>1. Untraded(h)  BY <2>1 DEF SignalFits
    <3>2. \A r \in Rows' : r.key.signal = h => r.fill \notin Fills  BY <1>3, <3>1
    <3>3. QED  BY <1>1, <2>1, <3>2 DEF SignalFits, Untraded
  <2>2. CASE pc = "record"
    <3>1. /\ Untraded(u[1].key.signal)
          /\ u[2] # NoRow => u[2].key = u[1].key /\ Stored(u[1].key) /\ OwnFill(u[2])
          /\ u[1].key.event = NoFill /\ u[1].fill = NoFill
          /\ u[2] # NoRow => u[2].fill \notin Fills
          BY <2>2 DEF SignalFits, PriorFits
    <3>2. \A r \in Rows' : r.key.signal = u[1].key.signal => r.fill \notin Fills  BY <1>3, <3>1
    <3>3. Stored(u[1].key) => \E r \in Rows' : r.key = u[1].key  BY <1>4
    <3> HIDE DEF u
    <3>4. u = upserting'["layer"]  BY DEF u
    <3>5. QED
          BY <1>1, <2>2, <3>1, <3>2, <3>3, <3>4 DEF SignalFits, Untraded, PriorFits, Stored, OwnFill
  <2>3. CASE pc \notin {"select", "record"}
        BY <1>1, <2>3 DEF SignalFits
  <2>4. QED  BY <2>1, <2>2, <2>3
<1>6. TradeFits'
  <2>1. CASE pc = "import"
    <3>1. /\ u[2] = NoRow /\ u[1].key.event = h /\ u[1].fill = h
          /\ \A r \in Rows : h \notin {r.fill, r.key.event}
          BY <2>1 DEF TradeFits
    <3>2. h \notin {row.fill, row.key.event}
          BY <1>2, <2>1, <3>1, Apart DEF Repeats, Stored
    <3>3. \A r \in Rows' : h \notin {r.fill, r.key.event}  BY <3>1, <3>2 DEF RowsWith
    <3> HIDE DEF u
    <3>4. u = upserting'["layer"]  BY DEF u
    <3>5. QED  BY <1>1, <2>1, <3>1, <3>3, <3>4 DEF TradeFits
  <2>2. CASE pc = "attach"
    <3>1. /\ target.key.event \in {NoFill, h}
          /\ \A r \in Rows : /\ r.key = target.key => r.fill \in GatewayFills \cup {NoFill, h}
                             /\ r.fill = h => r.key = target.key
          BY <2>2 DEF TradeFits
    <3>2. /\ row.key = target.key => row.fill \in GatewayFills \cup {NoFill, h}
          /\ row.fill = h => row.key = target.key
      <4>1. row.fill \in Fills \cup GatewayFills \cup {NoFill}  BY DEF Row
      <4>2. row.fill \in Fills => \E r \in Rows : r.key = row.key /\ r.fill = row.fill  BY DEF Repeats
      <4>3. h \in Fills  BY <1>2, <2>2
      <4> HIDE DEF h
      <4>4. row.key = target.key => row.fill \in GatewayFills \cup {NoFill, h}
            BY <3>1, <4>1, <4>2
      <4>5. row.fill = h => row.key = target.key
            BY <3>1, <4>2, <4>3
      <4>6. QED  BY <4>4, <4>5
    <3>3. \A r \in Rows' : /\ r.key = target.key => r.fill \in GatewayFills \cup {NoFill, h}
                           /\ r.fill = h => r.key = target.key
          BY <3>1, <3>2 DEF RowsWith
    <3> HIDE DEF h
    <3>4. h = Head(todo') /\ target' = target /\ pc' = "attach"  BY <1>1, <2>2 DEF h
    <3>5. QED  BY <3>1, <3>3, <3>4 DEF TradeFits
  <2>3. CASE pc \notin {"import", "attach"}
        BY <1>1, <2>3 DEF TradeFits
  <2>4. QED  BY <2>1, <2>2, <2>3
<1>7. QED  BY <1>5, <1>6

-----------------------------------------------------------------------------
(* The steps that store a row, and those that prepare one.                 *)

\* No key is lost.
Keeps == \A key : Stored(key) => \E r \in Rows' : r.key = key

\* The steps at which the layer goes by what it read in the ledger.
Watching == {"select", "record", "attach", "import"}

\* What DecisionLedger.upsert writes.
LEMMA MergedIs ==
    ASSUME NEW row \in Row, NEW prior \in Row \cup {NoRow}, prior # NoRow => prior.key = row.key
    PROVE  /\ Merged(row, prior) \in Row /\ Merged(row, prior).key = row.key
           /\ prior = NoRow => Merged(row, prior) = row
           /\ prior # NoRow =>
                Merged(row, prior).fill = IF row.fill = NoFill THEN prior.fill ELSE row.fill
BY DEF Merged, Row

\* A row that is stored over the one that was read, if no row of the key is new.
LEMMA MergedRepeats ==
    ASSUME LedgerTyped, NEW row \in Row, NEW prior \in Row \cup {NoRow}, PriorFits(row, prior),
           OwnFill(row), row.key.event = NoFill, row.fill \notin Fills,
           prior # NoRow /\ prior.fill \in Fills
             => \A r \in Rows : r.key = row.key => r.fill = prior.fill
    PROVE  OwnFill(Merged(row, prior)) /\ Repeats(Merged(row, prior))
<1> DEFINE m == Merged(row, prior)
<1>1. /\ m \in Row /\ m.key = row.key
      /\ prior = NoRow => m = row
      /\ prior # NoRow => m.fill = IF row.fill = NoFill THEN prior.fill ELSE row.fill
      BY MergedIs DEF PriorFits
<1>2. prior # NoRow => OwnFill(prior) /\ Stored(row.key) /\ prior.key = row.key  BY DEF PriorFits
<1> HIDE DEF m
<1>3. OwnFill(m)  BY <1>1, <1>2 DEF OwnFill
<1>4. Repeats(m)
  <2>1. ASSUME m.fill \in Fills
        PROVE  \E r \in Rows : r.key = m.key /\ r.fill = m.fill
    <3>1. prior # NoRow /\ prior.fill \in Fills /\ m.fill = prior.fill  BY <1>1, <2>1
    <3>2. PICK r \in Rows : r.key = row.key  BY <1>2, <3>1 DEF Stored
    <3>3. QED  BY <1>1, <3>1, <3>2
  <2>2. QED  BY <1>1, <2>1 DEF Repeats
<1>5. QED  BY <1>3, <1>4 DEF m

\* Such a row takes no trade from another decision.
LEMMA RepeatsFits ==
    ASSUME OneKeyPerFill, NEW row \in Row, OwnFill(row), Repeats(row)
    PROVE  Fits(row)
<1>1. ASSUME row.fill \in Fills, NEW r \in Rows, r.fill = row.fill
      PROVE  r.key = row.key
  <2>1. PICK q \in Rows : q.key = row.key /\ q.fill = row.fill  BY <1>1 DEF Repeats
  <2>2. r.fill = q.fill /\ r.fill # NoFill  BY <1>1, <2>1, Apart
  <2>3. QED  BY <2>1, <2>2 DEF OneKeyPerFill
<1>2. QED  BY <1>1 DEF Fits

\* A step that leaves the ledger alone.
LEMMA Unwritten ==
    ASSUME LedgerTyped, LedgerInv, UNCHANGED ledger
    PROVE  /\ LedgerTyped' /\ RowsFit' /\ OneKeyPerFill' /\ Keeps /\ Rows' = Rows
           /\ upserting'["bot"] = upserting["bot"] => BotFits'
<1>1. Rows' = Rows  BY DEF Rows
<1>2. LedgerTyped'  BY DEF LedgerTyped
<1>3. RowsFit' /\ OneKeyPerFill'  BY <1>1 DEF LedgerInv, RowsFit, OneKeyPerFill, OwnFill
<1>4. Keeps  BY <1>1 DEF Keeps, Stored
<1>5. ASSUME upserting'["bot"] = upserting["bot"]
      PROVE  BotFits'
      BY <1>1, <1>5 DEF LedgerInv, BotFits, PriorFits, OwnFill, Stored
<1>6. QED  BY <1>1, <1>2, <1>3, <1>4, <1>5

\* A step of the layer that leaves the ledger alone and goes by nothing it read there.
LEMMA QuietStep ==
    ASSUME LedgerTyped, LedgerInv, UNCHANGED ledger, upserting'["bot"] = upserting["bot"],
           pc' \notin Watching
    PROVE  LedgerTyped' /\ LedgerInv' /\ Keeps
<1>1. SignalFits' /\ TradeFits'  BY DEF SignalFits, TradeFits, Watching
<1>2. QED  BY <1>1, Unwritten DEF LedgerInv

\* A step of the layer that stores a row.
LEMMA LayerStores ==
    ASSUME LedgerTyped, LedgerInv, NEW row \in Row, ledger' = Put(row), Fits(row), Links(row),
           upserting'["bot"] = upserting["bot"], pc' \notin Watching
    PROVE  LedgerTyped' /\ LedgerInv' /\ Keeps /\ \E r \in Rows' : r.key = row.key
<1>1. LedgerTyped' /\ Rows' = RowsWith(row)  BY Stores
<1>2. RowsFit' /\ OneKeyPerFill'  BY <1>1, RowsKept DEF LedgerInv
<1>3. BotFits'  BY <1>1, BotKept DEF LedgerInv
<1>4. SignalFits' /\ TradeFits'  BY DEF SignalFits, TradeFits, Watching
<1>5. Keeps /\ \E r \in Rows' : r.key = row.key  BY <1>1, KeysStay DEF Keeps
<1>6. QED  BY <1>1, <1>2, <1>3, <1>4, <1>5 DEF LedgerInv

\* What a process is about to write is a row, and so is what it read.
LEMMA Upserting ==
    ASSUME TypeOK, NEW p \in {"layer", "bot"}, upserting[p] # <<>>
    PROVE  upserting[p][1] \in Row /\ upserting[p][2] \in Row \cup {NoRow}
<1>1. upserting[p] \in Row \X (Row \cup {NoRow})  BY DEF TypeOK
<1>2. QED  BY <1>1

\* A process that is not written for keeps what it prepared.
LEMMA OtherProcess ==
    ASSUME TypeOK, NEW v
    PROVE  /\ [upserting EXCEPT !["layer"] = v]["bot"] = upserting["bot"]
           /\ [upserting EXCEPT !["bot"] = v]["layer"] = upserting["layer"]
           /\ \A p \in {"layer", "bot"} : [upserting EXCEPT ![p] = v][p] = v
BY DEF TypeOK

\* The bot's row gives its decision no trade, though it may take its own away.
LEMMA BotWriteKeeps ==
    ASSUME TypeOK, StepsFit, LedgerInv, BotWrite
    PROVE  LedgerTyped' /\ LedgerInv' /\ Keeps
<1> DEFINE u == upserting["bot"]
           m == Merged(u[1], u[2])
<1>1. LedgerTyped  BY DEF TypeOK, LedgerTyped
<1>2. u # <<>> /\ UNCHANGED layer  BY DEF BotWrite
<1>3. u[1] \in Row /\ u[2] \in Row \cup {NoRow}  BY <1>2, Upserting
<1>4. upserting' = [upserting EXCEPT !["bot"] = <<>>]  BY DEF BotWrite, Write
<1>5. upserting'["layer"] = upserting["layer"] /\ upserting'["bot"] = <<>>
      BY <1>4, OtherProcess
<1>6. BotFits'  BY <1>5 DEF BotFits
<1>7. CASE UNCHANGED ledger
  <2>1. SignalFits' /\ TradeFits'
    <3>1. Rows' = Rows /\ UNCHANGED <<pc, todo, target>>  BY <1>1, <1>2, <1>7, Unwritten DEF layer
    <3>2. SignalFits /\ TradeFits  BY DEF LedgerInv
    <3>3. SignalFits'
          BY <1>5, <3>1, <3>2 DEF SignalFits, Untraded, PriorFits, Stored, OwnFill
    <3>4. TradeFits'  BY <1>5, <3>1, <3>2 DEF TradeFits
    <3>5. QED  BY <3>3, <3>4
  <2>2. QED  BY <1>1, <1>6, <1>7, <2>1, Unwritten DEF LedgerInv
<1>8. CASE ledger' = Put(m)
  <2>1. /\ OwnFill(u[1]) /\ PriorFits(u[1], u[2]) /\ u[1].key.event = NoFill /\ u[1].fill \notin Fills
        /\ u[2] # NoRow /\ u[2].fill \in Fills => \A r \in Rows : r.key = u[1].key => r.fill = u[2].fill
        BY <1>2 DEF LedgerInv, BotFits
  <2>2. m \in Row /\ OwnFill(m) /\ Repeats(m)
    <3> HIDE DEF u
    <3>1. OwnFill(m) /\ Repeats(m)  BY <1>1, <1>3, <2>1, MergedRepeats
    <3>2. m \in Row  BY <1>3, <2>1, MergedIs DEF PriorFits
    <3>3. QED  BY <3>1, <3>2
  <2> HIDE DEF m
  <2>3. LedgerTyped' /\ Rows' = RowsWith(m)  BY <1>1, <1>8, <2>2, Stores
  <2>4. Fits(m)  BY <2>2, RepeatsFits DEF LedgerInv
  <2>5. RowsFit' /\ OneKeyPerFill'  BY <1>1, <2>2, <2>3, <2>4, RowsKept DEF LedgerInv
  <2>6. SignalFits' /\ TradeFits'  BY <1>2, <1>5, <2>2, <2>3, LayerKept DEF LedgerInv
  <2>7. Keeps  BY <2>3, KeysStay DEF Keeps
  <2>8. QED  BY <1>6, <2>3, <2>5, <2>6, <2>7 DEF LedgerInv
<1>9. QED  BY <1>7, <1>8 DEF BotWrite, Write

\* The bot prepares a row of its own order, over what it reads.
LEMMA BotSelectKeeps ==
    ASSUME TypeOK, StepsFit, LedgerInv, BotSelect
    PROVE  LedgerTyped' /\ LedgerInv' /\ Keeps
<1>1. LedgerTyped  BY DEF TypeOK, LedgerTyped
<1>2. UNCHANGED <<ledger, layer>>  BY DEF BotSelect, store
<1>3. PICK signal \in Signals, action \in Actions, fill \in GatewayFills \cup {NoFill} :
        /\ fill # NoFill => OrderOf[fill] = <<signal, action>>
        /\ Select("bot", NewRow(Key(NoFill, signal, action), fill, NoFill))
      BY DEF BotSelect
<1> DEFINE row == NewRow(Key(NoFill, signal, action), fill, NoFill)
           prior == Get(row.key)
<1>4. upserting'["bot"] = <<row, prior>> /\ upserting'["layer"] = upserting["layer"]
      BY <1>3, OtherProcess DEF Select
<1>5. /\ row.key = Key(NoFill, signal, action) /\ row.fill = fill /\ row.key.event = NoFill
      BY DEF NewRow, Key
<1>6. row.fill \notin Fills  BY <1>5, Apart
<1>7. OwnFill(row)
  <2>1. ASSUME fill \in GatewayFills
        PROVE  row.key = Key(NoFill, OrderOf[fill][1], OrderOf[fill][2])
    <3>1. OrderOf[fill] = <<signal, action>>  BY <1>3, <2>1, Apart
    <3>2. OrderOf[fill][1] = signal /\ OrderOf[fill][2] = action  BY <3>1
    <3>3. QED  BY <1>5, <3>2
  <2> HIDE DEF row
  <2>2. QED  BY <1>5, <2>1 DEF OwnFill
<1> HIDE DEF row
<1>8. prior # NoRow => /\ prior \in Rows /\ prior.key = row.key /\ Stored(row.key) /\ OwnFill(prior)
                       /\ \A r \in Rows : r.key = row.key => r = prior
  <2>1. prior # NoRow => prior \in Rows /\ prior.key = row.key /\ Stored(row.key)
        BY <1>1, GetIs
  <2>2. QED  BY <1>1, <2>1, RowOfKey DEF LedgerInv, RowsFit
<1> HIDE DEF prior
<1>9. Rows' = Rows /\ LedgerTyped' /\ RowsFit' /\ OneKeyPerFill' /\ Keeps
      BY <1>1, <1>2, Unwritten
<1>10. BotFits'
      BY <1>4, <1>5, <1>6, <1>7, <1>8, <1>9 DEF BotFits, PriorFits, OwnFill, Stored
<1>11. SignalFits' /\ TradeFits'
  <2>1. UNCHANGED <<pc, todo, target>>  BY <1>2 DEF layer
  <2>2. SignalFits /\ TradeFits  BY DEF LedgerInv
  <2>3. SignalFits'
        BY <1>4, <1>9, <2>1, <2>2 DEF SignalFits, Untraded, PriorFits, Stored, OwnFill
  <2>4. TradeFits'  BY <1>4, <1>9, <2>1, <2>2 DEF TradeFits
  <2>5. QED  BY <2>3, <2>4
<1>12. QED  BY <1>9, <1>10, <1>11 DEF LedgerInv

\* A signal is looked up: from here on it has no trade until its row is written.
LEMMA FindSignalKeeps ==
    ASSUME TypeOK, StepsFit, LedgerInv, FindSignal
    PROVE  LedgerTyped' /\ LedgerInv' /\ Keeps
<1>1. LedgerTyped  BY DEF TypeOK, LedgerTyped
<1>2. UNCHANGED <<ledger, upserting>>  BY DEF FindSignal, store
<1>3. CASE pc' # "select"
  <2>1. pc' \notin Watching  BY <1>3 DEF FindSignal, Goto, Watching
  <2>2. QED  BY <1>1, <1>2, <2>1, QuietStep
<1>4. CASE pc' = "select"
  <2>1. todo # <<>> /\ BySignal(Head(todo)) = NoRow /\ todo' = todo
        BY <1>4 DEF FindSignal, Goto
  <2>2. Head(todo) \in Signals
    <3>1. todo \in Seq(Signals)  BY DEF FindSignal, TypeOK, ListedIn
    <3>2. QED  BY <2>1, <3>1
  <2>3. Head(todo) # NoSignal  BY <2>2, LearningAssumption DEF LearningAssumption
  <2>4. \A r \in Rows : r.key.signal # Head(todo)  BY <1>1, <2>1, <2>3, BySignalIs
  <2>5. Rows' = Rows /\ LedgerTyped' /\ RowsFit' /\ OneKeyPerFill' /\ Keeps /\ BotFits'
        BY <1>1, <1>2, Unwritten
  <2>6. SignalFits' /\ TradeFits'
        BY <1>4, <2>1, <2>4, <2>5 DEF SignalFits, TradeFits, Untraded
  <2>7. QED  BY <2>5, <2>6 DEF LedgerInv
<1>5. QED  BY <1>3, <1>4

\* The row of the signal is prepared.
LEMMA SelectSignalKeeps ==
    ASSUME TypeOK, StepsFit, LedgerInv, SelectSignal
    PROVE  LedgerTyped' /\ LedgerInv' /\ Keeps
<1>1. LedgerTyped  BY DEF TypeOK, LedgerTyped
<1>2. UNCHANGED ledger /\ pc = "select" /\ pc' = "record"  BY DEF SelectSignal, store, Goto
<1>3. PICK action \in Actions :
        Select("layer", NewRow(Key(NoFill, Head(todo), action), NoFill, NoFill))
      BY DEF SelectSignal
<1> DEFINE row == NewRow(Key(NoFill, Head(todo), action), NoFill, NoFill)
           prior == Get(row.key)
<1>4. upserting'["layer"] = <<row, prior>> /\ upserting'["bot"] = upserting["bot"]
      BY <1>3, OtherProcess DEF Select
<1>5. row.key.signal = Head(todo) /\ row.fill = NoFill /\ row.key.event = NoFill
      BY DEF NewRow, Key
<1>6. Untraded(row.key.signal)  BY <1>2, <1>5 DEF LedgerInv, SignalFits
<1> HIDE DEF row
<1>7. prior # NoRow => prior \in Rows /\ prior.key = row.key /\ Stored(row.key) /\ OwnFill(prior)
                       /\ prior.fill \notin Fills
  <2>1. prior # NoRow => prior \in Rows /\ prior.key = row.key /\ Stored(row.key)
        BY <1>1, GetIs
  <2>2. QED  BY <1>6, <2>1 DEF LedgerInv, RowsFit, Untraded
<1> HIDE DEF prior
<1>8. Rows' = Rows /\ LedgerTyped' /\ RowsFit' /\ OneKeyPerFill' /\ Keeps /\ BotFits'
      BY <1>1, <1>2, <1>4, Unwritten
<1>9. SignalFits'
      BY <1>2, <1>4, <1>5, <1>6, <1>7, <1>8 DEF SignalFits, Untraded, PriorFits, Stored, OwnFill
<1>10. TradeFits'  BY <1>2 DEF TradeFits
<1>11. QED  BY <1>8, <1>9, <1>10 DEF LedgerInv

\* The row of the signal is written, or refused.
LEMMA RecordSignalKeeps ==
    ASSUME TypeOK, StepsFit, LedgerInv, RecordSignal
    PROVE  LedgerTyped' /\ LedgerInv' /\ Keeps
<1> DEFINE u == upserting["layer"]
           m == Merged(u[1], u[2])
<1>1. LedgerTyped  BY DEF TypeOK, LedgerTyped
<1>2. pc = "record" /\ pc' \notin Watching  BY DEF RecordSignal, Goto, Abort, Watching
<1>3. upserting' = [upserting EXCEPT !["layer"] = <<>>]  BY DEF RecordSignal, Write, Abort
<1>4. upserting'["bot"] = upserting["bot"]  BY <1>3, OtherProcess
<1>5. CASE UNCHANGED ledger
      BY <1>1, <1>2, <1>4, <1>5, QuietStep
<1>6. CASE ledger' = Put(m)
  <2>1. u # <<>>  BY <1>2 DEF StepsFit
  <2>2. u[1] \in Row /\ u[2] \in Row \cup {NoRow}  BY <2>1, Upserting
  <2>3. /\ Untraded(u[1].key.signal) /\ PriorFits(u[1], u[2])
        /\ u[1].key.event = NoFill /\ u[1].fill = NoFill
        /\ u[2] # NoRow => u[2].fill \notin Fills
        BY <1>2 DEF LedgerInv, SignalFits
  <2> HIDE DEF u
  <2>4. OwnFill(u[1]) /\ u[1].fill \notin Fills  BY <2>3, Apart DEF OwnFill
  <2>5. OwnFill(m) /\ Repeats(m)  BY <1>1, <2>2, <2>3, <2>4, MergedRepeats
  <2>6. m \in Row /\ m.key = u[1].key  BY <2>2, <2>3, MergedIs DEF PriorFits
  <2> HIDE DEF m
  <2>7. Fits(m)  BY <2>5, <2>6, RepeatsFits DEF LedgerInv
  <2>8. Links(m)  BY <2>3, <2>6 DEF Links, Untraded
  <2>9. QED  BY <1>1, <1>2, <1>4, <1>6, <2>6, <2>7, <2>8, LayerStores
<1>7. QED  BY <1>5, <1>6 DEF RecordSignal, Write

\* The decision that a trade belongs to is looked up: no other has the trade, and it
\* has no other trade.
LEMMA ExistingIs ==
    ASSUME LedgerTyped, LedgerInv, NEW t \in ClosedTrade, Existing(t) # NoRow
    PROVE  /\ Existing(t) \in Rows /\ Existing(t).key.event \in {NoFill, t.fill}
           /\ \A r \in Rows : r.key = Existing(t).key => r.fill \in GatewayFills \cup {NoFill, t.fill}
           /\ \A r \in Rows : r.fill = t.fill => r.key = Existing(t).key
<1> DEFINE e == Existing(t)
<1>1. t.fill \in Fills  BY DEF ClosedTrade
<1>2. CASE ByFill(t.fill) # NoRow
  <2>1. e = ByFill(t.fill)  BY <1>2 DEF Existing
  <2>2. e \in Rows /\ t.fill \in {e.fill, e.key.event}  BY <1>2, <2>1, ByFillIs
  <2> HIDE DEF e
  <2>3. OwnFill(e)  BY <2>2 DEF LedgerInv, RowsFit
  <2>4. e.fill = t.fill /\ e.key.event \in {NoFill, t.fill}
        BY <1>1, <2>2, <2>3, Apart DEF OwnFill
  <2>5. \A r \in Rows : r.key = e.key => r.fill = t.fill  BY <2>2, <2>4, RowOfKey
  <2>6. \A r \in Rows : r.fill = t.fill => r.key = e.key
        BY <1>1, <2>2, <2>4, Apart DEF LedgerInv, OneKeyPerFill
  <2>7. QED  BY <2>2, <2>4, <2>5, <2>6 DEF e
<1>3. CASE ByFill(t.fill) = NoRow
  <2>1. e = BySignal(t.signal) /\ e # NoRow /\ e.fill = NoFill  BY <1>3 DEF Existing
  <2>2. e \in Rows  BY <2>1, BySignalIs
  <2> HIDE DEF e
  <2>3. OwnFill(e)  BY <2>2 DEF LedgerInv, RowsFit
  <2>4. e.key.event = NoFill  BY <2>1, <2>3 DEF OwnFill
  <2>5. \A r \in Rows : t.fill # r.fill  BY <1>1, <1>3, Apart, ByFillIs
  <2>6. \A r \in Rows : r.key = e.key => r.fill = NoFill  BY <2>1, <2>2, RowOfKey
  <2>7. QED  BY <2>2, <2>4, <2>5, <2>6 DEF e
<1>4. QED  BY <1>2, <1>3

\* Either the trade is to be attached to a decision, or to be imported as one.
LEMMA FindKeeps ==
    ASSUME TypeOK, StepsFit, LedgerInv, Find
    PROVE  LedgerTyped' /\ LedgerInv' /\ Keeps
<1>1. LedgerTyped  BY DEF TypeOK, LedgerTyped
<1>2. UNCHANGED ledger  BY DEF Find, store
<1>3. CASE todo = <<>> /\ Goto("ensure", touched) /\ UNCHANGED upserting
  <2>1. pc' \notin Watching  BY <1>3 DEF Goto, Watching
  <2>2. QED  BY <1>1, <1>2, <1>3, <2>1, QuietStep
<1>4. ASSUME NEW t \in Range(History), t.fill = Head(todo), todo # <<>>,
             Existing(t) # NoRow, target' = Existing(t), Goto("attach", todo), UNCHANGED upserting
      PROVE  LedgerTyped' /\ LedgerInv' /\ Keeps
  <2> DEFINE e == Existing(t)
  <2>1. t \in ClosedTrade  BY LearningAssumption DEF LearningAssumption, Range
  <2>2. /\ e.key.event \in {NoFill, t.fill}
        /\ \A r \in Rows : r.key = e.key => r.fill \in GatewayFills \cup {NoFill, t.fill}
        /\ \A r \in Rows : r.fill = t.fill => r.key = e.key
        BY <1>1, <1>4, <2>1, ExistingIs
  <2> HIDE DEF e
  <2>3. target' = e /\ pc' = "attach" /\ Head(todo') = t.fill  BY <1>4 DEF Goto, e
  <2>4. Rows' = Rows /\ LedgerTyped' /\ RowsFit' /\ OneKeyPerFill' /\ Keeps /\ BotFits'
        BY <1>1, <1>2, <1>4, Unwritten
  <2>5. SignalFits'  BY <2>3 DEF SignalFits
  <2>6. TradeFits'  BY <2>2, <2>3, <2>4 DEF TradeFits
  <2>7. QED  BY <2>4, <2>5, <2>6 DEF LedgerInv
<1>5. ASSUME NEW t \in Range(History), t.fill = Head(todo), todo # <<>>,
             Existing(t) = NoRow, Goto("import", todo),
             Select("layer", NewRow(Key(t.fill, t.signal, t.side), t.fill, t.fill))
      PROVE  LedgerTyped' /\ LedgerInv' /\ Keeps
  <2> DEFINE row == NewRow(Key(t.fill, t.signal, t.side), t.fill, t.fill)
  <2>1. t.fill \in Fills
    <3>1. t \in ClosedTrade  BY LearningAssumption DEF LearningAssumption, Range
    <3>2. QED  BY <3>1 DEF ClosedTrade
  <2>2. ByFill(t.fill) = NoRow  BY <1>5 DEF Existing
  <2>3. \A r \in Rows : t.fill \notin {r.fill, r.key.event}  BY <1>1, <2>2, ByFillIs
  <2>4. row.key.event = t.fill /\ row.fill = t.fill  BY DEF NewRow, Key
  <2>5. upserting'["layer"] = <<row, Get(row.key)>> /\ upserting'["bot"] = upserting["bot"]
        BY <1>5, OtherProcess DEF Select
  <2> HIDE DEF row
  <2>6. Get(row.key) = NoRow  BY <1>1, <2>3, <2>4, GetIs
  <2>7. upserting'["layer"] = <<row, NoRow>>  BY <2>5, <2>6
  <2>8. Rows' = Rows /\ LedgerTyped' /\ RowsFit' /\ OneKeyPerFill' /\ Keeps /\ BotFits'
        BY <1>1, <1>2, <2>5, Unwritten
  <2>9. pc' = "import" /\ Head(todo') = t.fill  BY <1>5 DEF Goto
  <2>10. SignalFits'  BY <2>9 DEF SignalFits
  <2>11. TradeFits'  BY <2>3, <2>4, <2>7, <2>8, <2>9 DEF TradeFits
  <2>12. QED  BY <2>8, <2>10, <2>11 DEF LedgerInv
<1>6. QED  BY <1>3, <1>4, <1>5 DEF Find

\* The trade is attached to its decision, whatever has become of the row.
LEMMA AttachKeeps ==
    ASSUME TypeOK, StepsFit, LedgerInv, Attach
    PROVE  LedgerTyped' /\ LedgerInv' /\ Keeps /\ \E r \in Rows' : r.key = target.key
<1> DEFINE old == Get(target.key)
           h == Head(todo)
           m == [old EXCEPT !.fill = h, !.trade = h]
<1>1. LedgerTyped  BY DEF TypeOK, LedgerTyped
<1>2. pc = "attach" /\ pc' \notin Watching /\ UNCHANGED upserting /\ ledger' = Put(m)
      BY DEF Attach, Goto, Watching
<1>3. h \in Fills
  <2>1. todo \in Seq(Fills) /\ todo # <<>>  BY <1>2 DEF TypeOK, ListedIn, StepsFit
  <2>2. QED  BY <2>1
<1>4. old \in Rows /\ old \in Row /\ old.key = target.key
  <2>1. Stored(target.key)  BY <1>2 DEF StepsFit
  <2>2. QED  BY <1>1, <2>1, GetIs
<1>5. /\ target.key.event \in {NoFill, h}
      /\ \A r \in Rows : r.key = target.key => r.fill \in GatewayFills \cup {NoFill, h}
      /\ \A r \in Rows : r.fill = h => r.key = target.key
      BY <1>2 DEF LedgerInv, TradeFits
<1> HIDE DEF old, h
<1>6. m \in Row /\ m.key = target.key /\ m.fill = h  BY <1>3, <1>4 DEF Row
<1> HIDE DEF m
<1>7. Fits(m)  BY <1>3, <1>5, <1>6, Apart DEF Fits, OwnFill
<1>8. Links(m)  BY <1>5, <1>6, Apart DEF Links
<1>9. QED  BY <1>1, <1>2, <1>6, <1>7, <1>8, LayerStores

\* The trade becomes a decision of its own.
LEMMA ImportKeeps ==
    ASSUME TypeOK, StepsFit, LedgerInv, Import
    PROVE  LedgerTyped' /\ LedgerInv' /\ Keeps
           /\ \E r \in Rows' : r.key = upserting["layer"][1].key
<1> DEFINE u == upserting["layer"]
<1>1. LedgerTyped  BY DEF TypeOK, LedgerTyped
<1>2. /\ pc = "import" /\ pc' \notin Watching
      /\ ledger' = Put(Merged(u[1], u[2])) /\ upserting' = [upserting EXCEPT !["layer"] = <<>>]
      BY DEF Import, Goto, Write, Watching
<1>3. upserting'["bot"] = upserting["bot"]  BY <1>2, OtherProcess
<1>4. u # <<>>  BY <1>2 DEF StepsFit
<1>5. u[1] \in Row /\ u[2] \in Row \cup {NoRow}  BY <1>4, Upserting
<1>6. /\ u[2] = NoRow /\ u[1].key.event = Head(todo) /\ u[1].fill = Head(todo)
      /\ \A r \in Rows : Head(todo) \notin {r.fill, r.key.event}
      BY <1>2 DEF LedgerInv, TradeFits
<1>7. Head(todo) \in Fills
  <2>1. todo \in Seq(Fills) /\ todo # <<>>  BY <1>2 DEF TypeOK, ListedIn, StepsFit
  <2>2. QED  BY <2>1
<1> HIDE DEF u
<1>8. ledger' = Put(u[1])  BY <1>2, <1>6 DEF Merged
<1>9. Fits(u[1])  BY <1>6, <1>7, Apart DEF Fits, OwnFill
<1>10. Links(u[1])  BY <1>6 DEF Links
<1>11. QED  BY <1>1, <1>2, <1>3, <1>5, <1>8, <1>9, <1>10, LayerStores DEF u

\* An audit is attached to the row as it is by now.
LEMMA AuditKeeps ==
    ASSUME TypeOK, StepsFit, LedgerInv, AttachAudit
    PROVE  LedgerTyped' /\ LedgerInv' /\ Keeps
<1> DEFINE old == Get(target.key)
           m == [old EXCEPT !.trade = target.trade, !.audited = TRUE]
<1>1. LedgerTyped  BY DEF TypeOK, LedgerTyped
<1>2. pc = "audit" /\ pc' \notin Watching /\ UNCHANGED upserting /\ ledger' = Put(m)
      BY DEF AttachAudit, Goto, Watching
<1>3. Stored(target.key) /\ target \in Row  BY <1>2 DEF StepsFit, TypeOK
<1>4. old \in Rows /\ old \in Row /\ old.key = target.key  BY <1>1, <1>3, GetIs
<1>5. OwnFill(old)  BY <1>4 DEF LedgerInv, RowsFit
<1> HIDE DEF old
<1>6. m \in Row /\ m.key = old.key /\ m.fill = old.fill  BY <1>3, <1>4 DEF Row
<1> HIDE DEF m
<1>7. OwnFill(m) /\ Repeats(m)  BY <1>4, <1>5, <1>6 DEF OwnFill, Repeats, Stored
<1>8. Fits(m)  BY <1>6, <1>7, RepeatsFits DEF LedgerInv
<1>9. Links(m)  BY <1>1, <1>4, <1>6, RowOfKey DEF Links
<1>10. QED  BY <1>1, <1>2, <1>6, <1>8, <1>9, LayerStores

\* An episode that is opened is linked in the row as it is by now.
LEMMA OpenKeeps ==
    ASSUME TypeOK, StepsFit, LedgerInv, OpenEpisode
    PROVE  LedgerTyped' /\ LedgerInv' /\ Keeps
<1> DEFINE old == Get(target.key)
<1>1. LedgerTyped  BY DEF TypeOK, LedgerTyped
<1>2. pc = "open" /\ pc' \notin Watching /\ UNCHANGED upserting /\ ledger' \in {ledger, Put(old)}
      BY DEF OpenEpisode, Goto, Watching
<1>3. Stored(target.key)  BY <1>2 DEF StepsFit
<1>4. old \in Rows /\ old \in Row /\ old.key = target.key  BY <1>1, <1>3, GetIs
<1>5. OwnFill(old)  BY <1>4 DEF LedgerInv, RowsFit
<1> HIDE DEF old
<1>6. Repeats(old)  BY <1>4 DEF Repeats, Stored
<1>7. Fits(old)  BY <1>4, <1>5, <1>6, RepeatsFits DEF LedgerInv
<1>8. Links(old)  BY <1>1, <1>4, RowOfKey DEF Links
<1>9. CASE ledger' = Put(old)
      BY <1>1, <1>2, <1>4, <1>7, <1>8, <1>9, LayerStores
<1>10. CASE ledger' = ledger
      BY <1>1, <1>2, <1>10, QuietStep
<1>11. QED  BY <1>2, <1>9, <1>10

\* The other steps of the layer write nothing in the ledger.
LEMMA QuietSteps ==
    ASSUME TypeOK, LedgerInv,
           \/ Wake \/ Load \/ EnsureEpisode \/ CloseEpisode \/ List \/ Score \/ SaveCandidate
           \/ Post \/ SaveNomination \/ Fault
    PROVE  LedgerTyped' /\ LedgerInv' /\ Keeps
<1>1. LedgerTyped  BY DEF TypeOK, LedgerTyped
<1>2. UNCHANGED ledger
      BY DEF Wake, Load, EnsureEpisode, CloseEpisode, List, Score, SaveCandidate, Post,
             SaveNomination, Fault, store
<1>3. pc' \notin Watching
      BY DEF Wake, Load, EnsureEpisode, CloseEpisode, List, Score, SaveCandidate, Post,
             SaveNomination, Fault, Abort, Goto, Watching
<1>4. UNCHANGED upserting \/ upserting' = [upserting EXCEPT !["layer"] = <<>>]
      BY DEF Wake, Load, EnsureEpisode, CloseEpisode, List, Score, SaveCandidate, Post,
             SaveNomination, Fault, Abort
<1>5. upserting'["bot"] = upserting["bot"]  BY <1>4, OtherProcess
<1>6. QED  BY <1>1, <1>2, <1>3, <1>5, QuietStep

\* Every step keeps the ledger.
LEMMA NextLedger ==
    ASSUME TypeOK, StepsFit, LedgerInv, [Next]_vars
    PROVE  LedgerTyped' /\ LedgerInv' /\ Keeps
<1>1. CASE UNCHANGED vars
  <2>1. UNCHANGED <<ledger, upserting, pc, todo, target>>  BY <1>1 DEF vars, store, layer
  <2>2. LedgerTyped  BY DEF TypeOK, LedgerTyped
  <2>3. Rows' = Rows /\ LedgerTyped' /\ RowsFit' /\ OneKeyPerFill' /\ Keeps /\ BotFits'
        BY <2>1, <2>2, Unwritten
  <2>4. SignalFits'
        BY <2>1, <2>3 DEF LedgerInv, SignalFits, Untraded, PriorFits, Stored, OwnFill
  <2>5. TradeFits'  BY <2>1, <2>3 DEF LedgerInv, TradeFits
  <2>6. QED  BY <2>3, <2>4, <2>5 DEF LedgerInv
<1>2. CASE Next
      BY <1>2, QuietSteps, FindSignalKeeps, SelectSignalKeeps, RecordSignalKeeps, FindKeeps,
         AttachKeeps, ImportKeeps, OpenKeeps, AuditKeeps, BotSelectKeeps, BotWriteKeeps DEF Next, Layer
<1>3. QED  BY <1>1, <1>2

-----------------------------------------------------------------------------
(* The stage of a candidate.                                               *)

\* The rules are finitely many.
LEMMA FiniteRules == IsFiniteSet(Rules)
<1>1. IsFiniteSet({"stop-1r", "stop-2r"}) /\ IsFiniteSet({"skip-hold-48h", "skip-fee-drag"})
  <2>1. {"stop-1r", "stop-2r"} = {"stop-1r"} \cup {"stop-2r"}  OBVIOUS
  <2>2. {"skip-hold-48h", "skip-fee-drag"} = {"skip-hold-48h"} \cup {"skip-fee-drag"}  OBVIOUS
  <2>3. \A x : IsFiniteSet({x})  BY FS_Singleton
  <2>4. \A x, y : IsFiniteSet({x} \cup {y})  BY <2>3, FS_AddElement
  <2>5. /\ IsFiniteSet({"stop-1r"} \cup {"stop-2r"})
        /\ IsFiniteSet({"skip-hold-48h"} \cup {"skip-fee-drag"})
        BY <2>4
  <2>6. QED  BY <2>1, <2>2, <2>5
<1>2. RuleIds = {"stop-1r", "stop-2r"} \cup {"skip-hold-48h", "skip-fee-drag"}  BY DEF RuleIds, Cap
<1>3. IsFiniteSet(RuleIds)  BY <1>1, <1>2, FS_Union
<1>4. QED  BY <1>3, LearningAssumption, FS_Subset DEF LearningAssumption

\* A stop is judged by the trades that record a multiple of their risk.
LEMMA UsableIs ==
    ASSUME NEW rule, NEW trades \in Seq(ClosedTrade)
    PROVE  /\ Usable(rule, trades) \in Seq(ClosedTrade)
           /\ rule \in DOMAIN Cap => \A i \in 1..Len(Usable(rule, trades)) : Usable(rule, trades)[i].r # NoR
<1>1. CASE rule \in DOMAIN Cap
  <2> DEFINE some == {t \in Range(trades) : t.r # NoR}
             rows == Only(trades, some)
  <2>1. rows \in Seq(ClosedTrade \cap some)  BY OnlyKeeps
  <2>2. rows = Usable(rule, trades)  BY <1>1 DEF Usable
  <2> HIDE DEF rows
  <2>3. \A i \in 1..Len(rows) : rows[i] \in ClosedTrade /\ rows[i].r # NoR  BY <2>1
  <2>4. rows \in Seq(ClosedTrade)
    <3> HIDE DEF some
    <3>1. QED  BY <2>1, <2>3, SeqOfElements
  <2>5. QED  BY <2>2, <2>3, <2>4
<1>2. CASE rule \notin DOMAIN Cap
      BY <1>2 DEF Usable
<1>3. QED  BY <1>1, <1>2

\* A result that is scaled is a number.
LEMMA Scaled ==
    ASSUME NEW p \in Int, NEW c \in Int, NEW d \in Int, d > 0
    PROVE  -((p * c) \div d) \in Int
<1>1. PICK n \in Int : n = p * c  OBVIOUS
<1>2. n \div d \in Int  OBVIOUS
<1>3. QED  BY <1>1, <1>2

\* What a rule earns on usable trades is a number.
LEMMA DeltaIs ==
    ASSUME NEW rule \in RuleIds, NEW rows \in Seq(ClosedTrade),
           rule \in DOMAIN Cap => \A i \in 1..Len(rows) : rows[i].r # NoR
    PROVE  Delta(rule, rows) \in Int
<1>1. ASSUME NEW i \in 1..Len(rows)
      PROVE  Replayed(rule, rows[i]) - rows[i].pnl \in Int
  <2> DEFINE t == rows[i]
  <2>1. t \in ClosedTrade  OBVIOUS
  <2>2. rule \in DOMAIN Cap => t.r # NoR  OBVIOUS
  <2> HIDE DEF t
  <2>3. t.pnl \in Int /\ (rule \in DOMAIN Cap => t.r \in Int)  BY <2>1, <2>2 DEF ClosedTrade
  <2>4. ASSUME Clips(rule, t), rule \in DOMAIN Cap
        PROVE  -((t.pnl * Cap[rule]) \div (-t.r)) \in Int
    <3>1. Cap[rule] \in Int /\ Cap[rule] < 0  BY <2>4 DEF Cap
    <3>2. t.r < Cap[rule]
      <4>1. rule # "skip-hold-48h" /\ rule # "skip-fee-drag"  BY <2>4 DEF Cap
      <4>2. QED  BY <2>4, <4>1 DEF Clips
    <3>3. PICK p \in Int, c \in Int, r \in Int : p = t.pnl /\ c = Cap[rule] /\ r = t.r
          BY <2>3, <2>4, <3>1
    <3>4. -r \in Int /\ -r > 0  BY <3>1, <3>2, <3>3
    <3>5. -((p * c) \div (-r)) \in Int  BY <3>4, Scaled
    <3>6. QED  BY <3>3, <3>5
  <2>5. Replayed(rule, t) \in Int  BY <2>3, <2>4 DEF Replayed
  <2>6. QED  BY <2>3, <2>5 DEF t
<1> DEFINE gains == [i \in DOMAIN rows |-> Replayed(rule, rows[i]) - rows[i].pnl]
<1>2. DOMAIN rows = 1..Len(rows) /\ Len(rows) \in Nat  OBVIOUS
<1>3. gains \in [1..Len(rows) -> Int]  BY <1>1, <1>2
<1>4. gains \in Seq(Int)  BY <1>2, <1>3
<1>5. QED  BY <1>4, TotalType DEF Delta

\* Only a rule that pays on all its trades, and on those that it was not judged by, gets
\* to the stage SHADOW.
LEMMA ShadowEarns ==
    ASSUME NEW rule \in RuleIds, NEW trades \in Seq(ClosedTrade), StageFor(rule, trades) = "SHADOW"
    PROVE  LET rows == Usable(rule, trades) IN
           Len(rows) >= 6 /\ Delta(rule, rows) > 0 /\ TestDelta(rule, rows) > 0
<1> DEFINE rows == Usable(rule, trades)
<1>1. /\ ~(Delta(rule, rows) <= 0) /\ Backtested(rows) /\ TestDelta(rule, rows) > 0
      BY DEF StageFor
<1>2. Delta(rule, rows) \in Int  BY UsableIs, DeltaIs
<1> HIDE DEF rows
<1>3. Delta(rule, rows) > 0  BY <1>1, <1>2
<1>4. Len(rows) >= 6  BY <1>1 DEF Backtested
<1>5. QED  BY <1>1, <1>3, <1>4 DEF rows

\* A stage is one of the pipeline.
LEMMA StageIs ==
    ASSUME NEW rule, NEW trades
    PROVE  StageFor(rule, trades) \in Range(PipelineStages)
<1>1. StageFor(rule, trades) \in {"SUGGESTION", "REPLAY", "BACKTEST", "SHADOW"}  BY DEF StageFor
<1>2. {"SUGGESTION", "REPLAY", "BACKTEST", "SHADOW"} \subseteq Range(PipelineStages)
  <2>1. /\ DOMAIN PipelineStages = 1..4
        /\ PipelineStages[1] = "SUGGESTION" /\ PipelineStages[2] = "REPLAY"
        /\ PipelineStages[3] = "BACKTEST" /\ PipelineStages[4] = "SHADOW"
        BY DEF PipelineStages
  <2>2. 1 \in 1..4 /\ 2 \in 1..4 /\ 3 \in 1..4 /\ 4 \in 1..4  OBVIOUS
  <2>3. QED  BY <2>1, <2>2 DEF Range
<1>3. QED  BY <1>1, <1>2

\* A snapshot shows trades.
LEMMA SnapshotTyped ==
    ASSUME NEW n \in Nat, n <= Len(History)
    PROVE  Snapshot(n) \in Seq(ClosedTrade)
<1>1. History \in Seq(ClosedTrade) /\ Window \in Nat \ {0}
      BY LearningAssumption DEF LearningAssumption
<1>2. PICK m : m = Oldest(n)  OBVIOUS
<1>3. m \in Nat /\ 1 <= m /\ m <= n + 1  BY <1>1, <1>2 DEF Oldest
<1>4. SubSeq(History, m, n) \in Seq(ClosedTrade)  BY <1>1, <1>3
<1>5. QED  BY <1>2, <1>4 DEF Snapshot

-----------------------------------------------------------------------------
(* The candidates and the drafts.                                          *)

CandidatesTyped ==
    /\ shown \in 0..Len(History)
    /\ candidates \in [Rules -> Candidate \cup {NoRow}]
    /\ drafts \subseteq [rule : Rules, basis : Nat]

LearnedInv == CandidatesTyped /\ CandidatesFit /\ DraftsAreEarned

\* A candidate in SHADOW is one.
LEMMA Shadowed ==
    ASSUME CandidatesTyped, NEW rule \in Rules, InShadow(rule)
    PROVE  candidates[rule] \in Candidate /\ candidates[rule].basis \in Nat
<1>1. candidates[rule] \in Candidate  BY DEF CandidatesTyped, InShadow
<1>2. QED  BY <1>1 DEF Candidate

\* The rule that a step is at.
LEMMA RuleAt ==
    ASSUME TypeOK, pc \in {"pipeline", "post", "save"}, todo # <<>>
    PROVE  /\ Head(todo) \in Rules /\ 1 \in DOMAIN todo /\ todo[1] = Head(todo)
           /\ todo \in Seq(Rules) /\ Tail(todo) \in Seq(Rules)
           /\ \A i \in DOMAIN Tail(todo) : i + 1 \in DOMAIN todo /\ Tail(todo)[i] = todo[i + 1]
<1>1. todo \in Seq(Rules)  BY DEF TypeOK, ListedIn
<1>2. QED  BY <1>1

\* A step that leaves the candidates and the drafts alone.
LEMMA Unlearned ==
    ASSUME LearnedInv, UNCHANGED <<candidates, drafts>>, shown' \in 0..Len(History),
           pc' \in {"post", "save"} => \A i \in DOMAIN todo' : InShadow(todo'[i])
    PROVE  LearnedInv'
BY DEF LearnedInv, CandidatesTyped, CandidatesFit, DraftsAreEarned, InShadow

\* A candidate is saved at the stage that its trades give it; those in SHADOW are listed.
LEMMA SaveCandidateLearns ==
    ASSUME TypeOK, LearnedInv, SaveCandidate, UNCHANGED shown
    PROVE  LearnedInv'
<1> DEFINE trades == Snapshot(shown)
<1>1. shown \in Nat /\ shown <= Len(History)
  <2>1. Len(History) \in Nat  BY LearningAssumption DEF LearningAssumption
  <2>2. QED  BY <2>1 DEF LearnedInv, CandidatesTyped
<1>2. CASE todo = <<>>
  <2> DEFINE chosen == {rule \in Rules : /\ candidates[rule] # NoRow
                                         /\ candidates[rule].stage = "SHADOW"
                                         /\ ~candidates[rule].nominated}
  <2>1. todo' = SetToSeq(chosen) /\ UNCHANGED <<candidates, drafts>>
        BY <1>2 DEF SaveCandidate, Goto
  <2>2. SetToSeq(chosen) \in Seq(chosen)
    <3>1. IsFiniteSet(chosen)  BY FiniteRules, FS_Subset
    <3>2. QED  BY <3>1, SetToSeqType
  <2>3. \A i \in DOMAIN SetToSeq(chosen) : SetToSeq(chosen)[i] \in chosen
    <3> HIDE DEF chosen
    <3>1. QED  BY <2>2
  <2>4. \A i \in DOMAIN todo' : InShadow(todo'[i])  BY <2>1, <2>3 DEF InShadow
  <2>5. shown' \in 0..Len(History)  BY DEF LearnedInv, CandidatesTyped
  <2>6. QED  BY <2>1, <2>4, <2>5, Unlearned
<1>3. CASE todo # <<>>
  <2> DEFINE rule == Head(todo)
             c == [stage |-> StageFor(rule, trades), basis |-> shown, nominated |-> FALSE]
  <2>1. pc = "pipeline" /\ pc' = "pipeline" /\ UNCHANGED drafts  BY <1>3 DEF SaveCandidate, Goto
  <2>2. rule \in Rules  BY <1>3, <2>1, RuleAt
  <2>3. CASE UNCHANGED candidates
    <3>1. shown' \in 0..Len(History)  BY DEF LearnedInv, CandidatesTyped
    <3>2. QED  BY <2>1, <2>3, <3>1, Unlearned
  <2>4. CASE candidates' = [candidates EXCEPT ![rule] = c]
    <3>1. c \in Candidate
      <4>1. StageFor(rule, trades) \in Range(PipelineStages)  BY StageIs
      <4>2. QED  BY <1>1, <4>1 DEF Candidate
    <3>2. c.stage = StageFor(rule, Snapshot(c.basis)) /\ c.basis = shown  OBVIOUS
    <3> HIDE DEF c, rule
    <3>3. candidates \in [Rules -> Candidate \cup {NoRow}]  BY DEF LearnedInv, CandidatesTyped
    <3>4. /\ candidates' \in [Rules -> Candidate \cup {NoRow}]
          /\ \A r \in Rules : candidates'[r] = IF r = rule THEN c ELSE candidates[r]
          BY <2>2, <2>4, <3>1, <3>3
    <3>5. CandidatesTyped'  BY <2>1, <3>4 DEF LearnedInv, CandidatesTyped
    <3>6. CandidatesFit'
      <4>1. ASSUME NEW r \in Rules, candidates'[r] # NoRow, candidates'[r].stage = "SHADOW"
            PROVE  /\ StageFor(r, Snapshot(candidates'[r].basis)) = "SHADOW"
                   /\ candidates'[r].basis <= Len(History)
        <5>1. CASE r = rule
              BY <1>1, <3>2, <3>4, <4>1, <5>1
        <5>2. CASE r # rule
          <6>1. candidates'[r] = candidates[r]  BY <3>4, <5>2
          <6>2. QED  BY <4>1, <6>1 DEF LearnedInv, CandidatesFit, InShadow
        <5>3. QED  BY <5>1, <5>2
      <4>2. QED  BY <2>1, <4>1 DEF CandidatesFit, InShadow
    <3>7. DraftsAreEarned'  BY <2>1 DEF LearnedInv, DraftsAreEarned
    <3>8. QED  BY <3>5, <3>6, <3>7 DEF LearnedInv
  <2>5. QED  BY <1>3, <2>3, <2>4 DEF SaveCandidate
<1>4. QED  BY <1>2, <1>3

\* What is posted is in SHADOW, and so has earned something.
LEMMA PostLearns ==
    ASSUME TypeOK, LearnedInv, Post, UNCHANGED shown
    PROVE  LearnedInv'
<1>1. UNCHANGED <<candidates, shown>> /\ pc = "post"  BY DEF Post, store
<1>2. \A i \in DOMAIN todo : InShadow(todo[i])  BY <1>1 DEF LearnedInv, CandidatesFit
<1>3. shown' \in 0..Len(History)  BY <1>1 DEF LearnedInv, CandidatesTyped
<1>4. CASE todo = <<>>
  <2>1. pc' = "idle" /\ UNCHANGED drafts  BY <1>4 DEF Post, Abort, Goto
  <2>2. QED  BY <1>1, <1>3, <2>1, Unlearned
<1>5. CASE todo # <<>>
  <2> DEFINE rule == Head(todo)
             b == candidates[rule].basis
             draft == [rule |-> rule, basis |-> b]
  <2>1. rule \in Rules /\ InShadow(rule)  BY <1>1, <1>2, <1>5, RuleAt
  <2>2. b \in Nat /\ b <= Len(History) /\ StageFor(rule, Snapshot(b)) = "SHADOW"
        BY <2>1, Shadowed DEF LearnedInv, CandidatesFit
  <2>3. drafts' \subseteq drafts \cup {draft} /\ (todo' = todo \/ todo' = Tail(todo))
        BY <1>5 DEF Post, Goto
  <2>4. \A i \in DOMAIN todo' : InShadow(todo'[i])
    <3>1. CASE todo' = todo  BY <1>2, <3>1
    <3>2. CASE todo' = Tail(todo)
          BY <1>1, <1>2, <1>5, <3>2, RuleAt
    <3>3. QED  BY <2>3, <3>1, <3>2
  <2> HIDE DEF rule, b
  <2>5. LET rows == Usable(rule, Snapshot(b)) IN
        Len(rows) >= 6 /\ Delta(rule, rows) > 0 /\ TestDelta(rule, rows) > 0
    <3>1. rule \in RuleIds  BY <2>1, LearningAssumption DEF LearningAssumption
    <3>2. Snapshot(b) \in Seq(ClosedTrade)  BY <2>2, SnapshotTyped
    <3>3. QED  BY <2>2, <3>1, <3>2, ShadowEarns
  <2>6. draft.rule = rule /\ draft.basis = b /\ draft \in [rule : Rules, basis : Nat]
        BY <2>1, <2>2
  <2> HIDE DEF draft
  <2>7. CandidatesTyped'  BY <1>1, <2>3, <2>6 DEF LearnedInv, CandidatesTyped
  <2>8. CandidatesFit'  BY <1>1, <2>4 DEF LearnedInv, CandidatesFit, InShadow
  <2>9. DraftsAreEarned'
    <3>1. ASSUME NEW d \in drafts'
          PROVE  LET rows == Usable(d.rule, Snapshot(d.basis)) IN
                 Len(rows) >= 6 /\ Delta(d.rule, rows) > 0 /\ TestDelta(d.rule, rows) > 0
      <4>1. CASE d \in drafts  BY <4>1 DEF LearnedInv, DraftsAreEarned
      <4>2. CASE d = draft  BY <2>5, <2>6, <4>2
      <4>3. QED  BY <2>3, <3>1, <4>1, <4>2
    <3>2. QED  BY <3>1 DEF DraftsAreEarned
  <2>10. QED  BY <2>7, <2>8, <2>9 DEF LearnedInv
<1>6. QED  BY <1>4, <1>5

\* A nomination leaves the stage of a candidate and what it is based on.
LEMMA SaveNominationLearns ==
    ASSUME TypeOK, StepsFit, LearnedInv, SaveNomination, UNCHANGED shown
    PROVE  LearnedInv'
<1> DEFINE rule == Head(todo)
           old == candidates[rule]
           c == [old EXCEPT !.nominated = TRUE]
<1>1. pc = "save" /\ todo # <<>> /\ UNCHANGED <<drafts, shown>> /\ todo' = Tail(todo)
      BY DEF SaveNomination, StepsFit, Goto
<1>2. \A i \in DOMAIN todo : InShadow(todo[i])  BY <1>1 DEF LearnedInv, CandidatesFit
<1>3. /\ rule \in Rules /\ InShadow(rule)
      /\ \A i \in DOMAIN todo' : todo'[i] \in Rules /\ InShadow(todo'[i])
  <2>1. \A i \in DOMAIN Tail(todo) : Tail(todo)[i] \in Rules
    <3>1. Tail(todo) \in Seq(Rules)  BY <1>1, RuleAt
    <3>2. QED  BY <3>1
  <2>2. QED  BY <1>1, <1>2, <2>1, RuleAt
<1>4. old \in Candidate  BY <1>3, Shadowed DEF LearnedInv
<1>5. candidates' = [candidates EXCEPT ![rule] = c]  BY DEF SaveNomination
<1> HIDE DEF rule, old
<1>6. c \in Candidate /\ c.stage = old.stage /\ c.basis = old.basis  BY <1>4 DEF Candidate
<1>7. c # NoRow  BY <1>6, LearningAssumption DEF LearningAssumption
<1> HIDE DEF c
<1>8. /\ candidates' \in [Rules -> Candidate \cup {NoRow}]
      /\ \A r \in Rules : candidates'[r] = IF r = rule THEN c ELSE candidates[r]
      BY <1>3, <1>5, <1>6 DEF LearnedInv, CandidatesTyped
<1>9. \A r \in Rules : /\ candidates'[r].stage = candidates[r].stage
                       /\ candidates'[r].basis = candidates[r].basis
      BY <1>6, <1>8 DEF old
<1>10. \A r \in Rules : candidates'[r] # NoRow => candidates[r] # NoRow
      BY <1>3, <1>8 DEF InShadow
<1>11. \A r \in Rules : candidates[r] # NoRow => candidates'[r] # NoRow
      BY <1>7, <1>8
<1>12. CandidatesTyped'  BY <1>1, <1>8 DEF LearnedInv, CandidatesTyped
<1>13. CandidatesFit'
  <2>1. ASSUME NEW r \in Rules, candidates'[r] # NoRow, candidates'[r].stage = "SHADOW"
        PROVE  /\ StageFor(r, Snapshot(candidates'[r].basis)) = "SHADOW"
               /\ candidates'[r].basis <= Len(History)
        BY <1>9, <1>10, <2>1 DEF LearnedInv, CandidatesFit, InShadow
  <2>2. \A i \in DOMAIN todo' : candidates'[todo'[i]] # NoRow /\ candidates'[todo'[i]].stage = "SHADOW"
        BY <1>3, <1>9, <1>11 DEF InShadow
  <2>3. QED  BY <2>1, <2>2 DEF CandidatesFit, InShadow
<1>14. DraftsAreEarned'  BY <1>1 DEF LearnedInv, DraftsAreEarned
<1>15. QED  BY <1>12, <1>13, <1>14 DEF LearnedInv

\* Every step keeps the candidates and the drafts.
LEMMA NextLearned ==
    ASSUME TypeOK, StepsFit, LearnedInv, [Next]_vars
    PROVE  LearnedInv'
<1>1. shown \in 0..Len(History) /\ Len(History) \in Nat
      BY LearningAssumption DEF LearningAssumption, LearnedInv, CandidatesTyped
<1>2. CASE UNCHANGED vars
  <2>1. UNCHANGED <<candidates, drafts, shown, pc, todo>>  BY <1>2 DEF vars, store, layer
  <2>2. QED  BY <1>1, <2>1, Unlearned DEF LearnedInv, CandidatesFit
<1>3. CASE BotSelect \/ BotWrite
  <2>1. UNCHANGED <<candidates, drafts, shown, pc, todo>>
        BY <1>3 DEF BotSelect, BotWrite, store, layer
  <2>2. QED  BY <1>1, <2>1, Unlearned DEF LearnedInv, CandidatesFit
<1>4. CASE \/ Load
           \/ /\ \/ Wake \/ FindSignal \/ SelectSignal \/ RecordSignal \/ Find \/ Attach \/ Import
                 \/ EnsureEpisode \/ OpenEpisode \/ CloseEpisode \/ List \/ Score
                 \/ AttachAudit \/ Fault
              /\ UNCHANGED shown
  <2>1. UNCHANGED <<candidates, drafts>> /\ pc' \notin {"post", "save"}
        BY <1>4 DEF Wake, FindSignal, SelectSignal, RecordSignal, Load, Find, Attach, Import,
                    EnsureEpisode, OpenEpisode, CloseEpisode, List, Score, AttachAudit, Fault,
                    Abort, Goto, store
  <2>2. shown' \in 0..Len(History)  BY <1>1, <1>4 DEF Load
  <2>3. QED  BY <2>1, <2>2, Unlearned
<1>5. Fault => UNCHANGED shown  BY DEF Fault
<1>6. QED
      BY <1>2, <1>3, <1>4, <1>5, SaveCandidateLearns, PostLearns, SaveNominationLearns DEF Next, Layer

-----------------------------------------------------------------------------
(* The episodes.                                                           *)

EpisodesTyped == episodes \in [Keys -> Seq({"OPEN", "CLOSED"})]

\* A list of one element.
LEMMA ListOfOne ==
    ASSUME NEW S, NEW x \in S
    PROVE  <<x>> \in Seq(S) /\ Len(<<x>>) <= 1
OBVIOUS

\* An episode is opened for a decision that has none, and closed in its place.
LEMMA NextEpisodes ==
    ASSUME TypeOK, StepsFit, OneEpisodePerDecision, [Next]_vars
    PROVE  EpisodesTyped' /\ OneEpisodePerDecision'
<1>1. episodes \in [Keys -> Seq({"OPEN", "CLOSED"})]  BY DEF TypeOK
<1>2. CASE UNCHANGED episodes
      BY <1>1, <1>2 DEF EpisodesTyped, OneEpisodePerDecision
<1>3. ASSUME NEW key \in Keys, NEW list \in Seq({"OPEN", "CLOSED"}), Len(list) <= 1,
             episodes' = [episodes EXCEPT ![key] = list]
      PROVE  EpisodesTyped' /\ OneEpisodePerDecision'
  <2>1. /\ episodes' \in [Keys -> Seq({"OPEN", "CLOSED"})]
        /\ \A k \in Keys : episodes'[k] = IF k = key THEN list ELSE episodes[k]
        BY <1>1, <1>3
  <2>2. \A k \in Keys : Len(episodes'[k]) <= 1
        BY <1>3, <2>1 DEF OneEpisodePerDecision
  <2>3. QED  BY <2>1, <2>2 DEF EpisodesTyped, OneEpisodePerDecision
<1>4. CASE OpenEpisode
  <2>1. target.key \in Keys
    <3>1. target # NoRow  BY <1>4 DEF OpenEpisode, StepsFit
    <3>2. target \in Row  BY <3>1 DEF TypeOK
    <3>3. QED  BY <3>2 DEF Row
  <2>2. PICK key \in Keys : key = target.key  BY <2>1
  <2>3. Opened(key) \in Seq({"OPEN", "CLOSED"}) /\ Len(Opened(key)) <= 1
    <3>1. CASE episodes[key] # <<>>
      <4>1. Opened(key) = episodes[key]  BY <3>1 DEF Opened
      <4>2. QED  BY <1>1, <4>1 DEF OneEpisodePerDecision
    <3>2. CASE episodes[key] = <<>>
      <4>1. Opened(key) = <<"OPEN">>  BY <3>2 DEF Opened
      <4>2. <<"OPEN">> \in Seq({"OPEN", "CLOSED"}) /\ Len(<<"OPEN">>) <= 1  BY ListOfOne
      <4>3. QED  BY <4>1, <4>2, Zenon
    <3>3. QED  BY <3>1, <3>2
  <2>4. episodes' = [episodes EXCEPT ![key] = Opened(key)]  BY <1>4, <2>2 DEF OpenEpisode
  <2>5. QED  BY <1>3, <2>3, <2>4
<1>5. CASE CloseEpisode /\ target.trade # NoFill
  <2> DEFINE list == episodes[target.key]
             closed == Append(Front(list), "CLOSED")
  <2>1. target.key \in Keys
    <3>1. target # NoRow  BY <1>5 DEF CloseEpisode, StepsFit
    <3>2. target \in Row  BY <3>1 DEF TypeOK
    <3>3. QED  BY <3>2 DEF Row
  <2>2. list \in Seq({"OPEN", "CLOSED"}) /\ Len(list) <= 1  BY <1>1, <2>1 DEF OneEpisodePerDecision
  <2>3. episodes' = [episodes EXCEPT ![target.key] = closed]  BY <1>5 DEF CloseEpisode
  <2> HIDE DEF list
  <2>4. Front(list) \in Seq({"OPEN", "CLOSED"}) /\ Len(Front(list)) = 0  BY <2>2 DEF Front
  <2>5. closed \in Seq({"OPEN", "CLOSED"}) /\ Len(closed) <= 1
    <3>1. PICK front \in Seq({"OPEN", "CLOSED"}) : front = Front(list) /\ Len(front) = 0  BY <2>4
    <3>2. QED  BY <3>1
  <2> HIDE DEF closed
  <2>6. QED  BY <1>3, <2>1, <2>3, <2>5, Zenon
<1>6. CASE \/ Wake \/ FindSignal \/ SelectSignal \/ RecordSignal \/ Load \/ Find \/ Attach
           \/ Import \/ EnsureEpisode \/ List \/ Score \/ AttachAudit \/ SaveCandidate
           \/ Post \/ SaveNomination \/ Fault \/ BotSelect \/ BotWrite \/ UNCHANGED vars
  <2>1. UNCHANGED episodes
        BY <1>6 DEF Wake, FindSignal, SelectSignal, RecordSignal, Load, Find, Attach, Import,
                    EnsureEpisode, List, Score, AttachAudit, SaveCandidate, Post, SaveNomination,
                    Fault, BotSelect, BotWrite, vars, store
  <2>2. QED  BY <1>2, <2>1
<1>7. CloseEpisode /\ target.trade = NoFill => UNCHANGED episodes
      BY DEF CloseEpisode
<1>8. QED  BY <1>2, <1>4, <1>5, <1>6, <1>7 DEF Next, Layer

-----------------------------------------------------------------------------
(* The cycle.                                                              *)

CycleTyped ==
    /\ pc \in Phases
    /\ todo \in Seq(ListedIn(pc))
    /\ target \in Row \cup {NoRow}
    /\ touched \in Seq(Keys)
    /\ upserting \in [{"layer", "bot"} -> {<<>>} \cup (Row \X (Row \cup {NoRow}))]

CycleInv == CycleTyped /\ StepsFit

\* A list of keys that the ledger has is one afterwards.
Known(list) == \A i \in DOMAIN list : \E r \in Rows' : r.key = list[i]

LEMMA StillKnown ==
    ASSUME Keeps, NEW list, \A i \in DOMAIN list : Stored(list[i])
    PROVE  Known(list)
BY DEF Keeps, Known

\* What is left of a list.
LEMMA Rest ==
    ASSUME NEW S, NEW list \in Seq(S), list # <<>>
    PROVE  /\ Head(list) \in S /\ Tail(list) \in Seq(S) /\ Head(list) = list[1] /\ 1 \in DOMAIN list
           /\ \A i \in DOMAIN Tail(list) : i + 1 \in DOMAIN list /\ Tail(list)[i] = list[i + 1]
OBVIOUS

\* A process prepares a row.
LEMMA SelectTyped ==
    ASSUME TypeOK, NEW p \in {"layer", "bot"}, NEW row \in Row, Select(p, row)
    PROVE  /\ upserting' \in [{"layer", "bot"} -> {<<>>} \cup (Row \X (Row \cup {NoRow}))]
           /\ upserting'[p] # <<>>
<1> DEFINE v == <<row, Get(row.key)>>
<1>1. LedgerTyped  BY DEF TypeOK, LedgerTyped
<1>2. Get(row.key) \in Row \cup {NoRow}  BY <1>1, GetIs
<1>3. v \in Row \X (Row \cup {NoRow}) /\ v # <<>>  BY <1>2
<1>4. upserting' = [upserting EXCEPT ![p] = v]  BY DEF Select
<1> HIDE DEF v
<1>5. QED  BY <1>3, <1>4, OtherProcess DEF TypeOK

\* It has written it.
LEMMA WrittenTyped ==
    ASSUME TypeOK, NEW p \in {"layer", "bot"}, upserting' = [upserting EXCEPT ![p] = <<>>]
    PROVE  upserting' \in [{"layer", "bot"} -> {<<>>} \cup (Row \X (Row \cup {NoRow}))]
BY DEF TypeOK

\* A row that is made is one.
LEMMA NewRowTyped ==
    ASSUME NEW event \in Fills \cup {NoFill}, NEW signal \in Signals \cup {NoSignal},
           NEW action \in Actions, NEW fill \in Fills \cup GatewayFills \cup {NoFill},
           NEW trade \in Fills \cup {NoFill}
    PROVE  NewRow(Key(event, signal, action), fill, trade) \in Row
BY DEF NewRow, Key, Row, Keys

\* A cycle that is over.
LEMMA AbortFits ==
    ASSUME TypeOK, Abort
    PROVE  CycleInv'
<1>1. upserting' \in [{"layer", "bot"} -> {<<>>} \cup (Row \X (Row \cup {NoRow}))]
      BY WrittenTyped DEF Abort
<1>2. CycleTyped'  BY <1>1 DEF Abort, Goto, CycleTyped, Phases
<1>3. StepsFit'  BY DEF Abort, Goto, StepsFit
<1>4. QED  BY <1>2, <1>3 DEF CycleInv

\* The steps through the signals.
LEMMA SignalStepsFit ==
    ASSUME TypeOK, StepsFit, Keeps, Wake \/ FindSignal \/ SelectSignal \/ RecordSignal
    PROVE  CycleInv'
<1>1. UNCHANGED touched => Known(touched')  BY StillKnown DEF StepsFit
<1>2. pc \in {"signal", "select", "record"} =>
        todo \in Seq(Signals) /\ (todo # <<>> => Head(todo) \in Signals /\ Tail(todo) \in Seq(Signals))
      BY Rest DEF TypeOK, ListedIn
<1>3. ASSUME UNCHANGED <<target, touched>>, pc' \in {"signal", "select", "record", "load"},
             todo' \in Seq(ListedIn(pc')), pc' = "select" => todo' # <<>>,
             upserting' \in [{"layer", "bot"} -> {<<>>} \cup (Row \X (Row \cup {NoRow}))],
             pc' = "record" => upserting'["layer"] # <<>>
      PROVE  CycleInv'
  <2>1. CycleTyped'  BY <1>3 DEF CycleTyped, TypeOK, Phases
  <2>2. StepsFit'  BY <1>1, <1>3 DEF StepsFit, Known, Stored
  <2>3. QED  BY <2>1, <2>2 DEF CycleInv
<1>4. CASE Wake
  <2>1. SetToSeq(Signals) \in Seq(Signals)
        BY LearningAssumption, SetToSeqType DEF LearningAssumption
  <2>2. pc' = "signal" /\ todo' \in Seq(Signals) /\ UNCHANGED <<target, touched, upserting>>
        BY <1>4, <2>1 DEF Wake, Goto
  <2>3. QED  BY <1>3, <2>2 DEF TypeOK, ListedIn
<1>5. CASE FindSignal
  <2>1. /\ UNCHANGED <<target, touched, upserting>>
        /\ \/ pc' = "load" /\ todo' = <<>>
           \/ pc' = "signal" /\ todo' \in Seq(Signals)
           \/ pc' = "select" /\ todo' \in Seq(Signals) /\ todo' # <<>>
        BY <1>2, <1>5 DEF FindSignal, Goto
  <2>2. todo' \in Seq(ListedIn(pc'))
    <3>1. ListedIn("signal") = Signals /\ ListedIn("select") = Signals /\ ListedIn("load") = {}
          BY DEF ListedIn
    <3>2. <<>> \in Seq({})  OBVIOUS
    <3>3. QED  BY <2>1, <3>1, <3>2
  <2>3. QED  BY <1>3, <2>1, <2>2 DEF TypeOK
<1>6. CASE SelectSignal
  <2>1. PICK action \in Actions :
          Select("layer", NewRow(Key(NoFill, Head(todo), action), NoFill, NoFill))
        BY <1>6 DEF SelectSignal
  <2>2. Head(todo) \in Signals /\ Tail(todo) \in Seq(Signals)  BY <1>2, <1>6 DEF SelectSignal, StepsFit
  <2>3. PICK signal \in Signals : signal = Head(todo)  BY <2>2
  <2>4. NewRow(Key(NoFill, signal, action), NoFill, NoFill) \in Row  BY NewRowTyped
  <2>5. /\ upserting' \in [{"layer", "bot"} -> {<<>>} \cup (Row \X (Row \cup {NoRow}))]
        /\ upserting'["layer"] # <<>>
        BY <2>1, <2>3, <2>4, SelectTyped
  <2>6. pc' = "record" /\ todo' \in Seq(Signals) /\ UNCHANGED <<target, touched>>
        BY <1>6, <2>2 DEF SelectSignal, Goto
  <2>7. QED  BY <1>3, <2>5, <2>6 DEF ListedIn
<1>7. CASE RecordSignal
  <2>1. CASE Abort  BY <2>1, AbortFits
  <2>2. CASE Write("layer") /\ Goto("signal", todo) /\ UNCHANGED <<target, touched>>
    <3>1. upserting' \in [{"layer", "bot"} -> {<<>>} \cup (Row \X (Row \cup {NoRow}))]
          BY <2>2, WrittenTyped DEF Write
    <3>2. pc' = "signal" /\ todo' \in Seq(Signals)  BY <1>2, <1>7, <2>2 DEF RecordSignal, Goto
    <3>3. QED  BY <1>3, <2>2, <3>1, <3>2 DEF ListedIn
  <2>3. QED  BY <1>7, <2>1, <2>2 DEF RecordSignal
<1>8. QED  BY <1>4, <1>5, <1>6, <1>7

\* The steps through the trades.
LEMMA TradeStepsFit ==
    ASSUME TypeOK, StepsFit, LedgerInv, Keeps, Load \/ Find
    PROVE  CycleInv'
<1>1. UNCHANGED touched /\ Known(touched)  BY StillKnown DEF StepsFit, Load, Find
<1>2. CASE Load
  <2>1. PICK n : n = shown'  OBVIOUS
  <2>2. n \in 0..Len(History) /\ Len(History) \in Nat
        BY <1>2, <2>1, LearningAssumption DEF LearningAssumption, Load, TypeOK
  <2>3. PICK trades \in Seq(ClosedTrade) : trades = Snapshot(n)  BY <2>2, SnapshotTyped
  <2> DEFINE fills == [i \in DOMAIN trades |-> trades[i].fill]
  <2>4. fills \in Seq(Fills)
    <3>1. \A i \in 1..Len(trades) : trades[i].fill \in Fills
      <4>1. \A t \in ClosedTrade : t.fill \in Fills  BY DEF ClosedTrade
      <4>2. \A i \in 1..Len(trades) : trades[i] \in ClosedTrade  OBVIOUS
      <4>3. QED  BY <4>1, <4>2
    <3>2. DOMAIN trades = 1..Len(trades) /\ Len(trades) \in Nat  OBVIOUS
    <3>3. QED  BY <3>1, <3>2
  <2> HIDE DEF fills
  <2>5. Reverse(fills) \in Seq(Fills)
    <3>1. \A i \in 1..Len(fills) : fills[(Len(fills) - i) + 1] \in Fills  BY <2>4
    <3>2. Len(fills) \in Nat  BY <2>4
    <3>3. QED  BY <3>1, <3>2 DEF Reverse
  <2>6. pc' = "find" /\ todo' = Reverse(fills) /\ UNCHANGED <<target, touched, upserting>>
        BY <1>2, <2>1, <2>3 DEF Load, Goto, fills
  <2>7. CycleTyped'  BY <2>5, <2>6 DEF CycleTyped, TypeOK, Phases, ListedIn
  <2>8. StepsFit'  BY <1>1, <2>6 DEF StepsFit, Known, Stored
  <2>9. QED  BY <2>7, <2>8 DEF CycleInv
<1>3. CASE Find
  <2>1. todo \in Seq(Fills)  BY <1>3 DEF Find, TypeOK, ListedIn
  <2>2. CASE todo = <<>> /\ Goto("ensure", touched) /\ UNCHANGED <<target, upserting>>
    <3>1. CycleTyped'  BY <1>1, <2>2 DEF Goto, CycleTyped, TypeOK, Phases, ListedIn
    <3>2. StepsFit'  BY <1>1, <2>2 DEF Goto, StepsFit, Known, Stored
    <3>3. QED  BY <3>1, <3>2 DEF CycleInv
  <2>3. ASSUME NEW t \in Range(History), t.fill = Head(todo), todo # <<>>,
               Existing(t) # NoRow, target' = Existing(t), Goto("attach", todo), UNCHANGED upserting
        PROVE  CycleInv'
    <3>1. LedgerTyped  BY DEF TypeOK, LedgerTyped
    <3>2. t \in ClosedTrade  BY LearningAssumption DEF LearningAssumption, Range
    <3>3. PICK e : e = Existing(t)  OBVIOUS
    <3>4. e \in Rows /\ e \in Row /\ e # NoRow /\ Stored(e.key)
          BY <2>3, <3>1, <3>2, <3>3, ExistingIs, RowOfKey DEF Stored
    <3>5. \E r \in Rows' : r.key = e.key  BY <3>4 DEF Keeps
    <3>6. pc' = "attach" /\ todo' = todo /\ target' = e  BY <2>3, <3>3 DEF Goto
    <3>7. CycleTyped'  BY <1>1, <2>1, <2>3, <3>4, <3>6 DEF CycleTyped, TypeOK, Phases, ListedIn
    <3>8. StepsFit'  BY <1>1, <2>3, <3>4, <3>5, <3>6 DEF StepsFit, Known, Stored
    <3>9. QED  BY <3>7, <3>8 DEF CycleInv
  <2>4. ASSUME NEW t \in Range(History), t.fill = Head(todo), todo # <<>>,
               Existing(t) = NoRow, UNCHANGED target, Goto("import", todo),
               Select("layer", NewRow(Key(t.fill, t.signal, t.side), t.fill, t.fill))
        PROVE  CycleInv'
    <3>1. t \in ClosedTrade  BY LearningAssumption DEF LearningAssumption, Range
    <3>2. t.fill \in Fills /\ t.signal \in Signals \cup {NoSignal} /\ t.side \in Actions
          BY <3>1 DEF ClosedTrade
    <3>3. PICK f \in Fills, s \in Signals \cup {NoSignal}, a \in Actions :
            f = t.fill /\ s = t.signal /\ a = t.side
          BY <3>2
    <3>4. NewRow(Key(f, s, a), f, f) \in Row  BY NewRowTyped
    <3>5. /\ upserting' \in [{"layer", "bot"} -> {<<>>} \cup (Row \X (Row \cup {NoRow}))]
          /\ upserting'["layer"] # <<>>
          BY <2>4, <3>3, <3>4, SelectTyped
    <3>6. pc' = "import" /\ todo' = todo  BY <2>4 DEF Goto
    <3>7. CycleTyped'  BY <1>1, <2>1, <2>4, <3>5, <3>6 DEF CycleTyped, TypeOK, Phases, ListedIn
    <3>8. StepsFit'  BY <1>1, <2>4, <3>5, <3>6 DEF StepsFit, Known, Stored
    <3>9. QED  BY <3>7, <3>8 DEF CycleInv
  <2>5. QED  BY <1>3, <2>2, <2>3, <2>4 DEF Find
<1>4. QED  BY <1>2, <1>3

\* A decision that is touched is one of the ledger.
LEMMA TouchedFits ==
    ASSUME TypeOK, StepsFit, Keeps, NEW key \in Keys, \E r \in Rows' : r.key = key,
           touched' = Append(touched, key), pc' = "find", todo # <<>>, todo \in Seq(Fills),
           todo' = Tail(todo), target' \in Row \cup {NoRow},
           upserting' \in [{"layer", "bot"} -> {<<>>} \cup (Row \X (Row \cup {NoRow}))]
    PROVE  CycleInv'
<1>1. touched \in Seq(Keys) /\ Known(touched)  BY StillKnown DEF TypeOK, StepsFit
<1>2. touched' \in Seq(Keys) /\ Known(touched')
  <2>1. PICK list \in Seq(Keys) : list = touched  BY <1>1
  <2>2. touched' = Append(list, key) /\ Append(list, key) \in Seq(Keys)  BY <2>1
  <2>3. \A i \in DOMAIN Append(list, key) :
          Append(list, key)[i] = key \/ (i \in DOMAIN list /\ Append(list, key)[i] = list[i])
        BY <2>1
  <2>4. QED  BY <1>1, <2>1, <2>2, <2>3 DEF Known
<1>3. Tail(todo) \in Seq(Fills)  BY Rest
<1>4. CycleTyped'  BY <1>2, <1>3 DEF CycleTyped, Phases, ListedIn
<1>5. StepsFit'  BY <1>2 DEF StepsFit, Known, Stored
<1>6. QED  BY <1>4, <1>5 DEF CycleInv

LEMMA LinkStepsFit ==
    ASSUME TypeOK, StepsFit, LedgerInv, Attach \/ Import
    PROVE  CycleInv'
<1>1. todo \in Seq(Fills) /\ todo # <<>> /\ pc' = "find" /\ todo' = Tail(todo)
      BY DEF Attach, Import, Goto, TypeOK, ListedIn, StepsFit
<1>2. CASE Attach
  <2>1. Keeps /\ \E r \in Rows' : r.key = target.key  BY <1>2, AttachKeeps
  <2>2. target.key \in Keys
    <3>1. target \in Row  BY <1>2 DEF Attach, StepsFit, TypeOK
    <3>2. QED  BY <3>1 DEF Row
  <2>3. PICK key \in Keys : key = target.key  BY <2>2
  <2>4. touched' = Append(touched, key) /\ target' = NoRow /\ UNCHANGED upserting
        BY <1>2, <2>3 DEF Attach
  <2>5. QED  BY <1>1, <2>1, <2>3, <2>4, TouchedFits DEF TypeOK
<1>3. CASE Import
  <2>1. Keeps /\ \E r \in Rows' : r.key = upserting["layer"][1].key  BY <1>3, ImportKeeps
  <2>2. upserting["layer"][1].key \in Keys
    <3>1. upserting["layer"] # <<>>  BY <1>3 DEF Import, StepsFit
    <3>2. upserting["layer"][1] \in Row  BY <3>1, Upserting
    <3>3. QED  BY <3>2 DEF Row
  <2>3. PICK key \in Keys : key = upserting["layer"][1].key  BY <2>2
  <2>4. /\ touched' = Append(touched, key) /\ UNCHANGED target
        /\ upserting' = [upserting EXCEPT !["layer"] = <<>>]
        BY <1>3, <2>3 DEF Import, Write
  <2>5. upserting' \in [{"layer", "bot"} -> {<<>>} \cup (Row \X (Row \cup {NoRow}))]
        BY <2>4, WrittenTyped
  <2>6. target' \in Row \cup {NoRow}  BY <2>4 DEF TypeOK
  <2>7. QED  BY <1>1, <2>1, <2>3, <2>4, <2>5, <2>6, TouchedFits
<1>4. QED  BY <1>2, <1>3

\* The steps through the decisions.
LEMMA DecisionStepsFit ==
    ASSUME TypeOK, StepsFit, Keeps,
           EnsureEpisode \/ OpenEpisode \/ CloseEpisode \/ Score \/ AttachAudit
    PROVE  CycleInv'
<1>1. /\ UNCHANGED <<touched, upserting>> /\ Known(touched)
      /\ todo \in Seq(Keys) /\ \A i \in DOMAIN todo : Stored(todo[i])
      BY StillKnown DEF StepsFit, EnsureEpisode, OpenEpisode, CloseEpisode, Score, AttachAudit,
                        TypeOK, ListedIn
<1>2. Known(todo)  BY <1>1, StillKnown
<1>3. todo # <<>> => Tail(todo) \in Seq(Keys) /\ Known(Tail(todo)) /\ Stored(Head(todo))
  <2>1. ASSUME todo # <<>>
        PROVE  Tail(todo) \in Seq(Keys) /\ Known(Tail(todo)) /\ Stored(Head(todo))
        BY <1>1, <1>2, <2>1, Rest DEF Known
  <2>2. QED  BY <2>1
<1>4. CASE pc' \in {"open", "audit"} /\ todo # <<>> /\ todo' = todo /\ target' = Get(Head(todo))
  <2>1. LedgerTyped  BY DEF TypeOK, LedgerTyped
  <2>2. PICK t : t = Get(Head(todo))  OBVIOUS
  <2>3. t \in Row /\ t # NoRow /\ t.key = Head(todo)  BY <1>3, <1>4, <2>1, <2>2, GetIs
  <2>4. \E r \in Rows' : r.key = t.key  BY <1>3, <1>4, <2>3 DEF Keeps
  <2>5. CycleTyped'  BY <1>1, <1>4, <2>2, <2>3 DEF CycleTyped, TypeOK, Phases, ListedIn
  <2>6. StepsFit'  BY <1>1, <1>2, <1>4, <2>2, <2>3, <2>4 DEF StepsFit, Known, Stored
  <2>7. QED  BY <2>5, <2>6 DEF CycleInv
<1>5. CASE pc' \in {"ensure", "score"} /\ todo # <<>> /\ todo' = Tail(todo) /\ target' = NoRow
  <2>1. CycleTyped'  BY <1>1, <1>3, <1>5 DEF CycleTyped, TypeOK, Phases, ListedIn
  <2>2. StepsFit'  BY <1>1, <1>3, <1>5 DEF StepsFit, Known, Stored
  <2>3. QED  BY <2>1, <2>2 DEF CycleInv
<1>6. CASE pc' = "list" /\ todo' = <<>> /\ UNCHANGED target
  <2>1. CycleTyped'  BY <1>1, <1>6 DEF CycleTyped, TypeOK, Phases, ListedIn
  <2>2. StepsFit'  BY <1>1, <1>6 DEF StepsFit, Known, Stored
  <2>3. QED  BY <2>1, <2>2 DEF CycleInv
<1>7. CASE pc' = "pipeline" /\ todo' = SetToSeq(Rules) /\ UNCHANGED target
  <2>1. SetToSeq(Rules) \in Seq(Rules)  BY FiniteRules, SetToSeqType
  <2>2. CycleTyped'  BY <1>1, <1>7, <2>1 DEF CycleTyped, TypeOK, Phases, ListedIn
  <2>3. StepsFit'  BY <1>1, <1>7 DEF StepsFit, Known, Stored
  <2>4. QED  BY <2>2, <2>3 DEF CycleInv
<1>8. CASE EnsureEpisode  BY <1>4, <1>6, <1>8 DEF EnsureEpisode, Goto
<1>9. CASE Score  BY <1>4, <1>7, <1>9 DEF Score, Goto
<1>10. CASE CloseEpisode \/ AttachAudit
  <2>1. todo # <<>>  BY <1>10 DEF CloseEpisode, AttachAudit, StepsFit
  <2>2. QED  BY <1>5, <1>10, <2>1 DEF CloseEpisode, AttachAudit, Goto
<1>11. CASE OpenEpisode
  <2>1. pc' = "close" /\ todo' = todo /\ todo # <<>> /\ UNCHANGED target
        BY <1>11 DEF OpenEpisode, Goto, StepsFit
  <2>2. target \in Row /\ target # NoRow /\ Stored(target.key)
        BY <1>11 DEF OpenEpisode, StepsFit, TypeOK
  <2>3. \E r \in Rows' : r.key = target.key  BY <2>2 DEF Keeps
  <2>4. CycleTyped'  BY <1>1, <2>1, <2>2 DEF CycleTyped, TypeOK, Phases, ListedIn
  <2>5. StepsFit'  BY <1>1, <1>2, <2>1, <2>2, <2>3 DEF StepsFit, Known, Stored
  <2>6. QED  BY <2>4, <2>5 DEF CycleInv
<1>12. QED  BY <1>8, <1>9, <1>10, <1>11

\* A listing has rows of the ledger.
LEMMA ListedRows ==
    ASSUME TypeOK, NEW listed, listed = SubSeq(ledger, 1, Min({ListLimit, Len(ledger)}))
    PROVE  listed \in Seq(Row) /\ Range(listed) \subseteq Rows
<1>1. ledger \in Seq(Row) /\ ListLimit \in Nat /\ Len(ledger) \in Nat
      BY LearningAssumption DEF LearningAssumption, TypeOK
<1>2. PICK n \in Nat : n = Len(ledger)  BY <1>1
<1>3. \E x \in {ListLimit, n} : \A y \in {ListLimit, n} : x <= y  BY <1>1
<1>4. PICK k : k = Min({ListLimit, n})  OBVIOUS
<1>5. k \in {ListLimit, n} /\ \A y \in {ListLimit, n} : k <= y  BY <1>3, <1>4 DEF Min
<1>6. k \in Nat /\ k <= Len(ledger) /\ listed = SubSeq(ledger, 1, k)
      BY <1>1, <1>2, <1>4, <1>5
<1>7. PICK list \in Seq(Row) : list = ledger  BY <1>1
<1>8. /\ SubSeq(list, 1, k) \in Seq(Row)
      /\ \A i \in DOMAIN SubSeq(list, 1, k) : SubSeq(list, 1, k)[i] = list[i] /\ i \in DOMAIN list
  <2>1. \A i \in 1..k : i \in 1..Len(list)  BY <1>2, <1>6, <1>7
  <2>2. SubSeq(list, 1, k) \in Seq(Row)  BY <1>6, <1>7, <2>1
  <2>3. DOMAIN SubSeq(list, 1, k) = 1..k /\ \A i \in 1..k : SubSeq(list, 1, k)[i] = list[i]
        BY <1>6, <1>7, <2>1
  <2>4. QED  BY <2>1, <2>2, <2>3
<1>9. QED  BY <1>6, <1>7, <1>8 DEF Range, Rows

\* The decisions that have a trade are listed.
LEMMA ListFits ==
    ASSUME TypeOK, StepsFit, Keeps, List
    PROVE  CycleInv'
<1>0. PICK listed : listed = SubSeq(ledger, 1, Min({ListLimit, Len(ledger)}))  OBVIOUS
<1> DEFINE some == {r \in Range(listed) : r.trade # NoFill}
           traded == Only(listed, some)
           keys == [i \in DOMAIN traded |-> traded[i].key]
<1>1. traded \in Seq(Row \cap some) /\ some \subseteq Rows
  <2>1. listed \in Seq(Row) /\ Range(listed) \subseteq Rows  BY <1>0, ListedRows
  <2>2. QED  BY <2>1, OnlyKeeps
<1>2. \A i \in DOMAIN traded : traded[i] \in Row /\ traded[i] \in Rows
  <2> HIDE DEF traded
  <2>1. \A i \in DOMAIN traded : traded[i] \in Row \cap some  BY <1>1
  <2>2. QED  BY <1>1, <2>1
<1>3. DOMAIN traded = 1..Len(traded) /\ Len(traded) \in Nat
  <2> HIDE DEF traded, some
  <2>1. QED  BY <1>1
<1> HIDE DEF traded
<1>4. keys \in Seq(Keys) /\ \A i \in DOMAIN keys : Stored(keys[i])
  <2>1. \A i \in 1..Len(traded) : traded[i].key \in Keys  BY <1>2, <1>3 DEF Row
  <2>2. keys \in Seq(Keys)  BY <1>3, <2>1
  <2>3. \A i \in DOMAIN keys : keys[i] = traded[i].key /\ traded[i] \in Rows  BY <1>2
  <2>4. QED  BY <2>2, <2>3 DEF Stored
<1>5. pc' = "score" /\ todo' = keys /\ touched' = <<>> /\ UNCHANGED <<target, upserting>>
      BY <1>0 DEF List, Goto, traded
<1> HIDE DEF keys
<1>6. Known(keys)  BY <1>4, StillKnown
<1>7. CycleTyped'  BY <1>4, <1>5 DEF CycleTyped, TypeOK, Phases, ListedIn
<1>8. StepsFit'  BY <1>5, <1>6 DEF StepsFit, Known, Stored
<1>9. QED  BY <1>7, <1>8 DEF CycleInv

\* The steps through the rules.
LEMMA RuleStepsFit ==
    ASSUME TypeOK, StepsFit, Keeps, SaveCandidate \/ Post \/ SaveNomination
    PROVE  CycleInv'
<1>1. CASE Abort  BY <1>1, AbortFits
<1>2. CASE ~Abort
  <2>1. UNCHANGED <<target, touched, upserting>> /\ Known(touched)
        BY <1>2, StillKnown DEF StepsFit, SaveCandidate, Post, SaveNomination
  <2>2. todo # <<>> => todo \in Seq(Rules) /\ Tail(todo) \in Seq(Rules)
        BY RuleAt DEF SaveCandidate, Post, SaveNomination
  <2>3. pc' \in {"pipeline", "post", "save"} /\ todo' \in Seq(Rules) /\ (pc' = "save" => todo' # <<>>)
    <3>1. CASE SaveCandidate
      <4> DEFINE chosen == {rule \in Rules : /\ candidates[rule] # NoRow
                                             /\ candidates[rule].stage = "SHADOW"
                                             /\ ~candidates[rule].nominated}
      <4>1. SetToSeq(chosen) \in Seq(Rules)
        <5>1. IsFiniteSet(chosen)  BY FiniteRules, FS_Subset
        <5>2. SetToSeq(chosen) \in Seq(chosen)  BY <5>1, SetToSeqType
        <5>3. \A i \in 1..Len(SetToSeq(chosen)) : SetToSeq(chosen)[i] \in Rules  BY <5>2
        <5> HIDE DEF chosen
        <5>4. QED  BY <5>2, <5>3, SeqOfElements
      <4>2. CASE todo = <<>>  BY <3>1, <4>1, <4>2 DEF SaveCandidate, Goto
      <4>3. CASE todo # <<>>  BY <2>2, <3>1, <4>3 DEF SaveCandidate, Goto
      <4>4. QED  BY <4>2, <4>3
    <3>2. CASE Post  BY <1>2, <2>2, <3>2 DEF Post, Goto
    <3>3. CASE SaveNomination  BY <2>2, <3>3 DEF SaveNomination, StepsFit, Goto
    <3>4. QED  BY <3>1, <3>2, <3>3
  <2>4. CycleTyped'  BY <2>1, <2>3 DEF CycleTyped, TypeOK, Phases, ListedIn
  <2>5. StepsFit'  BY <2>1, <2>3 DEF StepsFit, Known, Stored
  <2>6. QED  BY <2>4, <2>5 DEF CycleInv
<1>3. QED  BY <1>1, <1>2

\* The bot leaves the cycle where it is.
LEMMA BotStepsFit ==
    ASSUME TypeOK, StepsFit, Keeps, BotSelect \/ BotWrite
    PROVE  CycleInv'
<1>1. UNCHANGED <<pc, todo, target, touched>>  BY DEF BotSelect, BotWrite, layer
<1>2. /\ upserting' \in [{"layer", "bot"} -> {<<>>} \cup (Row \X (Row \cup {NoRow}))]
      /\ upserting'["layer"] = upserting["layer"]
  <2>1. CASE BotSelect
    <3>1. PICK signal \in Signals, action \in Actions, fill \in GatewayFills \cup {NoFill} :
            Select("bot", NewRow(Key(NoFill, signal, action), fill, NoFill))
          BY <2>1 DEF BotSelect
    <3>2. NewRow(Key(NoFill, signal, action), fill, NoFill) \in Row  BY NewRowTyped
    <3>3. upserting' \in [{"layer", "bot"} -> {<<>>} \cup (Row \X (Row \cup {NoRow}))]
          BY <3>1, <3>2, SelectTyped
    <3>4. upserting'["layer"] = upserting["layer"]  BY <3>1, OtherProcess DEF Select
    <3>5. QED  BY <3>3, <3>4
  <2>2. CASE BotWrite
    <3>1. upserting' = [upserting EXCEPT !["bot"] = <<>>]  BY <2>2 DEF BotWrite, Write
    <3>2. QED  BY <3>1, WrittenTyped, OtherProcess
  <2>3. QED  BY <2>1, <2>2
<1>3. CycleTyped'  BY <1>1, <1>2 DEF CycleTyped, TypeOK
<1>4. \A key : Stored(key) => \E r \in Rows' : r.key = key  BY DEF Keeps
<1>5. StepsFit'
  <2>1. Known(touched)  BY StillKnown DEF StepsFit
  <2>2. pc \in {"ensure", "open", "close", "score", "audit"} => Known(todo)
        BY StillKnown DEF StepsFit
  <2>3. pc \in {"attach", "open", "close", "audit"} => target # NoRow /\ \E r \in Rows' : r.key = target.key
        BY <1>4 DEF StepsFit
  <2>4. QED  BY <1>1, <1>2, <2>1, <2>2, <2>3 DEF StepsFit, Known, Stored
<1>6. QED  BY <1>3, <1>5 DEF CycleInv

\* Every step keeps the cycle.
LEMMA NextCycle ==
    ASSUME TypeOK, StepsFit, LedgerInv, [Next]_vars
    PROVE  CycleInv'
<1>1. Keeps  BY NextLedger
<1>2. CASE UNCHANGED vars
  <2>1. UNCHANGED <<pc, todo, target, touched, upserting, ledger>>  BY <1>2 DEF vars, store, layer
  <2>2. Rows' = Rows  BY <2>1 DEF Rows
  <2>3. CycleTyped'  BY <2>1 DEF CycleTyped, TypeOK
  <2>4. StepsFit'  BY <2>1, <2>2 DEF StepsFit, Stored
  <2>5. QED  BY <2>3, <2>4 DEF CycleInv
<1>3. Fault => Abort  BY DEF Fault
<1>4. QED
      BY <1>1, <1>2, <1>3, AbortFits, SignalStepsFit, TradeStepsFit, LinkStepsFit, DecisionStepsFit,
         ListFits, RuleStepsFit, BotStepsFit DEF Next, Layer

-----------------------------------------------------------------------------
(* The theorems.                                                           *)

\* At first there is nothing.
LEMMA InitIInv ==
    ASSUME Init
    PROVE  IInv
<1>1. LearningAssumption  BY LearningAssumption
<1>2. Rows = {}  BY DEF Init, Rows, Range
<1>3. TypeOK
  <2>1. Len(History) \in Nat /\ Started \in 0..Len(History) /\ MaxWrites \in Nat /\ MaxFaults \in Nat
        BY <1>1 DEF LearningAssumption
  <2>2. <<>> \in Seq(Row) /\ <<>> \in Seq(Keys) /\ \A S : <<>> \in Seq(S)  OBVIOUS
  <2>3. QED  BY <2>1, <2>2 DEF Init, TypeOK, Phases
<1>4. StepsFit  BY DEF Init, StepsFit
<1>5. LedgerInv
      BY <1>2 DEF Init, LedgerInv, RowsFit, BotFits, SignalFits, TradeFits, OneKeyPerFill
<1>6. OneEpisodePerDecision  BY DEF Init, OneEpisodePerDecision
<1>7. CandidatesFit /\ DraftsAreEarned  BY DEF Init, CandidatesFit, DraftsAreEarned, InShadow
<1>8. QED  BY <1>3, <1>4, <1>5, <1>6, <1>7 DEF IInv

\* The number of rows that the bot wrote, and of faults, stays bounded.
LEMMA NextBounded ==
    ASSUME TypeOK, [Next]_vars
    PROVE  writes' \in 0..MaxWrites /\ faults' \in 0..MaxFaults
<1>1. MaxWrites \in Nat /\ MaxFaults \in Nat  BY LearningAssumption DEF LearningAssumption
<1>2. writes' = writes \/ (writes < MaxWrites /\ writes' = writes + 1)
      BY DEF Next, Layer, Fault, BotSelect, BotWrite, vars
<1>3. faults' = faults \/ (faults < MaxFaults /\ faults' = faults + 1)
      BY DEF Next, Layer, Fault, BotSelect, BotWrite, vars
<1>4. QED  BY <1>1, <1>2, <1>3 DEF TypeOK

\* The ledger, the cycle, the episodes and the candidates are, together, inductive.
THEOREM Invariance == Spec => []IInv
<1>1. Init => IInv  BY InitIInv
<1>2. IInv /\ [Next]_vars => IInv'
  <2> SUFFICES ASSUME IInv, [Next]_vars
               PROVE  IInv'
    OBVIOUS
  <2>1. TypeOK /\ StepsFit /\ LedgerInv /\ OneEpisodePerDecision  BY DEF IInv
  <2>2. LearnedInv  BY DEF IInv, LearnedInv, CandidatesTyped, TypeOK
  <2>3. LedgerTyped' /\ LedgerInv'  BY <2>1, NextLedger
  <2>4. CycleInv'  BY <2>1, NextCycle
  <2>5. EpisodesTyped' /\ OneEpisodePerDecision'  BY <2>1, NextEpisodes
  <2>6. LearnedInv'  BY <2>1, <2>2, NextLearned
  <2>7. writes' \in 0..MaxWrites /\ faults' \in 0..MaxFaults  BY <2>1, NextBounded
  <2>8. TypeOK'
        BY <2>3, <2>4, <2>5, <2>6, <2>7
           DEF TypeOK, LedgerTyped, CycleInv, CycleTyped, EpisodesTyped, LearnedInv, CandidatesTyped
  <2>9. QED  BY <2>3, <2>4, <2>5, <2>6, <2>8 DEF IInv, CycleInv, LearnedInv
<1>3. QED  BY <1>1, <1>2, PTL DEF Spec

\* What is kept, and the step of the cycle, have their types.
THEOREM Typing == Spec => []TypeOK
<1>1. IInv => TypeOK  BY DEF IInv
<1>2. QED  BY <1>1, Invariance, PTL

\* No fill is linked to two decisions, whatever the bot writes between a look at the
\* ledger and the row that follows from it, and whichever cycles die.
THEOREM TradesBelongToOne == Spec => []OneDecisionPerFill
<1>1. IInv => OneDecisionPerFill
  <2> SUFFICES ASSUME IInv, NEW i \in DOMAIN ledger, NEW j \in DOMAIN ledger,
                      ledger[i].fill = ledger[j].fill, ledger[i].fill # NoFill
               PROVE  i = j
    BY DEF OneDecisionPerFill
  <2>1. ledger[i] \in Rows /\ ledger[j] \in Rows  BY DEF Rows, Range
  <2>2. ledger[i].key = ledger[j].key  BY <2>1 DEF IInv, LedgerInv, OneKeyPerFill
  <2>3. QED  BY <2>2 DEF IInv, TypeOK
<1>2. QED  BY <1>1, Invariance, PTL

\* A decision has at most one episode, however often its trade is ingested again.
THEOREM EpisodesAreSingle == Spec => []OneEpisodePerDecision
<1>1. IInv => OneEpisodePerDecision  BY DEF IInv
<1>2. QED  BY <1>1, Invariance, PTL

\* A rule is proposed to strategy-evolution only if it would have earned something on six
\* or more trades of one snapshot and on the last third of them, whatever the trades are.
THEOREM ProposalsEarn == Spec => []DraftsAreEarned
<1>1. IInv => DraftsAreEarned  BY DEF IInv
<1>2. QED  BY <1>1, Invariance, PTL
-----------------------------------------------------------------------------
(* What a replay can find out.                                             *)

\* The cut leaves at least two of six or more trades for the test: the answer of
\* walk_forward to a test set that is too small is never given.
THEOREM TestSetSuffices ==
    \A trades : Len(trades) \in Nat => (Backtested(trades) <=> Len(trades) >= 6)
<1> SUFFICES ASSUME NEW n \in Nat, n >= 6
             PROVE  n - Cut(n) >= 2
    BY DEF Backtested
<1> DEFINE part == (7 * n) \div 10
<1>1. part \in Int /\ part <= n - 2  OBVIOUS
<1> HIDE DEF part
<1>2. \E c \in {3, part} : \A y \in {3, part} : c >= y
  <2>1. CASE part <= 3  BY <1>1, <2>1
  <2>2. CASE ~(part <= 3)  BY <1>1, <2>2
  <2>3. QED  BY <2>1, <2>2
<1>3. Max({3, part}) \in {3, part}  BY <1>2 DEF Max
<1>4. Cut(n) = Max({3, part})  BY DEF Cut, part
<1>5. QED  BY <1>1, <1>3, <1>4

\* A trade that lost has lost a multiple of its risk.
Agreeing == {t \in ClosedTrade : t.r # NoR /\ t.r < 0 => t.pnl < 0}

\* A loss that is scaled to a smaller one is smaller.
LEMMA Smaller ==
    ASSUME NEW p \in Int, NEW c \in Int, NEW r \in Int, p < 0, c < 0, r < c
    PROVE  -((p * c) \div (-r)) > p
<1>1. PICK n \in Int : n = p * c  OBVIOUS
<1>2. PICK k \in Int : k = (-p) * (-r)  OBVIOUS
<1>3. n < k
  <2>1. k - n = (-p) * (c - r)  BY <1>1, <1>2
  <2>2. \A x, y \in Int : x > 0 /\ y > 0 => x * y > 0  OBVIOUS
  <2>3. (-p) * (c - r) > 0  BY <2>2
  <2>4. QED  BY <1>1, <1>2, <2>1, <2>3
<1>4. n \div (-r) < -p
  <2>1. PICK q \in Int : q = n \div (-r)  OBVIOUS
  <2>2. q * (-r) <= n  BY <2>1
  <2>3. SUFFICES ASSUME q >= -p
                 PROVE  FALSE
        BY <2>1
  <2>4. \A x, y, z \in Int : x >= y /\ z > 0 => x * z >= y * z  OBVIOUS
  <2>5. q * (-r) >= (-p) * (-r)  BY <2>3, <2>4
  <2>6. q * (-r) \in Int  OBVIOUS
  <2>7. QED  BY <1>2, <1>3, <2>2, <2>5, <2>6
<1>5. n \div (-r) \in Int  OBVIOUS
<1>6. QED  BY <1>1, <1>4, <1>5

\* What a stop does to one trade: nothing, or a gain.
LEMMA StopGains ==
    ASSUME NEW rule \in DOMAIN Cap, NEW t \in Agreeing, t.r # NoR
    PROVE  /\ Replayed(rule, t) - t.pnl \in Nat
           /\ Replayed(rule, t) - t.pnl > 0 <=> Clips(rule, t)
<1>1. t.pnl \in Int /\ t.r \in Int /\ (t.r < 0 => t.pnl < 0)  BY DEF Agreeing, ClosedTrade
<1>2. Cap[rule] \in Int /\ Cap[rule] < 0  BY DEF Cap
<1>3. CASE Clips(rule, t)
  <2>1. rule # "skip-hold-48h" /\ rule # "skip-fee-drag"  BY DEF Cap
  <2>2. t.r < Cap[rule]  BY <1>3, <2>1 DEF Clips
  <2>3. PICK p \in Int, c \in Int, r \in Int : p = t.pnl /\ c = Cap[rule] /\ r = t.r
        BY <1>1, <1>2
  <2>4. p < 0 /\ c < 0 /\ r < c /\ -r \in Int /\ -r > 0  BY <1>1, <1>2, <2>2, <2>3
  <2>5. -((p * c) \div (-r)) > p /\ -((p * c) \div (-r)) \in Int  BY <2>4, Smaller, Scaled
  <2>6. PICK x \in Int : x = -((p * c) \div (-r))  BY <2>5
  <2>7. Replayed(rule, t) = x  BY <1>3, <2>3, <2>6 DEF Replayed
  <2>8. x > p  BY <2>5, <2>6
  <2>9. QED  BY <1>3, <2>3, <2>7, <2>8
<1>4. CASE ~Clips(rule, t)
      BY <1>1, <1>4 DEF Replayed
<1>5. QED  BY <1>3, <1>4

\* A stop pays on a list of trades if it clips one of them.
LEMMA StopPays ==
    ASSUME NEW rule \in DOMAIN Cap, NEW rows \in Seq(Agreeing), \A i \in 1..Len(rows) : rows[i].r # NoR
    PROVE  /\ Delta(rule, rows) \in Nat
           /\ Delta(rule, rows) > 0 <=> Clipped(rule, rows)
<1> DEFINE gains == [i \in DOMAIN rows |-> Replayed(rule, rows[i]) - rows[i].pnl]
<1>1. DOMAIN rows = 1..Len(rows) /\ Len(rows) \in Nat  OBVIOUS
<1>2. ASSUME NEW i \in 1..Len(rows)
      PROVE  gains[i] \in Nat /\ (gains[i] > 0 <=> Clips(rule, rows[i]))
  <2>1. rows[i] \in Agreeing /\ rows[i].r # NoR  BY <1>1
  <2>2. gains[i] = Replayed(rule, rows[i]) - rows[i].pnl  BY <1>1
  <2> HIDE DEF gains
  <2>3. QED  BY <2>1, <2>2, StopGains
<1>3. gains \in [1..Len(rows) -> Nat]  BY <1>1, <1>2
<1>4. gains \in Seq(Nat) /\ Len(gains) = Len(rows)  BY <1>1, <1>3
<1> HIDE DEF gains
<1>5. Total(gains) \in Nat /\ (Total(gains) > 0 <=> \E i \in 1..Len(rows) : gains[i] > 0)
      BY <1>4, TotalPositive
<1>6. Delta(rule, rows) = Total(gains)  BY DEF Delta, gains
<1>7. Clipped(rule, rows) <=> \E i \in 1..Len(rows) : Clips(rule, rows[i])
      BY <1>1 DEF Clipped
<1>8. QED  BY <1>2, <1>5, <1>6, <1>7

\* The limit of the walk-forward test: no amount enters into the stage of a stop.  On
\* trades whose result and multiple of the risk have the same sign, it is decided by
\* how many trades there are and by which of them lost more than the stop allows.
THEOREM StopsAreCounted ==
    ASSUME NEW rule \in DOMAIN Cap, NEW trades \in Seq(Agreeing)
    PROVE  LET rows == Usable(rule, trades)
               tested == SubSeq(rows, Cut(Len(rows)) + 1, Len(rows)) IN
           StageFor(rule, trades) = IF ~Clipped(rule, rows) THEN "SUGGESTION"
                                    ELSE IF Len(rows) < 6 THEN "REPLAY"
                                    ELSE IF Clipped(rule, tested) THEN "SHADOW"
                                    ELSE "BACKTEST"
<1> DEFINE rows == Usable(rule, trades)
           tested == SubSeq(rows, Cut(Len(rows)) + 1, Len(rows))
           some == {t \in Range(trades) : t.r # NoR}
<1>1. rows \in Seq(Agreeing) /\ \A i \in 1..Len(rows) : rows[i].r # NoR
  <2>1. Only(trades, some) \in Seq(Agreeing \cap some)  BY OnlyKeeps
  <2>2. rows = Only(trades, some)  BY DEF Usable
  <2> HIDE DEF rows, some
  <2>3. rows \in Seq(Agreeing \cap some)  BY <2>1, <2>2
  <2>4. \A i \in 1..Len(rows) : rows[i] \in Agreeing /\ rows[i] \in some  BY <2>3
  <2>5. rows \in Seq(Agreeing)  BY <2>3, <2>4, SeqOfElements
  <2>6. QED  BY <2>4, <2>5 DEF some
<1> HIDE DEF rows
<1>2. Len(rows) \in Nat  BY <1>1
<1>3. Delta(rule, rows) \in Nat /\ (Delta(rule, rows) > 0 <=> Clipped(rule, rows))
      BY <1>1, StopPays
<1>4. Backtested(rows) <=> Len(rows) >= 6  BY <1>2, TestSetSuffices
<1>5. ASSUME Len(rows) >= 6
      PROVE  Delta(rule, tested) > 0 <=> Clipped(rule, tested)
  <2>1. PICK c \in Int : c = Cut(Len(rows)) /\ c >= 0 /\ c <= Len(rows)
    <3> DEFINE part == (7 * Len(rows)) \div 10
    <3>1. part \in Int /\ part <= Len(rows) /\ part >= 0  BY <1>2
    <3> HIDE DEF part
    <3>2. \E x \in {3, part} : \A y \in {3, part} : x >= y
      <4>1. CASE part <= 3  BY <3>1, <4>1
      <4>2. CASE ~(part <= 3)  BY <3>1, <4>2
      <4>3. QED  BY <4>1, <4>2
    <3>3. Max({3, part}) \in {3, part}  BY <3>2 DEF Max
    <3>4. Cut(Len(rows)) = Max({3, part})  BY DEF Cut, part
    <3>5. QED  BY <1>2, <1>5, <3>1, <3>3, <3>4
  <2>2. tested = SubSeq(rows, c + 1, Len(rows))  BY <2>1
  <2> HIDE DEF tested
  <2>3. /\ tested \in Seq(Agreeing) /\ Len(tested) = Len(rows) - c
        /\ \A i \in 1..(Len(rows) - c) : tested[i] = rows[c + i]
        BY <1>1, <1>2, <2>1, <2>2
  <2>4. \A i \in 1..Len(tested) : tested[i].r # NoR
        BY <1>1, <1>2, <2>1, <2>3
  <2>5. QED  BY <2>3, <2>4, StopPays
<1>6. TestDelta(rule, rows) = Delta(rule, tested)  BY DEF TestDelta
<1> HIDE DEF tested
<1>7. StageFor(rule, trades) = IF ~Clipped(rule, rows) \/ Delta(rule, rows) <= 0 THEN "SUGGESTION"
                               ELSE IF ~Backtested(rows) THEN "REPLAY"
                               ELSE IF TestDelta(rule, rows) > 0 THEN "SHADOW"
                               ELSE "BACKTEST"
      BY DEF StageFor, rows
<1>8. Len(rows) >= 6 <=> ~(Len(rows) < 6)  BY <1>2
<1>9. Delta(rule, rows) <= 0 <=> ~Clipped(rule, rows)  BY <1>3
<1>10. QED  BY <1>4, <1>5, <1>6, <1>7, <1>8, <1>9 DEF rows, tested

=============================================================================
