------------------------------ MODULE ListProofs ------------------------------
(***************************************************************************)
(* What is proved of lists: what the computations of Lists give, which the *)
(* proofs of other modules cite; and of the two parts of the system that   *)
(* are computations on a list, the reconciliation of an account with the   *)
(* fills of an order, and the audit log.                                   *)
(*                                                                         *)
(* A recursive function is taken apart in two steps: Recursion says that it*)
(* exists, and Induction that what holds at 0 and is handed on from each   *)
(* number to the next holds at all.                                        *)
(***************************************************************************)
EXTENDS AccountReconciliation, AuditChain, Lists, FiniteSetsExt, SequencesExt,
        WellFoundedInduction, NaturalsInduction, FiniteSetTheorems, SequenceTheorems, TLAPS

\* A set of natural numbers that has an element has a least one.
LEMMA Least ==
  ASSUME NEW T \in SUBSET Nat, T # {}
  PROVE  \E x \in T : \A y \in T : x <= y
<1> DEFINE R == {ss \in Nat \X Nat : ss[1] < ss[2]}
<1>1. R = OpToRel(<, Nat)
  BY DEF OpToRel
<1>2. IsWellFoundedOn(R, Nat)
  BY <1>1, NatLessThanWellFounded
<1>3. PICK x \in T : \A y \in T : ~(<<y, x>> \in R)
  <2> HIDE DEF R
  <2> QED
    BY <1>2, WFMin
<1>4. ASSUME NEW y \in T
      PROVE  x <= y
  <2>1. x \in Nat /\ y \in Nat
    OBVIOUS
  <2>2. ~(y < x)
    <3>1. SUFFICES ASSUME y < x
                   PROVE  <<y, x>> \in R
      BY <1>3
    <3>2. QED
      BY <2>1, <3>1
  <2>3. QED
    BY <2>1, <2>2
<1>5. QED
  BY <1>4

\* Induction over the natural numbers, for the set of those that have a property.
LEMMA Induction ==
  ASSUME NEW T \in SUBSET Nat, 0 \in T, \A n \in Nat : n \in T => n + 1 \in T
  PROVE  Nat = T
<1> SUFFICES ASSUME Nat \ T # {}
             PROVE  FALSE
  OBVIOUS
<1>1. PICK x \in Nat \ T : \A y \in Nat \ T : x <= y
  BY Least
<1>2. x # 0 /\ x - 1 \in Nat /\ x - 1 + 1 = x
  BY <1>1
<1>3. x - 1 \in T
  BY <1>1, <1>2
<1>4. QED
  BY <1>1, <1>2, <1>3

\* f starts at base and goes on by step.
Follows(f, base, step, m) == f[0] = base /\ \A n \in 1..m : f[n] = step[<<n, f[n - 1]>>]

\* A function on 0..m is defined by its value at 0 and by a step from each value to
\* the next one.
LEMMA Recursion ==
  ASSUME NEW V, NEW base \in V, NEW step \in [Nat \X V -> V], NEW m \in Nat
  PROVE  \E f \in [0..m -> V] : Follows(f, base, step, m)
<1> DEFINE Has(k) == \E f \in [0..k -> V] : Follows(f, base, step, k)
           T == {k \in Nat : Has(k)}
<1>1. Has(0)
  <2> DEFINE f == [n \in 0..0 |-> base]
  <2>1. f \in [0..0 -> V] /\ Follows(f, base, step, 0)
    BY DEF Follows
  <2>2. QED
    BY <2>1
<1>2. ASSUME NEW k \in Nat, Has(k)
      PROVE  Has(k + 1)
  <2>1. PICK f \in [0..k -> V] : Follows(f, base, step, k)
    BY <1>2
  <2> DEFINE g == [n \in 0..(k + 1) |-> IF n = k + 1 THEN step[<<n, f[k]>>] ELSE f[n]]
  <2>2. g \in [0..(k + 1) -> V]
    <3>1. step[<<k + 1, f[k]>>] \in V
      BY <2>1 DEF Follows
    <3>2. QED
      BY <3>1
  <2>3. ASSUME NEW n \in 1..(k + 1)
        PROVE  g[n] = step[<<n, g[n - 1]>>]
    <3>1. g[n - 1] = f[n - 1]
      OBVIOUS
    <3>2. CASE n = k + 1
      BY <3>1, <3>2
    <3>3. CASE n # k + 1
      <4>1. n \in 1..k /\ g[n] = f[n]
        BY <3>3
      <4>2. QED
        BY <2>1, <3>1, <4>1 DEF Follows
    <3>4. QED
      BY <3>2, <3>3
  <2>4. g[0] = base
    BY <2>1 DEF Follows
  <2>5. QED
    <3> HIDE DEF g
    <3> QED
      BY <2>2, <2>3, <2>4 DEF Follows
<1>3. Nat = T
  <2> HIDE DEF Has
  <2>1. 0 \in T /\ \A k \in Nat : k \in T => k + 1 \in T
    BY <1>1, <1>2
  <2> HIDE DEF T
  <2>2. T \in SUBSET Nat
    BY DEF T
  <2>3. QED
    BY <2>1, <2>2, Induction
<1>4. QED
  BY <1>3

\* What the elements are that a list keeps.
LEMMA OnlyKeeps ==
  ASSUME NEW S, NEW list \in Seq(S), NEW set
  PROVE  Only(list, set) \in Seq(S \cap set)
<1> DEFINE m == Len(list)
           V == Seq(S \cap set)
           step == [p \in Nat \X V |->
                      IF p[1] \in 1..m /\ list[p[1]] \in set THEN Append(p[2], list[p[1]]) ELSE p[2]]
           kept == CHOOSE f : f = [n \in 0..m |-> IF n = 0 THEN <<>>
                     ELSE IF list[n] \in set THEN Append(f[n - 1], list[n]) ELSE f[n - 1]]
           empty == <<>>
<1>1. m \in Nat /\ empty \in V
  OBVIOUS
<1>2. step \in [Nat \X V -> V]
  OBVIOUS
<1>3. PICK f \in [0..m -> V] : Follows(f, empty, step, m)
  <2> HIDE DEF V, step, m, empty, kept
  <2> QED
    BY <1>1, <1>2, Recursion
<1>4. f = [n \in 0..m |-> IF n = 0 THEN <<>>
                     ELSE IF list[n] \in set THEN Append(f[n - 1], list[n]) ELSE f[n - 1]]
  <2>1. ASSUME NEW n \in 1..m
        PROVE  f[n] = IF list[n] \in set THEN Append(f[n - 1], list[n]) ELSE f[n - 1]
    <3>1. n \in Nat /\ f[n - 1] \in V
      BY <1>1
    <3> HIDE DEF V, m
    <3>2. QED
      BY <1>3, <3>1 DEF Follows
  <2>2. \A n \in 0..m : n # 0 => n \in 1..m
    BY <1>1
  <2> HIDE DEF step, m, V
  <2>3. \A n \in 0..m : f[n] = IF n = 0 THEN <<>>
                     ELSE IF list[n] \in set THEN Append(f[n - 1], list[n]) ELSE f[n - 1]
    BY <1>3, <2>1, <2>2 DEF Follows
  <2>4. QED
    BY <2>3
<1>5. kept = [n \in 0..m |-> IF n = 0 THEN <<>>
                     ELSE IF list[n] \in set THEN Append(kept[n - 1], list[n]) ELSE kept[n - 1]]
  BY <1>4
<1> DEFINE T == {n \in Nat : n \in 0..m => kept[n] \in V}
<1>6. Nat = T
  <2> HIDE DEF kept, V
  <2>1. 0 \in T
    BY <1>1, <1>5
  <2>2. ASSUME NEW n \in Nat, n \in T
        PROVE  n + 1 \in T
    <3>1. SUFFICES ASSUME n + 1 \in 0..m
                   PROVE  kept[n + 1] \in V
      OBVIOUS
    <3>2. kept[n] \in V /\ n + 1 # 0 /\ (n + 1) - 1 = n /\ n + 1 \in 1..m
      BY <2>2, <3>1, <1>1
    <3>3. kept[n + 1] = IF list[n + 1] \in set THEN Append(kept[n], list[n + 1]) ELSE kept[n]
      BY <1>5, <3>1, <3>2
    <3>4. list[n + 1] \in S
      BY <3>2
    <3>5. QED
      BY <3>2, <3>3, <3>4 DEF V
  <2> HIDE DEF T
  <2>3. T \in SUBSET Nat
    BY DEF T
  <2>4. QED
    BY <2>1, <2>2, <2>3, Induction
<1>7. kept[m] \in V
  <2> HIDE DEF kept, V, m
  <2> QED
    BY <1>1, <1>6
<1>8. QED
  BY <1>7 DEF Only

\* f is the sums of the first elements of a list.
Sums(list, f) == f[0] = 0 /\ \A n \in 1..Len(list) : f[n] = f[n - 1] + list[n]

\* The total is the last of the sums.
LEMMA TotalIs ==
  ASSUME NEW list \in Seq(Int)
  PROVE  \E f \in [0..Len(list) -> Int] : Sums(list, f) /\ Total(list) = f[Len(list)]
<1> DEFINE m == Len(list)
           step == [p \in Nat \X Int |-> IF p[1] \in 1..m THEN p[2] + list[p[1]] ELSE p[2]]
           total == CHOOSE f : f = [n \in 0..m |-> IF n = 0 THEN 0 ELSE f[n - 1] + list[n]]
<1>1. m \in Nat /\ 0 \in Int
  OBVIOUS
<1>2. step \in [Nat \X Int -> Int]
  OBVIOUS
<1>3. PICK f \in [0..m -> Int] : Follows(f, 0, step, m)
  <2> HIDE DEF step, m, total
  <2> QED
    BY <1>1, <1>2, Recursion
<1>4. Sums(list, f)
  <2>1. f[0] = 0
    BY <1>3 DEF Follows
  <2>2. ASSUME NEW n \in 1..m
        PROVE  f[n] = f[n - 1] + list[n]
    <3>1. n \in Nat /\ f[n - 1] \in Int
      BY <1>1
    <3> HIDE DEF m
    <3>2. QED
      BY <1>3, <3>1 DEF Follows
  <2>3. QED
    <3> HIDE DEF step, total
    <3> QED
      BY <2>1, <2>2 DEF Sums
<1>5. f = [n \in 0..m |-> IF n = 0 THEN 0 ELSE f[n - 1] + list[n]]
  <2>1. \A n \in 0..m : n # 0 => n \in 1..m
    BY <1>1
  <2> HIDE DEF step, total
  <2>2. \A n \in 0..m : f[n] = IF n = 0 THEN 0 ELSE f[n - 1] + list[n]
    BY <1>4, <2>1 DEF Sums
  <2> HIDE DEF m
  <2>3. QED
    BY <2>2
<1>6. total = [n \in 0..m |-> IF n = 0 THEN 0 ELSE total[n - 1] + list[n]]
  BY <1>5
<1>7. total \in [0..m -> Int] /\ Sums(list, total)
  <2> DEFINE T == {n \in Nat : n \in 0..m => total[n] = f[n]}
  <2> HIDE DEF total, step
  <2>1. 0 \in T
    BY <1>1, <1>4, <1>6 DEF Sums
  <2>2. ASSUME NEW n \in Nat, n \in T
        PROVE  n + 1 \in T
    <3>1. SUFFICES ASSUME n + 1 \in 0..m
                   PROVE  total[n + 1] = f[n + 1]
      OBVIOUS
    <3>2. total[n] = f[n] /\ n + 1 # 0 /\ (n + 1) - 1 = n /\ n + 1 \in 1..m
      BY <1>1, <2>2, <3>1
    <3>3. QED
      BY <1>4, <1>6, <3>1, <3>2 DEF Sums
  <2>3. Nat = T
    <3> HIDE DEF T
    <3>1. T \in SUBSET Nat
      BY DEF T
    <3>2. QED
      BY <2>1, <2>2, <3>1, Induction
  <2>4. \A n \in 0..m : n \in Nat /\ total[n] = f[n]
    BY <1>1, <2>3
  <2>5. total = f
    <3> HIDE DEF T, m
    <3> QED
      BY <1>6, <2>4
  <2>6. QED
    BY <1>4, <2>5
<1>8. QED
  <2> HIDE DEF step
  <2> QED
    BY <1>7 DEF Total

LEMMA TotalType ==
  ASSUME NEW list \in Seq(Int)
  PROVE  Total(list) \in Int
<1>1. PICK f \in [0..Len(list) -> Int] : Sums(list, f) /\ Total(list) = f[Len(list)]
  BY TotalIs
<1>2. QED
  BY <1>1

\* One element more adds to the total.
LEMMA TotalAppend ==
  ASSUME NEW list \in Seq(Int), NEW x \in Int
  PROVE  Total(Append(list, x)) = Total(list) + x
<1> DEFINE longer == Append(list, x)
           m == Len(list)
<1>1. m \in Nat /\ longer \in Seq(Int) /\ Len(longer) = m + 1 /\ longer[m + 1] = x
  OBVIOUS
<1>2. \A n \in 1..m : longer[n] = list[n]
  OBVIOUS
<1>3. PICK f \in [0..m -> Int] : Sums(list, f) /\ Total(list) = f[m]
  BY TotalIs
<1>4. PICK g \in [0..(m + 1) -> Int] : Sums(longer, g) /\ Total(longer) = g[m + 1]
  <2> HIDE DEF longer, m
  <2> QED
    BY <1>1, TotalIs
<1> DEFINE T == {n \in Nat : n \in 0..m => f[n] = g[n]}
<1> HIDE DEF longer
<1>5. 0 \in T
  BY <1>3, <1>4 DEF Sums
<1>6. ASSUME NEW n \in Nat, n \in T
      PROVE  n + 1 \in T
  <2>1. SUFFICES ASSUME n + 1 \in 0..m
                 PROVE  f[n + 1] = g[n + 1]
    OBVIOUS
  <2>2. f[n] = g[n] /\ (n + 1) - 1 = n /\ n + 1 \in 1..m /\ n + 1 \in 1..(m + 1)
    BY <1>1, <1>6, <2>1
  <2>3. QED
    BY <1>1, <1>2, <1>3, <1>4, <2>2 DEF Sums
<1>7. Nat = T
  <2> HIDE DEF T
  <2>1. T \in SUBSET Nat
    BY DEF T
  <2>2. QED
    BY <1>5, <1>6, <2>1, Induction
<1>8. f[m] = g[m]
  <2>1. m \in T /\ m \in 0..m
    BY <1>1, <1>7
  <2>2. QED
    BY <2>1
<1>9. g[m + 1] = g[m] + x
  <2> HIDE DEF m
  <2>1. m + 1 \in 1..(m + 1) /\ (m + 1) - 1 = m
    BY <1>1
  <2>2. QED
    BY <1>1, <1>4, <2>1 DEF Sums
<1>10. QED
  BY <1>3, <1>4, <1>8, <1>9 DEF longer

LEMMA TotalOfNone == Total(<<>>) = 0
<1>1. <<>> \in Seq(Int) /\ Len(<<>>) = 0
  OBVIOUS
<1>2. PICK f \in [0..0 -> Int] : Sums(<<>>, f) /\ Total(<<>>) = f[0]
  BY <1>1, TotalIs
<1>3. QED
  BY <1>2 DEF Sums

LEMMA TotalOfOne ==
  ASSUME NEW x \in Int
  PROVE  Total(<<x>>) = x
<1>1. <<>> \in Seq(Int) /\ Append(<<>>, x) = <<x>>
  OBVIOUS
<1>2. Total(<<x>>) = Total(<<>>) + x
  BY <1>1, TotalAppend
<1>3. QED
  BY <1>2, TotalOfNone

\* The sums are unique, so that whatever follows them ends at the total.
LEMMA SumsEndAtTotal ==
  ASSUME NEW list \in Seq(Int), NEW f \in [0..Len(list) -> Int], Sums(list, f)
  PROVE  Total(list) = f[Len(list)]
<1>1. PICK g \in [0..Len(list) -> Int] : Sums(list, g) /\ Total(list) = g[Len(list)]
  BY TotalIs
<1> DEFINE m == Len(list)
           T == {n \in Nat : n \in 0..m => f[n] = g[n]}
<1>2. m \in Nat
  OBVIOUS
<1>3. 0 \in T
  BY <1>1 DEF Sums
<1>4. ASSUME NEW n \in Nat, n \in T
      PROVE  n + 1 \in T
  <2>1. SUFFICES ASSUME n + 1 \in 0..m
                 PROVE  f[n + 1] = g[n + 1]
    OBVIOUS
  <2>2. f[n] = g[n] /\ (n + 1) - 1 = n /\ n + 1 \in 1..m
    BY <1>2, <1>4, <2>1
  <2>3. f[n + 1] = f[n] + list[n + 1] /\ g[n + 1] = g[n] + list[n + 1]
    BY <1>1, <2>2 DEF Sums
  <2>4. QED
    BY <2>2, <2>3
<1>5. Nat = T
  <2> HIDE DEF T
  <2>1. T \in SUBSET Nat
    BY DEF T
  <2>2. QED
    BY <1>3, <1>4, <2>1, Induction
<1>6. QED
  BY <1>1, <1>2, <1>5

\* The total of natural numbers is one, and is positive if one of them is.
LEMMA TotalPositive ==
  ASSUME NEW list \in Seq(Nat)
  PROVE  /\ Total(list) \in Nat
         /\ Total(list) > 0 <=> \E i \in 1..Len(list) : list[i] > 0
<1> DEFINE m == Len(list)
<1>1. list \in Seq(Int) /\ m \in Nat
  OBVIOUS
<1>2. PICK f \in [0..m -> Int] : Sums(list, f) /\ Total(list) = f[m]
  BY <1>1, TotalIs
<1> DEFINE Sound(n) == f[n] >= 0 /\ (f[n] > 0 <=> \E i \in 1..n : list[i] > 0)
           T == {n \in Nat : n \in 0..m => Sound(n)}
<1>3. 0 \in T
  BY <1>2 DEF Sums
<1>4. ASSUME NEW n \in Nat, n \in T
      PROVE  n + 1 \in T
  <2>1. SUFFICES ASSUME n + 1 \in 0..m
                 PROVE  Sound(n + 1)
    OBVIOUS
  <2>2. Sound(n) /\ n + 1 \in 1..m /\ (n + 1) - 1 = n /\ n \in 0..m
    BY <1>1, <1>4, <2>1
  <2>3. f[n + 1] = f[n] + list[n + 1] /\ list[n + 1] \in Nat /\ f[n] \in Int
    <3>1. list[n + 1] \in Nat /\ f[n] \in Int
      BY <1>2, <2>2
    <3>2. f[n + 1] = f[(n + 1) - 1] + list[n + 1]
      BY <1>2, <2>2 DEF Sums
    <3>3. QED
      BY <2>2, <3>1, <3>2
  <2>4. \A i \in 1..(n + 1) : i \in 1..n \/ i = n + 1
    OBVIOUS
  <2>5. n + 1 \in 1..(n + 1) /\ 1..n \subseteq 1..(n + 1)
    OBVIOUS
  <2>6. PICK a \in Int, b \in Int, x \in Nat : a = f[n] /\ b = f[n + 1] /\ x = list[n + 1] /\ b = a + x
    BY <2>3
  <2>7. (\E i \in 1..(n + 1) : list[i] > 0) <=> (x > 0 \/ \E i \in 1..n : list[i] > 0)
    BY <2>4, <2>5, <2>6
  <2>8. a >= 0 /\ (a > 0 <=> \E i \in 1..n : list[i] > 0)
    BY <2>2, <2>6
  <2>9. b >= 0 /\ (b > 0 <=> x > 0 \/ a > 0)
    BY <2>6, <2>8
  <2>10. QED
    BY <2>6, <2>7, <2>8, <2>9
<1>5. Nat = T
  <2> HIDE DEF T
  <2>1. T \in SUBSET Nat
    BY DEF T
  <2>2. QED
    BY <1>3, <1>4, <2>1, Induction
<1>6. Sound(m) /\ f[m] \in Int
  BY <1>1, <1>5
<1>7. QED
  BY <1>2, <1>6

\* The total changes by as much as one of the elements.
LEMMA TotalChanged ==
  ASSUME NEW list \in Seq(Int), NEW other \in Seq(Int), Len(other) = Len(list),
         NEW k \in 1..Len(list), \A i \in 1..Len(list) : i # k => other[i] = list[i]
  PROVE  Total(other) = Total(list) + (other[k] - list[k])
<1> DEFINE m == Len(list)
<1>1. m \in Nat /\ Len(other) = m
  OBVIOUS
<1>2. PICK f \in [0..m -> Int] : Sums(list, f) /\ Total(list) = f[m]
  BY TotalIs
<1>3. PICK x \in Int, y \in Int : x = list[k] /\ y = other[k]
  OBVIOUS
<1>0. \A i \in 1..m : list[i] \in Int
  OBVIOUS
<1> DEFINE g == [n \in 0..m |-> IF n < k THEN f[n] ELSE f[n] + (y - x)]
<1>4. g \in [0..m -> Int]
  OBVIOUS
<1>5. ASSUME NEW n \in 1..m
      PROVE  g[n] = g[n - 1] + other[n]
  <2>1. n \in 0..m /\ n - 1 \in 0..m /\ k \in Int
    BY <1>1
  <2>2. PICK a \in Int, b \in Int, v \in Int : a = f[n - 1] /\ b = f[n] /\ v = list[n]
    <3> HIDE DEF m
    <3>1. f[n - 1] \in Int /\ f[n] \in Int
      BY <2>1
    <3>2. QED
      BY <1>0, <3>1
  <2>3. b = a + v
    BY <1>2, <2>2 DEF Sums
  <2>4. other[n] = IF n = k THEN y ELSE v
    BY <1>3, <2>2
  <2>5. /\ g[n] = IF n < k THEN b ELSE b + (y - x)
        /\ g[n - 1] = IF n - 1 < k THEN a ELSE a + (y - x)
    BY <2>1, <2>2
  <2>6. n = k => v = x
    BY <1>3, <2>2
  <2> HIDE DEF g, m
  <2>7. CASE n < k
    BY <2>1, <2>3, <2>4, <2>5, <2>7
  <2>8. CASE n = k
    BY <2>1, <2>3, <2>4, <2>5, <2>6, <2>8
  <2>9. CASE n > k
    BY <2>1, <2>3, <2>4, <2>5, <2>9
  <2>10. QED
    BY <2>1, <2>7, <2>8, <2>9
<1>6. g[0] = 0
  BY <1>2 DEF Sums
<1>7. g[m] = f[m] + (y - x)
  BY <1>1
<1>8. Total(other) = g[m]
  <2> HIDE DEF g
  <2> QED
    BY <1>1, <1>4, <1>5, <1>6, SumsEndAtTotal DEF Sums
<1>9. QED
  BY <1>2, <1>3, <1>7, <1>8

\* Of two lists the one that is nowhere less has the same total only if it is the
\* same list.
LEMMA TotalGrows ==
  ASSUME NEW list \in Seq(Int), NEW other \in Seq(Int), Len(other) = Len(list),
         \A i \in 1..Len(list) : list[i] <= other[i], Total(list) = Total(other)
  PROVE  \A i \in 1..Len(list) : list[i] = other[i]
<1> DEFINE m == Len(list)
           more == [i \in 1..m |-> other[i] - list[i]]
<1>1. m \in Nat /\ Len(other) = m
  OBVIOUS
<1>0. \A i \in 1..m : list[i] \in Int /\ other[i] \in Int
  BY <1>1
<1>2. more \in Seq(Nat) /\ Len(more) = m /\ more \in Seq(Int)
  <2>1. \A i \in 1..m : other[i] - list[i] \in Nat
    BY <1>1
  <2>2. QED
    BY <1>1, <2>1
<1>3. PICK f \in [0..m -> Int] : Sums(list, f) /\ Total(list) = f[m]
  BY TotalIs
<1>4. PICK g \in [0..m -> Int] : Sums(other, g) /\ Total(other) = g[m]
  BY <1>1, TotalIs
<1> DEFINE h == [n \in 0..m |-> g[n] - f[n]]
<1>5. h \in [0..m -> Int]
  OBVIOUS
<1>6. ASSUME NEW n \in 1..m
      PROVE  h[n] = h[n - 1] + more[n]
  <2>1. n \in 0..m /\ n - 1 \in 0..m
    BY <1>1
  <2>2. f[n] = f[n - 1] + list[n] /\ g[n] = g[n - 1] + other[n]
    BY <1>1, <1>3, <1>4 DEF Sums
  <2>3. /\ f[n] \in Int /\ f[n - 1] \in Int /\ g[n] \in Int /\ g[n - 1] \in Int
        /\ list[n] \in Int /\ other[n] \in Int
    <3> HIDE DEF m
    <3>1. f[n] \in Int /\ f[n - 1] \in Int
      BY <2>1
    <3>2. g[n] \in Int /\ g[n - 1] \in Int
      BY <2>1
    <3>3. QED
      BY <1>0, <3>1, <3>2
  <2>4. h[n] = g[n] - f[n] /\ h[n - 1] = g[n - 1] - f[n - 1] /\ more[n] = other[n] - list[n]
    BY <2>1
  <2> HIDE DEF h, more, m
  <2>5. QED
    BY <2>2, <2>3, <2>4
<1>7. h[0] = 0 /\ h[m] = 0
  <2>1. f[0] = 0 /\ g[0] = 0 /\ f[m] = g[m] /\ f[m] \in Int /\ g[m] \in Int
    <3> HIDE DEF m
    <3>1. f[m] \in Int /\ g[m] \in Int
      BY <1>1
    <3>2. QED
      BY <1>3, <1>4, <3>1 DEF Sums
  <2>2. h[0] = g[0] - f[0] /\ h[m] = g[m] - f[m]
    BY <1>1
  <2> HIDE DEF h, m
  <2>3. QED
    BY <2>1, <2>2
<1>8. Total(more) = 0
  <2> HIDE DEF h, more
  <2> QED
    BY <1>1, <1>2, <1>5, <1>6, <1>7, SumsEndAtTotal DEF Sums
<1>9. ASSUME NEW i \in 1..m
      PROVE  list[i] = other[i]
  <2>1. ~(more[i] > 0) /\ more[i] \in Nat
    <3> HIDE DEF more, m
    <3>1. Total(more) > 0 <=> \E j \in 1..m : more[j] > 0
      BY <1>2, TotalPositive
    <3>2. QED
      BY <1>1, <1>2, <1>8, <3>1
  <2>2. more[i] = other[i] - list[i] /\ other[i] \in Int /\ list[i] \in Int
    BY <1>1
  <2> HIDE DEF more
  <2>3. QED
    BY <2>1, <2>2
<1>10. QED
  BY <1>9

\* The sequence of the elements of a finite set.
LEMMA SetToSeqType ==
    ASSUME NEW S, IsFiniteSet(S)
    PROVE  SetToSeq(S) \in Seq(S)
<1>1. PICK f \in Bijection(1..Cardinality(S), S) : TRUE
      BY FS_CardinalityType DEF ExistsBijection
<1>2. f \in [1..Cardinality(S) -> S] /\ IsInjective(f)
      BY <1>1 DEF Bijection, Injection, IsInjective
<1>3. SetToSeq(S) \in [1..Cardinality(S) -> S]
      BY <1>2 DEF SetToSeq
<1>4. Cardinality(S) \in Nat  BY FS_CardinalityType
<1>5. QED  BY <1>3, <1>4

\* It has each of them once.
LEMMA SetToSeqOnce ==
  ASSUME NEW S, IsFiniteSet(S), NEW x \in S
  PROVE  LET list == SetToSeq(S) IN
         \E k \in 1..Len(list) : list[k] = x /\ \A i \in 1..Len(list) : i # k => list[i] # x
<1> DEFINE n == Cardinality(S)
           list == SetToSeq(S)
<1>1. n \in Nat /\ IsFiniteSet(1..n) /\ Cardinality(1..n) = n
  BY FS_CardinalityType, FS_Interval
<1>2. PICK f \in Bijection(1..n, S) : TRUE
  BY FS_CardinalityType DEF ExistsBijection
<1>3. f \in [1..n -> S] /\ IsInjective(f)
  BY <1>2 DEF Bijection, Injection, IsInjective
<1>4. list \in [1..n -> S] /\ IsInjective(list)
  BY <1>3 DEF SetToSeq
<1>5. Len(list) = n
  BY <1>1, <1>4
<1> HIDE DEF list, n
<1>6. list \in Injection(1..n, S)
  BY <1>4 DEF Injection, IsInjective
<1>7. list \in Surjection(1..n, S)
  BY <1>1, <1>6, FS_Injection DEF n
<1>8. PICK k \in 1..n : list[k] = x
  BY <1>7 DEF Surjection
<1>9. \A i \in 1..n : list[i] = x => i = k
  BY <1>4, <1>8 DEF IsInjective
<1>10. QED
  BY <1>5, <1>8, <1>9 DEF list

\* A list is one of any set that has its elements.
LEMMA SeqOfElements ==
  ASSUME NEW S, NEW T, NEW list \in Seq(S), \A i \in 1..Len(list) : list[i] \in T
  PROVE  list \in Seq(T)
<1>1. Len(list) \in Nat /\ DOMAIN list = 1..Len(list) /\ list = [i \in 1..Len(list) |-> list[i]]
  OBVIOUS
<1>2. list \in [1..Len(list) -> T]
  BY <1>1
<1>3. QED
  BY <1>1, <1>2

\* A list without one of its elements.
LEMMA RemoveAtIs ==
  ASSUME NEW S, NEW list \in Seq(S), NEW k \in 1..Len(list)
  PROVE  /\ RemoveAt(list, k) \in Seq(S)
         /\ Len(RemoveAt(list, k)) = Len(list) - 1
         /\ \A i \in 1..(Len(list) - 1) :
              RemoveAt(list, k)[i] = IF i < k THEN list[i] ELSE list[i + 1]
<1> DEFINE m == Len(list)
<1>1. m \in Nat /\ k \in Nat /\ k >= 1 /\ k <= m
  OBVIOUS
<1>2. /\ SubSeq(list, 1, k - 1) \in Seq(S) /\ Len(SubSeq(list, 1, k - 1)) = k - 1
      /\ \A i \in 1..(k - 1) : SubSeq(list, 1, k - 1)[i] = list[i]
  BY <1>1
<1>3. /\ SubSeq(list, k + 1, m) \in Seq(S) /\ Len(SubSeq(list, k + 1, m)) = m - k
      /\ \A i \in 1..(m - k) : SubSeq(list, k + 1, m)[i] = list[k + i]
  BY <1>1
<1>4. RemoveAt(list, k) = SubSeq(list, 1, k - 1) \o SubSeq(list, k + 1, m)
  BY DEF RemoveAt
<1>5. QED
  <2> DEFINE before == SubSeq(list, 1, k - 1)
             after == SubSeq(list, k + 1, m)
  <2> HIDE DEF before, after
  <2>1. before \in Seq(S) /\ after \in Seq(S) /\ Len(before) = k - 1 /\ Len(after) = m - k
    BY <1>2, <1>3 DEF before, after
  <2>2. \A i \in 1..(k - 1) : before[i] = list[i]
    BY <1>2 DEF before
  <2>3. \A i \in 1..(m - k) : after[i] = list[k + i]
    BY <1>3 DEF after
  <2>4. RemoveAt(list, k) = before \o after
    BY <1>4 DEF before, after
  <2> HIDE DEF m
  <2>5. Len(before \o after) = m - 1 /\ before \o after \in Seq(S)
    BY <1>1, <2>1
  <2>6. ASSUME NEW i \in 1..(m - 1)
        PROVE  (before \o after)[i] = IF i < k THEN list[i] ELSE list[i + 1]
    <3>1. CASE i < k
      BY <1>1, <2>1, <2>2, <3>1
    <3>2. CASE ~(i < k)
      <4>1. i - (k - 1) \in 1..(m - k) /\ i - (k - 1) + k = i + 1
        BY <1>1, <3>2
      <4>2. (before \o after)[i] = after[i - (k - 1)]
        BY <1>1, <2>1, <3>2
      <4>3. k + (i - (k - 1)) = i + 1
        BY <1>1
      <4>4. QED
        BY <2>3, <3>2, <4>1, <4>2, <4>3
    <3>3. QED
      BY <3>1, <3>2
  <2>7. QED
    BY <2>4, <2>5, <2>6 DEF m

-----------------------------------------------------------------------------
(* The reconciliation of an account.                                       *)

\* The record of a filled order says what was filled.
LEMMA SoleFill ==
  ASSUME NEW quantity \in Int, NEW price \in Int
  PROVE  FilledQuantity(OrderRecord(quantity, price)) = quantity
<1> DEFINE fills == <<[quantity |-> quantity]>>
<1>1. fills # <<>> /\ [i \in DOMAIN fills |-> fills[i].quantity] = <<quantity>>
  OBVIOUS
<1>2. FilledQuantity(OrderRecord(quantity, price)) = Total(<<quantity>>)
  BY <1>1 DEF FilledQuantity, OrderRecord
<1>3. QED
  BY <1>2, TotalOfOne

\* What the reconciliation of an order finds is decided by all the others: it
\* matches if and only if what they left, before, is the baseline that the
\* preview read, up to the tolerance, in the position and in the cash.
THEOREM OthersDecide ==
  ASSUME NEW side \in Sides, NEW quantity \in Nat \ {0}, NEW price \in Nat,
         NEW tolerance \in Nat, NEW baseline \in Holdings, NEW before \in Holdings
  PROVE  Reconciled(side, quantity, price, baseline,
                    AfterOrder(before, side, quantity, price), tolerance)
           <=> /\ Within(before.position, baseline.position, tolerance)
               /\ Within(before.cash, baseline.cash, tolerance)
<1> DEFINE order == OrderRecord(quantity, price)
           after == AfterOrder(before, side, quantity, price)
           notional == quantity * price
<1>1. FilledQuantity(order) = quantity /\ quantity > 0
  BY SoleFill
<1>2. notional \in Int /\ order.price = price /\ order.fees = 0 /\ order.taxes = 0
  BY DEF OrderRecord
<1>3. after.position = IF side = "BUY" THEN before.position + quantity ELSE before.position - quantity
  BY DEF AfterOrder, Moved
<1>4. after.cash = IF side = "BUY" THEN before.cash - notional ELSE before.cash + notional
  BY DEF AfterOrder, Moved
<1>5. after.position \in Int /\ after.cash \in Int
  BY <1>2, <1>3, <1>4 DEF Holdings
<1>6. ExpectedPosition(baseline, side, quantity)
        = IF side = "BUY" THEN baseline.position + quantity ELSE baseline.position - quantity
  BY DEF ExpectedPosition
<1>7. ExpectedCash(baseline, side, quantity, order)
        = IF side = "BUY" THEN baseline.cash - notional - 0 ELSE baseline.cash + notional - 0
  BY <1>2 DEF ExpectedCash
<1>8. Reconciled(side, quantity, price, baseline, after, tolerance)
        <=> /\ Within(after.position, ExpectedPosition(baseline, side, quantity), tolerance)
            /\ Within(after.position + 0, after.position, tolerance)
            /\ Within(after.cash, ExpectedCash(baseline, side, quantity, order), tolerance)
            /\ Within(after.cash + 0, after.cash, tolerance)
  <2> HIDE DEF order, after
  <2>1. Reconciled(side, quantity, price, baseline, after, tolerance)
          <=> Matched(side, baseline, order, {PositionOf(after)}, {AccountOf(after)}, tolerance)
    BY DEF Reconciled, order
  <2>2. QED
    BY <1>1, <2>1 DEF Matched, PositionOf, AccountOf
<1>9. Within(after.position + 0, after.position, tolerance) /\ Within(after.cash + 0, after.cash, tolerance)
  <2> HIDE DEF after
  <2> QED
    BY <1>5 DEF Within
<1>10. QED
  <2> HIDE DEF order, after, notional
  <2>1. Within(after.position, ExpectedPosition(baseline, side, quantity), tolerance)
          <=> Within(before.position, baseline.position, tolerance)
    BY <1>3, <1>6 DEF Within, Holdings
  <2>2. Within(after.cash, ExpectedCash(baseline, side, quantity, order), tolerance)
          <=> Within(before.cash, baseline.cash, tolerance)
    BY <1>2, <1>4, <1>7 DEF Within, Holdings
  <2>3. QED
    BY <1>8, <1>9, <2>1, <2>2 DEF after

\* Two orders leave the same holdings in either order.
LEMMA MovesCommute ==
  ASSUME NEW holdings \in Holdings, NEW side \in Sides, NEW otherSide \in Sides,
         NEW m \in Int, NEW n \in Int, NEW k \in Int, NEW l \in Int
  PROVE  Moved(Moved(holdings, side, m, n), otherSide, k, l)
           = Moved(Moved(holdings, otherSide, k, l), side, m, n)
BY DEF Moved, Holdings, Sides

\* An order leaves holdings.
LEMMA AfterOrderType ==
  ASSUME NEW holdings \in Holdings, NEW side \in Sides, NEW quantity \in Nat, NEW price \in Nat
  PROVE  AfterOrder(holdings, side, quantity, price) \in Holdings
<1>1. quantity * price \in Int
  OBVIOUS
<1>2. QED
  BY <1>1 DEF AfterOrder, Moved, Holdings

\* An order that is alone in the account since its preview is matched, with no
\* tolerance at all: a task never becomes an incident by its own fill.
THEOREM SoleOrderMatches ==
  ASSUME NEW side \in Sides, NEW quantity \in Nat \ {0}, NEW price \in Nat,
         NEW baseline \in Holdings
  PROVE  Reconciled(side, quantity, price, baseline,
                    AfterOrder(baseline, side, quantity, price), 0)
<1>1. Within(baseline.position, baseline.position, 0) /\ Within(baseline.cash, baseline.cash, 0)
  BY DEF Within, Holdings
<1>2. QED
  BY <1>1, OthersDecide

\* Two orders previewed on the same account and filled both make a mismatch for
\* each, whichever is filled first and whatever their sides and prices: this is
\* how two tasks under way make each other incidents.
THEOREM OtherOrderShows ==
  ASSUME NEW side \in Sides, NEW quantity \in Nat \ {0}, NEW price \in Nat,
         NEW tolerance \in Nat, NEW baseline \in Holdings,
         NEW otherSide \in Sides, NEW otherQuantity \in Nat, NEW otherPrice \in Nat,
         otherQuantity > tolerance,
         NEW holdings,
         holdings \in {AfterOrder(AfterOrder(baseline, otherSide, otherQuantity, otherPrice),
                                  side, quantity, price),
                       AfterOrder(AfterOrder(baseline, side, quantity, price),
                                  otherSide, otherQuantity, otherPrice)}
  PROVE  ~Reconciled(side, quantity, price, baseline, holdings, tolerance)
<1> DEFINE before == AfterOrder(baseline, otherSide, otherQuantity, otherPrice)
<1>1. before \in Holdings
  BY AfterOrderType
<1>2. AfterOrder(AfterOrder(baseline, side, quantity, price), otherSide, otherQuantity, otherPrice)
        = AfterOrder(before, side, quantity, price)
  <2>1. quantity * price \in Int /\ otherQuantity * otherPrice \in Int
    OBVIOUS
  <2>2. QED
    BY <2>1, MovesCommute DEF AfterOrder
<1>3. ~Within(before.position, baseline.position, tolerance)
  <2>1. \/ before.position = baseline.position + otherQuantity
        \/ before.position = baseline.position - otherQuantity
    BY DEF AfterOrder, Moved
  <2> HIDE DEF before
  <2>2. QED
    BY <2>1 DEF Within, Holdings
<1>4. holdings = AfterOrder(before, side, quantity, price)
  BY <1>2
<1>5. QED
  <2> HIDE DEF before
  <2> QED
    BY <1>1, <1>3, <1>4, OthersDecide

\* The limit of the comparison: orders that undo each other leave no trace, so a
\* match does not say that the order was alone.
THEOREM OppositeOrdersHide ==
  ASSUME NEW side \in Sides, NEW quantity \in Nat \ {0}, NEW price \in Nat,
         NEW baseline \in Holdings, NEW otherQuantity \in Nat, NEW otherPrice \in Nat
  PROVE  Reconciled(side, quantity, price, baseline,
                    AfterOrder(AfterOrder(AfterOrder(baseline, "BUY", otherQuantity, otherPrice),
                                          "SELL", otherQuantity, otherPrice),
                               side, quantity, price), 0)
<1> DEFINE bought == AfterOrder(baseline, "BUY", otherQuantity, otherPrice)
           before == AfterOrder(bought, "SELL", otherQuantity, otherPrice)
<1>1. before \in Holdings
  BY AfterOrderType DEF Sides
<1>2. otherQuantity * otherPrice \in Int
  OBVIOUS
<1>3. before.position = baseline.position /\ before.cash = baseline.cash
  BY <1>2 DEF AfterOrder, Moved, Holdings
<1>4. QED
  <2> HIDE DEF before
  <2>1. Within(before.position, baseline.position, 0) /\ Within(before.cash, baseline.cash, 0)
    BY <1>3 DEF Within, Holdings
  <2>2. QED
    BY <1>1, <2>1, OthersDecide DEF before

\* What an order adds to the position, and to the cash.
Orders == [side : Sides, quantity : Nat \ {0}, price : Nat]
Shares(order) == IF order.side = "BUY" THEN order.quantity ELSE -order.quantity
Proceeds(order) ==
    IF order.side = "BUY" THEN -(order.quantity * order.price) ELSE order.quantity * order.price

\* What is in the account after each of a list of orders.
Filled(orders, holdings) ==
    \A i \in 1..Len(orders) :
      holdings[i] = AfterOrder(holdings[i - 1], orders[i].side, orders[i].quantity, orders[i].price)

LEMMA OrderAdds ==
  ASSUME NEW order \in Orders, NEW holdings \in Holdings
  PROVE  /\ Shares(order) \in Int /\ Proceeds(order) \in Int
         /\ AfterOrder(holdings, order.side, order.quantity, order.price)
              = [position |-> holdings.position + Shares(order), cash |-> holdings.cash + Proceeds(order)]
<1>1. PICK notional \in Int : notional = order.quantity * order.price
  BY DEF Orders
<1>2. order.side \in Sides /\ order.quantity \in Int /\ holdings.position \in Int /\ holdings.cash \in Int
  BY DEF Orders, Holdings
<1>3. Shares(order) \in Int /\ Proceeds(order) \in Int
  BY <1>1, <1>2 DEF Shares, Proceeds
<1>4. AfterOrder(holdings, order.side, order.quantity, order.price)
        = Moved(holdings, order.side, order.quantity, notional)
  BY <1>1 DEF AfterOrder
<1>5. CASE order.side = "BUY"
  BY <1>1, <1>2, <1>3, <1>4, <1>5 DEF Moved, Shares, Proceeds
<1>6. CASE order.side = "SELL"
  BY <1>1, <1>2, <1>3, <1>4, <1>6 DEF Moved, Shares, Proceeds
<1>7. QED
  BY <1>2, <1>3, <1>5, <1>6 DEF Sides

\* A list of orders adds the total of what each of them adds.
LEMMA OrdersAdd ==
  ASSUME NEW orders \in Seq(Orders), NEW holdings \in [0..Len(orders) -> Holdings],
         Filled(orders, holdings)
  PROVE  LET m == Len(orders) IN
         /\ Total([i \in 1..m |-> Shares(orders[i])]) = holdings[m].position - holdings[0].position
         /\ Total([i \in 1..m |-> Proceeds(orders[i])]) = holdings[m].cash - holdings[0].cash
<1> DEFINE m == Len(orders)
           shares == [i \in 1..m |-> Shares(orders[i])]
           proceeds == [i \in 1..m |-> Proceeds(orders[i])]
           f == [i \in 0..m |-> holdings[i].position - holdings[0].position]
           g == [i \in 0..m |-> holdings[i].cash - holdings[0].cash]
<1>1. m \in Nat
  OBVIOUS
<1>2. ASSUME NEW i \in 0..m
      PROVE  holdings[i].position \in Int /\ holdings[i].cash \in Int
  BY DEF Holdings
<1>3. ASSUME NEW i \in 1..m
      PROVE  /\ Shares(orders[i]) \in Int /\ Proceeds(orders[i]) \in Int
             /\ holdings[i].position = holdings[i - 1].position + Shares(orders[i])
             /\ holdings[i].cash = holdings[i - 1].cash + Proceeds(orders[i])
  <2>1. orders[i] \in Orders /\ holdings[i - 1] \in Holdings
    BY <1>1
  <2>2. holdings[i] = AfterOrder(holdings[i - 1], orders[i].side, orders[i].quantity, orders[i].price)
    BY DEF Filled
  <2>3. PICK order \in Orders, before \in Holdings : order = orders[i] /\ before = holdings[i - 1]
    BY <2>1
  <2>4. /\ Shares(order) \in Int /\ Proceeds(order) \in Int
        /\ holdings[i] = [position |-> before.position + Shares(order), cash |-> before.cash + Proceeds(order)]
    BY <2>2, <2>3, OrderAdds
  <2>5. /\ holdings[i].position = before.position + Shares(order)
        /\ holdings[i].cash = before.cash + Proceeds(order)
    BY <2>4
  <2>6. QED
    BY <2>3, <2>4, <2>5
<1>4. /\ shares \in Seq(Int) /\ Len(shares) = m /\ \A i \in 1..m : shares[i] = Shares(orders[i])
      /\ proceeds \in Seq(Int) /\ Len(proceeds) = m /\ \A i \in 1..m : proceeds[i] = Proceeds(orders[i])
  BY <1>1, <1>3
<1>5. f \in [0..m -> Int] /\ g \in [0..m -> Int]
  BY <1>1, <1>2
<1>6. ASSUME NEW i \in 1..m
      PROVE  f[i] = f[i - 1] + Shares(orders[i]) /\ g[i] = g[i - 1] + Proceeds(orders[i])
  <2>1. i \in 0..m /\ i - 1 \in 0..m /\ 0 \in 0..m
    BY <1>1
  <2>2. /\ f[i] = holdings[i].position - holdings[0].position
        /\ f[i - 1] = holdings[i - 1].position - holdings[0].position
        /\ g[i] = holdings[i].cash - holdings[0].cash
        /\ g[i - 1] = holdings[i - 1].cash - holdings[0].cash
    BY <2>1
  <2>3. /\ holdings[i].position = holdings[i - 1].position + Shares(orders[i])
        /\ holdings[i].cash = holdings[i - 1].cash + Proceeds(orders[i])
        /\ Shares(orders[i]) \in Int /\ Proceeds(orders[i]) \in Int
    BY <1>3
  <2>4. /\ holdings[i - 1].position \in Int /\ holdings[i - 1].cash \in Int
        /\ holdings[0].position \in Int /\ holdings[0].cash \in Int
    BY <1>2, <2>1
  <2> HIDE DEF f, g, m
  <2>5. QED
    BY <2>2, <2>3, <2>4
<1>7. f[0] = 0 /\ g[0] = 0
  BY <1>1, <1>2
<1>8. f[m] = holdings[m].position - holdings[0].position /\ g[m] = holdings[m].cash - holdings[0].cash
  BY <1>1
<1> HIDE DEF f, g, shares, proceeds
<1>9. Sums(shares, f) /\ Sums(proceeds, g)
  BY <1>4, <1>6, <1>7 DEF Sums
<1>10. Total(shares) = f[m] /\ Total(proceeds) = g[m]
  BY <1>4, <1>5, <1>9, SumsEndAtTotal
<1>11. QED
  BY <1>8, <1>10 DEF shares, proceeds

\* However many orders were filled since the preview of one of them, and wherever
\* it stands among them: its reconciliation matches if and only if all the others
\* add up to no more than the tolerance, in the position and in the cash.
THEOREM AllOthersDecide ==
  ASSUME NEW orders \in Seq(Orders), NEW holdings \in [0..Len(orders) -> Holdings],
         Filled(orders, holdings), NEW k \in 1..Len(orders), NEW tolerance \in Nat
  PROVE  LET m == Len(orders) IN
         Reconciled(orders[k].side, orders[k].quantity, orders[k].price,
                    holdings[0], holdings[m], tolerance)
           <=> /\ Within(Total([i \in 1..m |-> Shares(orders[i])]), Shares(orders[k]), tolerance)
               /\ Within(Total([i \in 1..m |-> Proceeds(orders[i])]), Proceeds(orders[k]), tolerance)
<1> DEFINE m == Len(orders)
           own == orders[k]
           last == holdings[m]
           first == holdings[0]
           before == [position |-> last.position - Shares(own), cash |-> last.cash - Proceeds(own)]
           shares == Total([i \in 1..m |-> Shares(orders[i])])
           proceeds == Total([i \in 1..m |-> Proceeds(orders[i])])
<1>1. own \in Orders /\ first \in Holdings /\ last \in Holdings
  OBVIOUS
<1>2. shares = last.position - first.position /\ proceeds = last.cash - first.cash
  BY OrdersAdd
<1> HIDE DEF own, last, first, shares, proceeds
<1>3. Shares(own) \in Int /\ Proceeds(own) \in Int
  BY <1>1, OrderAdds
<1>4. /\ last.position \in Int /\ last.cash \in Int /\ first.position \in Int /\ first.cash \in Int
      /\ last = [position |-> last.position, cash |-> last.cash]
  BY <1>1 DEF Holdings
<1>5. before \in Holdings
  BY <1>3, <1>4 DEF Holdings
<1>6. last = AfterOrder(before, own.side, own.quantity, own.price)
  <2>1. /\ before.position + Shares(own) = last.position
        /\ before.cash + Proceeds(own) = last.cash
    BY <1>3, <1>4
  <2> HIDE DEF before
  <2>2. QED
    BY <1>1, <1>4, <1>5, <2>1, OrderAdds
<1>7. Reconciled(own.side, own.quantity, own.price, first, last, tolerance)
        <=> Within(before.position, first.position, tolerance) /\ Within(before.cash, first.cash, tolerance)
  <2> HIDE DEF before
  <2>1. own.side \in Sides /\ own.quantity \in Nat \ {0} /\ own.price \in Nat
    BY <1>1 DEF Orders
  <2>2. QED
    BY <1>1, <1>5, <1>6, <2>1, OthersDecide
<1>8. /\ Within(before.position, first.position, tolerance) <=> Within(shares, Shares(own), tolerance)
      /\ Within(before.cash, first.cash, tolerance) <=> Within(proceeds, Proceeds(own), tolerance)
  <2>1. PICK p \in Int, c \in Int, x \in Int, y \in Int, u \in Int, v \in Int :
          /\ p = last.position /\ c = last.cash /\ x = first.position /\ y = first.cash
          /\ u = Shares(own) /\ v = Proceeds(own)
    BY <1>3, <1>4
  <2>2. before.position = p - u /\ before.cash = c - v /\ shares = p - x /\ proceeds = c - y
    BY <1>2, <2>1
  <2> HIDE DEF before
  <2>3. /\ Within(p - u, x, tolerance) <=> Within(p - x, u, tolerance)
        /\ Within(c - v, y, tolerance) <=> Within(c - y, v, tolerance)
    BY DEF Within
  <2>4. QED
    BY <2>1, <2>2, <2>3
<1>9. QED
  BY <1>7, <1>8 DEF own, last, first, shares, proceeds

-----------------------------------------------------------------------------
(* The audit log.                                                          *)

\* A log that verifies still does with one more row, however many writers
\* record into it, and its rows stay distinct.
THEOREM RecordKeepsChain ==
  ASSUME NEW Entries, NEW log \in Seq(Entries), Verifies(log), NEW row,
         DistinctRows(log),
         \A i \in 1..Len(log) : log[i].row # row
  PROVE  /\ Verifies(Recorded(log, row))
         /\ DistinctRows(Recorded(log, row))
<1> DEFINE n == Len(log)
           new == Recorded(log, row)
<1>1. n \in Nat /\ Len(new) = n + 1
  BY DEF Recorded
<1>2. \A i \in 1..n : new[i] = log[i]
  BY DEF Recorded
<1>3. new[n + 1] = Entry(TailHash(log), row)
  BY DEF Recorded
<1>4. n > 0 => TailHash(log) = new[n].entry_hash
  BY <1>1, <1>2 DEF TailHash
<1>5. /\ new[n + 1].row = row /\ new[n + 1].prev_hash = TailHash(log)
      /\ new[n + 1].entry_hash = EntryHash(TailHash(log), row)
  BY <1>3 DEF Entry
<1>6. QED
  <2> HIDE DEF n, new
  <2>1. \A i \in 1..(n + 1) : i \in 1..n \/ i = n + 1
    BY <1>1
  <2>2. Verifies(new)
    <3>1. ASSUME NEW i \in 1..n
          PROVE  /\ i > 1 => new[i].prev_hash = new[i - 1].entry_hash
                 /\ new[i].entry_hash = EntryHash(new[i].prev_hash, new[i].row)
      BY <1>1, <1>2, <3>1 DEF Verifies, n
    <3>2. (n + 1 > 1) => new[n + 1].prev_hash = new[(n + 1) - 1].entry_hash
      BY <1>1, <1>4, <1>5
    <3>3. QED
      BY <1>1, <1>5, <2>1, <3>1, <3>2 DEF Verifies
  <2>3. DistinctRows(new)
    BY <1>1, <1>2, <1>5, <2>1 DEF n, DistinctRows
  <2>4. QED
    BY <2>2, <2>3 DEF new

\* What record has written, row by row, into a log that was empty.
Written(rows, logs) ==
    logs[0] = <<>> /\ \A i \in 1..Len(rows) : logs[i] = Recorded(logs[i - 1], rows[i])

\* A log that record wrote, whatever the rows and however many, verifies and holds
\* the rows in the order in which they were recorded.
THEOREM WrittenVerifies ==
  ASSUME NEW Rows, NEW rows \in Seq(Rows), NEW logs, Written(rows, logs),
         \A i, j \in 1..Len(rows) : rows[i] = rows[j] => i = j
  PROVE  LET log == logs[Len(rows)] IN
         /\ Verifies(log) /\ DistinctRows(log) /\ Len(log) = Len(rows)
         /\ \A i \in 1..Len(rows) : log[i].row = rows[i]
<1> DEFINE m == Len(rows)
           Sound(n) == /\ \E Entries : logs[n] \in Seq(Entries)
                       /\ Verifies(logs[n]) /\ DistinctRows(logs[n]) /\ Len(logs[n]) = n
                       /\ \A i \in 1..n : logs[n][i].row = rows[i]
           T == {n \in Nat : n \in 0..m => Sound(n)}
<1>1. m \in Nat
  OBVIOUS
<1>2. Sound(0)
  <2>1. logs[0] = <<>> /\ Len(logs[0]) = 0 /\ logs[0] \in Seq({})
    BY DEF Written
  <2>2. QED
    BY <2>1 DEF Verifies, DistinctRows
<1>3. ASSUME NEW n \in Nat, n \in 0..m => Sound(n), n + 1 \in 0..m
      PROVE  Sound(n + 1)
  <2>1. Sound(n) /\ n + 1 \in 1..m /\ (n + 1) - 1 = n
    BY <1>1, <1>3
  <2>2. logs[n + 1] = Recorded(logs[n], rows[n + 1])
    BY <2>1 DEF Written
  <2>3. PICK Entries : logs[n] \in Seq(Entries)
    BY <2>1
  <2> DEFINE log == logs[n]
             row == rows[n + 1]
             entry == Entry(TailHash(log), row)
             new == Append(log, entry)
  <2>4. logs[n + 1] = new
    BY <2>2 DEF Recorded
  <2>5. ASSUME NEW i \in 1..Len(log)
        PROVE  log[i].row # row
    <3>1. i \in 1..m /\ i # n + 1 /\ log[i].row = rows[i]
      BY <1>1, <2>1
    <3>2. QED
      BY <2>1, <3>1
  <2> HIDE DEF log, row, m
  <2>6. Verifies(Recorded(log, row)) /\ DistinctRows(Recorded(log, row))
    BY <2>1, <2>3, <2>5, RecordKeepsChain DEF log
  <2>7. entry.row = row
    BY DEF Entry
  <2> HIDE DEF entry
  <2>8. /\ log \in Seq(Entries \cup {entry}) /\ new \in Seq(Entries \cup {entry})
        /\ Len(new) = n + 1 /\ new[n + 1] = entry /\ \A i \in 1..n : new[i] = log[i]
    BY <2>1, <2>3 DEF log
  <2>9. ASSUME NEW i \in 1..(n + 1)
        PROVE  new[i].row = rows[i]
    <3>1. CASE i = n + 1
      BY <2>7, <2>8, <3>1 DEF row
    <3>2. CASE i # n + 1
      <4>1. i \in 1..n
        BY <3>2
      <4> HIDE DEF new
      <4>2. QED
        BY <2>1, <2>8, <4>1 DEF log
    <3>3. QED
      BY <3>1, <3>2
  <2>10. Recorded(log, row) = new
    BY DEF Recorded, entry
  <2> HIDE DEF new
  <2>11. QED
    BY <2>4, <2>6, <2>8, <2>9, <2>10
<1>4. Nat = T
  <2> HIDE DEF Sound
  <2>1. 0 \in T /\ \A n \in Nat : n \in T => n + 1 \in T
    BY <1>2, <1>3
  <2> HIDE DEF T
  <2>2. T \in SUBSET Nat
    BY DEF T
  <2>3. QED
    BY <2>1, <2>2, Induction
<1>5. Sound(m)
  <2> HIDE DEF Sound
  <2> QED
    BY <1>1, <1>4
<1>6. QED
  BY <1>5

\* What is left of such a log verifies exactly if it is a stretch of it: a row
\* missing in the middle is noticed, rows missing at either end are not.
THEOREM StretchesVerify ==
  ASSUME NEW Entries, NEW log \in Seq(Entries), Verifies(log),
         DistinctRows(log),
         NEW positions \in Seq(1..Len(log)), Increasing(positions)
  PROVE  Verifies(Kept(log, positions))
           <=> \A j \in 2..Len(positions) : positions[j] = positions[j - 1] + 1
<1> DEFINE kept == Kept(log, positions)
           m == Len(positions)
<1>1. m \in Nat /\ Len(kept) = m /\ Len(log) \in Nat
  BY DEF Kept
<1>2. \A j \in 1..m : kept[j] = log[positions[j]] /\ positions[j] \in 1..Len(log)
  BY DEF Kept
<1>3. \A j \in 1..m : kept[j].entry_hash = EntryHash(kept[j].prev_hash, kept[j].row)
  <2> HIDE DEF kept, m
  <2> QED
    BY <1>2 DEF Verifies
<1>4. ASSUME NEW j \in 2..m
      PROVE  /\ positions[j - 1] < positions[j]
             /\ positions[j] - 1 \in 1..Len(log)
             /\ kept[j].prev_hash = log[positions[j] - 1].entry_hash
             /\ kept[j - 1].entry_hash = log[positions[j - 1]].entry_hash
  <2>1. j \in 1..m /\ j - 1 \in 1..m /\ j - 1 < j
    BY <1>1
  <2> HIDE DEF kept, m
  <2>2. positions[j - 1] < positions[j] /\ positions[j - 1] \in 1..Len(log) /\ positions[j] \in 1..Len(log)
    BY <1>2, <2>1 DEF Increasing, m
  <2>3. QED
    BY <1>1, <1>2, <2>1, <2>2 DEF Verifies
<1>5. ASSUME NEW i \in 1..Len(log), NEW j \in 1..Len(log), log[i].entry_hash = log[j].entry_hash
      PROVE  i = j
  <2>1. EntryHash(log[i].prev_hash, log[i].row) = EntryHash(log[j].prev_hash, log[j].row)
    BY <1>5 DEF Verifies
  <2>2. log[i].row = log[j].row
    BY <2>1 DEF EntryHash
  <2>3. QED
    BY <2>2 DEF DistinctRows
<1>6. Verifies(kept) <=> \A j \in 2..m : kept[j].prev_hash = kept[j - 1].entry_hash
  <2> HIDE DEF kept, m
  <2>1. \A j \in 1..m : j > 1 <=> j \in 2..m
    BY <1>1
  <2>2. QED
    BY <1>1, <1>3, <2>1 DEF Verifies
<1>7. ASSUME NEW j \in 2..m
      PROVE  kept[j].prev_hash = kept[j - 1].entry_hash <=> positions[j] = positions[j - 1] + 1
  <2> HIDE DEF kept
  <2>1. positions[j - 1] \in 1..Len(log) /\ positions[j] - 1 \in 1..Len(log)
    BY <1>1, <1>2, <1>4
  <2>2. kept[j].prev_hash = kept[j - 1].entry_hash
          <=> log[positions[j] - 1].entry_hash = log[positions[j - 1]].entry_hash
    BY <1>4
  <2>3. log[positions[j] - 1].entry_hash = log[positions[j - 1]].entry_hash
          <=> positions[j] - 1 = positions[j - 1]
    BY <1>5, <2>1
  <2>4. positions[j] \in Int /\ positions[j - 1] \in Int
    BY <1>1, <1>2
  <2>5. QED
    BY <2>2, <2>3, <2>4
<1>8. QED
  BY <1>6, <1>7
===============================================================================
