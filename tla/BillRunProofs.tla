--------------------------- MODULE BillRunProofs ---------------------------
(***************************************************************************)
(* A bill is never overdrawn and its thread never forks, for every bill    *)
(* and every sequence of spends.  The invariant is strengthened with what  *)
(* the walk remembers: while nothing broke, `last` is the spend fed last   *)
(* and everything fed is backed; after a break the spend fed last is not.  *)
(***************************************************************************)
EXTENDS BillRun, DataLemmas

\* The last spend while its end is still open.
OpenHours == IF fed # <<>> /\ ~closed /\ Backed(Len(fed))
        THEN fed[Len(fed)].units ELSE 0

Overdraft == run.consumed + OpenHours <= bill.credited

\* What the run remembers of the spends fed.
Memory ==
  /\ ~run.broken => /\ \A i \in 1..Len(fed) : Backed(i)
                    /\ run.last = IF fed = <<>> THEN NoRef
                                  ELSE fed[Len(fed)].ref
  /\ run.broken => fed # <<>> /\ ~Backed(Len(fed))

\* The spends fed are different blocks, and only they are backed.
Distinct ==
  /\ \A i, j \in 1..Len(fed) : fed[i].ref = fed[j].ref => i = j
  /\ \A r \in run.backed : \E i \in 1..Len(fed) : fed[i].ref = r

Chained ==
  /\ \A i, j \in 1..Len(fed) : i < j /\ Backed(j) => Backed(i)
  /\ \A i \in 1..Len(fed) :
       Backed(i) => fed[i].prev = IF i = 1 THEN NoRef ELSE fed[i - 1].ref

IInv == TypeOK /\ Overdraft /\ Memory /\ Distinct /\ Chained

Runs == [consumed : Nat, backed : SUBSET Refs, unbacked : SUBSET Refs,
         last : Refs \cup {NoRef}, broken : BOOLEAN]

-----------------------------------------------------------------------------
\* Settling a spend keeps what the run says of every spend and adds at most
\* the spend's own hours, once (BillRun::settle).
LEMMA SettleAdds ==
  ASSUME NEW r \in Runs, NEW s \in AllSpends, NEW t
  PROVE  /\ Settle(r, s, t) \in Runs
         /\ Settle(r, s, t).backed = r.backed
         /\ Settle(r, s, t).unbacked = r.unbacked
         /\ Settle(r, s, t).last = r.last
         /\ Settle(r, s, t).broken = r.broken
         /\ Settle(r, s, t).consumed <=
              r.consumed + IF s.ref \in r.backed THEN s.units ELSE 0
<1>1. s.units \in Nat
  BY HoursAssumption DEF AllSpends
<1>2. CASE s.ref \notin r.backed \/ Dead(s, t)
  BY <1>1, <1>2 DEF Settle, Runs
<1>3. CASE ~(s.ref \notin r.backed \/ Dead(s, t))
  <2>1. Settle(r, s, t) = [r EXCEPT !.consumed = @ + s.units]
    BY <1>3 DEF Settle
  <2>2. QED
    BY <1>1, <1>3, <2>1 DEF Runs
<1>4. QED
  BY <1>2, <1>3

\* Judging a spend never changes the hours held (BillRun::judge).
LEMMA JudgeKeepsHours ==
  ASSUME NEW b, NEW r \in Runs, NEW s \in AllSpends
  PROVE  Judge(b, r, s) \in Runs /\ Judge(b, r, s).consumed = r.consumed
BY DEF Judge, Runs, AllSpends

LEMMA InitHolds == Init => IInv
<1> SUFFICES ASSUME Init PROVE IInv
  OBVIOUS
<1>1. fed = <<>> /\ Len(fed) = 0 /\ run = NewRun
  BY DEF Init
<1>2. bill.credited \in Nat
  BY HoursAssumption, BillsAssumption DEF Init, AllBills
<1>3. TypeOK
  <2>1. NewRun \in Runs
    BY DEF NewRun, Runs
  <2>2. fed \in Seq(Spends)
    BY <1>1
  <2>3. closed \in BOOLEAN /\ bill \in Bills
    BY DEF Init
  <2>4. QED
    BY <1>1, <2>1, <2>2, <2>3 DEF TypeOK, Runs
<1>4. Overdraft
  BY <1>1, <1>2 DEF Overdraft, OpenHours, NewRun
<1>5. Memory /\ Distinct /\ Chained
  BY <1>1 DEF Memory, Distinct, Chained, NewRun
<1>6. QED
  BY <1>3, <1>4, <1>5 DEF IInv

\* The run the next spend is judged on: what the spend before it held is now
\* within `consumed`, and still within the bill.
LEMMA BeforeFits ==
  ASSUME IInv, ~closed, NEW s \in Spends
  PROVE  /\ Before(s) \in Runs
         /\ Before(s).backed = run.backed
         /\ Before(s).last = run.last
         /\ Before(s).broken = run.broken
         /\ Before(s).consumed <= bill.credited
<1>1. run \in Runs
  BY DEF IInv, TypeOK, Runs
<1>2. bill.credited \in Nat
  BY BillsAssumption, HoursAssumption DEF IInv, TypeOK, AllBills
<1>3. CASE fed = <<>>
  BY <1>1, <1>2, <1>3 DEF Before, IInv, Overdraft, OpenHours, Runs
<1>4. CASE fed # <<>>
  <2>1. Len(fed) \in 1..Len(fed) /\ fed[Len(fed)] \in AllSpends
    BY <1>4, SpendsAssumption DEF IInv, TypeOK
  <2>2. fed[Len(fed)].units \in Nat
    BY <2>1, HoursAssumption DEF AllSpends
  <2>3. Before(s) = Settle(run, fed[Len(fed)], s.time)
    BY <1>4 DEF Before
  <2>4. run.consumed + (IF fed[Len(fed)].ref \in run.backed
                        THEN fed[Len(fed)].units ELSE 0) <= bill.credited
    BY <1>4 DEF IInv, Overdraft, OpenHours, Backed
  <2>5. QED
    BY <1>1, <1>2, <2>1, <2>2, <2>3, <2>4, SettleAdds DEF Runs
<1>5. QED
  BY <1>3, <1>4

LEMMA SpendKeeps ==
  ASSUME IInv, NEW s \in Spends, Spend(s)
  PROVE  IInv'
<1> PICK n \in Nat : n = Len(fed)
  BY DEF IInv, TypeOK
<1> PICK r : r = Before(s)
  OBVIOUS
<1>1. /\ s \in AllSpends
      /\ s.units \in Nat
      /\ s.ref \in Refs
  BY SpendsAssumption, HoursAssumption DEF AllSpends
<1>2. /\ fed \in Seq(Spends)
      /\ n \in Nat
      /\ n = Len(fed)
      /\ fed' = Append(fed, s)
      /\ Len(fed') = n + 1
      /\ fed'[n + 1] = s
      /\ \A i \in 1..n : fed'[i] = fed[i]
      /\ fed' \in Seq(Spends)
      /\ fed' # <<>>
  BY DEF IInv, TypeOK, Spend
<1>3. ~closed /\ closed' = closed /\ bill' = bill /\ run' = Judge(bill, r, s)
  BY DEF Spend
<1>4. /\ r \in Runs
      /\ r.backed = run.backed
      /\ r.last = run.last
      /\ r.broken = run.broken
      /\ r.consumed <= bill.credited
  BY <1>3, BeforeFits
<1>5. /\ run' \in Runs
      /\ run'.consumed = r.consumed
      /\ (~run.broken /\ ~Fault(bill, r, s)) =>
           run'.backed = run.backed \cup {s.ref} /\ run'.last = s.ref /\ ~run'.broken
      /\ (run.broken \/ Fault(bill, r, s)) =>
           run'.backed = run.backed /\ run'.broken
  <2>1. r \in Runs /\ s \in AllSpends
    BY <1>1, <1>4
  <2>2. /\ Judge(bill, r, s) \in Runs
        /\ Judge(bill, r, s).consumed = r.consumed
    BY <2>1, JudgeKeepsHours
  <2>3. ASSUME ~r.broken, ~Fault(bill, r, s)
        PROVE  /\ Judge(bill, r, s).backed = r.backed \cup {s.ref}
               /\ Judge(bill, r, s).last = s.ref
               /\ Judge(bill, r, s).broken = FALSE
    BY <2>1, <2>3 DEF Judge, Runs, AllSpends
  <2>4. ASSUME r.broken \/ Fault(bill, r, s)
        PROVE  /\ Judge(bill, r, s).backed = r.backed
               /\ Judge(bill, r, s).broken = TRUE
    BY <2>1, <2>4 DEF Judge, Runs, AllSpends
  <2>5. QED
    BY <1>3, <1>4, <2>2, <2>3, <2>4
<1>6. \A i \in 1..n : fed[i].ref # s.ref
  BY DEF Spend
<1>7. s.ref \notin run.backed
  BY <1>6 DEF IInv, Distinct
<1>8. TypeOK'
  BY <1>2, <1>3, <1>5 DEF IInv, TypeOK, Runs
<1>9. Overdraft'
  <2>1. bill.credited \in Nat /\ r.consumed \in Nat
    BY <1>4, BillsAssumption, HoursAssumption DEF IInv, TypeOK, AllBills, Runs
  <2>2. CASE ~run.broken /\ ~Fault(bill, r, s)
    <3>1. s.units <= bill.credited - r.consumed
      BY <1>1, <2>1, <2>2 DEF Fault, Room
    <3>2. OpenHours' = s.units
      BY <1>2, <1>3, <1>5, <2>2 DEF OpenHours, Backed
    <3>3. QED
      BY <1>1, <1>3, <1>5, <2>1, <3>1, <3>2 DEF Overdraft
  <2>3. CASE run.broken \/ Fault(bill, r, s)
    <3>1. OpenHours' = 0
      BY <1>2, <1>5, <1>7, <2>3 DEF OpenHours, Backed
    <3>2. QED
      BY <1>3, <1>4, <1>5, <2>1, <3>1 DEF Overdraft
  <2>4. QED
    BY <2>2, <2>3
<1>10. Distinct'
  <2>1. \A i, j \in 1..(n + 1) : fed'[i].ref = fed'[j].ref => i = j
    BY <1>2, <1>6 DEF IInv, Distinct
  <2>2. \A x \in run'.backed : \E i \in 1..(n + 1) : fed'[i].ref = x
    BY <1>2, <1>5 DEF IInv, Distinct
  <2>3. QED
    BY <1>2, <2>1, <2>2 DEF Distinct
<1>11. \A i \in 1..n : Backed(i)' <=> Backed(i)
  BY <1>2, <1>5, <1>6 DEF Backed
<1>12. Backed(n + 1)' <=> ~run.broken /\ ~Fault(bill, r, s)
  BY <1>2, <1>5, <1>7 DEF Backed
<1>13. Memory'
  <2>1. CASE ~run.broken /\ ~Fault(bill, r, s)
    <3>1. \A i \in 1..(n + 1) : Backed(i)'
      BY <1>2, <1>11, <1>12, <2>1 DEF IInv, Memory
    <3>2. ~run'.broken /\ run'.last = fed'[n + 1].ref
      BY <1>2, <1>5, <2>1
    <3>3. QED
      BY <1>2, <3>1, <3>2 DEF Memory
  <2>2. CASE run.broken \/ Fault(bill, r, s)
    <3>1. run'.broken /\ ~Backed(n + 1)'
      BY <1>5, <1>12, <2>2
    <3>2. QED
      BY <1>2, <3>1 DEF Memory, Backed
  <2>3. QED
    BY <2>1, <2>2
<1>14. Chained'
  <2>1. ASSUME NEW i \in 1..(n + 1), NEW j \in 1..(n + 1), i < j, Backed(j)'
        PROVE  Backed(i)'
    <3>1. CASE j \in 1..n
      BY <1>2, <1>11, <2>1, <3>1 DEF IInv, Chained
    <3>2. CASE j = n + 1
      <4>1. ~run.broken /\ i \in 1..n
        BY <1>2, <1>12, <2>1, <3>2
      <4>2. QED
        BY <1>11, <4>1 DEF IInv, Memory
    <3>3. QED
      BY <1>2, <3>1, <3>2
  <2>2. ASSUME NEW i \in 1..(n + 1), Backed(i)'
        PROVE  fed'[i].prev = IF i = 1 THEN NoRef ELSE fed'[i - 1].ref
    <3>1. CASE i \in 1..n
      <4>1. Backed(i)
        BY <1>11, <2>2, <3>1
      <4>2. fed[i].prev = IF i = 1 THEN NoRef ELSE fed[i - 1].ref
        BY <3>1, <4>1 DEF IInv, Chained
      <4>3. i # 1 => i - 1 \in 1..n
        BY <1>2, <3>1
      <4>4. QED
        BY <1>2, <3>1, <4>2, <4>3
    <3>2. CASE i = n + 1
      <4>1. ~run.broken /\ ~Fault(bill, r, s)
        BY <1>12, <2>2, <3>2
      <4>2. s.prev = run.last
        BY <1>4, <4>1 DEF Fault
      <4>3. run.last = IF fed = <<>> THEN NoRef ELSE fed[n].ref
        BY <4>1 DEF IInv, Memory
      <4>4. (fed = <<>> <=> i = 1) /\ (i # 1 => n \in 1..n /\ i - 1 = n)
        BY <1>2, <3>2
      <4>5. QED
        BY <1>2, <3>2, <4>2, <4>3, <4>4
    <3>3. QED
      BY <1>2, <3>1, <3>2
  <2>3. QED
    BY <1>2, <2>1, <2>2 DEF Chained
<1>15. QED
  BY <1>8, <1>9, <1>10, <1>13, <1>14 DEF IInv

LEMMA CloseKeeps ==
  ASSUME IInv, Close
  PROVE  IInv'
<1>1. bill' = bill /\ fed' = fed /\ ~closed /\ closed'
  BY DEF Close
<1>2. /\ run' \in Runs
      /\ run'.backed = run.backed
      /\ run'.last = run.last
      /\ run'.broken = run.broken
      /\ run'.consumed <= bill.credited
  <2>1. run \in Runs /\ bill.credited \in Nat
    BY BillsAssumption, HoursAssumption DEF IInv, TypeOK, Runs, AllBills
  <2>2. CASE fed = <<>>
    BY <2>1, <2>2 DEF Close, IInv, Overdraft, OpenHours, Runs
  <2>3. CASE fed # <<>>
    <3>1. fed[Len(fed)] \in AllSpends
      BY <2>3, SpendsAssumption DEF IInv, TypeOK
    <3>2. fed[Len(fed)].units \in Nat
      BY <3>1, HoursAssumption DEF AllSpends
    <3>3. run' = Settle(run, fed[Len(fed)], NoTime)
      BY <2>3 DEF Close
    <3>4. run.consumed + (IF fed[Len(fed)].ref \in run.backed
                          THEN fed[Len(fed)].units ELSE 0) <= bill.credited
      BY <1>1, <2>3 DEF IInv, Overdraft, OpenHours, Backed
    <3>5. QED
      BY <2>1, <3>1, <3>2, <3>3, <3>4, SettleAdds DEF Runs
  <2>4. QED
    BY <2>2, <2>3
<1>3. \A i : Backed(i)' <=> Backed(i)
  BY <1>1, <1>2 DEF Backed
<1>4. TypeOK'
  BY <1>1, <1>2 DEF IInv, TypeOK, Runs
<1>5. Overdraft'
  <2>1. OpenHours' = 0
    BY <1>1 DEF OpenHours
  <2>2. QED
    BY <1>1, <1>2, <2>1 DEF Overdraft, Runs
<1>6. Memory'
  BY <1>1, <1>2, <1>3 DEF IInv, Memory
<1>7. Distinct'
  BY <1>1, <1>2 DEF IInv, Distinct
<1>8. Chained'
  BY <1>1, <1>3 DEF IInv, Chained
<1>9. QED
  BY <1>4, <1>5, <1>6, <1>7, <1>8 DEF IInv

\* The invariant of the walk.
THEOREM Invariance == Spec => []IInv
<1>1. IInv /\ [Next]_vars => IInv'
  <2> SUFFICES ASSUME IInv, [Next]_vars PROVE IInv'
    OBVIOUS
  <2>1. CASE \E s \in Spends : Spend(s)
    BY <2>1, SpendKeeps
  <2>2. CASE Close
    BY <2>2, CloseKeeps
  <2>3. CASE UNCHANGED vars
    BY <2>3 DEF vars, IInv, TypeOK, Overdraft, OpenHours, Memory, Distinct, Chained,
                Backed
  <2>4. QED
    BY <2>1, <2>2, <2>3 DEF Next
<1>2. QED
  BY <1>1, InitHolds, PTL DEF Spec

\* Every variable keeps its type.
THEOREM TypeCorrect == Spec => []TypeOK
BY Invariance, PTL DEF IInv

\* For every bill, every number of spends and every way they end, the hours a
\* bill's spends hold stay within what the bill brought (settlement.cpp
\* BillRun): nobody pays twice with the same hours.
THEOREM BillNeverOverdrawn == Spec => []NeverOverdrawn
<1>1. IInv => NeverOverdrawn
  BY DEF IInv, Overdraft, OpenHours, NeverOverdrawn
<1>2. QED
  BY <1>1, Invariance, PTL

\* The backed spends form one line from the first: a forked thread has at most
\* one side backed (settlement.h 135-142).
THEOREM BillThreadIsLinear == Spec => []ThreadIsLinear
<1>1. IInv => ThreadIsLinear
  <2> SUFFICES ASSUME IInv PROVE ThreadIsLinear
    OBVIOUS
  <2>1. ASSUME NEW i \in 1..Len(fed), NEW j \in 1..Len(fed), i < j,
               Backed(i), Backed(j)
        PROVE  fed[i].prev # fed[j].prev
    <3>1. Len(fed) \in Nat /\ \A k \in 1..Len(fed) : fed[k].ref \in Refs
      BY SpendsAssumption DEF IInv, TypeOK, AllSpends
    <3>2. j - 1 \in 1..Len(fed) /\ fed[j].prev = fed[j - 1].ref
      BY <2>1, <3>1 DEF IInv, Chained
    <3>3. CASE i = 1
      BY <2>1, <3>1, <3>2, <3>3, RefsAssumption DEF IInv, Chained
    <3>4. CASE i # 1
      <4>1. i - 1 \in 1..Len(fed) /\ fed[i].prev = fed[i - 1].ref
        BY <2>1, <3>1, <3>4 DEF IInv, Chained
      <4>2. i - 1 # j - 1
        BY <2>1, <3>1
      <4>3. QED
        BY <3>2, <4>1, <4>2 DEF IInv, Distinct
    <3>5. QED
      BY <3>3, <3>4
  <2>2. QED
    BY <2>1 DEF IInv, Chained, ThreadIsLinear
<1>2. QED
  BY <1>1, Invariance, PTL


-----------------------------------------------------------------------------
(* The walk against its definition.                                        *)

\* The hours held are counted spend by spend.
HeldRule ==
  \A i \in 1..MaxSpends :
    HeldBefore[i] = IF i = 1 THEN 0
                    ELSE HeldBefore[i - 1] + IF Holds(i - 1) THEN fed[i - 1].units ELSE 0

LEMMA HeldIs == HeldRule
<1> DEFINE Laid(f) == [i \in 1..MaxSpends |->
             IF i = 1 THEN 0 ELSE f[i - 1] + IF Holds(i - 1) THEN fed[i - 1].units ELSE 0]
<1>1. PICK w : w = [i \in 0..MaxSpends |-> IF Holds(i) THEN fed[i].units ELSE 0]
  OBVIOUS
<1>2. PICK g : g = [i \in 1..MaxSpends |-> IF i = 1 THEN 0 ELSE g[i - 1] + w[i - 1]]
  BY RunningSum, BoundAssumption
<1>3. g = Laid(g)
  <2>1. \A i \in 1..MaxSpends : i - 1 \in 0..MaxSpends
    BY BoundAssumption
  <2> QED BY <1>1, <1>2, <2>1
<1>4. HeldBefore = CHOOSE f : f = Laid(f)
  BY DEF HeldBefore
<1>5. HeldBefore = Laid(HeldBefore)
  <2> HIDE DEF Laid
  <2> QED BY <1>3, <1>4
<1> QED BY <1>5 DEF HeldRule

\* While nothing broke, the hours taken are those the definition counts.
Meaning ==
  /\ Len(fed) <= MaxSpends
  /\ WalkMeetsDefinition
  /\ ~run.broken /\ ~closed =>
       run.consumed = IF fed = <<>> THEN 0 ELSE HeldBefore[Len(fed)]

\* A spend more changes nothing of what was said of the spends before it.
LEMMA SayingStays ==
  ASSUME IInv, Meaning, NEW s \in Spends, Spend(s)
  PROVE  \A i \in 1..Len(fed) : /\ HeldBefore[i]' = HeldBefore[i]
                                /\ GoodAlone(i)' <=> GoodAlone(i)
<1>1. PICK n \in Nat : n = Len(fed)
  BY DEF IInv, TypeOK
<1>2. /\ bill' = bill /\ Len(fed') = n + 1 /\ fed'[n + 1] = s
      /\ \A i \in 1..n : fed'[i] = fed[i] /\ i \in 1..MaxSpends
  BY <1>1, BoundAssumption DEF IInv, TypeOK, Meaning, Spend
<1>3. \A i \in 1..n - 1 : Holds(i)' <=> Holds(i)
  BY <1>1, <1>2 DEF Holds, Dead
<1>4. PICK f, g : f = HeldBefore /\ g = HeldBefore'
  OBVIOUS
<1>5. \A i \in 1..n :
        /\ f[i] = IF i = 1 THEN 0 ELSE f[i - 1] + IF Holds(i - 1) THEN fed[i - 1].units ELSE 0
        /\ g[i] = IF i = 1 THEN 0 ELSE g[i - 1] + IF Holds(i - 1)' THEN fed'[i - 1].units ELSE 0
  <2>1. HeldRule /\ HeldRule'
    BY HeldIs, PTL
  <2> QED BY <1>2, <1>4, <2>1 DEF HeldRule
<1> DEFINE In == {k \in 0..n : \A i \in 1..k : g[i] = f[i]}
<1>6. 0 \in In
  BY <1>1
<1>7. ASSUME NEW k \in 0..n - 1, k \in In
      PROVE  k + 1 \in In
  <2>1. PICK i : i = k + 1
    OBVIOUS
  <2>2. i \in 1..n /\ i \in 0..n /\ 1..i = 1..k \cup {i}
    BY <1>1, <1>7, <2>1
  <2>3. i # 1 => i - 1 \in 1..k /\ i - 1 \in 1..n - 1 /\ i - 1 \in 1..n
    BY <1>1, <1>7, <2>1
  <2>4. g[i] = f[i]
    BY <1>2, <1>3, <1>5, <1>7, <2>2, <2>3
  <2> QED BY <1>7, <2>1, <2>2, <2>4
<1>8. \A i \in 1..n : g[i] = f[i]
  <2> HIDE DEF In
  <2>1. \A k \in 0..n - 1 : k \in In => k + 1 \in In
    BY <1>7
  <2>2. \A k \in 0..n : k \in In
    BY <1>1, <1>6, <2>1, UpTo
  <2> QED BY <1>1, <2>2 DEF In
<1>9. ASSUME NEW i \in 1..n
      PROVE  GoodAlone(i)' <=> GoodAlone(i)
  <2>1. i # 1 => i - 1 \in 1..n
    BY <1>1
  <2>2. HeldBefore[i]' = HeldBefore[i]
    BY <1>4, <1>8
  <2> QED BY <1>2, <2>1, <2>2 DEF GoodAlone
<1> QED BY <1>1, <1>4, <1>8, <1>9


LEMMA SpendMeans ==
  ASSUME IInv, Meaning, NEW s \in Spends, Spend(s), IInv'
  PROVE  Meaning'
<1>1. PICK n \in Nat : n = Len(fed)
  BY DEF IInv, TypeOK
<1> PICK r : r = Before(s)
  OBVIOUS
<1>2. /\ bill' = bill /\ Len(fed') = n + 1 /\ fed'[n + 1] = s /\ fed' # <<>>
      /\ \A i \in 1..n : fed'[i] = fed[i]
      /\ n + 1 \in 1..MaxSpends /\ ~closed /\ ~closed'
      /\ run' = Judge(bill, r, s)
  BY <1>1, BoundAssumption DEF IInv, TypeOK, Meaning, Spend
<1>3. /\ r \in Runs /\ r.backed = run.backed /\ r.last = run.last /\ r.broken = run.broken
  BY <1>1, <1>2, BeforeFits
<1>4. s \in AllSpends /\ s.units \in Nat /\ s.frozen \in BOOLEAN /\ s.index \in Nat
      /\ bill.credited \in Nat /\ bill.arrived \in Int /\ r.consumed \in Nat
  <2>1. s \in AllSpends /\ bill \in AllBills
    BY SpendsAssumption, BillsAssumption DEF IInv, TypeOK
  <2>2. s.units \in Nat /\ s.frozen \in BOOLEAN /\ s.index \in Nat
    BY <2>1, HoursAssumption, IndexAssumption DEF AllSpends
  <2>3. bill.credited \in Nat /\ bill.arrived \in Int
    <3>1. bill.credited \in Hours /\ bill.arrived \in Indexes \cup {NoIndex}
      BY <2>1 DEF AllBills
    <3>2. NoIndex \in Int
      BY DEF NoIndex
    <3>3. bill.credited \in Nat
      BY <3>1, HoursAssumption
    <3>4. bill.arrived \in Int
      <4>1. PICK x : x = bill.arrived
        OBVIOUS
      <4>2. x \in Indexes \/ x = NoIndex
        BY <3>1, <4>1
      <4>3. \A i \in Indexes : i \in Int
        BY IndexAssumption
      <4> QED BY <3>2, <4>1, <4>2, <4>3
    <3> QED BY <3>3, <3>4
  <2> QED BY <1>3, <2>1, <2>2, <2>3 DEF Runs
<1>5. /\ run'.consumed = r.consumed
      /\ run'.backed = IF run.broken \/ Fault(bill, r, s) THEN run.backed
                       ELSE run.backed \cup {s.ref}
      /\ run'.broken <=> run.broken \/ Fault(bill, r, s)
  BY <1>2, <1>3, <1>4 DEF Judge, Runs, AllSpends
<1>6. /\ \A i \in 1..n : fed[i].ref # s.ref
      /\ s.ref \notin run.backed
  BY <1>1 DEF Spend, IInv, Distinct
<1>7. \A i \in 1..n : /\ Backed(i)' <=> Backed(i)
                      /\ GoodAlone(i)' <=> GoodAlone(i)
                      /\ HeldBefore[i]' = HeldBefore[i]
  BY <1>1, <1>2, <1>5, <1>6, SayingStays DEF Backed
<1>8. Backed(n + 1)' <=> ~run.broken /\ ~Fault(bill, r, s)
  BY <1>2, <1>5, <1>6 DEF Backed
<1>9. /\ ~run.broken => \A i \in 1..n : GoodAlone(i)
      /\ run.broken => \E i \in 1..n : ~GoodAlone(i)
  <2>1. ~run.broken => \A i \in 1..n : Backed(i)
    BY <1>1 DEF IInv, Memory
  <2>2. run.broken => n \in 1..n /\ ~Backed(n)
    BY <1>1 DEF IInv, Memory, TypeOK
  <2>3. \A i \in 1..n : i \in 1..i /\ 1..i \subseteq 1..n
    OBVIOUS
  <2> QED BY <1>1, <2>1, <2>2, <2>3 DEF Meaning, WalkMeetsDefinition
<1>10. HeldRule'
  BY HeldIs, PTL
<1>11. ~run.broken => HeldBefore[n + 1]' = r.consumed
  <2> SUFFICES ASSUME ~run.broken PROVE HeldBefore[n + 1]' = r.consumed
    OBVIOUS
  <2>1. PICK g : g = HeldBefore'
    OBVIOUS
  <2>2. g[n + 1] = IF n + 1 = 1 THEN 0
                   ELSE g[n] + IF Holds(n)' THEN fed'[n].units ELSE 0
    BY <1>2, <1>10, <2>1 DEF HeldRule
  <2>3. CASE fed = <<>>
    <3>1. n = 0 /\ r = run /\ run.consumed = 0
      BY <1>1, <1>2, <2>3 DEF Before, Meaning
    <3> QED BY <2>1, <2>2, <3>1
  <2>4. CASE fed # <<>>
    <3>1. n \in 1..n /\ r = Settle(run, fed[n], s.time) /\ run.consumed = HeldBefore[n]
      BY <1>1, <1>2, <2>4 DEF Before, Meaning, IInv, TypeOK
    <3>2. fed[n].ref \in run.backed
      BY <1>1, <3>1 DEF IInv, Memory, Backed
    <3>3. g[n] = run.consumed /\ fed'[n] = fed[n]
      BY <1>2, <1>7, <2>1, <3>1
    <3>4. Holds(n)' <=> ~Dead(fed[n], s.time)
      BY <1>2, <3>1, <3>3 DEF Holds, Dead
    <3>5. fed[n].units \in Nat /\ run.consumed \in Nat
      <4>1. fed[n] \in AllSpends
        BY <1>1, <3>1, SpendsAssumption DEF IInv, TypeOK
      <4> QED BY <4>1, HoursAssumption DEF IInv, TypeOK, AllSpends
    <3>6. r.consumed = run.consumed + IF Dead(fed[n], s.time) THEN 0 ELSE fed[n].units
      <4>1. run \in Runs
        BY DEF IInv, TypeOK, Runs
      <4>2. CASE Dead(fed[n], s.time)
        BY <3>1, <3>5, <4>2 DEF Settle
      <4>3. CASE ~Dead(fed[n], s.time)
        <5>1. r = [run EXCEPT !.consumed = @ + fed[n].units]
          BY <3>1, <3>2, <4>3 DEF Settle
        <5> QED BY <4>1, <4>3, <5>1 DEF Runs
      <4> QED BY <4>2, <4>3
    <3> QED BY <2>1, <2>2, <3>1, <3>3, <3>4, <3>5, <3>6
  <2> QED BY <2>3, <2>4
<1>12. ~run.broken => (GoodAlone(n + 1)' <=> ~Fault(bill, r, s))
  <2> SUFFICES ASSUME ~run.broken PROVE GoodAlone(n + 1)' <=> ~Fault(bill, r, s)
    OBVIOUS
  <2>1. r.last = IF n + 1 = 1 THEN NoRef ELSE fed'[n].ref
    BY <1>1, <1>2, <1>3 DEF IInv, Memory, TypeOK
  <2>2. GoodAlone(n + 1)' <=>
          /\ ~s.frozen /\ s.node = bill.purse /\ s.index > bill.arrived
          /\ s.prev = r.last /\ r.consumed + s.units <= bill.credited
    BY <1>2, <1>11, <2>1 DEF GoodAlone
  <2> QED BY <1>4, <2>2 DEF Fault, Room
<1>13. WalkMeetsDefinition'
  <2>1. ASSUME NEW i \in 1..n + 1
        PROVE  Backed(i)' <=> \A j \in 1..i : GoodAlone(j)'
    <3>1. CASE i \in 1..n
      <4>1. 1..i \subseteq 1..n
        BY <3>1
      <4> QED BY <1>1, <1>7, <3>1, <4>1 DEF Meaning, WalkMeetsDefinition
    <3>2. CASE i = n + 1
      <4>1. 1..i = 1..n \cup {n + 1}
        BY <3>2
      <4> QED BY <1>7, <1>8, <1>9, <1>12, <3>2, <4>1
    <3> QED BY <3>1, <3>2
  <2> QED BY <1>2, <2>1 DEF WalkMeetsDefinition
<1> QED BY <1>2, <1>5, <1>11, <1>13 DEF Meaning

LEMMA CloseMeans ==
  ASSUME IInv, Meaning, Close, IInv'
  PROVE  Meaning'
<1>1. bill' = bill /\ fed' = fed /\ closed'
  BY DEF Close
<1>2. run'.backed = run.backed
  <2>1. run \in Runs
    BY DEF IInv, TypeOK, Runs
  <2>2. ASSUME fed # <<>>
        PROVE  fed[Len(fed)] \in AllSpends
    BY <2>2, SpendsAssumption DEF IInv, TypeOK
  <2> QED BY <2>1, <2>2, SettleAdds DEF Close
<1>3. HeldBefore' = HeldBefore
  BY <1>1 DEF HeldBefore, Holds, Dead
<1>4. WalkMeetsDefinition'
  BY <1>1, <1>2, <1>3 DEF Meaning, WalkMeetsDefinition, Backed, GoodAlone
<1> QED BY <1>1, <1>4 DEF Meaning

\* The incremental walk gives the verdict the rules define, whatever the spends,
\* in any number: exactly the spends up to the first that breaks a rule by
\* itself or does not fit beside the hours held are backed.
THEOREM WalkIsTheRule == Spec => []WalkMeetsDefinition
<1>1. Init => Meaning
  <2> SUFFICES ASSUME Init PROVE Meaning
    OBVIOUS
  <2>1. fed = <<>> /\ Len(fed) = 0 /\ 1..Len(fed) = {} /\ run.consumed = 0
    BY DEF Init, NewRun
  <2> QED BY <2>1, BoundAssumption DEF Meaning, WalkMeetsDefinition
<1>2. ASSUME IInv, IInv', Meaning, [Next]_vars
      PROVE  Meaning'
  <2>1. CASE UNCHANGED vars
    <3>1. HeldBefore' = HeldBefore
      BY <2>1 DEF vars, HeldBefore, Holds, Dead
    <3> QED BY <1>2, <2>1, <3>1
            DEF vars, Meaning, WalkMeetsDefinition, Backed, GoodAlone
  <2> QED BY <1>2, <2>1, SpendMeans, CloseMeans DEF Next
<1>3. Meaning => WalkMeetsDefinition
  BY DEF Meaning
<1> QED BY <1>1, <1>2, <1>3, Invariance, PTL DEF Spec

=============================================================================
