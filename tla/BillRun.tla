------------------------------ MODULE BillRun ------------------------------
(***************************************************************************)
(* One bill walked spend by spend (records::BillRun, check_bill): the      *)
(* loop feeds the spends of a bill in branch order; each is judged on what *)
(* came before it and settled once the time of the next one is known.      *)
(* The spends are whatever a reader may find under this bill: any purse,   *)
(* any position, any earlier spend named, any end.                         *)
(***************************************************************************)
EXTENDS Settlement

CONSTANTS
  Refs,      \* hashes of spending blocks
  Nodes,     \* branches of the holder
  Indexes,   \* positions in a branch
  Hours,     \* sizes of bills and portions
  Times,     \* dates and terms
  Bills,     \* the bills that may have come in
  Spends,    \* the spends a reader may find under the bill
  MaxSpends  \* bound: spends of one bill a run looks at

AllBills == [purse : Nodes, credited : Hours, arrived : Indexes \cup {NoIndex}]

Answers == {"none", "accepted", "refused"}

AllSpends == [ref : Refs, node : Nodes, index : Indexes, time : Times,
              units : Hours, prev : Refs \cup {NoRef}, move : BOOLEAN,
              answer : Answers, until : Times, stands : BOOLEAN,
              frozen : BOOLEAN]

ASSUME HoursAssumption == Hours \subseteq Nat
ASSUME IndexAssumption == Indexes \subseteq Nat
ASSUME TimesAssumption == Times \subseteq Nat
ASSUME RefsAssumption  == NoRef \notin Refs
ASSUME BillsAssumption == Bills \subseteq AllBills
ASSUME SpendsAssumption == Spends \subseteq AllSpends
ASSUME BoundAssumption == MaxSpends \in Nat

VARIABLES
  bill,      \* what came in: purse, credited hours, arrival
  run,       \* the BillRun
  fed,       \* the spends judged so far, in order
  closed     \* the last spend is settled too: the loop ended

vars == <<bill, run, fed, closed>>

Init ==
  /\ bill \in Bills
  /\ run = NewRun
  /\ fed = <<>>
  /\ closed = FALSE

\* Mutant of Before: a spend is judged before the one ahead of it is settled.
BeforeUnsettled(s) == run

\* The run as the next spend finds it: the spend before it settled by the
\* time of this one.
Before(s) == IF fed = <<>> THEN run ELSE Settle(run, fed[Len(fed)], s.time)

\* check_bill sorts the spends by position and drops repeated blocks.
Spend(s) ==
  /\ ~closed
  /\ Len(fed) < MaxSpends
  /\ \A i \in 1..Len(fed) : fed[i].index <= s.index /\ fed[i].ref # s.ref
  /\ run' = Judge(bill, Before(s), s)
  /\ fed' = Append(fed, s)
  /\ UNCHANGED <<bill, closed>>

\* The last spend has no next one.
Close ==
  /\ ~closed
  /\ run' = IF fed = <<>> THEN run ELSE Settle(run, fed[Len(fed)], NoTime)
  /\ closed' = TRUE
  /\ UNCHANGED <<bill, fed>>

Next == (\E s \in Spends : Spend(s)) \/ Close

Spec == Init /\ [][Next]_vars

-----------------------------------------------------------------------------
TypeOK ==
  /\ bill \in Bills
  /\ run \in [consumed : Nat, backed : SUBSET Refs, unbacked : SUBSET Refs,
              last : Refs \cup {NoRef}, broken : BOOLEAN]
  /\ fed \in Seq(Spends)
  /\ closed \in BOOLEAN

Backed(i) == fed[i].ref \in run.backed

\* However the spends come and end, the hours a bill's spends hold never
\* exceed what the bill brought, counting the last spend as holding until its
\* end is known (settlement.cpp 98-139: a purse cannot pay twice with the same
\* hours).
NeverOverdrawn ==
  LET open == IF fed # <<>> /\ ~closed /\ Backed(Len(fed))
              THEN fed[Len(fed)].units ELSE 0
  IN  run.consumed + open <= bill.credited

\* The backed spends are the spends before the first break, and each of them
\* names the one before it, so no two of them continue the same spend: a
\* holder who forks his thread has at most one side of the fork backed
\* (settlement.h 135-142).
ThreadIsLinear ==
  /\ \A i, j \in 1..Len(fed) : i < j /\ Backed(j) => Backed(i)
  /\ \A i, j \in 1..Len(fed) :
       i < j /\ Backed(i) /\ Backed(j) => fed[i].prev # fed[j].prev

-----------------------------------------------------------------------------
(* The verdict against its definition: spend i is backed when every spend  *)
(* up to it lies in the purse, after the arrival, unfrozen, names its      *)
(* predecessor, and fits beside the hours held by those before it.         *)
Holds(i) == LET next == IF i < Len(fed) THEN fed[i + 1].time ELSE NoTime
            IN  ~Dead(fed[i], next)

HeldBefore[i \in 1..MaxSpends] ==
  IF i = 1 THEN 0
  ELSE HeldBefore[i - 1] + IF Holds(i - 1) THEN fed[i - 1].units ELSE 0

GoodAlone(i) ==
  /\ ~fed[i].frozen
  /\ fed[i].node = bill.purse
  /\ fed[i].index > bill.arrived
  /\ fed[i].prev = IF i = 1 THEN NoRef ELSE fed[i - 1].ref
  /\ HeldBefore[i] + fed[i].units <= bill.credited

\* The incremental walk backs exactly the longest prefix of spends that are
\* good by the definition above (settlement.h 135-142, "so a reader may pass a
\* prefix").
WalkMeetsDefinition ==
  \A i \in 1..Len(fed) : Backed(i) <=> \A j \in 1..i : GoodAlone(j)
=============================================================================
