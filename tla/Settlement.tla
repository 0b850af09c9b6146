----------------------------- MODULE Settlement -----------------------------
(***************************************************************************)
(* When a deal happens and what pays it: the pure rules of                 *)
(* modules/records/src/settlement.cpp, which the client and the aggregator *)
(* both call.  A deal is an OFFER until the purse it pays answers it by    *)
(* its term; paper issued by somebody else is spent from a BILL, the block *)
(* it came to its holder in, and every spend names the spend before it.    *)
(*                                                                         *)
(* Hashes and Refs are values compared for equality only; hours are        *)
(* natural numbers (the 1e-9 tolerance of the doubles disappears).         *)
(***************************************************************************)
EXTENDS Integers, Sequences, FiniteSets

NoRef   == -1          \* std::nullopt of a prev / last reference
NoTime  == -1          \* no next spend
NoIndex == -1          \* no arrival: a move is available at once

\* The only element of a set: The({e(x) : x \in {d}}) is e(d), d evaluated once.
The(S) == CHOOSE x \in S : TRUE

Later(a, b) == IF a >= b THEN a ELSE b

(***************************************************************************)
(* The seller's answer.  A reply is a record                               *)
(*   [deal, author, node, index, answer, time, since]                      *)
(* : the DealReply, where its block lies, and the latest time its branch   *)
(* claimed up to it as far as the reader knows.                            *)
(***************************************************************************)

\* Mutant of FirstWord: the latest word.
FirstWordIsLast(deal, replies) ==
  LET own == {r \in replies : /\ r.deal = deal.ref
                              /\ r.author = deal.to
                              /\ r.node = deal.toNode}
  IN  {r \in own : \A q \in own : r.index >= q.index}

\* Replies of the purse being paid; its branch is a line, so the one at the
\* lowest index is its first word.
FirstWord(deal, replies) ==
  LET own == {r \in replies : /\ r.deal = deal.ref
                              /\ r.author = deal.to
                              /\ r.node = deal.toNode}
  IN  {r \in own : \A q \in own : r.index <= q.index}

\* Mutant of Counted: the dates of the branch are not looked at.
CountedByOwnDate(deal, replies) ==
  {r \in FirstWord(deal, replies) : r.time <= deal.until}

\* The reply that counts: the first word, if it is not past the term by its
\* own date or by the latest date of its branch before it.
Counted(deal, replies) ==
  {r \in FirstWord(deal, replies) : Later(r.time, r.since) <= deal.until}

AnswerOf(deal, replies) ==
  IF Counted(deal, replies) = {} THEN "none"
  ELSE The(Counted(deal, replies)).answer

\* Mutant of DealStatus: the term is forgotten.
DealStatusOpen(until, answer, now) ==
  IF answer # "none" THEN answer ELSE "pending"

DealStatus(until, answer, now) ==
  IF answer # "none" THEN answer
  ELSE IF now > until THEN "expired" ELSE "pending"

(***************************************************************************)
(* Bills.  A bill is [purse, credited, arrived]; a spend of it is          *)
(*   [ref, node, index, time, units, prev, move, answer, until, stands,    *)
(*    frozen]                                                              *)
(* and BillRun, fed the spends in branch order, is                         *)
(*   [consumed, backed, unbacked, last, broken].                           *)
(***************************************************************************)
NewRun == [consumed |-> 0, backed |-> {}, unbacked |-> {}, last |-> NoRef,
           broken |-> FALSE]

Room(bill, run) == bill.credited - run.consumed

\* Mutants of Fault: a break of the thread, or a spend beyond what is left,
\* goes unnoticed.
FaultIgnoresThread(bill, run, s) ==
  \/ s.frozen
  \/ s.node # bill.purse
  \/ s.index <= bill.arrived
  \/ s.units > Room(bill, run)

FaultIgnoresRoom(bill, run, s) ==
  \/ s.frozen
  \/ s.node # bill.purse
  \/ s.index <= bill.arrived
  \/ s.prev # run.last

\* The first spend names none, a later one names exactly the one before.
Fault(bill, run, s) ==
  \/ s.frozen
  \/ s.node # bill.purse
  \/ s.index <= bill.arrived
  \/ s.prev # run.last
  \/ s.units > Room(bill, run)

\* BillRun::judge.  From the first fault on, everything is unbacked.
Judge(bill, run, s) ==
  IF run.broken \/ Fault(bill, run, s)
  THEN [run EXCEPT !.broken = TRUE, !.unbacked = @ \cup {s.ref}]
  ELSE [run EXCEPT !.backed = @ \cup {s.ref}, !.last = s.ref]

\* Mutant of Dead: the next spend is not waited for.
DeadWhenSilent(s, next) ==
  \/ ~s.stands
  \/ ~s.move /\ s.answer = "refused"
  \/ ~s.move /\ s.answer = "none"

\* An offer refused, or left unanswered past its term by the time the holder
\* spent the bill again, held nothing.
Dead(s, next) ==
  \/ ~s.stands
  \/ ~s.move /\ s.answer = "refused"
  \/ ~s.move /\ s.answer = "none" /\ next > s.until

\* Mutant of Settle: no spend holds its hours.
SettleForgets(run, s, next) == run

\* Mutant of Settle: the hours of a spend are given back instead of taken.
SettleGivesBack(run, s, next) ==
  IF s.ref \notin run.backed \/ Dead(s, next) THEN run
  ELSE [run EXCEPT !.consumed = @ - s.units]

\* BillRun::settle.  `next` is the time of the holder's next spend, or NoTime.
Settle(run, s, next) ==
  IF s.ref \notin run.backed \/ Dead(s, next) THEN run
  ELSE [run EXCEPT !.consumed = @ + s.units]
=============================================================================
