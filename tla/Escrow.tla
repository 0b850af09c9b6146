------------------------------- MODULE Escrow -------------------------------
(***************************************************************************)
(* What paying with other people's paper promises (economy.md 4.4, the     *)
(* head comment of settlement.h): an offer holds hours of one bill, or is  *)
(* short of them; it ends once, paid or void, and void gives the hours     *)
(* back; a paid offer is a bill in the hands of the chain it paid.  While  *)
(* it waits, an offer that was short may come to hold hours that others    *)
(* gave back.  No blocks, no clocks, no messages.  Offers (one aggregator, *)
(* exact clocks, nothing lost) is shown to implement it.                   *)
(***************************************************************************)
EXTENDS Integers, Sequences, FiniteSetsExt

CONSTANTS
  Chains,   \* identities
  Holder,   \* who holds the first bill
  Credit,   \* its hours
  MaxDeals  \* bound: offers in all

VARIABLE book   \* the offers, in the order they are signed

Entry == [from : Chains, to : Chains, src : 0..MaxDeals, units : 1..Credit,
          state : {"held", "short", "paid", "void"}]

Entries == DOMAIN book

\* The hours of bill `src` in the hands of chain c.
Brought(c, src) ==
  IF src = 0 THEN IF c = Holder THEN Credit ELSE 0
  ELSE IF src \in Entries /\ book[src].to = c /\ book[src].state = "paid"
       THEN book[src].units ELSE 0

Taken(c, src) ==
  MapThenSumSet(LAMBDA n : book[n].units,
    {n \in Entries : /\ book[n].from = c /\ book[n].src = src
                     /\ book[n].state \in {"held", "paid"}})

\* What is held and paid from a bill came in it.
Fits(c, src) == Taken(c, src) <= Brought(c, src)

Init == book = <<>>

\* An offer is signed: the bill still has its hours, or it is short of them.
Sign ==
  /\ Len(book) < MaxDeals
  /\ \E e \in Entry :
       /\ book' = Append(book, e)
       /\ \/ e.state = "short"
          \/ e.state = "held" /\ Fits(e.from, e.src)'

\* How an offer goes on: its hours come free; it is paid; or it is refused, or
\* its term passes.
Moves(n) ==
  \/ /\ book[n].state = "short"
     /\ book'[n] = [book[n] EXCEPT !.state = "held"]
     /\ Fits(book[n].from, book[n].src)'
  \/ /\ book[n].state = "held"
     /\ book'[n] = [book[n] EXCEPT !.state = "paid"]
  \/ /\ book[n].state \in {"held", "short"}
     /\ book'[n] = [book[n] EXCEPT !.state = "void"]

\* Some of the offers that wait go on.
Turn ==
  /\ DOMAIN book' = Entries
  /\ \A n \in Entries : book'[n] = book[n] \/ Moves(n)

Next == Sign \/ Turn

Spec == Init /\ [][Next]_book

-----------------------------------------------------------------------------
\* A bill never holds or pays more than it brought (settlement.h 11-18).
NeverOverpaid == \A c \in Chains, src \in 0..MaxDeals : Fits(c, src)

Waits(n) == n \in Entries /\ book[n].state \in {"held", "short"}

\* "A payment never hangs" (settlement.h 14): an offer comes to an end, paid or
\* void.
EveryOfferEnds ==
  \A n \in 1..MaxDeals : Waits(n) ~> (n \in Entries /\ ~Waits(n))
=============================================================================
