----------------------------- MODULE OffersBook -----------------------------
(***************************************************************************)
(* The offers on an aggregator's table read as a book of escrowed hours,   *)
(* kept beside the system as an auxiliary variable, and what the system    *)
(* implements when nothing gets lost and clocks are exact: Escrow.         *)
(***************************************************************************)
EXTENDS Offers

VARIABLE book

\* GET /deal, offer by offer: recognized; pending, its hours there or not; or no
\* payment any more.
BookOnTable ==
  LET state(runs, happened, d) ==
        IF d \in happened THEN "paid"
        ELSE IF DealStatus(deals[d].until, AnswerIn(TableView, d), now) # "pending" THEN "void"
        ELSE IF Backed(runs, d) THEN "held" ELSE "short"
      entry(runs, happened, d) ==
        [from |-> deals[d].from, to |-> deals[d].to, src |-> deals[d].src,
         units |-> deals[d].units, state |-> state(runs, happened, d)]
  IN  The({[d \in Numbers |-> entry(runs, happened, d)] :
             runs \in {TableRuns}, happened \in {Happened}})

BookInit == Init /\ book = <<>>

BookNext == Next /\ book' = BookOnTable'

BookSpec == BookInit /\ [][BookNext]_<<vars, book>>

\* Time passes; nobody is obliged to answer, to ask or to upload.
FairBookSpec == BookSpec /\ WF_<<vars, book>>(Tick /\ book' = BookOnTable')

Escrow == INSTANCE Escrow WITH book <- book, Chains <- Chains, Holder <- Holder,
                                Credit <- Credit, MaxDeals <- MaxDeals

\* With one aggregator at hand and exact clocks, what the clients and the table
\* do together is an escrow: hours held are there and stay there, an offer ends
\* once, and what ended stays ended (settlement.h 8-18).
ImplementsEscrow == Escrow!Spec

\* A bill never holds or pays more than it brought, lapsed and refused offers
\* included (settlement.h 11-18).
NeverOverpaid == Escrow!NeverOverpaid

\* "A payment never hangs: at most until the term both sides agreed to"
\* (settlement.h 14).
PaymentNeverHangs == Escrow!EveryOfferEnds
=============================================================================
