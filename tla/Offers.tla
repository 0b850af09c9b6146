------------------------------- MODULE Offers -------------------------------
(***************************************************************************)
(* Paying with other people's paper (economy.md 4.4): payers write offers  *)
(* against their bills, sellers check the paper and answer from the purse  *)
(* the offer pays into, and an aggregator's table judges every offer it    *)
(* sees.  Each client works from its own chain and from what it has        *)
(* fetched; a POST may get lost and clocks may run behind, so the clients  *)
(* and the table see different parts of the same history.                  *)
(*                                                                         *)
(* One purse per chain, one issuer outside the chains, one portion per     *)
(* offer.  Deals are numbered in the order they are signed; the number     *)
(* stands for the block's hash.  Deal 0 is the deal that put the first     *)
(* bill into the hands of Holder, accepted before everything else.         *)
(***************************************************************************)
EXTENDS Settlement, FiniteSetsExt

CONSTANTS
  Chains,     \* identities, one purse each
  Holder,     \* who holds the first bill
  Credit,     \* its hours
  MaxDeals,   \* bound: offers signed in all
  MaxTime,    \* bound: the last moment of the clock
  LastOffer,  \* bound: the last moment an offer is signed
  Term,       \* an offer waits this long for its answer
  Lag,        \* how far a device's clock may run behind
  MaxStamps,  \* bound: blocks other than offers and replies
  Losses      \* whether requests to the aggregator may fail

ASSUME OffersAssumption ==
  /\ Holder \in Chains
  /\ Credit \in Nat /\ MaxDeals \in Nat /\ MaxTime \in Nat /\ Lag \in Nat
  /\ MaxStamps \in Nat /\ LastOffer \in Nat
  /\ Term \in Nat \ {0}     \* the codec refuses until <= timestamp
  /\ Losses \in BOOLEAN

VARIABLES
  now,       \* true time
  deals,     \* every offer signed, by number
  purse,     \* each chain's purse branch
  table,     \* blocks the aggregator stores: <<chain, position>>
  cosigned,  \* merge blocks on the table with the partner's co-signature
  known,     \* per client, the other chains' blocks it has fetched
  unsent,    \* per client, an offer whose provenance is still to upload (0: none)
  auto       \* deals accepted by `bc transfer recv --yes`

vars == <<now, deals, purse, table, cosigned, known, unsent, auto>>

Numbers == 1..Len(deals)

Block(kind, deal, answer, time) ==
  [kind |-> kind, deal |-> deal, answer |-> answer, time |-> time]

Own(c) == {<<c, i>> : i \in 1..Len(purse[c])}

Blocks == UNION {Own(c) : c \in Chains}

DealRef(d) == <<deals[d].from, deals[d].index>>

\* What the clock of a device may show.
Clocks == {t \in 0..now : now - t <= Lag}

-----------------------------------------------------------------------------
(* What a reader makes of the blocks it has.  A view is the set of blocks, *)
(* and whether the reader knows the dates of the branch before a reply     *)
(* (ObservedReply::since): the aggregator does, the client does not.       *)

TableView == [blocks |-> table, running |-> TRUE]

ClientView(c, fetched) == [blocks |-> Own(c) \cup fetched, running |-> FALSE]

\* The latest date a branch claims up to position i, among the blocks seen.
Since(blocks, c, i) ==
  Max({purse[c][j].time : j \in {k \in 1..i : <<c, k>> \in blocks}})

ReplyAt(view, r) ==
  LET b == purse[r[1]][r[2]]
  IN  [deal |-> b.deal, author |-> r[1], node |-> 0, index |-> r[2],
       answer |-> b.answer, time |-> b.time,
       since |-> IF view.running THEN Since(view.blocks, r[1], r[2]) ELSE 0]

Replies(view, d) ==
  {ReplyAt(view, r) : r \in {q \in view.blocks : /\ purse[q[1]][q[2]].kind = "reply"
                                                 /\ purse[q[1]][q[2]].deal = d}}

Offered(d) == [ref |-> d, to |-> deals[d].to, toNode |-> 0,
               until |-> deals[d].until]

AnswerIn(view, d) == The({AnswerOf(Offered(d), r) : r \in {Replies(view, d)}})

CountedIn(view, d) == The({Counted(Offered(d), r) : r \in {Replies(view, d)}})

\* The answers of a view, deal by deal.
AnswersIn(view) == [d \in Numbers |-> AnswerIn(view, d)]

-----------------------------------------------------------------------------
(* Bills on a view: every spend of a bill judged on the earlier ones.      *)

SpendOf(d, answer) ==
  [ref |-> d, node |-> 0, index |-> deals[d].index, time |-> deals[d].time,
   units |-> deals[d].units, prev |-> deals[d].prev, move |-> FALSE,
   answer |-> answer, until |-> deals[d].until, stands |-> TRUE,
   frozen |-> FALSE]

\* Where the holder's acceptance of the bill's source lies.
Arrival(view, src) ==
  IF src = 0 \/ CountedIn(view, src) = {} THEN 0
  ELSE (CHOOSE r \in CountedIn(view, src) : TRUE).index

\* The spends of bill <<c, src>> among the blocks of a view.
SpendsOf(blocks, c, src) ==
  {d \in Numbers : deals[d].from = c /\ deals[d].src = src
                   /\ DealRef(d) \in blocks}

\* The bill deal d spends, given the runs of the deals before it.  `vetted`: it
\* counts only if its source deal happened on the same view (the aggregator); a
\* client has accepted that deal itself.
BillAt(view, answers, vetted, runs, d) ==
  LET src == deals[d].src
  IN  [purse    |-> 0,
       arrived  |-> Arrival(view, src),
       credited |->
         IF src = 0 THEN IF deals[d].from = Holder THEN Credit ELSE 0
         ELSE IF /\ deals[src].to = deals[d].from
                 /\ DealRef(src) \in view.blocks
                 /\ answers[src] = "accepted"
                 /\ vetted => src \in runs[src].backed
              THEN deals[src].units ELSE 0]

\* The run as deal d finds it: the spend before it settled by the time of d.
RunAt(view, answers, runs, d) ==
  LET earlier == {e \in SpendsOf(view.blocks, deals[d].from, deals[d].src) : e < d}
  IN  IF earlier = {} THEN NewRun
      ELSE The({Settle(runs[e], SpendOf(e, answers[e]), deals[d].time) :
                  e \in {Max(earlier)}})

\* The state of its bill right after each deal was judged, deal by deal.
RunsOn(view, answers, vetted) ==
  LET Upto[n \in 0..Len(deals)] ==
        IF n = 0 THEN <<>>
        ELSE The({Append(runs, The({Judge(bill, run, SpendOf(n, a[n])) :
                                      bill \in {BillAt(view, a, vetted, runs, n)},
                                      run \in {RunAt(view, a, runs, n)}})) :
                    runs \in {Upto[n - 1]}, a \in {answers}})
  IN  Upto[Len(deals)]

TableRuns == RunsOn(TableView, AnswersIn(TableView), TRUE)

Backed(runs, d) == d \in runs[d].backed

OnTable(d) == DealRef(d) \in table

\* The deals that happened, as the aggregator sees it (compute_deals: effective).
Happened ==
  UNION {{d \in Numbers : /\ OnTable(d)
                          /\ AnswerIn(TableView, d) = "accepted"
                          /\ Backed(runs, d)} : runs \in {TableRuns}}

Effective(d) == d \in Happened

\* The aggregator's word for a deal (deal_standing); every deal here completes
\* what it names, so the only questions are the paper and the answer.
Standing(d, t) ==
  IF Effective(d) THEN "recognized"
  ELSE IF ~Backed(TableRuns, d) THEN "unbacked"
  ELSE DealStatus(deals[d].until, AnswerIn(TableView, d), t)

-----------------------------------------------------------------------------
(* How surely an unanswered offer lapsed (recognition.cpp 292-331).        *)

\* The positions of the seller's purse past which any answer is late.
PastPoints(d) ==
  LET seller == deals[d].to
      seen == {i \in 1..Len(purse[seller]) : <<seller, i>> \in table}
  IN  {i \in seen : \/ purse[seller][i].kind = "reply" /\ purse[seller][i].deal = d
                    \/ Since(table, seller, i) > deals[d].until}

Whole(c, i) == \A j \in 1..i : <<c, j>> \in table

\* A merge block whose partner co-signed it fixes its branch up to itself.
Witnessed(c, i) == \E j \in i..Len(purse[c]) : <<c, j>> \in cosigned

\* Mutant of Lapse: a purse with missing blocks is taken for whole.
LapseWithHoles(d) ==
  IF PastPoints(d) = {} THEN "none"
  ELSE IF Witnessed(deals[d].to, Min(PastPoints(d))) THEN "witnessed"
  ELSE "seen"

Lapse(d) ==
  IF PastPoints(d) = {} \/ ~Whole(deals[d].to, Min(PastPoints(d))) THEN "none"
  ELSE IF Witnessed(deals[d].to, Min(PastPoints(d))) THEN "witnessed"
  ELSE "seen"

-----------------------------------------------------------------------------
(* The payer's client.                                                     *)

\* refresh_offers: an own offer with no answer known yet is asked about until
\* its term is over; the aggregator names the reply that counts.
News(c, clk) ==
  {<<r.author, r.index>> :
     r \in UNION {CountedIn(TableView, d) :
             d \in {e \in Numbers :
                      /\ deals[e].from = c
                      /\ AnswerIn(ClientView(c, known[c]), e) = "none"
                      /\ clk <= deals[e].until
                      /\ OnTable(e)}}}

\* What the client knows after it asked; a request that fails brings nothing.
Learnt(c, clk) ==
  IF Losses THEN {known[c] \cup n : n \in SUBSET News(c, clk)}
  ELSE {known[c] \cup News(c, clk)}

\* Bills of a purse as the client counts them: deals it accepted itself.
HasBill(c, fetched, src) ==
  \/ src = 0 /\ c = Holder
  \/ /\ src \in Numbers
     /\ deals[src].to = c
     /\ DealRef(src) \in fetched
     /\ AnswerIn(ClientView(c, fetched), src) = "accepted"

Credited(src) == IF src = 0 THEN Credit ELSE deals[src].units

\* Mutant of Free: an offer still waiting is taken for free paper.
FreeWhileWaiting(c, fetched, src, clk) ==
  LET view    == ClientView(c, fetched)
      answers == AnswersIn(view)
      spends  == SpendsOf(view.blocks, c, src)
      paid    == {d \in spends : answers[d] = "accepted"}
  IN  Credited(src) - MapThenSumSet(LAMBDA d : deals[d].units, paid)

\* purse_bills: what may be spent now.  The latest offer, unanswered past its
\* term, holds nothing any more: the next spend comes after the term.
Free(c, fetched, src, clk) ==
  LET view   == ClientView(c, fetched)
      spends == SpendsOf(view.blocks, c, src)
      last   == Max(spends)
      left(answers, runs) ==
        Credited(src) - Settle(runs[last], SpendOf(last, answers[last]), NoTime).consumed
        + IF answers[last] = "none" /\ clk > deals[last].until /\ Backed(runs, last)
          THEN deals[last].units ELSE 0
  IN  IF spends = {} THEN Credited(src)
      ELSE The({left(a, r) : a \in {AnswersIn(view)},
                             r \in {RunsOn(view, AnswersIn(view), FALSE)}})

\* The holder's latest spend of a bill: the next one names it.
LastSpend(c, src) ==
  LET spends == SpendsOf(Own(c), c, src)
  IN  IF spends = {} THEN NoRef ELSE Max(spends)

\* upload_provenance: the bill's source, the own acceptance of it and every
\* own spend of it.
Provenance(c, d) ==
  LET src == deals[d].src
  IN  {DealRef(e) : e \in {f \in Numbers : deals[f].from = c /\ deals[f].src = src}}
      \cup IF src = 0 THEN {}
           ELSE {DealRef(src)} \cup
                {r \in Own(c) : /\ purse[c][r[2]].kind = "reply"
                                /\ purse[c][r[2]].deal = src}

Idle(c) == unsent[c] = 0

\* Whether a POST went through.
Post == IF Losses THEN BOOLEAN ELSE {TRUE}

Write(c, b) == purse' = [purse EXCEPT ![c] = Append(@, b)]

\* bc accept: learn the answers, take the hours from one bill of the purse,
\* sign the offer and upload it.
Offer(c, src, to, units, clk, fetched, posted) ==
  LET d   == Len(deals) + 1
      ref == <<c, Len(purse[c]) + 1>>
  IN  /\ Idle(c)
      /\ Len(deals) < MaxDeals
      /\ clk <= LastOffer
      /\ HasBill(c, fetched, src)
      /\ units \in 1..Free(c, fetched, src, clk)
      /\ deals' = Append(deals,
           [from |-> c, index |-> Len(purse[c]) + 1, to |-> to, src |-> src,
            units |-> units, time |-> clk, until |-> clk + Term,
            prev |-> LastSpend(c, src)])
      /\ Write(c, Block("deal", d, "none", clk))
      /\ known' = [known EXCEPT ![c] = fetched]
      /\ table' = IF posted THEN table \cup {ref} ELSE table
      /\ unsent' = [unsent EXCEPT ![c] = d]
      /\ UNCHANGED <<now, cosigned, auto>>

\* The end of bc accept: the aggregator is asked whether the paper is backed,
\* and what it does not see is uploaded.  A POST that fails leaves it unseen.
Upload(c, posted) ==
  /\ ~Idle(c)
  /\ table' = IF posted THEN table \cup Provenance(c, unsent[c]) ELSE table
  /\ unsent' = [unsent EXCEPT ![c] = 0]
  /\ UNCHANGED <<now, deals, purse, cosigned, known, auto>>

\* bc transfer status: learn the answers and do nothing else.
Refresh(c, fetched) ==
  /\ Idle(c)
  /\ known' = [known EXCEPT ![c] = fetched]
  /\ UNCHANGED <<now, deals, purse, table, cosigned, unsent, auto>>

-----------------------------------------------------------------------------
(* The seller's client (answer_offer, check_paper).                        *)

\* The spends the seller walks back along `prev`.
Walk(d) ==
  LET Back[e \in Numbers] ==
        IF deals[e].prev = NoRef THEN {}
        ELSE {deals[e].prev} \cup Back[deals[e].prev]
  IN  Back[d]

\* Facts the seller's client gathers: paper that is none is refused outright,
\* paper that cannot be checked yet gets no answer.
SourceStanding(d, clk) ==
  IF deals[d].src = 0 THEN "recognized" ELSE Standing(deals[d].src, clk)

\* check_bill over the walk, with the answers the aggregator reports.
WalkBacked(d, answers) ==
  LET blocks == {DealRef(e) : e \in Walk(d) \cup {d}}
                \cup IF deals[d].src = 0 THEN {} ELSE {DealRef(deals[d].src)}
      runs == RunsOn([TableView EXCEPT !.blocks = blocks \cup
                         {r \in table : purse[r[1]][r[2]].kind = "reply"}],
                     answers, FALSE)
  IN  Backed(runs, d)

Gap(d, clk) ==
  \/ deals[d].src # 0 /\ ~OnTable(deals[d].src)
  \/ SourceStanding(d, clk) = "pending"
  \/ \E e \in Walk(d) : ~OnTable(e)

\* The verdict of the aggregator, who sees the whole table, is a fact when it
\* is about the payer's own thread.
NotPaper(d, clk) ==
  \/ /\ deals[d].src # 0 /\ OnTable(deals[d].src)
     /\ SourceStanding(d, clk) \notin {"recognized", "pending"}
  \/ /\ ~Gap(d, clk)
     /\ ~WalkBacked(d, AnswersIn(TableView))
  \/ /\ ~Backed(TableRuns, d)
     /\ deals[d].src # 0 => Effective(deals[d].src)

\* Earlier lapsed offers whose lapse no merge has fixed: would the paper do
\* even if their sellers accepted them after all?
Worst(d) ==
  [e \in Numbers |->
     LET a == AnswerIn(TableView, e)
     IN  IF e \in Walk(d) /\ a = "none" /\ Lapse(e) # "witnessed"
         THEN "accepted" ELSE a]

\* Mutant of LeansOnLapse: no lapse is doubted.
LeansOnNothing(d) == FALSE

LeansOnLapse(d) == ~WalkBacked(d, Worst(d))

\* Mutant of Answered: the second word is not held back.
NeverAnswered(c, d) == FALSE

\* A chain answers an offer once.
Answered(c, d) ==
  \E i \in 1..Len(purse[c]) : purse[c][i].kind = "reply" /\ purse[c][i].deal = d

\* The offer is on the aggregator, is ours, unanswered, and its term is on.
MayAnswer(c, d, clk) ==
  /\ Idle(c)
  /\ deals[d].to = c
  /\ OnTable(d)
  /\ ~Answered(c, d)
  /\ clk <= deals[d].until

\* write_answer: the reply in the purse the offer pays into, and its upload.
Reply(c, d, answer, clk, posted) ==
  /\ Write(c, Block("reply", d, answer, clk))
  /\ table' = IF posted THEN table \cup {<<c, Len(purse[c]) + 1>>} ELSE table
  /\ known' = [known EXCEPT ![c] = @ \cup {DealRef(d)}]
  /\ UNCHANGED <<now, deals, cosigned, unsent>>

\* bc transfer recv, the answer the client gives by itself: an offer dated
\* ahead of its clock, or paper that is no paper.
RefuseOutright(c, d, clk, posted) ==
  /\ MayAnswer(c, d, clk)
  /\ deals[d].time > clk \/ NotPaper(d, clk)
  /\ Reply(c, d, "refused", clk, posted)
  /\ auto' = auto

\* bc transfer recv --yes: only paper that leans on no unfixed lapse.
AcceptAuto(c, d, clk, posted) ==
  /\ MayAnswer(c, d, clk)
  /\ deals[d].time <= clk
  /\ ~NotPaper(d, clk) /\ ~Gap(d, clk)
  /\ ~LeansOnLapse(d)
  /\ Reply(c, d, "accepted", clk, posted)
  /\ auto' = auto \cup {d}

\* bc transfer recv, the seller decides: the risk of a lapse is his to take.
AcceptByHand(c, d, clk, posted) ==
  /\ MayAnswer(c, d, clk)
  /\ deals[d].time <= clk
  /\ ~NotPaper(d, clk) /\ ~Gap(d, clk)
  /\ Reply(c, d, "accepted", clk, posted)
  /\ auto' = auto

\* bc transfer refuse, or "n" at the prompt: no reason needed.
Refuse(c, d, clk, posted) ==
  /\ MayAnswer(c, d, clk)
  /\ Reply(c, d, "refused", clk, posted)
  /\ auto' = auto

Stamps ==
  Cardinality({b \in Blocks : purse[b[1]][b[2]].kind \in {"note", "merge"}})

\* Bound: such blocks are looked at in a purse some offer pays.
MayStamp(c) == Stamps < MaxStamps /\ \E d \in Numbers : deals[d].to = c

\* Any other block of the purse.
Note(c, clk, posted) ==
  /\ Idle(c)
  /\ MayStamp(c)
  /\ Write(c, Block("note", 0, "none", clk))
  /\ table' = IF posted THEN table \cup {<<c, Len(purse[c]) + 1>>} ELSE table
  /\ UNCHANGED <<now, deals, cosigned, known, unsent, auto>>

\* Mutant of Merge: the co-signature is posted though the half was not.
MergeCosigned(c, posted) ==
  /\ Idle(c)
  /\ MayStamp(c)
  /\ Write(c, Block("merge", 0, "none", now))
  /\ table' = IF posted THEN table \cup {<<c, Len(purse[c]) + 1>>} ELSE table
  /\ cosigned' = cosigned \cup {<<c, Len(purse[c]) + 1>>}
  /\ UNCHANGED <<now, deals, known, unsent, auto>>

\* A merge with a chain outside the model; the partner checks the time against
\* its own clock, so a merge is dated now, and its co-signature is posted with
\* the half.
Merge(c, posted) ==
  /\ Idle(c)
  /\ MayStamp(c)
  /\ Write(c, Block("merge", 0, "none", now))
  /\ table' = IF posted THEN table \cup {<<c, Len(purse[c]) + 1>>} ELSE table
  /\ cosigned' = IF posted THEN cosigned \cup {<<c, Len(purse[c]) + 1>>} ELSE cosigned
  /\ UNCHANGED <<now, deals, known, unsent, auto>>

\* A block whose POST failed was posted to another aggregator, and comes from
\* there (sync_with_peer) when it comes; a merge with its co-signature.
Gossip(c, i) ==
  /\ <<c, i>> \notin table
  /\ table' = table \cup {<<c, i>>}
  /\ cosigned' = IF purse[c][i].kind = "merge" THEN cosigned \cup {<<c, i>>} ELSE cosigned
  /\ UNCHANGED <<now, deals, purse, known, unsent, auto>>

Tick ==
  /\ now < MaxTime
  /\ now' = now + 1
  /\ UNCHANGED <<deals, purse, table, cosigned, known, unsent, auto>>

Init ==
  /\ now = 0
  /\ deals = <<>>
  /\ purse = [c \in Chains |-> <<>>]
  /\ table = {}
  /\ cosigned = {}
  /\ known = [c \in Chains |-> {}]
  /\ unsent = [c \in Chains |-> 0]
  /\ auto = {}

Pays ==
  \E c \in Chains, clk \in Clocks :
    \E fetched \in Learnt(c, clk), to \in Chains \ {c},
       src \in {0} \cup Numbers, units \in 1..Credit, posted \in Post :
      Offer(c, src, to, units, clk, fetched, posted)

Uploads == \E c \in Chains, posted \in Post : Upload(c, posted)

Learns ==
  \E c \in Chains, clk \in Clocks : \E fetched \in Learnt(c, clk) :
    Refresh(c, fetched)

Answers ==
  \E c \in Chains, d \in Numbers, clk \in Clocks, posted \in Post :
    \/ RefuseOutright(c, d, clk, posted)
    \/ AcceptAuto(c, d, clk, posted)
    \/ AcceptByHand(c, d, clk, posted)
    \/ Refuse(c, d, clk, posted)

Dates ==
  \E c \in Chains, posted \in Post :
    \/ \E clk \in Clocks : Note(c, clk, posted)
    \/ Merge(c, posted)

Arrives == \E c \in Chains : \E i \in 1..Len(purse[c]) : Gossip(c, i)

Next == Pays \/ Uploads \/ Learns \/ Answers \/ Dates \/ Arrives \/ Tick

Spec == Init /\ [][Next]_vars

-----------------------------------------------------------------------------
DealType ==
  [from : Chains, index : Nat, to : Chains, src : Nat, units : 1..Credit,
   time : Nat, until : Nat, prev : Nat \cup {NoRef}]

BlockType == [kind : {"deal", "reply", "note", "merge"}, deal : Nat,
              answer : {"none", "accepted", "refused"}, time : 0..MaxTime]

TypeOK ==
  /\ now \in 0..MaxTime
  /\ deals \in Seq(DealType) /\ Len(deals) <= MaxDeals
  /\ purse \in [Chains -> Seq(BlockType)]
  /\ table \subseteq Blocks
  /\ cosigned \subseteq table
  /\ known \in [Chains -> SUBSET Blocks]
  /\ unsent \in [Chains -> 0..Len(deals)]
  /\ auto \subseteq Numbers

\* Whatever part of the history an aggregator has, the deals it takes for
\* happened never pay more hours from one bill than came in it: payments that
\* lapsed and were paid again are not counted twice (recognition.cpp 477-562).
TableNeverOverspent ==
  LET happened == Happened
      paid(c, src) == {d \in happened : deals[d].from = c /\ deals[d].src = src}
  IN  \A c \in Chains : \A src \in {0} \cup Numbers :
        MapThenSumSet(LAMBDA d : deals[d].units, paid(c, src)) <= Credited(src)

\* The first answer is final: an answer the aggregator counted is counted for
\* good, whatever blocks of the seller come in later and in whatever order
\* (settlement.cpp 7-28, main.cpp 5931-5938).  With clocks that never run back:
\* else an earlier block dated past the term may come in and undo it.
AnswerIsFinal ==
  [][\A d \in Numbers : AnswerIn(TableView, d) # "none" =>
        AnswerIn(TableView, d)' = AnswerIn(TableView, d)]_table

\* A lapse the aggregator vouches for stays: no answer turns up for that offer
\* any more, even with clocks that run behind, and the word never gets weaker
\* (recognition.cpp 292-331).
LapseIsFinal ==
  [][\A d \in Numbers : Lapse(d) # "none" /\ AnswerIn(TableView, d) = "none" =>
        /\ AnswerIn(TableView, d)' = "none"
        /\ Lapse(d)' \in {"witnessed", Lapse(d)}]_<<table, cosigned>>

\* Paper of the first bill that a client accepted by itself (`--yes`) is paper
\* for good: whatever answers to the payer's earlier offers turn up later, the
\* deal stays backed (main.cpp 5853-5869, 6084-6089).
AutoAcceptStands ==
  LET runs == TableRuns
  IN  \A d \in auto : deals[d].src = 0 => Backed(runs, d)

\* The payer has learnt every answer the aggregator counts for his offers.
Informed(c) ==
  \A d \in Numbers : deals[d].from = c =>
    \A r \in CountedIn(TableView, d) : <<r.author, r.index>> \in known[c]

SourceStands(d) == deals[d].src = 0 \/ Effective(deals[d].src)

\* The newest offer, its payer's blocks all there, is backed.
UploadedIsBacked ==
  LET d == Len(deals)
  IN  SourceStands(d) /\ Own(deals[d].from) \subseteq table => Backed(TableRuns, d)

InformedIsBacked == Informed(deals[Len(deals)].from) => UploadedIsBacked

Signed == Len(deals') > Len(deals)

\* Payer and aggregator count a bill alike: an offer whose payer knows the
\* answers the aggregator counts is backed on the table as soon as the payer's
\* blocks are there (main.cpp 4609-4704 against recognition.cpp 477-554).
InformedOfferIsBacked == [][Signed => InformedIsBacked']_vars

\* "The caller learns the sellers' answers first - a refused or lapsed offer
\* frees its bills" (main.cpp 5103-5104): an offer signed with the aggregator at
\* hand is one the aggregator takes for backed.
LearntOfferIsBacked == [][Signed => UploadedIsBacked']_vars

\* "the rules every reader applies the same way, client and aggregator alike, so
\* that they never disagree about whose hours moved" (settlement.h 3-5): a payer
\* who has the seller's reply reads it as the aggregator does.
ReadersAgree ==
  \A d \in Numbers : \A r \in Replies(TableView, d) :
    <<r.author, r.index>> \in known[deals[d].from] =>
      AnswerIn(ClientView(deals[d].from, known[deals[d].from]), d) = AnswerIn(TableView, d)
=============================================================================
