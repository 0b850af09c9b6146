---------------------------- MODULE OffersProofs ----------------------------
(***************************************************************************)
(* Proofs about Offers and OffersBook, for any number of chains, deals and *)
(* blocks, any term and clocks that run behind as far as they like (where  *)
(* a theorem needs exact clocks or an aggregator at hand it says so).      *)
(***************************************************************************)
EXTENDS OffersBook, DataLemmas

IsReply(c, i, d) ==
  i \in 1..Len(purse[c]) /\ purse[c][i].kind = "reply" /\ purse[c][i].deal = d

\* A deal is a block of the payer's purse.
Placed ==
  \A d \in Numbers :
    /\ deals[d].index \in 1..Len(purse[deals[d].from])
    /\ purse[deals[d].from][deals[d].index].kind = "deal"
    /\ purse[deals[d].from][deals[d].index].deal = d

\* A reply is the one answer of the chain an offer pays, dated within its term,
\* to an offer the table had.
Replied ==
  \A c \in Chains : \A i \in 1..Len(purse[c]) : \A d \in {purse[c][i].deal} :
    IsReply(c, i, d) =>
      /\ d \in Numbers
      /\ deals[d].to = c
      /\ purse[c][i].time <= deals[d].until
      /\ purse[c][i].answer \in {"accepted", "refused"}
      /\ DealRef(d) \in table
      /\ \A j \in 1..Len(purse[c]) : IsReply(c, j, d) => j = i

\* The offers before d that spend the same bill.
Earlier(d) ==
  {e \in 1..d - 1 : deals[e].from = deals[d].from /\ deals[e].src = deals[d].src}

\* An offer spends a bill of its payer and names the spend before.
Threaded ==
  \A d \in Numbers :
    /\ deals[d].src \in 0..d - 1
    /\ deals[d].src = 0 => deals[d].from = Holder
    /\ deals[d].src # 0 => deals[deals[d].src].to = deals[d].from
    /\ deals[d].prev = IF Earlier(d) = {} THEN NoRef ELSE Max(Earlier(d))
    /\ deals[d].until = deals[d].time + Term

\* Nothing is dated ahead of true time.
Dated == \A c \in Chains : \A i \in 1..Len(purse[c]) : purse[c][i].time <= now

\* What a client accepted by itself it answered.
Autos ==
  \A d \in auto : \A c \in {deals[d].to} : \E i \in 1..Len(purse[c]) :
    IsReply(c, i, d) /\ purse[c][i].answer = "accepted"

IInv == TypeOK /\ Placed /\ Replied /\ Threaded /\ Dated /\ Autos

-----------------------------------------------------------------------------
(* Blocks and views.                                                       *)

LEMMA TheOne == \A e : The({e}) = e
BY DEF The

LEMMA TypeFacts ==
  ASSUME TypeOK
  PROVE  /\ Len(deals) \in Nat /\ Numbers = 1..Len(deals)
         /\ \A d \in Numbers : /\ deals[d] \in DealType
                               /\ deals[d].from \in Chains /\ deals[d].to \in Chains
                               /\ deals[d].index \in Nat /\ deals[d].src \in Nat
                               /\ deals[d].units \in 1..Credit /\ deals[d].time \in Nat
                               /\ deals[d].until \in Nat
                               /\ deals[d].prev \in Nat \cup {NoRef}
         /\ \A c \in Chains : /\ purse[c] \in Seq(BlockType) /\ Len(purse[c]) \in Nat
                              /\ \A i \in 1..Len(purse[c]) :
                                   /\ purse[c][i] \in BlockType
                                   /\ purse[c][i].time \in 0..MaxTime
         /\ now \in 0..MaxTime
<1>1. Len(deals) \in Nat /\ Numbers = 1..Len(deals) /\ deals \in Seq(DealType)
  BY DEF TypeOK, Numbers
<1>2. \A d \in Numbers : deals[d] \in DealType
  BY <1>1
<1>3. ASSUME NEW d \in Numbers
      PROVE  /\ deals[d].from \in Chains /\ deals[d].to \in Chains
             /\ deals[d].index \in Nat /\ deals[d].src \in Nat
             /\ deals[d].units \in 1..Credit /\ deals[d].time \in Nat
             /\ deals[d].until \in Nat
             /\ deals[d].prev \in Nat \cup {NoRef}
  <2>1. deals[d] \in DealType
    BY <1>2
  <2> QED BY <2>1 DEF DealType
<1>4. ASSUME NEW c \in Chains
      PROVE  /\ purse[c] \in Seq(BlockType) /\ Len(purse[c]) \in Nat
             /\ \A i \in 1..Len(purse[c]) :
                   purse[c][i] \in BlockType /\ purse[c][i].time \in 0..MaxTime
  <2>1. PICK s : s = purse[c]
    OBVIOUS
  <2>2. s \in Seq(BlockType)
    BY <2>1 DEF TypeOK
  <2>3. Len(s) \in Nat /\ \A i \in 1..Len(s) : s[i] \in BlockType
    BY <2>2
  <2> QED BY <2>1, <2>2, <2>3 DEF BlockType
<1>5. now \in 0..MaxTime
  BY DEF TypeOK
<1> QED BY <1>1, <1>2, <1>3, <1>4, <1>5

LEMMA BlocksAre ==
  /\ \A b : b \in Blocks <=> \E c \in Chains : \E i \in 1..Len(purse[c]) : b = <<c, i>>
  /\ \A c \in Chains : Own(c) \subseteq Blocks
  /\ \A c \in Chains : \A i : <<c, i>> \in Blocks => i \in 1..Len(purse[c])
BY DEF Blocks, Own

\* Replies that count come from blocks of the view.
LEMMA NewsAreBlocks ==
  ASSUME TypeOK, NEW c \in Chains, NEW clk
  PROVE  News(c, clk) \subseteq table
<1>1. ASSUME NEW d, NEW r \in CountedIn(TableView, d)
      PROVE  <<r.author, r.index>> \in table
  <2>1. CountedIn(TableView, d) = Counted(Offered(d), Replies(TableView, d))
    BY TheOne DEF CountedIn
  <2>2. r \in Replies(TableView, d)
    BY <1>1, <2>1 DEF Counted, FirstWord
  <2>3. PICK q \in table : r = ReplyAt(TableView, q)
    BY <2>2 DEF Replies, TableView
  <2>4. r.author = q[1] /\ r.index = q[2]
    BY <2>3 DEF ReplyAt
  <2>5. q \in Blocks
    BY <2>3 DEF TypeOK
  <2>6. q = <<q[1], q[2]>>
    BY <2>5, BlocksAre
  <2> QED BY <2>3, <2>4, <2>6
<1> QED BY <1>1 DEF News

\* What a client knows after it asked are blocks.
LEMMA LearntAreBlocks ==
  ASSUME TypeOK, NEW c \in Chains, NEW clk, NEW fetched \in Learnt(c, clk)
  PROVE  fetched \subseteq Blocks
<1>1. News(c, clk) \subseteq Blocks /\ known[c] \subseteq Blocks
  BY NewsAreBlocks DEF TypeOK
<1> QED BY <1>1 DEF Learnt

\* The spends of a bill among its payer's own blocks: all its spends.
LEMMA OwnSpends ==
  ASSUME TypeOK, Placed, NEW c \in Chains, NEW src
  PROVE  SpendsOf(Own(c), c, src) = {d \in Numbers : deals[d].from = c /\ deals[d].src = src}
BY DEF SpendsOf, Own, DealRef, Placed

-----------------------------------------------------------------------------
(* A block more in a purse.                                                *)

\* Chain c has written one more block, b.
Wrote(c, b) ==
  /\ purse' \in [Chains -> Seq(BlockType)]
  /\ Len(purse'[c]) = Len(purse[c]) + 1 /\ purse'[c][Len(purse[c]) + 1] = b
  /\ \A k \in Chains \ {c} : purse'[k] = purse[k]
  /\ \A k \in Chains : \A i \in 1..Len(purse[k]) :
       i \in 1..Len(purse'[k]) /\ purse'[k][i] = purse[k][i]
  /\ \A k \in Chains : \A i \in 1..Len(purse'[k]) :
       i \in 1..Len(purse[k]) \/ (k = c /\ i = Len(purse[c]) + 1)
  /\ Blocks' = Blocks \cup {<<c, Len(purse[c]) + 1>>}

LEMMA WriteWrites ==
  ASSUME TypeOK, NEW c \in Chains, NEW b \in BlockType, Write(c, b)
  PROVE  Wrote(c, b)
<1>1. purse \in [Chains -> Seq(BlockType)]
  BY DEF TypeOK
<1>2. purse' = [k \in Chains |-> IF k = c THEN Append(purse[c], b) ELSE purse[k]]
  BY <1>1 DEF Write
<1>3. PICK s, t : s = purse[c] /\ t = Append(s, b)
  OBVIOUS
<1>4. /\ s \in Seq(BlockType) /\ t \in Seq(BlockType)
      /\ Len(t) = Len(s) + 1 /\ t[Len(s) + 1] = b
      /\ Len(s) \in Nat
      /\ \A i \in 1..Len(s) : i \in 1..Len(t) /\ t[i] = s[i]
      /\ \A i \in 1..Len(t) : i \in 1..Len(s) \/ i = Len(s) + 1
      /\ Len(s) + 1 \in 1..Len(t)
  BY <1>1, <1>3
<1>5. purse'[c] = t /\ \A k \in Chains \ {c} : purse'[k] = purse[k]
  BY <1>2, <1>3
<1>6. purse' \in [Chains -> Seq(BlockType)]
  BY <1>1, <1>2, <1>3, <1>4
<1>7. Blocks' = Blocks \cup {<<c, Len(s) + 1>>}
  <2>1. \A k \in Chains : \A i : i \in 1..Len(purse'[k]) <=>
          i \in 1..Len(purse[k]) \/ (k = c /\ i = Len(s) + 1)
    BY <1>3, <1>4, <1>5
  <2>2. Blocks' = {x \in UNION {{<<k, i>> : i \in 1..Len(purse'[k])} : k \in Chains} : TRUE}
    BY DEF Blocks, Own
  <2> QED BY <2>1 DEF Blocks, Own
<1>8. ASSUME NEW k \in Chains
      PROVE  /\ \A i \in 1..Len(purse[k]) :
                  i \in 1..Len(purse'[k]) /\ purse'[k][i] = purse[k][i]
             /\ \A i \in 1..Len(purse'[k]) :
                  i \in 1..Len(purse[k]) \/ (k = c /\ i = Len(purse[c]) + 1)
  <2>1. CASE k = c
    BY <1>3, <1>4, <1>5, <2>1
  <2>2. CASE k # c
    BY <1>5, <2>2
  <2> QED BY <2>1, <2>2
<1> QED BY <1>3, <1>4, <1>5, <1>6, <1>7, <1>8 DEF Wrote


\* A block that is no reply.
LEMMA QuietWrite ==
  ASSUME IInv, NEW c \in Chains, NEW b \in BlockType, Wrote(c, b),
         b.kind # "reply", b.time <= now, deals' = deals, table \subseteq table',
         now' = now, auto' = auto
  PROVE  Placed' /\ Replied' /\ Threaded' /\ Dated' /\ Autos'
<1>1. Numbers' = Numbers /\ \A d : DealRef(d)' = DealRef(d) /\ Earlier(d)' = Earlier(d)
  BY DEF Numbers, DealRef, Earlier
<1>2. /\ \A d \in Numbers : deals[d].from \in Chains /\ deals[d].to \in Chains
      /\ now \in Nat
  BY TypeFacts DEF IInv
<1>3. Placed'
  BY <1>1, <1>2, SMTT(30) DEF IInv, Placed, Wrote
<1>4. Threaded'
  BY <1>1 DEF IInv, Threaded
<1>5. Dated'
  BY <1>2 DEF IInv, Dated, Wrote
<1>6. \A k \in Chains : \A i, d : IsReply(k, i, d)' <=> IsReply(k, i, d)
  BY DEF Wrote, IsReply
<1>7. \A k \in Chains : \A i, d : IsReply(k, i, d) =>
        i \in 1..Len(purse[k]) /\ purse'[k][i] = purse[k][i] /\ d = purse[k][i].deal
  BY DEF Wrote, IsReply
<1>8. Replied'
  <2>1. ASSUME NEW k \in Chains, NEW i, NEW d, IsReply(k, i, d)'
        PROVE  /\ d \in Numbers' /\ deals'[d].to = k /\ purse'[k][i].time <= deals'[d].until
               /\ purse'[k][i].answer \in {"accepted", "refused"}
               /\ DealRef(d)' \in table'
               /\ \A j : IsReply(k, j, d)' => j = i
    <3>1. IsReply(k, i, d) /\ i \in 1..Len(purse[k]) /\ purse'[k][i] = purse[k][i]
          /\ d \in {purse[k][i].deal}
      BY <1>6, <1>7, <2>1
    <3>2. /\ d \in Numbers /\ deals[d].to = k /\ purse[k][i].time <= deals[d].until
          /\ purse[k][i].answer \in {"accepted", "refused"} /\ DealRef(d) \in table
          /\ \A j \in 1..Len(purse[k]) : IsReply(k, j, d) => j = i
      BY <3>1 DEF IInv, Replied
    <3>3. \A j : IsReply(k, j, d)' => j = i
      BY <1>6, <1>7, <3>2
    <3> QED BY <1>1, <3>1, <3>2, <3>3
  <2> QED BY <2>1 DEF Replied
<1>9. auto \subseteq Numbers
  BY DEF IInv, TypeOK
<1>10. Autos'
  <2>1. ASSUME NEW d \in auto'
        PROVE  \E i \in 1..Len(purse'[deals'[d].to]) :
                 /\ purse'[deals'[d].to][i].kind = "reply" /\ purse'[deals'[d].to][i].deal = d
                 /\ purse'[deals'[d].to][i].answer = "accepted"
    <3>1. PICK c2 \in Chains : c2 = deals[d].to
      BY <1>2, <1>9, <2>1
    <3>2. PICK i \in 1..Len(purse[c2]) : IsReply(c2, i, d) /\ purse[c2][i].answer = "accepted"
      BY <2>1, <3>1 DEF IInv, Autos
    <3>3. i \in 1..Len(purse'[c2]) /\ purse'[c2][i] = purse[c2][i]
      BY <3>2 DEF Wrote
    <3> QED BY <3>1, <3>2, <3>3 DEF IsReply
  <2> QED BY <2>1 DEF Autos, IsReply
<1> QED BY <1>3, <1>4, <1>5, <1>8, <1>10

\* The answer of a chain to an offer.
LEMMA ReplyWrite ==
  ASSUME IInv, NEW c \in Chains, NEW d \in Numbers, NEW a \in {"accepted", "refused"},
         NEW clk \in Clocks, Wrote(c, Block("reply", d, a, clk)), MayAnswer(c, d, clk),
         deals' = deals, table \subseteq table', now' = now,
         auto' = auto \/ (auto' = auto \cup {d} /\ a = "accepted")
  PROVE  Placed' /\ Replied' /\ Threaded' /\ Dated' /\ Autos'
<1>1. Numbers' = Numbers /\ \A e : DealRef(e)' = DealRef(e) /\ Earlier(e)' = Earlier(e)
  BY DEF Numbers, DealRef, Earlier
<1>2. /\ \A e \in Numbers : deals[e].from \in Chains /\ deals[e].to \in Chains
      /\ now \in Nat
  BY TypeFacts DEF IInv
<1>3. Placed'
  BY <1>1, <1>2, SMTT(30) DEF IInv, Placed, Wrote
<1>4. Threaded'
  BY <1>1 DEF IInv, Threaded
<1>5. PICK n, b : n = Len(purse[c]) + 1 /\ b = Block("reply", d, a, clk)
  OBVIOUS
<1>6. b.kind = "reply" /\ b.deal = d /\ b.answer = a /\ b.time = clk
  BY <1>5 DEF Block
<1>7. clk <= now
  BY <1>2 DEF Clocks
<1>8. Dated'
  BY <1>2, <1>5, <1>6, <1>7 DEF IInv, Dated, Wrote
<1>9. /\ deals[d].to = c /\ DealRef(d) \in table /\ clk <= deals[d].until
      /\ \A i \in 1..Len(purse[c]) : ~IsReply(c, i, d)
  BY DEF MayAnswer, OnTable, Answered, IsReply
<1>10. /\ purse'[c][n] = b /\ n \in 1..Len(purse'[c]) /\ n \notin 1..Len(purse[c])
       /\ \A k \in Chains : \A i \in 1..Len(purse'[k]) :
            (i \in 1..Len(purse[k]) /\ purse'[k][i] = purse[k][i]) \/ (k = c /\ i = n)
  <2>1. Len(purse[c]) \in Nat
    BY TypeFacts DEF IInv
  <2>2. purse'[c][n] = b /\ Len(purse'[c]) = n
    BY <1>5 DEF Wrote
  <2> QED BY <1>5, <2>1, <2>2 DEF Wrote
<1>11. ASSUME NEW k \in Chains, NEW i, NEW e, IsReply(k, i, e)'
       PROVE  \/ k = c /\ i = n /\ e = d
              \/ /\ IsReply(k, i, e) /\ purse'[k][i] = purse[k][i]
                 /\ (k = c => e # d)
  BY <1>6, <1>9, <1>10, <1>11 DEF IsReply
<1>12. \A k \in Chains : \A i, e : IsReply(k, i, e) =>
         /\ e \in {purse[k][i].deal} /\ i \in 1..Len(purse[k])
         /\ purse'[k][i] = purse[k][i] /\ i \in 1..Len(purse'[k]) /\ IsReply(k, i, e)'
  BY DEF IsReply, Wrote
<1>13. Replied'
  <2>1. ASSUME NEW k \in Chains, NEW i, NEW e, IsReply(k, i, e)'
        PROVE  /\ e \in Numbers' /\ deals'[e].to = k /\ purse'[k][i].time <= deals'[e].until
               /\ purse'[k][i].answer \in {"accepted", "refused"}
               /\ DealRef(e)' \in table'
               /\ \A j : IsReply(k, j, e)' => j = i
    <3>1. CASE k = c /\ i = n /\ e = d
      <4>1. \A j : IsReply(k, j, e)' => j = i
        BY <1>11, <3>1
      <4> QED BY <1>1, <1>6, <1>9, <1>10, <3>1, <4>1
    <3>2. CASE ~(k = c /\ i = n /\ e = d)
      <4>1. IsReply(k, i, e) /\ (k = c => e # d) /\ purse'[k][i] = purse[k][i]
        BY <1>11, <1>12, <2>1, <3>2
      <4>2. /\ e \in Numbers /\ deals[e].to = k /\ purse[k][i].time <= deals[e].until
            /\ purse[k][i].answer \in {"accepted", "refused"} /\ DealRef(e) \in table
            /\ \A j \in 1..Len(purse[k]) : IsReply(k, j, e) => j = i
        BY <1>12, <4>1 DEF IInv, Replied
      <4>3. \A j : IsReply(k, j, e)' => j = i
        BY <1>11, <1>12, <4>1, <4>2
      <4> QED BY <1>1, <4>1, <4>2, <4>3
    <3> QED BY <3>1, <3>2
  <2> QED BY <2>1 DEF Replied
<1>14. Autos'
  <2>1. ASSUME NEW e \in auto'
        PROVE  \E i \in 1..Len(purse'[deals'[e].to]) :
                 /\ purse'[deals'[e].to][i].kind = "reply" /\ purse'[deals'[e].to][i].deal = e
                 /\ purse'[deals'[e].to][i].answer = "accepted"
    <3>1. CASE e \in auto
      <4>1. PICK c2 \in Chains : c2 = deals[e].to
        BY <1>2, <3>1 DEF IInv, TypeOK
      <4>2. PICK i \in 1..Len(purse[c2]) : IsReply(c2, i, e) /\ purse[c2][i].answer = "accepted"
        BY <3>1, <4>1 DEF IInv, Autos
      <4> QED BY <1>12, <4>1, <4>2 DEF IsReply
    <3>2. CASE e = d /\ a = "accepted"
      BY <1>6, <1>9, <1>10, <3>2
    <3> QED BY <2>1, <3>1, <3>2
  <2> QED BY <2>1 DEF Autos, IsReply
<1> QED BY <1>3, <1>4, <1>8, <1>13, <1>14


\* A deal more is signed.
LEMMA OfferWrite ==
  ASSUME IInv, NEW c \in Chains, NEW src \in {0} \cup Numbers, NEW to \in Chains,
         NEW units \in 1..Credit, NEW clk \in Clocks, NEW fetched, NEW posted,
         Offer(c, src, to, units, clk, fetched, posted)
  PROVE  /\ Wrote(c, Block("deal", Len(deals) + 1, "none", clk))
         /\ Len(deals') = Len(deals) + 1 /\ Len(deals) + 1 <= MaxDeals
         /\ Numbers' = Numbers \cup {Len(deals) + 1}
         /\ deals' \in Seq(DealType)
         /\ \A d \in Numbers : deals'[d] = deals[d]
         /\ deals'[Len(deals) + 1] =
              [from |-> c, index |-> Len(purse[c]) + 1, to |-> to, src |-> src,
               units |-> units, time |-> clk, until |-> clk + Term,
               prev |-> LastSpend(c, src)]
         /\ LastSpend(c, src) \in Nat \cup {NoRef}
         /\ \A S : S = {e \in Numbers : deals[e].from = c /\ deals[e].src = src} =>
              LastSpend(c, src) = IF S = {} THEN NoRef ELSE Max(S)
<1>1. /\ Len(deals) \in Nat /\ Numbers = 1..Len(deals) /\ now \in 0..MaxTime
      /\ Len(purse[c]) \in Nat /\ deals \in Seq(DealType)
  BY TypeFacts DEF IInv, TypeOK
<1>2. clk \in 0..MaxTime /\ clk \in Nat /\ clk + Term \in Nat
  BY <1>1, OffersAssumption DEF Clocks
<1>3. Block("deal", Len(deals) + 1, "none", clk) \in BlockType
  BY <1>1, <1>2 DEF Block, BlockType
<1>4. Wrote(c, Block("deal", Len(deals) + 1, "none", clk))
  BY <1>3, WriteWrites DEF Offer, IInv
<1>5. \A S : S = {e \in Numbers : deals[e].from = c /\ deals[e].src = src} =>
        LastSpend(c, src) = IF S = {} THEN NoRef ELSE Max(S)
  BY OwnSpends DEF LastSpend, IInv
<1>6. LastSpend(c, src) \in Nat \cup {NoRef}
  <2>1. PICK S : S = {e \in Numbers : deals[e].from = c /\ deals[e].src = src}
    OBVIOUS
  <2>2. S \in SUBSET (0..Len(deals))
    BY <1>1, <2>1
  <2>3. S # {} => Max(S) \in S
    BY <1>1, <2>2, MaxNat
  <2> QED BY <1>1, <1>5, <2>1, <2>2, <2>3
<1>7. PICK r : r = [from |-> c, index |-> Len(purse[c]) + 1, to |-> to, src |-> src,
                    units |-> units, time |-> clk, until |-> clk + Term,
                    prev |-> LastSpend(c, src)]
  OBVIOUS
<1>8. r \in DealType
  <2>1. src \in Nat /\ Len(purse[c]) + 1 \in Nat
    BY <1>1
  <2>2. PICK l \in Nat \cup {NoRef}, i \in Nat, u \in Nat, t \in Nat :
          /\ l = LastSpend(c, src) /\ i = Len(purse[c]) + 1
          /\ u = clk + Term /\ t = clk
    BY <1>2, <1>6, <2>1
  <2>3. r = [from |-> c, index |-> i, to |-> to, src |-> src, units |-> units,
             time |-> t, until |-> u, prev |-> l]
    BY <1>7, <2>2
  <2> QED BY <2>1, <2>2, <2>3 DEF DealType
<1>9. deals' = Append(deals, r) /\ Len(deals) < MaxDeals
  BY <1>7 DEF Offer
<1>10. /\ deals' \in Seq(DealType) /\ Len(deals') = Len(deals) + 1
       /\ \A d \in 1..Len(deals) : deals'[d] = deals[d]
       /\ deals'[Len(deals) + 1] = r
  BY <1>1, <1>8, <1>9
<1>11. Numbers' = Numbers \cup {Len(deals) + 1}
  BY <1>1, <1>10 DEF Numbers
<1>12. Len(deals) + 1 <= MaxDeals
  BY <1>1, <1>9, OffersAssumption
<1> QED BY <1>1, <1>4, <1>5, <1>6, <1>7, <1>10, <1>11, <1>12

LEMMA OfferHolds ==
  ASSUME IInv, NEW c \in Chains, NEW src \in {0} \cup Numbers, NEW to \in Chains,
         NEW units \in 1..Credit, NEW clk \in Clocks, NEW fetched, fetched \subseteq Blocks,
         NEW posted, Offer(c, src, to, units, clk, fetched, posted)
  PROVE  IInv'
<1>1. PICK n, m, b, r :
        /\ n = Len(deals) + 1 /\ m = Len(purse[c]) + 1
        /\ b = Block("deal", Len(deals) + 1, "none", clk)
        /\ r = [from |-> c, index |-> Len(purse[c]) + 1, to |-> to, src |-> src,
                units |-> units, time |-> clk, until |-> clk + Term,
                prev |-> LastSpend(c, src)]
  OBVIOUS
<1>2. /\ Wrote(c, b) /\ Len(deals') = n /\ n <= MaxDeals /\ Numbers' = Numbers \cup {n}
      /\ deals' \in Seq(DealType) /\ deals'[n] = r
      /\ \A d \in Numbers : deals'[d] = deals[d]
      /\ \A S : S = {e \in Numbers : deals[e].from = c /\ deals[e].src = src} =>
              r.prev = IF S = {} THEN NoRef ELSE Max(S)
  BY <1>1, OfferWrite
<1>3. /\ Len(deals) \in Nat /\ Numbers = 1..Len(deals) /\ now \in 0..MaxTime
      /\ Len(purse[c]) \in Nat /\ n \notin Numbers /\ n \in Nat
      /\ \A d \in Numbers : deals[d].from \in Chains /\ deals[d].to \in Chains
  BY <1>1, TypeFacts DEF IInv
<1>4. /\ HasBill(c, fetched, src)
      /\ now' = now /\ cosigned' = cosigned /\ auto' = auto
      /\ known' = [known EXCEPT ![c] = fetched]
      /\ table' = IF posted THEN table \cup {<<c, m>>} ELSE table
      /\ unsent' = [unsent EXCEPT ![c] = n]
  BY <1>1 DEF Offer
<1>5. b.kind = "deal" /\ b.deal = n /\ b.time = clk /\ clk <= now /\ clk \in Nat
  BY <1>1, <1>3 DEF Block, Clocks
<1>6. /\ Blocks' = Blocks \cup {<<c, m>>} /\ purse' \in [Chains -> Seq(BlockType)]
      /\ Len(purse'[c]) = m /\ purse'[c][m] = b /\ m \in 1..Len(purse'[c])
  BY <1>1, <1>2, <1>3 DEF Wrote
<1>7. TypeOK'
  <2>1. known' \in [Chains -> SUBSET Blocks']
    BY <1>4, <1>6 DEF IInv, TypeOK
  <2>2. unsent' \in [Chains -> 0..Len(deals')]
    <3>1. unsent \in [Chains -> 0..Len(deals)] /\ 0..Len(deals) \subseteq 0..Len(deals')
          /\ n \in 0..Len(deals')
      BY <1>1, <1>2, <1>3 DEF IInv, TypeOK
    <3> QED BY <1>4, <3>1
  <2>3. table' \subseteq Blocks' /\ cosigned' \subseteq table' /\ auto' \subseteq Numbers'
    BY <1>2, <1>4, <1>6 DEF IInv, TypeOK
  <2> QED BY <1>2, <1>3, <1>4, <1>6, <2>1, <2>2, <2>3 DEF TypeOK
<1>8. Placed'
  <2>1. ASSUME NEW d \in Numbers'
        PROVE  /\ deals'[d].index \in 1..Len(purse'[deals'[d].from])
               /\ purse'[deals'[d].from][deals'[d].index].kind = "deal"
               /\ purse'[deals'[d].from][deals'[d].index].deal = d
    <3>1. CASE d \in Numbers
      <4>1. PICK k \in Chains, i \in Nat : k = deals[d].from /\ i = deals[d].index
        BY <3>1, TypeFacts DEF IInv
      <4>2. i \in 1..Len(purse[k]) /\ purse[k][i].kind = "deal" /\ purse[k][i].deal = d
        BY <3>1, <4>1 DEF IInv, Placed
      <4>3. i \in 1..Len(purse'[k]) /\ purse'[k][i] = purse[k][i]
        BY <1>2, <4>1, <4>2 DEF Wrote
      <4>4. deals'[d].from = k /\ deals'[d].index = i
        BY <1>2, <3>1, <4>1
      <4> QED BY <4>2, <4>3, <4>4
    <3>2. CASE d = n
      <4>1. deals'[d].from = c /\ deals'[d].index = m
        BY <1>1, <1>2, <3>2
      <4> QED BY <1>5, <1>6, <3>2, <4>1
    <3> QED BY <1>2, <2>1, <3>1, <3>2
  <2> QED BY <2>1 DEF Placed
<1>9. \A d \in Numbers : DealRef(d)' = DealRef(d) /\ Earlier(d)' = Earlier(d)
  <2> TAKE d \in Numbers
  <2>1. deals'[d] = deals[d] /\ \A e \in 1..d - 1 : e \in Numbers /\ deals'[e] = deals[e]
    BY <1>2, <1>3
  <2> QED BY <2>1 DEF DealRef, Earlier
<1>10. Threaded'
  <2>1. ASSUME NEW d \in Numbers'
        PROVE  /\ deals'[d].src \in 0..d - 1
               /\ deals'[d].src = 0 => deals'[d].from = Holder
               /\ deals'[d].src # 0 => deals'[deals'[d].src].to = deals'[d].from
               /\ deals'[d].prev = IF Earlier(d)' = {} THEN NoRef ELSE Max(Earlier(d)')
               /\ deals'[d].until = deals'[d].time + Term
    <3>1. CASE d \in Numbers
      <4>1. deals'[d] = deals[d] /\ Earlier(d)' = Earlier(d)
        BY <1>2, <1>9, <3>1
      <4>2. /\ deals[d].src \in 0..d - 1
            /\ deals[d].src = 0 => deals[d].from = Holder
            /\ deals[d].src # 0 => deals[deals[d].src].to = deals[d].from
            /\ deals[d].prev = IF Earlier(d) = {} THEN NoRef ELSE Max(Earlier(d))
            /\ deals[d].until = deals[d].time + Term
        BY <3>1 DEF IInv, Threaded
      <4>3. deals[d].src # 0 => deals'[deals[d].src] = deals[deals[d].src]
        BY <1>2, <1>3, <3>1, <4>2
      <4> QED BY <4>1, <4>2, <4>3
    <3>2. CASE d = n
      <4>1. /\ deals'[d].from = c /\ deals'[d].src = src /\ deals'[d].prev = r.prev
            /\ deals'[d].until = deals'[d].time + Term
        BY <1>1, <1>2, <3>2
      <4>2. Earlier(d)' = {e \in Numbers : deals[e].from = c /\ deals[e].src = src}
        <5>1. 1..d - 1 = Numbers
          BY <1>1, <1>3, <3>2
        <5> QED BY <1>2, <4>1, <5>1 DEF Earlier
      <4>3. deals'[d].prev = IF Earlier(d)' = {} THEN NoRef ELSE Max(Earlier(d)')
        BY <1>2, <4>1, <4>2
      <4>4. src \in 0..d - 1
        BY <1>1, <1>3, <3>2
      <4>5. /\ src = 0 => c = Holder
            /\ src # 0 => deals'[src].to = c
        BY <1>2, <1>3, <1>4 DEF HasBill
      <4> QED BY <4>1, <4>3, <4>4, <4>5
    <3> QED BY <1>2, <2>1, <3>1, <3>2
  <2> QED BY <2>1 DEF Threaded
<1>11. Dated'
  <2>1. ASSUME NEW k \in Chains, NEW i \in 1..Len(purse'[k])
        PROVE  purse'[k][i].time <= now'
    <3>1. CASE i \in 1..Len(purse[k])
      <4>1. purse'[k][i] = purse[k][i]
        BY <1>2, <2>1, <3>1 DEF Wrote
      <4>2. purse[k][i].time <= now
        BY <2>1, <3>1 DEF IInv, Dated
      <4> QED BY <1>4, <4>1, <4>2
    <3>2. CASE k = c /\ i = m
      BY <1>4, <1>5, <1>6, <3>2
    <3> QED BY <1>1, <1>2, <2>1, <3>1, <3>2 DEF Wrote
  <2> QED BY <2>1 DEF Dated
<1>12. \A k \in Chains : \A i, e : IsReply(k, i, e) =>
         /\ e \in {purse[k][i].deal} /\ i \in 1..Len(purse[k])
         /\ purse'[k][i] = purse[k][i] /\ i \in 1..Len(purse'[k])
  BY <1>2 DEF IsReply, Wrote
<1>13. \A k \in Chains : \A i, e : IsReply(k, i, e)' <=> IsReply(k, i, e)
  BY <1>1, <1>2, <1>5, <1>6, <1>12, SMTT(30) DEF IsReply, Wrote
<1>14. Replied'
  <2>1. ASSUME NEW k \in Chains, NEW i, NEW e, IsReply(k, i, e)'
        PROVE  /\ e \in Numbers' /\ deals'[e].to = k /\ purse'[k][i].time <= deals'[e].until
               /\ purse'[k][i].answer \in {"accepted", "refused"}
               /\ DealRef(e)' \in table'
               /\ \A j : IsReply(k, j, e)' => j = i
    <3>1. IsReply(k, i, e) /\ purse'[k][i] = purse[k][i]
      BY <1>12, <1>13, <2>1
    <3>2. /\ e \in Numbers /\ deals[e].to = k /\ purse[k][i].time <= deals[e].until
          /\ purse[k][i].answer \in {"accepted", "refused"} /\ DealRef(e) \in table
          /\ \A j \in 1..Len(purse[k]) : IsReply(k, j, e) => j = i
      BY <1>12, <3>1 DEF IInv, Replied
    <3>3. \A j : IsReply(k, j, e)' => j = i
      BY <1>12, <1>13, <3>2
    <3>4. deals'[e] = deals[e] /\ DealRef(e)' = DealRef(e) /\ table \subseteq table'
      BY <1>2, <1>4, <1>9, <3>2
    <3> QED BY <1>2, <3>1, <3>2, <3>3, <3>4
  <2> QED BY <2>1 DEF Replied
<1>15. Autos'
  <2>1. ASSUME NEW e \in auto'
        PROVE  \E i \in 1..Len(purse'[deals'[e].to]) :
                 /\ purse'[deals'[e].to][i].kind = "reply" /\ purse'[deals'[e].to][i].deal = e
                 /\ purse'[deals'[e].to][i].answer = "accepted"
    <3>1. e \in Numbers /\ deals'[e] = deals[e]
      BY <1>2, <1>4, <2>1 DEF IInv, TypeOK
    <3>2. PICK c2 \in Chains : c2 = deals[e].to
      BY <1>3, <3>1
    <3>3. PICK i \in 1..Len(purse[c2]) : IsReply(c2, i, e) /\ purse[c2][i].answer = "accepted"
      BY <1>4, <2>1, <3>2 DEF IInv, Autos
    <3> QED BY <1>12, <3>1, <3>2, <3>3, SMTT(30) DEF IsReply
  <2> QED BY <2>1 DEF Autos, IsReply
<1> QED BY <1>7, <1>8, <1>10, <1>11, <1>14, <1>15 DEF IInv


\* What is stored, fetched or co-signed when a client writes a block.
LEMMA WriteTypes ==
  ASSUME IInv, NEW c \in Chains, NEW b, Wrote(c, b), deals' = deals, now' = now,
         unsent' = unsent, auto' \subseteq Numbers,
         table \subseteq table', table' \subseteq table \cup {<<c, Len(purse[c]) + 1>>},
         cosigned' \subseteq table', known' \in [Chains -> SUBSET Blocks]
  PROVE  TypeOK'
<1>1. Numbers' = Numbers
  BY DEF Numbers
<1>2. Blocks' = Blocks \cup {<<c, Len(purse[c]) + 1>>} /\ purse' \in [Chains -> Seq(BlockType)]
  BY DEF Wrote
<1>3. known' \in [Chains -> SUBSET Blocks']
  BY <1>2
<1>4. table' \subseteq Blocks'
  BY <1>2 DEF IInv, TypeOK
<1> QED BY <1>1, <1>2, <1>3, <1>4 DEF IInv, TypeOK

LEMMA AnswerHolds ==
  ASSUME IInv, NEW c \in Chains, NEW d \in Numbers, NEW clk \in Clocks, NEW posted,
         NEW a \in {"accepted", "refused"}, MayAnswer(c, d, clk), Reply(c, d, a, clk, posted),
         auto' = auto \/ (auto' = auto \cup {d} /\ a = "accepted")
  PROVE  IInv'
<1>1. now \in 0..MaxTime /\ d \in Nat /\ clk \in 0..MaxTime
  BY TypeFacts, OffersAssumption DEF IInv, Clocks
<1>2. Block("reply", d, a, clk) \in BlockType
  BY <1>1 DEF Block, BlockType
<1>3. Wrote(c, Block("reply", d, a, clk))
  BY <1>2, WriteWrites DEF Reply, IInv
<1>4. /\ deals' = deals /\ now' = now /\ cosigned' = cosigned /\ unsent' = unsent
      /\ table' = IF posted THEN table \cup {<<c, Len(purse[c]) + 1>>} ELSE table
      /\ known' = [known EXCEPT ![c] = @ \cup {DealRef(d)}]
  BY DEF Reply
<1>5. DealRef(d) \in Blocks
  BY DEF MayAnswer, OnTable, IInv, TypeOK
<1>6. known' \in [Chains -> SUBSET Blocks]
  BY <1>4, <1>5 DEF IInv, TypeOK
<1>7. TypeOK'
  BY <1>3, <1>4, <1>6, WriteTypes DEF IInv, TypeOK
<1>8. Placed' /\ Replied' /\ Threaded' /\ Dated' /\ Autos'
  BY <1>3, <1>4, ReplyWrite
<1> QED BY <1>7, <1>8 DEF IInv

LEMMA StampHolds ==
  ASSUME IInv, NEW c \in Chains, NEW clk \in Clocks, NEW kind \in {"note", "merge"},
         NEW posted,
         Write(c, Block(kind, 0, "none", clk)),
         table' = IF posted THEN table \cup {<<c, Len(purse[c]) + 1>>} ELSE table,
         cosigned' = cosigned \/ (posted /\ cosigned' = cosigned \cup {<<c, Len(purse[c]) + 1>>}),
         UNCHANGED <<now, deals, known, unsent, auto>>
  PROVE  IInv'
<1>1. now \in 0..MaxTime /\ clk \in 0..MaxTime /\ clk <= now
  BY TypeFacts, OffersAssumption DEF IInv, Clocks
<1>2. PICK b : b = Block(kind, 0, "none", clk)
  OBVIOUS
<1>3. b \in BlockType /\ b.kind # "reply" /\ b.time <= now
  BY <1>1, <1>2 DEF Block, BlockType
<1>4. Wrote(c, b)
  BY <1>2, <1>3, WriteWrites DEF IInv
<1>5. TypeOK'
  BY <1>4, WriteTypes DEF IInv, TypeOK
<1>6. Placed' /\ Replied' /\ Threaded' /\ Dated' /\ Autos'
  BY <1>3, <1>4, QuietWrite
<1> QED BY <1>5, <1>6 DEF IInv

\* Steps that write no block.
LEMMA NoWrite ==
  ASSUME IInv, purse' = purse, deals' = deals, auto' = auto, now' \in 0..MaxTime,
         now <= now', table \subseteq table', table' \subseteq Blocks,
         cosigned' \subseteq table', known' \in [Chains -> SUBSET Blocks],
         unsent' \in [Chains -> 0..Len(deals)]
  PROVE  IInv'
<1>1. /\ Numbers' = Numbers /\ Blocks' = Blocks
      /\ \A d : DealRef(d)' = DealRef(d) /\ Earlier(d)' = Earlier(d)
      /\ \A c, i, d : IsReply(c, i, d)' = IsReply(c, i, d)
  BY DEF Numbers, Blocks, Own, DealRef, Earlier, IsReply
<1>2. TypeOK'
  BY <1>1 DEF IInv, TypeOK
<1>3. Placed' /\ Threaded'
  BY <1>1 DEF IInv, Placed, Threaded
<1>4. Replied'
  BY <1>1 DEF IInv, Replied
<1>5. Dated'
  <2>1. now \in 0..MaxTime /\ \A c \in Chains : \A i \in 1..Len(purse[c]) :
          purse[c][i].time \in 0..MaxTime /\ purse[c][i].time <= now
    BY TypeFacts DEF IInv, Dated
  <2> QED BY <2>1, OffersAssumption DEF Dated
<1>6. Autos'
  BY <1>1 DEF IInv, Autos
<1> QED BY <1>2, <1>3, <1>4, <1>5, <1>6 DEF IInv

LEMMA ProvenanceIsThere ==
  ASSUME IInv, NEW c \in Chains, unsent[c] # 0
  PROVE  Provenance(c, unsent[c]) \subseteq Blocks
<1>1. PICK d : d = unsent[c]
  OBVIOUS
<1>2. d \in Numbers /\ Numbers = 1..Len(deals) /\ Len(deals) \in Nat
  <2>1. unsent[c] \in 0..Len(deals)
    BY DEF IInv, TypeOK
  <2> QED BY <1>1, <2>1, TypeFacts DEF IInv
<1>3. \A e \in Numbers : DealRef(e) \in Blocks
  BY TypeFacts, BlocksAre DEF IInv, Placed, DealRef
<1>4. deals[d].src # 0 => deals[d].src \in Numbers
  BY <1>2 DEF IInv, Threaded
<1>5. Own(c) \subseteq Blocks
  BY BlocksAre
<1> QED BY <1>1, <1>3, <1>4, <1>5 DEF Provenance

LEMMA InitHolds == Init => IInv
<1> SUFFICES ASSUME Init PROVE IInv
  OBVIOUS
<1>1. /\ deals = <<>> /\ Len(deals) = 0 /\ Numbers = {} /\ table = {} /\ now = 0
      /\ deals \in Seq(DealType)
      /\ \A c \in Chains : purse[c] = <<>> /\ 1..Len(purse[c]) = {}
      /\ purse \in [Chains -> Seq(BlockType)]
  BY DEF Init, Numbers
<1>2. TypeOK
  BY <1>1, OffersAssumption DEF Init, TypeOK
<1> QED BY <1>1, <1>2 DEF Init, IInv, Placed, Replied, Threaded, Dated, Autos

LEMMA NextHolds ==
  ASSUME IInv, [Next]_vars
  PROVE  IInv'
<1>1. /\ now \in 0..MaxTime /\ Len(deals) \in Nat
      /\ known \in [Chains -> SUBSET Blocks] /\ table \subseteq Blocks
      /\ cosigned \subseteq table /\ unsent \in [Chains -> 0..Len(deals)]
      /\ now \in Clocks
  BY TypeFacts, OffersAssumption DEF IInv, TypeOK, Clocks
<1>2. CASE Pays
  <2>1. PICK c \in Chains, clk \in Clocks :
          \E fetched \in Learnt(c, clk), to \in Chains \ {c}, src \in {0} \cup Numbers,
             units \in 1..Credit, posted \in Post :
            Offer(c, src, to, units, clk, fetched, posted)
    BY <1>2 DEF Pays
  <2>2. PICK fetched \in Learnt(c, clk), to \in Chains \ {c}, src \in {0} \cup Numbers,
             units \in 1..Credit, posted \in Post :
          Offer(c, src, to, units, clk, fetched, posted)
    BY <2>1
  <2>3. fetched \subseteq Blocks
    BY <2>2, LearntAreBlocks DEF IInv
  <2> QED BY <2>1, <2>2, <2>3, OfferHolds
<1>3. CASE Uploads
  <2>1. PICK c \in Chains, posted \in Post : Upload(c, posted)
    BY <1>3 DEF Uploads
  <2>2. Provenance(c, unsent[c]) \subseteq Blocks
    BY <2>1, ProvenanceIsThere DEF Upload, Idle
  <2>3. unsent' \in [Chains -> 0..Len(deals)]
    BY <1>1, <2>1 DEF Upload
  <2> QED BY <1>1, <2>1, <2>2, <2>3, NoWrite DEF Upload
<1>4. CASE Learns
  <2>1. PICK c \in Chains, clk \in Clocks :
          \E fetched \in Learnt(c, clk) : Refresh(c, fetched)
    BY <1>4 DEF Learns
  <2>2. PICK fetched \in Learnt(c, clk) : Refresh(c, fetched)
    BY <2>1
  <2>3. fetched \subseteq Blocks
    BY <2>2, LearntAreBlocks DEF IInv
  <2>4. known' \in [Chains -> SUBSET Blocks]
    BY <1>1, <2>2, <2>3 DEF Refresh
  <2> QED BY <1>1, <2>2, <2>4, NoWrite DEF Refresh
<1>5. CASE Answers
  <2>1. PICK c \in Chains, d \in Numbers, clk \in Clocks, posted \in Post :
          \/ RefuseOutright(c, d, clk, posted) \/ AcceptAuto(c, d, clk, posted)
          \/ AcceptByHand(c, d, clk, posted) \/ Refuse(c, d, clk, posted)
    BY <1>5 DEF Answers
  <2>2. CASE RefuseOutright(c, d, clk, posted) \/ Refuse(c, d, clk, posted)
    BY <2>2, AnswerHolds DEF RefuseOutright, Refuse
  <2>3. CASE AcceptAuto(c, d, clk, posted) \/ AcceptByHand(c, d, clk, posted)
    BY <2>3, AnswerHolds DEF AcceptAuto, AcceptByHand
  <2> QED BY <2>1, <2>2, <2>3
<1>6. CASE Dates
  <2>1. PICK c \in Chains, posted \in Post :
          (\E clk \in Clocks : Note(c, clk, posted)) \/ Merge(c, posted)
    BY <1>6 DEF Dates
  <2>2. ASSUME NEW clk \in Clocks, Note(c, clk, posted) PROVE IInv'
    BY <2>2, StampHolds DEF Note
  <2>3. CASE Merge(c, posted)
    <3>1. /\ Write(c, Block("merge", 0, "none", now))
          /\ table' = IF posted THEN table \cup {<<c, Len(purse[c]) + 1>>} ELSE table
          /\ cosigned' = cosigned \/ (posted /\ cosigned' = cosigned \cup {<<c, Len(purse[c]) + 1>>})
          /\ UNCHANGED <<now, deals, known, unsent, auto>>
      BY <2>3 DEF Merge
    <3> QED BY <1>1, <3>1, StampHolds
  <2> QED BY <2>1, <2>2, <2>3
<1>7. CASE Arrives
  <2>1. PICK c \in Chains : \E i \in 1..Len(purse[c]) : Gossip(c, i)
    BY <1>7 DEF Arrives
  <2>2. PICK i \in 1..Len(purse[c]) : Gossip(c, i)
    BY <2>1
  <2>3. <<c, i>> \in Blocks
    BY <2>1, <2>2, BlocksAre
  <2> QED BY <1>1, <2>2, <2>3, NoWrite DEF Gossip
<1>8. CASE Tick
  <2>1. now' \in 0..MaxTime /\ now <= now'
    BY <1>1, <1>8, OffersAssumption DEF Tick
  <2> QED BY <1>1, <1>8, <2>1, NoWrite DEF Tick
<1>9. CASE UNCHANGED vars
  BY <1>1, <1>9, NoWrite DEF vars
<1> QED BY <1>2, <1>3, <1>4, <1>5, <1>6, <1>7, <1>8, <1>9 DEF Next

\* What the offers, the purses and the table always satisfy: every reply is the
\* one answer of the seller, in time and to an offer the aggregator had; every
\* offer names the spend of its bill before it.
THEOREM Invariance == Spec => []IInv
<1>1. IInv /\ [Next]_vars => IInv'
  BY NextHolds
<1> QED BY InitHolds, <1>1, PTL DEF Spec

\* The table and what the clients fetched hold blocks that exist, whatever posts
\* are lost and whatever the clocks show.
THEOREM OffersTypeCorrect == Spec => []TypeOK
<1>1. IInv => TypeOK
  BY DEF IInv
<1> QED BY <1>1, Invariance, PTL


-----------------------------------------------------------------------------
(* What a step leaves alone, and how a reply is read.                      *)

\* Nothing signed, stored or co-signed is ever taken back.
Grown ==
  /\ Numbers \subseteq Numbers' /\ \A d \in Numbers : deals'[d] = deals[d]
  /\ table \subseteq table' /\ cosigned \subseteq cosigned'
  /\ \A c \in Chains : \A i \in 1..Len(purse[c]) :
       i \in 1..Len(purse'[c]) /\ purse'[c][i] = purse[c][i]

LEMMA WrittenGrows ==
  ASSUME IInv, NEW c \in Chains, NEW b, Wrote(c, b), deals' = deals,
         table \subseteq table', cosigned \subseteq cosigned'
  PROVE  Grown
BY DEF Grown, Wrote, Numbers

LEMMA StepGrows ==
  ASSUME IInv, [Next]_vars
  PROVE  Grown
<1>1. ASSUME purse' = purse, deals' = deals, table \subseteq table', cosigned \subseteq cosigned'
      PROVE  Grown
  BY <1>1 DEF Grown, Numbers
<1>2. /\ now \in 0..MaxTime /\ Clocks \subseteq 0..MaxTime /\ now \in Clocks
      /\ \A d \in Numbers : d \in Nat
  BY TypeFacts, OffersAssumption DEF IInv, Clocks
<1>3. ASSUME NEW c \in Chains, NEW b \in BlockType, Write(c, b)
      PROVE  Wrote(c, b)
  BY <1>3, WriteWrites DEF IInv
<1>4. CASE Pays
  <2>1. PICK c \in Chains, clk \in Clocks :
          \E fetched \in Learnt(c, clk), to \in Chains \ {c}, src \in {0} \cup Numbers,
             units \in 1..Credit, posted \in Post :
            Offer(c, src, to, units, clk, fetched, posted)
    BY <1>4 DEF Pays
  <2>2. PICK fetched \in Learnt(c, clk), to \in Chains \ {c}, src \in {0} \cup Numbers,
             units \in 1..Credit, posted \in Post :
          Offer(c, src, to, units, clk, fetched, posted)
    BY <2>1
  <2>3. /\ Wrote(c, Block("deal", Len(deals) + 1, "none", clk))
        /\ Numbers' = Numbers \cup {Len(deals) + 1}
        /\ \A d \in Numbers : deals'[d] = deals[d]
    BY <2>1, <2>2, OfferWrite
  <2>4. table \subseteq table' /\ cosigned' = cosigned
    BY <2>2 DEF Offer
  <2> QED BY <2>1, <2>3, <2>4 DEF Grown, Wrote
<1>5. CASE Uploads
  BY <1>1, <1>5 DEF Uploads, Upload
<1>6. CASE Learns
  BY <1>1, <1>6 DEF Learns, Refresh
<1>7. CASE Answers
  <2>1. PICK c \in Chains, d \in Numbers, clk \in Clocks, posted \in Post :
          \E a \in {"accepted", "refused"} : Reply(c, d, a, clk, posted)
    BY <1>7 DEF Answers, RefuseOutright, AcceptAuto, AcceptByHand, Refuse
  <2>2. PICK a \in {"accepted", "refused"} : Reply(c, d, a, clk, posted)
    BY <2>1
  <2>3. Block("reply", d, a, clk) \in BlockType
    BY <1>2, <2>1, <2>2 DEF Block, BlockType
  <2> QED BY <1>3, <2>1, <2>2, <2>3, WrittenGrows DEF Reply
<1>8. CASE Dates
  <2>1. PICK c \in Chains, posted \in Post :
          (\E clk \in Clocks : Note(c, clk, posted)) \/ Merge(c, posted)
    BY <1>8 DEF Dates
  <2>2. ASSUME NEW clk \in Clocks, Note(c, clk, posted) PROVE Grown
    <3>1. Block("note", 0, "none", clk) \in BlockType
      BY <1>2, <2>2 DEF Block, BlockType
    <3> QED BY <1>3, <2>1, <2>2, <3>1, WrittenGrows DEF Note
  <2>3. CASE Merge(c, posted)
    <3>1. Block("merge", 0, "none", now) \in BlockType
      BY <1>2 DEF Block, BlockType
    <3> QED BY <1>3, <2>1, <2>3, <3>1, WrittenGrows DEF Merge
  <2> QED BY <2>1, <2>2, <2>3
<1>9. CASE Arrives
  BY <1>1, <1>9 DEF Arrives, Gossip
<1>10. CASE Tick
  BY <1>1, <1>10 DEF Tick
<1>11. CASE UNCHANGED vars
  BY <1>1, <1>11 DEF vars
<1> QED BY <1>4, <1>5, <1>6, <1>7, <1>8, <1>9, <1>10, <1>11 DEF Next

\* s is the latest date that blocks B of chain c claim up to position i.
Latest(B, c, i, s) ==
  /\ s \in Nat
  /\ \A j \in 1..i : <<c, j>> \in B => purse[c][j].time <= s
  /\ \E j \in 1..i : <<c, j>> \in B /\ purse[c][j].time = s

LEMMA SinceIs ==
  ASSUME TypeOK, NEW B, B \subseteq Blocks, NEW c \in Chains, NEW i, <<c, i>> \in B
  PROVE  Latest(B, c, i, Since(B, c, i))
<1>1. PICK n : n = Len(purse[c])
  OBVIOUS
<1>2. n \in Nat /\ i \in 1..n /\ \A j \in 1..n : purse[c][j].time \in 0..MaxTime
  BY <1>1, TypeFacts, BlocksAre
<1>3. PICK T : T = {purse[c][j].time : j \in {k \in 1..i : <<c, k>> \in B}}
  OBVIOUS
<1>4. T \in SUBSET (0..MaxTime) /\ purse[c][i].time \in T
  <2>1. i \in {k \in 1..i : <<c, k>> \in B}
    BY <1>2
  <2>2. \A j \in {k \in 1..i : <<c, k>> \in B} : j \in 1..n
    BY <1>2
  <2> QED BY <1>2, <1>3, <2>1, <2>2
<1>5. Max(T) \in T /\ \A t \in T : t <= Max(T)
  BY <1>4, OffersAssumption, MaxNat
<1>6. Since(B, c, i) = Max(T)
  BY <1>3 DEF Since
<1>7. PICK s : s = Max(T)
  OBVIOUS
<1>8. s \in 0..MaxTime /\ s \in T /\ \A t \in T : t <= s
  <2>1. s \in T /\ \A t \in T : t <= s
    BY <1>5, <1>7
  <2> QED BY <1>4, <2>1
<1>9. \A j \in 1..i : <<c, j>> \in B => purse[c][j].time <= s
  <2>1. \A j \in 1..i : <<c, j>> \in B => purse[c][j].time \in T
    BY <1>3
  <2> QED BY <1>8, <2>1
<1>10. \E j \in 1..i : <<c, j>> \in B /\ purse[c][j].time = s
  BY <1>3, <1>8
<1> QED BY <1>6, <1>7, <1>8, <1>9, <1>10 DEF Latest

\* The view holds the seller's reply to offer d, the block at i.
Heard(view, d, i) ==
  \A c \in {deals[d].to} : IsReply(c, i, d) /\ <<c, i>> \in view.blocks

\* No date before it says the term was over.
Timely(view, d, i) ==
  view.running => Since(view.blocks, deals[d].to, i) <= deals[d].until

\* How a view reads the answer to d.
Reads(view, d) ==
  /\ \A i : Heard(view, d, i) /\ Timely(view, d, i) =>
       /\ AnswerIn(view, d) = purse[deals[d].to][i].answer
       /\ AnswerIn(view, d) \in {"accepted", "refused"}
       /\ CountedIn(view, d) = {ReplyAt(view, <<deals[d].to, i>>)}
  /\ (\A i : ~(Heard(view, d, i) /\ Timely(view, d, i))) =>
       AnswerIn(view, d) = "none" /\ CountedIn(view, d) = {}
  /\ \A i, j : Heard(view, d, i) /\ Heard(view, d, j) => j = i

LEMMA AnswerReads ==
  ASSUME IInv, NEW B, B \subseteq Blocks, NEW run \in BOOLEAN, NEW d \in Numbers, NEW view,
         view = [blocks |-> B, running |-> run]
  PROVE  Reads(view, d)
<1>1. PICK c, R : c \in Chains /\ c = deals[d].to /\ R = Replies(view, d)
  BY TypeFacts DEF IInv
<1>2. AnswerIn(view, d) = AnswerOf(Offered(d), R) /\ CountedIn(view, d) = Counted(Offered(d), R)
  BY <1>1, TheOne DEF AnswerIn, CountedIn
<1>3. view.blocks = B /\ view.running = run
  OBVIOUS
<1>4. deals[d].until \in Nat
  BY TypeFacts DEF IInv
<1>5. ASSUME NEW i, Heard(view, d, i)
      PROVE  /\ purse[c][i].time <= deals[d].until /\ purse[c][i].time \in Nat
             /\ purse[c][i].answer \in {"accepted", "refused"}
             /\ <<c, i>> \in B /\ i \in 1..Len(purse[c]) /\ IsReply(c, i, d)
             /\ \A j \in 1..Len(purse[c]) : IsReply(c, j, d) => j = i
  <2>1. IsReply(c, i, d) /\ <<c, i>> \in B
    BY <1>1, <1>3, <1>5 DEF Heard
  <2>2. i \in 1..Len(purse[c]) /\ d \in {purse[c][i].deal}
    BY <2>1 DEF IsReply
  <2>3. purse[c][i].time \in 0..MaxTime
    BY <1>1, <2>2, TypeFacts DEF IInv
  <2> QED BY <1>1, <2>1, <2>2, <2>3 DEF IInv, Replied
<1>6. ASSUME NEW r \in R
      PROVE  \E i : Heard(view, d, i) /\ r = ReplyAt(view, <<c, i>>)
  <2>1. PICK q \in B : /\ r = ReplyAt(view, q)
                       /\ purse[q[1]][q[2]].kind = "reply" /\ purse[q[1]][q[2]].deal = d
    BY <1>1, <1>3, <1>6 DEF Replies
  <2>2. PICK k, i : k \in Chains /\ q = <<k, i>> /\ i \in 1..Len(purse[k])
    BY <2>1, BlocksAre
  <2>3. IsReply(k, i, d) /\ d \in {purse[k][i].deal}
    BY <2>1, <2>2 DEF IsReply
  <2>4. k = c
    BY <1>1, <2>2, <2>3 DEF IInv, Replied
  <2> QED BY <1>1, <1>3, <2>1, <2>2, <2>3, <2>4 DEF Heard
<1>7. ASSUME NEW i, Heard(view, d, i)
      PROVE  R = {ReplyAt(view, <<c, i>>)}
  <2>1. ReplyAt(view, <<c, i>>) \in R
    BY <1>1, <1>3, <1>5, <1>7 DEF Replies, IsReply
  <2>2. \A j : Heard(view, d, j) => j = i
    BY <1>5, <1>7
  <2>3. \A r \in R : r = ReplyAt(view, <<c, i>>)
    BY <1>6, <2>2
  <2> QED BY <2>1, <2>3
<1>8. ASSUME NEW i, Heard(view, d, i)
      PROVE  /\ FirstWord(Offered(d), R) = R
             /\ \A r \in R : Later(r.time, r.since) <= deals[d].until <=> Timely(view, d, i)
             /\ \A r \in R : r.answer = purse[c][i].answer
  <2>1. PICK r : r = ReplyAt(view, <<c, i>>)
    OBVIOUS
  <2>2. /\ r.deal = d /\ r.author = c /\ r.node = 0 /\ r.index = i
        /\ r.answer = purse[c][i].answer /\ r.time = purse[c][i].time
        /\ r.since = IF run THEN Since(B, c, i) ELSE 0
    BY <1>3, <1>5, <1>8, <2>1 DEF ReplyAt, IsReply
  <2>3. i \in Nat
    <3>1. i \in 1..Len(purse[c])
      BY <1>5, <1>8
    <3> QED BY <3>1
  <2>4. FirstWord(Offered(d), R) = R
    BY <1>1, <1>7, <1>8, <2>1, <2>2, <2>3 DEF FirstWord, Offered
  <2>5. Since(B, c, i) \in Nat
    BY <1>1, <1>5, <1>8, SinceIs DEF IInv, Latest
  <2>6. Later(r.time, r.since) <= deals[d].until <=> Timely(view, d, i)
    <3>1. PICK t \in Nat, s \in Nat, u \in Nat :
            t = r.time /\ s = Since(B, c, i) /\ u = deals[d].until
      BY <1>4, <1>5, <1>8, <2>2, <2>5
    <3>2. t <= u /\ r.since = IF run THEN s ELSE 0
      BY <1>5, <1>8, <2>2, <3>1
    <3>3. Timely(view, d, i) <=> (run => s <= u)
      BY <1>1, <1>3, <3>1 DEF Timely
    <3>4. Later(t, r.since) <= u <=> (run => s <= u)
      BY <3>2 DEF Later
    <3> QED BY <3>1, <3>3, <3>4
  <2> QED BY <1>7, <1>8, <2>1, <2>2, <2>4, <2>6
<1>9. ASSUME NEW i, Heard(view, d, i)
      PROVE  Counted(Offered(d), R) = IF Timely(view, d, i) THEN R ELSE {}
  BY <1>8, <1>9 DEF Counted, Offered
<1>10. ASSUME NEW i, Heard(view, d, i), Timely(view, d, i)
       PROVE  /\ AnswerIn(view, d) = purse[c][i].answer
              /\ CountedIn(view, d) = {ReplyAt(view, <<c, i>>)}
  <2>1. Counted(Offered(d), R) = R /\ R = {ReplyAt(view, <<c, i>>)}
    BY <1>7, <1>9, <1>10
  <2>2. The(R) \in R
    BY <2>1, TheOne
  <2>3. AnswerOf(Offered(d), R) = purse[c][i].answer
    BY <1>8, <1>10, <2>1, <2>2 DEF AnswerOf
  <2> QED BY <1>2, <2>1, <2>3
<1>11. ASSUME \A i : ~(Heard(view, d, i) /\ Timely(view, d, i))
       PROVE  AnswerIn(view, d) = "none" /\ CountedIn(view, d) = {}
  <2>1. CASE \E i : Heard(view, d, i)
    BY <1>2, <1>9, <1>11, <2>1 DEF AnswerOf
  <2>2. CASE \A i : ~Heard(view, d, i)
    <3>1. R = {}
      BY <1>6, <2>2
    <3>2. Counted(Offered(d), R) = {}
      BY <3>1 DEF Counted, FirstWord
    <3> QED BY <1>2, <3>2 DEF AnswerOf
  <2> QED BY <2>1, <2>2
<1> QED BY <1>1, <1>5, <1>10, <1>11 DEF Reads


\* What the aggregator reads, and how its branches are dated.
TableReads ==
  /\ \A d \in Numbers : Reads(TableView, d)
  /\ \A c \in Chains : \A i \in 1..Len(purse[c]) :
       <<c, i>> \in table => Latest(table, c, i, Since(table, c, i))

LEMMA TableIsRead == IInv => TableReads
<1> SUFFICES ASSUME IInv PROVE TableReads
  OBVIOUS
<1>1. table \subseteq Blocks
  BY DEF IInv, TypeOK
<1>2. \A d \in Numbers : Reads(TableView, d)
  BY <1>1, AnswerReads DEF TableView
<1>3. \A c \in Chains : \A i \in 1..Len(purse[c]) :
        <<c, i>> \in table => Latest(table, c, i, Since(table, c, i))
  BY <1>1, SinceIs DEF IInv
<1> QED BY <1>2, <1>3 DEF TableReads

\* With every block up to i there, no date up to i changes any more.
LEMMA DatesStay ==
  ASSUME IInv, IInv', Grown, NEW c \in Chains, NEW i \in 1..Len(purse[c]), Whole(c, i)
  PROVE  Since(table, c, i)' = Since(table, c, i)
<1>1. TableReads /\ TableReads'
  <2>1. IInv' => TableReads'
    BY TableIsRead, PTL
  <2> QED BY <2>1, TableIsRead
<1>2. /\ i \in Nat /\ i \in 1..Len(purse'[c])
      /\ \A j \in 1..i : /\ j \in 1..Len(purse[c]) /\ <<c, j>> \in table
                         /\ <<c, j>> \in table' /\ purse'[c][j] = purse[c][j]
  <2>1. i \in Nat /\ \A j \in 1..i : j \in 1..Len(purse[c])
    BY TypeFacts DEF IInv
  <2> QED BY <2>1 DEF Whole, Grown
<1>3. <<c, i>> \in table /\ <<c, i>> \in table'
  BY <1>2
<1>4. PICK s, t : s = Since(table, c, i) /\ t = Since(table, c, i)'
  OBVIOUS
<1>5. /\ s \in Nat /\ \A j \in 1..i : purse[c][j].time <= s
      /\ \E j \in 1..i : purse[c][j].time = s
  BY <1>1, <1>2, <1>3, <1>4 DEF TableReads, Latest
<1>6. /\ t \in Nat /\ \A j \in 1..i : purse[c][j].time <= t
      /\ \E j \in 1..i : purse[c][j].time = t
  BY <1>1, <1>2, <1>3, <1>4 DEF TableReads, Latest
<1>7. s <= t /\ t <= s
  BY <1>5, <1>6
<1> QED BY <1>4, <1>5, <1>6, <1>7

\* Blocks that come in can only push the dates of a branch on.
LEMMA DatesRise ==
  ASSUME IInv, IInv', Grown, NEW c \in Chains, NEW i \in 1..Len(purse[c]),
         <<c, i>> \in table, NEW k \in i..Len(purse'[c]), <<c, k>> \in table'
  PROVE  Since(table, c, i) <= Since(table, c, k)'
<1>1. TableReads /\ TableReads'
  <2>1. IInv' => TableReads'
    BY TableIsRead, PTL
  <2> QED BY <2>1, TableIsRead
<1>2. PICK s, t : s = Since(table, c, i) /\ t = Since(table, c, k)'
  OBVIOUS
<1>3. PICK j \in 1..i : s \in Nat /\ <<c, j>> \in table /\ purse[c][j].time = s
  BY <1>1, <1>2 DEF TableReads, Latest
<1>4. i \in Nat /\ k \in 1..Len(purse'[c]) /\ j \in 1..Len(purse[c]) /\ j \in 1..k
  BY <1>3, TypeFacts DEF IInv
<1>5. <<c, j>> \in table' /\ purse'[c][j].time = s
  BY <1>3, <1>4 DEF Grown
<1>6. t \in Nat /\ purse'[c][j].time <= t
  BY <1>1, <1>2, <1>4, <1>5 DEF TableReads, Latest
<1> QED BY <1>2, <1>5, <1>6

LEMMA LapseStays ==
  ASSUME IInv, IInv', Grown, NEW d \in Numbers, Lapse(d) # "none",
         AnswerIn(TableView, d) = "none"
  PROVE  AnswerIn(TableView, d)' = "none" /\ Lapse(d)' \in {"witnessed", Lapse(d)}
<1>1. TableReads /\ TableReads'
  <2>1. IInv' => TableReads'
    BY TableIsRead, PTL
  <2> QED BY <2>1, TableIsRead
<1>2. PICK c, u : c \in Chains /\ c = deals[d].to /\ u \in Nat /\ u = deals[d].until
  BY TypeFacts DEF IInv
<1>3. d \in Numbers' /\ deals'[d].to = c /\ deals'[d].until = u
  BY <1>2 DEF Grown
<1>4. PICK n, m : n \in Nat /\ n = Len(purse[c]) /\ m = Min(PastPoints(d))
  BY <1>2, TypeFacts DEF IInv
<1> DEFINE Past(i) == IsReply(c, i, d) \/ Since(table, c, i) > u
<1>5. \A i : i \in PastPoints(d) <=> i \in 1..n /\ <<c, i>> \in table /\ Past(i)
  BY <1>2, <1>4 DEF PastPoints, IsReply
<1>6. \A i : i \in PastPoints(d)' <=> i \in 1..Len(purse'[c]) /\ <<c, i>> \in table' /\ Past(i)'
  BY <1>2, <1>3 DEF PastPoints, IsReply
<1>7. m \in PastPoints(d) /\ Whole(c, m) /\ \A i \in PastPoints(d) : m <= i
  <2>1. PastPoints(d) # {} /\ Whole(c, m)
    BY <1>2, <1>4 DEF Lapse
  <2>2. PastPoints(d) \in SUBSET Nat
    <3>1. ASSUME NEW i, i \in PastPoints(d)
          PROVE  i \in Nat
      <4>1. i \in 1..n
        BY <1>5, <3>1
      <4> QED BY <1>4, <4>1
    <3> QED BY <3>1
  <2> QED BY <1>4, <2>1, <2>2, MinNat
<1>8. /\ m \in 1..n /\ Past(m)
      /\ \A i \in 1..m : /\ i \in 1..n /\ i \in 1..Len(purse'[c]) /\ Whole(c, i)
                         /\ <<c, i>> \in table /\ <<c, i>> \in table'
                         /\ purse'[c][i] = purse[c][i]
  <2>1. m \in 1..n /\ Past(m)
    BY <1>5, <1>7
  <2>2. \A i \in 1..m : i \in 1..n /\ Whole(c, i) /\ <<c, i>> \in table
    BY <1>4, <1>7, <2>1 DEF Whole
  <2> QED BY <1>2, <1>4, <2>1, <2>2 DEF Grown
<1>9. \A i \in 1..m : Since(table, c, i)' = Since(table, c, i)
  BY <1>2, <1>4, <1>8, DatesStay
<1>10. \A i \in 1..m : Past(i)' <=> Past(i)
  <2> TAKE i \in 1..m
  <2>1. IsReply(c, i, d)' <=> IsReply(c, i, d)
    BY <1>4, <1>8 DEF IsReply
  <2> QED BY <1>9, <2>1
<1>11. PICK mm : mm = Min(PastPoints(d)')
  OBVIOUS
<1>12. mm = m /\ PastPoints(d)' # {}
  <2>1. m \in 1..m
    BY <1>8
  <2>2. m \in PastPoints(d)'
    BY <1>6, <1>8, <1>10, <2>1
  <2>3. PICK P : P = PastPoints(d)'
    OBVIOUS
  <2>4. Len(purse'[c]) \in Nat
    <3>1. purse' \in [Chains -> Seq(BlockType)]
      BY DEF IInv, TypeOK
    <3>2. PICK s : s = purse'[c]
      OBVIOUS
    <3>3. s \in Seq(BlockType)
      BY <1>2, <3>1, <3>2
    <3> QED BY <3>2, <3>3
  <2>5. P \in SUBSET Nat /\ P # {}
    <3>1. ASSUME NEW i, i \in P
          PROVE  i \in Nat
      <4>1. i \in 1..Len(purse'[c])
        BY <1>6, <2>3, <3>1
      <4> QED BY <2>4, <4>1
    <3> QED BY <2>2, <2>3, <3>1
  <2>6. mm \in P /\ \A i \in P : mm <= i
    BY <1>11, <2>3, <2>5, MinNat
  <2>7. mm \in Nat /\ mm <= m /\ mm \in 1..Len(purse'[c]) /\ Past(mm)'
    BY <1>6, <2>2, <2>3, <2>5, <2>6
  <2>8. mm \in 1..m
    BY <1>8, <2>7
  <2>9. mm \in PastPoints(d)
    BY <1>5, <1>8, <1>10, <2>7, <2>8
  <2> QED BY <1>7, <1>8, <2>2, <2>7, <2>9
<1>13. Lapse(d)' \in {"witnessed", Lapse(d)}
  <2>1. Whole(c, m)'
    BY <1>8 DEF Whole
  <2>2. Witnessed(c, m) => Witnessed(c, m)'
    <3>1. ASSUME NEW j \in m..n, <<c, j>> \in cosigned
          PROVE  j \in m..Len(purse'[c]) /\ <<c, j>> \in cosigned'
      <4>1. j \in 1..n
        BY <1>8, <3>1
      <4>2. j \in 1..Len(purse'[c])
        BY <1>2, <1>4, <4>1 DEF Grown
      <4> QED BY <3>1, <4>2 DEF Grown
    <3> QED BY <1>4, <3>1 DEF Witnessed
  <2>3. Lapse(d)' = IF Witnessed(c, m)' THEN "witnessed" ELSE "seen"
    BY <1>3, <1>11, <1>12, <2>1 DEF Lapse
  <2>4. Lapse(d) = IF Witnessed(c, m) THEN "witnessed" ELSE "seen"
    BY <1>2, <1>4 DEF Lapse
  <2> QED BY <2>2, <2>3, <2>4
<1>14. ASSUME NEW i, Heard(TableView, d, i)', Timely(TableView, d, i)'
       PROVE  FALSE
  <2>1. /\ IsReply(c, i, d)' /\ <<c, i>> \in table' /\ Since(table, c, i)' <= u
        /\ i \in 1..Len(purse'[c])
    BY <1>3, <1>14 DEF Heard, Timely, TableView, IsReply
  <2>2. CASE i \in 1..m
    <3>1. IsReply(c, i, d) /\ <<c, i>> \in table
      BY <1>4, <1>8, <2>1, <2>2 DEF IsReply
    <3>2. Since(table, c, i) <= u
      BY <1>9, <2>1, <2>2
    <3>3. Heard(TableView, d, i) /\ Timely(TableView, d, i)
      BY <1>2, <3>1, <3>2 DEF Heard, Timely, TableView
    <3> QED BY <1>1, <3>3 DEF TableReads, Reads
  <2>3. CASE i \notin 1..m
    <3>1. m \in 1..m /\ i \in m..Len(purse'[c]) /\ i # m
      BY <1>8, <2>1, <2>3
    <3>2. CASE IsReply(c, m, d)
      <4>1. IsReply(c, m, d)'
        BY <1>4, <1>8, <3>1, <3>2 DEF IsReply
      <4>2. Heard(TableView, d, m)'
        BY <1>3, <1>8, <3>1, <4>1 DEF Heard, TableView
      <4> QED BY <1>1, <1>3, <1>14, <3>1, <4>2 DEF TableReads, Reads
    <3>3. CASE Since(table, c, m) > u
      <4>1. Since(table, c, m) <= Since(table, c, i)'
        BY <1>2, <1>4, <1>8, <2>1, <3>1, DatesRise
      <4>2. Since(table, c, m) \in Nat /\ Since(table, c, i)' \in Nat
        <5>1. Since(table, c, m) \in Nat
          BY <1>1, <1>2, <1>4, <1>8, <3>1 DEF TableReads, Latest
        <5>2. Since(table, c, i)' \in Nat
          BY <1>1, <1>2, <2>1 DEF TableReads, Latest
        <5> QED BY <5>1, <5>2
      <4> QED BY <1>2, <2>1, <3>3, <4>1, <4>2
    <3> QED BY <1>8, <3>2, <3>3
  <2> QED BY <2>2, <2>3
<1> QED BY <1>1, <1>3, <1>13, <1>14 DEF TableReads, Reads

\* A lapse the aggregator vouches for stays, whatever blocks arrive late, are
\* lost or come in out of order, and however far clocks run behind.
THEOREM LapsesAreFinal == Spec => LapseIsFinal
<1>1. ASSUME IInv, [Next]_vars
      PROVE  [\A d \in Numbers : Lapse(d) # "none" /\ AnswerIn(TableView, d) = "none" =>
                /\ AnswerIn(TableView, d)' = "none"
                /\ Lapse(d)' \in {"witnessed", Lapse(d)}]_<<table, cosigned>>
  <2>1. IInv' /\ Grown
    BY <1>1, NextHolds, StepGrows
  <2> QED BY <1>1, <2>1, LapseStays
<1> QED BY <1>1, Invariance, PTL DEF Spec, LapseIsFinal


-----------------------------------------------------------------------------
(* Exact clocks.                                                           *)

\* A step writes at most one block, dated by its device's clock.
LEMMA StepWrites ==
  ASSUME IInv, [Next]_vars
  PROVE  purse' = purse \/ \E c \in Chains, b \in BlockType : Wrote(c, b) /\ b.time \in Clocks
<1>1. /\ now \in 0..MaxTime /\ Clocks \subseteq 0..MaxTime /\ now \in Clocks
      /\ \A d \in Numbers : d \in Nat
      /\ Len(deals) + 1 \in Nat
  BY TypeFacts, OffersAssumption DEF IInv, Clocks
<1>2. ASSUME NEW c \in Chains, NEW kind \in {"deal", "reply", "note", "merge"}, NEW d \in Nat,
             NEW a \in {"none", "accepted", "refused"}, NEW clk \in Clocks,
             Write(c, Block(kind, d, a, clk))
      PROVE  \E k \in Chains, b \in BlockType : Wrote(k, b) /\ b.time \in Clocks
  <2>1. PICK b : b = Block(kind, d, a, clk)
    OBVIOUS
  <2>2. b \in BlockType /\ b.time = clk
    BY <1>1, <2>1 DEF Block, BlockType
  <2>3. Wrote(c, b)
    BY <1>2, <2>1, <2>2, WriteWrites DEF IInv
  <2> QED BY <2>2, <2>3
<1>3. CASE Pays
  BY <1>1, <1>2, <1>3 DEF Pays, Offer
<1>4. CASE Answers
  BY <1>1, <1>2, <1>4 DEF Answers, RefuseOutright, AcceptAuto, AcceptByHand, Refuse, Reply
<1>5. CASE Dates
  BY <1>1, <1>2, <1>5 DEF Dates, Note, Merge
<1>6. CASE Uploads \/ Learns \/ Arrives \/ Tick \/ UNCHANGED vars
  BY <1>6 DEF Uploads, Upload, Learns, Refresh, Arrives, Gossip, Tick, vars
<1> QED BY <1>3, <1>4, <1>5, <1>6 DEF Next

\* The dates of a branch never run back.
Sorted ==
  \A c \in Chains : \A i \in 1..Len(purse[c]) : \A j \in 1..i :
    purse[c][j].time <= purse[c][i].time

LEMMA SortedHolds ==
  ASSUME Lag = 0
  PROVE  Spec => []Sorted
<1>1. Init => Sorted
  <2> SUFFICES ASSUME Init PROVE Sorted
    OBVIOUS
  <2>1. \A c \in Chains : purse[c] = <<>> /\ 1..Len(purse[c]) = {}
    BY DEF Init
  <2> QED BY <2>1 DEF Sorted
<1>2. ASSUME IInv, Sorted, [Next]_vars
      PROVE  Sorted'
  <2>1. CASE purse' = purse
    BY <1>2, <2>1 DEF Sorted
  <2>2. CASE \E c \in Chains, b \in BlockType : Wrote(c, b) /\ b.time \in Clocks
    <3>1. PICK c \in Chains, b \in BlockType : Wrote(c, b) /\ b.time \in Clocks
      BY <2>2
    <3>2. b.time = now /\ now \in Nat
      <4>1. PICK t : t = b.time
        OBVIOUS
      <4>2. t \in 0..now /\ now - t <= 0 /\ now \in Nat
        BY <1>2, <3>1, <4>1, TypeFacts DEF IInv, Clocks
      <4> QED BY <4>1, <4>2
    <3>3. ASSUME NEW k \in Chains, NEW i \in 1..Len(purse'[k]), NEW j \in 1..i
          PROVE  purse'[k][j].time <= purse'[k][i].time
      <4>1. PICK n \in Nat : n = Len(purse[k])
        BY <1>2, <3>3, TypeFacts DEF IInv
      <4>2. \A l \in 1..n : purse'[k][l] = purse[k][l] /\ purse[k][l].time <= now
        BY <1>2, <3>1, <4>1 DEF IInv, Dated, Wrote
      <4>3. CASE i \in 1..n
        <5>1. j \in 1..n /\ purse[k][j].time <= purse[k][i].time
          BY <1>2, <4>1, <4>3 DEF Sorted
        <5> QED BY <4>2, <4>3, <5>1
      <4>4. CASE i \notin 1..n
        <5>1. k = c /\ i = n + 1 /\ purse'[k][i].time = now
          BY <3>1, <3>2, <4>1, <4>4 DEF Wrote
        <5>2. j \in 1..n \/ j = i
          BY <4>1, <5>1
        <5> QED BY <3>2, <4>2, <5>1, <5>2
      <4> QED BY <4>3, <4>4
    <3> QED BY <3>3 DEF Sorted
  <2> QED BY <1>2, <2>1, <2>2, StepWrites
<1> QED BY <1>1, <1>2, Invariance, PTL DEF Spec

\* The dates before a reply never disqualify it.
Prompt ==
  \A d \in Numbers : \A i : Heard(TableView, d, i) => Timely(TableView, d, i)

LEMMA SortedPrompt == IInv /\ Sorted => Prompt
<1> SUFFICES ASSUME IInv, Sorted, NEW d \in Numbers, NEW i, Heard(TableView, d, i)
             PROVE  Timely(TableView, d, i)
  BY DEF Prompt
<1>1. PICK c, u : c \in Chains /\ c = deals[d].to /\ u \in Nat /\ u = deals[d].until
  BY TypeFacts DEF IInv
<1>2. IsReply(c, i, d) /\ <<c, i>> \in table
  BY <1>1 DEF Heard, TableView
<1>3. i \in 1..Len(purse[c]) /\ d \in {purse[c][i].deal}
  BY <1>2 DEF IsReply
<1>4. purse[c][i].time <= u
  BY <1>1, <1>2, <1>3 DEF IInv, Replied
<1>5. PICK s : s = Since(table, c, i)
  OBVIOUS
<1>6. PICK j \in 1..i : s \in Nat /\ purse[c][j].time = s
  BY <1>1, <1>2, <1>3, <1>5, TableIsRead DEF TableReads, Latest
<1>7. s <= purse[c][i].time /\ purse[c][i].time \in Nat
  BY <1>1, <1>3, <1>6, TypeFacts DEF IInv, Sorted
<1> QED BY <1>1, <1>4, <1>5, <1>6, <1>7 DEF Timely, TableView

LEMMA AnswerStays ==
  ASSUME IInv, Sorted, IInv', Sorted', Grown, NEW d \in Numbers, AnswerIn(TableView, d) # "none"
  PROVE  AnswerIn(TableView, d)' = AnswerIn(TableView, d)
<1>1. TableReads /\ TableReads'
  <2>1. IInv' => TableReads'
    BY TableIsRead, PTL
  <2> QED BY <2>1, TableIsRead
<1>2. PICK c : c \in Chains /\ c = deals[d].to
  BY TypeFacts DEF IInv
<1>3. d \in Numbers' /\ deals'[d].to = c
  BY <1>2 DEF Grown
<1>4. PICK i : Heard(TableView, d, i) /\ Timely(TableView, d, i)
  BY <1>1 DEF TableReads, Reads
<1>5. AnswerIn(TableView, d) = purse[c][i].answer
  BY <1>1, <1>2, <1>4 DEF TableReads, Reads
<1>6. IsReply(c, i, d) /\ <<c, i>> \in table /\ i \in 1..Len(purse[c])
  BY <1>2, <1>4 DEF Heard, TableView, IsReply
<1>7. i \in 1..Len(purse'[c]) /\ purse'[c][i] = purse[c][i] /\ <<c, i>> \in table'
  BY <1>2, <1>6 DEF Grown
<1>8. Heard(TableView, d, i)'
  BY <1>3, <1>6, <1>7 DEF Heard, TableView, IsReply
<1>9. Timely(TableView, d, i)'
  <2>1. IInv' /\ Sorted' => Prompt'
    BY SortedPrompt, PTL
  <2> QED BY <1>3, <1>8, <2>1 DEF Prompt
<1>10. AnswerIn(TableView, d)' = purse'[c][i].answer
  BY <1>1, <1>3, <1>8, <1>9 DEF TableReads, Reads
<1> QED BY <1>5, <1>7, <1>10

\* An answer the aggregator counted is counted for good, whatever of the seller's
\* blocks come in later and in whatever order, when clocks are exact (with clocks
\* that run behind it is not: see AnswerIsFinal).
THEOREM AnswersAreFinal ==
  ASSUME Lag = 0
  PROVE  Spec => AnswerIsFinal
<1>1. ASSUME IInv, Sorted, Sorted', [Next]_vars
      PROVE  [\A d \in Numbers : AnswerIn(TableView, d) # "none" =>
                AnswerIn(TableView, d)' = AnswerIn(TableView, d)]_table
  <2>1. IInv' /\ Grown
    BY <1>1, NextHolds, StepGrows
  <2> QED BY <1>1, <2>1, AnswerStays
<1> QED BY <1>1, Invariance, SortedHolds, PTL DEF Spec, AnswerIsFinal


-----------------------------------------------------------------------------
(* The walk over the spends of a view.                                     *)

RunType == [consumed : Nat, backed : SUBSET Nat, unbacked : SUBSET Nat,
            last : Int, broken : BOOLEAN]

\* The earlier spends of the bill that deal n spends, as a view has them.
Before(view, n) ==
  {e \in SpendsOf(view.blocks, deals[n].from, deals[n].src) : e < n}

\* Deal n judged on the runs of the deals before it.
Verdict(view, a, vetted, runs, n) ==
  Judge(BillAt(view, a, vetted, runs, n), RunAt(view, a, runs, n), SpendOf(n, a[n]))

\* The runs of a walk: each deal judged on those before it.
Judged(view, a, vetted, R) ==
  /\ Len(R) = Len(deals)
  /\ \A n \in Numbers : R[n] \in RunType /\ R[n] = Verdict(view, a, vetted, R, n)

LEMMA BeforeIs ==
  ASSUME IInv, NEW view, NEW n \in Numbers
  PROVE  /\ Before(view, n) \subseteq 1..n - 1
         /\ Before(view, n) # {} =>
              /\ Max(Before(view, n)) \in Before(view, n)
              /\ \A e \in Before(view, n) : e <= Max(Before(view, n))
<1>1. Len(deals) \in Nat /\ Numbers = 1..Len(deals) /\ n \in Nat
  BY TypeFacts DEF IInv
<1>2. \A e \in Before(view, n) : e \in 1..n - 1 /\ e \in 0..n
  BY <1>1 DEF Before, SpendsOf
<1>3. PICK S : S = Before(view, n)
  OBVIOUS
<1>4. S \in SUBSET (0..n)
  BY <1>2, <1>3
<1>5. S # {} => Max(S) \in S /\ \A e \in S : e <= Max(S)
  BY <1>1, <1>4, MaxNat
<1> QED BY <1>2, <1>3, <1>5

LEMMA RunAtIs ==
  ASSUME NEW view, NEW a, NEW runs, NEW n
  PROVE  RunAt(view, a, runs, n) =
           IF Before(view, n) = {} THEN NewRun
           ELSE Settle(runs[Max(Before(view, n))],
                       SpendOf(Max(Before(view, n)), a[Max(Before(view, n))]), deals[n].time)
<1>1. PICK S, m : S = Before(view, n) /\ m = Max(S)
  OBVIOUS
<1>2. RunAt(view, a, runs, n) =
        IF S = {} THEN NewRun
        ELSE The({Settle(runs[e], SpendOf(e, a[e]), deals[n].time) : e \in {m}})
  BY <1>1 DEF RunAt, Before
<1>3. {Settle(runs[e], SpendOf(e, a[e]), deals[n].time) : e \in {m}} =
      {Settle(runs[m], SpendOf(m, a[m]), deals[n].time)}
  OBVIOUS
<1> QED BY <1>1, <1>2, <1>3, TheOne

\* A verdict looks at nothing but the runs of earlier deals.
LEMMA VerdictLocal ==
  ASSUME IInv, NEW view, NEW a, NEW vetted, NEW n \in Numbers, NEW f, NEW g,
         \A e \in 1..n - 1 : f[e] = g[e]
  PROVE  Verdict(view, a, vetted, f, n) = Verdict(view, a, vetted, g, n)
<1>1. deals[n].src = 0 \/ deals[n].src \in 1..n - 1
  BY TypeFacts DEF IInv, Threaded
<1>2. BillAt(view, a, vetted, f, n) = BillAt(view, a, vetted, g, n)
  BY <1>1 DEF BillAt
<1>3. PICK m : m = Max(Before(view, n))
  OBVIOUS
<1>4. Before(view, n) # {} => f[m] = g[m]
  BY <1>3, BeforeIs
<1>5. RunAt(view, a, f, n) = RunAt(view, a, g, n)
  BY <1>3, <1>4, RunAtIs
<1> QED BY <1>2, <1>5 DEF Verdict

LEMMA SettleType ==
  ASSUME IInv, NEW r \in RunType, NEW e \in Numbers, NEW x, NEW t
  PROVE  /\ Settle(r, SpendOf(e, x), t) \in RunType
         /\ Settle(r, SpendOf(e, x), t).backed = r.backed
         /\ Settle(r, SpendOf(e, x), t).last = r.last
         /\ Settle(r, SpendOf(e, x), t).broken = r.broken
         /\ Settle(r, SpendOf(e, x), t).consumed =
              r.consumed + IF e \in r.backed /\ ~Dead(SpendOf(e, x), t)
                           THEN deals[e].units ELSE 0
<1>1. deals[e].units \in Nat
  BY TypeFacts DEF IInv
<1>2. SpendOf(e, x).ref = e /\ SpendOf(e, x).units = deals[e].units
  BY DEF SpendOf
<1>3. PICK s, u : s = SpendOf(e, x) /\ u = deals[e].units
  OBVIOUS
<1>4. CASE e \notin r.backed \/ Dead(s, t)
  BY <1>2, <1>3, <1>4 DEF Settle, RunType
<1>5. CASE ~(e \notin r.backed \/ Dead(s, t))
  <2>1. Settle(r, s, t) = [r EXCEPT !.consumed = @ + u]
    BY <1>2, <1>3, <1>5 DEF Settle
  <2> QED BY <1>1, <1>3, <1>5, <2>1 DEF RunType
<1> QED BY <1>3, <1>4, <1>5

LEMMA JudgeType ==
  ASSUME NEW b, NEW r \in RunType, NEW e \in Nat, NEW x
  PROVE  /\ Judge(b, r, SpendOf(e, x)) \in RunType
         /\ Judge(b, r, SpendOf(e, x)).consumed = r.consumed
         /\ Judge(b, r, SpendOf(e, x)).backed =
              IF r.broken \/ Fault(b, r, SpendOf(e, x)) THEN r.backed ELSE r.backed \cup {e}
<1>1. PICK s : s = SpendOf(e, x)
  OBVIOUS
<1>2. s.ref = e
  BY <1>1 DEF SpendOf
<1>3. CASE r.broken \/ Fault(b, r, s)
  <2>1. Judge(b, r, s) = [r EXCEPT !.broken = TRUE, !.unbacked = @ \cup {e}]
    BY <1>2, <1>3 DEF Judge
  <2>2. /\ r.consumed \in Nat /\ r.backed \in SUBSET Nat
        /\ r.unbacked \cup {e} \in SUBSET Nat /\ r.last \in Int
    BY DEF RunType
  <2>3. Judge(b, r, s) = [consumed |-> r.consumed, backed |-> r.backed,
                          unbacked |-> r.unbacked \cup {e}, last |-> r.last, broken |-> TRUE]
    BY <2>1 DEF RunType
  <2>4. Judge(b, r, s) \in RunType
    BY <2>2, <2>3 DEF RunType
  <2> QED BY <1>1, <1>3, <2>3, <2>4
<1>4. CASE ~(r.broken \/ Fault(b, r, s))
  <2>1. Judge(b, r, s) = [r EXCEPT !.backed = @ \cup {e}, !.last = e]
    BY <1>2, <1>4 DEF Judge
  <2>2. /\ r.consumed \in Nat /\ r.backed \cup {e} \in SUBSET Nat
        /\ r.unbacked \in SUBSET Nat /\ r.broken \in BOOLEAN /\ e \in Int
    BY DEF RunType
  <2>3. Judge(b, r, s) = [consumed |-> r.consumed, backed |-> r.backed \cup {e},
                          unbacked |-> r.unbacked, last |-> e, broken |-> r.broken]
    BY <2>1 DEF RunType
  <2>4. Judge(b, r, s) \in RunType
    BY <2>2, <2>3 DEF RunType
  <2> QED BY <1>1, <1>4, <2>3, <2>4
<1> QED BY <1>1, <1>3, <1>4

LEMMA VerdictType ==
  ASSUME IInv, NEW view, NEW a, NEW vetted, NEW n \in Numbers, NEW f,
         \A e \in 1..n - 1 : f[e] \in RunType
  PROVE  /\ RunAt(view, a, f, n) \in RunType
         /\ Verdict(view, a, vetted, f, n) \in RunType
<1>1. n \in Nat /\ 1..n - 1 \subseteq Numbers
  BY TypeFacts DEF IInv
<1>2. NewRun \in RunType
  BY DEF NewRun, RunType, NoRef
<1>3. RunAt(view, a, f, n) \in RunType
  <2>1. PICK m : m = Max(Before(view, n))
    OBVIOUS
  <2>2. CASE Before(view, n) = {}
    BY <1>2, <2>2, RunAtIs
  <2>3. CASE Before(view, n) # {}
    <3>1. m \in 1..n - 1 /\ m \in Numbers /\ f[m] \in RunType
      BY <1>1, <2>1, <2>3, BeforeIs
    <3>2. Settle(f[m], SpendOf(m, a[m]), deals[n].time) \in RunType
      BY <3>1, SettleType
    <3> QED BY <2>1, <2>3, <3>2, RunAtIs
  <2> QED BY <2>2, <2>3
<1> QED BY <1>1, <1>3, JudgeType DEF Verdict

LEMMA RunsAreJudged ==
  ASSUME IInv, NEW view, NEW a, NEW vetted
  PROVE  Judged(view, a, vetted, RunsOn(view, a, vetted))
<1>1. PICK N \in Nat : N = Len(deals) /\ Numbers = 1..N
  BY TypeFacts DEF IInv
<1> DEFINE S == Seq(RunType)
           Good(s, n) == Len(s) = n - 1
           More(s, n) == Append(s, Verdict(view, a, vetted, s, n))
           Once(s, n) == The({Append(runs, The({Judge(bill, run, SpendOf(n, b[n])) :
                                bill \in {BillAt(view, b, vetted, runs, n)},
                                run \in {RunAt(view, b, runs, n)}})) :
                              runs \in {s}, b \in {a}})
           Laid(f) == [n \in 0..Len(deals) |-> IF n = 0 THEN <<>> ELSE Once(f[n - 1], n)]
           step == [n \in 1..N |-> [s \in S |-> IF Good(s, n) THEN More(s, n) ELSE s]]
<1>2. ASSUME NEW s, NEW n
      PROVE  Once(s, n) = More(s, n)
  <2> DEFINE Word(b, i, j) == Judge(i, j, SpendOf(n, b[n]))
             Words(runs, b) == {Word(b, i, j) : i \in {BillAt(view, b, vetted, runs, n)},
                                                j \in {RunAt(view, b, runs, n)}}
             One(runs, b) == Append(runs, The(Words(runs, b)))
  <2>1. PICK bill, run : bill = BillAt(view, a, vetted, s, n) /\ run = RunAt(view, a, s, n)
    OBVIOUS
  <2>2. Words(s, a) = {Word(a, bill, run)}
    <3> HIDE DEF Word
    <3> QED BY <2>1
  <2>3. Word(a, bill, run) = Verdict(view, a, vetted, s, n)
    BY <2>1 DEF Verdict
  <2>4. One(s, a) = More(s, n)
    <3>1. The(Words(s, a)) = Verdict(view, a, vetted, s, n)
      <4> HIDE DEF Words, Word
      <4> QED BY <2>2, <2>3, TheOne
    <3> HIDE DEF Words
    <3> QED BY <3>1
  <2>5. Once(s, n) = The({One(runs, b) : runs \in {s}, b \in {a}})
    OBVIOUS
  <2> HIDE DEF One, Once, More
  <2>6. {One(runs, b) : runs \in {s}, b \in {a}} = {One(s, a)}
    OBVIOUS
  <2>7. The({One(s, a)}) = One(s, a)
    BY TheOne
  <2> QED BY <2>4, <2>5, <2>6, <2>7
<1>3. RunsOn(view, a, vetted) = (CHOOSE f : f = Laid(f))[Len(deals)]
  BY DEF RunsOn
<1> HIDE DEF Once
<1>4. ASSUME NEW n \in 1..N, NEW s \in S, Good(s, n)
      PROVE  /\ More(s, n) \in S /\ Len(More(s, n)) = n
             /\ More(s, n)[n] = Verdict(view, a, vetted, s, n)
             /\ \A e \in 1..n - 1 : More(s, n)[e] = s[e]
             /\ Verdict(view, a, vetted, s, n) \in RunType
  <2>1. \A e \in 1..n - 1 : s[e] \in RunType
    BY <1>4
  <2>2. Verdict(view, a, vetted, s, n) \in RunType
    BY <1>1, <2>1, VerdictType
  <2>3. PICK v : v = Verdict(view, a, vetted, s, n)
    OBVIOUS
  <2> QED BY <1>4, <2>2, <2>3
<1>5. PICK f \in [0..N -> S] : Walks(f, N, <<>>, step)
  <2>1. <<>> \in S
    OBVIOUS
  <2>2. step \in [1..N -> [S -> S]]
    <3>1. ASSUME NEW n \in 1..N, NEW s \in S
          PROVE  (IF Good(s, n) THEN More(s, n) ELSE s) \in S
      BY <1>4
    <3> HIDE DEF S, Good, More
    <3> QED BY <3>1
  <2> HIDE DEF S, step
  <2> QED BY <1>1, <2>1, <2>2, Stepwise
<1> DEFINE Grows(n) == /\ Len(f[n]) = n
                       /\ n > 0 => f[n] = More(f[n - 1], n)
           In == {n \in 0..N : Grows(n)}
<1>6. \A n \in 0..N : Grows(n)
  <2>1. 0 \in In
    BY <1>1, <1>5 DEF Walks
  <2>2. ASSUME NEW n \in 0..N - 1, n \in In
        PROVE  n + 1 \in In
    <3>1. n + 1 \in 1..N /\ (n + 1) - 1 = n /\ f[n] \in S /\ Len(f[n]) = n /\ n \in 0..N
      BY <1>1, <2>2
    <3>2. f[n + 1] = step[n + 1][f[n]]
      BY <1>5, <3>1 DEF Walks
    <3>3. f[n + 1] = More(f[n], n + 1)
      <4> HIDE DEF More
      <4> QED BY <3>1, <3>2
    <3>4. Len(f[n + 1]) = n + 1
      BY <1>4, <3>1, <3>3
    <3> HIDE DEF More
    <3> QED BY <3>1, <3>3, <3>4
  <2> HIDE DEF In
  <2>3. \A n \in 0..N - 1 : n \in In => n + 1 \in In
    BY <2>2
  <2>4. \A n \in 0..N : n \in In
    BY <1>1, <2>1, <2>3, UpTo
  <2> QED BY <2>4 DEF In
<1>7. PICK w : w = CHOOSE g : g = Laid(g)
  OBVIOUS
<1>8. w = Laid(w)
  <2>1. f = Laid(f)
    <3>1. \A n \in 0..N : f[n] = IF n = 0 THEN <<>> ELSE Once(f[n - 1], n)
      <4> HIDE DEF More
      <4> QED BY <1>2, <1>5, <1>6 DEF Walks
    <3> QED BY <1>1, <1>5, <3>1
  <2> HIDE DEF Laid
  <2> QED BY <1>7, <2>1
<1>9. \A n \in 0..N : w[n] = IF n = 0 THEN <<>> ELSE More(w[n - 1], n)
  <2> HIDE DEF More
  <2> QED BY <1>1, <1>2, <1>8
<1> DEFINE Fits(n) == /\ w[n] \in S /\ Len(w[n]) = n
                      /\ \A e \in 1..n : w[n][e] = Verdict(view, a, vetted, w[n], e)
           Right == {n \in 0..N : Fits(n)}
<1>10. \A n \in 0..N : Fits(n)
  <2>1. 0 \in Right
    <3>1. w[0] = <<>>
      <4> HIDE DEF More
      <4> QED BY <1>1, <1>9
    <3>2. w[0] \in S /\ Len(w[0]) = 0 /\ 1..0 = {} /\ 0 \in 0..N
      BY <1>1, <3>1
    <3>3. Fits(0)
      <4> HIDE DEF S
      <4> QED BY <3>2
    <3> HIDE DEF Fits
    <3> QED BY <3>2, <3>3
  <2>2. ASSUME NEW n \in 0..N - 1, n \in Right
        PROVE  n + 1 \in Right
    <3>1. PICK s, t : s = w[n] /\ t = w[n + 1]
      OBVIOUS
    <3>2. n + 1 \in 1..N /\ (n + 1) - 1 = n /\ n + 1 \in 0..N /\ n + 1 # 0
      BY <1>1, <2>2
    <3>3. s \in S /\ Len(s) = n /\ \A e \in 1..n : s[e] = Verdict(view, a, vetted, s, e)
      BY <2>2, <3>1
    <3>4. t = More(s, n + 1)
      <4> HIDE DEF More
      <4> QED BY <1>9, <3>1, <3>2
    <3>5. /\ t \in S /\ Len(t) = n + 1 /\ t[n + 1] = Verdict(view, a, vetted, s, n + 1)
          /\ \A e \in 1..n : t[e] = s[e]
      BY <1>4, <3>2, <3>3, <3>4
    <3>6. ASSUME NEW e \in 1..n + 1
          PROVE  t[e] = Verdict(view, a, vetted, t, e)
      <4>1. e \in Numbers /\ \A k \in 1..e - 1 : s[k] = t[k]
        BY <1>1, <3>2, <3>5
      <4>2. Verdict(view, a, vetted, s, e) = Verdict(view, a, vetted, t, e)
        BY <4>1, VerdictLocal
      <4>3. e = n + 1 \/ e \in 1..n
        BY <3>2
      <4> QED BY <3>3, <3>5, <4>2, <4>3
    <3>7. Fits(n + 1)
      <4> HIDE DEF S
      <4> QED BY <3>1, <3>5, <3>6
    <3> HIDE DEF Fits
    <3> QED BY <3>2, <3>7
  <2> HIDE DEF Right
  <2>3. \A n \in 0..N - 1 : n \in Right => n + 1 \in Right
    BY <2>2
  <2>4. \A n \in 0..N : n \in Right
    BY <1>1, <2>1, <2>3, UpTo
  <2> HIDE DEF Fits
  <2> QED BY <2>4 DEF Right
<1>11. PICK R : R = w[N]
  OBVIOUS
<1>12. R \in Seq(RunType) /\ Len(R) = N /\ \A e \in 1..N : R[e] = Verdict(view, a, vetted, R, e)
  BY <1>1, <1>10, <1>11
<1>13. \A e \in 1..N : R[e] \in RunType
  BY <1>12
<1>14. RunsOn(view, a, vetted) = R
  BY <1>1, <1>3, <1>7, <1>11
<1> QED BY <1>1, <1>12, <1>13, <1>14 DEF Judged


-----------------------------------------------------------------------------
(* The hours of a bill.                                                    *)

Spent == [d \in Numbers |-> deals[d].units]

\* h is the sum of hours of any set of deals.
HourSums(h) ==
  /\ Adder(Spent, h, Numbers)
  /\ \A S \in SUBSET Numbers : MapThenSumSet(LAMBDA d : deals[d].units, S) = h[S]

\* The hours of offers S of a list.
Total(f, S) == MapThenSumSet(LAMBDA n : f[n].units, S)

LEMMA UnitsSum ==
  ASSUME IInv, NEW h, Adder(Spent, h, Numbers), NEW f,
         \A n \in Numbers : f[n].units = deals[n].units, NEW S \in SUBSET Numbers
  PROVE  Total(f, S) = h[S]
<1>1. Len(deals) \in Nat /\ Numbers = 1..Len(deals) /\ \A d \in Numbers : deals[d].units \in Nat
  BY TypeFacts DEF IInv
<1>2. IsFiniteSet(Numbers) /\ Spent \in [Numbers -> Int]
  <2>1. IsFiniteSet(Numbers)
    BY <1>1, FS_Interval
  <2>2. Spent \in [Numbers -> Int]
    BY <1>1 DEF Spent
  <2> QED BY <2>1, <2>2
<1> DEFINE Is(it) == it = [s \in SUBSET S |->
                             IF s = {} THEN 0
                             ELSE f[Pick(s)].units + it[s \ {Pick(s)}]]
<1>3. Total(f, S) = (CHOOSE it : Is(it))[S]
  BY DEF Total, MapThenSumSet, MapThenFoldSet, Pick
<1>4. ASSUME NEW it
      PROVE  Is(it) <=> Solves(it, Spent, S)
  <2>1. \A s \in SUBSET S : s # {} => Spent[Pick(s)] = f[Pick(s)].units
    BY PickIn DEF Spent
  <2>2. [s \in SUBSET S |-> IF s = {} THEN 0
                            ELSE f[Pick(s)].units + it[s \ {Pick(s)}]]
      = [s \in SUBSET S |-> IF s = {} THEN 0
                            ELSE Spent[Pick(s)] + it[s \ {Pick(s)}]]
    BY <2>1
  <2> QED BY <2>2 DEF Solves
<1> HIDE DEF Is
<1>5. \E it : Is(it)
  BY <1>2, <1>4, SumSolved
<1>6. Is(CHOOSE it : Is(it))
  BY <1>5
<1>7. PICK c : c = CHOOSE it : Is(it)
  OBVIOUS
<1>8. Solves(c, Spent, S)
  BY <1>4, <1>6, <1>7
<1>9. c[S] = h[S]
  BY <1>2, <1>8, SumSolved
<1> QED BY <1>3, <1>7, <1>9

LEMMA HoursExist ==
  ASSUME IInv
  PROVE  \E h : HourSums(h)
<1>1. Len(deals) \in Nat /\ Numbers = 1..Len(deals) /\ \A d \in Numbers : deals[d].units \in Nat
  BY TypeFacts DEF IInv
<1>2. IsFiniteSet(Numbers)
  BY <1>1, FS_Interval
<1>3. Spent \in [Numbers -> Int]
  BY <1>1 DEF Spent
<1>4. PICK h : Adder(Spent, h, Numbers)
  BY <1>2, <1>3, AdderExists
<1>5. ASSUME NEW S \in SUBSET Numbers
      PROVE  MapThenSumSet(LAMBDA d : deals[d].units, S) = h[S]
  <2>1. Total(deals, S) = h[S]
    BY <1>4, UnitsSum
  <2> QED BY <2>1 DEF Total
<1> QED BY <1>4, <1>5 DEF HourSums

\* Sums of hours are hours; a deal more adds its own.
LEMMA HoursAdd ==
  ASSUME IInv, NEW h, HourSums(h)
  PROVE  /\ h[{}] = 0 /\ \A S \in SUBSET Numbers : h[S] \in Nat
         /\ \A S \in SUBSET Numbers : \A d \in Numbers :
              d \notin S => h[S \cup {d}] = h[S] + deals[d].units
<1>1. Len(deals) \in Nat /\ Numbers = 1..Len(deals) /\ \A d \in Numbers : deals[d].units \in Nat
  BY TypeFacts DEF IInv
<1>2. IsFiniteSet(Numbers) /\ Spent \in [Numbers -> Nat] /\ Spent \in [Numbers -> Int]
      /\ Adder(Spent, h, Numbers)
  <2>1. IsFiniteSet(Numbers)
    BY <1>1, FS_Interval
  <2>2. Spent \in [Numbers -> Nat]
    BY <1>1 DEF Spent
  <2>3. Spent \in [Numbers -> Int]
    BY <2>2
  <2> QED BY <2>1, <2>2, <2>3 DEF HourSums
<1>3. h[{}] = 0
  BY <1>2 DEF Adder
<1>4. ASSUME NEW S \in SUBSET Numbers
      PROVE  h[S] \in Nat
  <2>1. S \in SUBSET S
    OBVIOUS
  <2> QED BY <1>2, <2>1, SumGrows
<1>5. ASSUME NEW S \in SUBSET Numbers, NEW d \in Numbers \ S
      PROVE  h[S \cup {d}] = h[S] + deals[d].units
  <2>1. h[S \cup {d}] = h[S] + Spent[d]
    BY <1>2, AdderAdds
  <2> QED BY <2>1 DEF Spent
<1> QED BY <1>3, <1>4, <1>5

LEMMA HappenedIs ==
  ASSUME NEW R, R = TableRuns
  PROVE  Happened = {d \in Numbers : /\ OnTable(d)
                                     /\ AnswerIn(TableView, d) = "accepted"
                                     /\ Backed(R, d)}
<1> DEFINE Set(runs) == {d \in Numbers : /\ OnTable(d)
                                         /\ AnswerIn(TableView, d) = "accepted"
                                         /\ Backed(runs, d)}
<1>1. Happened = UNION {Set(runs) : runs \in {R}}
  BY DEF Happened
<1> HIDE DEF Set
<1>2. UNION {Set(runs) : runs \in {R}} = Set(R)
  OBVIOUS
<1> QED BY <1>1, <1>2 DEF Set

\* The run a spend of a bill is judged on: the one its predecessor left, the
\* predecessor's own hours taken unless they came free.
Taken(view, a, R, n, q) ==
  \A m \in {Max(Before(view, n))} :
    /\ q \in RunType
    /\ Before(view, n) = {} => q = NewRun
    /\ Before(view, n) # {} =>
         /\ q.backed = R[m].backed /\ q.last = R[m].last /\ q.broken = R[m].broken
         /\ q.consumed = R[m].consumed
              + IF m \in R[m].backed /\ ~Dead(SpendOf(m, a[m]), deals[n].time)
                THEN deals[m].units ELSE 0

LEMMA VerdictTakes ==
  ASSUME IInv, NEW view, NEW a, NEW vetted, NEW R, Judged(view, a, vetted, R),
         NEW n \in Numbers
  PROVE  /\ Taken(view, a, R, n, RunAt(view, a, R, n))
         /\ R[n] = Judge(BillAt(view, a, vetted, R, n), RunAt(view, a, R, n), SpendOf(n, a[n]))
<1>1. Len(deals) \in Nat /\ Numbers = 1..Len(deals) /\ n \in Nat /\ 1..n - 1 \subseteq Numbers
  BY TypeFacts DEF IInv
<1>2. \A e \in Numbers : R[e] \in RunType /\ R[e] = Verdict(view, a, vetted, R, e)
  BY DEF Judged
<1>3. PICK m, q : m = Max(Before(view, n)) /\ q = RunAt(view, a, R, n)
  OBVIOUS
<1>4. q \in RunType
  BY <1>1, <1>2, <1>3, VerdictType
<1>5. CASE Before(view, n) = {}
  BY <1>2, <1>3, <1>4, <1>5, RunAtIs DEF Taken, Verdict
<1>6. CASE Before(view, n) # {}
  <2>1. m \in Numbers /\ R[m] \in RunType
    BY <1>1, <1>2, <1>3, <1>6, BeforeIs
  <2>2. q = Settle(R[m], SpendOf(m, a[m]), deals[n].time)
    BY <1>3, <1>6, RunAtIs
  <2>3. /\ q.backed = R[m].backed /\ q.last = R[m].last /\ q.broken = R[m].broken
        /\ q.consumed = R[m].consumed
              + IF m \in R[m].backed /\ ~Dead(SpendOf(m, a[m]), deals[n].time)
                THEN deals[m].units ELSE 0
    BY <2>1, <2>2, SettleType
  <2>4. Taken(view, a, R, n, q)
    BY <1>3, <1>4, <1>6, <2>3 DEF Taken
  <2> QED BY <1>2, <1>3, <2>4 DEF Verdict
<1> QED BY <1>5, <1>6

LEMMA JudgeBacks ==
  ASSUME NEW b, NEW r \in RunType, NEW e \in Nat, NEW x
  PROVE  Judge(b, r, SpendOf(e, x)).backed \subseteq r.backed \cup {e}
<1>1. PICK s, F : s = SpendOf(e, x) /\ (F <=> r.broken \/ Fault(b, r, s))
  OBVIOUS
<1>2. Judge(b, r, s) = IF F THEN [r EXCEPT !.broken = TRUE, !.unbacked = @ \cup {e}]
                       ELSE [r EXCEPT !.backed = @ \cup {e}, !.last = e]
  BY <1>1 DEF Judge, SpendOf
<1> QED BY <1>1, <1>2 DEF RunType

\* A run backs no deal but those judged so far.
LEMMA BackedSoFar ==
  ASSUME IInv, NEW view, NEW a, NEW vetted, NEW R, Judged(view, a, vetted, R)
  PROVE  \A n \in Numbers : R[n].backed \subseteq 1..n
<1>1. PICK N \in Nat : N = Len(deals) /\ Numbers = 1..N
  BY TypeFacts DEF IInv
<1> DEFINE In == {k \in 0..N : \A n \in 1..k : R[n].backed \subseteq 1..n}
<1>2. 0 \in In
  BY <1>1
<1>3. ASSUME NEW k \in 0..N - 1, k \in In
      PROVE  k + 1 \in In
  <2>1. PICK n : n = k + 1
    OBVIOUS
  <2>2. n \in Numbers /\ n \in Nat /\ n \in 0..N /\ n - 1 = k /\ 1..n = 1..k \cup {n}
    BY <1>1, <1>3, <2>1
  <2>3. PICK b, q, m : /\ b = BillAt(view, a, vetted, R, n) /\ q = RunAt(view, a, R, n)
                       /\ m = Max(Before(view, n))
    OBVIOUS
  <2>4. R[n] = Judge(b, q, SpendOf(n, a[n])) /\ Taken(view, a, R, n, q)
    BY <2>2, <2>3, VerdictTakes
  <2>5. q \in RunType
    BY <2>4 DEF Taken
  <2>6. R[n].backed \subseteq q.backed \cup {n}
    BY <2>2, <2>4, <2>5, JudgeBacks
  <2>7. q.backed \subseteq 1..n
    <3>1. CASE Before(view, n) = {}
      BY <2>4, <3>1 DEF Taken, NewRun
    <3>2. CASE Before(view, n) # {}
      <4>1. m \in 1..n - 1 /\ m \in 1..k
        BY <2>2, <2>3, <3>2, BeforeIs
      <4>2. q.backed = R[m].backed
        BY <2>3, <2>4, <3>2 DEF Taken
      <4>3. R[m].backed \subseteq 1..m
        BY <1>3, <4>1
      <4>4. 1..m \subseteq 1..n
        BY <2>2, <4>1
      <4> QED BY <4>2, <4>3, <4>4
    <3> QED BY <3>1, <3>2
  <2>8. R[n].backed \subseteq 1..n
    BY <2>2, <2>6, <2>7
  <2> QED BY <1>3, <2>1, <2>2, <2>8
<1>4. \A k \in 0..N : k \in In
  <2> HIDE DEF In
  <2>1. \A k \in 0..N - 1 : k \in In => k + 1 \in In
    BY <1>3
  <2> QED BY <1>1, <1>2, <2>1, UpTo
<1> QED BY <1>1, <1>4

\* A backed spend fits: it comes after the bill, names the spend before it, and
\* its hours are there.
Ruled(R, n, b, q) ==
  /\ q.consumed \in Nat /\ R[n].consumed = q.consumed
  /\ n \in R[n].backed <=>
       /\ ~q.broken /\ ~(deals[n].index <= b.arrived)
       /\ deals[n].prev = q.last
       /\ deals[n].units + q.consumed <= b.credited
  /\ b.credited \in Nat
  /\ n \notin R[n].backed => R[n].backed = q.backed /\ R[n].broken
  /\ n \in R[n].backed => R[n].backed = q.backed \cup {n} /\ R[n].last = n /\ ~R[n].broken
  /\ n \notin q.backed

LEMMA BackedFits ==
  ASSUME IInv, NEW view, NEW a, NEW vetted, NEW R, Judged(view, a, vetted, R),
         NEW n \in Numbers, NEW b, b = BillAt(view, a, vetted, R, n),
         NEW q, q = RunAt(view, a, R, n)
  PROVE  Ruled(R, n, b, q)
<1>1. n \in Nat
  BY TypeFacts DEF IInv
<1>2. R[n] = Judge(b, q, SpendOf(n, a[n])) /\ Taken(view, a, R, n, q)
  BY VerdictTakes
<1>3. q \in RunType
  BY <1>2 DEF Taken
<1>4. PICK s : s = SpendOf(n, a[n])
  OBVIOUS
<1>5. /\ s.ref = n /\ s.frozen = FALSE /\ s.node = 0 /\ s.index = deals[n].index
      /\ s.prev = deals[n].prev /\ s.units = deals[n].units
  BY <1>4 DEF SpendOf
<1>6. n \notin q.backed
  <2>1. PICK m : m = Max(Before(view, n))
    OBVIOUS
  <2>2. CASE Before(view, n) = {}
    BY <1>2, <2>2 DEF Taken, NewRun
  <2>3. CASE Before(view, n) # {}
    <3>1. m \in 1..n - 1 /\ m \in Numbers
      BY <2>1, <2>3, BeforeIs, TypeFacts DEF IInv
    <3>2. q.backed = R[m].backed /\ R[m].backed \subseteq 1..m
      BY <1>2, <2>1, <2>3, <3>1, BackedSoFar DEF Taken
    <3> QED BY <1>1, <3>1, <3>2
  <2> QED BY <2>2, <2>3
<1>7. b.purse = 0 /\ b.credited \in Nat
  <2>1. Credit \in Nat /\ (deals[n].src # 0 => deals[deals[n].src].units \in Nat)
    BY TypeFacts, OffersAssumption, SMTT(30) DEF IInv, Threaded
  <2> QED BY <2>1 DEF BillAt
<1>8. PICK F : F <=> q.broken \/ Fault(b, q, s)
  OBVIOUS
<1>9. R[n] = IF F THEN [q EXCEPT !.broken = TRUE, !.unbacked = @ \cup {n}]
             ELSE [q EXCEPT !.backed = @ \cup {n}, !.last = n]
  BY <1>2, <1>4, <1>5, <1>8 DEF Judge
<1>10. q.consumed \in Nat /\ deals[n].units \in Nat
  BY <1>3, TypeFacts DEF RunType, IInv
<1>11. ~F <=> /\ ~q.broken /\ ~(deals[n].index <= b.arrived)
              /\ deals[n].prev = q.last
              /\ deals[n].units + q.consumed <= b.credited
  <2>1. PICK u \in Nat, c \in Nat, k \in Nat :
          u = deals[n].units /\ c = q.consumed /\ k = b.credited
    BY <1>7, <1>10
  <2>2. u > k - c <=> ~(u + c <= k)
    OBVIOUS
  <2> QED BY <1>5, <1>7, <1>8, <2>1, <2>2 DEF Fault, Room
<1>12. CASE F
  <2>1. R[n].consumed = q.consumed /\ R[n].backed = q.backed /\ R[n].broken
    BY <1>3, <1>9, <1>12 DEF RunType
  <2> QED BY <1>6, <1>7, <1>10, <1>11, <1>12, <2>1 DEF Ruled
<1>13. CASE ~F
  <2>1. /\ R[n].consumed = q.consumed /\ R[n].backed = q.backed \cup {n}
        /\ R[n].last = n /\ R[n].broken = q.broken
    BY <1>3, <1>9, <1>13 DEF RunType
  <2> QED BY <1>6, <1>7, <1>10, <1>11, <1>13, <2>1 DEF Ruled
<1> QED BY <1>12, <1>13


\* The deals of S before n, and those up to it.
Under(S, n) == {d \in S : d < n}

Through(S, n) == {d \in S : d <= n}

\* No later spend of the bill takes the hours of d for free.
Alive(d) ==
  \A e \in Numbers :
    e > d /\ deals[e].from = deals[d].from /\ deals[e].src = deals[d].src /\ OnTable(e) =>
      ~Dead(SpendOf(d, AnswerIn(TableView, d)), deals[e].time)

\* A deal whose hours are there and stay taken.
Stands(d) == OnTable(d) /\ Backed(TableRuns, d) /\ Alive(d)

\* What the aggregator takes for the credit of the bill that d spends.
CreditOf(d) == BillAt(TableView, AnswersIn(TableView), TRUE, TableRuns, d).credited

\* The deals of H that spend the bill <<c, src>>, and hours its credit is within.
Share(H, c, src) == {d \in H : deals[d].from = c /\ deals[d].src = src}

Covers(top, c, src) ==
  top \in Nat /\ \A d \in Numbers : deals[d].from = c /\ deals[d].src = src => CreditOf(d) <= top

AllStand(H) == H \in SUBSET Numbers /\ \A d \in H : Stands(d)

\* Along the walk of a bill, the hours of deals that stand are within those
\* taken, and those within the bill.
LEMMA HoursFit ==
  ASSUME IInv, NEW h, HourSums(h), NEW H, AllStand(H), NEW c, NEW src, NEW top,
         Covers(top, c, src)
  PROVE  h[Share(H, c, src)] <= top
<1> PICK S : S = Share(H, c, src)
  OBVIOUS
<1>1. PICK N \in Nat : N = Len(deals) /\ Numbers = 1..N
  BY TypeFacts DEF IInv
<1>2. PICK a, R, V : a = AnswersIn(TableView) /\ R = TableRuns /\ V = TableView
  OBVIOUS
<1>3. Judged(V, a, TRUE, R) /\ V.blocks = table
      /\ \A d \in Numbers : a[d] = AnswerIn(V, d)
  BY <1>2, RunsAreJudged DEF TableRuns, AnswersIn, TableView
<1>4. \A d \in H : OnTable(d) /\ d \in R[d].backed /\ Alive(d)
  BY <1>2 DEF Stands, Backed, AllStand
<1>5. /\ h[{}] = 0 /\ \A T \in SUBSET Numbers : h[T] \in Nat
      /\ \A T \in SUBSET Numbers : \A d \in Numbers :
           d \notin T => h[T \cup {d}] = h[T] + deals[d].units
  BY HoursAdd
<1>6. h[S] <= top
  <2>1. PICK P : P = SpendsOf(table, c, src)
    OBVIOUS
  <2>2. /\ P \subseteq Numbers /\ S \subseteq P /\ S \in SUBSET Numbers
        /\ \A n \in P : /\ deals[n].from = c /\ deals[n].src = src
                        /\ Before(V, n) = {e \in P : e < n}
        /\ \A n \in S : n \in R[n].backed
        /\ \A m \in S : \A n \in P : n > m => ~Dead(SpendOf(m, a[m]), deals[n].time)
    <3>1. P \subseteq Numbers /\ \A n \in P : OnTable(n) /\ deals[n].from = c /\ deals[n].src = src
      BY <2>1 DEF SpendsOf, OnTable
    <3>2. S \subseteq P /\ S \in SUBSET Numbers /\ \A n \in P : Before(V, n) = {e \in P : e < n}
      BY <1>3, <1>4, <2>1 DEF SpendsOf, OnTable, Before, Share, AllStand
    <3>3. \A m \in S : Alive(m) /\ m \in R[m].backed /\ a[m] = AnswerIn(TableView, m)
      <4>1. \A m \in S : m \in H /\ m \in Numbers
        BY <3>2 DEF Share
      <4>2. \A m \in S : Alive(m) /\ m \in R[m].backed
        BY <1>4, <4>1
      <4>3. \A m \in S : a[m] = AnswerIn(TableView, m)
        BY <1>2, <1>3, <4>1
      <4> QED BY <4>2, <4>3
    <3>4. \A m \in S : \A n \in P : n > m => ~Dead(SpendOf(m, a[m]), deals[n].time)
      BY <3>1, <3>2, <3>3 DEF Alive
    <3> QED BY <3>1, <3>2, <3>3, <3>4
  <2> DEFINE Claim(n) == h[Under(S, n)] <= R[n].consumed /\ h[Through(S, n)] <= top
             In == {k \in 0..N : \A n \in P : n <= k => Claim(n)}
  <2>4. 0 \in In
    <3>1. \A n \in P : ~(n <= 0)
      BY <1>1, <2>2
    <3> HIDE DEF Claim
    <3> QED BY <1>1, <3>1
  <2>5. ASSUME NEW k \in 0..N - 1, k \in In, NEW n, n = k + 1, n \in P
        PROVE  Claim(n)
    <3>1. n \in Numbers /\ n \in Nat
      BY <2>2, <2>5, <1>1
    <3>2. PICK b, q, m : /\ b = BillAt(V, a, TRUE, R, n) /\ q = RunAt(V, a, R, n)
                         /\ m = Max(Before(V, n))
      OBVIOUS
    <3>3. /\ q.consumed \in Nat /\ R[n].consumed = q.consumed /\ b.credited \in Nat
          /\ n \in R[n].backed => deals[n].units + q.consumed <= b.credited
      <4>1. Ruled(R, n, b, q)
        BY <1>3, <3>1, <3>2, BackedFits
      <4> QED BY <4>1 DEF Ruled
    <3>4. Taken(V, a, R, n, q)
      BY <1>3, <3>1, <3>2, VerdictTakes
    <3>5. b.credited <= top
      <4>1. CreditOf(n) = b.credited
        BY <1>2, <3>2 DEF CreditOf
      <4> QED BY <2>2, <2>5, <3>1, <4>1 DEF Covers
    <3>6. h[Under(S, n)] <= q.consumed /\ h[Under(S, n)] <= top /\ h[Under(S, n)] \in Nat
      <4>1. CASE Before(V, n) = {}
        <5>1. Under(S, n) = {}
          BY <2>2, <2>5, <4>1 DEF Under
        <5>2. h[Under(S, n)] = 0
          BY <1>5, <5>1
        <5>3. 0 <= top
          BY DEF Covers
        <5> QED BY <3>3, <5>2, <5>3
      <4>2. CASE Before(V, n) # {}
        <5>1. m \in P /\ m < n /\ m \in Numbers /\ \A e \in P : e < n => e <= m
          BY <2>2, <2>5, <3>1, <3>2, <4>2, BeforeIs
        <5>2. Claim(m)
          BY <1>1, <2>5, <5>1
        <5>3. /\ Under(S, n) = Through(S, m)
              /\ Through(S, m) = IF m \in S THEN Under(S, m) \cup {m} ELSE Under(S, m)
              /\ Under(S, m) \in SUBSET Numbers /\ Through(S, m) \in SUBSET Numbers /\ m \notin Under(S, m)
          <6>1. /\ \A d \in S : d \in Nat /\ d \in P /\ d \in Numbers
                /\ m \in Nat /\ n \in Nat
            <7>1. \A d \in Numbers : d \in Nat
              BY <1>1
            <7>2. \A d \in S : d \in P /\ d \in Numbers
              BY <2>2
            <7> QED BY <3>1, <5>1, <7>1, <7>2
          <6>2. \A d \in S : d < n <=> d <= m
            BY <5>1, <6>1
          <6>3. \A d \in S : d <= m <=> d < m \/ d = m
            BY <6>1
          <6> QED BY <6>1, <6>2, <6>3 DEF Under, Through
        <5>4. /\ q.consumed = R[m].consumed
                   + IF m \in R[m].backed /\ ~Dead(SpendOf(m, a[m]), deals[n].time)
                     THEN deals[m].units ELSE 0
              /\ R[m].consumed \in Nat /\ deals[m].units \in Nat
          <6>1. R[m] \in RunType
            BY <1>3, <5>1 DEF Judged
          <6>2. R[m].consumed \in Nat /\ deals[m].units \in Nat
            BY <5>1, <6>1, TypeFacts DEF RunType, IInv
          <6> QED BY <3>2, <3>4, <4>2, <6>2 DEF Taken
        <5>5. m \in S => m \in R[m].backed /\ ~Dead(SpendOf(m, a[m]), deals[n].time)
          <6>1. m \in Nat /\ n \in Nat
            BY <1>1, <3>1, <5>1
          <6> QED BY <2>2, <2>5, <5>1, <6>1
        <5>6. h[Through(S, m)] = h[Under(S, m)] + IF m \in S THEN deals[m].units ELSE 0
          <6>1. h[Under(S, m)] \in Nat
            BY <1>5, <5>3
          <6> QED BY <1>5, <5>1, <5>3, <6>1
        <5>7. h[Through(S, m)] \in Nat /\ h[Under(S, m)] \in Nat
          BY <1>5, <5>3
        <5>8. h[Through(S, m)] <= q.consumed
          <6> QED BY <5>2, <5>4, <5>5, <5>6, <5>7
        <5> QED BY <5>2, <5>3, <5>7, <5>8
      <4> QED BY <4>1, <4>2
    <3>7. CASE n \in S
      <4>1. Through(S, n) = Under(S, n) \cup {n} /\ n \notin Under(S, n) /\ Under(S, n) \in SUBSET Numbers
        <5>1. \A d \in S : d \in Nat /\ d \in Numbers
          BY <1>1, <2>2
        <5>2. \A d \in S : d <= n <=> d < n \/ d = n
          BY <3>1, <5>1
        <5>3. Through(S, n) = Under(S, n) \cup {n} /\ Under(S, n) \in SUBSET Numbers
          BY <3>7, <5>1, <5>2 DEF Under, Through
        <5>4. n \notin Under(S, n)
          BY <3>1 DEF Under
        <5> QED BY <5>3, <5>4
      <4>2. h[Through(S, n)] = h[Under(S, n)] + deals[n].units
        <5> QED BY <1>5, <3>1, <4>1
      <4>3. deals[n].units + q.consumed <= b.credited /\ deals[n].units \in Nat
        BY <2>2, <3>1, <3>3, <3>7, TypeFacts DEF IInv
      <4>4. top \in Nat
        BY DEF Covers
      <4> QED BY <3>3, <3>5, <3>6, <4>2, <4>3, <4>4
    <3>8. CASE n \notin S
      <4>1. Through(S, n) = Under(S, n)
        <5>1. \A d \in S : d \in Nat
          BY <1>1, <2>2
        <5>2. \A d \in S : d <= n <=> d < n
          BY <3>1, <3>8, <5>1
        <5> QED BY <5>2 DEF Under, Through
      <4> QED BY <3>3, <3>6, <4>1
    <3> QED BY <3>7, <3>8
  <2>6. \A k \in 0..N : k \in In
    <3>1. ASSUME NEW k \in 0..N - 1, k \in In
          PROVE  k + 1 \in In
      <4>1. k + 1 \in P => Claim(k + 1)
        BY <2>5, <3>1
      <4>2. \A n \in P : n <= k => Claim(n)
        BY <3>1
      <4>3. \A n \in P : n <= k + 1 => n <= k \/ n = k + 1
        BY <1>1, <2>2
      <4> HIDE DEF Claim
      <4>4. \A n \in P : n <= k + 1 => Claim(n)
        BY <4>1, <4>2, <4>3
      <4> QED BY <1>1, <4>4
    <3> HIDE DEF In
    <3>2. \A k \in 0..N - 1 : k \in In => k + 1 \in In
      BY <3>1
    <3> QED BY <1>1, <2>4, <3>2, UpTo
  <2>7. CASE S = {}
    <3>1. h[S] = 0
      BY <1>5, <2>7
    <3>2. 0 <= top
      BY DEF Covers
    <3> QED BY <3>1, <3>2
  <2>8. CASE S # {}
    <3>1. PICK m : m = Max(S)
      OBVIOUS
    <3>2. m \in S /\ \A d \in S : d <= m
      <4>1. S \in SUBSET (0..N)
        BY <1>1, <2>2
      <4> QED BY <2>8, <3>1, <4>1, MaxNat
    <3>3. m \in P /\ m \in 0..N /\ m <= m
      BY <1>1, <2>2, <3>2
    <3>4. Claim(m)
      BY <2>6, <3>3
    <3>5. Through(S, m) = S
      BY <3>2 DEF Through
    <3> QED BY <3>4, <3>5
  <2> QED BY <2>7, <2>8
<1> QED BY <1>6

\* What the aggregator counts as paid stands.
LEMMA HappenedStands ==
  ASSUME IInv
  PROVE  AllStand(Happened)
<1>1. Happened = {d \in Numbers : /\ OnTable(d)
                                  /\ AnswerIn(TableView, d) = "accepted"
                                  /\ Backed(TableRuns, d)}
  BY HappenedIs
<1>2. \A d \in Numbers : AnswerIn(TableView, d) = "accepted" => Alive(d)
  BY DEF Alive, Dead, SpendOf
<1> QED BY <1>1, <1>2 DEF Stands, AllStand

LEMMA TableFits ==
  ASSUME IInv
  PROVE  TableNeverOverspent
<1>1. PICK h : HourSums(h)
  BY HoursExist
<1>2. ASSUME NEW c \in Chains, NEW src \in {0} \cup Numbers
      PROVE  MapThenSumSet(LAMBDA d : deals[d].units,
               {d \in Happened : deals[d].from = c /\ deals[d].src = src}) <= Credited(src)
  <2>1. PICK H, S : H = Happened /\ S = Share(H, c, src)
    OBVIOUS
  <2>2. AllStand(H) /\ S \in SUBSET Numbers
    BY <2>1, HappenedStands DEF AllStand, Share
  <2>3. /\ Credit \in Nat /\ Credited(src) \in Nat
        /\ src # 0 => deals[src].units \in Nat
    BY TypeFacts, OffersAssumption DEF IInv, Credited
  <2>4. Covers(Credited(src), c, src)
    BY <2>3 DEF Covers, CreditOf, BillAt, Credited
  <2>5. h[S] <= Credited(src)
    BY <1>1, <2>1, <2>2, <2>4, HoursFit
  <2>6. MapThenSumSet(LAMBDA d : deals[d].units, S) = h[S]
    BY <1>1, <2>2 DEF HourSums
  <2> QED BY <2>1, <2>5, <2>6 DEF Share
<1> QED BY <1>2 DEF TableNeverOverspent

\* Whatever part of the history the aggregator has, the deals it takes for
\* happened never pay more hours from one bill than came in it: lost posts,
\* blocks in any order, clocks behind and payments repeated included.
THEOREM TableIsNeverOverspent == Spec => []TableNeverOverspent
<1>1. IInv => TableNeverOverspent
  BY TableFits
<1> QED BY <1>1, Invariance, PTL


-----------------------------------------------------------------------------
(* The thread of a bill.                                                   *)

Thread(d) == Earlier(d) \cup {d}

LEMMA EarlierIs ==
  ASSUME IInv, NEW d \in Numbers
  PROVE  /\ Earlier(d) \subseteq 1..d - 1 /\ Earlier(d) \subseteq Numbers /\ d \in Nat
         /\ Earlier(d) = {} => deals[d].prev = NoRef
         /\ Earlier(d) # {} =>
              /\ deals[d].prev = Max(Earlier(d)) /\ deals[d].prev # NoRef
              /\ deals[d].prev \in Earlier(d)
              /\ Earlier(d) = Earlier(deals[d].prev) \cup {deals[d].prev}
         /\ \A e \in Thread(d) : /\ deals[e].from = deals[d].from /\ deals[e].src = deals[d].src
                                 /\ e \in Numbers /\ Earlier(e) = {k \in Earlier(d) : k < e}
<1>1. Len(deals) \in Nat /\ Numbers = 1..Len(deals) /\ d \in Nat
  BY TypeFacts DEF IInv
<1>2. PICK E, m : E = Earlier(d) /\ m = Max(E)
  OBVIOUS
<1>3. /\ E \subseteq 1..d - 1 /\ E \subseteq Numbers
      /\ \A e \in E : deals[e].from = deals[d].from /\ deals[e].src = deals[d].src
  BY <1>1, <1>2 DEF Earlier
<1>4. \A e \in E : e \in 1..d - 1
  BY <1>3
<1>5. deals[d].prev = IF E = {} THEN NoRef ELSE m
  BY <1>2 DEF IInv, Threaded
<1>6. ASSUME NEW e, e \in E \/ e = d
      PROVE  /\ deals[e].from = deals[d].from /\ deals[e].src = deals[d].src
             /\ e \in Numbers /\ Earlier(e) = {k \in E : k < e}
  <2>1. deals[e].from = deals[d].from /\ deals[e].src = deals[d].src /\ e \in 1..d /\ e \in Numbers
    <3>1. CASE e \in E
      BY <1>1, <1>3, <1>4, <3>1
    <3>2. CASE e = d
      BY <1>1, <3>2
    <3> QED BY <1>6, <3>1, <3>2
  <2>2. Earlier(e) = {k \in 1..e - 1 : deals[k].from = deals[d].from /\ deals[k].src = deals[d].src}
    BY <2>1 DEF Earlier
  <2>3. \A k : k \in 1..e - 1 <=> k \in 1..d - 1 /\ k < e
    BY <1>1, <2>1
  <2> QED BY <1>2, <2>1, <2>2, <2>3 DEF Earlier
<1>7. CASE E # {}
  <2>1. E \in SUBSET (0..d)
    BY <1>1, <1>4
  <2>2. m \in E /\ \A e \in E : e <= m
    BY <1>1, <1>2, <1>7, <2>1, MaxNat
  <2>3. m \in 1..d - 1
    BY <1>4, <2>2
  <2>4. m # NoRef
    BY <2>3 DEF NoRef
  <2>5. Earlier(m) = {k \in E : k < m}
    BY <1>6, <2>2
  <2>6. \A k \in E : k < m \/ k = m
    BY <1>4, <2>2, <2>3
  <2> QED BY <1>1, <1>2, <1>3, <1>5, <1>6, <1>7, <2>2, <2>4, <2>5, <2>6 DEF Thread
<1> QED BY <1>1, <1>2, <1>3, <1>5, <1>6, <1>7 DEF Thread

\* Walking back along `prev` the seller meets every earlier spend of the bill.
LEMMA WalkIsEarlier ==
  ASSUME IInv, NEW d \in Numbers
  PROVE  Walk(d) = Earlier(d)
<1> DEFINE Laid(f) == [e \in Numbers |-> IF deals[e].prev = NoRef THEN {}
                                         ELSE {deals[e].prev} \cup f[deals[e].prev]]
<1>1. PICK N \in Nat : N = Len(deals) /\ Numbers = 1..N
  BY TypeFacts DEF IInv
<1>2. PICK g : g = [e \in Numbers |-> Earlier(e)]
  OBVIOUS
<1>3. g = Laid(g)
  <2>1. ASSUME NEW e \in Numbers
        PROVE  Earlier(e) = IF deals[e].prev = NoRef THEN {}
                            ELSE {deals[e].prev} \cup g[deals[e].prev]
    <3>1. CASE Earlier(e) = {}
      BY <3>1, EarlierIs
    <3>2. CASE Earlier(e) # {}
      <4>1. PICK m : m = deals[e].prev
        OBVIOUS
      <4>2. m # NoRef /\ m \in Numbers /\ Earlier(e) = Earlier(m) \cup {m}
        BY <3>2, <4>1, EarlierIs
      <4> QED BY <1>2, <4>1, <4>2
    <3> QED BY <3>1, <3>2
  <2> QED BY <1>2, <2>1
<1>4. PICK w : w = CHOOSE f : f = Laid(f)
  OBVIOUS
<1>5. w = Laid(w)
  <2> HIDE DEF Laid
  <2> QED BY <1>3, <1>4
<1>6. Walk(d) = w[d]
  BY <1>4 DEF Walk
<1>7. \A e \in Numbers : w[e] = IF deals[e].prev = NoRef THEN {}
                                ELSE {deals[e].prev} \cup w[deals[e].prev]
  BY <1>5
<1> DEFINE In == {k \in 0..N : \A e \in 1..k : w[e] = Earlier(e)}
<1>8. 0 \in In
  BY <1>1
<1>9. ASSUME NEW k \in 0..N - 1, k \in In
      PROVE  k + 1 \in In
  <2>1. PICK e : e = k + 1
    OBVIOUS
  <2>2. e \in Numbers /\ e \in 0..N /\ e - 1 = k /\ 1..e = 1..k \cup {e}
    BY <1>1, <1>9, <2>1
  <2>3. w[e] = Earlier(e)
    <3>1. CASE Earlier(e) = {}
      BY <1>7, <2>2, <3>1, EarlierIs
    <3>2. CASE Earlier(e) # {}
      <4>1. PICK m : m = deals[e].prev
        OBVIOUS
      <4>2. m # NoRef /\ m \in 1..k /\ Earlier(e) = Earlier(m) \cup {m}
        BY <2>2, <3>2, <4>1, EarlierIs
      <4>3. w[m] = Earlier(m)
        BY <1>9, <4>2
      <4> QED BY <1>7, <2>2, <4>1, <4>2, <4>3
    <3> QED BY <3>1, <3>2
  <2>4. \A i \in 1..e : w[i] = Earlier(i)
    BY <1>9, <2>2, <2>3
  <2> QED BY <2>1, <2>2, <2>4
<1>10. \A k \in 0..N : k \in In
  <2> HIDE DEF In
  <2>1. \A k \in 0..N - 1 : k \in In => k + 1 \in In
    BY <1>9
  <2> QED BY <1>1, <1>8, <2>1, UpTo
<1> QED BY <1>1, <1>6, <1>10

\* A view holds the spends of the bill up to d.
Shown(view, d) == \A n \in Thread(d) : Before(view, n) = Earlier(n)

LEMMA HeldIsShown ==
  ASSUME IInv, NEW d \in Numbers, NEW view, \A e \in Earlier(d) : DealRef(e) \in view.blocks
  PROVE  Shown(view, d)
<1> SUFFICES ASSUME NEW n \in Thread(d)
             PROVE  Before(view, n) = Earlier(n)
  BY DEF Shown
<1>1. /\ n \in Numbers /\ n \in Nat /\ Earlier(n) \subseteq Numbers
      /\ \A e \in Earlier(n) : DealRef(e) \in view.blocks
  <2>1. n \in Numbers /\ Earlier(n) \subseteq Earlier(d)
    BY EarlierIs
  <2> QED BY <2>1, EarlierIs
<1>2. \A e \in Numbers : e \in Nat /\ (e \in 1..n - 1 <=> e < n)
  <2>1. Numbers = 1..Len(deals) /\ Len(deals) \in Nat
    BY TypeFacts DEF IInv
  <2> QED BY <1>1, <2>1
<1> QED BY <1>1, <1>2 DEF Before, Earlier, SpendsOf

\* q bounds the hours taken from the first bill before each spend up to d, by
\* the answers A, and each spend fits into what that leaves.
Ledger(d, A, q) ==
  /\ q \in [1..d -> Nat]
  /\ \A n \in Thread(d) :
       /\ Earlier(n) # {} => \A m \in {deals[n].prev} :
            q[m] + (IF Dead(SpendOf(m, A[m]), deals[n].time) THEN 0 ELSE deals[m].units) <= q[n]
       /\ deals[n].units + q[n] <= Credit

\* The first bill, as every view has it.
LEMMA FirstBill ==
  ASSUME IInv, NEW n \in Numbers, deals[n].src = 0, NEW view, NEW a, NEW vetted, NEW R
  PROVE  /\ BillAt(view, a, vetted, R, n).credited = Credit
         /\ BillAt(view, a, vetted, R, n).arrived = 0
         /\ deals[n].index \in Nat /\ deals[n].index > 0
<1>1. deals[n].from = Holder
  BY DEF IInv, Threaded
<1>2. deals[n].index \in Nat /\ deals[n].index > 0
  <2>1. PICK c, i : c = deals[n].from /\ i = deals[n].index
    OBVIOUS
  <2>2. c \in Chains /\ Len(purse[c]) \in Nat /\ i \in 1..Len(purse[c])
    BY <2>1, TypeFacts DEF IInv, Placed
  <2> QED BY <2>1, <2>2
<1> QED BY <1>1, <1>2 DEF BillAt, Arrival


\* A spend of the first bill that a walk backs leaves a ledger.
LEMMA WalkLeavesLedger ==
  ASSUME IInv, NEW d \in Numbers, deals[d].src = 0, NEW view, NEW a, NEW vetted, NEW R,
         Judged(view, a, vetted, R), Shown(view, d), d \in R[d].backed
  PROVE  Ledger(d, a, [n \in 1..d |-> IF n \in Numbers THEN R[n].consumed ELSE 0])
<1>1. PICK N \in Nat : N = Len(deals) /\ Numbers = 1..N /\ d \in 1..N /\ d \in Nat
  BY TypeFacts DEF IInv
<1>2. PICK T : T = Thread(d)
  OBVIOUS
<1>3. /\ T \subseteq Numbers /\ d \in T
      /\ \A n \in T : n \in 1..d /\ Earlier(n) \subseteq T /\ deals[n].src = 0
  <2>1. Earlier(d) \subseteq 1..d - 1
    BY EarlierIs
  <2>2. \A n \in T : n \in 1..d
    BY <1>1, <1>2, <2>1 DEF Thread
  <2>3. \A n \in T : n \in Numbers /\ deals[n].src = 0 /\ Earlier(n) \subseteq T
    BY <1>2, EarlierIs DEF Thread
  <2> QED BY <1>2, <2>2, <2>3 DEF Thread
<1>4. ASSUME NEW n \in T, NEW b, NEW q, b = BillAt(view, a, vetted, R, n),
             q = RunAt(view, a, R, n)
      PROVE  /\ Ruled(R, n, b, q) /\ b.credited = Credit
             /\ Taken(view, a, R, n, q) /\ Before(view, n) = Earlier(n)
             /\ R[n] = Judge(b, q, SpendOf(n, a[n]))
  <2>1. n \in Numbers /\ deals[n].src = 0
    BY <1>3
  <2> QED BY <1>2, <1>4, <2>1, BackedFits, FirstBill, VerdictTakes DEF Shown
<1> DEFINE Fine(n) == n \in R[n].backed => \A e \in Earlier(n) : e \in R[e].backed
           In == {k \in 0..d : \A n \in T : n <= k => Fine(n)}
<1>5. 0 \in In
  BY <1>1, <1>3
<1>6. ASSUME NEW k \in 0..d - 1, k \in In, NEW n \in T, n = k + 1, n \in R[n].backed,
             Earlier(n) # {}
      PROVE  \A e \in Earlier(n) : e \in R[e].backed
  <2>1. PICK m, b, q : /\ m = deals[n].prev /\ b = BillAt(view, a, vetted, R, n)
                       /\ q = RunAt(view, a, R, n)
    OBVIOUS
  <2>2. /\ m = Max(Earlier(n)) /\ m \in Earlier(n) /\ Earlier(n) = Earlier(m) \cup {m}
        /\ m \in 1..n - 1 /\ m \in T
    BY <1>3, <1>6, <2>1, EarlierIs
  <2>3. q.broken = R[m].broken /\ ~q.broken
    BY <1>4, <1>6, <2>1, <2>2 DEF Ruled, Taken
  <2>4. m \in R[m].backed
    <3>1. PICK i, j : i = BillAt(view, a, vetted, R, m) /\ j = RunAt(view, a, R, m)
      OBVIOUS
    <3>2. Ruled(R, m, i, j)
      BY <1>4, <2>2, <3>1
    <3> QED BY <2>3, <3>2 DEF Ruled
  <2>5. Fine(m)
    <3>1. m <= k
      BY <1>1, <1>6, <2>2
    <3> QED BY <1>6, <2>2, <3>1
  <2> QED BY <2>2, <2>4, <2>5
<1>7. ASSUME NEW k \in 0..d - 1, k \in In
      PROVE  k + 1 \in In
  <2>1. k + 1 \in T => Fine(k + 1)
    <3>1. ASSUME k + 1 \in T, k + 1 \in R[k + 1].backed, Earlier(k + 1) # {}
          PROVE  \A e \in Earlier(k + 1) : e \in R[e].backed
      BY <1>6, <1>7, <3>1
    <3> QED BY <3>1
  <2>2. \A n \in T : n <= k => Fine(n)
    BY <1>7
  <2>3. \A n \in T : n <= k + 1 => n <= k \/ n = k + 1
    BY <1>1, <1>3
  <2> HIDE DEF Fine
  <2>4. \A n \in T : n <= k + 1 => Fine(n)
    BY <2>1, <2>2, <2>3
  <2> QED BY <1>1, <2>4
<1>8. \A n \in T : n \in R[n].backed
  <2>1. \A k \in 0..d : k \in In
    <3> HIDE DEF In
    <3>1. \A k \in 0..d - 1 : k \in In => k + 1 \in In
      BY <1>7
    <3> QED BY <1>1, <1>5, <3>1, UpTo
  <2>2. Fine(d)
    BY <1>1, <1>3, <2>1
  <2> QED BY <1>2, <2>2 DEF Thread
<1>9. PICK g : g = [n \in 1..d |-> IF n \in Numbers THEN R[n].consumed ELSE 0]
  OBVIOUS
<1>10. g \in [1..d -> Nat] /\ \A n \in T : g[n] = R[n].consumed
  <2>1. \A n \in Numbers : R[n].consumed \in Nat
    BY DEF Judged, RunType
  <2> QED BY <1>3, <1>9, <2>1
<1>11. ASSUME NEW n \in T
       PROVE  deals[n].units + g[n] <= Credit
  <2>1. PICK b, q : b = BillAt(view, a, vetted, R, n) /\ q = RunAt(view, a, R, n)
    OBVIOUS
  <2>2. Ruled(R, n, b, q) /\ b.credited = Credit
    BY <1>4, <2>1
  <2> QED BY <1>8, <1>10, <2>2 DEF Ruled
<1>12. ASSUME NEW n \in T, Earlier(n) # {}, NEW m, m = deals[n].prev
       PROVE  g[m] + (IF Dead(SpendOf(m, a[m]), deals[n].time) THEN 0 ELSE deals[m].units) <= g[n]
  <2>1. PICK b, q : b = BillAt(view, a, vetted, R, n) /\ q = RunAt(view, a, R, n)
    OBVIOUS
  <2>2. m = Max(Earlier(n)) /\ m \in T /\ m \in Numbers
    BY <1>3, <1>12, EarlierIs
  <2>3. /\ Ruled(R, n, b, q) /\ Taken(view, a, R, n, q) /\ Before(view, n) = Earlier(n)
    BY <1>4, <2>1
  <2>4. m \in R[m].backed
    BY <1>8, <2>2
  <2>5. q.consumed = R[m].consumed
          + IF ~Dead(SpendOf(m, a[m]), deals[n].time) THEN deals[m].units ELSE 0
    BY <1>12, <2>2, <2>3, <2>4 DEF Taken
  <2>6. R[n].consumed = q.consumed /\ q.consumed \in Nat
    BY <2>3 DEF Ruled
  <2>7. g[m] = R[m].consumed /\ g[n] = R[n].consumed /\ g[m] \in Nat /\ deals[m].units \in Nat
    BY <1>3, <1>10, <2>2, TypeFacts DEF IInv
  <2> QED BY <2>5, <2>6, <2>7
<1> QED BY <1>2, <1>9, <1>10, <1>11, <1>12 DEF Ledger

\* A ledger whose answers free no hours that a walk takes makes the walk back
\* the spend.
LEMMA LedgerBacks ==
  ASSUME IInv, NEW d \in Numbers, deals[d].src = 0, NEW view, NEW a, NEW vetted, NEW R,
         Judged(view, a, vetted, R), Shown(view, d), NEW A, NEW g, Ledger(d, A, g),
         \A m \in Earlier(d) : \A t \in Nat :
           Dead(SpendOf(m, A[m]), t) => Dead(SpendOf(m, a[m]), t)
  PROVE  d \in R[d].backed
<1>1. PICK N \in Nat : N = Len(deals) /\ Numbers = 1..N /\ d \in 1..N /\ d \in Nat
  BY TypeFacts DEF IInv
<1>2. PICK T : T = Thread(d)
  OBVIOUS
<1>3. /\ T \subseteq Numbers /\ d \in T
      /\ \A n \in T : n \in 1..d /\ Earlier(n) \subseteq Earlier(d) /\ Earlier(n) \subseteq T
                    /\ deals[n].src = 0
  <2>1. Earlier(d) \subseteq 1..d - 1
    BY EarlierIs
  <2>2. \A n \in T : n \in 1..d
    BY <1>1, <1>2, <2>1 DEF Thread
  <2>3. \A n \in T : n \in Numbers /\ deals[n].src = 0 /\ Earlier(n) \subseteq Earlier(d)
    BY <1>2, EarlierIs DEF Thread
  <2> QED BY <1>2, <2>2, <2>3 DEF Thread
<1> DEFINE Fine(n) == n \in R[n].backed /\ R[n].consumed <= g[n]
           In == {k \in 0..d : \A n \in T : n <= k => Fine(n)}
<1>4. 0 \in In
  BY <1>1, <1>3
<1>5. ASSUME NEW k \in 0..d - 1, k \in In, NEW n \in T, n = k + 1
      PROVE  Fine(n)
  <2>1. PICK m, b, q : /\ m = deals[n].prev /\ b = BillAt(view, a, vetted, R, n)
                       /\ q = RunAt(view, a, R, n)
    OBVIOUS
  <2>2. n \in Numbers /\ deals[n].src = 0 /\ deals[n].time \in Nat /\ deals[n].units \in Nat
    BY <1>3, TypeFacts DEF IInv
  <2>3. /\ Ruled(R, n, b, q) /\ b.credited = Credit /\ b.arrived = 0
        /\ ~(deals[n].index <= b.arrived)
        /\ Taken(view, a, R, n, q) /\ Before(view, n) = Earlier(n)
    BY <1>2, <2>1, <2>2, BackedFits, FirstBill, VerdictTakes DEF Shown
  <2>4. g[n] \in Nat /\ deals[n].units + g[n] <= Credit /\ Credit \in Nat
    BY <1>2, <1>3, OffersAssumption DEF Ledger
  <2>5. ~q.broken /\ deals[n].prev = q.last /\ q.consumed <= g[n]
    <3>1. CASE Earlier(n) = {}
      <4>1. deals[n].prev = NoRef
        BY <2>2, <3>1, EarlierIs
      <4> QED BY <2>3, <2>4, <3>1, <4>1 DEF Taken, NewRun
    <3>2. CASE Earlier(n) # {}
      <4>1. m = Max(Earlier(n)) /\ m \in Earlier(n) /\ m \in 1..n - 1 /\ m \in T
        BY <1>3, <2>1, <2>2, <3>2, EarlierIs
      <4>2. Fine(m)
        <5>1. m <= k
          BY <1>1, <1>5, <4>1
        <5> QED BY <1>5, <4>1, <5>1
      <4>3. m \in Numbers
        BY <1>3, <4>1
      <4>4. R[m].last = m /\ ~R[m].broken
        <5>1. PICK i, j : i = BillAt(view, a, vetted, R, m) /\ j = RunAt(view, a, R, m)
          OBVIOUS
        <5>2. Ruled(R, m, i, j)
          BY <4>3, <5>1, BackedFits
        <5> QED BY <4>2, <5>2 DEF Ruled
      <4>5. /\ q.last = R[m].last /\ q.broken = R[m].broken
            /\ q.consumed = R[m].consumed
                 + IF ~Dead(SpendOf(m, a[m]), deals[n].time) THEN deals[m].units ELSE 0
        BY <2>3, <3>2, <4>1, <4>2 DEF Taken
      <4>6. g[m] + (IF Dead(SpendOf(m, A[m]), deals[n].time) THEN 0 ELSE deals[m].units) <= g[n]
        BY <1>2, <2>1, <3>2 DEF Ledger
      <4>7. Dead(SpendOf(m, A[m]), deals[n].time) => Dead(SpendOf(m, a[m]), deals[n].time)
        BY <1>3, <2>2, <4>1
      <4>8. R[m].consumed \in Nat /\ g[m] \in Nat /\ deals[m].units \in Nat
        <5>1. R[m].consumed \in Nat
          BY <4>3 DEF Judged, RunType
        <5>2. g[m] \in Nat
          BY <1>3, <4>1 DEF Ledger
        <5>3. deals[m].units \in Nat
          BY <4>3, TypeFacts DEF IInv
        <5> QED BY <5>1, <5>2, <5>3
      <4>9. q.consumed <= g[n]
        BY <2>4, <4>2, <4>5, <4>6, <4>7, <4>8
      <4> QED BY <2>1, <4>4, <4>5, <4>9
    <3> QED BY <3>1, <3>2
  <2>6. deals[n].units + q.consumed <= Credit /\ q.consumed \in Nat
    <3>1. q.consumed \in Nat
      BY <2>3 DEF Ruled
    <3> QED BY <2>2, <2>4, <2>5, <3>1
  <2> QED BY <2>3, <2>5, <2>6 DEF Ruled
<1>6. ASSUME NEW k \in 0..d - 1, k \in In
      PROVE  k + 1 \in In
  <2>1. k + 1 \in T => Fine(k + 1)
    BY <1>5, <1>6
  <2>2. \A n \in T : n <= k => Fine(n)
    BY <1>6
  <2>3. \A n \in T : n <= k + 1 => n <= k \/ n = k + 1
    BY <1>1, <1>3
  <2> HIDE DEF Fine
  <2>4. \A n \in T : n <= k + 1 => Fine(n)
    BY <2>1, <2>2, <2>3
  <2> QED BY <1>1, <2>4
<1>7. \A k \in 0..d : k \in In
  <2> HIDE DEF In
  <2>1. \A k \in 0..d - 1 : k \in In => k + 1 \in In
    BY <1>6
  <2> QED BY <1>1, <1>4, <2>1, UpTo
<1> QED BY <1>1, <1>3, <1>7, SMTT(30)



-----------------------------------------------------------------------------
(* Paper accepted without being looked at.                                 *)

\* x stands in for the answer to e now and later: accepted is the worst there
\* is, a refusal is final, and so is a lapse that a merge has fixed.
Settled(e, x) ==
  \/ x = "accepted"
  \/ x = "refused" /\ AnswerIn(TableView, e) = "refused"
  \/ x = "none" /\ AnswerIn(TableView, e) = "none" /\ Lapse(e) = "witnessed"

\* The hours of d are there by answers that stand for good.
Vouched(d) ==
  /\ OnTable(d)
  /\ \A e \in Earlier(d) : OnTable(e)
  /\ \E A, g : Ledger(d, A, g) /\ \A e \in Earlier(d) : Settled(e, A[e])

LEMMA SettledIsDead ==
  ASSUME IInv, NEW e \in Numbers, NEW x, Settled(e, x), NEW t, Dead(SpendOf(e, x), t)
  PROVE  Dead(SpendOf(e, AnswersIn(TableView)[e]), t)
<1>1. AnswersIn(TableView)[e] = AnswerIn(TableView, e)
  BY DEF AnswersIn
<1>2. x # "accepted"
  BY DEF Dead, SpendOf
<1>3. x = AnswerIn(TableView, e)
  BY <1>2 DEF Settled
<1> QED BY <1>1, <1>3

LEMMA VouchedBacks ==
  ASSUME IInv, NEW d \in Numbers, deals[d].src = 0, Vouched(d)
  PROVE  Backed(TableRuns, d)
<1>1. PICK a, R : a = AnswersIn(TableView) /\ R = TableRuns
  OBVIOUS
<1>2. Judged(TableView, a, TRUE, R)
  BY <1>1, RunsAreJudged DEF TableRuns
<1>3. Shown(TableView, d)
  BY HeldIsShown DEF Vouched, OnTable, TableView
<1>4. PICK A, g : Ledger(d, A, g) /\ \A e \in Earlier(d) : Settled(e, A[e])
  BY DEF Vouched
<1>5. \A m \in Earlier(d) : \A t \in Nat :
        Dead(SpendOf(m, A[m]), t) => Dead(SpendOf(m, a[m]), t)
  BY <1>1, <1>4, SettledIsDead, EarlierIs
<1>6. d \in R[d].backed
  BY <1>2, <1>3, <1>4, <1>5, LedgerBacks
<1> QED BY <1>1, <1>6 DEF Backed

\* What is signed keeps its ledger.
LEMMA LedgerStays ==
  ASSUME IInv, Grown, NEW d \in Numbers, NEW A, NEW g, Ledger(d, A, g)
  PROVE  Earlier(d)' = Earlier(d) /\ Ledger(d, A, g)'
<1>1. \A n \in Numbers : deals'[n] = deals[n] /\ Earlier(n) \subseteq Numbers /\ Earlier(n)' = Earlier(n)
  <2>1. ASSUME NEW n \in Numbers
        PROVE  Earlier(n) \subseteq Numbers /\ Earlier(n)' = Earlier(n)
    <3>1. \A e \in 1..n - 1 : e \in Numbers
      BY TypeFacts DEF IInv
    <3> QED BY <3>1 DEF Grown, Earlier
  <2> QED BY <2>1 DEF Grown
<1>2. Thread(d)' = Thread(d) /\ \A n \in Thread(d) : n \in Numbers
  BY <1>1 DEF Thread
<1>3. \A m \in Numbers : \A x, t : Dead(SpendOf(m, x), t)' <=> Dead(SpendOf(m, x), t)
  BY <1>1 DEF Dead, SpendOf
<1>4. ASSUME NEW n \in Thread(d)
      PROVE  /\ Earlier(n)' # {} => \A m \in {deals'[n].prev} :
                  g[m] + (IF Dead(SpendOf(m, A[m]), deals[n].time)' THEN 0 ELSE deals'[m].units)
                    <= g[n]
             /\ deals'[n].units + g[n] <= Credit
  <2>1. n \in Numbers /\ deals'[n] = deals[n] /\ Earlier(n)' = Earlier(n)
    BY <1>1, <1>2
  <2>2. /\ Earlier(n) # {} => \A m \in {deals[n].prev} :
            g[m] + (IF Dead(SpendOf(m, A[m]), deals[n].time) THEN 0 ELSE deals[m].units) <= g[n]
        /\ deals[n].units + g[n] <= Credit
    BY DEF Ledger
  <2>3. Earlier(n) # {} => deals[n].prev \in Numbers
    BY <2>1, EarlierIs
  <2>4. PICK m, t : m = deals[n].prev /\ t = deals[n].time
    OBVIOUS
  <2>5. t = deals'[n].time
    BY <2>1, <2>4
  <2>6. Earlier(n) # {} =>
          /\ deals'[m] = deals[m]
          /\ Dead(SpendOf(m, A[m]), deals[n].time)' <=> Dead(SpendOf(m, A[m]), t)
    BY <1>1, <1>3, <2>3, <2>4, <2>5
  <2> QED BY <2>1, <2>2, <2>4, <2>6
<1> QED BY <1>1, <1>2, <1>4 DEF Ledger

LEMMA VouchedStays ==
  ASSUME IInv, Sorted, IInv', Sorted', Grown, NEW d \in Numbers, Vouched(d)
  PROVE  Vouched(d)'
<1>1. PICK A, g : Ledger(d, A, g) /\ \A e \in Earlier(d) : Settled(e, A[e])
  BY DEF Vouched
<1>2. Earlier(d)' = Earlier(d) /\ Ledger(d, A, g)'
  BY <1>1, LedgerStays
<1>3. ASSUME NEW e \in Thread(d)
      PROVE  OnTable(e)'
  <2>1. OnTable(e) /\ e \in Numbers
    BY EarlierIs DEF Vouched, Thread
  <2> QED BY <2>1 DEF OnTable, DealRef, Grown
<1>4. ASSUME NEW e \in Earlier(d)
      PROVE  Settled(e, A[e])'
  <2>1. PICK x : x = A[e]
    OBVIOUS
  <2>2. e \in Numbers /\ Settled(e, x)
    BY <1>1, <2>1, EarlierIs
  <2>3. CASE x = "accepted"
    BY <2>1, <2>3 DEF Settled
  <2>4. CASE x = "refused"
    <3>1. AnswerIn(TableView, e)' = "refused"
      BY <2>2, <2>4, AnswerStays DEF Settled
    <3> QED BY <2>1, <2>4, <3>1 DEF Settled
  <2>5. CASE x = "none"
    <3>1. AnswerIn(TableView, e)' = "none" /\ Lapse(e)' = "witnessed"
      BY <2>2, <2>5, LapseStays DEF Settled
    <3> QED BY <2>1, <2>5, <3>1 DEF Settled
  <2> QED BY <2>2, <2>3, <2>4, <2>5 DEF Settled
<1> QED BY <1>2, <1>3, <1>4 DEF Vouched, Thread

\* What the client checks before it accepts by itself.
LEMMA AcceptVouches ==
  ASSUME IInv, NEW c, NEW d \in Numbers, NEW clk, NEW posted,
         AcceptAuto(c, d, clk, posted), deals[d].src = 0
  PROVE  Vouched(d)
<1>1. Walk(d) = Earlier(d)
  BY WalkIsEarlier
<1>2. OnTable(d) /\ \A e \in Earlier(d) : OnTable(e)
  BY <1>1 DEF AcceptAuto, MayAnswer, Gap
<1>3. PICK a, D, V : /\ a = Worst(d)
                     /\ D = {DealRef(e) : e \in Walk(d) \cup {d}}
                     /\ V = [TableView EXCEPT !.blocks =
                               D \cup {} \cup {r \in table : purse[r[1]][r[2]].kind = "reply"}]
  OBVIOUS
<1>4. PICK R : R = RunsOn(V, a, FALSE)
  OBVIOUS
<1>5. d \in R[d].backed
  BY <1>3, <1>4 DEF AcceptAuto, LeansOnLapse, WalkBacked, Backed
<1>6. Judged(V, a, FALSE, R)
  BY <1>4, RunsAreJudged
<1>7. Shown(V, d)
  <2>1. D \subseteq V.blocks
    BY <1>3 DEF TableView
  <2>2. \A e \in Earlier(d) : DealRef(e) \in D
    BY <1>1, <1>3
  <2> QED BY <2>1, <2>2, HeldIsShown
<1>8. \E g : Ledger(d, a, g)
  BY <1>5, <1>6, <1>7, WalkLeavesLedger
<1>9. ASSUME NEW e \in Earlier(d)
      PROVE  Settled(e, a[e])
  <2>1. e \in Numbers /\ e \in Walk(d)
    BY <1>1, EarlierIs
  <2>2. Reads(TableView, e)
    BY <2>1, TableIsRead DEF TableReads
  <2>3. AnswerIn(TableView, e) \in {"none", "accepted", "refused"}
    BY <2>2 DEF Reads
  <2>4. a[e] = IF AnswerIn(TableView, e) = "none" /\ Lapse(e) # "witnessed"
               THEN "accepted" ELSE AnswerIn(TableView, e)
    BY <1>3, <2>1 DEF Worst
  <2> QED BY <2>3, <2>4 DEF Settled
<1> QED BY <1>2, <1>8, <1>9 DEF Vouched

\* Only the client's own acceptance adds to what it accepted by itself.
LEMMA AutoGrows ==
  ASSUME [Next]_vars, NEW d \in auto' \ auto
  PROVE  d \in Numbers /\ \E c \in Chains, clk \in Clocks, posted \in Post :
           AcceptAuto(c, d, clk, posted)
<1>1. CASE Pays \/ Uploads \/ Learns \/ Dates \/ Arrives \/ Tick \/ UNCHANGED vars
  <2>1. ASSUME NEW c, NEW src, NEW to, NEW units, NEW clk, NEW fetched, NEW posted,
               Offer(c, src, to, units, clk, fetched, posted)
        PROVE  auto' = auto
    BY <2>1 DEF Offer
  <2>2. Pays => auto' = auto
    BY <2>1 DEF Pays
  <2>3. Uploads \/ Learns => auto' = auto
    BY DEF Uploads, Learns, Upload, Refresh
  <2>4. Dates => auto' = auto
    BY DEF Dates, Note, Merge
  <2>5. Arrives => auto' = auto
    BY DEF Arrives, Gossip
  <2>6. Tick \/ UNCHANGED vars => auto' = auto
    BY DEF Tick, vars
  <2> QED BY <1>1, <2>2, <2>3, <2>4, <2>5, <2>6
<1>2. CASE Answers
  <2>1. PICK c \in Chains, e \in Numbers, clk \in Clocks, posted \in Post :
          \/ RefuseOutright(c, e, clk, posted)
          \/ AcceptAuto(c, e, clk, posted)
          \/ AcceptByHand(c, e, clk, posted)
          \/ Refuse(c, e, clk, posted)
    BY <1>2 DEF Answers
  <2>2. AcceptAuto(c, e, clk, posted)
    BY <2>1 DEF RefuseOutright, AcceptByHand, Refuse
  <2>3. auto' = auto \cup {e}
    BY <2>2 DEF AcceptAuto
  <2>4. d = e
    BY <2>3
  <2> QED BY <2>1, <2>2, <2>4
<1> QED BY <1>1, <1>2 DEF Next

AutoSafe == \A d \in auto : deals[d].src = 0 => Vouched(d)

LEMMA AutoSafeHolds ==
  ASSUME Lag = 0
  PROVE  Spec => []AutoSafe
<1>1. Init => AutoSafe
  BY DEF Init, AutoSafe
<1>2. ASSUME IInv, Sorted, Sorted', AutoSafe, [Next]_vars
      PROVE  AutoSafe'
  <2>1. IInv' /\ Grown
    BY <1>2, NextHolds, StepGrows
  <2>2. auto \subseteq Numbers
    BY <1>2 DEF IInv, TypeOK
  <2>3. ASSUME NEW d \in Numbers, Vouched(d)
        PROVE  Vouched(d)'
    BY <1>2, <2>1, <2>3, VouchedStays
  <2>4. ASSUME NEW d \in Numbers, d \in auto', deals'[d].src = 0
        PROVE  Vouched(d)
    <3>1. deals[d].src = 0
      BY <2>1, <2>4 DEF Grown
    <3>2. CASE d \in auto
      BY <1>2, <3>1, <3>2 DEF AutoSafe
    <3>3. CASE d \notin auto
      <4>1. \E c \in Chains, clk \in Clocks, posted \in Post : AcceptAuto(c, d, clk, posted)
        BY <1>2, <2>4, <3>3, AutoGrows
      <4> QED BY <1>2, <3>1, <4>1, AcceptVouches
    <3> QED BY <3>2, <3>3
  <2>5. auto' \subseteq Numbers
    BY <1>2, <2>2, AutoGrows
  <2> QED BY <2>3, <2>4, <2>5 DEF AutoSafe
<1> QED BY <1>1, <1>2, Invariance, SortedHolds, PTL DEF Spec

\* Paper of the first bill that a client accepted without asking its owner is
\* paper for good: the seller's check over the walk, doubted lapses taken at
\* their worst, covers whatever answers turn up later (exact clocks).
THEOREM AutoAcceptsStand ==
  ASSUME Lag = 0
  PROVE  Spec => []AutoAcceptStands
<1>1. IInv /\ AutoSafe => AutoAcceptStands
  <2> SUFFICES ASSUME IInv, AutoSafe, NEW d \in auto, deals[d].src = 0
               PROVE  Backed(TableRuns, d)
    BY DEF AutoAcceptStands
  <2>1. d \in Numbers /\ Vouched(d)
    BY DEF IInv, TypeOK, AutoSafe
  <2> QED BY <2>1, VouchedBacks
<1> QED BY <1>1, Invariance, AutoSafeHolds, PTL


-----------------------------------------------------------------------------
(* The book of the offers on the table.                                    *)

\* Every block is with the aggregator.
Complete == Blocks \subseteq table

\* No offer is dated ahead of true time.
Timed == \A d \in Numbers : deals[d].time <= now

LEMMA CompleteHolds ==
  ASSUME Losses = FALSE
  PROVE  Spec => []Complete
<1>1. Init => Complete
  BY DEF Init, Complete, Blocks, Own
<1>2. ASSUME IInv, Complete, [Next]_vars
      PROVE  Complete'
  <2>1. table \subseteq table' /\ Post = {TRUE}
    BY <1>2, StepGrows DEF Grown, Post
  <2>2. /\ now \in 0..MaxTime /\ Clocks \subseteq 0..MaxTime /\ now \in Clocks
        /\ \A d \in Numbers : d \in Nat
    BY <1>2, TypeFacts, OffersAssumption DEF IInv, Clocks
  <2>3. ASSUME NEW c \in Chains, NEW b \in BlockType, Write(c, b),
               <<c, Len(purse[c]) + 1>> \in table'
        PROVE  Complete'
    <3>1. Blocks' = Blocks \cup {<<c, Len(purse[c]) + 1>>}
      BY <1>2, <2>3, WriteWrites DEF IInv, Wrote
    <3> QED BY <1>2, <2>1, <2>3, <3>1 DEF Complete
  <2>4. ASSUME purse' = purse
        PROVE  Complete'
    <3>1. Blocks' = Blocks
      BY <2>4 DEF Blocks, Own
    <3> QED BY <1>2, <2>1, <3>1 DEF Complete
  <2>5. CASE Pays
    <3>1. PICK c \in Chains, clk \in Clocks :
            \E fetched \in Learnt(c, clk), to \in Chains \ {c}, src \in {0} \cup Numbers,
               units \in 1..Credit, posted \in Post :
              Offer(c, src, to, units, clk, fetched, posted)
      BY <2>5 DEF Pays
    <3>2. PICK fetched \in Learnt(c, clk), to \in Chains \ {c}, src \in {0} \cup Numbers,
               units \in 1..Credit, posted \in Post :
            Offer(c, src, to, units, clk, fetched, posted)
      BY <3>1
    <3>3. Wrote(c, Block("deal", Len(deals) + 1, "none", clk))
      BY <1>2, <3>1, <3>2, OfferWrite
    <3>4. Blocks' = Blocks \cup {<<c, Len(purse[c]) + 1>>}
      BY <3>3 DEF Wrote
    <3>5. <<c, Len(purse[c]) + 1>> \in table'
      BY <2>1, <3>2 DEF Offer
    <3> QED BY <1>2, <2>1, <3>4, <3>5 DEF Complete
  <2>6. CASE Answers
    <3>1. PICK c \in Chains, d \in Numbers, clk \in Clocks, posted \in Post :
            \E a \in {"accepted", "refused"} : Reply(c, d, a, clk, posted)
      BY <2>6 DEF Answers, RefuseOutright, AcceptAuto, AcceptByHand, Refuse
    <3>2. PICK a \in {"accepted", "refused"} : Reply(c, d, a, clk, posted)
      BY <3>1
    <3>3. Block("reply", d, a, clk) \in BlockType
      BY <2>2, <3>1, <3>2 DEF Block, BlockType
    <3>4. Write(c, Block("reply", d, a, clk)) /\ <<c, Len(purse[c]) + 1>> \in table'
      BY <2>1, <3>2 DEF Reply
    <3> QED BY <2>3, <3>3, <3>4
  <2>7. CASE Dates
    <3>1. PICK c \in Chains, posted \in Post :
            (\E clk \in Clocks : Note(c, clk, posted)) \/ Merge(c, posted)
      BY <2>7 DEF Dates
    <3>2. PICK kind \in {"note", "merge"}, clk \in Clocks :
            /\ Write(c, Block(kind, 0, "none", clk))
            /\ <<c, Len(purse[c]) + 1>> \in table'
      BY <2>1, <2>2, <3>1 DEF Note, Merge
    <3>3. Block(kind, 0, "none", clk) \in BlockType
      BY <2>2, <3>2 DEF Block, BlockType
    <3> QED BY <2>3, <3>2, <3>3
  <2>8. CASE Uploads \/ Learns \/ Arrives \/ Tick \/ UNCHANGED vars
    BY <2>4, <2>8 DEF Uploads, Upload, Learns, Refresh, Arrives, Gossip, Tick, vars
  <2> QED BY <1>2, <2>5, <2>6, <2>7, <2>8 DEF Next
<1> QED BY <1>1, <1>2, Invariance, PTL DEF Spec

LEMMA TimedHolds == Spec => []Timed
<1>1. Init => Timed
  <2> SUFFICES ASSUME Init PROVE Timed
    OBVIOUS
  <2>1. Numbers = {}
    BY DEF Init, Numbers
  <2> QED BY <2>1 DEF Timed
<1>2. ASSUME IInv, Timed, [Next]_vars
      PROVE  Timed'
  <2>1. /\ now \in Nat /\ Clocks \subseteq 0..now
        /\ \A d \in Numbers : deals[d].time \in Nat
    BY <1>2, TypeFacts DEF IInv, Clocks
  <2>2. CASE Pays
    <3>1. PICK c \in Chains, clk \in Clocks :
            \E fetched \in Learnt(c, clk), to \in Chains \ {c}, src \in {0} \cup Numbers,
               units \in 1..Credit, posted \in Post :
              Offer(c, src, to, units, clk, fetched, posted)
      BY <2>2 DEF Pays
    <3>2. PICK fetched \in Learnt(c, clk), to \in Chains \ {c}, src \in {0} \cup Numbers,
               units \in 1..Credit, posted \in Post :
            Offer(c, src, to, units, clk, fetched, posted)
      BY <3>1
    <3>3. /\ Numbers' = Numbers \cup {Len(deals) + 1}
          /\ \A d \in Numbers : deals'[d] = deals[d]
          /\ deals'[Len(deals) + 1].time = clk
      <4>1. /\ Numbers' = Numbers \cup {Len(deals) + 1}
            /\ \A d \in Numbers : deals'[d] = deals[d]
            /\ deals'[Len(deals) + 1] =
                 [from |-> c, index |-> Len(purse[c]) + 1, to |-> to, src |-> src,
                  units |-> units, time |-> clk, until |-> clk + Term,
                  prev |-> LastSpend(c, src)]
        BY <1>2, <3>1, <3>2, OfferWrite
      <4> QED BY <4>1
    <3>4. clk <= now /\ now' = now
      BY <2>1, <3>1, <3>2 DEF Offer
    <3> QED BY <1>2, <3>3, <3>4 DEF Timed
  <2>3. ASSUME deals' = deals, now <= now', now' \in Nat
        PROVE  Timed'
    <3>1. Numbers' = Numbers
      BY <2>3 DEF Numbers
    <3>2. \A d \in Numbers : deals[d].time <= now'
      BY <1>2, <2>1, <2>3 DEF Timed
    <3> QED BY <2>3, <3>1, <3>2 DEF Timed
  <2>4. CASE Answers
    BY <2>1, <2>3, <2>4 DEF Answers, RefuseOutright, AcceptAuto, AcceptByHand, Refuse, Reply
  <2>5. CASE Uploads \/ Learns \/ Dates \/ Arrives
    <3>1. deals' = deals /\ now' = now
      <4>1. CASE Uploads \/ Learns
        BY <4>1 DEF Uploads, Upload, Learns, Refresh
      <4>2. CASE Dates
        BY <4>2 DEF Dates, Note, Merge
      <4>3. CASE Arrives
        BY <4>3 DEF Arrives, Gossip
      <4> QED BY <2>5, <4>1, <4>2, <4>3
    <3> QED BY <2>1, <2>3, <3>1
  <2>6. CASE Tick \/ UNCHANGED vars
    BY <2>1, <2>3, <2>6 DEF Tick, vars
  <2> QED BY <1>2, <2>2, <2>4, <2>5, <2>6 DEF Next
<1> QED BY <1>1, <1>2, Invariance, PTL DEF Spec

\* What the book says of offer d.
StateOf(R, H, d) ==
  IF d \in H THEN "paid"
  ELSE IF DealStatus(deals[d].until, AnswerIn(TableView, d), now) # "pending" THEN "void"
  ELSE IF Backed(R, d) THEN "held" ELSE "short"

EntryOf(R, H, d) ==
  [from |-> deals[d].from, to |-> deals[d].to, src |-> deals[d].src,
   units |-> deals[d].units, state |-> StateOf(R, H, d)]

LEMMA BookIs ==
  ASSUME NEW R, R = TableRuns, NEW H, H = Happened
  PROVE  BookOnTable = [d \in Numbers |-> EntryOf(R, H, d)]
<1>1. BookOnTable = The({[d \in Numbers |-> EntryOf(r, h, d)] : r \in {R}, h \in {H}})
  BY DEF BookOnTable, EntryOf, StateOf
<1>2. {[d \in Numbers |-> EntryOf(r, h, d)] : r \in {R}, h \in {H}} =
      {[d \in Numbers |-> EntryOf(R, H, d)]}
  OBVIOUS
<1> QED BY <1>1, <1>2, TheOne


\* With an aggregator at hand, the hours held and paid in the book are hours of
\* offers that stand, and a bill's hours in it are those the aggregator credits.
LEMMA BookFits ==
  ASSUME IInv, Complete, Timed, book = BookOnTable
  PROVE  NeverOverpaid
<1>1. PICK R, H : R = TableRuns /\ H = Happened
  OBVIOUS
<1>2. book = [d \in Numbers |-> EntryOf(R, H, d)]
  BY <1>1, BookIs
<1>3. /\ DOMAIN book = Numbers
      /\ \A d \in Numbers : /\ book[d].from = deals[d].from /\ book[d].to = deals[d].to
                            /\ book[d].src = deals[d].src /\ book[d].units = deals[d].units
                            /\ book[d].state = StateOf(R, H, d)
  BY <1>2 DEF EntryOf
<1>4. /\ Len(deals) \in Nat /\ Numbers = 1..Len(deals) /\ now \in Nat
      /\ \A d \in Numbers : /\ deals[d].time \in Nat /\ deals[d].until \in Nat
                            /\ deals[d].units \in Nat /\ deals[d].src \in Nat
                            /\ deals[d].from \in Chains
      /\ Credit \in Nat
  BY TypeFacts, OffersAssumption DEF IInv
<1>5. \A d \in Numbers : OnTable(d)
  <2>1. \A d \in Numbers : DealRef(d) \in Blocks
    BY <1>4, BlocksAre DEF IInv, Placed, DealRef
  <2> QED BY <2>1 DEF Complete, OnTable
<1>6. H = {d \in Numbers : /\ AnswerIn(TableView, d) = "accepted" /\ Backed(R, d)}
  BY <1>1, <1>5, HappenedIs
<1>7. PICK K : K = {d \in Numbers : book[d].state \in {"held", "paid"}}
  OBVIOUS
<1>8. AllStand(K)
  <2>1. ASSUME NEW d \in K
        PROVE  Stands(d)
    <3>1. d \in Numbers /\ StateOf(R, H, d) \in {"held", "paid"}
      BY <1>3, <1>7
    <3>2. CASE d \in H
      <4>1. Alive(d)
        BY <1>6, <3>2 DEF Alive, Dead, SpendOf
      <4> QED BY <1>1, <1>5, <1>6, <3>1, <3>2, <4>1 DEF Stands
    <3>3. CASE d \notin H
      <4>1. Backed(R, d) /\ DealStatus(deals[d].until, AnswerIn(TableView, d), now) = "pending"
        BY <3>1, <3>3 DEF StateOf
      <4>2. /\ AnswerIn(TableView, d) = "none" => ~(now > deals[d].until)
            /\ AnswerIn(TableView, d) # "none" => AnswerIn(TableView, d) = "pending"
        BY <4>1 DEF DealStatus
      <4>3. ASSUME NEW e \in Numbers, AnswerIn(TableView, d) = "none"
            PROVE  ~(deals[e].time > deals[d].until)
        <5>1. deals[e].time <= now /\ ~(now > deals[d].until)
          BY <4>2, <4>3 DEF Timed
        <5> QED BY <1>4, <3>1, <5>1
      <4>4. Alive(d)
        BY <4>2, <4>3 DEF Alive, Dead, SpendOf
      <4> QED BY <1>1, <1>5, <3>1, <4>1, <4>4 DEF Stands
    <3> QED BY <3>2, <3>3
  <2> QED BY <1>7, <2>1 DEF AllStand
<1>9. ASSUME NEW c \in Chains, NEW src \in 0..MaxDeals
      PROVE  Covers(Escrow!Brought(c, src), c, src)
  <2>1. PICK top : top = Escrow!Brought(c, src)
    OBVIOUS
  <2>2. top = IF src = 0 THEN IF c = Holder THEN Credit ELSE 0
              ELSE IF src \in Numbers /\ deals[src].to = c /\ StateOf(R, H, src) = "paid"
                   THEN deals[src].units ELSE 0
    BY <1>3, <2>1 DEF Escrow!Brought, Escrow!Entries
  <2>3. top \in Nat
    BY <1>4, <2>2
  <2>4. ASSUME NEW d \in Numbers, deals[d].from = c, deals[d].src = src
        PROVE  CreditOf(d) <= top
    <3>1. CreditOf(d) = IF src = 0 THEN IF c = Holder THEN Credit ELSE 0
                        ELSE IF /\ deals[src].to = c /\ DealRef(src) \in table
                                /\ AnswersIn(TableView)[src] = "accepted"
                                /\ src \in R[src].backed
                             THEN deals[src].units ELSE 0
      BY <1>1, <2>4 DEF CreditOf, BillAt, TableView
    <3>2. CASE src = 0
      BY <1>4, <2>2, <3>1, <3>2
    <3>3. CASE src # 0
      <4>1. src \in Numbers
        BY <1>4, <2>4, <3>3 DEF IInv, Threaded
      <4>2. AnswersIn(TableView)[src] = AnswerIn(TableView, src)
        BY <4>1 DEF AnswersIn
      <4>3. src \in H => StateOf(R, H, src) = "paid"
        BY DEF StateOf
      <4>4. AnswerIn(TableView, src) = "accepted" /\ src \in R[src].backed => src \in H
        BY <1>6, <4>1 DEF Backed
      <4>5. deals[src].units \in Nat
        BY <1>4, <4>1
      <4>6. CASE deals[src].to = c /\ src \in H
        <5>1. top = deals[src].units
          BY <2>2, <3>3, <4>1, <4>3, <4>6
        <5>2. CreditOf(d) = deals[src].units \/ CreditOf(d) = 0
          BY <3>1, <3>3
        <5> QED BY <4>5, <5>1, <5>2
      <4>7. CASE ~(deals[src].to = c /\ src \in H)
        <5>1. CreditOf(d) = 0
          BY <3>1, <3>3, <4>2, <4>4, <4>7
        <5> QED BY <2>3, <5>1
      <4> QED BY <4>6, <4>7
    <3> QED BY <3>2, <3>3
  <2> QED BY <2>1, <2>3, <2>4 DEF Covers
<1>10. ASSUME NEW c \in Chains, NEW src \in 0..MaxDeals
       PROVE  Escrow!Fits(c, src)
  <2>1. PICK h : HourSums(h)
    BY HoursExist
  <2>2. h[Share(K, c, src)] <= Escrow!Brought(c, src)
    BY <1>8, <1>9, <2>1, HoursFit
  <2>3. Share(K, c, src) \in SUBSET Numbers
    BY <1>8 DEF AllStand, Share
  <2>4. Total(book, Share(K, c, src)) = h[Share(K, c, src)]
    BY <1>3, <2>1, <2>3, UnitsSum DEF HourSums
  <2>5. PICK T : T = {n \in Escrow!Entries : /\ book[n].from = c /\ book[n].src = src
                                             /\ book[n].state \in {"held", "paid"}}
    OBVIOUS
  <2>6. T = Share(K, c, src)
    BY <1>3, <1>7, <2>5 DEF Share, Escrow!Entries
  <2>7. Escrow!Taken(c, src) = Total(book, T)
    <3>1. Escrow!Taken(c, src) =
            Total(book, {n \in Escrow!Entries : /\ book[n].from = c /\ book[n].src = src
                                                /\ book[n].state \in {"held", "paid"}})
      BY DEF Escrow!Taken, Total, MapThenSumSet, MapThenFoldSet, Escrow!MapThenSumSet,
             Escrow!MapThenFoldSet
    <3> QED BY <2>5, <3>1
  <2> QED BY <2>2, <2>4, <2>6, <2>7 DEF Escrow!Fits
<1> QED BY <1>10 DEF NeverOverpaid, Escrow!NeverOverpaid


\* NeverOverpaid, said of a book.
Within(b) ==
  \A c \in Chains, src \in 0..MaxDeals :
    Total(b, {n \in DOMAIN b : /\ b[n].from = c /\ b[n].src = src
                               /\ b[n].state \in {"held", "paid"}})
      <= IF src = 0 THEN IF c = Holder THEN Credit ELSE 0
         ELSE IF src \in DOMAIN b /\ b[src].to = c /\ b[src].state = "paid"
              THEN b[src].units ELSE 0

LEMMA BookWithin == NeverOverpaid <=> Within(book)
<1>1. ASSUME NEW c, NEW src
      PROVE  Escrow!Taken(c, src) =
               Total(book, {n \in DOMAIN book : /\ book[n].from = c /\ book[n].src = src
                                                /\ book[n].state \in {"held", "paid"}})
  BY DEF Escrow!Taken, Total, MapThenSumSet, MapThenFoldSet, Escrow!MapThenSumSet,
         Escrow!MapThenFoldSet, Escrow!Entries
<1> QED BY <1>1 DEF NeverOverpaid, Escrow!NeverOverpaid, Escrow!Fits, Escrow!Brought,
                    Escrow!Entries, Within

LEMMA BookIsOffers == BookSpec => Spec
<1>1. BookInit => Init
  BY DEF BookInit
<1>2. [BookNext]_<<vars, book>> => [Next]_vars
  BY DEF BookNext
<1> QED BY <1>1, <1>2, PTL DEF BookSpec, Spec

\* With an aggregator at hand (requests do not fail), whatever the clocks show, a
\* bill never holds or pays more hours than came in it: the hours of an offer
\* refused or past its term go to another, never to two.
THEOREM NothingIsOverpaid ==
  ASSUME Losses = FALSE
  PROVE  BookSpec => []NeverOverpaid
<1>1. ASSUME BookInit
      PROVE  NeverOverpaid
  <2>1. IInv /\ Numbers = {} /\ table = {} /\ book = <<>> /\ \A c \in Chains : purse[c] = <<>>
    BY <1>1, InitHolds DEF BookInit, Init, Numbers
  <2>2. PICK R, H : R = TableRuns /\ H = Happened
    OBVIOUS
  <2>3. book = [d \in Numbers |-> EntryOf(R, H, d)]
    BY <2>1
  <2>4. book = BookOnTable
    BY <2>2, <2>3, BookIs
  <2>5. Complete /\ Timed
    BY <2>1 DEF Complete, Timed, Blocks, Own
  <2> QED BY <2>1, <2>4, <2>5, BookFits
<1>2. IInv' /\ Complete' /\ Timed' /\ BookNext => NeverOverpaid'
  <2>1. (IInv /\ Complete /\ Timed /\ book = BookOnTable => NeverOverpaid)'
    BY BookFits, PTL
  <2> QED BY <2>1 DEF BookNext
<1>3. NeverOverpaid /\ UNCHANGED <<vars, book>> => NeverOverpaid'
  <2>1. (NeverOverpaid <=> Within(book))'
    BY BookWithin, PTL
  <2>2. book' = book /\ Within(book) => Within(book)'
    OBVIOUS
  <2> QED BY <2>1, <2>2, BookWithin
<1> QED BY <1>1, <1>2, <1>3, BookIsOffers, Invariance, CompleteHolds, TimedHolds, PTL DEF BookSpec


-----------------------------------------------------------------------------
(* The rule of a bill, in one line per offer, when every block is there and *)
(* no clock runs back.                                                     *)

\* Offers whose bill came before them: their payer accepted it first.
Came ==
  {n \in Numbers : deals[n].src # 0 =>
     \E i : /\ IsReply(deals[n].from, i, deals[n].src)
            /\ purse[deals[n].from][i].answer = "accepted"
            /\ i < deals[n].index}

\* By the answers a: what is taken from the bill of n before n, and whether n is
\* backed.
RuleOf(R, a, came, n) ==
  \A m \in {deals[n].prev} :
    /\ R[n].consumed \in Nat
    /\ Earlier(n) = {} => R[n].consumed = 0
    /\ Earlier(n) # {} =>
         R[n].consumed = R[m].consumed
           + IF m \in R[m].backed /\ ~Dead(SpendOf(m, a[m]), deals[n].time)
             THEN deals[m].units ELSE 0
    /\ n \in R[n].backed <=>
         /\ Earlier(n) # {} => m \in R[m].backed
         /\ n \in came
         /\ deals[n].src # 0 => deals[n].src \in R[deals[n].src].backed
         /\ deals[n].units + R[n].consumed <= Credited(deals[n].src)

Rule(R, a, came) == \A n \in Numbers : RuleOf(R, a, came, n)

\* With every block there and no date in the way the reply of the seller is his
\* answer.
LEMMA AnswerKnown ==
  ASSUME IInv, Complete, Prompt, NEW d \in Numbers, NEW c, c = deals[d].to
  PROVE  /\ \A i : IsReply(c, i, d) =>
              /\ AnswerIn(TableView, d) = purse[c][i].answer
              /\ AnswerIn(TableView, d) \in {"accepted", "refused"}
              /\ CountedIn(TableView, d) = {ReplyAt(TableView, <<c, i>>)}
         /\ (\A i : ~IsReply(c, i, d)) =>
              AnswerIn(TableView, d) = "none" /\ CountedIn(TableView, d) = {}
<1>1. Reads(TableView, d) /\ c \in Chains
  BY TableIsRead, TypeFacts DEF TableReads, IInv
<1>2. \A i : IsReply(c, i, d) <=> Heard(TableView, d, i)
  <2>1. \A i : IsReply(c, i, d) => <<c, i>> \in table
    BY <1>1, BlocksAre DEF Complete, IsReply
  <2> QED BY <2>1 DEF Heard, TableView
<1>3. \A i : Heard(TableView, d, i) => Timely(TableView, d, i)
  BY DEF Prompt
<1> QED BY <1>1, <1>2, <1>3 DEF Reads

LEMMA RuleHolds ==
  ASSUME IInv, Complete, Prompt, NEW R, R = TableRuns, NEW a, a = AnswersIn(TableView)
  PROVE  Rule(R, a, Came)
<1>1. PICK V : V = TableView
  OBVIOUS
<1>2. Judged(V, a, TRUE, R) /\ V.blocks = table
  BY <1>1, RunsAreJudged DEF TableRuns, TableView
<1>3. \A d \in Numbers : OnTable(d) /\ a[d] = AnswerIn(TableView, d)
  <2>1. \A d \in Numbers : DealRef(d) \in Blocks
    BY TypeFacts, BlocksAre DEF IInv, Placed, DealRef
  <2> QED BY <2>1 DEF Complete, OnTable, AnswersIn
<1>4. ASSUME NEW n \in Numbers
      PROVE  RuleOf(R, a, Came, n)
  <2>1. PICK b, q, m, E : /\ b = BillAt(V, a, TRUE, R, n) /\ q = RunAt(V, a, R, n)
                          /\ m = deals[n].prev /\ E = Earlier(n)
    OBVIOUS
  <2>2. Ruled(R, n, b, q)
    BY <1>2, <2>1, BackedFits
  <2>3. /\ Before(V, n) = E
        /\ E # {} => m = Max(E) /\ m \in Numbers
        /\ E = {} => m = NoRef
    <3>1. Shown(V, n)
      BY <1>2, <1>3, EarlierIs, HeldIsShown DEF OnTable
    <3>2. Before(V, n) = E
      BY <2>1, <3>1 DEF Shown, Thread
    <3> QED BY <2>1, <3>2, EarlierIs
  <2>4. Taken(V, a, R, n, q)
    BY <1>2, <2>1, VerdictTakes
  <2>5. /\ E = {} => R[n].consumed = 0 /\ ~q.broken /\ m = q.last
        /\ E # {} =>
             /\ R[n].consumed = R[m].consumed
                  + IF m \in R[m].backed /\ ~Dead(SpendOf(m, a[m]), deals[n].time)
                    THEN deals[m].units ELSE 0
             /\ m \in R[m].backed <=> ~q.broken /\ m = q.last
    <3>1. CASE E = {}
      <4>1. q = NewRun
        BY <2>3, <2>4, <3>1 DEF Taken
      <4>2. q.consumed = 0 /\ q.broken = FALSE /\ q.last = NoRef
        BY <4>1 DEF NewRun
      <4> QED BY <2>2, <2>3, <3>1, <4>2 DEF Ruled
    <3>2. CASE E # {}
      <4>1. /\ q.backed = R[m].backed /\ q.last = R[m].last /\ q.broken = R[m].broken
            /\ q.consumed = R[m].consumed
                 + IF m \in R[m].backed /\ ~Dead(SpendOf(m, a[m]), deals[n].time)
                   THEN deals[m].units ELSE 0
        BY <2>3, <2>4, <3>2 DEF Taken
      <4>2. PICK d, s : d = BillAt(V, a, TRUE, R, m) /\ s = RunAt(V, a, R, m)
        OBVIOUS
      <4>3. Ruled(R, m, d, s)
        BY <1>2, <2>3, <3>2, <4>2, BackedFits
      <4>4. m \in R[m].backed <=> ~R[m].broken
        BY <4>3 DEF Ruled
      <4>5. m \in R[m].backed => R[m].last = m
        BY <4>3 DEF Ruled
      <4> QED BY <2>2, <3>2, <4>1, <4>4, <4>5 DEF Ruled
    <3> QED BY <3>1, <3>2
  <2>6. PICK u, src, k : u = deals[n].units /\ src = deals[n].src /\ k = deals[n].index
    OBVIOUS
  <2>7. /\ u \in Nat /\ u >= 1 /\ k \in Nat /\ k >= 1 /\ R[n].consumed \in Nat
        /\ src # 0 => src \in Numbers /\ deals[src].to = deals[n].from
                      /\ deals[src].units \in Nat
    <3>1. u \in 1..Credit /\ Credit \in Nat /\ R[n].consumed \in Nat
      BY <2>2, <2>6, TypeFacts, OffersAssumption DEF IInv, Ruled
    <3>2. k \in 1..Len(purse[deals[n].from]) /\ Len(purse[deals[n].from]) \in Nat
      BY <2>6, TypeFacts DEF IInv, Placed
    <3>3. src # 0 => src \in Numbers /\ deals[src].to = deals[n].from
                     /\ deals[src].units \in Nat
      BY <2>6, TypeFacts DEF IInv, Threaded
    <3> QED BY <3>1, <3>2, <3>3
  <2>8. ~(k <= b.arrived) /\ u + R[n].consumed <= b.credited
        <=> /\ n \in Came
            /\ src # 0 => src \in R[src].backed
            /\ u + R[n].consumed <= Credited(src)
    <3>1. CASE src = 0
      <4>1. deals[n].from = Holder
        BY <2>6, <3>1 DEF IInv, Threaded
      <4>2. b.arrived = 0 /\ b.credited = Credit
        BY <2>1, <2>6, <3>1, <4>1 DEF BillAt, Arrival
      <4>3. n \in Came /\ Credited(src) = Credit
        BY <2>6, <3>1 DEF Came, Credited
      <4> QED BY <2>7, <3>1, <4>2, <4>3
    <3>2. CASE src # 0
      <4>1. PICK c : c = deals[n].from /\ c = deals[src].to /\ src \in Numbers /\ c \in Chains
        BY <2>7, <3>2, TypeFacts DEF IInv
      <4>2. b.credited = IF AnswerIn(V, src) = "accepted" /\ src \in R[src].backed
                         THEN deals[src].units ELSE 0
        BY <1>1, <1>2, <1>3, <2>1, <2>6, <3>2, <4>1 DEF BillAt, OnTable
      <4>3. b.arrived = IF CountedIn(V, src) = {} THEN 0
                        ELSE (CHOOSE r \in CountedIn(V, src) : TRUE).index
        BY <2>1, <2>6, <3>2 DEF BillAt, Arrival
      <4>4. n \in Came <=> \E i : IsReply(c, i, src) /\ purse[c][i].answer = "accepted" /\ i < k
        BY <2>6, <3>2, <4>1 DEF Came
      <4>5. Credited(src) = deals[src].units
        BY <3>2 DEF Credited
      <4>6. CASE \A i : ~IsReply(c, i, src)
        <5>1. AnswerIn(V, src) = "none"
          BY <1>1, <4>1, <4>6, AnswerKnown
        <5>2. b.credited = 0
          BY <4>2, <5>1
        <5> QED BY <2>7, <4>4, <4>6, <5>2
      <4>7. CASE \E i : IsReply(c, i, src)
        <5>1. PICK i : IsReply(c, i, src)
          BY <4>7
        <5>2. /\ AnswerIn(V, src) = purse[c][i].answer
              /\ CountedIn(V, src) = {ReplyAt(V, <<c, i>>)}
          BY <1>1, <4>1, <5>1, AnswerKnown
        <5>3. ReplyAt(V, <<c, i>>).index = i
          BY DEF ReplyAt
        <5>4. b.arrived = i
          BY <4>3, <5>2, <5>3
        <5>5. i \in 1..Len(purse[c]) /\ src \in {purse[c][i].deal}
          BY <5>1 DEF IsReply
        <5>6. i \in Nat /\ \A j : IsReply(c, j, src) => j = i
          <6>1. \A j : IsReply(c, j, src) => j \in 1..Len(purse[c])
            BY DEF IsReply
          <6>2. \A j \in 1..Len(purse[c]) : IsReply(c, j, src) => j = i
            BY <4>1, <5>1, <5>5 DEF IInv, Replied
          <6> QED BY <5>5, <6>1, <6>2
        <5>7. n \in Came <=> AnswerIn(V, src) = "accepted" /\ i < k
          BY <4>4, <5>1, <5>2, <5>6
        <5> QED BY <2>7, <3>2, <4>2, <4>5, <5>4, <5>6, <5>7
      <4> QED BY <4>6, <4>7
    <3> QED BY <3>1, <3>2
  <2>9. n \in R[n].backed <=> ~q.broken /\ ~(k <= b.arrived) /\ m = q.last
                              /\ u + R[n].consumed <= b.credited
    BY <2>1, <2>2, <2>6 DEF Ruled
  <2> QED BY <2>1, <2>3, <2>5, <2>6, <2>7, <2>8, <2>9 DEF RuleOf
<1> QED BY <1>4 DEF Rule


\* No spend dead by the answers a is alive by the answers b.
DeadStays(a, b) ==
  \A n, m \in Numbers :
    Dead(SpendOf(m, a[m]), deals[n].time) => Dead(SpendOf(m, b[m]), deals[n].time)

\* What R backs Q backs, with no more taken before it.
Follows(R, Q, n) ==
  n \in R[n].backed => n \in Q[n].backed /\ Q[n].consumed <= R[n].consumed

\* More bills come in and more hours free: what is backed stays backed.
LEMMA RulesFollow ==
  ASSUME IInv, NEW R, NEW a, NEW came, Rule(R, a, came),
         NEW Q, NEW b, NEW kame, Rule(Q, b, kame), came \cap Numbers \subseteq kame,
         DeadStays(a, b)
  PROVE  \A n \in Numbers : Follows(R, Q, n)
<1>1. PICK N \in Nat : N = Len(deals) /\ Numbers = 1..N
  BY TypeFacts DEF IInv
<1> DEFINE In == {k \in 0..N : \A n \in 1..k : Follows(R, Q, n)}
<1>2. 0 \in In
  BY <1>1
<1>3. ASSUME NEW k \in 0..N - 1, k \in In
      PROVE  k + 1 \in In
  <2>1. PICK n : n = k + 1
    OBVIOUS
  <2>2. n \in Numbers /\ n \in Nat /\ n \in 0..N /\ n - 1 = k /\ 1..n = 1..k \cup {n}
    BY <1>1, <1>3, <2>1
  <2>3. PICK m, src, u : m = deals[n].prev /\ src = deals[n].src /\ u = deals[n].units
    OBVIOUS
  <2>4. RuleOf(R, a, came, n) /\ RuleOf(Q, b, kame, n)
    BY <2>2 DEF Rule
  <2>5. ASSUME n \in R[n].backed
        PROVE  n \in Q[n].backed /\ Q[n].consumed <= R[n].consumed
    <3>1. /\ u \in Nat /\ Credited(src) \in Nat
          /\ src # 0 => src \in 1..k
      <4>1. src \in 0..n - 1 /\ Credit \in Nat /\ \A d \in Numbers : deals[d].units \in Nat
        BY <2>2, <2>3, TypeFacts, OffersAssumption DEF IInv, Threaded
      <4>2. src # 0 => src \in 1..k /\ src \in Numbers
        BY <1>1, <2>2, <4>1
      <4> QED BY <2>2, <2>3, <4>1, <4>2 DEF Credited
    <3>2. /\ R[n].consumed \in Nat /\ Q[n].consumed \in Nat
          /\ n \in came
          /\ u + R[n].consumed <= Credited(src)
          /\ src # 0 => src \in R[src].backed
      BY <2>3, <2>4, <2>5 DEF RuleOf
    <3>3. src # 0 => src \in Q[src].backed
      <4>1. src # 0 => Follows(R, Q, src)
        BY <1>3, <3>1
      <4> QED BY <3>2, <4>1 DEF Follows
    <3>4. /\ Q[n].consumed <= R[n].consumed
          /\ Earlier(n) # {} => m \in Q[m].backed
      <4>1. CASE Earlier(n) = {}
        <5>1. Q[n].consumed = 0 /\ R[n].consumed = 0
          BY <2>4, <4>1 DEF RuleOf
        <5> QED BY <4>1, <5>1
      <4>2. CASE Earlier(n) # {}
        <5>1. m \in 1..k /\ m \in Numbers
          BY <2>2, <2>3, <4>2, EarlierIs
        <5>2. m \in R[m].backed
          BY <2>3, <2>4, <2>5, <4>2 DEF RuleOf
        <5>3. m \in Q[m].backed /\ Q[m].consumed <= R[m].consumed
          BY <1>3, <5>1, <5>2 DEF Follows
        <5>4. PICK x, y : /\ x <=> Dead(SpendOf(m, a[m]), deals[n].time)
                          /\ y <=> Dead(SpendOf(m, b[m]), deals[n].time)
          OBVIOUS
        <5>5. x => y
          BY <2>2, <5>1, <5>4 DEF DeadStays
        <5>6. /\ R[n].consumed = R[m].consumed + IF ~x THEN deals[m].units ELSE 0
              /\ Q[n].consumed = Q[m].consumed + IF ~y THEN deals[m].units ELSE 0
          BY <2>3, <2>4, <4>2, <5>2, <5>3, <5>4 DEF RuleOf
        <5>7. R[m].consumed \in Nat /\ Q[m].consumed \in Nat /\ deals[m].units \in Nat
          <6>1. RuleOf(R, a, came, m) /\ RuleOf(Q, b, kame, m)
            BY <5>1 DEF Rule
          <6> QED BY <5>1, <6>1, TypeFacts DEF RuleOf, IInv
        <5> QED BY <5>3, <5>5, <5>6, <5>7
      <4> QED BY <4>1, <4>2
    <3>5. u + Q[n].consumed <= Credited(src)
      BY <3>1, <3>2, <3>4
    <3>6. n \in kame
      BY <2>2, <3>2
    <3> QED BY <2>3, <2>4, <3>3, <3>4, <3>5, <3>6 DEF RuleOf
  <2>6. Follows(R, Q, n)
    BY <2>5 DEF Follows
  <2> QED BY <1>3, <2>1, <2>2, <2>6
<1>4. \A k \in 0..N : k \in In
  <2> HIDE DEF In
  <2>1. \A k \in 0..N - 1 : k \in In => k + 1 \in In
    BY <1>3
  <2> QED BY <1>1, <1>2, <2>1, UpTo
<1> QED BY <1>1, <1>4


\* What is signed keeps its rule, whatever is written later.
LEMMA RuleBack ==
  ASSUME IInv, Grown, NEW R, NEW a, NEW came, Rule(R, a, came)'
  PROVE  Rule(R, a, came)
<1>1. ASSUME NEW n \in Numbers
      PROVE  RuleOf(R, a, came, n)
  <2>1. RuleOf(R, a, came, n)'
    BY DEF Rule, Grown
  <2>2. deals'[n] = deals[n] /\ Earlier(n)' = Earlier(n)
    <3>1. \A e \in 1..n - 1 : e \in Numbers
      BY TypeFacts DEF IInv
    <3> QED BY <3>1 DEF Grown, Earlier
  <2>3. PICK m, src, t : m = deals[n].prev /\ src = deals[n].src /\ t = deals[n].time
    OBVIOUS
  <2>4. Credited(src)' = Credited(src)
    <3>1. src # 0 => src \in Numbers
      BY <2>3, TypeFacts DEF IInv, Threaded
    <3> QED BY <3>1 DEF Grown, Credited
  <2>5. Earlier(n) # {} =>
          /\ deals'[m] = deals[m]
          /\ Dead(SpendOf(m, a[m]), t)' <=> Dead(SpendOf(m, a[m]), t)
    <3>1. Earlier(n) # {} => m \in Numbers
      BY <2>3, EarlierIs
    <3> QED BY <3>1 DEF Grown, Dead, SpendOf
  <2> QED BY <2>1, <2>2, <2>3, <2>4, <2>5 DEF RuleOf
<1> QED BY <1>1 DEF Rule

\* No reply is written.
Silent == \A c \in Chains : \A i, d : IsReply(c, i, d)' <=> IsReply(c, i, d)

LEMMA StepReplies ==
  ASSUME IInv, [Next]_vars
  PROVE  Silent \/ Answers
<1>1. ASSUME NEW c \in Chains, NEW b \in BlockType, b.kind # "reply", Write(c, b)
      PROVE  Silent
  <2>1. Wrote(c, b)
    BY <1>1, WriteWrites DEF IInv
  <2>2. \A k \in Chains : Len(purse[k]) \in Nat
    BY TypeFacts DEF IInv
  <2> QED BY <1>1, <2>1, <2>2 DEF Silent, Wrote, IsReply
<1>2. /\ Clocks \subseteq 0..MaxTime /\ now \in Clocks /\ Len(deals) + 1 \in Nat
  BY TypeFacts, OffersAssumption DEF IInv, Clocks
<1>3. ASSUME NEW c \in Chains, NEW kind \in {"deal", "note", "merge"}, NEW d \in Nat,
             NEW clk \in Clocks, Write(c, Block(kind, d, "none", clk))
      PROVE  Silent
  <2>1. PICK b : b = Block(kind, d, "none", clk)
    OBVIOUS
  <2>2. b \in BlockType /\ b.kind # "reply"
    BY <1>2, <2>1 DEF Block, BlockType
  <2> QED BY <1>1, <1>3, <2>1, <2>2
<1>4. CASE Pays
  BY <1>2, <1>3, <1>4 DEF Pays, Offer
<1>5. CASE Dates
  BY <1>2, <1>3, <1>5 DEF Dates, Note, Merge
<1>6. CASE Uploads \/ Learns \/ Arrives \/ Tick \/ UNCHANGED vars
  <2>1. purse' = purse
    BY <1>6 DEF Uploads, Upload, Learns, Refresh, Arrives, Gossip, Tick, vars
  <2> QED BY <2>1 DEF Silent, IsReply
<1> QED BY <1>4, <1>5, <1>6 DEF Next

\* The seller's reply is his answer.
ReplyCounts ==
  \A d \in Numbers : \A c \in {deals[d].to} :
    /\ \A i : IsReply(c, i, d) => AnswerIn(TableView, d) = purse[c][i].answer
    /\ (\A i : ~IsReply(c, i, d)) => AnswerIn(TableView, d) = "none"

LEMMA RepliesCount == IInv /\ Complete /\ Prompt => ReplyCounts
BY AnswerKnown DEF ReplyCounts

\* Without a reply every answer is what it was.
LEMMA SilentKeeps ==
  ASSUME IInv, ReplyCounts, ReplyCounts', Grown, Silent, NEW d \in Numbers
  PROVE  AnswerIn(TableView, d)' = AnswerIn(TableView, d)
<1>1. PICK c : c \in Chains /\ c = deals[d].to /\ c = deals'[d].to /\ d \in Numbers'
  BY TypeFacts DEF IInv, Grown
<1>2. /\ \A i : IsReply(c, i, d) => AnswerIn(TableView, d) = purse[c][i].answer
      /\ (\A i : ~IsReply(c, i, d)) => AnswerIn(TableView, d) = "none"
  BY <1>1 DEF ReplyCounts
<1>3. /\ \A i : IsReply(c, i, d)' => AnswerIn(TableView, d)' = purse'[c][i].answer
      /\ (\A i : ~IsReply(c, i, d)') => AnswerIn(TableView, d)' = "none"
  BY <1>1 DEF ReplyCounts
<1>4. \A i : IsReply(c, i, d) => purse'[c][i] = purse[c][i]
  BY <1>1 DEF Grown, IsReply
<1>5. \A i : IsReply(c, i, d)' <=> IsReply(c, i, d)
  BY <1>1 DEF Silent
<1> QED BY <1>2, <1>3, <1>4, <1>5

\* An offer the seller may accept is backed.
LEMMA AcceptedIsBacked ==
  ASSUME IInv, NEW d \in Numbers, NEW clk, ~NotPaper(d, clk), ~Gap(d, clk)
  PROVE  Backed(TableRuns, d)
<1> SUFFICES ASSUME ~Backed(TableRuns, d) PROVE FALSE
  OBVIOUS
<1>1. deals[d].src # 0 /\ ~Effective(deals[d].src)
  BY DEF NotPaper
<1>2. PICK s \in Numbers : s = deals[d].src
  BY <1>1, TypeFacts DEF IInv, Threaded
<1>3. OnTable(s) /\ SourceStanding(d, clk) = Standing(s, clk) /\ Standing(s, clk) # "pending"
  BY <1>1, <1>2 DEF Gap, SourceStanding
<1>4. Standing(s, clk) = "recognized"
  BY <1>1, <1>2, <1>3 DEF NotPaper
<1>5. AnswerIn(TableView, s) \in {"none", "accepted", "refused"}
  BY TableIsRead DEF TableReads, Reads
<1> QED BY <1>1, <1>2, <1>4, <1>5 DEF Standing, DealStatus

\* With exact clocks an answer comes once and in time, and paper is accepted only
\* when it is backed.
Answering(d) ==
  /\ AnswerIn(TableView, d) = "none" /\ AnswerIn(TableView, d)' \in {"accepted", "refused"}
  /\ now <= deals[d].until /\ now' = now
  /\ AnswerIn(TableView, d)' = "accepted" => Backed(TableRuns, d)

LEMMA AnswerMoves ==
  ASSUME Lag = 0, IInv, ReplyCounts, ReplyCounts', Grown, [Next]_vars, NEW d \in Numbers
  PROVE  AnswerIn(TableView, d)' = AnswerIn(TableView, d) \/ Answering(d)
<1>1. CASE Silent
  BY <1>1, SilentKeeps
<1>2. CASE Answers
  <2>1. PICK c \in Chains, e \in Numbers, clk \in Clocks, posted \in Post :
          \E a \in {"accepted", "refused"} :
            /\ Reply(c, e, a, clk, posted) /\ MayAnswer(c, e, clk)
            /\ a = "accepted" => ~NotPaper(e, clk) /\ ~Gap(e, clk)
    BY <1>2 DEF Answers, RefuseOutright, AcceptAuto, AcceptByHand, Refuse
  <2>2. PICK a \in {"accepted", "refused"} :
            /\ Reply(c, e, a, clk, posted) /\ MayAnswer(c, e, clk)
            /\ a = "accepted" => ~NotPaper(e, clk) /\ ~Gap(e, clk)
    BY <2>1
  <2>3. clk = now /\ now \in Nat
    <3>1. now \in Nat /\ clk \in 0..now /\ now - clk <= 0
      BY TypeFacts DEF IInv, Clocks
    <3> QED BY <3>1
  <2>4. /\ deals[e].to = c /\ now <= deals[e].until /\ now' = now /\ deals' = deals
        /\ \A i : ~IsReply(c, i, e)
    BY <2>2, <2>3 DEF MayAnswer, Reply, Answered, IsReply
  <2>5. PICK b : b = Block("reply", e, a, clk)
    OBVIOUS
  <2>6. b \in BlockType /\ b.kind = "reply" /\ b.deal = e /\ b.answer = a
    <3>1. clk \in 0..MaxTime /\ e \in Nat
      BY <2>3, TypeFacts DEF IInv
    <3> QED BY <2>5, <3>1 DEF Block, BlockType
  <2>7. Wrote(c, b)
    BY <2>2, <2>5, <2>6, WriteWrites DEF Reply, IInv
  <2>8. CASE d = e
    <3>1. PICK i : i = Len(purse[c]) + 1
      OBVIOUS
    <3>2. i \in 1..Len(purse'[c]) /\ purse'[c][i] = b
      BY <2>7, <3>1, TypeFacts DEF IInv, Wrote
    <3>3. IsReply(c, i, d)'
      BY <2>6, <2>8, <3>2 DEF IsReply
    <3>4. d \in Numbers' /\ c \in {deals'[d].to}
      BY <2>4, <2>8 DEF Grown
    <3>5. AnswerIn(TableView, d)' = a
      BY <2>6, <3>2, <3>3, <3>4 DEF ReplyCounts
    <3>6. AnswerIn(TableView, d) = "none"
      BY <2>4, <2>8 DEF ReplyCounts
    <3>7. a = "accepted" => Backed(TableRuns, d)
      BY <2>2, <2>8, AcceptedIsBacked
    <3> QED BY <2>2, <2>4, <2>8, <3>5, <3>6, <3>7 DEF Answering
  <2>9. CASE d # e
    <3>1. PICK k : k \in Chains /\ k = deals[d].to /\ k = deals'[d].to /\ d \in Numbers'
      BY TypeFacts DEF IInv, Grown
    <3>2. \A i : IsReply(k, i, d)' <=> IsReply(k, i, d)
      <4>1. \A i : IsReply(k, i, d) => IsReply(k, i, d)'
        BY <3>1 DEF Grown, IsReply
      <4>2. \A i : IsReply(k, i, d)' => IsReply(k, i, d)
        BY <2>6, <2>7, <2>9, <3>1 DEF Wrote, IsReply
      <4> QED BY <4>1, <4>2
    <3>3. \A i : IsReply(k, i, d) => purse'[k][i] = purse[k][i]
      BY <3>1 DEF Grown, IsReply
    <3>4. AnswerIn(TableView, d)' = AnswerIn(TableView, d)
      <4>1. CASE \E i : IsReply(k, i, d)
        <5>1. PICK i : IsReply(k, i, d)
          BY <4>1
        <5>2. AnswerIn(TableView, d) = purse[k][i].answer
          BY <3>1, <5>1 DEF ReplyCounts
        <5>3. AnswerIn(TableView, d)' = purse'[k][i].answer
          BY <3>1, <3>2, <5>1 DEF ReplyCounts
        <5> QED BY <3>3, <5>1, <5>2, <5>3
      <4>2. CASE \A i : ~IsReply(k, i, d)
        BY <3>1, <3>2, <4>2 DEF ReplyCounts
      <4> QED BY <4>1, <4>2
    <3> QED BY <3>4
  <2> QED BY <2>8, <2>9
<1> QED BY <1>1, <1>2, StepReplies


Ruling ==
  \E R, a, came : R = TableRuns /\ a = AnswersIn(TableView) /\ came = Came /\ Rule(R, a, came)

LEMMA RulingHolds == IInv /\ Complete /\ Prompt => Ruling
BY RuleHolds DEF Ruling

\* The runs of the table after a step, by the rule of the offers before it.
LEMMA RulesOfStep ==
  ASSUME IInv, Grown, Ruling, Ruling', ReplyCounts,
         \A d \in Numbers : AnswerIn(TableView, d)' = AnswerIn(TableView, d) \/ Answering(d),
         NEW R, R = TableRuns, NEW Q, Q = TableRuns',
         NEW a, a = AnswersIn(TableView), NEW b, b = AnswersIn(TableView)'
  PROVE  /\ Rule(R, a, Came) /\ \E kame : kame = Came' /\ Rule(Q, b, kame)
         /\ Came \subseteq Numbers /\ Came \subseteq Came'
         /\ \A d \in Numbers : a[d] = AnswerIn(TableView, d) /\ b[d] = AnswerIn(TableView, d)'
<1>1. Rule(R, a, Came)
  BY DEF Ruling
<1>2. PICK kame : kame = Came' /\ Rule(Q, b, kame)'
  BY DEF Ruling
<1>3. Rule(Q, b, kame)
  BY <1>2, RuleBack
<1>4. ASSUME NEW n \in Came
      PROVE  n \in Came'
  <2>1. n \in Numbers /\ n \in Numbers' /\ deals'[n] = deals[n]
    BY DEF Came, Grown
  <2>2. PICK c, s : c = deals[n].from /\ s = deals[n].src
    OBVIOUS
  <2>3. CASE s # 0
    <3>1. PICK i : /\ IsReply(c, i, s) /\ purse[c][i].answer = "accepted"
                   /\ i < deals[n].index
      BY <2>2, <2>3 DEF Came
    <3>2. IsReply(c, i, s)' /\ purse'[c][i] = purse[c][i]
      BY <2>1, <2>2, <3>1, TypeFacts DEF IInv, Grown, IsReply
    <3> QED BY <2>1, <2>2, <3>1, <3>2 DEF Came
  <2>4. CASE s = 0
    BY <2>1, <2>2, <2>4 DEF Came
  <2> QED BY <2>3, <2>4
<1>5. Came \subseteq Numbers
  BY DEF Came
<1>6. \A d \in Numbers : a[d] = AnswerIn(TableView, d) /\ b[d] = AnswerIn(TableView, d)'
  BY DEF AnswersIn, Grown
<1> QED BY <1>1, <1>2, <1>3, <1>4, <1>5, <1>6

\* What the aggregator takes for backed it takes for backed from then on.
LEMMA BackedStays ==
  ASSUME IInv, Timed, Grown, Ruling, Ruling', ReplyCounts,
         \A d \in Numbers : AnswerIn(TableView, d)' = AnswerIn(TableView, d) \/ Answering(d),
         NEW d \in Numbers, Backed(TableRuns, d)
  PROVE  Backed(TableRuns, d)'
<1>1. PICK R, Q, a, b : /\ R = TableRuns /\ Q = TableRuns'
                        /\ a = AnswersIn(TableView) /\ b = AnswersIn(TableView)'
  OBVIOUS
<1>2. /\ Rule(R, a, Came) /\ \E kame : kame = Came' /\ Rule(Q, b, kame)
      /\ Came \subseteq Numbers /\ Came \subseteq Came'
      /\ \A e \in Numbers : a[e] = AnswerIn(TableView, e) /\ b[e] = AnswerIn(TableView, e)'
  BY <1>1, RulesOfStep
<1>3. PICK kame, came : kame = Came' /\ came = Came /\ Rule(Q, b, kame) /\ Rule(R, a, came)
  BY <1>2
<1>4. DeadStays(a, b)
  <2>1. ASSUME NEW n \in Numbers, NEW m \in Numbers,
               Dead(SpendOf(m, a[m]), deals[n].time)
        PROVE  Dead(SpendOf(m, b[m]), deals[n].time)
    <3>1. CASE a[m] = b[m]
      BY <2>1, <3>1
    <3>2. CASE a[m] # b[m]
      <4>1. a[m] = "none" /\ now <= deals[m].until
        BY <1>2, <3>2 DEF Answering
      <4>2. deals[n].time > deals[m].until
        BY <2>1, <4>1 DEF Dead, SpendOf
      <4>3. deals[n].time <= now
        BY DEF Timed
      <4>4. now \in Nat /\ deals[n].time \in Nat /\ deals[m].until \in Nat
        BY TypeFacts DEF IInv
      <4> QED BY <4>1, <4>2, <4>3, <4>4
    <3> QED BY <3>1, <3>2
  <2> QED BY <2>1 DEF DeadStays
<1>5. Follows(R, Q, d)
  <2>1. came \cap Numbers \subseteq kame
    BY <1>2, <1>3
  <2> QED BY <1>3, <1>4, <2>1, RulesFollow
<1>6. d \in R[d].backed
  BY <1>1 DEF Backed
<1> QED BY <1>1, <1>5, <1>6 DEF Follows, Backed

\* A step without a reply changes no verdict.
LEMMA SilentVerdicts ==
  ASSUME IInv, Grown, Ruling, Ruling', ReplyCounts, ReplyCounts', Silent,
         NEW d \in Numbers
  PROVE  Backed(TableRuns, d)' <=> Backed(TableRuns, d)
<1>1. PICK R, Q, a, b : /\ R = TableRuns /\ Q = TableRuns'
                        /\ a = AnswersIn(TableView) /\ b = AnswersIn(TableView)'
  OBVIOUS
<1>2. \A e \in Numbers : AnswerIn(TableView, e)' = AnswerIn(TableView, e)
  BY SilentKeeps
<1>3. /\ Rule(R, a, Came) /\ \E kame : kame = Came' /\ Rule(Q, b, kame)
      /\ Came \subseteq Numbers /\ Came \subseteq Came'
      /\ \A e \in Numbers : a[e] = AnswerIn(TableView, e) /\ b[e] = AnswerIn(TableView, e)'
  BY <1>1, <1>2, RulesOfStep
<1>4. PICK kame, came : kame = Came' /\ came = Came /\ Rule(Q, b, kame) /\ Rule(R, a, came)
  BY <1>3
<1>5. DeadStays(a, b) /\ DeadStays(b, a)
  BY <1>2, <1>3 DEF DeadStays
<1>6. kame \cap Numbers \subseteq came /\ came \cap Numbers \subseteq kame
  <2>1. ASSUME NEW n \in Numbers, n \in Came'
        PROVE  n \in Came
    <3>1. deals'[n] = deals[n] /\ deals[n].from \in Chains
      BY TypeFacts DEF Grown, IInv
    <3>2. PICK c, s : c = deals[n].from /\ s = deals[n].src
      OBVIOUS
    <3>3. CASE s # 0
      <4>1. PICK i : /\ IsReply(c, i, s)' /\ purse'[c][i].answer = "accepted"
                     /\ i < deals[n].index
        BY <2>1, <3>1, <3>2, <3>3 DEF Came
      <4>2. IsReply(c, i, s)
        BY <3>1, <3>2, <4>1 DEF Silent
      <4>3. purse'[c][i] = purse[c][i]
        BY <3>1, <3>2, <4>2 DEF Grown, IsReply
      <4> QED BY <3>2, <4>1, <4>2, <4>3 DEF Came
    <3>4. CASE s = 0
      BY <3>2, <3>4 DEF Came
    <3> QED BY <3>3, <3>4
  <2> QED BY <1>3, <1>4, <2>1
<1>7. Follows(R, Q, d)
  BY <1>4, <1>5, <1>6, RulesFollow
<1>8. Follows(Q, R, d)
  BY <1>4, <1>5, <1>6, RulesFollow
<1> QED BY <1>1, <1>7, <1>8 DEF Follows, Backed


-----------------------------------------------------------------------------
(* The escrow.                                                             *)

\* What holds with exact clocks and an aggregator at hand.
Apt == IInv /\ Complete /\ Timed /\ Prompt /\ Ruling /\ ReplyCounts

LEMMA AptHolds ==
  ASSUME Lag = 0, Losses = FALSE
  PROVE  Spec => []Apt
<1>1. IInv /\ Complete /\ Timed /\ Sorted => Apt
  BY SortedPrompt, RulingHolds, RepliesCount DEF Apt
<1> QED BY <1>1, Invariance, CompleteHolds, TimedHolds, SortedHolds, PTL

\* A step signs, or answers once and in time; what is backed stays backed.
LEMMA AptStep ==
  ASSUME Lag = 0, Apt, Apt', [Next]_vars
  PROVE  /\ Grown
         /\ \A d \in Numbers : AnswerIn(TableView, d)' = AnswerIn(TableView, d) \/ Answering(d)
         /\ \A d \in Numbers : Backed(TableRuns, d) => Backed(TableRuns, d)'
<1>1. Grown
  BY StepGrows DEF Apt
<1>2. \A d \in Numbers : AnswerIn(TableView, d)' = AnswerIn(TableView, d) \/ Answering(d)
  BY <1>1, AnswerMoves DEF Apt
<1>3. ASSUME NEW d \in Numbers, Backed(TableRuns, d)
      PROVE  Backed(TableRuns, d)'
  BY <1>1, <1>2, <1>3, BackedStays DEF Apt
<1> QED BY <1>1, <1>2, <1>3

\* Whom offers pay.
Paying == \A d \in Numbers : deals[d].from \in Chains /\ deals[d].to \in Chains

LEMMA PayingHolds == IInv => Paying
BY TypeFacts DEF IInv, Paying

\* A new offer is unanswered.
LEMMA NewIsOpen ==
  ASSUME Apt, Apt', [Next]_vars, NEW d \in Numbers', d \notin Numbers
  PROVE  AnswerIn(TableView, d)' = "none"
<1>1. Silent
  <2>1. Answers => Numbers' = Numbers
    BY DEF Answers, RefuseOutright, AcceptAuto, AcceptByHand, Refuse, Reply, Numbers
  <2> QED BY <2>1, StepReplies DEF Apt
<1>2. PICK c : c = deals'[d].to
  OBVIOUS
<1>3. c \in Chains
  <2>1. (IInv => Paying)'
    BY PayingHolds, PTL
  <2> QED BY <1>2, <2>1 DEF Apt, Paying
<1>4. \A i : ~IsReply(c, i, d)'
  <2>1. ASSUME NEW i, IsReply(c, i, d)
        PROVE  FALSE
    <3>1. i \in 1..Len(purse[c]) /\ d \in {purse[c][i].deal}
      BY <2>1 DEF IsReply
    <3> QED BY <1>3, <2>1, <3>1 DEF Apt, IInv, Replied
  <2> QED BY <1>1, <1>3, <2>1 DEF Silent
<1> QED BY <1>2, <1>4 DEF Apt, ReplyCounts


\* What is accepted is backed.
AcceptedBacked ==
  \A d \in Numbers : AnswerIn(TableView, d) = "accepted" => Backed(TableRuns, d)

LEMMA AcceptedBackedHolds ==
  ASSUME Lag = 0, Losses = FALSE
  PROVE  Spec => []AcceptedBacked
<1>1. Init => AcceptedBacked
  <2> SUFFICES ASSUME Init PROVE AcceptedBacked
    OBVIOUS
  <2>1. Numbers = {}
    BY DEF Init, Numbers
  <2> QED BY <2>1 DEF AcceptedBacked
<1>2. ASSUME Apt, Apt', AcceptedBacked, [Next]_vars
      PROVE  AcceptedBacked'
  <2> SUFFICES ASSUME NEW d \in Numbers', AnswerIn(TableView, d)' = "accepted"
               PROVE  Backed(TableRuns, d)'
    BY DEF AcceptedBacked
  <2>1. d \in Numbers
    BY <1>2, NewIsOpen
  <2>2. AnswerIn(TableView, d)' = AnswerIn(TableView, d) \/ Answering(d)
    BY <1>2, <2>1, AptStep
  <2>3. Backed(TableRuns, d)
    BY <1>2, <2>1, <2>2 DEF AcceptedBacked, Answering
  <2> QED BY <1>2, <2>1, <2>3, AptStep
<1> QED BY <1>1, <1>2, AptHolds, PTL DEF Spec

\* The state of an offer in the book.
StateIn(d) ==
  IF AnswerIn(TableView, d) = "accepted" /\ Backed(TableRuns, d) THEN "paid"
  ELSE IF DealStatus(deals[d].until, AnswerIn(TableView, d), now) # "pending" THEN "void"
  ELSE IF Backed(TableRuns, d) THEN "held" ELSE "short"

Entered(d) ==
  [from |-> deals[d].from, to |-> deals[d].to, src |-> deals[d].src,
   units |-> deals[d].units, state |-> StateIn(d)]

Told == BookOnTable = [d \in Numbers |-> Entered(d)]

LEMMA BookIsTold == IInv /\ Complete => Told
<1> SUFFICES ASSUME IInv, Complete PROVE Told
  OBVIOUS
<1>1. PICK R, H : R = TableRuns /\ H = Happened
  OBVIOUS
<1>2. \A d \in Numbers : OnTable(d)
  <2>1. \A d \in Numbers : DealRef(d) \in Blocks
    BY TypeFacts, BlocksAre DEF IInv, Placed, DealRef
  <2> QED BY <2>1 DEF Complete, OnTable
<1>3. H = {d \in Numbers : AnswerIn(TableView, d) = "accepted" /\ Backed(R, d)}
  BY <1>1, <1>2, HappenedIs
<1>4. \A d \in Numbers : EntryOf(R, H, d) = Entered(d)
  <2>1. \A d \in Numbers : StateOf(R, H, d) = StateIn(d)
    BY <1>1, <1>3 DEF StateOf, StateIn
  <2> QED BY <2>1 DEF EntryOf, Entered
<1>5. BookOnTable = [d \in Numbers |-> EntryOf(R, H, d)]
  BY <1>1, BookIs
<1> QED BY <1>4, <1>5 DEF Told

\* How an offer goes on in a step.
LEMMA StateMoves ==
  ASSUME Lag = 0, Apt, Apt', AcceptedBacked, [Next]_vars, NEW d \in Numbers
  PROVE  \/ StateIn(d)' = StateIn(d)
         \/ StateIn(d) = "short" /\ StateIn(d)' = "held"
         \/ StateIn(d) = "held" /\ StateIn(d)' = "paid"
         \/ StateIn(d) \in {"held", "short"} /\ StateIn(d)' = "void"
<1>1. PICK x, y, p, q : /\ x = AnswerIn(TableView, d) /\ y = AnswerIn(TableView, d)'
                        /\ p = Backed(TableRuns, d) /\ q = Backed(TableRuns, d)'
  OBVIOUS
<1>2. /\ p \in BOOLEAN /\ q \in BOOLEAN
      /\ x \in {"none", "accepted", "refused"}
      /\ y = x \/ Answering(d)
      /\ p => q
      /\ x = "accepted" => p
  <2>1. p \in BOOLEAN /\ q \in BOOLEAN
    BY <1>1 DEF Backed
  <2>2. x \in {"none", "accepted", "refused"}
    BY <1>1, TableIsRead DEF Apt, TableReads, Reads
  <2> QED BY <1>1, <2>1, <2>2, AptStep DEF AcceptedBacked
<1>3. PICK u, s, t : u = deals[d].until /\ s = now /\ t = now'
  OBVIOUS
<1>4. u \in Nat /\ s \in Nat /\ t \in Nat /\ s <= t /\ deals'[d] = deals[d]
  <2>1. u \in Nat /\ s \in Nat
    BY <1>3, TypeFacts DEF Apt, IInv
  <2>2. t = s \/ t = s + 1
    <3>1. now' = now \/ now' = now + 1
      <4>1. CASE Pays \/ Uploads \/ Learns
        <5>1. CASE Pays
          BY <5>1 DEF Pays, Offer
        <5>2. CASE Uploads \/ Learns
          BY <5>2 DEF Uploads, Upload, Learns, Refresh
        <5> QED BY <4>1, <5>1, <5>2
      <4>2. CASE Answers
        BY <4>2 DEF Answers, RefuseOutright, AcceptAuto, AcceptByHand, Refuse, Reply
      <4>3. CASE Dates \/ Arrives
        BY <4>3 DEF Dates, Note, Merge, Arrives, Gossip
      <4>4. CASE Tick \/ UNCHANGED vars
        BY <4>4 DEF Tick, vars
      <4> QED BY <4>1, <4>2, <4>3, <4>4 DEF Next
    <3> QED BY <1>3, <3>1
  <2>3. deals'[d] = deals[d]
    BY AptStep DEF Grown
  <2> QED BY <2>1, <2>2, <2>3
<1>5. /\ StateIn(d) = IF x = "accepted" /\ p THEN "paid"
                      ELSE IF (IF x # "none" THEN x ELSE IF s > u THEN "expired" ELSE "pending")
                              # "pending" THEN "void"
                      ELSE IF p THEN "held" ELSE "short"
      /\ StateIn(d)' = IF y = "accepted" /\ q THEN "paid"
                       ELSE IF (IF y # "none" THEN y ELSE IF t > u THEN "expired" ELSE "pending")
                               # "pending" THEN "void"
                       ELSE IF q THEN "held" ELSE "short"
  BY <1>1, <1>3, <1>4 DEF StateIn, DealStatus
<1>6. CASE y = x
  BY <1>2, <1>4, <1>5, <1>6
<1>7. CASE Answering(d)
  <2>1. x = "none" /\ y \in {"accepted", "refused"} /\ s <= u /\ (y = "accepted" => p)
    BY <1>1, <1>3, <1>7 DEF Answering
  <2> QED BY <1>2, <1>4, <1>5, <2>1
<1> QED BY <1>2, <1>6, <1>7

LEMMA SilentStates ==
  ASSUME Apt, Apt', Grown, Silent, now' = now, NEW d \in Numbers
  PROVE  StateIn(d)' = StateIn(d)
<1>1. AnswerIn(TableView, d)' = AnswerIn(TableView, d)
  BY SilentKeeps DEF Apt
<1>2. Backed(TableRuns, d)' <=> Backed(TableRuns, d)
  BY SilentVerdicts DEF Apt
<1>3. deals'[d] = deals[d]
  BY DEF Grown
<1> QED BY <1>1, <1>2, <1>3 DEF StateIn


\* The book is what the table tells.
BookTold == book = [d \in Numbers |-> Entered(d)]

LEMMA BookToldHolds ==
  ASSUME Lag = 0, Losses = FALSE
  PROVE  BookSpec => []BookTold
<1>1. ASSUME BookInit
      PROVE  BookTold
  <2>1. Numbers = {} /\ book = <<>>
    BY <1>1 DEF BookInit, Init, Numbers
  <2> QED BY <2>1 DEF BookTold
<1>2. Apt' /\ BookNext => BookTold'
  <2>1. (IInv /\ Complete => Told)'
    BY BookIsTold, PTL
  <2>2. Apt' => IInv' /\ Complete'
    BY DEF Apt
  <2> QED BY <2>1, <2>2 DEF BookNext, Told, BookTold
<1>3. ASSUME Apt, Apt', BookTold, UNCHANGED <<vars, book>>
      PROVE  BookTold'
  <2>1. deals' = deals /\ purse' = purse /\ now' = now /\ book' = book /\ [Next]_vars
    BY <1>3 DEF vars
  <2>2. Grown /\ Numbers' = Numbers
    BY <1>3, <2>1, StepGrows DEF Apt, Numbers
  <2>3. Silent
    BY <2>1 DEF Silent, IsReply
  <2>4. ASSUME NEW d \in Numbers
        PROVE  Entered(d)' = Entered(d)
    <3>1. StateIn(d)' = StateIn(d)
      BY <1>3, <2>1, <2>2, <2>3, SilentStates
    <3> QED BY <2>1, <3>1 DEF Entered
  <2> QED BY <1>3, <2>1, <2>2, <2>4 DEF BookTold
<1> QED BY <1>1, <1>2, <1>3, BookIsOffers, AptHolds, PTL DEF BookSpec

\* Every bill spent fits.
AllFit == \A n \in DOMAIN book : Escrow!Fits(book[n].from, book[n].src)

LEMMA AllFits == IInv /\ BookTold /\ NeverOverpaid => AllFit
<1> SUFFICES ASSUME IInv, BookTold, NeverOverpaid, NEW n \in DOMAIN book
             PROVE  Escrow!Fits(book[n].from, book[n].src)
  BY DEF AllFit
<1>1. n \in Numbers /\ book[n].from = deals[n].from /\ book[n].src = deals[n].src
  BY DEF BookTold, Entered
<1>2. PICK c, s : c = book[n].from /\ s = book[n].src
  OBVIOUS
<1>3. c \in Chains /\ s \in 0..MaxDeals
  <2>1. Len(deals) \in Nat /\ n \in 1..Len(deals) /\ Len(deals) <= MaxDeals
        /\ s \in 0..n - 1 /\ MaxDeals \in Nat
    BY <1>1, <1>2, TypeFacts, OffersAssumption DEF IInv, TypeOK, Threaded
  <2>2. s \in 0..MaxDeals
    BY <2>1
  <2> QED BY <1>1, <1>2, <2>2, TypeFacts DEF IInv
<1>4. Escrow!Fits(c, s)
  BY <1>3 DEF NeverOverpaid, Escrow!NeverOverpaid
<1> QED BY <1>2, <1>4

\* The offers on the table go on as offers in escrow do.
LEMMA TurnsEscrow ==
  ASSUME Lag = 0, Apt, Apt', AcceptedBacked, BookTold, BookTold', NeverOverpaid',
         [Next]_vars, deals' = deals
  PROVE  Escrow!Turn
<1>1. Numbers' = Numbers
  BY DEF Numbers
<1>2. DOMAIN book = Numbers /\ DOMAIN book' = Numbers
  BY <1>1 DEF BookTold
<1>3. AllFit'
  <2>1. (IInv /\ BookTold /\ NeverOverpaid => AllFit)'
    BY AllFits, PTL
  <2> QED BY <2>1 DEF Apt
<1>4. ASSUME NEW n \in Numbers
      PROVE  book'[n] = book[n] \/ Escrow!Moves(n)
  <2>1. PICK r, s, t : /\ s = StateIn(n) /\ t = StateIn(n)'
                       /\ r = [from |-> deals[n].from, to |-> deals[n].to, src |-> deals[n].src,
                               units |-> deals[n].units, state |-> s]
    OBVIOUS
  <2>2. book[n] = r
    BY <1>4, <2>1 DEF BookTold, Entered
  <2>3. book'[n] = [r EXCEPT !.state = t] /\ r.state = s
    <3>1. book'[n] = [from |-> deals[n].from, to |-> deals[n].to, src |-> deals[n].src,
                      units |-> deals[n].units, state |-> t]
      BY <1>1, <1>4, <2>1 DEF BookTold, Entered
    <3> QED BY <2>1, <3>1
  <2>4. \/ t = s
        \/ s = "short" /\ t = "held"
        \/ s = "held" /\ t = "paid"
        \/ s \in {"held", "short"} /\ t = "void"
    BY <2>1, StateMoves
  <2>5. CASE t = s
    BY <2>1, <2>2, <2>3, <2>5
  <2>6. CASE s = "short" /\ t = "held"
    <3>1. Escrow!Fits(book[n].from, book[n].src)'
      BY <1>2, <1>3 DEF AllFit
    <3> QED BY <2>2, <2>3, <2>6, <3>1 DEF Escrow!Moves
  <2>7. CASE s = "held" /\ t = "paid"
    BY <2>2, <2>3, <2>7 DEF Escrow!Moves
  <2>8. CASE s \in {"held", "short"} /\ t = "void"
    BY <2>2, <2>3, <2>8 DEF Escrow!Moves
  <2> QED BY <2>4, <2>5, <2>6, <2>7, <2>8
<1> QED BY <1>2, <1>4 DEF Escrow!Turn, Escrow!Entries

\* Signing an offer signs one in escrow, its hours there or not, and leaves the
\* others alone.
LEMMA SignsEscrow ==
  ASSUME Lag = 0, Apt, Apt', AcceptedBacked, BookTold, BookTold', NeverOverpaid', Pays
  PROVE  Escrow!Sign
<1>1. PICK c \in Chains, clk \in Clocks :
        \E fetched \in Learnt(c, clk), to \in Chains \ {c}, src \in {0} \cup Numbers,
           units \in 1..Credit, posted \in Post :
          Offer(c, src, to, units, clk, fetched, posted)
  BY DEF Pays
<1>2. PICK fetched \in Learnt(c, clk), to \in Chains \ {c}, src \in {0} \cup Numbers,
           units \in 1..Credit, posted \in Post :
        Offer(c, src, to, units, clk, fetched, posted)
  BY <1>1
<1>3. PICK n, d : n = Len(deals) /\ d = n + 1
  OBVIOUS
<1>4. /\ n \in Nat /\ d \in Nat /\ n < MaxDeals /\ Numbers = 1..n /\ Numbers' = 1..d
      /\ now \in Nat /\ now' = now /\ clk = now
      /\ Wrote(c, Block("deal", d, "none", clk))
      /\ \A e \in Numbers : deals'[e] = deals[e]
  <2>1. /\ Wrote(c, Block("deal", d, "none", clk)) /\ Numbers' = Numbers \cup {d}
        /\ \A e \in Numbers : deals'[e] = deals[e]
    BY <1>1, <1>2, <1>3, OfferWrite DEF Apt
  <2>2. n \in Nat /\ Numbers = 1..n /\ now \in Nat
    BY <1>3, TypeFacts DEF Apt, IInv
  <2>3. now' = now /\ n < MaxDeals
    BY <1>2, <1>3 DEF Offer
  <2>4. clk \in 0..now /\ now - clk <= 0
    BY DEF Clocks
  <2>5. clk = now
    BY <2>2, <2>4
  <2>6. Numbers' = 1..d
    BY <1>3, <2>1, <2>2
  <2> QED BY <1>3, <2>1, <2>2, <2>3, <2>5, <2>6
<1>5. Silent
  <2>1. Answers => Numbers' = Numbers
    BY DEF Answers, RefuseOutright, AcceptAuto, AcceptByHand, Refuse, Reply, Numbers
  <2>2. d \in Numbers' /\ d \notin Numbers
    BY <1>3, <1>4
  <2>3. [Next]_vars
    BY DEF Next
  <2> QED BY <2>1, <2>2, <2>3, StepReplies DEF Apt
<1>6. Grown
  <2>1. [Next]_vars
    BY DEF Next
  <2> QED BY <2>1, StepGrows DEF Apt
<1>7. ASSUME NEW e \in Numbers
      PROVE  Entered(e)' = Entered(e)
  <2>1. StateIn(e)' = StateIn(e)
    BY <1>4, <1>5, <1>6, SilentStates
  <2> QED BY <1>4, <2>1 DEF Entered
<1>8. PICK r : r = Entered(d)'
  OBVIOUS
<1>9. r \in Escrow!Entry /\ r.state \in {"held", "short"}
  <2>1. PICK s : s = StateIn(d)'
    OBVIOUS
  <2>2. /\ deals'[d].from = c /\ deals'[d].to = to /\ deals'[d].src = src
        /\ deals'[d].units = units /\ deals'[d].until = clk + Term
    <3>1. deals'[Len(deals) + 1] =
            [from |-> c, index |-> Len(purse[c]) + 1, to |-> to, src |-> src,
             units |-> units, time |-> clk, until |-> clk + Term,
             prev |-> LastSpend(c, src)]
      BY <1>1, <1>2, OfferWrite DEF Apt
    <3> QED BY <1>3, <3>1
  <2>3. r = [from |-> c, to |-> to, src |-> src, units |-> units, state |-> s]
    BY <1>8, <2>1, <2>2 DEF Entered
  <2>4. s \in {"held", "short"}
    <3>1. AnswerIn(TableView, d)' = "none"
      <4>1. [Next]_vars /\ d \in Numbers' /\ d \notin Numbers
        BY <1>3, <1>4 DEF Next
      <4> QED BY <4>1, NewIsOpen
    <3>2. ~(now' > deals'[d].until)
      BY <1>4, <2>2, OffersAssumption
    <3> QED BY <2>1, <3>1, <3>2 DEF StateIn, DealStatus
  <2>5. src \in 0..MaxDeals
    BY <1>4, OffersAssumption
  <2> QED BY <1>1, <1>2, <2>3, <2>4, <2>5 DEF Escrow!Entry
<1>10. book = [e \in 1..n |-> Entered(e)] /\ book' = [e \in 1..d |-> IF e = d THEN r ELSE Entered(e)]
  <2>1. book' = [e \in 1..d |-> Entered(e)']
    BY <1>4 DEF BookTold
  <2> QED BY <1>3, <1>4, <1>7, <1>8, <2>1 DEF BookTold
<1>11. book' = Append(book, r) /\ Len(book) < MaxDeals
  <2>1. Len(book) = n
    BY <1>4, <1>10
  <2> QED BY <1>3, <1>4, <1>10, <2>1
<1>12. r.state = "held" => Escrow!Fits(r.from, r.src)'
  <2>1. r.from \in Chains /\ r.src \in 0..MaxDeals
    BY <1>9 DEF Escrow!Entry
  <2> QED BY <2>1 DEF NeverOverpaid, Escrow!NeverOverpaid
<1> QED BY <1>9, <1>11, <1>12 DEF Escrow!Sign


\* With exact clocks and an aggregator at hand, clients and table together are an
\* escrow: an offer is signed with its hours there or short of them, may come to
\* hold hours that others gave back, and ends once, paid or void; no offer ever
\* holds hours another holds, and what is paid stays paid.
THEOREM OffersAreAnEscrow ==
  ASSUME Lag = 0, Losses = FALSE
  PROVE  BookSpec => ImplementsEscrow
<1>1. BookInit => Escrow!Init
  BY DEF BookInit, Escrow!Init
<1>2. ASSUME Apt, Apt', AcceptedBacked, BookTold, BookTold', NeverOverpaid',
             [BookNext]_<<vars, book>>
      PROVE  [Escrow!Next]_book
  <2>1. CASE BookNext
    <3>1. [Next]_vars
      BY <2>1 DEF BookNext
    <3>2. CASE Pays
      BY <1>2, <3>2, SignsEscrow DEF Escrow!Next
    <3>3. CASE ~Pays
      <4>1. deals' = deals
        <5>1. CASE Uploads \/ Learns
          BY <5>1 DEF Uploads, Upload, Learns, Refresh
        <5>2. CASE Answers
          BY <5>2 DEF Answers, RefuseOutright, AcceptAuto, AcceptByHand, Refuse, Reply
        <5>3. CASE Dates \/ Arrives \/ Tick
          BY <5>3 DEF Dates, Note, Merge, Arrives, Gossip, Tick
        <5> QED BY <2>1, <3>3, <5>1, <5>2, <5>3 DEF BookNext, Next
      <4> QED BY <1>2, <3>1, <4>1, TurnsEscrow DEF Escrow!Next
    <3> QED BY <3>2, <3>3
  <2>2. CASE UNCHANGED <<vars, book>>
    BY <2>2
  <2> QED BY <1>2, <2>1, <2>2
<1> QED BY <1>1, <1>2, BookIsOffers, AptHolds, AcceptedBackedHolds, BookToldHolds,
           NothingIsOverpaid, PTL DEF BookSpec, ImplementsEscrow, Escrow!Spec


-----------------------------------------------------------------------------
(* The payer's count of a bill and the table's.                            *)

\* A payer who did not hear a reply to c's offer while its term was on never
\* will: he asks no more.
Missed(c) ==
  \E d \in Numbers :
    /\ deals[d].from = c /\ now > deals[d].until
    /\ \E i : IsReply(deals[d].to, i, d) /\ <<deals[d].to, i>> \notin known[c]

AllBacked(c) == \A d \in Numbers : deals[d].from = c => Backed(TableRuns, d)

\* News are replies of sellers to offers whose term is on.
LEMMA NewsAre ==
  ASSUME IInv, NEW c \in Chains, NEW clk, NEW r \in News(c, clk)
  PROVE  \E e \in Numbers : \E j :
           /\ clk <= deals[e].until /\ IsReply(deals[e].to, j, e)
           /\ r = <<deals[e].to, j>>
<1>1. PICK e \in Numbers : /\ deals[e].from = c /\ clk <= deals[e].until
                           /\ \E x \in CountedIn(TableView, e) : r = <<x.author, x.index>>
  BY DEF News
<1>2. PICK x \in CountedIn(TableView, e) : r = <<x.author, x.index>>
  BY <1>1
<1>3. PICK k, v : k = deals[e].to /\ v = TableView
  OBVIOUS
<1>4. PICK j : Heard(v, e, j) /\ CountedIn(v, e) = {ReplyAt(v, <<k, j>>)}
  BY <1>2, <1>3, TableIsRead DEF TableReads, Reads
<1>5. x = ReplyAt(v, <<k, j>>)
  BY <1>2, <1>3, <1>4
<1>6. x.author = k /\ x.index = j
  BY <1>5 DEF ReplyAt
<1> QED BY <1>1, <1>2, <1>3, <1>4, <1>6 DEF Heard

\* What a client comes to know it asked for, or it is an offer it answered.
LEMMA KnownGrows ==
  ASSUME IInv, [Next]_vars, NEW c \in Chains, NEW r \in known'[c], r \notin known[c]
  PROVE  \/ \E clk \in Clocks : r \in News(c, clk)
         \/ \E e \in Numbers : r = DealRef(e)
<1>0. known \in [Chains -> SUBSET Blocks]
  BY DEF IInv, TypeOK
<1>1. CASE Pays \/ Learns
  <2>1. PICK k \in Chains, clk \in Clocks :
          \E fetched \in Learnt(k, clk) : known' = [known EXCEPT ![k] = fetched]
    <3>1. CASE Pays
      <4>1. PICK k \in Chains, clk \in Clocks : \E fetched \in Learnt(k, clk) :
              \E to, src, units, posted : Offer(k, src, to, units, clk, fetched, posted)
        BY <3>1 DEF Pays
      <4> QED BY <4>1 DEF Offer
    <3>2. CASE Learns
      BY <3>2 DEF Learns, Refresh
    <3> QED BY <1>1, <3>1, <3>2
  <2>2. PICK fetched \in Learnt(k, clk) : known' = [known EXCEPT ![k] = fetched]
    BY <2>1
  <2>3. k = c /\ r \in fetched
    BY <1>0, <2>2
  <2>4. r \in News(k, clk)
    <3>1. fetched = known[k] \cup News(k, clk)
          \/ \E n \in SUBSET News(k, clk) : fetched = known[k] \cup n
      BY <2>2 DEF Learnt
    <3> QED BY <2>3, <3>1
  <2> QED BY <2>3, <2>4
<1>2. CASE Answers
  <2>1. PICK k \in Chains, e \in Numbers :
          known' = [known EXCEPT ![k] = @ \cup {DealRef(e)}]
    BY <1>2 DEF Answers, RefuseOutright, AcceptAuto, AcceptByHand, Refuse, Reply
  <2> QED BY <1>0, <2>1
<1>3. CASE Uploads
  BY <1>3 DEF Uploads, Upload
<1>4. CASE Dates
  BY <1>4 DEF Dates, Note, Merge
<1>5. CASE Arrives \/ Tick
  BY <1>5 DEF Arrives, Gossip, Tick
<1>6. CASE UNCHANGED vars
  BY <1>6 DEF vars
<1> QED BY <1>1, <1>2, <1>3, <1>4, <1>5, <1>6 DEF Next

LEMMA TimeRuns ==
  ASSUME IInv, [Next]_vars
  PROVE  now \in Nat /\ now' \in Nat /\ now <= now'
<1>1. now \in Nat
  BY TypeFacts DEF IInv
<1>2. now' = now \/ now' = now + 1
  <2>1. CASE Pays
    <3>1. \E c, clk, fetched, to, src, units, posted :
            Offer(c, src, to, units, clk, fetched, posted)
      BY <2>1 DEF Pays
    <3> QED BY <3>1 DEF Offer
  <2>5. CASE Uploads \/ Learns
    BY <2>5 DEF Uploads, Upload, Learns, Refresh
  <2>2. CASE Answers
    BY <2>2 DEF Answers, RefuseOutright, AcceptAuto, AcceptByHand, Refuse, Reply
  <2>3. CASE Dates \/ Arrives
    BY <2>3 DEF Dates, Note, Merge, Arrives, Gossip
  <2>4. CASE Tick \/ UNCHANGED vars
    BY <2>4 DEF Tick, vars
  <2> QED BY <2>1, <2>2, <2>3, <2>4, <2>5 DEF Next
<1> QED BY <1>1, <1>2

LEMMA MissedStays ==
  ASSUME Lag = 0, IInv, Grown, [Next]_vars, NEW c \in Chains, Missed(c)
  PROVE  Missed(c)'
<1>1. PICK d \in Numbers : /\ deals[d].from = c /\ now > deals[d].until
                           /\ \E i : IsReply(deals[d].to, i, d) /\ <<deals[d].to, i>> \notin known[c]
  BY DEF Missed
<1>2. PICK k : k = deals[d].to
  OBVIOUS
<1>3. PICK i : IsReply(k, i, d) /\ <<k, i>> \notin known[c]
  BY <1>1, <1>2
<1>4. k \in Chains /\ d \in Numbers' /\ deals'[d] = deals[d] /\ deals[d].until \in Nat
  BY <1>2, TypeFacts DEF IInv, Grown
<1>5. IsReply(k, i, d)'
  BY <1>3, <1>4 DEF IsReply, Grown
<1>6. now' > deals[d].until /\ now \in Nat
  BY <1>1, <1>4, TimeRuns
<1>7. <<k, i>> \notin known'[c]
  <2>1. ASSUME <<k, i>> \in known'[c]
        PROVE  FALSE
    <3>1. ASSUME NEW clk \in Clocks, <<k, i>> \in News(c, clk)
          PROVE  FALSE
      <4>1. PICK e \in Numbers : \E j :
              /\ clk <= deals[e].until /\ IsReply(deals[e].to, j, e)
              /\ <<k, i>> = <<deals[e].to, j>>
        BY <3>1, NewsAre
      <4>2. e = d /\ clk <= deals[d].until
        BY <1>3, <4>1 DEF IsReply
      <4>3. clk \in 0..now /\ now - clk <= 0
        BY DEF Clocks
      <4> QED BY <1>1, <1>4, <1>6, <4>2, <4>3
    <3>2. ASSUME NEW e \in Numbers, <<k, i>> = DealRef(e)
          PROVE  FALSE
      <4>1. purse[k][i].kind = "deal"
        BY <3>2 DEF IInv, Placed, DealRef
      <4> QED BY <1>3, <4>1 DEF IsReply
    <3> QED BY <1>3, <2>1, <3>1, <3>2, KnownGrows
  <2> QED BY <2>1
<1> QED BY <1>1, <1>2, <1>4, <1>5, <1>6, <1>7 DEF Missed

\* A client's view: its own chain and what it fetched.
ViewOf(c, view) ==
  view.running = FALSE /\ Own(c) \subseteq view.blocks /\ view.blocks \subseteq Blocks

\* Nothing about the offers of c escaped the view for good.
Heeds(c, view) ==
  \A d \in Numbers : \A i :
    deals[d].from = c /\ IsReply(deals[d].to, i, d) => <<deals[d].to, i>> \in view.blocks

LEMMA ClientViewIs ==
  ASSUME IInv, NEW c \in Chains, NEW clk, NEW fetched \in Learnt(c, clk)
  PROVE  ViewOf(c, ClientView(c, fetched))
<1>1. fetched \subseteq Blocks /\ Own(c) \subseteq Blocks
  BY LearntAreBlocks, BlocksAre DEF IInv
<1> QED BY <1>1 DEF ViewOf, ClientView

LEMMA ClientReads ==
  ASSUME IInv, NEW c \in Chains, NEW view, ViewOf(c, view), NEW d \in Numbers,
         view = [blocks |-> view.blocks, running |-> view.running]
  PROVE  /\ \A i : Heard(view, d, i) =>
              /\ AnswerIn(view, d) = purse[deals[d].to][i].answer
              /\ CountedIn(view, d) = {ReplyAt(view, <<deals[d].to, i>>)}
         /\ (\A i : ~Heard(view, d, i)) => AnswerIn(view, d) = "none"
<1>1. PICK B : B = view.blocks
  OBVIOUS
<1>2. view = [blocks |-> B, running |-> FALSE] /\ B \subseteq Blocks
  BY <1>1 DEF ViewOf
<1>3. Reads(view, d)
  BY <1>2, AnswerReads
<1>4. \A i : Timely(view, d, i)
  BY DEF Timely, ViewOf
<1> QED BY <1>3, <1>4 DEF Reads

\* A view that misses no reply reads every answer as the table does.
LEMMA HeededAnswers ==
  ASSUME Apt, NEW c \in Chains, NEW view, ViewOf(c, view), Heeds(c, view),
         view = [blocks |-> view.blocks, running |-> view.running],
         NEW d \in Numbers, deals[d].from = c
  PROVE  AnswerIn(view, d) = AnswerIn(TableView, d)
<1>1. PICK k : k = deals[d].to
  OBVIOUS
<1>2. CASE \E i : IsReply(k, i, d)
  <2>1. PICK i : IsReply(k, i, d)
    BY <1>2
  <2>2. Heard(view, d, i)
    BY <1>1, <2>1 DEF Heard, Heeds
  <2>3. AnswerIn(view, d) = purse[k][i].answer
    BY <1>1, <2>2, ClientReads DEF Apt
  <2>4. AnswerIn(TableView, d) = purse[k][i].answer
    BY <1>1, <2>1 DEF Apt, ReplyCounts
  <2> QED BY <2>3, <2>4
<1>3. CASE \A i : ~IsReply(k, i, d)
  <2>1. \A i : ~Heard(view, d, i)
    BY <1>1, <1>3 DEF Heard
  <2>2. AnswerIn(view, d) = "none"
    BY <2>1, ClientReads DEF Apt
  <2>3. AnswerIn(TableView, d) = "none"
    BY <1>1, <1>3 DEF Apt, ReplyCounts
  <2> QED BY <2>2, <2>3
<1> QED BY <1>2, <1>3

\* Who asked now and missed nothing for good misses nothing.
LEMMA AskedHeeds ==
  ASSUME Losses = FALSE, Apt, NEW c \in Chains, NEW fetched \in Learnt(c, now),
         \A d \in Numbers : \A i :
           deals[d].from = c /\ now > deals[d].until /\ IsReply(deals[d].to, i, d) =>
             <<deals[d].to, i>> \in fetched
  PROVE  Heeds(c, ClientView(c, fetched))
<1> SUFFICES ASSUME NEW d \in Numbers, NEW i, deals[d].from = c,
                    IsReply(deals[d].to, i, d)
             PROVE  <<deals[d].to, i>> \in Own(c) \cup fetched
  BY DEF Heeds, ClientView
<1>1. PICK k, r : k = deals[d].to /\ r = <<k, i>>
  OBVIOUS
<1>2. k \in Chains /\ IsReply(k, i, d) /\ now \in Nat /\ deals[d].until \in Nat
  BY <1>1, TypeFacts DEF Apt, IInv
<1>3. fetched = known[c] \cup News(c, now)
  BY DEF Learnt
<1>4. CASE now > deals[d].until
  BY <1>1, <1>2, <1>4
<1>5. CASE now <= deals[d].until
  <2>1. PICK view : view = ClientView(c, known[c])
    OBVIOUS
  <2>2. ViewOf(c, view) /\ view = [blocks |-> view.blocks, running |-> view.running]
    <3>1. known[c] \subseteq Blocks /\ Own(c) \subseteq Blocks
      BY BlocksAre DEF Apt, IInv, TypeOK
    <3> QED BY <2>1, <3>1 DEF ViewOf, ClientView
  <2>3. CASE r \in view.blocks
    BY <1>1, <1>3, <2>1, <2>3 DEF ClientView
  <2>4. CASE r \notin view.blocks
    <3>1. \A j : ~Heard(view, d, j)
      <4>1. ASSUME NEW j, Heard(view, d, j)
            PROVE  FALSE
        <5>1. IsReply(k, j, d) /\ <<k, j>> \in view.blocks
          BY <1>1, <4>1 DEF Heard
        <5>2. j = i
          BY <1>2, <5>1 DEF Apt, IInv, Replied, IsReply
        <5> QED BY <1>1, <2>4, <5>1, <5>2
      <4> QED BY <4>1
    <3>2. AnswerIn(view, d) = "none"
      BY <2>2, <3>1, ClientReads DEF Apt
    <3>3. OnTable(d) /\ r \in table
      <4>1. i \in 1..Len(purse[k])
        BY <1>2 DEF IsReply
      <4>2. DealRef(d) \in Blocks /\ r \in Blocks
        BY <1>1, <1>2, <4>1, TypeFacts, BlocksAre DEF Apt, IInv, Placed, DealRef
      <4> QED BY <4>2 DEF Apt, Complete, OnTable
    <3>4. CountedIn(TableView, d) = {ReplyAt(TableView, r)}
      BY <1>1, <1>2, AnswerKnown DEF Apt
    <3>5. PICK x : x = ReplyAt(TableView, r)
      OBVIOUS
    <3>6. <<x.author, x.index>> = r
      BY <1>1, <3>5 DEF ReplyAt
    <3>7. r \in News(c, now)
      <4>1. x \in CountedIn(TableView, d)
        BY <3>4, <3>5
      <4>2. r \in {<<y.author, y.index>> : y \in CountedIn(TableView, d)}
        BY <3>6, <4>1
      <4>3. d \in {e \in Numbers : /\ deals[e].from = c
                                   /\ AnswerIn(ClientView(c, known[c]), e) = "none"
                                   /\ now <= deals[e].until
                                   /\ OnTable(e)}
        BY <1>5, <2>1, <3>2, <3>3
      <4> QED BY <4>1, <3>6, <4>3 DEF News
    <3> QED BY <1>1, <1>3, <3>7
  <2> QED BY <2>3, <2>4
<1> QED BY <1>2, <1>4, <1>5

\* The client has accepted the offer that brings bill src, or was handed it.
Brings(c, view, src) ==
  \/ src = 0 /\ c = Holder
  \/ /\ src # 0 /\ src \in Numbers /\ deals[src].to = c
     /\ DealRef(src) \in view.blocks /\ AnswerIn(view, src) = "accepted"

Spends(c, src) == {d \in Numbers : deals[d].from = c /\ deals[d].src = src}

\* A bill as its payer counts it, given the runs R.
OwnBill(view, R, n) == BillAt(view, AnswersIn(view), FALSE, R, n)

\* The bill of a spend as its payer counts it.
LEMMA BillThere ==
  ASSUME IInv, NEW c \in Chains, NEW view, ViewOf(c, view),
         view = [blocks |-> view.blocks, running |-> view.running],
         NEW src, Brings(c, view, src), NEW n \in Spends(c, src), n \in Came,
         NEW R
  PROVE  /\ OwnBill(view, R, n).credited = Credited(src)
         /\ ~(deals[n].index <= OwnBill(view, R, n).arrived)
<1>0. PICK a, b : a = AnswersIn(view) /\ b = BillAt(view, a, FALSE, R, n) /\ b = OwnBill(view, R, n)
  BY DEF OwnBill
<1>1. n \in Numbers /\ deals[n].from = c /\ deals[n].src = src
  BY DEF Spends
<1>2. b.arrived = Arrival(view, src)
  BY <1>0, <1>1 DEF BillAt
<1>3. deals[n].index \in Nat \ {0}
  <2>1. deals[n].index \in 1..Len(purse[c]) /\ Len(purse[c]) \in Nat
    BY <1>1, TypeFacts DEF IInv, Placed
  <2> QED BY <2>1
<1>4. CASE src = 0
  <2>1. b.credited = Credit
    BY <1>0, <1>1, <1>4 DEF BillAt, Brings
  <2>2. b.arrived = 0
    BY <1>2, <1>4 DEF Arrival
  <2>3. ~(deals[n].index <= 0)
    BY <1>3
  <2> QED BY <1>0, <1>4, <2>1, <2>2, <2>3 DEF Credited
<1>5. CASE src # 0
  <2>1. /\ src \in Numbers /\ deals[src].to = c /\ DealRef(src) \in view.blocks
        /\ AnswerIn(view, src) = "accepted"
    BY <1>5 DEF Brings
  <2>2. a[src] = "accepted"
    BY <1>0, <2>1 DEF AnswersIn
  <2>3. b.credited = Credited(src)
    BY <1>0, <1>1, <1>5, <2>1, <2>2 DEF BillAt, Credited
  <2>4. PICK i : IsReply(c, i, src) /\ i < deals[n].index
    BY <1>1, <1>5 DEF Came
  <2>5. PICK j : Heard(view, src, j)
    BY <2>1, ClientReads
  <2>6. IsReply(c, j, src)
    BY <2>1, <2>5 DEF Heard
  <2>7. j = i
    BY <2>4, <2>6 DEF IInv, Replied, IsReply
  <2>8. CountedIn(view, src) = {ReplyAt(view, <<c, i>>)}
    BY <2>1, <2>5, <2>7, ClientReads
  <2>9. ReplyAt(view, <<c, i>>).index = i
    BY DEF ReplyAt
  <2>10. PICK x, D : x = ReplyAt(view, <<c, i>>) /\ D = CountedIn(view, src)
    OBVIOUS
  <2>11. (CHOOSE r \in D : TRUE) = x /\ D # {}
    BY <2>8, <2>10
  <2>12. Arrival(view, src) = x.index
    BY <1>5, <2>10, <2>11 DEF Arrival
  <2>13. b.arrived = i
    BY <1>2, <2>9, <2>10, <2>12
  <2>14. i \in Nat
    <3>1. i \in 1..Len(purse[c]) /\ Len(purse[c]) \in Nat
      BY <2>4, TypeFacts DEF IsReply, IInv
    <3> QED BY <3>1
  <2>15. ~(deals[n].index <= i)
    BY <1>3, <2>4, <2>14
  <2> QED BY <1>0, <2>3, <2>13, <2>15
<1> QED BY <1>0, <1>4, <1>5

\* The runs as a client walks them.
OwnRuns(view) == RunsOn(view, AnswersIn(view), FALSE)

\* A payer whose spends of a bill the table backs counts them as the table does.
LEMMA ThreadAgrees ==
  ASSUME Apt, NEW c \in Chains, AllBacked(c), NEW view, ViewOf(c, view), Heeds(c, view),
         view = [blocks |-> view.blocks, running |-> view.running],
         NEW src, Brings(c, view, src), NEW R, R = OwnRuns(view)
  PROVE  \A n \in Spends(c, src) :
           R[n].consumed = TableRuns[n].consumed /\ n \in R[n].backed
<1>0. PICK a, T : a = AnswersIn(view) /\ T = TableRuns /\ Judged(view, a, FALSE, R)
  BY RunsAreJudged DEF Apt, OwnRuns
<1>1. PICK t, came : /\ t = AnswersIn(TableView) /\ came = Came /\ Rule(T, t, came)
  BY <1>0 DEF Apt, Ruling
<1>2. PICK N \in Nat : N = Len(deals) /\ Numbers = 1..N
  BY TypeFacts DEF Apt, IInv
<1>3. \A m \in Spends(c, src) : a[m] = t[m] /\ m \in Numbers /\ m \in T[m].backed
  BY <1>0, <1>1, HeededAnswers DEF Spends, AnswersIn, AllBacked, Backed
<1> DEFINE Same(n) == R[n].consumed = T[n].consumed /\ n \in R[n].backed
<1> DEFINE In == {k \in 0..N : \A n \in Spends(c, src) : n <= k => Same(n)}
<1>4. 0 \in In
  BY <1>2 DEF Spends
<1>5. ASSUME NEW n \in Spends(c, src), \A m \in Spends(c, src) : m < n => Same(m)
      PROVE  Same(n)
  <2>1. n \in Numbers /\ deals[n].from = c /\ deals[n].src = src
    BY <1>5 DEF Spends
  <2>2. PICK b, q, m, E : /\ b = BillAt(view, a, FALSE, R, n) /\ q = RunAt(view, a, R, n)
                          /\ m = deals[n].prev /\ E = Earlier(n)
    OBVIOUS
  <2>3. Ruled(R, n, b, q) /\ Taken(view, a, R, n, q)
    BY <1>0, <2>1, <2>2, BackedFits, VerdictTakes DEF Apt
  <2>4. RuleOf(T, t, came, n)
    BY <1>1, <2>1 DEF Rule
  <2>5. E \subseteq Spends(c, src) /\ \A e \in E : e < n
    <3>1. \A e \in E : e \in Numbers /\ e < n /\ deals[e].from = c /\ deals[e].src = src
      BY <1>2, <2>1, <2>2 DEF Earlier
    <3> QED BY <3>1 DEF Spends
  <2>6. /\ Before(view, n) = E
        /\ E # {} => m = Max(E) /\ m \in E
        /\ E = {} => m = NoRef
    <3>1. \A e \in E : DealRef(e) \in view.blocks
      <4>1. \A e \in Spends(c, src) : DealRef(e) \in Own(c)
        BY DEF Apt, IInv, Placed, DealRef, Own, Spends
      <4> QED BY <2>5, <4>1 DEF ViewOf
    <3>2. Shown(view, n)
      BY <2>1, <2>2, <3>1, HeldIsShown DEF Apt
    <3>3. Before(view, n) = E
      BY <2>2, <3>2 DEF Shown, Thread
    <3> QED BY <2>1, <2>2, <3>3, EarlierIs DEF Apt
  <2>7. q.consumed = T[n].consumed /\ ~q.broken /\ m = q.last
    <3>1. CASE E = {}
      <4>1. q = NewRun
        BY <2>3, <2>6, <3>1 DEF Taken
      <4>2. q.consumed = 0 /\ q.broken = FALSE /\ q.last = NoRef
        BY <4>1 DEF NewRun
      <4>3. T[n].consumed = 0
        BY <2>2, <2>4, <3>1 DEF RuleOf
      <4> QED BY <2>6, <3>1, <4>2, <4>3
    <3>2. CASE E # {}
      <4>1. m \in Spends(c, src) /\ m < n
        BY <2>5, <2>6, <3>2
      <4>2. R[m].consumed = T[m].consumed /\ m \in R[m].backed /\ m \in T[m].backed
            /\ a[m] = t[m] /\ m \in Numbers
        BY <1>3, <1>5, <4>1
      <4>3. /\ q.last = R[m].last /\ q.broken = R[m].broken
            /\ q.consumed = R[m].consumed
                 + IF m \in R[m].backed /\ ~Dead(SpendOf(m, a[m]), deals[n].time)
                   THEN deals[m].units ELSE 0
        BY <2>3, <2>6, <3>2 DEF Taken
      <4>4. T[n].consumed = T[m].consumed
                 + IF m \in T[m].backed /\ ~Dead(SpendOf(m, t[m]), deals[n].time)
                   THEN deals[m].units ELSE 0
        BY <2>2, <2>4, <3>2 DEF RuleOf
      <4>5. R[m].last = m /\ ~R[m].broken
        <5>1. PICK d, s : d = BillAt(view, a, FALSE, R, m) /\ s = RunAt(view, a, R, m)
          OBVIOUS
        <5>2. Ruled(R, m, d, s)
          BY <1>0, <4>2, <5>1, BackedFits DEF Apt
        <5> QED BY <4>2, <5>2 DEF Ruled
      <4> QED BY <4>2, <4>3, <4>4, <4>5
    <3> QED BY <3>1, <3>2
  <2>8. n \in T[n].backed
    BY <1>3, <1>5
  <2>9. n \in came /\ deals[n].units + T[n].consumed <= Credited(src)
    BY <2>1, <2>4, <2>8 DEF RuleOf
  <2>10. b.credited = Credited(src) /\ ~(deals[n].index <= b.arrived)
    <3>1. n \in Came /\ n \in Spends(c, src)
      BY <1>1, <1>5, <2>9
    <3>2. b = OwnBill(view, R, n)
      BY <1>0, <2>2 DEF OwnBill
    <3> QED BY <3>1, <3>2, BillThere DEF Apt
  <2>11. n \in R[n].backed /\ R[n].consumed = q.consumed
    BY <2>2, <2>3, <2>7, <2>9, <2>10 DEF Ruled
  <2> QED BY <2>7, <2>11
<1>6. ASSUME NEW k \in 0..N - 1, k \in In
      PROVE  k + 1 \in In
  <2> HIDE DEF Same
  <2>1. ASSUME NEW n \in Spends(c, src), n <= k + 1
        PROVE  Same(n)
    <3>1. n \in Nat
      BY <1>2 DEF Spends
    <3>2. \A m \in Spends(c, src) : m < n => Same(m)
      <4>1. \A m \in Spends(c, src) : m \in Nat
        BY <1>2 DEF Spends
      <4> QED BY <1>6, <2>1, <3>1, <4>1
    <3> QED BY <1>5, <3>2
  <2> QED BY <1>2, <2>1
<1>7. \A k \in 0..N : k \in In
  <2> HIDE DEF In
  <2>1. \A k \in 0..N - 1 : k \in In => k + 1 \in In
    BY <1>6
  <2> QED BY <1>4, <2>1, UpTo
<1>8. N \in In /\ \A n \in Spends(c, src) : n <= N
  <2>1. N \in 0..N
    OBVIOUS
  <2> QED BY <1>2, <1>7, <2>1 DEF Spends
<1> QED BY <1>0, <1>8

\* What is left of bill src after its latest spend m, as its payer counts.
LeftAfter(src, m, clk, x, r) ==
  Credited(src) - Settle(r[m], SpendOf(m, x[m]), NoTime).consumed
  + IF x[m] = "none" /\ clk > deals[m].until /\ Backed(r, m)
    THEN deals[m].units ELSE 0

\* The same, each evaluated once.
LeftOnce(src, m, clk, a, R) ==
  The({LeftAfter(src, m, clk, x, r) : x \in {a}, r \in {R}})

LEMMA LeftOnceIs ==
  ASSUME NEW src, NEW m, NEW clk, NEW a, NEW R
  PROVE  LeftOnce(src, m, clk, a, R) = LeftAfter(src, m, clk, a, R)
<1>1. {LeftAfter(src, m, clk, x, r) : x \in {a}, r \in {R}} = {LeftAfter(src, m, clk, a, R)}
  OBVIOUS
<1>2. The({LeftAfter(src, m, clk, a, R)}) = LeftAfter(src, m, clk, a, R)
  BY TheOne
<1> QED BY <1>1, <1>2 DEF LeftOnce

\* What the client counts as free is what the next spend finds.
FreeAs(c, fetched, src, clk, view) ==
  /\ Spends(c, src) = {} => Free(c, fetched, src, clk) = Credited(src)
  /\ \A m \in Numbers :
       Spends(c, src) # {} /\ m = Max(Spends(c, src)) /\ m \in OwnRuns(view)[m].backed =>
         \E x \in Nat :
           /\ x = OwnRuns(view)[m].consumed
                  + IF Dead(SpendOf(m, AnswersIn(view)[m]), clk) THEN 0 ELSE deals[m].units
           /\ Free(c, fetched, src, clk) = Credited(src) - x

LEMMA FreeIs ==
  ASSUME IInv, NEW c \in Chains, NEW src, NEW clk \in Nat, NEW fetched, NEW view,
         view = ClientView(c, fetched), ViewOf(c, view)
  PROVE  FreeAs(c, fetched, src, clk, view)
<1>0. PICK a, R, S : /\ a = AnswersIn(view) /\ R = RunsOn(view, a, FALSE) /\ R = OwnRuns(view)
                     /\ S = Spends(c, src)
  BY DEF OwnRuns
<1>1. SpendsOf(view.blocks, c, src) = S
  BY <1>0 DEF IInv, Placed, SpendsOf, Spends, DealRef, Own, ViewOf
<1>2. ASSUME S = {}
      PROVE  Free(c, fetched, src, clk) = Credited(src)
  BY <1>0, <1>1, <1>2 DEF Free
<1>3. ASSUME NEW m, S # {}, m = Max(S), m \in Numbers, m \in R[m].backed
      PROVE  \E x \in Nat : /\ x = R[m].consumed + IF Dead(SpendOf(m, a[m]), clk) THEN 0
                                                   ELSE deals[m].units
                            /\ Free(c, fetched, src, clk) = Credited(src) - x
  <2>1. PICK s, u, p, v : /\ s = SpendOf(m, a[m]) /\ u = deals[m].units
                          /\ p = R[m].consumed /\ v = deals[m].until
    OBVIOUS
  <2>2. Judged(view, a, FALSE, R)
    BY <1>0, RunsAreJudged
  <2>3. R[m] \in RunType /\ p \in Nat /\ u \in Nat /\ v \in Nat
    <3>1. R[m] \in RunType
      BY <1>3, <2>2 DEF Judged
    <3>2. R[m].consumed \in Nat
      BY <3>1 DEF RunType
    <3>3. deals[m].units \in Nat /\ deals[m].until \in Nat
      BY <1>3, TypeFacts DEF IInv
    <3> QED BY <2>1, <3>1, <3>2, <3>3
  <2>4. Settle(R[m], s, NoTime).consumed = p + IF Dead(s, NoTime) THEN 0 ELSE u
    <3>1. PICK g, x : g = R[m] /\ x = a[m]
      OBVIOUS
    <3>2. g \in RunType /\ m \in g.backed /\ s = SpendOf(m, x)
      BY <1>3, <2>1, <2>3, <3>1
    <3>3. Settle(g, SpendOf(m, x), NoTime).consumed =
            g.consumed + IF m \in g.backed /\ ~Dead(SpendOf(m, x), NoTime)
                         THEN deals[m].units ELSE 0
      BY <1>3, <3>2, SettleType
    <3>4. Settle(g, s, NoTime).consumed = p + IF ~Dead(s, NoTime) THEN u ELSE 0
      BY <2>1, <3>1, <3>2, <3>3
    <3> QED BY <2>3, <3>1, <3>4
  <2>5. Free(c, fetched, src, clk) =
          Credited(src) - Settle(R[m], s, NoTime).consumed
          + IF a[m] = "none" /\ clk > v THEN u ELSE 0
    <3>1. Free(c, fetched, src, clk) = LeftOnce(src, m, clk, a, R)
      BY <1>0, <1>1, <1>3 DEF Free, LeftOnce, LeftAfter
    <3>2. Free(c, fetched, src, clk) = LeftAfter(src, m, clk, a, R)
      BY <3>1, LeftOnceIs
    <3> QED BY <1>3, <2>1, <3>2 DEF Backed, LeftAfter
  <2>6. /\ Dead(s, NoTime) <=> a[m] = "refused"
        /\ Dead(s, clk) <=> a[m] = "refused" \/ (a[m] = "none" /\ clk > v)
    <3>1. /\ s.stands = TRUE /\ s.move = FALSE /\ s.answer = a[m]
          /\ s.until = v
      BY <2>1 DEF SpendOf
    <3>2. ~(NoTime > v)
      BY <2>3 DEF NoTime
    <3> QED BY <3>1, <3>2 DEF Dead
  <2>7. Credited(src) \in Nat
    <3>1. Len(deals) \in Nat /\ S \in SUBSET (0..Len(deals))
      BY <1>0, TypeFacts DEF IInv, Spends
    <3>2. m \in S
      BY <1>3, <3>1, MaxNat
    <3>3. src = deals[m].src /\ src \in 0..m - 1 /\ m \in 1..Len(deals)
      BY <1>0, <1>3, <3>2, TypeFacts DEF IInv, Threaded, Spends
    <3>4. src = 0 \/ src \in Numbers
      BY <3>1, <3>3 DEF Numbers
    <3> QED BY <3>4, TypeFacts, OffersAssumption DEF IInv, Credited
  <2>8. PICK w, e, f : /\ w = Credited(src) /\ (e <=> a[m] = "refused")
                       /\ (f <=> a[m] = "none" /\ clk > v)
    OBVIOUS
  <2>9. Free(c, fetched, src, clk) = w - (p + IF e THEN 0 ELSE u) + IF f THEN u ELSE 0
    BY <2>4, <2>5, <2>6, <2>8
  <2>10. ~(e /\ f)
    BY <2>8
  <2>11. PICK x : x = p + IF e \/ f THEN 0 ELSE u
    OBVIOUS
  <2>12. x \in Nat /\ w - (p + IF e THEN 0 ELSE u) + (IF f THEN u ELSE 0) = w - x
    BY <2>3, <2>7, <2>8, <2>10, <2>11
  <2>13. x = R[m].consumed + IF Dead(SpendOf(m, a[m]), clk) THEN 0 ELSE deals[m].units
    BY <2>1, <2>6, <2>8, <2>11
  <2> QED BY <2>8, <2>9, <2>12, <2>13
<1> QED BY <1>0, <1>2, <1>3 DEF FreeAs


\* What a payer who missed no answer signs is backed.
LEMMA OfferBacks ==
  ASSUME Lag = 0, Losses = FALSE, Apt, Apt', AcceptedBacked, Pays,
         NEW c \in Chains, NEW fetched \in Learnt(c, now), NEW to \in Chains \ {c},
         NEW src \in {0} \cup Numbers, NEW units \in 1..Credit, NEW posted \in Post,
         Offer(c, src, to, units, now, fetched, posted),
         AllBacked(c), ~Missed(c)', NEW d, d = Len(deals) + 1
  PROVE  Backed(TableRuns, d)'
<1>1. [Next]_vars /\ now \in Nat /\ now \in Clocks
  <2>1. now \in Nat
    BY TypeFacts DEF Apt, IInv
  <2> QED BY <2>1 DEF Next, Clocks
<1>2. Grown /\ Silent
  <2>1. Grown
    BY <1>1, StepGrows DEF Apt
  <2>2. Answers => Numbers' = Numbers
    BY DEF Answers, RefuseOutright, AcceptAuto, AcceptByHand, Refuse, Reply, Numbers
  <2>3. Numbers' # Numbers
    <3>1. Numbers' = Numbers \cup {d} /\ Numbers = 1..Len(deals) /\ Len(deals) \in Nat
      BY <1>1, OfferWrite, TypeFacts DEF Apt, IInv
    <3>2. d \notin 1..Len(deals)
      BY <3>1
    <3> QED BY <3>1, <3>2
  <2> QED BY <1>1, <2>1, <2>2, <2>3, StepReplies DEF Apt
<1>3. PICK N \in Nat : N = Len(deals) /\ Numbers = 1..N /\ d = N + 1
  BY TypeFacts DEF Apt, IInv
<1>4. /\ Numbers' = Numbers \cup {d} /\ \A e \in Numbers : deals'[e] = deals[e]
      /\ deals'[d].from = c /\ deals'[d].index = Len(purse[c]) + 1
      /\ deals'[d].src = src /\ deals'[d].units = units /\ deals'[d].time = now
      /\ deals'[d].prev = LastSpend(c, src)
  <2>1. deals'[d] = [from |-> c, index |-> Len(purse[c]) + 1, to |-> to, src |-> src,
                     units |-> units, time |-> now, until |-> now + Term,
                     prev |-> LastSpend(c, src)]
    BY <1>1, OfferWrite DEF Apt
  <2>2. Numbers' = Numbers \cup {d} /\ \A e \in Numbers : deals'[e] = deals[e]
    BY <1>1, OfferWrite DEF Apt
  <2> QED BY <2>1, <2>2
<1>5. now' = now /\ known'[c] = fetched /\ HasBill(c, fetched, src)
      /\ units \in 1..Free(c, fetched, src, now)
  BY DEF Offer, Apt, IInv, TypeOK
<1>6. PICK view, a, R, T, t, S :
        /\ view = ClientView(c, fetched) /\ a = AnswersIn(view) /\ R = OwnRuns(view)
        /\ T = TableRuns /\ t = AnswersIn(TableView) /\ S = Spends(c, src)
  OBVIOUS
<1>7. ViewOf(c, view) /\ view = [blocks |-> view.blocks, running |-> view.running]
  BY <1>6, ClientViewIs DEF Apt, ClientView
<1>8. Heeds(c, view)
  <2>1. ASSUME NEW e \in Numbers, NEW i, deals[e].from = c, now > deals[e].until,
               IsReply(deals[e].to, i, e)
        PROVE  <<deals[e].to, i>> \in fetched
    <3>1. PICK k : k = deals[e].to /\ k \in Chains
      BY <2>1, TypeFacts DEF Apt, IInv
    <3>2. IsReply(k, i, e)' /\ e \in Numbers' /\ deals'[e] = deals[e]
      BY <1>2, <2>1, <3>1 DEF IsReply, Grown
    <3> QED BY <1>5, <2>1, <3>1, <3>2 DEF Missed
  <2> QED BY <1>6, <2>1, AskedHeeds
<1>9. Brings(c, view, src)
  BY <1>3, <1>5, <1>6 DEF HasBill, Brings, ClientView
<1>10. ASSUME src # 0
       PROVE  /\ src \in Numbers /\ src \in T[src].backed
              /\ \E i : IsReply(c, i, src) /\ purse[c][i].answer = "accepted"
  <2>1. src \in Numbers /\ deals[src].to = c /\ AnswerIn(view, src) = "accepted"
    BY <1>9, <1>10 DEF Brings
  <2>2. PICK i : Heard(view, src, i)
    BY <1>7, <2>1, ClientReads DEF Apt
  <2>3. IsReply(c, i, src) /\ purse[c][i].answer = "accepted"
    BY <1>7, <2>1, <2>2, ClientReads DEF Apt, Heard
  <2>4. AnswerIn(TableView, src) = "accepted"
    BY <2>1, <2>3 DEF Apt, ReplyCounts
  <2> QED BY <1>6, <2>1, <2>3, <2>4 DEF AcceptedBacked, Backed
<1>11. \A n \in S : n \in Numbers /\ deals[n].from = c /\ deals[n].src = src
       /\ a[n] = t[n] /\ n \in T[n].backed /\ n \in R[n].backed
       /\ R[n].consumed = T[n].consumed
  <2>1. \A n \in S : R[n].consumed = T[n].consumed /\ n \in R[n].backed
    BY <1>6, <1>7, <1>8, <1>9, ThreadAgrees
  <2>2. \A n \in S : n \in Numbers /\ deals[n].from = c /\ deals[n].src = src
    BY <1>6 DEF Spends
  <2>3. \A n \in S : n \in T[n].backed
    BY <1>6, <2>2 DEF AllBacked, Backed
  <2>4. \A n \in S : a[n] = t[n]
    BY <1>6, <1>7, <1>8, <2>2, HeededAnswers DEF AnswersIn
  <2> QED BY <2>1, <2>2, <2>3, <2>4
<1>12. PICK Q, b, kame : /\ Q = TableRuns' /\ b = AnswersIn(TableView)' /\ kame = Came'
                         /\ Rule(Q, b, kame)'
  BY DEF Apt, Ruling
<1>13. /\ \A e \in Numbers : b[e] = t[e]
       /\ \A e \in Numbers : e \in T[e].backed =>
            e \in Q[e].backed /\ Q[e].consumed <= T[e].consumed
  <2>1. \A e \in Numbers : AnswerIn(TableView, e)' = AnswerIn(TableView, e)
    BY <1>2, SilentKeeps DEF Apt
  <2>2. /\ Rule(T, t, Came) /\ \E k : k = Came' /\ Rule(Q, b, k)
        /\ Came \subseteq Numbers /\ Came \subseteq Came'
        /\ \A e \in Numbers : t[e] = AnswerIn(TableView, e) /\ b[e] = AnswerIn(TableView, e)'
    BY <1>2, <1>6, <1>12, <2>1, RulesOfStep DEF Apt
  <2>3. \A e \in Numbers : b[e] = t[e]
    BY <2>1, <2>2
  <2>4. PICK came, k : came = Came /\ k = Came' /\ Rule(T, t, came) /\ Rule(Q, b, k)
                       /\ came \cap Numbers \subseteq k
    BY <2>2
  <2>5. DeadStays(t, b)
    BY <2>3 DEF DeadStays
  <2>6. \A e \in Numbers : Follows(T, Q, e)
    BY <2>4, <2>5, RulesFollow DEF Apt
  <2> QED BY <2>3, <2>6 DEF Follows
<1>14. Earlier(d)' = S
  <2>1. 1..d - 1 = Numbers
    BY <1>3
  <2> QED BY <1>4, <1>6, <2>1 DEF Earlier, Spends
<1>15. deals'[d].prev = IF S = {} THEN NoRef ELSE Max(S)
  <2>1. SpendsOf(Own(c), c, src) = S
    BY <1>6 DEF Apt, IInv, Placed, SpendsOf, Spends, DealRef, Own
  <2> QED BY <1>4, <2>1 DEF LastSpend
<1>16. d \in kame
  <2>1. CASE src = 0
    BY <1>4, <1>12, <2>1 DEF Came
  <2>2. CASE src # 0
    <3>1. PICK i : IsReply(c, i, src) /\ purse[c][i].answer = "accepted"
      BY <1>10, <2>2
    <3>2. IsReply(c, i, src)' /\ purse'[c][i] = purse[c][i]
      BY <1>2, <3>1 DEF IsReply, Grown
    <3>3. i < Len(purse[c]) + 1
      <4>1. i \in 1..Len(purse[c]) /\ Len(purse[c]) \in Nat
        BY <3>1, TypeFacts DEF IsReply, Apt, IInv
      <4> QED BY <4>1
    <3> QED BY <1>4, <1>12, <3>1, <3>2, <3>3 DEF Came
  <2> QED BY <2>1, <2>2
<1>17. Q[d].consumed \in Nat /\ units + Q[d].consumed <= Credited(src)
  <2>1. PICK m, f : m = deals'[d].prev /\ f = Free(c, fetched, src, now)
    OBVIOUS
  <2>2. /\ Q[d].consumed \in Nat
        /\ S = {} => Q[d].consumed = 0
        /\ S # {} => Q[d].consumed = Q[m].consumed
             + IF m \in Q[m].backed /\ ~Dead(SpendOf(m, b[m]), deals[d].time)'
               THEN deals'[m].units ELSE 0
    BY <1>4, <1>12, <1>14, <2>1 DEF Rule, RuleOf
  <2>3. units \in Nat /\ units \in 1..f
    BY <1>5, <2>1, OffersAssumption
  <2>6. FreeAs(c, fetched, src, now, view)
    BY <1>1, <1>6, <1>7, FreeIs DEF Apt
  <2>4. CASE S = {}
    <3>1. f = Credited(src)
      BY <1>6, <2>1, <2>4, <2>6 DEF FreeAs
    <3>2. Credited(src) \in Nat
      <4>1. src = 0 \/ src \in Numbers
        OBVIOUS
      <4> QED BY <4>1, TypeFacts, OffersAssumption DEF Apt, IInv, Credited
    <3> QED BY <2>2, <2>3, <2>4, <3>1, <3>2
  <2>5. CASE S # {}
    <3>1. m = Max(S) /\ m \in S
      <4>1. S \in SUBSET (0..N)
        BY <1>3, <1>11
      <4> QED BY <1>15, <2>1, <2>5, <4>1, MaxNat
    <3>2. PICK x \in Nat :
            /\ x = R[m].consumed + IF Dead(SpendOf(m, a[m]), now) THEN 0 ELSE deals[m].units
            /\ f = Credited(src) - x
      <4>1. m \in Numbers /\ m \in R[m].backed
        BY <1>11, <3>1
      <4> QED BY <1>6, <2>1, <2>5, <2>6, <3>1, <4>1 DEF FreeAs
    <3>3. Dead(SpendOf(m, b[m]), deals[d].time)' <=> Dead(SpendOf(m, a[m]), now)
      <4>1. m \in Numbers /\ b[m] = a[m] /\ deals'[m] = deals[m] /\ deals'[d].time = now
        BY <1>4, <1>11, <1>13, <3>1
      <4> QED BY <4>1 DEF SpendOf
    <3>4. /\ deals'[m].units = deals[m].units /\ deals[m].units \in Nat
          /\ Q[m].consumed <= R[m].consumed /\ m \in Q[m].backed
      BY <1>4, <1>11, <1>13, <3>1, TypeFacts DEF Apt, IInv
    <3>5. Q[m].consumed \in Nat /\ R[m].consumed \in Nat
      <4>1. m \in Numbers /\ m \in Numbers' /\ R[m].consumed = T[m].consumed
        BY <1>4, <1>11, <3>1
      <4>2. Q[m].consumed \in Nat
        BY <1>12, <4>1 DEF Rule, RuleOf
      <4>3. T[m].consumed \in Nat
        BY <1>6, <4>1 DEF Apt, Ruling, Rule, RuleOf
      <4> QED BY <4>1, <4>2, <4>3
    <3>6. PICK p, q, u, g : /\ p = R[m].consumed /\ q = Q[m].consumed /\ u = deals[m].units
                            /\ (g <=> Dead(SpendOf(m, a[m]), now))
      OBVIOUS
    <3>7. x = p + (IF g THEN 0 ELSE u) /\ Q[d].consumed = q + (IF g THEN 0 ELSE u) /\ q <= p
      BY <2>2, <2>5, <3>2, <3>3, <3>4, <3>6
    <3>8. Q[d].consumed <= x
      BY <3>4, <3>5, <3>6, <3>7
    <3>9. Credited(src) \in Nat
      <4>1. src = 0 \/ src \in Numbers
        OBVIOUS
      <4> QED BY <4>1, TypeFacts, OffersAssumption DEF Apt, IInv, Credited
    <3> QED BY <2>2, <2>3, <3>2, <3>8, <3>9
  <2> QED BY <2>4, <2>5
<1>18. Credited(src)' = Credited(src)
  BY <1>4 DEF Credited
<1>19. S # {} => Max(S) \in Q[Max(S)].backed
  <2>1. S \in SUBSET (0..N)
    BY <1>3, <1>11
  <2> QED BY <1>11, <1>13, <2>1, MaxNat
<1>20. src # 0 => src \in Q[src].backed
  BY <1>10, <1>13
<1>21. d \in Q[d].backed
  <2>1. /\ Earlier(d)' = S /\ deals'[d].src = src /\ deals'[d].units = units
        /\ S # {} => deals'[d].prev \in Q[deals'[d].prev].backed
        /\ d \in Numbers'
    BY <1>4, <1>14, <1>15, <1>19
  <2>2. RuleOf(Q, b, kame, d)'
    BY <1>12, <2>1 DEF Rule
  <2> QED BY <1>16, <1>17, <1>18, <1>20, <2>1, <2>2 DEF RuleOf
<1> QED BY <1>12, <1>21 DEF Backed

\* A new offer is one its payer just signed.
LEMMA SignedBy ==
  ASSUME Lag = 0, IInv, [Next]_vars, NEW d \in Numbers', d \notin Numbers
  PROVE  /\ Pays /\ d = Len(deals) + 1
         /\ \E c \in Chains : \E fetched \in Learnt(c, now), to \in Chains \ {c},
              src \in {0} \cup Numbers, units \in 1..Credit, posted \in Post :
                /\ deals'[d].from = c
                /\ Offer(c, src, to, units, now, fetched, posted)
<1>1. deals' # deals
  BY DEF Numbers
<1>2. Pays
  <2>1. CASE Uploads \/ Learns
    BY <1>1, <2>1 DEF Uploads, Upload, Learns, Refresh
  <2>2. CASE Answers
    BY <1>1, <2>2 DEF Answers, RefuseOutright, AcceptAuto, AcceptByHand, Refuse, Reply
  <2>3. CASE Dates \/ Arrives \/ Tick \/ UNCHANGED vars
    BY <1>1, <2>3 DEF Dates, Note, Merge, Arrives, Gossip, Tick, vars
  <2> QED BY <2>1, <2>2, <2>3 DEF Next
<1>3. PICK c \in Chains, clk \in Clocks :
        \E fetched \in Learnt(c, clk), to \in Chains \ {c}, src \in {0} \cup Numbers,
           units \in 1..Credit, posted \in Post :
          Offer(c, src, to, units, clk, fetched, posted)
  BY <1>2 DEF Pays
<1>4. PICK fetched \in Learnt(c, clk), to \in Chains \ {c}, src \in {0} \cup Numbers,
           units \in 1..Credit, posted \in Post :
        Offer(c, src, to, units, clk, fetched, posted)
  BY <1>3
<1>5. clk = now
  <2>1. now \in Nat /\ clk \in 0..now /\ now - clk <= 0
    BY TypeFacts DEF IInv, Clocks
  <2> QED BY <2>1
<1>6. PICK n : n = Len(deals) + 1
  OBVIOUS
<1>7. Numbers' = Numbers \cup {n} /\ deals'[n].from = c
  <2>1. Numbers' = Numbers \cup {Len(deals) + 1}
        /\ deals'[Len(deals) + 1] =
             [from |-> c, index |-> Len(purse[c]) + 1, to |-> to, src |-> src,
              units |-> units, time |-> clk, until |-> clk + Term,
              prev |-> LastSpend(c, src)]
    BY <1>3, <1>4, OfferWrite
  <2> QED BY <1>6, <2>1
<1>8. d = n
  BY <1>7
<1>9. Offer(c, src, to, units, now, fetched, posted) /\ fetched \in Learnt(c, now)
      /\ deals'[d].from = c
  BY <1>4, <1>5, <1>7, <1>8
<1> QED BY <1>2, <1>6, <1>8, <1>9

\* A payer who missed no answer for good has signed nothing but backed paper.
Kept == \A c \in Chains : Missed(c) \/ AllBacked(c)

LEMMA KeptHolds ==
  ASSUME Lag = 0, Losses = FALSE
  PROVE  Spec => []Kept
<1>1. Init => Kept
  <2> SUFFICES ASSUME Init PROVE Kept
    OBVIOUS
  <2>1. Numbers = {}
    BY DEF Init, Numbers
  <2> QED BY <2>1 DEF Kept, AllBacked
<1>2. ASSUME Apt, Apt', AcceptedBacked, Kept, [Next]_vars
      PROVE  Kept'
  <2> SUFFICES ASSUME NEW c \in Chains, ~Missed(c)'
               PROVE  AllBacked(c)'
    BY DEF Kept
  <2>1. Grown
    BY <1>2, AptStep
  <2>2. AllBacked(c)
    BY <1>2, <2>1, MissedStays DEF Kept, Apt
  <2>3. ASSUME NEW d \in Numbers', deals'[d].from = c
        PROVE  Backed(TableRuns, d)'
    <3>1. CASE d \in Numbers
      <4>1. Backed(TableRuns, d)
        BY <2>1, <2>2, <2>3, <3>1 DEF AllBacked, Grown
      <4> QED BY <1>2, <3>1, <4>1, AptStep
    <3>2. CASE d \notin Numbers
      <4>1. /\ Pays /\ d = Len(deals) + 1
            /\ \E k \in Chains : \E fetched \in Learnt(k, now), to \in Chains \ {k},
                 src \in {0} \cup Numbers, units \in 1..Credit, posted \in Post :
                   /\ deals'[d].from = k
                   /\ Offer(k, src, to, units, now, fetched, posted)
        BY <1>2, <3>2, SignedBy DEF Apt
      <4>2. PICK fetched \in Learnt(c, now), to \in Chains \ {c},
                 src \in {0} \cup Numbers, units \in 1..Credit, posted \in Post :
              Offer(c, src, to, units, now, fetched, posted)
        BY <2>3, <4>1
      <4> QED BY <1>2, <2>2, <4>1, <4>2, OfferBacks
    <3> QED BY <3>1, <3>2
  <2> QED BY <2>3 DEF AllBacked
<1> QED BY <1>1, <1>2, AptHolds, AcceptedBackedHolds, PTL DEF Spec

LEMMA InformedKeeps == Apt /\ Kept /\ Len(deals) # 0 => InformedIsBacked
<1> SUFFICES ASSUME Apt, Kept, Len(deals) # 0
             PROVE  InformedIsBacked
  OBVIOUS
<1>1. PICK d, c : d = Len(deals) /\ c = deals[d].from
  OBVIOUS
<1>2. d \in Numbers /\ c \in Chains
  BY <1>1, TypeFacts DEF Apt, IInv
<1>3. ASSUME Informed(c), Missed(c)
      PROVE  FALSE
  <2>1. PICK e \in Numbers : deals[e].from = c /\ \E i : IsReply(deals[e].to, i, e)
                                 /\ <<deals[e].to, i>> \notin known[c]
    BY <1>3 DEF Missed
  <2>2. PICK k, i : k = deals[e].to /\ IsReply(k, i, e) /\ <<k, i>> \notin known[c]
    BY <2>1
  <2>3. CountedIn(TableView, e) = {ReplyAt(TableView, <<k, i>>)}
    BY <2>2, AnswerKnown DEF Apt
  <2>4. PICK x : x = ReplyAt(TableView, <<k, i>>)
    OBVIOUS
  <2>5. x.author = k /\ x.index = i
    BY <2>4 DEF ReplyAt
  <2>6. <<x.author, x.index>> \in known[c]
    BY <1>3, <2>1, <2>3, <2>4 DEF Informed
  <2> QED BY <2>2, <2>5, <2>6
<1>4. Informed(c) => Backed(TableRuns, d)
  BY <1>1, <1>2, <1>3 DEF Kept, AllBacked
<1> QED BY <1>1, <1>4 DEF InformedIsBacked, UploadedIsBacked

\* With exact clocks and an aggregator at hand, payer and aggregator count a bill
\* alike: an offer of a payer who knows the answers the aggregator counts is
\* backed on the table from the moment it is signed.
THEOREM InformedOffersAreBacked ==
  ASSUME Lag = 0, Losses = FALSE
  PROVE  Spec => InformedOfferIsBacked
<1>1. (Apt /\ Kept /\ Len(deals) # 0 => InformedIsBacked)'
  BY InformedKeeps, PTL
<1>2. ASSUME Apt, Apt', Kept', [Next]_vars
      PROVE  Signed => InformedIsBacked'
  <2>1. Len(deals) \in Nat /\ Signed => Len(deals') # 0
    BY DEF Signed
  <2>2. Len(deals) \in Nat
    BY <1>2, TypeFacts DEF Apt, IInv
  <2> QED BY <1>1, <1>2, <2>1, <2>2
<1> QED BY <1>2, AptHolds, KeptHolds, PTL DEF Spec, InformedOfferIsBacked

=============================================================================
