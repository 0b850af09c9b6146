------------------------------- MODULE Goods -------------------------------
(***************************************************************************)
(* Goods change hands: a maker releases what he made, whole or by portions *)
(* of its lot, spends it in a product, writes it off; buyers offer deals,  *)
(* sellers answer them, holders sell on, and the addressee of a pre-signed *)
(* return buys back.  The table of the aggregator (compute_deals) says     *)
(* which deals count.                                                      *)
(*                                                                         *)
(* Every record goes to the aggregator as it is written; prices and paper  *)
(* are left out: payer, seller and table compute a price from the same     *)
(* signed records, and Offers is about paper.                              *)
(***************************************************************************)
EXTENDS Integers, Sequences, FiniteSets, Lots

CONSTANTS
  Parties,   \* owners
  Maker,     \* the one who makes goods
  Qty,       \* pieces the first work made
  Term,      \* how long a release lives
  Careful,   \* owners also keep to what the commands leave to them (Careful => ...)
  MaxLog,    \* bound: records in all
  MaxTime    \* bound: the last date

ASSUME GoodsAssumption ==
  /\ Maker \in Parties
  /\ Qty \in Nat \ {0} /\ Term \in Nat \ {0}
  /\ Careful \in BOOLEAN
  /\ MaxLog \in Nat \ {0} /\ MaxTime \in Nat

Nobody == "nobody"

VARIABLES
  log,  \* all records; a record's place stands for its hash
  now   \* the clock

vars == <<log, now>>

NoBack == [to |-> Nobody, until |-> 0]

Blank ==
  [kind |-> "none", by |-> Nobody, time |-> 0,
   qty |-> 0, units |-> {}, customer |-> Nobody,              \* work
   work |-> 0, holding |-> 0, lots |-> <<>>,                  \* what it is about
   to |-> Nobody, expires |-> 0, back |-> NoBack,             \* release, deal
   release |-> 0, until |-> 0, pre |-> FALSE,                 \* deal
   deal |-> 0, accepted |-> FALSE]                            \* reply

Ids(kind) == {i \in 1..Len(log) : log[i].kind = kind}
Deals == Ids("deal")

\* What a lot link is taken from: the record's own work, or a purchase.
Taking(src, link) == [src |-> src, link |-> link]

\* The links of lot `key`, as their author finds them: <<record, place>>.
Takings(me, key) ==
  {<<i, j>> \in (1..Len(log)) \X (1..2) :
     log[i].by = me /\ j <= Len(log[i].lots) /\ log[i].lots[j].src = key}

LinkOf(t) == log[t[1]].lots[t[2]].link

-----------------------------------------------------------------------------
(* The table: compute_deals and recognize_deals.                           *)

\* What a deal completes: a release, or a purchase bought back.
ReleaseOf(i) == IF log[i].release \in Ids("release") THEN log[i].release ELSE 0
BackOf(i)    == IF log[i].release \in Deals THEN log[i].release ELSE 0

Seller(i) == log[i].to

Answers(i) == {r \in Ids("reply") : log[r].deal = i}

\* Accepted in time, or paid with paper the holder agreed to beforehand.
Answered(i) ==
  log[i].pre \/ \E r \in Answers(i) : log[r].accepted /\ log[r].time <= log[i].until

\* addressed_to: by a release not yet over, or by the work itself.
AddressedTo(d, work) ==
  IF d.release # 0
  THEN LET r == log[d.release] IN r.work = work /\ r.to = d.by /\ d.time < r.expires
  ELSE log[work].customer = d.by

\* honours_buyout.
Honours(d, r) == r # 0 /\ log[r].back # NoBack => d.back = log[r].back

\* completes_buyback, the price left out.
CompletesBuyback(d, h) ==
  /\ d.by = log[h].back.to /\ d.to = log[h].by
  /\ d.time < log[h].back.until
  /\ d.work = log[h].work

\* Deals the seller named the payer for; a resale or a buyback stands on a
\* purchase that happened.
Addressed ==
  LET BoughtBack(p) ==
        \E j \in Deals : BackOf(j) = p /\ Answered(j) /\ CompletesBuyback(log[j], p)
      Ok[i \in Deals] ==
        LET d == log[i]  h == BackOf(i)  r == ReleaseOf(i) IN
        IF h # 0 THEN Ok[h] /\ Answered(h) /\ CompletesBuyback(d, h)
        ELSE /\ AddressedTo(d, d.work)
             /\ Honours(d, r)
             /\ r # 0 /\ log[r].holding # 0 =>
                  LET p == log[r].holding IN
                  /\ Ok[p] /\ Answered(p) /\ log[p].work = d.work
                  /\ log[p].back # NoBack =>
                       /\ log[r].time < log[p].back.until => log[r].to = log[p].back.to
                       /\ ~BoughtBack(p)
  IN [i \in Deals |-> Ok[i]]

\* The lot a purchase put in the buyer's hands, or the one a work made.
Holding ==
  LET Lot[i \in 1..Len(log)] ==
        IF log[i].kind = "work" THEN [by |-> log[i].by, qty |-> log[i].qty, units |-> log[i].units]
        ELSE LET got == IF BackOf(i) # 0 THEN Lot[BackOf(i)]
                        ELSE IF ReleaseOf(i) # 0 /\ log[ReleaseOf(i)].lots # <<>>
                        THEN log[ReleaseOf(i)].lots[1].link
                        ELSE Lot[log[i].work]
             IN [by |-> log[i].by, qty |-> got.qty, units |-> got.units]
  IN [i \in Deals \cup Ids("work") |-> Lot[i]]

\* The links the table reads of lot `key`: of two takings in one record the
\* first.
Observed(key, taken) ==
  {[id |-> t[1], link |-> LinkOf(t), time |-> log[t[1]].time,
    expires |-> log[t[1]].expires, taken |-> t[1] \in taken] :
     t \in {<<i, j>> \in UNION {Takings(p, key) : p \in Parties} :
              \A k \in 1..(j - 1) : log[i].lots[k].src # key}}

\* Of an addressed purchase nothing is sold on before the term, or ever once
\* it is bought back.
Refused(key, l, boughtBack) ==
  /\ log[key].kind = "deal" /\ log[key].back # NoBack
  /\ l.expires # 0
  /\ key \in boughtBack \/ l.time < log[key].back.until

\* Whether a deal may count; Valid tells the links that check out.
Sound(valid) ==
  LET Ok[i \in 1..Len(log)] ==
        LET d == log[i]  r == ReleaseOf(i) IN
        IF BackOf(i) # 0 THEN Ok[BackOf(i)]
        ELSE IF r # 0 /\ log[r].holding # 0
        THEN Ok[log[r].holding] /\ r \in valid[log[r].holding]
        ELSE /\ \A j \in 1..Len(log[d.work].lots) : d.work \in valid[log[d.work].lots[j].src]
             /\ r # 0 /\ log[r].lots # <<>> => r \in valid[d.work]
  IN [i \in Deals |-> Ok[i]]

\* What a deal bought, and from whose stock.
Portion(i) == (ReleaseOf(i) # 0 /\ log[ReleaseOf(i)].lots # <<>>) \/ BackOf(i) # 0
Source(i)  == IF BackOf(i) # 0 THEN BackOf(i)
              ELSE IF ReleaseOf(i) # 0 /\ log[ReleaseOf(i)].holding # 0
              THEN log[ReleaseOf(i)].holding ELSE log[i].work
Result(i)  == IF Portion(i) THEN log[i].release ELSE log[i].work

\* Sold whole and by portions.
Mixed(i, live) == \E j \in live : Source(j) = Source(i) /\ Portion(j) # Portion(i)

\* The other deals on what deal i bought.
Rivals(i, live) == {j \in live \ {i} : Source(j) = Source(i) /\ Result(j) = Result(i)}

\* recognize_deals, of the deals addressed and settled: the hours of a result
\* given twice count for nobody, of one buyer's deals the first counts.
Standing(i, live, sound) ==
  IF i \notin live THEN "none"
  ELSE IF Mixed(i, live) THEN "contested"
  ELSE IF ~sound[i] THEN "unsound"
  ELSE IF \E j \in Rivals(i, live) : log[j].by # log[i].by THEN "contested"
  ELSE IF \E j \in Rivals(i, live) : j < i THEN "repeated"
  ELSE "recognized"

Moved == {"recognized", "repeated", "contested", "unsound"}

\* Mutant of TakenBy: a portion that was sold does not show.
TakenByWhole(live) == {ReleaseOf(i) : i \in {j \in live : ~Portion(j)}} \ {0}

\* The releases a live deal took.
TakenBy(live) == {ReleaseOf(i) : i \in live} \ {0}

Table ==
  LET addressed  == Addressed
      live       == {i \in Deals : addressed[i] /\ Answered(i)}
      taken      == TakenBy(live)
      boughtBack == {BackOf(i) : i \in live} \ {0}
      holding    == Holding
      lots       == Ids("work") \cup live
      links      == [k \in Deals \cup Ids("work") |-> Observed(k, taken)]
      valid      == [k \in Deals \cup Ids("work") |->
                       IF k \in lots
                       THEN CheckLot(holding[k].qty, holding[k].units,
                                     {l \in links[k] : ~Refused(k, l, boughtBack)})
                       ELSE {}]
      sound      == Sound(valid)
  IN [live |-> live, taken |-> taken, boughtBack |-> boughtBack, holding |-> holding,
      links |-> links, valid |-> valid,
      standing |-> [i \in Deals |-> Standing(i, live, sound)]]

-----------------------------------------------------------------------------
(* The commands.  T is the table; `known` tells whether the aggregator was  *)
(* asked in vain or answered.                                              *)

Write(rec) == log' = Append(log, rec) /\ UNCHANGED now

Asked == IF Careful THEN {TRUE} ELSE BOOLEAN

Works(me) == {w \in Ids("work") : log[w].by = me}

\* Own purchases whose records can be read (load_holding).  The release of one
\* bought back is a purchase itself, and is not.
Purchases(me, T) ==
  {h \in Deals : /\ log[h].by = me /\ BackOf(h) = 0
                 /\ Careful => h \in T.live}

ReleasedWhole(me, w) ==
  \E r \in Ids("release") : log[r].by = me /\ log[r].work = w /\ log[r].lots = <<>>

\* Mutant of BackNow: what came back once comes back again.
BackNowAgain(T, me, key, known) ==
  {t[1] : t \in {t \in Takings(me, key) :
     /\ known
     /\ log[t[1]].expires # 0 /\ log[t[1]].expires <= now
     /\ t[1] \notin T.taken}}

\* The lapsed releases the next link returns: only the aggregator knows that
\* nobody took them.
BackNow(T, me, key, known) ==
  {t[1] : t \in {t \in Takings(me, key) :
     /\ known
     /\ log[t[1]].expires # 0 /\ log[t[1]].expires <= now
     /\ t[1] \notin T.taken
     /\ \A u \in Takings(me, key) : t[1] \notin LinkOf(u).returns}}

Enough(lot, before, q) == before + q <= lot.qty

\* take_from_lot: the links that may come next, taking q of the lot.
NextLinks(T, me, key, lot, q, known) ==
  LET own    == Takings(me, key)
      newest == CHOOSE t \in own : \A u \in own :
                  \/ LinkOf(u).seq < LinkOf(t).seq
                  \/ LinkOf(u).seq = LinkOf(t).seq /\ t[1] <= u[1]
      back   == BackNow(T, me, key, known)
      gone   == back \cup UNION {LinkOf(t).returns : t \in own}
      held   == UNION {LinkOf(t).units : t \in {t \in own : t[1] \notin gone}}
      before == IF own = {} THEN 0
                ELSE LinkOf(newest).after - Sum(back, LAMBDA r : log[r].lots[1].link.qty)
      units  == IF lot.units = {} THEN {{}}
                ELSE {u \in SUBSET (lot.units \ held) : Cardinality(u) = q}
  IN IF ~Enough(lot, before, q) \/ (log[key].kind = "work" /\ ReleasedWhole(me, key)) THEN {}
     ELSE {IF own = {} THEN Link(0, q, q, 0, {}, u)
           ELSE Link(LinkOf(newest).seq + 1, q, before + q, newest[1], back, u) : u \in units}

\* Mutant of FreeWhole: a release to somebody else may still run.
FreeWholeAlways(T, me, w, to, known) ==
  /\ \A r \in Ids("release") : log[r].by = me /\ log[r].work = w => log[r].lots = <<>>
  /\ ~\E o \in Ids("writeoff") : log[o].by = me /\ log[o].work = w

\* One result, one deal: not what goes by portions, is written off in part,
\* runs to somebody else or is sold.  What went into a product is not looked at.
FreeWhole(T, me, w, to, known) ==
  /\ \A r \in Ids("release") : log[r].by = me /\ log[r].work = w =>
       log[r].lots = <<>> /\ (log[r].to = to \/ log[r].expires <= now)
  /\ ~\E o \in Ids("writeoff") : log[o].by = me /\ log[o].work = w
  /\ known => \A d \in Deals : log[d].work = w => T.standing[d] \notin Moved

\* --buyback: until a term past the release's the buyer sells to the addressee.
Backs(me) == {NoBack} \cup [to : {me}, until : {now + Term + 1}]

Release(me, w, to, back, lots, holding) ==
  /\ to # me
  /\ Write([Blank EXCEPT !.kind = "release", !.by = me, !.time = now, !.work = w,
                         !.holding = holding, !.lots = lots, !.to = to,
                         !.expires = now + Term, !.back = back])

ReleaseWhole(T, me) ==
  \E w \in Works(me), to \in Parties, back \in Backs(me), known \in Asked :
    /\ log[w].customer # to
    /\ Careful => log[w].customer = Nobody /\ Takings(me, w) = {}
    /\ FreeWhole(T, me, w, to, known)
    /\ Release(me, w, to, back, <<>>, 0)

ReleasePortion(T, me) ==
  \E w \in Works(me), to \in Parties, back \in Backs(me), q \in 1..Qty, known \in Asked :
    /\ log[w].customer = Nobody
    /\ \E link \in NextLinks(T, me, w, log[w], q, known) :
         Release(me, w, to, back, <<Taking(w, link)>>, 0)

\* A resale: what is under an addressed buyout waits for its term.
Resell(T, me) ==
  \E h \in Purchases(me, T), to \in Parties, back \in Backs(me), q \in 1..Qty, known \in Asked :
    /\ log[h].back # NoBack => now >= log[h].back.until /\ (known => h \notin T.boughtBack)
    /\ \E link \in NextLinks(T, me, h, T.holding[h], q, known) :
         Release(me, log[h].work, to, back, <<Taking(h, link)>>, h)

WriteOff(T, me) ==
  \E key \in Works(me) \cup Purchases(me, T), q \in 1..Qty, known \in Asked :
    /\ log[key].customer = Nobody
    /\ \E link \in NextLinks(T, me, key, T.holding[key], q, known) :
         Write([Blank EXCEPT !.kind = "writeoff", !.by = me, !.time = now,
                             !.work = IF key \in Deals THEN log[key].work ELSE key,
                             !.holding = IF key \in Deals THEN key ELSE 0,
                             !.lots = <<Taking(key, link)>>])

\* bc material add --paid: bought goods go into production.  The record of
\* bc tool add --paid takes a link too, but nobody can read it, see Codec.
TakeIntoProduction(T, me) ==
  \E h \in Purchases(me, T), q \in 1..Qty, known \in Asked :
    \E link \in NextLinks(T, me, h, T.holding[h], q, known) :
      Write([Blank EXCEPT !.kind = "asset", !.by = me, !.time = now,
                          !.lots = <<Taking(h, link)>>])

\* bc work log --spend: a product takes pieces of an own lot; each --spend is
\* worked out against the records written before the command.
LogProduct(T, me) ==
  \E w \in Works(me), q1 \in 1..Qty, q2 \in 0..Qty, customer \in Parties \cup {Nobody},
     known \in Asked :
    /\ customer # me
    /\ Careful => q2 = 0 /\ log[w].customer = Nobody
    /\ \E l1 \in NextLinks(T, me, w, log[w], q1, known) :
       \E l2 \in IF q2 = 0 THEN {l1} ELSE NextLinks(T, me, w, log[w], q2, known) :
         Write([Blank EXCEPT !.kind = "work", !.by = me, !.time = now, !.qty = 1,
                             !.customer = customer,
                             !.lots = IF q2 = 0 THEN <<Taking(w, l1)>>
                                      ELSE <<Taking(w, l1), Taking(w, l2)>>])

-----------------------------------------------------------------------------

\* An own deal on the same result that stands or waits.
OwnLiveDeal(b, w, portion, release, known) ==
  \E d \in Deals :
    /\ log[d].by = b /\ log[d].work = w
    /\ portion => log[d].release = release
    /\ IF known /\ Answers(d) # {} THEN \A r \in Answers(d) : log[r].accepted
       ELSE now <= log[d].until

\* What the table says of this result: somebody has it already.
SoldAlready(T, source, portion, release) ==
  \E d \in Deals :
    /\ T.standing[d] \in Moved /\ Source(d) = source
    /\ ~portion \/ ~Portion(d) \/ log[d].release = release

\* bc accept: the buyer of work w by release r (0: the work is made for him).
Offer(T, b) ==
  \E w \in Ids("work"), r \in Ids("release") \cup {0}, due \in now..(now + Term), known \in Asked :
    LET resale  == r # 0 /\ log[r].holding # 0
        portion == r # 0 /\ log[r].lots # <<>>
        seller  == IF resale THEN log[log[r].holding].by ELSE log[w].by
        source  == IF resale THEN log[r].holding ELSE w
        deal    == [Blank EXCEPT !.kind = "deal", !.by = b, !.time = now, !.work = w,
                                 !.to = seller, !.release = r, !.until = due,
                                 !.back = IF r # 0 THEN log[r].back ELSE NoBack]
    IN /\ seller # b
       /\ AddressedTo(deal, w)
       /\ Careful /\ r # 0 => due < log[r].expires
       /\ resale => LET back == log[source].back IN now < back.until => back.to = b
       /\ ~OwnLiveDeal(b, w, portion, r, known)
       /\ known => /\ ~SoldAlready(T, source, portion, r)
                   /\ portion => r \in T.valid[source]
       /\ Write(deal)

\* bc accept of a pre-signed return: the addressee buys back purchase h.
BuyBack(T, b) ==
  \E h \in Deals, due \in now..(now + Term), pre \in BOOLEAN, known \in Asked :
    /\ log[h].back.to = b /\ now < log[h].back.until /\ log[h].by # b
    /\ Careful => h \in T.live /\ due < log[h].back.until
    /\ ~OwnLiveDeal(b, log[h].work, TRUE, h, known)
    /\ known => ~SoldAlready(T, h, TRUE, h)
    /\ Write([Blank EXCEPT !.kind = "deal", !.by = b, !.time = now, !.work = log[h].work,
                           !.to = log[h].by, !.release = h, !.until = due, !.pre = pre])

\* check_addressed_to_us: the seller's own look at a deal.
AddressedToUs(i) ==
  LET d == log[i]  r == ReleaseOf(i)  h == BackOf(i) IN
  IF h # 0 THEN CompletesBuyback(d, h)
  ELSE /\ Honours(d, r)
       /\ AddressedTo(d, d.work)
       /\ r # 0 /\ log[r].holding # 0 =>
            LET back == log[log[r].holding].back IN d.time < back.until => back.to = d.by

\* bc transfer recv, refuse: one answer, an acceptance by the term of the offer.
Answer(me) ==
  \E i \in Deals, accepted \in BOOLEAN :
    /\ Seller(i) = me /\ Answers(i) = {} /\ ~log[i].pre
    /\ accepted => AddressedToUs(i) /\ now <= log[i].until
    /\ Write([Blank EXCEPT !.kind = "reply", !.by = me, !.time = now, !.deal = i,
                           !.accepted = accepted])

Tick == now < MaxTime /\ now' = now + 1 /\ UNCHANGED log

Command(T, me) ==
  \/ ReleaseWhole(T, me) \/ ReleasePortion(T, me) \/ Resell(T, me)
  \/ WriteOff(T, me) \/ TakeIntoProduction(T, me) \/ LogProduct(T, me)
  \/ Offer(T, me) \/ BuyBack(T, me) \/ Answer(me)

Init ==
  /\ now = 0
  /\ \E units \in {{}, 1..Qty}, customer \in {Nobody} \cup (Parties \ {Maker}) :
       log = <<[Blank EXCEPT !.kind = "work", !.by = Maker, !.qty = Qty, !.units = units,
                             !.customer = customer]>>

Next ==
  \/ Tick
  \/ Len(log) < MaxLog /\ \E T \in {Table}, me \in Parties : Command(T, me)

Spec == Init /\ [][Next]_vars

-----------------------------------------------------------------------------

\* What left lot `key` for good, as the table counts it: by deals that count,
\* by parts in products whose deals count, by links that are no sale.
Gone(T, key) ==
  LET counted == {i \in Deals : T.standing[i] = "recognized"}
      sold    == {i \in counted : Source(i) = key}
      made    == {w \in Ids("work") : \E i \in counted : Source(i) = w}
      lost    == {o \in Ids("writeoff") \cup Ids("asset") : o \in T.valid[key]}
  IN Sum(sold, LAMBDA i : IF Portion(i) /\ BackOf(i) = 0 THEN T.holding[i].qty
                          ELSE T.holding[key].qty)
     + Sum({t \in UNION {Takings(p, key) : p \in Parties} : t[1] \in made},
           LAMBDA t : LinkOf(t).qty)
     + IF key \in T.boughtBack THEN 0
       ELSE Sum(lost, LAMBDA o : log[o].lots[1].link.qty)

\* No piece of a lot counts twice: sold whole or by portions, sold on, bought
\* back, spent in a product that was sold, written off, deals that count and
\* losses never add up to more than the lot holds (recognition.cpp 894-896,
\* cmd_release, take_from_lot).
LotNeverOversold ==
  \A T \in {Table} : \A key \in Ids("work") \cup T.live : Gone(T, key) <= T.holding[key].qty

\* What owners write by the commands checks out for every reader: no link of a
\* lot that exists is refused by check_lot.
LinksCheckOut ==
  \A T \in {Table} : \A key \in Ids("work") \cup T.live :
    \A l \in T.links[key] : l.id \in T.valid[key]

\* Who paid got it: a deal its seller accepted in time counts for what it
\* bought - once for its buyer, and not as a double sale or an unsound result.
AcceptedCounts ==
  \A T \in {Table} : \A i \in Deals : Answered(i) => T.standing[i] = "recognized"
=============================================================================
