---------------------------- MODULE DealRecords ----------------------------
(***************************************************************************)
(* The records about paying: transfers with the acceptance inside them,    *)
(* answers, redemptions, pledges, and what aggregators publish.            *)
(***************************************************************************)
EXTENDS Records

-----------------------------------------------------------------------------
(* The acceptance, a field of the buyer's transfer.                        *)

AcceptanceAxis == [axis |-> BlockPath, units |-> 0]
AcceptanceNorm == [agg |-> 0, date |-> 0, W |-> 0]
Buyback == [to |-> 0, until |-> 0, wear |-> FALSE, deposit |-> FALSE]

AxisW == Writes(<<F(0, "axis", PathW), F(1, "units", Num)>>)
AxisR == Exactly(AcceptanceAxis, <<F(0, "axis", PathR), F(1, "units", Num)>>)
NormW == Writes(<<F(0, "agg", Fixed), F(1, "date", SInt), F(2, "W", Num)>>)
NormR == Exactly(AcceptanceNorm, <<F(0, "agg", Fixed), F(1, "date", SInt), F(2, "W", Num)>>)
BuybackW == Writes(<<F(0, "to", Fixed), F(2, "until", SInt), F(3, "wear", Flag),
                     F(4, "deposit", Flag)>>)
BuybackR == Reads(Buyback, <<F(0, "to", Fixed), F(2, "until", SInt)>>,
                  <<F(3, "wear", Flag), F(4, "deposit", Flag)>>, 2, 4, 2)

Acceptance == [work |-> Ref, quality |-> "", hours_raw |-> 0, labor_units |-> 0, axes |-> <<>>,
               carried_units |-> {}, norm |-> {}, like |-> {}, release |-> {}, buyback |-> {}]
AcceptanceW == Writes(
  <<F(0, "work", RefW), F(1, "quality", Text), F(2, "hours_raw", Num), F(3, "labor_units", Num),
    F(4, "axes", List(AxisW)), F(5, "carried_units", Opt(Num)), F(6, "norm", Opt(NormW)),
    F(7, "like", Opt(RefW)), F(8, "release", Opt(RefW)), F(9, "buyback", Opt(BuybackW))>>)
AcceptanceR == Reads(Acceptance,
  <<F(0, "work", RefR), F(1, "quality", Text), F(2, "hours_raw", Num), F(3, "labor_units", Num),
    F(4, "axes", List(AxisR))>>,
  <<F(5, "carried_units", Opt(Num)), F(6, "norm", Opt(NormR)), F(7, "like", Opt(RefR)),
    F(8, "release", Opt(RefR)), F(9, "buyback", Opt(BuybackR))>>, 5, 10, 4)

-----------------------------------------------------------------------------
(* The transfer.  Its emission link is three fields, there or not there    *)
(* together: link_seq, link_prev and link_debt.                            *)

OriginQty == [issuer |-> 0, units |-> 0, src |-> {}, prev |-> {}]
OriginW == Writes(<<F(0, "issuer", Fixed), F(1, "units", Num), F(2, "src", Opt(RefW)),
                    F(3, "prev", Opt(RefW))>>)
OriginR == Reads(OriginQty, <<F(0, "issuer", Fixed), F(1, "units", Num)>>,
                 <<F(2, "src", Opt(RefR)), F(3, "prev", Opt(RefR))>>, 2, 4, 1)

Transfer == [type |-> "Transfer", from |-> 0, to |-> 0, to_node |-> 0, origins |-> <<>>,
             timestamp |-> 0, link_seq |-> {}, link_prev |-> {}, link_debt |-> {}, settles |-> {},
             accept |-> {}, until |-> {}]
TransferW == Writes(
  <<F(0, "type", Type), F(1, "from", Fixed), F(2, "to", Fixed), F(3, "to_node", UInt),
    F(4, "origins", List(OriginW)), F(6, "timestamp", SInt), F(7, "link_seq", Opt(UInt)),
    F(8, "link_prev", Opt(OrNull(RefW))), F(9, "link_debt", Opt(Num)),
    F(10, "settles", Opt(RefW)), F(11, "accept", Opt(AcceptanceW)), F(12, "until", Opt(SInt))>>)
TransferR == Reads(Transfer,
  <<F(0, "type", Type), F(1, "from", Fixed), F(2, "to", Fixed), F(3, "to_node", Branch),
    F(4, "origins", List(OriginR)), F(6, "timestamp", SInt)>>,
  <<F(7, "link_seq", Opt(UInt)), F(8, "link_prev", Opt(OrNull(RefR))), F(9, "link_debt", Opt(Num)),
    F(10, "settles", Opt(RefR)), F(11, "accept", Opt(AcceptanceR)), F(12, "until", Opt(SInt))>>,
  6, 12, 6)

\* key 7 begins the link: 8 and 9 must follow, and are unknown without it
LinkWhole(t) == (t.link_seq = {}) = (t.link_prev = {}) /\ (t.link_seq = {}) = (t.link_debt = {})

CheckOrigins(t) ==
  LET foreign == SelectSeq(t.origins, LAMBDA o : o.issuer # t.from)
  IN /\ \A i \in DOMAIN t.origins :
          LET o == t.origins[i]
          IN o.units > 0 /\ IF o.issuer = t.from THEN o.src = {} /\ o.prev = {} ELSE o.src # {}
     /\ NoTwice([i \in DOMAIN foreign |-> <<foreign[i].issuer, foreign[i].src>>])

\* own paper between own branches: nothing is accepted, nobody answers
CheckMove(t) == /\ t.to = t.from /\ t.until = {}
                /\ \A i \in DOMAIN t.origins : t.origins[i].issuer # t.from

CheckDeal(t, a) ==
  LET carriedOnly == a.labor_units = 0 /\ a.hours_raw = 0 /\ a.axes = <<>>
      paid == SumOf([i \in DOMAIN t.origins |-> t.origins[i].units])
  IN /\ t.to # t.from
     /\ t.until # {} /\ The(t.until) > t.timestamp
     /\ \A r \in a.release : r.chain = t.to
     /\ IF a.work.chain # t.to THEN a.release # {} /\ carriedOnly
                               ELSE a.axes # <<>> \/ (a.release # {} /\ carriedOnly)
     /\ paid > 0
     /\ paid = a.labor_units + (IF a.carried_units = {} THEN 0 ELSE The(a.carried_units))
     /\ \A b \in a.buyback : /\ b.until > t.timestamp /\ b.to # t.from
                             /\ b.deposit => b.to = t.to

CheckTransfer(t) ==
  CheckOrigins(t) /\ IF t.accept = {} THEN CheckMove(t) ELSE CheckDeal(t, The(t.accept))

-----------------------------------------------------------------------------
(* Answers, redemptions, pledges.                                          *)

DealReply == [type |-> "DealReply", deal |-> Ref, accepted |-> FALSE, note |-> "", timestamp |-> 0]
DealReplyW == Writes(<<F(0, "type", Type), F(1, "deal", RefW), F(2, "accepted", Bool),
                       F(3, "note", Text), F(4, "timestamp", SInt)>>)
DealReplyR == Exactly(DealReply, <<F(0, "type", Type), F(1, "deal", RefR), F(2, "accepted", Bool),
                                   F(3, "note", Text), F(4, "timestamp", SInt)>>)

CheckDealReply(d) == d.deal.chain # 0 /\ d.deal.hash # 0

Redemption == [type |-> "Redemption", transfer |-> Ref, units |-> 0, seq |-> 0, prev |-> {},
               debt_after |-> 0, timestamp |-> 0]
RedemptionW == Writes(<<F(0, "type", Type), F(1, "transfer", RefW), F(2, "units", Num),
                        F(3, "seq", UInt), F(4, "prev", OrNull(RefW)), F(5, "debt_after", Num),
                        F(6, "timestamp", SInt)>>)
RedemptionR == Uncounted(Redemption,
                         <<F(0, "type", Type), F(1, "transfer", RefR), F(2, "units", Num),
                           F(3, "seq", UInt), F(4, "prev", OrNull(RefR)), F(5, "debt_after", Num),
                           F(6, "timestamp", SInt)>>)

Pledge == [type |-> "Pledge", target |-> Ref, units |-> 0, executor |-> {}, expires |-> {},
           timestamp |-> 0]
PledgeW == Writes(<<F(0, "type", Type), F(1, "target", RefW), F(2, "units", Num),
                    F(3, "executor", OrNull(Fixed)), F(4, "expires", OrNull(SInt)),
                    F(5, "timestamp", SInt)>>)
PledgeR == Uncounted(Pledge,
                     <<F(0, "type", Type), F(1, "target", RefR), F(2, "units", Num),
                       F(3, "executor", OrNull(Fixed)), F(4, "expires", OrNull(SInt)),
                       F(5, "timestamp", SInt)>>)

PledgeRevoke == [type |-> "PledgeRevoke", pledge |-> Ref, timestamp |-> 0]
PledgeRevokeW == Writes(<<F(0, "type", Type), F(1, "pledge", RefW), F(2, "timestamp", SInt)>>)
PledgeRevokeR == Uncounted(PledgeRevoke,
                           <<F(0, "type", Type), F(1, "pledge", RefR), F(2, "timestamp", SInt)>>)

-----------------------------------------------------------------------------
(* What aggregators and catalogues publish.                                *)

AxisPrice == [axis |-> BlockPath, price |-> 0, hours |-> 0, deals |-> 0, weighted_hours |-> 0]
PriceW == Writes(<<F(0, "axis", PathW), F(1, "price", Num), F(2, "hours", Num), F(3, "deals", UInt),
                   F(4, "weighted_hours", Num)>>)
PriceR == Exactly(AxisPrice, <<F(0, "axis", PathR), F(1, "price", Num), F(2, "hours", Num),
                               F(3, "deals", UInt), F(4, "weighted_hours", Num)>>)

DailyAggregate == [type |-> "DailyAggregate", date |-> 0, timestamp |-> 0, W |-> 1, indep |-> "",
                   axes |-> <<>>]
DailyAggregateW == Writes(<<F(0, "type", Type), F(1, "date", SInt), F(3, "timestamp", SInt),
                            F(4, "W", Num), F(5, "indep", Text), F(6, "axes", List(PriceW))>>)
DailyAggregateR == Exactly(DailyAggregate,
                           <<F(0, "type", Type), F(1, "date", SInt), F(3, "timestamp", SInt),
                             F(4, "W", Num), F(5, "indep", Text), F(6, "axes", List(PriceR))>>)

CloudNeighbor == [sample |-> Ref, weight |-> 0]
CloudPoint == [sample |-> Ref, title |-> "", deals |-> 0, neighbors |-> <<>>]
NeighborW == Writes(<<F(0, "sample", RefW), F(1, "weight", Num)>>)
NeighborR == Exactly(CloudNeighbor, <<F(0, "sample", RefR), F(1, "weight", Num)>>)
PointW == Writes(<<F(0, "sample", RefW), F(1, "title", Text), F(2, "deals", UInt),
                   F(3, "neighbors", List(NeighborW))>>)
PointR == Exactly(CloudPoint, <<F(0, "sample", RefR), F(1, "title", Text), F(2, "deals", UInt),
                                F(3, "neighbors", List(NeighborR))>>)

WorkCloud == [type |-> "WorkCloud", date |-> 0, snapshot |-> 0, params |-> "", sources |-> <<>>,
              points |-> <<>>, timestamp |-> 0]
WorkCloudW == Writes(<<F(0, "type", Type), F(1, "date", SInt), F(2, "snapshot", Fixed),
                       F(3, "params", Text), F(4, "sources", List(Fixed)),
                       F(5, "points", List(PointW)), F(6, "timestamp", SInt)>>)
WorkCloudR == Exactly(WorkCloud,
                      <<F(0, "type", Type), F(1, "date", SInt), F(2, "snapshot", Fixed),
                        F(3, "params", Text), F(4, "sources", List(Fixed)),
                        F(5, "points", List(PointR)), F(6, "timestamp", SInt)>>)

AxisDef == [type |-> "AxisDef", slug |-> "", ru |-> "", description |-> "", timestamp |-> 0,
            parent |-> {}, same_as |-> {}]
AxisDefW == Writes(<<F(0, "type", Type), F(1, "slug", Text), F(2, "ru", Text),
                     F(3, "description", Text), F(4, "timestamp", SInt), F(5, "parent", Opt(RefW)),
                     F(6, "same_as", Opt(RefW))>>)
\* the tail in any order and any number of times, the last one counting
AxisDefR == [Reads(AxisDef, <<F(0, "type", Type), F(1, "slug", Text), F(2, "ru", Text),
                              F(3, "description", Text), F(4, "timestamp", SInt)>>,
                   <<F(5, "parent", Opt(RefR)), F(6, "same_as", Opt(RefR))>>, 0, 100, 4)
             EXCEPT !.ordered = FALSE]

=============================================================================
