------------------------------ MODULE MCCodec ------------------------------
(***************************************************************************)
(* Samples for TLC: of every type the empty struct filled in, then each    *)
(* group of members that a rule relates varied on its own.                 *)
(***************************************************************************)
EXTENDS Codec

Vary(s, name, values) == {[r EXCEPT ![name] = v] : r \in s, v \in values}
Maybe(s) == {{}} \cup {{x} : x \in s}
UpTo2(s) == {<<>>} \cup {<<x>> : x \in s} \cup {<<x, y>> : x, y \in s}

At(c, h) == [chain |-> c, hash |-> h]
Refs == {At(1, 1), At(2, 1)}
Path(n) == [chain |-> 1, node |-> n, block |-> 1, hash |-> 1]

Lot1 == [LotLink EXCEPT !.qty = 1, !.after = 1]
Lot2 == [LotLink EXCEPT !.qty = 2, !.seq = 1, !.prev = {At(1, 1)}, !.after = 3]
Lots == {Lot1}
        \cup Vary(Vary(Vary({Lot1}, "seq", 0 .. 1), "prev", Maybe({At(1, 1)})), "qty", {-1, 0, 1})
        \cup Vary(Vary({Lot2}, "returns", UpTo2(Refs)), "after", {-1, 0, 3})
        \cup Vary(Vary({Lot2}, "units", UpTo2({5, 6})), "out", {0, Word - 1})

Qty == [ResourceQty EXCEPT !.resource = "boards", !.qty = 2, !.unit = "m3"]
Qtys == {Qty} \cup Vary(Vary({Qty}, "share", Maybe({1, 2})), "price", Maybe({0, 3}))
              \cup Vary(Vary({Qty}, "units", UpTo2({"a", "b"})), "life", Maybe({0, 9}))
FewQtys == {q \in Qtys : q.share \cup q.price # {} /\ q.units = <<>>}

Carry == [CarryEntry EXCEPT !.src = At(1, 1), !.used = 1, !.prev = {At(1, 1)}]
Share(n, s) == [axis |-> Path(n), share |-> s]
Thread(seq, prev) == [seq |-> seq, prev |-> prev]

Work0 == [WorkRecord EXCEPT !.action = "saw", !.start_ts = -1, !.hours = 2]
Tails == Vary(Vary(Vary(Vary(Vary(Vary(Vary({Work0},
           "carry", {<<>>, <<Carry>>}), "title", {"", "smith"}), "customer", Maybe({2})),
           "thread", Maybe({Thread(0, <<>>)})), "axes", {<<>>, <<Share(0, 2)>>}),
           "improves", Maybe({At(2, 1)})), "spends", {<<>>, <<[work |-> At(1, 1), lot |-> Lot1]>>})
Works ==
  Tails \cup Vary(Vary({Work0}, "outputs", {<<>>} \cup {<<q>> : q \in Qtys}), "improves", Maybe({At(2, 1)}))
        \cup Vary({Work0}, "outputs", {<<q, r>> : q, r \in FewQtys})
        \cup Vary({Work0}, "inputs", {<<q>> : q \in Qtys})
        \cup Vary({Work0}, "thread", {{Thread(n, p)} : n \in 0 .. 1, p \in UpTo2(Refs)})
        \cup Vary({Work0}, "axes", UpTo2({Share(n, s) : n \in 0 .. 1, s \in 0 .. 2}))
        \cup Vary({Work0}, "spends", {<<[work |-> At(1, 1), lot |-> l]>> : l \in Lots})

Release0 == [Release EXCEPT !.work = At(1, 1), !.to = 2, !.expires = 2, !.timestamp = 1]
Returns == {[to |-> t, until |-> u, wear |-> w] : t \in 1 .. 2, u \in 1 .. 2, w \in BOOLEAN}
Releases ==
  Vary(Vary(Vary(Vary(Vary({Release0}, "to", 1 .. 2), "expires", 0 .. 2), "lot", Maybe({Lot1})),
            "holding", Maybe(Refs)), "addressed", Maybe(Returns))
  \cup Vary({Release0}, "lot", {{l} : l \in Lots})
WriteOffs == Vary(Vary({[WriteOff EXCEPT !.work = At(1, 1), !.reason = "burnt"]}, "lot", Lots),
                  "holding", Maybe(Refs))

Means(s) == Vary(Vary(Vary(Vary(Vary(s, "basis", {"paid", "est", ""}), "src", Maybe(Refs)),
                 "origin", Maybe({At(1, 1)})), "lot", Maybe({Lot1})), "days", Maybe({0, 1}))
Materials == Means({[Material EXCEPT !.name = "oak", !.cost = 4, !.qty = 2]})
             \cup Vary({[Material EXCEPT !.basis = "paid", !.src = {At(1, 1)}]}, "lot", {{l} : l \in Lots})
Tools == Vary(Means({[Tool EXCEPT !.name = "saw", !.cost = 4, !.life = 2]}), "repair", Maybe(Refs))

Origins == {[issuer |-> i, units |-> u, src |-> s, prev |-> p] :
              i \in 1 .. 2, u \in {0, 1}, s \in Maybe({At(1, 1)}), p \in Maybe({At(1, 1)})}
Own(u) == [OriginQty EXCEPT !.issuer = 1, !.units = u]
Accept0 == [Acceptance EXCEPT !.work = At(2, 1), !.hours_raw = 1, !.labor_units = 1,
                              !.axes = <<[axis |-> Path(0), units |-> 1]>>]
Resale == [Acceptance EXCEPT !.work = At(1, 2), !.carried_units = {1}, !.release = {At(2, 1)}]
Buybacks == {[to |-> t, until |-> u, wear |-> w, deposit |-> d] :
               t \in 1 .. 3, u \in 1 .. 2, w, d \in BOOLEAN}
Accepts ==
  Vary(Vary(Vary({Accept0, Resale}, "carried_units", Maybe({1})), "release", Maybe(Refs)),
       "work", {At(1, 2), At(2, 1)})
  \cup Vary({Accept0, Resale}, "buyback", Maybe(Buybacks))
  \cup Vary(Vary({Accept0}, "norm", Maybe({[agg |-> 3, date |-> 1, W |-> 1]})), "like", Maybe(Refs))
  \cup Vary(Vary({Resale}, "labor_units", 0 .. 1), "axes", {<<>>, Accept0.axes})
Deal0 == [Transfer EXCEPT !.from = 1, !.to = 2, !.origins = <<Own(1)>>, !.timestamp = 1,
                          !.accept = {Accept0}, !.until = {2}]
Move0 == [Deal0 EXCEPT !.to = 1, !.accept = {}, !.until = {},
                       !.origins = <<[issuer |-> 2, units |-> 1, src |-> {At(1, 1)}, prev |-> {}]>>]
Transfers ==
  Vary({Deal0, Move0}, "origins", UpTo2(Origins))
  \cup Vary(Vary({Deal0}, "accept", {{a} : a \in Accepts}), "origins", {<<Own(1)>>, <<Own(2)>>})
  \cup Vary(Vary(Vary({Deal0, Move0}, "to", 1 .. 2), "until", Maybe(0 .. 2)), "to_node", {0, Word - 2})
  \cup Vary(Vary({[Deal0 EXCEPT !.link_seq = {1}, !.link_prev = {{}}, !.link_debt = {-1}]},
                 "link_prev", {{p} : p \in Maybe(Refs)}), "settles", Maybe(Refs))

Targets == {At(0, 1), At(1, 0), At(1, 1)}
Small ==
  Vary({FraudClaim}, "target", Refs) \cup Vary({Concept}, "tags", UpTo2({"a"}))
  \cup Vary({ConceptLink}, "to", Refs) \cup Vary({Composite}, "parts", UpTo2(Refs))
  \cup Vary({Copy}, "source", Refs) \cup Vary({Reaction}, "value", {-(Octet \div 2), -1, 0, Octet \div 2 - 1})
  \cup Vary(Vary({Attest}, "target", Targets), "mode", {"blind", "open", ""})
  \cup Vary(Vary({Consent}, "target", Targets), "agreed", BOOLEAN)
  \cup Vary(Vary({DealReply}, "deal", Targets), "accepted", BOOLEAN)
  \cup Vary({Redemption}, "prev", Maybe(Refs)) \cup Vary({PledgeRevoke}, "pledge", Refs)
  \cup Vary(Vary({Pledge}, "executor", Maybe(1 .. 2)), "expires", Maybe(-1 .. 1))
  \cup Vary({DailyAggregate}, "axes", UpTo2(Vary({AxisPrice}, "axis", {Path(0), Path(Word - 1)})))
  \cup Vary(Vary({WorkCloud}, "sources", UpTo2({1})), "points",
            UpTo2(Vary({CloudPoint}, "neighbors", UpTo2({[sample |-> At(1, 1), weight |-> 1]}))))
  \cup Vary(Vary({AxisDef}, "parent", Maybe(Refs)), "same_as", Maybe(Refs))

Address == [user_id |-> 1, node_index |-> Word - 1, block_index |-> 1]
Leaf == [address |-> Address, block_hash |-> 1]
Node1 == [Node EXCEPT !.index = Word - 1, !.created_at = 1]
Block1 == [Block EXCEPT !.address = Address, !.kind = 1, !.payload = "p"]
Pieces ==
  Vary(Vary(Vary({Block1}, "refs", UpTo2({Leaf})), "kind", 0 .. 3), "co_signature", 0 .. 1)
  \cup Vary({Seal}, "mode", 0 .. 1) \cup Vary({MergePayload}, "validated_depth", {0, Word - 1})
  \cup Vary({RevocationPayload}, "replacement", Maybe(1 .. 2))
  \cup Vary({[RevocationCertificate EXCEPT !.block = Block1]}, "path", UpTo2({Node1}))
  \cup Vary(Vary({KeyPath}, "path", UpTo2({Node1})), "rotations", UpTo2({Block1}))
  \cup Vary({[FraudProof EXCEPT !.leaf = Leaf, !.evidence = Block1]}, "merkle_path",
            {[path |-> <<1>>, right |-> <<r>>] : r \in BOOLEAN})
  \cup Vary({Snapshot}, "hll", 1 .. 2) \cup Vary({Tip}, "tip_block", Maybe({Block1}))

MCSamples == Small \cup Pieces \cup Works \cup Releases \cup WriteOffs \cup Materials \cup Tools \cup Transfers

\* one of every layout is spelt otherwise
MCSpelt ==
  Small \cup Pieces \cup Tails
  \cup {r \in Releases : r.to = 2 /\ r.expires = 2}
  \cup {r \in WriteOffs : r.lot \in {Lot1, Lot2}}
  \cup {r \in Materials \cup Tools : r.basis = "paid"}
  \cup {[Deal0 EXCEPT !.accept = {a}, !.settles = {At(1, 1)}, !.link_seq = {0}, !.link_prev = {{}}, !.link_debt = {-1}] :
          a \in Vary({Accept0}, "buyback", Maybe(Buybacks))}
  \cup {Move0}

=============================================================================
