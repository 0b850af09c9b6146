------------------------------ MODULE MCGoods ------------------------------
(* Goods, one play of commands at a time.                                  *)
EXTENDS Goods, TLC

CONSTANTS maker, ann, bob

VARIABLE play   \* how many records of each kind may be written, returns or not

MCParties == {maker, ann, bob}
Buyers    == Permutations({ann, bob})

Play(release, deal, reply, loss, work, back) ==
  [release |-> release, deal |-> deal, reply |-> reply, loss |-> loss, work |-> work,
   back |-> back]

Plays ==
  { Play(2, 2, 2, 0, 0, FALSE),    \* two portions, two buyers, a resale
    Play(3, 1, 1, 0, 0, FALSE),    \* releases that lapse and come back
    Play(2, 1, 1, 1, 0, FALSE),    \* goods lost or used up, bought ones too
    Play(1, 2, 1, 1, 0, TRUE),     \* a purchase bought back
    Play(2, 1, 1, 0, 1, FALSE) }   \* a part spent in a product

Fits(l) ==
  LET N(kinds) == Cardinality({i \in 1..Len(l) : l[i].kind \in kinds}) IN
  /\ N({"release"}) <= play.release /\ N({"deal"}) <= play.deal /\ N({"reply"}) <= play.reply
  /\ N({"writeoff", "asset"}) <= play.loss /\ N({"work"}) <= 1 + play.work
  /\ \A i \in 1..Len(l) : l[i].back # NoBack => play.back

MCInit == Init /\ play \in Plays
MCNext == Next /\ Fits(log') /\ UNCHANGED play
MCSpec == MCInit /\ [][MCNext]_<<vars, play>>
=============================================================================
