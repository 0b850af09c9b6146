----------------------------- MODULE MergePact -----------------------------
(***************************************************************************)
(* What merging two branches promises (docs/blockchain.md 6.4): each side  *)
(* puts a half of its own into its branch, and a half gets the partner's   *)
(* signature only when the partner's half is in the partner's branch, each *)
(* half the next block after the one the other takes, both over the same   *)
(* union of snapshots.  No letters, no relay, no processes.                *)
(***************************************************************************)
VARIABLES
  halves,   \* merge blocks in branches: [at, prev, takes, union], the first
            \* three places <<owner, index>>
  sealed    \* those whose owner holds the partner's signature

\* g answers h: each takes the block right before the other.
Counterpart(g, h) ==
  /\ g.at[1] # h.at[1]
  /\ h.takes = g.prev
  /\ g.takes = h.prev
  /\ g.union = h.union

Init == halves = {} /\ sealed = {}

\* A half is written: at a place of its own, and nothing unwrites it.
Write ==
  \E h \in halves' \ halves :
    /\ h.at \notin {g.at : g \in halves}
    /\ halves' = halves \cup {h}
    /\ UNCHANGED sealed

Seal ==
  \E h \in halves \ sealed :
    /\ \E g \in halves : Counterpart(g, h)
    /\ sealed' = sealed \cup {h}
    /\ UNCHANGED halves

Next == Write \/ Seal

Spec == Init /\ [][Next]_<<halves, sealed>>
=============================================================================
