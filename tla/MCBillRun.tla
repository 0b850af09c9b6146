----------------------------- MODULE MCBillRun -----------------------------
(* Instance of BillRun for TLC: three spends of a bill of two hours.  A     *)
(* spend takes any size, names any spend and ends in any way; one that      *)
(* breaks a rule by itself (foreign purse, before the arrival, frozen) is   *)
(* taken with one size and one end, as no rule looks at those any further.  *)
EXTENDS BillRun, TLC

\* Two hours came to branch 0, accepted at its position 0.
MCBills == {[purse |-> 0, credited |-> 2, arrived |-> 0]}

\* How a spend may end: [move, answer, until, stands].
Ends == {<<TRUE, "none", 0, TRUE>>, <<FALSE, "accepted", 0, TRUE>>,
         <<FALSE, "refused", 0, TRUE>>, <<FALSE, "none", 0, TRUE>>,
         <<FALSE, "accepted", 0, FALSE>>}

\* What is wrong with it: [node, index, frozen].
Right  == <<0, 1, FALSE>>
Wrongs == {<<1, 1, FALSE>>, <<0, 0, FALSE>>, <<0, 1, TRUE>>}

SpendOf(r, p, u, t, e, w) ==
  [ref |-> r, node |-> w[1], index |-> w[2], time |-> t, units |-> u,
   prev |-> p, move |-> e[1], answer |-> e[2], until |-> e[3],
   stands |-> e[4], frozen |-> w[3]]

Links == {l \in Refs \X (Refs \cup {NoRef}) : l[1] # l[2]}

MCSpends ==
  {SpendOf(l[1], l[2], u, t, e, Right) :
     l \in Links, u \in Hours, t \in Times, e \in Ends}
  \cup
  {SpendOf(r, p, 1, 1, <<FALSE, "accepted", 0, TRUE>>, w) :
     r \in Refs, p \in {NoRef}, w \in Wrongs}

Symmetry == Permutations(Refs)
=============================================================================
