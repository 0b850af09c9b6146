-------------------------------- MODULE Lots --------------------------------
(***************************************************************************)
(* The sub-thread of a lot (records::check_lot): whoever holds the lot     *)
(* takes from it by a link - a release of a portion, a write-off, a part   *)
(* spent in a product - and every reader judges the links alike.           *)
(*                                                                         *)
(* A link: [seq, qty, after, prev, returns, units]; prev is the id of the  *)
(* link before it, 0 for the first.  An observed link has the id of its    *)
(* record, the time, the term of a release (0: not for sale) and whether a *)
(* deal took it.  Links of foreign chains are left out: readers feed the   *)
(* rule with links of the holder's chain only.                             *)
(***************************************************************************)
LOCAL INSTANCE Integers
LOCAL INSTANCE FiniteSets
LOCAL INSTANCE FiniteSetsExt
LOCAL INSTANCE SequencesExt

Sum(S, f(_)) == MapThenSumSet(f, S)

Link(seq, qty, after, prev, returns, units) ==
  [seq |-> seq, qty |-> qty, after |-> after, prev |-> prev,
   returns |-> returns, units |-> units]

IdsOf(links) == {l.id : l \in links}
By(links, id) == CHOOSE l \in links : l.id = id

\* One taking per remainder.
AloneAt(links, l) == \A k \in links : k.link.seq = l.link.seq => k = l

\* Link l may return the release r: lapsed, taken by nobody, returned once,
\* written before.
MayReturn(links, r, l) ==
  LET b == By(links, r) IN
  /\ b.expires # 0 /\ b.expires <= l.time /\ ~b.taken
  /\ b.link.seq < l.link.seq
  /\ \A k \in links : r \in k.link.returns => k = l

\* `after` follows from the link before it; what the reader lacks is a gap and
\* not a fault.
Follows(links, l) ==
  LET k == l.link IN
  IF k.prev = 0 THEN k.after = k.qty
  ELSE k.prev \in IdsOf(links) =>
         LET p == By(links, k.prev).link IN
         /\ p.seq + 1 = k.seq
         /\ k.returns \subseteq IdsOf(links) =>
              k.after = p.after + k.qty
                        - Sum(k.returns, LAMBDA r : By(links, r).link.qty)

Adds(qty, links, l) ==
  /\ AloneAt(links, l)
  /\ l.link.after <= qty
  /\ \A r \in l.link.returns \cap IdsOf(links) : MayReturn(links, r, l)
  /\ Follows(links, l)

\* Numbered units, in the order of the thread: a unit is held by the link that
\* took it until a later one returns that link.
Held(units, links) ==
  LET order == SetToSortSeq(links, LAMBDA a, b : a.link.seq < b.link.seq)
      Walk(acc, l) ==
        LET kept == {h \in acc.held : h[2] \notin l.link.returns}
            fits == /\ (units = {}) = (l.link.units = {})
                    /\ l.link.units \subseteq units
                    /\ \A h \in kept : h[1] \notin l.link.units
        IN [held |-> kept \cup IF fits THEN l.link.units \X {l.id} ELSE {},
            fit  |-> acc.fit \cup IF fits THEN {l.id} ELSE {}]
  IN FoldLeft(Walk, [held |-> {}, fit |-> {}], order)

\* The links that check out.
CheckLot(qty, units, links) ==
  Held(units, {l \in links : Adds(qty, links, l)}).fit

\* What is taken of the lot by the newest link that checks out.
Used(qty, units, links) ==
  LET valid == CheckLot(qty, units, links) IN
  IF valid = {} THEN 0
  ELSE LET top == CHOOSE l \in links :
                    /\ l.id \in valid
                    /\ \A k \in links : k.id \in valid => k.link.seq <= l.link.seq
       IN top.link.after
=============================================================================
