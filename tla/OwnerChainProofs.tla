-------------------------- MODULE OwnerChainProofs --------------------------
(***************************************************************************)
(* Proofs about the owner's keys and revocations (OwnerChain), for every   *)
(* depth of the path, every set of stolen keys and every bound.            *)
(*                                                                         *)
(* The model reads a branch by walking it and reads the revocations by     *)
(* going down the path.  Both are restated here for a branch given as a    *)
(* parameter, so that what holds of the walk before a step and after it is *)
(* one lemma applied twice.                                                *)
(***************************************************************************)
EXTENDS OwnerChain, DataLemmas

LEMMA OneOf ==
  ASSUME NEW x
  PROVE  The({x}) = x
BY DEF The

-----------------------------------------------------------------------------
(* The walks of one branch.                                                *)

KeyOr == Keys \cup {NoKey}
Marks == {"clean", "suspect", "invalid"}

StateType == [author : Nodes, since : Times, replacement : KeyOr]

\* What revocations may say of a node: nothing, or one state.
States == {{}} \cup {{e} : e \in StateType}

StatusType ==
  [lineage : KeyOr, current : KeyOr, marks : Seq(Marks), broken : BOOLEAN]

FollowType == [key : KeyOr, switched : BOOLEAN, time : Times, ok : BOOLEAN]

StatusStart(key) ==
  [lineage |-> key, current |-> NoKey, marks |-> <<>>, broken |-> FALSE]

FollowStart(key) == [key |-> key, switched |-> FALSE, time |-> 0, ok |-> TRUE]

StatusWalk(bs, key, state) ==
  LET Upto[i \in 0..Len(bs)] ==
        IF i = 0
        THEN [lineage |-> key, current |-> NoKey, marks |-> <<>>,
              broken |-> FALSE]
        ELSE The({Classify(st, bs[i], state) : st \in {Upto[i - 1]}})
  IN  Upto

FollowWalk(bs, key, state) ==
  LET Upto[i \in 0..Len(bs)] ==
        IF i = 0
        THEN [key |-> key, switched |-> FALSE, time |-> 0, ok |-> TRUE]
        ELSE The({Follow(st, bs[i], state) : st \in {Upto[i - 1]}})
  IN  Upto

LEMMA StatusIsWalk ==
  ASSUME NEW n, NEW state
  PROVE  /\ Status(n, state) =
              StatusWalk(branch[n], tree[n].key, state)[Len(branch[n])]
         /\ Status(n, state)' =
              StatusWalk(branch'[n], tree'[n].key, state)[Len(branch'[n])]
         /\ Validates(n, state) =
              FollowWalk(branch[n], tree[n].key, state)[Len(branch[n])].ok
BY DEF Status, StatusWalk, Validates, FollowWalk

LEMMA StateCases ==
  ASSUME NEW state \in States
  PROVE  /\ Replacement(state) \in KeyOr
         /\ state = {} => Replacement(state) = NoKey /\ ~Frozen(state)
         /\ \A e \in state : /\ state = {e} /\ e \in StateType
                             /\ Replacement(state) = e.replacement
                             /\ Frozen(state) <=> e.replacement = NoKey
BY OneOf DEF States, StateType, Replacement, Frozen, KeyOr

LEMMA ClassifyType ==
  ASSUME NEW st \in StatusType, NEW b \in BlockType, NEW state \in States
  PROVE  Classify(st, b, state) \in StatusType
<1>1. b.key \in KeyOr /\ b.signer \in KeyOr
  BY DEF BlockType, KeyOr
<1>2. \A k \in KeyOr : After(b, k) \in KeyOr
  BY <1>1 DEF After
<1>3. Zone(b, state) \in Marks
  BY DEF Zone, Marks
<1>4. \A m \in Marks : Append(st.marks, m) \in Seq(Marks)
  BY DEF StatusType
<1>5. "clean" \in Marks /\ "invalid" \in Marks
  BY DEF Marks
<1> QED
  BY <1>1, <1>2, <1>3, <1>4, <1>5 DEF Classify, StatusType

LEMMA FollowsType ==
  ASSUME NEW st \in FollowType, NEW b \in BlockType, NEW state \in States
  PROVE  Follow(st, b, state) \in FollowType
<1>1. b.key \in KeyOr /\ b.signer \in KeyOr /\ b.time \in Times
  BY DEF BlockType, KeyOr
<1>2. \A k \in KeyOr : After(b, k) \in KeyOr
  BY <1>1 DEF After
<1> QED
  BY <1>1, <1>2 DEF Follow, FollowType

\* A walk is what its definition says: it starts at the start and takes one
\* step per block.
LEMMA StatusWalks ==
  ASSUME NEW bs \in Seq(BlockType), NEW key \in KeyOr, NEW state \in States,
         NEW w, w = StatusWalk(bs, key, state)
  PROVE  /\ w \in [0..Len(bs) -> StatusType]
         /\ w[0] = StatusStart(key)
         /\ \A i \in 1..Len(bs) : w[i] = Classify(w[i - 1], bs[i], state)
<1> DEFINE step == [i \in 1..Len(bs) |->
                      [st \in StatusType |-> Classify(st, bs[i], state)]]
           Next1(x, i) == The({Classify(st, bs[i], state) : st \in {x}})
           Laid(f) == [i \in 0..Len(bs) |-> IF i = 0 THEN StatusStart(key)
                                            ELSE Next1(f[i - 1], i)]
<1>1. Len(bs) \in Nat /\ \A i \in 1..Len(bs) : bs[i] \in BlockType
  OBVIOUS
<1>2. StatusStart(key) \in StatusType
  BY ChainAssumption DEF StatusStart, StatusType, KeyOr, Times
<1>3. PICK f \in [0..Len(bs) -> StatusType] :
        Walks(f, Len(bs), StatusStart(key), step)
  <2>1. step \in [1..Len(bs) -> [StatusType -> StatusType]]
    BY <1>1, ClassifyType
  <2> HIDE DEF step
  <2> QED BY <1>1, <1>2, <2>1, Stepwise
<1>4. ASSUME NEW x, NEW i
      PROVE  Next1(x, i) = Classify(x, bs[i], state)
  BY OneOf
<1>5. \A i \in 1..Len(bs) : f[i] = Classify(f[i - 1], bs[i], state)
  <2> TAKE i \in 1..Len(bs)
  <2>1. i - 1 \in 0..Len(bs) /\ f[i - 1] \in StatusType
    BY <1>1
  <2> QED BY <1>3, <2>1 DEF Walks
<1>6. f = Laid(f)
  <2> HIDE DEF Next1
  <2> QED BY <1>3, <1>4, <1>5 DEF Walks
<1>7. w = CHOOSE g : g = Laid(g)
  BY DEF StatusWalk, StatusStart
<1>8. w = Laid(w)
  <2> HIDE DEF Laid
  <2> QED BY <1>6, <1>7
<1>9. /\ w[0] = StatusStart(key)
      /\ \A i \in 1..Len(bs) : w[i] = Classify(w[i - 1], bs[i], state)
      /\ w = [i \in 0..Len(bs) |-> w[i]]
  <2> HIDE DEF Next1
  <2> QED BY <1>1, <1>4, <1>8
<1>10. \A i \in 0..Len(bs) : w[i] \in StatusType
  <2> DEFINE In == {j \in 0..Len(bs) : w[j] \in StatusType}
  <2>1. 0 \in In
    BY <1>1, <1>2, <1>9
  <2>2. ASSUME NEW i \in 0..Len(bs) - 1, i \in In
        PROVE  i + 1 \in In
    <3>0. (i + 1) - 1 = i /\ i + 1 \in 1..Len(bs)
      BY <1>1
    <3>1. /\ i + 1 \in 1..Len(bs) /\ w[i] \in StatusType
          /\ w[i + 1] = Classify(w[i], bs[i + 1], state)
      BY <2>2, <1>9, <3>0
    <3>2. w[i + 1] \in StatusType
      BY <1>1, <3>1, ClassifyType
    <3> QED BY <3>1, <3>2
  <2>3. \A i \in 0..Len(bs) : i \in In
    <3> HIDE DEF In
    <3>1. \A i \in 0..Len(bs) - 1 : i \in In => i + 1 \in In
      BY <2>2
    <3> QED BY <1>1, <2>1, <3>1, UpTo
  <2> QED BY <2>3
<1> QED BY <1>9, <1>10

LEMMA FollowWalks ==
  ASSUME NEW bs \in Seq(BlockType), NEW key \in KeyOr, NEW state \in States,
         NEW w, w = FollowWalk(bs, key, state)
  PROVE  /\ w \in [0..Len(bs) -> FollowType]
         /\ w[0] = FollowStart(key)
         /\ \A i \in 1..Len(bs) : w[i] = Follow(w[i - 1], bs[i], state)
<1> DEFINE step == [i \in 1..Len(bs) |->
                      [st \in FollowType |-> Follow(st, bs[i], state)]]
           Next1(x, i) == The({Follow(st, bs[i], state) : st \in {x}})
           Laid(f) == [i \in 0..Len(bs) |-> IF i = 0 THEN FollowStart(key)
                                            ELSE Next1(f[i - 1], i)]
<1>1. Len(bs) \in Nat /\ \A i \in 1..Len(bs) : bs[i] \in BlockType
  OBVIOUS
<1>2. FollowStart(key) \in FollowType
  BY ChainAssumption DEF FollowStart, FollowType, KeyOr, Times
<1>3. PICK f \in [0..Len(bs) -> FollowType] :
        Walks(f, Len(bs), FollowStart(key), step)
  <2>1. step \in [1..Len(bs) -> [FollowType -> FollowType]]
    BY <1>1, FollowsType
  <2> HIDE DEF step
  <2> QED BY <1>1, <1>2, <2>1, Stepwise
<1>4. ASSUME NEW x, NEW i
      PROVE  Next1(x, i) = Follow(x, bs[i], state)
  BY OneOf
<1>5. \A i \in 1..Len(bs) : f[i] = Follow(f[i - 1], bs[i], state)
  <2> TAKE i \in 1..Len(bs)
  <2>1. i - 1 \in 0..Len(bs) /\ f[i - 1] \in FollowType
    BY <1>1
  <2> QED BY <1>3, <2>1 DEF Walks
<1>6. f = Laid(f)
  <2> HIDE DEF Next1
  <2> QED BY <1>3, <1>4, <1>5 DEF Walks
<1>7. w = CHOOSE g : g = Laid(g)
  BY DEF FollowWalk, FollowStart
<1>8. w = Laid(w)
  <2> HIDE DEF Laid
  <2> QED BY <1>6, <1>7
<1>9. /\ w[0] = FollowStart(key)
      /\ \A i \in 1..Len(bs) : w[i] = Follow(w[i - 1], bs[i], state)
      /\ w = [i \in 0..Len(bs) |-> w[i]]
  <2> HIDE DEF Next1
  <2> QED BY <1>1, <1>4, <1>8
<1>10. \A i \in 0..Len(bs) : w[i] \in FollowType
  <2> DEFINE In == {j \in 0..Len(bs) : w[j] \in FollowType}
  <2>1. 0 \in In
    BY <1>1, <1>2, <1>9
  <2>2. ASSUME NEW i \in 0..Len(bs) - 1, i \in In
        PROVE  i + 1 \in In
    <3>0. (i + 1) - 1 = i /\ i + 1 \in 1..Len(bs)
      BY <1>1
    <3>1. /\ i + 1 \in 1..Len(bs) /\ w[i] \in FollowType
          /\ w[i + 1] = Follow(w[i], bs[i + 1], state)
      BY <2>2, <1>9, <3>0
    <3>2. w[i + 1] \in FollowType
      BY <1>1, <3>1, FollowsType
    <3> QED BY <3>1, <3>2
  <2>3. \A i \in 0..Len(bs) : i \in In
    <3> HIDE DEF In
    <3>1. \A i \in 0..Len(bs) - 1 : i \in In => i + 1 \in In
      BY <2>2
    <3> QED BY <1>1, <2>1, <3>1, UpTo
  <2> QED BY <2>3
<1> QED BY <1>9, <1>10

-----------------------------------------------------------------------------
(* The word of the revocations, for branches given as a parameter.         *)

BlocksOf(br) == UNION {{<<n, i>> : i \in 1..Len(br[n])} : n \in Nodes}

RecordsOf(br, n) ==
  {r \in BlocksOf(br) : /\ r[1] < n
                        /\ br[r[1]][r[2]].kind = "revocation"
                        /\ br[r[1]][r[2]].target = n}

OwnOf(counted) == {r \in counted : r[1] = Winner(counted)}

LastOf(own) == CHOOSE r \in own : \A q \in own : q[2] <= r[2]

SincesOf(br, own) == {br[r[1]][r[2]].since : r \in own}

SumUp(br, own) ==
  [author      |-> Winner(own),
   since       |-> Min(SincesOf(br, own)),
   replacement |-> br[LastOf(own)[1]][LastOf(own)[2]].key]

WordOf(br, counted) ==
  IF counted = {} THEN {} ELSE {SumUp(br, own) : own \in {OwnOf(counted)}}

\* The records of node n that count when `up` holds the states above it.
CountedIn(br, up, n) ==
  {r \in RecordsOf(br, n) : Counts(br[r[1]][r[2]], up[r[1] + 1])}

\* The same with the states of all nodes.
CountedOf(br, eff, n) ==
  {r \in RecordsOf(br, n) : Counts(br[r[1]][r[2]], eff[r[1]])}

Top == << {} >>

EffOf(br) ==
  LET Down[n \in Nodes] ==
        IF n = 0 THEN << {} >>
        ELSE The({Append(above, WordOf(br, CountedIn(br, above, n))) :
                    above \in {Down[n - 1]}})
  IN  The({[n \in Nodes |-> all[n + 1]] : all \in {Down[Leaf]}})

LEMMA EffIsOf ==
  /\ Eff = EffOf(branch)
  /\ Eff' = EffOf(branch')
  /\ Effective(Blocks) = EffOf(branch)
<1>1. Effective(Blocks) = EffOf(branch)
  BY DEF Effective, Blocks, At, Compromise, EffOf, BlocksOf, RecordsOf, OwnOf, LastOf, SumUp, SincesOf,
         WordOf, CountedIn
<1>2. Eff' = EffOf(branch')
  BY DEF Eff, Effective, Blocks, At, Compromise, EffOf, BlocksOf, RecordsOf, OwnOf, LastOf,
         SumUp, SincesOf, WordOf, CountedIn
<1> QED BY <1>1, <1>2 DEF Eff

LEMMA InBlocks ==
  ASSUME NEW br, NEW r
  PROVE  r \in BlocksOf(br) <=>
           \E n \in Nodes : \E i \in 1..Len(br[n]) : r = <<n, i>>
BY DEF BlocksOf

\* Every node's word is what the records that count against it add up to.
LEMMA EffReads ==
  ASSUME NEW br, NEW eff, eff = EffOf(br)
  PROVE  /\ eff = [n \in Nodes |-> eff[n]]
         /\ eff[0] = {}
         /\ \A n \in 1..Leaf : eff[n] = WordOf(br, CountedOf(br, eff, n))
<1> DEFINE Words == {WordOf(br, c) : c \in SUBSET BlocksOf(br)}
           Line(up, n) == WordOf(br, CountedIn(br, up, n))
           Under(up, n) == The({Append(above, WordOf(br, CountedIn(br, above, n))) :
                                  above \in {up}})
           step == [n \in 1..Leaf |-> [up \in Seq(Words) |-> Append(up, Line(up, n))]]
           Laid(f) == [n \in Nodes |-> IF n = 0 THEN Top ELSE Under(f[n - 1], n)]
<1>0. Leaf \in Nat /\ Nodes = 0..Leaf
  BY ChainAssumption DEF Nodes
<1>1. \A up, n : Line(up, n) \in Words
  BY DEF CountedIn, RecordsOf
<1>2. Top \in Seq(Words) /\ Len(Top) = 1 /\ Top[1] = {}
  <2>1. {} \in Words
    <3>1. WordOf(br, {}) = {}
      BY DEF WordOf
    <3> QED BY <3>1
  <2> QED BY <2>1 DEF Top
<1>3. ASSUME NEW up, NEW n
      PROVE  Under(up, n) = Append(up, Line(up, n))
  BY OneOf
<1>4. PICK f \in [0..Leaf -> Seq(Words)] : Walks(f, Leaf, Top, step)
  <2>1. step \in [1..Leaf -> [Seq(Words) -> Seq(Words)]]
    <3> HIDE DEF Words, Line
    <3> QED BY <1>1
  <2> HIDE DEF step, Words
  <2> QED BY <1>0, <1>2, <2>1, Stepwise
<1>5. \A n \in 1..Leaf : f[n] = Append(f[n - 1], Line(f[n - 1], n))
  <2> TAKE n \in 1..Leaf
  <2>1. n - 1 \in 0..Leaf /\ f[n - 1] \in Seq(Words)
    <3> HIDE DEF Words
    <3> QED BY <1>0
  <2> HIDE DEF Words, Line
  <2> QED BY <1>4, <2>1 DEF Walks
<1>6. f = Laid(f)
  <2>1. f[0] = Top
    BY <1>4 DEF Walks
  <2>2. \A n \in 1..Leaf : f[n] = Under(f[n - 1], n)
    <3> HIDE DEF Under, Line
    <3> QED BY <1>3, <1>5
  <2>3. \A n \in Nodes : f[n] = IF n = 0 THEN Top ELSE Under(f[n - 1], n)
    <3> HIDE DEF Under
    <3> QED BY <1>0, <2>1, <2>2
  <2> HIDE DEF Under, Words
  <2> QED BY <1>0, <2>3
<1> DEFINE down == CHOOSE g : g = Laid(g)
<1>7. eff = The({[n \in Nodes |-> all[n + 1]] : all \in {down[Leaf]}})
  BY DEF EffOf, Top
<1>8. down = Laid(down)
  <2> HIDE DEF Laid
  <2> QED BY <1>6
<1>9. PICK d : d = down
  OBVIOUS
<1>10. eff = [n \in Nodes |-> d[Leaf][n + 1]]
  <2>1. {[n \in Nodes |-> all[n + 1]] : all \in {d[Leaf]}} =
          {[n \in Nodes |-> d[Leaf][n + 1]]}
    OBVIOUS
  <2> QED BY <1>7, <1>9, <2>1, OneOf
<1>11. /\ d[0] = Top
       /\ \A n \in 1..Leaf : d[n] = Append(d[n - 1], Line(d[n - 1], n))
  <2> HIDE DEF Under, Line, down
  <2> QED BY <1>0, <1>3, <1>8, <1>9, SMTT(30)
<1> HIDE DEF Words, Line, Under, step, Laid, down
<1>12. \A n \in 0..Leaf : d[n] \in Seq(Words) /\ Len(d[n]) = n + 1
  <2> DEFINE In == {n \in 0..Leaf : d[n] \in Seq(Words) /\ Len(d[n]) = n + 1}
  <2>1. 0 \in In
    BY <1>0, <1>2, <1>11
  <2>2. ASSUME NEW n \in 0..Leaf - 1, n \in In
        PROVE  n + 1 \in In
    <3>1. n + 1 \in 1..Leaf /\ (n + 1) - 1 = n
      BY <1>0
    <3>2. d[n + 1] = Append(d[n], Line(d[n], n + 1))
      BY <1>11, <3>1
    <3>3. d[n] \in Seq(Words) /\ Len(d[n]) = n + 1 /\ Line(d[n], n + 1) \in Words
      BY <1>1, <2>2
    <3>4. d[n + 1] \in Seq(Words) /\ Len(d[n + 1]) = (n + 1) + 1
      BY <3>2, <3>3
    <3> QED BY <3>1, <3>4
  <2>3. \A n \in 0..Leaf : n \in In
    <3> HIDE DEF In
    <3>1. \A i \in 0..Leaf - 1 : i \in In => i + 1 \in In
      BY <2>2
    <3> QED BY <1>0, <2>1, <3>1, UpTo
  <2> QED BY <2>3
\* What is said of a node stays as the walk goes further down.
<1>13. \A n \in 0..Leaf : \A k \in 0..n : d[n][k + 1] = d[k][k + 1]
  <2> DEFINE In == {n \in 0..Leaf : \A k \in 0..n : d[n][k + 1] = d[k][k + 1]}
  <2>1. 0 \in In
    BY <1>0
  <2>2. ASSUME NEW n \in 0..Leaf - 1, n \in In
        PROVE  n + 1 \in In
    <3>1. n + 1 \in 1..Leaf /\ (n + 1) - 1 = n
      BY <1>0
    <3>2. d[n + 1] = Append(d[n], Line(d[n], n + 1))
      BY <1>11, <3>1
    <3>3. d[n] \in Seq(Words) /\ Len(d[n]) = n + 1
      BY <1>0, <1>12
    <3>4. \A k \in 0..n : d[n + 1][k + 1] = d[n][k + 1]
      BY <1>1, <3>2, <3>3
    <3> QED BY <2>2, <3>1, <3>4
  <2>3. \A n \in 0..Leaf : n \in In
    <3> HIDE DEF In
    <3>1. \A i \in 0..Leaf - 1 : i \in In => i + 1 \in In
      BY <2>2
    <3> QED BY <1>0, <2>1, <3>1, UpTo
  <2> QED BY <2>3
<1>14. \A n \in 0..Leaf : eff[n] = d[n][n + 1]
  BY <1>0, <1>10, <1>13
<1>15. eff[0] = {}
  BY <1>0, <1>2, <1>11, <1>14
<1>16. ASSUME NEW n \in 1..Leaf
       PROVE  eff[n] = WordOf(br, CountedOf(br, eff, n))
  <2>1. n - 1 \in 0..Leaf /\ n \in 0..Leaf
    BY <1>0
  <2>2. d[n][n + 1] = Line(d[n - 1], n)
    <3>1. d[n - 1] \in Seq(Words) /\ Len(d[n - 1]) = n
      BY <1>0, <1>12, <2>1
    <3>2. d[n] = Append(d[n - 1], Line(d[n - 1], n))
      BY <1>11
    <3> QED BY <1>1, <3>1, <3>2
  <2>3. \A m \in 0..n - 1 : d[n - 1][m + 1] = eff[m]
    BY <1>0, <1>13, <1>14, <2>1
  <2>4. \A r \in RecordsOf(br, n) : r[1] \in 0..n - 1
    BY <1>0, InBlocks DEF RecordsOf
  <2>5. CountedIn(br, d[n - 1], n) = CountedOf(br, eff, n)
    <3>1. \A r \in RecordsOf(br, n) : d[n - 1][r[1] + 1] = eff[r[1]]
      BY <2>3, <2>4
    <3> QED BY <3>1 DEF CountedIn, CountedOf
  <2> QED BY <1>14, <2>1, <2>2, <2>5 DEF Line
<1> QED BY <1>10, <1>15, <1>16

-----------------------------------------------------------------------------
(* The invariant: besides the types, which keys can be which.              *)

\* The blocks in storage.
On(br) == UNION {{br[n][i] : i \in 1..Len(br[n])} : n \in Nodes}

\* Every key in use was generated; a key a revocation assigned never is the
\* first key of a node, nor one a rotation named, nor in the file of a node yet
\* to be created.
KeysOf(tr, bl, fl, mi) ==
  /\ \A n \in DOMAIN tr : tr[n].key < mi
  /\ \A n \in Nodes : fl[n] < mi
  /\ \A b \in bl : /\ b.key < mi
                   /\ b.kind = "rotation" => b.key # NoKey
  /\ \A b \in bl : b.kind = "revocation" /\ b.key # NoKey =>
       /\ \A m \in DOMAIN tr : tr[m].key # b.key
       /\ \A m \in Nodes \ DOMAIN tr : fl[m] # b.key
       /\ \A r \in bl : r.kind = "rotation" => r.key # b.key

KeysOK == KeysOf(tree, On(branch), file, minted)

IInv == TypeOK /\ KeysOK

LEMMA InOn ==
  ASSUME NEW br, NEW b
  PROVE  b \in On(br) <=> \E n \in Nodes : \E i \in 1..Len(br[n]) : b = br[n][i]
BY DEF On

\* A branch with one block more.
Longer(br, n, b) == [br EXCEPT ![n] = Append(@, b)]

LEMMA Appended ==
  ASSUME NEW br \in [Nodes -> Seq(BlockType)], NEW n \in Nodes, NEW b \in BlockType,
         NEW br2, br2 = Longer(br, n, b)
  PROVE  /\ br2 \in [Nodes -> Seq(BlockType)]
         /\ Len(br[n]) \in Nat
         /\ Len(br2[n]) = Len(br[n]) + 1 /\ br2[n][Len(br[n]) + 1] = b
         /\ \A i \in 1..Len(br[n]) : br2[n][i] = br[n][i]
         /\ \A m \in Nodes \ {n} : br2[m] = br[m]
         /\ \A c : c \in On(br2) <=> c \in On(br) \/ c = b
<1>0. br2 = [br EXCEPT ![n] = Append(@, b)]
  BY DEF Longer
<1>1. br[n] \in Seq(BlockType) /\ br2[n] = Append(br[n], b)
  BY <1>0
<1>2. /\ br2 \in [Nodes -> Seq(BlockType)]
      /\ \A m \in Nodes \ {n} : br2[m] = br[m]
  BY <1>0, <1>1
<1>3. /\ Len(br[n]) \in Nat
      /\ Len(br2[n]) = Len(br[n]) + 1 /\ br2[n][Len(br[n]) + 1] = b
      /\ \A i \in 1..Len(br[n]) : br2[n][i] = br[n][i]
  BY <1>1
<1>4. ASSUME NEW c \in On(br2)
      PROVE  c \in On(br) \/ c = b
  <2>1. PICK m \in Nodes : \E i \in 1..Len(br2[m]) : c = br2[m][i]
    BY <1>4 DEF On
  <2>2. PICK i \in 1..Len(br2[m]) : c = br2[m][i]
    BY <2>1
  <2>3. CASE m # n
    BY <1>2, <2>2, <2>3, InOn
  <2>4. CASE m = n /\ i = Len(br[n]) + 1
    BY <1>3, <2>2, <2>4
  <2>5. CASE m = n /\ i # Len(br[n]) + 1
    <3>1. i \in 1..Len(br[n])
      BY <1>3, <2>2, <2>5
    <3> QED BY <1>3, <2>2, <2>5, <3>1, InOn
  <2> QED BY <2>3, <2>4, <2>5
<1>5. ASSUME NEW c \in On(br)
      PROVE  c \in On(br2)
  <2>1. PICK m \in Nodes : \E i \in 1..Len(br[m]) : c = br[m][i]
    BY <1>5, InOn
  <2>2. PICK i \in 1..Len(br[m]) : c = br[m][i]
    BY <2>1
  <2>3. CASE m # n
    BY <1>2, <2>2, <2>3, InOn
  <2>4. CASE m = n
    <3>1. i \in 1..Len(br2[n]) /\ c = br2[n][i]
      BY <1>3, <2>2, <2>4
    <3> QED BY <3>1, InOn
  <2> QED BY <2>3, <2>4
<1>6. b \in On(br2)
  <2>1. Len(br[n]) + 1 \in 1..Len(br2[n])
    BY <1>3
  <2> QED BY <1>3, <2>1, InOn
<1> QED BY <1>2, <1>3, <1>4, <1>5, <1>6

LEMMA TypeFacts ==
  ASSUME TypeOK
  PROVE  /\ Leaf \in Nat /\ Nodes = 0..Leaf /\ Keys = 0..MaxKeys - 1 /\ MaxKeys \in Nat
         /\ branch \in [Nodes -> Seq(BlockType)]
         /\ \A b \in On(branch) : b \in BlockType /\ b.key \in Keys \cup {NoKey}
         /\ \A n \in DOMAIN tree : /\ n \in Nodes /\ tree[n] \in NodeType
                                   /\ tree[n].key \in Keys
         /\ \A n \in Nodes : file[n] \in Keys \cup {NoKey}
         /\ minted \in Nat /\ NoKey = -1 /\ now \in Times
<1>1. \A b \in On(branch) : b \in BlockType
  BY InOn DEF TypeOK
<1>2. \A n \in DOMAIN tree : n \in Nodes /\ tree[n] \in NodeType
  BY ChainAssumption DEF TypeOK, Nodes
<1>3. /\ Leaf \in Nat /\ Nodes = 0..Leaf /\ Keys = 0..MaxKeys - 1 /\ MaxKeys \in Nat
      /\ NoKey = -1
  BY ChainAssumption DEF Nodes, Keys, NoKey
<1>4. /\ branch \in [Nodes -> Seq(BlockType)] /\ now \in Times
      /\ \A n \in Nodes : file[n] \in Keys \cup {NoKey}
      /\ minted \in 0..MaxKeys
  BY DEF TypeOK
<1>5. \A b \in BlockType : b.key \in Keys \cup {NoKey}
  BY DEF BlockType
<1>6. \A d \in NodeType : d.key \in Keys
  BY DEF NodeType
<1> QED BY <1>1, <1>2, <1>3, <1>4, <1>5, <1>6

\* What Put leaves when the node is there and the keys are looked at apart.
LEMMA PutKeeps ==
  ASSUME TypeOK, NEW n \in DOMAIN tree, NEW b \in BlockType, NEW day \in Times,
         branch' = Longer(branch, n, b), now' = day,
         tree' = tree, minted' \in 0..MaxKeys,
         file' \in [Nodes -> Keys \cup {NoKey}]
  PROVE  TypeOK' /\ On(branch') = On(branch) \cup {b}
<1>1. n \in Nodes
  BY ChainAssumption DEF TypeOK, Nodes
<1>2. /\ branch' \in [Nodes -> Seq(BlockType)]
      /\ \A m \in Nodes \ {n} : branch'[m] = branch[m]
      /\ On(branch') = On(branch) \cup {b}
  <2>1. branch \in [Nodes -> Seq(BlockType)]
    BY DEF TypeOK
  <2>2. branch' \in [Nodes -> Seq(BlockType)]
    BY <1>1, <2>1, Appended
  <2>3. \A m \in Nodes \ {n} : branch'[m] = branch[m]
    BY <1>1, <2>1, Appended
  <2>4. \A c : c \in On(branch') <=> c \in On(branch) \/ c = b
    BY <1>1, <2>1, Appended, Z3
  <2> QED BY <2>2, <2>3, <2>4
<1>3. \A m \in Nodes : branch'[m] # <<>> => m \in DOMAIN tree'
  BY <1>2 DEF TypeOK, Exists
<1> QED BY <1>2, <1>3 DEF TypeOK, Exists

LEMMA DatesAreTimes ==
  ASSUME TypeOK
  PROVE  (\A t \in Dates : t \in Times) /\ (\A t \in 0..now : t \in Times)
BY ChainAssumption DEF TypeOK, Dates, Times

LEMMA InitHolds == Init => IInv
<1> SUFFICES ASSUME Init PROVE IInv
  OBVIOUS
<1> USE ChainAssumption
<1>1. now \in Times /\ minted \in 0..MaxKeys
  BY DEF Init, Times, Nodes
<1>2. tree \in [0..Grown -> NodeType] /\ DOMAIN tree = 0..Grown /\ Grown \in Nodes
  <2>1. \A m \in 0..Grown : Node(m, IF m = 0 THEN 0 ELSE m - 1) \in NodeType
    BY DEF Node, NodeType, Keys, Nodes
  <2> QED BY <2>1 DEF Init
<1>3. /\ branch \in [Nodes -> Seq(BlockType)] /\ \A n \in Nodes : branch[n] = <<>>
      /\ file \in [Nodes -> Keys \cup {NoKey}]
  BY DEF Init, Keys, Nodes
<1>4. TypeOK
  BY <1>1, <1>2, <1>3 DEF TypeOK
<1>5. On(branch) = {}
  BY <1>3 DEF On
<1>6. /\ \A n \in DOMAIN tree : tree[n].key < minted
      /\ \A n \in Nodes : file[n] < minted
  BY <1>2 DEF Init, Node, NoKey, Nodes
<1>7. KeysOK
  BY <1>5, <1>6 DEF KeysOK, KeysOf
<1> QED BY <1>4, <1>7 DEF IInv

\* A block that assigns no key, written by the owner.
LEMMA PlainBlockKeeps ==
  ASSUME IInv, NEW n \in DOMAIN tree, NEW b \in BlockType, NEW day \in Times,
         b.key = NoKey, b.kind # "rotation",
         branch' = Longer(branch, n, b), now' = day,
         UNCHANGED <<tree, file, minted>>
  PROVE  IInv'
<1>1. TypeOK' /\ On(branch') = On(branch) \cup {b}
  BY PutKeeps DEF IInv, TypeOK
<1>2. KeysOf(tree, On(branch) \cup {b}, file, minted)
  BY DEF IInv, KeysOK, KeysOf, TypeOK, NoKey
<1> QED BY <1>1, <1>2 DEF IInv, KeysOK

LEMMA AppendDataKeeps ==
  ASSUME IInv, NEW n \in Nodes, NEW t \in Dates, AppendData(n, t)
  PROVE  IInv'
<1> DEFINE b == Block("data", t, file[n], NoKey, NoNode, 0)
<1>1. b \in BlockType /\ b.time = t /\ b.key = NoKey /\ b.kind # "rotation"
  <2>1. file[n] \in Keys /\ t \in Times /\ 0 \in Times
    BY TypeFacts, DatesAreTimes, ChainAssumption DEF IInv, AppendData, Times
  <2> QED BY <2>1 DEF Block, BlockType
<1> HIDE DEF b
<1> QED BY <1>1, PlainBlockKeeps, DatesAreTimes DEF AppendData, Put, Exists, IInv, b, Longer

LEMMA StopKeeps ==
  ASSUME IInv, NEW a \in Nodes, NEW n \in Nodes, NEW t \in Dates, NEW since \in Times,
         Stop(a, n, t, since)
  PROVE  IInv'
<1> DEFINE b == Block("revocation", t, file[a], NoKey, n, since)
<1>1. b \in BlockType /\ b.time = t /\ b.key = NoKey /\ b.kind # "rotation"
  <2>1. file[a] \in Keys /\ t \in Times
    BY TypeFacts, DatesAreTimes DEF IInv, Stop, MayRevoke
  <2> QED BY <2>1 DEF Block, BlockType
<1>2. a \in DOMAIN tree
  BY DEF IInv, TypeOK, Stop, MayRevoke, Exists, Nodes
<1> HIDE DEF b
<1> QED BY <1>1, <1>2, PlainBlockKeeps, DatesAreTimes DEF Stop, Put, IInv, b, Longer

LEMMA RotateKeeps ==
  ASSUME IInv, NEW n \in Nodes, NEW t \in Dates, Rotate(n, t)
  PROVE  IInv'
<1> DEFINE b == Block("rotation", t, file[n], minted, NoNode, 0)
<1>1. b \in BlockType /\ b.time = t /\ b.key = minted /\ b.kind = "rotation"
  <2>1. file[n] \in Keys /\ minted \in Keys /\ t \in Times /\ 0 \in Times
    BY TypeFacts, DatesAreTimes, ChainAssumption DEF IInv, Rotate, Times
  <2> QED BY <2>1 DEF Block, BlockType
<1>2. /\ minted' = minted + 1 /\ minted' \in 0..MaxKeys /\ minted \in Keys
      /\ file' = [file EXCEPT ![n] = minted]
      /\ file' \in [Nodes -> Keys \cup {NoKey}]
      /\ n \in DOMAIN tree /\ tree' = tree
  BY ChainAssumption DEF IInv, TypeOK, Rotate, Exists, Keys
<1> HIDE DEF b
<1>3. TypeOK' /\ On(branch') = On(branch) \cup {b}
  BY <1>1, <1>2, PutKeeps, DatesAreTimes DEF IInv, Rotate, Put, b, Longer
<1>p. PICK bl : bl = On(branch) \cup {b}
  OBVIOUS
<1>4. KeysOf(tree, bl, file', minted + 1)
  <2>1. /\ \A m \in DOMAIN tree : tree[m].key < minted + 1
        /\ \A m \in Nodes : file'[m] < minted + 1
    <3>1. \A m \in Nodes : file[m] < minted /\ file[m] \in Keys \cup {NoKey}
      BY TypeFacts DEF IInv, KeysOK, KeysOf
    <3>2. \A m \in DOMAIN tree : tree[m].key < minted /\ tree[m].key \in Keys
      BY TypeFacts DEF IInv, KeysOK, KeysOf
    <3> QED BY <1>2, <3>1, <3>2, TypeFacts, SMTT(30) DEF IInv
  <2>2. \A c \in bl : /\ c.key < minted + 1
                      /\ c.kind = "rotation" => c.key # NoKey
    <3>1. \A c \in On(branch) : c.key \in Keys \cup {NoKey}
      BY <1>p, TypeFacts DEF IInv
    <3> QED BY <1>p, <1>1, <1>2, <3>1 DEF IInv, KeysOK, KeysOf, Keys, NoKey
  <2>3. ASSUME NEW c \in bl, c.kind = "revocation", c.key # NoKey
        PROVE  /\ \A m \in DOMAIN tree : tree[m].key # c.key
               /\ \A m \in Nodes \ DOMAIN tree : file'[m] # c.key
               /\ \A r \in bl : r.kind = "rotation" => r.key # c.key
    <3>1. c \in On(branch) /\ c.key < minted
      BY <1>p, <1>1, <2>3 DEF IInv, KeysOK, KeysOf
    <3>2. b.key # c.key
      BY <1>p, <1>1, <1>2, <3>1 DEF Keys
    <3> QED BY <1>p, <1>2, <2>3, <3>1, <3>2 DEF IInv, KeysOK, KeysOf, TypeOK
  <2>6. \A c \in bl : c.kind = "revocation" /\ c.key # NoKey =>
          /\ \A m \in DOMAIN tree : tree[m].key # c.key
          /\ \A m \in Nodes \ DOMAIN tree : file'[m] # c.key
          /\ \A r \in bl : r.kind = "rotation" => r.key # c.key
    BY <2>3
  <2> QED BY <2>1, <2>2, <2>6 DEF KeysOf
<1> QED BY <1>2, <1>3, <1>4, <1>p DEF IInv, KeysOK

\* A revocation that assigns the next key.
LEMMA AssignKeeps ==
  ASSUME IInv, NEW n \in DOMAIN tree, NEW b \in BlockType, NEW day \in Times,
         minted < MaxKeys, b.kind = "revocation", b.key = minted,
         branch' = Longer(branch, n, b), now' = day,
         tree' = tree, minted' = minted + 1,
         file' \in [Nodes -> Keys \cup {NoKey}],
         \A m \in Nodes : file'[m] < minted + 1,
         \A m \in Nodes \ DOMAIN tree : file'[m] = file[m]
  PROVE  IInv'
<1>1. minted' \in 0..MaxKeys /\ minted \in Keys
  BY ChainAssumption DEF IInv, TypeOK, Keys
<1>2. TypeOK' /\ On(branch') = On(branch) \cup {b}
  BY <1>1, PutKeeps DEF IInv
<1>3. \A c \in On(branch) : c.key \in Keys \cup {NoKey} /\ c.key < minted
  BY TypeFacts DEF IInv, KeysOK, KeysOf
<1>p. PICK bl : bl = On(branch) \cup {b}
  OBVIOUS
<1>4. KeysOf(tree, bl, file', minted + 1)
  <2>1. \A m \in DOMAIN tree : tree[m].key < minted + 1 /\ tree[m].key # minted
    BY <1>p, TypeFacts DEF IInv, KeysOK, KeysOf
  <2>2. \A c \in bl : /\ c.key < minted + 1
                      /\ c.kind = "rotation" => c.key # NoKey
    BY <1>p, <1>1, <1>3 DEF IInv, KeysOK, KeysOf, Keys, NoKey
  <2>3. \A m \in Nodes \ DOMAIN tree : file'[m] # minted
    BY <1>p, <1>1 DEF IInv, KeysOK, KeysOf, Keys, TypeOK, NoKey
  <2>4. \A r \in bl : r.kind = "rotation" => r.key # minted
    BY <1>p, <1>1, <1>3 DEF Keys, NoKey
  <2>5. ASSUME NEW c \in bl, c.kind = "revocation", c.key # NoKey
        PROVE  /\ \A m \in DOMAIN tree : tree[m].key # c.key
               /\ \A m \in Nodes \ DOMAIN tree : file'[m] # c.key
               /\ \A r \in bl : r.kind = "rotation" => r.key # c.key
    <3>1. CASE c \in On(branch)
      BY <1>p, <2>5, <3>1 DEF IInv, KeysOK, KeysOf
    <3>2. CASE c = b
      BY <1>p, <2>1, <2>3, <2>4, <3>2
    <3> QED BY <1>p, <3>1, <3>2
  <2>6. \A c \in bl : c.kind = "revocation" /\ c.key # NoKey =>
          /\ \A m \in DOMAIN tree : tree[m].key # c.key
          /\ \A m \in Nodes \ DOMAIN tree : file'[m] # c.key
          /\ \A r \in bl : r.kind = "rotation" => r.key # c.key
    BY <2>5
  <2> QED BY <2>1, <2>2, <2>6 DEF KeysOf
<1> QED BY <1>2, <1>4, <1>p DEF IInv, KeysOK

LEMMA ReplaceKeeps ==
  ASSUME IInv, NEW a \in Nodes, NEW n \in Nodes, NEW t \in Dates, NEW since \in Times,
         NEW end \in Ends, Replace(a, n, t, since, end)
  PROVE  IInv'
<1> DEFINE b == Block("revocation", t, file[a], minted, n, since)
<1>1. minted \in Keys
  BY ChainAssumption DEF IInv, TypeOK, Keys, Replace
<1>2. b \in BlockType /\ b.time = t /\ b.key = minted /\ b.kind = "revocation"
  <2>1. file[a] \in Keys /\ t \in Times
    BY TypeFacts, DatesAreTimes DEF IInv, Replace, MayRevoke
  <2> QED BY <1>1, <2>1 DEF Block, BlockType
<1>3. a \in DOMAIN tree /\ n \in DOMAIN tree
  BY DEF IInv, TypeOK, Replace, MayRevoke, Exists, Nodes
<1>4. \/ file' = file
      \/ file' = [file EXCEPT ![n] = NoKey]
      \/ file' = [file EXCEPT ![n] = minted]
  BY DEF Replace, Ends
<1>5. /\ file' \in [Nodes -> Keys \cup {NoKey}]
      /\ \A m \in Nodes : file'[m] < minted + 1
      /\ \A m \in Nodes \ DOMAIN tree : file'[m] = file[m]
  BY <1>1, <1>3, <1>4, SMTT(30) DEF IInv, TypeOK, KeysOK, KeysOf, Keys, NoKey
<1> HIDE DEF b
<1> QED BY <1>2, <1>3, <1>5, AssignKeeps, DatesAreTimes DEF Replace, Put, IInv, b, Longer

LEMMA StealKeeps ==
  ASSUME IInv, NEW n \in DOMAIN tree, NEW b \in StolenBlocks(n), Steal(n, b)
  PROVE  IInv'
<1>0. n \in Nodes /\ tree[n].key \in Keys /\ minted \in Nat /\ Leaf \in Nat
  BY ChainAssumption DEF IInv, TypeOK, NodeType, Nodes
<1>1. CASE \E t \in 0..now : b = Block("data", t, tree[n].key, NoKey, NoNode, 0)
  <2>1. b \in BlockType /\ b.key = NoKey /\ b.kind = "data"
    BY <1>0, <1>1, DatesAreTimes, ChainAssumption DEF IInv, Block, BlockType, Times
  <2> QED BY <2>1, PlainBlockKeeps DEF Steal, IInv, TypeOK, Longer
<1>2. CASE \E t \in 0..now, m \in (n + 1)..Leaf, since \in 0..now :
             b = Block("revocation", t, tree[n].key, minted, m, since)
  <2>1. PICK t \in 0..now, m \in (n + 1)..Leaf, since \in 0..now :
          b = Block("revocation", t, tree[n].key, minted, m, since)
    BY <1>2
  <2>2. t \in Times /\ since \in Times /\ m \in Nodes
    BY <1>0, DatesAreTimes DEF IInv, Nodes
  <2>3. b.kind = "revocation" /\ b.key = minted
    BY <2>1 DEF Block
  <2>4. minted < MaxKeys /\ minted \in Keys /\ minted' = minted + 1
    BY <1>0, <2>3, ChainAssumption DEF Steal, Keys
  <2>5. b \in BlockType
    BY <1>0, <2>1, <2>2, <2>4 DEF Block, BlockType
  <2>6. \A m2 \in Nodes : file[m2] < minted + 1
    BY <1>0, SMTT(30) DEF IInv, TypeOK, KeysOK, KeysOf, Keys, NoKey
  <2> QED BY <2>3, <2>4, <2>5, <2>6, AssignKeeps DEF Steal, IInv, TypeOK, Longer
<1> QED BY <1>1, <1>2 DEF StolenBlocks

\* Key files get keys never used before; the nodes added continue the path.
LEMMA BranchInitKeeps ==
  ASSUME IInv, NEW n \in Nodes, NEW keys \in 0..Leaf + 1, NEW nodes \in 0..Leaf + 1,
         BranchInit(n, keys, nodes)
  PROVE  IInv'
<1> DEFINE lacking == {m \in 0..n : file[m] = NoKey}
           before(m) == {k \in lacking : k < m}
           serial(m) == minted + Cardinality(before(m))
           missing == {m \in 0..n : ~Exists(m)}
           done == DOMAIN tree \cup {m \in missing : m < Min(missing) + nodes}
<1>0. /\ Leaf \in Nat /\ Nodes = 0..Leaf /\ Keys = 0..MaxKeys - 1 /\ MaxKeys \in Nat
      /\ minted \in Nat /\ NoKey = -1 /\ n \in 0..Leaf
      /\ \A m \in Nodes : file[m] \in Keys \cup {NoKey} /\ file[m] < minted
  BY TypeFacts DEF IInv, KeysOK, KeysOf
<1>1. PICK deepest \in Nodes : tree \in [0..deepest -> NodeType]
  BY DEF IInv, TypeOK
<1>n. /\ keys \in Nat /\ keys >= 1 /\ minted + keys <= MaxKeys
      /\ nodes \in Nat /\ nodes \in 0..Cardinality(missing)
      /\ nodes > 0 => keys = Cardinality(lacking)
  BY <1>0 DEF BranchInit
<1>2. /\ file' = [m \in Nodes |-> IF m \in lacking /\ serial(m) < minted + keys
                                  THEN serial(m) ELSE file[m]]
      /\ minted' = minted + keys
      /\ tree' = [m \in done |-> IF Exists(m) THEN tree[m]
                                 ELSE Node(file'[m], file'[m - 1])]
      /\ now' = now /\ branch' = branch
  BY DEF BranchInit
<1>3. /\ IsFiniteSet(lacking) /\ Cardinality(lacking) \in Nat
      /\ \A m : /\ Cardinality(before(m)) \in 0..Cardinality(lacking)
                /\ m \in lacking => Cardinality(before(m)) < Cardinality(lacking)
  <2>1. IsFiniteSet(lacking)
    <3>1. IsFiniteSet(0..n)
      BY <1>0, FS_Interval
    <3>2. lacking \in SUBSET (0..n)
      OBVIOUS
    <3> QED BY <3>1, <3>2, FS_Subset
  <2>2. Cardinality(lacking) \in Nat
    BY <2>1, FS_CardinalityType
  <2>3. ASSUME NEW m
        PROVE  /\ Cardinality(before(m)) \in 0..Cardinality(lacking)
               /\ m \in lacking => Cardinality(before(m)) < Cardinality(lacking)
    <3>1. before(m) \in SUBSET lacking /\ (m \in lacking => before(m) # lacking)
      BY <1>0
    <3> HIDE DEF lacking, before
    <3>2. IsFiniteSet(before(m)) /\ Cardinality(before(m)) <= Cardinality(lacking)
          /\ (Cardinality(lacking) = Cardinality(before(m)) => lacking = before(m))
      BY <2>1, <3>1, FS_Subset
    <3>3. Cardinality(before(m)) \in Nat
      BY <3>2, FS_CardinalityType
    <3> QED BY <2>2, <3>1, <3>2, <3>3
  <2> QED BY <2>1, <2>2, <2>3
<1>4. \A m \in Nodes :
        \/ /\ m \in lacking /\ file'[m] \in Keys
           /\ minted <= file'[m] /\ file'[m] < minted + keys
        \/ file'[m] = file[m]
  <2> TAKE m \in Nodes
  <2>1. file'[m] = IF m \in lacking /\ serial(m) < minted + keys
                   THEN serial(m) ELSE file[m]
    BY <1>2
  <2>2. PICK c : c = Cardinality(before(m))
    OBVIOUS
  <2> HIDE DEF lacking, before
  <2>3. c \in Nat
    BY <1>3, <2>2
  <2>4. file'[m] = IF m \in lacking /\ minted + c < minted + keys
                   THEN minted + c ELSE file[m]
    BY <2>1, <2>2
  <2> QED BY <1>0, <1>n, <2>3, <2>4
\* All the files of the path are there once a node is created.
<1>5. ASSUME nodes > 0, NEW m \in 0..n
      PROVE  file'[m] \in Keys
  <2>1. m \in Nodes
    BY <1>0
  <2>2. file'[m] = IF m \in lacking /\ serial(m) < minted + keys
                   THEN serial(m) ELSE file[m]
    BY <1>2, <2>1
  <2>3. CASE m \in lacking
    <3>1. Cardinality(before(m)) \in Nat /\ Cardinality(before(m)) < keys
      <4> HIDE DEF lacking, before
      <4> QED BY <1>n, <1>3, <1>5, <2>3
    <3> HIDE DEF lacking, before
    <3> QED BY <1>0, <1>n, <2>2, <2>3, <3>1
  <2>4. CASE m \notin lacking
    <3>1. file[m] # NoKey
      BY <2>4
    <3> HIDE DEF lacking
    <3> QED BY <1>0, <2>1, <2>2, <2>4, <3>1
  <2> QED BY <2>3, <2>4
<1>6. \A m \in 0..n : m \in missing <=> m > deepest
  BY <1>0, <1>1 DEF Exists
<1>7. PICK last \in Nodes : /\ done = 0..last /\ deepest <= last
                            /\ last > deepest => last <= n /\ nodes > 0
  <2>1. CASE n <= deepest
    <3>1. missing = {}
      BY <1>0, <1>6, <2>1
    <3>2. done = 0..deepest
      BY <1>1, <3>1
    <3> HIDE DEF done
    <3> QED BY <3>2, <1>0
  <2>2. CASE n > deepest
    <3>1. missing = (deepest + 1)..n
      BY <1>0, <1>6, <2>2
    <3>2. Min(missing) = deepest + 1
      <4>1. (deepest + 1)..n \in SUBSET Nat /\ deepest + 1 \in (deepest + 1)..n
        BY <1>0, <2>2
      <4>2. /\ Min((deepest + 1)..n) \in (deepest + 1)..n
            /\ \A k \in (deepest + 1)..n : Min((deepest + 1)..n) <= k
        BY <4>1, MinNat
      <4>3. Min((deepest + 1)..n) = deepest + 1
        BY <1>0, <4>1, <4>2
      <4> QED BY <3>1, <4>3
    <3>3. nodes <= n - deepest
      <4>1. Cardinality((deepest + 1)..n) = n - deepest
        BY <1>0, <2>2, FS_Interval
      <4> HIDE DEF missing
      <4> QED BY <1>0, <1>n, <2>2, <3>1, <4>1
    <3>4. done = 0..deepest + nodes
      <4>1. done = 0..deepest \cup {m \in (deepest + 1)..n : m < (deepest + 1) + nodes}
        <5>1. done = DOMAIN tree \cup {m \in missing : m < Min(missing) + nodes}
          OBVIOUS
        <5> HIDE DEF missing, done
        <5> QED BY <1>1, <3>1, <3>2, <5>1
      <4> HIDE DEF done
      <4> QED BY <1>0, <1>n, <2>2, <3>3, <4>1
    <3>5. deepest + nodes \in Nodes
      BY <1>0, <1>n, <2>2, <3>3
    <3> HIDE DEF done
    <3> QED BY <1>0, <1>n, <3>3, <3>4, <3>5
  <2> HIDE DEF done
  <2> QED BY <1>0, <2>1, <2>2
<1>8. \A m \in 0..last : tree'[m] = IF m <= deepest THEN tree[m]
                                    ELSE Node(file'[m], file'[m - 1])
  <2> HIDE DEF done
  <2>1. \A m \in 0..last : Exists(m) <=> m <= deepest
    BY <1>0, <1>1, <1>7 DEF Exists
  <2> QED BY <1>2, <1>7, <2>1
<1>9. ASSUME NEW m \in 0..last, m > deepest
      PROVE  /\ file'[m] \in Keys /\ file'[m - 1] \in Keys
             /\ tree'[m] \in NodeType /\ tree'[m].key = file'[m]
  <2>1. file'[m] \in Keys /\ file'[m - 1] \in Keys
    <3> HIDE DEF done, lacking, serial, missing
    <3>1. m \in 0..n /\ m - 1 \in 0..n /\ nodes > 0
      BY <1>0, <1>7, <1>9
    <3> QED BY <1>5, <3>1
  <2>2. tree'[m] = Node(file'[m], file'[m - 1])
    <3> HIDE DEF done
    <3> QED BY <1>0, <1>8, <1>9
  <2> QED BY <2>1, <2>2 DEF Node, NodeType
<1>10. DOMAIN tree' = 0..last
  <2> HIDE DEF done
  <2> QED BY <1>2, <1>7
<1> HIDE DEF lacking, before, serial, missing, done
<1>11. TypeOK'
  <2>1. tree' \in [0..last -> NodeType]
    <3>1. \A m \in 0..last : tree'[m] \in NodeType
      BY <1>0, <1>1, <1>7, <1>8, <1>9
    <3>2. tree' = [m \in 0..last |-> tree'[m]]
      BY <1>2, <1>7
    <3> QED BY <3>1, <3>2
  <2>2. \A m \in Nodes : branch'[m] # <<>> => m \in DOMAIN tree'
    <3>1. \A m \in Nodes : branch[m] # <<>> => m \in DOMAIN tree
      BY DEF IInv, TypeOK, Exists
    <3> QED BY <1>0, <1>1, <1>2, <1>7, <1>10, <3>1
  <2>3. file' \in [Nodes -> Keys \cup {NoKey}]
    <3>1. \A m \in Nodes : file'[m] \in Keys \cup {NoKey}
      BY <1>0, <1>4
    <3> QED BY <1>2, <3>1
  <2>4. minted' \in 0..MaxKeys
    BY <1>0, <1>n, <1>2
  <2>5. now' \in Times /\ branch' \in [Nodes -> Seq(BlockType)]
    BY <1>2 DEF IInv, TypeOK
  <2> QED BY <2>1, <2>2, <2>3, <2>4, <2>5 DEF TypeOK, Exists
<1>12. KeysOf(tree', On(branch), file', minted + keys)
  <2>1. ASSUME NEW m \in Nodes
        PROVE  file'[m] < minted + keys
    BY <1>0, <1>n, <1>4, SMTT(30)
  <2>2. ASSUME NEW m \in DOMAIN tree'
        PROVE  tree'[m].key < minted + keys
    <3>1. CASE m <= deepest
      <4>1. m \in DOMAIN tree /\ tree'[m] = tree[m]
        BY <1>0, <1>1, <1>8, <1>10, <3>1
      <4>2. tree[m].key < minted /\ tree[m].key \in Keys
        BY <4>1, TypeFacts DEF IInv, KeysOK, KeysOf
      <4> QED BY <1>0, <1>n, <4>1, <4>2
    <3>2. CASE m > deepest
      BY <1>0, <1>7, <1>9, <1>10, <2>1, <3>2
    <3> QED BY <1>0, <1>10, <3>1, <3>2
  <2>3. \A b \in On(branch) : /\ b.key < minted + keys /\ b.key < minted
                              /\ b.kind = "rotation" => b.key # NoKey
    BY <1>0, <1>n, TypeFacts, SMTT(30) DEF IInv, KeysOK, KeysOf
  <2>4. ASSUME NEW b \in On(branch), b.kind = "revocation", b.key # NoKey,
               NEW m \in Nodes, m \notin DOMAIN tree
        PROVE  file'[m] # b.key
    <3>1. file[m] # b.key /\ b.key \in Keys
      BY <2>4, TypeFacts DEF IInv, KeysOK, KeysOf
    <3> QED BY <1>0, <1>4, <2>3, <2>4, <3>1
  <2>5. ASSUME NEW b \in On(branch), b.kind = "revocation", b.key # NoKey
        PROVE  /\ \A m \in DOMAIN tree' : tree'[m].key # b.key
               /\ \A m \in Nodes \ DOMAIN tree' : file'[m] # b.key
               /\ \A r \in On(branch) : r.kind = "rotation" => r.key # b.key
    <3>1. ASSUME NEW m \in DOMAIN tree'
          PROVE  tree'[m].key # b.key
      <4>1. CASE m <= deepest
        BY <1>0, <1>1, <1>8, <1>10, <2>5, <3>1, <4>1 DEF IInv, KeysOK, KeysOf
      <4>2. CASE m > deepest
        <5>1. m \in Nodes /\ m \notin DOMAIN tree /\ tree'[m].key = file'[m]
          BY <1>0, <1>1, <1>7, <1>9, <1>10, <4>2
        <5> QED BY <2>4, <2>5, <5>1
      <4> QED BY <1>0, <1>10, <4>1, <4>2
    <3>2. ASSUME NEW m \in Nodes \ DOMAIN tree'
          PROVE  file'[m] # b.key
      <4>1. m \notin DOMAIN tree
        BY <1>0, <1>1, <1>7, <1>10
      <4> QED BY <2>4, <2>5, <4>1
    <3>3. \A r \in On(branch) : r.kind = "rotation" => r.key # b.key
      BY <2>5 DEF IInv, KeysOK, KeysOf
    <3> QED BY <3>1, <3>2, <3>3
  <2>6. \A b \in On(branch) : b.kind = "revocation" /\ b.key # NoKey =>
          /\ \A m \in DOMAIN tree' : tree'[m].key # b.key
          /\ \A m \in Nodes \ DOMAIN tree' : file'[m] # b.key
          /\ \A r \in On(branch) : r.kind = "rotation" => r.key # b.key
    BY <2>5
  <2> QED BY <2>1, <2>2, <2>3, <2>6 DEF KeysOf
<1> QED BY <1>2, <1>11, <1>12 DEF IInv, KeysOK

LEMMA NextKeeps == IInv /\ [Next]_vars => IInv'
<1> SUFFICES ASSUME IInv, [Next]_vars PROVE IInv'
  OBVIOUS
<1>1. CASE Writes
  BY <1>1, AppendDataKeeps, RotateKeeps DEF Writes
<1>2. CASE Revokes
  BY <1>2, StopKeeps, ReplaceKeeps DEF Revokes
<1>3. CASE Grows
  BY <1>3, BranchInitKeeps DEF Grows
<1>4. CASE Steals
  BY <1>4, StealKeeps DEF Steals
<1>5. CASE UNCHANGED vars
  BY <1>5 DEF vars, IInv, TypeOK, Exists, KeysOK
<1> QED BY <1>1, <1>2, <1>3, <1>4, <1>5 DEF Next

LEMMA Invariance == Spec => []IInv
BY InitHolds, NextKeeps, PTL DEF Spec

\* Files, nodes and branches keep their shape whatever commands stop half-way:
\* the nodes of storage are a path from the root, each with keys, and no branch
\* has blocks before its node is created.
THEOREM ChainTypeCorrect == Spec => []TypeOK
<1>1. IInv => TypeOK
  BY DEF IInv
<1> QED BY <1>1, Invariance, PTL

-----------------------------------------------------------------------------
(* What a word says.                                                       *)

LEMMA BlockAt ==
  ASSUME NEW br \in [Nodes -> Seq(BlockType)], NEW r \in BlocksOf(br)
  PROVE  /\ r[1] \in Nodes /\ r[2] \in 1..Len(br[r[1]]) /\ Len(br[r[1]]) \in Nat
         /\ r = <<r[1], r[2]>>
         /\ br[r[1]][r[2]] \in BlockType /\ br[r[1]][r[2]] \in On(br)
<1>1. PICK n \in Nodes : \E i \in 1..Len(br[n]) : r = <<n, i>>
  BY InBlocks
<1>2. PICK i \in 1..Len(br[n]) : r = <<n, i>>
  BY <1>1
<1>3. br[n] \in Seq(BlockType)
  OBVIOUS
<1>4. Len(br[n]) \in Nat /\ br[n][i] \in BlockType
  BY <1>2, <1>3
<1>5. br[n][i] \in On(br)
  BY InOn
<1> QED BY <1>2, <1>4, <1>5

\* A set of blocks has a least author; his blocks have an earliest since and a
\* last one.
LEMMA OwnHas ==
  ASSUME NEW br \in [Nodes -> Seq(BlockType)], NEW counted \in SUBSET BlocksOf(br),
         counted # {}
  PROVE  /\ Winner(counted) \in Nodes
         /\ \A r \in counted : Winner(counted) <= r[1]
         /\ OwnOf(counted) # {} /\ OwnOf(counted) \subseteq counted
         /\ Winner(OwnOf(counted)) = Winner(counted)
         /\ LastOf(OwnOf(counted)) \in OwnOf(counted)
         /\ \E r \in OwnOf(counted) :
              Min(SincesOf(br, OwnOf(counted))) = br[r[1]][r[2]].since
         /\ \A r \in OwnOf(counted) :
              Min(SincesOf(br, OwnOf(counted))) <= br[r[1]][r[2]].since
<1> USE ChainAssumption DEF Nodes, Times
<1>1. \A r \in counted : /\ r[1] \in Nodes /\ r[2] \in 1..Len(br[r[1]])
                         /\ Len(br[r[1]]) \in Nat
                         /\ br[r[1]][r[2]] \in BlockType
  BY BlockAt
<1>2. /\ Winner(counted) \in {r[1] : r \in counted}
      /\ \A n \in {r[1] : r \in counted} : Winner(counted) <= n
  <2>1. {r[1] : r \in counted} \in SUBSET Nat /\ {r[1] : r \in counted} # {}
    BY <1>1
  <2> QED BY <2>1, MinNat DEF Winner
<1>3. PICK w : w = Winner(counted)
  OBVIOUS
<1>4. PICK own : own = OwnOf(counted)
  OBVIOUS
<1>5. /\ own \subseteq counted /\ own # {}
      /\ \A r \in own : r[1] = w
  BY <1>2, <1>3, <1>4 DEF OwnOf
<1>6. Winner(own) = w
  <2>1. {r[1] : r \in own} = {w}
    BY <1>5
  <2>2. w \in Nat
    BY <1>1, <1>2, <1>3
  <2>3. Min({w}) = w
    <3>1. {w} \in SUBSET Nat /\ {w} # {}
      BY <2>2
    <3>2. Min({w}) \in {w}
      BY <3>1, MinNat
    <3> QED BY <3>2
  <2> QED BY <2>1, <2>3 DEF Winner
<1>7. LastOf(own) \in own
  <2> DEFINE places == {r[2] : r \in own}
  <2>1. places # {} /\ places \in SUBSET (0..Len(br[w])) /\ Len(br[w]) \in Nat
    <3>1. \A r \in own : r[2] \in 0..Len(br[w]) /\ Len(br[w]) \in Nat
      BY <1>1, <1>5
    <3> QED BY <1>5, <3>1
  <2>2. Max(places) \in places /\ \A m \in places : m <= Max(places)
    <3> HIDE DEF places
    <3> QED BY <2>1, MaxNat
  <2>3. PICK r \in own : r[2] = Max(places)
    BY <2>2
  <2>4. \A q \in own : q[2] <= r[2]
    <3>1. \A q \in own : q[2] \in places
      OBVIOUS
    <3> HIDE DEF places
    <3> QED BY <2>2, <2>3, <3>1
  <2> QED BY <2>4 DEF LastOf
<1>8. PICK sinces : sinces = SincesOf(br, own)
  OBVIOUS
<1>9. sinces \in SUBSET Nat /\ sinces # {}
  <2>1. \A q \in own : br[q[1]][q[2]].since \in Nat
    BY <1>1, <1>5, SMTT(30) DEF BlockType
  <2> QED BY <1>5, <1>8, <2>1 DEF SincesOf
<1>10. Min(sinces) \in sinces /\ \A m \in sinces : Min(sinces) <= m
  BY <1>9, MinNat
<1>11. /\ \E r \in own : Min(sinces) = br[r[1]][r[2]].since
       /\ \A r \in own : Min(sinces) <= br[r[1]][r[2]].since
  BY <1>8, <1>10 DEF SincesOf
<1> QED BY <1>1, <1>2, <1>3, <1>4, <1>5, <1>6, <1>7, <1>8, <1>11

\* e is what the counted records add up to.
IsWord(br, counted, e) ==
  /\ WordOf(br, counted) = {e}
  /\ e.author = Winner(counted)
  /\ \A r \in counted : e.author <= r[1]
  /\ \E r \in counted : r[1] = e.author
  /\ \E r \in OwnOf(counted) : e.since = br[r[1]][r[2]].since
  /\ \A r \in OwnOf(counted) : e.since <= br[r[1]][r[2]].since
  /\ \E r \in OwnOf(counted) : e.replacement = br[r[1]][r[2]].key

\* The word: nothing without a counted record; otherwise the least author's, his
\* earliest compromise and the key of his last record.
LEMMA WordSays ==
  ASSUME NEW br \in [Nodes -> Seq(BlockType)], NEW counted \in SUBSET BlocksOf(br)
  PROVE  /\ counted = {} => WordOf(br, counted) = {}
         /\ counted # {} =>
              \E e \in StateType :
                IsWord(br, counted, e)
<1>1. counted = {} => WordOf(br, counted) = {}
  BY DEF WordOf
<1>2. ASSUME counted # {}
      PROVE  \E e \in StateType :
                IsWord(br, counted, e)
  <2>1. PICK own : own = OwnOf(counted)
    OBVIOUS
  <2>2. PICK e : e = SumUp(br, own)
    OBVIOUS
  <2>3. WordOf(br, counted) = {e}
    BY <1>2, <2>1, <2>2 DEF WordOf
  <2>4. /\ e.author = Winner(own)
        /\ e.since = Min(SincesOf(br, own))
        /\ e.replacement = br[LastOf(own)[1]][LastOf(own)[2]].key
        /\ e = [author |-> e.author, since |-> e.since, replacement |-> e.replacement]
    BY <2>2 DEF SumUp
  <2>5. /\ e.author = Winner(counted) /\ e.author \in Nodes
        /\ \A r \in counted : e.author <= r[1]
        /\ own # {} /\ own \subseteq counted
        /\ LastOf(own) \in own
        /\ \E r \in own : e.since = br[r[1]][r[2]].since
        /\ \A r \in own : e.since <= br[r[1]][r[2]].since
    BY <1>2, <2>1, <2>4, OwnHas
  <2>6. \E r \in own : e.replacement = br[r[1]][r[2]].key
    BY <2>4, <2>5
  <2>7. \E r \in counted : r[1] = e.author
    BY <2>1, <2>5 DEF OwnOf
  <2>8. e.since \in Times /\ e.replacement \in KeyOr
    <3>1. \A r \in own : br[r[1]][r[2]] \in BlockType
      BY <2>5, BlockAt
    <3> QED BY <2>5, <2>6, <3>1 DEF BlockType, KeyOr
  <2>9. e \in StateType
    BY <2>4, <2>5, <2>8 DEF StateType
  <2>10. IsWord(br, counted, e)
    BY <2>1, <2>3, <2>5, <2>6, <2>7 DEF IsWord
  <2> QED BY <2>9, <2>10
<1> QED BY <1>1, <1>2

\* What is said of a node: a state with an author above it, the sum of records
\* of that author about the node, each counting against his own state.
LEMMA EffSays ==
  ASSUME NEW br \in [Nodes -> Seq(BlockType)], NEW eff, eff = EffOf(br), NEW n \in Nodes
  PROVE  /\ eff[n] \in States
         /\ n = 0 => eff[n] = {}
         /\ \A e \in eff[n] :
              /\ eff[n] = {e} /\ e \in StateType /\ e.author < n
              /\ n \in 1..Leaf
              /\ \E b \in On(br) : b.kind = "revocation" /\ e.replacement = b.key
<1>1. /\ eff[0] = {}
      /\ \A m \in 1..Leaf : eff[m] = WordOf(br, CountedOf(br, eff, m))
  BY EffReads
<1>2. CASE n = 0
  BY <1>1, <1>2, ChainAssumption DEF States, Nodes
<1>3. CASE n # 0
  <2>1. n \in 1..Leaf
    BY <1>3, ChainAssumption DEF Nodes
  <2>2. CountedOf(br, eff, n) \in SUBSET BlocksOf(br)
    BY DEF CountedOf, RecordsOf
  <2>3. CASE CountedOf(br, eff, n) = {}
    <3>1. eff[n] = {}
      BY <1>1, <2>1, <2>2, <2>3, WordSays
    <3> QED BY <1>3, <3>1 DEF States
  <2>4. CASE CountedOf(br, eff, n) # {}
    <3>1. PICK counted : counted = CountedOf(br, eff, n)
      OBVIOUS
    <3>0. counted \in SUBSET BlocksOf(br) /\ counted # {}
      BY <2>2, <2>4, <3>1
    <3>2. PICK e \in StateType :
                IsWord(br, counted, e)
      BY <3>0, WordSays
    <3>3. eff[n] = {e}
      BY <1>1, <2>1, <3>1, <3>2 DEF IsWord
    <3>4. \A r \in counted : /\ r[1] < n /\ br[r[1]][r[2]].kind = "revocation"
                             /\ r \in BlocksOf(br)
      BY <3>1 DEF CountedOf, RecordsOf
    <3>5. e.author < n
      BY <3>2, <3>4 DEF IsWord
    <3>6. PICK r \in counted : e.replacement = br[r[1]][r[2]].key
      BY <3>2 DEF OwnOf, IsWord
    <3>7. br[r[1]][r[2]] \in On(br)
      BY <3>4, BlockAt
    <3> QED BY <1>3, <2>1, <3>2, <3>3, <3>4, <3>5, <3>6, <3>7 DEF States
  <2> QED BY <2>3, <2>4
<1> QED BY <1>2, <1>3

-----------------------------------------------------------------------------
(* Steps of the walks.                                                     *)

\* One block placed: by the branch's own line, by the replacement coming in, by
\* the replacement's line, by the old line resurfacing, or by nobody.
LEMMA ClassifyCases ==
  ASSUME NEW st \in StatusType, NEW b \in BlockType, NEW state \in States,
         NEW new, new = Classify(st, b, state)
  PROVE  \/ st.broken /\ new = st
         \/ /\ ~st.broken /\ ~new.broken
            /\ st.current = NoKey /\ b.signer = st.lineage
            /\ new.lineage = After(b, st.lineage) /\ new.current = NoKey
            /\ new.marks = Append(st.marks, Zone(b, state))
         \/ /\ ~st.broken /\ ~new.broken
            /\ st.current = NoKey
            /\ b.signer # st.lineage /\ b.signer = Replacement(state)
            /\ new.lineage = st.lineage /\ new.current = After(b, b.signer)
            /\ new.marks = Append(st.marks, "clean")
         \/ /\ ~st.broken /\ ~new.broken
            /\ st.current # NoKey /\ b.signer = st.current
            /\ new.lineage = st.lineage /\ new.current = After(b, st.current)
            /\ new.marks = Append(st.marks, "clean")
         \/ /\ ~st.broken /\ ~new.broken
            /\ st.current # NoKey /\ b.signer # st.current /\ b.signer = st.lineage
            /\ new.lineage = st.lineage /\ new.current = st.current
            /\ new.marks = Append(st.marks, "invalid")
         \/ /\ ~st.broken /\ new.broken
            /\ b.signer # st.lineage
            /\ st.current = NoKey => b.signer # Replacement(state)
            /\ st.current # NoKey => b.signer # st.current
<1> DEFINE own == b.signer = st.lineage
           fresh == st.current = NoKey
<1>1. CASE st.broken
  BY <1>1 DEF Classify
<1>2. CASE ~st.broken /\ fresh /\ own
  <2>1. new = [st EXCEPT !.lineage = After(b, @), !.marks = Append(@, Zone(b, state))]
    BY <1>2 DEF Classify
  <2>2. /\ new.lineage = After(b, st.lineage) /\ new.current = st.current
        /\ new.marks = Append(st.marks, Zone(b, state)) /\ new.broken = st.broken
    BY <2>1 DEF StatusType
  <2> QED BY <1>2, <2>2
<1>3. CASE ~st.broken /\ fresh /\ ~own /\ b.signer = Replacement(state)
  <2>1. new = [st EXCEPT !.current = After(b, b.signer), !.marks = Append(@, "clean")]
    BY <1>3 DEF Classify
  <2>2. /\ new.lineage = st.lineage /\ new.current = After(b, b.signer)
        /\ new.marks = Append(st.marks, "clean") /\ new.broken = st.broken
    BY <2>1 DEF StatusType
  <2> QED BY <1>3, <2>2
<1>4. CASE ~st.broken /\ ~fresh /\ b.signer = st.current
  <2>1. new = [st EXCEPT !.current = After(b, @), !.marks = Append(@, "clean")]
    BY <1>4 DEF Classify
  <2>2. /\ new.lineage = st.lineage /\ new.current = After(b, st.current)
        /\ new.marks = Append(st.marks, "clean") /\ new.broken = st.broken
    BY <2>1 DEF StatusType
  <2> QED BY <1>4, <2>2
<1>5. CASE ~st.broken /\ ~fresh /\ b.signer # st.current /\ own
  <2>1. new = [st EXCEPT !.marks = Append(@, "invalid")]
    BY <1>5 DEF Classify
  <2>2. /\ new.lineage = st.lineage /\ new.current = st.current
        /\ new.marks = Append(st.marks, "invalid") /\ new.broken = st.broken
    BY <2>1 DEF StatusType
  <2> QED BY <1>5, <2>2
<1>6. CASE /\ ~st.broken /\ ~own
           /\ fresh => b.signer # Replacement(state)
           /\ ~fresh => b.signer # st.current
  <2>1. new = [st EXCEPT !.broken = TRUE]
    BY <1>6 DEF Classify
  <2>2. new.broken
    BY <2>1 DEF StatusType
  <2> QED BY <1>6, <2>2
<1> QED BY <1>1, <1>2, <1>3, <1>4, <1>5, <1>6

\* One mark per block placed; the branch's own line is its first key or a key
\* one of its rotations named.
LEMMA WalkLine ==
  ASSUME NEW bs \in Seq(BlockType), NEW key \in KeyOr, NEW state \in States,
         NEW w, w = StatusWalk(bs, key, state)
  PROVE  \A i \in 0..Len(bs) :
           /\ ~w[i].broken => Len(w[i].marks) = i
           /\ \/ w[i].lineage = key
              \/ \E j \in 1..Len(bs) : /\ bs[j].kind = "rotation"
                                      /\ w[i].lineage = bs[j].key
<1>1. /\ w \in [0..Len(bs) -> StatusType]
      /\ w[0] = StatusStart(key)
      /\ \A i \in 1..Len(bs) : w[i] = Classify(w[i - 1], bs[i], state)
  BY StatusWalks
<1>2. Len(bs) \in Nat /\ \A i \in 1..Len(bs) : bs[i] \in BlockType
  OBVIOUS
<1> DEFINE Line(l) == \/ l = key
                      \/ \E j \in 1..Len(bs) : bs[j].kind = "rotation" /\ l = bs[j].key
           In == {i \in 0..Len(bs) : /\ ~w[i].broken => Len(w[i].marks) = i
                                     /\ Line(w[i].lineage)}
<1>3. 0 \in In
  BY <1>1, <1>2 DEF StatusStart
<1>4. ASSUME NEW i \in 0..Len(bs) - 1, i \in In
      PROVE  i + 1 \in In
  <2>1. /\ i + 1 \in 1..Len(bs) /\ i + 1 \in 0..Len(bs) /\ i \in 0..Len(bs)
        /\ (i + 1) - 1 = i
    BY <1>2
  <2>2. PICK b : b = bs[i + 1]
    OBVIOUS
  <2>3. PICK st, new : st = w[i] /\ new = w[i + 1]
    OBVIOUS
  <2>4. st \in StatusType /\ b \in BlockType /\ new = Classify(st, b, state)
    BY <1>1, <1>2, <2>1, <2>2, <2>3
  <2>5. (~st.broken => Len(st.marks) = i) /\ Line(st.lineage)
    BY <1>4, <2>3
  <2>6. /\ ~new.broken => /\ ~st.broken
                         /\ \E m \in Marks : new.marks = Append(st.marks, m)
        /\ new.lineage = st.lineage \/ new.lineage = After(b, st.lineage)
    <3>1. Zone(b, state) \in Marks /\ "clean" \in Marks /\ "invalid" \in Marks
      BY DEF Zone, Marks
    <3>2. CASE new.broken
      BY <2>4, <3>2 DEF Classify
    <3>3. CASE ~new.broken
      BY <2>4, <3>1, <3>3, ClassifyCases
    <3> QED BY <3>2, <3>3
  <2>7. ~new.broken => Len(new.marks) = i + 1
    <3>1. st.marks \in Seq(Marks)
      BY <2>4 DEF StatusType
    <3> QED BY <2>5, <2>6, <3>1
  <2>8. Line(new.lineage)
    BY <2>1, <2>2, <2>5, <2>6 DEF After
  <2> QED BY <2>1, <2>3, <2>7, <2>8
<1>5. \A i \in 0..Len(bs) : i \in In
  <2> HIDE DEF In
  <2>1. \A i \in 0..Len(bs) - 1 : i \in In => i + 1 \in In
    BY <1>4
  <2> QED BY <1>2, <1>3, <2>1, UpTo
<1> QED BY <1>5

\* A key a revocation assigned is not of the branch's own line.
LEMMA ReplacementIsNoLine ==
  ASSUME IInv, NEW n \in DOMAIN tree, NEW eff, eff = EffOf(branch),
         NEW e \in eff[n], e.replacement # NoKey,
         NEW w, w = StatusWalk(branch[n], tree[n].key, eff[n]),
         NEW i \in 0..Len(branch[n])
  PROVE  e.replacement # w[i].lineage /\ e.replacement # tree[n].key
<1>1. /\ branch \in [Nodes -> Seq(BlockType)] /\ n \in Nodes /\ tree[n].key \in KeyOr
  BY TypeFacts DEF IInv, KeyOr
<1>2. eff[n] \in States
  BY <1>1, EffSays
<1>3. PICK b \in On(branch) : b.kind = "revocation" /\ e.replacement = b.key
  BY <1>1, EffSays
<1>4. /\ tree[n].key # b.key
      /\ \A r \in On(branch) : r.kind = "rotation" => r.key # b.key
  BY <1>3 DEF IInv, KeysOK, KeysOf
<1>5. \A j \in 1..Len(branch[n]) : branch[n][j] \in On(branch)
  BY <1>1, InOn
<1>6. branch[n] \in Seq(BlockType)
  BY <1>1
<1>7. \/ w[i].lineage = tree[n].key
      \/ \E j \in 1..Len(branch[n]) : /\ branch[n][j].kind = "rotation"
                                     /\ w[i].lineage = branch[n][j].key
  BY <1>1, <1>2, <1>6, WalkLine
<1> QED BY <1>3, <1>4, <1>5, <1>7

LEMMA TipSpeaks == IInv => TipSpeaksForBranch
<1> SUFFICES ASSUME IInv PROVE TipSpeaksForBranch
  OBVIOUS
<1>1. PICK eff : eff = EffOf(branch)
  OBVIOUS
<1>2. ASSUME NEW n \in DOMAIN tree, eff[n] # {}, branch[n] # <<>>, TipAccepted(n, eff),
             NEW st, st = Status(n, eff[n]), ~st.broken
      PROVE  st.marks[Len(branch[n])] = "clean"
  <2>1. /\ branch \in [Nodes -> Seq(BlockType)] /\ n \in Nodes /\ tree[n].key \in KeyOr
        /\ branch[n] \in Seq(BlockType)
    BY TypeFacts DEF IInv, KeyOr
  <2>2. eff[n] \in States
    BY <1>1, <2>1, EffSays
  <2>3. PICK e : e \in eff[n]
    BY <1>2
  <2>4. PICK len : len = Len(branch[n])
    OBVIOUS
  <2>5. len \in Nat /\ len >= 1 /\ len - 1 \in 0..len /\ len \in 1..len
    BY <1>2, <2>1, <2>4
  <2>6. PICK b : b = branch[n][len]
    OBVIOUS
  <2>7. e.replacement # NoKey /\ b.signer = e.replacement /\ b \in BlockType
    BY <1>2, <2>1, <2>3, <2>4, <2>5, <2>6 DEF TipAccepted
  <2>8. PICK w : w = StatusWalk(branch[n], tree[n].key, eff[n])
    OBVIOUS
  <2>9. st = w[len]
    BY <1>2, <2>4, <2>8, StatusIsWalk
  <2>10. PICK before : before = w[len - 1]
    OBVIOUS
  <2>11. before \in StatusType /\ st = Classify(before, b, eff[n])
    <3>1. /\ w \in [0..len -> StatusType]
          /\ \A i \in 1..len : w[i] = Classify(w[i - 1], branch[n][i], eff[n])
      BY <2>1, <2>2, <2>4, <2>8, StatusWalks
    <3> QED BY <2>5, <2>6, <2>9, <2>10, <3>1
  <2>12. ~before.broken => Len(before.marks) = len - 1
    <3>1. \A i \in 0..len : ~w[i].broken => Len(w[i].marks) = i
      BY <2>1, <2>2, <2>4, <2>8, WalkLine
    <3> QED BY <2>5, <2>10, <3>1
  <2>13. e.replacement # before.lineage
    BY <1>1, <2>3, <2>4, <2>5, <2>7, <2>8, <2>10, ReplacementIsNoLine
  <2>14. ~before.broken /\ st.marks = Append(before.marks, "clean")
    BY <1>2, <2>2, <2>7, <2>11, <2>13, ClassifyCases
  <2>15. before.marks \in Seq(Marks) /\ "clean" \in Marks
    BY <2>11 DEF StatusType, Marks
  <2> QED BY <2>4, <2>5, <2>12, <2>14, <2>15
<1> QED BY <1>1, <1>2, EffIsOf DEF TipSpeaksForBranch

\* A partner who heard the revocations takes the tip of a revoked branch only if
\* the owner's own storage calls that block clean, whatever was stolen and
\* whatever the thief wrote.
THEOREM TipIsTrusted == Spec => []TipSpeaksForBranch
BY Invariance, TipSpeaks, PTL

-----------------------------------------------------------------------------
(* The two walks of one branch.                                            *)

Clear(marks) == \A i \in DOMAIN marks : marks[i] # "invalid"

DatedTo(bs, n) == \A i, j \in 1..n : i < j => bs[i].time <= bs[j].time

LEMMA ClearAppend ==
  ASSUME NEW marks \in Seq(Marks), NEW m \in Marks
  PROVE  Clear(Append(marks, m)) <=> Clear(marks) /\ m # "invalid"
<1>1. /\ Len(marks) \in Nat /\ DOMAIN marks = 1..Len(marks)
      /\ DOMAIN Append(marks, m) = 1..Len(marks) + 1
      /\ Append(marks, m)[Len(marks) + 1] = m
      /\ \A i \in 1..Len(marks) : Append(marks, m)[i] = marks[i]
  OBVIOUS
<1>2. \A i \in 1..Len(marks) + 1 : i \in 1..Len(marks) \/ i = Len(marks) + 1
  BY <1>1
<1>3. Len(marks) + 1 \in 1..Len(marks) + 1 /\ \A i \in 1..Len(marks) : i \in 1..Len(marks) + 1
  BY <1>1
<1> QED BY <1>1, <1>2, <1>3 DEF Clear

\* What the walk that validates knows of what the walk that classifies knows.
Matches(fs, st) ==
  /\ fs.switched <=> st.current # NoKey
  /\ fs.key = IF st.current # NoKey THEN st.current ELSE st.lineage

\* A block the classifying walk places, not as the old line resurfacing, is one
\* the validating walk takes if its date is right, and the other way round.
LEMMA StepsMatch ==
  ASSUME NEW st \in StatusType, NEW fs \in FollowType, NEW b \in BlockType,
         NEW state \in States, b.kind = "rotation" => b.key # NoKey,
         NEW new, new = Classify(st, b, state),
         NEW fnew, fnew = Follow(fs, b, state),
         fs.ok => ~st.broken /\ Matches(fs, st)
  PROVE  /\ fnew.ok => /\ fs.ok /\ b.time >= fs.time /\ ~new.broken /\ Matches(fnew, new)
                       /\ fnew.time = b.time
                       /\ Clear(st.marks) => Clear(new.marks)
         /\ fs.ok /\ b.time >= fs.time /\ ~new.broken /\ Clear(new.marks) => fnew.ok
         /\ ~new.broken => ~st.broken /\ (Clear(new.marks) => Clear(st.marks))
<1> DEFINE takes == ~fs.switched /\ b.signer # fs.key /\ b.signer = Replacement(state)
           good == fs.ok /\ b.time >= fs.time /\ (b.signer = fs.key \/ takes)
<1>1. /\ good => /\ fnew.ok /\ fnew.key = After(b, b.signer) /\ fnew.time = b.time
                 /\ fnew.switched <=> (fs.switched \/ takes)
      /\ ~good => ~fnew.ok
  <2>1. CASE good
    <3>1. fnew = [key |-> After(b, b.signer), switched |-> fs.switched \/ takes,
                  time |-> b.time, ok |-> TRUE]
      BY <2>1 DEF Follow
    <3>2. /\ fnew.ok = TRUE /\ fnew.key = After(b, b.signer) /\ fnew.time = b.time
          /\ fnew.switched = (fs.switched \/ takes)
      BY <3>1
    <3>3. fnew.switched <=> (fs.switched \/ takes)
      BY <3>2, Zenon
    <3> QED BY <2>1, <3>2, <3>3
  <2>2. CASE ~good
    <3>1. fnew = [fs EXCEPT !.ok = FALSE]
      BY <2>2 DEF Follow
    <3> QED BY <2>2, <3>1 DEF FollowType
  <2> QED BY <2>1, <2>2
<1>2. b.signer # NoKey /\ After(b, b.signer) # NoKey
  BY ChainAssumption DEF BlockType, Keys, NoKey, After
<1>3. /\ Zone(b, state) \in Marks /\ Zone(b, state) # "invalid"
      /\ "clean" \in Marks /\ "invalid" \in Marks /\ "clean" # "invalid"
  BY DEF Zone, Marks
<1>4. st.marks \in Seq(Marks)
  BY DEF StatusType
<1>5. CASE st.broken
  <2>1. ~fs.ok /\ new = st
    BY <1>5, ClassifyCases
  <2> QED BY <1>1, <1>5, <2>1
<1>6. CASE ~st.broken /\ new.broken
  <2>1. /\ b.signer # st.lineage
        /\ st.current = NoKey => b.signer # Replacement(state)
        /\ st.current # NoKey => b.signer # st.current
    BY <1>6, ClassifyCases
  <2>2. ~good
    BY <2>1 DEF Matches
  <2> QED BY <1>1, <1>6, <2>2
<1>7. CASE ~st.broken /\ ~new.broken
  <2>1. PICK m \in Marks : new.marks = Append(st.marks, m)
    BY <1>3, <1>7, ClassifyCases
  <2>2. Clear(new.marks) <=> Clear(st.marks) /\ m # "invalid"
    BY <1>4, <2>1, ClearAppend
  <2>3. CASE /\ st.current # NoKey /\ b.signer # st.current /\ b.signer = st.lineage
    <3>1. new.marks = Append(st.marks, "invalid")
      BY <1>7, <2>3, ClassifyCases
    <3>2. ~Clear(new.marks)
      BY <1>3, <1>4, <3>1, ClearAppend
    <3>3. ~good
      BY <2>3 DEF Matches
    <3> QED BY <1>1, <1>7, <3>2, <3>3
  <2>4. CASE ~(st.current # NoKey /\ b.signer # st.current /\ b.signer = st.lineage)
    <3>1. Clear(st.marks) <=> Clear(new.marks)
      <4>1. PICK k \in Marks : k # "invalid" /\ new.marks = Append(st.marks, k)
        BY <1>3, <1>7, <2>4, ClassifyCases
      <4> QED BY <1>4, <4>1, ClearAppend
    <3>2. fs.ok /\ b.time >= fs.time => good
      BY <1>7, <2>4, ClassifyCases DEF Matches
    <3>3. good => Matches(fnew, new)
      <4>1. \/ /\ st.current = NoKey /\ b.signer = st.lineage
               /\ new.lineage = After(b, st.lineage) /\ new.current = NoKey
            \/ /\ st.current = NoKey
               /\ b.signer # st.lineage /\ b.signer = Replacement(state)
               /\ new.current = After(b, b.signer)
            \/ /\ st.current # NoKey /\ b.signer = st.current
               /\ new.current = After(b, st.current)
        BY <1>7, <2>4, ClassifyCases
      <4>2. SUFFICES ASSUME good PROVE Matches(fnew, new)
        OBVIOUS
      <4>3. /\ fs.switched <=> st.current # NoKey
            /\ fs.key = IF st.current # NoKey THEN st.current ELSE st.lineage
        BY <4>2 DEF Matches
      <4>4. /\ fnew.key = After(b, b.signer)
            /\ fnew.switched <=> (fs.switched \/ takes)
        BY <1>1, <4>2
      <4> QED BY <1>2, <4>1, <4>3, <4>4 DEF Matches
    <3> QED BY <1>1, <1>7, <3>1, <3>2, <3>3
  <2> QED BY <2>3, <2>4
<1> QED BY <1>5, <1>6, <1>7

LEMMA WalksMatch ==
  ASSUME NEW bs \in Seq(BlockType), NEW key \in KeyOr, NEW state \in States,
         \A i \in 1..Len(bs) : bs[i].kind = "rotation" => bs[i].key # NoKey,
         NEW w, w = StatusWalk(bs, key, state),
         NEW f, f = FollowWalk(bs, key, state)
  PROVE  f[Len(bs)].ok <=> /\ ~w[Len(bs)].broken /\ DatedTo(bs, Len(bs))
                           /\ Clear(w[Len(bs)].marks)
<1>1. /\ w \in [0..Len(bs) -> StatusType]
      /\ w[0] = StatusStart(key)
      /\ \A i \in 1..Len(bs) : w[i] = Classify(w[i - 1], bs[i], state)
  BY StatusWalks
<1>2. /\ f \in [0..Len(bs) -> FollowType]
      /\ f[0] = FollowStart(key)
      /\ \A i \in 1..Len(bs) : f[i] = Follow(f[i - 1], bs[i], state)
  BY FollowWalks
<1>3. /\ Len(bs) \in Nat /\ \A i \in 1..Len(bs) : bs[i] \in BlockType
      /\ \A i \in 1..Len(bs) : bs[i].time \in Nat
  <2>1. Len(bs) \in Nat /\ \A i \in 1..Len(bs) : bs[i] \in BlockType
    OBVIOUS
  <2>2. \A b \in BlockType : b.time \in Nat
    BY ChainAssumption DEF BlockType, Times
  <2> QED BY <2>1, <2>2
<1> DEFINE Same(i) == /\ f[i].ok <=> ~w[i].broken /\ DatedTo(bs, i) /\ Clear(w[i].marks)
                      /\ f[i].ok => Matches(f[i], w[i])
                      /\ f[i].ok => f[i].time = IF i = 0 THEN 0 ELSE bs[i].time
           In == {i \in 0..Len(bs) : Same(i)}
<1>4. 0 \in In
  <2>1. DatedTo(bs, 0)
    BY DEF DatedTo
  <2>2. w[0].marks = <<>> /\ ~w[0].broken /\ w[0].current = NoKey /\ w[0].lineage = key
    BY <1>1 DEF StatusStart
  <2>3. f[0].ok /\ f[0].time = 0 /\ ~f[0].switched /\ f[0].key = key
    BY <1>2 DEF FollowStart
  <2>4. Clear(w[0].marks)
    BY <2>2 DEF Clear
  <2>5. Same(0)
    BY <2>1, <2>2, <2>3, <2>4 DEF Matches
  <2> QED BY <1>3, <2>5
<1>5. ASSUME NEW i \in 0..Len(bs) - 1, i \in In
      PROVE  i + 1 \in In
  <2>1. i + 1 \in 1..Len(bs) /\ i \in 0..Len(bs) /\ (i + 1) - 1 = i /\ i + 1 # 0
    BY <1>3
  <2>2. PICK b, st, new, fs, fnew :
          b = bs[i + 1] /\ st = w[i] /\ new = w[i + 1] /\ fs = f[i] /\ fnew = f[i + 1]
    OBVIOUS
  <2>3. /\ st \in StatusType /\ b \in BlockType /\ new = Classify(st, b, state)
        /\ fs \in FollowType /\ fnew = Follow(fs, b, state)
        /\ b.kind = "rotation" => b.key # NoKey
    BY <1>1, <1>2, <1>3, <2>1, <2>2
  <2>4. /\ fs.ok <=> ~st.broken /\ DatedTo(bs, i) /\ Clear(st.marks)
        /\ fs.ok => Matches(fs, st)
        /\ fs.ok => fs.time = IF i = 0 THEN 0 ELSE bs[i].time
    BY <1>5, <2>2
  <2>5. /\ fnew.ok => /\ fs.ok /\ b.time >= fs.time /\ ~new.broken /\ Matches(fnew, new)
                      /\ fnew.time = b.time
                      /\ Clear(st.marks) => Clear(new.marks)
        /\ fs.ok /\ b.time >= fs.time /\ ~new.broken /\ Clear(new.marks) => fnew.ok
        /\ ~new.broken => ~st.broken /\ (Clear(new.marks) => Clear(st.marks))
    BY <2>3, <2>4, StepsMatch
  \* A prefix with growing dates and one more block not older than its last.
  <2>6. DatedTo(bs, i + 1) <=> /\ DatedTo(bs, i)
                               /\ b.time >= IF i = 0 THEN 0 ELSE bs[i].time
    <3>1. CASE i = 0
      BY <1>3, <2>1, <2>2, <3>1 DEF DatedTo
    <3>2. CASE i # 0
      <4>1. i \in 1..i /\ i \in 1..i + 1 /\ i + 1 \in 1..i + 1 /\ i < i + 1
        BY <2>1, <3>2
      <4>2. \A k \in 1..i : k \in 1..Len(bs) /\ k \in 1..i + 1
        BY <1>3, <2>1
      <4>3. \A k \in 1..i + 1 : k \in 1..i \/ k = i + 1
        BY <2>1
      <4>4. ASSUME DatedTo(bs, i + 1)
            PROVE  DatedTo(bs, i) /\ bs[i].time <= b.time
        BY <2>2, <4>1, <4>2, <4>4 DEF DatedTo
      <4>5. ASSUME DatedTo(bs, i), bs[i].time <= b.time
            PROVE  DatedTo(bs, i + 1)
        <5>1. \A k \in 1..i : bs[k].time <= b.time
          <6> TAKE k \in 1..i
          <6>1. bs[k].time <= bs[i].time
            BY <1>3, <2>1, <4>1, <4>2, <4>5 DEF DatedTo
          <6>2. bs[k].time \in Nat /\ bs[i].time \in Nat /\ b.time \in Nat
            BY <1>3, <2>1, <2>2, <4>1, <4>2
          <6> QED BY <4>5, <6>1, <6>2
        <5>2. SUFFICES ASSUME NEW k \in 1..i + 1, NEW l \in 1..i + 1, k < l
                       PROVE  bs[k].time <= bs[l].time
          BY DEF DatedTo
        <5>3. CASE l = i + 1
          <6>1. k \in 1..i
            BY <2>1, <4>3, <5>2, <5>3
          <6> QED BY <2>2, <5>1, <5>3, <6>1
        <5>4. CASE l # i + 1
          <6>1. k \in 1..i /\ l \in 1..i
            BY <2>1, <4>3, <5>2, <5>4
          <6> QED BY <4>5, <5>2, <6>1 DEF DatedTo
        <5> QED BY <5>3, <5>4
      <4>6. b.time \in Nat /\ bs[i].time \in Nat
        BY <1>3, <2>1, <2>2, <4>1, <4>2
      <4> QED BY <3>2, <4>4, <4>5, <4>6
    <3> QED BY <3>1, <3>2
  <2>7. Same(i + 1)
    BY <2>1, <2>2, <2>4, <2>5, <2>6
  <2> QED BY <2>1, <2>7
<1>6. \A i \in 0..Len(bs) : i \in In
  <2> HIDE DEF In
  <2>1. \A i \in 0..Len(bs) - 1 : i \in In => i + 1 \in In
    BY <1>5
  <2> QED BY <1>3, <1>4, <2>1, UpTo
<1> QED BY <1>3, <1>6

LEMMA WalksAgreed == IInv => WalksAgree
<1> SUFFICES ASSUME IInv PROVE WalksAgree
  OBVIOUS
<1>1. PICK eff : eff = EffOf(branch)
  OBVIOUS
<1>2. ASSUME NEW n \in DOMAIN tree, NEW st, st = Status(n, eff[n])
      PROVE  Validates(n, eff[n]) <=> /\ ~st.broken /\ Dated(n)
                                      /\ \A i \in DOMAIN st.marks : st.marks[i] # "invalid"
  <2>1. /\ branch \in [Nodes -> Seq(BlockType)] /\ n \in Nodes /\ tree[n].key \in KeyOr
        /\ branch[n] \in Seq(BlockType)
    BY TypeFacts DEF IInv, KeyOr
  <2>2. eff[n] \in States
    BY <1>1, <2>1, EffSays
  <2>3. \A i \in 1..Len(branch[n]) : branch[n][i].kind = "rotation" => branch[n][i].key # NoKey
    BY <2>1, InOn DEF IInv, KeysOK, KeysOf
  <2>4. PICK w, f : /\ w = StatusWalk(branch[n], tree[n].key, eff[n])
                    /\ f = FollowWalk(branch[n], tree[n].key, eff[n])
    OBVIOUS
  <2>5. st = w[Len(branch[n])] /\ Validates(n, eff[n]) = f[Len(branch[n])].ok
    BY <1>2, <2>4, StatusIsWalk
  <2>6. f[Len(branch[n])].ok <=>
           /\ ~w[Len(branch[n])].broken /\ DatedTo(branch[n], Len(branch[n]))
           /\ Clear(w[Len(branch[n])].marks)
    BY <2>1, <2>2, <2>3, <2>4, WalksMatch
  <2> QED BY <2>5, <2>6 DEF Clear, DatedTo, Dated
<1> QED BY <1>1, <1>2, EffIsOf DEF WalksAgree

\* validate_branch and branch_revocation_status, two walks written apart, agree
\* about every branch a run can produce.
THEOREM WalksAlwaysAgree == Spec => []WalksAgree
BY Invariance, WalksAgreed, PTL

-----------------------------------------------------------------------------
(* What a step does to the branches.                                       *)

\* The owner may write to branch n with key k (ensure_branch_writable).
OwnerMay(n, k) ==
  \E eff \in {Effective(Blocks)} :
    eff[n] # {} => \E st \in {Status(n, eff[n])} :
                     /\ ~st.broken /\ ~Frozen(eff[n])
                     /\ k = NextKey(st, eff[n])

Writing(n, b) ==
  /\ branch' = Longer(branch, n, b)
  /\ n \in Stolen \/ OwnerMay(n, b.signer)

LEMMA TreeGrows ==
  ASSUME IInv, [Next]_vars
  PROVE  \A n \in DOMAIN tree : n \in DOMAIN tree' /\ tree'[n] = tree[n]
<1>1. CASE UNCHANGED tree
  BY <1>1
<1>2. CASE Grows
  <2>1. PICK n \in Nodes : \E keys, nodes \in 0..Leaf + 1 : BranchInit(n, keys, nodes)
    BY <1>2 DEF Grows
  <2>2. PICK keys, nodes \in 0..Leaf + 1 : BranchInit(n, keys, nodes)
    BY <2>1
  <2>3. PICK new : /\ tree' = [m \in DOMAIN tree \cup new |->
                                 IF Exists(m) THEN tree[m]
                                 ELSE Node(file'[m], file'[m - 1])]
    BY <2>2 DEF BranchInit
  <2> QED BY <2>3 DEF Exists
<1> QED BY <1>1, <1>2
    DEF Next, Writes, Revokes, Steals, AppendData, Rotate, Stop, Replace, Steal, vars

LEMMA StepWrites ==
  ASSUME IInv, [Next]_vars, branch' # branch
  PROVE  \E n \in DOMAIN tree : \E b \in BlockType : Writing(n, b)
<1>1. ASSUME NEW n \in DOMAIN tree, NEW b, Writing(n, b)
      PROVE  b \in BlockType
  <2>1. IInv'
    BY NextKeeps
  <2>2. n \in Nodes /\ branch[n] \in Seq(BlockType) /\ branch'[n] \in Seq(BlockType)
        /\ branch'[n] = Append(branch[n], b)
    BY <1>1, <2>1, TypeFacts DEF IInv, TypeOK, Writing, Longer
  <2>3. Len(branch[n]) \in Nat /\ Len(Append(branch[n], b)) = Len(branch[n]) + 1
        /\ Append(branch[n], b)[Len(branch[n]) + 1] = b
    BY <2>2
  <2>4. Len(branch[n]) + 1 \in 1..Len(branch'[n])
    BY <2>2, <2>3
  <2> QED BY <2>2, <2>3, <2>4
<1>2. SUFFICES \E n \in DOMAIN tree : \E b : Writing(n, b)
  BY <1>1
<1>3. ASSUME NEW n, NEW k, NEW st, st = Status(n, Effective(Blocks)[n]), ~st.broken,
             ~Frozen(Effective(Blocks)[n]), k = NextKey(st, Effective(Blocks)[n])
      PROVE  OwnerMay(n, k)
  BY <1>3 DEF OwnerMay
<1>4. ASSUME NEW n, NEW k, Writable(n, k, Effective(Blocks)[n])
      PROVE  OwnerMay(n, k)
  BY <1>4 DEF OwnerMay, Writable
<1>5. ASSUME NEW a, NEW n, MayRevoke(a, n)
      PROVE  OwnerMay(a, file[a])
  BY <1>5 DEF OwnerMay, MayRevoke
<1>6. ASSUME NEW n \in Nodes, NEW t, AppendData(n, t)
      PROVE  \E b : n \in DOMAIN tree /\ Writing(n, b)
  <2>1. OwnerMay(n, file[n])
    BY <1>4, <1>6 DEF AppendData
  <2>2. Writing(n, Block("data", t, file[n], NoKey, NoNode, 0))
    BY <1>6, <2>1 DEF AppendData, Put, Writing, Longer, Block
  <2> QED BY <1>6, <2>2 DEF AppendData, Exists
<1>7. ASSUME NEW n \in Nodes, NEW t, Rotate(n, t)
      PROVE  \E b : n \in DOMAIN tree /\ Writing(n, b)
  <2>1. OwnerMay(n, file[n])
    BY <1>4, <1>7 DEF Rotate
  <2>2. Writing(n, Block("rotation", t, file[n], minted, NoNode, 0))
    BY <1>7, <2>1 DEF Rotate, Put, Writing, Longer, Block
  <2> QED BY <1>7, <2>2 DEF Rotate, Exists
<1>8. ASSUME NEW a \in Nodes, NEW n \in Nodes, MayRevoke(a, n)
      PROVE  a \in DOMAIN tree
  BY <1>8 DEF IInv, TypeOK, MayRevoke, Exists, Nodes
<1>9. ASSUME NEW a \in Nodes, NEW n \in Nodes, NEW t, NEW since, Stop(a, n, t, since)
      PROVE  \E b : a \in DOMAIN tree /\ Writing(a, b)
  <2>1. OwnerMay(a, file[a]) /\ a \in DOMAIN tree
    BY <1>5, <1>8, <1>9 DEF Stop
  <2>2. Writing(a, Block("revocation", t, file[a], NoKey, n, since))
    BY <1>9, <2>1 DEF Stop, Put, Writing, Longer, Block
  <2> QED BY <2>1, <2>2
<1>10. ASSUME NEW a \in Nodes, NEW n \in Nodes, NEW t, NEW since, NEW end,
              Replace(a, n, t, since, end)
       PROVE  \E b : a \in DOMAIN tree /\ Writing(a, b)
  <2>1. OwnerMay(a, file[a]) /\ a \in DOMAIN tree
    BY <1>5, <1>8, <1>10 DEF Replace
  <2>2. branch' = Longer(branch, a, Block("revocation", t, file[a], minted, n, since))
    BY <1>10 DEF Replace, Put, Longer
  <2>3. Writing(a, Block("revocation", t, file[a], minted, n, since))
    BY <2>1, <2>2 DEF Writing, Block
  <2> QED BY <2>1, <2>3
<1>11. ASSUME NEW n \in DOMAIN tree, NEW b, Steal(n, b)
       PROVE  Writing(n, b)
  BY <1>11 DEF Steal, Writing, Longer
<1>12. Writes \/ Revokes \/ Steals
  <2>1. Grows => branch' = branch
    BY DEF Grows, BranchInit
  <2> QED BY <2>1 DEF Next, vars
<1>13. CASE Writes
  BY <1>6, <1>7, <1>13 DEF Writes
<1>14. CASE Revokes
  BY <1>9, <1>10, <1>14 DEF Revokes
<1>15. CASE Steals
  BY <1>11, <1>15 DEF Steals
<1> QED BY <1>12, <1>13, <1>14, <1>15

\* The walk of a longer branch starts like the walk of the shorter one.
LEMMA PrefixWalk ==
  ASSUME NEW bs \in Seq(BlockType), NEW bs2 \in Seq(BlockType), Len(bs) <= Len(bs2),
         \A i \in 1..Len(bs) : bs2[i] = bs[i],
         NEW key \in KeyOr, NEW state \in States,
         NEW w, w = StatusWalk(bs, key, state),
         NEW w2, w2 = StatusWalk(bs2, key, state)
  PROVE  \A i \in 0..Len(bs) : w2[i] = w[i]
<1>1. /\ w[0] = StatusStart(key)
      /\ \A i \in 1..Len(bs) : w[i] = Classify(w[i - 1], bs[i], state)
  BY StatusWalks
<1>2. /\ w2[0] = StatusStart(key)
      /\ \A i \in 1..Len(bs2) : w2[i] = Classify(w2[i - 1], bs2[i], state)
  BY StatusWalks
<1>3. Len(bs) \in Nat /\ Len(bs2) \in Nat
  OBVIOUS
<1> DEFINE In == {i \in 0..Len(bs) : w2[i] = w[i]}
<1>4. 0 \in In
  BY <1>1, <1>2, <1>3
<1>5. ASSUME NEW i \in 0..Len(bs) - 1, i \in In
      PROVE  i + 1 \in In
  <2>1. i + 1 \in 1..Len(bs) /\ i + 1 \in 1..Len(bs2) /\ i + 1 \in 0..Len(bs)
        /\ (i + 1) - 1 = i
    BY <1>3
  <2>2. w2[i] = w[i] /\ bs2[i + 1] = bs[i + 1]
    BY <1>5, <2>1
  <2>3. w2[i + 1] = w[i + 1]
    BY <1>1, <1>2, <2>1, <2>2
  <2> QED BY <2>1, <2>3
<1>6. \A i \in 0..Len(bs) : i \in In
  <2> HIDE DEF In
  <2>1. \A i \in 0..Len(bs) - 1 : i \in In => i + 1 \in In
    BY <1>5
  <2> QED BY <1>3, <1>4, <2>1, UpTo
<1> QED BY <1>6

\* What the owner is let write, the walk can place.
LEMMA NextKeyPlaced ==
  ASSUME NEW st \in StatusType, ~st.broken, NEW state \in States, state # {},
         ~Frozen(state), NEW b \in BlockType, b.signer = NextKey(st, state)
  PROVE  ~Classify(st, b, state).broken
<1>1. PICK new : new = Classify(st, b, state)
  OBVIOUS
<1>2. SUFFICES ASSUME new.broken PROVE FALSE
  BY <1>1
<1>3. /\ b.signer # st.lineage
      /\ st.current = NoKey => b.signer # Replacement(state)
      /\ st.current # NoKey => b.signer # st.current
  BY <1>1, <1>2, ClassifyCases
<1> QED BY <1>3 DEF NextKey

LEMMA StaysSound ==
  ASSUME IInv, [Next]_vars,
         NEW eff, eff = EffOf(branch), NEW n \in DOMAIN tree \ Stolen,
         eff[n] # {}, ~Status(n, eff[n]).broken,
         NEW state, state = eff[n], NEW st2, st2 = Status(n, state)'
  PROVE  ~st2.broken
<1>1. /\ branch \in [Nodes -> Seq(BlockType)] /\ n \in Nodes /\ tree[n].key \in KeyOr
      /\ branch[n] \in Seq(BlockType)
  BY TypeFacts DEF IInv, KeyOr
<1>2. state \in States
  BY <1>1, EffSays
<1>3. tree'[n] = tree[n]
  BY TreeGrows
<1>4. PICK w, w2 : /\ w = StatusWalk(branch[n], tree[n].key, state)
                   /\ w2 = StatusWalk(branch'[n], tree[n].key, state)
  OBVIOUS
<1>5. st2 = w2[Len(branch'[n])] /\ Status(n, state) = w[Len(branch[n])]
  BY <1>3, <1>4, StatusIsWalk
<1>6. CASE branch'[n] = branch[n]
  BY <1>4, <1>5, <1>6
<1>7. CASE branch'[n] # branch[n]
  <2>1. PICK m \in DOMAIN tree : \E b \in BlockType : Writing(m, b)
    BY <1>7, StepWrites
  <2>2. PICK b \in BlockType : Writing(m, b)
    BY <2>1
  <2>3. m = n
    BY <1>1, <1>7, <2>2 DEF Writing, Longer
  <2>4. OwnerMay(n, b.signer)
    BY <2>2, <2>3 DEF Writing
  <2>5. ~Frozen(state) /\ b.signer = NextKey(Status(n, state), state)
    BY <2>4, EffIsOf DEF OwnerMay
  <2>6. branch'[n] = Append(branch[n], b)
    BY <1>1, <2>2, <2>3 DEF Writing, Longer
  <2>7. PICK bs, bs2, len : bs = branch[n] /\ bs2 = branch'[n] /\ len = Len(branch[n])
    OBVIOUS
  <2>8. /\ bs \in Seq(BlockType) /\ bs2 \in Seq(BlockType) /\ len \in Nat /\ len = Len(bs)
        /\ Len(bs2) = len + 1 /\ bs2[len + 1] = b
        /\ \A i \in 1..len : bs2[i] = bs[i]
    BY <1>1, <2>6, <2>7
  <2>9. w2[len] = w[len]
    <3>1. /\ w = StatusWalk(bs, tree[n].key, state)
          /\ w2 = StatusWalk(bs2, tree[n].key, state)
          /\ Len(bs) <= Len(bs2) /\ \A i \in 1..Len(bs) : bs2[i] = bs[i]
          /\ len \in 0..Len(bs)
      BY <1>4, <2>7, <2>8
    <3> QED BY <1>1, <1>2, <2>8, <3>1, PrefixWalk
  <2>10. w2[len + 1] = Classify(w2[len], b, state) /\ w[len] \in StatusType
    <3>1. \A i \in 1..Len(bs2) : w2[i] = Classify(w2[i - 1], bs2[i], state)
      BY <1>1, <1>2, <1>4, <2>7, <2>8, StatusWalks
    <3>2. w \in [0..len -> StatusType]
      BY <1>1, <1>2, <1>4, <2>7, <2>8, StatusWalks
    <3>3. len + 1 \in 1..Len(bs2) /\ (len + 1) - 1 = len /\ len \in 0..len
      BY <2>8
    <3> QED BY <2>8, <3>1, <3>2, <3>3
  <2>11. st2 = w2[len + 1] /\ Status(n, state) = w[len]
    BY <1>5, <2>7, <2>8
  <2> QED BY <1>2, <2>5, <2>9, <2>10, <2>11, NextKeyPlaced
<1> QED BY <1>6, <1>7

\* While the word about a revoked branch stays the same, the owner's commands
\* keep the branch readable, whatever keys crashes left in his files.
THEOREM RevokedBranchReadable == Spec => RevokedStaysSound
<1>1. ASSUME IInv, [Next]_vars
      PROVE  [\A was \in {Eff}, is \in {Eff'} : \A n \in DOMAIN tree \ Stolen :
                was[n] # {} /\ is[n] = was[n] /\ Sound(n, was) => Sound(n, is)']_vars
  <2>1. ASSUME NEW was, was = Eff, NEW is, is = Eff', NEW n \in DOMAIN tree \ Stolen,
               was[n] # {}, is[n] = was[n], Sound(n, was)
        PROVE  Sound(n, is)'
    <3>1. PICK st2 : st2 = Status(n, is[n])'
      OBVIOUS
    <3>2. was = EffOf(branch)
      BY <2>1, EffIsOf
    <3>3. ~Status(n, was[n]).broken
      BY <2>1 DEF Sound
    <3>4. ~st2.broken
      BY <1>1, <2>1, <3>1, <3>2, <3>3, StaysSound
    <3> QED BY <3>1, <3>4 DEF Sound
  <2> QED BY <2>1
<1> QED BY <1>1, Invariance, PTL DEF Spec, RevokedStaysSound

-----------------------------------------------------------------------------
(* The word before a step and after it.                                    *)

\* br2 holds the blocks of br, and maybe more after them.
Continues(br, br2) ==
  \A m \in Nodes : /\ Len(br[m]) <= Len(br2[m])
                   /\ \A i \in 1..Len(br[m]) : br2[m][i] = br[m][i]

LEMMA StepContinues ==
  ASSUME IInv, [Next]_vars
  PROVE  /\ branch \in [Nodes -> Seq(BlockType)] /\ branch' \in [Nodes -> Seq(BlockType)]
         /\ Continues(branch, branch')
<1>1. branch \in [Nodes -> Seq(BlockType)] /\ branch' \in [Nodes -> Seq(BlockType)]
  BY NextKeeps DEF IInv, TypeOK
<1>2. CASE branch' = branch
  <2>1. \A m \in Nodes : Len(branch[m]) \in Nat
    BY <1>1
  <2> QED BY <1>1, <1>2, <2>1 DEF Continues
<1>3. CASE branch' # branch
  <2>1. PICK n \in DOMAIN tree : \E b \in BlockType : Writing(n, b)
    BY <1>3, StepWrites
  <2>2. PICK b \in BlockType : Writing(n, b)
    BY <2>1
  <2>3. PICK br, br2 : br = branch /\ br2 = branch'
    OBVIOUS
  <2>4. br \in [Nodes -> Seq(BlockType)] /\ br2 = Longer(br, n, b) /\ n \in Nodes
    BY <1>1, <2>2, <2>3, TypeFacts DEF Writing, IInv
  <2>5. /\ Len(br[n]) \in Nat
        /\ Len(br2[n]) = Len(br[n]) + 1
        /\ \A i \in 1..Len(br[n]) : br2[n][i] = br[n][i]
        /\ \A m \in Nodes \ {n} : br2[m] = br[m]
    BY <2>4, Appended
  <2>6. \A m \in Nodes : Len(br[m]) \in Nat
    BY <2>4
  <2>7. Continues(br, br2)
    BY <2>5, <2>6 DEF Continues
  <2> QED BY <1>1, <2>3, <2>7
<1> QED BY <1>2, <1>3

LEMMA BlocksStay ==
  ASSUME NEW br \in [Nodes -> Seq(BlockType)], NEW br2 \in [Nodes -> Seq(BlockType)],
         Continues(br, br2), NEW r \in BlocksOf(br)
  PROVE  r \in BlocksOf(br2) /\ br2[r[1]][r[2]] = br[r[1]][r[2]]
<1>1. /\ r[1] \in Nodes /\ r[2] \in 1..Len(br[r[1]]) /\ Len(br[r[1]]) \in Nat
      /\ r = <<r[1], r[2]>>
  BY BlockAt
<1>2. Len(br2[r[1]]) \in Nat
  BY <1>1
<1>3. /\ Len(br[r[1]]) <= Len(br2[r[1]])
      /\ br2[r[1]][r[2]] = br[r[1]][r[2]]
  BY <1>1 DEF Continues
<1>4. r[2] \in 1..Len(br2[r[1]])
  BY <1>1, <1>2, <1>3
<1> QED BY <1>1, <1>3, <1>4, InBlocks

\* The same records say the same.
LEMMA SumSame ==
  ASSUME NEW br, NEW br2, NEW own, LastOf(own) \in own,
         \A r \in own : br2[r[1]][r[2]] = br[r[1]][r[2]]
  PROVE  SumUp(br2, own) = SumUp(br, own)
<1>1. SincesOf(br2, own) = SincesOf(br, own)
  BY DEF SincesOf
<1> QED BY <1>1 DEF SumUp

\* What is said after a step once author a said e.
Heard(said, a, e, br, br2) ==
  /\ said # {}
  /\ \A f \in said : /\ f.author <= a
                     /\ f.author = a => f.since <= e.since
                     /\ f.author = a /\ br2[a] = br[a] => f = e

\* The author who decides about n, himself under no revocation, is heard with
\* every record he wrote: the compromise he sets can only move earlier, and
\* stays when he writes nothing.
LEMMA AuthorHeard ==
  ASSUME NEW br \in [Nodes -> Seq(BlockType)], NEW br2 \in [Nodes -> Seq(BlockType)],
         Continues(br, br2),
         NEW eff, eff = EffOf(br), NEW eff2, eff2 = EffOf(br2),
         NEW n \in Nodes, NEW a \in Nodes, eff[a] = {}, eff2[a] = {},
         NEW e \in eff[n], e.author = a
  PROVE  Heard(eff2[n], a, e, br, br2)
<1>1. n \in 1..Leaf
  BY EffSays
<1>2. PICK c, c2 : c = CountedOf(br, eff, n) /\ c2 = CountedOf(br2, eff2, n)
  OBVIOUS
<1>3. eff[n] = WordOf(br, c) /\ eff2[n] = WordOf(br2, c2)
  BY <1>1, <1>2, EffReads
<1>4. c \in SUBSET BlocksOf(br) /\ c2 \in SUBSET BlocksOf(br2)
  BY <1>2 DEF CountedOf, RecordsOf
<1>5. c # {}
  BY <1>3, <1>4, WordSays
<1>6. PICK e1 \in StateType :
                IsWord(br, c, e1)
  BY <1>4, <1>5, WordSays
<1>7. e = e1 /\ Winner(c) = a
  BY <1>3, <1>6 DEF IsWord
<1>8. PICK r1 \in OwnOf(c) : e.since = br[r1[1]][r1[2]].since
  BY <1>6, <1>7 DEF IsWord
<1>9. ASSUME NEW r \in OwnOf(c)
      PROVE  r \in c2 /\ r[1] = a /\ br2[r[1]][r[2]] = br[r[1]][r[2]]
  <2>1. r \in c /\ r[1] = a
    BY <1>7 DEF OwnOf
  <2>2. r \in BlocksOf(br2) /\ br2[r[1]][r[2]] = br[r[1]][r[2]]
    BY <1>4, <2>1, BlocksStay
  <2>3. r \in RecordsOf(br2, n)
    BY <1>2, <2>1, <2>2 DEF CountedOf, RecordsOf
  <2>4. Counts(br2[r[1]][r[2]], eff2[r[1]])
    BY <2>1 DEF Counts
  <2> QED BY <1>2, <2>1, <2>2, <2>3, <2>4 DEF CountedOf
<1>10. c2 # {}
  BY <1>8, <1>9
<1>11. PICK f1 \in StateType :
                IsWord(br2, c2, f1)
  BY <1>4, <1>10, WordSays
<1>12. eff2[n] = {f1} /\ f1.author <= a
  BY <1>3, <1>8, <1>9, <1>11 DEF IsWord
<1>13. ASSUME f1.author = a
       PROVE  f1.since <= e.since
  <2>1. r1 \in OwnOf(c2)
    BY <1>8, <1>9, <1>11, <1>13 DEF OwnOf, IsWord
  <2> QED BY <1>8, <1>9, <1>11, <2>1 DEF IsWord
<1>14. ASSUME f1.author = a, br2[a] = br[a]
       PROVE  f1 = e
  <2>1. \A r : r \in OwnOf(c) => r \in OwnOf(c2)
    BY <1>9, <1>11, <1>14 DEF OwnOf, IsWord
  <2>2. ASSUME NEW r \in OwnOf(c2)
        PROVE  r \in OwnOf(c)
    <3>1. r \in c2 /\ r[1] = a /\ r \in BlocksOf(br2)
      BY <1>4, <1>11, <1>14 DEF OwnOf, IsWord
    <3>2. r[2] \in 1..Len(br[r[1]]) /\ r = <<r[1], r[2]>>
      BY <1>14, <3>1, BlockAt
    <3>3. r \in BlocksOf(br)
      BY <3>1, <3>2, InBlocks
    <3>4. r \in RecordsOf(br, n)
      BY <1>2, <1>14, <3>1, <3>3 DEF CountedOf, RecordsOf
    <3>5. r \in c
      BY <1>2, <3>1, <3>4 DEF CountedOf, Counts
    <3> QED BY <1>7, <3>1, <3>5 DEF OwnOf
  <2>3. OwnOf(c2) = OwnOf(c)
    BY <2>1, <2>2
  <2>4. LastOf(OwnOf(c)) \in OwnOf(c)
    BY <1>4, <1>5, OwnHas
  <2>5. SumUp(br2, OwnOf(c)) = SumUp(br, OwnOf(c))
    BY <1>9, <2>4, SumSame
  <2>6. WordOf(br, c) = {SumUp(br, OwnOf(c))} /\ WordOf(br2, c2) = {SumUp(br2, OwnOf(c2))}
    BY <1>5, <1>10 DEF WordOf
  <2> QED BY <1>6, <1>7, <1>11, <2>3, <2>5, <2>6 DEF IsWord
<1> QED BY <1>12, <1>13, <1>14 DEF Heard

\* The key nearest the root decides: once the root spoke of a node it stays
\* revoked, the compromise moves only to an earlier moment, and nothing but the
\* root's next record changes the word.
THEOREM RootWordHolds == Spec => RootWordStands
<1>1. ASSUME IInv, [Next]_vars
      PROVE  [\A was \in {Eff}, is \in {Eff'} : \A n \in DOMAIN tree :
               \A e \in was[n] : e.author = 0 =>
                 \E f \in is[n] : /\ f.author = 0 /\ f.since <= e.since
                                  /\ branch'[0] = branch[0] => f = e]_vars
  <2>1. ASSUME NEW was, was = Eff, NEW is, is = Eff', NEW n \in DOMAIN tree,
               NEW e \in was[n], e.author = 0
        PROVE  \E f \in is[n] : /\ f.author = 0 /\ f.since <= e.since
                                /\ branch'[0] = branch[0] => f = e
    <3>1. PICK br, br2 : br = branch /\ br2 = branch'
      OBVIOUS
    <3>2. /\ br \in [Nodes -> Seq(BlockType)] /\ br2 \in [Nodes -> Seq(BlockType)]
          /\ Continues(br, br2)
      BY <1>1, <3>1, StepContinues
    <3>3. was = EffOf(br) /\ is = EffOf(br2)
      BY <2>1, <3>1, EffIsOf
    <3>4. n \in Nodes /\ 0 \in Nodes
      BY <1>1, TypeFacts DEF IInv
    <3>5. was[0] = {} /\ is[0] = {}
      BY <3>3, EffReads
    <3>6. /\ is[n] # {}
          /\ \A f \in is[n] : /\ f.author <= 0
                              /\ f.author = 0 => f.since <= e.since
                              /\ f.author = 0 /\ br2[0] = br[0] => f = e
      <4>1. PICK a : a = 0
        OBVIOUS
      <4>2. /\ a \in Nodes /\ was[a] = {} /\ is[a] = {}
            /\ e \in was[n] /\ e.author = a
        BY <2>1, <3>4, <3>5, <4>1
      <4>3. Heard(is[n], a, e, br, br2)
        BY <3>2, <3>3, <3>4, <4>2, AuthorHeard
      <4> QED BY <4>1, <4>3 DEF Heard
    <3>7. \A f \in is[n] : f.author \in Nat
      <4>1. \A f \in is[n] : f \in StateType
        BY <3>2, <3>3, <3>4, EffSays
      <4> QED BY <4>1, ChainAssumption DEF StateType, Nodes
    <3>8. PICK f : f \in is[n]
      BY <3>6
    <3>9. f.author = 0
      BY <3>6, <3>7, <3>8
    <3> QED BY <3>1, <3>6, <3>8, <3>9
  <2> QED BY <2>1
<1> QED BY <1>1, Invariance, PTL DEF Spec, RootWordStands

LEMMA LastIs ==
  ASSUME NEW br \in [Nodes -> Seq(BlockType)], NEW n \in Nodes, NEW b \in BlockType
  PROVE  Longer(br, n, b)[n][Len(Longer(br, n, b)[n])] = b
<1>1. Longer(br, n, b)[n] = Append(br[n], b) /\ br[n] \in Seq(BlockType)
  BY DEF Longer
<1> QED BY <1>1

\* A record that does not count for the state its author's node is in changes
\* the state of no node.
LEMMA UncountedIsNothing ==
  ASSUME NEW br \in [Nodes -> Seq(BlockType)], NEW n \in Nodes, NEW b \in BlockType,
         NEW br2, br2 = Longer(br, n, b),
         NEW eff, eff = EffOf(br), NEW eff2, eff2 = EffOf(br2),
         ~Counts(b, eff[n])
  PROVE  eff2 = eff
<1>1. /\ br2 \in [Nodes -> Seq(BlockType)]
      /\ Len(br[n]) \in Nat
      /\ Len(br2[n]) = Len(br[n]) + 1 /\ br2[n][Len(br[n]) + 1] = b
      /\ \A i \in 1..Len(br[n]) : br2[n][i] = br[n][i]
      /\ \A m \in Nodes \ {n} : br2[m] = br[m]
  BY Appended
<1>2. Continues(br, br2)
  <2>1. ASSUME NEW m \in Nodes
        PROVE  /\ Len(br[m]) <= Len(br2[m])
               /\ \A i \in 1..Len(br[m]) : br2[m][i] = br[m][i]
    <3>1. Len(br[m]) \in Nat
      OBVIOUS
    <3>2. CASE m = n
      BY <1>1, <3>2
    <3>3. CASE m # n
      BY <1>1, <3>1, <3>3
    <3> QED BY <3>2, <3>3
  <2> QED BY <2>1 DEF Continues
<1>3. ASSUME NEW r \in BlocksOf(br2), r \notin BlocksOf(br)
      PROVE  r[1] = n /\ br2[r[1]][r[2]] = b
  <2>1. r[1] \in Nodes /\ r[2] \in 1..Len(br2[r[1]]) /\ r = <<r[1], r[2]>>
    BY <1>1, BlockAt
  <2>2. r[2] \notin 1..Len(br[r[1]])
    BY <1>3, <2>1, InBlocks
  <2>3. r[1] = n
    BY <1>1, <2>1, <2>2
  <2>4. r[2] = Len(br[n]) + 1
    BY <1>1, <2>1, <2>2, <2>3
  <2> QED BY <1>1, <2>3, <2>4
<1>4. /\ Leaf \in Nat /\ Nodes = 0..Leaf
      /\ eff[0] = {} /\ eff2[0] = {}
  BY EffReads, ChainAssumption DEF Nodes
<1>w. /\ \A m \in 1..Leaf : /\ eff[m] = WordOf(br, CountedOf(br, eff, m))
                            /\ eff2[m] = WordOf(br2, CountedOf(br2, eff2, m))
  BY EffReads, ChainAssumption DEF Nodes
<1> DEFINE In == {m \in 0..Leaf : \A k \in 0..m : eff2[k] = eff[k]}
<1>5. 0 \in In
  <2>1. (\A k \in 0..0 : k = 0) /\ 0 \in 0..Leaf
    BY <1>4
  <2> QED BY <1>4, <2>1
<1>6. ASSUME NEW m \in 0..Leaf - 1, m \in In
      PROVE  m + 1 \in In
  <2>1. m + 1 \in 1..Leaf /\ \A k \in 0..m + 1 : k \in 0..m \/ k = m + 1
    BY <1>4
  <2>2. \A k \in 0..m : eff2[k] = eff[k]
    BY <1>6
  <2>3. PICK c, c2 : c = CountedOf(br, eff, m + 1) /\ c2 = CountedOf(br2, eff2, m + 1)
    OBVIOUS
  <2>4. ASSUME NEW r \in c
        PROVE  r \in c2 /\ br2[r[1]][r[2]] = br[r[1]][r[2]]
    <3>1. r \in BlocksOf(br) /\ r[1] < m + 1 /\ Counts(br[r[1]][r[2]], eff[r[1]])
      BY <2>3, <2>4 DEF CountedOf, RecordsOf
    <3>2. r \in BlocksOf(br2) /\ br2[r[1]][r[2]] = br[r[1]][r[2]]
      BY <1>1, <1>2, <3>1, BlocksStay
    <3>3. r[1] \in 0..m
      BY <1>4, <3>1, BlockAt
    <3>4. Counts(br2[r[1]][r[2]], eff2[r[1]])
      BY <2>2, <3>1, <3>2, <3>3
    <3> QED BY <2>3, <2>4, <3>2, <3>4 DEF CountedOf, RecordsOf
  <2>5. ASSUME NEW r \in c2
        PROVE  r \in c
    <3>1. r \in BlocksOf(br2) /\ r[1] < m + 1 /\ Counts(br2[r[1]][r[2]], eff2[r[1]])
      BY <2>3, <2>5 DEF CountedOf, RecordsOf
    <3>2. r[1] \in 0..m
      <4>1. r[1] \in Nodes
        BY <1>1, <3>1, BlockAt
      <4> QED BY <1>4, <3>1, <4>1
    <3>3. r \in BlocksOf(br)
      BY <1>3, <2>2, <3>1, <3>2
    <3>4. br2[r[1]][r[2]] = br[r[1]][r[2]]
      BY <1>1, <1>2, <3>3, BlocksStay
    <3> QED BY <2>2, <2>3, <2>5, <3>1, <3>2, <3>3, <3>4 DEF CountedOf, RecordsOf
  <2>6. c2 = c
    BY <2>4, <2>5
  <2>7. WordOf(br2, c) = WordOf(br, c)
    <3>1. CASE c = {}
      BY <3>1 DEF WordOf
    <3>2. CASE c # {}
      <4>1. c \in SUBSET BlocksOf(br)
        BY <2>3 DEF CountedOf, RecordsOf
      <4>2. LastOf(OwnOf(c)) \in OwnOf(c) /\ OwnOf(c) \subseteq c
        BY <3>2, <4>1, OwnHas
      <4>3. SumUp(br2, OwnOf(c)) = SumUp(br, OwnOf(c))
        BY <2>4, <4>2, SumSame
      <4> QED BY <3>2, <4>3 DEF WordOf
    <3> QED BY <3>1, <3>2
  <2>8. eff2[m + 1] = eff[m + 1]
    BY <1>w, <2>1, <2>3, <2>6, <2>7
  <2>9. \A k \in 0..m + 1 : eff2[k] = eff[k]
    BY <2>1, <2>2, <2>8
  <2>10. m + 1 \in 0..Leaf
    BY <1>4
  <2> QED BY <2>9, <2>10
<1>7. \A m \in 0..Leaf : m \in In
  <2> HIDE DEF In
  <2>1. \A i \in 0..Leaf - 1 : i \in In => i + 1 \in In
    BY <1>6
  <2> QED BY <1>4, <1>5, <2>1, UpTo
<1>8. \A m \in Nodes : eff2[m] = eff[m]
  <2> TAKE m \in Nodes
  <2>1. m \in 0..m /\ m \in 0..Leaf
    BY <1>4
  <2> QED BY <1>7, <2>1
<1>9. eff = [m \in Nodes |-> eff[m]] /\ eff2 = [m \in Nodes |-> eff2[m]]
  BY EffReads
<1> QED BY <1>8, <1>9

\* A stolen key is powerless once its branch is revoked: what the thief dates
\* after the compromise changes nothing for any node, revocations of the nodes
\* below included.
THEOREM HijackIsPowerless == Spec => HijackFails
<1>1. ASSUME IInv, [Next]_vars
      PROVE  [\A was \in {Eff} : \A n \in DOMAIN tree :
                /\ branch'[n] # branch[n]
                /\ \E e \in was[n], b \in {branch'[n][Len(branch'[n])]} :
                     b.signer = tree[n].key /\ b.time > e.since
                => Eff' = was]_branch
  <2>1. ASSUME NEW was, was = Eff, NEW n \in DOMAIN tree, branch'[n] # branch[n],
               NEW e \in was[n], NEW b, b = branch'[n][Len(branch'[n])],
               b.signer = tree[n].key, b.time > e.since
        PROVE  Eff' = was
    <3>1. PICK m \in DOMAIN tree : \E c \in BlockType : Writing(m, c)
      BY <1>1, <2>1, StepWrites
    <3>2. PICK c \in BlockType : Writing(m, c)
      BY <3>1
    <3>3. n \in Nodes /\ m \in Nodes /\ branch \in [Nodes -> Seq(BlockType)]
      BY <1>1, TypeFacts DEF IInv
    <3>4. m = n
      BY <2>1, <3>2, <3>3 DEF Writing, Longer
    <3>5. PICK br, br2 : br = branch /\ br2 = branch'
      OBVIOUS
    <3>6. br2 = Longer(br, n, c) /\ br \in [Nodes -> Seq(BlockType)]
      BY <3>2, <3>3, <3>4, <3>5 DEF Writing
    <3>8. b = c
      BY <2>1, <3>3, <3>5, <3>6, LastIs
    <3>9. was = EffOf(br) /\ Eff' = EffOf(br2)
      BY <2>1, <3>5, EffIsOf
    <3>10. was[n] = {e} /\ e \in StateType
      BY <2>1, <3>3, <3>6, <3>9, EffSays
    <3>11. e.replacement # NoKey => tree[n].key # e.replacement
      <4>1. PICK w : w = StatusWalk(branch[n], tree[n].key, was[n])
        OBVIOUS
      <4>2. 0 \in 0..Len(branch[n])
        <5>1. Len(branch[n]) \in Nat
          BY <3>3
        <5> QED BY <5>1
      <4>3. was = EffOf(branch)
        BY <3>5, <3>9
      <4> QED BY <1>1, <2>1, <4>1, <4>2, <4>3, ReplacementIsNoLine
    <3>12. ~(c.time <= e.since)
      BY <2>1, <3>8, <3>10, ChainAssumption DEF BlockType, StateType, Times
    <3>13. ~Counts(c, was[n])
      BY <2>1, <3>8, <3>10, <3>11, <3>12 DEF Counts
    <3>14. ASSUME NEW eff2, eff2 = EffOf(br2)
           PROVE  eff2 = was
      BY <3>3, <3>6, <3>9, <3>13, <3>14, UncountedIsNothing
    <3> QED BY <3>9, <3>14
  <2> QED BY <2>1
<1> QED BY <1>1, Invariance, PTL DEF Spec, HijackFails

-----------------------------------------------------------------------------
(* Marks before a step and after it.                                       *)

\* Marks already given stay as the walk goes on, and an unreadable branch stays
\* unreadable.
LEMMA MarksStay ==
  ASSUME NEW bs \in Seq(BlockType), NEW key \in KeyOr, NEW state \in States,
         NEW w, w = StatusWalk(bs, key, state),
         NEW from \in 0..Len(bs), ~w[Len(bs)].broken
  PROVE  /\ ~w[from].broken
         /\ \A k \in 1..from : w[Len(bs)].marks[k] = w[from].marks[k]
<1>1. /\ w \in [0..Len(bs) -> StatusType]
      /\ \A i \in 1..Len(bs) : w[i] = Classify(w[i - 1], bs[i], state)
  BY StatusWalks
<1>2. Len(bs) \in Nat /\ \A i \in 1..Len(bs) : bs[i] \in BlockType
  OBVIOUS
<1>3. \A i \in 0..Len(bs) : ~w[i].broken => Len(w[i].marks) = i
  BY WalkLine
<1> DEFINE Held(i) == ~w[i].broken => /\ ~w[from].broken
                                      /\ \A k \in 1..from : w[i].marks[k] = w[from].marks[k]
           In == {i \in 0..Len(bs) : from <= i => Held(i)}
<1>4. 0 \in In
  <2>1. from <= 0 => from = 0
    BY <1>2
  <2> QED BY <1>2, <2>1
<1>5. ASSUME NEW i \in 0..Len(bs) - 1, i \in In
      PROVE  i + 1 \in In
  <2>1. /\ i + 1 \in 1..Len(bs) /\ i + 1 \in 0..Len(bs) /\ i \in 0..Len(bs)
        /\ (i + 1) - 1 = i
    BY <1>2
  <2>2. CASE from > i
    <3>1. from <= i + 1 => from = i + 1
      BY <1>2, <2>2
    <3> QED BY <2>1, <3>1
  <2>3. CASE from <= i
    <3>1. PICK st, new : st = w[i] /\ new = w[i + 1]
      OBVIOUS
    <3>2. /\ st \in StatusType /\ bs[i + 1] \in BlockType
          /\ new = Classify(st, bs[i + 1], state)
      BY <1>1, <1>2, <2>1, <3>1
    <3>3. ~new.broken => /\ ~st.broken
                         /\ \E m \in Marks : new.marks = Append(st.marks, m)
      <4>1. Zone(bs[i + 1], state) \in Marks /\ "clean" \in Marks /\ "invalid" \in Marks
        BY DEF Zone, Marks
      <4> QED BY <3>2, <4>1, ClassifyCases
    <3>4. st.marks \in Seq(Marks) /\ (~st.broken => Len(st.marks) = i)
      BY <1>3, <2>1, <3>1, <3>2 DEF StatusType
    <3>5. ~new.broken => \A k \in 1..i : new.marks[k] = st.marks[k]
      <4> SUFFICES ASSUME ~new.broken
                   PROVE  \A k \in 1..i : new.marks[k] = st.marks[k]
        OBVIOUS
      <4>1. PICK m \in Marks : new.marks = Append(st.marks, m)
        BY <3>3
      <4>2. PICK seq : seq = st.marks
        OBVIOUS
      <4>3. seq \in Seq(Marks) /\ Len(seq) = i
        BY <3>3, <3>4, <4>2
      <4>4. \A k \in 1..i : Append(seq, m)[k] = seq[k]
        BY <4>3
      <4> QED BY <4>1, <4>2, <4>4
    <3>6. \A k \in 1..from : k \in 1..i
      BY <1>2, <2>3
    <3>7. Held(i)
      BY <1>5, <2>3
    <3>8. Held(i + 1)
      BY <3>1, <3>3, <3>5, <3>6, <3>7
    <3> QED BY <2>1, <3>8
  <2> QED BY <1>2, <2>2, <2>3
<1>6. \A i \in 0..Len(bs) : i \in In
  <2> HIDE DEF In
  <2>1. \A i \in 0..Len(bs) - 1 : i \in In => i + 1 \in In
    BY <1>5
  <2> QED BY <1>2, <1>4, <2>1, UpTo
<1> QED BY <1>2, <1>6

\* Two states of a node by one author, the later one setting the compromise no
\* later: of one prefix, readable under both, each block under suspicion first
\* is under suspicion then.
LEMMA SuspectsStay ==
  ASSUME NEW bs \in Seq(BlockType), NEW bs2 \in Seq(BlockType), Len(bs) <= Len(bs2),
         \A i \in 1..Len(bs) : bs2[i] = bs[i],
         NEW key \in KeyOr, NEW s \in States, NEW s2 \in States,
         NEW e \in s, NEW f \in s2, f.since <= e.since,
         NEW w, w = StatusWalk(bs, key, s),
         NEW w2, w2 = StatusWalk(bs2, key, s2),
         ~w[Len(bs)].broken, ~w2[Len(bs2)].broken
  PROVE  \A k \in 1..Len(bs) : w[Len(bs)].marks[k] # "clean" =>
                                 w2[Len(bs2)].marks[k] # "clean"
<1>1. /\ w \in [0..Len(bs) -> StatusType]
      /\ w[0] = StatusStart(key)
      /\ \A i \in 1..Len(bs) : w[i] = Classify(w[i - 1], bs[i], s)
  BY StatusWalks
<1>2. /\ w2 \in [0..Len(bs2) -> StatusType]
      /\ w2[0] = StatusStart(key)
      /\ \A i \in 1..Len(bs2) : w2[i] = Classify(w2[i - 1], bs2[i], s2)
  BY StatusWalks
<1>3. /\ Len(bs) \in Nat /\ Len(bs2) \in Nat /\ \A i \in 1..Len(bs) : bs[i] \in BlockType
      /\ \A i \in 0..Len(bs) : i \in 0..Len(bs2)
  OBVIOUS
<1>4. \A i \in 0..Len(bs) : ~w[i].broken /\ Len(w[i].marks) = i
  BY <1>3, MarksStay, WalkLine
<1>5. \A i \in 0..Len(bs) : ~w2[i].broken /\ Len(w2[i].marks) = i
  BY <1>3, MarksStay, WalkLine
<1>6. s = {e} /\ s2 = {f} /\ e.since \in Int /\ f.since \in Int
  BY StateCases, ChainAssumption DEF StateType, Times
<1>7. ASSUME NEW b \in BlockType, Zone(b, s) # "clean"
      PROVE  Zone(b, s2) # "clean"
  <2>1. b.time \in Int
    BY ChainAssumption DEF BlockType, Times
  <2> QED BY <1>6, <1>7, <2>1 DEF Zone
<1> DEFINE Same(i) == /\ w2[i].lineage = w[i].lineage /\ w2[i].current = w[i].current
                      /\ \A k \in 1..i : w[i].marks[k] # "clean" => w2[i].marks[k] # "clean"
           In == {i \in 0..Len(bs) : Same(i)}
<1>8. 0 \in In
  <2>1. \A k \in 1..0 : FALSE
    OBVIOUS
  <2> QED BY <1>1, <1>2, <1>3, <2>1
<1>9. ASSUME NEW i \in 0..Len(bs) - 1, i \in In
      PROVE  i + 1 \in In
  <2>1. /\ i + 1 \in 1..Len(bs) /\ i + 1 \in 0..Len(bs) /\ i \in 0..Len(bs)
        /\ i + 1 \in 1..Len(bs2) /\ (i + 1) - 1 = i
    BY <1>3
  <2>2. PICK b, st, st2, new, new2 :
          b = bs[i + 1] /\ st = w[i] /\ st2 = w2[i] /\ new = w[i + 1] /\ new2 = w2[i + 1]
    OBVIOUS
  <2>3. /\ st \in StatusType /\ b \in BlockType /\ new = Classify(st, b, s)
        /\ ~st.broken /\ ~new.broken /\ Len(st.marks) = i
    BY <1>1, <1>3, <1>4, <2>1, <2>2
  <2>4. /\ st2 \in StatusType /\ new2 = Classify(st2, b, s2)
        /\ ~st2.broken /\ ~new2.broken /\ Len(st2.marks) = i
    <3>1. w2[i + 1] = Classify(w2[i], bs2[i + 1], s2) /\ w2[i] \in StatusType
      BY <1>2, <1>3, <2>1
    <3>2. bs2[i + 1] = b
      BY <2>1, <2>2
    <3> QED BY <1>5, <2>1, <2>2, <3>1, <3>2
  <2>5. /\ st2.lineage = st.lineage /\ st2.current = st.current
        /\ \A k \in 1..i : st.marks[k] # "clean" => st2.marks[k] # "clean"
    BY <1>9, <2>2
  <2>6. /\ new2.lineage = new.lineage /\ new2.current = new.current
        /\ \E m, m2 \in Marks : /\ new.marks = Append(st.marks, m)
                                /\ new2.marks = Append(st2.marks, m2)
                                /\ m # "clean" => m2 # "clean"
    <3>0. /\ Zone(b, s) \in Marks /\ Zone(b, s2) \in Marks
          /\ "clean" \in Marks /\ "invalid" \in Marks /\ "invalid" # "clean"
      BY DEF Zone, Marks
    <3>1. CASE st.current = NoKey /\ b.signer = st.lineage
      <4>1. /\ new.lineage = After(b, st.lineage) /\ new.current = NoKey
            /\ new.marks = Append(st.marks, Zone(b, s))
        BY <2>3, <3>1, ClassifyCases
      <4>2. /\ new2.lineage = After(b, st2.lineage) /\ new2.current = NoKey
            /\ new2.marks = Append(st2.marks, Zone(b, s2))
        BY <2>3, <2>4, <2>5, <3>1, ClassifyCases
      <4> QED BY <1>7, <2>3, <2>5, <3>0, <4>1, <4>2
    <3>2. CASE st.current = NoKey /\ b.signer # st.lineage
      <4>1. /\ new.lineage = st.lineage /\ new.current = After(b, b.signer)
            /\ new.marks = Append(st.marks, "clean")
        BY <2>3, <3>2, ClassifyCases
      <4>2. /\ new2.lineage = st2.lineage /\ new2.current = After(b, b.signer)
            /\ new2.marks = Append(st2.marks, "clean")
        BY <2>3, <2>4, <2>5, <3>2, ClassifyCases
      <4> QED BY <2>5, <3>0, <4>1, <4>2
    <3>3. CASE st.current # NoKey /\ b.signer = st.current
      <4>1. /\ new.lineage = st.lineage /\ new.current = After(b, st.current)
            /\ new.marks = Append(st.marks, "clean")
        BY <2>3, <3>3, ClassifyCases
      <4>2. /\ new2.lineage = st2.lineage /\ new2.current = After(b, st2.current)
            /\ new2.marks = Append(st2.marks, "clean")
        BY <2>3, <2>4, <2>5, <3>3, ClassifyCases
      <4> QED BY <2>5, <3>0, <4>1, <4>2
    <3>4. CASE st.current # NoKey /\ b.signer # st.current
      <4>1. /\ new.lineage = st.lineage /\ new.current = st.current
            /\ new.marks = Append(st.marks, "invalid")
        BY <2>3, <3>4, ClassifyCases
      <4>2. /\ new2.lineage = st2.lineage /\ new2.current = st2.current
            /\ new2.marks = Append(st2.marks, "invalid")
        BY <2>3, <2>4, <2>5, <3>4, ClassifyCases
      <4> QED BY <2>5, <3>0, <4>1, <4>2
    <3> QED BY <3>1, <3>2, <3>3, <3>4
  <2>7. PICK m, m2 \in Marks : /\ new.marks = Append(st.marks, m)
                               /\ new2.marks = Append(st2.marks, m2)
                               /\ m # "clean" => m2 # "clean"
    BY <2>6
  <2>8. st.marks \in Seq(Marks) /\ st2.marks \in Seq(Marks)
    BY <2>3, <2>4 DEF StatusType
  <2>9. \A k \in 1..i : new.marks[k] = st.marks[k] /\ new2.marks[k] = st2.marks[k]
    BY <2>3, <2>4, <2>7, <2>8
  <2>10. new.marks[i + 1] = m /\ new2.marks[i + 1] = m2
    BY <2>3, <2>4, <2>7, <2>8
  <2>11. \A k \in 1..i + 1 : new.marks[k] # "clean" => new2.marks[k] # "clean"
    <3>1. \A k \in 1..i + 1 : k \in 1..i \/ k = i + 1
      BY <2>1
    <3> QED BY <2>5, <2>7, <2>9, <2>10, <3>1
  <2> QED BY <2>1, <2>2, <2>6, <2>11
<1>10. \A i \in 0..Len(bs) : i \in In
  <2> HIDE DEF In
  <2>1. \A i \in 0..Len(bs) - 1 : i \in In => i + 1 \in In
    BY <1>9
  <2> QED BY <1>3, <1>8, <2>1, UpTo
<1>11. Len(bs) \in 0..Len(bs) /\ Len(bs) \in 0..Len(bs2)
  BY <1>3
<1>12. \A k \in 1..Len(bs) : w2[Len(bs2)].marks[k] = w2[Len(bs)].marks[k]
  BY <1>11, MarksStay
<1> QED BY <1>10, <1>11, <1>12

\* While one author who is not revoked himself decides about a branch, a block
\* under suspicion is never cleared.
THEOREM SuspicionNeverCleared == Spec => SuspicionStays
<1>1. ASSUME IInv, [Next]_vars
      PROVE  [\A was \in {Eff}, is \in {Eff'} : \A n \in DOMAIN tree :
               (\E e \in was[n], f \in is[n] :
                  e.author = f.author /\ was[e.author] = {} /\ is[e.author] = {}) =>
                 \A st \in {Status(n, was[n])}, new \in {Status(n, is[n])'} :
                   ~st.broken /\ ~new.broken =>
                     \A i \in DOMAIN st.marks :
                       st.marks[i] # "clean" => new.marks[i] # "clean"]_vars
  <2>1. ASSUME NEW was, was = Eff, NEW is, is = Eff', NEW n \in DOMAIN tree,
               NEW e \in was[n], NEW f \in is[n], e.author = f.author,
               was[e.author] = {}, is[e.author] = {},
               NEW st, st = Status(n, was[n]), NEW new, new = Status(n, is[n])',
               ~st.broken, ~new.broken
        PROVE  \A i \in DOMAIN st.marks : st.marks[i] # "clean" => new.marks[i] # "clean"
    <3>1. PICK br, br2 : br = branch /\ br2 = branch'
      OBVIOUS
    <3>2. /\ br \in [Nodes -> Seq(BlockType)] /\ br2 \in [Nodes -> Seq(BlockType)]
          /\ Continues(br, br2)
      BY <1>1, <3>1, StepContinues
    <3>3. was = EffOf(br) /\ is = EffOf(br2)
      BY <2>1, <3>1, EffIsOf
    <3>4. n \in Nodes /\ tree[n].key \in KeyOr /\ tree'[n] = tree[n]
      BY <1>1, TypeFacts, TreeGrows DEF IInv, KeyOr
    <3>5. was[n] \in States /\ is[n] \in States /\ e \in StateType
      BY <2>1, <3>2, <3>3, <3>4, EffSays
    <3>6. f.since <= e.since
      <4>1. PICK a : a = e.author
        OBVIOUS
      <4>2. a \in Nodes /\ was[a] = {} /\ is[a] = {} /\ e.author = a
        BY <2>1, <3>5, <4>1 DEF StateType
      <4>3. Heard(is[n], a, e, br, br2)
        BY <2>1, <3>2, <3>3, <3>4, <4>2, AuthorHeard
      <4> QED BY <2>1, <4>1, <4>3 DEF Heard
    <3>7. PICK bs, bs2, s, s2, key :
            bs = br[n] /\ bs2 = br2[n] /\ s = was[n] /\ s2 = is[n] /\ key = tree[n].key
      OBVIOUS
    <3>8. PICK w, w2 : w = StatusWalk(bs, key, s) /\ w2 = StatusWalk(bs2, key, s2)
      OBVIOUS
    <3>9. st = w[Len(bs)]
      BY <2>1, <3>1, <3>7, <3>8, StatusIsWalk
    <3>10. new = w2[Len(bs2)]
      BY <2>1, <3>1, <3>4, <3>7, <3>8, StatusIsWalk
    <3>11. /\ bs \in Seq(BlockType) /\ bs2 \in Seq(BlockType) /\ Len(bs) <= Len(bs2)
           /\ \A i \in 1..Len(bs) : bs2[i] = bs[i]
           /\ key \in KeyOr /\ s \in States /\ s2 \in States /\ e \in s /\ f \in s2
      BY <2>1, <3>2, <3>4, <3>5, <3>7 DEF Continues
    <3>12. \A k \in 1..Len(bs) : w[Len(bs)].marks[k] # "clean" =>
                                   w2[Len(bs2)].marks[k] # "clean"
      BY <2>1, <3>6, <3>8, <3>9, <3>10, <3>11, SuspectsStay
    <3>13. DOMAIN st.marks = 1..Len(bs)
      <4>1. Len(bs) \in 0..Len(bs)
        BY <3>11
      <4>2. Len(st.marks) = Len(bs)
        BY <2>1, <3>8, <3>9, <3>11, <4>1, WalkLine
      <4>3. w \in [0..Len(bs) -> StatusType]
        BY <3>8, <3>11, StatusWalks
      <4>4. st.marks \in Seq(Marks)
        BY <3>9, <4>1, <4>3 DEF StatusType
      <4> QED BY <4>2, <4>4
    <3> QED BY <3>9, <3>10, <3>12, <3>13
  <2> QED BY <2>1
<1> QED BY <1>1, Invariance, PTL DEF Spec, SuspicionStays

=============================================================================
